\* The seeded administrator and another user, two overlapping requests.  With no
\* administrator left, everybody an author and the bounds used up nothing can happen.
SPECIFICATION Spec
CONSTANTS
    Users = {u1, u2}
    RoleCodes = {"administrator", "author"}
    DemoAdministrators = {u1}
    SeedRows <- DemoRows
    Apps = {a1}
    Requests = {r1, r2}
    MaxGrants = 1
    MaxRevocations = 2
    None = None
SYMMETRY Symmetry
INVARIANTS
    GrantsBalance
    ApprovalsGrant
PROPERTIES
    LastAdministratorGoesInARace
CHECK_DEADLOCK FALSE
