\* One account, two links, two overlapping requests of its owner or of moderators.
\* A deleted account whose suspensions are all used up has nothing left to do.
SPECIFICATION ModeratedSpec
CHECK_DEADLOCK FALSE
CONSTANTS
    Users = {u1}
    Sessions = {s1}
    ResetTokens = {k1, k2}
    Requests = {c1, c2}
    MaxPasswords = 3
    MaxSuspensions = 2
    Reviews = {m1, m2}
    None = None
CONSTRAINT ModeratorsAlone
SYMMETRY Symmetry
INVARIANTS
    TypeOK
    DeletedIsClosed
    ApprovedIsLifted
    LastSuspensionHolds
PROPERTIES
    LinksAreSingleUse
    NewPasswordRevokes
    ImplementsAccounts
