\* A login and a reset of the same account overlap.
SPECIFICATION ModeratedSpec
CONSTANTS
    Users = {u1}
    Sessions = {s1, s2}
    ResetTokens = {k1}
    Requests = {c1, c2}
    MaxPasswords = 2
    MaxSuspensions = 1
    Reviews = {m1}
    None = None
INVARIANTS
    SessionsKnowThePassword
