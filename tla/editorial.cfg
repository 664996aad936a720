\* One publication, two overlapping requests, one worker that may die.
SPECIFICATION Spec
CONSTANTS
    Pubs = {p1}
    Texts = {t1, t2}
    DigestTexts = {}
    Verifiable = {p1}
    Clients = {c1, c2}
    Workers = {w1}
    MaxRevision = 2
    MaxAttempts = 1
    Crashes = TRUE
    None = None
SYMMETRY Symmetry
INVARIANTS
    TypeOK
    RevisionHistory
    PublishedOnce
    AuditExplainsStatus
    ReviewsBelongToRevisions
    SnapshotsAreOld
PROPERTIES
    ImplementsRevisionLog
    TimeIsLostInARace
