\* Two editors decide on one material at the same time.
SPECIFICATION FairSpec
CONSTANTS
    Pubs = {p1}
    Texts = {t1}
    DigestTexts = {}
    Verifiable = {}
    Clients = {c1, c2}
    Workers = {w1}
    MaxRevision = 1
    MaxAttempts = 1
    Crashes = FALSE
    None = None
PROPERTY
    DueIsTaken
