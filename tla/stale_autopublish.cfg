\* An AI review in flight while requests change the material it is about.
SPECIFICATION Spec
CONSTANTS
    Pubs = {p1}
    Texts = {t1}
    DigestTexts = {}
    Verifiable = {p1}
    Clients = {c1}
    Workers = {w1}
    MaxRevision = 2
    MaxAttempts = 1
    Crashes = FALSE
    None = None
PROPERTY
    AutopublishCurrent
