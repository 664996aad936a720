\* A digest and an article, either of which may become the other, two requests
\* that overlap, and no worker: editors publish.
SPECIFICATION Spec
CONSTANTS
    Pubs = {p1, d1}
    Texts = {t1, g1}
    DigestTexts = {g1}
    Verifiable = {}
    Clients = {c1, c2}
    Workers = {}
    MaxRevision = 2
    MaxAttempts = 1
    Crashes = FALSE
    None = None
SYMMETRY DigestSymmetry
INVARIANT
    DigestItemsWerePublished
\* Everything may end rejected.
CHECK_DEADLOCK FALSE
