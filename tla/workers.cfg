\* Two workers that may die at any point compete for one publication's queue rows.
SPECIFICATION Spec
CONSTANTS
    Pubs = {p1}
    Texts = {t1}
    DigestTexts = {}
    Verifiable = {p1}
    Clients = {c1}
    Workers = {w1, w2}
    MaxRevision = 1
    MaxAttempts = 3
    Crashes = TRUE
    None = None
SYMMETRY Symmetry
INVARIANTS
    ExclusiveClaims
    TranslationIffReady
PROPERTIES
    ImplementsReviewQueue
    ImplementsTranslationQueue
    ImplementsMaterials
