\* Two requests to the desk overlap on two issues and two publications.
SPECIFICATION Spec
CONSTANTS
    Issues = {i1, i2}
    Pubs = {p1, p2}
    Periods = {t1, t2}
    Requests = {r1, r2}
    MaxEdits = 1
    None = None
SYMMETRY Symmetry
INVARIANTS
    TypeOK
    LayoutIsOfMaterials
    PublishedIsComplete
PROPERTIES
    PublishedIsFrozen
    ListingIsReproducible
    ImplementsIssueDesk
