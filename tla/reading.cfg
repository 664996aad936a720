\* Two readers among an article and a digest, on 31 December, 1 January and
\* 1 March, a page holding one material.
SPECIFICATION Spec
CONSTANTS
    Pubs = {p1, p2}
    Digests = {p2}
    Readers = {v1, v2}
    LastMonth = 3
    Start <- MonthStart
    Days = {30, 31, 90}
    Limit = 1
    MaxViews = 2
    None = None
CONSTRAINT AloneInFeed
SYMMETRY Symmetry
INVARIANTS
    ViewsAreCounted
    PagesMissNothing
    CandidatesOfTwoMonths
