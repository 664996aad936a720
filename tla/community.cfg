\* Two overlapping requests of a reader or of moderators.
SPECIFICATION Spec
CONSTANTS
    Keys <- CallKeys
    Limit <- CallLimit
    Window = 4
    Second = 2
    MaxTime = 6
    Readers = {u1}
    Pubs = {p1}
    Comments = {c1}
    Reports = {s1, s2}
    Requests = {r1, r2}
    None = None
CONSTRAINT TimeOrContent
SYMMETRY Symmetry
INVARIANTS
    WindowIsKept
    WaitingHelps
    VisibilityIsAudited
    OneReportEach
