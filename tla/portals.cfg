SPECIFICATION Spec
CONSTANTS
    StmtNames = {s1}
    PortalNames = {p1, p2}
    Params = {a1, a2}
    Nulls = nulls
    SimpleQueries <- Block
    ExtendedQueries <- Writes
    Handles = {h1, h2, h3, h4}
    Cursors = {c1, c2, c3}
    NoRows = noRows
    Work = {w1}
    MaxSaves = 1
    Faults <- AllFaults
SYMMETRY Symmetry
INVARIANTS ResourcesTracked CloseReleases EffectAtMostOnce
