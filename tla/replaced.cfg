SPECIFICATION Spec
CONSTANTS
    StmtNames = {s1}
    PortalNames = {p1}
    Params = {a1}
    Nulls = nulls
    SimpleQueries <- Block
    ExtendedQueries <- Returning
    Handles = {h1, h2, h3, h4}
    Cursors = {c1, c2, c3}
    NoRows = noRows
    Work = {w1, w2}
    MaxSaves = 1
    Faults <- NoFaults
SYMMETRY Symmetry
INVARIANTS AckedRan
