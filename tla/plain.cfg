SPECIFICATION Spec
CONSTANTS
    StmtNames = {s1}
    PortalNames = {p1}
    Params = {a1}
    Nulls = nulls
    SimpleQueries <- PlainSimple
    ExtendedQueries <- PlainExtended
    Handles = {h1, h2, h3, h4}
    Cursors = {c1, c2, c3}
    NoRows = noRows
    Work = {w1, w2}
    MaxSaves = 1
    Faults <- AllFaults
SYMMETRY Symmetry
INVARIANTS TxHonest
PROPERTIES ImplementsBackend
