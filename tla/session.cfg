SPECIFICATION Spec
CONSTANTS
    StmtNames = {s1, s2}
    PortalNames = {p1}
    Params = {a1}
    Nulls = nulls
    SimpleQueries <- EverySimple
    ExtendedQueries <- TxExtended
    Handles = {h1, h2, h3, h4}
    Cursors = {c1, c2}
    NoRows = noRows
    Work = {w1}
    MaxSaves = 1
    Faults <- AllFaults
SYMMETRY Symmetry
INVARIANTS TypeOK ResourcesTracked
PROPERTIES FailedBlockDiscarded ErrorBarrier
