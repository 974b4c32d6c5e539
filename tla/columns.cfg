SPECIFICATION Spec
CONSTANTS
    Names = {"a", "date"}
    Declarations <- Offered
    Shows <- ShowsAll
INVARIANTS  Decodable OneType
