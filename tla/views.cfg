SPECIFICATION Spec
CONSTANTS
    Sessions = {c1}
    TableNames <- SomeNames
    Lookalikes <- NoNames
    ModuleNames <- NoNames
    ViewNames <- Views
    Spelled <- Spellings
    Definitions <- SomeDefinitions
    ToLower <- LowerCase
    Decimal <- Numbers
    MaxRow = 4
INVARIANTS NeverFails
