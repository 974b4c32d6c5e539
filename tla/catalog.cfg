SPECIFICATION Spec
CONSTANTS
    Sessions = {c1}
    TableNames <- SomeNames
    Lookalikes <- Looks
    ModuleNames <- Modules
    ViewNames <- Views
    Spelled <- Spellings
    Definitions <- SomeDefinitions
    ToLower <- LowerCase
    Decimal <- Numbers
    MaxRow = 5
INVARIANTS TypeOK OneRowPerColumn TypesResolve EnumsExact RelationsResolve OidsDistinct KeysAgree ParentsResolve
PROPERTIES OidKept
