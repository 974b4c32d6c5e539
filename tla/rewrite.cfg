SPECIFICATION MCSpec
CONSTANTS
    Texts <- ShortTexts
    Columns <- Spellings
    ToLower <- LowerCase
    Contents <- ContentsAll
    Depth = 2
    MaxText = 5
    LabelLists <- Labels
    Definitions <- TablesAll
    database = "db"
INVARIANTS ScannersCorrect Translated EnumsFound
PROPERTIES WellFormedKept Progresses LiteralsKept OrdinaryKept
CHECK_DEADLOCK FALSE
