SPECIFICATION Spec
CHECK_DEADLOCK FALSE
CONSTANTS
    Imports = {i1, i2}
    Digits = {"1", "2"}
    MinLength = 3
    MaxPhone = 5
    MaxWa = 3
    MaxConsent = 2
    MaxRows = 2
    MaxCreates = 1
    MaxFaults = 1
    Rows <- MCRows
    Created <- MCCreated
SYMMETRY Symmetry
INVARIANTS
    TypeOK
    AnswerTellsFile
    ImportedKept
    RowsFromFiles
    RepeatChangesNothing
