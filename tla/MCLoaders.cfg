\* Files of every kind with up to six elements.
SPECIFICATION LoaderSpec
CONSTANTS
    Types = {"xlsx", "csv", "json", "pdf", "docx", "text"}
    MaxElements = 6
    Lengths = {0, 1, 3}
    TableSizes = {0, 1, 2}
    MaxRows = 2
    MaxBlanks = 2
    FlushAt = 3
INVARIANTS
    RowsInOrder
    TextInOrder
    BlocksWellFormed
CHECK_DEADLOCK FALSE
