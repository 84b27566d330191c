\* A client that uses the dynamic table.
CONSTANTS
    Requests <- OneRequest
    Files <- TheFiles
    FrameSize = 3
    DefaultSize = 12
    TableSizes = {}
    ClientLines <- TwoLines
    Dates = {"d"}
    MaxStream = 3
    MaxReads = 2
    MaxFrames = 3
    MaxFields = 2
SPECIFICATION Spec
INVARIANTS IndexedFieldUnderstood
CHECK_DEADLOCK FALSE
