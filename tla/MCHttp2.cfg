\* Reads, streams and tables are bounded, so behaviours stop; so do closed ones.
CONSTANTS
    Requests <- AllRequests
    Files <- TheFiles
    FrameSize = 3
    DefaultSize = 3
    TableSizes = {1}
    ClientLines <- TheLines
    Dates = {"d"}
    MaxStream = 5
    MaxReads = 2
    MaxFrames = 4
    MaxFields = 1
SPECIFICATION Spec
INVARIANTS ListIsWhole EveryStreamAnswered BodiesWhole LookupsAreRight
CHECK_DEADLOCK FALSE
