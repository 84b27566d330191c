CONSTANTS
  Threads = {t1, t2}
  FlushTime = 1
  BufferTime = 2
  MaxNow = 4
  MaxLogs = 3
SPECIFICATION Spec
INVARIANTS
  NothingLostOrRepeated
  InOrder
PROPERTIES
  ReaderDelivers
CHECK_DEADLOCK FALSE
