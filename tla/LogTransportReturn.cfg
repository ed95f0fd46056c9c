\* A Flush that overlaps a Close.
CONSTANTS
  Loggers = {w1}
  Closers = {c1}
  Flushers = {f1}
  Levels = {1}
  Room <- SmallRoom
  MaxRecords = 1
SPECIFICATION FairSpec
PROPERTIES CallsReturn
CHECK_DEADLOCK FALSE
