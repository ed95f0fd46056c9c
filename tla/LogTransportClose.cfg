\* Two callers of Log, a Flush and a Close; it may stop when all have returned, or when a nested Log and the Close wait for each other.
CONSTANTS
  Loggers = {w1, w2}
  Closers = {c1}
  Flushers = {f1}
  Levels = {0, 1, 3}
  Room <- SmallRoom
  MaxRecords = 4
SPECIFICATION FairSpec
INVARIANTS TypeOK InPostedOrder QueueSizeHonest QueueBounded GoneIsFlushed
PROPERTIES EventuallyWritten
CHECK_DEADLOCK FALSE
