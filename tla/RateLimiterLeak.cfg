\* Three callers that release slots in a window of two buckets.
CONSTANTS
  Callers = {p1, p2, p3}
  Buckets = {1, 2}
  Windows <- Growing
  Limit = 2
  Faults = {}
SPECIFICATION Spec
SYMMETRY Symmetric
INVARIANTS SlotsAccounted
