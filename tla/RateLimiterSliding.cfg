\* Four callers and a window of two buckets that moves on twice; it may stop once the windows run out.
CONSTANTS
  Callers = {p1, p2, p3, p4}
  Buckets = {1, 2, 3}
  Windows <- Sliding
  Limit = 3
  Faults = {"abandoned"}
SPECIFICATION Spec
SYMMETRY Symmetric
INVARIANTS TypeOK NeverOverLimit
CHECK_DEADLOCK FALSE
