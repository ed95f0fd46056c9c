\* The documented filters, with values that are empty, of several lines or not all ASCII.
SPECIFICATION Spec
CONSTANTS
  Arbitrary = 0
  Allowed = 7
  Joint = 3
  Reusable = 0
  Requests <- WideRequests
INVARIANTS AcceptsAllDocumented
CHECK_DEADLOCK FALSE
