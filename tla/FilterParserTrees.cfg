SPECIFICATION Spec
CONSTANTS
  Arbitrary = 5
  Allowed = 15
  Joint = 9
  Reusable = 9
  Requests <- MCRequests
INVARIANTS TypeOK EndsBelowTheRoot AcceptsThePlain ReadsAsWritten
CHECK_DEADLOCK FALSE
