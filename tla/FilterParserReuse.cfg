\* The same option gives the Paginators of several calls their filter.
SPECIFICATION Spec
CONSTANTS
  Arbitrary = 0
  Allowed = 3
  Joint = 3
  Reusable = 9
  Requests <- MCRequests
PROPERTIES OptionsKept
CHECK_DEADLOCK FALSE
