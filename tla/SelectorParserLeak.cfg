\* The scanner of a clause that is refused.
CONSTANTS
  Inputs <- MCInputs
  MaxTokens = 12
SPECIFICATION Spec
CHECK_DEADLOCK FALSE
PROPERTIES ScannerEnds
