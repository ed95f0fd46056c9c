\* Clauses cut off and accepted, and clauses of the grammar refused: run with
\* -continue, each of the invariants fails.
CONSTANTS
  Inputs <- MCInputs
  MaxTokens = 12
SPECIFICATION Spec
CHECK_DEADLOCK FALSE
INVARIANTS AcceptsOnlyWhole RefusesOnlyUnreadable
