\* Clauses that are read up to the end, refused on the way, or cut off.
CONSTANTS
  Inputs <- MCInputs
  MaxTokens = 12
SPECIFICATION Spec
CHECK_DEADLOCK FALSE
INVARIANTS AcceptsOnlyClauses RefusesOnlyInvalid
PROPERTIES EveryClauseAnswered
