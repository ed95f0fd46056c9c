\* Two callers that retry network errors; tokens run out and expire.
CONSTANTS
  Callers = {p1, p2}
  Contents = {v1, v2}
  Nil = Nil
  p1 = p1
  p2 = p2
  v1 = v1
  v2 = v2
  Wants <- Rivals
  maxRetries = 2
  retryNetworkErrors = TRUE
  SpareCapacity = FALSE
  MaxTokens = 2
SPECIFICATION Spec
CHECK_DEADLOCK FALSE
INVARIANTS TypeOK SendsFreshToken OutcomesTrue
PROPERTIES CallsEnd
