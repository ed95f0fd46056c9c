\* Room left in the slices of the options: what callers append is shared.
CONSTANTS
  Callers = {p1, p2}
  Contents = {v1, v2}
  Nil = Nil
  p1 = p1
  p2 = p2
  v1 = v1
  v2 = v2
  Wants <- Rivals
  maxRetries = 2
  retryNetworkErrors = TRUE
  SpareCapacity = TRUE
  MaxTokens = 2
SPECIFICATION Spec
CHECK_DEADLOCK FALSE
INVARIANTS OwnOptions
