\* Two deletes of one item.
CONSTANTS
  Procs = {p1, p2}
  Ids = {u1, u2, u3}
  Values = {v1, v2}
  Keys = {k1}
  Nil = Nil
  Err = Err
  Mutations = {"delete"}
  Faults = {}
  FlushesAlone = TRUE
  MaxMutators = 2
SPECIFICATION Spec
SYMMETRY Symmetric
INVARIANTS DeleteHoldsLock
