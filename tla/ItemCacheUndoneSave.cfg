\* An update and a delete overlap with a read whose save is undone.
CONSTANTS
  Procs = {p1, p2, p3}
  Ids = {u1, u2, u3, u4}
  Values = {v1, v2}
  Keys = {k1}
  Nil = Nil
  Err = Err
  Mutations = {"update", "delete"}
  Faults = {"dependency"}
  FlushesAlone = TRUE
  MaxMutators = 2
SPECIFICATION Spec
SYMMETRY Symmetric
INVARIANTS CoherentWhenQuiet
