\* Two updates that overlap, one of which the server refuses.
CONSTANTS
  Procs = {p1, p2, p3}
  Ids = {u1, u2, u3, u4}
  Values = {v1, v2}
  Keys = {k1}
  Nil = Nil
  Err = Err
  Mutations = {"update"}
  Faults = {"refused"}
  FlushesAlone = TRUE
  MaxMutators = 2
SPECIFICATION Spec
SYMMETRY Symmetric
INVARIANTS CoherentWhenQuiet
