\* Mutations of one item that overlap, with the reads between them; those that flush overlap no other.
CONSTANTS
  Procs = {p1, p2, p3}
  Ids = {u1, u2, u3, u4}
  Values = {v1, v2}
  Keys = {k1}
  Nil = Nil
  Err = Err
  Mutations = {"update", "delete", "updateAndFlush", "purge", "flush"}
  Faults = {}
  FlushesAlone = TRUE
  MaxMutators = 2
SPECIFICATION Spec
SYMMETRY Symmetric
INVARIANTS CoherentWhenQuiet
PROPERTIES DeleteKeepsLock
