\* One mutation of an item at a time, every kind that takes the lock, any number of reads, every fault but the crash of a call that deletes.
CONSTANTS
  Procs = {p1, p2, p3}
  Ids = {u1, u2, u3, u4}
  Values = {v1, v2}
  Keys = {k1}
  Nil = Nil
  Err = Err
  Mutations = {"create", "update", "updateAndFlush", "delete"}
  Faults = {"refused", "lost", "dependency", "crash"}
  FlushesAlone = TRUE
  MaxMutators = 1
SPECIFICATION Spec
SYMMETRY Symmetric
INVARIANTS TypeOK Coherent
PROPERTIES Linearizable
