\* An object type deleted by a request whose reply is lost.
CONSTANTS
  Procs = {p1, p2}
  Ids = {u1, u2, u3}
  Values = {v1, v2}
  Keys = {k1}
  Nil = Nil
  Err = Err
  Mutations = {"purge"}
  Faults = {"lost"}
  FlushesAlone = TRUE
  MaxMutators = 1
SPECIFICATION Spec
SYMMETRY Symmetric
INVARIANTS CoherentWhenQuiet
