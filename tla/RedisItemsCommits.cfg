\* Callers of one item, most of whose operations may run out of retries.
CONSTANTS
  Procs = {p1, p2}
  Ids = {u1, u2, u3}
  Items = {v1, v2}
  Nil = Nil
  MayGiveUp <- Harmless
  Mixes <- AtomicMixes
SPECIFICATION Spec
SYMMETRY Symmetric
INVARIANTS TypeOK CoherentWhenQuiet
PROPERTIES CommitsAtomically
