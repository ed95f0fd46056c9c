\* Two goroutines, two types on pages of one.
CONSTANTS
  Procs = {p1, p2}
  Ids = {u1, u2, u3}
  Last = 2
  Defs = {v1, v2}
  v1 = v1
  v2 = v2
  Nil = Nil
  PageSize = 1
  Asked <- NoFilter
  Faults = {"refused"}
  Mixes <- SeveralMixes
SPECIFICATION Spec
SYMMETRY Symmetric
INVARIANTS TypeOK CoherentWhenQuiet ListsWhatWasThere
