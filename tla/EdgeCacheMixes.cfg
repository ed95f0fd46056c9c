\* An edge of s that is read, listed, created and deleted, two mutations at a time.
CONSTANTS
  Procs = {p1, p2}
  Ids = {u1, u2, u3}
  Objects = {s, t}
  Edges = {e1}
  s = s
  t = t
  Source <- OneSource
  Target <- OneTarget
  Type <- OneType
  Subjects = {s}
  Pairs <- OnePair
  Mixes <- SeveralMixes
  Faults = {"refused", "lost"}
  MaxMutators = 2
  Rivals = FALSE
  Filtered = FALSE
SPECIFICATION Spec
SYMMETRY Symmetric
INVARIANTS TypeOK CollectionsShowNoDeleted CoherentWhenQuiet
PROPERTIES DeletesBlockCollections
