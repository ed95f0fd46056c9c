\* An update of an object clears the locks of the edges that are being deleted.
CONSTANTS
  Procs = {p1, p2}
  Ids = {u1, u2, u3}
  Objects = {s, t}
  Edges = {e1}
  s = s
  t = t
  Source <- OneSource
  Target <- OneTarget
  Type <- OneType
  Subjects = {s}
  Pairs <- OnePair
  Mixes <- UpdateMix
  Faults = {}
  MaxMutators = 2
  Rivals = FALSE
  Filtered = FALSE
SPECIFICATION Spec
SYMMETRY Symmetric
INVARIANTS CoherentWhenQuiet
