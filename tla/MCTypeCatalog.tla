--------------------------- MODULE MCTypeCatalog ---------------------------
EXTENDS TypeCatalog, TLC

CONSTANTS v1, v2

SeveralMixes ==
  {[calls |-> {"list", "create", "delete"}, defs |-> {v1}, mutators |-> 2],
   [calls |-> {"list", "create", "update"}, defs |-> {v1, v2}, mutators |-> 1],
   [calls |-> {"list", "get", "update"}, defs |-> {v1, v2}, mutators |-> 2]}

(* Everybody lists all types. *)
NoFilter == [p \in Procs |-> Types]

Symmetric == Permutations(Procs) \cup Permutations(Ids)
=============================================================================
