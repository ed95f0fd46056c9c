---------------------------- MODULE MCItemCache ----------------------------
(* ItemCache for TLC: callers, sentinels and values are interchangeable. *)
EXTENDS ItemCache, TLC

Symmetric == Permutations(Procs) \cup Permutations(Ids)
               \cup Permutations(Values) \cup Permutations(Keys)
=============================================================================
