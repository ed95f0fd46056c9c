---------------------------- MODULE MCRedisItems ----------------------------
EXTENDS RedisItems, TLC

(* What may run out of retries without harm: taking a lock, storing what   *)
(* was read, and giving back the lock of a put.                            *)
Harmless ==
  {"WriteSentinel"} \X {"put", "delete"}
    \cup {"SetValue"} \X {"get", "list"}
    \cup {<<"ReleaseSentinel", "put">>}

(* One mutation at a time that the server may refuse, or two that succeed: *)
(* what the lock of an item protects in either provider.                   *)
AtomicMixes ==
  {[calls |-> {"get", "list", "put", "delete"}, faults |-> {"refused"}, mutators |-> 1],
   [calls |-> {"list", "put", "delete", "purge"}, faults |-> {"refused", "lost"}, mutators |-> 1],
   [calls |-> {"get", "list", "put"}, faults |-> {}, mutators |-> 2],
   [calls |-> {"get", "list", "delete"}, faults |-> {}, mutators |-> 2],
   [calls |-> {"get", "put", "delete"}, faults |-> {}, mutators |-> 2]}

Symmetric == Permutations(Procs) \cup Permutations(Ids) \cup Permutations(Items)
=============================================================================
