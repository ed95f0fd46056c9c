---------------------------- MODULE AtomicItems ----------------------------
(***************************************************************************)
(* What a caller of the authorization client is promised: each call takes  *)
(* effect on the server's items at one instant between its start and its   *)
(* return, as if there were no cache.  A call that reports an error may or *)
(* may not have taken effect.                                              *)
(***************************************************************************)
CONSTANTS Procs, Items, Values, Nil, Err, Mutations

VARIABLES db,       \* the server's items, Nil for one that does not exist
          answer    \* what each call is about to return, or Waiting

vars == <<db, answer>>

Waiting == [kind |-> "none"]
Answer(kind, i, v) == [kind |-> kind, item |-> i, val |-> v]

Init == /\ db \in [Items -> Values \cup {Nil}]
        /\ answer = [p \in Procs |-> Waiting]

Reply(p, kind, i, v) == /\ answer[p] = Waiting
                        /\ answer' = [answer EXCEPT ![p] = Answer(kind, i, v)]

(* A call that changes nothing: a read, or a mutation that finds things as *)
(* it wants them.                                                          *)
Read(p, kind, i) == /\ db[i] # Nil
                    /\ Reply(p, kind, i, db[i])
                    /\ UNCHANGED db

Write(p, kind, i, v) == /\ kind # "get"
                        /\ Reply(p, kind, i, v)
                        /\ db' = [db EXCEPT ![i] = v]

Refuse(p, kind, i) == Reply(p, kind, i, Err) /\ UNCHANGED db

LoseReply(p, kind, i, v) == /\ kind # "get"
                            /\ Reply(p, kind, i, Err)
                            /\ db' = [db EXCEPT ![i] = v]

Return(p) == /\ answer[p] # Waiting
             /\ answer' = [answer EXCEPT ![p] = Waiting]
             /\ UNCHANGED db

Next == \E p \in Procs :
          \/ Return(p)
          \/ \E i \in Items, kind \in {"get"} \cup Mutations :
               \/ Read(p, kind, i)
               \/ Refuse(p, kind, i)
               \/ \E v \in Values \cup {Nil} :
                    Write(p, kind, i, v) \/ LoseReply(p, kind, i, v)

Spec == Init /\ [][Next]_vars

=============================================================================
