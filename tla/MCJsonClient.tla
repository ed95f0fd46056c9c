---------------------------- MODULE MCJsonClient ----------------------------
EXTENDS JsonClient, TLC

CONSTANTS p1, p2, v1, v2

(* One caller creates or gets the item, the other creates a different one  *)
(* or deletes it.                                                          *)
Rivals == (p1 :> {[kind |-> "create", content |-> v1], [kind |-> "get", content |-> Nil]})
            @@ (p2 :> {[kind |-> "create", content |-> v2], [kind |-> "delete", content |-> Nil]})
=============================================================================
