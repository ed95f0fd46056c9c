---------------------------- MODULE RateLimiter ----------------------------
(***************************************************************************)
(* Rate limit slots over Redis (ReserveRateLimitSlot and                   *)
(* ReleaseRateLimitSlot of infra/cache/redis_provider.go).  Slots are      *)
(* counted per bucket of time, one Redis key each, and a caller names the  *)
(* buckets of the window it is in, oldest first.  A call is a series of    *)
(* Redis commands, each a step of its own here; what it does between two   *)
(* commands touches only its own variables.                                *)
(*                                                                         *)
(* A call that is refused at once and one with takeSlot = FALSE change     *)
(* nothing and are left out.                                               *)
(***************************************************************************)
EXTENDS Integers, Sequences, FiniteSets

CONSTANTS Callers,
          Buckets,  \* the keys
          Windows,  \* the windows a caller is in as time goes by
          Limit,
          Faults    \* the faults this instance exercises

ASSUME RateLimiterAssumption ==
  /\ IsFiniteSet(Callers)
  /\ Limit \in Nat
  /\ Windows \in Seq(Seq(Buckets) \ {<<>>}) \ {<<>>}
  /\ Faults \subseteq {"straggler",  \* a call is still running when the window moves on
                       "expiry",     \* a bucket expires while it is in use
                       "abandoned"}  \* a command fails, or the caller goes away

VARIABLES count,    \* the slots counted in a bucket, 0 if it is missing
          live,     \* the buckets that exist
          volatile, \* those that will expire
          now,      \* the window callers are in
          op        \* what each caller is doing

vars == <<count, live, volatile, now, op>>

Window == Windows[now]
Span(ks) == {ks[i] : i \in DOMAIN ks}
Final(ks) == ks[Len(ks)]

Idle == [pc |-> "idle"]
Op == [pc : {"reserving"}, keys : Span(Windows), older : Nat, first : BOOLEAN]
        \cup [pc : {"expiring"}, keys : Span(Windows), total : Int]
        \cup [pc : {"refusing", "holding"}, keys : Span(Windows)]
        \cup UNION {[pc : {"releasing", "undoing"}, keys : {ks},
                     rest : (SUBSET DOMAIN ks) \ {{}}] : ks \in Span(Windows)}

Init == /\ count = [b \in Buckets |-> 0]
        /\ live = {}
        /\ volatile = {}
        /\ now = 1
        /\ op = [p \in Callers |-> Idle]

-----------------------------------------------------------------------------
Become(p, o) == op' = [op EXCEPT ![p] = o]

(* INCR and DECR create the bucket if it is missing. *)
Add(b, n) == /\ count' = [count EXCEPT ![b] = @ + n]
             /\ live' = live \cup {b}
             /\ UNCHANGED <<volatile, now>>

MGet(ks) == [i \in DOMAIN ks |-> count[ks[i]]]

(* The slots counted at the places I of what MGET returned: a pair for     *)
(* each, and none for a place that is negative.                            *)
Slots(vals, I) == Cardinality(UNION {{i} \X (1 .. vals[i]) : i \in I})
Older(vals) == Slots(vals, 1 .. Len(vals) - 1)

(* The first command of ReserveRateLimitSlot.  Only what the last bucket   *)
(* holds may count as negative.                                            *)
Reserve(p) ==
  LET vals == MGet(Window) IN
  /\ op[p] = Idle
  /\ Older(vals) + Final(vals) < Limit
  /\ Become(p, [pc |-> "reserving", keys |-> Window, older |-> Older(vals),
                first |-> Final(Window) \notin live])
  /\ UNCHANGED <<count, live, volatile, now>>

(* Wrong variant: what MGET found is taken to be still true. *)
Verdict_OnceBelow(total) == "holding"

Verdict(total) == IF total > Limit THEN "refusing" ELSE "holding"

(* The slot is taken first and the limit checked after. *)
TakeSlot(p) ==
  LET o == op[p]
      b == Final(o.keys)
      total == o.older + count[b] + 1
  IN /\ o.pc = "reserving"
     /\ Add(b, 1)
     /\ Become(p, IF o.first
                    THEN [pc |-> "expiring", keys |-> o.keys, total |-> total]
                    ELSE [pc |-> Verdict(total), keys |-> o.keys])

(* Whether EXPIRE succeeded is not looked at. *)
SetExpiry(p) == /\ op[p].pc = "expiring"
                /\ \/ volatile' = volatile \cup (live \cap {Final(op[p].keys)})
                   \/ "abandoned" \in Faults /\ UNCHANGED volatile
                /\ Become(p, [pc |-> Verdict(op[p].total), keys |-> op[p].keys])
                /\ UNCHANGED <<count, live, now>>

GiveBack(p) == /\ op[p].pc = "refusing"
               /\ Add(Final(op[p].keys), -1)
               /\ Become(p, Idle)

(* The first command of ReleaseRateLimitSlot: which buckets may hold a     *)
(* slot.  A caller is assumed to release a slot only while the window      *)
(* still reaches the bucket it is in.                                      *)
Release(p) ==
  LET full == {i \in DOMAIN Window : count[Window[i]] > 0} IN
  /\ op[p].pc = "holding" /\ Final(op[p].keys) \in Span(Window)
  /\ Become(p, IF full = {} THEN Idle
               ELSE [pc |-> "releasing", keys |-> Window, rest |-> full])
  /\ UNCHANGED <<count, live, volatile, now>>

Earliest(I) == CHOOSE i \in I : \A j \in I : i <= j

FreeSlot(p) ==
  LET o == op[p]
      b == o.keys[Earliest(o.rest)]
  IN /\ o.pc = "releasing"
     /\ Add(b, -1)
     /\ Become(p, IF count[b] > 0 THEN Idle ELSE [o EXCEPT !.pc = "undoing"])

(* Wrong variant: the loop does not stop after the last bucket. *)
NextBucket_Unbounded(o) == [o EXCEPT !.pc = "releasing", !.rest = @ \ {Earliest(o.rest)}]

NextBucket(o) ==
  LET rest == o.rest \ {Earliest(o.rest)} IN
  IF rest = {} THEN Idle ELSE [o EXCEPT !.pc = "releasing", !.rest = rest]

(* The bucket had been emptied since: put it right and try the next. *)
UndoFree(p) == /\ op[p].pc = "undoing"
               /\ Add(op[p].keys[Earliest(op[p].rest)], 1)
               /\ Become(p, NextBucket(op[p]))

-----------------------------------------------------------------------------
InFlight(p) == op[p].pc \notin {"idle", "holding"}

Abandon(p) == /\ "abandoned" \in Faults /\ InFlight(p)
              /\ Become(p, Idle)
              /\ UNCHANGED <<count, live, volatile, now>>

(* A slot is the caller's as long as the window reaches its bucket. *)
Lapse(p) == /\ op[p].pc = "holding" /\ Final(op[p].keys) \notin Span(Window)
            /\ Become(p, Idle)
            /\ UNCHANGED <<count, live, volatile, now>>

Tick == /\ now < Len(Windows)
        /\ "straggler" \in Faults \/ \A p \in Callers : ~InFlight(p)
        /\ now' = now + 1
        /\ UNCHANGED <<count, live, volatile, op>>

(* Timing assumption: the TTL outlives the window, and the calls in it. *)
Expire(b) ==
  /\ b \in volatile
  /\ \/ "expiry" \in Faults
     \/ /\ b \notin Span(Window)
        /\ ~\E p \in Callers : InFlight(p) /\ b \in Span(op[p].keys)
  /\ count' = [count EXCEPT ![b] = 0]
  /\ live' = live \ {b}
  /\ volatile' = volatile \ {b}
  /\ UNCHANGED <<now, op>>

Next ==
  \/ \E p \in Callers :
       \/ Reserve(p) \/ TakeSlot(p) \/ SetExpiry(p) \/ GiveBack(p)
       \/ Release(p) \/ FreeSlot(p) \/ UndoFree(p)
       \/ Abandon(p) \/ Lapse(p)
  \/ Tick
  \/ \E b \in Buckets : Expire(b)

Spec == Init /\ [][Next]_vars

-----------------------------------------------------------------------------
(* Every variable keeps the shape the comments above give it. *)
TypeOK == /\ count \in [Buckets -> Int]
          /\ live \subseteq Buckets
          /\ volatile \subseteq live
          /\ now \in DOMAIN Windows
          /\ op \in [Callers -> Op \cup {Idle}]

Holders == {p \in Callers : op[p].pc = "holding" /\ Final(op[p].keys) \in Span(Window)}

(* No more slots are out in the current window than the limit allows,      *)
(* although ReserveRateLimitSlot reads, takes and checks in separate        *)
(* commands, and although releases race with it for the same buckets.      *)
NeverOverLimit == Cardinality(Holders) <= Limit

(* Between calls the buckets of the window count the slots that are out:   *)
(* ReleaseRateLimitSlot frees one slot for every caller that gives one up. *)
SlotsAccounted ==
  (\A p \in Callers : ~InFlight(p))
    => Slots(MGet(Window), DOMAIN Window) = Cardinality(Holders)
=============================================================================
