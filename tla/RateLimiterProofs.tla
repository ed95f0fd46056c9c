------------------------- MODULE RateLimiterProofs -------------------------
(***************************************************************************)
(* Proofs about RateLimiter: its type invariant; that callers who all use  *)
(* the same bucket never hold more slots than the limit, whatever their    *)
(* number and whichever of their calls are abandoned half way; and that    *)
(* they do not over a window of several buckets that moves on between      *)
(* calls.                                                                  *)
(***************************************************************************)
EXTENDS RateLimiter, FiniteSetTheorems, FunctionTheorems, WellFoundedInduction, TLAPS

-----------------------------------------------------------------------------
(* However many slots MGet reports, they are a number. *)
LEMMA SlotsFinite ==
  ASSUME NEW I, IsFiniteSet(I), NEW v, \A i \in I : v[i] \in Int
  PROVE  IsFiniteSet(UNION {{i} \X (1 .. v[i]) : i \in I})
<1> DEFINE f == [i \in I |-> {i} \X (1 .. v[i])]
           P == {f[i] : i \in I}
<1>1. IsFiniteSet(P)
  <2>1. f \in Surjection(I, P)
    BY DEF Surjection
  <2> QED
    BY <2>1, FS_Surjection
<1>2. ASSUME NEW s \in P PROVE IsFiniteSet(s)
  <2>1. PICK i \in I : s = {i} \X (1 .. v[i])
    OBVIOUS
  <2>2. v[i] \in Int
    OBVIOUS
  <2>3. IsFiniteSet({i})
    BY FS_Singleton
  <2>4. IsFiniteSet(1 .. v[i])
    BY <2>2, FS_Interval
  <2> QED
    BY <2>1, <2>3, <2>4, FS_Product
<1>3. IsFiniteSet(UNION P)
  BY <1>1, <1>2, FS_UNION
<1> QED
  BY <1>3

LEMMA SlotsNat ==
  ASSUME NEW I, IsFiniteSet(I), NEW vals, \A i \in I : vals[i] \in Int
  PROVE  Slots(vals, I) \in Nat
BY SlotsFinite, FS_CardinalityType DEF Slots

(* A window is a nonempty sequence of buckets. *)
LEMMA WindowShape ==
  ASSUME TypeOK
  PROVE  /\ Window \in Span(Windows)
         /\ Window \in Seq(Buckets) /\ Window # <<>>
BY RateLimiterAssumption DEF TypeOK, Window, Span

LEMMA KeysShape ==
  ASSUME NEW ks \in Span(Windows)
  PROVE  /\ ks \in Seq(Buckets) /\ Len(ks) \in Nat \ {0}
         /\ Len(ks) \in DOMAIN ks
         /\ Final(ks) \in Buckets
         /\ \A i \in DOMAIN ks : ks[i] \in Buckets
<1>1. ks \in Seq(Buckets) /\ ks # <<>>
  BY RateLimiterAssumption DEF Span
<1>2. Len(ks) \in Nat \ {0} /\ DOMAIN ks = 1 .. Len(ks)
  BY <1>1
<1> QED
  BY <1>1, <1>2 DEF Final

-----------------------------------------------------------------------------
(* The shape of every variable is kept by a caller that changes only what  *)
(* it is doing.                                                            *)
LEMMA BecomeType ==
  ASSUME TypeOK, NEW p \in Callers, NEW o \in Op \cup {Idle}, Become(p, o)
  PROVE  op' \in [Callers -> Op \cup {Idle}]
BY DEF TypeOK, Become

LEMMA AddType ==
  ASSUME TypeOK, NEW b \in Buckets, NEW n \in Int, Add(b, n)
  PROVE  /\ count' \in [Buckets -> Int] /\ live' \subseteq Buckets
         /\ volatile' \subseteq live' /\ now' \in DOMAIN Windows
BY DEF TypeOK, Add

LEMMA VerdictType ==
  ASSUME NEW ks \in Span(Windows), NEW t
  PROVE  [pc |-> Verdict(t), keys |-> ks] \in Op
BY DEF Verdict, Op

(* Every nonempty set of numbers has a least one. *)
LEMMA SmallestNat ==
  ASSUME NEW I \in SUBSET Nat, I # {}
  PROVE  \E i \in I : \A j \in I : i <= j
<1> DEFINE R == {ss \in Nat \X Nat : ss[1] < ss[2]}
<1>1. IsWellFoundedOn(R, Nat)
  BY NatLessThanWellFounded DEF OpToRel
<1>2. PICK i \in I : \A j \in I : ~ (<<j, i>> \in R)
  BY <1>1, WFMin
<1>3. ASSUME NEW j \in I PROVE i <= j
  <2>1. ~ (<<j, i>> \in R) /\ i \in Nat /\ j \in Nat
    BY <1>2
  <2>2. ~ (j < i)
    BY <2>1
  <2> QED
    BY <2>1, <2>2
<1> QED
  BY <1>3

LEMMA EarliestIsFirst ==
  ASSUME NEW I \in SUBSET Nat, I # {}
  PROVE  Earliest(I) \in I /\ \A j \in I : Earliest(I) <= j
<1>1. \E i \in I : \A j \in I : i <= j
  BY SmallestNat
<1> QED
  BY <1>1 DEF Earliest

(* A release looks at a bucket of its window, and at another one next.     *)
LEMMA FreeType ==
  ASSUME TypeOK, NEW p \in Callers, op[p].pc \in {"releasing", "undoing"}
  PROVE  LET o == op[p] IN
         /\ o.keys[Earliest(o.rest)] \in Buckets
         /\ [o EXCEPT !.pc = "undoing"] \in Op
         /\ NextBucket(o) \in Op \cup {Idle}
<1> DEFINE o == op[p]
           Releases == UNION {[pc : {"releasing", "undoing"}, keys : {ks},
                        rest : (SUBSET DOMAIN ks) \ {{}}] : ks \in Span(Windows)}
<1>1. o \in Releases
  BY DEF TypeOK, Op, Idle
<1>2. PICK ks \in Span(Windows) :
        o \in [pc : {"releasing", "undoing"}, keys : {ks}, rest : (SUBSET DOMAIN ks) \ {{}}]
  BY <1>1
<1>3. /\ o = [pc |-> o.pc, keys |-> ks, rest |-> o.rest]
      /\ o.keys = ks /\ o.rest \subseteq DOMAIN ks /\ o.rest # {}
  BY <1>2
<1>4. /\ DOMAIN ks \subseteq Nat
      /\ \A i \in DOMAIN ks : ks[i] \in Buckets
  BY KeysShape
<1>5. Earliest(o.rest) \in DOMAIN ks
  BY <1>3, <1>4, EarliestIsFirst
<1>6. \A pc \in {"releasing", "undoing"}, r \in (SUBSET DOMAIN ks) \ {{}} :
        [pc |-> pc, keys |-> ks, rest |-> r] \in Op
  BY DEF Op
<1>7. [o EXCEPT !.pc = "undoing"] \in Op
  BY <1>3, <1>6
<1>8. NextBucket(o) \in Op \cup {Idle}
  <2> DEFINE r == o.rest \ {Earliest(o.rest)}
  <2>1. CASE r = {}
    BY <2>1 DEF NextBucket
  <2>2. CASE r # {}
    <3>1. NextBucket(o) = [pc |-> "releasing", keys |-> ks, rest |-> r]
      BY <1>3, <2>2 DEF NextBucket
    <3> QED
      BY <1>3, <1>6, <2>2, <3>1
  <2> QED
    BY <2>1, <2>2
<1> QED
  BY <1>3, <1>4, <1>5, <1>7, <1>8

(* No call leaves the shapes TypeOK gives; ReleaseRateLimitSlot among the  *)
(* rest never goes on without a bucket to try.                             *)
LEMMA TypeNext ==
  ASSUME TypeOK, [Next]_vars
  PROVE  TypeOK'
<1> USE RateLimiterAssumption
<1>1. ASSUME NEW p \in Callers, Reserve(p) PROVE TypeOK'
  <2> DEFINE vals == MGet(Window)
             o == [pc |-> "reserving", keys |-> Window, older |-> Older(vals),
                   first |-> Final(Window) \notin live]
  <2>1. /\ Window \in Span(Windows) /\ DOMAIN Window = 1 .. Len(Window)
        /\ Len(Window) \in Nat \ {0} /\ \A i \in DOMAIN Window : Window[i] \in Buckets
    BY WindowShape, KeysShape
  <2>2. /\ DOMAIN vals = 1 .. Len(Window)
        /\ \A i \in 1 .. Len(Window) : vals[i] \in Int
    BY <2>1 DEF MGet, TypeOK
  <2>3. Len(vals) = Len(Window)
    BY <2>1, <2>2 DEF MGet
  <2>4. Older(vals) \in Nat
    <3>1. IsFiniteSet(1 .. Len(vals) - 1)
      BY <2>1, <2>3, FS_Interval
    <3>2. \A i \in 1 .. Len(vals) - 1 : vals[i] \in Int
      BY <2>1, <2>2, <2>3
    <3> HIDE DEF vals
    <3> QED
      BY <3>1, <3>2, SlotsNat DEF Older
  <2>5. o \in Op
    BY <2>1, <2>4 DEF Op
  <2>6. Become(p, o) /\ UNCHANGED <<count, live, volatile, now>>
    BY <1>1 DEF Reserve
  <2> HIDE DEF o
  <2> QED
    BY <2>5, <2>6, BecomeType DEF TypeOK
<1>2. ASSUME NEW p \in Callers, TakeSlot(p) PROVE TypeOK'
  <2> DEFINE ks == op[p].keys
             total == op[p].older + count[Final(ks)] + 1
             e == [pc |-> "expiring", keys |-> ks, total |-> total]
             v == [pc |-> Verdict(total), keys |-> ks]
  <2>1. op[p] \in Op /\ op[p].pc = "reserving" /\ Add(Final(ks), 1)
    BY <1>2 DEF TakeSlot, TypeOK, Op, Idle
  <2>2. ks \in Span(Windows) /\ op[p].older \in Nat
    BY <2>1 DEF Op
  <2>3. Final(ks) \in Buckets
    BY <2>2, KeysShape
  <2>4. total \in Int
    BY <2>2, <2>3 DEF TypeOK
  <2>5. e \in Op /\ v \in Op
    BY <2>2, <2>4, VerdictType DEF Op
  <2>6. Become(p, e) \/ Become(p, v)
    BY <1>2 DEF TakeSlot
  <2> HIDE DEF e, v
  <2>7. op' \in [Callers -> Op \cup {Idle}]
    BY <2>5, <2>6, BecomeType
  <2> QED
    BY <2>1, <2>3, <2>7, AddType DEF TypeOK
<1>3. ASSUME NEW p \in Callers, SetExpiry(p) PROVE TypeOK'
  <2> DEFINE v == [pc |-> Verdict(op[p].total), keys |-> op[p].keys]
  <2>1. op[p] \in Op /\ op[p].pc = "expiring"
    BY <1>3 DEF SetExpiry, TypeOK, Op, Idle
  <2>2. v \in Op
    BY <2>1, VerdictType DEF Op
  <2>3. Become(p, v)
    BY <1>3 DEF SetExpiry
  <2> HIDE DEF v
  <2>4. op' \in [Callers -> Op \cup {Idle}]
    BY <2>2, <2>3, BecomeType
  <2> QED
    BY <1>3, <2>4 DEF SetExpiry, TypeOK
<1>4. ASSUME NEW p \in Callers, GiveBack(p) PROVE TypeOK'
  <2>1. op[p].keys \in Span(Windows)
    BY <1>4 DEF GiveBack, TypeOK, Op, Idle
  <2>2. Final(op[p].keys) \in Buckets
    BY <2>1, KeysShape
  <2> QED
    BY <1>4, <2>2, AddType, BecomeType DEF GiveBack, TypeOK
<1>5. ASSUME NEW p \in Callers, Release(p) PROVE TypeOK'
  <2> DEFINE full == {i \in DOMAIN Window : count[Window[i]] > 0}
             r == [pc |-> "releasing", keys |-> Window, rest |-> full]
  <2>1. Window \in Span(Windows) /\ DOMAIN Window \subseteq Nat
    BY WindowShape
  <2>2. full # {} => r \in Op
    BY <2>1 DEF Op
  <2>3. Become(p, Idle) \/ (full # {} /\ Become(p, r))
    BY <1>5 DEF Release
  <2> HIDE DEF r, full
  <2>4. op' \in [Callers -> Op \cup {Idle}]
    BY <2>2, <2>3, BecomeType
  <2> QED
    BY <1>5, <2>4 DEF Release, TypeOK
<1>6. ASSUME NEW p \in Callers, FreeSlot(p) PROVE TypeOK'
  <2> DEFINE b == op[p].keys[Earliest(op[p].rest)]
             u == [op[p] EXCEPT !.pc = "undoing"]
  <2>1. b \in Buckets /\ u \in Op
    BY <1>6, FreeType DEF FreeSlot
  <2>2. Add(b, -1) /\ (Become(p, Idle) \/ Become(p, u))
    BY <1>6 DEF FreeSlot
  <2> HIDE DEF u, b
  <2>3. op' \in [Callers -> Op \cup {Idle}]
    BY <2>1, <2>2, BecomeType
  <2> QED
    BY <2>1, <2>2, <2>3, AddType DEF TypeOK
<1>7. ASSUME NEW p \in Callers, UndoFree(p) PROVE TypeOK'
  <2> DEFINE b == op[p].keys[Earliest(op[p].rest)]
  <2>1. b \in Buckets /\ NextBucket(op[p]) \in Op \cup {Idle}
    BY <1>7, FreeType DEF UndoFree
  <2>2. Add(b, 1) /\ Become(p, NextBucket(op[p]))
    BY <1>7 DEF UndoFree
  <2> HIDE DEF b
  <2>3. op' \in [Callers -> Op \cup {Idle}]
    BY <2>1, <2>2, BecomeType
  <2> QED
    BY <2>1, <2>2, <2>3, AddType DEF TypeOK
<1>8. ASSUME NEW p \in Callers, Abandon(p) \/ Lapse(p) PROVE TypeOK'
  <2>1. Become(p, Idle) /\ UNCHANGED <<count, live, volatile, now>>
    BY <1>8 DEF Abandon, Lapse
  <2> QED
    BY <2>1, BecomeType DEF TypeOK
<1>9. ASSUME Tick PROVE TypeOK'
  BY <1>9 DEF Tick, TypeOK
<1>10. ASSUME NEW b \in Buckets, Expire(b) PROVE TypeOK'
  BY <1>10 DEF Expire, TypeOK
<1>11. ASSUME UNCHANGED vars PROVE TypeOK'
  BY <1>11 DEF vars, TypeOK
<1> QED
  BY <1>1, <1>2, <1>3, <1>4, <1>5, <1>6, <1>7, <1>8, <1>9, <1>10, <1>11 DEF Next

(* For any callers, windows and limit, the variables keep their shapes:    *)
(* ReleaseRateLimitSlot never looks for a slot outside its window.         *)
THEOREM TypeCorrect == Spec => []TypeOK
<1>1. Init => TypeOK
  BY RateLimiterAssumption DEF Init, TypeOK
<1>2. TypeOK /\ [Next]_vars => TypeOK'
  BY TypeNext
<1> QED
  BY <1>1, <1>2, PTL DEF Spec

-----------------------------------------------------------------------------
(* The callers whose slot is in the count, and of these the ones that have *)
(* or are about to be told they got it.                                    *)
Counted == {p \in Callers : op[p].pc \in {"expiring", "refusing", "holding", "releasing"}}
Granted == {p \in Callers : \/ op[p].pc = "holding"
                            \/ op[p].pc = "expiring" /\ op[p].total <= Limit}

(* All callers use the same bucket. *)
Bucket == Windows[1][1]
OneBucket == \A n \in DOMAIN Windows : Windows[n] = <<Bucket>>

(* With one bucket in use, the count covers every caller that has taken a  *)
(* slot and not given it back, so a release always finds one; and a slot   *)
(* is granted against a count that covers all the slots granted.           *)
LimitInv == /\ TypeOK
            /\ \A p \in Callers : /\ op[p].pc # "undoing"
                                  /\ op[p].pc = "releasing" => op[p].rest = {1}
            /\ Cardinality(Counted) <= count[Bucket]
            /\ Cardinality(Granted) <= Limit

LEMMA BucketType == Bucket \in Buckets
<1>1. Windows[1] \in Seq(Buckets) /\ Windows[1] # <<>>
  BY RateLimiterAssumption
<1> QED
  BY <1>1 DEF Bucket

LEMMA FiniteCallers ==
  ASSUME NEW S, S \subseteq Callers
  PROVE  IsFiniteSet(S) /\ Cardinality(S) \in Nat
BY RateLimiterAssumption, FS_Subset, FS_CardinalityType

LEMMA Fewer ==
  ASSUME NEW S, NEW T, S \subseteq T, T \subseteq Callers
  PROVE  Cardinality(S) <= Cardinality(T)
BY FiniteCallers, FS_Subset

LEMMA OneFewer ==
  ASSUME NEW S, S \subseteq Callers, NEW p \in S
  PROVE  Cardinality(S \ {p}) = Cardinality(S) - 1 /\ Cardinality(S) > 0
<1>1. Cardinality(S \ {p}) = Cardinality(S) - 1
  BY FiniteCallers, FS_RemoveElement
<1>2. Cardinality(S \ {p}) \in Nat /\ Cardinality(S) \in Nat
  BY FiniteCallers
<1> QED
  BY <1>1, <1>2

LEMMA OneMore ==
  ASSUME NEW S, S \subseteq Callers, NEW p \in Callers \ S
  PROVE  Cardinality(S \cup {p}) = Cardinality(S) + 1
BY FiniteCallers, FS_AddElement

LEMMA SetsTyped == Counted \subseteq Callers /\ Granted \subseteq Callers
BY DEF Counted, Granted

(* A step that leaves the count alone and adds no caller to either    *)
(* set keeps the invariant.                                                *)
LEMMA LimitQuiet ==
  ASSUME LimitInv, TypeOK',
         count'[Bucket] = count[Bucket], Counted' \subseteq Counted, Granted' \subseteq Granted,
         \A p \in Callers : /\ op'[p].pc # "undoing"
                            /\ op'[p].pc = "releasing" => op'[p].rest = {1}
  PROVE  LimitInv'
<1>1. Cardinality(Counted') <= Cardinality(Counted) /\ Cardinality(Granted') <= Cardinality(Granted)
  BY Fewer, SetsTyped
<1>2. /\ Cardinality(Counted') \in Nat /\ Cardinality(Granted') \in Nat
      /\ Cardinality(Counted) \in Nat /\ Cardinality(Granted) \in Nat
  <2>1. /\ Counted \subseteq Callers /\ Granted \subseteq Callers
        /\ Counted' \subseteq Callers /\ Granted' \subseteq Callers
    BY DEF Counted, Granted
  <2> QED
    BY <2>1, FiniteCallers
<1>3. count[Bucket] \in Int /\ Limit \in Nat
  BY RateLimiterAssumption, BucketType DEF TypeOK, LimitInv
<1> QED
  BY <1>1, <1>2, <1>3 DEF LimitInv

(* Then that is the bucket every call is about. *)
LEMMA OnlyKeys ==
  ASSUME OneBucket, TypeOK
  PROVE  /\ Window = <<Bucket>> /\ Final(Window) = Bucket /\ Span(Window) = {Bucket}
         /\ \A p \in Callers : op[p].pc # "idle" =>
              op[p].keys = <<Bucket>> /\ Final(op[p].keys) = Bucket
<1>1. Window = <<Bucket>>
  BY DEF OneBucket, TypeOK, Window
<1>2. \A ks \in Span(Windows) : ks = <<Bucket>>
  BY DEF OneBucket, Span
<1>3. ASSUME NEW p \in Callers, op[p].pc # "idle" PROVE op[p].keys \in Span(Windows)
  BY <1>3 DEF TypeOK, Op, Idle
<1>4. Final(<<Bucket>>) = Bucket /\ Span(<<Bucket>>) = {Bucket}
  BY DEF Final, Span
<1> QED
  BY <1>1, <1>2, <1>3, <1>4

LEMMA LimitNext ==
  ASSUME OneBucket, "expiry" \notin Faults,
         LimitInv, [Next]_vars
  PROVE  LimitInv'
<1>1. TypeOK /\ TypeOK'
  BY TypeNext DEF LimitInv
<1>2. \A p \in Callers : /\ op[p].pc # "undoing"
                         /\ op[p].pc = "releasing" => op[p].rest = {1}
  BY DEF LimitInv
<1>3. count[Bucket] \in Int /\ Limit \in Nat /\ DOMAIN op = Callers
  BY <1>1, RateLimiterAssumption, BucketType DEF TypeOK
<1>4. /\ Cardinality(Counted) \in Nat /\ Cardinality(Granted) \in Nat
      /\ Cardinality(Counted') \in Nat /\ Cardinality(Granted') \in Nat
      /\ Counted \subseteq Callers /\ Granted \subseteq Callers
      /\ Counted' \subseteq Callers /\ Granted' \subseteq Callers
  <2>1. /\ Counted \subseteq Callers /\ Granted \subseteq Callers
        /\ Counted' \subseteq Callers /\ Granted' \subseteq Callers
    BY DEF Counted, Granted
  <2> QED
    BY <2>1, FiniteCallers
<1>5. Cardinality(Counted) <= count[Bucket] /\ Cardinality(Granted) <= Limit
  BY DEF LimitInv
<1>6. ASSUME NEW p \in Callers, Reserve(p) PROVE LimitInv'
  <2>1. /\ op'[p].pc = "reserving" /\ count' = count
        /\ \A q \in Callers \ {p} : op'[q] = op[q]
    BY <1>3, <1>6 DEF Reserve, Become
  <2> QED
    BY <1>1, <1>2, <2>1, LimitQuiet DEF Counted, Granted
<1>7. ASSUME NEW p \in Callers, TakeSlot(p) PROVE LimitInv'
  <2> DEFINE total == op[p].older + count[Bucket] + 1
  <2>1. op[p].pc = "reserving" /\ op[p].older \in Nat /\ Final(op[p].keys) = Bucket
    BY <1>1, <1>7, OnlyKeys DEF TakeSlot, TypeOK, Op, Idle
  <2>2. /\ count'[Bucket] = count[Bucket] + 1
        /\ \A q \in Callers \ {p} : op'[q] = op[q]
        /\ \/ op'[p].pc = "expiring" /\ op'[p].total = total
           \/ op'[p].pc = "holding" /\ total <= Limit
           \/ op'[p].pc = "refusing"
    <3>1. count'[Bucket] = count[Bucket] + 1
      BY <1>1, <1>7, <2>1 DEF TakeSlot, Add, TypeOK
    <3>2. total \in Int
      BY <1>3, <2>1
    <3>3. \/ op'[p] = [pc |-> "expiring", keys |-> op[p].keys, total |-> total]
          \/ op'[p] = [pc |-> Verdict(total), keys |-> op[p].keys]
      BY <1>3, <1>7, <2>1 DEF TakeSlot, Become
    <3>4. \A q \in Callers \ {p} : op'[q] = op[q]
      BY <1>3, <1>7 DEF TakeSlot, Become
    <3>5. CASE op'[p] = [pc |-> "expiring", keys |-> op[p].keys, total |-> total]
      BY <3>1, <3>4, <3>5
    <3>6. CASE op'[p] = [pc |-> Verdict(total), keys |-> op[p].keys]
      <4>1. op'[p].pc = Verdict(total)
        BY <3>6
      <4> QED
        BY <1>3, <3>1, <3>2, <3>4, <4>1 DEF Verdict
    <3> QED
      BY <3>3, <3>5, <3>6
  <2>3. p \notin Counted /\ p \notin Granted
    BY <2>1 DEF Counted, Granted
  <2>4. Counted' = Counted \cup {p}
    BY <2>2 DEF Counted
  <2>5. Cardinality(Counted') = Cardinality(Counted) + 1
    BY <1>4, <2>3, <2>4, OneMore
  <2>6. Cardinality(Counted') <= count'[Bucket]
    BY <1>3, <1>4, <1>5, <2>2, <2>5
  <2>7. Cardinality(Granted') <= Limit
    <3>1. CASE total <= Limit
      <4>1. Granted' \subseteq Counted'
        BY DEF Granted, Counted
      <4>2. Cardinality(Granted') <= Cardinality(Counted')
        BY <1>4, <4>1, Fewer
      <4> QED
        BY <1>3, <1>4, <2>1, <2>2, <2>6, <3>1, <4>2
    <3>2. CASE ~(total <= Limit)
      <4>1. Granted' \subseteq Granted
        BY <2>2, <3>2 DEF Granted
      <4>2. Cardinality(Granted') <= Cardinality(Granted)
        BY <1>4, <4>1, Fewer
      <4> QED
        BY <1>3, <1>4, <1>5, <4>2
    <3> QED
      BY <3>1, <3>2
  <2>8. \A q \in Callers : /\ op'[q].pc # "undoing"
                           /\ op'[q].pc = "releasing" => op'[q].rest = {1}
    BY <1>2, <2>2
  <2> QED
    BY <1>1, <2>6, <2>7, <2>8 DEF LimitInv
<1>8. ASSUME NEW p \in Callers, SetExpiry(p) PROVE LimitInv'
  <2>1. /\ op[p].pc = "expiring" /\ count' = count
        /\ op'[p].pc = Verdict(op[p].total) /\ op[p].total \in Int
        /\ \A q \in Callers \ {p} : op'[q] = op[q]
    BY <1>1, <1>3, <1>8 DEF SetExpiry, Become, TypeOK, Op, Idle
  <2>2. \/ op'[p].pc = "refusing"
        \/ op'[p].pc = "holding" /\ op[p].total <= Limit
    BY <1>3, <2>1 DEF Verdict
  <2>3. Counted' \subseteq Counted /\ Granted' \subseteq Granted
    BY <2>1, <2>2 DEF Counted, Granted
  <2>4. \A q \in Callers : /\ op'[q].pc # "undoing"
                           /\ op'[q].pc = "releasing" => op'[q].rest = {1}
    BY <1>2, <2>1, <2>2
  <2> QED
    BY <1>1, <2>1, <2>3, <2>4, LimitQuiet
<1>9. ASSUME NEW p \in Callers, GiveBack(p) \/ FreeSlot(p) PROVE LimitInv'
  <2>1. op[p].pc \in {"refusing", "releasing"} /\ p \in Counted
    BY <1>9 DEF GiveBack, FreeSlot, Counted
  <2>2. Cardinality(Counted \ {p}) = Cardinality(Counted) - 1 /\ count[Bucket] > 0
    <3>1. Cardinality(Counted \ {p}) = Cardinality(Counted) - 1 /\ Cardinality(Counted) > 0
      BY <1>4, <2>1, OneFewer
    <3> QED
      BY <1>3, <1>4, <1>5, <3>1
  <2>3. count'[Bucket] = count[Bucket] - 1 /\ op'[p] = Idle
    <3>1. CASE GiveBack(p)
      BY <1>1, <1>3, <3>1, OnlyKeys DEF GiveBack, Add, Become, TypeOK
    <3>2. CASE FreeSlot(p)
      <4>1. op[p].pc = "releasing" /\ op[p].rest = {1} /\ op[p].keys = <<Bucket>>
        BY <1>1, <1>2, <3>2, OnlyKeys DEF FreeSlot
      <4>2. Earliest(op[p].rest) = 1
        BY <4>1 DEF Earliest
      <4>3. op[p].keys[Earliest(op[p].rest)] = Bucket
        BY <4>1, <4>2
      <4> QED
        BY <1>1, <1>3, <2>2, <3>2, <4>3 DEF FreeSlot, Add, Become, TypeOK
    <3> QED
      BY <1>9, <3>1, <3>2
  <2>4. \A q \in Callers \ {p} : op'[q] = op[q]
    BY <1>3, <1>9 DEF GiveBack, FreeSlot, Become
  <2>5. Counted' = Counted \ {p} /\ Granted' \subseteq Granted
    BY <2>3, <2>4 DEF Counted, Granted, Idle
  <2>6. Cardinality(Granted') <= Cardinality(Granted)
    BY <1>4, <2>5, Fewer
  <2>7. Cardinality(Counted') <= count'[Bucket] /\ Cardinality(Granted') <= Limit
    BY <1>3, <1>4, <1>5, <2>2, <2>3, <2>5, <2>6
  <2>8. \A q \in Callers : /\ op'[q].pc # "undoing"
                           /\ op'[q].pc = "releasing" => op'[q].rest = {1}
    BY <1>2, <2>3, <2>4 DEF Idle
  <2> QED
    BY <1>1, <2>7, <2>8 DEF LimitInv
<1>10. ASSUME NEW p \in Callers, Release(p) PROVE LimitInv'
  <2>1. op[p].pc = "holding" /\ count' = count
    BY <1>10 DEF Release
  <2>2. /\ \A q \in Callers \ {p} : op'[q] = op[q]
        /\ op'[p] = Idle \/ (op'[p].pc = "releasing" /\ op'[p].rest = {1})
    <3>1. \A q \in Callers \ {p} : op'[q] = op[q]
      BY <1>3, <1>10 DEF Release, Become
    <3> DEFINE full == {i \in DOMAIN Window : count[Window[i]] > 0}
    <3>2. full = {} \/ full = {1}
      BY <1>1, OnlyKeys
    <3>3. \/ op'[p] = Idle
          \/ full # {} /\ op'[p] = [pc |-> "releasing", keys |-> Window, rest |-> full]
      BY <1>3, <1>10 DEF Release, Become
    <3> HIDE DEF full
    <3> QED
      BY <3>1, <3>2, <3>3
  <2>3. Counted' \subseteq Counted /\ Granted' \subseteq Granted
    BY <2>1, <2>2 DEF Counted, Granted, Idle
  <2>4. \A q \in Callers : /\ op'[q].pc # "undoing"
                           /\ op'[q].pc = "releasing" => op'[q].rest = {1}
    BY <1>2, <2>2 DEF Idle
  <2> QED
    BY <1>1, <2>1, <2>3, <2>4, LimitQuiet
<1>11. ASSUME NEW p \in Callers, UndoFree(p) PROVE LimitInv'
  BY <1>2, <1>11 DEF UndoFree
<1>12. ASSUME NEW p \in Callers, Abandon(p) \/ Lapse(p) PROVE LimitInv'
  <2>1. op'[p] = Idle /\ count' = count /\ \A q \in Callers \ {p} : op'[q] = op[q]
    BY <1>3, <1>12 DEF Abandon, Lapse, Become
  <2>2. Counted' \subseteq Counted /\ Granted' \subseteq Granted
    BY <2>1 DEF Counted, Granted, Idle
  <2>3. \A q \in Callers : /\ op'[q].pc # "undoing"
                           /\ op'[q].pc = "releasing" => op'[q].rest = {1}
    BY <1>2, <2>1 DEF Idle
  <2> QED
    BY <1>1, <2>1, <2>2, <2>3, LimitQuiet
<1>13. ASSUME Tick \/ UNCHANGED vars PROVE LimitInv'
  <2>1. op' = op /\ count' = count
    BY <1>13 DEF Tick, vars
  <2>2. Counted' = Counted /\ Granted' = Granted
    BY <2>1 DEF Counted, Granted
  <2> QED
    BY <1>1, <1>2, <2>1, <2>2, LimitQuiet
<1>14. ASSUME NEW c \in Buckets, Expire(c) PROVE LimitInv'
  <2>1. c # Bucket
    BY <1>1, <1>14, OnlyKeys DEF Expire
  <2>2. op' = op /\ count'[Bucket] = count[Bucket]
    BY <1>1, <1>14, <2>1 DEF Expire, TypeOK
  <2>3. Counted' = Counted /\ Granted' = Granted
    BY <2>2 DEF Counted, Granted
  <2> QED
    BY <1>1, <1>2, <2>2, <2>3, LimitQuiet
<1> QED
  BY <1>6, <1>7, <1>8, <1>9, <1>10, <1>11, <1>12, <1>13, <1>14 DEF Next

(* ReserveRateLimitSlot never grants more slots of one bucket than the     *)
(* limit, for any number of callers and any limit, whichever calls stop    *)
(* half way, as long as the bucket does not expire under them.             *)
THEOREM LimitKept ==
  ASSUME OneBucket, "expiry" \notin Faults
  PROVE  Spec => []NeverOverLimit
<1>1. Init => LimitInv
  <2> SUFFICES ASSUME Init PROVE LimitInv
    OBVIOUS
  <2>1. \A p \in Callers : op[p].pc = "idle"
    BY DEF Init, Idle
  <2>2. Counted = {} /\ Granted = {}
    BY <2>1 DEF Counted, Granted
  <2>3. TypeOK
    BY RateLimiterAssumption DEF Init, TypeOK
  <2>4. Cardinality({}) = 0 /\ count[Bucket] = 0 /\ Limit \in Nat
    BY FS_EmptySet, RateLimiterAssumption, BucketType DEF Init
  <2> QED
    BY <2>1, <2>2, <2>3, <2>4 DEF LimitInv
<1>2. LimitInv /\ [Next]_vars => LimitInv'
  BY LimitNext
<1>3. LimitInv => NeverOverLimit
  <2> SUFFICES ASSUME LimitInv PROVE NeverOverLimit
    OBVIOUS
  <2>1. Holders \subseteq Granted /\ Granted \subseteq Callers
    BY DEF Holders, Granted
  <2>2. Cardinality(Holders) <= Cardinality(Granted)
    BY <2>1, Fewer
  <2>3. Cardinality(Holders) \in Nat /\ Cardinality(Granted) \in Nat /\ Limit \in Nat
    BY <2>1, FiniteCallers, RateLimiterAssumption
  <2> QED
    BY <2>2, <2>3 DEF LimitInv, NeverOverLimit
<1> QED
  BY <1>1, <1>2, <1>3, PTL DEF Spec

-----------------------------------------------------------------------------
(* What is counted at a place adds to the slots as far as it is positive.  *)
LEMMA SlotsAdd ==
  ASSUME NEW I, IsFiniteSet(I), NEW v, NEW x, x \notin I, \A i \in I \cup {x} : v[i] \in Int
  PROVE  Slots(v, I \cup {x}) = Slots(v, I) + (IF v[x] > 0 THEN v[x] ELSE 0)
<1> DEFINE A == UNION {{i} \X (1 .. v[i]) : i \in I}
           B == {x} \X (1 .. v[x])
           C == UNION {{i} \X (1 .. v[i]) : i \in I \cup {x}}
<1>1. v[x] \in Int /\ \A i \in I : v[i] \in Int
  OBVIOUS
<1>2. C = A \cup B /\ A \cap B = {}
  OBVIOUS
<1>3. IsFiniteSet(A)
  BY SlotsFinite
<1>4. IsFiniteSet(1 .. v[x]) /\ Cardinality(1 .. v[x]) = IF v[x] > 0 THEN v[x] ELSE 0
  BY <1>1, FS_Interval
<1>5. IsFiniteSet({x}) /\ Cardinality({x}) = 1
  BY FS_Singleton
<1>6. IsFiniteSet(B) /\ Cardinality(B) = 1 * Cardinality(1 .. v[x])
  BY <1>4, <1>5, FS_Product
<1>7. Cardinality(B) = IF v[x] > 0 THEN v[x] ELSE 0
  BY <1>1, <1>4, <1>6
<1> HIDE DEF A, B, C
<1>8. Cardinality(A \cup B) = Cardinality(A) + Cardinality(B) - Cardinality(A \cap B)
  BY <1>3, <1>6, FS_Union
<1>9. Cardinality(A \cap B) = 0 /\ Cardinality(A) \in Nat /\ Cardinality(B) \in Nat
  BY <1>2, <1>3, <1>6, FS_EmptySet, FS_CardinalityType
<1>10. Cardinality(C) = Cardinality(A) + Cardinality(B)
  BY <1>2, <1>8, <1>9
<1> QED
  BY <1>7, <1>10 DEF Slots, A, B, C

(* Fewer slots, where less is counted or at fewer places. *)
LEMMA SlotsFewer ==
  ASSUME NEW I, IsFiniteSet(I), NEW v, \A i \in I : v[i] \in Int,
         NEW J \in SUBSET I, NEW u, \A i \in J : u[i] \in Int /\ (u[i] <= 0 \/ u[i] <= v[i])
  PROVE  Slots(u, J) <= Slots(v, I)
<1> DEFINE A == UNION {{i} \X (1 .. v[i]) : i \in I}
           B == UNION {{i} \X (1 .. u[i]) : i \in J}
<1>1. IsFiniteSet(A)
  BY SlotsFinite
<1>2. \A i \in J : (1 .. u[i]) \subseteq (1 .. v[i])
  OBVIOUS
<1>3. B \subseteq A
  BY <1>2
<1> HIDE DEF A, B
<1>4. Cardinality(B) <= Cardinality(A)
  BY <1>1, <1>3, FS_Subset
<1> QED
  BY <1>4 DEF Slots, A, B

(* As many, where only places with none are added, or change to none.      *)
LEMMA SlotsAlike ==
  ASSUME NEW I, IsFiniteSet(I), NEW v, \A i \in I : v[i] \in Int,
         NEW J \in SUBSET I, NEW u, \A i \in J : u[i] \in Int,
         \A i \in J : u[i] = v[i] \/ (u[i] <= 0 /\ v[i] <= 0),
         \A i \in I \ J : v[i] <= 0
  PROVE  Slots(u, J) = Slots(v, I)
<1> DEFINE A == UNION {{i} \X (1 .. v[i]) : i \in I}
           B == UNION {{i} \X (1 .. u[i]) : i \in J}
<1>1. \A i \in J : (1 .. u[i]) = (1 .. v[i])
  OBVIOUS
<1>2. \A i \in I \ J : (1 .. v[i]) = {}
  OBVIOUS
<1>3. A = B
  BY <1>1, <1>2
<1> QED
  BY <1>3 DEF Slots

(* One more or less at one place. *)
LEMMA SlotsChange ==
  ASSUME NEW I, IsFiniteSet(I), NEW v, \A i \in I : v[i] \in Int,
         NEW x \in I, NEW u, u[x] \in Int, \A i \in I \ {x} : u[i] = v[i],
         v[x] >= 0, u[x] >= 0
  PROVE  Slots(v, I) \in Nat /\ Slots(u, I) = Slots(v, I) + (u[x] - v[x])
<1> DEFINE J == I \ {x}
<1>1. x \notin J /\ J \cup {x} = I /\ IsFiniteSet(J)
  BY FS_Subset
<1>2. \A i \in J : u[i] = v[i] /\ v[i] \in Int /\ u[i] \in Int
  OBVIOUS
<1> HIDE DEF J
<1>3. Slots(v, I) = Slots(v, J) + (IF v[x] > 0 THEN v[x] ELSE 0)
  BY <1>1, <1>2, SlotsAdd
<1>4. Slots(u, I) = Slots(u, J) + (IF u[x] > 0 THEN u[x] ELSE 0)
  BY <1>1, <1>2, SlotsAdd
<1>5. Slots(u, J) = Slots(v, J)
  <2>1. J \in SUBSET J /\ \A i \in J \ J : v[i] <= 0
    OBVIOUS
  <2> QED
    BY <1>1, <1>2, <2>1, SlotsAlike
<1>6. Slots(v, J) \in Nat
  BY <1>1, <1>2, SlotsNat
<1> QED
  BY <1>3, <1>4, <1>5, <1>6

(* The places of a window and the buckets at them. *)
LEMMA SlotsOfPlaces ==
  ASSUME NEW n \in Nat, NEW low \in Int, NEW v,
         NEW u, \A i \in 1 .. n : u[i] = v[low + i - 1] /\ u[i] \in Int
  PROVE  Slots(u, 1 .. n) = Slots(v, low .. (low + n - 1))
<1> DEFINE A == UNION {{i} \X (1 .. u[i]) : i \in 1 .. n}
           B == UNION {{d} \X (1 .. v[d]) : d \in low .. (low + n - 1)}
           h == [a \in A |-> <<low + a[1] - 1, a[2]>>]
<1>1. IsFiniteSet(A)
  <2> DEFINE I == 1 .. n
  <2>1. IsFiniteSet(I) /\ \A i \in I : u[i] \in Int
    BY FS_Interval
  <2> HIDE DEF I
  <2>2. IsFiniteSet(UNION {{i} \X (1 .. u[i]) : i \in I})
    BY <2>1, SlotsFinite
  <2> QED
    BY <2>2 DEF I
<1>2. ASSUME NEW a \in A PROVE a[1] \in 1 .. n /\ a[2] \in 1 .. u[a[1]] /\ a = <<a[1], a[2]>>
  OBVIOUS
<1>3. ASSUME NEW b \in B
      PROVE  b[1] \in low .. (low + n - 1) /\ b[2] \in 1 .. v[b[1]] /\ b = <<b[1], b[2]>>
  OBVIOUS
<1>4. h \in [A -> B]
  <2>1. ASSUME NEW a \in A PROVE h[a] \in B
    <3>1. low + a[1] - 1 \in low .. (low + n - 1) /\ u[a[1]] = v[low + a[1] - 1]
      BY <1>2
    <3>2. h[a] = <<low + a[1] - 1, a[2]>> /\ a[2] \in 1 .. v[low + a[1] - 1]
      BY <1>2, <3>1
    <3>3. h[a] \in {low + a[1] - 1} \X (1 .. v[low + a[1] - 1])
      BY <3>2
    <3> QED
      BY <3>1, <3>3
  <2> QED
    BY <2>1
<1>5. ASSUME NEW a \in A, NEW b \in A, h[a] = h[b] PROVE a = b
  <2>1. low + a[1] - 1 = low + b[1] - 1 /\ a[2] = b[2]
    BY <1>5
  <2>2. a[1] = b[1]
    BY <1>2, <2>1
  <2> QED
    BY <1>2, <2>1, <2>2
<1>6. ASSUME NEW b \in B PROVE \E a \in A : h[a] = b
  <2> DEFINE i == b[1] - low + 1
             a == <<i, b[2]>>
  <2>1. i \in 1 .. n /\ low + i - 1 = b[1] /\ u[i] = v[b[1]] /\ b[2] \in 1 .. u[i]
    BY <1>3
  <2>2. a \in {i} \X (1 .. u[i])
    BY <2>1
  <2>3. a \in A
    BY <2>1, <2>2
  <2>4. h[a] = b
    BY <1>3, <2>1, <2>3
  <2> QED
    BY <2>3, <2>4
<1> HIDE DEF A, B, h
<1>7. h \in Bijection(A, B)
  BY <1>4, <1>5, <1>6 DEF Bijection, Injection, Surjection, IsInjective
<1>8. Cardinality(A) = Cardinality(B)
  BY <1>1, <1>7, FS_Bijection DEF ExistsBijection
<1> QED
  BY <1>8 DEF Slots, A, B

-----------------------------------------------------------------------------
(* Buckets are numbered by time, and a window of several in a row moves    *)
(* on.                                                                     *)
SlidingWindows ==
  /\ Buckets \subseteq Nat
  /\ \A w \in DOMAIN Windows :
       Windows[w] = [i \in 1 .. Len(Windows[w]) |-> Windows[w][1] + i - 1]
  /\ \A v, w \in DOMAIN Windows :
       v < w => Windows[v][1] <= Windows[w][1] /\ Final(Windows[v]) <= Final(Windows[w])

Low == Window[1]
High == Final(Window)

LEMMA WindowIsInterval ==
  ASSUME SlidingWindows, TypeOK
  PROVE  /\ Low \in Nat /\ High \in Nat /\ Low <= High
         /\ Len(Window) \in Nat \ {0} /\ DOMAIN Window = 1 .. Len(Window)
         /\ High = Low + Len(Window) - 1
         /\ \A i \in 1 .. Len(Window) : Window[i] = Low + i - 1
         /\ Low .. High = Span(Window) /\ Low .. High \subseteq Buckets
<1>1. Window \in Seq(Buckets) /\ Len(Window) \in Nat \ {0} /\ DOMAIN Window = 1 .. Len(Window)
  BY WindowShape, KeysShape
<1>2. Window = [i \in 1 .. Len(Window) |-> Low + i - 1]
  BY DEF SlidingWindows, TypeOK, Window, Low
<1>3. \A i \in 1 .. Len(Window) : Window[i] = Low + i - 1 /\ Window[i] \in Buckets
  BY <1>1, <1>2
<1>4. Low \in Nat /\ High \in Nat /\ High = Low + Len(Window) - 1
  <2>0. Buckets \subseteq Nat /\ 1 \in 1 .. Len(Window) /\ Len(Window) \in 1 .. Len(Window)
    BY <1>1 DEF SlidingWindows
  <2>1. Window[1] \in Nat /\ Window[Len(Window)] \in Nat
    BY <1>3, <2>0
  <2>2. Window[Len(Window)] = Low + Len(Window) - 1
    BY <1>1, <1>3
  <2> QED
    BY <2>1, <2>2 DEF Low, High, Final
<1>5. Low .. High = Span(Window)
  <2>1. ASSUME NEW d \in Low .. High PROVE d \in Span(Window)
    <3>1. d - Low + 1 \in 1 .. Len(Window)
      BY <1>1, <1>4
    <3>2. Window[d - Low + 1] = d
      BY <1>3, <1>4, <3>1
    <3> QED
      BY <1>1, <3>1, <3>2 DEF Span
  <2>2. ASSUME NEW d \in Span(Window) PROVE d \in Low .. High
    <3>1. PICK i \in 1 .. Len(Window) : d = Window[i]
      BY <1>1 DEF Span
    <3> QED
      BY <1>1, <1>3, <1>4, <3>1
  <2> QED
    BY <2>1, <2>2
<1>6. Low .. High \subseteq Buckets
  BY <1>1, <1>3, <1>5 DEF Span
<1> QED
  BY <1>1, <1>3, <1>4, <1>5, <1>6

(* What a caller is at has the fields of its kind. *)
LEMMA OpShape ==
  ASSUME TypeOK, NEW p \in Callers
  PROVE  /\ op[p].pc = "idle" \/ op[p].keys \in Span(Windows)
         /\ op[p].pc = "reserving" => op[p].older \in Nat
         /\ op[p].pc = "expiring" => op[p].total \in Int
         /\ op[p].pc \in {"releasing", "undoing"} =>
              /\ op[p].rest \subseteq DOMAIN op[p].keys /\ op[p].rest # {}
              /\ op[p] = [pc |-> op[p].pc, keys |-> op[p].keys, rest |-> op[p].rest]
<1>1. op[p] \in Op \cup {Idle}
  BY DEF TypeOK
<1>2. CASE op[p] = Idle
  BY <1>2 DEF Idle
<1>3. CASE op[p] \in [pc : {"reserving"}, keys : Span(Windows), older : Nat, first : BOOLEAN]
  BY <1>3
<1>4. CASE op[p] \in [pc : {"expiring"}, keys : Span(Windows), total : Int]
  BY <1>4
<1>5. CASE op[p] \in [pc : {"refusing", "holding"}, keys : Span(Windows)]
  BY <1>5
<1>6. CASE op[p] \in UNION {[pc : {"releasing", "undoing"}, keys : {ks},
                        rest : (SUBSET DOMAIN ks) \ {{}}] : ks \in Span(Windows)}
  <2>1. PICK ks \in Span(Windows) :
          op[p] \in [pc : {"releasing", "undoing"}, keys : {ks}, rest : (SUBSET DOMAIN ks) \ {{}}]
    BY <1>6
  <2> QED
    BY <2>1
<1> QED
  BY <1>1, <1>2, <1>3, <1>4, <1>5, <1>6 DEF Op

(* The bucket a release is at, and those it has still to try. *)
Trying(o) == o.keys[Earliest(o.rest)]
Yet(o) == {o.keys[i] : i \in IF o.pc = "undoing" THEN o.rest \ {Earliest(o.rest)} ELSE o.rest}
Frees(o) == o.pc \in {"releasing", "undoing"}

(* A release goes through the buckets of its window from first to last. *)
LEMMA FreesInOrder ==
  ASSUME SlidingWindows, TypeOK,
         NEW o, Frees(o), o.keys = Window, o.rest \subseteq DOMAIN Window, o.rest # {},
         o = [pc |-> o.pc, keys |-> o.keys, rest |-> o.rest]
  PROVE  /\ Trying(o) \in Low .. High /\ Yet(o) \subseteq Low .. High
         /\ o.pc = "releasing" =>
              /\ Trying(o) \in Yet(o) /\ \A d \in Yet(o) : Trying(o) <= d
              /\ LET u == [o EXCEPT !.pc = "undoing"]
                 IN  /\ u.pc = "undoing" /\ u.keys = Window
                     /\ Trying(u) = Trying(o) /\ Yet(u) = Yet(o) \ {Trying(o)}
         /\ o.pc = "undoing" =>
              /\ \A d \in Yet(o) : Trying(o) < d
              /\ IF Yet(o) = {} THEN NextBucket(o) = Idle
                 ELSE /\ NextBucket(o).pc = "releasing" /\ NextBucket(o).keys = Window
                      /\ Yet(NextBucket(o)) = Yet(o)
<1> DEFINE e == Earliest(o.rest)
<1>1. /\ Low \in Nat /\ Len(Window) \in Nat \ {0} /\ DOMAIN Window = 1 .. Len(Window)
      /\ High = Low + Len(Window) - 1
      /\ \A i \in 1 .. Len(Window) : Window[i] = Low + i - 1
  BY WindowIsInterval
<1>2. e \in o.rest /\ \A j \in o.rest : e <= j
  BY <1>1, EarliestIsFirst
<1>3. o.rest \subseteq 1 .. Len(Window)
  BY <1>1
<1> HIDE DEF e
<1>4. Trying(o) = Low + e - 1
  BY <1>1, <1>2, <1>3 DEF Trying, e
<1>5. \A i \in o.rest : Window[i] = Low + i - 1 /\ Window[i] \in Low .. High /\ i \in Nat
  BY <1>1, <1>3
<1>6. Yet(o) = {Window[i] : i \in IF o.pc = "undoing" THEN o.rest \ {e} ELSE o.rest}
  BY DEF Yet, e
<1>7. Trying(o) \in Low .. High /\ Yet(o) \subseteq Low .. High
  BY <1>2, <1>4, <1>5, <1>6
<1>8. ASSUME o.pc = "releasing"
      PROVE  /\ Trying(o) \in Yet(o) /\ \A d \in Yet(o) : Trying(o) <= d
             /\ LET u == [o EXCEPT !.pc = "undoing"]
                IN  /\ u.pc = "undoing" /\ u.keys = Window
                    /\ Trying(u) = Trying(o) /\ Yet(u) = Yet(o) \ {Trying(o)}
  <2>1. Yet(o) = {Window[i] : i \in o.rest}
    BY <1>6, <1>8
  <2>2. Trying(o) \in Yet(o) /\ \A d \in Yet(o) : Trying(o) <= d
    BY <1>1, <1>2, <1>4, <1>5, <2>1
  <2> DEFINE u == [o EXCEPT !.pc = "undoing"]
  <2>3. u.pc = "undoing" /\ u.keys = Window /\ u.rest = o.rest
    OBVIOUS
  <2> HIDE DEF u
  <2>4. Trying(u) = Trying(o)
    BY <2>3 DEF Trying
  <2>5. Yet(u) = {Window[i] : i \in o.rest \ {e}}
    BY <2>3 DEF Yet, e
  <2>6. Yet(u) = Yet(o) \ {Trying(o)}
    BY <1>1, <1>2, <1>4, <1>5, <2>1, <2>5
  <2> QED
    BY <2>2, <2>3, <2>4, <2>6 DEF u
<1>9. ASSUME o.pc = "undoing"
      PROVE  /\ \A d \in Yet(o) : Trying(o) < d
             /\ IF Yet(o) = {} THEN NextBucket(o) = Idle
                ELSE /\ NextBucket(o).pc = "releasing" /\ NextBucket(o).keys = Window
                     /\ Yet(NextBucket(o)) = Yet(o)
  <2>1. Yet(o) = {Window[i] : i \in o.rest \ {e}}
    BY <1>6, <1>9
  <2>2. \A d \in Yet(o) : Trying(o) < d
    BY <1>1, <1>2, <1>4, <1>5, <2>1
  <2>3. CASE o.rest \ {e} = {}
    <3>1. Yet(o) = {} /\ NextBucket(o) = Idle
      BY <2>1, <2>3 DEF NextBucket, e
    <3> QED
      BY <2>2, <3>1
  <2>4. CASE o.rest \ {e} # {}
    <3> DEFINE u == NextBucket(o)
    <3>1. Yet(o) # {}
      BY <2>1, <2>4
    <3>2. u = [o EXCEPT !.pc = "releasing", !.rest = o.rest \ {e}]
      BY <2>4 DEF NextBucket, e
    <3>3. u.pc = "releasing" /\ u.keys = Window /\ u.rest = o.rest \ {e}
      BY <3>2
    <3> HIDE DEF u
    <3>4. Yet(u) = Yet(o)
      BY <2>1, <3>3 DEF Yet
    <3> QED
      BY <2>2, <3>1, <3>3, <3>4 DEF u
  <2> QED
    BY <2>3, <2>4
<1> QED
  BY <1>7, <1>8, <1>9 DEF Frees

-----------------------------------------------------------------------------
(* The callers whose slot counts in bucket b or a later one: where they    *)
(* took it, or, for one that is giving it up, from the first bucket on     *)
(* that it has still to try.                                               *)
ClaimsFrom(o, b) ==
  \/ o.pc \in {"expiring", "refusing", "holding"} /\ Final(o.keys) >= b
  \/ Frees(o) /\ Yet(o) # {} /\ \A d \in Yet(o) : d >= b
Claims(b) == {p \in Callers : ClaimsFrom(op[p], b)}

Undoing(b) == {p \in Callers : op[p].pc = "undoing" /\ Trying(op[p]) = b}
GrantedNow == {p \in Granted : Final(op[p].keys) >= Low}

CallsInv ==
  \A p \in Callers : LET o == op[p] IN
    /\ InFlight(p) => o.keys = Window
    /\ o.pc = "holding" => Final(o.keys) <= High
    /\ o.pc = "reserving" => Slots(count, Low .. (High - 1)) <= o.older
    /\ Frees(o) => \A d \in Low .. (High - 1) : d \notin Yet(o) => count[d] <= 0

(* Only the last bucket gets new slots, and it is never emptied too far. *)
BucketsInv ==
  /\ count[High] >= 0
  /\ \A b \in Buckets :
       /\ b > High => count[b] = 0
       /\ Undoing(b) # {} => b < High /\ count[b] + Cardinality(Undoing(b)) <= 0

(* From every bucket on, what is counted covers those who claim it. *)
ClaimsInv == \A b \in Low .. High : Cardinality(Claims(b)) <= Slots(count, b .. High)

SlideInv == /\ TypeOK /\ CallsInv /\ BucketsInv /\ ClaimsInv
            /\ Cardinality(GrantedNow) <= Limit

(* What is counted in the window is a number, and finite. *)
LEMMA SlotsFrom ==
  ASSUME SlidingWindows, TypeOK, NEW b \in Low .. High
  PROVE  /\ IsFiniteSet(b .. High) /\ b .. High \subseteq Low .. High
         /\ b .. High \subseteq Buckets /\ \A d \in b .. High : count[d] \in Int
         /\ Slots(count, b .. High) \in Nat
<1>1. Low \in Nat /\ High \in Nat /\ Low .. High \subseteq Buckets
  BY WindowIsInterval
<1>2. b .. High \subseteq Low .. High /\ b \in Int
  BY <1>1
<1>3. IsFiniteSet(b .. High)
  BY <1>1, <1>2, FS_Interval
<1>4. \A d \in b .. High : count[d] \in Int
  BY <1>1, <1>2 DEF TypeOK
<1>5. Slots(count, b .. High) \in Nat
  <2> DEFINE I == b .. High
  <2>1. IsFiniteSet(I) /\ \A d \in I : count[d] \in Int
    BY <1>3, <1>4
  <2> HIDE DEF I
  <2>2. Slots(count, I) \in Nat
    BY <2>1, SlotsNat
  <2> QED
    BY <2>2 DEF I
<1> QED
  BY <1>1, <1>2, <1>3, <1>4, <1>5

LEMMA ClaimsFinite ==
  ASSUME NEW b
  PROVE  Claims(b) \subseteq Callers /\ IsFiniteSet(Claims(b)) /\ Cardinality(Claims(b)) \in Nat
<1>1. Claims(b) \subseteq Callers
  BY DEF Claims
<1> QED
  BY <1>1, FiniteCallers

(* Who claims bucket b also claims those before it. *)
LEMMA ClaimsGrow ==
  ASSUME NEW b \in Int, NEW d \in Int, d <= b, SlidingWindows, TypeOK, CallsInv
  PROVE  Claims(b) \subseteq Claims(d)
<1>1. ASSUME NEW p \in Claims(b) PROVE p \in Claims(d)
  <2>1. p \in Callers /\ ClaimsFrom(op[p], b)
    BY DEF Claims
  <2>2. CASE op[p].pc \in {"expiring", "refusing", "holding"} /\ Final(op[p].keys) >= b
    <3>1. Final(op[p].keys) \in Int
      <4>1. op[p].keys \in Span(Windows)
        BY <2>1, <2>2, OpShape
      <4>2. Final(op[p].keys) \in Buckets
        BY <4>1, KeysShape
      <4>3. Buckets \subseteq Nat
        BY DEF SlidingWindows
      <4>4. Final(op[p].keys) \in Nat
        BY <4>2, <4>3, Zenon
      <4> QED
        BY <4>4
    <3> QED
      BY <2>1, <2>2, <3>1 DEF Claims, ClaimsFrom
  <2>3. CASE Frees(op[p]) /\ Yet(op[p]) # {} /\ \A c \in Yet(op[p]) : c >= b
    <3>1. op[p].keys = Window
      BY <2>1, <2>3 DEF CallsInv, InFlight, Frees
    <3>2. Yet(op[p]) \subseteq Low .. High
      <4> DEFINE o == op[p]
      <4>1. /\ Frees(o) /\ o.keys = Window /\ o.rest \subseteq DOMAIN Window /\ o.rest # {}
            /\ o = [pc |-> o.pc, keys |-> o.keys, rest |-> o.rest]
        BY <2>1, <2>3, <3>1, OpShape DEF Frees
      <4> HIDE DEF o
      <4>2. PICK r : r = o
        OBVIOUS
      <4>3. Yet(r) \subseteq Low .. High
        BY <4>1, <4>2, FreesInOrder
      <4> QED
        BY <4>2, <4>3 DEF o
    <3>3. \A c \in Yet(op[p]) : c >= d
      BY <2>3, <3>2, WindowIsInterval
    <3> QED
      BY <2>1, <2>3, <3>3 DEF Claims, ClaimsFrom
  <2> QED
    BY <2>1, <2>2, <2>3 DEF ClaimsFrom
<1> QED
  BY <1>1

(* There is room for a claim to move on past buckets that are empty. *)
LEMMA ClaimsShift ==
  ASSUME SlidingWindows, SlideInv, NEW d \in Low .. High, NEW p \in Claims(d),
         NEW b \in d .. High, \A c \in d .. (b - 1) : count[c] <= 0
  PROVE  Cardinality(Claims(b) \cup {p}) <= Slots(count, b .. High)
<1>1. Low \in Nat /\ High \in Nat /\ TypeOK /\ CallsInv
  BY WindowIsInterval DEF SlideInv
<1>2. d \in Int /\ b \in Int /\ d <= b /\ b \in Low .. High /\ b .. High \subseteq d .. High
  BY <1>1
<1>3. Claims(b) \cup {p} \subseteq Claims(d)
  BY <1>1, <1>2, ClaimsGrow
<1>4. Cardinality(Claims(b) \cup {p}) <= Cardinality(Claims(d))
  BY <1>3, ClaimsFinite, FS_Subset
<1>5. Cardinality(Claims(d)) <= Slots(count, d .. High)
  BY DEF SlideInv, ClaimsInv
<1>6. Slots(count, b .. High) = Slots(count, d .. High)
  <2> DEFINE I == d .. High
             J == b .. High
  <2>1. IsFiniteSet(I) /\ \A i \in I : count[i] \in Int
    BY <1>1, SlotsFrom
  <2>2. J \in SUBSET I /\ \A i \in I \ J : count[i] <= 0
    <3>1. ASSUME NEW i \in I \ J PROVE i \in d .. (b - 1)
      BY <1>1, <1>2
    <3> QED
      BY <1>2, <3>1
  <2> HIDE DEF I, J
  <2>3. Slots(count, J) = Slots(count, I)
    BY <2>1, <2>2, SlotsAlike
  <2> QED
    BY <2>3 DEF I, J
<1>7. /\ Cardinality(Claims(b) \cup {p}) \in Nat /\ Cardinality(Claims(d)) \in Nat
      /\ Slots(count, d .. High) \in Nat
  <2>1. Claims(b) \cup {p} \subseteq Callers
    BY <1>3, ClaimsFinite
  <2> QED
    BY <1>1, <2>1, ClaimsFinite, FiniteCallers, SlotsFrom
<1> QED
  BY <1>4, <1>5, <1>6, <1>7

(* What a release that is under way is at. *)
LEMMA FreesNow ==
  ASSUME SlidingWindows, SlideInv, NEW p \in Callers, Frees(op[p])
  PROVE  LET o == op[p] IN
         /\ o.keys = Window /\ o = [pc |-> o.pc, keys |-> o.keys, rest |-> o.rest]
         /\ Trying(o) \in Low .. High /\ Yet(o) \subseteq Low .. High
         /\ o.pc = "releasing" =>
              /\ Trying(o) \in Yet(o) /\ \A d \in Yet(o) : Trying(o) <= d
              /\ LET u == [o EXCEPT !.pc = "undoing"]
                 IN  /\ u.pc = "undoing" /\ u.keys = Window
                     /\ Trying(u) = Trying(o) /\ Yet(u) = Yet(o) \ {Trying(o)}
         /\ o.pc = "undoing" =>
              /\ \A d \in Yet(o) : Trying(o) < d
              /\ IF Yet(o) = {} THEN NextBucket(o) = Idle
                 ELSE /\ NextBucket(o).pc = "releasing" /\ NextBucket(o).keys = Window
                      /\ Yet(NextBucket(o)) = Yet(o)
<1>1. PICK o : o = op[p]
  OBVIOUS
<1>2. /\ Frees(o) /\ o.keys = Window /\ o.rest \subseteq DOMAIN Window /\ o.rest # {}
      /\ o = [pc |-> o.pc, keys |-> o.keys, rest |-> o.rest]
  <2>1. o.keys = Window
    BY <1>1 DEF SlideInv, CallsInv, InFlight, Frees
  <2>2. TypeOK
    BY DEF SlideInv
  <2> QED
    BY <1>1, <2>1, <2>2, OpShape DEF Frees
<1>3. TypeOK
  BY DEF SlideInv
<1>4. /\ Trying(o) \in Low .. High /\ Yet(o) \subseteq Low .. High
      /\ o.pc = "releasing" =>
           /\ Trying(o) \in Yet(o) /\ \A d \in Yet(o) : Trying(o) <= d
           /\ LET u == [o EXCEPT !.pc = "undoing"]
              IN  /\ u.pc = "undoing" /\ u.keys = Window
                  /\ Trying(u) = Trying(o) /\ Yet(u) = Yet(o) \ {Trying(o)}
      /\ o.pc = "undoing" =>
           /\ \A d \in Yet(o) : Trying(o) < d
           /\ IF Yet(o) = {} THEN NextBucket(o) = Idle
              ELSE /\ NextBucket(o).pc = "releasing" /\ NextBucket(o).keys = Window
                   /\ Yet(NextBucket(o)) = Yet(o)
  BY <1>2, <1>3, FreesInOrder
<1> QED
  BY <1>1, <1>2, <1>4, Zenon

(* Whoever claims the last bucket finds a slot in it. *)
LEMMA LastIsCounted ==
  ASSUME SlidingWindows, SlideInv, NEW p \in Claims(High)
  PROVE  count[High] >= 1
<1>1. TypeOK /\ High \in Nat /\ High \in Low .. High
  BY WindowIsInterval DEF SlideInv
<1>2. Cardinality(Claims(High)) <= Slots(count, High .. High)
  BY <1>1 DEF SlideInv, ClaimsInv
<1>3. Cardinality(Claims(High)) >= 1
  <2>1. Cardinality(Claims(High) \ {p}) = Cardinality(Claims(High)) - 1 /\ Cardinality(Claims(High)) > 0
    BY ClaimsFinite, OneFewer
  <2> QED
    BY <2>1, ClaimsFinite
<1>4. High .. High = {} \cup {High} /\ count[High] \in Int
  BY <1>1, SlotsFrom
<1>5. Slots(count, {} \cup {High})
        = Slots(count, {}) + (IF count[High] > 0 THEN count[High] ELSE 0)
  BY <1>4, FS_EmptySet, SlotsAdd
<1>6. Slots(count, {}) = 0
  BY FS_EmptySet DEF Slots
<1> QED
  BY <1>1, <1>2, <1>3, <1>4, <1>5, <1>6, ClaimsFinite

-----------------------------------------------------------------------------
(* A step of one caller leaves the others where they are. *)
OnlyOf(p) == now' = now /\ \A q \in Callers \ {p} : op'[q] = op[q]

LEMMA SameWindow ==
  ASSUME now' = now
  PROVE  Low' = Low /\ High' = High /\ Window' = Window
BY DEF Low, High, Window

LEMMA GrantedKept ==
  ASSUME SlideInv, GrantedNow' \subseteq GrantedNow
  PROVE  Cardinality(GrantedNow') <= Limit
<1>1. GrantedNow \subseteq Callers /\ GrantedNow' \subseteq Callers
  BY DEF GrantedNow, Granted
<1>2. Cardinality(GrantedNow') <= Cardinality(GrantedNow)
  BY <1>1, Fewer
<1>3. Cardinality(GrantedNow') \in Nat /\ Cardinality(GrantedNow) \in Nat /\ Limit \in Nat
  BY <1>1, FiniteCallers, RateLimiterAssumption
<1> QED
  BY <1>2, <1>3 DEF SlideInv

(* As long as nobody new is granted a slot, those granted are kept. *)
LEMMA GrantedFewer ==
  ASSUME NEW p \in Callers, OnlyOf(p),
         \/ op'[p] = Idle
         \/ op'[p].pc \in {"reserving", "refusing", "releasing", "undoing"}
         \/ op'[p].pc = "holding" /\ p \in GrantedNow /\ op'[p].keys = op[p].keys
  PROVE  GrantedNow' \subseteq GrantedNow
<1>1. Low' = Low
  BY SameWindow DEF OnlyOf
<1>2. ASSUME NEW q \in Callers, q # p, q \in GrantedNow' PROVE q \in GrantedNow
  BY <1>1, <1>2 DEF OnlyOf, GrantedNow, Granted
<1>3. ASSUME p \in GrantedNow' PROVE p \in GrantedNow
  <2>1. op'[p].pc \in {"holding", "expiring"}
    BY <1>3 DEF GrantedNow, Granted
  <2> QED
    BY <2>1 DEF Idle
<1>4. GrantedNow' \subseteq Callers
  BY DEF GrantedNow, Granted
<1> QED
  BY <1>2, <1>3, <1>4

(* Steps that count nothing. *)
LEMMA QuietSlide ==
  ASSUME SlidingWindows, SlideInv, TypeOK', count' = count, NEW p \in Callers, OnlyOf(p),
         InFlight(p)' => op'[p].keys = Window,
         op'[p].pc = "holding" => Final(op'[p].keys) <= High,
         op'[p].pc = "reserving" => Slots(count, Low .. (High - 1)) <= op'[p].older,
         Frees(op'[p]) => \A d \in Low .. (High - 1) : d \notin Yet(op'[p]) => count[d] <= 0,
         op'[p].pc # "undoing",
         \A b \in Low .. High :
           ClaimsFrom(op'[p], b) => Cardinality(Claims(b) \cup {p}) <= Slots(count, b .. High),
         GrantedNow' \subseteq GrantedNow
  PROVE  SlideInv'
<1>1. Low' = Low /\ High' = High /\ Window' = Window
  BY SameWindow DEF OnlyOf
<1>2. CallsInv'
  <2>1. ASSUME NEW q \in Callers
        PROVE  LET o == op'[q] IN
               /\ InFlight(q)' => o.keys = Window
               /\ o.pc = "holding" => Final(o.keys) <= High
               /\ o.pc = "reserving" => Slots(count, Low .. (High - 1)) <= o.older
               /\ Frees(o) => \A d \in Low .. (High - 1) : d \notin Yet(o) => count[d] <= 0
    <3>1. CASE q = p
      BY <3>1
    <3>2. CASE q # p
      <4>1. op'[q] = op[q]
        BY <3>2 DEF OnlyOf
      <4> QED
        BY <4>1 DEF SlideInv, CallsInv, InFlight
    <3> QED
      BY <3>1, <3>2
  <2> QED
    BY <1>1, <2>1 DEF CallsInv
<1>3. BucketsInv'
  <2>1. ASSUME NEW b \in Buckets, Undoing(b)' # {}
        PROVE  b < High /\ count[b] + Cardinality(Undoing(b)') <= 0
    <3>1. Undoing(b)' \subseteq Undoing(b) /\ Undoing(b) \subseteq Callers
      BY DEF Undoing, OnlyOf
    <3>2. Undoing(b) # {}
      BY <2>1, <3>1
    <3>3. b < High /\ count[b] + Cardinality(Undoing(b)) <= 0
      BY <3>2 DEF SlideInv, BucketsInv
    <3>4. /\ Cardinality(Undoing(b)') <= Cardinality(Undoing(b))
          /\ Cardinality(Undoing(b)') \in Nat /\ Cardinality(Undoing(b)) \in Nat
      <4>1. Undoing(b)' \subseteq Callers
        BY <3>1
      <4> QED
        BY <3>1, <4>1, Fewer, FiniteCallers
    <3>5. count[b] \in Int
      BY DEF SlideInv, TypeOK
    <3> QED
      BY <3>3, <3>4, <3>5
  <2>2. count[High] >= 0 /\ \A b \in Buckets : b > High => count[b] = 0
    BY DEF SlideInv, BucketsInv
  <2> QED
    BY <1>1, <2>1, <2>2 DEF BucketsInv
<1>4. ClaimsInv'
  <2>1. ASSUME NEW b \in Low .. High PROVE Cardinality(Claims(b)') <= Slots(count, b .. High)
    <3>1. Claims(b)' = {q \in Callers : ClaimsFrom(op'[q], b)}
      BY DEF Claims
    <3>2. \A q \in Callers \ {p} : op'[q] = op[q]
      BY DEF OnlyOf
    <3>3. /\ Claims(b) \subseteq Callers /\ Claims(b) \cup {p} \subseteq Callers
          /\ Claims(b)' \subseteq Callers
      BY <3>1, ClaimsFinite
    <3>4. /\ Cardinality(Claims(b)) <= Slots(count, b .. High) /\ Slots(count, b .. High) \in Nat
      BY SlotsFrom DEF SlideInv, ClaimsInv
    <3>5. /\ Cardinality(Claims(b)) \in Nat /\ Cardinality(Claims(b)') \in Nat
          /\ Cardinality(Claims(b) \cup {p}) \in Nat
      BY <3>3, FiniteCallers
    <3>6. CASE ClaimsFrom(op'[p], b)
      <4>1. Claims(b)' \subseteq Claims(b) \cup {p}
        BY <3>1, <3>2 DEF Claims
      <4>2. Cardinality(Claims(b)') <= Cardinality(Claims(b) \cup {p})
        BY <3>3, <4>1, Fewer
      <4> QED
        BY <3>4, <3>5, <3>6, <4>2
    <3>7. CASE ~ClaimsFrom(op'[p], b)
      <4>1. Claims(b)' \subseteq Claims(b)
        BY <3>1, <3>2, <3>7 DEF Claims
      <4>2. Cardinality(Claims(b)') <= Cardinality(Claims(b))
        BY <3>3, <4>1, Fewer
      <4> QED
        BY <3>4, <3>5, <4>2
    <3> QED
      BY <3>6, <3>7
  <2> QED
    BY <1>1, <2>1 DEF ClaimsInv
<1>5. Cardinality(GrantedNow)' <= Limit
  BY GrantedKept
<1> QED
  BY <1>2, <1>3, <1>4, <1>5 DEF SlideInv

(* Who claims a bucket already may go on doing so. *)
LEMMA ClaimsStay ==
  ASSUME SlidingWindows, SlideInv, NEW b \in Low .. High, NEW p \in Claims(b)
  PROVE  Cardinality(Claims(b) \cup {p}) <= Slots(count, b .. High)
<1>1. Claims(b) \cup {p} = Claims(b)
  OBVIOUS
<1> QED
  BY <1>1 DEF SlideInv, ClaimsInv

LEMMA ReserveSlides ==
  ASSUME SlidingWindows, SlideInv, TypeOK', NEW p \in Callers, Reserve(p)
  PROVE  SlideInv'
<1> DEFINE vals == MGet(Window)
           n == Len(Window) - 1
<1>1. /\ count' = count /\ OnlyOf(p)
      /\ op'[p] = [pc |-> "reserving", keys |-> Window, older |-> Older(vals),
                   first |-> Final(Window) \notin live]
  BY DEF Reserve, Become, OnlyOf, SlideInv, TypeOK
<1>2. /\ TypeOK /\ Low \in Nat /\ High \in Nat /\ Len(Window) \in Nat \ {0}
      /\ DOMAIN Window = 1 .. Len(Window) /\ High = Low + Len(Window) - 1
      /\ \A i \in 1 .. Len(Window) : Window[i] = Low + i - 1
      /\ Low .. High \subseteq Buckets
  BY WindowIsInterval DEF SlideInv
<1>3. n \in Nat /\ \A i \in 1 .. n : i \in DOMAIN Window /\ Low + i - 1 \in Low .. High
  BY <1>2
<1>4. \A i \in 1 .. n : vals[i] = count[Low + i - 1] /\ vals[i] \in Int
  BY <1>2, <1>3 DEF MGet, TypeOK
<1>5. Len(vals) = Len(Window)
  <2>1. vals = [i \in 1 .. Len(Window) |-> count[Window[i]]]
    BY <1>2 DEF MGet
  <2> HIDE DEF vals
  <2> QED
    BY <1>2, <2>1
<1>6. Older(vals) = Slots(vals, 1 .. n)
  BY <1>5 DEF Older
<1> HIDE DEF vals, n
<1>7. Slots(vals, 1 .. n) = Slots(count, Low .. (Low + n - 1))
  <2>1. n \in Nat /\ Low \in Int /\ \A i \in 1 .. n : vals[i] = count[Low + i - 1] /\ vals[i] \in Int
    BY <1>2, <1>3, <1>4
  <2> HIDE DEF Low
  <2> QED
    BY <2>1, SlotsOfPlaces, Zenon
<1>8. Low + n - 1 = High - 1
  BY <1>2 DEF n
<1>9. Older(vals) = Slots(count, Low .. (High - 1)) /\ Older(vals) \in Nat
  <2>1. IsFiniteSet(1 .. n)
    BY <1>3, FS_Interval
  <2>2. Slots(vals, 1 .. n) \in Nat
    <3> DEFINE I == 1 .. n
    <3>1. IsFiniteSet(I) /\ \A i \in I : vals[i] \in Int
      BY <1>4, <2>1
    <3> HIDE DEF I
    <3>2. Slots(vals, I) \in Nat
      BY <3>1, SlotsNat
    <3> QED
      BY <3>2 DEF I
  <2> QED
    BY <1>6, <1>7, <1>8, <2>2
<1>10. op'[p].pc = "reserving" /\ op'[p].keys = Window /\ op'[p].older = Older(vals)
  BY <1>1
<1>11. GrantedNow' \subseteq GrantedNow
  BY <1>1, <1>10, GrantedFewer
<1>12. ~Frees(op'[p]) /\ \A b : ~ClaimsFrom(op'[p], b)
  BY <1>10 DEF Frees, ClaimsFrom
<1>13. Slots(count, Low .. (High - 1)) <= op'[p].older
  BY <1>9, <1>10
<1> QED
  BY <1>1, <1>10, <1>11, <1>12, <1>13, QuietSlide

LEMMA ExpirySlides ==
  ASSUME SlidingWindows, SlideInv, TypeOK', NEW p \in Callers, SetExpiry(p)
  PROVE  SlideInv'
<1>1. /\ op[p].pc = "expiring" /\ count' = count /\ OnlyOf(p)
      /\ op'[p] = [pc |-> Verdict(op[p].total), keys |-> op[p].keys]
  BY DEF SetExpiry, Become, OnlyOf, SlideInv, TypeOK
<1>2. op[p].keys = Window /\ op[p].total \in Int /\ TypeOK
  BY <1>1, OpShape DEF SlideInv, CallsInv, InFlight
<1>3. Low \in Nat /\ High \in Nat /\ Low <= High
  BY <1>2, WindowIsInterval
<1>4. /\ op'[p].keys = Window /\ op'[p].pc \in {"refusing", "holding"}
      /\ op'[p].pc = "holding" => op[p].total <= Limit
  BY <1>1, <1>2, RateLimiterAssumption DEF Verdict
<1>5. GrantedNow' \subseteq GrantedNow
  <2>1. op'[p].pc = "holding" => p \in GrantedNow
    BY <1>1, <1>2, <1>3, <1>4 DEF GrantedNow, Granted, High
  <2> QED
    BY <1>1, <1>2, <1>4, <2>1, GrantedFewer
<1>6. ASSUME NEW b \in Low .. High
      PROVE  Cardinality(Claims(b) \cup {p}) <= Slots(count, b .. High)
  <2>1. p \in Claims(b)
    BY <1>1, <1>2, <1>3 DEF Claims, ClaimsFrom, High
  <2> QED
    BY <2>1, ClaimsStay
<1>7. ~Frees(op'[p]) /\ Final(op'[p].keys) <= High
  BY <1>3, <1>4 DEF Frees, High
<1> QED
  BY <1>1, <1>4, <1>5, <1>6, <1>7, QuietSlide

LEMMA StopSlides ==
  ASSUME SlidingWindows, SlideInv, TypeOK', NEW p \in Callers, count' = count, OnlyOf(p),
         op'[p] = Idle
  PROVE  SlideInv'
<1>1. op'[p].pc = "idle"
  BY DEF Idle
<1>2. GrantedNow' \subseteq GrantedNow
  BY GrantedFewer
<1>3. ~InFlight(p)' /\ ~Frees(op'[p]) /\ \A b : ~ClaimsFrom(op'[p], b)
  BY <1>1 DEF InFlight, Frees, ClaimsFrom
<1> QED
  BY <1>1, <1>2, <1>3, QuietSlide

LEMMA ReleaseSlides ==
  ASSUME SlidingWindows, SlideInv, TypeOK', NEW p \in Callers, Release(p)
  PROVE  SlideInv'
<1> DEFINE full == {i \in DOMAIN Window : count[Window[i]] > 0}
           d == Final(op[p].keys)
<1>1. /\ op[p].pc = "holding" /\ d \in Span(Window) /\ count' = count /\ OnlyOf(p)
      /\ op'[p] = IF full = {} THEN Idle
                  ELSE [pc |-> "releasing", keys |-> Window, rest |-> full]
  BY DEF Release, Become, OnlyOf, SlideInv, TypeOK
<1>2. /\ TypeOK /\ Low \in Nat /\ High \in Nat /\ Len(Window) \in Nat \ {0}
      /\ DOMAIN Window = 1 .. Len(Window) /\ High = Low + Len(Window) - 1
      /\ \A i \in 1 .. Len(Window) : Window[i] = Low + i - 1
      /\ Low .. High = Span(Window) /\ Low .. High \subseteq Buckets
  BY WindowIsInterval DEF SlideInv
<1>3. CASE full = {}
  BY <1>1, <1>3, StopSlides
<1>4. CASE full # {}
  <2>1. op'[p].pc = "releasing" /\ op'[p].keys = Window /\ op'[p].rest = full
    BY <1>1, <1>4
  <2>2. Yet(op'[p]) = {Window[i] : i \in full}
    BY <2>1 DEF Yet
  <2>3. \A c \in Low .. High : c \notin Yet(op'[p]) => count[c] <= 0
    <3>1. ASSUME NEW c \in Low .. High, c \notin Yet(op'[p]) PROVE count[c] <= 0
      <4> DEFINE i == c - Low + 1
      <4>1. i \in 1 .. Len(Window)
        BY <1>2
      <4>2. Window[i] = c
        BY <1>2, <4>1
      <4> HIDE DEF i
      <4>3. i \notin full
        BY <2>2, <3>1, <4>2
      <4>4. ~(count[c] > 0)
        BY <1>2, <4>1, <4>2, <4>3
      <4> QED
        BY <1>2, <4>4 DEF TypeOK
    <3> QED
      BY <3>1
  <2>4. d \in Low .. High /\ p \in Claims(d)
    BY <1>1, <1>2 DEF Claims, ClaimsFrom
  <2>5. ASSUME NEW b \in Low .. High, ClaimsFrom(op'[p], b)
        PROVE  Cardinality(Claims(b) \cup {p}) <= Slots(count, b .. High)
    <3>1. \A c \in Yet(op'[p]) : c >= b
      BY <2>1, <2>5 DEF ClaimsFrom
    <3>2. CASE b <= d
      <4>1. p \in Claims(b)
        BY <1>1, <3>2 DEF Claims, ClaimsFrom
      <4> QED
        BY <4>1, ClaimsStay
    <3>3. CASE ~(b <= d)
      <4>1. b \in d .. High
        BY <1>2, <2>4, <3>3
      <4>2. ASSUME NEW c \in d .. (b - 1) PROVE count[c] <= 0
        <5>1. c \in Low .. High /\ ~(c >= b)
          BY <1>2, <2>4, <4>1
        <5> QED
          BY <2>3, <3>1, <5>1
      <4> HIDE DEF d
      <4> QED
        BY <2>4, <4>1, <4>2, ClaimsShift
    <3> QED
      BY <3>2, <3>3
  <2>6. GrantedNow' \subseteq GrantedNow
    BY <1>1, <2>1, GrantedFewer
  <2>7. \A c \in Low .. (High - 1) : c \in Low .. High
    BY <1>2
  <2> QED
    BY <1>1, <2>1, <2>3, <2>5, <2>6, <2>7, QuietSlide
<1> QED
  BY <1>3, <1>4
-----------------------------------------------------------------------------
(* Steps that count a slot in one bucket, or no longer count it. *)
OnlyAt(x) == \A d \in Buckets \ {x} : count'[d] = count[d]

LEMMA SlotsMoved ==
  ASSUME SlidingWindows, TypeOK, TypeOK', NEW x, OnlyAt(x), NEW b \in Low .. High
  PROVE  /\ x \notin b .. High \/ (x \in Buckets /\ count[x] <= 0 /\ count'[x] <= 0) =>
              Slots(count', b .. High) = Slots(count, b .. High)
         /\ x \in b .. High /\ count[x] >= 0 /\ count'[x] >= 0 =>
              Slots(count', b .. High) = Slots(count, b .. High) + (count'[x] - count[x])
<1>1. PICK v : v = count
  OBVIOUS
<1>2. PICK u : u = count'
  OBVIOUS
<1> DEFINE I == b .. High
<1>3. /\ IsFiniteSet(I) /\ I \subseteq Buckets
      /\ \A d \in I : v[d] \in Int
  BY <1>1, SlotsFrom
<1>4. \A d \in I : u[d] \in Int
  BY <1>2, <1>3 DEF TypeOK
<1>5. \A d \in I \ {x} : u[d] = v[d]
  BY <1>1, <1>2, <1>3 DEF OnlyAt
<1> HIDE DEF I
<1>6. ASSUME x \notin I \/ (x \in Buckets /\ v[x] <= 0 /\ u[x] <= 0) PROVE Slots(u, I) = Slots(v, I)
  <2>1. /\ \A i \in I : u[i] = v[i] \/ (u[i] <= 0 /\ v[i] <= 0)
        /\ \A i \in I \ I : v[i] <= 0
        /\ I \in SUBSET I
    BY <1>5, <1>6
  <2> QED
    BY <1>3, <1>4, <2>1, SlotsAlike
<1>7. ASSUME x \in I, v[x] >= 0, u[x] >= 0 PROVE Slots(u, I) = Slots(v, I) + (u[x] - v[x])
  BY <1>3, <1>4, <1>5, <1>7, SlotsChange
<1> QED
  BY <1>1, <1>2, <1>6, <1>7 DEF I

(* Slots in the buckets before the last are only given up. *)
LEMMA OlderSlide ==
  ASSUME SlidingWindows, TypeOK, TypeOK',
         \A d \in Low .. (High - 1) : count'[d] <= 0 \/ count'[d] <= count[d]
  PROVE  /\ Slots(count', Low .. (High - 1)) <= Slots(count, Low .. (High - 1))
         /\ Slots(count', Low .. (High - 1)) \in Nat /\ Slots(count, Low .. (High - 1)) \in Nat
<1>1. PICK v : v = count
  OBVIOUS
<1>2. PICK u : u = count'
  OBVIOUS
<1> DEFINE I == Low .. (High - 1)
<1>3. Low \in Nat /\ High \in Nat /\ Low .. High \subseteq Buckets /\ I \subseteq Low .. High
  BY WindowIsInterval
<1>4. IsFiniteSet(I)
  BY <1>3, FS_Interval
<1>5. \A d \in I : v[d] \in Int /\ u[d] \in Int
  BY <1>1, <1>2, <1>3 DEF TypeOK
<1>6. \A d \in I : u[d] <= 0 \/ u[d] <= v[d]
  BY <1>1, <1>2
<1> HIDE DEF I
<1>7. I \in SUBSET I
  OBVIOUS
<1>8. Slots(u, I) <= Slots(v, I)
  BY <1>4, <1>5, <1>6, <1>7, SlotsFewer
<1>9. Slots(u, I) \in Nat /\ Slots(v, I) \in Nat
  BY <1>4, <1>5, SlotsNat
<1> QED
  BY <1>1, <1>2, <1>8, <1>9 DEF I

LEMMA CountSlide ==
  ASSUME SlidingWindows, SlideInv, TypeOK', NEW p \in Callers, OnlyOf(p),
         NEW x \in Low .. High, OnlyAt(x),
         x < High => count'[x] <= 0 \/ count'[x] <= count[x],
         count'[High] >= 0,
         InFlight(p)' => op'[p].keys = Window,
         op'[p].pc # "reserving",
         op'[p].pc = "holding" => Final(op'[p].keys) <= High,
         Frees(op'[p]) => \A d \in Low .. (High - 1) : d \notin Yet(op'[p]) => count'[d] <= 0,
         op'[p].pc = "undoing" => Trying(op'[p]) = x,
         Undoing(x)' # {} => x < High /\ count'[x] + Cardinality(Undoing(x)') <= 0,
         \A b \in Low .. High : Cardinality(Claims(b)') <= Slots(count', b .. High),
         Cardinality(GrantedNow') <= Limit
  PROVE  SlideInv'
<1>1. Low' = Low /\ High' = High /\ Window' = Window
  BY SameWindow DEF OnlyOf
<1>2. /\ TypeOK /\ Low \in Nat /\ High \in Nat /\ Low .. High \subseteq Buckets
      /\ \A b \in Low .. High : b \in Int
  BY WindowIsInterval DEF SlideInv
<1>3. \A d \in Low .. (High - 1) :
        /\ d \in Low .. High /\ d < High
        /\ count'[d] <= 0 \/ count'[d] <= count[d]
  <2>1. ASSUME NEW d \in Low .. (High - 1)
        PROVE  d \in Low .. High /\ d < High /\ (count'[d] <= 0 \/ count'[d] <= count[d])
    <3>1. d \in Low .. High /\ d < High /\ d \in Buckets /\ count[d] \in Int
      BY <1>2 DEF TypeOK
    <3> QED
      BY <3>1 DEF OnlyAt
  <2> QED
    BY <2>1
<1>4. CallsInv'
  <2>1. ASSUME NEW q \in Callers
        PROVE  LET o == op'[q] IN
               /\ InFlight(q)' => o.keys = Window
               /\ o.pc = "holding" => Final(o.keys) <= High
               /\ o.pc = "reserving" => Slots(count', Low .. (High - 1)) <= o.older
               /\ Frees(o) => \A d \in Low .. (High - 1) : d \notin Yet(o) => count'[d] <= 0
    <3>1. CASE q = p
      BY <3>1
    <3>2. CASE q # p
      <4>1. op'[q] = op[q]
        BY <3>2 DEF OnlyOf
      <4>2. /\ InFlight(q) => op[q].keys = Window
            /\ op[q].pc = "holding" => Final(op[q].keys) <= High
            /\ op[q].pc = "reserving" => Slots(count, Low .. (High - 1)) <= op[q].older
            /\ Frees(op[q]) => \A d \in Low .. (High - 1) : d \notin Yet(op[q]) => count[d] <= 0
        BY DEF SlideInv, CallsInv
      <4>3. op[q].pc = "reserving" => Slots(count', Low .. (High - 1)) <= op[q].older
        <5>1. op[q].pc = "reserving" => op[q].older \in Nat
          BY <1>2, OpShape
        <5>2. /\ Slots(count', Low .. (High - 1)) <= Slots(count, Low .. (High - 1))
              /\ Slots(count', Low .. (High - 1)) \in Nat /\ Slots(count, Low .. (High - 1)) \in Nat
          BY <1>2, <1>3, OlderSlide
        <5> QED
          BY <4>2, <5>1, <5>2
      <4>4. ASSUME Frees(op[q]), NEW d \in Low .. (High - 1), d \notin Yet(op[q]) PROVE count'[d] <= 0
        <5>1. count[d] <= 0 /\ (count'[d] <= 0 \/ count'[d] <= count[d])
          BY <1>3, <4>2, <4>4
        <5>2. count[d] \in Int /\ count'[d] \in Int
          BY <1>2, <1>3 DEF TypeOK
        <5> QED
          BY <5>1, <5>2
      <4>5. InFlight(q)' = InFlight(q)
        BY <4>1 DEF InFlight
      <4> QED
        BY <4>1, <4>2, <4>3, <4>4, <4>5
    <3> QED
      BY <3>1, <3>2
  <2> QED
    BY <1>1, <2>1 DEF CallsInv
<1>5. BucketsInv'
  <2>1. ASSUME NEW b \in Buckets, Undoing(b)' # {}
        PROVE  b < High /\ count'[b] + Cardinality(Undoing(b)') <= 0
    <3>1. CASE b = x
      BY <2>1, <3>1
    <3>2. CASE b # x
      <4>1. Undoing(b)' \subseteq Undoing(b) /\ Undoing(b) \subseteq Callers
        BY <3>2 DEF Undoing, OnlyOf
      <4>2. Undoing(b) # {}
        BY <2>1, <4>1
      <4>3. b < High /\ count[b] + Cardinality(Undoing(b)) <= 0 /\ count'[b] = count[b]
        BY <3>2, <4>2 DEF SlideInv, BucketsInv, OnlyAt
      <4>4. /\ Cardinality(Undoing(b)') <= Cardinality(Undoing(b))
            /\ Cardinality(Undoing(b)') \in Nat /\ Cardinality(Undoing(b)) \in Nat
        <5>1. Undoing(b)' \subseteq Callers
          BY <4>1
        <5> QED
          BY <4>1, <5>1, Fewer, FiniteCallers
      <4>5. count[b] \in Int
        BY DEF SlideInv, TypeOK
      <4> QED
        BY <4>3, <4>4, <4>5
    <3> QED
      BY <3>1, <3>2
  <2>2. \A b \in Buckets : b > High => count'[b] = 0
    <3>1. ASSUME NEW b \in Buckets, b > High PROVE count'[b] = 0
      <4>1. b # x
        BY <1>2, <3>1
      <4> QED
        BY <3>1, <4>1 DEF SlideInv, BucketsInv, OnlyAt
    <3> QED
      BY <3>1
  <2> QED
    BY <1>1, <2>1, <2>2 DEF BucketsInv
<1>6. ClaimsInv'
  BY <1>1 DEF ClaimsInv
<1> QED
  BY <1>4, <1>5, <1>6 DEF SlideInv

(* A slot given back: from every bucket on that counted it, its caller     *)
(* claims one less.                                                        *)
LEMMA TakenBack ==
  ASSUME SlidingWindows, SlideInv, TypeOK', NEW p \in Callers, OnlyOf(p), op'[p] = Idle,
         NEW x \in Low .. High, OnlyAt(x), count[x] > 0, count'[x] = count[x] - 1,
         \A b \in Low .. x : p \in Claims(b)
  PROVE  SlideInv'
<1>1. /\ TypeOK /\ Low \in Nat /\ High \in Nat /\ Low .. High \subseteq Buckets
      /\ High \in Low .. High /\ \A b \in Low .. High : b \in Int
  BY WindowIsInterval DEF SlideInv
<1>2. x \in Buckets /\ x \in Int /\ count[x] \in Int /\ count'[x] \in Int /\ count'[x] >= 0
  BY <1>1 DEF TypeOK
<1>3. count'[High] >= 0
  <2>1. CASE x = High
    BY <1>2, <2>1
  <2>2. CASE x # High
    BY <1>1, <2>2 DEF OnlyAt, SlideInv, BucketsInv
  <2> QED
    BY <2>1, <2>2
<1>4. op'[p].pc = "idle" /\ ~Frees(op'[p]) /\ ~InFlight(p)' /\ \A b : ~ClaimsFrom(op'[p], b)
  BY DEF Idle, Frees, InFlight, ClaimsFrom
<1>5. Undoing(x)' = {}
  <2>1. Undoing(x)' \subseteq Undoing(x)
    BY <1>4 DEF Undoing, OnlyOf
  <2>2. Undoing(x) = {}
    <3>1. Undoing(x) \subseteq Callers
      BY DEF Undoing
    <3>2. Cardinality(Undoing(x)) \in Nat
      BY <3>1, FiniteCallers
    <3>3. Undoing(x) # {} => count[x] + Cardinality(Undoing(x)) <= 0
      BY <1>2 DEF SlideInv, BucketsInv
    <3> QED
      BY <1>2, <3>2, <3>3
  <2> QED
    BY <2>1, <2>2
<1>6. ASSUME NEW b \in Low .. High PROVE Cardinality(Claims(b)') <= Slots(count', b .. High)
  <2>1. Claims(b)' \subseteq Claims(b) \ {p}
    BY <1>4 DEF Claims, OnlyOf
  <2>2. Cardinality(Claims(b)) <= Slots(count, b .. High) /\ Slots(count, b .. High) \in Nat
    BY <1>1, SlotsFrom DEF SlideInv, ClaimsInv
  <2>3. Claims(b) \subseteq Callers /\ Claims(b) \ {p} \subseteq Callers /\ Claims(b)' \subseteq Callers
    BY <2>1, ClaimsFinite
  <2>4. /\ Cardinality(Claims(b)) \in Nat /\ Cardinality(Claims(b) \ {p}) \in Nat
        /\ Cardinality(Claims(b)') \in Nat
    BY <2>3, FiniteCallers
  <2>5. Cardinality(Claims(b)') <= Cardinality(Claims(b) \ {p})
    BY <2>1, <2>3, Fewer
  <2>6. CASE b <= x
    <3>1. x \in b .. High /\ b \in Low .. x
      BY <1>1, <2>6
    <3>2. Slots(count', b .. High) = Slots(count, b .. High) + (count'[x] - count[x])
      BY <1>1, <1>2, <3>1, SlotsMoved
    <3>3. Cardinality(Claims(b) \ {p}) = Cardinality(Claims(b)) - 1
      BY <2>3, <3>1, OneFewer
    <3>4. Slots(count', b .. High) = Slots(count, b .. High) - 1
      BY <1>2, <2>2, <3>2
    <3> QED
      BY <2>2, <2>4, <2>5, <3>3, <3>4
  <2>7. CASE ~(b <= x)
    <3>1. x \notin b .. High
      BY <1>1, <2>7
    <3>2. Slots(count', b .. High) = Slots(count, b .. High)
      BY <1>1, <3>1, SlotsMoved
    <3>3. Cardinality(Claims(b) \ {p}) <= Cardinality(Claims(b))
      BY <2>3, Fewer
    <3> QED
      BY <2>2, <2>4, <2>5, <3>2, <3>3
  <2> QED
    BY <2>6, <2>7
<1>7. Cardinality(GrantedNow') <= Limit
  BY GrantedFewer, GrantedKept
<1>8. x < High => count'[x] <= count[x]
  BY <1>2
<1> QED
  BY <1>3, <1>4, <1>5, <1>6, <1>7, <1>8, CountSlide

LEMMA GiveBackSlides ==
  ASSUME SlidingWindows, SlideInv, TypeOK', NEW p \in Callers, GiveBack(p)
  PROVE  SlideInv'
<1>1. op[p].pc = "refusing" /\ op'[p] = Idle /\ OnlyOf(p)
  BY DEF GiveBack, Become, Add, OnlyOf, SlideInv, TypeOK
<1>2. op[p].keys = Window
  BY <1>1 DEF SlideInv, CallsInv, InFlight
<1>3. TypeOK /\ Low \in Nat /\ High \in Nat /\ High \in Low .. High /\ High \in Buckets
  BY WindowIsInterval DEF SlideInv
<1>4. count'[High] = count[High] - 1 /\ OnlyAt(High) /\ count[High] \in Int
  BY <1>2, <1>3 DEF GiveBack, Add, OnlyAt, High, TypeOK
<1>5. \A b \in Low .. High : p \in Claims(b)
  BY <1>1, <1>2, <1>3 DEF Claims, ClaimsFrom, High
<1>6. count[High] > 0
  BY <1>3, <1>4, <1>5, LastIsCounted
<1> HIDE DEF High
<1> QED
  BY <1>1, <1>3, <1>4, <1>5, <1>6, TakenBack

LEMMA FreeSlides ==
  ASSUME SlidingWindows, SlideInv, TypeOK', NEW p \in Callers, FreeSlot(p)
  PROVE  SlideInv'
<1>1. PICK o : o = op[p]
  OBVIOUS
<1>2. PICK x : x = Trying(op[p])
  OBVIOUS
<1>3. o.pc = "releasing" /\ Frees(o)
  BY <1>1 DEF FreeSlot, Frees
<1>4. /\ o.keys = Window /\ x \in Low .. High /\ Yet(o) \subseteq Low .. High
      /\ x \in Yet(o) /\ \A d \in Yet(o) : x <= d
  BY <1>1, <1>2, <1>3, FreesNow
<1>5. /\ TypeOK /\ Low \in Nat /\ High \in Nat /\ High \in Low .. High
      /\ Low .. High \subseteq Buckets /\ \A b \in Low .. High : b \in Int
  BY WindowIsInterval DEF SlideInv
<1>6. x \in Buckets /\ x \in Int /\ count[x] \in Int /\ count'[x] = count[x] - 1 /\ OnlyAt(x)
  BY <1>2, <1>4, <1>5 DEF FreeSlot, Add, OnlyAt, TypeOK, Trying
<1>7. op'[p] = (IF count[x] > 0 THEN Idle ELSE [o EXCEPT !.pc = "undoing"]) /\ OnlyOf(p)
  BY <1>1, <1>2 DEF FreeSlot, Become, Add, OnlyOf, SlideInv, TypeOK, Trying
<1>8. \A b \in Low .. x : p \in Claims(b)
  <2>1. ASSUME NEW b \in Low .. x PROVE p \in Claims(b)
    <3>1. \A d \in Yet(o) : d >= b
      BY <1>4, <1>5, <1>6
    <3> QED
      BY <1>1, <1>3, <1>4, <3>1 DEF Claims, ClaimsFrom
  <2> QED
    BY <2>1
<1>9. CASE count[x] > 0
  BY <1>4, <1>6, <1>7, <1>8, <1>9, TakenBack
<1>10. CASE ~(count[x] > 0)
  <2>1. PICK u : u = op'[p]
    OBVIOUS
  <2>2. u = [o EXCEPT !.pc = "undoing"]
    BY <1>7, <1>10, <2>1
  <2>3. u.pc = "undoing" /\ u.keys = Window /\ Trying(u) = x /\ Yet(u) = Yet(o) \ {x} /\ Frees(u)
    <3>1. LET w == [o EXCEPT !.pc = "undoing"]
          IN  /\ w.pc = "undoing" /\ w.keys = Window
              /\ Trying(w) = Trying(o) /\ Yet(w) = Yet(o) \ {Trying(o)}
      BY <1>1, <1>3, FreesNow
    <3> QED
      BY <1>1, <1>2, <2>2, <3>1 DEF Frees
  <2>4. x < High /\ count'[x] <= 0 /\ count[x] <= 0
    <3>1. High \in Low .. x => count[High] >= 1
      BY <1>8, LastIsCounted
    <3>2. x # High
      <4>1. x = High => High \in Low .. x /\ ~(count[High] >= 1)
        BY <1>5, <1>6, <1>10
      <4> QED
        BY <3>1, <4>1
    <3> QED
      BY <1>4, <1>5, <1>6, <1>10, <3>2
  <2>5. count'[High] >= 0
    BY <1>5, <1>6, <2>4 DEF OnlyAt, SlideInv, BucketsInv
  <2>6. ASSUME NEW d \in Low .. (High - 1), d \notin Yet(u) PROVE count'[d] <= 0
    <3>1. CASE d = x
      BY <2>4, <3>1
    <3>2. CASE d # x
      <4>1. d \notin Yet(o)
        BY <2>3, <2>6, <3>2
      <4>2. count[d] <= 0
        BY <1>1, <1>3, <4>1 DEF SlideInv, CallsInv
      <4>3. d \in Buckets
        BY <1>5
      <4> QED
        BY <1>6, <3>2, <4>2, <4>3 DEF OnlyAt
    <3> QED
      BY <3>1, <3>2
  <2>7. Undoing(x)' # {} => x < High /\ count'[x] + Cardinality(Undoing(x)') <= 0
    <3>1. Undoing(x)' = Undoing(x) \cup {p} /\ p \notin Undoing(x)
      BY <1>1, <1>3, <1>7, <2>1, <2>3 DEF Undoing, OnlyOf
    <3>2. Undoing(x) \subseteq Callers
      BY DEF Undoing
    <3>3. Cardinality(Undoing(x)') = Cardinality(Undoing(x)) + 1
      BY <3>1, <3>2, OneMore
    <3>4. count[x] + Cardinality(Undoing(x)) <= 0 /\ Cardinality(Undoing(x)) \in Nat
      <4>1. CASE Undoing(x) = {}
        BY <1>6, <2>4, <4>1, FS_EmptySet
      <4>2. CASE Undoing(x) # {}
        BY <1>6, <3>2, <4>2, FiniteCallers DEF SlideInv, BucketsInv
      <4> QED
        BY <4>1, <4>2
    <3> QED
      BY <1>6, <2>4, <3>3, <3>4
  <2>8. ASSUME NEW b \in Low .. High PROVE Cardinality(Claims(b)') <= Slots(count', b .. High)
    <3>1. Slots(count', b .. High) = Slots(count, b .. High)
      BY <1>5, <1>6, <2>4, SlotsMoved
    <3>2. Cardinality(Claims(b)) <= Slots(count, b .. High) /\ Slots(count, b .. High) \in Nat
      BY <1>5, SlotsFrom DEF SlideInv, ClaimsInv
    <3>3. Claims(b)' = {q \in Callers : ClaimsFrom(op'[q], b)} /\ \A q \in Callers \ {p} : op'[q] = op[q]
      BY <1>7 DEF Claims, OnlyOf
    <3>4. /\ Claims(b) \subseteq Callers /\ Claims(b) \cup {p} \subseteq Callers
          /\ Claims(b)' \subseteq Claims(b) \cup {p}
      BY <3>3, ClaimsFinite DEF Claims
    <3>5. /\ Cardinality(Claims(b)) \in Nat /\ Cardinality(Claims(b) \cup {p}) \in Nat
          /\ Cardinality(Claims(b)') \in Nat
      <4>1. Claims(b)' \subseteq Callers
        BY <3>4
      <4> QED
        BY <3>4, <4>1, FiniteCallers
    <3>6. Cardinality(Claims(b)') <= Cardinality(Claims(b) \cup {p})
      BY <3>4, Fewer
    <3>7. CASE b <= x
      <4>1. p \in Claims(b)
        BY <1>5, <1>6, <1>8, <3>7
      <4>2. Cardinality(Claims(b) \cup {p}) <= Slots(count, b .. High)
        BY <4>1, ClaimsStay
      <4> QED
        BY <3>1, <3>2, <3>5, <3>6, <4>2
    <3>8. CASE ~(b <= x) /\ ClaimsFrom(u, b)
      <4>1. \A d \in Yet(u) : d >= b
        BY <2>3, <3>8 DEF ClaimsFrom
      <4>2. ASSUME NEW c \in x .. (b - 1) PROVE count[c] <= 0
        <5>1. CASE c = x
          BY <2>4, <5>1
        <5>2. CASE c # x
          <6>0. c \in Low .. (High - 1) /\ ~(c >= b)
            BY <1>4, <1>5, <1>6
          <6>1. c \notin Yet(o)
            BY <2>3, <4>1, <5>2, <6>0
          <6> QED
            BY <1>1, <1>3, <6>0, <6>1 DEF SlideInv, CallsInv
        <5> QED
          BY <5>1, <5>2
      <4>3. p \in Claims(x) /\ b \in x .. High
        BY <1>4, <1>5, <1>6, <1>8, <3>8
      <4>4. Cardinality(Claims(b) \cup {p}) <= Slots(count, b .. High)
        BY <1>4, <4>2, <4>3, ClaimsShift
      <4> QED
        BY <3>1, <3>2, <3>5, <3>6, <4>4
    <3>9. CASE ~ClaimsFrom(u, b)
      <4>1. Claims(b)' \subseteq Claims(b)
        BY <2>1, <3>3, <3>9 DEF Claims
      <4>2. Cardinality(Claims(b)') <= Cardinality(Claims(b))
        BY <3>4, <4>1, Fewer
      <4> QED
        BY <3>1, <3>2, <3>5, <4>2
    <3> QED
      BY <3>7, <3>8, <3>9
  <2>9. Cardinality(GrantedNow') <= Limit
    BY <1>7, <2>1, <2>3, GrantedFewer, GrantedKept
  <2>10. InFlight(p)' => op'[p].keys = Window
    BY <2>1, <2>3
  <2> QED
    BY <1>4, <1>6, <1>7, <2>1, <2>3, <2>4, <2>5, <2>6, <2>7, <2>8, <2>9, <2>10, CountSlide
<1> QED
  BY <1>9, <1>10

LEMMA UndoSlides ==
  ASSUME SlidingWindows, SlideInv, TypeOK', NEW p \in Callers, UndoFree(p)
  PROVE  SlideInv'
<1>1. PICK o : o = op[p]
  OBVIOUS
<1>2. PICK x : x = Trying(op[p])
  OBVIOUS
<1>3. o.pc = "undoing" /\ Frees(o)
  BY <1>1 DEF UndoFree, Frees
<1>4. /\ o.keys = Window /\ x \in Low .. High /\ Yet(o) \subseteq Low .. High
      /\ IF Yet(o) = {} THEN NextBucket(o) = Idle
         ELSE /\ NextBucket(o).pc = "releasing" /\ NextBucket(o).keys = Window
              /\ Yet(NextBucket(o)) = Yet(o)
  BY <1>1, <1>2, <1>3, FreesNow
<1>5. /\ TypeOK /\ Low \in Nat /\ High \in Nat /\ High \in Low .. High
      /\ Low .. High \subseteq Buckets /\ \A b \in Low .. High : b \in Int
  BY WindowIsInterval DEF SlideInv
<1>6. x \in Buckets /\ x \in Int /\ count[x] \in Int /\ count'[x] = count[x] + 1 /\ OnlyAt(x)
  BY <1>2, <1>4, <1>5 DEF UndoFree, Add, OnlyAt, TypeOK, Trying
<1>7. op'[p] = NextBucket(o) /\ OnlyOf(p)
  BY <1>1 DEF UndoFree, Become, Add, OnlyOf, SlideInv, TypeOK
<1>8. PICK u : u = op'[p]
  OBVIOUS
<1>9. u = NextBucket(o)
  BY <1>7, <1>8
<1>10. /\ u.pc \in {"idle", "releasing"}
       /\ u.pc = "releasing" => Yet(o) # {}
       /\ u.pc = "releasing" => u.keys = Window /\ Yet(u) = Yet(o)
  BY <1>4, <1>9 DEF Idle
<1>11. p \in Undoing(x) /\ Undoing(x) \subseteq Callers
  BY <1>1, <1>2, <1>3 DEF Undoing
<1>12. /\ x < High /\ count[x] + Cardinality(Undoing(x)) <= 0
       /\ Cardinality(Undoing(x) \ {p}) = Cardinality(Undoing(x)) - 1
       /\ Cardinality(Undoing(x)) > 0 /\ Cardinality(Undoing(x)) \in Nat
  BY <1>6, <1>11, OneFewer, FiniteCallers DEF SlideInv, BucketsInv
<1>13. count[x] <= 0 /\ count'[x] <= 0
  BY <1>6, <1>12
<1>14. count'[High] >= 0
  BY <1>5, <1>6, <1>12 DEF OnlyAt, SlideInv, BucketsInv
<1>15. Undoing(x)' # {} => x < High /\ count'[x] + Cardinality(Undoing(x)') <= 0
  <2>1. Undoing(x)' = Undoing(x) \ {p}
    BY <1>7, <1>8, <1>10 DEF Undoing, OnlyOf
  <2> QED
    BY <1>6, <1>12, <2>1
<1>16. ASSUME Frees(u), NEW d \in Low .. (High - 1), d \notin Yet(u) PROVE count'[d] <= 0
  <2>1. Yet(u) = Yet(o)
    BY <1>10, <1>16 DEF Frees
  <2>2. count[d] <= 0
    BY <1>1, <1>3, <1>16, <2>1 DEF SlideInv, CallsInv
  <2>3. d \in Buckets
    BY <1>5
  <2> QED
    BY <1>6, <1>13, <2>2, <2>3 DEF OnlyAt
<1>17. ASSUME NEW b \in Low .. High PROVE Cardinality(Claims(b)') <= Slots(count', b .. High)
  <2>1. Slots(count', b .. High) = Slots(count, b .. High)
    BY <1>5, <1>6, <1>13, SlotsMoved
  <2>2. Cardinality(Claims(b)) <= Slots(count, b .. High) /\ Slots(count, b .. High) \in Nat
    BY <1>5, SlotsFrom DEF SlideInv, ClaimsInv
  <2>3. ClaimsFrom(u, b) => ClaimsFrom(o, b)
    BY <1>3, <1>10 DEF ClaimsFrom, Frees
  <2>4. Claims(b)' \subseteq Claims(b)
    BY <1>1, <1>7, <1>8, <2>3 DEF Claims, OnlyOf
  <2>5. Cardinality(Claims(b)') <= Cardinality(Claims(b))
    BY <2>4, ClaimsFinite, Fewer
  <2>6. Cardinality(Claims(b)') \in Nat /\ Cardinality(Claims(b)) \in Nat
    <3>1. Claims(b)' \subseteq Callers
      BY <2>4, ClaimsFinite
    <3> QED
      BY <3>1, ClaimsFinite, FiniteCallers
  <2> QED
    BY <2>1, <2>2, <2>5, <2>6
<1>18. Cardinality(GrantedNow') <= Limit
  <2>1. op'[p] = Idle \/ op'[p].pc = "releasing"
    BY <1>4, <1>7
  <2> QED
    BY <1>7, <2>1, GrantedFewer, GrantedKept
<1>19. /\ InFlight(p)' => op'[p].keys = Window
       /\ op'[p].pc \notin {"reserving", "holding", "undoing"}
       /\ Frees(op'[p]) => \A d \in Low .. (High - 1) : d \notin Yet(op'[p]) => count'[d] <= 0
  BY <1>8, <1>10, <1>16 DEF InFlight
<1> QED
  BY <1>4, <1>6, <1>7, <1>13, <1>14, <1>15, <1>17, <1>18, <1>19, CountSlide

(* A slot is taken in the last bucket, and granted against all the slots   *)
(* that the older buckets held when the call began, and this one holds     *)
(* now.                                                                    *)
LEMMA TakeSlides ==
  ASSUME SlidingWindows, SlideInv, TypeOK', NEW p \in Callers, TakeSlot(p)
  PROVE  SlideInv'
<1>1. PICK o : o = op[p]
  OBVIOUS
<1>2. PICK total : total = op[p].older + count[High] + 1
  OBVIOUS
<1>3. o.pc = "reserving" /\ o.keys = Window /\ o.older \in Nat /\ Slots(count, Low .. (High - 1)) <= o.older
  <2>1. o.pc = "reserving" /\ TypeOK
    BY <1>1 DEF TakeSlot, SlideInv
  <2>2. o.keys = Window /\ Slots(count, Low .. (High - 1)) <= o.older
    BY <1>1, <2>1 DEF SlideInv, CallsInv, InFlight
  <2> QED
    BY <1>1, <2>1, <2>2, OpShape
<1>4. /\ TypeOK /\ Low \in Nat /\ High \in Nat /\ High \in Low .. High /\ Low \in Low .. High
      /\ Low .. High \subseteq Buckets /\ \A b \in Low .. High : b \in Int
      /\ Low .. (High - 1) \subseteq Low .. High
  BY WindowIsInterval DEF SlideInv
<1>5. High \in Buckets /\ count[High] \in Int /\ count'[High] = count[High] + 1 /\ OnlyAt(High)
  BY <1>1, <1>3, <1>4 DEF TakeSlot, Add, OnlyAt, TypeOK, High
<1>6. count[High] >= 0 /\ count'[High] >= 0 /\ total \in Int /\ Limit \in Nat
  BY <1>1, <1>2, <1>3, <1>5, RateLimiterAssumption DEF SlideInv, BucketsInv
<1>7. /\ OnlyOf(p)
      /\ op'[p] = IF o.first
                  THEN [pc |-> "expiring", keys |-> o.keys, total |-> total]
                  ELSE [pc |-> Verdict(total), keys |-> o.keys]
  BY <1>1, <1>2, <1>3 DEF TakeSlot, Become, Add, OnlyOf, SlideInv, TypeOK, High
<1>8. PICK u : u = op'[p]
  OBVIOUS
<1>9. /\ u.pc \in {"expiring", "refusing", "holding"} /\ u.keys = Window
      /\ u.pc = "expiring" => u.total = total
      /\ u.pc = "holding" => total <= Limit
  BY <1>3, <1>6, <1>7, <1>8 DEF Verdict
<1>10. ~Frees(u) /\ Final(u.keys) = High /\ ~Frees(o)
  BY <1>3, <1>9 DEF Frees, High
<1>11. ASSUME NEW b \in Low .. High
       PROVE  /\ Claims(b)' = Claims(b) \cup {p} /\ p \notin Claims(b)
              /\ Cardinality(Claims(b)') <= Slots(count', b .. High)
  <2>1. ClaimsFrom(u, b) /\ ~ClaimsFrom(o, b)
    BY <1>3, <1>4, <1>9, <1>10 DEF ClaimsFrom
  <2>2. Claims(b)' = Claims(b) \cup {p} /\ p \notin Claims(b)
    BY <1>1, <1>7, <1>8, <2>1 DEF Claims, OnlyOf
  <2>3. Cardinality(Claims(b)') = Cardinality(Claims(b)) + 1
    BY <2>2, ClaimsFinite, OneMore
  <2>4. Cardinality(Claims(b)) <= Slots(count, b .. High) /\ Slots(count, b .. High) \in Nat
    BY <1>4, SlotsFrom DEF SlideInv, ClaimsInv
  <2>5. High \in b .. High
    BY <1>4
  <2>6. Slots(count', b .. High) = Slots(count, b .. High) + (count'[High] - count[High])
    <3> HIDE DEF High
    <3> QED
      BY <1>4, <1>5, <1>6, <2>5, SlotsMoved
  <2> QED
    BY <1>5, <2>2, <2>3, <2>4, <2>6, ClaimsFinite
<1> PICK x : x = High
  OBVIOUS
<1>12. Undoing(x)' = {}
  <2>1. Undoing(x) = {}
    BY <1>4, <1>5 DEF SlideInv, BucketsInv
  <2>2. \A q \in Callers : op'[q].pc = "undoing" => op'[q] = op[q]
    BY <1>7, <1>8, <1>9 DEF OnlyOf
  <2> QED
    BY <2>1, <2>2 DEF Undoing
<1>13. Cardinality(GrantedNow') <= Limit
  <2>1. CASE total <= Limit
    <3>1. PICK v : v = count'
      OBVIOUS
    <3> PICK b : b = Low
      OBVIOUS
    <3>2. GrantedNow' \subseteq Claims(b)'
      <4>1. Low' = Low
        BY <1>7, SameWindow DEF OnlyOf
      <4>2. ASSUME NEW q \in GrantedNow' PROVE q \in Claims(b)'
        BY <4>1 DEF GrantedNow, Granted, Claims, ClaimsFrom
      <4> QED
        BY <4>2
    <3>3. Cardinality(GrantedNow') <= Cardinality(Claims(b)')
      BY <3>2, Fewer DEF Claims
    <3>4. Cardinality(Claims(b)') <= Slots(v, Low .. High)
      BY <1>4, <1>11, <3>1
    <3>5. Slots(v, Low .. High) = Slots(v, Low .. (High - 1)) + (IF v[High] > 0 THEN v[High] ELSE 0)
      <4> DEFINE I == Low .. (High - 1)
      <4>1. IsFiniteSet(I) /\ High \notin I /\ I \cup {High} = Low .. High
        BY <1>4, FS_Interval
      <4>2. \A i \in I \cup {High} : v[i] \in Int
        BY <1>4, <3>1, <4>1 DEF TypeOK
      <4> HIDE DEF I
      <4>3. Slots(v, I \cup {High}) = Slots(v, I) + (IF v[High] > 0 THEN v[High] ELSE 0)
        BY <4>1, <4>2, SlotsAdd
      <4> QED
        BY <4>1, <4>3 DEF I
    <3>6. /\ Slots(v, Low .. (High - 1)) <= Slots(count, Low .. (High - 1))
          /\ Slots(v, Low .. (High - 1)) \in Nat /\ Slots(count, Low .. (High - 1)) \in Nat
      <4>1. ASSUME NEW d \in Low .. (High - 1) PROVE count'[d] <= count[d]
        <5>1. d \in Buckets /\ d # High /\ count[d] \in Int
          BY <1>4 DEF TypeOK
        <5> QED
          BY <1>5, <5>1 DEF OnlyAt
      <4> QED
        BY <1>4, <3>1, <4>1, OlderSlide
    <3>7. Slots(v, Low .. High) <= total
      BY <1>1, <1>2, <1>3, <1>5, <1>6, <3>1, <3>5, <3>6
    <3>8. Cardinality(GrantedNow') \in Nat /\ Cardinality(Claims(b)') \in Nat
      <4>1. GrantedNow' \subseteq Callers /\ Claims(b)' \subseteq Callers
        BY <3>2 DEF Claims
      <4> QED
        BY <4>1, FiniteCallers
    <3>9. Slots(v, Low .. High) \in Nat
      BY <1>5, <1>6, <3>1, <3>5, <3>6
    <3> QED
      BY <1>6, <2>1, <3>3, <3>4, <3>7, <3>8, <3>9
  <2>2. CASE ~(total <= Limit)
    <3>1. u.pc = "refusing" \/ (u.pc = "expiring" /\ ~(u.total <= Limit))
      BY <1>9, <2>2
    <3>2. GrantedNow' \subseteq GrantedNow
      <4>1. Low' = Low
        BY <1>7, SameWindow DEF OnlyOf
      <4> QED
        BY <1>7, <1>8, <3>1, <4>1 DEF GrantedNow, Granted, OnlyOf
    <3> QED
      BY <3>2, GrantedKept
  <2> QED
    BY <2>1, <2>2
<1>14. /\ InFlight(p)' => op'[p].keys = Window
       /\ op'[p].pc # "reserving" /\ op'[p].pc # "undoing"
       /\ op'[p].pc = "holding" => Final(op'[p].keys) <= High
       /\ ~Frees(op'[p])
  BY <1>4, <1>8, <1>9, <1>10
<1>15. ~(High < High)
  BY <1>4
<1>16. \A b \in Low .. High : Cardinality(Claims(b)') <= Slots(count', b .. High)
  BY <1>11
<1>17. /\ x \in Low .. High /\ OnlyAt(x) /\ ~(x < High)
       /\ op'[p].pc = "undoing" => Trying(op'[p]) = x
       /\ Frees(op'[p]) => \A d \in Low .. (High - 1) : d \notin Yet(op'[p]) => count'[d] <= 0
  BY <1>4, <1>5, <1>14, <1>15
<1> HIDE DEF High
<1> QED
  BY <1>6, <1>7, <1>12, <1>13, <1>14, <1>16, <1>17, CountSlide

LEMMA WindowMoves ==
  SlidingWindows /\ TypeOK'
    => Low' \in Nat /\ High' \in Nat /\ Low' <= High' /\ Low' .. High' \subseteq Buckets
<1>1. SlidingWindows /\ TypeOK
        => Low \in Nat /\ High \in Nat /\ Low <= High /\ Low .. High \subseteq Buckets
  BY WindowIsInterval
<1>2. (SlidingWindows /\ TypeOK)'
        => (Low \in Nat /\ High \in Nat /\ Low <= High /\ Low .. High \subseteq Buckets)'
  BY <1>1, PTL
<1>3. SlidingWindows' = SlidingWindows
  BY DEF SlidingWindows, Final
<1> QED
  BY <1>2, <1>3

(* Time goes by between calls, and the window with it. *)
LEMMA TickSlides ==
  ASSUME SlidingWindows, "straggler" \notin Faults, SlideInv, TypeOK', Tick
  PROVE  SlideInv'
<1>1. /\ TypeOK /\ count' = count /\ op' = op
      /\ now \in DOMAIN Windows /\ now' \in DOMAIN Windows /\ now' = now + 1
      /\ \A p \in Callers : ~InFlight(p)
  BY DEF Tick, SlideInv, TypeOK
<1>2. Low \in Nat /\ High \in Nat /\ Low <= High /\ Low .. High \subseteq Buckets
  BY <1>1, WindowIsInterval
<1>3. Low' \in Nat /\ High' \in Nat /\ Low' <= High' /\ Low' .. High' \subseteq Buckets
  BY WindowMoves
<1>4. Low <= Low' /\ High <= High'
  <2>1. now \in Nat /\ now < now'
    <3>1. Windows \in Seq(Seq(Buckets) \ {<<>>})
      BY RateLimiterAssumption
    <3> QED
      BY <1>1, <3>1
  <2> QED
    BY <1>1, <2>1 DEF SlidingWindows, Low, High, Window
<1>5. \A p \in Callers : /\ op[p].pc \in {"idle", "holding"} /\ ~Frees(op[p])
                         /\ op[p].pc = "holding" => /\ Final(op[p].keys) \in Nat
                                                   /\ Final(op[p].keys) <= High
  <2>1. ASSUME NEW p \in Callers
        PROVE  /\ op[p].pc \in {"idle", "holding"} /\ ~Frees(op[p])
               /\ op[p].pc = "holding" => /\ Final(op[p].keys) \in Nat
                                         /\ Final(op[p].keys) <= High
    <3>1. op[p].pc \in {"idle", "holding"} /\ ~Frees(op[p])
      BY <1>1 DEF InFlight, Frees
    <3>2. ASSUME op[p].pc = "holding" PROVE Final(op[p].keys) \in Nat
      <4>1. op[p].keys \in Span(Windows)
        BY <1>1, <3>2, OpShape
      <4>2. Final(op[p].keys) \in Buckets
        BY <4>1, KeysShape
      <4>3. Buckets \subseteq Nat
        BY DEF SlidingWindows
      <4> QED
        BY <4>2, <4>3, Zenon
    <3>3. op[p].pc = "holding" => Final(op[p].keys) <= High
      BY DEF SlideInv, CallsInv
    <3> QED
      BY <3>1, <3>2, <3>3
  <2> QED
    BY <2>1
<1>6. CallsInv'
  <2>1. ASSUME NEW p \in Callers
        PROVE  /\ ~InFlight(p)' /\ op'[p].pc # "reserving" /\ ~Frees(op'[p])
               /\ op'[p].pc = "holding" => Final(op'[p].keys) <= High'
    BY <1>1, <1>2, <1>3, <1>4, <1>5 DEF InFlight
  <2> QED
    BY <2>1 DEF CallsInv
<1>7. BucketsInv'
  <2>1. \A b \in Buckets : b > High => count[b] = 0
    BY DEF SlideInv, BucketsInv
  <2>2. count[High'] >= 0
    <3>1. CASE High' = High
      BY <3>1 DEF SlideInv, BucketsInv
    <3>2. CASE High' # High
      BY <1>2, <1>3, <1>4, <2>1, <3>2
    <3> QED
      BY <3>1, <3>2
  <2>3. ASSUME NEW b \in Buckets PROVE (b > High' => count[b] = 0) /\ Undoing(b)' = {}
    <3>1. b > High' => count[b] = 0
      <4>1. b \in Nat
        BY DEF SlidingWindows
      <4> QED
        BY <1>2, <1>3, <1>4, <2>1, <4>1
    <3>2. Undoing(b)' = {}
      BY <1>1, <1>5 DEF Undoing
    <3> QED
      BY <3>1, <3>2
  <2> QED
    BY <1>1, <2>2, <2>3 DEF BucketsInv
<1>8. ClaimsInv'
  <2> PICK h : h = High'
    OBVIOUS
  <2>1. ASSUME NEW b \in Low' .. High' PROVE Cardinality(Claims(b)') <= Slots(count, b .. h)
    <3>1. b \in Nat /\ Low <= b /\ b <= h /\ h \in Nat /\ High <= h
      BY <1>2, <1>3, <1>4
    <3>2. Claims(b)' = Claims(b)
      BY <1>1 DEF Claims
    <3> DEFINE I == b .. h
               J == b .. High
    <3>3. IsFiniteSet(I) /\ I \subseteq Buckets /\ \A i \in I : count[i] \in Int
      <4>1. I \subseteq Low' .. High' /\ IsFiniteSet(I)
        BY <1>3, <3>1, FS_Interval
      <4> QED
        BY <1>1, <1>3, <4>1 DEF TypeOK
    <3>4. CASE b <= High
      <4>1. b \in Low .. High
        BY <1>2, <3>1, <3>4
      <4>2. Cardinality(Claims(b)) <= Slots(count, J)
        BY <4>1 DEF SlideInv, ClaimsInv
      <4>3. J \in SUBSET I /\ \A i \in J : count[i] \in Int
        BY <1>2, <3>1, <3>3
      <4>4. \A i \in I \ J : count[i] <= 0
        <5>1. ASSUME NEW i \in I \ J PROVE i > High /\ i \in Buckets
          BY <1>2, <3>1, <3>3
        <5> QED
          BY <5>1 DEF SlideInv, BucketsInv
      <4> HIDE DEF I, J
      <4>5. Slots(count, J) = Slots(count, I)
        BY <3>3, <4>3, <4>4, SlotsAlike
      <4> QED
        BY <3>2, <4>2, <4>5 DEF I
    <3>5. CASE ~(b <= High)
      <4>1. Claims(b) = {}
        <5>1. ASSUME NEW p \in Callers PROVE ~ClaimsFrom(op[p], b)
          BY <1>2, <1>5, <3>1, <3>5 DEF ClaimsFrom
        <5> QED
          BY <5>1 DEF Claims
      <4> HIDE DEF I
      <4>2. Slots(count, I) \in Nat
        BY <3>3, SlotsNat
      <4>3. Cardinality(Claims(b)) = 0
        BY <4>1, FS_EmptySet
      <4> QED
        BY <3>2, <4>2, <4>3 DEF I
    <3> QED
      BY <3>4, <3>5
  <2> QED
    BY <1>1, <2>1 DEF ClaimsInv
<1>9. Cardinality(GrantedNow)' <= Limit
  <2>1. GrantedNow' \subseteq GrantedNow
    <3>1. ASSUME NEW q \in GrantedNow' PROVE q \in GrantedNow
      <4>1. /\ q \in Callers /\ op[q].pc = "holding" /\ Final(op[q].keys) >= Low'
        BY <1>1, <1>5 DEF GrantedNow, Granted
      <4>2. Final(op[q].keys) >= Low
        BY <1>2, <1>3, <1>4, <1>5, <4>1
      <4> QED
        BY <4>1, <4>2 DEF GrantedNow, Granted
    <3> QED
      BY <3>1
  <2> QED
    BY <2>1, GrantedKept
<1> QED
  BY <1>6, <1>7, <1>8, <1>9 DEF SlideInv

(* A bucket that expires is not in use. *)
LEMMA ExpireSlides ==
  ASSUME SlidingWindows, "expiry" \notin Faults, SlideInv, TypeOK', NEW x \in Buckets, Expire(x)
  PROVE  SlideInv'
<1>1. /\ TypeOK /\ op' = op /\ now' = now /\ x \notin Span(Window)
      /\ OnlyAt(x) /\ count'[x] = 0
  BY DEF Expire, SlideInv, TypeOK, OnlyAt
<1>2. Low' = Low /\ High' = High /\ Window' = Window
  BY <1>1, SameWindow
<1>3. /\ Low \in Nat /\ High \in Nat /\ Low .. High \subseteq Buckets /\ x \notin Low .. High
      /\ High \in Low .. High /\ \A b \in Low .. High : b \in Int
  BY <1>1, WindowIsInterval
<1>4. \A d \in Low .. High : d \in Buckets /\ count'[d] = count[d]
  BY <1>1, <1>3 DEF OnlyAt
<1>5. Low .. (High - 1) \subseteq Low .. High
  BY <1>3
<1>6. CallsInv'
  <2>1. Slots(count', Low .. (High - 1)) <= Slots(count, Low .. (High - 1))
        /\ Slots(count', Low .. (High - 1)) \in Nat /\ Slots(count, Low .. (High - 1)) \in Nat
    <3>1. \A d \in Low .. (High - 1) : count'[d] <= 0 \/ count'[d] <= count[d]
      <4>1. ASSUME NEW d \in Low .. (High - 1) PROVE count'[d] <= count[d]
        <5>1. count'[d] = count[d] /\ count[d] \in Int
          BY <1>1, <1>4, <1>5 DEF TypeOK
        <5> QED
          BY <5>1
      <4> QED
        BY <4>1
    <3> QED
      BY <1>1, <3>1, OlderSlide
  <2>2. ASSUME NEW q \in Callers
        PROVE  LET o == op[q] IN
               /\ InFlight(q) => o.keys = Window
               /\ o.pc = "holding" => Final(o.keys) <= High
               /\ o.pc = "reserving" => Slots(count', Low .. (High - 1)) <= o.older
               /\ Frees(o) => \A d \in Low .. (High - 1) : d \notin Yet(o) => count'[d] <= 0
    <3>1. /\ InFlight(q) => op[q].keys = Window
          /\ op[q].pc = "holding" => Final(op[q].keys) <= High
          /\ op[q].pc = "reserving" => Slots(count, Low .. (High - 1)) <= op[q].older
          /\ Frees(op[q]) => \A d \in Low .. (High - 1) : d \notin Yet(op[q]) => count[d] <= 0
      BY DEF SlideInv, CallsInv
    <3>2. op[q].pc = "reserving" => op[q].older \in Nat
      BY <1>1, OpShape
    <3>3. op[q].pc = "reserving" => Slots(count', Low .. (High - 1)) <= op[q].older
      BY <2>1, <3>1, <3>2
    <3>4. Frees(op[q]) => \A d \in Low .. (High - 1) : d \notin Yet(op[q]) => count'[d] <= 0
      BY <1>4, <1>5, <3>1
    <3> QED
      BY <3>1, <3>3, <3>4
  <2> QED
    BY <1>1, <1>2, <2>2 DEF CallsInv, InFlight
<1>7. BucketsInv'
  <2>1. count'[High] >= 0
    BY <1>3, <1>4 DEF SlideInv, BucketsInv
  <2>2. ASSUME NEW b \in Buckets
        PROVE  /\ b > High => count'[b] = 0
               /\ Undoing(b) # {} => b < High /\ count'[b] + Cardinality(Undoing(b)) <= 0
    <3>1. CASE b = x
      <4>1. ASSUME NEW p \in Undoing(b) PROVE FALSE
        <5>1. p \in Callers /\ Frees(op[p]) /\ Trying(op[p]) = x
          BY <3>1, <4>1 DEF Undoing, Frees
        <5>2. Trying(op[p]) \in Low .. High
          BY <5>1, FreesNow
        <5> QED
          BY <1>3, <5>1, <5>2
      <4> QED
        BY <1>1, <3>1, <4>1
    <3>2. CASE b # x
      BY <1>1, <3>2 DEF OnlyAt, SlideInv, BucketsInv
    <3> QED
      BY <3>1, <3>2
  <2>3. \A b \in Buckets : Undoing(b)' = Undoing(b)
    BY <1>1 DEF Undoing
  <2> QED
    BY <1>2, <2>1, <2>2, <2>3 DEF BucketsInv
<1>8. ClaimsInv'
  <2>1. ASSUME NEW b \in Low .. High PROVE Cardinality(Claims(b)') <= Slots(count', b .. High)
    <3>1. Claims(b)' = Claims(b)
      BY <1>1 DEF Claims
    <3>2. x \notin b .. High
      BY <1>3
    <3>3. Slots(count', b .. High) = Slots(count, b .. High)
      BY <1>1, <3>2, SlotsMoved
    <3> QED
      BY <3>1, <3>3 DEF SlideInv, ClaimsInv
  <2> QED
    BY <1>2, <2>1 DEF ClaimsInv
<1>9. Cardinality(GrantedNow)' <= Limit
  <2>1. GrantedNow' = GrantedNow
    BY <1>1, <1>2 DEF GrantedNow, Granted
  <2> QED
    BY <2>1 DEF SlideInv
<1> QED
  BY <1>6, <1>7, <1>8, <1>9 DEF SlideInv

LEMMA SlideNext ==
  ASSUME SlidingWindows, "expiry" \notin Faults, "straggler" \notin Faults, SlideInv, [Next]_vars
  PROVE  SlideInv'
<1>1. TypeOK'
  BY TypeNext DEF SlideInv
<1>2. ASSUME NEW p \in Callers, Reserve(p) PROVE SlideInv'
  BY <1>1, <1>2, ReserveSlides
<1>3. ASSUME NEW p \in Callers, TakeSlot(p) PROVE SlideInv'
  BY <1>1, <1>3, TakeSlides
<1>4. ASSUME NEW p \in Callers, SetExpiry(p) PROVE SlideInv'
  BY <1>1, <1>4, ExpirySlides
<1>5. ASSUME NEW p \in Callers, GiveBack(p) PROVE SlideInv'
  BY <1>1, <1>5, GiveBackSlides
<1>6. ASSUME NEW p \in Callers, Release(p) PROVE SlideInv'
  BY <1>1, <1>6, ReleaseSlides
<1>7. ASSUME NEW p \in Callers, FreeSlot(p) PROVE SlideInv'
  BY <1>1, <1>7, FreeSlides
<1>8. ASSUME NEW p \in Callers, UndoFree(p) PROVE SlideInv'
  BY <1>1, <1>8, UndoSlides
<1>9. ASSUME NEW p \in Callers, Abandon(p) \/ Lapse(p) PROVE SlideInv'
  <2>1. op'[p] = Idle /\ count' = count /\ OnlyOf(p)
    BY <1>9 DEF Abandon, Lapse, Become, OnlyOf, SlideInv, TypeOK
  <2> QED
    BY <1>1, <2>1, StopSlides
<1>10. CASE Tick
  BY <1>1, <1>10, TickSlides
<1>11. ASSUME NEW b \in Buckets, Expire(b) PROVE SlideInv'
  BY <1>1, <1>11, ExpireSlides
<1>12. CASE UNCHANGED vars
  BY <1>12 DEF vars, SlideInv, TypeOK, CallsInv, BucketsInv, ClaimsInv, Claims, Undoing, GrantedNow,
               Granted, InFlight, Low, High, Window
<1> QED
  BY <1>2, <1>3, <1>4, <1>5, <1>6, <1>7, <1>8, <1>9, <1>10, <1>11, <1>12 DEF Next

(* The limit over a window of several buckets, however many callers there  *)
(* are and whichever calls are abandoned: ReserveRateLimitSlot takes its   *)
(* slot in the last bucket before it checks, and counts the older ones     *)
(* from before it did, when they can only have held more; and              *)
(* ReleaseRateLimitSlot, which may take from any bucket of the window,     *)
(* never leaves a later one with fewer slots than still claim it.  Calls   *)
(* end before the window moves on, and buckets outlive the windows they    *)
(* are in.                                                                 *)
THEOREM LimitKeptSliding ==
  ASSUME SlidingWindows, "expiry" \notin Faults, "straggler" \notin Faults
  PROVE  Spec => []NeverOverLimit
<1>1. Init => SlideInv
  <2> SUFFICES ASSUME Init PROVE SlideInv
    OBVIOUS
  <2>1. \A p \in Callers : op[p].pc = "idle"
    BY DEF Init, Idle
  <2>2. TypeOK
    BY RateLimiterAssumption DEF Init, TypeOK
  <2>3. High \in Buckets /\ count[High] = 0 /\ \A b \in Buckets : count[b] = 0
    <3>1. Low .. High \subseteq Buckets /\ High \in Nat /\ Low \in Nat /\ Low <= High
      BY <2>2, WindowIsInterval
    <3>2. High \in Buckets
      BY <3>1
    <3> QED
      BY <3>2 DEF Init
  <2>4. GrantedNow = {} /\ \A b : Claims(b) = {} /\ Undoing(b) = {}
    BY <2>1 DEF GrantedNow, Granted, Claims, Undoing, ClaimsFrom, Frees
  <2>5. CallsInv
    BY <2>1 DEF CallsInv, InFlight, Frees
  <2>6. BucketsInv
    BY <2>3, <2>4 DEF BucketsInv
  <2>7. ClaimsInv
    <3>1. ASSUME NEW b \in Low .. High PROVE Cardinality(Claims(b)) <= Slots(count, b .. High)
      <4>1. Slots(count, b .. High) \in Nat
        BY <2>2, SlotsFrom
      <4>2. Cardinality(Claims(b)) = 0
        BY <2>4, FS_EmptySet
      <4> QED
        BY <4>1, <4>2
    <3> QED
      BY <3>1 DEF ClaimsInv
  <2>8. Cardinality(GrantedNow) <= Limit
    BY <2>4, FS_EmptySet, RateLimiterAssumption
  <2> QED
    BY <2>2, <2>5, <2>6, <2>7, <2>8 DEF SlideInv
<1>2. SlideInv /\ [Next]_vars => SlideInv'
  BY SlideNext
<1>3. SlideInv => NeverOverLimit
  <2> SUFFICES ASSUME SlideInv PROVE NeverOverLimit
    OBVIOUS
  <2>1. Low .. High = Span(Window) /\ Low \in Nat /\ High \in Nat
    BY WindowIsInterval DEF SlideInv
  <2>2. Holders \subseteq GrantedNow /\ GrantedNow \subseteq Callers
    BY <2>1 DEF Holders, GrantedNow, Granted
  <2>3. Cardinality(Holders) <= Cardinality(GrantedNow)
    BY <2>2, Fewer
  <2>4. Cardinality(Holders) \in Nat /\ Cardinality(GrantedNow) \in Nat /\ Limit \in Nat
    <3>1. Holders \subseteq Callers
      BY DEF Holders
    <3> QED
      BY <2>2, <3>1, FiniteCallers, RateLimiterAssumption
  <2> QED
    BY <2>3, <2>4 DEF SlideInv, NeverOverLimit
<1> QED
  BY <1>1, <1>2, <1>3, PTL DEF Spec
=============================================================================
