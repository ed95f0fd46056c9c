---------------------- MODULE LogServerTransportProofs ----------------------
(***************************************************************************)
(* Every invariant of LogServerTransport, for any events, limits,          *)
(* intervals, settings and faults: the limit on the counters is kept, each *)
(* event is counted once, the records of a tenant arrive in order, and the *)
(* sizes cover what is kept.                                               *)
(*                                                                         *)
(* What the folds of the model compute (the sum of an event's counters,    *)
(* the records of all arrays, the arrays of a batch) is shown first, by    *)
(* induction on the length: the set of the naturals, or of the sequences,  *)
(* with a property is all of them, as else it had a least element outside  *)
(* (WFMin).  Then one invariant per concern, each resting on those before. *)
(***************************************************************************)
EXTENDS LogServerTransport, FiniteSetTheorems, SequenceTheorems, WellFoundedInduction, TLAPS

(* A record as the queue and the batch hold it, whatever the bounds. *)
AnyRecord == [id : Nat, time : Nat, tenant : Tenants \cup {"nil"}, name : Names]

-----------------------------------------------------------------------------
(* Induction over the naturals for a set, by the least number outside it. *)
LEMMA NatInSet ==
  ASSUME NEW S, 0 \in S, \A n \in Nat : n \in S => n + 1 \in S
  PROVE  \A n \in Nat : n \in S
<1> DEFINE T == {n \in Nat : n \notin S}
           R == OpToRel(<, Nat)
<1> SUFFICES ASSUME T # {} PROVE FALSE
  OBVIOUS
<1>1. IsWellFoundedOn(R, Nat)
  BY NatLessThanWellFounded, Zenon
<1>2. T \subseteq Nat
  OBVIOUS
<1>3. \A a, b \in Nat : a < b => <<a, b>> \in R
  BY SMT DEF OpToRel
<1> HIDE DEF R, T
<1>4. PICK x \in T : \A y \in T : ~(<<y, x>> \in R)
  BY <1>1, <1>2, WFMin
<1>5. x \in Nat /\ x # 0 /\ x \notin S
  BY <1>4 DEF T
<1>6. x - 1 \in Nat /\ x - 1 < x /\ (x - 1) + 1 = x
  BY <1>5
<1>7. <<x - 1, x>> \in R
  BY <1>3, <1>5, <1>6
<1>8. x - 1 \in S
  BY <1>4, <1>6, <1>7 DEF T
<1> QED
  BY <1>5, <1>6, <1>8

(* What the folds of the library compute from the front of a sequence, for *)
(* a step given as a function.                                             *)
FoldOf(Op, base, seq, s, g) ==
  IF s = {} THEN base ELSE Op[<<seq[Max(s)], g[s \ {Max(s)}]>>]

(* The last index of a set of indices up to n that holds n is n. *)
LEMMA MaxIsLast ==
  ASSUME NEW n \in Nat, NEW s \in SUBSET (1..n), n \in s
  PROVE  Max(s) = n
<1>1. \A y \in s : n >= y
  OBVIOUS
<1>2. \A x \in s : (\A y \in s : x >= y) => x = n
  OBVIOUS
<1> QED
  BY <1>1, <1>2 DEF Max

HasFold(B, Op, base, n, seq) ==
  \E g \in [SUBSET (1..n) -> B] :
    \A s \in SUBSET (1..n) : g[s] = FoldOf(Op, base, seq, s, g)

(* There is a function that follows the step. *)
LEMMA FoldExists ==
  ASSUME NEW A, NEW B, NEW Op \in [A \X B -> B], NEW base \in B,
         NEW n \in Nat, NEW seq \in [1..n -> A]
  PROVE  HasFold(B, Op, base, n, seq)
<1> DEFINE Good(m, g) == \A s \in SUBSET (1..m) : g[s] = FoldOf(Op, base, seq, s, g)
           Has(m) == \E g \in [SUBSET (1..m) -> B] : Good(m, g)
           S == {m \in Nat : m <= n => Has(m)}
<1>1. Has(0)
  <2> DEFINE g == [s \in SUBSET (1..0) |-> base]
  <2>1. \A s \in SUBSET (1..0) : s = {}
    OBVIOUS
  <2>2. g \in [SUBSET (1..0) -> B] /\ Good(0, g)
    BY <2>1 DEF FoldOf
  <2> QED
    BY <2>2
<1>2. ASSUME NEW m \in Nat, m + 1 <= n, Has(m) PROVE Has(m + 1)
  <2>1. PICK g \in [SUBSET (1..m) -> B] : Good(m, g)
    BY <1>2
  <2> DEFINE h == [s \in SUBSET (1..(m+1)) |->
                     IF m + 1 \in s THEN Op[<<seq[m+1], g[s \ {m+1}]>>] ELSE g[s]]
  <2>2. ASSUME NEW s \in SUBSET (1..(m+1)) PROVE s \ {m+1} \in SUBSET (1..m)
    OBVIOUS
  <2>3. \A s \in SUBSET (1..(m+1)) : m + 1 \notin s => s \in SUBSET (1..m)
    OBVIOUS
  <2>4. \A s \in SUBSET (1..m) : s \in SUBSET (1..(m+1)) /\ m + 1 \notin s
    OBVIOUS
  <2>5. seq[m+1] \in A
    BY <1>2
  <2>6. h \in [SUBSET (1..(m+1)) -> B]
    BY <2>2, <2>3, <2>5
  <2>7. \A s \in SUBSET (1..m) : h[s] = g[s]
    BY <2>4
  <2>8. ASSUME NEW s \in SUBSET (1..(m+1)) PROVE h[s] = FoldOf(Op, base, seq, s, h)
    <3>1. CASE m + 1 \in s
      <4>1. Max(s) = m + 1
        BY <3>1, MaxIsLast
      <4>2. h[s \ {m+1}] = g[s \ {m+1}]
        BY <2>2, <2>7
      <4> QED
        BY <3>1, <4>1, <4>2 DEF FoldOf
    <3>2. CASE m + 1 \notin s /\ s # {}
      <4>1. s \in SUBSET (1..m)
        BY <3>2, <2>3
      <4>2. h[s] = g[s]
        BY <4>1, <2>7
      <4>3. g[s] = Op[<<seq[Max(s)], g[s \ {Max(s)}]>>]
        BY <2>1, <3>2, <4>1 DEF FoldOf
      <4>4. s \ {Max(s)} \in SUBSET (1..m)
        BY <4>1
      <4>5. h[s \ {Max(s)}] = g[s \ {Max(s)}]
        BY <4>4, <2>7
      <4> QED
        BY <3>2, <4>2, <4>3, <4>5 DEF FoldOf
    <3>3. CASE s = {}
      <4>1. s \in SUBSET (1..m)
        BY <3>3
      <4> QED
        BY <2>1, <2>7, <3>3, <4>1 DEF FoldOf
    <3> QED
      BY <3>1, <3>2, <3>3
  <2> QED
    BY <2>6, <2>8
<1> HIDE DEF Has
<1>3. 0 \in S /\ \A m \in Nat : m \in S => m + 1 \in S
  BY <1>1, <1>2
<1> HIDE DEF S
<1>4. n \in S
  BY <1>3, NatInSet
<1>5. Has(n)
  BY <1>4 DEF S
<1> QED
  BY <1>5 DEF Has, HasFold

(* The front of the indices, one index at a time. *)
LEMMA IndicesUpTo ==
  ASSUME NEW n \in Nat, NEW m \in 1..n
  PROVE  /\ 1..m \in SUBSET (1..n) /\ 1..m # {} /\ Max(1..m) = m
         /\ (1..m) \ {m} = 1..(m-1)
<1>1. 1..m \in SUBSET (1..m) /\ m \in 1..m /\ m \in Nat
  OBVIOUS
<1>2. Max(1..m) = m
  BY <1>1, MaxIsLast
<1>3. 1..m \in SUBSET (1..n) /\ 1..m # {}
  BY <1>1
<1>4. (1..m) \ {m} = 1..(m-1)
  OBVIOUS
<1> QED
  BY <1>2, <1>3, <1>4

(* A set of indices that is not empty has a last index. *)
LEMMA MaxIsIn ==
  ASSUME NEW n \in Nat, NEW s \in SUBSET (1..n), s # {}
  PROVE  Max(s) \in s
<1> DEFINE Has(m) == \A x \in SUBSET (1..m) : x # {} => Max(x) \in x
           S == {m \in Nat : Has(m)}
<1>1. Has(0)
  <2>1. 1..0 = {}
    OBVIOUS
  <2> QED
    BY <2>1
<1>2. ASSUME NEW m \in Nat, Has(m) PROVE Has(m + 1)
  <2>1. ASSUME NEW x \in SUBSET (1..(m+1)), x # {} PROVE Max(x) \in x
    <3>1. CASE m + 1 \in x
      BY <3>1, MaxIsLast
    <3>2. CASE m + 1 \notin x
      BY <1>2, <2>1, <3>2
    <3> QED
      BY <3>1, <3>2
  <2> QED
    BY <2>1
<1> HIDE DEF Has
<1>3. 0 \in S /\ \A m \in Nat : m \in S => m + 1 \in S
  BY <1>1, <1>2
<1> HIDE DEF S
<1>4. n \in S
  BY <1>3, NatInSet
<1> QED
  BY <1>4 DEF S, Has

(* What a map of numbers adds up to, as the elements of a set. *)
Units(S, f) == {u \in S \X Nat : 1 <= u[2] /\ u[2] <= f[u[1]]}

(* One more key adds its number. *)
LEMMA UnitsAdd ==
  ASSUME NEW S, NEW f, NEW x, x \notin S, f[x] \in Nat, IsFiniteSet(Units(S, f))
  PROVE  /\ IsFiniteSet(Units(S \cup {x}, f))
         /\ Cardinality(Units(S \cup {x}, f)) = Cardinality(Units(S, f)) + f[x]
<1> DEFINE X == {x} \X (1..f[x])
<1>1. Units(S \cup {x}, f) = Units(S, f) \cup X
  <2>1. ASSUME NEW u \in Units(S \cup {x}, f) PROVE u \in Units(S, f) \cup X
    BY <2>1 DEF Units
  <2>2. ASSUME NEW u \in Units(S, f) PROVE u \in Units(S \cup {x}, f)
    BY <2>2 DEF Units
  <2>3. ASSUME NEW u \in X PROVE u \in Units(S \cup {x}, f)
    BY <2>3 DEF Units
  <2> QED
    BY <2>1, <2>2, <2>3
<1>2. Units(S, f) \cap X = {}
  BY DEF Units
<1>3. IsFiniteSet({x}) /\ Cardinality({x}) = 1
  BY FS_Singleton
<1>4. IsFiniteSet(1..f[x]) /\ Cardinality(1..f[x]) = f[x]
  BY FS_Interval
<1>5. IsFiniteSet(X) /\ Cardinality(X) = Cardinality({x}) * Cardinality(1..f[x])
  BY <1>3, <1>4, FS_Product
<1> HIDE DEF X
<1>6. Cardinality(X) = f[x]
  BY <1>3, <1>4, <1>5
<1>7. Cardinality(Units(S, f)) \in Nat
  BY FS_CardinalityType
<1>8. Cardinality(Units(S, f) \cap X) = 0
  BY <1>2, FS_EmptySet
<1>9. /\ IsFiniteSet(Units(S, f) \cup X)
      /\ Cardinality(Units(S, f) \cup X)
           = Cardinality(Units(S, f)) + Cardinality(X) - Cardinality(Units(S, f) \cap X)
  BY <1>5, FS_Union
<1>10. IsFiniteSet(Units(S \cup {x}, f))
  BY <1>1, <1>9
<1>11. Cardinality(Units(S \cup {x}, f)) = Cardinality(Units(S, f)) + f[x] - 0
  BY <1>1, <1>6, <1>8, <1>9
<1>12. Cardinality(Units(S, f)) + f[x] - 0 = Cardinality(Units(S, f)) + f[x]
  BY <1>7
<1> QED
  BY <1>10, <1>11, <1>12

(* The sequence of a set has each element at one place. *)
LEMMA SetToSeqIsBijection ==
  ASSUME NEW S, IsFiniteSet(S)
  PROVE  /\ Cardinality(S) \in Nat
         /\ SetToSeq(S) \in [1..Cardinality(S) -> S]
         /\ IsInjective(SetToSeq(S))
         /\ S = {SetToSeq(S)[i] : i \in 1..Cardinality(S)}
<1> DEFINE n == Cardinality(S)
<1>1. n \in Nat /\ ExistsBijection(1..n, S)
  BY FS_CardinalityType
<1>2. \E q \in [1..n -> S] : IsInjective(q)
  BY <1>1 DEF ExistsBijection, Bijection, Injection
<1>3. SetToSeq(S) \in [1..n -> S] /\ IsInjective(SetToSeq(S))
  BY <1>2 DEF SetToSeq
<1>4. SetToSeq(S) \in Injection(1..n, S)
  BY <1>3 DEF Injection
<1>5. Cardinality(1..n) = n
  BY <1>1, FS_Interval
<1>6. SetToSeq(S) \in Surjection(1..n, S)
  BY <1>4, <1>5, FS_Injection
<1> QED
  BY <1>1, <1>3, <1>6 DEF Surjection

(* The sum over a set, as CountOf takes it. *)
SumOver(f, S) == FoldLeft(LAMBDA n, k : n + f[k], 0, SetToSeq(S))

(* It is the number of units. *)
LEMMA SumIsUnits ==
  ASSUME NEW S, IsFiniteSet(S), NEW f, \A k \in S : f[k] \in Nat
  PROVE  IsFiniteSet(Units(S, f)) /\ SumOver(f, S) = Cardinality(Units(S, f))
<1> DEFINE n == Cardinality(S)
           q == SetToSeq(S)
           Step(F, s) == IF s = {} THEN 0 ELSE F[s \ {Max(s)}] + f[q[Max(s)]]
           G == CHOOSE F : F = [s \in SUBSET DOMAIN q |-> Step(F, s)]
           Op == [p \in S \X Nat |-> p[2] + f[p[1]]]
<1>1. n \in Nat /\ q \in [1..n -> S] /\ IsInjective(q) /\ S = {q[i] : i \in 1..n}
  BY SetToSeqIsBijection
<1>2. SumOver(f, S) = G[DOMAIN q]
  BY DEF SumOver, FoldLeft, MapThenFoldSet
<1> HIDE DEF n, q
<1>3. DOMAIN q = 1..n
  BY <1>1
<1>4. Op \in [S \X Nat -> Nat]
  OBVIOUS
<1>5. \E F : F = [s \in SUBSET (1..n) |-> Step(F, s)]
  <2> HIDE DEF Op
  <2>1. PICK g \in [SUBSET (1..n) -> Nat] :
               \A s \in SUBSET (1..n) : g[s] = FoldOf(Op, 0, q, s, g)
    <3>1. q \in [1..n -> S] /\ n \in Nat /\ 0 \in Nat
      BY <1>1
    <3>2. HasFold(Nat, Op, 0, n, q)
      BY <1>4, <3>1, FoldExists
    <3> QED
      BY <3>2 DEF HasFold
  <2>2. ASSUME NEW s \in SUBSET (1..n) PROVE g[s] = Step(g, s)
    <3>1. CASE s = {}
      BY <2>1, <3>1 DEF FoldOf
    <3>2. CASE s # {}
      <4>1. Max(s) \in 1..n
        BY <1>1, <3>2, MaxIsIn
      <4>2. q[Max(s)] \in S /\ g[s \ {Max(s)}] \in Nat
        BY <1>1, <2>1, <4>1
      <4>3. Op[<<q[Max(s)], g[s \ {Max(s)}]>>] = g[s \ {Max(s)}] + f[q[Max(s)]]
        BY <4>2 DEF Op
      <4> QED
        BY <2>1, <3>2, <4>3 DEF FoldOf
    <3> QED
      BY <3>1, <3>2
  <2> QED
    BY <2>1, <2>2
<1>6. G = [s \in SUBSET (1..n) |-> Step(G, s)]
  BY <1>3, <1>5
<1> HIDE DEF G
<1>7. G[1..0] = 0
  BY <1>6
<1>8. \A m \in 1..n : G[1..m] = G[1..(m-1)] + f[q[m]]
  <2>1. ASSUME NEW m \in 1..n PROVE G[1..m] = G[1..(m-1)] + f[q[m]]
    <3>1. 1..m \in SUBSET (1..n) /\ 1..m # {} /\ Max(1..m) = m /\ (1..m) \ {m} = 1..(m-1)
      BY <1>1, IndicesUpTo
    <3>2. G[1..m] = Step(G, 1..m)
      BY <1>6, <3>1
    <3> QED
      BY <3>1, <3>2
  <2> QED
    BY <2>1
<1> DEFINE FirstOf(m) == {q[i] : i \in 1..m}
           Has(m) == /\ IsFiniteSet(Units(FirstOf(m), f))
                     /\ G[1..m] = Cardinality(Units(FirstOf(m), f))
           T == {m \in Nat : m <= n => Has(m)}
<1>9. Has(0)
  <2>1. Units(FirstOf(0), f) = {}
    BY DEF Units
  <2> QED
    BY <1>7, <2>1, FS_EmptySet
<1>10. ASSUME NEW m \in Nat, m + 1 <= n, Has(m) PROVE Has(m + 1)
  <2>1. FirstOf(m + 1) = FirstOf(m) \cup {q[m+1]}
    OBVIOUS
  <2>2. q[m+1] \notin FirstOf(m)
    BY <1>1, <1>10 DEF IsInjective
  <2>3. f[q[m+1]] \in Nat
    BY <1>1, <1>10
  <2>4. /\ IsFiniteSet(Units(FirstOf(m + 1), f))
        /\ Cardinality(Units(FirstOf(m + 1), f)) = Cardinality(Units(FirstOf(m), f)) + f[q[m+1]]
    <3> HIDE DEF FirstOf
    <3> QED
      BY <1>10, <2>1, <2>2, <2>3, UnitsAdd
  <2>5. m + 1 \in 1..n /\ (m + 1) - 1 = m
    BY <1>1, <1>10
  <2>6. G[1..(m+1)] = G[1..m] + f[q[m+1]]
    BY <1>8, <2>5
  <2> QED
    BY <1>10, <2>4, <2>6
<1> HIDE DEF Has
<1>11. 0 \in T /\ \A m \in Nat : m \in T => m + 1 \in T
  BY <1>1, <1>9, <1>10
<1> HIDE DEF T
<1>12. n \in T
  BY <1>1, <1>11, NatInSet
<1>13. Has(n) /\ FirstOf(n) = S
  BY <1>1, <1>12 DEF T
<1> QED
  BY <1>2, <1>3, <1>13 DEF Has

-----------------------------------------------------------------------------
(* Induction over sequences for a set, from the empty one by appending. *)
LEMMA SeqInSet ==
  ASSUME NEW X, NEW S, <<>> \in S,
         \A q \in Seq(X) : \A a \in X : q \in S => Append(q, a) \in S
  PROVE  \A q \in Seq(X) : q \in S
<1> DEFINE Has(n) == \A q \in Seq(X) : Len(q) = n => q \in S
           T == {n \in Nat : Has(n)}
<1>1. Has(0)
  BY EmptySeq
<1>2. ASSUME NEW n \in Nat, Has(n) PROVE Has(n + 1)
  <2>1. ASSUME NEW q \in Seq(X), Len(q) = n + 1 PROVE q \in S
    <3> DEFINE p == SubSeq(q, 1, n)
    <3>1. \A i \in 1..(n+1) : q[i] \in X
      BY <2>1, ElementOfSeq
    <3>2. p \in Seq(X) /\ Len(p) = n /\ \A i \in 1..n : p[i] = q[i]
      <4>1. \A i \in 1..n : q[i] \in X
        BY <3>1
      <4>2. /\ p \in Seq(X) /\ Len(p) = IF 1 <= n THEN n - 1 + 1 ELSE 0
            /\ \A i \in 1..(n - 1 + 1) : p[i] = q[1 + i - 1]
        BY <1>2, <4>1, SubSeqProperties
      <4> QED
        BY <4>2
    <3> HIDE DEF p
    <3>3. q[n+1] \in X
      BY <3>1
    <3>4. /\ Append(p, q[n+1]) \in Seq(X) /\ Len(Append(p, q[n+1])) = n + 1
          /\ \A i \in 1..n : Append(p, q[n+1])[i] = p[i]
          /\ Append(p, q[n+1])[n+1] = q[n+1]
      BY <3>2, <3>3, AppendProperties
    <3>5. \A i \in 1..(n+1) : q[i] = Append(p, q[n+1])[i]
      BY <3>2, <3>4
    <3>6. q = Append(p, q[n+1])
      BY <2>1, <3>4, <3>5, SeqEqual
    <3>7. p \in S
      BY <1>2, <3>2
    <3> QED
      BY <3>2, <3>3, <3>6, <3>7
  <2> QED
    BY <2>1
<1> HIDE DEF Has
<1>3. 0 \in T /\ \A n \in Nat : n \in T => n + 1 \in T
  BY <1>1, <1>2
<1> HIDE DEF T
<1>4. \A n \in Nat : n \in T
  BY <1>3, NatInSet
<1>5. ASSUME NEW q \in Seq(X) PROVE q \in S
  <2>1. Len(q) \in Nat
    BY LenProperties
  <2>2. Has(Len(q))
    BY <1>4, <2>1 DEF T
  <2> QED
    BY <2>2 DEF Has
<1> QED
  BY <1>5

(* Appending to a sequence that follows another. *)
LEMMA ConcatAppend ==
  ASSUME NEW X, NEW p \in Seq(X), NEW q \in Seq(X), NEW a \in X
  PROVE  p \o Append(q, a) = Append(p \o q, a)
<1>1. Append(q, a) = q \o <<a>> /\ <<a>> \in Seq(X)
  BY AppendIsConcat
<1>2. p \o q \in Seq(X)
  BY ConcatProperties
<1>3. Append(p \o q, a) = (p \o q) \o <<a>>
  BY <1>2, AppendIsConcat
<1> QED
  BY <1>1, <1>3, ConcatAssociative

(* An array of records, and the records of a sequence of them, as TypeOK   *)
(* counts them.                                                            *)
Array == [tenant : Tenants, ids : Seq(Nat)]
IdsOf(q) == [k \in DOMAIN q |-> q[k].ids]
Total(q) == Len(FlattenSeq(IdsOf(q)))
LenOf(q) == [k \in DOMAIN q |-> Len(q[k].ids)]

(* The records of arrays, one array after the other, are what the arrays'  *)
(* lengths add up to.                                                      *)
LEMMA TotalIsUnits ==
  ASSUME NEW q \in Seq(Array)
  PROVE  /\ IsFiniteSet(Units(1..Len(q), LenOf(q)))
         /\ Total(q) = Cardinality(Units(1..Len(q), LenOf(q)))
<1> DEFINE n == Len(q)
           r == IdsOf(q)
           Next_(F, i) == IF i = 1 THEN r[i] ELSE F[i-1] \o r[i]
           G == CHOOSE F : F = [i \in 1..Len(r) |-> Next_(F, i)]
           Op == [p \in Seq(Nat) \X Seq(Nat) |-> p[2] \o p[1]]
<1>1. n \in Nat /\ DOMAIN q = 1..n /\ \A k \in 1..n : q[k] \in Array
  BY LenProperties, ElementOfSeq
<1>2. \A k \in 1..n : r[k] = q[k].ids /\ r[k] \in Seq(Nat) /\ LenOf(q)[k] = Len(r[k])
                      /\ Len(r[k]) \in Nat
  BY <1>1, LenProperties DEF IdsOf, LenOf, Array
<1>3. r \in [1..n -> Seq(Nat)]
  BY <1>1, <1>2 DEF IdsOf
<1>4. r \in Seq(Seq(Nat)) /\ Len(r) = n
  <2> HIDE DEF r, n
  <2>1. r \in Seq(Seq(Nat))
    BY <1>1, <1>3, SeqDef
  <2>2. DOMAIN r = 1..n /\ DOMAIN r = 1..Len(r) /\ Len(r) \in Nat
    BY <1>3, <2>1, LenProperties
  <2> QED
    BY <1>1, <2>1, <2>2
<1>5. CASE n = 0
  <2>1. FlattenSeq(r) = r
    BY <1>4, <1>5 DEF FlattenSeq
  <2>2. Total(q) = 0
    BY <1>4, <1>5, <2>1 DEF Total
  <2>3. Units(1..n, LenOf(q)) = {}
    BY <1>5 DEF Units
  <2> QED
    BY <2>2, <2>3, FS_EmptySet
<1>6. CASE n # 0
  <2>1. FlattenSeq(r) = G[Len(r)]
    BY <1>4, <1>6 DEF FlattenSeq
  <2> HIDE DEF r, n
  <2>2. Op \in [Seq(Nat) \X Seq(Nat) -> Seq(Nat)]
    BY ConcatProperties
  <2>3. \E F : F = [i \in 1..n |-> Next_(F, i)]
    <3> HIDE DEF Op
    <3>1. <<>> \in Seq(Nat)
      BY EmptySeq
    <3>2. HasFold(Seq(Nat), Op, <<>>, n, r)
      BY <1>1, <1>3, <2>2, <3>1, FoldExists
    <3>3. PICK g \in [SUBSET (1..n) -> Seq(Nat)] :
                 \A s \in SUBSET (1..n) : g[s] = FoldOf(Op, <<>>, r, s, g)
      BY <3>2 DEF HasFold
    <3>4. ASSUME NEW i \in 1..n PROVE g[1..i] = g[1..(i-1)] \o r[i] /\ g[1..(i-1)] \in Seq(Nat)
      <4>1. /\ 1..i \in SUBSET (1..n) /\ 1..i # {} /\ Max(1..i) = i
            /\ (1..i) \ {i} = 1..(i-1)
        BY <1>1, IndicesUpTo
      <4>2. g[1..i] = Op[<<r[i], g[1..(i-1)]>>]
        BY <3>3, <4>1 DEF FoldOf
      <4>3. 1..(i-1) \in SUBSET (1..n)
        BY <4>1
      <4>4. g[1..(i-1)] \in Seq(Nat) /\ r[i] \in Seq(Nat)
        BY <1>2, <3>3, <4>3
      <4> QED
        BY <4>2, <4>4 DEF Op
    <3>5. g[1..0] = <<>>
      <4>1. 1..0 = {} /\ 1..0 \in SUBSET (1..n)
        OBVIOUS
      <4> QED
        BY <3>3, <4>1 DEF FoldOf
    <3> DEFINE F == [i \in 1..n |-> g[1..i]]
    <3>6. ASSUME NEW i \in 1..n PROVE F[i] = Next_(F, i)
      <4>1. CASE i = 1
        <5>0. i - 1 = 0
          BY <4>1
        <5>1. g[1..1] = <<>> \o r[1]
          BY <3>4, <3>5, <4>1, <5>0
        <5>2. r[1] \in Seq(Nat)
          BY <1>2, <4>1
        <5>3. <<>> \o r[1] = r[1]
          BY <5>2, ConcatEmptySeq
        <5> QED
          BY <4>1, <5>1, <5>3
      <4>2. CASE i # 1
        <5>1. i - 1 \in 1..n
          BY <1>1, <4>2
        <5>2. F[i-1] = g[1..(i-1)]
          BY <5>1
        <5> QED
          BY <3>4, <4>2, <5>2
      <4> QED
        BY <4>1, <4>2
    <3>7. F = [i \in 1..n |-> Next_(F, i)]
      <4>1. F = [i \in 1..n |-> F[i]]
        OBVIOUS
      <4> HIDE DEF F
      <4> QED
        BY <3>6, <4>1
    <3> QED
      BY <3>7
  <2>4. G = [i \in 1..n |-> Next_(G, i)]
    BY <1>4, <2>3
  <2> HIDE DEF G
  <2> DEFINE Has(m) == /\ G[m] \in Seq(Nat) /\ IsFiniteSet(Units(1..m, LenOf(q)))
                       /\ Len(G[m]) = Cardinality(Units(1..m, LenOf(q)))
             T == {m \in Nat : m + 1 <= n => Has(m + 1)}
  <2>5. ASSUME NEW m \in Nat, m + 1 <= n,
               IsFiniteSet(Units(1..m, LenOf(q)))
        PROVE  /\ IsFiniteSet(Units(1..(m+1), LenOf(q)))
               /\ Cardinality(Units(1..(m+1), LenOf(q))) = Cardinality(Units(1..m, LenOf(q))) + Len(r[m+1])
    <3>1. m + 1 \notin 1..m /\ 1..(m+1) = (1..m) \cup {m + 1} /\ m + 1 \in 1..n
      BY <1>1, <2>5
    <3>2. LenOf(q)[m+1] = Len(r[m+1]) /\ LenOf(q)[m+1] \in Nat
      BY <1>2, <3>1
    <3>3. /\ IsFiniteSet(Units((1..m) \cup {m + 1}, LenOf(q)))
          /\ Cardinality(Units((1..m) \cup {m + 1}, LenOf(q)))
               = Cardinality(Units(1..m, LenOf(q))) + LenOf(q)[m+1]
      <4> DEFINE x == m + 1
                 S == 1..m
                 f == LenOf(q)
      <4>1. x \notin S /\ f[x] \in Nat /\ IsFiniteSet(Units(S, f))
        BY <2>5, <3>1, <3>2
      <4> HIDE DEF x, S, f
      <4>2. /\ IsFiniteSet(Units(S \cup {x}, f))
            /\ Cardinality(Units(S \cup {x}, f)) = Cardinality(Units(S, f)) + f[x]
        BY <4>1, UnitsAdd
      <4> QED
        BY <4>2 DEF x, S, f
    <3> QED
      BY <3>1, <3>2, <3>3
  <2>6. Has(0 + 1)
    <3>1. 0 + 1 <= n /\ 0 \in Nat /\ 1 \in 1..n
      BY <1>1, <1>6
    <3>2. Units(1..0, LenOf(q)) = {}
      BY DEF Units
    <3>3. /\ IsFiniteSet(Units(1..(0+1), LenOf(q)))
          /\ Cardinality(Units(1..(0+1), LenOf(q)))
               = Cardinality(Units(1..0, LenOf(q))) + Len(r[0+1])
      BY <2>5, <3>1, <3>2, FS_EmptySet
    <3>4. G[1] = r[1] /\ r[1] \in Seq(Nat) /\ Len(r[1]) \in Nat
      BY <1>2, <2>4, <3>1
    <3>5. Cardinality(Units(1..0, LenOf(q))) = 0
      BY <3>2, FS_EmptySet, Zenon
    <3>6. 0 + 1 = 1 /\ Cardinality(Units(1..1, LenOf(q))) = Len(r[1])
      BY <3>3, <3>4, <3>5
    <3> QED
      BY <3>3, <3>4, <3>5, <3>6
  <2>7. ASSUME NEW m \in Nat, (m + 1) + 1 <= n, Has(m + 1) PROVE Has((m + 1) + 1)
    <3> DEFINE j == m + 1
    <3>1. j \in Nat /\ j + 1 <= n /\ j + 1 \in 1..n /\ j + 1 # 1 /\ (j + 1) - 1 = j
      BY <1>1, <2>7
    <3> HIDE DEF j
    <3>2. G[j+1] = G[j] \o r[j+1]
      BY <2>4, <3>1
    <3>3. G[j] \in Seq(Nat) /\ r[j+1] \in Seq(Nat)
      BY <1>2, <2>7, <3>1 DEF j
    <3>4. G[j+1] \in Seq(Nat) /\ Len(G[j+1]) = Len(G[j]) + Len(r[j+1])
      BY <3>2, <3>3, ConcatProperties
    <3>5. IsFiniteSet(Units(1..j, LenOf(q))) /\ Len(G[j]) = Cardinality(Units(1..j, LenOf(q)))
      BY <2>7 DEF j
    <3>6. Has(j + 1)
      BY <2>5, <3>1, <3>4, <3>5
    <3> QED
      BY <3>6 DEF j
  <2> HIDE DEF Has
  <2>8. 0 \in T /\ \A m \in Nat : m \in T => m + 1 \in T
    BY <1>1, <2>6, <2>7
  <2> HIDE DEF T
  <2>9. n - 1 \in Nat /\ (n - 1) + 1 = n
    BY <1>1, <1>6
  <2>10. n - 1 \in T
    BY <2>8, <2>9, NatInSet
  <2>11. Has(n)
    BY <1>1, <2>9, <2>10 DEF T
  <2> QED
    BY <1>4, <2>1, <2>11 DEF Has, Total, r, n
<1> QED
  BY <1>5, <1>6

(* One more array adds its records. *)
LEMMA TotalAppend ==
  ASSUME NEW q \in Seq(Array), NEW a \in Array
  PROVE  Total(q) \in Nat /\ Total(Append(q, a)) = Total(q) + Len(a.ids)
<1> DEFINE Q == Append(q, a)
           n == Len(q)
           f == LenOf(Q)
           x == n + 1
           S == 1..n
<1>1. n \in Nat /\ DOMAIN q = 1..n
  BY LenProperties
<1>2. /\ Q \in Seq(Array) /\ Len(Q) = n + 1
      /\ \A i \in 1..n : Q[i] = q[i]
      /\ Q[n+1] = a
  BY AppendProperties
<1> HIDE DEF Q
<1>3. DOMAIN Q = 1..(n+1)
  BY <1>2, LenProperties
<1>4. \A k \in 1..n : f[k] = LenOf(q)[k]
  BY <1>1, <1>2, <1>3 DEF LenOf
<1>5. f[n+1] = Len(a.ids) /\ Len(a.ids) \in Nat
  <2>1. n + 1 \in 1..(n+1)
    BY <1>1
  <2>2. a.ids \in Seq(Nat)
    BY DEF Array
  <2>3. Len(a.ids) \in Nat
    BY <2>2, LenProperties
  <2> QED
    BY <1>2, <1>3, <2>1, <2>3 DEF LenOf
<1>6. Units(1..n, LenOf(Q)) = Units(1..n, LenOf(q))
  BY <1>4 DEF Units
<1>7. IsFiniteSet(Units(S, f)) /\ Total(q) = Cardinality(Units(S, f))
  BY <1>6, TotalIsUnits
<1>8. x \notin S /\ f[x] \in Nat /\ S \cup {x} = 1..(n+1)
  BY <1>1, <1>5
<1>9. Total(Q) = Cardinality(Units(1..(n+1), f))
  BY <1>2, TotalIsUnits
<1>10. Total(q) \in Nat
  BY <1>7, FS_CardinalityType
<1> HIDE DEF x, S, f
<1>11. Cardinality(Units(S \cup {x}, f)) = Cardinality(Units(S, f)) + f[x]
  BY <1>7, <1>8, UnitsAdd
<1>12. f[x] = Len(a.ids)
  BY <1>5 DEF x
<1> QED
  BY <1>7, <1>8, <1>9, <1>10, <1>11, <1>12 DEF Q

(* No arrays hold no records.                                              *)
LEMMA TotalEmpty == Total(<<>>) = 0
<1>1. Units(1..0, LenOf(<<>>)) = {}
  BY DEF Units
<1>2. <<>> \in Seq(Array) /\ Len(<<>>) = 0
  BY EmptySeq
<1>3. Total(<<>>) = Cardinality(Units(1..Len(<<>>), LenOf(<<>>)))
  BY <1>2, TotalIsUnits
<1>4. Total(<<>>) = Cardinality({})
  BY <1>1, <1>2, <1>3
<1> QED
  BY <1>4, FS_EmptySet, Zenon

(* Arrays after others add their records. *)
LEMMA TotalConcat ==
  ASSUME NEW p \in Seq(Array), NEW q \in Seq(Array)
  PROVE  Total(p) \in Nat /\ Total(q) \in Nat /\ Total(p \o q) = Total(p) + Total(q)
<1> DEFINE Adds(x) == Total(x) \in Nat /\ Total(p \o x) = Total(p) + Total(x)
           S == {x \in Seq(Array) : Adds(x)}
<1>1. Total(p) \in Nat
  <2>1. IsFiniteSet(Units(1..Len(p), LenOf(p))) /\ Total(p) = Cardinality(Units(1..Len(p), LenOf(p)))
    BY TotalIsUnits
  <2> QED
    BY <2>1, FS_CardinalityType
<1>2. Adds(<<>>)
  <2>1. p \o <<>> = p
    BY ConcatEmptySeq
  <2> QED
    BY <1>1, <2>1, TotalEmpty
<1>3. ASSUME NEW x \in Seq(Array), NEW a \in Array, Adds(x) PROVE Adds(Append(x, a))
  <2>1. p \o Append(x, a) = Append(p \o x, a)
    BY ConcatAppend
  <2>2. p \o x \in Seq(Array)
    BY ConcatProperties
  <2>3. Total(Append(p \o x, a)) = Total(p \o x) + Len(a.ids)
    BY <2>2, TotalAppend
  <2>4. Total(Append(x, a)) = Total(x) + Len(a.ids)
    BY TotalAppend
  <2>5. Len(a.ids) \in Nat
    <3>1. a.ids \in Seq(Nat)
      BY DEF Array
    <3> QED
      BY <3>1, LenProperties
  <2> QED
    BY <1>1, <1>3, <2>1, <2>3, <2>4, <2>5
<1> HIDE DEF Adds
<1>4. <<>> \in S /\ \A x \in Seq(Array) : \A a \in Array : x \in S => Append(x, a) \in S
  BY <1>2, <1>3, EmptySeq, AppendProperties
<1> HIDE DEF S
<1>5. q \in S
  BY <1>4, SeqInSet
<1> QED
  BY <1>1, <1>5 DEF S, Adds

(* No array is empty. *)
Filled(q) == \A k \in DOMAIN q : q[k].ids # <<>>

(* Arrays that are not empty are no more than their records. *)
LEMMA NoMoreThanRecords ==
  ASSUME NEW q \in Seq(Array), Filled(q)
  PROVE  Len(q) <= Total(q)
<1> DEFINE Fits(x) == Filled(x) => Len(x) <= Total(x)
           S == {x \in Seq(Array) : Fits(x)}
<1>1. Fits(<<>>)
  BY TotalEmpty
<1>2. ASSUME NEW x \in Seq(Array), NEW a \in Array, Fits(x) PROVE Fits(Append(x, a))
  <2> SUFFICES ASSUME Filled(Append(x, a)) PROVE Len(Append(x, a)) <= Total(Append(x, a))
    OBVIOUS
  <2>1. /\ Append(x, a) \in Seq(Array) /\ Len(Append(x, a)) = Len(x) + 1
        /\ \A i \in 1..Len(x) : Append(x, a)[i] = x[i]
        /\ Append(x, a)[Len(x)+1] = a
    BY AppendProperties
  <2>2. Len(x) \in Nat /\ DOMAIN x = 1..Len(x) /\ DOMAIN Append(x, a) = 1..(Len(x)+1)
    BY <2>1, LenProperties
  <2>3. Filled(x) /\ a.ids # <<>>
    <3>1. Len(x) + 1 \in 1..(Len(x)+1) /\ \A i \in 1..Len(x) : i \in 1..(Len(x)+1)
      BY <2>2
    <3> QED
      BY <2>1, <2>2, <3>1 DEF Filled
  <2>4. Len(a.ids) \in Nat \ {0}
    <3>1. a.ids \in Seq(Nat)
      BY DEF Array
    <3> QED
      BY <2>3, <3>1, EmptySeq
  <2>5. Total(x) \in Nat /\ Total(Append(x, a)) = Total(x) + Len(a.ids)
    BY TotalAppend
  <2> QED
    BY <1>2, <2>1, <2>2, <2>3, <2>4, <2>5
<1> HIDE DEF Fits
<1>3. <<>> \in S /\ \A x \in Seq(Array) : \A a \in Array : x \in S => Append(x, a) \in S
  BY <1>1, <1>2, EmptySeq, AppendProperties
<1> HIDE DEF S
<1>4. q \in S
  BY <1>3, SeqInSet
<1> QED
  BY <1>4 DEF S, Fits

-----------------------------------------------------------------------------
(* What EncodeLogForTransfer does with one record, and where it starts. *)
AddRecord(s, r) ==
  LET t == TenantOf(r)
      ids == Append(s.open[t], r.id)
  IN  IF Len(ids) > maxPerArray
        THEN [ready |-> Append(s.ready, [tenant |-> t, ids |-> ids]),
              open  |-> [s.open EXCEPT ![t] = <<>>]]
        ELSE [s EXCEPT !.open[t] = ids]

NothingEncoded == [ready |-> <<>>, open |-> [t \in Tenants |-> <<>>]]
Encoding == [ready : Seq(Array), open : [Tenants -> Seq(Nat)]]

Encodes(records, st) ==
  /\ st[0] = NothingEncoded
  /\ \A m \in 1..Len(records) : st[m] = AddRecord(st[m-1], records[m])
  /\ EncodeLogForTransfer(records)
       = st[Len(records)].ready \o SetToSeq(Unsent(st[Len(records)].open))

(* The tenant a record counts for is one of Tenants.                       *)
LEMMA TenantOfRecord ==
  ASSUME NEW r \in AnyRecord
  PROVE  TenantOf(r) \in Tenants /\ r.id \in Nat
BY DEF AnyRecord, TenantOf, Tenants

(* Adding a record to what is encoded keeps its shape.                     *)
LEMMA AddRecordType ==
  ASSUME NEW s \in Encoding, NEW r \in AnyRecord
  PROVE  AddRecord(s, r) \in Encoding
<1> DEFINE t == TenantOf(r)
           ids == Append(s.open[t], r.id)
<1>1. t \in Tenants /\ r.id \in Nat
  BY TenantOfRecord
<1>2. s.open \in [Tenants -> Seq(Nat)] /\ s.ready \in Seq(Array)
      /\ s = [ready |-> s.ready, open |-> s.open]
  BY DEF Encoding
<1>3. ids \in Seq(Nat)
  BY <1>1, <1>2, AppendProperties
<1>4. [tenant |-> t, ids |-> ids] \in Array
  BY <1>1, <1>3 DEF Array
<1>5. Append(s.ready, [tenant |-> t, ids |-> ids]) \in Seq(Array)
  BY <1>2, <1>4, AppendProperties
<1>6. [s.open EXCEPT ![t] = <<>>] \in [Tenants -> Seq(Nat)]
  BY <1>1, <1>2, EmptySeq
<1>7. [s.open EXCEPT ![t] = ids] \in [Tenants -> Seq(Nat)]
  BY <1>1, <1>2, <1>3
<1> HIDE DEF t, ids
<1>8. [s EXCEPT !.open[t] = ids] = [ready |-> s.ready, open |-> [s.open EXCEPT ![t] = ids]]
  <2>1. [s EXCEPT !.open[t] = ids] = [s EXCEPT !.open = [s.open EXCEPT ![t] = ids]]
    BY DEF Encoding
  <2>2. [s EXCEPT !.open = [s.open EXCEPT ![t] = ids]]
          = [ready |-> s.ready, open |-> [s.open EXCEPT ![t] = ids]]
    <3> DEFINE o == [s.open EXCEPT ![t] = ids]
    <3>1. o \in [Tenants -> Seq(Nat)] /\ s \in [ready : Seq(Array), open : [Tenants -> Seq(Nat)]]
      BY <1>7 DEF Encoding
    <3> HIDE DEF o
    <3>2. [s EXCEPT !.open = o] = [ready |-> s.ready, open |-> o]
      BY <3>1
    <3> QED
      BY <3>2 DEF o
  <2> QED
    BY <2>1, <2>2
<1>9. AddRecord(s, r) = IF Len(ids) > maxPerArray
        THEN [ready |-> Append(s.ready, [tenant |-> t, ids |-> ids]),
              open  |-> [s.open EXCEPT ![t] = <<>>]]
        ELSE [ready |-> s.ready, open |-> [s.open EXCEPT ![t] = ids]]
  BY <1>8 DEF AddRecord, t, ids
<1> QED
  BY <1>2, <1>5, <1>6, <1>7, <1>9 DEF Encoding

(* It goes through the records one by one. *)
LEMMA EncodesAlong ==
  ASSUME NEW records \in Seq(AnyRecord)
  PROVE  \E st : Encodes(records, st)
<1> DEFINE n == Len(records)
           Step(F, s) == IF s = {} THEN NothingEncoded
                         ELSE AddRecord(F[s \ {Max(s)}], records[Max(s)])
           G == CHOOSE F : F = [s \in SUBSET DOMAIN records |-> Step(F, s)]
           Op == [p \in AnyRecord \X Encoding |-> AddRecord(p[2], p[1])]
<1>1. n \in Nat /\ records \in [1..n -> AnyRecord] /\ DOMAIN records = 1..n
  BY LenProperties
<1>2. EncodeLogForTransfer(records)
        = G[DOMAIN records].ready \o SetToSeq(Unsent(G[DOMAIN records].open))
  BY DEF EncodeLogForTransfer, FoldLeft, MapThenFoldSet, AddRecord, NothingEncoded
<1> HIDE DEF n
<1>3. Op \in [AnyRecord \X Encoding -> Encoding]
  BY AddRecordType
<1>4. \E F : F = [s \in SUBSET (1..n) |-> Step(F, s)]
  <2> HIDE DEF Op
  <2>1. PICK g \in [SUBSET (1..n) -> Encoding] :
               \A s \in SUBSET (1..n) : g[s] = FoldOf(Op, NothingEncoded, records, s, g)
    <3>1. NothingEncoded \in Encoding
      BY EmptySeq DEF NothingEncoded, Encoding
    <3>2. HasFold(Encoding, Op, NothingEncoded, n, records)
      BY <1>1, <1>3, <3>1, FoldExists
    <3> QED
      BY <3>2 DEF HasFold
  <2>2. ASSUME NEW s \in SUBSET (1..n) PROVE g[s] = Step(g, s)
    <3>1. CASE s = {}
      BY <2>1, <3>1 DEF FoldOf
    <3>2. CASE s # {}
      <4>1. Max(s) \in 1..n
        BY <1>1, <3>2, MaxIsIn
      <4>2. records[Max(s)] \in AnyRecord /\ g[s \ {Max(s)}] \in Encoding
        BY <1>1, <2>1, <4>1
      <4>3. Op[<<records[Max(s)], g[s \ {Max(s)}]>>] = AddRecord(g[s \ {Max(s)}], records[Max(s)])
        BY <4>2 DEF Op
      <4> QED
        BY <2>1, <3>2, <4>3 DEF FoldOf
    <3> QED
      BY <3>1, <3>2
  <2>3. g = [s \in SUBSET (1..n) |-> g[s]]
    BY <2>1
  <2> QED
    BY <2>2, <2>3
<1>5. G = [s \in SUBSET (1..n) |-> Step(G, s)]
  BY <1>1, <1>4
<1> HIDE DEF G
<1>6. G[1..0] = NothingEncoded
  <2>1. 1..0 = {} /\ 1..0 \in SUBSET (1..n)
    OBVIOUS
  <2> QED
    BY <1>5, <2>1
<1>7. ASSUME NEW m \in 1..n PROVE G[1..m] = AddRecord(G[1..(m-1)], records[m])
  <2>1. 1..m \in SUBSET (1..n) /\ 1..m # {} /\ Max(1..m) = m /\ (1..m) \ {m} = 1..(m-1)
    BY <1>1, IndicesUpTo
  <2>2. G[1..m] = Step(G, 1..m)
    BY <1>5, <2>1
  <2> QED
    BY <2>1, <2>2
<1> DEFINE st == [m \in 0..n |-> G[1..m]]
<1>8. st[0] = NothingEncoded /\ st[n] = G[1..n]
  BY <1>1, <1>6
<1>9. ASSUME NEW m \in 1..n PROVE st[m] = AddRecord(st[m-1], records[m])
  <2>1. m \in 0..n /\ m - 1 \in 0..n
    BY <1>1
  <2> QED
    BY <1>7, <2>1
<1> HIDE DEF st
<1>10. Encodes(records, st)
  BY <1>1, <1>2, <1>8, <1>9 DEF Encodes, n
<1> QED
  BY <1>10

(* Records are logged one after the other. *)
Increasing(records) ==
  \A i, j \in DOMAIN records : i < j => records[i].id < records[j].id

IsIdUpTo(records, m, id) == \E i \in 1..m : records[i].id = id

(* The arrays encoded from m records, full and open: each tenant's records *)
(* are in order, and the open ones after those of the full arrays.         *)
EncodedInOrder(records, m, s) ==
  /\ Filled(s.ready) /\ InOrder(s.ready)
  /\ \A t \in Tenants : \A i, j \in DOMAIN s.open[t] : i < j => s.open[t][i] < s.open[t][j]
  /\ \A k \in DOMAIN s.ready :
       \A i \in DOMAIN s.ready[k].ids, j \in DOMAIN s.open[s.ready[k].tenant] :
         s.ready[k].ids[i] < s.open[s.ready[k].tenant][j]
  /\ \A k \in DOMAIN s.ready : \A i \in DOMAIN s.ready[k].ids :
       IsIdUpTo(records, m, s.ready[k].ids[i])
  /\ \A t \in Tenants : \A j \in DOMAIN s.open[t] : IsIdUpTo(records, m, s.open[t][j])

(* Adding the next record keeps what is encoded in order.                  *)
LEMMA AddRecordInOrder ==
  ASSUME NEW records \in Seq(AnyRecord), Increasing(records), NEW m \in Nat,
         m + 1 <= Len(records), NEW s \in Encoding, EncodedInOrder(records, m, s)
  PROVE  EncodedInOrder(records, m + 1, AddRecord(s, records[m+1]))
<1> DEFINE r == records[m+1]
           t == TenantOf(r)
           o == s.open[t]
           n == Len(o)
           ids == Append(o, r.id)
           a == [tenant |-> t, ids |-> ids]
<1>1. r \in AnyRecord /\ DOMAIN records = 1..Len(records) /\ Len(records) \in Nat
  <2>1. DOMAIN records = 1..Len(records) /\ Len(records) \in Nat
    BY LenProperties
  <2>2. m + 1 \in 1..Len(records)
    BY <2>1
  <2> QED
    BY <2>1, <2>2, ElementOfSeq
<1>2. t \in Tenants /\ r.id \in Nat
  BY <1>1, TenantOfRecord
<1>3. s.open \in [Tenants -> Seq(Nat)] /\ s.ready \in Seq(Array)
  BY DEF Encoding
<1>31. \A k \in DOMAIN s.ready : s.ready[k].tenant \in Tenants
  <2>1. \A k \in DOMAIN s.ready : s.ready[k] \in Array
    BY <1>3, LenProperties, ElementOfSeq
  <2> QED
    BY <2>1 DEF Array
<1>4. \A id : IsIdUpTo(records, m, id) => id < r.id /\ IsIdUpTo(records, m + 1, id)
  <2>1. \A i \in 1..m : i \in DOMAIN records /\ m + 1 \in DOMAIN records /\ i < m + 1 /\ i \in 1..(m+1)
    BY <1>1
  <2> QED
    BY <2>1 DEF IsIdUpTo, Increasing
<1>5. IsIdUpTo(records, m + 1, r.id)
  BY DEF IsIdUpTo
<1>6. o \in Seq(Nat)
  BY <1>2, <1>3
<1>7. n \in Nat /\ DOMAIN o = 1..n
  BY <1>6, LenProperties
<1>8. /\ ids \in Seq(Nat) /\ ids # <<>> /\ Len(ids) = n + 1 /\ DOMAIN ids = 1..(n+1)
      /\ \A j \in 1..n : ids[j] = o[j]
      /\ ids[n+1] = r.id
  <2> DEFINE x == r.id
  <2>0. x \in Nat /\ o \in Seq(Nat)
    BY <1>2, <1>6
  <2> HIDE DEF x, o
  <2>1. /\ Append(o, x) \in Seq(Nat) /\ Append(o, x) # <<>> /\ Len(Append(o, x)) = n + 1
        /\ \A j \in 1..n : Append(o, x)[j] = o[j]
        /\ Append(o, x)[n+1] = x
    BY <2>0, AppendProperties
  <2>2. ids = Append(o, x) /\ x = r.id
    BY DEF x
  <2> HIDE DEF ids, r
  <2> QED
    BY <2>1, <2>2, LenProperties
<1>9. a \in Array
  BY <1>2, <1>8 DEF Array
<1>10. AddRecord(s, r) = IF Len(ids) > maxPerArray
         THEN [ready |-> Append(s.ready, a), open |-> [s.open EXCEPT ![t] = <<>>]]
         ELSE [s EXCEPT !.open[t] = ids]
  BY DEF AddRecord
<1>11. \A i, j \in DOMAIN o : i < j => o[i] < o[j]
  BY <1>2 DEF EncodedInOrder
<1>12. \A j \in DOMAIN o : IsIdUpTo(records, m, o[j])
  BY <1>2 DEF EncodedInOrder
<1>13. \A k \in DOMAIN s.ready : s.ready[k].tenant = t =>
         \A i \in DOMAIN s.ready[k].ids, j \in DOMAIN o : s.ready[k].ids[i] < o[j]
  BY DEF EncodedInOrder
<1>14. \A k \in DOMAIN s.ready : \A i \in DOMAIN s.ready[k].ids :
         IsIdUpTo(records, m, s.ready[k].ids[i])
  BY DEF EncodedInOrder
<1> HIDE DEF r, t, o, n, ids
<1>15. \A j \in DOMAIN ids : IsIdUpTo(records, m + 1, ids[j])
  BY <1>4, <1>5, <1>7, <1>8, <1>12
<1>16. \A i, j \in DOMAIN ids : i < j => ids[i] < ids[j]
  <2>1. ASSUME NEW i \in 1..(n+1), NEW j \in 1..(n+1), i < j PROVE ids[i] < ids[j]
    <3>1. i \in 1..n
      BY <1>7, <2>1
    <3>2. CASE j = n + 1
      BY <1>4, <1>7, <1>8, <1>12, <3>1, <3>2
    <3>3. CASE j # n + 1
      <4>1. j \in 1..n
        BY <1>7, <3>3
      <4> QED
        BY <1>7, <1>8, <1>11, <2>1, <3>1, <4>1
    <3> QED
      BY <3>2, <3>3
  <2> QED
    BY <1>8, <2>1
<1>17. \A k \in DOMAIN s.ready : s.ready[k].tenant = t =>
         \A i \in DOMAIN s.ready[k].ids, j \in DOMAIN ids : s.ready[k].ids[i] < ids[j]
  <2>1. ASSUME NEW k \in DOMAIN s.ready, s.ready[k].tenant = t,
               NEW i \in DOMAIN s.ready[k].ids, NEW j \in 1..(n+1)
        PROVE  s.ready[k].ids[i] < ids[j]
    <3>1. CASE j = n + 1
      BY <1>4, <1>8, <1>14, <2>1, <3>1
    <3>2. CASE j # n + 1
      <4>1. j \in 1..n
        BY <1>7, <3>2
      <4> QED
        BY <1>7, <1>8, <1>13, <2>1, <4>1
    <3> QED
      BY <3>1, <3>2
  <2> QED
    BY <1>8, <2>1
<1>18. CASE Len(ids) > maxPerArray
  <2> DEFINE q == Append(s.ready, a)
             p == [s.open EXCEPT ![t] = <<>>]
             l == Len(s.ready)
  <2>1. AddRecord(s, r) = [ready |-> q, open |-> p]
    BY <1>10, <1>18
  <2>2. /\ l \in Nat /\ DOMAIN s.ready = 1..l
        /\ q \in Seq(Array) /\ DOMAIN q = 1..(l+1)
        /\ \A k \in 1..l : q[k] = s.ready[k]
        /\ q[l+1] = a
    <3>1. l \in Nat /\ DOMAIN s.ready = 1..l
      BY <1>3, LenProperties
    <3>2. /\ q \in Seq(Array) /\ Len(q) = l + 1
          /\ \A k \in 1..l : q[k] = s.ready[k]
          /\ q[l+1] = a
      BY <1>3, <1>9, AppendProperties
    <3> QED
      BY <3>1, <3>2, LenProperties
  <2>3. p[t] = <<>> /\ DOMAIN p[t] = {} /\ \A u \in Tenants : u # t => p[u] = s.open[u]
    BY <1>2, <1>3
  <2>4. a.tenant = t /\ a.ids = ids
    OBVIOUS
  <2> HIDE DEF q, p, l, a
  <2>5. Filled(q)
    <3>1. ASSUME NEW k \in 1..(l+1) PROVE q[k].ids # <<>>
      <4>1. k \in 1..l \/ k = l + 1
        BY <2>2
      <4>2. CASE k \in 1..l
        BY <2>2, <4>2 DEF EncodedInOrder, Filled
      <4>3. CASE k = l + 1
        BY <1>8, <2>2, <2>4, <4>3
      <4> QED
        BY <4>1, <4>2, <4>3
    <3> QED
      BY <2>2, <3>1 DEF Filled
  <2>6. InOrder(q)
    <3>1. ASSUME NEW k \in 1..(l+1), NEW h \in 1..(l+1), q[k].tenant = q[h].tenant,
                 NEW i \in DOMAIN q[k].ids, NEW j \in DOMAIN q[h].ids,
                 k < h \/ (k = h /\ i < j)
          PROVE  q[k].ids[i] < q[h].ids[j]
      <4>1. CASE h = l + 1 /\ k = l + 1
        BY <1>16, <2>2, <2>4, <3>1, <4>1
      <4>2. CASE h = l + 1 /\ k \in 1..l
        BY <1>17, <2>2, <2>4, <3>1, <4>2
      <4>3. CASE h \in 1..l
        <5>1. k \in 1..l
          BY <2>2, <3>1, <4>3
        <5>2. q[k] = s.ready[k] /\ q[h] = s.ready[h]
          BY <2>2, <4>3, <5>1
        <5> QED
          BY <2>2, <3>1, <4>3, <5>1, <5>2 DEF EncodedInOrder, InOrder
      <4>4. (h = l + 1 \/ h \in 1..l) /\ (k = l + 1 \/ k \in 1..l)
        BY <2>2
      <4> QED
        BY <4>1, <4>2, <4>3, <4>4
    <3> QED
      BY <2>2, <3>1 DEF InOrder
  <2>7. \A u \in Tenants : \A i, j \in DOMAIN p[u] : i < j => p[u][i] < p[u][j]
    BY <2>3 DEF EncodedInOrder
  <2>8. \A k \in DOMAIN q : \A i \in DOMAIN q[k].ids, j \in DOMAIN p[q[k].tenant] :
          q[k].ids[i] < p[q[k].tenant][j]
    <3>1. ASSUME NEW k \in 1..(l+1), NEW i \in DOMAIN q[k].ids, NEW j \in DOMAIN p[q[k].tenant]
          PROVE  q[k].ids[i] < p[q[k].tenant][j]
      <4>1. q[k].tenant # t
        BY <2>3
      <4>2. k \in 1..l
        BY <2>2, <2>4, <4>1
      <4>3. q[k] = s.ready[k] /\ q[k].tenant \in Tenants
        BY <1>31, <2>2, <4>2
      <4>4. p[q[k].tenant] = s.open[q[k].tenant]
        BY <2>3, <4>1, <4>3
      <4> QED
        BY <2>2, <3>1, <4>2, <4>3, <4>4 DEF EncodedInOrder
    <3> QED
      BY <2>2, <3>1
  <2>9. \A k \in DOMAIN q : \A i \in DOMAIN q[k].ids : IsIdUpTo(records, m + 1, q[k].ids[i])
    <3>1. ASSUME NEW k \in 1..(l+1), NEW i \in DOMAIN q[k].ids
          PROVE  IsIdUpTo(records, m + 1, q[k].ids[i])
      <4>1. k \in 1..l \/ k = l + 1
        BY <2>2
      <4>2. CASE k \in 1..l
        BY <1>4, <1>14, <2>2, <4>2
      <4>3. CASE k = l + 1
        BY <1>15, <2>2, <2>4, <4>3
      <4> QED
        BY <4>1, <4>2, <4>3
    <3> QED
      BY <2>2, <3>1
  <2>10. \A u \in Tenants : \A j \in DOMAIN p[u] : IsIdUpTo(records, m + 1, p[u][j])
    BY <1>4, <2>3 DEF EncodedInOrder
  <2>11. EncodedInOrder(records, m + 1, [ready |-> q, open |-> p])
    BY <2>5, <2>6, <2>7, <2>8, <2>9, <2>10 DEF EncodedInOrder
  <2> QED
    BY <2>1, <2>11 DEF r
<1>19. CASE ~(Len(ids) > maxPerArray)
  <2> DEFINE e == AddRecord(s, r)
  <2>1. e = [s EXCEPT !.open[t] = ids]
    BY <1>10, <1>19
  <2>2. e.ready = s.ready /\ e.open = [s.open EXCEPT ![t] = ids]
    BY <2>1 DEF Encoding
  <2>3. e.open[t] = ids /\ \A u \in Tenants : u # t => e.open[u] = s.open[u]
    BY <1>2, <1>3, <2>2
  <2> HIDE DEF e
  <2>4. Filled(e.ready) /\ InOrder(e.ready)
    BY <2>2 DEF EncodedInOrder
  <2>5. ASSUME NEW u \in Tenants PROVE \A i, j \in DOMAIN e.open[u] : i < j => e.open[u][i] < e.open[u][j]
    <3>1. CASE u = t
      BY <1>16, <2>3, <3>1
    <3>2. CASE u # t
      BY <2>3, <3>2 DEF EncodedInOrder
    <3> QED
      BY <3>1, <3>2
  <2>6. ASSUME NEW k \in DOMAIN e.ready, NEW i \in DOMAIN e.ready[k].ids,
               NEW j \in DOMAIN e.open[e.ready[k].tenant]
        PROVE  e.ready[k].ids[i] < e.open[e.ready[k].tenant][j]
    <3>1. CASE e.ready[k].tenant = t
      BY <1>17, <2>2, <2>3, <2>6, <3>1
    <3>2. CASE e.ready[k].tenant # t
      <4>1. e.ready[k].tenant \in Tenants
        BY <1>31, <2>2, <2>6
      <4>2. e.open[e.ready[k].tenant] = s.open[s.ready[k].tenant]
        BY <2>2, <2>3, <3>2, <4>1
      <4> QED
        BY <2>2, <2>6, <4>2 DEF EncodedInOrder
    <3> QED
      BY <3>1, <3>2
  <2>7. \A k \in DOMAIN e.ready : \A i \in DOMAIN e.ready[k].ids :
          IsIdUpTo(records, m + 1, e.ready[k].ids[i])
    BY <1>4, <1>14, <2>2
  <2>8. ASSUME NEW u \in Tenants, NEW j \in DOMAIN e.open[u]
        PROVE  IsIdUpTo(records, m + 1, e.open[u][j])
    <3>1. CASE u = t
      BY <1>15, <2>3, <2>8, <3>1
    <3>2. CASE u # t
      BY <1>4, <2>3, <2>8, <3>2 DEF EncodedInOrder
    <3> QED
      BY <3>1, <3>2
  <2>9. EncodedInOrder(records, m + 1, e)
    BY <2>4, <2>5, <2>6, <2>7, <2>8 DEF EncodedInOrder
  <2> QED
    BY <2>9 DEF r, e
<1> QED
  BY <1>18, <1>19

(* Another number for one key. *)
LEMMA UnitsChange ==
  ASSUME NEW T, NEW t \in T, NEW f, NEW g, \A u \in T : u # t => g[u] = f[u],
         f[t] \in Nat, g[t] \in Nat, IsFiniteSet(Units(T, f))
  PROVE  /\ IsFiniteSet(Units(T, g))
         /\ Cardinality(Units(T, f)) \in Nat
         /\ Cardinality(Units(T, g)) = (Cardinality(Units(T, f)) - f[t]) + g[t]
<1> DEFINE S == T \ {t}
<1>1. t \notin S /\ T = S \cup {t}
  OBVIOUS
<1>2. Units(S, f) \subseteq Units(T, f) /\ Units(S, g) = Units(S, f)
  BY DEF Units
<1> HIDE DEF S
<1>3. IsFiniteSet(Units(S, f)) /\ IsFiniteSet(Units(S, g))
  BY <1>2, FS_Subset
<1>4. Cardinality(Units(T, f)) = Cardinality(Units(S, f)) + f[t]
  <2>1. Cardinality(Units(S \cup {t}, f)) = Cardinality(Units(S, f)) + f[t]
    <3>1. t \notin S /\ f[t] \in Nat /\ IsFiniteSet(Units(S, f))
      BY <1>1, <1>3
    <3> QED
      BY <3>1, UnitsAdd, Zenon
  <2> QED
    BY <1>1, <2>1, Zenon
<1>5. IsFiniteSet(Units(T, g)) /\ Cardinality(Units(T, g)) = Cardinality(Units(S, g)) + g[t]
  BY <1>1, <1>3, UnitsAdd
<1>6. Cardinality(Units(S, f)) \in Nat /\ Cardinality(Units(T, f)) \in Nat
  BY <1>3, FS_CardinalityType
<1>7. Cardinality(Units(S, f)) = Cardinality(Units(T, f)) - f[t]
  BY <1>4, <1>6
<1> QED
  BY <1>2, <1>5, <1>6, <1>7

OpenLen(open) == [t \in Tenants |-> Len(open[t])]

(* The arrays encoded from m records hold m. *)
EncodedCounted(m, s) ==
  /\ IsFiniteSet(Units(Tenants, OpenLen(s.open)))
  /\ Total(s.ready) + Cardinality(Units(Tenants, OpenLen(s.open))) = m

(* Adding a record to what is encoded adds one to its records.             *)
LEMMA AddRecordCounts ==
  ASSUME NEW m \in Nat, NEW s \in Encoding, NEW r \in AnyRecord, EncodedCounted(m, s)
  PROVE  EncodedCounted(m + 1, AddRecord(s, r))
<1> DEFINE t == TenantOf(r)
           x == r.id
           o == s.open[t]
           ids == Append(o, x)
           a == [tenant |-> t, ids |-> ids]
           f == OpenLen(s.open)
           e == AddRecord(s, r)
<1>1. t \in Tenants /\ x \in Nat
  BY TenantOfRecord
<1>2. s.open \in [Tenants -> Seq(Nat)] /\ s.ready \in Seq(Array)
  BY DEF Encoding
<1>3. e = IF Len(ids) > maxPerArray
         THEN [ready |-> Append(s.ready, a), open |-> [s.open EXCEPT ![t] = <<>>]]
         ELSE [s EXCEPT !.open[t] = ids]
  BY DEF AddRecord
<1>4. f[t] = Len(o)
  BY <1>1 DEF OpenLen
<1>5. o \in Seq(Nat)
  BY <1>1, <1>2
<1> HIDE DEF t, x, o
<1>6. ids \in Seq(Nat) /\ Len(ids) = Len(o) + 1 /\ Len(o) \in Nat
  BY <1>1, <1>5, AppendProperties, LenProperties
<1>7. a \in Array /\ a.ids = ids
  BY <1>1, <1>6 DEF Array
<1> HIDE DEF ids, a, e
<1>8. /\ e.open \in [Tenants -> Seq(Nat)]
      /\ \A u \in Tenants : u # t => e.open[u] = s.open[u]
      /\ \/ e.ready = Append(s.ready, a) /\ e.open[t] = <<>>
         \/ e.ready = s.ready /\ e.open[t] = ids
  <2>1. CASE Len(ids) > maxPerArray
    <3>1. e = [ready |-> Append(s.ready, a), open |-> [s.open EXCEPT ![t] = <<>>]]
      BY <1>3, <2>1
    <3>2. e.ready = Append(s.ready, a) /\ e.open = [s.open EXCEPT ![t] = <<>>]
      BY <3>1
    <3> QED
      BY <1>1, <1>2, <3>2, EmptySeq
  <2>2. CASE ~(Len(ids) > maxPerArray)
    <3>1. e = [s EXCEPT !.open[t] = ids]
      BY <1>3, <2>2
    <3>2. e.ready = s.ready /\ e.open = [s.open EXCEPT ![t] = ids]
      BY <3>1 DEF Encoding
    <3> QED
      BY <1>1, <1>2, <1>6, <3>2
  <2> QED
    BY <2>1, <2>2
<1> DEFINE g == OpenLen(e.open)
<1>9. \A u \in Tenants : u # t => g[u] = f[u]
  BY <1>8 DEF OpenLen
<1>10. g[t] = Len(e.open[t])
  BY <1>1 DEF OpenLen
<1>11. Total(s.ready) \in Nat /\ Total(Append(s.ready, a)) = Total(s.ready) + Len(ids)
  BY <1>2, <1>7, TotalAppend
<1>12. IsFiniteSet(Units(Tenants, f)) /\ Total(s.ready) + Cardinality(Units(Tenants, f)) = m
  BY DEF EncodedCounted
<1>13. g[t] \in Nat /\ f[t] \in Nat
  <2>1. e.open[t] \in Seq(Nat)
    BY <1>1, <1>8
  <2> QED
    BY <1>4, <1>6, <1>10, <2>1, LenProperties
<1> HIDE DEF f, g
<1>14. /\ IsFiniteSet(Units(Tenants, g)) /\ Cardinality(Units(Tenants, f)) \in Nat
       /\ Cardinality(Units(Tenants, g)) = (Cardinality(Units(Tenants, f)) - f[t]) + g[t]
  BY <1>1, <1>9, <1>12, <1>13, UnitsChange
<1>15. Total(e.ready) + Cardinality(Units(Tenants, g)) = m + 1
  <2>1. CASE e.ready = Append(s.ready, a) /\ e.open[t] = <<>>
    <3>1. g[t] = 0
      BY <1>10, <2>1
    <3>2. Total(e.ready) = Total(s.ready) + (Len(o) + 1)
      BY <1>6, <1>11, <2>1
    <3> QED
      BY <1>4, <1>6, <1>11, <1>12, <1>14, <3>1, <3>2
  <2>2. CASE e.ready = s.ready /\ e.open[t] = ids
    <3>1. g[t] = Len(o) + 1
      BY <1>6, <1>10, <2>2
    <3>2. Total(e.ready) = Total(s.ready)
      BY <2>2
    <3> QED
      BY <1>4, <1>6, <1>11, <1>12, <1>14, <3>1, <3>2
  <2> QED
    BY <1>8, <2>1, <2>2
<1> QED
  BY <1>14, <1>15 DEF EncodedCounted, e, g

(* What is left open, as arrays: one for each tenant who has records. *)
LEMMA UnsentArrays ==
  ASSUME NEW open \in [Tenants -> Seq(Nat)], IsFiniteSet(Units(Tenants, OpenLen(open)))
  PROVE  LET tail == SetToSeq(Unsent(open))
         IN  /\ tail \in Seq(Array) /\ Filled(tail)
             /\ \A k \in DOMAIN tail : tail[k].ids = open[tail[k].tenant]
             /\ \A k, l \in DOMAIN tail : tail[k].tenant = tail[l].tenant => k = l
             /\ Total(tail) = Cardinality(Units(Tenants, OpenLen(open)))
<1> DEFINE U == Unsent(open)
           f == OpenLen(open)
           tail == SetToSeq(U)
           n == Cardinality(U)
<1>1. /\ \A a \in U : a \in Array /\ a.tenant \in Tenants /\ a.ids = open[a.tenant] /\ a.ids # <<>>
      /\ \A t \in Tenants : open[t] # <<>> => [tenant |-> t, ids |-> open[t]] \in U
  BY DEF Unsent, Array
<1>2. \A t \in Tenants : f[t] = Len(open[t]) /\ f[t] \in Nat /\ (open[t] # <<>> <=> f[t] # 0)
  <2>1. ASSUME NEW t \in Tenants
        PROVE  f[t] = Len(open[t]) /\ f[t] \in Nat /\ (open[t] # <<>> <=> f[t] # 0)
    <3>1. f[t] = Len(open[t]) /\ open[t] \in Seq(Nat)
      BY DEF OpenLen
    <3> QED
      BY <3>1, EmptySeq, LenProperties
  <2> QED
    BY <2>1
<1>3. \A a, b \in U : a.tenant = b.tenant => a = b
  BY DEF Unsent
<1> HIDE DEF U, f
<1>4. IsFiniteSet(U)
  <2> DEFINE g == [a \in U |-> <<a.tenant, 1>>]
  <2>1. g \in [U -> Units(Tenants, f)]
    BY <1>1, <1>2 DEF Units
  <2>2. IsInjective(g)
    BY <1>3 DEF IsInjective
  <2>3. g \in Injection(U, Units(Tenants, f))
    BY <2>1, <2>2 DEF Injection
  <2> QED
    BY <2>3, FS_Injection DEF f
<1>5. n \in Nat /\ tail \in [1..n -> U] /\ IsInjective(tail) /\ U = {tail[i] : i \in 1..n}
  BY <1>4, SetToSeqIsBijection
<1> HIDE DEF tail, n
<1>6. tail \in Seq(Array) /\ DOMAIN tail = 1..n
  <2>1. tail \in [1..n -> Array]
    BY <1>1, <1>5
  <2> QED
    BY <1>5, <2>1, SeqDef
<1>7. Len(tail) = n
  BY <1>5, <1>6, LenProperties
<1>8. Filled(tail) /\ \A k \in DOMAIN tail : tail[k].ids = open[tail[k].tenant]
  BY <1>1, <1>5, <1>6 DEF Filled
<1>9. \A k, l \in DOMAIN tail : tail[k].tenant = tail[l].tenant => k = l
  BY <1>3, <1>5, <1>6 DEF IsInjective
<1>10. Total(tail) = Cardinality(Units(Tenants, f))
  <2> DEFINE S == Units(1..n, LenOf(tail))
             T == Units(Tenants, f)
             h == [u \in S |-> <<tail[u[1]].tenant, u[2]>>]
  <2>1. IsFiniteSet(S) /\ Total(tail) = Cardinality(S)
    BY <1>6, <1>7, TotalIsUnits
  <2>2. \A k \in 1..n : /\ tail[k] \in U /\ tail[k].tenant \in Tenants
                        /\ LenOf(tail)[k] = f[tail[k].tenant]
    BY <1>1, <1>2, <1>5, <1>6 DEF LenOf
  <2>3. \A u \in S : u[1] \in 1..n /\ u[2] \in Nat /\ u = <<u[1], u[2]>>
    BY DEF Units
  <2>4. \A u \in S : h[u] \in T
    BY <2>2 DEF Units
  <2>5. h \in [S -> T]
    BY <2>4
  <2>6. IsInjective(h)
    <3>1. ASSUME NEW u \in S, NEW v \in S, h[u] = h[v] PROVE u = v
      <4>1. tail[u[1]].tenant = tail[v[1]].tenant /\ u[2] = v[2]
        BY <3>1
      <4>2. u[1] = v[1]
        BY <1>6, <1>9, <2>3, <4>1
      <4> QED
        BY <2>3, <4>1, <4>2
    <3> QED
      BY <3>1 DEF IsInjective
  <2>7. ASSUME NEW w \in T PROVE \E u \in S : h[u] = w
    <3>1. w[1] \in Tenants /\ w[2] \in Nat /\ 1 <= w[2] /\ w[2] <= f[w[1]] /\ w = <<w[1], w[2]>>
      BY <2>7 DEF Units
    <3>2. [tenant |-> w[1], ids |-> open[w[1]]] \in U
      BY <1>1, <1>2, <3>1
    <3>3. PICK k \in 1..n : tail[k] = [tenant |-> w[1], ids |-> open[w[1]]]
      BY <1>5, <3>2
    <3>4. tail[k].tenant = w[1]
      BY <3>3
    <3>5. <<k, w[2]>> \in S
      BY <2>2, <3>1, <3>4 DEF Units
    <3> QED
      BY <3>1, <3>4, <3>5
  <2>8. h \in Bijection(S, T)
    <3> HIDE DEF S, T, h
    <3>1. h \in Injection(S, T)
      BY <2>5, <2>6 DEF Injection
    <3>2. h \in Surjection(S, T)
      BY <2>5, <2>7 DEF Surjection
    <3> QED
      BY <3>1, <3>2 DEF Bijection
  <2>9. ExistsBijection(S, T)
    BY <2>8 DEF ExistsBijection
  <2> QED
    BY <2>1, <2>9, FS_Bijection
<1> QED
  BY <1>6, <1>8, <1>9, <1>10 DEF tail, U, f

(* EncodeLogForTransfer: as many records as there were, each of them one   *)
(* of those there were, those of a tenant in order, and no empty array.    *)
LEMMA EncodeIsFaithful ==
  ASSUME NEW records \in Seq(AnyRecord), Increasing(records)
  PROVE  LET arrays == EncodeLogForTransfer(records)
         IN  /\ arrays \in Seq(Array) /\ Filled(arrays) /\ InOrder(arrays)
             /\ \A k \in DOMAIN arrays : \A i \in DOMAIN arrays[k].ids :
                  IsIdUpTo(records, Len(records), arrays[k].ids[i])
             /\ Total(arrays) = Len(records)
<1> DEFINE n == Len(records)
<1>1. n \in Nat /\ \A i \in 1..n : records[i] \in AnyRecord
  BY LenProperties, ElementOfSeq
<1>2. PICK st : Encodes(records, st)
  BY EncodesAlong
<1> DEFINE Good(m) == /\ st[m] \in Encoding /\ EncodedInOrder(records, m, st[m])
                      /\ EncodedCounted(m, st[m])
           S == {m \in Nat : m <= n => Good(m)}
<1>3. Good(0)
  <2>1. st[0] = NothingEncoded
    BY <1>2 DEF Encodes
  <2>2. NothingEncoded \in Encoding
    BY EmptySeq DEF NothingEncoded, Encoding
  <2>3. EncodedInOrder(records, 0, NothingEncoded)
    BY DEF EncodedInOrder, NothingEncoded, Filled, InOrder
  <2>4. Units(Tenants, OpenLen(NothingEncoded.open)) = {}
    BY DEF Units, OpenLen, NothingEncoded
  <2>5. EncodedCounted(0, NothingEncoded)
    <3>1. NothingEncoded.ready = <<>>
      BY DEF NothingEncoded
    <3> QED
      BY <2>4, <3>1, TotalEmpty, FS_EmptySet DEF EncodedCounted
  <2> QED
    BY <2>1, <2>2, <2>3, <2>5
<1>4. ASSUME NEW m \in Nat, m + 1 <= n, Good(m) PROVE Good(m + 1)
  <2>1. m + 1 \in 1..n /\ (m + 1) - 1 = m
    BY <1>1, <1>4
  <2>2. st[m+1] = AddRecord(st[m], records[m+1])
    BY <1>2, <2>1 DEF Encodes
  <2>3. records[m+1] \in AnyRecord
    BY <1>1, <2>1
  <2>4. st[m+1] \in Encoding
    BY <1>4, <2>2, <2>3, AddRecordType
  <2>5. EncodedInOrder(records, m + 1, st[m+1])
    BY <1>4, <2>2, AddRecordInOrder
  <2>6. EncodedCounted(m + 1, st[m+1])
    BY <1>4, <2>2, <2>3, AddRecordCounts
  <2> QED
    BY <2>4, <2>5, <2>6
<1> HIDE DEF Good
<1>5. 0 \in S /\ \A m \in Nat : m \in S => m + 1 \in S
  BY <1>1, <1>3, <1>4
<1> HIDE DEF S
<1>6. n \in S
  BY <1>1, <1>5, NatInSet
<1>7. Good(n)
  BY <1>1, <1>6 DEF S
<1> DEFINE s == st[n]
           ready == s.ready
           open == s.open
           tail == SetToSeq(Unsent(open))
           arrays == ready \o tail
<1>8. ready \in Seq(Array) /\ open \in [Tenants -> Seq(Nat)]
  BY <1>7 DEF Good, Encoding
<1>9. EncodeLogForTransfer(records) = arrays
  BY <1>2 DEF Encodes
<1>10. /\ Filled(ready) /\ InOrder(ready)
       /\ \A t \in Tenants : \A i, j \in DOMAIN open[t] : i < j => open[t][i] < open[t][j]
       /\ \A k \in DOMAIN ready : \A i \in DOMAIN ready[k].ids, j \in DOMAIN open[ready[k].tenant] :
            ready[k].ids[i] < open[ready[k].tenant][j]
       /\ \A k \in DOMAIN ready : \A i \in DOMAIN ready[k].ids : IsIdUpTo(records, n, ready[k].ids[i])
       /\ \A t \in Tenants : \A j \in DOMAIN open[t] : IsIdUpTo(records, n, open[t][j])
  BY <1>7 DEF Good, EncodedInOrder
<1>11. /\ IsFiniteSet(Units(Tenants, OpenLen(open)))
       /\ Total(ready) + Cardinality(Units(Tenants, OpenLen(open))) = n
  BY <1>7 DEF Good, EncodedCounted
<1> HIDE DEF s, ready, open, n
<1>12. /\ tail \in Seq(Array) /\ Filled(tail)
       /\ \A k \in DOMAIN tail : tail[k].ids = open[tail[k].tenant]
       /\ \A k, l \in DOMAIN tail : tail[k].tenant = tail[l].tenant => k = l
       /\ Total(tail) = Cardinality(Units(Tenants, OpenLen(open)))
  BY <1>8, <1>11, UnsentArrays
<1> HIDE DEF tail
<1> DEFINE a == Len(ready)
           b == Len(tail)
<1>13. /\ a \in Nat /\ b \in Nat /\ DOMAIN ready = 1..a /\ DOMAIN tail = 1..b
       /\ \A k \in 1..b : tail[k] \in Array
  BY <1>8, <1>12, LenProperties, ElementOfSeq
<1>14. arrays \in Seq(Array) /\ Len(arrays) = a + b
       /\ \A k \in 1..(a + b) : arrays[k] = IF k <= a THEN ready[k] ELSE tail[k - a]
  BY <1>8, <1>12, ConcatProperties
<1>15. DOMAIN arrays = 1..(a + b)
  BY <1>14, LenProperties
<1>16. \A k \in 1..(a + b) : \/ (k \in 1..a /\ arrays[k] = ready[k])
                             \/ (k > a /\ k - a \in 1..b /\ arrays[k] = tail[k - a])
  BY <1>13, <1>14
<1> HIDE DEF arrays, a, b
<1>17. Filled(arrays)
  <2>1. ASSUME NEW k \in 1..(a + b) PROVE arrays[k].ids # <<>>
    <3>1. CASE k \in 1..a /\ arrays[k] = ready[k]
      BY <1>10, <1>13, <3>1 DEF Filled
    <3>2. CASE k > a /\ k - a \in 1..b /\ arrays[k] = tail[k - a]
      BY <1>12, <1>13, <3>2 DEF Filled
    <3> QED
      BY <1>16, <3>1, <3>2
  <2> QED
    BY <1>15, <2>1 DEF Filled
<1>18. InOrder(arrays)
  <2>1. ASSUME NEW k \in 1..(a + b), NEW l \in 1..(a + b), arrays[k].tenant = arrays[l].tenant,
               NEW i \in DOMAIN arrays[k].ids, NEW j \in DOMAIN arrays[l].ids,
               k < l \/ (k = l /\ i < j)
        PROVE  arrays[k].ids[i] < arrays[l].ids[j]
    <3>1. CASE l \in 1..a /\ arrays[l] = ready[l]
      <4>1. k \in 1..a /\ arrays[k] = ready[k]
        BY <1>13, <1>16, <2>1, <3>1
      <4> QED
        BY <1>10, <1>13, <2>1, <3>1, <4>1 DEF InOrder
    <3>2. CASE (k \in 1..a /\ arrays[k] = ready[k]) /\ (l > a /\ l - a \in 1..b /\ arrays[l] = tail[l - a])
      <4>1. arrays[l].ids = open[arrays[l].tenant]
        BY <1>12, <1>13, <3>2
      <4> QED
        BY <1>10, <1>13, <2>1, <3>2, <4>1
    <3>3. CASE (k > a /\ k - a \in 1..b /\ arrays[k] = tail[k - a])
               /\ (l > a /\ l - a \in 1..b /\ arrays[l] = tail[l - a])
      <4>1. k - a = l - a
        BY <1>12, <1>13, <2>1, <3>3
      <4>2. k = l
        BY <1>13, <4>1
      <4>3. arrays[l].ids = open[arrays[l].tenant] /\ arrays[l].tenant \in Tenants
        BY <1>12, <1>13, <3>3 DEF Array
      <4> QED
        BY <1>10, <2>1, <4>2, <4>3
    <3> QED
      BY <1>16, <3>1, <3>2, <3>3
  <2> QED
    BY <1>15, <2>1 DEF InOrder
<1>19. \A k \in DOMAIN arrays : \A i \in DOMAIN arrays[k].ids : IsIdUpTo(records, n, arrays[k].ids[i])
  <2>1. ASSUME NEW k \in 1..(a + b), NEW i \in DOMAIN arrays[k].ids
        PROVE  IsIdUpTo(records, n, arrays[k].ids[i])
    <3>1. CASE k \in 1..a /\ arrays[k] = ready[k]
      BY <1>10, <1>13, <2>1, <3>1
    <3>2. CASE k > a /\ k - a \in 1..b /\ arrays[k] = tail[k - a]
      <4>1. arrays[k].ids = open[arrays[k].tenant] /\ arrays[k].tenant \in Tenants
        BY <1>12, <1>13, <3>2 DEF Array
      <4> QED
        BY <1>10, <2>1, <4>1
    <3> QED
      BY <1>16, <3>1, <3>2
  <2> QED
    BY <1>15, <2>1
<1>20. Total(arrays) = n
  <2>1. Total(arrays) = Total(ready) + Total(tail)
    BY <1>8, <1>12, TotalConcat DEF arrays
  <2> QED
    BY <1>11, <1>12, <2>1
<1> QED
  BY <1>9, <1>14, <1>17, <1>18, <1>19, <1>20 DEF n

(* A batch that is not empty has a time, which is what an event that is    *)
(* counted first sets the start time to.                                   *)
TimesInv ==
  /\ clock \in Nat /\ logged \in Nat
  /\ queue \in Seq(AnyRecord) /\ batch \in Seq(AnyRecord)
  /\ at \in Nat \ {0}
  /\ batch # <<>> => batchTime \in Nat
  /\ startTime \in Nat \cup {Never}

CountersInv == IsFiniteSet(DOMAIN countersMap) /\ CountersHonest

Inv == TimesInv /\ CountersInv

(* Initially nothing is kept. *)
LEMMA InitInv == Init => Inv
<1> SUFFICES ASSUME Init PROVE Inv
  OBVIOUS
<1>1. TimesInv
  BY DEF Init, TimesInv
<1>2. DOMAIN countersMap = {} /\ countersMapSize = 0 /\ startTime = Never
  BY DEF Init, NoKeys
<1>3. CountersInv
  BY <1>2, FS_EmptySet, LogServerAssumption DEF CountersInv, CountersHonest
<1> QED
  BY <1>1, <1>3 DEF Inv

(* What a caller logs is a record. *)
LEMMA LogKeepsTimes ==
  ASSUME TimesInv, NEW e \in Events, Log(e)
  PROVE  TimesInv'
<1> DEFINE r == [id |-> logged + 1, time |-> clock, tenant |-> e.tenant, name |-> e.name]
<1>1. e.tenant \in Tenants \cup {"nil"} /\ e.name \in Names
  BY DEF Tenants, Names
<1>2. r \in AnyRecord
  BY <1>1 DEF TimesInv, AnyRecord
<1>3. queue' = Append(queue, r)
  BY DEF Log
<1>4. queue' \in Seq(AnyRecord)
  BY <1>2, <1>3, AppendProperties DEF TimesInv
<1>5. logged' \in Nat /\ UNCHANGED <<clock, batch, at, batchTime, startTime>>
  BY DEF Log, TimesInv, goroutine, counters
<1> QED
  BY <1>4, <1>5 DEF TimesInv

(* The time of a batch is that of one of its records. *)
LEMMA WakeKeepsTimes ==
  ASSUME TimesInv, NEW why, Wake(why)
  PROVE  TimesInv'
<1>1. queue' = <<>> /\ batch' = queue /\ at' = 1 /\ batchTime' = TimeOf(queue)
      /\ UNCHANGED <<clock, logged, startTime>>
  BY DEF Wake, counters
<1>2. ASSUME queue # <<>> PROVE TimeOf(queue) \in Nat
  <2>1. Len(queue) \in 1..Len(queue)
    BY <1>2, EmptySeq DEF TimesInv
  <2>2. queue[Len(queue)] \in AnyRecord
    BY <2>1, ElementOfSeq DEF TimesInv
  <2> QED
    BY <1>2, <2>2 DEF TimeOf, Last, AnyRecord
<1>3. queue' \in Seq(AnyRecord)
  BY <1>1
<1> QED
  BY <1>1, <1>2, <1>3 DEF TimesInv

(* A record that is counted leaves its key, the start time and the size    *)
(* in step.                                                                *)
LEMMA CountKeeps ==
  ASSUME Inv, CountRecord
  PROVE  Inv'
<1>1. UNCHANGED <<clock, logged, queue, batch, batchTime>> /\ at' = at + 1
  BY DEF CountRecord, input
<1>2. CASE UNCHANGED counters
  <2>1. UNCHANGED <<countersMap, countersMapSize, startTime>>
    BY <1>2 DEF counters
  <2>2. TimesInv'
    BY <1>1, <2>1 DEF Inv, TimesInv
  <2>3. CountersInv'
    BY <2>1 DEF Inv, CountersInv, CountersHonest
  <2> QED
    BY <2>2, <2>3 DEF Inv
<1>3. CASE Counts(batch[at]) /\ Increment(batch[at])
  <2> DEFINE k == Key(batch[at])
  <2>1. batch # <<>>
    BY DEF CountRecord, Inv, TimesInv
  <2>2. startTime' = Base /\ Base \in Nat
    BY <1>3, <2>1 DEF Increment, Base, Inv, TimesInv, Never
  <2>3. DOMAIN countersMap' = DOMAIN countersMap \cup {k}
    BY <1>3 DEF Increment
  <2>4. countersMapSize' = countersMapSize + (IF k \in DOMAIN countersMap THEN 0 ELSE 1)
    BY <1>3 DEF Increment
  <2>5. /\ IsFiniteSet(DOMAIN countersMap \cup {k})
        /\ Cardinality(DOMAIN countersMap \cup {k})
             = IF k \in DOMAIN countersMap THEN Cardinality(DOMAIN countersMap)
               ELSE Cardinality(DOMAIN countersMap) + 1
    BY FS_AddElement DEF Inv, CountersInv
  <2>6. Cardinality(DOMAIN countersMap) \in Nat
    BY FS_CardinalityType DEF Inv, CountersInv
  <2>7. countersMapSize' = Cardinality(DOMAIN countersMap')
    BY <2>3, <2>4, <2>5, <2>6 DEF Inv, CountersInv, CountersHonest
  <2>8. countersMapSize' <= maxEventMapSize
    BY <1>3, <2>4, <2>6, LogServerAssumption DEF Counts, Inv, CountersInv, CountersHonest
  <2>9. startTime' # Never /\ DOMAIN countersMap' # {}
    BY <2>2, <2>3 DEF Never
  <2>10. CountersInv'
    BY <2>3, <2>5, <2>7, <2>8, <2>9 DEF CountersInv, CountersHonest
  <2>11. TimesInv'
    BY <1>1, <2>2 DEF Inv, TimesInv
  <2> QED
    BY <2>10, <2>11 DEF Inv
<1> QED
  BY <1>2, <1>3 DEF CountRecord

(* What is posted and accepted is taken off the size, key by key. *)
LEMMA AcceptKeeps ==
  ASSUME Inv, EventsAccepted
  PROVE  Inv'
<1>1. UNCHANGED <<clock, logged, queue, batch, at, batchTime>> /\ startTime' = Never
  BY DEF EventsAccepted, input
<1>2. DOMAIN countersMap' = {}
  BY DEF EventsAccepted, NoKeys
<1>3. Cardinality(DOMAIN countersMap) \in Nat
  BY FS_CardinalityType DEF Inv, CountersInv
<1>4. countersMapSize' = 0
  BY <1>3 DEF EventsAccepted, Inv, CountersInv, CountersHonest
<1>5. CountersInv'
  BY <1>1, <1>2, <1>4, FS_EmptySet, LogServerAssumption DEF CountersInv, CountersHonest
<1>6. TimesInv'
  BY <1>1 DEF Inv, TimesInv
<1> QED
  BY <1>5, <1>6 DEF Inv

(* Steps that touch no counter, no time and no record, or empty the batch. *)
LEMMA OthersKeep ==
  ASSUME Inv, UNCHANGED counters, UNCHANGED <<logged, queue>>, clock' \in Nat,
         at' \in Nat \ {0}, batch' = <<>> \/ UNCHANGED <<batch, batchTime>>
  PROVE  Inv'
<1>1. UNCHANGED <<countersMap, countersMapSize, startTime>>
  BY DEF counters
<1>2. CountersInv'
  BY <1>1 DEF Inv, CountersInv, CountersHonest
<1>3. queue' = queue /\ logged' = logged
  OBVIOUS
<1>4. batch' \in Seq(AnyRecord) /\ (batch' # <<>> => batchTime' \in Nat)
  <2>1. CASE batch' = <<>>
    BY <2>1
  <2>2. CASE UNCHANGED <<batch, batchTime>>
    BY <2>2 DEF Inv, TimesInv
  <2> QED
    BY <2>1, <2>2
<1>5. TimesInv'
  BY <1>1, <1>3, <1>4 DEF Inv, TimesInv
<1> QED
  BY <1>2, <1>5 DEF Inv

(* Every step keeps the invariant. *)
LEMMA NextInv == Inv /\ [Next]_vars => Inv'
<1> SUFFICES ASSUME Inv, [Next]_vars PROVE Inv'
  OBVIOUS
<1>1. clock \in Nat /\ at \in Nat \ {0}
  BY DEF Inv, TimesInv
<1>2. ASSUME UNCHANGED <<countersMap, countersMapSize, startTime>> PROVE CountersInv'
  BY <1>2 DEF Inv, CountersInv, CountersHonest
<1>3. CASE \E e \in Events : Log(e)
  <2>1. PICK e \in Events : Log(e)
    BY <1>3
  <2>2. TimesInv'
    BY <2>1, LogKeepsTimes DEF Inv
  <2> QED
    BY <1>2, <2>1, <2>2 DEF Log, counters, Inv
<1>4. CASE Second
  BY <1>1, <1>4, OthersKeep DEF Second, goroutine
<1>5. CASE \E why \in {"tick", "flush", "done"} : Wake(why)
  <2>1. PICK why \in {"tick", "flush", "done"} : Wake(why)
    BY <1>5
  <2>2. TimesInv'
    BY <2>1, WakeKeepsTimes DEF Inv
  <2> QED
    BY <1>2, <2>1, <2>2 DEF Wake, counters, Inv
<1>6. CASE CountRecord
  BY <1>6, CountKeeps
<1>7. CASE StoreMessages
  BY <1>1, <1>7, OthersKeep DEF StoreMessages, input
<1>8. CASE NoEvents
  BY <1>1, <1>8, OthersKeep DEF NoEvents, input
<1>9. CASE EventsAccepted
  BY <1>9, AcceptKeeps
<1>10. CASE EventsFailed
  BY <1>1, <1>10, OthersKeep DEF EventsFailed, input
<1>11. CASE NoMessages
  BY <1>1, <1>11, OthersKeep DEF NoMessages, input
<1>12. CASE MessagesAccepted
  <2>1. UNCHANGED <<counters, input, batch, at, batchTime>>
    BY <1>12 DEF MessagesAccepted
  <2> QED
    BY <1>1, <2>1, OthersKeep DEF input
<1>13. CASE MessagesFailed
  BY <1>1, <1>13, OthersKeep DEF MessagesFailed, input
<1>14. CASE UNCHANGED vars
  BY <1>1, <1>14, OthersKeep DEF vars, input, goroutine
<1> QED
  BY <1>3, <1>4, <1>5, <1>6, <1>7, <1>8, <1>9, <1>10, <1>11, <1>12, <1>13, <1>14
     DEF Next, Write


-----------------------------------------------------------------------------
(* No time is after the clock, and those of what is queued are not before  *)
(* those of what is counted: so the offsets of the keys are not negative.  *)
ClockInv ==
  /\ clock \in 0..MaxTime /\ logged \in 0..MaxRecords
  /\ \A i \in DOMAIN queue :
       /\ queue[i].id \in 1..logged /\ queue[i].time \in 0..clock
       /\ startTime <= queue[i].time
       /\ batch # <<>> => batchTime <= queue[i].time
  /\ \A i \in DOMAIN batch : batch[i].id \in 1..logged /\ batch[i].time \in 0..clock
  /\ batchTime \in {Never} \cup 0..clock /\ startTime \in {Never} \cup 0..clock
  /\ batch # <<>> => startTime <= batchTime

KeysInv == \A k \in DOMAIN countersMap : k \in KeyType /\ countersMap[k] \in Nat \ {0}

(* A batch is there only while it is counted. *)
StepsInv ==
  /\ at \in 1..(Len(batch) + 1)
  /\ pc \in {"waiting", "counting", "events", "messages", "flushEvents",
             "flushMessages", "closed"}
  /\ reason \in {"tick", "flush", "done"}
  /\ pc # "counting" => batch = <<>>
  /\ counterTickCount \in Nat /\ messageTickCount \in Nat
  /\ counterInterval \in Nat /\ messageInterval \in Nat
  /\ sendRawData \in BOOLEAN

(* What was stored or sent was logged before what is still to be stored. *)
IsPast(id) ==
  /\ id <= logged
  /\ \A i \in DOMAIN batch : id < batch[i].id
  /\ \A i \in DOMAIN queue : id < queue[i].id

OrderInv ==
  /\ delivered \in Seq(Array) /\ messageMap \in Seq(Array)
  /\ InOrder(delivered \o messageMap)
  /\ Increasing(batch) /\ Increasing(queue)
  /\ \A i \in DOMAIN batch, j \in DOMAIN queue : batch[i].id < queue[j].id
  /\ \A k \in DOMAIN (delivered \o messageMap) :
       \A i \in DOMAIN (delivered \o messageMap)[k].ids : IsPast((delivered \o messageMap)[k].ids[i])

(* The size is no less than the records that are kept. *)
SizeInv ==
  /\ Filled(messageMap)
  /\ messageMapSize \in Nat /\ Total(messageMap) <= messageMapSize

(* The steps after the batch is stored, and the tick of the clock, leave   *)
(* the times as they were, or take a start time away.                      *)
LEMMA ClockSettled ==
  ASSUME Inv, ClockInv, UNCHANGED <<logged, queue>>, clock' \in clock..MaxTime,
         startTime' \in {startTime, Never},
         UNCHANGED <<batch, batchTime>> \/ (batch' = <<>> /\ batchTime' = Never)
  PROVE  ClockInv'
<1>1. /\ clock \in Nat /\ MaxTime \in Nat
      /\ queue' = queue /\ logged' = logged
      /\ clock' \in 0..MaxTime /\ clock <= clock'
      /\ \A x \in 0..clock : x \in 0..clock'
  BY LogServerAssumption DEF ClockInv
<1>2. startTime' \in {Never} \cup 0..clock' /\ startTime' <= startTime
  BY <1>1 DEF ClockInv, Never
<1>3. DOMAIN batch' = {} \/ (batch' = batch /\ batchTime' = batchTime)
  OBVIOUS
<1>4. batchTime' \in {Never} \cup 0..clock'
  BY <1>1 DEF ClockInv
<1>5. batch' # <<>> => batch' = batch /\ batchTime' = batchTime /\ batch # <<>>
  OBVIOUS
<1>6. startTime \in Int /\ batchTime \in Int /\ startTime' \in Int
  BY <1>1, <1>2 DEF ClockInv, Never
<1>7. ASSUME NEW i \in DOMAIN queue'
      PROVE  /\ queue'[i].id \in 1..logged' /\ queue'[i].time \in 0..clock'
             /\ startTime' <= queue'[i].time
             /\ batch' # <<>> => batchTime' <= queue'[i].time
  <2>1. /\ queue[i].id \in 1..logged /\ queue[i].time \in 0..clock
        /\ startTime <= queue[i].time
        /\ batch # <<>> => batchTime <= queue[i].time
    BY <1>1, <1>7 DEF ClockInv
  <2>2. queue[i].time \in Int /\ startTime' <= queue[i].time
    BY <1>1, <1>2, <1>6, <2>1
  <2> QED
    BY <1>1, <1>5, <2>1, <2>2
<1>8. ASSUME NEW i \in DOMAIN batch'
      PROVE  batch'[i].id \in 1..logged' /\ batch'[i].time \in 0..clock'
  BY <1>1, <1>3, <1>8 DEF ClockInv
<1>9. batch' # <<>> => startTime' <= batchTime'
  BY <1>2, <1>5, <1>6 DEF ClockInv
<1> QED
  BY <1>1, <1>2, <1>4, <1>7, <1>8, <1>9 DEF ClockInv

(* A record is logged at the clock's time, after all others.               *)
LEMMA LogKeepsClock ==
  ASSUME Inv, ClockInv, NEW e \in Events, Log(e)
  PROVE  ClockInv'
<1> DEFINE r == [id |-> logged + 1, time |-> clock, tenant |-> e.tenant, name |-> e.name]
           n == Len(queue)
<1>1. /\ logged' = logged + 1 /\ logged < MaxRecords /\ queue' = Append(queue, r)
      /\ UNCHANGED <<clock, batch, batchTime, startTime>>
  BY DEF Log, goroutine, counters
<1>2. r \in AnyRecord /\ queue \in Seq(AnyRecord)
  BY DEF Inv, TimesInv, AnyRecord, Tenants, Names
<1>3. r.id = logged + 1 /\ r.time = clock
  OBVIOUS
<1> HIDE DEF r
<1>4. n \in Nat /\ DOMAIN queue = 1..n
  BY <1>2, LenProperties
<1>5. /\ DOMAIN queue' = 1..(n+1)
      /\ \A i \in 1..n : queue'[i] = queue[i]
      /\ queue'[n+1] = r
  <2>1. Append(queue, r) \in Seq(AnyRecord) /\ Len(Append(queue, r)) = n + 1
        /\ \A i \in 1..n : Append(queue, r)[i] = queue[i]
        /\ Append(queue, r)[n+1] = r
    BY <1>2, AppendProperties
  <2> QED
    BY <1>1, <2>1, LenProperties
<1>6. clock \in Nat /\ logged \in Nat /\ MaxRecords \in Nat /\ MaxTime \in Nat
  BY LogServerAssumption DEF ClockInv
<1>7. startTime <= clock /\ batchTime <= clock
  BY <1>6 DEF ClockInv, Never
<1> HIDE DEF n
<1>8. ASSUME NEW i \in 1..(n+1)
      PROVE  /\ queue'[i].id \in 1..(logged + 1) /\ queue'[i].time \in 0..clock
             /\ startTime <= queue'[i].time
             /\ batch # <<>> => batchTime <= queue'[i].time
  <2>1. CASE i = n + 1
    BY <1>3, <1>5, <1>6, <1>7, <2>1
  <2>2. CASE i # n + 1
    <3>1. i \in 1..n /\ queue'[i] = queue[i]
      BY <1>4, <1>5, <2>2
    <3> QED
      BY <1>4, <1>6, <3>1 DEF ClockInv
  <2> QED
    BY <2>1, <2>2
<1>9. logged + 1 \in 0..MaxRecords /\ \A x \in 1..logged : x \in 1..(logged + 1)
  BY <1>1, <1>6
<1> QED
  BY <1>1, <1>5, <1>8, <1>9 DEF ClockInv

(* A batch has the time of its last record, and none is later.             *)
LEMMA WakeKeepsClock ==
  ASSUME Inv, ClockInv, NEW why, Wake(why)
  PROVE  ClockInv'
<1>1. /\ batch' = queue /\ queue' = <<>> /\ batchTime' = TimeOf(queue)
      /\ UNCHANGED <<clock, logged, startTime>>
  BY DEF Wake, counters
<1>2. clock \in Nat
  BY DEF ClockInv
<1>3. CASE queue = <<>>
  <2>1. batchTime' = Never
    BY <1>1, <1>3 DEF TimeOf
  <2> QED
    BY <1>1, <1>3, <2>1 DEF ClockInv
<1>4. CASE queue # <<>>
  <2>1. Len(queue) \in DOMAIN queue
    BY <1>4, EmptySeq, LenProperties DEF Inv, TimesInv
  <2>2. batchTime' = queue[Len(queue)].time
    BY <1>1, <1>4 DEF TimeOf, Last
  <2>3. batchTime' \in 0..clock /\ startTime <= batchTime'
    BY <2>1, <2>2 DEF ClockInv
  <2> QED
    BY <1>1, <2>3 DEF ClockInv
<1> QED
  BY <1>3, <1>4

(* Counting may set the start time, to that of the batch.                  *)
LEMMA CountKeepsClock ==
  ASSUME Inv, ClockInv, CountRecord
  PROVE  ClockInv'
<1>1. UNCHANGED <<clock, logged, queue, batch, batchTime>>
  BY DEF CountRecord, input
<1>2. startTime' \in {startTime, Base} /\ (Base = startTime \/ Base = batchTime)
  BY DEF CountRecord, Increment, counters, Base
<1>3. batch # <<>>
  BY DEF CountRecord, Inv, TimesInv
<1>4. startTime' \in {startTime, batchTime}
  BY <1>2
<1>5. startTime' \in {Never} \cup 0..clock /\ startTime' <= batchTime
  BY <1>3, <1>4 DEF ClockInv, Never
<1>6. \A i \in DOMAIN queue : startTime' <= queue[i].time
  BY <1>3, <1>4 DEF ClockInv
<1> QED
  BY <1>1, <1>5, <1>6 DEF ClockInv

(* A key is of an event and an offset that is not negative. *)
LEMMA CountKeepsKeys ==
  ASSUME Inv, ClockInv, KeysInv, StepsInv, CountRecord
  PROVE  KeysInv'
<1>1. CASE UNCHANGED counters
  BY <1>1 DEF KeysInv, counters
<1>2. CASE Increment(batch[at])
  <2> DEFINE k == Key(batch[at])
  <2>1. at \in 1..Len(batch) /\ batch # <<>>
    BY DEF CountRecord, Inv, TimesInv
  <2>2. batch[at] \in AnyRecord
    BY <2>1, ElementOfSeq DEF Inv, TimesInv
  <2>3. Event(batch[at]) \in [tenant : Tenants, name : Names]
    <3>1. TenantOf(batch[at]) \in Tenants /\ batch[at].name \in Names
      BY <2>2, TenantOfRecord DEF AnyRecord
    <3> QED
      BY <3>1 DEF Event
  <2>4. batchTime - Base \in 0..MaxTime
    <3>1. batchTime \in 0..clock /\ clock \in 0..MaxTime /\ startTime <= batchTime
          /\ startTime \in {Never} \cup 0..clock
      BY <2>1 DEF ClockInv, Inv, TimesInv, Never
    <3>2. MaxTime \in Nat
      BY LogServerAssumption
    <3> QED
      BY <3>1, <3>2 DEF Base, Never
  <2>5. k \in KeyType
    BY <2>3, <2>4 DEF Key, KeyType
  <2> HIDE DEF k
  <2>6. countersMap' = [x \in DOMAIN countersMap \cup {k} |->
                          (IF x \in DOMAIN countersMap THEN countersMap[x] ELSE 0)
                            + (IF x = k THEN 1 ELSE 0)]
    BY <1>2 DEF Increment, k
  <2>7. ASSUME NEW x \in DOMAIN countersMap' PROVE x \in KeyType /\ countersMap'[x] \in Nat \ {0}
    <3>1. x \in DOMAIN countersMap \cup {k}
      BY <2>6, <2>7
    <3>2. CASE x \in DOMAIN countersMap
      BY <2>6, <3>1, <3>2 DEF KeysInv
    <3>3. CASE x \notin DOMAIN countersMap
      BY <2>5, <2>6, <3>1, <3>3
    <3> QED
      BY <3>2, <3>3
  <2> QED
    BY <2>7 DEF KeysInv
<1> QED
  BY <1>1, <1>2 DEF CountRecord

(* What the server answers leaves the settings numbers. *)
LEMMA UpdateKeepsConfig ==
  ASSUME counterInterval \in Nat, messageInterval \in Nat, sendRawData \in BOOLEAN,
         NEW settings \in Settings, updateConfig(settings)
  PROVE  counterInterval' \in Nat /\ messageInterval' \in Nat /\ sendRawData' \in BOOLEAN
<1>1. settings \in [update : BOOLEAN, sendRawData : BOOLEAN,
                    countersInterval : Nat, messageInterval : Nat]
  BY LogServerAssumption
<1>2. settings.sendRawData \in BOOLEAN /\ settings.countersInterval \in Nat
      /\ settings.messageInterval \in Nat
  BY <1>1
<1>3. CASE ~settings.update
  BY <1>3 DEF updateConfig, config
<1>4. CASE settings.update
  <2>1. sendRawData' \in BOOLEAN
    BY <1>2, <1>4, Zenon DEF updateConfig
  <2>2. counterInterval' \in Nat
    BY <1>2, <1>4 DEF updateConfig
  <2>3. messageInterval' \in Nat
    BY <1>2, <1>4 DEF updateConfig
  <2> QED
    BY <2>1, <2>2, <2>3
<1> QED
  BY <1>3, <1>4

(* Every step keeps the batch for the counting only.                       *)
LEMMA StepsKept == Inv /\ StepsInv /\ [Next]_vars => StepsInv'
<1> SUFFICES ASSUME Inv, StepsInv, [Next]_vars PROVE StepsInv'
  OBVIOUS
<1>1. CASE \E e \in Events : Log(e)
  BY <1>1 DEF Log, goroutine, ticks, config, StepsInv
<1>2. CASE Second
  BY <1>2 DEF Second, goroutine, ticks, config, StepsInv
<1>3. CASE \E why \in {"tick", "flush", "done"} : Wake(why)
  <2>1. Len(queue) \in Nat
    BY LenProperties DEF Inv, TimesInv
  <2> QED
    BY <1>3, <2>1 DEF Wake, ticks, config, StepsInv
<1>4. CASE CountRecord
  <2>1. at \in 1..Len(batch) /\ Len(batch) \in Nat
    BY <1>4, LenProperties DEF CountRecord, Inv, TimesInv
  <2>2. at' \in 1..(Len(batch') + 1)
    BY <1>4, <2>1 DEF CountRecord
  <2> QED
    BY <1>4, <2>2 DEF CountRecord, ticks, config, StepsInv
<1>5. CASE StoreMessages
  <2>1. at' = 1 /\ batch' = <<>> /\ pc' = "events" /\ UNCHANGED <<reason, ticks, config>>
    BY <1>5 DEF StoreMessages
  <2> QED
    BY <2>1 DEF ticks, config, StepsInv
<1>6. ASSUME pc \in {"events", "flushEvents"}, AfterEvents, UNCHANGED <<reason, batch, at>>,
             counterInterval' \in Nat /\ messageInterval' \in Nat /\ sendRawData' \in BOOLEAN
      PROVE  StepsInv'
  BY <1>6 DEF AfterEvents, StepsInv
<1>7. ASSUME pc \in {"messages", "flushMessages"}, AfterMessages, UNCHANGED <<batch, at>>,
             counterInterval' \in Nat /\ messageInterval' \in Nat /\ sendRawData' \in BOOLEAN
      PROVE  StepsInv'
  BY <1>7 DEF AfterMessages, ticks, StepsInv
<1>8. counterInterval \in Nat /\ messageInterval \in Nat /\ sendRawData \in BOOLEAN
  BY DEF StepsInv
<1>9. CASE NoEvents
  BY <1>6, <1>8, <1>9 DEF NoEvents, config
<1>10. CASE EventsAccepted
  <2>1. PICK settings \in Settings : updateConfig(settings)
    BY <1>10 DEF EventsAccepted
  <2>2. counterInterval' \in Nat /\ messageInterval' \in Nat /\ sendRawData' \in BOOLEAN
    BY <1>8, <2>1, UpdateKeepsConfig
  <2> QED
    BY <1>6, <1>10, <2>2 DEF EventsAccepted, PostsEvents, EventsDue
<1>11. CASE EventsFailed
  BY <1>6, <1>8, <1>11 DEF EventsFailed, PostsEvents, EventsDue, config
<1>12. CASE NoMessages
  BY <1>7, <1>8, <1>12 DEF NoMessages, config
<1>13. CASE MessagesAccepted
  <2>1. PICK settings \in Settings : updateConfig(settings)
    BY <1>13 DEF MessagesAccepted
  <2>2. counterInterval' \in Nat /\ messageInterval' \in Nat /\ sendRawData' \in BOOLEAN
    BY <1>8, <2>1, UpdateKeepsConfig
  <2> QED
    BY <1>7, <1>13, <2>2 DEF MessagesAccepted, PostsMessages, MessagesDue
<1>14. CASE MessagesFailed
  BY <1>7, <1>8, <1>14 DEF MessagesFailed, PostsMessages, MessagesDue, config
<1>15. CASE UNCHANGED vars
  BY <1>15 DEF vars, goroutine, ticks, config, StepsInv
<1> QED
  BY <1>1, <1>2, <1>3, <1>4, <1>5, <1>9, <1>10, <1>11, <1>12, <1>13, <1>14, <1>15
     DEF Next, Write

(* Every step keeps the times and the keys. *)
LEMMA ClockAndKeysKept ==
  Inv /\ ClockInv /\ KeysInv /\ StepsInv /\ [Next]_vars => ClockInv' /\ KeysInv'
<1> SUFFICES ASSUME Inv, ClockInv, KeysInv, StepsInv, [Next]_vars
             PROVE  ClockInv' /\ KeysInv'
  OBVIOUS
<1>1. ASSUME UNCHANGED countersMap PROVE KeysInv'
  BY <1>1 DEF KeysInv
<1>2. ASSUME countersMap' = NoKeys PROVE KeysInv'
  BY <1>2 DEF KeysInv, NoKeys
<1>3. clock \in clock..MaxTime
  BY LogServerAssumption DEF ClockInv
<1>4. CASE \E e \in Events : Log(e)
  <2>1. PICK e \in Events : Log(e)
    BY <1>4
  <2>2. ClockInv'
    BY <2>1, LogKeepsClock
  <2> QED
    BY <1>1, <2>1, <2>2 DEF Log, counters
<1>5. CASE Second
  <2>1. clock' \in clock..MaxTime
    BY <1>5, LogServerAssumption DEF Second, ClockInv
  <2>2. UNCHANGED <<logged, queue, batch, batchTime, startTime, countersMap>>
    BY <1>5 DEF Second, goroutine, counters
  <2>3. ClockInv'
    BY <2>1, <2>2, ClockSettled
  <2> QED
    BY <1>1, <2>2, <2>3
<1>6. CASE \E why \in {"tick", "flush", "done"} : Wake(why)
  <2>1. PICK why \in {"tick", "flush", "done"} : Wake(why)
    BY <1>6
  <2>2. ClockInv'
    BY <2>1, WakeKeepsClock
  <2> QED
    BY <1>1, <2>1, <2>2 DEF Wake, counters
<1>7. CASE CountRecord
  BY <1>7, CountKeepsClock, CountKeepsKeys
<1>8. ASSUME UNCHANGED <<input, counters>>,
             UNCHANGED <<batch, batchTime>> \/ (batch' = <<>> /\ batchTime' = Never)
      PROVE  ClockInv' /\ KeysInv'
  <2>1. UNCHANGED <<clock, logged, queue, startTime, countersMap>>
    BY <1>8 DEF input, counters
  <2>2. clock' \in clock..MaxTime
    BY <1>3, <2>1
  <2>3. ClockInv'
    BY <1>8, <2>1, <2>2, ClockSettled
  <2> QED
    BY <1>1, <2>1, <2>3
<1>9. CASE StoreMessages
  BY <1>8, <1>9 DEF StoreMessages
<1>10. CASE NoEvents
  BY <1>8, <1>10 DEF NoEvents
<1>11. CASE EventsAccepted
  <2>1. UNCHANGED <<clock, logged, queue, batch, batchTime>> /\ startTime' = Never
        /\ countersMap' = NoKeys
    BY <1>11 DEF EventsAccepted, input
  <2>2. clock' \in clock..MaxTime
    BY <1>3, <2>1
  <2>3. ClockInv'
    BY <2>1, <2>2, ClockSettled
  <2> QED
    BY <1>2, <2>1, <2>3
<1>12. CASE EventsFailed
  BY <1>8, <1>12 DEF EventsFailed
<1>13. CASE NoMessages
  BY <1>8, <1>13 DEF NoMessages
<1>14. CASE MessagesAccepted
  BY <1>8, <1>14 DEF MessagesAccepted
<1>15. CASE MessagesFailed
  BY <1>8, <1>15 DEF MessagesFailed
<1>16. CASE UNCHANGED vars
  BY <1>8, <1>16 DEF vars, goroutine
<1> QED
  BY <1>4, <1>5, <1>6, <1>7, <1>9, <1>10, <1>11, <1>12, <1>13, <1>14, <1>15, <1>16
     DEF Next, Write

-----------------------------------------------------------------------------
(* Arrays of later records follow others in order. *)
LEMMA InOrderConcat ==
  ASSUME NEW p \in Seq(Array), NEW q \in Seq(Array), InOrder(p), InOrder(q),
         \A k \in DOMAIN p, l \in DOMAIN q :
           \A i \in DOMAIN p[k].ids, j \in DOMAIN q[l].ids : p[k].ids[i] < q[l].ids[j]
  PROVE  InOrder(p \o q)
<1> DEFINE a == Len(p)
           b == Len(q)
           s == p \o q
<1>1. a \in Nat /\ b \in Nat /\ DOMAIN p = 1..a /\ DOMAIN q = 1..b
  BY LenProperties
<1>2. s \in Seq(Array) /\ Len(s) = a + b
      /\ \A k \in 1..(a + b) : s[k] = IF k <= a THEN p[k] ELSE q[k - a]
  BY ConcatProperties
<1>3. DOMAIN s = 1..(a + b)
  BY <1>2, LenProperties
<1>4. \A k \in 1..(a + b) : \/ (k \in 1..a /\ s[k] = p[k])
                            \/ (k > a /\ k - a \in 1..b /\ s[k] = q[k - a])
  BY <1>1, <1>2
<1> HIDE DEF s, a, b
<1>5. ASSUME NEW k \in 1..(a + b), NEW l \in 1..(a + b), s[k].tenant = s[l].tenant,
             NEW i \in DOMAIN s[k].ids, NEW j \in DOMAIN s[l].ids,
             k < l \/ (k = l /\ i < j)
      PROVE  s[k].ids[i] < s[l].ids[j]
  <2>1. CASE l \in 1..a /\ s[l] = p[l]
    <3>1. k \in 1..a /\ s[k] = p[k]
      BY <1>1, <1>4, <1>5, <2>1
    <3> QED
      BY <1>1, <1>5, <2>1, <3>1 DEF InOrder
  <2>2. CASE (k \in 1..a /\ s[k] = p[k]) /\ (l > a /\ l - a \in 1..b /\ s[l] = q[l - a])
    BY <1>1, <1>5, <2>2
  <2>3. CASE (k > a /\ k - a \in 1..b /\ s[k] = q[k - a])
             /\ (l > a /\ l - a \in 1..b /\ s[l] = q[l - a])
    <3>1. k - a < l - a \/ (k - a = l - a /\ i < j)
      BY <1>1, <1>5
    <3> QED
      BY <1>1, <1>5, <2>3, <3>1 DEF InOrder
  <2> QED
    BY <1>4, <2>1, <2>2, <2>3
<1> QED
  BY <1>3, <1>5 DEF InOrder, s

(* The arrays at the front of others are in order as they are. *)
LEMMA FrontOfArrays ==
  ASSUME NEW p \in Seq(Array), NEW q \in Seq(Array)
  PROVE  /\ \A k \in DOMAIN p : k \in DOMAIN (p \o q) /\ (p \o q)[k] = p[k]
         /\ InOrder(p \o q) => InOrder(p)
<1> DEFINE s == p \o q
<1>1. Len(p) \in Nat /\ Len(q) \in Nat /\ DOMAIN p = 1..Len(p)
  BY LenProperties
<1>2. s \in Seq(Array) /\ Len(s) = Len(p) + Len(q)
      /\ \A k \in 1..(Len(p) + Len(q)) : s[k] = IF k <= Len(p) THEN p[k] ELSE q[k - Len(p)]
  BY ConcatProperties
<1>3. DOMAIN s = 1..(Len(p) + Len(q))
  BY <1>2, LenProperties
<1> HIDE DEF s
<1>4. \A k \in DOMAIN p : k \in DOMAIN s /\ s[k] = p[k]
  BY <1>1, <1>2, <1>3
<1>5. InOrder(s) => InOrder(p)
  BY <1>4 DEF InOrder
<1> QED
  BY <1>4, <1>5 DEF s

(* Steps that take no array away from its place keep the order: what was   *)
(* sent and is stored are as they were, or only the front of them is left. *)
LEMMA OrderSettled ==
  ASSUME Inv, OrderInv, UNCHANGED <<logged, queue>>,
         batch' = batch \/ batch' = <<>>,
         delivered' \in Seq(Array), messageMap' \in Seq(Array),
         delivered' \o messageMap' \in {delivered \o messageMap, delivered}
  PROVE  OrderInv'
<1> DEFINE s == delivered \o messageMap
           n == delivered' \o messageMap'
<1>1. n = s \/ n = delivered
  OBVIOUS
<1>2. delivered \in Seq(Array) /\ messageMap \in Seq(Array)
  BY DEF OrderInv
<1>3. /\ \A k \in DOMAIN delivered : k \in DOMAIN s /\ s[k] = delivered[k]
      /\ InOrder(s) => InOrder(delivered)
  BY <1>2, FrontOfArrays
<1>4. InOrder(s) /\ \A k \in DOMAIN s : \A i \in DOMAIN s[k].ids : IsPast(s[k].ids[i])
  BY DEF OrderInv
<1>5. queue' = queue /\ logged' = logged
  OBVIOUS
<1>6. \A id : IsPast(id) => /\ id <= logged'
                            /\ \A i \in DOMAIN batch' : id < batch'[i].id
                            /\ \A i \in DOMAIN queue' : id < queue'[i].id
  BY <1>5 DEF IsPast
<1> HIDE DEF s, n
<1>7. InOrder(n)
  BY <1>1, <1>3, <1>4
<1>8. \A k \in DOMAIN n : \A i \in DOMAIN n[k].ids : IsPast(n[k].ids[i])
  BY <1>1, <1>3, <1>4
<1>9. \A k \in DOMAIN n : \A i \in DOMAIN n[k].ids :
         /\ n[k].ids[i] <= logged'
         /\ \A h \in DOMAIN batch' : n[k].ids[i] < batch'[h].id
         /\ \A h \in DOMAIN queue' : n[k].ids[i] < queue'[h].id
  BY <1>6, <1>8
<1>10. Increasing(batch') /\ Increasing(queue')
  BY <1>5 DEF OrderInv, Increasing
<1>11. \A i \in DOMAIN batch', j \in DOMAIN queue' : batch'[i].id < queue'[j].id
  BY <1>5 DEF OrderInv
<1> QED
  BY <1>7, <1>9, <1>10, <1>11 DEF OrderInv, IsPast, n

(* What is logged has an id of its own, greater than any before.           *)
LEMMA LogKeepsOrder ==
  ASSUME Inv, ClockInv, OrderInv, NEW e \in Events, Log(e)
  PROVE  OrderInv'
<1> DEFINE r == [id |-> logged + 1, time |-> clock, tenant |-> e.tenant, name |-> e.name]
           n == Len(queue)
           s == delivered \o messageMap
<1>1. /\ logged' = logged + 1 /\ queue' = Append(queue, r)
      /\ UNCHANGED <<batch, delivered, messageMap>>
  BY DEF Log, goroutine, messages, server
<1>2. r \in AnyRecord /\ queue \in Seq(AnyRecord)
  BY DEF Inv, TimesInv, AnyRecord, Tenants, Names
<1>3. r.id = logged + 1
  OBVIOUS
<1> HIDE DEF r
<1>4. n \in Nat /\ DOMAIN queue = 1..n
  BY <1>2, LenProperties
<1>5. /\ DOMAIN queue' = 1..(n+1)
      /\ \A i \in 1..n : queue'[i] = queue[i]
      /\ queue'[n+1] = r
  <2>1. Append(queue, r) \in Seq(AnyRecord) /\ Len(Append(queue, r)) = n + 1
        /\ \A i \in 1..n : Append(queue, r)[i] = queue[i]
        /\ Append(queue, r)[n+1] = r
    BY <1>2, AppendProperties
  <2> QED
    BY <1>1, <2>1, LenProperties
<1>6. logged \in Nat
  BY DEF ClockInv
<1>7. \A i \in 1..n : queue[i].id \in 1..logged
  BY <1>4 DEF ClockInv
<1>8. \A i \in DOMAIN batch : batch[i].id \in 1..logged
  BY DEF ClockInv
<1> HIDE DEF n
<1>9. \A x \in Int : (x <= logged /\ \A i \in DOMAIN queue : x < queue[i].id)
                       => x <= logged' /\ \A i \in 1..(n+1) : x < queue'[i].id
  <2>1. ASSUME NEW x \in Int, x <= logged, \A i \in DOMAIN queue : x < queue[i].id,
               NEW i \in 1..(n+1)
        PROVE  x < queue'[i].id
    <3>1. CASE i = n + 1
      BY <1>3, <1>5, <1>6, <2>1, <3>1
    <3>2. CASE i # n + 1
      <4>1. i \in 1..n
        BY <1>4, <3>2
      <4> QED
        BY <1>4, <1>5, <2>1, <4>1
    <3> QED
      BY <3>1, <3>2
  <2>2. ASSUME NEW x \in Int, x <= logged PROVE x <= logged'
    BY <1>1, <1>6, <2>2
  <2>3. ASSUME NEW x \in Int, x <= logged, \A i \in DOMAIN queue : x < queue[i].id
        PROVE  x <= logged' /\ \A i \in 1..(n+1) : x < queue'[i].id
    BY <2>1, <2>2, <2>3
  <2> QED
    BY <2>3
<1>10. \A i \in DOMAIN batch', j \in DOMAIN queue' : batch'[i].id < queue'[j].id
  <2>1. ASSUME NEW i \in DOMAIN batch, NEW j \in 1..(n+1) PROVE batch[i].id < queue'[j].id
    <3>1. batch[i].id \in Int /\ batch[i].id <= logged
      BY <1>6, <1>8
    <3>2. \A h \in DOMAIN queue : batch[i].id < queue[h].id
      BY DEF OrderInv
    <3> QED
      BY <1>9, <3>1, <3>2
  <2> QED
    BY <1>1, <1>5, <2>1
<1>11. Increasing(queue')
  <2>1. ASSUME NEW i \in 1..(n+1), NEW j \in 1..(n+1), i < j PROVE queue'[i].id < queue'[j].id
    <3>1. i \in 1..n /\ queue'[i] = queue[i]
      BY <1>4, <1>5, <2>1
    <3>2. CASE j = n + 1
      BY <1>3, <1>5, <1>6, <1>7, <3>1, <3>2
    <3>3. CASE j # n + 1
      <4>1. j \in 1..n /\ queue'[j] = queue[j]
        BY <1>4, <1>5, <3>3
      <4> QED
        BY <1>4, <2>1, <3>1, <4>1 DEF OrderInv, Increasing
    <3> QED
      BY <3>2, <3>3
  <2> QED
    BY <1>5, <2>1 DEF Increasing
<1>12. delivered \in Seq(Array) /\ messageMap \in Seq(Array)
  BY DEF OrderInv
<1>13. \A k \in DOMAIN s : \A i \in DOMAIN s[k].ids : s[k].ids[i] \in Int
  <2>1. s \in Seq(Array)
    BY <1>12, ConcatProperties
  <2>2. \A k \in DOMAIN s : s[k].ids \in Seq(Nat)
    <3> HIDE DEF s
    <3>1. \A k \in DOMAIN s : s[k] \in Array
      BY <2>1, LenProperties, ElementOfSeq
    <3> QED
      BY <3>1 DEF Array
  <2>3. ASSUME NEW k \in DOMAIN s, NEW i \in DOMAIN s[k].ids PROVE s[k].ids[i] \in Int
    <3> DEFINE ids == s[k].ids
    <3>1. ids \in Seq(Nat)
      BY <2>2
    <3> HIDE DEF ids
    <3>2. \A h \in DOMAIN ids : ids[h] \in Int
      BY <3>1, LenProperties, ElementOfSeq
    <3> QED
      BY <3>2 DEF ids
  <2> QED
    BY <2>3
<1>14. \A k \in DOMAIN s : \A i \in DOMAIN s[k].ids : IsPast(s[k].ids[i])
  BY DEF OrderInv
<1>15. s = delivered' \o messageMap'
  BY <1>1
<1> HIDE DEF s
<1>16. \A k \in DOMAIN s : \A i \in DOMAIN s[k].ids :
          /\ s[k].ids[i] <= logged'
          /\ \A h \in DOMAIN batch' : s[k].ids[i] < batch'[h].id
          /\ \A h \in DOMAIN queue' : s[k].ids[i] < queue'[h].id
  BY <1>1, <1>5, <1>9, <1>13, <1>14 DEF IsPast
<1>17. InOrder(s) /\ Increasing(batch')
  BY <1>1 DEF OrderInv, s
<1> QED
  BY <1>1, <1>10, <1>11, <1>12, <1>15, <1>16, <1>17 DEF OrderInv, IsPast

(* The queue becomes the batch, in its order.                              *)
LEMMA WakeKeepsOrder ==
  ASSUME StepsInv, OrderInv, NEW why, Wake(why)
  PROVE  OrderInv'
<1>1. /\ batch = <<>> /\ batch' = queue /\ queue' = <<>> /\ logged' = logged
      /\ UNCHANGED <<delivered, messageMap>>
  BY DEF Wake, StepsInv, server, messages
<1>2. DOMAIN queue' = {}
  BY <1>1
<1>3. Increasing(batch') /\ Increasing(queue')
  BY <1>1, <1>2 DEF OrderInv, Increasing
<1> DEFINE s == delivered \o messageMap
<1>4. \A k \in DOMAIN s : \A i \in DOMAIN s[k].ids : IsPast(s[k].ids[i])
  BY DEF OrderInv
<1>5. s = delivered' \o messageMap' /\ InOrder(s)
  BY <1>1 DEF OrderInv
<1> HIDE DEF s
<1>6. \A k \in DOMAIN s : \A i \in DOMAIN s[k].ids :
          /\ s[k].ids[i] <= logged'
          /\ \A h \in DOMAIN batch' : s[k].ids[i] < batch'[h].id
          /\ \A h \in DOMAIN queue' : s[k].ids[i] < queue'[h].id
  BY <1>1, <1>2, <1>4 DEF IsPast
<1> QED
  BY <1>1, <1>2, <1>3, <1>5, <1>6 DEF OrderInv, IsPast

(* What is stored was logged after all that was stored, and before what is *)
(* queued.                                                                 *)
LEMMA StoreKeepsOrder ==
  ASSUME Inv, ClockInv, OrderInv, StoreMessages
  PROVE  OrderInv'
<1>1. UNCHANGED <<logged, queue, delivered>> /\ batch' = <<>>
  BY DEF StoreMessages, input, server
<1>2. delivered \in Seq(Array) /\ messageMap \in Seq(Array)
  BY DEF OrderInv
<1>3. CASE UNCHANGED messages
  <2>1. messageMap' = messageMap
    BY <1>3 DEF messages
  <2> QED
    BY <1>1, <1>2, <2>1, OrderSettled
<1>4. CASE messageMap' = messageMap \o EncodeLogForTransfer(batch)
  <2> DEFINE new == EncodeLogForTransfer(batch)
             s == delivered \o messageMap
             n == Len(batch)
  <2>1. batch \in Seq(AnyRecord) /\ Increasing(batch)
    BY DEF Inv, TimesInv, OrderInv
  <2>2. /\ new \in Seq(Array) /\ InOrder(new)
        /\ \A k \in DOMAIN new : \A i \in DOMAIN new[k].ids : IsIdUpTo(batch, n, new[k].ids[i])
    BY <2>1, EncodeIsFaithful
  <2>3. n \in Nat /\ DOMAIN batch = 1..n
    BY <2>1, LenProperties
  <2> HIDE DEF new, n
  <2>4. \A id : IsIdUpTo(batch, n, id) => \E i \in DOMAIN batch : batch[i].id = id
    BY <2>3 DEF IsIdUpTo
  <2>5. s \in Seq(Array) /\ InOrder(s)
        /\ \A k \in DOMAIN s : \A i \in DOMAIN s[k].ids : IsPast(s[k].ids[i])
    BY <1>2, ConcatProperties DEF OrderInv
  <2>6. delivered' \o messageMap' = s \o new
    BY <1>1, <1>2, <1>4, <2>2, ConcatAssociative DEF new
  <2>7. messageMap' \in Seq(Array) /\ delivered' \in Seq(Array)
    BY <1>1, <1>2, <1>4, <2>2, ConcatProperties DEF new
  <2> HIDE DEF s
  <2>8. InOrder(s \o new)
    <3>1. \A k \in DOMAIN s, l \in DOMAIN new :
            \A i \in DOMAIN s[k].ids, j \in DOMAIN new[l].ids : s[k].ids[i] < new[l].ids[j]
      BY <2>2, <2>4, <2>5 DEF IsPast
    <3> QED
      BY <2>2, <2>5, <3>1, InOrderConcat
  <2> DEFINE all == s \o new
             Later(id) == id <= logged /\ \A i \in DOMAIN queue : id < queue[i].id
  <2>9. \A k \in DOMAIN s : \A i \in DOMAIN s[k].ids : Later(s[k].ids[i])
    BY <2>5 DEF IsPast
  <2>10. \A k \in DOMAIN new : \A i \in DOMAIN new[k].ids : Later(new[k].ids[i])
    <3>1. \A i \in DOMAIN batch : batch[i].id <= logged
      BY DEF ClockInv
    <3>2. \A i \in DOMAIN batch : Later(batch[i].id)
      BY <3>1 DEF OrderInv
    <3> QED
      BY <2>2, <2>4, <3>2
  <2> HIDE DEF Later
  <2>11. \A k \in DOMAIN all : \A i \in DOMAIN all[k].ids : Later(all[k].ids[i])
    <3>1. Len(s) \in Nat /\ Len(new) \in Nat /\ DOMAIN s = 1..Len(s) /\ DOMAIN new = 1..Len(new)
      BY <2>2, <2>5, LenProperties
    <3>2. all \in Seq(Array) /\ Len(all) = Len(s) + Len(new)
          /\ \A k \in 1..(Len(s) + Len(new)) : all[k] = IF k <= Len(s) THEN s[k] ELSE new[k - Len(s)]
      BY <2>2, <2>5, ConcatProperties
    <3>3. DOMAIN all = 1..(Len(s) + Len(new))
      BY <3>2, LenProperties
    <3> HIDE DEF all
    <3>4. ASSUME NEW k \in DOMAIN all, NEW i \in DOMAIN all[k].ids PROVE Later(all[k].ids[i])
      <4>1. CASE k <= Len(s)
        <5>1. k \in DOMAIN s /\ all[k] = s[k]
          BY <3>1, <3>2, <3>3, <4>1
        <5> QED
          BY <2>9, <3>4, <5>1
      <4>2. CASE ~(k <= Len(s))
        <5>1. k - Len(s) \in DOMAIN new /\ all[k] = new[k - Len(s)]
          BY <3>1, <3>2, <3>3, <4>2
        <5> QED
          BY <2>10, <3>4, <5>1
      <4> QED
        BY <4>1, <4>2
    <3> QED
      BY <3>4
  <2>12. delivered' \o messageMap' = all /\ InOrder(all)
    BY <2>6, <2>8
  <2> HIDE DEF all
  <2>13. \A k \in DOMAIN all : \A i \in DOMAIN all[k].ids :
          /\ all[k].ids[i] <= logged'
          /\ \A h \in DOMAIN batch' : all[k].ids[i] < batch'[h].id
          /\ \A h \in DOMAIN queue' : all[k].ids[i] < queue'[h].id
    BY <1>1, <2>11 DEF Later
  <2>14. Increasing(batch') /\ Increasing(queue')
         /\ \A i \in DOMAIN batch', j \in DOMAIN queue' : batch'[i].id < queue'[j].id
    BY <1>1 DEF OrderInv, Increasing
  <2> QED
    BY <2>7, <2>12, <2>13, <2>14 DEF OrderInv, IsPast
<1> QED
  BY <1>3, <1>4 DEF StoreMessages

(* Every step keeps the order. *)
LEMMA OrderKept ==
  Inv /\ ClockInv /\ StepsInv /\ OrderInv /\ [Next]_vars => OrderInv'
<1> SUFFICES ASSUME Inv, ClockInv, StepsInv, OrderInv, [Next]_vars PROVE OrderInv'
  OBVIOUS
<1>1. delivered \in Seq(Array) /\ messageMap \in Seq(Array) /\ <<>> \in Seq(Array)
  BY EmptySeq DEF OrderInv
<1>2. ASSUME UNCHANGED <<logged, queue, batch, delivered, messageMap>> PROVE OrderInv'
  BY <1>1, <1>2, OrderSettled
<1>3. CASE \E e \in Events : Log(e)
  BY <1>3, LogKeepsOrder
<1>4. CASE Second
  BY <1>2, <1>4 DEF Second, goroutine, server, messages
<1>5. CASE \E why \in {"tick", "flush", "done"} : Wake(why)
  BY <1>5, WakeKeepsOrder
<1>6. CASE CountRecord
  BY <1>2, <1>6 DEF CountRecord, input, server, messages
<1>7. CASE StoreMessages
  BY <1>7, StoreKeepsOrder
<1>8. CASE NoEvents
  BY <1>2, <1>8 DEF NoEvents, input, server, messages
<1>9. CASE EventsAccepted
  BY <1>2, <1>9 DEF EventsAccepted, input, messages
<1>10. CASE EventsFailed
  BY <1>2, <1>10 DEF EventsFailed, input, messages
<1>11. CASE NoMessages
  BY <1>2, <1>11 DEF NoMessages, input, server, messages
<1>12. ASSUME UNCHANGED <<logged, queue, batch>>, messageMap' = <<>>,
              delivered' \in {delivered, delivered \o messageMap}
       PROVE  OrderInv'
  <2>1. delivered \o messageMap \in Seq(Array)
    BY <1>1, ConcatProperties
  <2>2. delivered' \in Seq(Array) /\ delivered' \o messageMap' = delivered'
    BY <1>1, <1>12, <2>1, ConcatEmptySeq
  <2> QED
    BY <1>1, <1>12, <2>2, OrderSettled
<1>13. CASE MessagesAccepted
  BY <1>12, <1>13 DEF MessagesAccepted, input
<1>14. CASE MessagesFailed
  BY <1>12, <1>14 DEF MessagesFailed, input
<1>15. CASE UNCHANGED vars
  BY <1>2, <1>15 DEF vars, input, goroutine, server, messages
<1> QED
  BY <1>3, <1>4, <1>5, <1>6, <1>7, <1>8, <1>9, <1>10, <1>11, <1>13, <1>14, <1>15
     DEF Next, Write

(* Every step keeps the size no less than the records. *)
LEMMA SizeKept == Inv /\ OrderInv /\ SizeInv /\ [Next]_vars => SizeInv'
<1> SUFFICES ASSUME Inv, OrderInv, SizeInv, [Next]_vars PROVE SizeInv'
  OBVIOUS
<1>1. messageMap \in Seq(Array)
  BY DEF OrderInv
<1>2. ASSUME UNCHANGED messages PROVE SizeInv'
  BY <1>2 DEF SizeInv, messages
<1>3. CASE StoreMessages
  <2>1. CASE /\ messageMap' = messageMap \o EncodeLogForTransfer(batch)
             /\ messageMapSize' = messageMapSize + Len(batch)
    <3> DEFINE new == EncodeLogForTransfer(batch)
               n == Len(batch)
    <3>1. batch \in Seq(AnyRecord) /\ Increasing(batch)
      BY DEF Inv, TimesInv, OrderInv
    <3>2. new \in Seq(Array) /\ Filled(new) /\ Total(new) = n
      BY <3>1, EncodeIsFaithful
    <3>3. n \in Nat
      BY <3>1, LenProperties
    <3>4. messageMap' = messageMap \o new /\ messageMapSize' = messageMapSize + n
      BY <2>1
    <3> HIDE DEF new, n
    <3>5. Total(messageMap) \in Nat /\ Total(messageMap \o new) = Total(messageMap) + n
      BY <1>1, <3>2, TotalConcat
    <3>6. messageMapSize' \in Nat /\ Total(messageMap') <= messageMapSize'
      BY <3>3, <3>4, <3>5 DEF SizeInv
    <3>7. Filled(messageMap \o new)
      <4>1. /\ Len(messageMap) \in Nat /\ Len(new) \in Nat
            /\ DOMAIN messageMap = 1..Len(messageMap) /\ DOMAIN new = 1..Len(new)
        BY <1>1, <3>2, LenProperties
      <4> DEFINE s == messageMap \o new
                 a == Len(messageMap)
                 b == Len(new)
      <4>2. s \in Seq(Array) /\ Len(s) = a + b
            /\ \A k \in 1..(a + b) : s[k] = IF k <= a THEN messageMap[k] ELSE new[k - a]
        BY <1>1, <3>2, ConcatProperties
      <4>3. DOMAIN s = 1..(a + b)
        BY <4>2, LenProperties
      <4> HIDE DEF s, a, b
      <4>4. ASSUME NEW k \in 1..(a + b) PROVE s[k].ids # <<>>
        <5>1. CASE k <= a
          BY <4>1, <4>2, <5>1 DEF SizeInv, Filled, a
        <5>2. CASE ~(k <= a)
          <6>1. k - a \in 1..b /\ s[k] = new[k - a]
            BY <4>1, <4>2, <5>2 DEF a, b
          <6> QED
            BY <3>2, <4>1, <6>1 DEF Filled, b
        <5> QED
          BY <5>1, <5>2
      <4> QED
        BY <4>3, <4>4 DEF Filled, s
    <3> QED
      BY <3>4, <3>6, <3>7 DEF SizeInv
  <2> QED
    BY <1>2, <1>3, <2>1 DEF StoreMessages
<1>4. ASSUME messageMap' = <<>>, messageMapSize' \in Nat PROVE SizeInv'
  BY <1>4, TotalEmpty DEF SizeInv, Filled
<1>5. CASE MessagesAccepted
  <2>1. Len(messageMap) <= Total(messageMap) /\ Len(messageMap) \in Nat
    BY <1>1, NoMoreThanRecords, LenProperties DEF SizeInv
  <2>2. Total(messageMap) \in Nat
    BY <1>1, TotalConcat
  <2>3. messageMapSize - Len(messageMap) \in Nat
    BY <2>1, <2>2 DEF SizeInv
  <2> QED
    BY <1>4, <1>5, <2>3 DEF MessagesAccepted
<1>6. CASE MessagesFailed
  BY <1>4, <1>6 DEF MessagesFailed, SizeInv
<1> QED
  BY <1>2, <1>3, <1>5, <1>6
     DEF Next, Write, Log, Second, Wake, CountRecord, NoEvents, EventsAccepted,
         EventsFailed, NoMessages, vars

-----------------------------------------------------------------------------
KeysOf(f, e) == {k \in DOMAIN f : k.event = e}
One(e, x) == IF x = e THEN 1 ELSE 0

(* What is counted of an event, as long as the counts are numbers. *)
LEMMA SumOfEvent ==
  ASSUME NEW f, IsFiniteSet(DOMAIN f), \A k \in DOMAIN f : f[k] \in Nat, NEW e
  PROVE  /\ SumOver(f, KeysOf(f, e)) \in Nat
         /\ IsFiniteSet(Units(KeysOf(f, e), f))
         /\ SumOver(f, KeysOf(f, e)) = Cardinality(Units(KeysOf(f, e), f))
<1>1. KeysOf(f, e) \subseteq DOMAIN f
  BY DEF KeysOf
<1>2. IsFiniteSet(KeysOf(f, e))
  BY <1>1, FS_Subset
<1>3. \A k \in KeysOf(f, e) : f[k] \in Nat
  BY <1>1
<1>4. IsFiniteSet(Units(KeysOf(f, e), f))
      /\ SumOver(f, KeysOf(f, e)) = Cardinality(Units(KeysOf(f, e), f))
  BY <1>2, <1>3, SumIsUnits
<1> QED
  BY <1>4, FS_CardinalityType

(* Counting a key once more adds one to its event and to no other. *)
LEMMA SumIncremented ==
  ASSUME NEW f, IsFiniteSet(DOMAIN f), \A k \in DOMAIN f : f[k] \in Nat, NEW x, NEW e,
         NEW g, DOMAIN g = DOMAIN f \cup {x}, \A k \in DOMAIN f : k # x => g[k] = f[k],
         g[x] = (IF x \in DOMAIN f THEN f[x] ELSE 0) + 1
  PROVE  SumOver(g, KeysOf(g, e)) = SumOver(f, KeysOf(f, e)) + One(e, x.event)
<1> DEFINE S == KeysOf(f, e)
           T == KeysOf(g, e)
<1>1. DOMAIN g = DOMAIN f \cup {x}
  OBVIOUS
<1>2. /\ \A k \in DOMAIN f : k # x => g[k] = f[k]
      /\ g[x] = (IF x \in DOMAIN f THEN f[x] ELSE 0) + 1
  OBVIOUS
<1>3. \A k \in DOMAIN g : g[k] \in Nat
  BY <1>1, <1>2
<1>4. IsFiniteSet(DOMAIN g)
  BY <1>1, FS_AddElement
<1>5. /\ SumOver(f, S) \in Nat /\ IsFiniteSet(Units(S, f))
      /\ SumOver(f, S) = Cardinality(Units(S, f))
  BY SumOfEvent
<1>6. /\ SumOver(g, T) \in Nat /\ IsFiniteSet(Units(T, g))
      /\ SumOver(g, T) = Cardinality(Units(T, g))
  BY <1>3, <1>4, SumOfEvent
<1>7. CASE x.event # e
  <2>1. T = S /\ \A k \in S : g[k] = f[k]
    BY <1>1, <1>2, <1>7 DEF KeysOf
  <2> HIDE DEF S, T
  <2>2. Units(T, g) = Units(S, f)
    BY <2>1 DEF Units
  <2> QED
    BY <1>5, <1>6, <1>7, <2>2 DEF One, S, T
<1>8. CASE x.event = e /\ x \in DOMAIN f
  <2>1. T = S /\ x \in S /\ (\A k \in S : k # x => g[k] = f[k]) /\ g[x] = f[x] + 1 /\ f[x] \in Nat
    BY <1>1, <1>2, <1>8 DEF KeysOf
  <2> HIDE DEF S, T
  <2>2. /\ IsFiniteSet(Units(S, g))
        /\ Cardinality(Units(S, f)) \in Nat
        /\ Cardinality(Units(S, g)) = (Cardinality(Units(S, f)) - f[x]) + g[x]
    <3>1. /\ x \in S /\ \A u \in S : u # x => g[u] = f[u]
          /\ f[x] \in Nat /\ g[x] \in Nat /\ IsFiniteSet(Units(S, f))
      BY <1>5, <2>1
    <3> QED
      BY <3>1, UnitsChange
  <2>3. Cardinality(Units(S, g)) = Cardinality(Units(S, f)) + 1
    BY <2>1, <2>2
  <2> QED
    BY <1>5, <1>6, <1>8, <2>1, <2>3 DEF One, S, T
<1>9. CASE x.event = e /\ x \notin DOMAIN f
  <2>1. T = S \cup {x} /\ x \notin S /\ (\A k \in S : g[k] = f[k]) /\ g[x] = 1
    BY <1>1, <1>2, <1>9 DEF KeysOf
  <2> HIDE DEF S, T
  <2>2. Units(S, g) = Units(S, f)
    BY <2>1 DEF Units
  <2>3. IsFiniteSet(Units(S, g)) /\ g[x] \in Nat
    BY <1>5, <2>1, <2>2
  <2>4. Cardinality(Units(S \cup {x}, g)) = Cardinality(Units(S, g)) + g[x]
    BY <2>1, <2>3, UnitsAdd
  <2>5. Cardinality(Units(T, g)) = Cardinality(Units(S, f)) + 1
    BY <2>1, <2>2, <2>4
  <2> QED
    BY <1>5, <1>6, <1>9, <2>5 DEF One, S, T
<1> QED
  BY <1>7, <1>8, <1>9

(* The records of an event among some. *)
LEMMA WaitingAppended ==
  ASSUME NEW q \in Seq(AnyRecord), NEW r \in AnyRecord, NEW e
  PROVE  /\ Waiting(e, q) \in Nat
         /\ Waiting(e, Append(q, r)) = Waiting(e, q) + One(e, Event(r))
<1> DEFINE n == Len(q)
           Q == Append(q, r)
           S == {i \in DOMAIN q : Event(q[i]) = e}
           T == {i \in DOMAIN Q : Event(Q[i]) = e}
<1>1. n \in Nat /\ DOMAIN q = 1..n
  BY LenProperties
<1>2. DOMAIN Q = 1..(n+1) /\ (\A i \in 1..n : Q[i] = q[i]) /\ Q[n+1] = r
  <2>1. Q \in Seq(AnyRecord) /\ Len(Q) = n + 1 /\ (\A i \in 1..n : Q[i] = q[i]) /\ Q[n+1] = r
    BY AppendProperties
  <2> QED
    BY <2>1, LenProperties
<1>3. IsFiniteSet(S)
  <2>1. S \subseteq 1..n /\ IsFiniteSet(1..n)
    BY <1>1, FS_Interval
  <2> QED
    BY <2>1, FS_Subset
<1>4. Cardinality(S) \in Nat
  BY <1>3, FS_CardinalityType
<1> HIDE DEF Q, n
<1>5. CASE Event(r) = e
  <2>1. T = S \cup {n + 1} /\ n + 1 \notin S
    BY <1>1, <1>2, <1>5
  <2> HIDE DEF S, T
  <2>2. Cardinality(S \cup {n + 1}) = Cardinality(S) + 1
    BY <1>3, <2>1, FS_AddElement
  <2> QED
    BY <1>4, <1>5, <2>1, <2>2 DEF Waiting, One, S, T, Q
<1>6. CASE Event(r) # e
  <2>1. T = S
    BY <1>1, <1>2, <1>6
  <2> HIDE DEF S, T
  <2>2. One(e, Event(r)) = 0 /\ Cardinality(S) + 0 = Cardinality(S)
    BY <1>4, <1>6 DEF One
  <2>3. Waiting(e, q) = Cardinality(S) /\ Waiting(e, Append(q, r)) = Cardinality(T)
    BY DEF Waiting, S, T, Q
  <2> QED
    BY <1>4, <2>1, <2>2, <2>3
<1> QED
  BY <1>5, <1>6

(* Nothing waits where there is nothing.                                   *)
LEMMA WaitingEmpty ==
  ASSUME NEW e
  PROVE  Waiting(e, <<>>) = 0
<1>1. {i \in DOMAIN <<>> : Event(<<>>[i]) = e} = {}
  OBVIOUS
<1>2. Waiting(e, <<>>) = Cardinality({})
  BY <1>1 DEF Waiting
<1> QED
  BY <1>2, FS_EmptySet, Zenon

(* The rest of a batch, by the places it has in the batch. *)
LEMMA WaitingRest ==
  ASSUME NEW b \in Seq(AnyRecord), NEW a \in 1..(Len(b) + 1), NEW e
  PROVE  LET S == {i \in a..Len(b) : Event(b[i]) = e}
         IN  IsFiniteSet(S) /\ Waiting(e, SubSeq(b, a, Len(b))) = Cardinality(S)
<1> DEFINE n == Len(b)
           S == {i \in a..n : Event(b[i]) = e}
           s == SubSeq(b, a, n)
           T == {i \in DOMAIN s : Event(s[i]) = e}
<1>1. n \in Nat /\ a \in Nat /\ \A i \in a..n : b[i] \in AnyRecord
  BY LenProperties, ElementOfSeq
<1>2. /\ s \in Seq(AnyRecord) /\ Len(s) = IF a <= n THEN n - a + 1 ELSE 0
      /\ \A i \in 1..(n - a + 1) : s[i] = b[a + i - 1]
  BY <1>1, SubSeqProperties
<1>3. DOMAIN s = 1..(n - a + 1)
  BY <1>1, <1>2, LenProperties
<1>4. IsFiniteSet(S)
  <2>1. S \subseteq a..n /\ IsFiniteSet(a..n)
    BY <1>1, FS_Interval
  <2> QED
    BY <2>1, FS_Subset
<1> HIDE DEF n, s
<1> DEFINE h == [i \in S |-> i - a + 1]
<1>5. \A i \in S : /\ i - a + 1 \in 1..(n - a + 1) /\ a + (i - a + 1) - 1 = i
                   /\ s[i - a + 1] = b[i]
  <2>1. ASSUME NEW i \in S PROVE i - a + 1 \in 1..(n - a + 1) /\ a + (i - a + 1) - 1 = i
    BY <1>1
  <2> QED
    BY <1>2, <2>1
<1>6. h \in [S -> T]
  BY <1>3, <1>5
<1>7. IsInjective(h)
  <2>1. ASSUME NEW i \in S, NEW j \in S, h[i] = h[j] PROVE i = j
    BY <1>1, <2>1
  <2> QED
    BY <2>1 DEF IsInjective
<1>8. ASSUME NEW j \in T PROVE \E i \in S : h[i] = j
  <2> DEFINE i == a + j - 1
  <2>1. j \in 1..(n - a + 1) /\ s[j] = b[i] /\ Event(s[j]) = e
    BY <1>2, <1>3, <1>8
  <2>2. i \in a..n /\ i - a + 1 = j
    BY <1>1, <2>1
  <2>3. i \in S
    BY <2>1, <2>2
  <2> QED
    BY <2>2, <2>3
<1> HIDE DEF S, T, h
<1>9. h \in Injection(S, T) /\ h \in Surjection(S, T)
  BY <1>6, <1>7, <1>8 DEF Injection, Surjection
<1>10. ExistsBijection(S, T)
  BY <1>9 DEF ExistsBijection, Bijection
<1>11. Cardinality(T) = Cardinality(S)
  BY <1>4, <1>10, FS_Bijection
<1> QED
  BY <1>4, <1>11 DEF Waiting, S, T, s, n

(* One record less of the batch. *)
LEMMA WaitingCounted ==
  ASSUME NEW b \in Seq(AnyRecord), NEW a \in 1..Len(b), NEW e
  PROVE  /\ Waiting(e, SubSeq(b, a + 1, Len(b))) \in Nat
         /\ Waiting(e, SubSeq(b, a, Len(b)))
              = Waiting(e, SubSeq(b, a + 1, Len(b))) + One(e, Event(b[a]))
<1> DEFINE n == Len(b)
           S == {i \in a..n : Event(b[i]) = e}
           T == {i \in (a+1)..n : Event(b[i]) = e}
<1>1. n \in Nat /\ a \in 1..n
  BY LenProperties
<1>2. a \in 1..(n+1) /\ a + 1 \in 1..(n+1) /\ a..n = ((a+1)..n) \cup {a} /\ a \notin (a+1)..n
  BY <1>1
<1>3. IsFiniteSet(S) /\ Waiting(e, SubSeq(b, a, n)) = Cardinality(S)
  BY <1>2, WaitingRest
<1>4. IsFiniteSet(T) /\ Waiting(e, SubSeq(b, a + 1, n)) = Cardinality(T)
  <2> DEFINE c == a + 1
  <2>1. c \in 1..(Len(b) + 1)
    BY <1>2
  <2> HIDE DEF c
  <2>2. IsFiniteSet({i \in c..Len(b) : Event(b[i]) = e})
        /\ Waiting(e, SubSeq(b, c, Len(b))) = Cardinality({i \in c..Len(b) : Event(b[i]) = e})
    BY <2>1, WaitingRest
  <2> QED
    BY <2>2 DEF c
<1>5. Cardinality(T) \in Nat
  BY <1>4, FS_CardinalityType
<1>6. Cardinality(S) = Cardinality(T) + One(e, Event(b[a]))
  <2>1. CASE Event(b[a]) = e
    <3>1. S = T \cup {a} /\ a \notin T
      BY <1>2, <2>1
    <3> HIDE DEF S, T
    <3>2. Cardinality(T \cup {a}) = Cardinality(T) + 1
      BY <1>4, <3>1, FS_AddElement
    <3> QED
      BY <2>1, <3>1, <3>2 DEF One
  <2>2. CASE Event(b[a]) # e
    <3>1. S = T
      BY <1>2, <2>2
    <3> HIDE DEF S, T
    <3> QED
      BY <1>5, <2>2, <3>1 DEF One
  <2> QED
    BY <2>1, <2>2
<1> QED
  BY <1>3, <1>4, <1>5, <1>6

-----------------------------------------------------------------------------
AnyEvent == [tenant : Tenants, name : Names]
Counted == {e \in AnyEvent : e.name # "none"}

(* Where an event is found: counted by the server, in the map, or in a     *)
(* record that was not counted yet.                                        *)
Uncounted == IF pc = "counting" THEN SubSeq(batch, at, Len(batch)) ELSE <<>>
Found(e) == received[e] + CountOf(e) + Waiting(e, queue) + Waiting(e, Uncounted)

CountsInv ==
  /\ owed \in [AnyEvent -> Int] /\ received \in [AnyEvent -> Nat]
  /\ \A e \in Counted : Found(e) >= owed[e] /\ (e \notin repeated => Found(e) = owed[e])

(* CountedOnce is about what is found of the events that count.            *)
LEMMA CountsInvImplies == CountsInv => CountedOnce
BY DEF CountsInv, CountedOnce, Found, Uncounted, Counted

(* What is counted of an event, as the sum the lemmas are about. *)
LEMMA CountIsSum == \A e : CountOf(e) = SumOver(countersMap, KeysOf(countersMap, e))
BY DEF CountOf, SumOver, KeysOf

(* The same of the next state.                                             *)
LEMMA CountIsSumNext == (\A e : CountOf(e) = SumOver(countersMap, KeysOf(countersMap, e)))'
BY CountIsSum, PTL

(* What is counted of an event changes only with the map.                  *)
LEMMA CountOfKept ==
  ASSUME UNCHANGED countersMap, NEW e
  PROVE  CountOf(e)' = CountOf(e)
BY CountIsSum, CountIsSumNext

(* All of these are numbers. *)
LEMMA FoundIsNumber ==
  ASSUME Inv, KeysInv, StepsInv, NEW e
  PROVE  /\ CountOf(e) \in Nat /\ Waiting(e, queue) \in Nat /\ Waiting(e, Uncounted) \in Nat
         /\ CountOf(e) = SumOver(countersMap, KeysOf(countersMap, e))
         /\ (\A k \in DOMAIN countersMap : k.event # e) => CountOf(e) = 0
<1>1. IsFiniteSet(DOMAIN countersMap) /\ \A k \in DOMAIN countersMap : countersMap[k] \in Nat
  BY DEF Inv, CountersInv, KeysInv
<1>2. CountOf(e) = SumOver(countersMap, KeysOf(countersMap, e))
  BY DEF CountOf, SumOver, KeysOf
<1>3. /\ SumOver(countersMap, KeysOf(countersMap, e)) \in Nat
      /\ SumOver(countersMap, KeysOf(countersMap, e))
           = Cardinality(Units(KeysOf(countersMap, e), countersMap))
  <2>1. PICK f : f = countersMap
    OBVIOUS
  <2>2. /\ SumOver(f, KeysOf(f, e)) \in Nat
        /\ SumOver(f, KeysOf(f, e)) = Cardinality(Units(KeysOf(f, e), f))
    BY <1>1, <2>1, SumOfEvent
  <2> QED
    BY <2>1, <2>2
<1>4. ASSUME \A k \in DOMAIN countersMap : k.event # e PROVE CountOf(e) = 0
  <2>1. Units(KeysOf(countersMap, e), countersMap) = {}
    BY <1>4 DEF KeysOf, Units
  <2> QED
    BY <1>2, <1>3, <2>1, FS_EmptySet
<1>5. queue \in Seq(AnyRecord) /\ Uncounted \in Seq(AnyRecord)
  <2>1. queue \in Seq(AnyRecord) /\ batch \in Seq(AnyRecord)
    BY DEF Inv, TimesInv
  <2>2. /\ Len(batch) \in Nat /\ at \in 1..(Len(batch) + 1)
        /\ \A i \in 1..Len(batch) : batch[i] \in AnyRecord
    BY <2>1, LenProperties, ElementOfSeq DEF StepsInv
  <2>3. SubSeq(batch, at, Len(batch)) \in Seq(AnyRecord)
    BY <2>2, SubSeqProperties
  <2> QED
    BY <2>1, <2>3, EmptySeq DEF Uncounted
<1>6. \A q \in Seq(AnyRecord) : Waiting(e, q) \in Nat
  <2>1. ASSUME NEW q \in Seq(AnyRecord) PROVE Waiting(e, q) \in Nat
    <3>1. DOMAIN q = 1..Len(q) /\ Len(q) \in Nat
      BY LenProperties
    <3>2. IsFiniteSet(DOMAIN q)
      BY <3>1, FS_Interval
    <3> DEFINE S == {i \in DOMAIN q : Event(q[i]) = e}
    <3>3. IsFiniteSet(S)
      BY <3>2, FS_Subset
    <3> QED
      BY <3>3, FS_CardinalityType DEF Waiting
  <2> QED
    BY <2>1
<1>7. Waiting(e, queue) \in Nat /\ Waiting(e, Uncounted) \in Nat
  BY <1>5, <1>6
<1> QED
  BY <1>2, <1>3, <1>4, <1>7

(* Steps by which as much is found as is owed. *)
LEMMA CountsSettled ==
  ASSUME CountsInv, owed' \in [AnyEvent -> Int], received' \in [AnyEvent -> Nat],
         UNCHANGED repeated,
         \A e \in Counted : /\ Found(e) \in Int
                            /\ \E d \in Int : Found(e)' = Found(e) + d /\ owed'[e] = owed[e] + d
  PROVE  CountsInv'
<1>1. ASSUME NEW e \in Counted
      PROVE  Found(e)' >= owed'[e] /\ (e \notin repeated' => Found(e)' = owed'[e])
  <2>1. PICK d \in Int : Found(e)' = Found(e) + d /\ owed'[e] = owed[e] + d
    OBVIOUS
  <2>2. Found(e) \in Int /\ owed[e] \in Int
    BY DEF CountsInv, Counted
  <2>3. Found(e) >= owed[e] /\ (e \notin repeated' => Found(e) = owed[e])
    BY DEF CountsInv
  <2> QED
    BY <2>1, <2>2, <2>3
<1> QED
  BY <1>1 DEF CountsInv

(* So is what is found of an event, and what is owed.                      *)
LEMMA FoundType ==
  ASSUME Inv, KeysInv, StepsInv, CountsInv, NEW e \in Counted
  PROVE  Found(e) \in Nat /\ received[e] \in Nat /\ owed[e] \in Int
<1>1. received[e] \in Nat /\ owed[e] \in Int
  BY DEF CountsInv, Counted
<1>2. CountOf(e) \in Nat /\ Waiting(e, queue) \in Nat /\ Waiting(e, Uncounted) \in Nat
  BY FoundIsNumber
<1> QED
  BY <1>1, <1>2 DEF Found

(* Steps that count nothing: where everything is found stays as it is. *)
LEMMA NothingCounted ==
  ASSUME Inv, KeysInv, StepsInv, CountsInv,
         UNCHANGED <<queue, countersMap, received, owed, repeated>>,
         \A e \in Counted : Waiting(e, Uncounted)' = Waiting(e, Uncounted)
  PROVE  CountsInv'
<1>1. \A e \in Counted : CountOf(e)' = CountOf(e) /\ Waiting(e, queue)' = Waiting(e, queue)
  BY CountOfKept
<1>2. \A e \in Counted : Found(e)' = Found(e)
  BY <1>1 DEF Found
<1> QED
  BY <1>2 DEF CountsInv

(* An event that is logged is owed, and waits in the queue.                *)
LEMMA LogKeepsCounts ==
  ASSUME Inv, KeysInv, StepsInv, CountsInv, NEW v \in Events, Log(v)
  PROVE  CountsInv'
<1> DEFINE r == [id |-> logged + 1, time |-> clock, tenant |-> v.tenant, name |-> v.name]
<1>1. /\ queue' = Append(queue, r)
      /\ owed' = IF v.name = "none" THEN owed ELSE [owed EXCEPT ![Event(v)] = @ + 1]
      /\ UNCHANGED <<pc, batch, at, countersMap, received, repeated>>
  BY DEF Log, goroutine, counters, server
<1>2. r \in AnyRecord /\ queue \in Seq(AnyRecord)
  BY DEF Inv, TimesInv, AnyRecord, Tenants, Names
<1>3. Event(r) = Event(v) /\ Event(v).name = v.name
  BY DEF Event, TenantOf
<1>4. Event(v) \in AnyEvent
  <2>1. v.name \in Names /\ TenantOf(v) \in Tenants
    BY DEF Names, TenantOf, Tenants
  <2> QED
    BY <2>1 DEF Event, AnyEvent
<1> HIDE DEF r
<1>5. owed' \in [AnyEvent -> Int]
  BY <1>1, <1>4 DEF CountsInv
<1>6. ASSUME NEW e \in Counted
      PROVE  /\ Found(e) \in Int
             /\ \E d \in Int : Found(e)' = Found(e) + d /\ owed'[e] = owed[e] + d
  <2> DEFINE d == One(e, Event(v))
  <2>1. Found(e) \in Nat /\ received[e] \in Nat /\ owed[e] \in Int
    BY FoundType
  <2>2. CountOf(e) \in Nat /\ Waiting(e, queue) \in Nat /\ Waiting(e, Uncounted) \in Nat
    BY FoundIsNumber
  <2>3. Waiting(e, queue') = Waiting(e, queue) + d
    <3>1. PICK q : q = queue
      OBVIOUS
    <3>2. PICK x : x = r
      OBVIOUS
    <3>3. Waiting(e, Append(q, x)) = Waiting(e, q) + One(e, Event(x))
      BY <1>2, <3>1, <3>2, WaitingAppended
    <3> QED
      BY <1>1, <1>3, <3>1, <3>2, <3>3
  <2>4. CountOf(e)' = CountOf(e) /\ Waiting(e, Uncounted)' = Waiting(e, Uncounted)
        /\ Waiting(e, queue)' = Waiting(e, queue')
    BY <1>1, CountOfKept DEF Uncounted
  <2>5. d \in Int
    BY DEF One
  <2>6. owed'[e] = owed[e] + d
    <3>1. CASE Event(v) = e
      <4>1. v.name # "none"
        BY <1>3, <3>1 DEF Counted
      <4> QED
        BY <1>1, <1>4, <3>1, <4>1 DEF One, CountsInv
    <3>2. CASE Event(v) # e
      <4>1. owed'[e] = owed[e] /\ d = 0
        BY <1>1, <3>2 DEF One, CountsInv, Counted
      <4> QED
        BY <2>1, <4>1
    <3> QED
      BY <3>1, <3>2
  <2> HIDE DEF d
  <2>7. Found(e)' = Found(e) + d
    BY <1>1, <2>1, <2>2, <2>3, <2>4, <2>5 DEF Found
  <2> QED
    BY <2>1, <2>5, <2>6, <2>7
<1>7. received' \in [AnyEvent -> Nat] /\ repeated' = repeated
  BY <1>1 DEF CountsInv
<1> QED
  BY <1>5, <1>6, <1>7, CountsSettled

(* What waited in the queue is now to be counted.                          *)
LEMMA WakeKeepsCounts ==
  ASSUME Inv, KeysInv, StepsInv, CountsInv, NEW why, Wake(why)
  PROVE  CountsInv'
<1>1. /\ pc = "waiting" /\ pc' = "counting" /\ at' = 1 /\ batch' = queue /\ queue' = <<>>
      /\ UNCHANGED <<countersMap, received, owed, repeated>>
  BY DEF Wake, counters, server, history
<1>2. Uncounted = <<>> /\ Uncounted' = queue
  <2>1. SubSeq(queue, 1, Len(queue)) = queue
    BY SubSeqFull DEF Inv, TimesInv
  <2> QED
    BY <1>1, <2>1 DEF Uncounted
<1>3. ASSUME NEW e \in Counted PROVE Found(e)' = Found(e)
  <2>1. CountOf(e) \in Nat /\ Waiting(e, queue) \in Nat /\ Waiting(e, <<>>) = 0
    BY FoundIsNumber, WaitingEmpty
  <2>2. CountOf(e)' = CountOf(e) /\ Waiting(e, queue)' = 0 /\ Waiting(e, Uncounted)' = Waiting(e, queue)
    BY <1>1, <1>2, <2>1, CountOfKept
  <2>3. received[e] \in Nat
    BY FoundType
  <2> QED
    BY <1>1, <1>2, <2>1, <2>2, <2>3 DEF Found
<1> QED
  BY <1>1, <1>3 DEF CountsInv

(* A record leaves the batch for the map, or is no longer owed. *)
LEMMA CountKeepsCounts ==
  ASSUME Inv, KeysInv, StepsInv, CountsInv, CountRecord
  PROVE  CountsInv'
<1> DEFINE r == batch[at]
<1>1. /\ pc = "counting" /\ at' = at + 1
      /\ UNCHANGED <<pc, batch, queue, received, repeated>>
  BY DEF CountRecord, input, server
<1>2. at \in 1..Len(batch) /\ batch \in Seq(AnyRecord)
  <2>1. batch \in Seq(AnyRecord) /\ at \in Nat \ {0} /\ at <= Len(batch)
    BY DEF CountRecord, Inv, TimesInv
  <2> QED
    BY <2>1, LenProperties
<1>3. r \in AnyRecord
  BY <1>2, ElementOfSeq
<1>4. Event(r) \in AnyEvent /\ Event(r).name = r.name
  <2>1. r.name \in Names /\ TenantOf(r) \in Tenants
    BY <1>3, TenantOfRecord DEF AnyRecord
  <2> QED
    BY <2>1 DEF Event, AnyEvent
<1> HIDE DEF r
<1>5. ASSUME NEW e \in Counted
      PROVE  /\ Waiting(e, queue)' = Waiting(e, queue)
             /\ Waiting(e, Uncounted)' \in Nat
             /\ Waiting(e, Uncounted) = Waiting(e, Uncounted)' + One(e, Event(r))
  <2>0. PICK b \in Seq(AnyRecord) : b = batch
    BY <1>2
  <2>1. PICK a \in 1..Len(b) : b = batch /\ a = at
    BY <1>2, <2>0
  <2>2. /\ Waiting(e, SubSeq(b, a + 1, Len(b))) \in Nat
        /\ Waiting(e, SubSeq(b, a, Len(b)))
             = Waiting(e, SubSeq(b, a + 1, Len(b))) + One(e, Event(b[a]))
    BY WaitingCounted
  <2>3. Uncounted = SubSeq(b, a, Len(b)) /\ Uncounted' = SubSeq(b, a + 1, Len(b))
    BY <1>1, <2>1 DEF Uncounted
  <2> QED
    BY <1>1, <2>1, <2>2, <2>3 DEF r
<1>6. received' \in [AnyEvent -> Nat]
  BY <1>1 DEF CountsInv
<1>7. CASE Counts(r) /\ Increment(r) /\ UNCHANGED owed
  <2> DEFINE x == Key(r)
  <2>1. countersMap' = [k \in DOMAIN countersMap \cup {x} |->
                          (IF k \in DOMAIN countersMap THEN countersMap[k] ELSE 0)
                            + (IF k = x THEN 1 ELSE 0)]
    BY <1>7 DEF Increment
  <2>2. x.event = Event(r)
    BY DEF Key
  <2>3. IsFiniteSet(DOMAIN countersMap) /\ \A k \in DOMAIN countersMap : countersMap[k] \in Nat
    BY DEF Inv, CountersInv, KeysInv
  <2> HIDE DEF x
  <2>4. /\ DOMAIN countersMap' = DOMAIN countersMap \cup {x}
        /\ \A k \in DOMAIN countersMap : k # x => countersMap'[k] = countersMap[k]
        /\ countersMap'[x] = (IF x \in DOMAIN countersMap THEN countersMap[x] ELSE 0) + 1
    BY <2>1, <2>3
  <2>5. PICK f, g, y : f = countersMap /\ g = countersMap' /\ y = x
    OBVIOUS
  <2>6. ASSUME NEW e \in Counted
        PROVE  /\ Found(e) \in Int
               /\ \E d \in Int : Found(e)' = Found(e) + d /\ owed'[e] = owed[e] + d
    <3>1. SumOver(g, KeysOf(g, e)) = SumOver(f, KeysOf(f, e)) + One(e, y.event)
      BY <2>3, <2>4, <2>5, SumIncremented
    <3>2. CountOf(e)' = SumOver(g, KeysOf(g, e))
      BY <2>5, CountIsSumNext
    <3>3. CountOf(e) = SumOver(f, KeysOf(f, e)) /\ CountOf(e) \in Nat
          /\ Waiting(e, queue) \in Nat /\ Waiting(e, Uncounted) \in Nat
      BY <2>5, FoundIsNumber
    <3>4. CountOf(e)' = CountOf(e) + One(e, Event(r))
      BY <2>2, <2>5, <3>1, <3>2, <3>3
    <3>5. Found(e) \in Nat /\ received[e] \in Nat /\ owed[e] \in Int
      BY FoundType
    <3>6. One(e, Event(r)) \in Int
      BY DEF One
    <3>7. Found(e)' = Found(e)
      BY <1>1, <1>5, <3>3, <3>4, <3>5, <3>6 DEF Found
    <3>8. Found(e)' = Found(e) + 0 /\ owed'[e] = owed[e] + 0
      BY <1>7, <3>5, <3>7
    <3> QED
      BY <3>5, <3>8
  <2>7. owed' \in [AnyEvent -> Int] /\ repeated' = repeated
    BY <1>1, <1>7 DEF CountsInv
  <2> QED
    BY <1>6, <2>6, <2>7, CountsSettled
<1>8. CASE /\ ~Counts(r) /\ UNCHANGED counters
           /\ owed' = IF r.name = "none" THEN owed ELSE [owed EXCEPT ![Event(r)] = @ - 1]
  <2>1. countersMap' = countersMap
    BY <1>8 DEF counters
  <2>2. ASSUME NEW e \in Counted
        PROVE  /\ Found(e) \in Int
               /\ \E d \in Int : Found(e)' = Found(e) + d /\ owed'[e] = owed[e] + d
    <3> DEFINE d == -One(e, Event(r))
    <3>1. CountOf(e)' = CountOf(e) /\ CountOf(e) \in Nat
          /\ Waiting(e, queue) \in Nat /\ Waiting(e, Uncounted) \in Nat
      BY <2>1, FoundIsNumber, CountOfKept
    <3>2. Found(e) \in Nat /\ received[e] \in Nat /\ owed[e] \in Int
      BY FoundType
    <3>3. d \in Int /\ One(e, Event(r)) \in Int
      BY DEF One
    <3>4. Found(e)' = Found(e) + d
      BY <1>1, <1>5, <3>1, <3>2, <3>3 DEF Found
    <3>5. owed'[e] = owed[e] + d
      <4>1. CASE Event(r) = e
        <5>1. r.name # "none"
          BY <1>4, <4>1 DEF Counted
        <5>2. owed'[e] = owed[e] - 1
          BY <1>4, <1>8, <4>1, <5>1 DEF CountsInv
        <5> QED
          BY <3>2, <4>1, <5>2 DEF One
      <4>2. CASE Event(r) # e
        <5>1. owed'[e] = owed[e]
          BY <1>8, <4>2 DEF CountsInv, Counted
        <5>2. One(e, Event(r)) = 0
          BY <4>2 DEF One
        <5> QED
          BY <3>2, <5>1, <5>2
      <4> QED
        BY <4>1, <4>2
    <3> HIDE DEF d
    <3> QED
      BY <3>2, <3>3, <3>4, <3>5
  <2>3. owed' \in [AnyEvent -> Int] /\ repeated' = repeated
    BY <1>1, <1>4, <1>8 DEF CountsInv
  <2> QED
    BY <1>6, <2>2, <2>3, CountsSettled
<1> QED
  BY <1>7, <1>8 DEF CountRecord, r

(* A batch is stored once all of it is counted. *)
LEMMA StoreKeepsCounts ==
  ASSUME Inv, KeysInv, StepsInv, CountsInv, StoreMessages
  PROVE  CountsInv'
<1>1. /\ pc = "counting" /\ pc' = "events" /\ at > Len(batch)
      /\ UNCHANGED <<queue, countersMap, received, owed, repeated>>
  BY DEF StoreMessages, input, counters, server, history
<1>2. Len(batch) \in Nat /\ at \in Nat
  <2>1. batch \in Seq(AnyRecord) /\ at \in Nat
    BY DEF Inv, TimesInv
  <2> QED
    BY <2>1, LenProperties
<1>3. Uncounted = <<>> /\ Uncounted' = <<>>
  <2>1. SubSeq(batch, at, Len(batch)) = <<>>
    BY <1>1, <1>2, SubSeqEmpty
  <2> QED
    BY <1>1, <2>1 DEF Uncounted
<1>4. \A e \in Counted : Waiting(e, Uncounted)' = Waiting(e, Uncounted)
  BY <1>3
<1> QED
  BY <1>1, <1>4, NothingCounted

(* Steps outside the counting. *)
LEMMA NotCounting ==
  ASSUME pc # "counting", pc' # "counting"
  PROVE  Uncounted = <<>> /\ Uncounted' = <<>>
BY DEF Uncounted

(* An empty map counts nothing.                                            *)
LEMMA NoKeysNoCount == \A e : SumOver(NoKeys, KeysOf(NoKeys, e)) = 0
<1> TAKE e
<1>1. DOMAIN NoKeys = {}
  BY DEF NoKeys
<1>2. IsFiniteSet(DOMAIN NoKeys) /\ \A k \in DOMAIN NoKeys : NoKeys[k] \in Nat
  BY <1>1, FS_EmptySet
<1> DEFINE f == NoKeys
<1> HIDE DEF f
<1>3. DOMAIN f = {} /\ IsFiniteSet(DOMAIN f) /\ \A k \in DOMAIN f : f[k] \in Nat
  BY <1>1, <1>2 DEF f
<1>4. SumOver(f, KeysOf(f, e)) = Cardinality(Units(KeysOf(f, e), f))
  BY <1>3, SumOfEvent
<1>5. Units(KeysOf(f, e), f) = {}
  BY <1>3 DEF KeysOf, Units
<1>6. SumOver(f, KeysOf(f, e)) = 0
  BY <1>4, <1>5, FS_EmptySet
<1> QED
  BY <1>6 DEF f

(* What is posted is counted by the server. *)
LEMMA ServerCountsType ==
  ASSUME Inv, KeysInv, StepsInv, CountsInv, ServerCounts
  PROVE  /\ received' \in [AnyEvent -> Nat]
         /\ \A e \in Counted : received'[e] = received[e] + CountOf(e)
<1>1. received \in [AnyEvent -> Nat] /\ DOMAIN received = AnyEvent
  BY DEF CountsInv
<1>2. \A e \in AnyEvent : CountOf(e) \in Nat
  BY FoundIsNumber
<1>3. received' = [e \in DOMAIN received |-> received[e] + CountOf(e)]
  BY DEF ServerCounts
<1> QED
  BY <1>1, <1>2, <1>3 DEF Counted

(* What was in the map is counted by the server instead.                   *)
LEMMA AcceptedKeepsCounts ==
  ASSUME Inv, KeysInv, StepsInv, CountsInv, EventsAccepted
  PROVE  CountsInv'
<1>1. /\ pc # "counting" /\ pc' # "counting" /\ countersMap' = NoKeys
      /\ UNCHANGED <<queue, owed, repeated>> /\ ServerCounts
  BY DEF EventsAccepted, PostsEvents, EventsDue, AfterEvents, input, history
<1>2. Uncounted = <<>> /\ Uncounted' = <<>>
  BY <1>1, NotCounting
<1>3. /\ received' \in [AnyEvent -> Nat]
      /\ \A e \in Counted : received'[e] = received[e] + CountOf(e)
  BY <1>1, ServerCountsType
<1>4. ASSUME NEW e \in Counted PROVE Found(e)' = Found(e)
  <2>1. CountOf(e)' = 0
    <3>1. CountOf(e)' = SumOver(countersMap', KeysOf(countersMap', e))
      BY CountIsSumNext
    <3> QED
      BY <1>1, <3>1, NoKeysNoCount
  <2>2. Waiting(e, queue)' = Waiting(e, queue) /\ Waiting(e, Uncounted)' = Waiting(e, Uncounted)
    BY <1>1, <1>2
  <2>3. CountOf(e) \in Nat /\ Waiting(e, queue) \in Nat /\ Waiting(e, Uncounted) \in Nat
    BY FoundIsNumber
  <2>4. received[e] \in Nat /\ received'[e] = received[e] + CountOf(e)
    BY <1>3, FoundType
  <2> QED
    BY <2>1, <2>2, <2>3, <2>4 DEF Found
<1> QED
  BY <1>1, <1>3, <1>4 DEF CountsInv

(* What could not be posted is still in the map; what the server counted   *)
(* all the same will be counted again.                                     *)
LEMMA FailedKeepsCounts ==
  ASSUME Inv, KeysInv, StepsInv, CountsInv, EventsFailed
  PROVE  CountsInv'
<1>1. /\ pc # "counting" /\ pc' # "counting"
      /\ UNCHANGED <<queue, countersMap, owed>>
  BY DEF EventsFailed, PostsEvents, EventsDue, AfterEvents, input, counters
<1>2. Uncounted = <<>> /\ Uncounted' = <<>>
  BY <1>1, NotCounting
<1>3. CASE UNCHANGED <<received, repeated>>
  BY <1>1, <1>2, <1>3, NothingCounted
<1>4. CASE /\ repeated = {} /\ ServerCounts
           /\ repeated' = repeated \cup {k.event : k \in DOMAIN countersMap}
  <2>1. /\ received' \in [AnyEvent -> Nat]
        /\ \A e \in Counted : received'[e] = received[e] + CountOf(e)
    BY <1>4, ServerCountsType
  <2>2. ASSUME NEW e \in Counted
        PROVE  Found(e)' >= owed'[e] /\ (e \notin repeated' => Found(e)' = owed'[e])
    <3>1. CountOf(e) \in Nat /\ Waiting(e, queue) \in Nat /\ Waiting(e, Uncounted) \in Nat
      BY FoundIsNumber
    <3>2. /\ Found(e) \in Nat /\ received[e] \in Nat /\ owed[e] \in Int
          /\ received'[e] = received[e] + CountOf(e)
      BY <2>1, FoundType
    <3>3. CountOf(e)' = CountOf(e)
      BY <1>1, CountOfKept
    <3>4. Waiting(e, queue)' = Waiting(e, queue) /\ Waiting(e, Uncounted)' = Waiting(e, Uncounted)
      BY <1>1, <1>2
    <3>5. Found(e)' = Found(e) + CountOf(e)
      BY <3>1, <3>2, <3>3, <3>4 DEF Found
    <3>6. Found(e) = owed[e]
      BY <1>4 DEF CountsInv
    <3>7. e \notin repeated' => CountOf(e) = 0
      <4>1. e \notin repeated' => \A k \in DOMAIN countersMap : k.event # e
        BY <1>4
      <4> QED
        BY <4>1, FoundIsNumber
    <3>8. owed'[e] = owed[e]
      BY <1>1
    <3> QED
      BY <3>1, <3>2, <3>5, <3>6, <3>7, <3>8
  <2>3. owed' \in [AnyEvent -> Int]
    BY <1>1 DEF CountsInv
  <2> QED
    BY <2>1, <2>2, <2>3 DEF CountsInv
<1> QED
  BY <1>3, <1>4 DEF EventsFailed

(* Every step leaves what is found of an event equal to what is owed, or   *)
(* more where a reply was lost.                                            *)
LEMMA CountsKept ==
  Inv /\ KeysInv /\ StepsInv /\ CountsInv /\ [Next]_vars => CountsInv'
<1> SUFFICES ASSUME Inv, KeysInv, StepsInv, CountsInv, [Next]_vars PROVE CountsInv'
  OBVIOUS
<1>1. ASSUME UNCHANGED <<queue, countersMap, received, owed, repeated>>,
             UNCHANGED <<pc, batch, at>> \/ (pc # "counting" /\ pc' # "counting")
      PROVE  CountsInv'
  <2>1. Uncounted' = Uncounted
    BY <1>1, NotCounting DEF Uncounted
  <2>2. \A e \in Counted : Waiting(e, Uncounted)' = Waiting(e, Uncounted)
    BY <2>1
  <2> QED
    BY <1>1, <2>2, NothingCounted
<1>2. CASE \E e \in Events : Log(e)
  BY <1>2, LogKeepsCounts
<1>3. CASE Second
  BY <1>1, <1>3 DEF Second, goroutine, counters, server, history
<1>4. CASE \E why \in {"tick", "flush", "done"} : Wake(why)
  BY <1>4, WakeKeepsCounts
<1>5. CASE CountRecord
  BY <1>5, CountKeepsCounts
<1>6. CASE StoreMessages
  BY <1>6, StoreKeepsCounts
<1>7. CASE NoEvents
  <2>1. pc # "counting" /\ pc' # "counting"
    BY <1>7 DEF NoEvents, AfterEvents
  <2>2. UNCHANGED <<queue, countersMap, received, owed, repeated>>
    BY <1>7 DEF NoEvents, input, counters, server, history
  <2> QED
    BY <1>1, <2>1, <2>2
<1>8. CASE EventsAccepted
  BY <1>8, AcceptedKeepsCounts
<1>9. CASE EventsFailed
  BY <1>9, FailedKeepsCounts
<1>10. CASE NoMessages
  <2>1. pc # "counting" /\ pc' # "counting"
    BY <1>10 DEF NoMessages, AfterMessages
  <2>2. UNCHANGED <<queue, countersMap, received, owed, repeated>>
    BY <1>10 DEF NoMessages, input, counters, server, history
  <2> QED
    BY <1>1, <2>1, <2>2
<1>11. CASE MessagesAccepted \/ MessagesFailed
  <2>1. pc # "counting" /\ pc' # "counting"
    BY <1>11 DEF MessagesAccepted, MessagesFailed, PostsMessages, MessagesDue, AfterMessages
  <2>2. UNCHANGED <<queue, countersMap, received, owed, repeated>>
    BY <1>11 DEF MessagesAccepted, MessagesFailed, input, counters, history
  <2> QED
    BY <1>1, <2>1, <2>2
<1>12. CASE UNCHANGED vars
  BY <1>1, <1>12 DEF vars, input, goroutine, counters, server, history
<1> QED
  BY <1>2, <1>3, <1>4, <1>5, <1>6, <1>7, <1>8, <1>9, <1>10, <1>11, <1>12 DEF Next, Write

-----------------------------------------------------------------------------
(* Initially nothing is logged, kept, sent or owed. *)
LEMMA InitClock == Init => ClockInv /\ KeysInv /\ StepsInv
<1> SUFFICES ASSUME Init PROVE ClockInv /\ KeysInv /\ StepsInv
  OBVIOUS
<1>1. clock = 0 /\ logged = 0 /\ queue = <<>> /\ batch = <<>> /\ batchTime = Never
      /\ startTime = Never /\ countersMap = NoKeys /\ at = 1
  BY DEF Init
<1>2. MaxTime \in Nat /\ MaxRecords \in Nat /\ DefaultInterval \in Nat
  BY LogServerAssumption
<1>3. ClockInv
  BY <1>1, <1>2 DEF ClockInv
<1>4. KeysInv
  BY <1>1 DEF KeysInv, NoKeys
<1>5. StepsInv
  BY <1>1, <1>2 DEF Init, StepsInv
<1> QED
  BY <1>3, <1>4, <1>5

(* Initially nothing is stored or sent, ...                                *)
LEMMA InitOrder == Init => OrderInv /\ SizeInv
<1> SUFFICES ASSUME Init PROVE OrderInv /\ SizeInv
  OBVIOUS
<1>1. /\ queue = <<>> /\ batch = <<>> /\ delivered = <<>> /\ messageMap = <<>>
      /\ messageMapSize = 0
  BY DEF Init
<1>2. <<>> \in Seq(Array) /\ <<>> \o <<>> = <<>>
  BY EmptySeq, ConcatEmptySeq
<1>3. OrderInv
  BY <1>1, <1>2 DEF OrderInv, InOrder, Increasing
<1>4. SizeInv
  BY <1>1, TotalEmpty DEF SizeInv, Filled
<1> QED
  BY <1>3, <1>4

(* ... and nothing is owed.                                                *)
LEMMA InitCounts == Init => CountsInv
<1> SUFFICES ASSUME Init PROVE CountsInv
  OBVIOUS
<1>1. /\ queue = <<>> /\ pc = "waiting" /\ countersMap = NoKeys
      /\ received = NoCounts /\ owed = NoCounts
  BY DEF Init
<1>2. NoCounts \in [AnyEvent -> Nat] /\ \A e \in AnyEvent : NoCounts[e] = 0
  BY DEF NoCounts, AnyEvent
<1>3. ASSUME NEW e \in Counted PROVE Found(e) = 0 /\ owed[e] = 0
  <2>1. received[e] = 0 /\ owed[e] = 0
    BY <1>1, <1>2 DEF Counted
  <2>2. CountOf(e) = 0
    BY <1>1, CountIsSum, NoKeysNoCount
  <2>3. Waiting(e, queue) = 0 /\ Waiting(e, Uncounted) = 0
    BY <1>1, WaitingEmpty DEF Uncounted
  <2> QED
    BY <2>1, <2>2, <2>3 DEF Found
<1> QED
  BY <1>1, <1>2, <1>3 DEF CountsInv

-----------------------------------------------------------------------------
(* The parts of the invariant, each of which needs those before it. *)
IInv == Inv /\ ClockInv /\ KeysInv /\ StepsInv /\ OrderInv /\ SizeInv /\ CountsInv

(* The invariant holds initially, ...                                      *)
LEMMA InitIInv == Init => IInv
BY InitInv, InitClock, InitOrder, InitCounts DEF IInv

(* ... is kept by every step, ...                                          *)
LEMMA NextIInv == IInv /\ [Next]_vars => IInv'
BY NextInv, ClockAndKeysKept, StepsKept, OrderKept, SizeKept, CountsKept DEF IInv

(* ... and so holds always.                                                *)
LEMMA Invariance == Spec => []IInv
BY InitIInv, NextIInv, PTL DEF Spec

(* The records that wait, with the bounds of their ids and times. *)
LEMMA IInvGivesTypes == IInv => TypeOK
<1> SUFFICES ASSUME IInv PROVE TypeOK
  OBVIOUS
<1>1. queue \in Seq(AnyRecord) /\ batch \in Seq(AnyRecord)
  BY DEF IInv, Inv, TimesInv
<1>2. clock \in 0..MaxTime /\ logged \in 0..MaxRecords /\ MaxTime \in Nat /\ MaxRecords \in Nat
  BY LogServerAssumption DEF IInv, ClockInv
<1>3. ASSUME NEW q \in Seq(AnyRecord),
             \A i \in DOMAIN q : q[i].id \in 1..logged /\ q[i].time \in 0..clock
      PROVE  q \in Seq(Record)
  <2>1. Len(q) \in Nat /\ DOMAIN q = 1..Len(q) /\ \A i \in 1..Len(q) : q[i] \in AnyRecord
    BY LenProperties, ElementOfSeq
  <2>2. ASSUME NEW i \in 1..Len(q) PROVE q[i] \in Record
    <3>1. q[i].id \in 1..MaxRecords /\ q[i].time \in 0..MaxTime
      BY <1>2, <1>3, <2>1
    <3>2. q[i] \in AnyRecord
      BY <2>1
    <3> QED
      BY <3>1, <3>2 DEF AnyRecord, Record
  <2>3. q = [i \in 1..Len(q) |-> q[i]]
    BY <2>1
  <2> QED
    BY <2>1, <2>2, <2>3, IsASeq
<1>4. queue \in Seq(Record) /\ batch \in Seq(Record)
  BY <1>1, <1>3 DEF IInv, ClockInv
<1>5. batchTime \in {Never} \cup 0..MaxTime /\ startTime \in {Never} \cup 0..MaxTime
  BY <1>2 DEF IInv, ClockInv
<1>6. /\ DOMAIN countersMap \subseteq KeyType
      /\ \A k \in DOMAIN countersMap : countersMap[k] \in Nat \ {0}
  BY DEF IInv, KeysInv
<1>7. countersMapSize \in Nat
  BY FS_CardinalityType DEF IInv, Inv, CountersInv, CountersHonest
<1>8. messageMapSize \in Nat
      /\ Len(FlattenSeq([k \in DOMAIN messageMap |-> messageMap[k].ids])) <= messageMapSize
  BY DEF IInv, SizeInv, Total, IdsOf
<1> QED
  BY <1>2, <1>4, <1>5, <1>6, <1>7, <1>8 DEF TypeOK, IInv, StepsInv

(* The other two properties are parts of the invariant.                    *)
LEMMA IInvGivesOrder == IInv => MessagesInOrder
BY DEF IInv, OrderInv, MessagesInOrder

LEMMA IInvGivesCounts == IInv => CountedOnce
BY CountsInvImplies DEF IInv

(* TypeOK for any instance.  Beyond the shapes: messageMapSize never falls *)
(* below zero, although it grows by records and shrinks by arrays          *)
(* (writeMessages, sendMessagesToServer), as EncodeLogForTransfer makes no *)
(* empty array, nor below the records in the map; and the offset of a key  *)
(* is never negative, as the times of batches only go up.                  *)
THEOREM TypeCorrect == Spec => []TypeOK
BY Invariance, IInvGivesTypes, PTL

(* CountedOnce for any instance: each event that writeMessages did not     *)
(* drop at the limit is counted once by the server, kept in countersMap,   *)
(* or still waiting, however posts succeed, are refused or lose their      *)
(* reply; twice only where a reply was lost, when the counters that the    *)
(* server has handled are kept and posted again (sendEventToServer).       *)
THEOREM EveryEventCounted == Spec => []CountedOnce
BY Invariance, IInvGivesCounts, PTL

(* MessagesInOrder for any instance: EncodeLogForTransfer puts a tenant's  *)
(* records in their order in its arrays, although it fills those of all    *)
(* tenants at a time and adds the ones that are not full in no order; and  *)
(* neither a failed post nor a lost reply makes one arrive after a later   *)
(* one, or twice (sendMessagesToServer).                                   *)
THEOREM TenantsInOrder == Spec => []MessagesInOrder
BY Invariance, IInvGivesOrder, PTL

(* CountersHonest for any instance: the size by which events are dropped   *)
(* at the limit (writeMessages) is the number of keys, through posts that  *)
(* succeed and posts that fail, and a key is never without a start time,   *)
(* for want of which sendEventToServer would keep it for good.             *)
THEOREM CountersStayHonest == Spec => []CountersHonest
<1>1. Inv => CountersHonest
  BY DEF Inv, CountersInv
<1> QED
  BY <1>1, InitInv, NextInv, PTL DEF Spec
=============================================================================
