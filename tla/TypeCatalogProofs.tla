------------------------- MODULE TypeCatalogProofs -------------------------
(***************************************************************************)
(* What is proved of TypeCatalog for any number of goroutines and types,   *)
(* any size of page and whatever calls are made together: a list that      *)
(* gathers its pages while types come and go names nothing that was not    *)
(* there, nothing twice, and everything that was there all the while; and  *)
(* with no mutation in flight what is cached is what the server has.       *)
(*                                                                         *)
(* The argument for the first is about the cursor.  What a list has found  *)
(* lies up to it, and of what was always there nothing up to it is         *)
(* missing; a page is the beginning of what the server holds beyond it,    *)
(* and the cursor moves to the end of the page.  The cache has no part in  *)
(* it.  The argument for the second is about locks: what a call is about   *)
(* to save is the server's, or an update, a delete or a create that the    *)
(* server has handled has yet to take the lock away.                       *)
(***************************************************************************)
EXTENDS TypeCatalog, TLAPS, FiniteSetTheorems, NaturalsInduction

USE TypeCatalogAssumption

(* The types in every one of a set of catalogs, of those a list asks for,  *)
(* and whether all a list of types says is in one or another of them.      *)
Always(D, A) == {t \in Types : t \in A /\ \A c \in D : t \in DOMAIN c}
Witnessed(l, D) == \A t \in DOMAIN l : \E c \in D : t \in DOMAIN c /\ c[t] = l[t]

(* Up to its cursor a list has found what was always there, no more.       *)
UpToCursor(o, D, A) ==
  /\ \A t \in DOMAIN o.found : t <= o.type
  /\ \A t \in Always(D, A) : t <= o.type => t \in DOMAIN o.found

(* A page begins after the cursor and leaves nothing out before its end,   *)
(* which is that of the catalog unless there are more pages.               *)
NextPage(o, D, A) ==
  /\ \A t \in DOMAIN o.page : o.type < t
  /\ o.more => DOMAIN o.page # {}
  /\ \A t \in Always(D, A) :
       (o.type < t /\ (o.more => \E u \in DOMAIN o.page : t <= u)) => t \in DOMAIN o.page

Good(o, D, A) ==
  /\ ~o.again
  /\ Witnessed(o.found, D)
  /\ o.pc \in {"locked", "answered"} => UpToCursor(o, D, A)
  /\ o.pc = "answered" => Witnessed(o.page, D) /\ NextPage(o, D, A)
  /\ o.pc = "closing" => Always(D, A) \subseteq DOMAIN o.found

Listing(p) == Running(p) /\ op[p].kind = "list"

Inv ==
  /\ db \in [Types -> Defs \cup {Nil}]
  /\ op \in [Procs -> Op \cup {Idle}]
  /\ mix \in Mixes
  /\ \A p \in Procs : Running(p) /\ ~Listing(p) => op[p].type \in Types
  /\ \A p \in Procs : Listing(p) => Catalog \in during[p] /\ Good(op[p], during[p], Asked[p])
  /\ DOMAIN during = Procs

-----------------------------------------------------------------------------
LEMMA IdleIsNoOp == Idle \notin Op
BY DEF Idle, Op

(* Every nonempty set of numbers has a least one ... *)
LEMMA LeastNat ==
  ASSUME NEW I \in SUBSET Nat, I # {}
  PROVE  \E i \in I : \A j \in I : i <= j
<1> DEFINE R == {ss \in Nat \X Nat : ss[1] < ss[2]}
<1>1. IsWellFoundedOn(R, Nat)
  BY NatLessThanWellFounded DEF OpToRel
<1>2. PICK i \in I : \A j \in I : ~ (<<j, i>> \in R)
  BY <1>1, WFMin
<1>3. ASSUME NEW j \in I PROVE i <= j
  <2>1. ~ (<<j, i>> \in R) /\ i \in Nat /\ j \in Nat
    BY <1>2
  <2> QED
    BY <2>1
<1> QED
  BY <1>3

(* ... and every nonempty set of types a last one: the least of the bounds *)
(* of the set is a member of it.                                           *)
LEMMA LastType ==
  ASSUME NEW I \in SUBSET Types, I # {}
  PROVE  \E i \in I : \A j \in I : j <= i
<1> DEFINE Bounds == {n \in Nat : \A j \in I : j <= n}
<1>1. Last \in Bounds
  BY DEF Types
<1>2. PICK n \in Bounds : \A m \in Bounds : n <= m
  <2> HIDE DEF Bounds
  <2>1. Bounds \subseteq Nat
    BY DEF Bounds
  <2> QED
    BY <1>1, <2>1, LeastNat
<1>3. n \in I
  <2> SUFFICES ASSUME n \notin I PROVE FALSE
    OBVIOUS
  <2>1. PICK j \in I : TRUE
    OBVIOUS
  <2>2. n \in Nat /\ j \in Nat /\ j <= n /\ j >= 1
    BY DEF Types
  <2>3. n - 1 \in Nat
    BY <2>2
  <2>4. \A i \in I : i <= n - 1
    BY <2>2 DEF Types
  <2>5. n - 1 \in Bounds
    BY <2>3, <2>4
  <2> QED
    BY <1>2, <2>2, <2>5
<1> QED
  BY <1>3

(* A page is a beginning of what is asked for and the server holds after   *)
(* the cursor, and not an empty one if there is anything.                  *)
LEMMA PageShape ==
  ASSUME NEW p \in Procs, NEW c \in Nat
  PROVE  /\ PageOf(p, c) \subseteq After(p, c)
         /\ After(p, c) \subseteq Held
         /\ \A t \in After(p, c) : c < t
         /\ After(p, c) # {} => PageOf(p, c) # {}
         /\ \A t \in After(p, c), u \in PageOf(p, c) : t <= u => t \in PageOf(p, c)
<1>1. /\ PageOf(p, c) \subseteq After(p, c) /\ After(p, c) \subseteq Held /\ After(p, c) \subseteq Types
      /\ \A t \in After(p, c) : c < t
  BY DEF PageOf, After, Held
<1> DEFINE Before(t) == {u \in After(p, c) : u < t}
<1>2. \A t : IsFiniteSet(Before(t)) /\ Cardinality(Before(t)) \in Nat
  <2>1. IsFiniteSet(Types)
    BY FS_Interval DEF Types
  <2>2. \A t : Before(t) \in SUBSET Types
    BY <1>1
  <2> QED
    BY <2>1, <2>2, FS_Subset, FS_CardinalityType
<1>3. \A t \in After(p, c) : t \in PageOf(p, c) <=> Cardinality(Before(t)) < PageSize
  BY DEF PageOf
<1>4. ASSUME After(p, c) # {} PROVE PageOf(p, c) # {}
  <2>1. PICK t \in After(p, c) : \A u \in After(p, c) : t <= u
    BY <1>1, <1>4, LeastNat DEF Types
  <2>2. Before(t) = {}
    BY <1>1, <2>1 DEF Types
  <2>3. Cardinality(Before(t)) < PageSize
    BY <2>2, FS_EmptySet
  <2> QED
    BY <1>3, <2>3
<1>5. ASSUME NEW t \in After(p, c), NEW u \in PageOf(p, c), t <= u PROVE t \in PageOf(p, c)
  <2>1. Before(t) \in SUBSET Before(u)
    BY <1>1, <1>5 DEF Types
  <2>2. Cardinality(Before(t)) <= Cardinality(Before(u))
    BY <1>2, <2>1, FS_Subset
  <2>3. Cardinality(Before(u)) < PageSize
    BY <1>1, <1>3
  <2>4. Cardinality(Before(t)) < PageSize
    <3> HIDE DEF Before
    <3> QED
      BY <1>2, <2>2, <2>3
  <2> QED
    BY <1>3, <2>4
<1> QED
  BY <1>1, <1>4, <1>5

(* What holds of a list goes on holding as the server's types change.      *)
LEMMA GoodGrows ==
  ASSUME NEW o, NEW D, NEW A, NEW c, Good(o, D, A)
  PROVE  Good(o, D \cup {c}, A)
<1>1. Always(D \cup {c}, A) \subseteq Always(D, A)
  BY DEF Always
<1>2. \A l : Witnessed(l, D) => Witnessed(l, D \cup {c})
  BY DEF Witnessed
<1>3. UpToCursor(o, D, A) => UpToCursor(o, D \cup {c}, A)
  BY <1>1 DEF UpToCursor
<1>4. NextPage(o, D, A) => NextPage(o, D \cup {c}, A)
  BY <1>1 DEF NextPage
<1> QED
  BY <1>1, <1>2, <1>3, <1>4 DEF Good

LEMMA CatalogShape ==
  ASSUME NEW d \in [Types -> Defs \cup {Nil}], NEW S \in SUBSET {t \in Types : d[t] # Nil}
  PROVE  [t \in S |-> d[t]] \in Listings
<1>1. [t \in S |-> d[t]] \in [S -> Defs]
  BY DEF Types
<1>2. S \in SUBSET Types
  OBVIOUS
<1> QED
  BY <1>1, <1>2 DEF Listings

-----------------------------------------------------------------------------
(* A step of one goroutine that leaves the server alone has to answer for  *)
(* no list but its own.                                                    *)
LEMMA OneMoves ==
  ASSUME Inv, NEW p \in Procs, NEW o \in Op \cup {Idle}, Become(p, o),
         db' = db, mix' = mix, DOMAIN during' = Procs,
         \A q \in Procs \ {p} : during'[q] = during[q],
         o # Idle /\ o.kind # "list" => o.type \in Types,
         o # Idle /\ o.kind = "list" => Catalog \in during'[p] /\ Good(o, during'[p], Asked[p])
  PROVE  Inv'
<1>1. /\ op' = [op EXCEPT ![p] = o]
      /\ op \in [Procs -> Op \cup {Idle}]
  BY DEF Inv, Become
<1>2. Catalog' = Catalog
  BY DEF Catalog, Held
<1>3. \A q \in Procs : Listing(q)' => Catalog \in during'[q] /\ Good(op'[q], during'[q], Asked[q])
  <2>1. ASSUME NEW q \in Procs, q # p, Listing(q)'
        PROVE  Catalog \in during'[q] /\ Good(op'[q], during'[q], Asked[q])
    <3>1. op'[q] = op[q] /\ during'[q] = during[q]
      BY <1>1, <2>1
    <3>2. Listing(q)
      BY <2>1, <3>1 DEF Listing, Running
    <3> QED
      BY <3>1, <3>2 DEF Inv
  <2>2. ASSUME Listing(p)'
        PROVE  Catalog \in during'[p] /\ Good(op'[p], during'[p], Asked[p])
    <3>1. op'[p] = o
      BY <1>1
    <3> QED
      BY <2>2, <3>1 DEF Listing, Running
  <2> QED
    BY <2>1, <2>2
<1>4. op' \in [Procs -> Op \cup {Idle}]
  BY <1>1
<1>5. \A q \in Procs : Running(q)' /\ ~Listing(q)' => op'[q].type \in Types
  <2>1. ASSUME NEW q \in Procs, q # p PROVE op'[q] = op[q]
    BY <1>1, <2>1
  <2>2. op'[p] = o
    BY <1>1
  <2> QED
    BY <2>1, <2>2 DEF Inv, Listing, Running
<1> QED
  BY <1>2, <1>3, <1>4, <1>5 DEF Inv

(* A call that is running has the shape of one. *)
LEMMA RunningInOp ==
  ASSUME Inv, NEW p \in Procs, Running(p)
  PROVE  op[p] \in Op
BY DEF Inv, Running

LEMMA GotoType ==
  ASSUME NEW o \in Op, NEW pc \in {"locked", "answered", "clearing", "flushing", "closing"}
  PROVE  /\ [o EXCEPT !.pc = pc] \in Op
         /\ [o EXCEPT !.pc = pc].kind = o.kind /\ [o EXCEPT !.pc = pc].type = o.type
BY DEF Op

LEMMA GotoKeeps ==
  ASSUME Inv, NEW p \in Procs, Running(p), op[p].kind # "list",
         NEW pc \in {"locked", "answered", "clearing", "flushing", "closing"}, Goto(p, pc),
         UNCHANGED <<db, mix, during>>
  PROVE  Inv'
<1> DEFINE o == [op[p] EXCEPT !.pc = pc]
<1>1. o \in Op /\ o.kind # "list" /\ o.type \in Types
  <2>1. op[p] \in Op /\ op[p].type \in Types
    BY RunningInOp DEF Inv, Listing
  <2> QED
    BY <2>1, GotoType
<1>2. Become(p, o)
  BY DEF Goto
<1>3. DOMAIN during' = Procs /\ \A q \in Procs \ {p} : during'[q] = during[q]
  BY DEF Inv
<1> HIDE DEF o
<1> QED
  BY <1>1, <1>2, <1>3, OneMoves

LEMMA IdleKeeps ==
  ASSUME Inv, NEW p \in Procs, Become(p, Idle), UNCHANGED <<db, mix>>,
         during' = during \/ during' = [during EXCEPT ![p] = {}]
  PROVE  Inv'
<1>1. DOMAIN during' = Procs /\ \A q \in Procs \ {p} : during'[q] = during[q]
  BY DEF Inv
<1> QED
  BY <1>1, OneMoves

-----------------------------------------------------------------------------
(* A call begins with a lock or none; a list with what the server holds.   *)
LEMMA FreshIsSentinel ==
  ASSUME NEW kind \in Kinds
  PROVE  FreshSentinel(kind) \subseteq Sentinel
BY DEF FreshSentinel, Sentinel

LEMMA BeginKeeps ==
  ASSUME Inv, NEW p \in Procs, NEW kind \in {"get", "list"} \cup Mutations, NEW t \in Cursors,
         NEW s \in Sentinel \cup {NoLock}, NEW v \in Defs \cup {Nil},
         Begin(p, kind, t, s, v), IF kind = "list" THEN t = 0 ELSE t \in Types,
         UNCHANGED <<db, mix>>
  PROVE  Inv'
<1> DEFINE o == [kind |-> kind, pc |-> "locked", type |-> t, s |-> s, val |-> v,
                 page |-> Empty, more |-> FALSE, found |-> Empty, again |-> FALSE]
<1>1. Become(p, o)
  BY DEF Begin, Become
<1>2. Empty \in Listings /\ DOMAIN Empty = {}
  <2>1. Empty \in [{} -> Defs]
    BY DEF Empty
  <2> QED
    BY <2>1 DEF Listings, Empty
<1>3. o \in Op
  BY <1>2, Zenon DEF Op
<1>4. during' = [during EXCEPT ![p] = IF kind = "list" THEN {Catalog} ELSE {}]
  BY DEF Begin
<1>5. DOMAIN during' = Procs /\ \A q \in Procs \ {p} : during'[q] = during[q]
  BY <1>4 DEF Inv
<1>6. ASSUME kind = "list" PROVE Catalog \in during'[p] /\ Good(o, during'[p], Asked[p])
  <2>1. during'[p] = {Catalog}
    BY <1>4, <1>6 DEF Inv
  <2>2. ~o.again /\ DOMAIN o.found = {} /\ o.type = 0 /\ o.pc = "locked"
    BY <1>2, <1>6
  <2>3. \A u \in Always({Catalog}, Asked[p]) : ~(u <= 0)
    BY DEF Always, Types
  <2> HIDE DEF o
  <2> QED
    BY <2>1, <2>2, <2>3 DEF Good, Witnessed, UpToCursor
<1>7. o.kind = kind /\ o.type = t
  OBVIOUS
<1> HIDE DEF o
<1> QED
  BY <1>1, <1>3, <1>5, <1>6, <1>7, OneMoves

LEMMA BeginReadKeeps ==
  ASSUME Inv, NEW p \in Procs, NEW kind \in {"get", "list"}, NEW k \in Cursors,
         BeginRead(p, kind, k), IF kind = "list" THEN k = 0 ELSE k \in Types, mix' = mix
  PROVE  Inv'
<1>1. PICK s \in IF cache[k] = EmptyEntry THEN FreshSentinel("read") ELSE {NoLock} :
        Begin(p, kind, k, s, Nil)
  BY DEF BeginRead
<1>2. s \in Sentinel \cup {NoLock}
  BY <1>1, FreshIsSentinel DEF Kinds
<1>3. db' = db
  BY DEF BeginRead
<1> QED
  BY <1>1, <1>2, <1>3, BeginKeeps

LEMMA BeginPutKeeps ==
  ASSUME Inv, NEW p \in Procs, NEW kind \in {"create", "update"}, NEW t \in Types,
         BeginPut(p, kind, t), mix' = mix
  PROVE  Inv'
<1>1. PICK s \in FreshSentinel("write"), v \in mix.defs :
        Begin(p, kind, t, Granted(cache, s, LockKeys(t)), v)
  BY DEF BeginPut
<1>2. Granted(cache, s, LockKeys(t)) \in Sentinel \cup {NoLock}
  BY <1>1, FreshIsSentinel DEF Kinds, Granted
<1>3. v \in Defs
  BY <1>1 DEF Inv
<1>4. t \in Cursors /\ kind \in Mutations /\ kind # "list"
  BY DEF Types, Cursors, Mutations
<1>5. db' = db
  BY DEF BeginPut
<1> QED
  BY <1>1, <1>2, <1>3, <1>4, <1>5, BeginKeeps

LEMMA BeginDeleteKeeps ==
  ASSUME Inv, NEW p \in Procs, NEW t \in Types, BeginDelete(p, t), mix' = mix
  PROVE  Inv'
<1>1. t \in Cursors /\ "delete" \in Mutations /\ "delete" # "list"
  BY DEF Types, Cursors, Mutations
<1>2. Begin(p, "delete", t, NoLock, Nil) /\ db' = db
  BY DEF BeginDelete
<1> QED
  BY <1>1, <1>2, BeginKeeps

-----------------------------------------------------------------------------
LEMMA ServeGetKeeps ==
  ASSUME Inv, NEW p \in Procs, ServeGet(p), mix' = mix
  PROVE  Inv'
<1>1. CASE db[op[p].type] = Nil
  BY <1>1, IdleKeeps DEF ServeGet
<1>2. CASE db[op[p].type] # Nil
  <2> DEFINE v == db[op[p].type]
             o == [op[p] EXCEPT !.pc = "answered", !.val = v]
  <2>1. op[p] \in Op /\ op[p].kind = "get" /\ op[p].type \in Types
    BY RunningInOp DEF ServeGet, At, Inv, Listing
  <2>2. Become(p, o) /\ DOMAIN during' = Procs /\ db' = db /\ during' = during
    BY <1>2 DEF ServeGet, Inv
  <2>3. v \in Defs \cup {Nil}
    BY <2>1 DEF Inv
  <2>4. o \in Op /\ o.kind = "get" /\ o.type = op[p].type
    <3> HIDE DEF v
    <3> QED
      BY <2>1, <2>3 DEF Op
  <2> HIDE DEF o
  <2> QED
    BY <2>1, <2>2, <2>4, OneMoves
<1> QED
  BY <1>1, <1>2

LEMMA ServePageKeeps ==
  ASSUME Inv, NEW p \in Procs, ServePage(p), mix' = mix
  PROVE  Inv'
<1> DEFINE o == op[p]
           S == PageOf(p, o.type)
           page == [t \in S |-> db[t]]
           more == (S # After(p, o.type))
           n == [o EXCEPT !.pc = "answered", !.page = page, !.more = more]
<1>1. o \in Op /\ o.kind = "list" /\ o.pc = "locked" /\ Listing(p)
  BY RunningInOp DEF ServePage, At, Listing
<1>2. Become(p, n) /\ db' = db /\ during' = during /\ DOMAIN during' = Procs
  BY DEF ServePage, Inv
<1>3. Catalog \in during[p] /\ Good(o, during[p], Asked[p])
  BY <1>1 DEF Inv
<1>4. o.type \in Nat
  BY <1>1 DEF Op, Cursors
<1>5. S \in SUBSET Held
  BY <1>4, PageShape
<1>6. page \in Listings /\ DOMAIN page = S
  BY <1>5, CatalogShape DEF Inv, Held
<1>7. more \in BOOLEAN
  OBVIOUS
<1>8. n \in Op
  <2> HIDE DEF page, more
  <2> QED
    BY <1>1, <1>6, <1>7, Zenon DEF Op
<1>9. /\ n.kind = "list" /\ n.pc = "answered" /\ n.type = o.type /\ n.page = page
      /\ n.more = more /\ n.found = o.found /\ n.again = o.again
  <2> HIDE DEF page, more
  <2> QED
    BY <1>1 DEF Op
<1>10. Witnessed(page, during[p])
  <2>1. \A t \in S : t \in DOMAIN Catalog /\ Catalog[t] = page[t]
    BY <1>5 DEF Catalog
  <2> QED
    BY <1>3, <1>6, <2>1 DEF Witnessed
<1>11. NextPage(n, during[p], Asked[p])
  <2>1. \A t \in DOMAIN page : o.type < t
    BY <1>4, <1>6, PageShape
  <2>2. ASSUME more PROVE S # {}
    BY <1>4, <2>2, PageShape
  <2>3. ASSUME NEW t \in Always(during[p], Asked[p]), o.type < t, more => \E u \in S : t <= u
        PROVE  t \in S
    <3>1. t \in After(p, o.type)
      BY <1>3, <2>3 DEF Always, Catalog, After, Held
    <3>2. CASE more
      <4>1. PICK u \in S : t <= u
        BY <2>3, <3>2
      <4> QED
        BY <1>4, <3>1, <4>1, PageShape
    <3>3. CASE ~more
      BY <3>1, <3>3
    <3> QED
      BY <3>2, <3>3
  <2> HIDE DEF n, page, more
  <2> QED
    BY <1>6, <1>9, <2>1, <2>2, <2>3 DEF NextPage, more
<1>12. Good(n, during[p], Asked[p])
  <2> HIDE DEF n, page, more
  <2> QED
    BY <1>1, <1>3, <1>9, <1>10, <1>11 DEF Good, UpToCursor
<1> HIDE DEF n
<1> QED
  BY <1>2, <1>3, <1>8, <1>9, <1>12, OneMoves

(* The pages a list saves so far end where its cursor goes to.             *)
LEMMA SavePageKeeps ==
  ASSUME Inv, NEW p \in Procs, SavePage(p), mix' = mix
  PROVE  Inv'
<1> DEFINE o == op[p]
           D == during[p]
           A == Asked[p]
           found == [t \in DOMAIN o.found \cup DOMAIN o.page |->
                       IF t \in DOMAIN o.page THEN o.page[t] ELSE o.found[t]]
           type == IF o.more THEN AdvanceCursor(o) ELSE o.type
           again == (o.again \/ DOMAIN o.found \cap DOMAIN o.page # {})
           pc == IF o.more THEN "locked" ELSE "closing"
           n == [o EXCEPT !.pc = pc, !.type = type, !.again = again,
                          !.found = found, !.page = Empty, !.more = FALSE]
<1>1. o \in Op /\ o.kind = "list" /\ o.pc = "answered" /\ Listing(p)
  BY RunningInOp DEF SavePage, At, Listing
<1>2. Become(p, n) /\ db' = db /\ during' = during /\ DOMAIN during' = Procs
  BY DEF SavePage, Inv
<1>3. /\ Catalog \in D /\ Good(o, D, A)
      /\ ~o.again /\ Witnessed(o.found, D) /\ UpToCursor(o, D, A)
      /\ Witnessed(o.page, D) /\ NextPage(o, D, A)
  BY <1>1 DEF Inv, Good
<1>4. /\ o.type \in Cursors /\ o.type \in Nat /\ o.more \in BOOLEAN
      /\ o.page \in Listings /\ o.found \in Listings
  BY <1>1 DEF Op, Cursors
<1>5. \A l \in Listings : DOMAIN l \subseteq Types /\ \A t \in DOMAIN l : l[t] \in Defs
  BY DEF Listings
<1>6. found \in Listings /\ DOMAIN found = DOMAIN o.found \cup DOMAIN o.page
  <2>1. DOMAIN found \in SUBSET Types
    BY <1>4, <1>5
  <2>2. found \in [DOMAIN found -> Defs]
    BY <1>4, <1>5
  <2> HIDE DEF found
  <2> QED
    BY <2>1, <2>2 DEF Listings, found
<1>7. DOMAIN o.found \cap DOMAIN o.page = {}
  BY <1>3, <1>4, <1>5 DEF UpToCursor, NextPage, Types
<1>8. again = FALSE
  BY <1>3, <1>7
<1>9. ASSUME o.more
      PROVE  type \in DOMAIN o.page /\ \A t \in DOMAIN o.page : t <= type
  <2>1. DOMAIN o.page # {}
    BY <1>3, <1>9 DEF NextPage
  <2>2. \E t \in DOMAIN o.page : \A u \in DOMAIN o.page : u <= t
    BY <1>4, <1>5, <2>1, LastType
  <2> QED
    BY <1>9, <2>2 DEF AdvanceCursor
<1>10. type \in Cursors
  BY <1>4, <1>5, <1>9 DEF Types, Cursors
<1>11. Empty \in Listings
  <2>1. Empty \in [{} -> Defs]
    BY DEF Empty
  <2> QED
    BY <2>1 DEF Listings
<1>12. n \in Op
  <2>1. pc \in {"locked", "closing"} /\ again \in BOOLEAN
    BY <1>8
  <2> HIDE DEF pc, type, again, found
  <2> QED
    BY <1>1, <1>6, <1>10, <1>11, <2>1, Zenon DEF Op
<1>13. /\ n.kind = "list" /\ n.pc = pc /\ n.type = type /\ n.found = found
       /\ n.again = again
  <2> HIDE DEF pc, type, again, found
  <2> QED
    BY <1>1 DEF Op
<1>14. Witnessed(found, D)
  BY <1>3 DEF Witnessed
<1>15. ASSUME o.more PROVE UpToCursor(n, D, A)
  <2>1. \A t \in DOMAIN found : t <= type
    <3>1. o.type < type
      BY <1>3, <1>9, <1>15 DEF NextPage
    <3>2. type \in Nat /\ DOMAIN found \subseteq Nat
      BY <1>4, <1>5, <1>6, <1>10 DEF Types, Cursors
    <3>3. \A t \in DOMAIN o.found : t <= o.type
      BY <1>3 DEF UpToCursor
    <3> HIDE DEF type, found
    <3> QED
      BY <1>4, <1>6, <1>9, <1>15, <3>1, <3>2, <3>3
  <2>2. ASSUME NEW t \in Always(D, A), t <= type PROVE t \in DOMAIN found
    <3>1. t \in Nat
      BY DEF Always, Types
    <3>2. CASE t <= o.type
      BY <1>3, <3>2 DEF UpToCursor
    <3>3. CASE o.type < t
      <4>1. t \in DOMAIN o.page
        BY <1>3, <1>9, <1>15, <2>2, <3>3 DEF NextPage
      <4> QED
        BY <4>1
    <3> QED
      BY <1>4, <3>1, <3>2, <3>3
  <2> HIDE DEF n, type, found
  <2> QED
    BY <1>13, <2>1, <2>2 DEF UpToCursor
<1>16. ASSUME ~o.more PROVE Always(D, A) \subseteq DOMAIN found
  <2> SUFFICES ASSUME NEW t \in Always(D, A) PROVE t \in DOMAIN found
    OBVIOUS
  <2>1. t \in Nat
    BY DEF Always, Types
  <2>2. CASE t <= o.type
    BY <1>3, <2>2 DEF UpToCursor
  <2>3. CASE o.type < t
    BY <1>3, <1>16, <2>3 DEF NextPage
  <2> QED
    BY <1>4, <2>1, <2>2, <2>3
<1>17. Good(n, D, A)
  <2> HIDE DEF n, type, found, again
  <2> QED
    BY <1>4, <1>8, <1>13, <1>14, <1>15, <1>16 DEF Good
<1> HIDE DEF n
<1> QED
  BY <1>2, <1>3, <1>12, <1>13, <1>17, OneMoves

-----------------------------------------------------------------------------
(* What the server accepts becomes one more catalog for every list there   *)
(* is, and those go on holding what they held.                             *)
LEMMA AcceptedKeeps ==
  ASSUME Inv, NEW p \in Procs, Mutating(p),
         NEW pc \in {"answered", "flushing", "closing"}, Goto(p, pc),
         db' = [db EXCEPT ![op[p].type] = op[p].val],
         during' = [q \in Procs |-> IF Running(q) /\ op[q].kind = "list"
                      THEN during[q] \cup {[t \in {u \in Types : db'[u] # Nil} |-> db'[t]]}
                      ELSE {}],
         mix' = mix
  PROVE  Inv'
<1> DEFINE o == [op[p] EXCEPT !.pc = pc]
<1>1. /\ op[p] \in Op /\ op[p].kind # "list"
      /\ op[p].type \in Types /\ op[p].val \in Defs \cup {Nil}
  <2>1. op[p] \in Op /\ op[p].kind # "list"
    BY RunningInOp DEF Mutating, Mutations
  <2>2. op[p].val \in Defs \cup {Nil}
    BY <2>1 DEF Op
  <2> QED
    BY <2>1, <2>2 DEF Inv, Listing, Mutating
<1>2. o \in Op /\ o.kind # "list" /\ o.type \in Types
  BY <1>1, GotoType
<1>3. op' = [op EXCEPT ![p] = o] /\ op' \in [Procs -> Op \cup {Idle}]
  BY <1>2 DEF Goto, Become, Inv
<1>4. db' \in [Types -> Defs \cup {Nil}]
  BY <1>1 DEF Inv
<1>5. Catalog' = [t \in {u \in Types : db'[u] # Nil} |-> db'[t]]
  BY DEF Catalog, Held
<1>6. ASSUME NEW q \in Procs, Listing(q)'
      PROVE  Catalog' \in during'[q] /\ Good(op'[q], during'[q], Asked[q])
  <2>1. q # p /\ op'[q] = op[q]
    BY <1>2, <1>3, <1>6 DEF Listing, Inv
  <2>2. Listing(q)
    BY <1>6, <2>1 DEF Listing, Running
  <2>3. during'[q] = during[q] \cup {Catalog'}
    BY <1>5, <2>2 DEF Listing
  <2> QED
    BY <2>1, <2>2, <2>3, GoodGrows DEF Inv
<1>7. \A q \in Procs : Running(q)' /\ ~Listing(q)' => op'[q].type \in Types
  <2>1. ASSUME NEW q \in Procs, q # p PROVE op'[q] = op[q]
    BY <1>3, <2>1
  <2>2. op'[p] = o
    BY <1>3 DEF Inv
  <2> HIDE DEF o
  <2> QED
    BY <1>2, <2>1, <2>2 DEF Inv, Listing, Running
<1>8. DOMAIN during' = Procs
  OBVIOUS
<1> QED
  BY <1>3, <1>4, <1>6, <1>7, <1>8 DEF Inv

LEMMA ServeMutationKeeps ==
  ASSUME Inv, NEW p \in Procs, ServeMutation(p), mix' = mix
  PROVE  Inv'
<1>1. Running(p) /\ op[p].kind # "list" /\ Mutating(p)
  BY DEF ServeMutation, Mutating, Mutations
<1>2. CASE UNCHANGED <<db, during>> /\ Goto(p, "closing")
  BY <1>1, <1>2, GotoKeeps
<1>3. CASE /\ db' = [db EXCEPT ![op[p].type] = op[p].val]
           /\ during' = [q \in Procs |-> IF Running(q) /\ op[q].kind = "list"
                THEN during[q] \cup {[t \in {u \in Types : db'[u] # Nil} |-> db'[t]]}
                ELSE {}]
           /\ \E pc \in {"answered", "flushing", "closing"} : Goto(p, pc)
  BY <1>1, <1>3, AcceptedKeeps
<1> QED
  BY <1>2, <1>3 DEF ServeMutation

LEMMA PutKeeps ==
  ASSUME Inv, NEW p \in Procs, SavePut(p) \/ ClearCollection(p) \/ FlushCache(p) \/ Close(p),
         mix' = mix
  PROVE  Inv'
<1>1. Running(p) /\ op[p].kind # "list"
  BY DEF SavePut, ClearCollection, FlushCache, Close, Mutating, Mutations
<1>2. CASE SavePut(p)
  BY <1>1, <1>2, GotoKeeps DEF SavePut
<1>3. CASE ClearCollection(p)
  BY <1>1, <1>3, GotoKeeps DEF ClearCollection
<1>4. CASE FlushCache(p)
  BY <1>1, <1>4, GotoKeeps DEF FlushCache
<1>5. CASE Close(p)
  BY <1>5, IdleKeeps DEF Close
<1> QED
  BY <1>2, <1>3, <1>4, <1>5

-----------------------------------------------------------------------------
LEMMA InvInit == Init => Inv
<1> SUFFICES ASSUME Init PROVE Inv
  OBVIOUS
<1>1. db \in [Types -> Defs \cup {Nil}]
  BY DEF Init
<1>2. \A p \in Procs : ~Running(p)
  BY DEF Init, Running
<1> QED
  BY <1>1, <1>2 DEF Init, Inv, Listing

LEMMA InvNext == Inv /\ [Next]_vars => Inv'
<1> SUFFICES ASSUME Inv, [Next]_vars PROVE Inv'
  OBVIOUS
<1>1. CASE UNCHANGED vars
  BY <1>1 DEF Inv, vars, Listing, Running, Catalog, Held
<1>2. CASE Next
  <2>1. mix' = mix /\ Step
    BY <1>2 DEF Next
  <2>2. ASSUME NEW p \in Procs, ServeGet(p) PROVE Inv'
    BY <2>1, <2>2, ServeGetKeeps
  <2>3. ASSUME NEW p \in Procs, SaveGet(p) PROVE Inv'
    BY <2>1, <2>3, IdleKeeps DEF SaveGet
  <2>4. ASSUME NEW p \in Procs, BeginList(p) PROVE Inv'
    <3>1. 0 \in Cursors
      BY DEF Cursors
    <3> QED
      BY <2>1, <2>4, <3>1, BeginReadKeeps DEF BeginList, Collection
  <2>5. ASSUME NEW p \in Procs, ListStep(p) PROVE Inv'
    <3>1. CASE ServePage(p)
      BY <2>1, <3>1, ServePageKeeps
    <3>2. CASE FailPage(p)
      BY <2>1, <3>2, IdleKeeps DEF FailPage
    <3>3. CASE SavePage(p)
      BY <2>1, <3>3, SavePageKeeps
    <3>4. CASE SaveList(p)
      BY <2>1, <3>4, IdleKeeps DEF SaveList
    <3> QED
      BY <2>5, <3>1, <3>2, <3>3, <3>4 DEF ListStep
  <2>6. ASSUME NEW p \in Procs, ServeMutation(p) PROVE Inv'
    BY <2>1, <2>6, ServeMutationKeeps
  <2>7. ASSUME NEW p \in Procs, SavePut(p) \/ ClearCollection(p) \/ FlushCache(p) \/ Close(p)
        PROVE  Inv'
    BY <2>1, <2>7, PutKeeps
  <2>8. ASSUME NEW p \in Procs, NEW t \in Types, BeginGet(p, t) PROVE Inv'
    <3>1. t \in Cursors /\ "get" # "list"
      BY DEF Types, Cursors
    <3> QED
      BY <2>1, <2>8, <3>1, BeginReadKeeps DEF BeginGet
  <2>9. ASSUME NEW p \in Procs, NEW t \in Types, BeginDelete(p, t) PROVE Inv'
    BY <2>1, <2>9, BeginDeleteKeeps
  <2>10. ASSUME NEW p \in Procs, NEW t \in Types, NEW kind \in {"create", "update"},
                BeginPut(p, kind, t)
         PROVE  Inv'
    BY <2>1, <2>10, BeginPutKeeps
  <2>11. ASSUME NEW k \in AllKeys, Expire(k) PROVE Inv'
    BY <2>1, <2>11 DEF Expire, Inv, Listing, Running, Catalog, Held
  <2> QED
    BY <2>1, <2>2, <2>3, <2>4, <2>5, <2>6, <2>7, <2>8, <2>9, <2>10, <2>11 DEF Step
<1> QED
  BY <1>1, <1>2 DEF Next

LEMMA InvListsWhatWasThere == Inv => ListsWhatWasThere
<1> SUFFICES ASSUME Inv, NEW p \in Procs, At(p, "list", "closing")
             PROVE  LET found == op[p].found IN
                    /\ ~op[p].again
                    /\ \A t \in DOMAIN found :
                         \E c \in during[p] : t \in DOMAIN c /\ c[t] = found[t]
                    /\ \A t \in Asked[p] :
                         (\A c \in during[p] : t \in DOMAIN c) => t \in DOMAIN found
  BY DEF ListsWhatWasThere
<1>1. Listing(p) /\ op[p].pc = "closing"
  BY DEF At, Listing
<1>2. Good(op[p], during[p], Asked[p])
  BY <1>1 DEF Inv
<1> QED
  <2>1. Asked[p] \subseteq Types
    BY DEF Types
  <2> QED
    BY <1>1, <1>2, <2>1 DEF Good, Witnessed, Always

(* A list of the types of a tenant or of one of its organizations,         *)
(* gathered page by page while types are created, updated and deleted,     *)
(* names every such type that was there all the while, none twice, and     *)
(* nothing that was not there at some moment of the call (ListEdgeTypes    *)
(* and ListObjectTypes, authz/client.go).                                  *)
THEOREM ListsAreOfTheirTime == Spec => []ListsWhatWasThere
<1>1. Init => Inv
  BY InvInit
<1>2. Inv /\ [Next]_vars => Inv'
  BY InvNext
<1>3. Inv => ListsWhatWasThere
  BY InvListsWhatWasThere
<1> QED
  BY <1>1, <1>2, <1>3, PTL DEF Spec

-----------------------------------------------------------------------------
(* The shape of the cache and of the history, which Inv says little of.    *)
LEMMA EntryOK ==
  /\ EmptyEntry \in Entry /\ EmptyEntry.tag = "empty"
  /\ Tombstone \in Entry /\ Tombstone.tag = "tombstone"
  /\ \A v \in Defs \cup Listings : /\ ItemEntry(v) \in Entry /\ ItemEntry(v).tag = "item"
                                   /\ ItemEntry(v).val = v
  /\ \A s \in Sentinel : /\ LockEntry(s) \in Entry /\ LockEntry(s).tag = "lock"
                         /\ LockEntry(s).s = s
  /\ \A e \in Entry : e.tag = "lock" => /\ e.s \in Sentinel
                                        /\ Bumped(e) \in Entry /\ Bumped(e).tag = "lock"
                                        /\ Bumped(e).s = e.s /\ Bumped(e).bumped
<1>1. \A s \in Sentinel : /\ LockEntry(s) \in Entry /\ LockEntry(s).tag = "lock"
                          /\ LockEntry(s).s = s
  BY DEF Entry, LockEntry
<1>2. \A e \in Entry : e.tag = "lock" => e.s \in Sentinel
  BY DEF Entry, EmptyEntry, Tombstone, ItemEntry, ListEntry
<1>3. \A e \in Entry : e.tag = "lock" => /\ Bumped(e) \in Entry /\ Bumped(e).tag = "lock"
                                         /\ Bumped(e).s = e.s /\ Bumped(e).bumped
  BY <1>2 DEF Entry, Bumped
<1>4. \A v \in Defs \cup Listings : /\ ItemEntry(v) \in Entry /\ ItemEntry(v).tag = "item"
                                    /\ ItemEntry(v).val = v
  BY DEF Entry, ItemEntry
<1> QED
  BY <1>1, <1>2, <1>3, <1>4 DEF Entry, EmptyEntry, Tombstone

LEMMA PutOK ==
  ASSUME NEW store \in [AllKeys -> Entry], NEW ks, NEW e \in Entry
  PROVE  /\ Put(store, ks, e) \in [AllKeys -> Entry]
         /\ \A k \in AllKeys : Put(store, ks, e)[k] = IF k \in ks THEN e ELSE store[k]
BY DEF Put

(* SetValue stores what it is given, or stores nothing. *)
LEMMA SetValueIs ==
  ASSUME NEW store \in [AllKeys -> Entry], NEW k \in AllKeys, NEW v, NEW s
  PROVE  LET new == SetValue(store, k, {k}, v, s) IN
         \/ store[k] = LockEntry(s) /\ new = Put(store, {k}, ItemEntry(v))
         \/ new = store
         \/ new = Put(store, {k}, EmptyEntry)
         \/ store[k].tag = "lock" /\ new = Put(store, {k}, Bumped(store[k]))
<1> DEFINE curr == store[k]
           verdict == CanSetValue(curr, v, s)
<1>1. /\ verdict \in {"set", "clear", "conflict", "none"}
      /\ verdict = "conflict" => curr.tag = "lock"
      /\ verdict = "set" => curr = LockEntry(s)
  BY DEF CanSetValue, IsLock
<1>2. SetValue(store, k, {k}, v, s) =
        IF curr.tag \in {"empty", "list"}
          THEN store
          ELSE CASE verdict = "set"      -> Put(store, {k}, ItemEntry(v))
                 [] verdict = "clear"    -> Put(store, {k}, EmptyEntry)
                 [] verdict = "conflict" -> Put(store, {k}, Bumped(curr))
                 [] verdict = "none"     -> store
  BY DEF SetValue
<1> HIDE DEF verdict
<1> QED
  BY <1>1, <1>2

LEMMA CatalogIsListing == ASSUME Inv PROVE Catalog \in Listings
BY CatalogShape DEF Inv, Catalog, Held

(* What a call is like: the lock it may have, the type it may save, and    *)
(* that a delete saves nothing.                                            *)
Shaped(o) ==
  /\ o.kind \in {"create", "update"} => o.s \in [kind : {"write"}, id : Ids] /\ o.val \in Defs
  /\ o.kind \in {"get", "list"} => o.s \in [kind : {"read"}, id : Ids] \cup {NoLock}
  /\ o.kind = "get" => o.pc \in {"locked", "answered"}
  /\ o.kind = "get" /\ o.pc = "answered" => o.val \in Defs
  /\ o.kind = "list" => o.pc \in {"locked", "answered", "closing"}
  /\ o.kind = "delete" => o.pc \in {"locked", "flushing", "closing"} /\ o.s = NoLock

(* No delete ever locks a type, and a type is cached as what it is.        *)
StoreOK(store) ==
  /\ store \in [AllKeys -> Entry]
  /\ \A k \in AllKeys : store[k].tag = "lock" => store[k].s.kind \in {"read", "write"}
  /\ \A t \in Types : store[t].tag = "item" => store[t].val \in Defs

Basic ==
  /\ StoreOK(cache)
  /\ during \in [Procs -> SUBSET Listings]
  /\ \A p \in Procs : Running(p) => Shaped(op[p])

LEMMA StoreOKPut ==
  ASSUME NEW store, StoreOK(store), NEW ks, NEW e \in Entry,
         e.tag = "lock" => e.s.kind \in {"read", "write"},
         e.tag = "item" => (ks \cap Types = {} \/ e.val \in Defs)
  PROVE  StoreOK(Put(store, ks, e))
<1> DEFINE new == Put(store, ks, e)
<1>1. /\ new \in [AllKeys -> Entry]
      /\ \A k \in AllKeys : new[k] = IF k \in ks THEN e ELSE store[k]
  BY PutOK DEF StoreOK
<1>2. Types \subseteq AllKeys
  BY DEF Types, AllKeys, Cursors
<1> HIDE DEF new
<1>3. StoreOK(new)
  BY <1>1, <1>2 DEF StoreOK
<1> QED
  BY <1>3 DEF new

LEMMA StoreOKSetValue ==
  ASSUME NEW store, StoreOK(store), NEW k \in AllKeys, NEW v \in Defs \cup Listings, NEW s,
         k \in Types => v \in Defs
  PROVE  StoreOK(SetValue(store, k, {k}, v, s))
<1> DEFINE new == SetValue(store, k, {k}, v, s)
<1>1. /\ ItemEntry(v) \in Entry /\ ItemEntry(v).tag = "item" /\ ItemEntry(v).val = v
      /\ EmptyEntry \in Entry /\ EmptyEntry.tag = "empty"
  BY EntryOK
<1>2. CASE store[k] = LockEntry(s) /\ new = Put(store, {k}, ItemEntry(v))
  BY <1>1, <1>2, StoreOKPut
<1>3. CASE new = Put(store, {k}, EmptyEntry)
  BY <1>1, <1>3, StoreOKPut
<1>4. CASE store[k].tag = "lock" /\ new = Put(store, {k}, Bumped(store[k]))
  <2>1. Bumped(store[k]) \in Entry /\ Bumped(store[k]).tag = "lock" /\ Bumped(store[k]).s = store[k].s
    BY <1>4, EntryOK DEF StoreOK
  <2>2. store[k].s.kind \in {"read", "write"}
    BY <1>4 DEF StoreOK
  <2> QED
    BY <1>4, <2>1, <2>2, StoreOKPut
<1>5. CASE new = store
  BY <1>5
<1>6. store \in [AllKeys -> Entry]
  BY DEF StoreOK
<1> HIDE DEF new
<1> QED
  BY <1>2, <1>3, <1>4, <1>5, <1>6, SetValueIs DEF new

(* What a call may save: of a type what it is, of a list what was found.   *)
LEMMA Savable ==
  ASSUME Inv, Basic, NEW p \in Procs, Running(p)
  PROVE  /\ op[p] \in Op /\ Shaped(op[p])
         /\ op[p].type \in AllKeys
         /\ op[p].kind # "list" => op[p].type \in Types
         /\ op[p].page \in Listings /\ op[p].found \in Listings
         /\ op[p].val \in Defs \cup {Nil}
BY RunningInOp DEF Inv, Basic, Listing, Op, AllKeys

LEMMA BasicMove ==
  ASSUME Basic, Inv, NEW p \in Procs, NEW o \in Op \cup {Idle}, Become(p, o),
         o # Idle => Shaped(o), StoreOK(cache'), during' \in [Procs -> SUBSET Listings]
  PROVE  Basic'
<1>1. \A q \in Procs : op'[q] = IF q = p THEN o ELSE op[q]
  BY DEF Become, Inv
<1> QED
  BY <1>1 DEF Basic, Running

LEMMA BasicGoto ==
  ASSUME Basic, Inv, NEW p \in Procs, Running(p), NEW pc \in {"clearing", "flushing", "closing"},
         Goto(p, pc), op[p].kind \in {"create", "update", "delete"},
         op[p].kind = "delete" => pc # "clearing",
         StoreOK(cache'), during' \in [Procs -> SUBSET Listings]
  PROVE  Basic'
<1> DEFINE o == [op[p] EXCEPT !.pc = pc]
<1>1. op[p] \in Op /\ Shaped(op[p])
  BY Savable
<1>2. o \in Op /\ o.kind = op[p].kind /\ o.pc = pc /\ o.s = op[p].s /\ o.val = op[p].val
  BY <1>1 DEF Op
<1>3. Become(p, o)
  BY DEF Goto
<1> HIDE DEF o
<1>4. Shaped(o)
  BY <1>1, <1>2 DEF Shaped
<1> QED
  BY <1>2, <1>3, <1>4, BasicMove

(* How a call begins. *)
Begun(p, kind, t, s, v) ==
  \E o \in Op :
    /\ o # Idle /\ Become(p, o)
    /\ o.kind = kind /\ o.pc = "locked" /\ o.type = t /\ o.s = s /\ o.val = v
    /\ o.found = Empty /\ o.page = Empty

LEMMA BeginIs ==
  ASSUME Inv, NEW p \in Procs, NEW kind \in {"get", "list"} \cup Mutations, NEW t \in Cursors,
         NEW s \in Sentinel \cup {NoLock}, NEW v \in Defs \cup {Nil}, Begin(p, kind, t, s, v)
  PROVE  Begun(p, kind, t, s, v)
<1> DEFINE o == [kind |-> kind, pc |-> "locked", type |-> t, s |-> s, val |-> v,
                 page |-> Empty, more |-> FALSE, found |-> Empty, again |-> FALSE]
<1>1. Empty \in Listings
  <2>1. Empty \in [{} -> Defs]
    BY DEF Empty
  <2> QED
    BY <2>1 DEF Listings
<1>2. o \in Op
  BY <1>1, Zenon DEF Op
<1>3. Become(p, o)
  BY DEF Begin, Become
<1>4. o.kind = kind /\ o.pc = "locked" /\ o.type = t /\ o.s = s /\ o.val = v
      /\ o.found = Empty /\ o.page = Empty
  OBVIOUS
<1> HIDE DEF o
<1> QED
  BY <1>2, <1>3, <1>4, IdleIsNoOp DEF Begun

LEMMA BeginBasic ==
  ASSUME Basic, Inv, NEW p \in Procs, NEW kind \in {"get", "list"} \cup Mutations,
         NEW t \in Cursors, NEW s \in Sentinel \cup {NoLock}, NEW v \in Defs \cup {Nil},
         Begin(p, kind, t, s, v), StoreOK(cache'),
         kind \in {"create", "update"} => s \in [kind : {"write"}, id : Ids] /\ v \in Defs,
         kind \in {"get", "list"} => s \in [kind : {"read"}, id : Ids] \cup {NoLock},
         kind = "delete" => s = NoLock
  PROVE  Basic'
<1>0. Begun(p, kind, t, s, v)
  BY BeginIs
<1>1. PICK o \in Op : /\ o # Idle /\ Become(p, o)
                      /\ o.kind = kind /\ o.pc = "locked" /\ o.type = t /\ o.s = s /\ o.val = v
                      /\ o.found = Empty /\ o.page = Empty
  BY <1>0 DEF Begun
<1>2. Shaped(o)
  BY <1>1 DEF Shaped
<1>3. during' \in [Procs -> SUBSET Listings]
  BY CatalogIsListing DEF Begin, Basic
<1> QED
  BY <1>1, <1>2, <1>3, BasicMove

LEMMA FreshIs ==
  ASSUME NEW kind \in Kinds, NEW s \in FreshSentinel(kind)
  PROVE  s \in Sentinel /\ s \in [kind : {kind}, id : Ids] /\ s.kind = kind /\ s.id \notin InUse
BY DEF FreshSentinel, Sentinel

LEMMA BeginReadBasic ==
  ASSUME Basic, Inv, NEW p \in Procs, NEW kind \in {"get", "list"}, NEW k \in Cursors,
         BeginRead(p, kind, k)
  PROVE  Basic'
<1>1. PICK s \in IF cache[k] = EmptyEntry THEN FreshSentinel("read") ELSE {NoLock} :
        /\ Begin(p, kind, k, s, Nil)
        /\ cache' = IF s = NoLock THEN cache ELSE LockOnMiss(cache, k, s)
  BY DEF BeginRead
<1>2. s = NoLock \/ (s \in Sentinel /\ s \in [kind : {"read"}, id : Ids] /\ s.kind = "read")
  BY <1>1, FreshIs DEF Kinds
<1>3. StoreOK(cache')
  <2>1. CASE cache' = cache
    BY <2>1 DEF Basic
  <2>2. CASE s # NoLock /\ cache' = Put(cache, {k}, LockEntry(s))
    <3>1. LockEntry(s) \in Entry /\ LockEntry(s).tag = "lock" /\ LockEntry(s).s = s
      BY <1>2, <2>2, EntryOK
    <3> QED
      BY <1>2, <2>2, <3>1, StoreOKPut DEF Basic
  <2> QED
    BY <1>1, <2>1, <2>2 DEF LockOnMiss
<1>4. kind \in {"get", "list"} \cup Mutations /\ kind \notin Mutations
  BY DEF Mutations
<1> QED
  BY <1>1, <1>2, <1>3, <1>4, BeginBasic DEF Mutations

(* A write takes its lock over from whoever has it. *)
LEMMA PutLocks ==
  ASSUME Basic, NEW t \in Types, NEW s \in FreshSentinel("write")
  PROVE  /\ Granted(cache, s, LockKeys(t)) = s
         /\ WriteSentinel(cache, s, LockKeys(t)) = Put(cache, Lockable(cache, LockKeys(t)), LockEntry(s))
         /\ t \in Lockable(cache, LockKeys(t))
         /\ Lockable(cache, LockKeys(t)) \subseteq {t, Collection}
         /\ StoreOK(WriteSentinel(cache, s, LockKeys(t)))
<1>1. s \in Sentinel /\ s.kind = "write"
  BY FreshIs DEF Kinds
<1>2. t \in AllKeys
  BY DEF Types, AllKeys, Cursors
<1>3. LockKeys(t)[1] = t /\ LockKeys(t)[2] = Collection /\ Len(LockKeys(t)) = 2
  BY DEF LockKeys
<1>4. ~Unavailable(cache, s, LockKeys(t))
  BY <1>1, <1>2, <1>3 DEF Unavailable, CanSetSentinelGivenCurrVal, IsLock, Basic, StoreOK
<1>5. t \in Lockable(cache, LockKeys(t)) /\ Lockable(cache, LockKeys(t)) \subseteq {t, Collection}
  BY <1>3 DEF Lockable
<1>6. LockEntry(s) \in Entry /\ LockEntry(s).tag = "lock" /\ LockEntry(s).s = s
  BY <1>1, EntryOK
<1>7. WriteSentinel(cache, s, LockKeys(t)) = Put(cache, Lockable(cache, LockKeys(t)), LockEntry(s))
  BY <1>4 DEF WriteSentinel
<1>8. StoreOK(WriteSentinel(cache, s, LockKeys(t)))
  BY <1>1, <1>6, <1>7, StoreOKPut DEF Basic
<1> QED
  BY <1>4, <1>5, <1>7, <1>8 DEF Granted

LEMMA BeginPutBasic ==
  ASSUME Basic, Inv, NEW p \in Procs, NEW kind \in {"create", "update"}, NEW t \in Types,
         BeginPut(p, kind, t)
  PROVE  Basic'
<1>1. PICK s \in FreshSentinel("write"), v \in mix.defs :
        /\ Begin(p, kind, t, Granted(cache, s, LockKeys(t)), v)
        /\ cache' = WriteSentinel(cache, s, LockKeys(t))
  BY DEF BeginPut
<1>2. Granted(cache, s, LockKeys(t)) = s /\ StoreOK(cache')
  BY <1>1, PutLocks
<1>3. s \in Sentinel /\ s \in [kind : {"write"}, id : Ids]
  BY <1>1, FreshIs DEF Kinds
<1>4. v \in Defs
  BY <1>1 DEF Inv
<1>5. t \in Cursors /\ kind \in Mutations /\ kind \notin {"get", "list", "delete"}
  BY DEF Types, Cursors, Mutations
<1> QED
  BY <1>1, <1>2, <1>3, <1>4, <1>5, BeginBasic

LEMMA ServeMutationBasic ==
  ASSUME Basic, Inv, Inv', NEW p \in Procs, ServeMutation(p)
  PROVE  Basic'
<1> DEFINE o == op[p]
<1>1. Running(p) /\ o.kind \in {"create", "update", "delete"} /\ o.pc = "locked"
  BY DEF ServeMutation, Mutating, Mutations
<1>2. o \in Op /\ Shaped(o)
  BY <1>1, Savable
<1>3. during' \in [Procs -> SUBSET Listings]
  <2>1. CASE during' = during
    BY <2>1 DEF Basic
  <2>2. CASE during' = [q \in Procs |-> IF Running(q) /\ op[q].kind = "list"
                THEN during[q] \cup {[t \in {u \in Types : db'[u] # Nil} |-> db'[t]]}
                ELSE {}]
    <3>1. [t \in {u \in Types : db'[u] # Nil} |-> db'[t]] \in Listings
      <4>1. db' \in [Types -> Defs \cup {Nil}]
        BY DEF Inv
      <4> DEFINE S == {u \in Types : db'[u] # Nil}
      <4>2. S \in SUBSET {u \in Types : db'[u] # Nil}
        OBVIOUS
      <4> QED
        BY <4>1, <4>2, CatalogShape
    <3> DEFINE c == [t \in {u \in Types : db'[u] # Nil} |-> db'[t]]
    <3>2. during' = [q \in Procs |-> IF Running(q) /\ op[q].kind = "list" THEN during[q] \cup {c} ELSE {}]
      BY <2>2
    <3> HIDE DEF c
    <3> QED
      BY <3>1, <3>2 DEF Basic, c
  <2> QED
    BY <2>1, <2>2 DEF ServeMutation
<1>4. StoreOK(cache')
  BY DEF ServeMutation, Basic
<1>5. CASE Goto(p, "answered") /\ o.kind # "delete"
  <2> DEFINE n == [o EXCEPT !.pc = "answered"]
  <2>1. n \in Op /\ n.kind = o.kind /\ n.pc = "answered" /\ n.s = o.s /\ n.val = o.val
    BY <1>2 DEF Op
  <2>2. Become(p, n)
    BY <1>5 DEF Goto
  <2> HIDE DEF n
  <2>3. Shaped(n)
    BY <1>1, <1>2, <1>5, <2>1 DEF Shaped
  <2> QED
    BY <1>3, <1>4, <2>1, <2>2, <2>3, BasicMove
<1>6. CASE Goto(p, "flushing") \/ Goto(p, "closing")
  BY <1>1, <1>3, <1>4, <1>6, BasicGoto
<1> QED
  BY <1>5, <1>6 DEF ServeMutation

LEMMA SavePutBasic ==
  ASSUME Basic, Inv, NEW p \in Procs, SavePut(p)
  PROVE  Basic' /\ Goto(p, "clearing")
                /\ cache' = SetValue(cache, op[p].type, {op[p].type}, op[p].val, op[p].s)
<1> DEFINE o == op[p]
<1>1. Running(p) /\ o.kind \in {"create", "update", "delete"} /\ o.pc = "answered"
  BY DEF SavePut, Mutating, Mutations
<1>2. o \in Op /\ Shaped(o) /\ o.type \in AllKeys /\ o.type \in Types
  BY <1>1, Savable
<1>3. o.kind # "delete" /\ o.s # NoLock /\ o.val \in Defs
  BY <1>1, <1>2 DEF Shaped, NoLock
<1>4. Goto(p, "clearing") /\ cache' = SetValue(cache, o.type, {o.type}, o.val, o.s)
  BY <1>3 DEF SavePut, SavedItem
<1>5. StoreOK(cache')
  BY <1>2, <1>3, <1>4, StoreOKSetValue DEF Basic
<1>6. during' \in [Procs -> SUBSET Listings]
  BY DEF SavePut, Basic
<1> QED
  BY <1>1, <1>3, <1>4, <1>5, <1>6, BasicGoto

(* Clearing, flushing and releasing put nothing in the cache.              *)
LEMMA Emptied ==
  ASSUME NEW store, StoreOK(store), NEW ks
  PROVE  StoreOK(Put(store, ks, EmptyEntry)) /\ StoreOK(Put(store, ks, Tombstone))
BY StoreOKPut, EntryOK

LEMMA EndingsBasic ==
  ASSUME Basic, Inv, NEW p \in Procs, ClearCollection(p) \/ FlushCache(p) \/ Close(p)
  PROVE  Basic'
<1>1. Running(p) /\ op[p].kind \in {"create", "update", "delete"}
  BY DEF ClearCollection, FlushCache, Close, Mutating, Mutations
<1>2. during' \in [Procs -> SUBSET Listings]
  BY DEF ClearCollection, FlushCache, Close, Basic
<1>3. CASE ClearCollection(p)
  <2>1. StoreOK(cache')
    BY <1>3, Emptied DEF ClearCollection, Basic
  <2> QED
    BY <1>1, <1>2, <1>3, <2>1, BasicGoto DEF ClearCollection
<1>4. CASE FlushCache(p)
  <2>1. StoreOK(cache')
    BY <1>4, Emptied DEF FlushCache, Flush, Basic
  <2> QED
    BY <1>1, <1>2, <1>4, <2>1, BasicGoto DEF FlushCache
<1>5. CASE Close(p)
  <2>1. StoreOK(cache')
    BY <1>5, Emptied DEF Close, ReleaseSentinel, Basic
  <2> QED
    BY <1>2, <1>5, <2>1, BasicMove DEF Close
<1> QED
  BY <1>3, <1>4, <1>5

LEMMA GetBasic ==
  ASSUME Basic, Inv, NEW p \in Procs, ServeGet(p) \/ SaveGet(p)
  PROVE  Basic'
<1> DEFINE o == op[p]
<1>1. Running(p) /\ o.kind = "get"
  BY DEF ServeGet, SaveGet, At
<1>2. o \in Op /\ Shaped(o) /\ o.type \in AllKeys /\ o.type \in Types
  BY <1>1, Savable
<1>3. during' \in [Procs -> SUBSET Listings]
  BY DEF ServeGet, SaveGet, Basic
<1>4. CASE ServeGet(p)
  <2>1. StoreOK(cache')
    BY <1>4 DEF ServeGet, Basic
  <2>2. CASE Become(p, Idle)
    BY <1>3, <2>1, <2>2, BasicMove
  <2>3. CASE /\ db[o.type] # Nil
             /\ Become(p, [o EXCEPT !.pc = "answered", !.val = db[o.type]])
    <3> DEFINE v == db[o.type]
               n == [o EXCEPT !.pc = "answered", !.val = v]
    <3>1. v \in Defs
      BY <1>2, <2>3 DEF Inv
    <3>2. Become(p, n)
      BY <2>3
    <3> HIDE DEF v
    <3>3. n \in Op /\ n.kind = "get" /\ n.pc = "answered" /\ n.val = v /\ n.s = o.s
      BY <1>1, <1>2, <3>1 DEF Op
    <3> HIDE DEF n
    <3>4. Shaped(n)
      BY <1>1, <1>2, <3>1, <3>3 DEF Shaped
    <3> QED
      BY <1>3, <2>1, <3>2, <3>3, <3>4, BasicMove
  <2> QED
    BY <1>4, <2>2, <2>3 DEF ServeGet
<1>5. CASE SaveGet(p)
  <2>1. o.val \in Defs
    BY <1>1, <1>2, <1>5 DEF SaveGet, At, Shaped
  <2>2. cache' = cache \/ cache' = SetValue(cache, o.type, {o.type}, o.val, o.s)
    BY <1>5 DEF SaveGet, SavedItem
  <2>3. StoreOK(cache')
    BY <1>2, <2>1, <2>2, StoreOKSetValue DEF Basic
  <2> QED
    BY <1>3, <1>5, <2>3, BasicMove DEF SaveGet
<1> QED
  BY <1>4, <1>5

LEMMA ListBasic ==
  ASSUME Basic, Inv, Inv', NEW p \in Procs, ListStep(p)
  PROVE  Basic'
<1> DEFINE o == op[p]
<1>1. Running(p) /\ o.kind = "list"
  BY DEF ListStep, ServePage, FailPage, SavePage, SaveList, At
<1>2. o \in Op /\ Shaped(o) /\ o.page \in Listings /\ o.found \in Listings
  BY <1>1, Savable
<1>3. during' \in [Procs -> SUBSET Listings]
  BY DEF ListStep, ServePage, FailPage, SavePage, SaveList, Basic
<1>4. \A l \in Listings : DOMAIN l \subseteq Types /\ \A t \in DOMAIN l : l[t] \in Defs
  BY DEF Listings
<1>5. StoreOK(cache')
  <2>1. CASE ServePage(p) \/ FailPage(p)
    BY <2>1 DEF ServePage, FailPage, Basic
  <2>2. CASE SavePage(p)
    <3> DEFINE new == [k \in AllKeys |-> IF k \in DOMAIN o.page THEN ItemEntry(o.page[k]) ELSE cache[k]]
    <3>1. \A t \in DOMAIN o.page : /\ ItemEntry(o.page[t]) \in Entry
                                   /\ ItemEntry(o.page[t]).tag = "item"
                                   /\ ItemEntry(o.page[t]).val \in Defs
      BY <1>2, <1>4, EntryOK
    <3>2. Types \subseteq AllKeys
      BY DEF Types, AllKeys, Cursors
    <3>3. StoreOK(new)
      BY <1>2, <1>4, <3>1, <3>2 DEF StoreOK, Basic
    <3> HIDE DEF new
    <3>4. cache' = cache \/ cache' = new
      BY <2>2 DEF SavePage, new
    <3> QED
      BY <3>3, <3>4 DEF Basic
  <2>3. CASE SaveList(p)
    <3>1. Collection \in AllKeys /\ Collection \notin Types
      BY DEF Types, AllKeys, Cursors, Collection
    <3>2. StoreOK(SetValue(cache, Collection, {Collection}, o.found, o.s))
      BY <1>2, <3>1, StoreOKSetValue DEF Basic
    <3> QED
      BY <2>3, <3>2 DEF SaveList, Gathered, Basic
  <2> QED
    BY <2>1, <2>2, <2>3 DEF ListStep
<1>6. op' \in [Procs -> Op \cup {Idle}]
  BY DEF Inv
<1>7. PICK n : Become(p, n) /\ (n = Idle \/ (n.kind = "list" /\ n.s = o.s /\ n.pc \in {"locked", "answered", "closing"}))
  <2>1. CASE Become(p, Idle)
    BY <2>1
  <2>2. CASE ServePage(p)
    <3> DEFINE page == [t \in PageOf(p, o.type) |-> db[t]]
               more == PageOf(p, o.type) # After(p, o.type)
    <3> HIDE DEF page, more
    <3> DEFINE n == [o EXCEPT !.pc = "answered", !.page = page, !.more = more]
    <3>1. Become(p, n)
      BY <2>2 DEF ServePage, page, more
    <3>2. n.kind = "list" /\ n.s = o.s /\ n.pc = "answered"
      BY <1>1, <1>2 DEF Op
    <3> QED
      BY <3>1, <3>2
  <2>3. CASE SavePage(p)
    <3> DEFINE found == [t \in DOMAIN o.found \cup DOMAIN o.page |->
                           IF t \in DOMAIN o.page THEN o.page[t] ELSE o.found[t]]
               type == IF o.more THEN AdvanceCursor(o) ELSE o.type
               again == (o.again \/ DOMAIN o.found \cap DOMAIN o.page # {})
               pc == IF o.more THEN "locked" ELSE "closing"
               n == [o EXCEPT !.pc = pc, !.type = type, !.again = again,
                              !.found = found, !.page = Empty, !.more = FALSE]
    <3>1. Become(p, n)
      BY <2>3 DEF SavePage
    <3>2. pc \in {"locked", "closing"}
      OBVIOUS
    <3> HIDE DEF found, type, again, pc
    <3>3. n.kind = "list" /\ n.s = o.s /\ n.pc = pc
      BY <1>1, <1>2 DEF Op
    <3> HIDE DEF n
    <3> QED
      BY <3>1, <3>2, <3>3
  <2> QED
    BY <2>1, <2>2, <2>3 DEF ListStep, FailPage, SaveList
<1>8. n \in Op \cup {Idle}
  BY <1>6, <1>7 DEF Become, Inv
<1>9. n # Idle => Shaped(n)
  BY <1>1, <1>2, <1>7 DEF Shaped
<1> QED
  BY <1>3, <1>5, <1>7, <1>8, <1>9, BasicMove

LEMMA BasicNext == Inv /\ Basic /\ [Next]_vars => Basic'
<1> SUFFICES ASSUME Inv, Basic, [Next]_vars PROVE Basic'
  OBVIOUS
<1>1. Inv'
  BY InvNext
<1>2. CASE UNCHANGED vars
  BY <1>2 DEF vars, Basic, Running
<1>3. CASE Step
  <2>1. ASSUME NEW p \in Procs, BeginList(p) PROVE Basic'
    <3>1. Collection \in Cursors
      BY DEF Cursors, Collection
    <3> QED
      BY <2>1, <3>1, BeginReadBasic DEF BeginList
  <2>2. ASSUME NEW p \in Procs, NEW t \in Types,
               \/ BeginGet(p, t) \/ BeginDelete(p, t)
               \/ BeginPut(p, "create", t) \/ BeginPut(p, "update", t)
        PROVE  Basic'
    <3>1. t \in Cursors
      BY DEF Types, Cursors
    <3>2. CASE BeginGet(p, t)
      BY <3>1, <3>2, BeginReadBasic DEF BeginGet
    <3>3. CASE BeginDelete(p, t)
      BY <3>1, <3>3, BeginBasic DEF BeginDelete, Mutations, Basic
    <3> QED
      BY <2>2, <3>2, <3>3, BeginPutBasic
  <2>3. ASSUME NEW k \in AllKeys, Expire(k) PROVE Basic'
    BY <2>3, Emptied DEF Expire, Basic, Running
  <2> QED
    BY <1>1, <1>3, <2>1, <2>2, <2>3, GetBasic, ListBasic, ServeMutationBasic, SavePutBasic,
       EndingsBasic DEF Step
<1> QED
  BY <1>2, <1>3 DEF Next

LEMMA BasicInit == Init => Basic
<1> SUFFICES ASSUME Init PROVE Basic
  OBVIOUS
<1>1. StoreOK(cache)
  BY EntryOK DEF Init, StoreOK, Types, AllKeys, Cursors
<1> QED
  BY <1>1 DEF Init, Basic, Running

(* The cache, the server's types and the calls keep their shapes, whatever *)
(* is called (the calls of authz/client.go for edge types and object types).*)
THEOREM TypeCorrect == Spec => []TypeOK
<1>1. Inv /\ Basic => TypeOK
  BY DEF Inv, Basic, StoreOK, TypeOK
<1> QED
  BY <1>1, InvInit, InvNext, BasicInit, BasicNext, PTL DEF Spec

-----------------------------------------------------------------------------
(* Coherence.  Until an update or a delete that the server has handled has *)
(* flushed the cache, what is cached or about to be may be of before; and  *)
(* a collection may be until a create has cleared it.  A flush that came   *)
(* too early for what is about to be cached has taken the lock that it     *)
(* would be saved under.                                                   *)
Handled(o) == /\ o # Idle /\ o.kind \in {"update", "delete"}
              /\ o.pc \in {"answered", "clearing", "flushing"}
Making(o) == o # Idle /\ o.kind = "create" /\ o.pc \in {"answered", "clearing"}
Pending == \E q \in Procs : Handled(op[q])
Created == \E q \in Procs : Making(op[q])

HoldsIn(store, o, k) == store[k] = LockEntry(o.s)

(* What a list has found is the catalog as far as it has got.              *)
FoundSoFar(o, d) ==
  /\ \A t \in DOMAIN o.found : o.found[t] = d[t]
  /\ o.pc \in {"locked", "answered"} =>
       \A t \in Types : d[t] # Nil /\ t <= o.type => t \in DOMAIN o.found
  /\ o.pc = "answered" =>
       \A t \in Types :
         (d[t] # Nil /\ o.type < t /\ (o.more => \E u \in DOMAIN o.page : t <= u))
           => t \in DOMAIN o.page
  /\ o.pc = "closing" => \A t \in Types : d[t] # Nil => t \in DOMAIN o.found

(* What a call is about to save is the server's, if it has its lock still. *)
SaverOK(o, store, d, pend, made) ==
  /\ o.kind \in {"get", "create", "update"} /\ o.pc = "answered" /\ HoldsIn(store, o, o.type)
       => o.val = d[o.type] \/ pend
  /\ o.kind = "list" /\ HoldsIn(store, o, Collection) =>
       /\ o.pc = "answered" => pend \/ \A t \in DOMAIN o.page : o.page[t] = d[t]
       /\ FoundSoFar(o, d) \/ pend \/ made

CachedOK(store, d, pend, made) ==
  /\ \A t \in Types : store[t].tag = "item" => store[t].val = d[t] \/ pend
  /\ store[Collection].tag = "item" =>
       store[Collection].val = [t \in {u \in Types : d[u] # Nil} |-> d[t]] \/ pend \/ made

Coherent ==
  /\ \A p \in Procs : Running(p) => SaverOK(op[p], cache, db, Pending, Created)
  /\ CachedOK(cache, db, Pending, Created)

LEMMA KeysAre == Types \subseteq AllKeys /\ Collection \in AllKeys /\ Collection \notin Types
BY DEF Types, AllKeys, Cursors, Collection

(* A store is calm if no item is new in it, and no lock regained.          *)
LocksKept(new) ==
  \A q \in Procs, k \in AllKeys : Running(q) /\ HoldsIn(new, op[q], k) => HoldsIn(cache, op[q], k)
Calm(new) ==
  /\ \A k \in AllKeys : new[k].tag = "item" => new[k] = cache[k]
  /\ LocksKept(new)

LEMMA CalmSame == Calm(cache)
BY DEF Calm, LocksKept

LEMMA CalmPut ==
  ASSUME Basic, NEW ks, NEW e \in Entry, e.tag # "item",
         e.tag = "lock" => e.bumped \/ e.s.id \notin InUse
  PROVE  Calm(Put(cache, ks, e))
<1> DEFINE new == Put(cache, ks, e)
<1>1. \A k \in AllKeys : new[k] = IF k \in ks THEN e ELSE cache[k]
  BY PutOK DEF Basic, StoreOK
<1>2. \A q \in Procs : Running(q) => e # LockEntry(op[q].s)
  <2> SUFFICES ASSUME NEW q \in Procs, Running(q), e = LockEntry(op[q].s) PROVE FALSE
    OBVIOUS
  <2>1. e.tag = "lock" /\ ~e.bumped /\ e.s = op[q].s
    BY DEF LockEntry
  <2>2. e.s \in Sentinel
    BY <2>1, EntryOK
  <2>3. op[q].s # NoLock
    BY <2>1, <2>2 DEF Sentinel, NoLock
  <2>4. op[q].s.id \in InUse
    BY <2>3 DEF InUse
  <2> QED
    BY <2>1, <2>4
<1> HIDE DEF new
<1>3. Calm(new)
  BY <1>1, <1>2 DEF Calm, LocksKept, HoldsIn
<1> QED
  BY <1>3 DEF new

LEMMA CalmSetValue ==
  ASSUME Basic, NEW k \in AllKeys, NEW v, NEW s
  PROVE  LET new == SetValue(cache, k, {k}, v, s) IN
         \/ cache[k] = LockEntry(s) /\ new = Put(cache, {k}, ItemEntry(v))
         \/ Calm(new)
<1> DEFINE new == SetValue(cache, k, {k}, v, s)
<1>1. cache \in [AllKeys -> Entry]
  BY DEF Basic, StoreOK
<1>2. CASE new = cache
  BY <1>2, CalmSame
<1>3. CASE new = Put(cache, {k}, EmptyEntry)
  BY <1>3, CalmPut, EntryOK
<1>4. CASE cache[k].tag = "lock" /\ new = Put(cache, {k}, Bumped(cache[k]))
  <2>1. Bumped(cache[k]) \in Entry /\ Bumped(cache[k]).tag = "lock" /\ Bumped(cache[k]).bumped
    BY <1>1, <1>4, EntryOK
  <2> QED
    BY <1>4, <2>1, CalmPut
<1> HIDE DEF new
<1> QED
  BY <1>1, <1>2, <1>3, <1>4, SetValueIs DEF new

(* A step of one call that stays what it is to others keeps both of them. *)
LEMMA Stays ==
  ASSUME Inv, NEW p \in Procs, NEW o, Become(p, o),
         Handled(op[p]) => Handled(o), Making(op[p]) => Making(o)
  PROVE  (Pending => Pending') /\ (Created => Created')
<1>1. \A q \in Procs : op'[q] = IF q = p THEN o ELSE op[q]
  BY DEF Inv, Become
<1> QED
  BY <1>1 DEF Pending, Created

(* A step that leaves the server alone, adds nothing to the cache but what *)
(* may be there, and gives nobody a lock that another had.                 *)
LEMMA Move ==
  ASSUME Coherent, db' = db, LocksKept(cache'), CachedOK(cache', db, Pending', Created'),
         Basic', Inv, Inv',
         \A q \in Procs : \/ op'[q] = op[q] \/ op'[q] = Idle
                          \/ SaverOK(op'[q], cache', db, Pending', Created'),
         Pending => Pending' \/ \A k \in AllKeys : cache'[k].tag # "lock",
         Created => Created' \/ cache'[Collection].tag # "lock"
  PROVE  Coherent'
<1>1. ASSUME NEW q \in Procs, op'[q] # Idle, op'[q] = op[q]
      PROVE  SaverOK(op[q], cache', db, Pending', Created')
  <2>1. Running(q) /\ SaverOK(op[q], cache, db, Pending, Created)
    BY <1>1 DEF Running, Coherent
  <2>2. op[q].kind # "list" => op[q].type \in AllKeys
    BY <2>1, KeysAre DEF Inv, Listing
  <2>3. \A k \in AllKeys : HoldsIn(cache', op[q], k) =>
          HoldsIn(cache, op[q], k) /\ cache'[k].tag = "lock"
    BY <2>1 DEF LocksKept, HoldsIn, LockEntry
  <2>4. ASSUME op[q].kind \in {"get", "create", "update"}, op[q].pc = "answered",
               HoldsIn(cache', op[q], op[q].type)
        PROVE  op[q].val = db[op[q].type] \/ Pending'
    BY <2>1, <2>2, <2>3, <2>4 DEF SaverOK
  <2>5. ASSUME op[q].kind = "list", HoldsIn(cache', op[q], Collection)
        PROVE  /\ op[q].pc = "answered" => Pending' \/ \A t \in DOMAIN op[q].page : op[q].page[t] = db[t]
               /\ FoundSoFar(op[q], db) \/ Pending' \/ Created'
    BY <2>1, <2>3, <2>5, KeysAre DEF SaverOK
  <2> QED
    BY <2>4, <2>5 DEF SaverOK
<1>2. ASSUME NEW q \in Procs, op'[q] # Idle
      PROVE  SaverOK(op'[q], cache', db', Pending', Created')
  BY <1>1, <1>2
<1> QED
  BY <1>2 DEF Coherent, Running

LEMMA CalmMove ==
  ASSUME Coherent, db' = db, Calm(cache'), Basic', Inv, Inv',
         \A q \in Procs : \/ op'[q] = op[q] \/ op'[q] = Idle
                          \/ SaverOK(op'[q], cache', db, Pending', Created'),
         Pending => Pending' \/ \A k \in AllKeys : cache'[k].tag \notin {"item", "lock"},
         Created => Created' \/ cache'[Collection].tag \notin {"item", "lock"}
  PROVE  Coherent'
<1>1. CachedOK(cache', db, Pending', Created')
  <2>1. CachedOK(cache, db, Pending, Created)
    BY DEF Coherent
  <2> QED
    BY <2>1, KeysAre DEF CachedOK, Calm
<1> QED
  BY <1>1, Move DEF Calm

LEMMA CalmOne ==
  ASSUME Coherent, Inv, Inv', Basic', db' = db, NEW p \in Procs, NEW o, Become(p, o),
         Handled(op[p]) => Handled(o), Making(op[p]) => Making(o), Calm(cache'),
         o # Idle => SaverOK(o, cache', db, Pending', Created')
  PROVE  Coherent'
<1>1. \A q \in Procs : op'[q] = IF q = p THEN o ELSE op[q]
  BY DEF Inv, Become
<1>2. (Pending => Pending') /\ (Created => Created')
  BY Stays
<1> QED
  BY <1>1, <1>2, CalmMove

(* A call that begins has nothing to save yet.                             *)
LEMMA BeginCoherent ==
  ASSUME Coherent, Inv, Inv', Basic', db' = db, NEW p \in Procs,
         NEW kind \in {"get", "list"} \cup Mutations, NEW t \in Cursors, kind = "list" => t = 0,
         NEW s \in Sentinel \cup {NoLock}, NEW v \in Defs \cup {Nil}, Begin(p, kind, t, s, v),
         Calm(cache')
  PROVE  Coherent'
<1>0. Begun(p, kind, t, s, v)
  BY BeginIs
<1>1. PICK o \in Op : /\ o # Idle /\ Become(p, o)
                      /\ o.kind = kind /\ o.pc = "locked" /\ o.type = t /\ o.s = s /\ o.val = v
                      /\ o.found = Empty /\ o.page = Empty
  BY <1>0 DEF Begun
<1>2. op[p] = Idle
  BY DEF Begin
<1>3. kind = "list" => FoundSoFar(o, db)
  BY <1>1 DEF FoundSoFar, Empty, Types
<1>4. SaverOK(o, cache', db, Pending', Created')
  BY <1>1, <1>3 DEF SaverOK
<1>5. ~Handled(op[p]) /\ ~Making(op[p])
  BY <1>2 DEF Handled, Making
<1> QED
  BY <1>1, <1>4, <1>5, CalmOne

LEMMA BeginReadCoherent ==
  ASSUME Coherent, Inv, Inv', Basic, Basic', NEW p \in Procs,
         NEW kind \in {"get", "list"}, NEW k \in Cursors, kind = "list" => k = 0,
         BeginRead(p, kind, k)
  PROVE  Coherent'
<1>1. PICK s \in IF cache[k] = EmptyEntry THEN FreshSentinel("read") ELSE {NoLock} :
        /\ Begin(p, kind, k, s, Nil)
        /\ cache' = IF s = NoLock THEN cache ELSE LockOnMiss(cache, k, s)
  BY DEF BeginRead
<1>2. s = NoLock \/ (s \in Sentinel /\ s.id \notin InUse)
  BY <1>1, FreshIs DEF Kinds
<1>3. Calm(cache')
  <2>1. CASE cache' = cache
    BY <2>1, CalmSame
  <2>2. CASE s # NoLock /\ cache' = Put(cache, {k}, LockEntry(s))
    <3>1. LockEntry(s) \in Entry /\ LockEntry(s).tag = "lock" /\ LockEntry(s).s = s
      BY <1>2, <2>2, EntryOK
    <3> QED
      BY <1>2, <2>2, <3>1, CalmPut
  <2> QED
    BY <1>1, <2>1, <2>2 DEF LockOnMiss
<1>4. kind \in {"get", "list"} \cup Mutations /\ db' = db
  BY DEF BeginRead
<1> QED
  BY <1>1, <1>2, <1>3, <1>4, BeginCoherent

LEMMA BeginPutCoherent ==
  ASSUME Coherent, Inv, Inv', Basic, Basic', NEW p \in Procs,
         NEW kind \in {"create", "update"}, NEW t \in Types, BeginPut(p, kind, t)
  PROVE  Coherent'
<1>1. PICK s \in FreshSentinel("write"), v \in mix.defs :
        /\ Begin(p, kind, t, Granted(cache, s, LockKeys(t)), v)
        /\ cache' = WriteSentinel(cache, s, LockKeys(t))
  BY DEF BeginPut
<1>2. /\ Granted(cache, s, LockKeys(t)) = s
      /\ cache' = Put(cache, Lockable(cache, LockKeys(t)), LockEntry(s))
  BY <1>1, PutLocks
<1>3. s \in Sentinel /\ s.id \notin InUse
  BY <1>1, FreshIs DEF Kinds
<1>4. LockEntry(s) \in Entry /\ LockEntry(s).tag = "lock" /\ LockEntry(s).s = s
  BY <1>3, EntryOK
<1>5. Calm(cache')
  BY <1>2, <1>3, <1>4, CalmPut
<1>6. v \in Defs
  BY <1>1 DEF Inv
<1>7. t \in Cursors /\ kind \in Mutations /\ kind # "list" /\ db' = db
  BY DEF Types, Cursors, Mutations, BeginPut
<1> QED
  BY <1>1, <1>2, <1>3, <1>5, <1>6, <1>7, BeginCoherent

(* What is put under one key has to be what the server has.                *)
LEMMA PutItem ==
  ASSUME Coherent, Basic, db' = db, NEW k \in AllKeys, NEW v \in Defs \cup Listings,
         cache' = Put(cache, {k}, ItemEntry(v)),
         Pending => Pending', Created => Created',
         k \in Types => v = db[k] \/ Pending',
         k = Collection => v = Catalog \/ Pending' \/ Created'
  PROVE  LocksKept(cache') /\ CachedOK(cache', db, Pending', Created')
<1>1. \A l \in AllKeys : cache'[l] = IF l = k THEN ItemEntry(v) ELSE cache[l]
  BY EntryOK, PutOK DEF Basic, StoreOK
<1>2. ItemEntry(v).tag = "item" /\ ItemEntry(v).val = v /\ \A s : ItemEntry(v) # LockEntry(s)
  BY EntryOK DEF LockEntry
<1>3. LocksKept(cache')
  BY <1>1, <1>2 DEF LocksKept, HoldsIn
<1>4. CachedOK(cache, db, Pending, Created)
  BY DEF Coherent
<1>5. CachedOK(cache', db, Pending', Created')
  <2>1. \A t \in Types : cache'[t].tag = "item" => cache'[t].val = db[t] \/ Pending'
    BY <1>1, <1>2, <1>4, KeysAre DEF CachedOK
  <2>2. cache'[Collection].tag = "item" => cache'[Collection].val = Catalog \/ Pending' \/ Created'
    BY <1>1, <1>2, <1>4, KeysAre DEF CachedOK, Catalog, Held
  <2> QED
    BY <2>1, <2>2 DEF CachedOK, Catalog, Held
<1> QED
  BY <1>3, <1>5

(* A call that saves goes on with nothing more to save.                    *)
LEMMA SaveCoherent ==
  ASSUME Coherent, Inv, Inv', Basic, Basic', db' = db, NEW p \in Procs, NEW o, Become(p, o),
         Handled(op[p]) => Handled(o), Making(op[p]) => Making(o),
         o # Idle => o.pc = "clearing" /\ o.kind \in {"create", "update"},
         NEW k \in AllKeys, NEW v \in Defs \cup Listings, NEW s,
         cache' = SetValue(cache, k, {k}, v, s),
         k \in Types /\ cache[k] = LockEntry(s) => v = db[k] \/ Pending,
         k = Collection /\ cache[k] = LockEntry(s) => v = Catalog \/ Pending \/ Created
  PROVE  Coherent'
<1>1. (Pending => Pending') /\ (Created => Created')
  BY Stays
<1>2. o # Idle => SaverOK(o, cache', db, Pending', Created')
  BY DEF SaverOK
<1>3. CASE Calm(cache')
  BY <1>2, <1>3, CalmOne
<1>4. CASE cache[k] = LockEntry(s) /\ cache' = Put(cache, {k}, ItemEntry(v))
  <2>1. LocksKept(cache') /\ CachedOK(cache', db, Pending', Created')
    BY <1>1, <1>4, PutItem
  <2>2. \A q \in Procs : op'[q] = IF q = p THEN o ELSE op[q]
    BY DEF Inv, Become
  <2> QED
    BY <1>1, <1>2, <2>1, <2>2, Move
<1> QED
  BY <1>3, <1>4, CalmSetValue

LEMMA BeginDeleteCoherent ==
  ASSUME Coherent, Inv, Inv', Basic, Basic', NEW p \in Procs, NEW t \in Types, BeginDelete(p, t)
  PROVE  Coherent'
<1>1. t \in Cursors /\ "delete" \in Mutations /\ "delete" # "list"
  BY DEF Types, Cursors, Mutations
<1>2. Begin(p, "delete", t, NoLock, Nil) /\ db' = db /\ cache' = cache
  BY DEF BeginDelete
<1>3. Calm(cache')
  BY <1>2, CalmSame
<1> QED
  BY <1>1, <1>2, <1>3, BeginCoherent

LEMMA ServeGetCoherent ==
  ASSUME Coherent, Inv, Inv', Basic, Basic', NEW p \in Procs, ServeGet(p)
  PROVE  Coherent'
<1>1. op[p] \in Op /\ op[p].kind = "get" /\ op[p].pc = "locked"
  BY Savable DEF ServeGet, At
<1>2. ~Handled(op[p]) /\ ~Making(op[p])
  BY <1>1 DEF Handled, Making
<1>3. db' = db /\ Calm(cache')
  BY CalmSame DEF ServeGet
<1>4. CASE Become(p, Idle)
  BY <1>2, <1>3, <1>4, CalmOne
<1>5. CASE Become(p, [op[p] EXCEPT !.pc = "answered", !.val = db[op[p].type]])
  <2> DEFINE v == db[op[p].type]
             n == [op[p] EXCEPT !.pc = "answered", !.val = v]
  <2>1. Become(p, n)
    BY <1>5
  <2>2. n.kind = "get" /\ n.val = v /\ n.type = op[p].type
    <3> HIDE DEF v
    <3> QED
      BY <1>1 DEF Op
  <2> HIDE DEF n
  <2>3. SaverOK(n, cache', db, Pending', Created')
    BY <2>2 DEF SaverOK
  <2> QED
    BY <1>2, <1>3, <2>1, <2>3, CalmOne
<1> QED
  BY <1>4, <1>5 DEF ServeGet

LEMMA SaveGetCoherent ==
  ASSUME Coherent, Inv, Inv', Basic, Basic', NEW p \in Procs, SaveGet(p)
  PROVE  Coherent'
<1> DEFINE o == op[p]
<1>1. Running(p) /\ o.kind = "get" /\ o.pc = "answered" /\ Become(p, Idle) /\ db' = db
  BY DEF SaveGet, At
<1>2. o.type \in Types /\ o.type \in AllKeys /\ o.val \in Defs
  BY <1>1, Savable DEF Shaped
<1>3. ~Handled(o) /\ ~Making(o)
  BY <1>1 DEF Handled, Making
<1>4. CASE cache' = cache
  BY <1>1, <1>3, <1>4, CalmSame, CalmOne
<1>5. CASE cache' = SetValue(cache, o.type, {o.type}, o.val, o.s)
  <2>1. cache[o.type] = LockEntry(o.s) => o.val = db[o.type] \/ Pending
    BY <1>1 DEF Coherent, SaverOK, HoldsIn
  <2>2. o.type # Collection
    BY <1>2, KeysAre
  <2> HIDE DEF o
  <2> QED
    BY <1>1, <1>2, <1>3, <1>5, <2>1, <2>2, SaveCoherent DEF o
<1> QED
  BY <1>4, <1>5 DEF SaveGet, SavedItem

LEMMA SavePutCoherent ==
  ASSUME Coherent, Inv, Inv', Basic, Basic', NEW p \in Procs, SavePut(p)
  PROVE  Coherent'
<1> DEFINE o == op[p]
           n == [o EXCEPT !.pc = "clearing"]
<1>1. Running(p) /\ o.kind \in {"create", "update", "delete"} /\ o.pc = "answered" /\ db' = db
  BY DEF SavePut, Mutating, Mutations
<1>2. o \in Op /\ o.type \in Types /\ o.type \in AllKeys /\ o.kind # "delete" /\ o.val \in Defs
  BY <1>1, Savable DEF Shaped
<1>3. Become(p, n) /\ cache' = SetValue(cache, o.type, {o.type}, o.val, o.s)
  BY SavePutBasic DEF Goto
<1>4. n \in Op /\ n.pc = "clearing" /\ n.kind = o.kind
  BY <1>2 DEF Op
<1>5. n # Idle
  BY <1>4, IdleIsNoOp
<1> HIDE DEF n
<1>6. (Handled(o) => Handled(n)) /\ (Making(o) => Making(n))
  BY <1>4, <1>5 DEF Handled, Making
<1>7. cache[o.type] = LockEntry(o.s) => o.val = db[o.type] \/ Pending
  BY <1>1, <1>2 DEF Coherent, SaverOK, HoldsIn
<1>8. o.type # Collection
  BY <1>2, KeysAre
<1> HIDE DEF o
<1> QED
  BY <1>1, <1>2, <1>3, <1>4, <1>6, <1>7, <1>8, SaveCoherent DEF o

-----------------------------------------------------------------------------
(* Nobody lists the types of one organization alone. *)
AllAsked == \A p \in Procs : Asked[p] = Types

LEMMA ServePageCoherent ==
  ASSUME AllAsked, Coherent, Inv, Inv', Basic, Basic', NEW p \in Procs, ServePage(p)
  PROVE  Coherent'
<1> DEFINE o == op[p]
           S == PageOf(p, o.type)
           page == [t \in S |-> db[t]]
           more == (S # After(p, o.type))
           n == [o EXCEPT !.pc = "answered", !.page = page, !.more = more]
<1>1. Running(p) /\ o \in Op /\ o.kind = "list" /\ o.pc = "locked" /\ o.type \in Nat
  BY Savable DEF ServePage, At, Op, Cursors
<1>2. Become(p, n) /\ db' = db /\ cache' = cache
  BY DEF ServePage
<1>3. DOMAIN page = S /\ \A t \in S : page[t] = db[t]
  OBVIOUS
<1>4. \A t \in Types :
        (db[t] # Nil /\ o.type < t /\ (more => \E u \in S : t <= u)) => t \in S
  <2> SUFFICES ASSUME NEW t \in Types, db[t] # Nil, o.type < t, more => \E u \in S : t <= u
               PROVE  t \in S
    OBVIOUS
  <2>1. t \in After(p, o.type)
    BY DEF After, Held, AllAsked
  <2> QED
    BY <1>1, <2>1, PageShape
<1> HIDE DEF page, more
<1>5. /\ n.kind = "list" /\ n.pc = "answered" /\ n.s = o.s /\ n.type = o.type
      /\ n.page = page /\ n.more = more /\ n.found = o.found
  BY <1>1 DEF Op
<1> HIDE DEF n, S
<1>6. ~Handled(o) /\ ~Making(o)
  BY <1>1 DEF Handled, Making
<1>7. (Pending => Pending') /\ (Created => Created')
  BY <1>2, <1>6, Stays
<1>8. SaverOK(n, cache', db, Pending', Created')
  <2>1. SaverOK(o, cache, db, Pending, Created)
    BY <1>1 DEF Coherent
  <2>2. FoundSoFar(o, db) => FoundSoFar(n, db)
    BY <1>1, <1>3, <1>4, <1>5 DEF FoundSoFar
  <2>3. HoldsIn(cache', n, Collection) => HoldsIn(cache, o, Collection)
    BY <1>2, <1>5 DEF HoldsIn
  <2> QED
    BY <1>1, <1>3, <1>5, <1>7, <2>1, <2>2, <2>3 DEF SaverOK
<1> QED
  BY <1>2, <1>6, <1>8, CalmSame, CalmOne

LEMMA FailPageCoherent ==
  ASSUME Coherent, Inv, Inv', Basic, Basic', NEW p \in Procs, FailPage(p)
  PROVE  Coherent'
<1>1. op[p].kind = "list" /\ Become(p, Idle) /\ db' = db /\ cache' = cache
  BY DEF FailPage, At
<1>2. ~Handled(op[p]) /\ ~Making(op[p])
  BY <1>1 DEF Handled, Making
<1> QED
  BY <1>1, <1>2, CalmSame, CalmOne

(* A list adds a page to what it has found, and is as far as the page goes. *)
LEMMA SavePageFinds ==
  ASSUME Inv, Basic, NEW p \in Procs, SavePage(p)
  PROVE  \E n :
           /\ Become(p, n) /\ n.kind = "list" /\ n.s = op[p].s /\ n.pc \in {"locked", "closing"}
           /\ FoundSoFar(op[p], db) /\ (\A t \in DOMAIN op[p].page : op[p].page[t] = db[t])
                => FoundSoFar(n, db)
<1> DEFINE o == op[p]
           found == [t \in DOMAIN o.found \cup DOMAIN o.page |->
                       IF t \in DOMAIN o.page THEN o.page[t] ELSE o.found[t]]
           type == IF o.more THEN AdvanceCursor(o) ELSE o.type
           again == (o.again \/ DOMAIN o.found \cap DOMAIN o.page # {})
           pc == IF o.more THEN "locked" ELSE "closing"
           n == [o EXCEPT !.pc = pc, !.type = type, !.again = again,
                          !.found = found, !.page = Empty, !.more = FALSE]
<1>1. Running(p) /\ o \in Op /\ o.kind = "list" /\ o.pc = "answered"
  BY Savable DEF SavePage, At
<1>2. Become(p, n)
  BY DEF SavePage
<1>3. o.type \in Nat /\ o.page \in Listings /\ o.more \in BOOLEAN
  BY <1>1 DEF Op, Cursors
<1>4. DOMAIN o.page \subseteq Types
  BY <1>3 DEF Listings
<1>5. NextPage(o, during[p], Asked[p])
  BY <1>1 DEF Inv, Listing, Good
<1>6. ASSUME o.more
      PROVE  type \in DOMAIN o.page /\ o.type < type
  <2>1. DOMAIN o.page # {}
    BY <1>5, <1>6 DEF NextPage
  <2>2. \E t \in DOMAIN o.page : \A u \in DOMAIN o.page : u <= t
    BY <1>4, <2>1, LastType
  <2> QED
    BY <1>5, <1>6, <2>2 DEF AdvanceCursor, NextPage
<1>7. pc \in {"locked", "closing"} /\ (pc = "locked" <=> o.more)
  BY <1>3
<1>8. /\ DOMAIN found = DOMAIN o.found \cup DOMAIN o.page
      /\ \A t \in DOMAIN found : found[t] = IF t \in DOMAIN o.page THEN o.page[t] ELSE o.found[t]
  OBVIOUS
<1> HIDE DEF found, type, again, pc
<1>9. n.kind = "list" /\ n.s = o.s /\ n.pc = pc /\ n.found = found /\ n.type = type
  BY <1>1 DEF Op
<1> HIDE DEF n
<1>10. ASSUME FoundSoFar(o, db), \A t \in DOMAIN o.page : o.page[t] = db[t]
       PROVE  FoundSoFar(n, db)
  <2>1. \A t \in DOMAIN found : found[t] = db[t]
    BY <1>8, <1>10 DEF FoundSoFar
  <2>2. ASSUME NEW t \in Types, db[t] # Nil, o.more => t <= type
        PROVE  t \in DOMAIN found
    <3>1. t \in Nat
      BY DEF Types
    <3>2. CASE t <= o.type
      BY <1>1, <1>8, <1>10, <2>2, <3>2 DEF FoundSoFar
    <3>3. CASE o.type < t
      <4>1. t \in DOMAIN o.page
        BY <1>1, <1>6, <1>10, <2>2, <3>3 DEF FoundSoFar
      <4> QED
        BY <1>8, <4>1
    <3> QED
      BY <1>3, <3>1, <3>2, <3>3
  <2> QED
    BY <1>7, <1>9, <2>1, <2>2 DEF FoundSoFar
<1> QED
  BY <1>2, <1>7, <1>9, <1>10

LEMMA SavePageCoherent ==
  ASSUME Coherent, Inv, Inv', Basic, Basic', NEW p \in Procs, SavePage(p)
  PROVE  Coherent'
<1> DEFINE o == op[p]
<1>1. Running(p) /\ o.kind = "list" /\ o.pc = "answered" /\ db' = db
  BY DEF SavePage, At
<1>2. PICK n :
        /\ Become(p, n) /\ n.kind = "list" /\ n.s = o.s /\ n.pc \in {"locked", "closing"}
        /\ FoundSoFar(o, db) /\ (\A t \in DOMAIN o.page : o.page[t] = db[t]) => FoundSoFar(n, db)
  BY SavePageFinds
<1>3. ~Handled(o) /\ ~Making(o)
  BY <1>1 DEF Handled, Making
<1>4. (Pending => Pending') /\ (Created => Created')
  BY <1>2, <1>3, Stays
<1>5. SaverOK(o, cache, db, Pending, Created)
  BY <1>1 DEF Coherent
<1>6. CASE cache[Collection] # LockEntry(o.s)
  <2>1. cache' = cache
    BY <1>6 DEF SavePage
  <2>2. SaverOK(n, cache', db, Pending', Created')
    BY <1>2, <1>6, <2>1 DEF SaverOK, HoldsIn
  <2> QED
    BY <1>1, <1>2, <1>3, <2>1, <2>2, CalmSame, CalmOne
<1>7. CASE cache[Collection] = LockEntry(o.s)
  <2>1. \A k \in AllKeys : cache'[k] = IF k \in DOMAIN o.page THEN ItemEntry(o.page[k]) ELSE cache[k]
    BY <1>7 DEF SavePage
  <2>2. /\ Pending \/ \A t \in DOMAIN o.page : o.page[t] = db[t]
        /\ FoundSoFar(o, db) \/ Pending \/ Created
    BY <1>1, <1>5, <1>7 DEF SaverOK, HoldsIn
  <2>3. FoundSoFar(n, db) \/ Pending' \/ Created'
    BY <1>2, <1>4, <2>2
  <2>4. SaverOK(n, cache', db, Pending', Created')
    BY <1>2, <2>3 DEF SaverOK
  <2>5. DOMAIN o.page \subseteq Types /\ \A t \in DOMAIN o.page : o.page[t] \in Defs
    BY <1>1, Savable DEF Listings
  <2>6. \A t \in DOMAIN o.page : /\ ItemEntry(o.page[t]).val = o.page[t]
                                 /\ \A s : ItemEntry(o.page[t]) # LockEntry(s)
    BY <2>5, EntryOK DEF ItemEntry, LockEntry
  <2>7. LocksKept(cache')
    BY <2>1, <2>6 DEF LocksKept, HoldsIn
  <2>8. CachedOK(cache, db, Pending, Created)
    BY DEF Coherent
  <2>9. CachedOK(cache', db, Pending', Created')
    <3>1. \A t \in Types : cache'[t].tag = "item" => cache'[t].val = db[t] \/ Pending'
      BY <1>4, <2>1, <2>2, <2>6, <2>8, KeysAre DEF CachedOK
    <3>2. cache'[Collection] = cache[Collection]
      BY <2>1, <2>5, KeysAre
    <3> QED
      BY <1>4, <2>8, <3>1, <3>2 DEF CachedOK
  <2>10. \A q \in Procs : op'[q] = IF q = p THEN n ELSE op[q]
    BY <1>2 DEF Inv, Become
  <2> QED
    BY <1>1, <1>4, <2>4, <2>7, <2>9, <2>10, Move
<1> QED
  BY <1>6, <1>7

LEMMA SaveListCoherent ==
  ASSUME Coherent, Inv, Inv', Basic, Basic', NEW p \in Procs, SaveList(p)
  PROVE  Coherent'
<1> DEFINE o == op[p]
<1>1. Running(p) /\ o.kind = "list" /\ o.pc = "closing" /\ Become(p, Idle) /\ db' = db
  BY DEF SaveList, At
<1>2. o.found \in Listings
  BY <1>1, Savable
<1>3. ~Handled(o) /\ ~Making(o)
  BY <1>1 DEF Handled, Making
<1>4. CASE cache' = cache
  BY <1>1, <1>3, <1>4, CalmSame, CalmOne
<1>5. CASE cache' = SetValue(cache, Collection, {Collection}, o.found, o.s)
  <2>1. ASSUME FoundSoFar(o, db) PROVE o.found = Catalog
    <3>1. PICK S \in SUBSET Types : o.found \in [S -> Defs]
      BY <1>2 DEF Listings
    <3>2. S = Held /\ \A t \in S : o.found[t] = db[t]
      BY <1>1, <2>1, <3>1 DEF FoundSoFar, Held
    <3> QED
      BY <3>1, <3>2 DEF Catalog
  <2>2. cache[Collection] = LockEntry(o.s) => o.found = Catalog \/ Pending \/ Created
    BY <1>1, <2>1 DEF Coherent, SaverOK, HoldsIn
  <2> HIDE DEF o
  <2> QED
    BY <1>1, <1>2, <1>3, <1>5, <2>2, KeysAre, SaveCoherent DEF o
<1> QED
  BY <1>4, <1>5 DEF SaveList, Gathered

-----------------------------------------------------------------------------
(* A create that has cleared the collection has left neither a collection  *)
(* nor a lock to save one under; a flush has left nothing at all.          *)
LEMMA GotoIs ==
  ASSUME Inv, NEW p \in Procs, Running(p),
         NEW pc \in {"locked", "answered", "clearing", "flushing", "closing"}, Goto(p, pc)
  PROVE  \E o \in Op :
           /\ Become(p, o) /\ o # Idle /\ o.pc = pc /\ o.kind = op[p].kind
           /\ o.s = op[p].s /\ o.type = op[p].type /\ o.val = op[p].val
<1> DEFINE o == [op[p] EXCEPT !.pc = pc]
<1>1. op[p] \in Op
  BY RunningInOp
<1>2. /\ o \in Op /\ o.pc = pc /\ o.kind = op[p].kind
      /\ o.s = op[p].s /\ o.type = op[p].type /\ o.val = op[p].val
  BY <1>1 DEF Op
<1>3. Become(p, o)
  BY DEF Goto
<1> HIDE DEF o
<1> QED
  BY <1>2, <1>3, IdleIsNoOp

LEMMA ClearCollectionCoherent ==
  ASSUME Coherent, Inv, Inv', Basic, Basic', NEW p \in Procs, ClearCollection(p)
  PROVE  Coherent'
<1>1. /\ Running(p) /\ op[p].kind \in {"create", "update", "delete"} /\ op[p].pc = "clearing"
      /\ cache' = Put(cache, {Collection}, Tombstone) /\ db' = db
  BY DEF ClearCollection, Mutating, Mutations
<1>2. op[p].kind # "delete"
  BY <1>1, Savable DEF Shaped
<1>3. PICK o : /\ Become(p, o) /\ o # Idle /\ o.kind = op[p].kind
               /\ o.pc = IF o.kind = "update" THEN "flushing" ELSE "closing"
  BY <1>1, GotoIs DEF ClearCollection
<1>4. \A q \in Procs : op'[q] = IF q = p THEN o ELSE op[q]
  BY <1>3 DEF Inv, Become
<1>5. Calm(cache') /\ cache'[Collection].tag = "tombstone"
  BY <1>1, EntryOK, KeysAre, CalmPut, PutOK DEF Basic, StoreOK
<1>6. SaverOK(o, cache', db, Pending', Created')
  BY <1>1, <1>2, <1>3 DEF SaverOK
<1>7. Handled(op[p]) => Handled(o)
  BY <1>1, <1>2, <1>3 DEF Handled
<1>8. Pending => Pending'
  BY <1>4, <1>7 DEF Pending
<1> QED
  BY <1>1, <1>4, <1>5, <1>6, <1>8, CalmMove

LEMMA FlushCacheCoherent ==
  ASSUME Coherent, Inv, Inv', Basic, Basic', NEW p \in Procs, FlushCache(p)
  PROVE  Coherent'
<1>1. /\ Running(p) /\ op[p].kind \in {"create", "update", "delete"}
      /\ cache' = Flush(cache, TRUE) /\ db' = db
  BY DEF FlushCache, Mutating, Mutations
<1>2. PICK o : Become(p, o) /\ o.kind = op[p].kind /\ o.pc = "closing"
  BY <1>1, GotoIs DEF FlushCache
<1>3. \A q \in Procs : op'[q] = IF q = p THEN o ELSE op[q]
  BY <1>2 DEF Inv, Become
<1> DEFINE ks == {k \in DOMAIN cache : \/ cache[k].tag \in {"item", "lock"}
                                       \/ TRUE /\ cache[k].tag = "tombstone"}
<1>4. /\ cache' = Put(cache, ks, EmptyEntry)
      /\ \A k \in AllKeys : cache[k].tag \in {"item", "lock"} => k \in ks
  BY <1>1 DEF Flush, Basic, StoreOK
<1> HIDE DEF ks
<1>5. Calm(cache') /\ \A k \in AllKeys : cache'[k].tag \notin {"item", "lock"}
  BY <1>4, EntryOK, CalmPut, PutOK DEF Basic, StoreOK
<1>6. SaverOK(o, cache', db, Pending', Created')
  BY <1>1, <1>2 DEF SaverOK
<1> QED
  BY <1>1, <1>3, <1>5, <1>6, KeysAre, CalmMove

LEMMA CloseCoherent ==
  ASSUME Coherent, Inv, Inv', Basic, Basic', NEW p \in Procs, Close(p)
  PROVE  Coherent'
<1>1. op[p].pc = "closing" /\ Become(p, Idle) /\ db' = db
  BY DEF Close
<1>2. ~Handled(op[p]) /\ ~Making(op[p])
  BY <1>1 DEF Handled, Making
<1>3. Calm(cache')
  BY EntryOK, CalmPut, CalmSame DEF Close, ReleaseSentinel
<1> QED
  BY <1>1, <1>2, <1>3, CalmOne

LEMMA ExpireCoherent ==
  ASSUME Coherent, Inv, Inv', Basic, Basic', NEW k \in AllKeys, Expire(k)
  PROVE  Coherent'
<1>1. cache' = Put(cache, {k}, EmptyEntry) /\ db' = db /\ op' = op
  BY DEF Expire
<1>2. Calm(cache')
  BY <1>1, EntryOK, CalmPut
<1> QED
  BY <1>1, <1>2, CalmMove DEF Pending, Created

-----------------------------------------------------------------------------
(* What the server accepts makes stale what is cached of the type, and for *)
(* a list all it has found; of a type that was not there nothing is cached.*)
LEMMA AcceptedCoherent ==
  ASSUME Coherent, Inv, Inv', Basic, Basic', NEW p \in Procs, Mutating(p), op[p].pc = "locked",
         Acceptable(op[p]), db' = [db EXCEPT ![op[p].type] = op[p].val], cache' = cache,
         Goto(p, IF op[p].kind = "delete" THEN "flushing" ELSE "answered")
  PROVE  Coherent'
<1> DEFINE type == op[p].type
           val == op[p].val
<1>1. Running(p) /\ op[p].kind \in {"create", "update", "delete"}
  BY DEF Mutating, Mutations
<1>2. type \in Types /\ op[p] \in Op /\ Shaped(op[p])
  BY <1>1, Savable
<1>3. PICK o : /\ Become(p, o) /\ o # Idle /\ o.kind = op[p].kind /\ o.type = type /\ o.val = val
               /\ o.pc = IF o.kind = "delete" THEN "flushing" ELSE "answered"
  BY <1>1, GotoIs
<1>4. \A q \in Procs : op'[q] = IF q = p THEN o ELSE op[q]
  BY <1>3 DEF Inv, Become
<1>5. CASE op[p].kind # "create"
  <2>1. Handled(o)
    BY <1>1, <1>3, <1>5 DEF Handled
  <2>2. Pending'
    BY <1>4, <2>1 DEF Pending
  <2> QED
    BY <2>2 DEF Coherent, SaverOK, CachedOK
<1>6. CASE op[p].kind = "create"
  <2>1. Created'
    <3>1. Making(o)
      BY <1>3, <1>6 DEF Making
    <3> QED
      BY <1>4, <3>1 DEF Created
  <2>2. Pending => Pending'
    <3>1. ~Handled(op[p])
      BY <1>6 DEF Handled
    <3> QED
      BY <1>4, <3>1 DEF Pending
  <2>3. db[type] = Nil
    BY <1>6 DEF Acceptable
  <2>4. \A t \in Types : db'[t] = IF t = type THEN val ELSE db[t]
    BY DEF Inv
  <2> HIDE DEF type, val
  <2>5. CachedOK(cache', db', Pending', Created')
    <3>1. CachedOK(cache, db, Pending, Created)
      BY DEF Coherent
    <3>2. \A t \in Types : cache[t].tag = "item" => cache[t].val # Nil
      BY DEF Basic, StoreOK
    <3> QED
      BY <2>1, <2>2, <2>3, <2>4, <3>1, <3>2 DEF CachedOK
  <2>6. ASSUME NEW q \in Procs, q # p, Running(q)
        PROVE  SaverOK(op[q], cache', db', Pending', Created')
    <3>1. SaverOK(op[q], cache, db, Pending, Created)
      BY <2>6 DEF Coherent
    <3>2. op[q].kind # "list" => op[q].type \in Types
      BY <2>6, Savable
    <3>3. op[q].kind \in {"get", "create", "update"} /\ op[q].pc = "answered" => op[q].val # Nil
      BY <2>6, Savable DEF Shaped
    <3>4. DOMAIN op[q].page \subseteq Types /\ \A t \in DOMAIN op[q].page : op[q].page[t] # Nil
      BY <2>6, Savable DEF Listings
    <3> QED
      BY <2>1, <2>2, <2>3, <2>4, <3>1, <3>2, <3>3, <3>4 DEF SaverOK, HoldsIn
  <2>7. SaverOK(o, cache', db', Pending', Created')
    BY <1>2, <1>3, <1>6, <2>4 DEF SaverOK
  <2>8. \A q \in Procs : Running(q)' => SaverOK(op'[q], cache', db', Pending', Created')
    BY <1>4, <2>6, <2>7 DEF Running
  <2> QED
    BY <2>5, <2>8 DEF Coherent
<1> QED
  BY <1>5, <1>6

LEMMA ServeMutationCoherent ==
  ASSUME Coherent, Inv, Inv', Basic, Basic', "lost" \notin Faults, NEW p \in Procs,
         ServeMutation(p)
  PROVE  Coherent'
<1>1. Mutating(p) /\ Running(p) /\ op[p].pc = "locked" /\ cache' = cache
  BY DEF ServeMutation, Mutating
<1>2. CASE db' = db /\ Goto(p, "closing")
  <2>1. PICK o : Become(p, o) /\ o.pc = "closing" /\ o.kind = op[p].kind
    BY <1>1, <1>2, GotoIs
  <2>2. o.kind # "list"
    BY <1>1, <2>1 DEF Mutating, Mutations
  <2>3. SaverOK(o, cache', db, Pending', Created')
    BY <2>1, <2>2 DEF SaverOK
  <2>4. ~Handled(op[p]) /\ ~Making(op[p])
    BY <1>1 DEF Handled, Making
  <2> QED
    BY <1>1, <1>2, <2>1, <2>3, <2>4, CalmSame, CalmOne
<1>3. CASE /\ Acceptable(op[p]) /\ db' = [db EXCEPT ![op[p].type] = op[p].val]
           /\ Goto(p, IF op[p].kind = "delete" THEN "flushing" ELSE "answered")
  BY <1>1, <1>3, AcceptedCoherent
<1> QED
  BY <1>2, <1>3 DEF ServeMutation

LEMMA CoherentInit == Init => Coherent
BY EntryOK, KeysAre DEF Init, Coherent, Running, CachedOK

LEMMA CoherentNext ==
  ASSUME "lost" \notin Faults, AllAsked, Coherent, Inv, Basic, [Next]_vars
  PROVE  Coherent'
<1>1. Inv' /\ Basic'
  BY InvNext, BasicNext
<1>2. CASE UNCHANGED vars
  BY <1>2 DEF vars, Coherent, Running, Pending, Created
<1>3. CASE Step
  <2>1. ASSUME NEW p \in Procs, BeginList(p) PROVE Coherent'
    <3>1. Collection \in Cursors /\ Collection = 0
      BY DEF Cursors, Collection
    <3> QED
      BY <1>1, <2>1, <3>1, BeginReadCoherent DEF BeginList
  <2>2. ASSUME NEW p \in Procs, NEW t \in Types, BeginGet(p, t) PROVE Coherent'
    <3>1. t \in Cursors /\ "get" # "list"
      BY DEF Types, Cursors
    <3> QED
      BY <1>1, <2>2, <3>1, BeginReadCoherent DEF BeginGet
  <2>3. ASSUME NEW p \in Procs, NEW t \in Types,
               BeginDelete(p, t) \/ BeginPut(p, "create", t) \/ BeginPut(p, "update", t)
        PROVE  Coherent'
    BY <1>1, <2>3, BeginDeleteCoherent, BeginPutCoherent
  <2>4. ASSUME NEW p \in Procs, ServeGet(p) \/ SaveGet(p) PROVE Coherent'
    BY <1>1, <2>4, ServeGetCoherent, SaveGetCoherent
  <2>5. ASSUME NEW p \in Procs, ListStep(p) PROVE Coherent'
    BY <1>1, <2>5, ServePageCoherent, FailPageCoherent, SavePageCoherent, SaveListCoherent
    DEF ListStep
  <2>6. ASSUME NEW p \in Procs, ServeMutation(p) \/ SavePut(p) PROVE Coherent'
    BY <1>1, <2>6, ServeMutationCoherent, SavePutCoherent
  <2>7. ASSUME NEW p \in Procs, ClearCollection(p) \/ FlushCache(p) \/ Close(p) PROVE Coherent'
    BY <1>1, <2>7, ClearCollectionCoherent, FlushCacheCoherent, CloseCoherent
  <2>8. ASSUME NEW k \in AllKeys, Expire(k) PROVE Coherent'
    BY <1>1, <2>8, ExpireCoherent
  <2> QED
    BY <1>3, <2>1, <2>2, <2>3, <2>4, <2>5, <2>6, <2>7, <2>8 DEF Step
<1> QED
  BY <1>2, <1>3 DEF Next

LEMMA QuietIsCoherent == Coherent => CoherentWhenQuiet
<1> SUFFICES ASSUME Coherent, \A p \in Procs : ~Mutating(p)
             PROVE  /\ \A t \in Types : cache[t].tag = "item" => cache[t].val = db[t]
                    /\ cache[Collection].tag = "item" => cache[Collection].val = Catalog
  BY DEF CoherentWhenQuiet
<1>1. ~Pending /\ ~Created
  BY DEF Pending, Created, Handled, Making, Mutating, Running, Mutations
<1> QED
  BY <1>1 DEF Coherent, CachedOK, Catalog, Held

(* While every mutation the server accepts is heard of, and every list is  *)
(* of all types, a cached type and the cached collection are the server's  *)
(* whenever no mutation is in flight, whatever calls, and however many,    *)
(* are made together: creates clear the collection, updates and deletes    *)
(* flush the cache, and a flush takes the locks of the lists and reads it  *)
(* is too early for.                                                       *)
THEOREM CatalogCoherent ==
  ASSUME "lost" \notin Faults, AllAsked
  PROVE  Spec => []CoherentWhenQuiet
<1>1. Inv /\ Basic /\ Coherent /\ [Next]_vars => (Inv /\ Basic /\ Coherent)'
  BY InvNext, BasicNext, CoherentNext
<1> QED
  BY <1>1, InvInit, BasicInit, CoherentInit, QuietIsCoherent, PTL DEF Spec
=============================================================================
