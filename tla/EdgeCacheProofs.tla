-------------------------- MODULE EdgeCacheProofs --------------------------
(***************************************************************************)
(* What is proved of EdgeCache for any number of callers, objects and      *)
(* edges, any mixes of calls and faults.                                   *)
(*                                                                         *)
(* Whatever overlaps, no collection or path in the cache shows an edge the *)
(* server has deleted.  What makes it so is the lists.  A collection is in *)
(* the cache only while the list of everything it depends on names it, and *)
(* a delete has put a tombstone in the place of such a list, and keeps it  *)
(* there, by the time the server hears of it.  A read that was answered    *)
(* before does not enter a list that is a tombstone, and has lost its lock *)
(* if one was.                                                             *)
(*                                                                         *)
(* Once no mutation is in flight, what is cached is what the server has:   *)
(* a list of edges lacks one only while its create has yet to clear it,    *)
(* and an edge that is gone is cached only while the save that brought it  *)
(* has yet to find a list tombstoned and to take it out again.  For the    *)
(* edges this takes locks that nobody loses to a mutation beside a         *)
(* DeleteEdge, which Orderly says (a read that was answered before the     *)
(* delete could otherwise store the edge and enter it in the lists).       *)
(***************************************************************************)
EXTENDS EdgeCache, TLAPS, FiniteSetTheorems, SequenceTheorems

Gatherings == Collections \cup Paths
Storable == EdgeKeys \cup Gatherings  \* what a list can name
Listing == {"listEdges", "listEdgesBetween"}
Deletes == {"deleteEdge", "deleteObject", "deleteEdgesByObject"}
Puts == {"createEdge", "createEdgeBypass", "updateObject"}

(* What a call is about, and which calls get where. *)
Shaped(o) ==
  /\ o.kind \in {"getEdge", "findEdge", "createEdge", "createEdgeBypass", "deleteEdge"}
       => o.on \in Edges
  /\ o.kind \in {"updateObject", "deleteObject", "deleteEdgesByObject"} => o.on \in Subjects
  /\ o.kind \in Listing => o.on \in Collections
  /\ o.kind = "checkAttribute" => o.on \in Paths
  /\ o.kind \in Collecting => o.on \in Gatherings
  /\ o.kind \in Mutations /\ o.s # NoLock => o.s.kind = SentinelOf(o.kind)
  /\ o.kind \in Reads => o.s \in [kind : {"read"}, id : Ids]
  /\ o.pc \in {"clearing", "unlinking"} => o.kind \in {"createEdge", "updateObject"}
  /\ o.pc = "clearing" => o.kind = "createEdge"
  /\ o.pc \in {"selfLinking", "undoing"} => o.kind \in {"getEdge", "findEdge", "createEdge"}
  /\ o.pc = "locking" => o.kind \in Mutations
  /\ o.pc = "tombstoning" => o.kind \in Deletes
  /\ o.pc = "closing" => o.kind \in Mutations \cup Collecting
  /\ o.pc = "answered" /\ o.kind \in Mutations => o.kind \in {"createEdge", "updateObject"}

(* The caller's lock is still there, though others may have marked it.     *)
Holds(store, o) == IsLock(store[o.on]) /\ store[o.on].s = o.s

(* The lists of what a collection depends on all name it, or one of them   *)
(* is a tombstone.                                                         *)
Entered(store, k, es) == \A d \in DependenciesOf(k, es) : k \in Listed(store, d)
Blocked(store, k, es) == \E d \in DependenciesOf(k, es) : store[d] = Tombstone

ReaderOK(o, store, edges) ==
  o.kind \in Collecting /\ Holds(store, o) =>
    /\ o.pc = "answered" => o.val \subseteq edges \/ Blocked(store, o.on, o.val)
    /\ o.pc = "linking" => o.val \subseteq edges /\ Entered(store, o.on, o.val)
DeleterOK(o, store) ==
  o.kind \in Deletes /\ o.pc \in {"locked", "closing"} => store[DependencyKey(o.on)] = Tombstone
CachedOK(store, edges) ==
  \A k \in Gatherings : store[k].tag = "item" =>
    store[k].val \subseteq edges /\ Entered(store, k, store[k].val)
ListsOK(store) ==
  \A x \in Objects \cup Edges :
    LET e == store[DependencyKey(x)] IN
    e \in {EmptyEntry, Tombstone} \/ (e.tag = "list" /\ e.keys \subseteq Storable)

Inv ==
  /\ TypeOK
  /\ \A p \in Procs : Running(p) => Shaped(op[p])
  /\ \A p \in Procs : Running(p) => ReaderOK(op[p], cache, db) /\ DeleterOK(op[p], cache)
  /\ CachedOK(cache, db)
  /\ ListsOK(cache)

-----------------------------------------------------------------------------
USE EdgeCacheAssumption

(* The kinds of keys are told apart by what they begin with.               *)
LEMMA KeysApart ==
  /\ \A k \in Storable \cup {EdgesKey} : \A x : k # DependencyKey(x)
  /\ \A x, y : ObjectKey(x) # DependencyKey(y)
  /\ \A x, y : OfObject(x) # DependencyKey(y)
  /\ \A x, y, z : Between(x, y) # DependencyKey(z)
  /\ \A k \in EdgeKeys \cup {EdgesKey} : k \notin Gatherings
  /\ \A x : ObjectKey(x) \notin Gatherings
<1>1. \A k \in EdgeKeys : k[1] \in {"edge", "full"}
  BY DEF EdgeKeys, PrimaryKey, FullKey
<1>2. \A k \in Gatherings : k[1] \in {"of", "between", "path"}
  BY DEF Gatherings, Collections, Paths, OfObject, Between, Path
<1>3. \A x : DependencyKey(x)[1] = "dependencies" /\ ObjectKey(x)[1] = "object" /\ OfObject(x)[1] = "of"
  BY DEF DependencyKey, ObjectKey, OfObject
<1>4. EdgesKey[1] = "edges" /\ \A x, y : Between(x, y)[1] = "between"
  BY DEF EdgesKey, Between
<1> QED
  BY <1>1, <1>2, <1>3, <1>4 DEF Storable

LEMMA DependencyKeys ==
  ASSUME NEW x \in Objects \cup Edges
  PROVE  DependencyKey(x) \in AllKeys
BY DEF AllKeys

LEMMA StorableKeys == Storable \subseteq AllKeys /\ Gatherings \subseteq Storable
BY DEF Storable, Gatherings, AllKeys

LEMMA ObjectOf == \A k \in Gatherings : k[2] \in Objects
<1> SUFFICES ASSUME NEW k \in Gatherings PROVE k[2] \in Objects
  OBVIOUS
<1>1. CASE k \in {OfObject(o) : o \in Subjects}
  BY <1>1 DEF OfObject
<1>2. CASE k \in {Between(pair[1], pair[2]) : pair \in Pairs}
  BY <1>2 DEF Between
<1>3. CASE k \in Paths
  BY <1>3 DEF Paths, Path
<1> QED
  BY <1>1, <1>2, <1>3 DEF Gatherings, Collections

(* What a collection depends on: its object, and what its edges are.       *)
LEMMA DependenciesAre ==
  ASSUME NEW k \in Gatherings, NEW es \in SUBSET Edges
  PROVE  /\ \A d \in DependenciesOf(k, es) : \E x \in Objects \cup Edges : d = DependencyKey(x)
         /\ \A e \in es : /\ DependencyKey(e) \in DependenciesOf(k, es)
                          /\ DependencyKey(Source[e]) \in DependenciesOf(k, es)
                          /\ DependencyKey(Target[e]) \in DependenciesOf(k, es)
<1>1. k[2] \in Objects
  BY ObjectOf
<1>2. \A e \in es : Source[e] \in Objects /\ Target[e] \in Objects
  OBVIOUS
<1>3. \A e \in es : {Source[e], Target[e]} \subseteq UNION {{Source[f], Target[f]} : f \in es}
  OBVIOUS
<1> QED
  BY <1>1, <1>2, <1>3 DEF DependenciesOf

(* Which shapes an entry has, and which are legal.                         *)
LEMMA EntryShape ==
  ASSUME NEW e \in Entry
  PROVE  /\ e.tag \in {"empty", "item", "lock", "tombstone", "list"}
         /\ e.tag = "empty" <=> e = EmptyEntry
         /\ e.tag = "tombstone" <=> e = Tombstone
         /\ e.tag = "item" => e.val \subseteq Edges
         /\ e.tag = "lock" => e.s \in Sentinel
         /\ e.tag = "list" => e.keys \subseteq AllKeys
BY DEF Entry, EmptyEntry, ItemEntry, Tombstone, ListEntry

LEMMA EntryOK ==
  /\ EmptyEntry \in Entry /\ EmptyEntry.tag = "empty"
  /\ Tombstone \in Entry /\ Tombstone.tag = "tombstone"
  /\ \A es \in SUBSET Edges : ItemEntry(es) \in Entry /\ ItemEntry(es).tag = "item"
  /\ \A s \in Sentinel : LockEntry(s) \in Entry /\ LockEntry(s).tag = "lock" /\ LockEntry(s).s = s
  /\ \A e \in Entry : e.tag = "lock" => Bumped(e) \in Entry /\ Bumped(e).tag = "lock"
  /\ \A ks \in SUBSET AllKeys : /\ ListEntry(ks) \in Entry /\ ListEntry(ks).tag = "list"
                                /\ ListEntry(ks).keys = ks
<1>1. \A s \in Sentinel : LockEntry(s) \in Entry /\ LockEntry(s).tag = "lock" /\ LockEntry(s).s = s
  BY DEF Entry, LockEntry
<1>2. \A e \in Entry : e.tag = "lock" => Bumped(e) \in Entry /\ Bumped(e).tag = "lock"
  <2> SUFFICES ASSUME NEW e \in Entry, e.tag = "lock"
               PROVE  Bumped(e) \in Entry /\ Bumped(e).tag = "lock"
    OBVIOUS
  <2>1. e.s \in Sentinel
    BY EntryShape
  <2> QED
    BY <2>1 DEF Entry, Bumped
<1>3. \A es \in SUBSET Edges : ItemEntry(es) \in Entry /\ ItemEntry(es).tag = "item"
  BY DEF Entry, ItemEntry
<1>4. \A ks \in SUBSET AllKeys : /\ ListEntry(ks) \in Entry /\ ListEntry(ks).tag = "list"
                                 /\ ListEntry(ks).keys = ks
  BY DEF Entry, ListEntry
<1> QED
  BY <1>1, <1>2, <1>3, <1>4 DEF Entry, EmptyEntry, Tombstone

-----------------------------------------------------------------------------
(* A change of the store that is calm puts no collection and no used lock  *)
(* where it was not, leaves tombstones of lists in their place, and takes  *)
(* no key that is in use from a list.                                      *)
Calm(store, new, used) ==
  /\ new \in [AllKeys -> Entry]
  /\ ListsOK(new)
  /\ \A x \in Objects \cup Edges :
       store[DependencyKey(x)] = Tombstone => new[DependencyKey(x)] = Tombstone
  /\ \A k \in Gatherings, x \in Objects \cup Edges :
       new[k].tag \in {"item", "lock"} /\ k \in Listed(store, DependencyKey(x))
         => k \in Listed(new, DependencyKey(x))
  /\ \A k \in Gatherings : new[k].tag = "item" => new[k] = store[k]
  /\ \A k \in Gatherings : new[k].tag = "lock" =>
       (store[k].tag = "lock" /\ new[k].s = store[k].s) \/ new[k].s.id \notin used

LEMMA CalmKeepsCached ==
  ASSUME NEW store \in [AllKeys -> Entry], NEW new, NEW used, Calm(store, new, used),
         NEW edges, NEW more, edges \subseteq more, CachedOK(store, edges)
  PROVE  CachedOK(new, more)
<1> SUFFICES ASSUME NEW k \in Gatherings, new[k].tag = "item"
             PROVE  new[k].val \subseteq more /\ Entered(new, k, new[k].val)
  BY DEF CachedOK
<1>1. new[k] = store[k]
  BY DEF Calm
<1>2. new[k].val \subseteq edges /\ Entered(store, k, new[k].val)
  BY <1>1 DEF CachedOK
<1>3. new[k].val \in SUBSET Edges
  BY StorableKeys, EntryShape DEF Calm
<1>4. ASSUME NEW d \in DependenciesOf(k, new[k].val) PROVE k \in Listed(new, d)
  <2>1. PICK x \in Objects \cup Edges : d = DependencyKey(x)
    BY <1>3, DependenciesAre
  <2>2. k \in Listed(store, d)
    BY <1>2 DEF Entered
  <2> QED
    BY <2>1, <2>2 DEF Calm
<1> QED
  BY <1>2, <1>4 DEF Entered

LEMMA CalmKeepsCaller ==
  ASSUME NEW store \in [AllKeys -> Entry], NEW new, NEW used, Calm(store, new, used),
         NEW edges, NEW more, edges \subseteq more,
         NEW o \in Op, Shaped(o), o.s # NoLock => o.s.id \in used,
         ReaderOK(o, store, edges), DeleterOK(o, store)
  PROVE  ReaderOK(o, new, more) /\ DeleterOK(o, new)
<1>1. DeleterOK(o, new)
  <2> SUFFICES ASSUME o.kind \in Deletes, o.pc \in {"locked", "closing"}
               PROVE  new[DependencyKey(o.on)] = Tombstone
    BY DEF DeleterOK
  <2>1. o.on \in Objects \cup Edges
    BY DEF Shaped, Deletes
  <2>2. store[DependencyKey(o.on)] = Tombstone
    BY DEF DeleterOK
  <2> QED
    BY <2>1, <2>2 DEF Calm
<1>2. ReaderOK(o, new, more)
  <2> SUFFICES ASSUME o.kind \in Collecting, Holds(new, o)
               PROVE  /\ o.pc = "answered" => o.val \subseteq more \/ Blocked(new, o.on, o.val)
                      /\ o.pc = "linking" => o.val \subseteq more /\ Entered(new, o.on, o.val)
    BY DEF ReaderOK
  <2>1. o.on \in Gatherings /\ o.val \in SUBSET Edges /\ o.s \in [kind : {"read"}, id : Ids]
    BY DEF Shaped, Op, Collecting, Reads
  <2>2. o.s # NoLock
    BY <2>1 DEF NoLock
  <2>3. Holds(store, o)
    BY <2>1, <2>2 DEF Calm, Holds, IsLock
  <2>4. /\ o.pc = "answered" => o.val \subseteq edges \/ Blocked(store, o.on, o.val)
        /\ o.pc = "linking" => o.val \subseteq edges /\ Entered(store, o.on, o.val)
    BY <2>3 DEF ReaderOK
  <2>5. Blocked(store, o.on, o.val) => Blocked(new, o.on, o.val)
    <3> SUFFICES ASSUME NEW d \in DependenciesOf(o.on, o.val), store[d] = Tombstone
                 PROVE  new[d] = Tombstone
      BY DEF Blocked
    <3>1. PICK x \in Objects \cup Edges : d = DependencyKey(x)
      BY <2>1, DependenciesAre
    <3> QED
      BY <3>1 DEF Calm
  <2>6. Entered(store, o.on, o.val) => Entered(new, o.on, o.val)
    <3> SUFFICES ASSUME NEW d \in DependenciesOf(o.on, o.val), o.on \in Listed(store, d)
                 PROVE  o.on \in Listed(new, d)
      BY DEF Entered
    <3>1. PICK x \in Objects \cup Edges : d = DependencyKey(x)
      BY <2>1, DependenciesAre
    <3>2. new[o.on].tag = "lock"
      BY DEF Holds, IsLock
    <3> QED
      BY <2>1, <3>1, <3>2 DEF Calm
  <2> QED
    BY <2>4, <2>5, <2>6
<1> QED
  BY <1>1, <1>2

LEMMA CalmSame ==
  ASSUME NEW store \in [AllKeys -> Entry], ListsOK(store), NEW used
  PROVE  Calm(store, store, used)
BY DEF Calm

(* Keys that are no lists may be given anything but an item or a used lock *)
(* where a collection is.                                                  *)
LEMMA CalmPut ==
  ASSUME NEW store \in [AllKeys -> Entry], ListsOK(store), NEW used,
         NEW ks, \A x \in Objects \cup Edges : DependencyKey(x) \notin ks,
         NEW e \in Entry,
         \/ ks \cap Gatherings = {}
         \/ e.tag \notin {"item", "lock"}
         \/ e.tag = "lock" /\ e.s.id \notin used
  PROVE  Calm(store, Put(store, ks, e), used)
<1> DEFINE new == Put(store, ks, e)
<1>1. new \in [AllKeys -> Entry] /\ \A k \in AllKeys : new[k] = IF k \in ks THEN e ELSE store[k]
  BY DEF Put
<1>2. \A x \in Objects \cup Edges : new[DependencyKey(x)] = store[DependencyKey(x)]
  BY <1>1, DependencyKeys
<1>3. ListsOK(new)
  BY <1>2 DEF ListsOK
<1>4. \A x \in Objects \cup Edges : Listed(new, DependencyKey(x)) = Listed(store, DependencyKey(x))
  BY <1>2 DEF Listed
<1>5. \A k \in Gatherings : new[k] = IF k \in ks THEN e ELSE store[k]
  BY <1>1, StorableKeys
<1> HIDE DEF new
<1>6. \A k \in Gatherings : new[k].tag = "item" => new[k] = store[k]
  BY <1>5
<1>7. \A k \in Gatherings : new[k].tag = "lock" =>
        (store[k].tag = "lock" /\ new[k].s = store[k].s) \/ new[k].s.id \notin used
  BY <1>5
<1>8. \A x \in Objects \cup Edges :
        store[DependencyKey(x)] = Tombstone => new[DependencyKey(x)] = Tombstone
  BY <1>2
<1> QED
  BY <1>1, <1>3, <1>4, <1>6, <1>7, <1>8 DEF Calm, new

LEMMA PutType ==
  ASSUME NEW store \in [AllKeys -> Entry], NEW ks, NEW e \in Entry
  PROVE  /\ Put(store, ks, e) \in [AllKeys -> Entry]
         /\ \A k \in AllKeys : Put(store, ks, e)[k] = IF k \in ks THEN e ELSE store[k]
BY DEF Put

(* ClearDependencies empties what a list names before it drops the list.   *)
LEMMA CalmClear ==
  ASSUME NEW store \in [AllKeys -> Entry], ListsOK(store), NEW used,
         NEW y \in Objects \cup Edges, NEW set \in BOOLEAN
  PROVE  /\ Calm(store, ClearDependencies(store, DependencyKey(y), set), used)
         /\ set => ClearDependencies(store, DependencyKey(y), set)[DependencyKey(y)] = Tombstone
<1> DEFINE dkey == DependencyKey(y)
           ks == Listed(store, dkey)
           e == IF set \/ store[dkey] = Tombstone THEN Tombstone ELSE EmptyEntry
           new == ClearDependencies(store, dkey, set)
<1>1. dkey \in AllKeys
  BY DependencyKeys
<1>2. ks \subseteq Storable
  BY DEF Listed, ListsOK, EmptyEntry, Tombstone
<1>3. /\ new \in [AllKeys -> Entry]
      /\ \A k \in AllKeys : new[k] = IF k = dkey THEN e ELSE IF k \in ks THEN EmptyEntry ELSE store[k]
  <2>1. e \in Entry
    BY EntryOK
  <2> HIDE DEF e, ks
  <2>2. /\ Put(store, ks, EmptyEntry) \in [AllKeys -> Entry]
        /\ \A k \in AllKeys : Put(store, ks, EmptyEntry)[k] = IF k \in ks THEN EmptyEntry ELSE store[k]
    BY EntryOK, PutType
  <2>3. new = Put(Put(store, ks, EmptyEntry), {dkey}, e)
    BY DEF ClearDependencies, e, ks
  <2> QED
    BY <2>1, <2>2, <2>3, PutType
<1>4. \A x \in Objects \cup Edges :
        \/ DependencyKey(x) = dkey /\ new[DependencyKey(x)] = e
        \/ DependencyKey(x) # dkey /\ new[DependencyKey(x)] = store[DependencyKey(x)]
  BY <1>2, <1>3, DependencyKeys, KeysApart
<1>5. \A k \in Gatherings : /\ k \in ks => new[k] = EmptyEntry
                            /\ k \notin ks => new[k] = store[k]
  BY <1>3, StorableKeys, KeysApart
<1>6. ListsOK(new)
  BY <1>4 DEF ListsOK
<1> HIDE DEF new, ks
<1>7. ASSUME NEW k \in Gatherings, NEW x \in Objects \cup Edges,
             new[k].tag \in {"item", "lock"}, k \in Listed(store, DependencyKey(x))
      PROVE  k \in Listed(new, DependencyKey(x))
  <2>1. k \notin ks
    BY <1>5, <1>7, EntryOK
  <2>2. DependencyKey(x) # dkey
    BY <1>7, <2>1 DEF ks
  <2> QED
    BY <1>4, <1>7, <2>2 DEF Listed
<1>8. e \in {EmptyEntry, Tombstone} /\ (store[dkey] = Tombstone => e = Tombstone) /\ (set => e = Tombstone)
  OBVIOUS
<1>9. EmptyEntry.tag \notin {"item", "lock"}
  BY EntryOK
<1> HIDE DEF e
<1>10. Calm(store, new, used)
  <2>1. \A x \in Objects \cup Edges :
          store[DependencyKey(x)] = Tombstone => new[DependencyKey(x)] = Tombstone
    BY <1>4, <1>8
  <2>2. \A k \in Gatherings : new[k].tag \in {"item", "lock"} => new[k] = store[k]
    BY <1>5, <1>9
  <2> QED
    BY <1>3, <1>6, <1>7, <2>1, <2>2 DEF Calm
<1>11. set => new[dkey] = Tombstone
  BY <1>1, <1>3, <1>8
<1> QED
  BY <1>10, <1>11 DEF new

(* AddDependency never touches a tombstone, and forgets only empty keys.   *)
LEMMA CalmAdd ==
  ASSUME NEW store \in [AllKeys -> Entry], ListsOK(store), NEW used,
         NEW n \in Nat, NEW dkeys, DOMAIN dkeys = 1 .. n,
         \A m \in 1 .. n : \E x \in Objects \cup Edges : dkeys[m] = DependencyKey(x),
         NEW ks \in SUBSET Storable
  PROVE  /\ Calm(store, AddDependency(store, dkeys, ks), used)
         /\ Dependable(store, dkeys) =>
              \A m \in 1 .. n : /\ store[dkeys[m]] # Tombstone
                                /\ ks \subseteq Listed(AddDependency(store, dkeys, ks), dkeys[m])
<1> DEFINE new == AddDependency(store, dkeys, ks)
           R == Reached(store, dkeys)
           kept(d) == ks \cup {k \in Listed(store, d) : store[k] # EmptyEntry}
<1>1. \A d \in R : store[d] # Tombstone /\ \E x \in Objects \cup Edges : d = DependencyKey(x)
  <2> SUFFICES ASSUME NEW m \in 1 .. n, \A l \in 1 .. m : store[dkeys[l]] # Tombstone
               PROVE  store[dkeys[m]] # Tombstone /\ \E x \in Objects \cup Edges : dkeys[m] = DependencyKey(x)
    BY DEF Reached
  <2>1. m \in 1 .. m
    OBVIOUS
  <2> QED
    BY <2>1
<1>2. R \cap Gatherings = {}
  BY <1>1, KeysApart, StorableKeys
<1>3. \A d \in R : kept(d) \subseteq Storable /\ kept(d) \subseteq AllKeys
  <2> SUFFICES ASSUME NEW d \in R PROVE kept(d) \subseteq Storable
    BY StorableKeys
  <2>1. Listed(store, d) \subseteq Storable
    BY <1>1 DEF Listed, ListsOK, EmptyEntry, Tombstone
  <2> QED
    BY <2>1
<1>4. /\ DOMAIN new = AllKeys
      /\ \A d \in AllKeys : new[d] = IF d \in R THEN ListEntry(kept(d)) ELSE store[d]
  BY DEF AddDependency
<1> HIDE DEF new, R
<1>5. \A d \in R : /\ ListEntry(kept(d)) \in Entry /\ ListEntry(kept(d)).tag = "list"
                   /\ ListEntry(kept(d)).keys = kept(d)
  BY <1>3, EntryOK
<1> HIDE DEF kept
<1>6. new \in [AllKeys -> Entry]
  <2>1. \A d \in AllKeys : new[d] \in Entry
    BY <1>4, <1>5
  <2>2. new = [d \in AllKeys |-> new[d]]
    BY <1>4 DEF new, AddDependency
  <2> QED
    BY <2>1, <2>2
<1>7. \A x \in Objects \cup Edges :
        LET d == DependencyKey(x) IN
        \/ d \in R /\ new[d].tag = "list" /\ new[d].keys = kept(d)
        \/ d \notin R /\ new[d] = store[d]
  BY <1>4, <1>5, DependencyKeys
<1>8. \A k \in Gatherings : new[k] = store[k]
  BY <1>2, <1>4, StorableKeys
<1>9. ListsOK(new)
  BY <1>3, <1>7 DEF ListsOK
<1>10. ASSUME NEW k \in Gatherings, NEW x \in Objects \cup Edges,
              new[k].tag \in {"item", "lock"}, k \in Listed(store, DependencyKey(x))
       PROVE  k \in Listed(new, DependencyKey(x))
  <2>1. store[k] # EmptyEntry
    BY <1>8, <1>10, EntryOK
  <2>2. k \in kept(DependencyKey(x))
    BY <1>10, <2>1 DEF kept
  <2> QED
    BY <1>7, <1>10, <2>2 DEF Listed
<1>11. Calm(store, new, used)
  BY <1>1, <1>6, <1>7, <1>8, <1>9, <1>10 DEF Calm
<1>12. ASSUME Dependable(store, dkeys), NEW m \in 1 .. n
       PROVE  store[dkeys[m]] # Tombstone /\ ks \subseteq Listed(new, dkeys[m])
  <2>1. dkeys[m] \in R
    BY <1>12 DEF Dependable, R
  <2>2. new[dkeys[m]].tag = "list" /\ new[dkeys[m]].keys = kept(dkeys[m])
    BY <1>1, <1>7, <2>1
  <2> QED
    BY <1>1, <2>1, <2>2 DEF Listed, kept
<1> QED
  BY <1>11, <1>12 DEF new

(* SetValue away from the collections. *)
LEMMA CalmSetValue ==
  ASSUME NEW store \in [AllKeys -> Entry], ListsOK(store), NEW used,
         NEW lkey \in AllKeys, NEW ks, ks \cap Gatherings = {},
         \A x \in Objects \cup Edges : DependencyKey(x) \notin ks,
         NEW v \in SUBSET Edges, NEW s
  PROVE  Calm(store, SetValue(store, lkey, ks, v, s), used)
<1> DEFINE curr == store[lkey]
           verdict == CanSetValue(curr, v, s)
<1>1. curr \in Entry
  OBVIOUS
<1>2. verdict \in {"set", "clear", "conflict", "none"} /\ (verdict = "conflict" => curr.tag = "lock")
  BY DEF CanSetValue, IsLock
<1>3. \A e \in Entry : Calm(store, Put(store, ks, e), used)
  BY CalmPut
<1>4. Calm(store, store, used)
  BY CalmSame
<1>5. ItemEntry(v) \in Entry /\ EmptyEntry \in Entry
  BY EntryOK
<1>6. verdict = "conflict" => Bumped(curr) \in Entry
  BY <1>1, <1>2, EntryOK
<1>7. SetValue(store, lkey, ks, v, s) =
        IF curr.tag \in {"empty", "list"}
          THEN store
          ELSE CASE verdict = "set"      -> Put(store, ks, ItemEntry(v))
                 [] verdict = "clear"    -> Put(store, ks, EmptyEntry)
                 [] verdict = "conflict" -> Put(store, ks, Bumped(curr))
                 [] verdict = "none"     -> store
  BY DEF SetValue
<1> HIDE DEF verdict, curr
<1> QED
  BY <1>2, <1>3, <1>4, <1>5, <1>6, <1>7

(* What calls lock, and release, is never a list. *)
Lockables == EdgeKeys \cup {EdgesKey} \cup {ObjectKey(x) : x \in Objects}
               \cup {OfObject(x) : x \in Objects} \cup Gatherings

LEMMA LockablesApart == \A k \in Lockables : \A x : k # DependencyKey(x)
BY KeysApart, StorableKeys DEF Lockables, Storable

LEMMA LockedAre ==
  ASSUME NEW o \in Op, Shaped(o), o.kind \in Mutations \cup Collecting
  PROVE  LockedKeys(o) \in Seq(Lockables) /\ Len(LockedKeys(o)) \in Nat \ {0}
<1>1. CASE o.kind \in {"createEdge", "createEdgeBypass"}
  <2>1. {PrimaryKey(o.on), FullKey(o.on), EdgesKey} \subseteq Lockables
    BY <1>1 DEF Shaped, Lockables, EdgeKeys
  <2>2. LockedKeys(o) = <<PrimaryKey(o.on), EdgesKey, FullKey(o.on)>>
    BY <1>1 DEF LockedKeys, Collecting
  <2> QED
    BY <2>1, <2>2
<1>2. CASE o.kind = "deleteEdge"
  <2>1. {PrimaryKey(o.on), FullKey(o.on), EdgesKey} \subseteq Lockables
    BY <1>2 DEF Shaped, Lockables, EdgeKeys
  <2> DEFINE full == IF o.known THEN <<FullKey(o.on)>> ELSE <<>>
  <2>2. LockedKeys(o) = <<PrimaryKey(o.on), EdgesKey>> \o full
    <3> HIDE DEF full
    <3> QED
      BY <1>2, Zenon DEF LockedKeys, Collecting, full
  <2>3. full \in Seq(Lockables)
    BY <2>1
  <2>4. <<PrimaryKey(o.on), EdgesKey>> \in Seq(Lockables) /\ Len(<<PrimaryKey(o.on), EdgesKey>>) = 2
    BY <2>1
  <2> HIDE DEF full
  <2> QED
    BY <2>2, <2>3, <2>4
<1>3. CASE o.kind \in {"deleteObject", "deleteEdgesByObject", "updateObject"}
  <2>1. {ObjectKey(o.on), OfObject(o.on)} \subseteq Lockables
    BY <1>3 DEF Shaped, Lockables
  <2>2. CASE o.kind = "deleteObject"
    <3>1. LockedKeys(o) = <<ObjectKey(o.on), OfObject(o.on)>>
      BY <2>2 DEF LockedKeys, Collecting
    <3> QED
      BY <2>1, <3>1
  <2>3. CASE o.kind = "deleteEdgesByObject"
    <3>1. LockedKeys(o) = <<OfObject(o.on)>>
      BY <2>3 DEF LockedKeys, Collecting
    <3> QED
      BY <2>1, <3>1
  <2>4. CASE o.kind = "updateObject"
    <3>1. LockedKeys(o) = <<ObjectKey(o.on)>>
      BY <2>4 DEF LockedKeys, Collecting
    <3> QED
      BY <2>1, <3>1
  <2> QED
    BY <1>3, <2>2, <2>3, <2>4
<1>4. CASE o.kind \in Collecting
  <2>1. {OfObject(o.on[2]), o.on} \subseteq Lockables
    BY <1>4, ObjectOf DEF Shaped, Lockables
  <2>2. LockedKeys(o) = <<OfObject(o.on[2]), o.on>>
    BY <1>4 DEF LockedKeys, Collecting
  <2> QED
    BY <2>1, <2>2
<1> QED
  BY <1>1, <1>2, <1>3, <1>4 DEF Mutations

LEMMA CalmWriteSentinel ==
  ASSUME NEW store \in [AllKeys -> Entry], ListsOK(store), NEW used,
         NEW s \in Sentinel, s.id \notin used,
         NEW lks \in Seq(Lockables), Len(lks) \in Nat \ {0}
  PROVE  Calm(store, WriteSentinel(store, s, lks), used)
<1>1. Lockable(store, lks) \subseteq Lockables
  BY DEF Lockable
<1>2. \A x \in Objects \cup Edges : DependencyKey(x) \notin Lockable(store, lks)
  BY <1>1, LockablesApart
<1>3. LockEntry(s) \in Entry /\ LockEntry(s).tag = "lock" /\ LockEntry(s).s.id \notin used
  BY EntryOK
<1>4. Calm(store, Put(store, Lockable(store, lks), LockEntry(s)), used)
  BY <1>2, <1>3, CalmPut
<1> QED
  BY <1>4, CalmSame DEF WriteSentinel

LEMMA CalmRelease ==
  ASSUME NEW store \in [AllKeys -> Entry], ListsOK(store), NEW used, NEW s,
         NEW ks \in SUBSET Lockables
  PROVE  Calm(store, ReleaseSentinel(store, s, ks), used)
<1>1. \A x \in Objects \cup Edges : DependencyKey(x) \notin {k \in ks : store[k] = LockEntry(s)}
  BY LockablesApart
<1> QED
  BY <1>1, CalmPut, EntryOK DEF ReleaseSentinel

-----------------------------------------------------------------------------
(* A step stores no collection that depends on what is being deleted.      *)
Protected ==
  \A k \in Gatherings : Stored(k) =>
    \A x \in Objects \cup Edges :
      Deleting(x) => DependencyKey(x) \notin DependenciesOf(k, cache'[k].val)

LEMMA CalmProtects == ASSUME Calm(cache, cache', InUse) PROVE Protected
BY DEF Calm, Protected, Stored

(* A calm step disturbs nobody who goes on as before.                      *)
LEMMA CalmOthers ==
  ASSUME Inv, db \subseteq db', Calm(cache, cache', InUse),
         NEW q \in Procs, Running(q)
  PROVE  /\ op[q] \in Op /\ Shaped(op[q])
         /\ ReaderOK(op[q], cache', db') /\ DeleterOK(op[q], cache')
<1>1. op[q] \in Op
  BY DEF Inv, TypeOK, Running
<1>2. Shaped(op[q]) /\ ReaderOK(op[q], cache, db) /\ DeleterOK(op[q], cache)
  BY DEF Inv
<1>3. op[q].s # NoLock => op[q].s.id \in InUse
  BY DEF InUse
<1> QED
  BY <1>1, <1>2, <1>3, CalmKeepsCaller DEF Inv, TypeOK

(* A step of one caller that is calm has to answer for nothing but what    *)
(* the caller is doing then.                                               *)
LEMMA CalmStep ==
  ASSUME Inv, NEW p \in Procs, NEW o \in Op \cup {Idle}, op' = [op EXCEPT ![p] = o],
         db \subseteq db', db' \subseteq Edges, Calls' = Calls, Calm(cache, cache', InUse),
         o # Idle => Shaped(o) /\ ReaderOK(o, cache', db') /\ DeleterOK(o, cache')
  PROVE  Inv' /\ Protected
<1>1. TypeOK'
  BY DEF Inv, TypeOK, Calm
<1>2. ASSUME NEW q \in Procs, op'[q] # Idle
      PROVE  Shaped(op'[q]) /\ ReaderOK(op'[q], cache', db') /\ DeleterOK(op'[q], cache')
  <2>1. CASE q = p
    BY <1>2, <2>1 DEF Inv, TypeOK
  <2>2. CASE q # p
    <3>1. op'[q] = op[q] /\ Running(q)
      BY <1>2, <2>2 DEF Inv, TypeOK, Running
    <3> QED
      BY <3>1, CalmOthers
  <2> QED
    BY <2>1, <2>2
<1>3. CachedOK(cache', db')
  BY CalmKeepsCached DEF Inv, TypeOK
<1>4. ListsOK(cache')
  BY DEF Calm
<1> QED
  BY <1>1, <1>2, <1>3, <1>4, CalmProtects DEF Inv, Running

LEMMA CalmAlone ==
  ASSUME Inv, UNCHANGED <<op, db, Calls>>, Calm(cache, cache', InUse)
  PROVE  Inv' /\ Protected
<1>1. TypeOK'
  BY DEF Inv, TypeOK, Calm
<1>2. \A q \in Procs : Running(q) =>
        Shaped(op[q]) /\ ReaderOK(op[q], cache', db') /\ DeleterOK(op[q], cache')
  BY CalmOthers
<1>3. CachedOK(cache', db')
  BY CalmKeepsCached DEF Inv, TypeOK
<1>4. ListsOK(cache')
  BY DEF Calm
<1> QED
  BY <1>1, <1>2, <1>3, <1>4, CalmProtects DEF Inv, Running

(* The caller goes on to pc.  It has nothing to answer for unless it is a  *)
(* read that is about to store, or a delete under way.                     *)
Steps == {"locking", "tombstoning", "locked", "answered", "clearing",
          "unlinking", "linking", "selfLinking", "undoing", "closing"}

LEMMA Moved ==
  ASSUME NEW o \in Op, NEW pc \in Steps
  PROVE  LET n == [o EXCEPT !.pc = pc] IN
         /\ n \in Op /\ n # Idle
         /\ n.kind = o.kind /\ n.on = o.on /\ n.pc = pc /\ n.s = o.s /\ n.val = o.val
         /\ n.known = o.known
BY DEF Op, Steps, Idle

LEMMA GoStep ==
  ASSUME Inv, NEW p \in Procs, Running(p), NEW pc \in Steps, Go(p, pc),
         db \subseteq db', db' \subseteq Edges, Calls' = Calls, Calm(cache, cache', InUse),
         Shaped([op[p] EXCEPT !.pc = pc]),
         op[p].kind \in Collecting => pc \notin {"answered", "linking"},
         op[p].kind \in Deletes /\ pc \in {"locked", "closing"} =>
           cache'[DependencyKey(op[p].on)] = Tombstone
  PROVE  Inv' /\ Protected
<1> DEFINE n == [op[p] EXCEPT !.pc = pc]
<1>1. op[p] \in Op
  BY CalmOthers
<1>2. /\ n \in Op /\ n # Idle
      /\ n.kind = op[p].kind /\ n.on = op[p].on /\ n.pc = pc
  BY <1>1, Moved
<1>3. op' = [op EXCEPT ![p] = n]
  BY DEF Go
<1> HIDE DEF n
<1>4. ReaderOK(n, cache', db') /\ DeleterOK(n, cache')
  BY <1>2 DEF ReaderOK, DeleterOK
<1>5. Shaped(n)
  BY DEF n
<1> QED
  BY <1>2, <1>3, <1>4, <1>5, CalmStep

LEMMA EndStep ==
  ASSUME Inv, NEW p \in Procs, End(p),
         db \subseteq db', db' \subseteq Edges, Calls' = Calls, Calm(cache, cache', InUse)
  PROVE  Inv' /\ Protected
BY CalmStep DEF End

LEMMA InvRunning ==
  ASSUME Inv, NEW p \in Procs, op[p].pc \in Steps
  PROVE  /\ Running(p) /\ op[p] \in Op /\ Shaped(op[p])
         /\ ReaderOK(op[p], cache, db) /\ DeleterOK(op[p], cache)
BY DEF Inv, TypeOK, Running, Idle, Steps

-----------------------------------------------------------------------------
(* What a call looks like as it begins. *)
LEMMA Begun ==
  ASSUME NEW kind \in Reads \cup Mutations,
         NEW x \in Edges \cup Objects \cup Collections \cup Paths, NEW pc \in Steps,
         NEW s \in Sentinel \cup {NoLock}, NEW known \in BOOLEAN
  PROVE  LET n == [kind |-> kind, on |-> x, pc |-> pc, s |-> s, val |-> {}, known |-> known] IN
         /\ n \in Op /\ n # Idle
         /\ n.kind = kind /\ n.on = x /\ n.pc = pc /\ n.s = s
BY DEF Op, Steps, Idle

LEMMA FreshIs ==
  ASSUME NEW kind \in Kinds, NEW s \in FreshSentinel(kind)
  PROVE  s \in Sentinel /\ s.kind = kind /\ s.id \notin InUse /\ s \in [kind : {kind}, id : Ids]
BY DEF FreshSentinel, Sentinel

LEMMA MissStep ==
  ASSUME Inv, NEW p \in Procs, NEW kind \in Reads, NEW x \in ReadTargets(kind),
         Miss(p, kind, x), Calls' = Calls
  PROVE  Inv' /\ Protected
<1> DEFINE k == LockKey([kind |-> kind, on |-> x])
<1>1. PICK s \in FreshSentinel("read") :
        Begin(p, kind, x, "locked", s, FALSE) /\ cache' = LockOnMiss(cache, k, s)
  BY DEF Miss
<1>2. s \in Sentinel /\ s.id \notin InUse /\ s \in [kind : {"read"}, id : Ids]
  BY FreshIs DEF Kinds
<1> DEFINE known == FALSE
           n == [kind |-> kind, on |-> x, pc |-> "locked", s |-> s, val |-> {}, known |-> known]
<1>3. /\ kind \in {"getEdge", "findEdge"} => x \in Edges
      /\ kind \in Collecting => x \in Gatherings
      /\ kind \in Listing => x \in Collections
      /\ kind = "checkAttribute" => x \in Paths
  BY DEF ReadTargets, Collecting, Listing, Gatherings, Collections
<1>4. x \in Edges \cup Objects \cup Collections \cup Paths
  BY <1>3 DEF Reads, Collecting, Gatherings
<1>5. n \in Op /\ n # Idle /\ n.kind = kind /\ n.on = x /\ n.pc = "locked" /\ n.s = s
  <2>1. known \in BOOLEAN
    OBVIOUS
  <2> HIDE DEF known
  <2> QED
    BY <1>2, <1>4, <2>1, Begun DEF Steps
<1>6. op' = [op EXCEPT ![p] = n]
  BY <1>1 DEF Begin
<1> HIDE DEF n
<1>7. Shaped(n)
  BY <1>2, <1>3, <1>5 DEF Shaped, Reads, Mutations, Collecting, Listing
<1>8. ReaderOK(n, cache', db') /\ DeleterOK(n, cache')
  BY <1>5 DEF ReaderOK, DeleterOK, Deletes, Reads
<1>9. k \in Storable \cup {EdgesKey}
  <2>1. CASE kind = "getEdge"
    BY <1>3, <2>1 DEF LockKey, Collecting, Storable, EdgeKeys
  <2>2. CASE kind = "findEdge"
    BY <2>2 DEF LockKey, Collecting
  <2>3. CASE kind \in Collecting
    BY <1>3, <2>3, StorableKeys DEF LockKey, Collecting
  <2> QED
    BY <2>1, <2>2, <2>3 DEF Reads, Collecting
<1> HIDE DEF k
<1>10. LockEntry(s) \in Entry /\ LockEntry(s).tag = "lock" /\ LockEntry(s).s.id \notin InUse
  BY <1>2, EntryOK
<1>11. Calm(cache, Put(cache, {k}, LockEntry(s)), InUse)
  BY <1>9, <1>10, CalmPut, KeysApart DEF Inv, TypeOK
<1>12. Calm(cache, cache', InUse)
  BY <1>1, <1>11, CalmSame DEF LockOnMiss, Inv, TypeOK
<1>13. db' = db /\ db \subseteq Edges
  BY DEF Miss, Inv, TypeOK
<1> QED
  BY <1>5, <1>6, <1>7, <1>8, <1>12, <1>13, CalmStep

LEMMA ServeReadStep ==
  ASSUME Inv, NEW p \in Procs, ServeRead(p), Calls' = Calls
  PROVE  Inv' /\ Protected
<1> DEFINE o == op[p]
<1>1. o \in Op /\ Shaped(o) /\ o.kind \in Reads
  BY InvRunning DEF ServeRead, Steps
<1>2. PICK answer \in CASE o.kind \in {"getEdge", "findEdge"} -> {db \cap {o.on}}
                        [] o.kind \in {"listEdges", "listEdgesBetween"} -> Listings(o)
                        [] o.kind = "checkAttribute" -> {{}} \cup {{e} : e \in db \cap Members(o.on)} :
        op' = [op EXCEPT ![p].pc = "answered", ![p].val = answer]
  BY DEF ServeRead
<1>3. answer \subseteq db
  <2>1. CASE o.kind \in {"getEdge", "findEdge"}
    BY <1>2, <2>1
  <2>2. CASE o.kind \in {"listEdges", "listEdgesBetween"}
    BY <1>2, <2>2 DEF Listings
  <2>3. CASE o.kind = "checkAttribute"
    BY <1>2, <2>3
  <2> QED
    BY <1>1, <2>1, <2>2, <2>3 DEF Reads
<1>4. db' = db /\ db \subseteq Edges /\ Calm(cache, cache', InUse)
  BY CalmSame DEF ServeRead, Inv, TypeOK
<1> DEFINE n == [o EXCEPT !.pc = "answered", !.val = answer]
<1>5. /\ n \in Op /\ n # Idle
      /\ n.kind = o.kind /\ n.on = o.on /\ n.pc = "answered" /\ n.s = o.s /\ n.val = answer
  BY <1>1, <1>3, <1>4 DEF Op, Idle
<1>6. op' = [op EXCEPT ![p] = n]
  BY <1>2
<1> HIDE DEF n
<1>7. Shaped(n)
  BY <1>1, <1>5 DEF Shaped, Reads, Mutations
<1>8. ReaderOK(n, cache', db') /\ DeleterOK(n, cache')
  BY <1>3, <1>4, <1>5 DEF ReaderOK, DeleterOK
<1> QED
  BY <1>4, <1>5, <1>6, <1>7, <1>8, CalmStep

LEMMA FailReadStep ==
  ASSUME Inv, NEW p \in Procs, FailRead(p), Calls' = Calls
  PROVE  Inv' /\ Protected
<1>1. Running(p) /\ op[p] \in Op /\ Shaped(op[p]) /\ op[p].kind \in Reads
  BY InvRunning DEF FailRead, Steps
<1>2. db' = db /\ db \subseteq Edges /\ Calm(cache, cache', InUse)
  BY CalmSame DEF FailRead, Inv, TypeOK
<1>3. CASE End(p)
  BY <1>2, <1>3, EndStep
<1>4. CASE Go(p, "closing") /\ op[p].kind \notin {"getEdge", "findEdge"}
  <2>1. Shaped([op[p] EXCEPT !.pc = "closing"])
    BY <1>1, <1>4, Moved DEF Shaped, Reads, Collecting, Steps
  <2>2. op[p].kind \notin Deletes
    BY <1>1 DEF Reads, Deletes
  <2> QED
    BY <1>1, <1>2, <1>4, <2>1, <2>2, GoStep DEF Steps
<1> QED
  BY <1>3, <1>4 DEF FailRead

LEMMA FiniteRange ==
  ASSUME NEW S, IsFiniteSet(S), NEW f
  PROVE  IsFiniteSet({f[x] : x \in S})
<1> DEFINE T == {f[x] : x \in S}
           g == [x \in S |-> f[x]]
<1>1. g \in Surjection(S, T)
  <2>1. g \in [S -> T]
    OBVIOUS
  <2>2. \A t \in T : \E x \in S : g[x] = t
    OBVIOUS
  <2> QED
    BY <2>1, <2>2 DEF Surjection
<1> QED
  BY <1>1, FS_Surjection

(* A permutation of the keys a collection depends on names them all.       *)
LEMMA OrdersAll ==
  ASSUME NEW k \in Gatherings, NEW es \in SUBSET Edges, NEW dkeys \in Orders(DependenciesOf(k, es))
  PROVE  /\ \E n \in Nat : DOMAIN dkeys = 1 .. n
         /\ \A d \in DependenciesOf(k, es) : \E m \in DOMAIN dkeys : dkeys[m] = d
         /\ \A m \in DOMAIN dkeys : dkeys[m] \in DependenciesOf(k, es)
<1> DEFINE S == DependenciesOf(k, es)
           X == es \cup {k[2]} \cup UNION {{Source[e], Target[e]} : e \in es}
           n == Cardinality(S)
<1>1. IsFiniteSet(X)
  <2>1. IsFiniteSet(es)
    BY FS_Subset
  <2>2. IsFiniteSet({Source[e] : e \in es}) /\ IsFiniteSet({Target[e] : e \in es})
    BY <2>1, FiniteRange
  <2>3. X = ((es \cup {k[2]}) \cup {Source[e] : e \in es}) \cup {Target[e] : e \in es}
    OBVIOUS
  <2>4. IsFiniteSet(es \cup {k[2]})
    BY <2>1, FS_AddElement
  <2>5. IsFiniteSet((es \cup {k[2]}) \cup {Source[e] : e \in es})
    BY <2>2, <2>4, FS_Union
  <2> QED
    BY <2>2, <2>3, <2>5, FS_Union
<1>2. IsFiniteSet(S)
  <2> DEFINE keys == [x \in X |-> DependencyKey(x)]
  <2>1. S = {keys[x] : x \in X}
    BY DEF DependenciesOf
  <2> HIDE DEF X, keys, S
  <2> QED
    BY <1>1, <2>1, FiniteRange
<1>3. n \in Nat
  BY <1>2, FS_CardinalityType
<1>4. dkeys \in [1 .. n -> S] /\ \A i, j \in DOMAIN dkeys : dkeys[i] = dkeys[j] => i = j
  BY DEF Orders
<1>5. IsFiniteSet(1 .. n) /\ Cardinality(1 .. n) = n
  BY <1>3, FS_Interval
<1> HIDE DEF S, n
<1>6. dkeys \in Injection(1 .. n, S)
  BY <1>4 DEF Injection, IsInjective
<1>7. dkeys \in Surjection(1 .. n, S)
  BY <1>2, <1>5, <1>6, FS_Injection DEF n
<1> QED
  BY <1>3, <1>4, <1>7 DEF Surjection, S

(* A calm step gives nobody back a lock that was lost. *)
LEMMA HeldBefore ==
  ASSUME Inv, NEW p \in Procs, Running(p), op[p].kind \in Collecting,
         NEW new, Calm(cache, new, InUse), Holds(new, op[p])
  PROVE  Holds(cache, op[p])
<1>1. op[p] \in Op /\ Shaped(op[p])
  BY DEF Inv, TypeOK, Running
<1>2. op[p].on \in Gatherings /\ op[p].s \in [kind : {"read"}, id : Ids]
  BY <1>1 DEF Shaped, Collecting, Reads
<1>3. op[p].s.id \in InUse
  BY <1>2 DEF InUse, NoLock
<1> QED
  BY <1>2, <1>3 DEF Calm, Holds, IsLock

LEMMA LinkCollectionStep ==
  ASSUME Inv, NEW p \in Procs, LinkCollection(p), Calls' = Calls
  PROVE  Inv' /\ Protected
<1> DEFINE o == op[p]
           D == DependenciesOf(o.on, o.val)
<1>1. /\ Running(p) /\ o \in Op /\ Shaped(o) /\ ReaderOK(o, cache, db)
      /\ o.pc = "answered" /\ o.kind \in Collecting
  BY InvRunning DEF LinkCollection, Steps
<1>2. o.on \in Gatherings /\ o.val \in SUBSET Edges /\ o.kind \notin Deletes
  BY <1>1 DEF Shaped, Op, Collecting, Deletes
<1>3. db' = db /\ db \subseteq Edges
  BY DEF LinkCollection, Inv, TypeOK
<1>4. \A pc \in Steps : LET n == [o EXCEPT !.pc = pc] IN
        /\ n \in Op /\ n # Idle
        /\ n.kind = o.kind /\ n.on = o.on /\ n.pc = pc /\ n.s = o.s /\ n.val = o.val
  BY <1>1, Moved
<1>5. \A pc \in {"linking", "closing"} : Shaped([o EXCEPT !.pc = pc])
  BY <1>1, <1>4 DEF Shaped, Steps, Collecting, Reads, Mutations
<1>6. ASSUME Go(p, "closing"), Calm(cache, cache', InUse) PROVE Inv' /\ Protected
  BY <1>1, <1>2, <1>3, <1>5, <1>6, GoStep DEF Steps
<1>7. CASE Go(p, "closing") /\ UNCHANGED cache
  BY <1>6, <1>7, CalmSame DEF Inv, TypeOK
<1>8. ASSUME NEW dkeys \in Orders(D), cache' = AddDependency(cache, dkeys, {o.on}),
             Go(p, IF Dependable(cache, dkeys) THEN "linking" ELSE "closing")
      PROVE  Inv' /\ Protected
  <2>1. /\ \E m \in Nat : DOMAIN dkeys = 1 .. m
        /\ \A d \in D : \E m \in DOMAIN dkeys : dkeys[m] = d
        /\ \A m \in DOMAIN dkeys : dkeys[m] \in D
    BY <1>2, OrdersAll
  <2>2. PICK m \in Nat : DOMAIN dkeys = 1 .. m
    BY <2>1
  <2>3. \A l \in 1 .. m : \E x \in Objects \cup Edges : dkeys[l] = DependencyKey(x)
    <3>1. \A d \in D : \E x \in Objects \cup Edges : d = DependencyKey(x)
      BY <1>2, DependenciesAre
    <3> HIDE DEF D
    <3> QED
      BY <2>1, <2>2, <3>1
  <2>4. {o.on} \in SUBSET Storable
    BY <1>2, StorableKeys
  <2>5. /\ Calm(cache, cache', InUse)
        /\ Dependable(cache, dkeys) =>
             \A l \in 1 .. m : cache[dkeys[l]] # Tombstone /\ {o.on} \subseteq Listed(cache', dkeys[l])
    <3>1. PICK ks \in SUBSET Storable : ks = {o.on}
      BY <2>4
    <3>2. PICK store \in [AllKeys -> Entry] : store = cache
      BY DEF Inv, TypeOK
    <3>3. ListsOK(store)
      BY <3>2 DEF Inv
    <3>4. PICK used : used = InUse
      OBVIOUS
    <3>5. /\ Calm(store, AddDependency(store, dkeys, ks), used)
          /\ Dependable(store, dkeys) =>
               \A l \in 1 .. m : /\ store[dkeys[l]] # Tombstone
                                 /\ ks \subseteq Listed(AddDependency(store, dkeys, ks), dkeys[l])
      BY <2>2, <2>3, <3>3, CalmAdd
    <3>6. cache' = AddDependency(store, dkeys, ks)
      BY <1>8, <3>1, <3>2
    <3> QED
      BY <3>1, <3>2, <3>4, <3>5, <3>6, Zenon
  <2>6. CASE ~Dependable(cache, dkeys)
    BY <1>6, <1>8, <2>5, <2>6
  <2>7. CASE Dependable(cache, dkeys)
    <3> DEFINE n == [o EXCEPT !.pc = "linking"]
    <3>1. /\ n \in Op /\ n # Idle /\ Shaped(n) /\ n.kind = o.kind
          /\ n.on = o.on /\ n.pc = "linking" /\ n.s = o.s /\ n.val = o.val
      BY <1>4, <1>5 DEF Steps
    <3>2. op' = [op EXCEPT ![p] = n]
      BY <1>8, <2>7 DEF Go
    <3> HIDE DEF n
    <3>3. ~Blocked(cache, o.on, o.val)
      BY <2>1, <2>2, <2>5, <2>7 DEF Blocked
    <3>4. Entered(cache', o.on, o.val)
      BY <2>1, <2>2, <2>5, <2>7 DEF Entered
    <3>5. Holds(cache', n) => Holds(cache, o)
      BY <1>1, <2>5, <3>1, HeldBefore DEF Holds
    <3>6. ReaderOK(n, cache', db')
      BY <1>1, <1>3, <3>1, <3>3, <3>4, <3>5 DEF ReaderOK
    <3>7. DeleterOK(n, cache')
      BY <3>1 DEF DeleterOK
    <3> QED
      BY <1>3, <2>5, <3>1, <3>2, <3>6, <3>7, CalmStep
  <2> QED
    BY <2>6, <2>7
<1> QED
  BY <1>7, <1>8 DEF LinkCollection

(* What a collection is held by are lists only. *)
LEMMA SameLists ==
  ASSUME NEW store, NEW new,
         \A x \in Objects \cup Edges : new[DependencyKey(x)] = store[DependencyKey(x)],
         NEW k \in Gatherings, NEW es \in SUBSET Edges
  PROVE  /\ Entered(store, k, es) <=> Entered(new, k, es)
         /\ Blocked(store, k, es) <=> Blocked(new, k, es)
<1>1. \A d \in DependenciesOf(k, es) : new[d] = store[d]
  BY DependenciesAre
<1> QED
  BY <1>1 DEF Entered, Blocked, Listed

LEMMA StoreCollectionStep ==
  ASSUME Inv, NEW p \in Procs, StoreCollection(p), Calls' = Calls
  PROVE  Inv' /\ Protected
<1> DEFINE o == op[p]
           n == [o EXCEPT !.pc = "closing"]
<1>1. /\ Running(p) /\ o \in Op /\ Shaped(o) /\ ReaderOK(o, cache, db)
      /\ o.pc = "linking" /\ o.kind \in Collecting
      /\ cache' = SetValue(cache, o.on, {o.on}, o.val, o.s)
  BY InvRunning DEF StoreCollection, Steps
<1>2. o.on \in Gatherings /\ o.val \in SUBSET Edges /\ o.kind \notin Deletes /\ o.s.kind = "read"
  BY <1>1 DEF Shaped, Op, Collecting, Deletes, Reads
<1>3. db' = db /\ db \subseteq Edges /\ cache \in [AllKeys -> Entry]
  BY DEF StoreCollection, Inv, TypeOK
<1>4. n \in Op /\ n # Idle /\ n.kind = o.kind /\ n.on = o.on /\ n.pc = "closing" /\ n.s = o.s
  BY <1>1, Moved DEF Steps
<1>5. op' = [op EXCEPT ![p] = n] /\ Go(p, "closing")
  BY DEF StoreCollection, Go
<1>6. Shaped(n)
  BY <1>1, <1>4 DEF Shaped, Steps, Collecting, Reads, Mutations
<1>7. CASE cache[o.on] # LockEntry(o.s)
  <2>1. CanSetValue(cache[o.on], o.val, o.s) = "none"
    BY <1>2, <1>7 DEF CanSetValue
  <2>2. cache' = cache
    BY <1>1, <2>1 DEF SetValue
  <2>3. Calm(cache, cache', InUse)
    BY <1>3, <2>2, CalmSame DEF Inv
  <2> QED
    BY <1>1, <1>2, <1>3, <1>5, <1>6, <2>3, GoStep DEF Steps
<1>8. CASE cache[o.on] = LockEntry(o.s)
  <2>1. cache[o.on].tag = "lock" /\ cache[o.on].s = o.s
    BY <1>8 DEF LockEntry
  <2>2. CanSetValue(cache[o.on], o.val, o.s) = "set"
    BY <1>2, <1>8, <2>1 DEF CanSetValue
  <2>3. cache' = Put(cache, {o.on}, ItemEntry(o.val))
    BY <1>1, <2>1, <2>2 DEF SetValue
  <2>4. /\ ItemEntry(o.val) \in Entry /\ ItemEntry(o.val).tag = "item"
        /\ ItemEntry(o.val).val = o.val
    BY <1>2, EntryOK DEF ItemEntry
  <2>5. /\ cache' \in [AllKeys -> Entry]
        /\ \A k \in AllKeys : cache'[k] = IF k = o.on THEN ItemEntry(o.val) ELSE cache[k]
    BY <1>3, <2>3, <2>4, PutType
  <2>6. \A x \in Objects \cup Edges : cache'[DependencyKey(x)] = cache[DependencyKey(x)]
    BY <1>2, <2>5, DependencyKeys, KeysApart, StorableKeys
  <2>7. \A k \in Gatherings : cache'[k] = IF k = o.on THEN ItemEntry(o.val) ELSE cache[k]
    BY <2>5, StorableKeys
  <2>8. o.val \subseteq db /\ Entered(cache, o.on, o.val)
    BY <1>1, <2>1 DEF ReaderOK, Holds, IsLock
  <2> HIDE DEF n
  <2>9. TypeOK'
    BY <1>3, <1>4, <1>5, <2>5 DEF Inv, TypeOK
  <2>10. ListsOK(cache')
    BY <2>6 DEF Inv, ListsOK
  <2>11. CachedOK(cache', db')
    <3> SUFFICES ASSUME NEW k \in Gatherings, cache'[k].tag = "item"
                 PROVE  cache'[k].val \subseteq db /\ Entered(cache', k, cache'[k].val)
      BY <1>3 DEF CachedOK
    <3>1. CASE k = o.on
      BY <1>2, <2>4, <2>6, <2>7, <2>8, <3>1, SameLists
    <3>2. CASE k # o.on
      <4>1. cache'[k] = cache[k] /\ cache[k].val \in SUBSET Edges
        BY <1>3, <2>7, <3>2, EntryShape, StorableKeys
      <4>2. cache[k].val \subseteq db /\ Entered(cache, k, cache[k].val)
        BY <4>1 DEF Inv, CachedOK
      <4> QED
        BY <2>6, <4>1, <4>2, SameLists
    <3> QED
      BY <3>1, <3>2
  <2>12. ASSUME NEW q \in Procs, op'[q] # Idle
         PROVE  Shaped(op'[q]) /\ ReaderOK(op'[q], cache', db') /\ DeleterOK(op'[q], cache')
    <3>1. CASE q = p
      <4>1. op'[q] = n
        BY <1>5, <3>1 DEF Inv, TypeOK
      <4> QED
        BY <1>2, <1>4, <1>6, <4>1 DEF ReaderOK, DeleterOK
    <3>2. CASE q # p
      <4>1. op'[q] = op[q] /\ Running(q)
        BY <1>5, <2>12, <3>2 DEF Inv, TypeOK, Running
      <4>2. op[q] \in Op /\ Shaped(op[q]) /\ ReaderOK(op[q], cache, db) /\ DeleterOK(op[q], cache)
        BY <4>1 DEF Inv, TypeOK, Running
      <4>3. DeleterOK(op[q], cache')
        BY <2>6, <4>2 DEF DeleterOK, Shaped, Deletes
      <4>4. ASSUME op[q].kind \in Collecting, Holds(cache', op[q]) PROVE ReaderOK(op[q], cache', db')
        <5>1. op[q].on \in Gatherings /\ op[q].val \in SUBSET Edges
          BY <4>2, <4>4 DEF Shaped, Op, Collecting
        <5>2. Holds(cache, op[q])
          BY <2>4, <2>7, <4>4, <5>1 DEF Holds, IsLock
        <5> QED
          BY <1>3, <2>6, <4>2, <4>4, <5>1, <5>2, SameLists DEF ReaderOK
      <4> QED
        BY <4>1, <4>2, <4>3, <4>4 DEF ReaderOK
    <3> QED
      BY <3>1, <3>2
  <2>13. Protected
    <3> SUFFICES ASSUME NEW k \in Gatherings, Stored(k), NEW x \in Objects \cup Edges, Deleting(x)
                 PROVE  DependencyKey(x) \notin DependenciesOf(k, cache'[k].val)
      BY DEF Protected
    <3>1. k = o.on /\ cache'[k].val = o.val
      BY <2>4, <2>7 DEF Stored
    <3>2. PICK q \in Procs : /\ Mutating(q) /\ op[q].on = x
                            /\ SentinelOf(op[q].kind) = "delete" /\ op[q].pc \in {"locked", "closing"}
      BY DEF Deleting
    <3>3. Running(q) /\ op[q].kind \in Deletes
      BY <3>2 DEF Mutating, Mutations, SentinelOf, Deletes
    <3>4. cache[DependencyKey(x)] = Tombstone
      BY <3>2, <3>3 DEF Inv, DeleterOK
    <3> QED
      BY <2>8, <3>1, <3>4 DEF Entered, Listed, Tombstone
  <2> QED
    BY <2>9, <2>10, <2>11, <2>12, <2>13 DEF Inv, Running
<1> QED
  BY <1>7, <1>8

(* The keys of an edge are neither lists nor collections. *)
LEMMA KeysOfEdge ==
  ASSUME NEW e \in Edges
  PROVE  /\ {PrimaryKey(e), FullKey(e)} \in SUBSET Storable
         /\ {PrimaryKey(e), FullKey(e)} \cap Gatherings = {}
         /\ \A x : DependencyKey(x) \notin {PrimaryKey(e), FullKey(e)}
         /\ PrimaryKey(e) \in AllKeys /\ FullKey(e) \in AllKeys /\ EdgesKey \in AllKeys
<1>1. {PrimaryKey(e), FullKey(e)} \subseteq EdgeKeys
  BY DEF EdgeKeys
<1> QED
  BY <1>1, KeysApart DEF Storable, AllKeys

(* A caller that is no read of a collection and no delete goes on.         *)
LEMMA WriterGoes ==
  ASSUME Inv, NEW p \in Procs, Running(p), NEW pc \in Steps, Go(p, pc),
         UNCHANGED <<db, Calls>>, Calm(cache, cache', InUse),
         op[p].kind \notin Collecting \cup Deletes,
         Shaped([op[p] EXCEPT !.pc = pc])
  PROVE  Inv' /\ Protected
<1>1. db' = db /\ db \subseteq Edges
  BY DEF Inv, TypeOK
<1> QED
  BY <1>1, GoStep

LEMMA StoreEdgeStep ==
  ASSUME Inv, NEW p \in Procs, StoreEdge(p), Calls' = Calls
  PROVE  Inv' /\ Protected
<1> DEFINE o == op[p]
           ks == {PrimaryKey(o.on), FullKey(o.on)}
           stored == CanSetValue(cache[LockKey(o)], {o.on}, o.s) = "set"
<1>1. /\ Running(p) /\ o \in Op /\ Shaped(o)
      /\ o.pc = "answered" /\ o.kind \in {"getEdge", "findEdge", "createEdge"}
  BY InvRunning DEF StoreEdge, Steps
<1>2. o.on \in Edges /\ o.val \in SUBSET Edges /\ o.kind \notin Collecting \cup Deletes
  BY <1>1 DEF Shaped, Op, Collecting, Deletes
<1>3. db' = db /\ db \subseteq Edges /\ cache \in [AllKeys -> Entry] /\ ListsOK(cache)
  BY DEF StoreEdge, Inv, TypeOK
<1>4. LockKey(o) \in AllKeys
  <2>1. PrimaryKey(o.on) \in AllKeys /\ EdgesKey \in AllKeys
    BY <1>2, KeysOfEdge
  <2>2. CASE o.kind = "findEdge"
    <3>1. LockKey(o) = EdgesKey
      BY <2>2 DEF LockKey, Collecting
    <3> QED
      BY <2>1, <3>1
  <2>3. CASE o.kind # "findEdge"
    <3>1. LockKey(o) = PrimaryKey(o.on)
      BY <1>1, <2>3 DEF LockKey, Collecting
    <3> QED
      BY <2>1, <3>1
  <2> QED
    BY <2>2, <2>3
<1>5. Calm(cache, cache', InUse)
  <2>1. ks \cap Gatherings = {} /\ \A x \in Objects \cup Edges : DependencyKey(x) \notin ks
    BY <1>2, KeysOfEdge
  <2>2. \/ cache' = cache
        \/ cache' = SetValue(cache, LockKey(o), ks, o.val, o.s)
    BY DEF StoreEdge
  <2> HIDE DEF ks
  <2>3. Calm(cache, SetValue(cache, LockKey(o), ks, o.val, o.s), InUse)
    BY <1>2, <1>3, <1>4, <2>1, CalmSetValue
  <2> QED
    BY <1>3, <2>2, <2>3, CalmSame
<1>6. \A pc \in Steps : LET n == [o EXCEPT !.pc = pc] IN
        n.kind = o.kind /\ n.on = o.on /\ n.pc = pc /\ n.s = o.s
  BY <1>1, Moved
<1>7. UNCHANGED <<db, Calls>>
  BY <1>3
<1>8. CASE o.kind = "createEdge" /\ Go(p, "closing")
  <2>1. Shaped([o EXCEPT !.pc = "closing"])
    BY <1>1, <1>6, <1>8 DEF Shaped, Steps, Mutations, Reads
  <2> QED
    BY <1>1, <1>2, <1>5, <1>7, <1>8, <2>1, WriterGoes DEF Steps
<1>9. CASE o.kind # "createEdge" /\ Go(p, "linking")
  <2>1. Shaped([o EXCEPT !.pc = "linking"])
    BY <1>1, <1>6, <1>9 DEF Shaped, Steps, Collecting
  <2> QED
    BY <1>1, <1>2, <1>5, <1>7, <1>9, <2>1, WriterGoes DEF Steps
<1>10. CASE End(p)
  BY <1>3, <1>5, <1>10, EndStep
<1>11. CASE /\ o.kind = "createEdge"
            /\ op' = [op EXCEPT ![p].pc = "clearing", ![p].known = stored]
  <2> DEFINE n == [o EXCEPT !.pc = "clearing", !.known = stored]
  <2>1. stored \in BOOLEAN
    OBVIOUS
  <2>2. op' = [op EXCEPT ![p] = n]
    BY <1>11
  <2> HIDE DEF stored
  <2>3. /\ n \in Op /\ n # Idle
        /\ n.kind = o.kind /\ n.on = o.on /\ n.pc = "clearing" /\ n.s = o.s
    BY <1>1, <2>1 DEF Op, Idle
  <2> HIDE DEF n
  <2>4. Shaped(n)
    BY <1>1, <1>11, <2>3 DEF Shaped, Collecting, Reads
  <2>5. ReaderOK(n, cache', db') /\ DeleterOK(n, cache')
    BY <1>2, <2>3 DEF ReaderOK, DeleterOK
  <2> QED
    BY <1>3, <1>5, <2>2, <2>3, <2>4, <2>5, CalmStep
<1> QED
  <2> HIDE DEF stored
  <2>1. CASE o.kind = "createEdge" /\ o.s = NoLock
    <3>1. Go(p, "closing")
      BY <2>1 DEF StoreEdge
    <3> QED
      BY <1>8, <2>1, <3>1
  <2>2. CASE o.kind = "createEdge" /\ o.s # NoLock
    <3>1. op' = [op EXCEPT ![p].pc = "clearing", ![p].known = stored]
      BY <2>2 DEF StoreEdge, stored
    <3> QED
      BY <1>11, <2>2, <3>1
  <2>3. CASE o.kind # "createEdge"
    <3>1. Go(p, "linking") \/ End(p)
      BY <2>3 DEF StoreEdge
    <3> QED
      BY <1>9, <1>10, <2>3, <3>1
  <2> QED
    BY <2>1, <2>2, <2>3

LEMMA ClearCollectionsStep ==
  ASSUME Inv, NEW p \in Procs, ClearCollections(p), Calls' = Calls
  PROVE  Inv' /\ Protected
<1>1. /\ Running(p) /\ op[p] \in Op /\ Shaped(op[p])
      /\ op[p].pc = "clearing"
  BY InvRunning DEF ClearCollections, Steps
<1>2. op[p].kind \in {"createEdge", "updateObject"} /\ op[p].kind \notin Collecting \cup Deletes
  BY <1>1 DEF Shaped, Collecting, Deletes
<1>3. \A x \in Objects \cup Edges : DependencyKey(x) \notin CollectionsOf(op[p].on)
  BY KeysApart DEF CollectionsOf
<1>4. Calm(cache, cache', InUse)
  BY <1>3, CalmPut, EntryOK DEF ClearCollections, Inv, TypeOK
<1>5. Shaped([op[p] EXCEPT !.pc = "unlinking"])
  BY <1>1, <1>2, Moved DEF Shaped, Steps, Collecting, Reads
<1> QED
  BY <1>1, <1>2, <1>4, <1>5, WriterGoes DEF ClearCollections, Steps

LEMMA UnlinkStep ==
  ASSUME Inv, NEW p \in Procs, Unlink(p), Calls' = Calls
  PROVE  Inv' /\ Protected
<1>1. /\ Running(p) /\ op[p] \in Op /\ Shaped(op[p])
      /\ op[p].pc = "unlinking"
  BY InvRunning DEF Unlink, Steps
<1>2. op[p].kind \in {"createEdge", "updateObject"} /\ op[p].kind \notin Collecting \cup Deletes
  BY <1>1 DEF Shaped, Collecting, Deletes
<1>3. op[p].on \in Objects \cup Edges
  BY <1>1, <1>2 DEF Shaped
<1>4. Calm(cache, cache', InUse)
  <2> DEFINE set == FALSE
  <2>1. cache' = ClearDependencies(cache, DependencyKey(op[p].on), set) /\ set \in BOOLEAN
    BY DEF Unlink
  <2> HIDE DEF set
  <2> QED
    BY <1>3, <2>1, CalmClear DEF Inv, TypeOK
<1>5. \A pc \in {"linking", "closing"} : Shaped([op[p] EXCEPT !.pc = pc])
  BY <1>1, <1>2, Moved DEF Shaped, Steps, Collecting, Reads, Mutations
<1>6. Go(p, "linking") \/ Go(p, "closing")
  BY DEF Unlink
<1>7. UNCHANGED <<db, Calls>>
  BY DEF Unlink
<1> QED
  BY <1>1, <1>2, <1>4, <1>5, <1>6, <1>7, WriterGoes DEF Steps

LEMMA AfterSaveStep ==
  ASSUME Inv, NEW p \in Procs, Running(p), op[p].kind \in {"getEdge", "findEdge", "createEdge"},
         AfterSave(p), UNCHANGED <<db, Calls>>, Calm(cache, cache', InUse)
  PROVE  Inv' /\ Protected
<1>1. op[p] \in Op /\ Shaped(op[p])
  BY DEF Inv, TypeOK, Running
<1>2. db' = db /\ db \subseteq Edges
  BY DEF Inv, TypeOK
<1>3. CASE op[p].kind = "createEdge" /\ Go(p, "closing")
  <2>1. Shaped([op[p] EXCEPT !.pc = "closing"])
    BY <1>1, <1>3, Moved DEF Shaped, Steps, Collecting, Reads, Mutations
  <2>2. op[p].kind \notin Collecting \cup Deletes
    BY <1>3 DEF Collecting, Deletes
  <2> QED
    BY <1>3, <2>1, <2>2, WriterGoes DEF Steps
<1>4. CASE End(p)
  BY <1>2, <1>4, EndStep
<1> QED
  BY <1>3, <1>4 DEF AfterSave

(* A save enters its keys in the lists of one or two things. *)
LEMMA CalmLink ==
  ASSUME Inv, NEW ks \in SUBSET Storable,
         NEW x \in Objects \cup Edges, NEW y \in Objects \cup Edges
  PROVE  /\ Calm(cache, AddDependency(cache, <<DependencyKey(x)>>, ks), InUse)
         /\ Calm(cache, AddDependency(cache, <<DependencyKey(x), DependencyKey(y)>>, ks), InUse)
<1>1. cache \in [AllKeys -> Entry] /\ ListsOK(cache)
  BY DEF Inv, TypeOK
<1>2. Calm(cache, AddDependency(cache, <<DependencyKey(x)>>, ks), InUse)
  <2> DEFINE dkeys == <<DependencyKey(x)>>
  <2>1. DOMAIN dkeys = 1 .. 1 /\ \A m \in 1 .. 1 : dkeys[m] = DependencyKey(x)
    OBVIOUS
  <2> HIDE DEF dkeys
  <2>2. Calm(cache, AddDependency(cache, dkeys, ks), InUse)
    BY <1>1, <2>1, CalmAdd
  <2> QED
    BY <2>2 DEF dkeys
<1>3. Calm(cache, AddDependency(cache, <<DependencyKey(x), DependencyKey(y)>>, ks), InUse)
  <2> DEFINE dkeys == <<DependencyKey(x), DependencyKey(y)>>
  <2>1. DOMAIN dkeys = 1 .. 2 /\ \A m \in 1 .. 2 : dkeys[m] \in {DependencyKey(x), DependencyKey(y)}
    OBVIOUS
  <2> HIDE DEF dkeys
  <2>2. Calm(cache, AddDependency(cache, dkeys, ks), InUse)
    BY <1>1, <2>1, CalmAdd
  <2> QED
    BY <2>2 DEF dkeys
<1> QED
  BY <1>2, <1>3

LEMMA LinkEdgeStep ==
  ASSUME Inv, NEW p \in Procs, LinkEdge(p), Calls' = Calls
  PROVE  Inv' /\ Protected
<1> DEFINE e == op[p].on
<1>1. /\ Running(p) /\ op[p] \in Op /\ Shaped(op[p]) /\ op[p].pc = "linking"
      /\ op[p].kind \in {"getEdge", "findEdge", "createEdge"}
  BY InvRunning DEF LinkEdge, Steps
<1>2. e \in Edges /\ op[p].kind \notin Collecting \cup Deletes
  BY <1>1 DEF Shaped, Collecting, Deletes
<1>3. Calm(cache, cache', InUse)
  <2>1. {PrimaryKey(e), FullKey(e)} \in SUBSET Storable
    BY <1>2, KeysOfEdge
  <2>2. Source[e] \in Objects \cup Edges /\ Target[e] \in Objects \cup Edges
    BY <1>2
  <2>3. cache' = AddDependency(cache, EndPoints(e), {PrimaryKey(e), FullKey(e)})
    BY DEF LinkEdge
  <2> HIDE DEF e
  <2> QED
    BY <2>1, <2>2, <2>3, CalmLink DEF EndPoints
<1>4. \A pc \in {"selfLinking", "undoing"} : Shaped([op[p] EXCEPT !.pc = pc])
  BY <1>1, Moved DEF Shaped, Steps, Collecting, Reads
<1>5. Go(p, "selfLinking") \/ Go(p, "undoing")
  BY DEF LinkEdge
<1>6. UNCHANGED <<db, Calls>>
  BY DEF LinkEdge
<1> QED
  BY <1>1, <1>2, <1>3, <1>4, <1>5, <1>6, WriterGoes DEF Steps

LEMMA LinkNameStep ==
  ASSUME Inv, NEW p \in Procs, LinkName(p), Calls' = Calls
  PROVE  Inv' /\ Protected
<1> DEFINE e == op[p].on
<1>1. Running(p) /\ op[p] \in Op /\ Shaped(op[p]) /\ op[p].pc = "selfLinking"
  BY InvRunning DEF LinkName, Steps
<1>2. /\ op[p].kind \in {"getEdge", "findEdge", "createEdge"}
      /\ e \in Edges /\ op[p].kind \notin Collecting \cup Deletes
  BY <1>1 DEF Shaped, Collecting, Deletes
<1>3. Calm(cache, cache', InUse)
  <2>1. {FullKey(e)} \in SUBSET Storable
    BY <1>2, KeysOfEdge
  <2>2. cache' = AddDependency(cache, <<DependencyKey(e)>>, {FullKey(e)})
    BY DEF LinkName
  <2> HIDE DEF e
  <2> QED
    BY <1>2, <2>1, <2>2, CalmLink
<1>4. UNCHANGED <<db, Calls>>
  BY DEF LinkName
<1>5. CASE AfterSave(p)
  BY <1>1, <1>2, <1>3, <1>4, <1>5, AfterSaveStep
<1>6. CASE Go(p, "undoing")
  <2>1. Shaped([op[p] EXCEPT !.pc = "undoing"])
    BY <1>1, <1>2, Moved DEF Shaped, Steps, Collecting, Reads
  <2> QED
    BY <1>1, <1>2, <1>3, <1>4, <1>6, <2>1, WriterGoes DEF Steps
<1> QED
  BY <1>5, <1>6 DEF LinkName

LEMMA UndoSaveStep ==
  ASSUME Inv, NEW p \in Procs, UndoSave(p), Calls' = Calls
  PROVE  Inv' /\ Protected
<1> DEFINE ks == {PrimaryKey(op[p].on), FullKey(op[p].on)}
<1>1. Running(p) /\ Shaped(op[p]) /\ op[p].pc = "undoing"
  BY InvRunning DEF UndoSave, Steps
<1>2. op[p].kind \in {"getEdge", "findEdge", "createEdge"} /\ op[p].on \in Edges
  BY <1>1 DEF Shaped
<1>3. \A x \in Objects \cup Edges : DependencyKey(x) \notin ks
  BY <1>2, KeysOfEdge
<1>4. cache' = Put(cache, ks, Tombstone)
  BY DEF UndoSave
<1> HIDE DEF ks
<1>5. Calm(cache, cache', InUse)
  BY <1>3, <1>4, CalmPut, EntryOK DEF Inv, TypeOK
<1> QED
  BY <1>1, <1>2, <1>5, AfterSaveStep DEF UndoSave

-----------------------------------------------------------------------------
LEMMA StartMutationStep ==
  ASSUME Inv, NEW p \in Procs, NEW kind \in Mutations, NEW x \in Edges \cup Subjects,
         StartMutation(p, kind, x), Calls' = Calls
  PROVE  Inv' /\ Protected
<1> DEFINE known == kind = "deleteEdge" /\ cache[PrimaryKey(x)].tag = "item"
           n == [kind |-> kind, on |-> x, pc |-> "locking", s |-> NoLock, val |-> {}, known |-> known]
<1>1. op' = [op EXCEPT ![p] = n] /\ known \in BOOLEAN
  BY DEF StartMutation, Begin
<1>2. x \in Edges \cup Objects \cup Collections \cup Paths
  OBVIOUS
<1> HIDE DEF known
<1>3. n \in Op /\ n # Idle /\ n.kind = kind /\ n.on = x /\ n.pc = "locking" /\ n.s = NoLock
  BY <1>1, <1>2, Begun DEF Steps
<1> HIDE DEF n
<1>4. Shaped(n)
  BY <1>3 DEF StartMutation, Shaped, Mutations, Collecting, Listing, Reads
<1>5. ReaderOK(n, cache', db') /\ DeleterOK(n, cache')
  BY <1>3 DEF ReaderOK, DeleterOK
<1>6. db' = db /\ db \subseteq Edges /\ Calm(cache, cache', InUse)
  BY CalmSame DEF StartMutation, Inv, TypeOK
<1> QED
  BY <1>1, <1>3, <1>4, <1>5, <1>6, CalmStep

LEMMA TakeLockStep ==
  ASSUME Inv, NEW p \in Procs, TakeLock(p), Calls' = Calls
  PROVE  Inv' /\ Protected
<1> DEFINE o == op[p]
           pc == IF SentinelOf(o.kind) = "write" THEN "locked" ELSE "tombstoning"
<1>1. Running(p) /\ o \in Op /\ Shaped(o) /\ o.pc = "locking" /\ o.kind \in Mutations
  <2>1. Running(p) /\ o \in Op /\ Shaped(o) /\ o.pc = "locking"
    BY InvRunning DEF TakeLock, Steps
  <2> QED
    BY <2>1 DEF Shaped
<1>2. PICK s \in FreshSentinel(SentinelOf(o.kind)) :
        /\ cache' = WriteSentinel(cache, s, LockedKeys(o))
        /\ op' = [op EXCEPT ![p].s = Granted(cache, s, LockedKeys(o)), ![p].pc = pc]
  BY DEF TakeLock
<1>3. s \in Sentinel /\ s.id \notin InUse /\ s.kind = SentinelOf(o.kind)
  BY <1>2, FreshIs DEF SentinelOf, Kinds
<1>4. Calm(cache, cache', InUse)
  BY <1>1, <1>2, <1>3, LockedAre, CalmWriteSentinel DEF Inv, TypeOK
<1> DEFINE g == Granted(cache, s, LockedKeys(o))
           n == [o EXCEPT !.s = g, !.pc = pc]
<1>5. g \in Sentinel \cup {NoLock} /\ (g # NoLock => g.kind = SentinelOf(o.kind))
  BY <1>3 DEF Granted
<1>6. /\ pc \in {"locked", "tombstoning"}
      /\ pc = "locked" => o.kind \notin Deletes
      /\ pc = "tombstoning" => o.kind \in Deletes
  BY <1>1 DEF SentinelOf, Deletes, Mutations
<1>7. op' = [op EXCEPT ![p] = n]
  BY <1>2
<1> HIDE DEF g, pc
<1>8. n \in Op /\ n # Idle /\ n.kind = o.kind /\ n.on = o.on /\ n.pc = pc /\ n.s = g
  BY <1>1, <1>5, <1>6 DEF Op, Idle
<1> HIDE DEF n
<1>9. Shaped(n)
  BY <1>1, <1>5, <1>6, <1>8 DEF Shaped, Mutations, Reads, Collecting, Listing
<1>10. ReaderOK(n, cache', db') /\ DeleterOK(n, cache')
  BY <1>1, <1>6, <1>8 DEF ReaderOK, DeleterOK
<1>11. db' = db /\ db \subseteq Edges
  BY DEF TakeLock, Inv, TypeOK
<1> QED
  BY <1>4, <1>7, <1>8, <1>9, <1>10, <1>11, CalmStep

LEMMA TombstoneListStep ==
  ASSUME Inv, NEW p \in Procs, TombstoneList(p), Calls' = Calls
  PROVE  Inv' /\ Protected
<1>1. Running(p) /\ op[p] \in Op /\ Shaped(op[p]) /\ op[p].pc = "tombstoning"
  BY InvRunning DEF TombstoneList, Steps
<1>2. op[p].kind \in Deletes /\ op[p].kind \notin Collecting /\ op[p].on \in Objects \cup Edges
  BY <1>1 DEF Shaped, Deletes, Collecting
<1>3. Calm(cache, cache', InUse) /\ cache'[DependencyKey(op[p].on)] = Tombstone
  <2> DEFINE set == TRUE
  <2>1. cache' = ClearDependencies(cache, DependencyKey(op[p].on), set) /\ set \in BOOLEAN /\ set
    BY DEF TombstoneList
  <2> HIDE DEF set
  <2> QED
    BY <1>2, <2>1, CalmClear DEF Inv, TypeOK
<1>4. Shaped([op[p] EXCEPT !.pc = "locked"])
  BY <1>1, <1>2, Moved DEF Shaped, Steps, Collecting, Reads, Deletes
<1>5. db' = db /\ db \subseteq Edges /\ Go(p, "locked")
  BY DEF TombstoneList, Inv, TypeOK
<1> QED
  BY <1>1, <1>2, <1>3, <1>4, <1>5, GoStep DEF Steps

-----------------------------------------------------------------------------
(* When the server deletes what depends on x, the list of x is a           *)
(* tombstone: what was read before is not entered, and what is entered     *)
(* shows nothing of it.                                                    *)
LEMMA DeletedBlocked ==
  ASSUME NEW x \in Objects \cup Edges, cache[DependencyKey(x)] = Tombstone,
         \A e \in db \ db' : e \in Edges /\ x \in {e, Source[e], Target[e]},
         NEW k \in Gatherings, NEW es \in SUBSET Edges, es \subseteq db
  PROVE  /\ es \subseteq db' \/ Blocked(cache, k, es)
         /\ Entered(cache, k, es) => es \subseteq db'
<1>1. Blocked(cache, k, es) => ~Entered(cache, k, es)
  BY DEF Blocked, Entered, Listed, Tombstone
<1>2. ASSUME NEW e \in es, e \notin db' PROVE Blocked(cache, k, es)
  <2>1. x \in {e, Source[e], Target[e]}
    BY <1>2
  <2>2. DependencyKey(x) \in DependenciesOf(k, es)
    BY <1>2, <2>1, DependenciesAre
  <2> QED
    BY <2>2 DEF Blocked
<1> QED
  BY <1>1, <1>2

LEMMA ServedStep ==
  ASSUME Inv, NEW p \in Procs, op[p].pc = "locked", op[p].kind \in Mutations,
         UNCHANGED <<cache, Calls>>, db' = db \/ db' = Applied(op[p]),
         NEW n \in Op, n # Idle, op' = [op EXCEPT ![p] = n],
         Shaped(n), n.kind = op[p].kind, n.on = op[p].on, n.pc \in {"answered", "closing"}
  PROVE  Inv' /\ Protected
<1> DEFINE o == op[p]
<1>1. Running(p) /\ o \in Op /\ Shaped(o) /\ DeleterOK(o, cache)
  BY InvRunning DEF Steps
<1>2. cache \in [AllKeys -> Entry] /\ db \subseteq Edges /\ ListsOK(cache)
  BY DEF Inv, TypeOK
<1>3. ReaderOK(n, cache', db') /\ DeleterOK(n, cache')
  BY <1>1 DEF ReaderOK, DeleterOK, Mutations, Collecting
<1>4. CASE db \subseteq db' /\ db' \subseteq Edges
  BY <1>2, <1>3, <1>4, CalmSame, CalmStep
<1>5. CASE /\ o.kind \in Deletes
           /\ db' = Applied(o)
  <2> DEFINE x == o.on
  <2>1. x \in Objects \cup Edges /\ cache[DependencyKey(x)] = Tombstone
    BY <1>1, <1>5 DEF Shaped, Deletes, DeleterOK
  <2>2. db' \subseteq db /\ \A e \in db \ db' : e \in Edges /\ x \in {e, Source[e], Target[e]}
    <3>1. CASE o.kind = "deleteEdge"
      <4>1. db' = db \ {o.on}
        BY <1>5, <3>1 DEF Applied
      <4> QED
        BY <1>2, <4>1
    <3>2. CASE o.kind # "deleteEdge"
      <4>1. db' = db \ EdgesOf(o.on)
        BY <1>5, <3>2 DEF Applied, Deletes
      <4> QED
        BY <1>2, <4>1 DEF EdgesOf
    <3> QED
      BY <3>1, <3>2
  <2> HIDE DEF x
  <2>3. ASSUME NEW k \in Gatherings, NEW es \in SUBSET Edges, es \subseteq db
        PROVE  /\ es \subseteq db' \/ Blocked(cache, k, es)
               /\ Entered(cache, k, es) => es \subseteq db'
    BY <2>1, <2>2, <2>3, DeletedBlocked
  <2>4. TypeOK'
    BY <1>2, <2>2 DEF Inv, TypeOK
  <2>5. ListsOK(cache')
    BY <1>2
  <2>6. CachedOK(cache', db')
    <3> SUFFICES ASSUME NEW k \in Gatherings, cache[k].tag = "item"
                 PROVE  cache[k].val \subseteq db' /\ Entered(cache, k, cache[k].val)
      BY DEF CachedOK
    <3>1. cache[k].val \in SUBSET Edges
      BY <1>2, EntryShape, StorableKeys
    <3>2. cache[k].val \subseteq db /\ Entered(cache, k, cache[k].val)
      BY DEF Inv, CachedOK
    <3> QED
      BY <2>3, <3>1, <3>2
  <2>7. ASSUME NEW q \in Procs, op'[q] # Idle
        PROVE  Shaped(op'[q]) /\ ReaderOK(op'[q], cache', db') /\ DeleterOK(op'[q], cache')
    <3>1. CASE q = p
      BY <1>3, <3>1 DEF Inv, TypeOK
    <3>2. CASE q # p
      <4>1. op'[q] = op[q] /\ Running(q)
        BY <2>7, <3>2 DEF Inv, TypeOK, Running
      <4>2. op[q] \in Op /\ Shaped(op[q]) /\ ReaderOK(op[q], cache, db) /\ DeleterOK(op[q], cache)
        BY <4>1 DEF Inv, TypeOK, Running
      <4>3. ASSUME op[q].kind \in Collecting, Holds(cache, op[q]) PROVE ReaderOK(op[q], cache', db')
        <5>1. op[q].on \in Gatherings /\ op[q].val \in SUBSET Edges
          BY <4>2, <4>3 DEF Shaped, Op, Collecting
        <5>2. op[q].val \subseteq db =>
                /\ op[q].val \subseteq db' \/ Blocked(cache, op[q].on, op[q].val)
                /\ Entered(cache, op[q].on, op[q].val) => op[q].val \subseteq db'
          BY <2>3, <5>1
        <5>3. cache' = cache
          OBVIOUS
        <5> QED
          BY <4>2, <4>3, <5>2, <5>3 DEF ReaderOK
      <4> QED
        BY <4>1, <4>2, <4>3 DEF ReaderOK
    <3> QED
      BY <3>1, <3>2
  <2>8. Protected
    BY <1>2, CalmSame, CalmProtects
  <2> QED
    BY <2>4, <2>5, <2>6, <2>7, <2>8 DEF Inv, Running
<1> QED
  <2>1. CASE db' = db
    BY <1>2, <1>4, <2>1
  <2>2. CASE o.kind \in Deletes /\ db' = Applied(o)
    BY <1>5, <2>2
  <2>3. CASE o.kind = "updateObject" /\ db' = Applied(o)
    BY <1>2, <1>4, <2>3 DEF Applied
  <2>4. CASE o.kind \in {"createEdge", "createEdgeBypass"} /\ db' = Applied(o)
    <3>1. db' = db \cup {o.on} /\ o.on \in Edges
      BY <1>1, <2>4 DEF Applied, Shaped
    <3> QED
      BY <1>2, <1>4, <3>1
  <2> QED
    BY <2>1, <2>2, <2>3, <2>4 DEF Mutations, Deletes

LEMMA ServeMutationStep ==
  ASSUME Inv, NEW p \in Procs, ServeMutation(p), Calls' = Calls
  PROVE  Inv' /\ Protected
<1> DEFINE o == op[p]
           pc == CASE o.kind = "createEdge" -> "answered"
                   [] o.kind = "updateObject" /\ o.s # NoLock -> "answered"
                   [] OTHER -> "closing"
           val == IF o.kind = "createEdge" THEN {o.on} ELSE {}
           n == [o EXCEPT !.pc = pc, !.val = val]
<1>1. Running(p) /\ o \in Op /\ Shaped(o) /\ o.pc = "locked" /\ o.kind \in Mutations
  BY InvRunning DEF ServeMutation, Steps
<1>2. op' = [op EXCEPT ![p] = n]
  BY DEF ServeMutation
<1>3. val \in SUBSET Edges
  BY <1>1 DEF Shaped
<1>4. /\ pc \in {"answered", "closing"}
      /\ pc = "answered" => o.kind \in {"createEdge", "updateObject"}
  OBVIOUS
<1> HIDE DEF pc, val
<1>5. n \in Op /\ n # Idle /\ n.kind = o.kind /\ n.on = o.on /\ n.pc = pc /\ n.s = o.s
  BY <1>1, <1>3, <1>4 DEF Op, Idle
<1> HIDE DEF n
<1>6. Shaped(n)
  BY <1>1, <1>4, <1>5 DEF Shaped, Mutations, Reads, Collecting, Listing
<1>7. db' = Applied(o) /\ UNCHANGED <<cache, Calls>>
  BY DEF ServeMutation
<1> QED
  BY <1>1, <1>2, <1>4, <1>5, <1>6, <1>7, ServedStep

LEMMA FailMutationStep ==
  ASSUME Inv, NEW p \in Procs, FailMutation(p), Calls' = Calls
  PROVE  Inv' /\ Protected
<1> DEFINE o == op[p]
           n == [o EXCEPT !.pc = "closing"]
<1>1. Running(p) /\ o \in Op /\ Shaped(o) /\ o.pc = "locked" /\ o.kind \in Mutations
  BY InvRunning DEF FailMutation, Steps
<1>2. op' = [op EXCEPT ![p] = n]
  BY DEF FailMutation, Go
<1>3. n \in Op /\ n # Idle /\ n.kind = o.kind /\ n.on = o.on /\ n.pc = "closing" /\ n.s = o.s
  BY <1>1, Moved DEF Steps
<1> HIDE DEF n
<1>4. Shaped(n)
  BY <1>1, <1>3 DEF Shaped, Mutations, Reads, Collecting, Listing
<1>5. (db' = db \/ db' = Applied(o)) /\ UNCHANGED <<cache, Calls>>
  BY DEF FailMutation
<1> QED
  BY <1>1, <1>2, <1>3, <1>4, <1>5, ServedStep

LEMMA StoreObjectStep ==
  ASSUME Inv, NEW p \in Procs, StoreObject(p), Calls' = Calls
  PROVE  Inv' /\ Protected
<1> DEFINE o == op[p]
           lkey == ObjectKey(o.on)
           ks == {lkey}
<1>1. Running(p) /\ o \in Op /\ Shaped(o) /\ o.pc = "answered" /\ o.kind = "updateObject"
  BY InvRunning DEF StoreObject, Steps
<1>2. o.on \in Subjects /\ o.kind \notin Collecting \cup Deletes
  BY <1>1 DEF Shaped, Collecting, Deletes
<1>3. lkey \in AllKeys
  BY <1>2 DEF AllKeys
<1>4. ks \cap Gatherings = {} /\ \A x \in Objects \cup Edges : DependencyKey(x) \notin ks
  BY KeysApart
<1>5. cache' = SetValue(cache, lkey, ks, {}, o.s)
  BY DEF StoreObject
<1> HIDE DEF lkey, ks
<1>6. Calm(cache, cache', InUse)
  BY <1>3, <1>4, <1>5, CalmSetValue DEF Inv, TypeOK
<1>7. Shaped([o EXCEPT !.pc = "unlinking"])
  BY <1>1, <1>2, Moved DEF Shaped, Steps, Collecting, Reads
<1> QED
  BY <1>1, <1>2, <1>6, <1>7, WriterGoes DEF StoreObject, Steps

LEMMA CloseStep ==
  ASSUME Inv, NEW p \in Procs, Close(p), Calls' = Calls
  PROVE  Inv' /\ Protected
<1> DEFINE o == op[p]
           ks == {LockedKeys(o)[n] : n \in DOMAIN LockedKeys(o)}
<1>1. Running(p) /\ o \in Op /\ Shaped(o) /\ o.pc = "closing"
  BY InvRunning DEF Close, Steps
<1>2. ks \in SUBSET Lockables
  <2>1. LockedKeys(o) \in Seq(Lockables)
    BY <1>1, LockedAre DEF Shaped
  <2> QED
    BY <2>1
<1>3. cache' = cache \/ cache' = ReleaseSentinel(cache, o.s, ks)
  BY DEF Close
<1> HIDE DEF ks
<1>4. Calm(cache, cache', InUse)
  BY <1>2, <1>3, CalmRelease, CalmSame DEF Inv, TypeOK
<1>5. db' = db /\ db \subseteq Edges
  BY DEF Close, Inv, TypeOK
<1> QED
  BY <1>4, <1>5, EndStep DEF Close

(* A flush takes the tombstones too, but no delete is under way then, and  *)
(* with the locks every read in flight loses the right to store.           *)
LEMMA FlushStep ==
  ASSUME Inv, FlushCache, Calls' = Calls
  PROVE  Inv' /\ Protected
<1> DEFINE gone == {k \in AllKeys : cache[k].tag \in {"item", "lock", "tombstone"}}
<1>1. cache \in [AllKeys -> Entry] /\ ListsOK(cache)
  BY DEF Inv, TypeOK
<1>2. /\ cache' \in [AllKeys -> Entry]
      /\ \A k \in AllKeys : cache'[k] = IF k \in gone THEN EmptyEntry ELSE cache[k]
  <2>1. DOMAIN cache = AllKeys
    BY <1>1
  <2>2. cache' = Put(cache, gone, EmptyEntry)
    BY <2>1 DEF FlushCache, Flush
  <2> QED
    BY <1>1, <2>2, PutType, EntryOK
<1>3. \A k \in AllKeys : cache'[k].tag \notin {"item", "lock"}
  BY <1>2, EntryOK
<1>4. ListsOK(cache')
  <2>1. \A x \in Objects \cup Edges :
          cache'[DependencyKey(x)] \in {EmptyEntry, cache[DependencyKey(x)]}
    BY <1>2, DependencyKeys
  <2> QED
    BY <1>1, <2>1 DEF ListsOK
<1>5. CachedOK(cache', db')
  BY <1>3, StorableKeys DEF CachedOK
<1>6. \A q \in Procs : Running(q) =>
        Shaped(op[q]) /\ ReaderOK(op[q], cache', db') /\ DeleterOK(op[q], cache')
  <2> SUFFICES ASSUME NEW q \in Procs, Running(q)
               PROVE  Shaped(op[q]) /\ ReaderOK(op[q], cache', db') /\ DeleterOK(op[q], cache')
    OBVIOUS
  <2>1. Shaped(op[q])
    BY DEF Inv
  <2>2. op[q].kind \notin Deletes
    BY DEF FlushCache, Mutating, Deletes, Mutations
  <2>3. op[q].kind \in Collecting => ~Holds(cache', op[q])
    BY <1>3, <2>1, StorableKeys DEF Shaped, Holds, IsLock
  <2> QED
    BY <2>1, <2>2, <2>3 DEF ReaderOK, DeleterOK
<1>7. op' = op /\ db' = db
  BY DEF FlushCache
<1>8. TypeOK'
  BY <1>2, <1>7 DEF Inv, TypeOK
<1>9. Protected
  BY <1>3, StorableKeys DEF Protected, Stored
<1> QED
  BY <1>4, <1>5, <1>6, <1>7, <1>8, <1>9 DEF Inv, Running

(* A list goes after the collections it names, a tombstone after the calls *)
(* that overlap with its delete.                                           *)
LEMMA ExpireStep ==
  ASSUME Inv, NEW k \in AllKeys, Expire(k), Calls' = Calls
  PROVE  Inv' /\ Protected
<1>1. cache \in [AllKeys -> Entry] /\ ListsOK(cache)
  BY DEF Inv, TypeOK
<1>2. UNCHANGED <<op, db, Calls>>
  BY DEF Expire
<1>3. /\ cache' \in [AllKeys -> Entry]
      /\ \A l \in AllKeys : cache'[l] = IF l = k THEN EmptyEntry ELSE cache[l]
  BY <1>1, PutType, EntryOK DEF Expire
<1>4. CASE \A x \in Objects \cup Edges : DependencyKey(x) # k
  <2>1. Calm(cache, Put(cache, {k}, EmptyEntry), InUse)
    BY <1>1, <1>4, CalmPut, EntryOK
  <2> QED
    BY <1>2, <2>1, CalmAlone DEF Expire
<1>5. ASSUME NEW y \in Objects \cup Edges, DependencyKey(y) = k
      PROVE  Inv' /\ Protected
  <2>1. \A l \in Gatherings : cache'[l] = cache[l]
    BY <1>3, <1>5, KeysApart, StorableKeys
  <2>2. \A x \in Objects \cup Edges :
          \/ DependencyKey(x) = k /\ cache'[DependencyKey(x)] = EmptyEntry
          \/ DependencyKey(x) # k /\ cache'[DependencyKey(x)] = cache[DependencyKey(x)]
    BY <1>3, DependencyKeys
  <2>3. ListsOK(cache')
    BY <1>1, <2>2 DEF ListsOK
  <2>4. CASE cache[k].tag = "list"
    <3>1. \A l \in Listed(cache, k) : cache[l].tag \notin {"item", "lock"}
      BY <2>4 DEF Expire, Outlived, IsLock, Listed
    <3>2. \A x \in Objects \cup Edges :
            cache[DependencyKey(x)] = Tombstone => cache'[DependencyKey(x)] = Tombstone
      BY <2>2, <2>4 DEF Tombstone
    <3>3. \A l \in Gatherings, x \in Objects \cup Edges :
            cache'[l].tag \in {"item", "lock"} /\ l \in Listed(cache, DependencyKey(x))
              => l \in Listed(cache', DependencyKey(x))
      BY <2>1, <2>2, <3>1 DEF Listed
    <3>4. Calm(cache, cache', InUse)
      BY <1>3, <2>1, <2>3, <3>2, <3>3 DEF Calm
    <3> QED
      BY <1>2, <3>4, CalmAlone
  <2>5. CASE cache[k] = Tombstone
    <3>1. \A q \in Procs : Running(q) => op[q].kind \in Reads /\ op[q].pc = "locked"
      BY <2>5 DEF Expire, Outlived, IsLock, Tombstone
    <3>2. \A q \in Procs : Running(q) =>
            Shaped(op[q]) /\ ReaderOK(op[q], cache', db') /\ DeleterOK(op[q], cache')
      BY <3>1 DEF Inv, ReaderOK, DeleterOK, Reads, Deletes
    <3>3. CachedOK(cache', db')
      <4> SUFFICES ASSUME NEW l \in Gatherings, cache'[l].tag = "item"
                   PROVE  cache'[l].val \subseteq db' /\ Entered(cache', l, cache'[l].val)
        BY DEF CachedOK
      <4>1. cache[l].val \in SUBSET Edges /\ cache'[l] = cache[l]
        BY <1>1, <2>1, EntryShape, StorableKeys
      <4>2. cache[l].val \subseteq db /\ Entered(cache, l, cache[l].val)
        BY <4>1 DEF Inv, CachedOK
      <4>3. ASSUME NEW d \in DependenciesOf(l, cache[l].val) PROVE l \in Listed(cache', d)
        <5>1. PICK x \in Objects \cup Edges : d = DependencyKey(x)
          BY <4>1, DependenciesAre
        <5>2. l \in Listed(cache, d)
          BY <4>2 DEF Entered
        <5>3. d # k
          BY <2>5, <5>2 DEF Listed, Tombstone
        <5> QED
          BY <2>2, <5>1, <5>2, <5>3 DEF Listed
      <4> QED
        BY <1>2, <4>1, <4>2, <4>3 DEF Entered
    <3>4. TypeOK'
      BY <1>2, <1>3 DEF Inv, TypeOK
    <3>5. Protected
      BY <2>1 DEF Protected, Stored
    <3> QED
      BY <1>2, <2>3, <3>2, <3>3, <3>4, <3>5 DEF Inv, Running
  <2> QED
    BY <1>1, <1>5, <2>4, <2>5 DEF Expire, ListsOK
<1> QED
  BY <1>4, <1>5

-----------------------------------------------------------------------------
LEMMA InitInv == Init => Inv
<1> SUFFICES ASSUME Init PROVE Inv
  OBVIOUS
<1>1. cache \in [AllKeys -> Entry] /\ \A k \in AllKeys : cache[k] = EmptyEntry
  BY EntryOK DEF Init
<1>2. TypeOK
  BY <1>1 DEF Init, TypeOK
<1>3. \A p \in Procs : ~Running(p)
  BY DEF Init, Running
<1>4. CachedOK(cache, db)
  BY <1>1, EntryOK, StorableKeys DEF CachedOK
<1>5. ListsOK(cache)
  BY <1>1, DependencyKeys DEF ListsOK
<1> QED
  BY <1>2, <1>3, <1>4, <1>5 DEF Inv

LEMMA NextInv == Inv /\ [Next]_vars => Inv' /\ Protected
<1> SUFFICES ASSUME Inv, [Next]_vars PROVE Inv' /\ Protected
  OBVIOUS
<1>1. CASE UNCHANGED vars
  BY <1>1, CalmSame, CalmAlone DEF vars, Inv, TypeOK
<1>2. CASE Next
  <2>1. Step /\ Calls' = Calls
    BY <1>2 DEF Next
  <2>2. ASSUME NEW p \in Procs, NEW kind \in Reads \cap Calls, NEW x \in ReadTargets(kind),
               Miss(p, kind, x)
        PROVE  Inv' /\ Protected
    BY <2>1, <2>2, MissStep
  <2>3. ASSUME NEW p \in Procs, NEW kind \in Mutations \cap Calls, NEW x \in Edges \cup Subjects,
               StartMutation(p, kind, x)
        PROVE  Inv' /\ Protected
    BY <2>1, <2>3, StartMutationStep
  <2>4. ASSUME NEW p \in Procs,
               \/ ServeRead(p) \/ FailRead(p) \/ LinkCollection(p) \/ StoreCollection(p)
        PROVE  Inv' /\ Protected
    BY <2>1, <2>4, ServeReadStep, FailReadStep, LinkCollectionStep, StoreCollectionStep
  <2>5. ASSUME NEW p \in Procs,
               \/ StoreEdge(p) \/ ClearCollections(p) \/ Unlink(p)
               \/ LinkEdge(p) \/ LinkName(p) \/ UndoSave(p)
        PROVE  Inv' /\ Protected
    BY <2>1, <2>5, StoreEdgeStep, ClearCollectionsStep, UnlinkStep, LinkEdgeStep,
       LinkNameStep, UndoSaveStep
  <2>6. ASSUME NEW p \in Procs,
               \/ TakeLock(p) \/ TombstoneList(p) \/ ServeMutation(p) \/ FailMutation(p)
               \/ StoreObject(p) \/ Close(p)
        PROVE  Inv' /\ Protected
    BY <2>1, <2>6, TakeLockStep, TombstoneListStep, ServeMutationStep, FailMutationStep,
       StoreObjectStep, CloseStep
  <2>7. CASE FlushCache
    BY <2>1, <2>7, FlushStep
  <2>8. CASE \E k \in AllKeys : Expire(k)
    BY <2>1, <2>8, ExpireStep
  <2> QED
    BY <2>1, <2>2, <2>3, <2>4, <2>5, <2>6, <2>7, <2>8 DEF Step
<1> QED
  BY <1>1, <1>2

(* Every variable keeps its shape, whatever the calls do (the calls of     *)
(* authz/client.go for edges and their collections, and FlushCache).       *)
THEOREM TypeCorrect == Spec => []TypeOK
<1>1. Inv => TypeOK
  BY DEF Inv
<1> QED
  BY <1>1, InitInv, NextInv, PTL DEF Spec

(* No collection and no path in the cache shows an edge the server has     *)
(* deleted: takeLockWorker and its callers tombstone the lists of what is  *)
(* deleted before the server hears of it, and SaveItemsToCollection stores *)
(* nothing it could not enter in every list.                               *)
THEOREM NothingDeletedShown == Spec => []CollectionsShowNoDeleted
<1>1. Inv => CollectionsShowNoDeleted
  BY DEF Inv, CachedOK, CollectionsShowNoDeleted, Gatherings
<1> QED
  BY <1>1, InitInv, NextInv, PTL DEF Spec

(* While a delete is under way nobody stores a collection that depends on  *)
(* its object or edge: a read in flight has lost its lock, and a later one *)
(* does not enter the list (takeLockWorker, SaveItemsToCollection).        *)
THEOREM DeletesBlock == Spec => DeletesBlockCollections
<1>1. Inv /\ [Next]_vars =>
        [\A k \in Collections \cup Paths :
           Stored(k) => \A x \in Objects \cup Edges :
                          Deleting(x) => DependencyKey(x) \notin DependenciesOf(k, cache'[k].val)]_vars
  BY NextInv DEF Protected, Gatherings
<1> QED
  BY <1>1, InitInv, NextInv, PTL DEF Spec, DeletesBlockCollections

-----------------------------------------------------------------------------
(* What a step does to the keys of edges and collections, at worst: locks  *)
(* come from fresh alone, or are marked by a write; tombstones of lists    *)
(* stay, and so do the places of cached edges in them; and the primary key *)
(* of an edge enters the lists of its ends alone.                          *)
KeysOf(e) == {PrimaryKey(e), FullKey(e)}
Gone(store, x) == store[DependencyKey(x)] = Tombstone

Tame(store, new, fresh) ==
  /\ \A x \in Objects \cup Edges : Gone(store, x) => Gone(new, x)
  /\ \A k \in EdgeKeys, x \in Objects \cup Edges :
       new[k].tag = "item" /\ k \in Listed(store, DependencyKey(x))
         => k \in Listed(new, DependencyKey(x))
  /\ \A e \in Edges, x \in Objects \cup Edges :
       PrimaryKey(e) \in Listed(new, DependencyKey(x))
         => PrimaryKey(e) \in Listed(store, DependencyKey(x)) \/ x \in {Source[e], Target[e]}
  /\ \A k \in Storable \cup {EdgesKey} : new[k].tag = "lock" =>
       new[k] = store[k] \/ (new[k].bumped /\ new[k].s.kind = "write") \/ new[k].s \in fresh
  /\ new[EdgesKey] = store[EdgesKey] \/ new[EdgesKey].tag \in {"empty", "lock"}
Quiet(store, new, ks) == \A k \in ks : new[k].tag = "item" => new[k] = store[k]

LEMMA TameSame ==
  ASSUME NEW store, NEW fresh
  PROVE  Tame(store, store, fresh) /\ \A ks : Quiet(store, store, ks)
BY DEF Tame, Quiet

(* Keys that are no lists may be given anything but a strange lock.        *)
LEMMA TamePut ==
  ASSUME NEW store \in [AllKeys -> Entry], NEW fresh,
         NEW ks, \A x \in Objects \cup Edges : DependencyKey(x) \notin ks,
         NEW e \in Entry,
         e.tag = "lock" => (e.bumped /\ e.s.kind = "write") \/ e.s \in fresh,
         EdgesKey \in ks => e.tag \in {"empty", "lock"}
  PROVE  /\ Tame(store, Put(store, ks, e), fresh)
         /\ e.tag # "item" => Quiet(store, Put(store, ks, e), Storable)
         /\ \A K \in SUBSET Storable : K \cap ks = {} => Quiet(store, Put(store, ks, e), K)
<1> DEFINE new == Put(store, ks, e)
<1>1. new \in [AllKeys -> Entry] /\ \A k \in AllKeys : new[k] = IF k \in ks THEN e ELSE store[k]
  BY PutType
<1>2. \A x \in Objects \cup Edges : new[DependencyKey(x)] = store[DependencyKey(x)]
  BY <1>1, DependencyKeys
<1>3. \A k \in Storable \cup {EdgesKey} : new[k] = IF k \in ks THEN e ELSE store[k]
  BY <1>1, StorableKeys DEF AllKeys
<1> HIDE DEF new
<1>4. \A x \in Objects \cup Edges : Listed(new, DependencyKey(x)) = Listed(store, DependencyKey(x))
  BY <1>2 DEF Listed
<1>5. Tame(store, new, fresh)
  <2>1. \A x \in Objects \cup Edges : Gone(store, x) => Gone(new, x)
    BY <1>2 DEF Gone
  <2>2. \A k \in Storable \cup {EdgesKey} : new[k].tag = "lock" =>
          new[k] = store[k] \/ (new[k].bumped /\ new[k].s.kind = "write") \/ new[k].s \in fresh
    BY <1>3
  <2>3. new[EdgesKey] = store[EdgesKey] \/ new[EdgesKey].tag \in {"empty", "lock"}
    BY <1>3
  <2> QED
    BY <1>4, <2>1, <2>2, <2>3 DEF Tame
<1>6. e.tag # "item" => Quiet(store, new, Storable)
  BY <1>3 DEF Quiet
<1>7. \A K \in SUBSET Storable : K \cap ks = {} => Quiet(store, new, K)
  BY <1>3 DEF Quiet
<1> QED
  BY <1>5, <1>6, <1>7 DEF new

LEMMA ClearIs ==
  ASSUME NEW store \in [AllKeys -> Entry], NEW y \in Objects \cup Edges, NEW set \in BOOLEAN
  PROVE  LET new == ClearDependencies(store, DependencyKey(y), set) IN
         \A k \in AllKeys : new[k] =
           IF k = DependencyKey(y) THEN IF set \/ store[k] = Tombstone THEN Tombstone ELSE EmptyEntry
           ELSE IF k \in Listed(store, DependencyKey(y)) THEN EmptyEntry ELSE store[k]
BY DEF ClearDependencies, Put

LEMMA TameClear ==
  ASSUME NEW store \in [AllKeys -> Entry], ListsOK(store), NEW fresh,
         NEW y \in Objects \cup Edges, NEW set \in BOOLEAN
  PROVE  /\ Tame(store, ClearDependencies(store, DependencyKey(y), set), fresh)
         /\ Quiet(store, ClearDependencies(store, DependencyKey(y), set), Storable)
         /\ set => Gone(ClearDependencies(store, DependencyKey(y), set), y)
<1> DEFINE dkey == DependencyKey(y)
           ks == Listed(store, dkey)
           e == IF set \/ store[dkey] = Tombstone THEN Tombstone ELSE EmptyEntry
           new == ClearDependencies(store, dkey, set)
<1>1. ks \subseteq Storable
  BY DEF Listed, ListsOK, EmptyEntry, Tombstone
<1>2. \A k \in AllKeys : new[k] = IF k = dkey THEN e ELSE IF k \in ks THEN EmptyEntry ELSE store[k]
  BY ClearIs
<1>3. \A x \in Objects \cup Edges :
        \/ DependencyKey(x) = dkey /\ new[DependencyKey(x)] = e
        \/ DependencyKey(x) # dkey /\ new[DependencyKey(x)] = store[DependencyKey(x)]
  BY <1>1, <1>2, DependencyKeys, KeysApart
<1>4. \A k \in Storable \cup {EdgesKey} : new[k] = IF k \in ks THEN EmptyEntry ELSE store[k]
  BY <1>2, StorableKeys, KeysApart DEF AllKeys
<1>5. EdgesKey \notin ks
  BY <1>1 DEF Storable, EdgeKeys, Gatherings, Collections, Paths, EdgesKey, PrimaryKey, FullKey,
     OfObject, Between, Path
<1>6. /\ e \in {EmptyEntry, Tombstone} /\ (store[dkey] = Tombstone => e = Tombstone)
      /\ set => e = Tombstone
  OBVIOUS
<1>7. EmptyEntry.tag = "empty" /\ Tombstone.tag = "tombstone"
  BY EntryOK
<1> HIDE DEF new, ks, e
<1>8. \A x \in Objects \cup Edges : Gone(store, x) => Gone(new, x)
  BY <1>3, <1>6 DEF Gone
<1>9. ASSUME NEW k \in EdgeKeys, NEW x \in Objects \cup Edges,
             new[k].tag = "item", k \in Listed(store, DependencyKey(x))
      PROVE  k \in Listed(new, DependencyKey(x))
  <2>1. k \notin ks
    BY <1>4, <1>7, <1>9 DEF Storable
  <2>2. DependencyKey(x) # dkey
    BY <1>9, <2>1 DEF ks
  <2> QED
    BY <1>3, <1>9, <2>2 DEF Listed
<1>10. \A x \in Objects \cup Edges : Listed(new, DependencyKey(x)) \subseteq Listed(store, DependencyKey(x))
  BY <1>3, <1>6, <1>7 DEF Listed
<1>11. \A k \in Storable \cup {EdgesKey} : new[k].tag \in {"lock", "item"} => new[k] = store[k]
  BY <1>4, <1>7
<1>12. Tame(store, new, fresh)
  BY <1>4, <1>5, <1>8, <1>9, <1>10, <1>11 DEF Tame
<1>13. Quiet(store, new, Storable) /\ (set => Gone(new, y))
  BY <1>3, <1>6, <1>11 DEF Quiet, Gone
<1> QED
  BY <1>12, <1>13 DEF new

(* An addition touches lists only, and enters the keys in those it reaches. *)
AreLists(dkeys, n) ==
  /\ DOMAIN dkeys = 1 .. n
  /\ \A m \in 1 .. n : \E x \in Objects \cup Edges : dkeys[m] = DependencyKey(x)
EndsOnly(ks, dkeys, n) ==
  \A e \in Edges, x \in Objects \cup Edges, m \in 1 .. n :
    PrimaryKey(e) \in ks /\ dkeys[m] = DependencyKey(x) => x \in {Source[e], Target[e]}

Reaches(store, new, dkeys, ks, n) ==
  /\ Dependable(store, dkeys) => \A m \in 1 .. n : ks \subseteq Listed(new, dkeys[m])
  /\ Dependable(store, dkeys) <=> \A m \in 1 .. n : store[dkeys[m]] # Tombstone

LEMMA TameAdd ==
  ASSUME NEW store \in [AllKeys -> Entry], ListsOK(store), NEW fresh,
         NEW n \in Nat, NEW dkeys, AreLists(dkeys, n),
         NEW ks \in SUBSET Storable, EndsOnly(ks, dkeys, n)
  PROVE  /\ Tame(store, AddDependency(store, dkeys, ks), fresh)
         /\ \A k \in Storable \cup {EdgesKey} : AddDependency(store, dkeys, ks)[k] = store[k]
         /\ Reaches(store, AddDependency(store, dkeys, ks), dkeys, ks, n)
<1> DEFINE new == AddDependency(store, dkeys, ks)
           R == Reached(store, dkeys)
           kept(d) == ks \cup {k \in Listed(store, d) : store[k] # EmptyEntry}
<1> USE DEF AreLists, EndsOnly
<1>1. \A d \in R : /\ store[d] # Tombstone
                   /\ \E m \in 1 .. n : d = dkeys[m]
  <2> SUFFICES ASSUME NEW m \in 1 .. n, \A l \in 1 .. m : store[dkeys[l]] # Tombstone
               PROVE  store[dkeys[m]] # Tombstone
    BY DEF Reached
  <2>1. m \in 1 .. m
    OBVIOUS
  <2> QED
    BY <2>1
<1>2. \A d \in R : \E x \in Objects \cup Edges : d = DependencyKey(x)
  BY <1>1
<1>3. \A d \in AllKeys : new[d] = IF d \notin R THEN store[d] ELSE ListEntry(kept(d))
  BY DEF AddDependency
<1>4. \A k \in Storable \cup {EdgesKey} : new[k] = store[k]
  <2>1. \A k \in Storable \cup {EdgesKey} : k \in AllKeys /\ k \notin R
    BY <1>2, KeysApart, StorableKeys DEF AllKeys
  <2> HIDE DEF new, R
  <2> QED
    BY <1>3, <2>1
<1>5. \A d : ListEntry(kept(d)).tag = "list" /\ ListEntry(kept(d)).keys = kept(d)
  BY DEF ListEntry
<1>6. Dependable(store, dkeys) <=> \A m \in 1 .. n : dkeys[m] \in R
  BY <1>1 DEF Dependable
<1>7. (\A m \in 1 .. n : store[dkeys[m]] # Tombstone) => \A m \in 1 .. n : dkeys[m] \in R
  <2> SUFFICES ASSUME \A m \in 1 .. n : store[dkeys[m]] # Tombstone, NEW m \in 1 .. n
               PROVE  dkeys[m] \in R
    OBVIOUS
  <2>1. \A l \in 1 .. m : l \in 1 .. n
    OBVIOUS
  <2> QED
    BY <2>1 DEF Reached
<1> HIDE DEF new, R, kept
<1>8. \A x \in Objects \cup Edges :
        LET d == DependencyKey(x) IN
        \/ d \in R /\ Listed(new, d) = kept(d) /\ store[d] # Tombstone
        \/ d \notin R /\ new[d] = store[d]
  BY <1>1, <1>3, <1>5, DependencyKeys DEF Listed
<1>9. \A x \in Objects \cup Edges : Gone(store, x) => Gone(new, x)
  BY <1>8 DEF Gone
<1>10. ASSUME NEW k \in EdgeKeys, NEW x \in Objects \cup Edges,
              new[k].tag = "item", k \in Listed(store, DependencyKey(x))
       PROVE  k \in Listed(new, DependencyKey(x))
  <2>1. store[k] # EmptyEntry
    BY <1>4, <1>10, EntryOK DEF Storable
  <2>2. k \in kept(DependencyKey(x))
    BY <1>10, <2>1 DEF kept
  <2> QED
    BY <1>8, <1>10, <2>2 DEF Listed
<1>11. ASSUME NEW e \in Edges, NEW x \in Objects \cup Edges,
              PrimaryKey(e) \in Listed(new, DependencyKey(x))
       PROVE  PrimaryKey(e) \in Listed(store, DependencyKey(x)) \/ x \in {Source[e], Target[e]}
  <2>1. CASE DependencyKey(x) \notin R
    BY <1>8, <1>11, <2>1 DEF Listed
  <2>2. CASE DependencyKey(x) \in R
    <3>1. PrimaryKey(e) \in kept(DependencyKey(x))
      BY <1>8, <1>11, <2>2
    <3>2. PICK m \in 1 .. n : DependencyKey(x) = dkeys[m]
      BY <1>1, <2>2
    <3>3. CASE PrimaryKey(e) \in ks
      BY <3>2, <3>3
    <3>4. CASE PrimaryKey(e) \notin ks
      BY <3>1, <3>4 DEF kept
    <3> QED
      BY <3>3, <3>4
  <2> QED
    BY <2>1, <2>2
<1>12. Tame(store, new, fresh)
  BY <1>4, <1>9, <1>10, <1>11 DEF Tame
<1>13. Dependable(store, dkeys) => \A m \in 1 .. n : ks \subseteq Listed(new, dkeys[m])
  <2> SUFFICES ASSUME Dependable(store, dkeys), NEW m \in 1 .. n
               PROVE  ks \subseteq Listed(new, dkeys[m])
    OBVIOUS
  <2>1. dkeys[m] \in R
    BY <1>6
  <2>2. PICK x \in Objects \cup Edges : dkeys[m] = DependencyKey(x)
    OBVIOUS
  <2>3. Listed(new, DependencyKey(x)) = kept(DependencyKey(x))
    BY <1>8, <2>1, <2>2
  <2> QED
    BY <2>2, <2>3 DEF kept
<1>14. Dependable(store, dkeys) <=> \A m \in 1 .. n : store[dkeys[m]] # Tombstone
  BY <1>1, <1>6, <1>7
<1>15. Reaches(store, new, dkeys, ks, n)
  BY <1>13, <1>14 DEF Reaches
<1> QED
  BY <1>4, <1>12, <1>15 DEF new

LEMMA TameGather ==
  ASSUME NEW store \in [AllKeys -> Entry], ListsOK(store), NEW fresh,
         NEW n \in Nat, NEW dkeys, AreLists(dkeys, n), NEW k \in Gatherings
  PROVE  /\ Tame(store, AddDependency(store, dkeys, {k}), fresh)
         /\ \A l \in Storable \cup {EdgesKey} : AddDependency(store, dkeys, {k})[l] = store[l]
<1> DEFINE ks == {k}
<1>1. ks \in SUBSET Storable /\ \A e \in Edges : PrimaryKey(e) \notin ks
  <2>1. \A e \in Edges : PrimaryKey(e) \in EdgeKeys
    BY DEF EdgeKeys
  <2> QED
    BY <2>1, KeysApart, StorableKeys
<1> HIDE DEF ks
<1>2. EndsOnly(ks, dkeys, n)
  BY <1>1 DEF EndsOnly
<1>3. PICK ls \in SUBSET Storable : ls = ks
  BY <1>1
<1>4. EndsOnly(ls, dkeys, n)
  BY <1>2, <1>3
<1>5. /\ Tame(store, AddDependency(store, dkeys, ls), fresh)
      /\ \A l \in Storable \cup {EdgesKey} : AddDependency(store, dkeys, ls)[l] = store[l]
  BY <1>4, TameAdd
<1> QED
  BY <1>3, <1>5 DEF ks

(* The keys of edges, and that of all of them, are told apart.             *)
LEMMA EdgeKeysApart ==
  /\ \A e, f \in Edges : PrimaryKey(e) # FullKey(f)
  /\ \A e, f \in Edges : PrimaryKey(e) = PrimaryKey(f) => e = f
  /\ \A e \in Edges : PrimaryKey(e) # EdgesKey /\ FullKey(e) # EdgesKey
  /\ \A e \in Edges : \A o : /\ PrimaryKey(e) \notin {ObjectKey(o), OfObject(o)}
                              /\ FullKey(e) \notin {ObjectKey(o), OfObject(o)}
  /\ \A o : EdgesKey \notin {ObjectKey(o), OfObject(o)}
  /\ EdgesKey \notin Storable
  /\ \A e \in Edges : KeysOf(e) \subseteq EdgeKeys
  /\ \A k \in EdgeKeys : \E e \in Edges : k \in KeysOf(e)
<1>1. \A e \in Edges : PrimaryKey(e)[1] = "edge" /\ FullKey(e)[1] = "full"
  BY DEF PrimaryKey, FullKey
<1>2. \A o : ObjectKey(o)[1] = "object" /\ OfObject(o)[1] = "of"
  BY DEF ObjectKey, OfObject
<1>3. EdgesKey[1] = "edges" /\ \A k \in Gatherings : k[1] \in {"of", "between", "path"}
  BY DEF EdgesKey, Gatherings, Collections, Paths, OfObject, Between, Path
<1>4. \A e, f \in Edges : PrimaryKey(e) = PrimaryKey(f) => e = f
  BY DEF PrimaryKey
<1>5. /\ \A e \in Edges : KeysOf(e) \subseteq EdgeKeys
      /\ \A k \in EdgeKeys : \E e \in Edges : k \in KeysOf(e)
  BY DEF KeysOf, EdgeKeys
<1>6. \A k \in EdgeKeys : k[1] \in {"edge", "full"}
  BY <1>1 DEF EdgeKeys
<1> QED
  BY <1>1, <1>2, <1>3, <1>4, <1>5, <1>6 DEF Storable

-----------------------------------------------------------------------------
(* The lists that are to name the keys of an edge; a save of it that has   *)
(* yet to enter them in that of x, or to take the edge out again; and one  *)
(* that will take it out.                                                  *)
Ties(e) == {Source[e], Target[e], e}
Saves == {"getEdge", "findEdge", "createEdge"}
Saving(o, e, pcs) == /\ o # Idle
                     /\ o.kind \in Saves /\ o.on = e /\ o.pc \in pcs
                     /\ o.kind = "createEdge" => o.known
Pending(o, e, x) == Saving(o, e, {"clearing", "unlinking", "linking", "undoing"}
                                   \cup IF x = e THEN {"selfLinking"} ELSE {})
Doomed(o, store, e) == \/ Saving(o, e, {"undoing"})
                       \/ \E x \in Ties(e) : Gone(store, x) /\ Pending(o, e, x)

(* A cached edge is under one of its own keys, which is in every list it   *)
(* hangs on (the primary key not in the list of the edge itself) or will   *)
(* be; and whoever can store an edge got it from the server, which has it  *)
(* yet unless a delete has left its tombstone.                             *)
EdgesFit == \A k \in EdgeKeys : cache[k].tag = "item" =>
              \E e \in Edges : k \in KeysOf(e) /\ cache[k] = ItemEntry({e})
EdgesTied == \A e \in Edges : \A x \in Ties(e), k \in KeysOf(e) :
  cache[k] = ItemEntry({e}) /\ ~(x = e /\ k = PrimaryKey(e)) =>
    k \in Listed(cache, DependencyKey(x)) \/ \E p \in Procs : Pending(op[p], e, x)
SaveOK(o, store, edges) ==
  o.kind \in Saves /\ o.pc = "answered" =>
    /\ o.val \in {{}, {o.on}}
    /\ o.val # {} /\ store[LockKey(o)] = LockEntry(o.s) =>
         o.on \in edges \/ \E x \in Ties(o.on) : Gone(store, x)
Edged ==
  /\ EdgesFit /\ EdgesTied
  /\ \A p \in Procs : Running(p) => SaveOK(op[p], cache, db)
  /\ \A e \in Edges, x \in Objects \cup Edges :
       PrimaryKey(e) \in Listed(cache, DependencyKey(x)) => x \in {Source[e], Target[e]}
  /\ cache[EdgesKey].tag \in {"empty", "lock"}

(* No edge is cached that the server has deleted, but one that will be     *)
(* taken out again.                                                        *)
EdgesKnown == \A e \in Edges : \A k \in KeysOf(e) : cache[k] = ItemEntry({e}) =>
  e \in db \/ \E p \in Procs, f \in Edges : k \in KeysOf(f) /\ Doomed(op[p], cache, f)

(* What a caller does that leaves the store tame. *)
Moves(p, n, fresh) ==
  /\ op' = [op EXCEPT ![p] = n]
  /\ Tame(cache, cache', fresh)
  /\ \A s \in fresh : s \in Sentinel /\ s.id \notin InUse

LEMMA OthersSame ==
  ASSUME Inv, NEW p \in Procs, NEW n \in Op \cup {Idle}, NEW fresh, Moves(p, n, fresh)
  PROVE  op'[p] = n /\ \A q \in Procs : q # p => op'[q] = op[q]
BY DEF Inv, TypeOK, Moves

LEMMA LockKeyOf ==
  ASSUME NEW o \in Op, Shaped(o), o.kind \in Saves
  PROVE  /\ o.on \in Edges
         /\ LockKey(o) \in Storable \cup {EdgesKey}
         /\ LockKey(o) = IF o.kind = "findEdge" THEN EdgesKey ELSE PrimaryKey(o.on)
<1>1. o.on \in Edges
  BY DEF Shaped, Saves
<1>2. LockKey(o) = IF o.kind = "findEdge" THEN EdgesKey ELSE PrimaryKey(o.on)
  <2>1. CASE o.kind = "findEdge"
    BY <2>1 DEF LockKey, Collecting
  <2>2. CASE o.kind # "findEdge"
    BY <2>2 DEF LockKey, Collecting, Saves
  <2> QED
    BY <2>1, <2>2
<1> QED
  BY <1>1, <1>2 DEF Storable, EdgeKeys

(* A tame step gives nobody back a lock that was lost. *)
LEMMA LockedBefore ==
  ASSUME Inv, NEW q \in Procs, Running(q), NEW fresh,
         \A s \in fresh : s \in Sentinel /\ s.id \notin InUse,
         NEW k \in Storable \cup {EdgesKey}, NEW new, Tame(cache, new, fresh),
         new[k] = LockEntry(op[q].s)
  PROVE  cache[k] = LockEntry(op[q].s)
<1>1. new[k].tag = "lock" /\ new[k].s = op[q].s /\ ~new[k].bumped
  BY DEF LockEntry
<1>2. op[q].s # NoLock => op[q].s.id \in InUse
  BY DEF InUse
<1>3. NoLock \notin Sentinel
  BY DEF NoLock, Sentinel, Kinds
<1>4. op[q].s \notin fresh
  BY <1>2, <1>3
<1> QED
  BY <1>1, <1>4 DEF Tame

LEMMA SaveStays ==
  ASSUME Inv, NEW q \in Procs, Running(q), NEW fresh,
         \A s \in fresh : s \in Sentinel /\ s.id \notin InUse,
         NEW new, Tame(cache, new, fresh), NEW more,
         \A e \in db \ more : \E x \in Ties(e) : Gone(new, x),
         SaveOK(op[q], cache, db)
  PROVE  SaveOK(op[q], new, more)
<1> DEFINE o == op[q]
<1>1. o \in Op /\ Shaped(o)
  BY DEF Inv, TypeOK, Running
<1> SUFFICES ASSUME o.kind \in Saves, o.pc = "answered"
             PROVE  /\ o.val \in {{}, {o.on}}
                    /\ o.val # {} /\ new[LockKey(o)] = LockEntry(o.s) =>
                         o.on \in more \/ \E x \in Ties(o.on) : Gone(new, x)
  BY DEF SaveOK
<1>2. o.on \in Edges /\ LockKey(o) \in Storable \cup {EdgesKey}
  BY <1>1, LockKeyOf
<1>3. o.val \in {{}, {o.on}}
  BY DEF SaveOK
<1>4. ASSUME o.val # {}, new[LockKey(o)] = LockEntry(o.s)
      PROVE  o.on \in more \/ \E x \in Ties(o.on) : Gone(new, x)
  <2>1. cache[LockKey(o)] = LockEntry(o.s)
    BY <1>2, <1>4, LockedBefore
  <2>2. o.on \in db \/ \E x \in Ties(o.on) : Gone(cache, x)
    BY <1>4, <2>1 DEF SaveOK
  <2>3. \A x \in Ties(o.on) : x \in Objects \cup Edges
    BY <1>2 DEF Ties
  <2> QED
    BY <2>2, <2>3 DEF Tame
<1> QED
  BY <1>3, <1>4

LEMMA SingleEdge == \A e, f : ItemEntry({e}) = ItemEntry({f}) => e = f
BY DEF ItemEntry

(* What a step of p has to answer for: the edges it stores it will enter   *)
(* in the lists, what it leaves it has entered, or emptied.                *)
Fills(n) == \A k \in EdgeKeys : cache'[k].tag = "item" =>
  \/ cache'[k] = cache[k]
  \/ \E e \in Edges : /\ k \in KeysOf(e) /\ cache'[k] = ItemEntry({e})
                      /\ \A x \in Ties(e) : Pending(n, e, x)
Leaves(p, n) == \A e \in Edges : \A x \in Ties(e), k \in KeysOf(e) :
  Pending(op[p], e, x) /\ cache'[k].tag = "item" =>
    Pending(n, e, x) \/ k \in Listed(cache', DependencyKey(x)) \/ (x = e /\ k = PrimaryKey(e))

LEMMA EdgesGo ==
  ASSUME Inv, Edged, NEW p \in Procs, NEW n \in Op \cup {Idle}, NEW fresh, Moves(p, n, fresh),
         Fills(n), Leaves(p, n),
         \A e \in db \ db' : \E x \in Ties(e) : Gone(cache', x),
         n # Idle => SaveOK(n, cache', db')
  PROVE  Edged'
<1>1. op'[p] = n /\ \A q \in Procs : q # p => op'[q] = op[q]
  BY OthersSame
<1>2. EdgesFit'
  <2> SUFFICES ASSUME NEW k \in EdgeKeys, cache'[k].tag = "item"
               PROVE  \E e \in Edges : k \in KeysOf(e) /\ cache'[k] = ItemEntry({e})
    BY DEF EdgesFit
  <2>1. CASE cache'[k] = cache[k]
    BY <2>1 DEF Edged, EdgesFit
  <2>2. CASE \E e \in Edges : k \in KeysOf(e) /\ cache'[k] = ItemEntry({e})
    BY <2>2
  <2> QED
    BY <2>1, <2>2 DEF Fills
<1>3. EdgesTied'
  <2> SUFFICES ASSUME NEW e \in Edges, NEW x \in Ties(e), NEW k \in KeysOf(e),
                      cache'[k] = ItemEntry({e}), ~(x = e /\ k = PrimaryKey(e))
               PROVE  k \in Listed(cache', DependencyKey(x)) \/ \E q \in Procs : Pending(op'[q], e, x)
    BY DEF EdgesTied
  <2>1. k \in EdgeKeys /\ cache'[k].tag = "item"
    BY EdgeKeysApart DEF ItemEntry
  <2>2. x \in Objects \cup Edges
    BY DEF Ties
  <2>3. CASE cache'[k] = cache[k]
    <3>1. k \in Listed(cache, DependencyKey(x)) \/ \E q \in Procs : Pending(op[q], e, x)
      BY <2>3 DEF Edged, EdgesTied
    <3>2. CASE k \in Listed(cache, DependencyKey(x))
      BY <2>1, <2>2, <3>2 DEF Tame, Moves
    <3>3. ASSUME NEW q \in Procs, Pending(op[q], e, x)
          PROVE  k \in Listed(cache', DependencyKey(x)) \/ \E r \in Procs : Pending(op'[r], e, x)
      <4>1. CASE q = p
        BY <1>1, <2>1, <3>3, <4>1 DEF Leaves
      <4>2. CASE q # p
        BY <1>1, <3>3, <4>2
      <4> QED
        BY <4>1, <4>2
    <3> QED
      BY <3>1, <3>2, <3>3
  <2>4. CASE \E f \in Edges : /\ k \in KeysOf(f) /\ cache'[k] = ItemEntry({f})
                              /\ \A y \in Ties(f) : Pending(n, f, y)
    <3>1. \A y \in Ties(e) : Pending(n, e, y)
      BY <2>4, SingleEdge
    <3> QED
      BY <1>1, <3>1
  <2> QED
    BY <2>1, <2>3, <2>4 DEF Fills
<1>4. ASSUME NEW q \in Procs, op'[q] # Idle PROVE SaveOK(op'[q], cache', db')
  <2>1. CASE q = p
    BY <1>1, <1>4, <2>1
  <2>2. CASE q # p
    <3>1. op'[q] = op[q] /\ Running(q) /\ SaveOK(op[q], cache, db)
      BY <1>1, <1>4, <2>2 DEF Running, Edged
    <3>2. Tame(cache, cache', fresh) /\ \A s \in fresh : s \in Sentinel /\ s.id \notin InUse
      BY DEF Moves
    <3>3. SaveOK(op[q], cache', db')
      BY <3>1, <3>2, SaveStays
    <3> QED
      BY <3>1, <3>3
  <2> QED
    BY <2>1, <2>2
<1>5. /\ \A e \in Edges, x \in Objects \cup Edges :
           PrimaryKey(e) \in Listed(cache', DependencyKey(x)) => x \in {Source[e], Target[e]}
      /\ cache'[EdgesKey].tag \in {"empty", "lock"}
  BY DEF Edged, Moves, Tame
<1> QED
  BY <1>2, <1>3, <1>4, <1>5 DEF Edged, Running

LEMMA DoomedStays ==
  ASSUME NEW o, NEW store, NEW new, NEW fresh, Tame(store, new, fresh),
         NEW f \in Edges, Doomed(o, store, f)
  PROVE  Doomed(o, new, f)
<1>1. \A x \in Ties(f) : x \in Objects \cup Edges
  BY DEF Ties
<1> QED
  BY <1>1 DEF Doomed, Tame

LEMMA KnownGo ==
  ASSUME Inv, EdgesKnown, NEW p \in Procs, NEW n \in Op \cup {Idle}, NEW fresh, Moves(p, n, fresh),
         db \subseteq db',
         \A k \in EdgeKeys : cache'[k].tag = "item" =>
           \/ cache'[k] = cache[k]
           \/ \E e \in Edges : /\ k \in KeysOf(e) /\ cache'[k] = ItemEntry({e})
                               /\ e \in db' \/ Doomed(n, cache', e),
         \A f \in Edges : Doomed(op[p], cache, f) =>
           Doomed(n, cache', f) \/ \A k \in KeysOf(f) : cache'[k].tag # "item"
  PROVE  EdgesKnown'
<1>1. op'[p] = n /\ \A q \in Procs : q # p => op'[q] = op[q]
  BY OthersSame
<1> SUFFICES ASSUME NEW e \in Edges, NEW k \in KeysOf(e), cache'[k] = ItemEntry({e}), e \notin db'
             PROVE  \E q \in Procs, f \in Edges : k \in KeysOf(f) /\ Doomed(op'[q], cache', f)
  BY DEF EdgesKnown
<1>2. k \in EdgeKeys /\ cache'[k].tag = "item"
  BY EdgeKeysApart DEF ItemEntry
<1>3. CASE cache'[k] = cache[k]
  <2>1. PICK q \in Procs, f \in Edges : k \in KeysOf(f) /\ Doomed(op[q], cache, f)
    BY <1>3 DEF EdgesKnown
  <2>2. CASE q = p
    BY <1>1, <1>2, <2>1, <2>2
  <2>3. CASE q # p
    <3>1. Doomed(op[q], cache', f)
      BY <2>1, DoomedStays DEF Moves
    <3> QED
      BY <1>1, <2>1, <2>3, <3>1
  <2> QED
    BY <2>2, <2>3
<1>4. CASE \E f \in Edges : /\ k \in KeysOf(f) /\ cache'[k] = ItemEntry({f})
                            /\ f \in db' \/ Doomed(n, cache', f)
  <2>1. PICK f \in Edges : /\ k \in KeysOf(f) /\ cache'[k] = ItemEntry({f})
                           /\ f \in db' \/ Doomed(n, cache', f)
    BY <1>4
  <2>2. f = e
    BY <2>1, SingleEdge
  <2> QED
    BY <1>1, <2>1, <2>2
<1> QED
  BY <1>2, <1>3, <1>4

-----------------------------------------------------------------------------
(* The lock of a delete on the primary key of an edge is that of a         *)
(* DeleteEdge of this very edge, which is under way.                       *)
DeleteHolder(o, e, s) == /\ o # Idle
                         /\ o.kind = "deleteEdge" /\ o.on = e /\ o.s = s
                         /\ o.pc \in {"tombstoning", "locked", "closing"}
DeleteLocks == \A e \in Edges :
  IsLock(cache[PrimaryKey(e)]) /\ cache[PrimaryKey(e)].s.kind = "delete" =>
    /\ ~cache[PrimaryKey(e)].bumped
    /\ \E p \in Procs : DeleteHolder(op[p], e, cache[PrimaryKey(e)].s)

LEMMA LockIs == \A c \in Entry : c.tag = "lock" /\ ~c.bumped => c = LockEntry(c.s)
BY DEF Entry, LockEntry, EmptyEntry, Tombstone, ItemEntry, ListEntry

LEMMA LocksGo ==
  ASSUME Inv, DeleteLocks, NEW p \in Procs, NEW n \in Op \cup {Idle}, NEW fresh, Moves(p, n, fresh),
         \A e \in Edges : DeleteHolder(op[p], e, op[p].s) =>
           DeleteHolder(n, e, op[p].s) \/ cache'[PrimaryKey(e)] # LockEntry(op[p].s),
         \A s \in fresh : s.kind = "delete" =>
           \A e \in Edges : IsLock(cache'[PrimaryKey(e)]) /\ cache'[PrimaryKey(e)].s = s =>
             ~cache'[PrimaryKey(e)].bumped /\ DeleteHolder(n, e, s)
  PROVE  DeleteLocks'
<1>1. op'[p] = n /\ \A q \in Procs : q # p => op'[q] = op[q]
  BY OthersSame
<1> SUFFICES ASSUME NEW e \in Edges, IsLock(cache'[PrimaryKey(e)]),
                    cache'[PrimaryKey(e)].s.kind = "delete"
             PROVE  /\ ~cache'[PrimaryKey(e)].bumped
                    /\ \E q \in Procs : DeleteHolder(op'[q], e, cache'[PrimaryKey(e)].s)
  BY DEF DeleteLocks
<1>2. PrimaryKey(e) \in Storable /\ PrimaryKey(e) \in AllKeys
  BY KeysOfEdge
<1>3. CASE cache'[PrimaryKey(e)] = cache[PrimaryKey(e)]
  <2>1. PICK q \in Procs : DeleteHolder(op[q], e, cache[PrimaryKey(e)].s)
    BY <1>3 DEF DeleteLocks
  <2>2. ~cache[PrimaryKey(e)].bumped
    BY <1>3 DEF DeleteLocks
  <2>3. cache[PrimaryKey(e)] = LockEntry(cache[PrimaryKey(e)].s)
    BY <1>2, <1>3, <2>2, LockIs DEF Inv, TypeOK, IsLock
  <2>4. CASE q = p
    <3>1. op[p].s = cache[PrimaryKey(e)].s
      BY <2>1, <2>4 DEF DeleteHolder
    <3>2. DeleteHolder(n, e, op[p].s)
      BY <1>3, <2>1, <2>3, <2>4, <3>1
    <3> QED
      BY <1>1, <1>3, <2>2, <3>1, <3>2
  <2>5. CASE q # p
    BY <1>1, <1>3, <2>1, <2>2, <2>5
  <2> QED
    BY <2>4, <2>5
<1>4. CASE cache'[PrimaryKey(e)].s \in fresh
  BY <1>1, <1>4
<1> QED
  BY <1>2, <1>3, <1>4 DEF Moves, Tame, IsLock

-----------------------------------------------------------------------------
(* An edge that was created and whose collections are yet to be cleared.   *)
Awaiting(o) == o # Idle /\ o.kind = "createEdge" /\ o.pc \in {"answered", "clearing"}
Awaited(e) == \E p \in Procs : Awaiting(op[p]) /\ op[p].on = e

(* A cached collection, and what a read is about to store while it holds   *)
(* its lock, lacks none but these.                                         *)
Gathering(o) == o # Idle /\ o.kind \in Listing /\ o.pc \in {"answered", "linking"}
ListersOK == \A p \in Procs : Gathering(op[p]) =>
  /\ op[p].val \subseteq Members(op[p].on)
  /\ Holds(cache, op[p]) => \A e \in db \cap Members(op[p].on) : e \in op[p].val \/ Awaited(e)
ListedOK == \A k \in Collections : cache[k].tag = "item" =>
  /\ cache[k].val \subseteq Members(k)
  /\ \A e \in db \cap Members(k) : e \in cache[k].val \/ Awaited(e)
CalledOK == /\ \A p \in Procs : op[p] # Idle => op[p].kind \in Calls
            /\ \A k \in Collections : cache[k].tag = "item" => Calls \cap Listing # {}
Complete == ListersOK /\ ListedOK /\ CalledOK

LEMMA CompleteGo ==
  ASSUME Inv, Complete, NEW p \in Procs, NEW n \in Op \cup {Idle}, NEW fresh, Moves(p, n, fresh),
         Calls' = Calls, n # Idle => n.kind \in Calls,
         \A k \in Collections : cache'[k].tag = "item" =>
           \/ cache'[k] = cache[k]
           \/ /\ Calls \cap Listing # {}
              /\ cache'[k].val \subseteq Members(k)
              /\ \A e \in db' \cap Members(k) : e \in cache'[k].val \/ Awaited(e)',
         \A k \in Collections : cache'[k].tag \in {"item", "lock"} =>
           \A e \in Members(k) : /\ e \in db' => e \in db \/ Awaited(e)'
                                 /\ Awaited(e) => Awaited(e)',
         Gathering(n) =>
           /\ n.val \subseteq Members(n.on)
           /\ Holds(cache', n) => \A e \in db' \cap Members(n.on) : e \in n.val \/ Awaited(e)'
  PROVE  Complete'
<1>1. op'[p] = n /\ \A q \in Procs : q # p => op'[q] = op[q]
  BY OthersSame
<1>2. ListedOK'
  <2> SUFFICES ASSUME NEW k \in Collections, cache'[k].tag = "item"
               PROVE  /\ cache'[k].val \subseteq Members(k)
                      /\ \A e \in db' \cap Members(k) : e \in cache'[k].val \/ Awaited(e)'
    BY DEF ListedOK
  <2>1. CASE cache'[k] = cache[k]
    BY <2>1 DEF Complete, ListedOK
  <2> QED
    BY <2>1
<1>3. CalledOK'
  BY <1>1 DEF Complete, CalledOK
<1>4. ASSUME NEW q \in Procs, Gathering(op'[q])
      PROVE  /\ op'[q].val \subseteq Members(op'[q].on)
             /\ Holds(cache', op'[q]) =>
                  \A e \in db' \cap Members(op'[q].on) : e \in op'[q].val \/ Awaited(e)'
  <2>1. CASE q = p
    BY <1>1, <1>4, <2>1
  <2>2. CASE q # p
    <3> DEFINE o == op[q]
    <3>1. op'[q] = o /\ Gathering(o) /\ Running(q)
      BY <1>1, <1>4, <2>2 DEF Gathering, Running
    <3>2. o \in Op /\ Shaped(o)
      BY <3>1 DEF Inv, TypeOK, Running
    <3>3. o.on \in Collections /\ o.s \in [kind : {"read"}, id : Ids] /\ o.on \in Storable
      BY <3>1, <3>2 DEF Gathering, Shaped, Listing, Reads, Storable, Gatherings
    <3>4. o.val \subseteq Members(o.on)
      BY <3>1 DEF Complete, ListersOK
    <3>5. ASSUME Holds(cache', o), NEW e \in db' \cap Members(o.on) PROVE e \in o.val \/ Awaited(e)'
      <4>1. o.s.id \in InUse /\ o.s.kind # "write"
        BY <3>1, <3>3 DEF InUse, NoLock
      <4>2. cache'[o.on] = cache[o.on]
        BY <3>3, <3>5, <4>1 DEF Moves, Tame, Holds, IsLock
      <4>3. Holds(cache, o)
        BY <3>5, <4>2 DEF Holds
      <4>4. \A f \in db \cap Members(o.on) : f \in o.val \/ Awaited(f)
        BY <3>1, <4>3 DEF Complete, ListersOK
      <4>5. cache'[o.on].tag \in {"item", "lock"}
        BY <3>5 DEF Holds, IsLock
      <4>6. /\ e \in db \/ Awaited(e)'
            /\ Awaited(e) => Awaited(e)'
        BY <3>3, <3>5, <4>5
      <4> QED
        BY <3>5, <4>4, <4>6
    <3> QED
      BY <3>1, <3>4, <3>5
  <2> QED
    BY <2>1, <2>2
<1> QED
  BY <1>2, <1>3, <1>4 DEF Complete, ListersOK

LEMMA AwaitedStays ==
  ASSUME Inv, NEW p \in Procs, NEW n \in Op \cup {Idle}, NEW fresh, Moves(p, n, fresh), NEW e,
         Awaiting(op[p]) /\ op[p].on = e => Awaiting(n) /\ n.on = e
  PROVE  /\ Awaited(e) => Awaited(e)'
         /\ Awaiting(n) /\ n.on = e => Awaited(e)'
<1>1. op'[p] = n /\ \A q \in Procs : q # p => op'[q] = op[q]
  BY OthersSame
<1> QED
  BY <1>1 DEF Awaited

-----------------------------------------------------------------------------
(* A call that is not in the middle of a save, of an edge or a collection. *)
Plain(o) == \/ o = Idle
            \/ o.pc \in {"locking", "tombstoning", "locked", "closing"}
            \/ o.kind = "updateObject"

LEMMA PlainIs ==
  ASSUME NEW o, Plain(o)
  PROVE  /\ \A e, x : ~Pending(o, e, x)
         /\ \A store, e : ~Doomed(o, store, e)
         /\ \A store, edges : o # Idle => SaveOK(o, store, edges)
         /\ ~Awaiting(o) /\ ~Gathering(o)
<1>1. \A e, pcs : pcs \subseteq {"clearing", "unlinking", "linking", "undoing", "selfLinking"}
        => ~Saving(o, e, pcs)
  BY DEF Plain, Saving, Saves
<1>2. \A e, x : ~Pending(o, e, x)
  BY <1>1 DEF Pending
<1>3. \A store, e : ~Doomed(o, store, e)
  BY <1>1, <1>2 DEF Doomed
<1>4. \A store, edges : o # Idle => SaveOK(o, store, edges)
  BY DEF Plain, SaveOK, Saves
<1>5. ~Awaiting(o) /\ ~Gathering(o)
  BY DEF Plain, Awaiting, Gathering, Listing
<1> QED
  BY <1>2, <1>3, <1>4, <1>5

(* What holds whatever overlaps is kept, and no step by itself makes an    *)
(* edge unknown or a collection incomplete.                                *)
Kept == Edged /\ DeleteLocks
Follows == Kept' /\ (EdgesKnown => EdgesKnown') /\ (Complete => Complete')

LEMMA PlainGo ==
  ASSUME Inv, Kept, NEW p \in Procs, NEW n \in Op \cup {Idle}, NEW fresh, Moves(p, n, fresh),
         Quiet(cache, cache', Storable), db' = db, Calls' = Calls,
         Plain(op[p]), Plain(n), n # Idle => n.kind \in Calls \/ (op[p] # Idle /\ n.kind = op[p].kind),
         \A e \in Edges : DeleteHolder(op[p], e, op[p].s) =>
           DeleteHolder(n, e, op[p].s) \/ cache'[PrimaryKey(e)] # LockEntry(op[p].s),
         \A s \in fresh : s.kind = "delete" =>
           \A e \in Edges : IsLock(cache'[PrimaryKey(e)]) /\ cache'[PrimaryKey(e)].s = s =>
             ~cache'[PrimaryKey(e)].bumped /\ DeleteHolder(n, e, s)
  PROVE  Follows
<1>1. /\ \A e, x : ~Pending(op[p], e, x)
      /\ \A store, e : ~Doomed(op[p], store, e)
      /\ n # Idle => SaveOK(n, cache', db')
      /\ ~Awaiting(op[p]) /\ ~Gathering(n)
  BY PlainIs
<1>2. \A k \in Storable : cache'[k].tag = "item" => cache'[k] = cache[k]
  BY DEF Quiet
<1>3. Edged'
  <2>1. Fills(n) /\ Leaves(p, n)
    BY <1>1, <1>2 DEF Fills, Leaves, Storable
  <2> QED
    BY <1>1, <2>1, EdgesGo DEF Kept
<1>4. DeleteLocks'
  BY LocksGo DEF Kept
<1>5. ASSUME EdgesKnown PROVE EdgesKnown'
  <2>1. \A k \in EdgeKeys : cache'[k].tag = "item" => cache'[k] = cache[k]
    BY <1>2 DEF Storable
  <2> QED
    BY <1>1, <1>5, <2>1, KnownGo
<1>6. ASSUME Complete PROVE Complete'
  <2>1. \A k \in Collections : cache'[k].tag = "item" => cache'[k] = cache[k]
    BY <1>2 DEF Storable, Gatherings
  <2>2. \A e : Awaited(e) => Awaited(e)'
    BY <1>1, AwaitedStays
  <2>3. n # Idle => n.kind \in Calls
    BY <1>6 DEF Complete, CalledOK
  <2> QED
    BY <1>1, <1>6, <2>1, <2>2, <2>3, CompleteGo
<1> QED
  BY <1>3, <1>4, <1>5, <1>6 DEF Follows, Kept

(* Most callers hold no lock of a DeleteEdge. *)
LEMMA NoHolder ==
  ASSUME NEW o, o = Idle \/ o.kind # "deleteEdge" \/ o.pc \notin {"tombstoning", "locked", "closing"}
  PROVE  \A e, s : ~DeleteHolder(o, e, s)
BY DEF DeleteHolder

-----------------------------------------------------------------------------
LEMMA GoMoves ==
  ASSUME Inv, NEW p \in Procs, Running(p), NEW pc \in Steps, Go(p, pc), Tame(cache, cache', {})
  PROVE  \E n \in Op : /\ Moves(p, n, {}) /\ n # Idle
                       /\ n.kind = op[p].kind /\ n.on = op[p].on /\ n.pc = pc /\ n.s = op[p].s
                       /\ n.val = op[p].val /\ n.known = op[p].known
<1> DEFINE n == [op[p] EXCEPT !.pc = pc]
<1>1. op[p] \in Op
  BY DEF Inv, TypeOK, Running
<1>2. /\ n \in Op /\ n # Idle
      /\ n.kind = op[p].kind /\ n.on = op[p].on /\ n.pc = pc /\ n.s = op[p].s
      /\ n.val = op[p].val /\ n.known = op[p].known
  BY <1>1, Moved
<1>3. op' = [op EXCEPT ![p] = n]
  BY DEF Go
<1> HIDE DEF n
<1>4. Moves(p, n, {})
  BY <1>3 DEF Moves
<1> QED
  BY <1>2, <1>4

LEMMA EndMoves ==
  ASSUME NEW p \in Procs, End(p), Tame(cache, cache', {})
  PROVE  Moves(p, Idle, {})
BY DEF End, Moves

LEMMA GoPlain ==
  ASSUME Inv, Kept, NEW p \in Procs, Running(p), NEW pc \in Steps, Go(p, pc),
         Tame(cache, cache', {}), Quiet(cache, cache', Storable), db' = db, Calls' = Calls,
         Plain(op[p]), pc \in {"tombstoning", "locked", "closing"} \/ op[p].kind = "updateObject"
  PROVE  Follows
<1>1. PICK n \in Op : /\ Moves(p, n, {}) /\ n # Idle
                      /\ n.kind = op[p].kind /\ n.on = op[p].on /\ n.pc = pc /\ n.s = op[p].s
  BY GoMoves
<1>2. Plain(n)
  BY <1>1 DEF Plain
<1>3. \A e \in Edges : DeleteHolder(op[p], e, op[p].s) => DeleteHolder(n, e, op[p].s)
  BY <1>1 DEF DeleteHolder
<1>4. op[p] # Idle
  BY DEF Running
<1> QED
  BY <1>1, <1>2, <1>3, <1>4, PlainGo

LEMMA EndPlain ==
  ASSUME Inv, Kept, NEW p \in Procs, End(p), Plain(op[p]),
         Tame(cache, cache', {}), Quiet(cache, cache', Storable), db' = db, Calls' = Calls,
         \A e \in Edges : DeleteHolder(op[p], e, op[p].s) => cache'[PrimaryKey(e)] # LockEntry(op[p].s)
  PROVE  Follows
<1>1. Moves(p, Idle, {}) /\ Plain(Idle) /\ Idle \in Op \cup {Idle}
  BY EndMoves DEF Plain
<1> DEFINE n == Idle
           fresh == {}
<1>2. /\ Moves(p, n, fresh) /\ Plain(n) /\ n \in Op \cup {Idle} /\ n = Idle
      /\ \A s \in fresh : s.kind # "delete"
  BY <1>1
<1> HIDE DEF n, fresh
<1> QED
  BY <1>2, PlainGo

LEMMA MissFollows ==
  ASSUME Inv, Kept, NEW p \in Procs, NEW kind \in Reads \cap Calls, NEW x \in ReadTargets(kind),
         Miss(p, kind, x), Calls' = Calls
  PROVE  Follows
<1> DEFINE k == LockKey([kind |-> kind, on |-> x])
<1>1. PICK s \in FreshSentinel("read") :
        Begin(p, kind, x, "locked", s, FALSE) /\ cache' = LockOnMiss(cache, k, s)
  BY DEF Miss
<1>2. s \in Sentinel /\ s.id \notin InUse /\ s.kind = "read"
  BY FreshIs DEF Kinds
<1> DEFINE known == FALSE
           n == [kind |-> kind, on |-> x, pc |-> "locked", s |-> s, val |-> {}, known |-> known]
<1>3. /\ kind \in {"getEdge", "findEdge"} => x \in Edges
      /\ kind \in Collecting => x \in Gatherings
  BY DEF ReadTargets, Collecting, Gatherings, Collections
<1>4. x \in Edges \cup Objects \cup Collections \cup Paths
  BY <1>3 DEF Reads, Collecting, Gatherings
<1>5. n \in Op /\ n # Idle /\ n.kind = kind /\ n.on = x /\ n.pc = "locked" /\ n.s = s
  <2>1. known \in BOOLEAN
    OBVIOUS
  <2> HIDE DEF known
  <2> QED
    BY <1>2, <1>4, <2>1, Begun DEF Steps
<1>6. op' = [op EXCEPT ![p] = n] /\ op[p] = Idle
  BY <1>1 DEF Begin
<1> HIDE DEF n
<1>7. k \in Storable \cup {EdgesKey}
  <2>1. CASE kind = "getEdge"
    BY <1>3, <2>1 DEF LockKey, Collecting, Storable, EdgeKeys
  <2>2. CASE kind = "findEdge"
    BY <2>2 DEF LockKey, Collecting
  <2>3. CASE kind \in Collecting
    BY <1>3, <2>3, StorableKeys DEF LockKey, Collecting
  <2> QED
    BY <2>1, <2>2, <2>3 DEF Reads, Collecting
<1> HIDE DEF k
<1>8. LockEntry(s) \in Entry /\ LockEntry(s).tag = "lock" /\ LockEntry(s).s = s
  BY <1>2, EntryOK
<1>9. Tame(cache, cache', {s}) /\ Quiet(cache, cache', Storable)
  <2>1. cache \in [AllKeys -> Entry] /\ \A y \in Objects \cup Edges : DependencyKey(y) \notin {k}
    BY <1>7, KeysApart DEF Inv, TypeOK
  <2>2. /\ Tame(cache, Put(cache, {k}, LockEntry(s)), {s})
        /\ Quiet(cache, Put(cache, {k}, LockEntry(s)), Storable)
    BY <1>8, <2>1, TamePut
  <2> QED
    BY <1>1, <2>2, TameSame DEF LockOnMiss
<1>10. Moves(p, n, {s})
  BY <1>2, <1>6, <1>9 DEF Moves
<1>11. Plain(op[p]) /\ Plain(n)
  BY <1>5, <1>6 DEF Plain
<1>12. \A e, t : ~DeleteHolder(op[p], e, t)
  BY <1>6, NoHolder
<1>13. db' = db
  BY DEF Miss
<1> DEFINE fresh == {s}
<1>14. \A t \in fresh : t.kind # "delete"
  BY <1>2
<1>15. Moves(p, n, fresh)
  BY <1>10
<1> HIDE DEF fresh
<1> QED
  BY <1>5, <1>9, <1>11, <1>12, <1>13, <1>14, <1>15, PlainGo

LEMMA FailReadFollows ==
  ASSUME Inv, Kept, NEW p \in Procs, FailRead(p), Calls' = Calls
  PROVE  Follows
<1>1. Running(p) /\ op[p].pc = "locked" /\ op[p].kind \in Reads
  BY InvRunning DEF FailRead, Steps
<1>2. Plain(op[p]) /\ \A e, s : ~DeleteHolder(op[p], e, s)
  BY <1>1 DEF Plain, DeleteHolder, Reads
<1>3. Tame(cache, cache', {}) /\ Quiet(cache, cache', Storable) /\ db' = db
  BY TameSame DEF FailRead
<1>4. End(p) \/ Go(p, "closing")
  BY DEF FailRead
<1> QED
  BY <1>1, <1>2, <1>3, <1>4, GoPlain, EndPlain DEF Steps

LEMMA StartMutationFollows ==
  ASSUME Inv, Kept, NEW p \in Procs, NEW kind \in Mutations \cap Calls, NEW x \in Edges \cup Subjects,
         StartMutation(p, kind, x), Calls' = Calls
  PROVE  Follows
<1> DEFINE known == kind = "deleteEdge" /\ cache[PrimaryKey(x)].tag = "item"
           n == [kind |-> kind, on |-> x, pc |-> "locking", s |-> NoLock, val |-> {}, known |-> known]
<1>1. op' = [op EXCEPT ![p] = n] /\ known \in BOOLEAN /\ op[p] = Idle
  BY DEF StartMutation, Begin
<1>2. x \in Edges \cup Objects \cup Collections \cup Paths
  OBVIOUS
<1> HIDE DEF known
<1>3. n \in Op /\ n # Idle /\ n.kind = kind /\ n.on = x /\ n.pc = "locking" /\ n.s = NoLock
  BY <1>1, <1>2, Begun DEF Steps
<1>4. PICK m \in Op : m = n
  BY <1>3
<1>5. m # Idle /\ m.kind = kind /\ m.on = x /\ m.pc = "locking" /\ op' = [op EXCEPT ![p] = m]
  BY <1>1, <1>3, <1>4
<1> HIDE DEF n
<1> DEFINE fresh == {}
<1>6. Tame(cache, cache', fresh) /\ Quiet(cache, cache', Storable) /\ db' = db
  BY TameSame DEF StartMutation
<1>7. Moves(p, m, fresh) /\ \A s \in fresh : s.kind # "delete"
  BY <1>5, <1>6 DEF Moves
<1>8. Plain(op[p]) /\ Plain(m) /\ \A e, s : ~DeleteHolder(op[p], e, s)
  BY <1>1, <1>5, NoHolder DEF Plain
<1> HIDE DEF fresh
<1> QED
  BY <1>5, <1>6, <1>7, <1>8, PlainGo

(* WriteSentinel is granted, or changes nothing; what it locks is fresh.   *)
LEMMA WriteSentinelIs ==
  ASSUME NEW store \in [AllKeys -> Entry], NEW s \in Sentinel,
         NEW lks \in Seq(Lockables), Len(lks) \in Nat \ {0}
  PROVE  /\ Tame(store, WriteSentinel(store, s, lks), {s})
         /\ Quiet(store, WriteSentinel(store, s, lks), Storable)
         /\ \A k \in AllKeys :
              \/ WriteSentinel(store, s, lks)[k] = store[k]
              \/ /\ WriteSentinel(store, s, lks)[k] = LockEntry(s)
                 /\ Granted(store, s, lks) = s
                 /\ \E m \in DOMAIN lks : k = lks[m]
<1> DEFINE ks == Lockable(store, lks)
<1>1. ks \subseteq Lockables /\ \A k \in ks : \E m \in DOMAIN lks : k = lks[m]
  BY DEF Lockable
<1>2. \A x \in Objects \cup Edges : DependencyKey(x) \notin ks
  BY <1>1, LockablesApart
<1>3. LockEntry(s) \in Entry /\ LockEntry(s).tag = "lock" /\ LockEntry(s).s = s
  BY EntryOK
<1> HIDE DEF ks
<1>4. Tame(store, Put(store, ks, LockEntry(s)), {s}) /\ Quiet(store, Put(store, ks, LockEntry(s)), Storable)
  BY <1>2, <1>3, TamePut
<1>5. \A k \in AllKeys : Put(store, ks, LockEntry(s))[k] = IF k \in ks THEN LockEntry(s) ELSE store[k]
  BY <1>3, PutType
<1>6. CASE Unavailable(store, s, lks)
  BY <1>6, TameSame DEF WriteSentinel
<1>7. CASE ~Unavailable(store, s, lks)
  <2>1. WriteSentinel(store, s, lks) = Put(store, ks, LockEntry(s)) /\ Granted(store, s, lks) = s
    BY <1>7 DEF WriteSentinel, Granted, ks
  <2> QED
    BY <1>1, <1>4, <1>5, <2>1
<1> QED
  BY <1>6, <1>7

LEMMA WithOneMore ==
  ASSUME NEW a, NEW b, NEW c, NEW full \in Seq({c})
  PROVE  /\ 1 \in DOMAIN (<<a, b>> \o full) /\ (<<a, b>> \o full)[1] = a
         /\ 2 \in 2 .. Len(<<a, b>> \o full) /\ (<<a, b>> \o full)[2] = b
         /\ \A m \in DOMAIN (<<a, b>> \o full) : (<<a, b>> \o full)[m] \in {a, b, c}
<1> DEFINE S == {a, b, c}
<1>1. /\ <<a, b>> \in Seq(S) /\ Len(<<a, b>>) = 2
      /\ <<a, b>>[1] = a /\ <<a, b>>[2] = b
  OBVIOUS
<1>2. \A s \in Seq({c}) : s \in Seq(S) /\ \A m \in 1 .. Len(s) : s[m] = c
  OBVIOUS
<1>3. full \in Seq(S) /\ \A m \in 1 .. Len(full) : full[m] = c
  BY <1>2
<1> HIDE DEF S
<1>4. PICK q \in Seq(S) : q = <<a, b>>
  BY <1>1
<1>5. Len(q) = 2 /\ q[1] = a /\ q[2] = b
  BY <1>1, <1>4
<1>6. Len(q \o full) = 2 + Len(full) /\ q \o full \in Seq(S) /\ Len(full) \in Nat
  <2>1. q \o full \in Seq(S) /\ Len(q \o full) = Len(q) + Len(full)
    BY <1>3, ConcatProperties
  <2>2. Len(full) \in Nat
    BY <1>3
  <2> QED
    BY <1>5, <2>1, <2>2
<1>7. \A m \in 1 .. 2 + Len(full) : (q \o full)[m] = IF m <= 2 THEN q[m] ELSE full[m - 2]
  <2>1. \A m \in 1 .. Len(q) + Len(full) : (q \o full)[m] = IF m <= Len(q) THEN q[m] ELSE full[m - Len(q)]
    BY <1>3, ConcatProperties
  <2> QED
    BY <1>5, <2>1
<1>8. \A m \in 1 .. 2 + Len(full) : (q \o full)[m] \in {a, b, c}
  <2> SUFFICES ASSUME NEW m \in 1 .. 2 + Len(full) PROVE (q \o full)[m] \in {a, b, c}
    OBVIOUS
  <2>1. CASE m <= 2
    <3>1. m = 1 \/ m = 2
      BY <1>6, <2>1
    <3> QED
      BY <1>5, <1>7, <2>1, <3>1
  <2>2. CASE ~(m <= 2)
    <3>1. m - 2 \in 1 .. Len(full)
      BY <1>6, <2>2
    <3> QED
      BY <1>3, <1>7, <2>2, <3>1
  <2> QED
    BY <2>1, <2>2
<1>9. /\ (q \o full)[1] = a /\ (q \o full)[2] = b
      /\ DOMAIN (q \o full) = 1 .. 2 + Len(full) /\ 1 \in 1 .. 2 + Len(full)
      /\ 2 \in 2 .. Len(q \o full)
  BY <1>5, <1>6, <1>7
<1> QED
  BY <1>4, <1>8, <1>9

(* A DeleteEdge locks the primary key first, and that of all edges.        *)
LEMMA DeleteEdgeLocks ==
  ASSUME NEW o, o.kind = "deleteEdge"
  PROVE  /\ 1 \in DOMAIN LockedKeys(o) /\ LockedKeys(o)[1] = PrimaryKey(o.on)
         /\ 2 \in 2 .. Len(LockedKeys(o)) /\ LockedKeys(o)[2] = EdgesKey
<1> DEFINE full == IF o.known THEN <<FullKey(o.on)>> ELSE <<>>
<1>1. LockedKeys(o) = <<PrimaryKey(o.on), EdgesKey>> \o full
  <2> HIDE DEF full
  <2> QED
    BY Zenon DEF LockedKeys, Collecting, full
<1>2. full \in Seq({FullKey(o.on)})
  <2> DEFINE c == FullKey(o.on)
  <2>1. <<c>> \in Seq({c}) /\ <<>> \in Seq({c})
    OBVIOUS
  <2> QED
    BY <2>1
<1> HIDE DEF full
<1> QED
  BY <1>1, <1>2, WithOneMore

(* Only a DeleteEdge locks the primary key of an edge to delete it.        *)
LEMMA LockedForDelete ==
  ASSUME NEW o \in Op, o.kind \in Deletes, NEW e \in Edges,
         o.kind = "deleteEdge" => o.on \in Edges,
         NEW m \in DOMAIN LockedKeys(o), LockedKeys(o)[m] = PrimaryKey(e)
  PROVE  o.kind = "deleteEdge" /\ o.on = e
<1>1. CASE o.kind = "deleteEdge"
  <2> DEFINE full == IF o.known THEN <<FullKey(o.on)>> ELSE <<>>
  <2>1. LockedKeys(o) = <<PrimaryKey(o.on), EdgesKey>> \o full
    <3> HIDE DEF full
    <3> QED
      BY <1>1, Zenon DEF LockedKeys, Collecting, full
  <2>2. full \in Seq({FullKey(o.on)})
    <3> DEFINE c == FullKey(o.on)
    <3>1. <<c>> \in Seq({c}) /\ <<>> \in Seq({c})
      OBVIOUS
    <3> QED
      BY <3>1
  <2> HIDE DEF full
  <2>3. LockedKeys(o)[m] \in {PrimaryKey(o.on), EdgesKey, FullKey(o.on)}
    <3> DEFINE a == PrimaryKey(o.on)
               c == FullKey(o.on)
    <3> HIDE DEF a, c
    <3>1. \A i \in DOMAIN (<<a, EdgesKey>> \o full) : (<<a, EdgesKey>> \o full)[i] \in {a, EdgesKey, c}
      BY <2>2, WithOneMore DEF c
    <3> QED
      BY <2>1, <3>1 DEF a, c
  <2> QED
    BY <1>1, <2>3, EdgeKeysApart
<1>2. CASE o.kind = "deleteObject"
  <2>1. LockedKeys(o) = <<ObjectKey(o.on), OfObject(o.on)>>
    BY <1>2 DEF LockedKeys, Collecting
  <2> QED
    BY <2>1, EdgeKeysApart
<1>3. CASE o.kind = "deleteEdgesByObject"
  <2>1. LockedKeys(o) = <<OfObject(o.on)>>
    BY <1>3 DEF LockedKeys, Collecting
  <2> QED
    BY <2>1, EdgeKeysApart
<1> QED
  BY <1>1, <1>2, <1>3 DEF Deletes

LEMMA TakeLockFollows ==
  ASSUME Inv, Kept, NEW p \in Procs, TakeLock(p), Calls' = Calls
  PROVE  Follows
<1> DEFINE o == op[p]
           lks == LockedKeys(o)
           pc == IF SentinelOf(o.kind) = "write" THEN "locked" ELSE "tombstoning"
<1>1. Running(p) /\ o \in Op /\ Shaped(o) /\ o.pc = "locking" /\ o.kind \in Mutations
  <2>1. Running(p) /\ o \in Op /\ Shaped(o) /\ o.pc = "locking"
    BY InvRunning DEF TakeLock, Steps
  <2> QED
    BY <2>1 DEF Shaped
<1>2. PICK s \in FreshSentinel(SentinelOf(o.kind)) :
        /\ cache' = WriteSentinel(cache, s, lks)
        /\ op' = [op EXCEPT ![p].s = Granted(cache, s, lks), ![p].pc = pc]
  BY DEF TakeLock
<1>3. s \in Sentinel /\ s.id \notin InUse /\ s.kind = SentinelOf(o.kind)
  BY <1>2, FreshIs DEF SentinelOf, Kinds
<1>4. lks \in Seq(Lockables) /\ Len(lks) \in Nat \ {0} /\ cache \in [AllKeys -> Entry]
  BY <1>1, LockedAre DEF Inv, TypeOK
<1>5. PICK g \in Sentinel \cup {NoLock} : g = Granted(cache, s, lks)
  BY <1>3 DEF Granted
<1> DEFINE n == [o EXCEPT !.s = g, !.pc = pc]
<1>6. pc \in {"locked", "tombstoning"} /\ (o.kind \in Deletes => pc = "tombstoning")
  BY DEF SentinelOf, Deletes
<1>7. op' = [op EXCEPT ![p] = n]
  BY <1>2, <1>5
<1> HIDE DEF pc
<1>8. n \in Op /\ n # Idle /\ n.kind = o.kind /\ n.on = o.on /\ n.pc = pc /\ n.s = g
  BY <1>1, <1>6 DEF Op, Idle
<1>9. PICK m \in Op : m = n
  BY <1>8
<1>10. /\ m # Idle /\ m.kind = o.kind /\ m.on = o.on /\ m.pc = pc /\ m.s = g
       /\ op' = [op EXCEPT ![p] = m]
  BY <1>7, <1>8, <1>9
<1> HIDE DEF n, lks
<1> DEFINE fresh == {s}
<1>11. /\ Tame(cache, cache', fresh) /\ Quiet(cache, cache', Storable)
       /\ \A k \in AllKeys : \/ cache'[k] = cache[k]
                             \/ cache'[k] = LockEntry(s) /\ g = s /\ \E i \in DOMAIN lks : k = lks[i]
  <2> DEFINE new == WriteSentinel(cache, s, lks)
  <2>1. /\ Tame(cache, new, {s}) /\ Quiet(cache, new, Storable)
        /\ \A k \in AllKeys : \/ new[k] = cache[k]
                              \/ /\ new[k] = LockEntry(s)
                                 /\ Granted(cache, s, lks) = s
                                 /\ \E i \in DOMAIN lks : k = lks[i]
    BY <1>3, <1>4, WriteSentinelIs
  <2>2. cache' = new
    BY <1>2
  <2> HIDE DEF new
  <2> QED
    BY <1>5, <2>1, <2>2
<1>12. Moves(p, m, fresh)
  BY <1>3, <1>10, <1>11 DEF Moves
<1>13. Plain(o) /\ Plain(m) /\ \A e, t : ~DeleteHolder(o, e, t)
  BY <1>1, <1>6, <1>10, NoHolder DEF Plain
<1>14. ASSUME NEW t \in fresh, t.kind = "delete", NEW e \in Edges,
              IsLock(cache'[PrimaryKey(e)]), cache'[PrimaryKey(e)].s = t
       PROVE  ~cache'[PrimaryKey(e)].bumped /\ DeleteHolder(m, e, t)
  <2>1. t = s /\ o.kind \in Deletes
    BY <1>1, <1>3, <1>14 DEF SentinelOf, Deletes, Mutations
  <2>2. PrimaryKey(e) \in AllKeys
    BY KeysOfEdge
  <2>3. cache'[PrimaryKey(e)] # cache[PrimaryKey(e)]
    <3> SUFFICES ASSUME cache'[PrimaryKey(e)] = cache[PrimaryKey(e)] PROVE FALSE
      OBVIOUS
    <3>1. s.id \in InUse
      BY <1>14, <2>1, <2>2 DEF InUse
    <3> QED
      BY <1>3, <3>1
  <2>4. cache'[PrimaryKey(e)] = LockEntry(s) /\ g = s /\ \E i \in DOMAIN lks : PrimaryKey(e) = lks[i]
    BY <1>11, <2>2, <2>3
  <2>5. o.kind = "deleteEdge" /\ o.on = e
    BY <1>1, <2>1, <2>4, LockedForDelete DEF lks, Shaped
  <2> QED
    BY <1>6, <1>10, <2>1, <2>4, <2>5 DEF DeleteHolder, LockEntry
<1>15. db' = db /\ o # Idle
  BY <1>1 DEF TakeLock, Running
<1> HIDE DEF fresh
<1> QED
  BY <1>10, <1>11, <1>12, <1>13, <1>14, <1>15, PlainGo

LEMMA TombstoneListFollows ==
  ASSUME Inv, Kept, NEW p \in Procs, TombstoneList(p), Calls' = Calls
  PROVE  Follows
<1>1. Running(p) /\ op[p] \in Op /\ Shaped(op[p]) /\ op[p].pc = "tombstoning"
  BY InvRunning DEF TombstoneList, Steps
<1>2. op[p].on \in Objects \cup Edges /\ Plain(op[p])
  BY <1>1 DEF Shaped, Deletes, Plain
<1>3. Tame(cache, cache', {}) /\ Quiet(cache, cache', Storable)
  <2> DEFINE set == TRUE
  <2>1. cache' = ClearDependencies(cache, DependencyKey(op[p].on), set) /\ set \in BOOLEAN
    BY DEF TombstoneList
  <2> HIDE DEF set
  <2> QED
    BY <1>2, <2>1, TameClear DEF Inv, TypeOK
<1>4. db' = db /\ Go(p, "locked")
  BY DEF TombstoneList
<1> QED
  BY <1>1, <1>2, <1>3, <1>4, GoPlain DEF Steps

LEMMA CloseFollows ==
  ASSUME Inv, Kept, NEW p \in Procs, Close(p), Calls' = Calls
  PROVE  Follows
<1> DEFINE o == op[p]
           ks == {LockedKeys(o)[n] : n \in DOMAIN LockedKeys(o)}
           held == {k \in ks : cache[k] = LockEntry(o.s)}
<1>1. Running(p) /\ o \in Op /\ Shaped(o) /\ o.pc = "closing"
  BY InvRunning DEF Close, Steps
<1>2. ks \in SUBSET Lockables
  <2>1. LockedKeys(o) \in Seq(Lockables)
    BY <1>1, LockedAre DEF Shaped
  <2> QED
    BY <2>1
<1>3. cache' = IF o.s = NoLock THEN cache ELSE Put(cache, held, EmptyEntry)
  BY DEF Close, ReleaseSentinel
<1>4. o.kind = "deleteEdge" /\ o.on \in Edges => PrimaryKey(o.on) \in ks
  BY DeleteEdgeLocks
<1>5. cache \in [AllKeys -> Entry] /\ \A x \in Objects \cup Edges : DependencyKey(x) \notin held
  BY <1>2, LockablesApart DEF Inv, TypeOK
<1> HIDE DEF ks
<1>6. Tame(cache, cache', {}) /\ Quiet(cache, cache', Storable)
  <2> HIDE DEF held
  <2>1. /\ Tame(cache, Put(cache, held, EmptyEntry), {})
        /\ Quiet(cache, Put(cache, held, EmptyEntry), Storable)
    BY <1>5, EntryOK, TamePut
  <2> QED
    BY <1>3, <2>1, TameSame
<1>7. ASSUME NEW e \in Edges, DeleteHolder(o, e, o.s)
      PROVE  cache'[PrimaryKey(e)] # LockEntry(o.s)
  <2>1. PrimaryKey(e) \in ks /\ PrimaryKey(e) \in AllKeys
    BY <1>4, <1>7, KeysOfEdge DEF DeleteHolder
  <2>2. CASE o.s = NoLock
    <3>1. cache[PrimaryKey(e)].tag = "lock" => cache[PrimaryKey(e)].s \in Sentinel
      BY <1>5, <2>1, EntryShape
    <3>2. NoLock \notin Sentinel
      BY DEF NoLock, Sentinel, Kinds
    <3> QED
      BY <1>3, <2>2, <3>1, <3>2 DEF LockEntry
  <2>3. CASE o.s # NoLock
    <3>1. cache'[PrimaryKey(e)] = IF PrimaryKey(e) \in held THEN EmptyEntry ELSE cache[PrimaryKey(e)]
      BY <1>3, <1>5, <2>1, <2>3, EntryOK, PutType
    <3> QED
      BY <2>1, <3>1 DEF EmptyEntry, LockEntry
  <2> QED
    BY <2>2, <2>3
<1>8. db' = db /\ End(p) /\ Plain(o)
  BY <1>1 DEF Close, Plain
<1> QED
  BY <1>6, <1>7, <1>8, EndPlain

(* SetValue stores for the holder of the lock alone.  Another write marks  *)
(* the lock of a write, or empties the keys.                               *)
LEMMA SetIs ==
  ASSUME NEW store \in [AllKeys -> Entry], NEW lkey \in AllKeys, NEW ks,
         NEW v \in SUBSET Edges, NEW s
  PROVE  LET new == SetValue(store, lkey, ks, v, s) IN
         \/ /\ CanSetValue(store[lkey], v, s) = "set" /\ store[lkey] = LockEntry(s)
            /\ new = Put(store, ks, ItemEntry(v))
         \/ /\ CanSetValue(store[lkey], v, s) # "set" /\ new = store
         \/ /\ CanSetValue(store[lkey], v, s) # "set" /\ s.kind = "write"
            /\ \E e \in Entry : /\ e.tag \in {"empty", "lock"}
                                /\ e.tag = "lock" => e.bumped /\ e.s.kind = "write"
                                /\ new = Put(store, ks, e)
<1> DEFINE curr == store[lkey]
           verdict == CanSetValue(curr, v, s)
           new == SetValue(store, lkey, ks, v, s)
<1>1. curr \in Entry
  OBVIOUS
<1>2. /\ verdict \in {"set", "clear", "conflict", "none"}
      /\ verdict = "set" <=> curr = LockEntry(s)
      /\ verdict \in {"clear", "conflict"} => s.kind = "write"
      /\ verdict = "conflict" => curr.tag = "lock" /\ curr.s.kind = "write"
  <2> DEFINE mine == curr = LockEntry(s)
             other == s.kind = "write" /\ curr.tag = "item" /\ curr.val # v
             marked == s.kind = "write" /\ IsLock(curr) /\ curr.s = s /\ curr.bumped
             meets == s.kind = "write" /\ IsLock(curr) /\ curr.s.kind = "write" /\ curr.s # s
  <2>1. verdict = CASE mine -> "set" [] other -> "clear" [] marked -> "clear"
                    [] meets -> "conflict" [] OTHER -> "none"
    BY Zenon DEF CanSetValue
  <2>2. mine => ~other /\ ~marked /\ ~meets
    BY DEF LockEntry
  <2>3. other \/ marked \/ meets => s.kind = "write"
    OBVIOUS
  <2>4. meets => curr.tag = "lock" /\ curr.s.kind = "write"
    BY DEF IsLock
  <2>5. ~(other /\ meets) /\ ~(marked /\ meets)
    BY DEF IsLock
  <2>6. mine <=> curr = LockEntry(s)
    OBVIOUS
  <2> HIDE DEF mine, other, marked, meets, verdict
  <2> QED
    BY <2>1, <2>2, <2>3, <2>4, <2>5, <2>6
<1>3. curr = LockEntry(s) => curr.tag = "lock"
  BY DEF LockEntry
<1>4. IF curr.tag \in {"empty", "list"} THEN new = store
      ELSE /\ verdict = "set"      => new = Put(store, ks, ItemEntry(v))
           /\ verdict = "clear"    => new = Put(store, ks, EmptyEntry)
           /\ verdict = "conflict" => new = Put(store, ks, Bumped(curr))
           /\ verdict = "none"     => new = store
  BY <1>2 DEF SetValue
<1> HIDE DEF verdict, new
<1>5. CASE verdict = "set"
  BY <1>2, <1>3, <1>4, <1>5 DEF verdict, new
<1>6. CASE verdict = "clear"
  <2>1. EmptyEntry \in Entry /\ EmptyEntry.tag = "empty"
    BY EntryOK
  <2> QED
    BY <1>2, <1>4, <1>6, <2>1 DEF verdict, new
<1>7. CASE verdict = "conflict"
  <2>1. /\ Bumped(curr) \in Entry /\ Bumped(curr).tag = "lock"
        /\ Bumped(curr).bumped /\ Bumped(curr).s.kind = "write"
    BY <1>1, <1>2, <1>7, EntryOK DEF Bumped
  <2> QED
    BY <1>2, <1>4, <1>7, <2>1 DEF verdict, new
<1>8. CASE verdict = "none"
  BY <1>2, <1>4, <1>8 DEF verdict, new
<1> QED
  BY <1>2, <1>5, <1>6, <1>7, <1>8

(* Of a reader SetValue stores the value under the reader's own lock, or   *)
(* does nothing.                                                           *)
LEMMA ReaderSets ==
  ASSUME NEW store \in [AllKeys -> Entry], NEW lkey \in AllKeys, NEW ks,
         NEW v \in SUBSET Edges, NEW s
  PROVE  \/ store[lkey] = LockEntry(s) /\ SetValue(store, lkey, ks, v, s) = Put(store, ks, ItemEntry(v))
         \/ SetValue(store, lkey, ks, v, s) = store
         \/ s.kind = "write"
BY SetIs

LEMMA StoreObjectFollows ==
  ASSUME Inv, Kept, NEW p \in Procs, StoreObject(p), Calls' = Calls
  PROVE  Follows
<1>1. Running(p) /\ Shaped(op[p]) /\ op[p].kind = "updateObject"
  BY InvRunning DEF StoreObject, Steps
<1> DEFINE lkey == ObjectKey(op[p].on)
           ks == {lkey}
           none == {}
<1>2. lkey \in AllKeys
  BY <1>1 DEF Shaped, AllKeys
<1>3. /\ \A x \in Objects \cup Edges : DependencyKey(x) \notin ks
      /\ EdgesKey \notin ks
      /\ ks \cap Storable = {}
  <2>1. lkey \notin Storable
    BY KeysApart, EdgeKeysApart DEF Storable, KeysOf
  <2>2. EdgesKey # lkey /\ \A x : DependencyKey(x) # lkey
    BY KeysApart, EdgeKeysApart
  <2> HIDE DEF lkey
  <2> QED
    BY <2>1, <2>2
<1>4. cache' = SetValue(cache, lkey, ks, none, op[p].s) /\ none \in SUBSET Edges
  BY DEF StoreObject
<1>5. cache \in [AllKeys -> Entry]
  BY DEF Inv, TypeOK
<1>6. ItemEntry(none) \in Entry /\ ItemEntry(none).tag = "item"
  BY <1>4, EntryOK
<1> HIDE DEF lkey, ks, none
<1>7. \/ cache' = cache
      \/ \E e \in Entry : /\ e.tag = "lock" => e.bumped /\ e.s.kind = "write"
                          /\ cache' = Put(cache, ks, e)
  BY <1>2, <1>4, <1>5, <1>6, SetIs
<1>8. Tame(cache, cache', {}) /\ Quiet(cache, cache', Storable)
  <2>1. CASE cache' = cache
    BY <2>1, TameSame
  <2>2. ASSUME NEW e \in Entry, e.tag = "lock" => e.bumped /\ e.s.kind = "write"
        PROVE  Tame(cache, Put(cache, ks, e), {}) /\ Quiet(cache, Put(cache, ks, e), Storable)
    <3> DEFINE fresh == {}
    <3>1. e.tag = "lock" => (e.bumped /\ e.s.kind = "write") \/ e.s \in fresh
      BY <2>2
    <3>2. Storable \in SUBSET Storable /\ Storable \cap ks = {}
      BY <1>3
    <3> HIDE DEF fresh
    <3>3. /\ Tame(cache, Put(cache, ks, e), fresh)
          /\ \A K \in SUBSET Storable : K \cap ks = {} => Quiet(cache, Put(cache, ks, e), K)
      BY <1>3, <1>5, <3>1, TamePut
    <3> QED
      BY <3>2, <3>3 DEF fresh
  <2> QED
    BY <1>7, <2>1, <2>2
<1>9. db' = db /\ Go(p, "unlinking") /\ Plain(op[p])
  BY <1>1 DEF StoreObject, Plain
<1> QED
  BY <1>1, <1>8, <1>9, GoPlain DEF Steps

(* A caller in the middle of a save, or about to begin one, goes on.       *)
LEMMA SaveKeeps ==
  ASSUME Inv, Kept, NEW p \in Procs, Running(p), op[p].kind # "deleteEdge",
         NEW n \in Op \cup {Idle}, Moves(p, n, {}), n # Idle => n.kind = op[p].kind,
         db' = db, Calls' = Calls,
         Fills(n), Leaves(p, n), n # Idle => SaveOK(n, cache', db'),
         EdgesKnown => \A k \in EdgeKeys : cache'[k].tag = "item" =>
           \/ cache'[k] = cache[k]
           \/ \E e \in Edges : /\ k \in KeysOf(e) /\ cache'[k] = ItemEntry({e})
                               /\ e \in db' \/ Doomed(n, cache', e),
         \A f \in Edges : Doomed(op[p], cache, f) =>
           Doomed(n, cache', f) \/ \A k \in KeysOf(f) : cache'[k].tag # "item"
  PROVE  Kept' /\ (EdgesKnown => EdgesKnown')
<1> DEFINE fresh == {}
<1>1. Moves(p, n, fresh) /\ \A s \in fresh : s.kind # "delete"
  OBVIOUS
<1> HIDE DEF fresh
<1>2. Edged'
  <2>1. \A e \in db \ db' : \E x \in Ties(e) : Gone(cache', x)
    OBVIOUS
  <2> QED
    BY <1>1, <2>1, EdgesGo DEF Kept
<1>3. DeleteLocks'
  <2>1. \A e, s : ~DeleteHolder(op[p], e, s)
    BY NoHolder
  <2> QED
    BY <1>1, <2>1, LocksGo DEF Kept
<1>4. EdgesKnown => EdgesKnown'
  <2>1. db \subseteq db'
    OBVIOUS
  <2> QED
    BY <1>1, <2>1, KnownGo
<1> QED
  BY <1>2, <1>3, <1>4 DEF Kept

LEMMA SaveGo ==
  ASSUME Inv, Kept, NEW p \in Procs, Running(p), op[p].kind # "deleteEdge",
         NEW n \in Op \cup {Idle}, Moves(p, n, {}), n # Idle => n.kind = op[p].kind,
         db' = db, Calls' = Calls,
         Fills(n), Leaves(p, n), n # Idle => SaveOK(n, cache', db'),
         EdgesKnown => \A k \in EdgeKeys : cache'[k].tag = "item" =>
           \/ cache'[k] = cache[k]
           \/ \E e \in Edges : /\ k \in KeysOf(e) /\ cache'[k] = ItemEntry({e})
                               /\ e \in db' \/ Doomed(n, cache', e),
         \A f \in Edges : Doomed(op[p], cache, f) =>
           Doomed(n, cache', f) \/ \A k \in KeysOf(f) : cache'[k].tag # "item",
         Quiet(cache, cache', Collections),
         Gathering(n) /\ Complete =>
           /\ n.val \subseteq Members(n.on)
           /\ Holds(cache', n) => \A e \in db \cap Members(n.on) : e \in n.val \/ Awaited(e)
  PROVE  /\ Kept' /\ (EdgesKnown => EdgesKnown')
         /\ (Awaiting(op[p]) => Awaiting(n) /\ n.on = op[p].on) => (Complete => Complete')
<1> DEFINE fresh == {}
<1>1. Moves(p, n, fresh) /\ \A s \in fresh : s.kind # "delete"
  OBVIOUS
<1> HIDE DEF fresh
<1>2. Kept' /\ (EdgesKnown => EdgesKnown')
  BY SaveKeeps
<1>3. ASSUME Complete, Awaiting(op[p]) => Awaiting(n) /\ n.on = op[p].on PROVE Complete'
  <2>1. \A e : Awaited(e) => Awaited(e)'
    BY <1>1, <1>3, AwaitedStays
  <2>2. n # Idle => n.kind \in Calls
    BY <1>3 DEF Complete, CalledOK, Running
  <2>3. \A k \in Collections : cache'[k].tag = "item" => cache'[k] = cache[k]
    BY DEF Quiet
  <2>4. Gathering(n) =>
          /\ n.val \subseteq Members(n.on)
          /\ Holds(cache', n) => \A e \in db' \cap Members(n.on) : e \in n.val \/ Awaited(e)'
    BY <1>3, <2>1
  <2>5. \A k \in Collections : cache'[k].tag \in {"item", "lock"} =>
          \A e \in Members(k) : /\ e \in db' => e \in db \/ Awaited(e)'
                                /\ Awaited(e) => Awaited(e)'
    BY <2>1
  <2> QED
    BY <1>1, <1>3, <2>2, <2>3, <2>4, <2>5, CompleteGo
<1> QED
  BY <1>2, <1>3

(* A step that stores no edge and leaves the caller's save where it was.   *)
LEMMA NoSave ==
  ASSUME NEW p \in Procs, NEW n, Quiet(cache, cache', EdgeKeys), Tame(cache, cache', {}),
         \A e, x : Pending(op[p], e, x) => Pending(n, e, x),
         \A e : Saving(op[p], e, {"undoing"}) => Saving(n, e, {"undoing"})
  PROVE  /\ Fills(n) /\ Leaves(p, n)
         /\ \A k \in EdgeKeys : cache'[k].tag = "item" => cache'[k] = cache[k]
         /\ \A f \in Edges : Doomed(op[p], cache, f) => Doomed(n, cache', f)
<1>1. Fills(n) /\ Leaves(p, n) /\ \A k \in EdgeKeys : cache'[k].tag = "item" => cache'[k] = cache[k]
  BY DEF Fills, Leaves, Quiet
<1>2. ASSUME NEW f \in Edges, Doomed(op[p], cache, f) PROVE Doomed(n, cache', f)
  <2>1. Doomed(op[p], cache', f)
    BY <1>2, DoomedStays
  <2> QED
    BY <2>1 DEF Doomed
<1> QED
  BY <1>1, <1>2

LEMMA UnlinkFollows ==
  ASSUME Inv, Kept, NEW p \in Procs, Unlink(p), Calls' = Calls
  PROVE  Follows
<1> DEFINE o == op[p]
<1>1. Running(p) /\ o \in Op /\ Shaped(o) /\ o.pc = "unlinking" /\ o.kind \in {"createEdge", "updateObject"}
  <2>1. Running(p) /\ o \in Op /\ Shaped(o) /\ o.pc = "unlinking"
    BY InvRunning DEF Unlink, Steps
  <2> QED
    BY <2>1 DEF Shaped
<1>2. PICK pc \in {"linking", "closing"} :
        /\ pc = IF o.kind = "createEdge" /\ o.known THEN "linking" ELSE "closing"
        /\ Go(p, pc)
  BY DEF Unlink
<1>3. Tame(cache, cache', {}) /\ Quiet(cache, cache', Storable)
  <2> DEFINE set == FALSE
  <2>1. cache' = ClearDependencies(cache, DependencyKey(o.on), set) /\ set \in BOOLEAN
    BY DEF Unlink
  <2>2. o.on \in Objects \cup Edges
    BY <1>1 DEF Shaped
  <2> HIDE DEF set
  <2> QED
    BY <2>1, <2>2, TameClear DEF Inv, TypeOK
<1>4. db' = db
  BY DEF Unlink
<1>5. CASE o.kind = "updateObject"
  BY <1>1, <1>2, <1>3, <1>4, <1>5, GoPlain DEF Steps, Plain
<1>6. CASE o.kind = "createEdge"
  <2>1. PICK n \in Op : /\ Moves(p, n, {}) /\ n # Idle
                        /\ n.kind = o.kind /\ n.on = o.on /\ n.pc = pc /\ n.s = o.s
                        /\ n.val = o.val /\ n.known = o.known
    BY <1>1, <1>2, <1>3, GoMoves DEF Steps
  <2>2. /\ \A e, x : Pending(o, e, x) => Pending(n, e, x)
        /\ \A e : Saving(o, e, {"undoing"}) => Saving(n, e, {"undoing"})
    <3>1. CASE o.known
      <4>1. n.pc = "linking" /\ n.known
        BY <1>2, <1>6, <2>1, <3>1
      <4> QED
        BY <1>1, <2>1, <4>1 DEF Pending, Saving
    <3>2. CASE ~o.known
      BY <1>6, <3>2 DEF Pending, Saving
    <3> QED
      BY <3>1, <3>2
  <2>3. Quiet(cache, cache', EdgeKeys) /\ Quiet(cache, cache', Collections)
    BY <1>3 DEF Quiet, Storable, Gatherings
  <2>4. /\ Fills(n) /\ Leaves(p, n)
        /\ \A k \in EdgeKeys : cache'[k].tag = "item" => cache'[k] = cache[k]
        /\ \A f \in Edges : Doomed(o, cache, f) => Doomed(n, cache', f)
    BY <1>3, <2>2, <2>3, NoSave
  <2>5. SaveOK(n, cache', db') /\ ~Gathering(n) /\ ~Awaiting(o)
    BY <1>1, <1>2, <1>6, <2>1 DEF SaveOK, Gathering, Awaiting, Listing
  <2>6. o.kind # "deleteEdge" /\ n.kind = o.kind
    BY <1>6, <2>1
  <2> HIDE DEF o
  <2>7. /\ Kept' /\ (EdgesKnown => EdgesKnown')
        /\ Complete => Complete'
    BY <1>1, <1>4, <2>1, <2>3, <2>4, <2>5, <2>6, SaveGo DEF o
  <2> QED
    BY <2>7 DEF Follows
<1> QED
  BY <1>1, <1>5, <1>6

LEMMA ServeReadFollows ==
  ASSUME Inv, Kept, NEW p \in Procs, ServeRead(p), Calls' = Calls
  PROVE  /\ Kept' /\ (EdgesKnown => EdgesKnown')
         /\ Complete /\ ~Filtered => Complete'
<1> DEFINE o == op[p]
<1>1. Running(p) /\ o \in Op /\ Shaped(o) /\ o.pc = "locked" /\ o.kind \in Reads
  BY InvRunning DEF ServeRead, Steps
<1>2. PICK answer : /\ op' = [op EXCEPT ![p].pc = "answered", ![p].val = answer]
                    /\ o.kind \in {"getEdge", "findEdge"} => answer = db \cap {o.on}
                    /\ o.kind \in Listing /\ ~Filtered => answer = db \cap Members(o.on)
                    /\ answer \subseteq db
  <2>1. PICK answer \in CASE o.kind \in {"getEdge", "findEdge"} -> {db \cap {o.on}}
                          [] o.kind \in {"listEdges", "listEdgesBetween"} -> Listings(o)
                          [] o.kind = "checkAttribute" -> {{}} \cup {{e} : e \in db \cap Members(o.on)} :
          op' = [op EXCEPT ![p].pc = "answered", ![p].val = answer]
    BY DEF ServeRead
  <2>2. CASE o.kind \in {"getEdge", "findEdge"}
    <3>1. answer = db \cap {o.on}
      BY <2>1, <2>2
    <3> QED
      BY <2>1, <2>2, <3>1 DEF Listing
  <2>3. CASE o.kind \in {"listEdges", "listEdgesBetween"}
    <3>1. answer \subseteq db /\ (~Filtered => answer = db \cap Members(o.on))
      BY <2>1, <2>3 DEF Listings
    <3> QED
      BY <2>1, <2>3, <3>1 DEF Listing
  <2>4. CASE o.kind = "checkAttribute"
    <3>1. answer \in {{}} \cup {{e} : e \in db \cap Members(o.on)}
      BY <2>1, <2>4
    <3>2. answer \subseteq db
      BY <3>1
    <3> QED
      BY <2>1, <2>4, <3>2 DEF Listing
  <2> QED
    BY <1>1, <2>2, <2>3, <2>4 DEF Reads
<1>3. answer \in SUBSET Edges
  BY <1>2 DEF Inv, TypeOK
<1> DEFINE n == [o EXCEPT !.pc = "answered", !.val = answer]
<1>4. /\ n \in Op /\ n # Idle /\ op' = [op EXCEPT ![p] = n]
      /\ n.kind = o.kind /\ n.on = o.on /\ n.pc = "answered" /\ n.s = o.s /\ n.val = answer
  BY <1>1, <1>2, <1>3 DEF Op, Idle
<1> HIDE DEF n
<1>5. cache' = cache /\ db' = db
  BY DEF ServeRead
<1>6. Tame(cache, cache', {}) /\ \A ks : Quiet(cache, cache', ks)
  BY <1>5, TameSame
<1>7. Moves(p, n, {})
  BY <1>4, <1>6 DEF Moves
<1>8. /\ \A e, x : ~Pending(o, e, x)
      /\ \A e : ~Saving(o, e, {"undoing"})
  BY <1>1 DEF Pending, Saving
<1>9. /\ Fills(n) /\ Leaves(p, n)
      /\ \A k \in EdgeKeys : cache'[k].tag = "item" => cache'[k] = cache[k]
      /\ \A f \in Edges : Doomed(o, cache, f) => Doomed(n, cache', f)
  BY <1>6, <1>8, NoSave
<1>10. SaveOK(n, cache', db')
  <2> SUFFICES ASSUME n.kind \in Saves
               PROVE  /\ n.val \in {{}, {n.on}}
                      /\ n.val # {} => n.on \in db'
    BY DEF SaveOK
  <2>1. n.kind \in {"getEdge", "findEdge"}
    BY <1>1, <1>4 DEF Saves, Reads
  <2>2. n.val = db' \cap {n.on}
    BY <1>2, <1>4, <1>5, <2>1
  <2> QED
    BY <2>2
<1>11. Gathering(n) /\ ~Filtered => n.val = db \cap Members(n.on)
  BY <1>2, <1>4 DEF Gathering
<1>12. ~Awaiting(o) /\ o.kind # "deleteEdge"
  BY <1>1 DEF Awaiting, Reads
<1> HIDE DEF o
<1>13. Kept' /\ (EdgesKnown => EdgesKnown')
  BY <1>1, <1>4, <1>5, <1>7, <1>9, <1>10, <1>12, SaveKeeps DEF o
<1>14. ASSUME ~Filtered PROVE Complete => Complete'
  <2>1. /\ Gathering(n) /\ Complete =>
           /\ n.val \subseteq Members(n.on)
           /\ Holds(cache', n) => \A e \in db \cap Members(n.on) : e \in n.val \/ Awaited(e)
    BY <1>11, <1>14
  <2> QED
    BY <1>1, <1>4, <1>5, <1>6, <1>7, <1>9, <1>10, <1>12, <2>1, SaveGo DEF o
<1> QED
  BY <1>13, <1>14

(* Entering a collection in the lists touches lists alone. *)
LEMMA LinkCollectionIs ==
  ASSUME Inv, NEW p \in Procs, LinkCollection(p)
  PROVE  Tame(cache, cache', {}) /\ \A k \in Storable \cup {EdgesKey} : cache'[k] = cache[k]
<1> DEFINE o == op[p]
<1>1. o \in Op /\ Shaped(o) /\ o.kind \in Collecting
  BY InvRunning DEF LinkCollection, Steps
<1>2. o.on \in Gatherings /\ o.val \in SUBSET Edges
  BY <1>1 DEF Shaped, Op
<1>3. CASE cache' = cache
  BY <1>3, TameSame
<1>4. CASE \E dkeys \in Orders(DependenciesOf(o.on, o.val)) : cache' = AddDependency(cache, dkeys, {o.on})
  <2>1. PICK dkeys \in Orders(DependenciesOf(o.on, o.val)) : cache' = AddDependency(cache, dkeys, {o.on})
    BY <1>4
  <2>2. PICK m \in Nat : DOMAIN dkeys = 1 .. m
    BY <1>2, OrdersAll
  <2>3. \A i \in 1 .. m : \E x \in Objects \cup Edges : dkeys[i] = DependencyKey(x)
    <3>1. \A i \in 1 .. m : dkeys[i] \in DependenciesOf(o.on, o.val)
      BY <1>2, <2>2, OrdersAll
    <3>2. \A d \in DependenciesOf(o.on, o.val) : \E x \in Objects \cup Edges : d = DependencyKey(x)
      BY <1>2, DependenciesAre
    <3> QED
      BY <3>1, <3>2
  <2>4. AreLists(dkeys, m)
    BY <2>2, <2>3 DEF AreLists
  <2>5. cache \in [AllKeys -> Entry] /\ ListsOK(cache)
    BY DEF Inv, TypeOK
  <2> DEFINE fresh == {}
  <2> HIDE DEF fresh
  <2>6. /\ Tame(cache, AddDependency(cache, dkeys, {o.on}), fresh)
        /\ \A k \in Storable \cup {EdgesKey} : AddDependency(cache, dkeys, {o.on})[k] = cache[k]
    BY <1>2, <2>4, <2>5, TameGather
  <2> QED
    BY <2>1, <2>6 DEF fresh
<1> QED
  BY <1>3, <1>4 DEF LinkCollection

LEMMA LinkCollectionFollows ==
  ASSUME Inv, Kept, NEW p \in Procs, LinkCollection(p), Calls' = Calls
  PROVE  Follows
<1> DEFINE o == op[p]
<1>1. Running(p) /\ o \in Op /\ Shaped(o) /\ o.pc = "answered" /\ o.kind \in Collecting
  BY InvRunning DEF LinkCollection, Steps
<1>2. o.on \in Gatherings /\ o.val \in SUBSET Edges
  BY <1>1 DEF Shaped, Op
<1>3. PICK pc \in {"linking", "closing"} : Go(p, pc)
  BY DEF LinkCollection
<1>4. Tame(cache, cache', {}) /\ \A k \in Storable : cache'[k] = cache[k]
  BY LinkCollectionIs
<1>5. PICK n \in Op : /\ Moves(p, n, {}) /\ n # Idle
                      /\ n.kind = o.kind /\ n.on = o.on /\ n.pc = pc /\ n.s = o.s
                      /\ n.val = o.val /\ n.known = o.known
  BY <1>1, <1>3, <1>4, GoMoves DEF Steps
<1>6. Quiet(cache, cache', EdgeKeys) /\ Quiet(cache, cache', Collections)
  BY <1>4 DEF Quiet, Storable, Gatherings
<1>7. /\ \A e, x : ~Pending(o, e, x)
      /\ \A e : ~Saving(o, e, {"undoing"})
      /\ ~Awaiting(o) /\ o.kind # "deleteEdge"
      /\ SaveOK(n, cache', db')
  BY <1>1, <1>5 DEF Pending, Saving, Awaiting, Collecting, Saves, SaveOK
<1>8. /\ Fills(n) /\ Leaves(p, n)
      /\ \A k \in EdgeKeys : cache'[k].tag = "item" => cache'[k] = cache[k]
      /\ \A f \in Edges : Doomed(o, cache, f) => Doomed(n, cache', f)
  BY <1>4, <1>6, <1>7, NoSave
<1>9. ASSUME Gathering(n), Complete
      PROVE  /\ n.val \subseteq Members(n.on)
             /\ Holds(cache', n) => \A e \in db \cap Members(n.on) : e \in n.val \/ Awaited(e)
  <2>1. Gathering(o)
    BY <1>1, <1>5, <1>9 DEF Gathering, Running
  <2>2. Holds(cache', n) => Holds(cache, o)
    BY <1>2, <1>4, <1>5, StorableKeys DEF Holds
  <2> QED
    BY <1>5, <1>9, <2>1, <2>2 DEF Complete, ListersOK
<1>10. db' = db
  BY DEF LinkCollection
<1> HIDE DEF o
<1>11. /\ Kept' /\ (EdgesKnown => EdgesKnown')
       /\ Complete => Complete'
  BY <1>1, <1>5, <1>6, <1>7, <1>8, <1>9, <1>10, SaveGo DEF o
<1> QED
  BY <1>11 DEF Follows

(* Nothing is both a collection and a path. *)
LEMMA PathsApart == \A k \in Collections : k \notin Paths
<1>1. \A k \in Collections : k[1] \in {"of", "between"}
  BY DEF Collections, OfObject, Between
<1>2. \A k \in Paths : k[1] = "path"
  BY DEF Paths, Path
<1> QED
  BY <1>1, <1>2

LEMMA StoreCollectionFollows ==
  ASSUME Inv, Kept, NEW p \in Procs, StoreCollection(p), Calls' = Calls
  PROVE  Follows
<1> DEFINE o == op[p]
           pc == "closing"
<1>1. Running(p) /\ o \in Op /\ Shaped(o) /\ o.pc = "linking" /\ o.kind \in Collecting
  BY InvRunning DEF StoreCollection, Steps
<1>2. o.on \in Gatherings /\ o.val \in SUBSET Edges /\ o.s.kind = "read"
  BY <1>1 DEF Shaped, Op, Collecting, Reads
<1>3. o.on \in AllKeys /\ cache \in [AllKeys -> Entry] /\ o.on \in Storable
  BY <1>2, StorableKeys DEF Inv, TypeOK
<1> DEFINE ks == {o.on}
<1>4. \/ cache[o.on] = LockEntry(o.s) /\ cache' = Put(cache, ks, ItemEntry(o.val))
      \/ cache' = cache
  <2> DEFINE new == SetValue(cache, o.on, ks, o.val, o.s)
  <2>1. cache' = new
    BY DEF StoreCollection
  <2>2. o.s.kind # "write"
    BY <1>2
  <2>3. \/ cache[o.on] = LockEntry(o.s) /\ new = Put(cache, ks, ItemEntry(o.val))
        \/ new = cache
        \/ o.s.kind = "write"
    <3>1. PICK lks : lks = ks
      OBVIOUS
    <3>2. PICK v \in SUBSET Edges : v = o.val
      BY <1>2
    <3>3. PICK lkey \in AllKeys : lkey = o.on
      BY <1>3
    <3>4. PICK s : s = o.s
      OBVIOUS
    <3>5. \/ cache[lkey] = LockEntry(s) /\ SetValue(cache, lkey, lks, v, s) = Put(cache, lks, ItemEntry(v))
          \/ SetValue(cache, lkey, lks, v, s) = cache
          \/ s.kind = "write"
      <4>1. PICK store \in [AllKeys -> Entry] : store = cache
        BY <1>3
      <4> HIDE DEF o, pc, ks, new
      <4>2. \/ store[lkey] = LockEntry(s) /\ SetValue(store, lkey, lks, v, s) = Put(store, lks, ItemEntry(v))
            \/ SetValue(store, lkey, lks, v, s) = store
            \/ s.kind = "write"
        BY ReaderSets
      <4> QED
        BY <4>1, <4>2
    <3> QED
      BY <3>1, <3>2, <3>3, <3>4, <3>5
  <2> HIDE DEF new
  <2> QED
    BY <2>1, <2>2, <2>3
<1>5. ItemEntry(o.val) \in Entry /\ ItemEntry(o.val).tag = "item" /\ ItemEntry(o.val).val = o.val
  BY <1>2, EntryOK DEF ItemEntry
<1>6. /\ \A x \in Objects \cup Edges : DependencyKey(x) \notin ks
      /\ EdgesKey \notin ks /\ ks \cap EdgeKeys = {}
  BY <1>2, KeysApart, StorableKeys
<1>7. Tame(cache, cache', {}) /\ Quiet(cache, cache', EdgeKeys)
  <2> DEFINE fresh == {}
             e == ItemEntry(o.val)
             new == Put(cache, ks, e)
  <2>1. EdgeKeys \in SUBSET Storable /\ EdgeKeys \cap ks = {}
    BY <1>6 DEF Storable
  <2>2. e \in Entry /\ e.tag = "item"
    BY <1>5
  <2>3. Tame(cache, new, fresh) /\ Quiet(cache, new, EdgeKeys)
    <3> HIDE DEF fresh, ks, e
    <3> QED
      BY <1>3, <1>6, <2>1, <2>2, TamePut DEF new
  <2> HIDE DEF new
  <2>4. cache' = new \/ cache' = cache
    BY <1>4 DEF new
  <2> QED
    BY <2>3, <2>4, TameSame
<1>8. Go(p, pc) /\ db' = db
  BY DEF StoreCollection
<1>9. PICK n \in Op : /\ Moves(p, n, {}) /\ n # Idle
                      /\ n.kind = o.kind /\ n.on = o.on /\ n.pc = pc /\ n.s = o.s
                      /\ n.val = o.val /\ n.known = o.known
  BY <1>1, <1>7, <1>8, GoMoves DEF Steps
<1>10. /\ \A e, x : ~Pending(o, e, x)
       /\ \A e : ~Saving(o, e, {"undoing"})
       /\ ~Awaiting(o) /\ o.kind # "deleteEdge" /\ ~Gathering(n)
       /\ SaveOK(n, cache', db')
  BY <1>1, <1>9 DEF Pending, Saving, Awaiting, Gathering, Collecting, Saves, SaveOK
<1>11. /\ Fills(n) /\ Leaves(p, n)
       /\ \A k \in EdgeKeys : cache'[k].tag = "item" => cache'[k] = cache[k]
       /\ \A f \in Edges : Doomed(o, cache, f) => Doomed(n, cache', f)
  BY <1>7, <1>10, NoSave
<1> DEFINE fresh == {}
<1>12. Moves(p, n, fresh) /\ \A s \in fresh : s.kind # "delete"
  BY <1>9
<1> HIDE DEF fresh
<1>13. Edged'
  <2>1. \A e \in db \ db' : \E x \in Ties(e) : Gone(cache', x)
    BY <1>8
  <2> QED
    BY <1>10, <1>11, <1>12, <2>1, EdgesGo DEF Kept
<1>14. DeleteLocks'
  <2>1. \A e, s : ~DeleteHolder(o, e, s)
    BY <1>10, NoHolder
  <2> QED
    BY <1>12, <2>1, LocksGo DEF Kept
<1>15. ASSUME EdgesKnown PROVE EdgesKnown'
  <2>1. db \subseteq db'
    BY <1>8
  <2> QED
    BY <1>11, <1>12, <1>15, <2>1, KnownGo
<1>16. ASSUME Complete PROVE Complete'
  <2>1. \A e : Awaited(e) => Awaited(e)'
    BY <1>10, <1>12, AwaitedStays
  <2>2. n.kind \in Calls
    BY <1>1, <1>9, <1>16 DEF Complete, CalledOK, Running
  <2>3. ASSUME NEW k \in Collections, cache'[k].tag = "item", cache'[k] # cache[k]
        PROVE  /\ Calls \cap Listing # {}
               /\ cache'[k].val \subseteq Members(k)
               /\ \A e \in db' \cap Members(k) : e \in cache'[k].val \/ Awaited(e)'
    <3>1. cache[o.on] = LockEntry(o.s) /\ cache' = Put(cache, ks, ItemEntry(o.val))
      BY <1>4, <2>3
    <3>2. k = o.on /\ cache'[k] = ItemEntry(o.val)
      <4>1. k \in AllKeys
        BY StorableKeys DEF Gatherings
      <4>2. cache'[k] = IF k \in ks THEN ItemEntry(o.val) ELSE cache[k]
        BY <1>3, <1>5, <3>1, <4>1, PutType
      <4> QED
        BY <2>3, <4>2
    <3>3. o.kind \in Listing
      BY <1>1, <2>3, <3>2, PathsApart DEF Shaped, Collecting, Listing
    <3>4. Gathering(o) /\ Holds(cache, o)
      BY <1>1, <3>1, <3>3 DEF Gathering, Running, Holds, IsLock, LockEntry
    <3>5. /\ o.val \subseteq Members(k)
          /\ \A e \in db \cap Members(k) : e \in o.val \/ Awaited(e)
      BY <1>16, <3>2, <3>4 DEF Complete, ListersOK
    <3>6. o.kind \in Calls \cap Listing
      BY <1>9, <2>2, <3>3
    <3> QED
      BY <1>5, <1>8, <2>1, <3>2, <3>5, <3>6
  <2>4. \A k \in Collections : cache'[k].tag \in {"item", "lock"} =>
          \A e \in Members(k) : /\ e \in db' => e \in db \/ Awaited(e)'
                                /\ Awaited(e) => Awaited(e)'
    BY <1>8, <2>1
  <2> QED
    BY <1>10, <1>12, <1>16, <2>2, <2>3, <2>4, CompleteGo
<1> QED
  BY <1>13, <1>14, <1>15, <1>16 DEF Follows, Kept

(* The collections of an edge are all those it is a member of. *)
LEMMA CollectionsAll ==
  ASSUME NEW e \in Edges
  PROVE  /\ \A k \in Collections : e \in Members(k) => k \in CollectionsOf(e)
         /\ \A x : DependencyKey(x) \notin CollectionsOf(e)
         /\ EdgesKey \notin CollectionsOf(e)
<1>1. ASSUME NEW k \in Collections, e \in Members(k) PROVE k \in CollectionsOf(e)
  <2>1. CASE \E x \in Subjects : k = OfObject(x)
    <3>1. PICK x \in Subjects : k = OfObject(x)
      BY <2>1
    <3>2. k[1] = "of" /\ k[2] = x
      BY <3>1 DEF OfObject
    <3>3. x \in {Source[e], Target[e]}
      BY <1>1, <3>2 DEF Members, EdgesOf
    <3> QED
      BY <3>1, <3>3 DEF CollectionsOf
  <2>2. CASE \E pair \in Pairs : k = Between(pair[1], pair[2])
    <3>1. PICK pair \in Pairs : k = Between(pair[1], pair[2])
      BY <2>2
    <3>2. k[1] = "between" /\ k[2] = pair[1] /\ k[3] = pair[2]
      BY <3>1 DEF Between
    <3>3. Source[e] = pair[1] /\ Target[e] = pair[2]
      BY <1>1, <3>2 DEF Members
    <3> QED
      BY <3>1, <3>3 DEF CollectionsOf
  <2> QED
    BY <2>1, <2>2 DEF Collections
<1>2. \A x : DependencyKey(x) \notin CollectionsOf(e)
  BY KeysApart DEF CollectionsOf
<1>3. EdgesKey \notin CollectionsOf(e)
  <2>1. \A k \in CollectionsOf(e) : k[1] \in {"between", "of"}
    BY DEF CollectionsOf, Between, OfObject
  <2> QED
    BY <2>1 DEF EdgesKey
<1> QED
  BY <1>1, <1>2, <1>3

LEMMA ClearCollectionsFollows ==
  ASSUME Inv, Kept, NEW p \in Procs, ClearCollections(p), Calls' = Calls
  PROVE  Follows
<1> DEFINE o == op[p]
           ks == CollectionsOf(o.on)
           pc == "unlinking"
           fresh == {}
<1>1. Running(p) /\ o \in Op /\ Shaped(o) /\ o.pc = "clearing" /\ o.kind = "createEdge" /\ o.on \in Edges
  <2>1. Running(p) /\ o \in Op /\ Shaped(o) /\ o.pc = "clearing"
    BY InvRunning DEF ClearCollections, Steps
  <2> QED
    BY <2>1 DEF Shaped
<1>2. cache' = Put(cache, ks, Tombstone) /\ Go(p, pc) /\ db' = db
  BY DEF ClearCollections
<1>3. Tombstone \in Entry /\ Tombstone.tag = "tombstone" /\ cache \in [AllKeys -> Entry]
  BY EntryOK DEF Inv, TypeOK
<1>4. (\A x \in Objects \cup Edges : DependencyKey(x) \notin ks) /\ EdgesKey \notin ks
  BY <1>1, CollectionsAll
<1> HIDE DEF ks, fresh
<1>5. Tame(cache, cache', fresh) /\ Quiet(cache, cache', Storable)
  BY <1>2, <1>3, <1>4, TamePut
<1>6. PICK n \in Op : /\ Moves(p, n, {}) /\ n # Idle
                      /\ n.kind = o.kind /\ n.on = o.on /\ n.pc = pc /\ n.s = o.s
                      /\ n.val = o.val /\ n.known = o.known
  BY <1>1, <1>2, <1>5, GoMoves DEF Steps, fresh
<1>7. /\ \A e, x : Pending(o, e, x) => Pending(n, e, x)
      /\ \A e : ~Saving(o, e, {"undoing"})
      /\ o.kind # "deleteEdge" /\ ~Gathering(n)
      /\ SaveOK(n, cache', db')
  BY <1>1, <1>6 DEF Pending, Saving, Gathering, Listing, SaveOK
<1>8. Quiet(cache, cache', EdgeKeys) /\ Quiet(cache, cache', Collections)
  BY <1>5 DEF Quiet, Storable, Gatherings
<1>9. /\ Fills(n) /\ Leaves(p, n)
      /\ \A k \in EdgeKeys : cache'[k].tag = "item" => cache'[k] = cache[k]
      /\ \A f \in Edges : Doomed(o, cache, f) => Doomed(n, cache', f)
  BY <1>5, <1>7, <1>8, NoSave DEF fresh
<1>10. Kept' /\ (EdgesKnown => EdgesKnown')
  <2> HIDE DEF o
  <2> QED
    BY <1>1, <1>2, <1>6, <1>7, <1>8, <1>9, SaveGo DEF o
<1>11. ASSUME Complete PROVE Complete'
  <2>1. Moves(p, n, fresh)
    BY <1>6 DEF fresh
  <2>2. \A e : e # o.on /\ Awaited(e) => Awaited(e)'
    BY <2>1, AwaitedStays
  <2>3. n # Idle => n.kind \in Calls
    BY <1>1, <1>6, <1>11 DEF Complete, CalledOK, Running
  <2>4. \A k \in Collections : cache'[k].tag = "item" => cache'[k] = cache[k]
    BY <1>8 DEF Quiet
  <2>5. ASSUME NEW k \in Collections, cache'[k].tag \in {"item", "lock"}, NEW e \in Members(k)
        PROVE  (e \in db' => e \in db \/ Awaited(e)') /\ (Awaited(e) => Awaited(e)')
    <3>1. k \notin ks
      <4>1. k \in AllKeys
        BY StorableKeys DEF Gatherings
      <4>2. cache'[k] = IF k \in ks THEN Tombstone ELSE cache[k]
        BY <1>2, <1>3, <4>1, PutType
      <4> QED
        BY <1>3, <2>5, <4>2
    <3>2. e # o.on
      BY <1>1, <2>5, <3>1, CollectionsAll DEF ks
    <3> QED
      BY <1>2, <2>2, <3>2
  <2> QED
    BY <1>7, <1>11, <2>1, <2>3, <2>4, <2>5, CompleteGo
<1> QED
  BY <1>10, <1>11 DEF Follows

(* An edge is entered in the lists of its ends, its name in its own.       *)
LEMMA LinkIs ==
  ASSUME Inv, NEW e \in Edges
  PROVE  LET new == AddDependency(cache, EndPoints(e), KeysOf(e)) IN
         /\ Tame(cache, new, {}) /\ \A k \in Storable \cup {EdgesKey} : new[k] = cache[k]
         /\ Dependable(cache, EndPoints(e)) <=> ~Gone(cache, Source[e]) /\ ~Gone(cache, Target[e])
         /\ Dependable(cache, EndPoints(e)) =>
              \A x \in {Source[e], Target[e]} : KeysOf(e) \subseteq Listed(new, DependencyKey(x))
<1>1. PICK dkeys : dkeys = EndPoints(e)
  OBVIOUS
<1>2. PICK n \in Nat : n = 2
  OBVIOUS
<1>3. PICK ks \in SUBSET Storable : ks = KeysOf(e)
  BY KeysOfEdge DEF KeysOf
<1>4. DOMAIN dkeys = 1 .. n /\ dkeys[1] = DependencyKey(Source[e]) /\ dkeys[2] = DependencyKey(Target[e])
  BY <1>1, <1>2 DEF EndPoints
<1>5. \A m \in 1 .. n : m = 1 \/ m = 2
  BY <1>2
<1>6. 1 \in 1 .. n /\ 2 \in 1 .. n
  BY <1>2
<1>7. AreLists(dkeys, n)
  BY <1>4, <1>5 DEF AreLists
<1>8. EndsOnly(ks, dkeys, n)
  <2> SUFFICES ASSUME NEW f \in Edges, NEW x \in Objects \cup Edges, NEW m \in 1 .. n,
                      PrimaryKey(f) \in ks, dkeys[m] = DependencyKey(x)
               PROVE  x \in {Source[f], Target[f]}
    BY DEF EndsOnly
  <2>1. f = e
    BY <1>3, EdgeKeysApart DEF KeysOf
  <2>2. x \in {Source[e], Target[e]}
    BY <1>4, <1>5 DEF DependencyKey
  <2> QED
    BY <2>1, <2>2
<1>9. PICK store \in [AllKeys -> Entry] : store = cache
  BY DEF Inv, TypeOK
<1>10. ListsOK(store)
  BY <1>9 DEF Inv
<1> DEFINE fresh == {}
<1> HIDE DEF fresh
<1>11. /\ Tame(store, AddDependency(store, dkeys, ks), fresh)
       /\ \A k \in Storable \cup {EdgesKey} : AddDependency(store, dkeys, ks)[k] = store[k]
       /\ Reaches(store, AddDependency(store, dkeys, ks), dkeys, ks, n)
  BY <1>7, <1>8, <1>10, TameAdd
<1> DEFINE new == AddDependency(store, dkeys, ks)
<1>12. /\ Dependable(store, dkeys) <=> store[dkeys[1]] # Tombstone /\ store[dkeys[2]] # Tombstone
       /\ Dependable(store, dkeys) =>
            ks \subseteq Listed(new, dkeys[1]) /\ ks \subseteq Listed(new, dkeys[2])
  <2> HIDE DEF new
  <2>1. Reaches(store, new, dkeys, ks, n)
    BY <1>11 DEF new
  <2> QED
    BY <1>5, <1>6, <2>1 DEF Reaches
<1> QED
  BY <1>1, <1>3, <1>4, <1>9, <1>11, <1>12 DEF Gone, fresh

LEMMA LinkNameIs ==
  ASSUME Inv, NEW e \in Edges
  PROVE  LET new == AddDependency(cache, <<DependencyKey(e)>>, {FullKey(e)}) IN
         /\ Tame(cache, new, {}) /\ \A k \in Storable \cup {EdgesKey} : new[k] = cache[k]
         /\ Dependable(cache, <<DependencyKey(e)>>) <=> ~Gone(cache, e)
         /\ Dependable(cache, <<DependencyKey(e)>>) => FullKey(e) \in Listed(new, DependencyKey(e))
<1>1. PICK dkeys : dkeys = <<DependencyKey(e)>>
  OBVIOUS
<1>2. PICK n \in Nat : n = 1
  OBVIOUS
<1>3. PICK ks \in SUBSET Storable : ks = {FullKey(e)}
  BY KeysOfEdge
<1>4. DOMAIN dkeys = 1 .. n /\ dkeys[1] = DependencyKey(e)
  BY <1>1, <1>2
<1>5. \A m \in 1 .. n : m = 1
  BY <1>2
<1>6. 1 \in 1 .. n
  BY <1>2
<1>7. AreLists(dkeys, n)
  BY <1>4, <1>5 DEF AreLists
<1>8. EndsOnly(ks, dkeys, n)
  BY <1>3, EdgeKeysApart DEF EndsOnly
<1>9. PICK store \in [AllKeys -> Entry] : store = cache
  BY DEF Inv, TypeOK
<1>10. ListsOK(store)
  BY <1>9 DEF Inv
<1> DEFINE fresh == {}
<1> HIDE DEF fresh
<1>11. /\ Tame(store, AddDependency(store, dkeys, ks), fresh)
       /\ \A k \in Storable \cup {EdgesKey} : AddDependency(store, dkeys, ks)[k] = store[k]
       /\ Reaches(store, AddDependency(store, dkeys, ks), dkeys, ks, n)
  BY <1>7, <1>8, <1>10, TameAdd
<1> DEFINE new == AddDependency(store, dkeys, ks)
<1>12. /\ Dependable(store, dkeys) <=> store[dkeys[1]] # Tombstone
       /\ Dependable(store, dkeys) => ks \subseteq Listed(new, dkeys[1])
  <2> HIDE DEF new
  <2>1. Reaches(store, new, dkeys, ks, n)
    BY <1>11 DEF new
  <2> QED
    BY <1>5, <1>6, <2>1 DEF Reaches
<1> QED
  BY <1>1, <1>3, <1>4, <1>9, <1>11, <1>12 DEF Gone, fresh

(* A save has no more to do with collections. *)
LEMMA SaveFollows ==
  ASSUME Inv, Kept, NEW p \in Procs, Running(p), op[p].kind \in Saves, op[p].pc # "answered",
         op[p].pc # "clearing",
         NEW n \in Op \cup {Idle}, Moves(p, n, {}), n # Idle => n.kind = op[p].kind /\ n.pc # "answered",
         db' = db, Calls' = Calls, Quiet(cache, cache', Storable),
         Leaves(p, n),
         \A f \in Edges : Doomed(op[p], cache, f) =>
           Doomed(n, cache', f) \/ \A k \in KeysOf(f) : cache'[k].tag # "item"
  PROVE  Follows
<1>1. Quiet(cache, cache', EdgeKeys) /\ Quiet(cache, cache', Collections)
  BY DEF Quiet, Storable, Gatherings
<1>2. Fills(n) /\ \A k \in EdgeKeys : cache'[k].tag = "item" => cache'[k] = cache[k]
  BY <1>1 DEF Fills, Quiet
<1>3. op[p].kind # "deleteEdge" /\ ~Awaiting(op[p])
  BY DEF Awaiting, Saves
<1>4. n # Idle => SaveOK(n, cache', db')
  BY DEF SaveOK
<1>5. ~Gathering(n)
  BY DEF Gathering, Saves, Listing
<1>6. Kept' /\ (EdgesKnown => EdgesKnown') /\ (Complete => Complete')
  BY <1>1, <1>2, <1>3, <1>4, <1>5, SaveGo
<1> QED
  BY <1>6 DEF Follows

LEMMA AfterSaveMoves ==
  ASSUME Inv, NEW p \in Procs, Running(p), AfterSave(p), Tame(cache, cache', {})
  PROVE  \E n \in Op \cup {Idle} : /\ Moves(p, n, {})
                                   /\ n # Idle => n.kind = op[p].kind /\ n.pc = "closing"
<1>1. CASE End(p)
  <2>1. Moves(p, Idle, {}) /\ Idle \in Op \cup {Idle}
    BY <1>1, EndMoves
  <2> QED
    BY <2>1
<1>2. CASE Go(p, "closing")
  <2>1. PICK n \in Op : /\ Moves(p, n, {}) /\ n # Idle
                        /\ n.kind = op[p].kind /\ n.on = op[p].on /\ n.pc = "closing" /\ n.s = op[p].s
                        /\ n.val = op[p].val /\ n.known = op[p].known
    BY <1>2, GoMoves DEF Steps
  <2> QED
    BY <2>1
<1> QED
  BY <1>1, <1>2 DEF AfterSave

LEMMA LinkEdgeFollows ==
  ASSUME Inv, Kept, NEW p \in Procs, LinkEdge(p), Calls' = Calls
  PROVE  Follows
<1> DEFINE o == op[p]
           e == o.on
           ends == Dependable(cache, EndPoints(e))
<1>1. Running(p) /\ o \in Op /\ Shaped(o) /\ o.pc = "linking" /\ o.kind \in Saves /\ e \in Edges
  <2>1. Running(p) /\ o \in Op /\ Shaped(o) /\ o.pc = "linking" /\ o.kind \in Saves
    BY InvRunning DEF LinkEdge, Steps, Saves
  <2> QED
    BY <2>1 DEF Shaped, Saves
<1>2. cache' = AddDependency(cache, EndPoints(e), KeysOf(e)) /\ db' = db
  BY DEF LinkEdge, KeysOf
<1>3. /\ Tame(cache, cache', {}) /\ \A k \in Storable \cup {EdgesKey} : cache'[k] = cache[k]
      /\ ends <=> ~Gone(cache, Source[e]) /\ ~Gone(cache, Target[e])
      /\ ends => \A x \in {Source[e], Target[e]} : KeysOf(e) \subseteq Listed(cache', DependencyKey(x))
  BY <1>1, <1>2, LinkIs
<1>4. PICK pc \in {"selfLinking", "undoing"} :
        /\ pc = IF ends THEN "selfLinking" ELSE "undoing"
        /\ Go(p, pc)
  BY DEF LinkEdge
<1>5. PICK n \in Op : /\ Moves(p, n, {}) /\ n # Idle
                      /\ n.kind = o.kind /\ n.on = o.on /\ n.pc = pc /\ n.s = o.s
                      /\ n.val = o.val /\ n.known = o.known
  BY <1>1, <1>3, <1>4, GoMoves DEF Steps
<1>6. Quiet(cache, cache', Storable)
  BY <1>3 DEF Quiet
<1> HIDE DEF ends
<1>7. \A f, x : Pending(o, f, x) =>
        /\ f = e
        /\ \/ ends /\ (x = e => Pending(n, f, x))
           \/ ~ends /\ Pending(n, f, x) /\ Saving(n, f, {"undoing"})
  BY <1>1, <1>4, <1>5 DEF Pending, Saving
<1>8. Leaves(p, n)
  <2> SUFFICES ASSUME NEW f \in Edges, NEW x \in Ties(f), NEW k \in KeysOf(f), Pending(o, f, x)
               PROVE  Pending(n, f, x) \/ k \in Listed(cache', DependencyKey(x))
    BY DEF Leaves
  <2>1. CASE ends
    BY <1>3, <1>7, <2>1 DEF Ties
  <2>2. CASE ~ends
    BY <1>7, <2>2
  <2> QED
    BY <2>1, <2>2
<1>9. ASSUME NEW f \in Edges, Doomed(o, cache, f) PROVE Doomed(n, cache', f)
  <2>1. PICK x \in Ties(f) : Gone(cache, x) /\ Pending(o, f, x)
    BY <1>1, <1>9 DEF Doomed, Saving
  <2>2. CASE ends
    <3>1. f = e /\ x = e
      BY <1>3, <1>7, <2>1, <2>2 DEF Ties
    <3>2. Gone(cache', x)
      BY <1>1, <1>3, <2>1, <3>1 DEF Tame
    <3> QED
      BY <1>7, <2>1, <2>2, <3>1, <3>2 DEF Doomed
  <2>3. CASE ~ends
    BY <1>7, <2>1, <2>3 DEF Doomed
  <2> QED
    BY <2>2, <2>3
<1>10. n.pc # "answered" /\ o.pc # "answered" /\ o.pc # "clearing"
  BY <1>1, <1>4, <1>5
<1> HIDE DEF o
<1> QED
  BY <1>1, <1>2, <1>5, <1>6, <1>8, <1>9, <1>10, SaveFollows DEF o

LEMMA LinkNameFollows ==
  ASSUME Inv, Kept, NEW p \in Procs, LinkName(p), Calls' = Calls
  PROVE  Follows
<1> DEFINE o == op[p]
           e == o.on
           own == Dependable(cache, <<DependencyKey(e)>>)
<1>1. Running(p) /\ o \in Op /\ Shaped(o) /\ o.pc = "selfLinking" /\ o.kind \in Saves /\ e \in Edges
  <2>1. Running(p) /\ o \in Op /\ Shaped(o) /\ o.pc = "selfLinking"
    BY InvRunning DEF LinkName, Steps
  <2> QED
    BY <2>1 DEF Shaped, Saves
<1>2. cache' = AddDependency(cache, <<DependencyKey(e)>>, {FullKey(e)}) /\ db' = db
  BY DEF LinkName
<1>3. /\ Tame(cache, cache', {}) /\ \A k \in Storable \cup {EdgesKey} : cache'[k] = cache[k]
      /\ own <=> ~Gone(cache, e)
      /\ own => FullKey(e) \in Listed(cache', DependencyKey(e))
  BY <1>1, <1>2, LinkNameIs
<1>4. IF own THEN AfterSave(p) ELSE Go(p, "undoing")
  BY DEF LinkName
<1>5. Quiet(cache, cache', Storable)
  BY <1>3 DEF Quiet
<1> HIDE DEF own
<1>6. \A f, x : Pending(o, f, x) => f = e /\ x = e
  BY <1>1 DEF Pending, Saving
<1>7. \A f : ~Saving(o, f, {"undoing"})
  BY <1>1 DEF Saving
<1>8. o.pc # "answered" /\ o.pc # "clearing"
  BY <1>1
<1>9. CASE own
  <2>1. PICK n \in Op \cup {Idle} : /\ Moves(p, n, {})
                                    /\ n # Idle => n.kind = o.kind /\ n.pc = "closing"
    BY <1>1, <1>3, <1>4, <1>9, AfterSaveMoves
  <2>2. Leaves(p, n)
    BY <1>3, <1>6, <1>9 DEF Leaves, KeysOf
  <2>3. \A f \in Edges : ~Doomed(o, cache, f)
    BY <1>3, <1>6, <1>7, <1>9 DEF Doomed
  <2>4. n # Idle => n.kind = o.kind /\ n.pc # "answered"
    BY <2>1
  <2> HIDE DEF o
  <2> QED
    BY <1>1, <1>2, <1>5, <1>8, <2>1, <2>2, <2>3, <2>4, SaveFollows DEF o
<1>10. CASE ~own
  <2>1. PICK n \in Op : /\ Moves(p, n, {}) /\ n # Idle
                        /\ n.kind = o.kind /\ n.on = o.on /\ n.pc = "undoing" /\ n.s = o.s
                        /\ n.val = o.val /\ n.known = o.known
    BY <1>1, <1>3, <1>4, <1>10, GoMoves DEF Steps
  <2>2. \A f, x : Pending(o, f, x) => Pending(n, f, x) /\ Saving(n, f, {"undoing"})
    BY <1>1, <2>1 DEF Pending, Saving
  <2>3. Leaves(p, n)
    BY <2>2 DEF Leaves
  <2>4. \A f \in Edges : Doomed(o, cache, f) => Doomed(n, cache', f)
    BY <1>7, <2>2 DEF Doomed
  <2>5. n # Idle => n.kind = o.kind /\ n.pc # "answered"
    BY <2>1
  <2> HIDE DEF o
  <2> QED
    BY <1>1, <1>2, <1>5, <1>8, <2>1, <2>3, <2>4, <2>5, SaveFollows DEF o
<1> QED
  BY <1>9, <1>10

LEMMA UndoSaveFollows ==
  ASSUME Inv, Kept, NEW p \in Procs, UndoSave(p), Calls' = Calls
  PROVE  Follows
<1> DEFINE o == op[p]
           ks == KeysOf(o.on)
           fresh == {}
<1>1. Running(p) /\ o \in Op /\ Shaped(o) /\ o.pc = "undoing" /\ o.kind \in Saves /\ o.on \in Edges
  <2>1. Running(p) /\ o \in Op /\ Shaped(o) /\ o.pc = "undoing"
    BY InvRunning DEF UndoSave, Steps
  <2> QED
    BY <2>1 DEF Shaped, Saves
<1>2. cache' = Put(cache, ks, Tombstone) /\ AfterSave(p) /\ db' = db
  BY DEF UndoSave, KeysOf
<1>3. Tombstone \in Entry /\ Tombstone.tag = "tombstone" /\ cache \in [AllKeys -> Entry]
  BY EntryOK DEF Inv, TypeOK
<1>4. (\A x \in Objects \cup Edges : DependencyKey(x) \notin ks) /\ EdgesKey \notin ks
  BY <1>1, KeysOfEdge, EdgeKeysApart DEF KeysOf
<1>5. \A k \in ks : cache'[k] = Tombstone
  BY <1>1, <1>2, <1>3, PutType, KeysOfEdge DEF KeysOf
<1> HIDE DEF ks, fresh
<1>6. Tame(cache, cache', fresh) /\ Quiet(cache, cache', Storable)
  BY <1>2, <1>3, <1>4, TamePut
<1>7. PICK n \in Op \cup {Idle} : /\ Moves(p, n, {})
                                  /\ n # Idle => n.kind = o.kind /\ n.pc = "closing"
  BY <1>1, <1>2, <1>6, AfterSaveMoves DEF fresh
<1>8. \A f, x : Pending(o, f, x) => f = o.on
  BY DEF Pending, Saving
<1>9. Leaves(p, n)
  BY <1>3, <1>5, <1>8 DEF Leaves, ks
<1>10. \A f \in Edges : Doomed(o, cache, f) => \A k \in KeysOf(f) : cache'[k].tag # "item"
  <2>1. \A f \in Edges : Doomed(o, cache, f) => f = o.on
    BY <1>8 DEF Doomed, Saving
  <2> QED
    BY <1>3, <1>5, <2>1 DEF ks
<1>11. /\ n # Idle => n.kind = o.kind /\ n.pc # "answered"
       /\ o.pc # "answered" /\ o.pc # "clearing"
  BY <1>1, <1>7
<1> HIDE DEF o
<1> QED
  BY <1>1, <1>2, <1>6, <1>7, <1>9, <1>10, <1>11, SaveFollows DEF o

(* A save that may not store clears the keys, or marks the lock there. *)
Marked(store, ks, new) ==
  \E e \in Entry : /\ e.tag \in {"empty", "lock"}
                   /\ e.tag = "lock" => e.bumped /\ e.s.kind = "write"
                   /\ new = Put(store, ks, e)

(* What a save leaves, whoever makes it. *)
LEMMA AnySets ==
  ASSUME NEW store \in [AllKeys -> Entry], NEW lkey \in AllKeys, NEW ks,
         NEW v \in SUBSET Edges, NEW s, NEW new, new = SetValue(store, lkey, ks, v, s)
  PROVE  \/ /\ CanSetValue(store[lkey], v, s) = "set" /\ store[lkey] = LockEntry(s)
            /\ new = Put(store, ks, ItemEntry(v))
         \/ new = store
         \/ Marked(store, ks, new)
BY SetIs DEF Marked

(* What StoreEdge leaves in the store. *)
LEMMA EdgeStored ==
  ASSUME Inv, NEW p \in Procs, Running(p), op[p].kind \in Saves,
         op[p].val \in {{}, {op[p].on}}, StoreEdge(p)
  PROVE  /\ Tame(cache, cache', {}) /\ Quiet(cache, cache', Collections)
         /\ \A k \in EdgeKeys : cache'[k].tag = "item" =>
              \/ cache'[k] = cache[k]
              \/ /\ k \in KeysOf(op[p].on) /\ cache'[k] = ItemEntry({op[p].on})
                 /\ op[p].val = {op[p].on} /\ op[p].s # NoLock
                 /\ cache[LockKey(op[p])] = LockEntry(op[p].s)
                 /\ CanSetValue(cache[LockKey(op[p])], {op[p].on}, op[p].s) = "set"
<1> DEFINE o == op[p]
           ks == KeysOf(o.on)
           fresh == {}
           Stores == /\ o.val = {o.on} /\ o.s # NoLock
                     /\ cache[LockKey(o)] = LockEntry(o.s)
                     /\ CanSetValue(cache[LockKey(o)], {o.on}, o.s) = "set"
<1>1. o \in Op /\ Shaped(o)
  BY DEF Inv, TypeOK, Running
<1>2. o.on \in Edges /\ LockKey(o) \in AllKeys
  BY <1>1, LockKeyOf, StorableKeys, KeysOfEdge DEF AllKeys
<1>3. PICK v \in SUBSET Edges : v = {o.on}
  BY <1>2
<1>4. ItemEntry(v) \in Entry /\ ItemEntry(v).tag = "item"
  BY <1>3, EntryOK
<1>5. /\ \A x \in Objects \cup Edges : DependencyKey(x) \notin ks
      /\ EdgesKey \notin ks /\ ks \in SUBSET EdgeKeys
  BY <1>2, KeysOfEdge, EdgeKeysApart DEF KeysOf
<1>6. cache \in [AllKeys -> Entry]
  BY DEF Inv, TypeOK
<1>7. Collections \in SUBSET Storable /\ Collections \cap ks = {}
  BY <1>5, KeysApart DEF Storable, Gatherings
<1>8. \/ cache' = cache
      \/ o.val = v /\ o.s # NoLock /\ cache' = SetValue(cache, LockKey(o), ks, v, o.s)
  BY <1>3 DEF StoreEdge, KeysOf
<1> HIDE DEF ks, fresh
<1>9. \/ cache' = cache
      \/ Stores /\ cache' = Put(cache, ks, ItemEntry(v))
      \/ \E e \in Entry : /\ e.tag \in {"empty", "lock"}
                          /\ e.tag = "lock" => e.bumped /\ e.s.kind = "write"
                          /\ cache' = Put(cache, ks, e)
  <2> DEFINE new == SetValue(cache, LockKey(o), ks, v, o.s)
  <2>1. \/ /\ CanSetValue(cache[LockKey(o)], v, o.s) = "set" /\ cache[LockKey(o)] = LockEntry(o.s)
           /\ new = Put(cache, ks, ItemEntry(v))
        \/ new = cache
        \/ \E e \in Entry : /\ e.tag \in {"empty", "lock"}
                            /\ e.tag = "lock" => e.bumped /\ e.s.kind = "write"
                            /\ new = Put(cache, ks, e)
    <3>1. v \in SUBSET Edges /\ new = SetValue(cache, LockKey(o), ks, v, o.s)
      BY <1>3
    <3> HIDE DEF o, new, Stores
    <3>2. \/ /\ CanSetValue(cache[LockKey(o)], v, o.s) = "set" /\ cache[LockKey(o)] = LockEntry(o.s)
             /\ new = Put(cache, ks, ItemEntry(v))
          \/ new = cache
          \/ Marked(cache, ks, new)
      BY <1>2, <1>6, <3>1, AnySets
    <3> QED
      BY <3>2 DEF Marked
  <2> HIDE DEF new
  <2>2. CASE cache' = cache
    BY <2>2
  <2>3. CASE o.val = v /\ o.s # NoLock /\ cache' = new
    <3>1. CASE /\ CanSetValue(cache[LockKey(o)], v, o.s) = "set" /\ cache[LockKey(o)] = LockEntry(o.s)
               /\ new = Put(cache, ks, ItemEntry(v))
      BY <1>3, <2>3, <3>1
    <3>2. CASE new = cache
      BY <2>3, <3>2
    <3>3. CASE \E e \in Entry : /\ e.tag \in {"empty", "lock"}
                                /\ e.tag = "lock" => e.bumped /\ e.s.kind = "write"
                                /\ new = Put(cache, ks, e)
      BY <2>3, <3>3
    <3> QED
      BY <2>1, <3>1, <3>2, <3>3
  <2> QED
    BY <1>8, <2>2, <2>3 DEF new
<1>10. CASE cache' = cache
  BY <1>10, TameSame
<1>11. CASE Stores /\ cache' = Put(cache, ks, ItemEntry(v))
  <2>1. Tame(cache, cache', fresh) /\ Quiet(cache, cache', Collections)
    BY <1>4, <1>5, <1>6, <1>7, <1>11, TamePut
  <2>2. ASSUME NEW k \in EdgeKeys, cache'[k] # cache[k] PROVE k \in ks /\ cache'[k] = ItemEntry({o.on})
    <3>1. k \in AllKeys
      BY StorableKeys DEF Storable
    <3>2. cache'[k] = IF k \in ks THEN ItemEntry(v) ELSE cache[k]
      BY <1>4, <1>6, <1>11, <3>1, PutType
    <3> QED
      BY <1>3, <2>2, <3>2
  <2> QED
    BY <1>11, <2>1, <2>2 DEF ks, fresh
<1>12. CASE \E e \in Entry : /\ e.tag \in {"empty", "lock"}
                             /\ e.tag = "lock" => e.bumped /\ e.s.kind = "write"
                             /\ cache' = Put(cache, ks, e)
  <2>1. PICK e \in Entry : /\ e.tag \in {"empty", "lock"}
                           /\ e.tag = "lock" => e.bumped /\ e.s.kind = "write"
                           /\ cache' = Put(cache, ks, e)
    BY <1>12
  <2>2. /\ e.tag = "lock" => (e.bumped /\ e.s.kind = "write") \/ e.s \in fresh
        /\ e.tag # "item"
    BY <2>1
  <2>3. Tame(cache, Put(cache, ks, e), fresh) /\ Quiet(cache, Put(cache, ks, e), Storable)
    BY <1>5, <1>6, <2>2, TamePut
  <2>4. Tame(cache, cache', fresh) /\ Quiet(cache, cache', Storable)
    BY <2>1, <2>3
  <2>5. /\ \A k \in Collections : cache'[k].tag = "item" => cache'[k] = cache[k]
        /\ \A k \in EdgeKeys : cache'[k].tag = "item" => cache'[k] = cache[k]
    BY <2>4 DEF Quiet, Storable, Gatherings
  <2> QED
    BY <2>4, <2>5 DEF fresh, Quiet
<1> QED
  BY <1>9, <1>10, <1>11, <1>12

LEMMA StoreEdgeFollows ==
  ASSUME Inv, Kept, NEW p \in Procs, StoreEdge(p), Calls' = Calls
  PROVE  /\ Kept' /\ (EdgesKnown => EdgesKnown')
         /\ (op[p].kind = "createEdge" => op[p].s # NoLock) => (Complete => Complete')
<1> DEFINE o == op[p]
           stored == CanSetValue(cache[LockKey(o)], {o.on}, o.s) = "set"
<1>1. Running(p) /\ o \in Op /\ Shaped(o) /\ o.pc = "answered" /\ o.kind \in Saves
  BY InvRunning DEF StoreEdge, Steps, Saves
<1>2. o.on \in Edges
  BY <1>1 DEF Shaped, Saves
<1>3. /\ o.val \in {{}, {o.on}}
      /\ o.val # {} /\ cache[LockKey(o)] = LockEntry(o.s) =>
           o.on \in db \/ \E x \in Ties(o.on) : Gone(cache, x)
  BY <1>1 DEF Kept, Edged, SaveOK
<1>4. /\ Tame(cache, cache', {}) /\ Quiet(cache, cache', Collections)
      /\ \A k \in EdgeKeys : cache'[k].tag = "item" =>
           \/ cache'[k] = cache[k]
           \/ /\ k \in KeysOf(o.on) /\ cache'[k] = ItemEntry({o.on})
              /\ o.val = {o.on} /\ o.s # NoLock /\ cache[LockKey(o)] = LockEntry(o.s) /\ stored
  BY <1>1, <1>3, EdgeStored
<1>5. db' = db
  BY DEF StoreEdge
<1>6. stored \in BOOLEAN
  OBVIOUS
<1> HIDE DEF stored
<1>7. \E n \in Op \cup {Idle} :
        /\ Moves(p, n, {})
        /\ n # Idle => n.kind = o.kind /\ n.pc # "answered"
        /\ o.val = {o.on} /\ o.s # NoLock /\ stored => \A x : Pending(n, o.on, x)
        /\ o.kind = "createEdge" /\ o.s # NoLock => Awaiting(n) /\ n.on = o.on
  <2>1. CASE o.kind = "createEdge" /\ o.s = NoLock
    <3>1. Go(p, "closing")
      BY <2>1 DEF StoreEdge
    <3>2. PICK n \in Op : /\ Moves(p, n, {}) /\ n # Idle
                          /\ n.kind = o.kind /\ n.on = o.on /\ n.pc = "closing" /\ n.s = o.s
                          /\ n.val = o.val /\ n.known = o.known
      BY <1>1, <1>4, <3>1, GoMoves DEF Steps
    <3> QED
      BY <2>1, <3>2
  <2>2. CASE o.kind = "createEdge" /\ o.s # NoLock
    <3> DEFINE n == [o EXCEPT !.pc = "clearing", !.known = stored]
    <3>1. op' = [op EXCEPT ![p] = n]
      BY <2>2 DEF StoreEdge, stored
    <3>2. /\ n \in Op /\ n # Idle /\ n.kind = o.kind /\ n.on = o.on /\ n.pc = "clearing"
          /\ n.known = stored
      BY <1>1, <1>6 DEF Op, Idle
    <3> HIDE DEF n
    <3>3. Moves(p, n, {})
      BY <1>4, <3>1 DEF Moves
    <3>4. Awaiting(n)
      BY <2>2, <3>2 DEF Awaiting
    <3>5. stored => \A x : Pending(n, o.on, x)
      BY <1>1, <3>2 DEF Pending, Saving
    <3> QED
      BY <3>2, <3>3, <3>4, <3>5
  <2>3. CASE o.kind # "createEdge" /\ o.val # {} /\ stored
    <3>1. Go(p, "linking")
      BY <2>3 DEF StoreEdge, stored
    <3>2. PICK n \in Op : /\ Moves(p, n, {}) /\ n # Idle
                          /\ n.kind = o.kind /\ n.on = o.on /\ n.pc = "linking" /\ n.s = o.s
                          /\ n.val = o.val /\ n.known = o.known
      BY <1>1, <1>4, <3>1, GoMoves DEF Steps
    <3>3. \A x : Pending(n, o.on, x)
      BY <1>1, <2>3, <3>2 DEF Pending, Saving
    <3> QED
      BY <2>3, <3>2, <3>3
  <2>4. CASE o.kind # "createEdge" /\ ~(o.val # {} /\ stored)
    <3>1. End(p)
      BY <2>4 DEF StoreEdge, stored
    <3>2. Moves(p, Idle, {}) /\ Idle \in Op \cup {Idle}
      BY <1>4, <3>1, EndMoves
    <3> QED
      BY <2>4, <3>2
  <2> QED
    BY <2>1, <2>2, <2>3, <2>4
<1>8. PICK n \in Op \cup {Idle} :
        /\ Moves(p, n, {})
        /\ n # Idle => n.kind = o.kind /\ n.pc # "answered"
        /\ o.val = {o.on} /\ o.s # NoLock /\ stored => \A x : Pending(n, o.on, x)
        /\ o.kind = "createEdge" /\ o.s # NoLock => Awaiting(n) /\ n.on = o.on
  BY <1>7
<1>9. Fills(n)
  BY <1>2, <1>4, <1>8 DEF Fills
<1>10. /\ \A e, x : ~Pending(o, e, x)
       /\ \A store, e : ~Doomed(o, store, e)
  BY <1>1 DEF Pending, Saving, Doomed
<1>11. Leaves(p, n)
  BY <1>10 DEF Leaves
<1>12. n # Idle => SaveOK(n, cache', db')
  BY <1>8 DEF SaveOK
<1>13. ASSUME NEW k \in EdgeKeys, cache'[k].tag = "item", cache'[k] # cache[k]
       PROVE  /\ k \in KeysOf(o.on) /\ cache'[k] = ItemEntry({o.on})
              /\ o.on \in db' \/ Doomed(n, cache', o.on)
  <2>1. /\ k \in KeysOf(o.on) /\ cache'[k] = ItemEntry({o.on})
        /\ o.val = {o.on} /\ o.s # NoLock /\ cache[LockKey(o)] = LockEntry(o.s) /\ stored
    BY <1>4, <1>13
  <2>2. ASSUME NEW x \in Ties(o.on), Gone(cache, x) PROVE Doomed(n, cache', o.on)
    <3>1. x \in Objects \cup Edges
      BY <1>2, <2>2 DEF Ties
    <3>2. Gone(cache', x)
      BY <1>4, <2>2, <3>1 DEF Tame
    <3> QED
      BY <1>8, <2>1, <2>2, <3>2 DEF Doomed
  <2> QED
    BY <1>3, <1>5, <2>1, <2>2
<1>14. ~Gathering(n) /\ o.kind # "deleteEdge"
  BY <1>1, <1>8 DEF Gathering, Saves, Listing
<1>15. /\ EdgesKnown => \A k \in EdgeKeys : cache'[k].tag = "item" =>
           \/ cache'[k] = cache[k]
           \/ \E e \in Edges : /\ k \in KeysOf(e) /\ cache'[k] = ItemEntry({e})
                               /\ e \in db' \/ Doomed(n, cache', e)
  BY <1>2, <1>13
<1>16. Awaiting(o) => o.kind = "createEdge"
  BY DEF Awaiting
<1> HIDE DEF o
<1>17. /\ Kept' /\ (EdgesKnown => EdgesKnown')
       /\ (Awaiting(o) => Awaiting(n) /\ n.on = o.on) => (Complete => Complete')
  BY <1>1, <1>4, <1>5, <1>8, <1>9, <1>10, <1>11, <1>12, <1>14, <1>15, SaveGo DEF o
<1> QED
  BY <1>8, <1>16, <1>17 DEF o

(* While a DeleteEdge is under way the edge is locked under its primary    *)
(* key and under that of all edges, or its place in the cache is gone, or  *)
(* that of an end in the lists is.                                         *)
DeleteHeld(o, store) ==
  o.kind = "deleteEdge" /\ o.pc \in {"tombstoning", "locked"} =>
    /\ o.s # NoLock /\ store[EdgesKey] = LockEntry(o.s)
    /\ \/ store[PrimaryKey(o.on)] \in {LockEntry(o.s), Tombstone}
       \/ Gone(store, Source[o.on]) \/ Gone(store, Target[o.on])
DeletesOK == \A p \in Procs : Running(p) => DeleteHeld(op[p], cache)

(* A create that bypasses the cache clears no collection.                  *)
NoBypass == \A mix \in Mixes : "createEdgeBypass" \in mix => mix \cap Listing = {}

LEMMA DeletedGone ==
  ASSUME Inv, NEW p \in Procs, Running(p), op[p].pc = "locked", op[p].kind \in Deletes,
         NEW e \in db \ Applied(op[p])
  PROVE  /\ e \in Edges /\ op[p].on \in Ties(e) /\ Gone(cache, op[p].on)
         /\ op[p].kind = "deleteEdge" => op[p].on = e
         /\ op[p].kind # "deleteEdge" => op[p].on \in Objects
<1>1. Shaped(op[p]) /\ DeleterOK(op[p], cache) /\ e \in Edges
  BY DEF Inv, TypeOK
<1>2. Gone(cache, op[p].on)
  BY <1>1 DEF DeleterOK, Gone
<1>3. CASE op[p].kind = "deleteEdge"
  <2>1. Applied(op[p]) = db \ {op[p].on}
    BY <1>3 DEF Applied
  <2> QED
    BY <1>1, <1>2, <1>3, <2>1 DEF Ties
<1>4. CASE op[p].kind \in {"deleteObject", "deleteEdgesByObject"}
  <2>1. Applied(op[p]) = db \ EdgesOf(op[p].on)
    BY <1>4 DEF Applied
  <2>2. op[p].on \in Objects /\ op[p].on \in {Source[e], Target[e]}
    BY <1>1, <1>4, <2>1 DEF Shaped, EdgesOf
  <2> QED
    BY <1>1, <1>2, <1>4, <2>2 DEF Ties
<1> QED
  BY <1>3, <1>4 DEF Deletes

LEMMA DeletedFollows ==
  ASSUME Inv, Kept, NEW p \in Procs, Running(p), op[p].pc = "locked", op[p].kind \in Deletes,
         NEW n \in Op, n # Idle, op' = [op EXCEPT ![p] = n],
         n.kind = op[p].kind, n.on = op[p].on, n.s = op[p].s, n.pc = "closing",
         cache' = cache, Calls' = Calls, db' = Applied(op[p])
  PROVE  /\ Kept' /\ (Complete => Complete')
         /\ EdgesKnown /\ DeletesOK /\ Objects \cap Edges = {} => EdgesKnown'
<1> DEFINE fresh == {}
<1>1. Moves(p, n, fresh) /\ \A s \in fresh : s.kind # "delete"
  BY TameSame DEF Moves
<1> HIDE DEF fresh
<1>2. op'[p] = n /\ \A q \in Procs : q # p => op'[q] = op[q]
  BY <1>1, OthersSame
<1>3. Plain(op[p]) /\ Plain(n) /\ n.kind \notin Saves
  BY DEF Plain, Deletes, Saves
<1>4. /\ \A e, x : ~Pending(op[p], e, x)
      /\ \A store, e : ~Doomed(op[p], store, e)
      /\ SaveOK(n, cache', db')
      /\ ~Awaiting(op[p]) /\ ~Gathering(n)
  BY <1>3, PlainIs
<1>5. Edged'
  <2>1. Fills(n) /\ Leaves(p, n)
    BY <1>4 DEF Fills, Leaves
  <2>2. \A e \in db \ db' : \E x \in Ties(e) : Gone(cache', x)
    BY DeletedGone
  <2> QED
    BY <1>1, <1>4, <2>1, <2>2, EdgesGo DEF Kept
<1>6. DeleteLocks'
  <2>1. \A e \in Edges : DeleteHolder(op[p], e, op[p].s) => DeleteHolder(n, e, op[p].s)
    BY DEF DeleteHolder
  <2> QED
    BY <1>1, <2>1, LocksGo DEF Kept
<1>7. ASSUME Complete PROVE Complete'
  <2>1. \A e : Awaited(e) => Awaited(e)'
    BY <1>1, <1>4, AwaitedStays
  <2>2. n.kind \in Calls
    BY <1>7 DEF Complete, CalledOK, Running
  <2>3. db' \subseteq db
    BY DEF Applied, Deletes
  <2>4. \A k \in Collections : cache'[k].tag = "item" => cache'[k] = cache[k]
    OBVIOUS
  <2>5. \A k \in Collections : cache'[k].tag \in {"item", "lock"} =>
          \A e \in Members(k) : /\ e \in db' => e \in db \/ Awaited(e)'
                                /\ Awaited(e) => Awaited(e)'
    BY <2>1, <2>3
  <2> QED
    BY <1>1, <1>4, <1>7, <2>2, <2>4, <2>5, CompleteGo
<1>8. ASSUME EdgesKnown, DeletesOK, Objects \cap Edges = {} PROVE EdgesKnown'
  <2> SUFFICES ASSUME NEW e \in Edges, NEW k \in KeysOf(e), cache[k] = ItemEntry({e}), e \notin db'
               PROVE  \E q \in Procs, f \in Edges : k \in KeysOf(f) /\ Doomed(op'[q], cache', f)
    BY DEF EdgesKnown
  <2>1. SUFFICES \E q \in Procs, f \in Edges : k \in KeysOf(f) /\ Doomed(op[q], cache, f)
    <3>1. PICK q \in Procs, f \in Edges : k \in KeysOf(f) /\ Doomed(op[q], cache, f)
      BY <2>1
    <3>2. q # p
      BY <1>4, <3>1
    <3> QED
      BY <1>2, <3>1, <3>2
  <2>2. CASE e \notin db
    BY <1>8, <2>2 DEF EdgesKnown
  <2>3. CASE e \in db
    <3> DEFINE x == op[p].on
    <3>1. /\ x \in Ties(e) /\ Gone(cache, x)
          /\ op[p].kind = "deleteEdge" => x = e
          /\ op[p].kind # "deleteEdge" => x \in Objects
      BY <2>3, DeletedGone
    <3>2. \A y \in Ties(e) : Gone(cache, y) => k \notin Listed(cache, DependencyKey(y))
      BY EntryOK DEF Gone, Listed
    <3>3. ASSUME NEW y \in Ties(e), Gone(cache, y), ~(y = e /\ k = PrimaryKey(e))
          PROVE  \E q \in Procs : Doomed(op[q], cache, e)
      <4>1. PICK q \in Procs : Pending(op[q], e, y)
        BY <3>2, <3>3 DEF Kept, Edged, EdgesTied
      <4> QED
        BY <3>3, <4>1 DEF Doomed
    <3>4. CASE ~(x = e /\ k = PrimaryKey(e))
      BY <3>1, <3>3, <3>4
    <3>5. CASE x = e /\ k = PrimaryKey(e)
      <4>1. op[p].kind = "deleteEdge"
        BY <1>8, <3>1, <3>5
      <4>2. cache[k].tag = "item"
        BY DEF ItemEntry
      <4>3. Gone(cache, Source[e]) \/ Gone(cache, Target[e])
        <5>1. DeleteHeld(op[p], cache) /\ op[p].on = e
          BY <1>8, <3>5 DEF DeletesOK
        <5>2. cache[k] \notin {LockEntry(op[p].s), Tombstone}
          BY <4>2 DEF LockEntry, Tombstone
        <5> QED
          BY <3>5, <4>1, <5>1, <5>2 DEF DeleteHeld
      <4>4. Source[e] # e /\ Target[e] # e
        BY <1>8
      <4>5. Source[e] \in Ties(e) /\ Target[e] \in Ties(e)
        BY DEF Ties
      <4> QED
        BY <3>3, <4>3, <4>4, <4>5
    <3> QED
      BY <3>4, <3>5
  <2> QED
    BY <2>2, <2>3
<1> QED
  BY <1>5, <1>6, <1>7, <1>8 DEF Kept

LEMMA FailMutationFollows ==
  ASSUME Inv, Kept, NEW p \in Procs, FailMutation(p), Calls' = Calls
  PROVE  /\ Kept' /\ (Complete => Complete')
         /\ EdgesKnown /\ DeletesOK /\ Objects \cap Edges = {} => EdgesKnown'
<1> DEFINE o == op[p]
           pc == "closing"
<1>1. Running(p) /\ o \in Op /\ Shaped(o) /\ o.pc = "locked" /\ o.kind \in Mutations
  BY InvRunning DEF FailMutation, Steps
<1>2. cache' = cache /\ Go(p, pc)
  BY DEF FailMutation
<1>3. Tame(cache, cache', {}) /\ \A ks : Quiet(cache, cache', ks)
  BY <1>2, TameSame
<1>4. CASE db' = db
  <2>1. Plain(o)
    BY <1>1 DEF Plain
  <2>2. Follows
    BY <1>1, <1>2, <1>3, <1>4, <2>1, GoPlain DEF Steps
  <2> QED
    BY <2>2 DEF Follows
<1>5. CASE SentinelOf(o.kind) = "delete" /\ db' = Applied(o)
  <2>1. PICK n \in Op : /\ Moves(p, n, {}) /\ n # Idle
                        /\ n.kind = o.kind /\ n.on = o.on /\ n.pc = pc /\ n.s = o.s
                        /\ n.val = o.val /\ n.known = o.known
    BY <1>1, <1>2, <1>3, GoMoves DEF Steps
  <2>2. o.kind \in Deletes
    BY <1>1, <1>5 DEF SentinelOf, Mutations, Deletes
  <2>3. op' = [op EXCEPT ![p] = n]
    BY <2>1 DEF Moves
  <2> QED
    BY <1>1, <1>2, <1>5, <2>1, <2>2, <2>3, DeletedFollows
<1> QED
  BY <1>4, <1>5 DEF FailMutation

LEMMA ServeMutationFollows ==
  ASSUME Inv, Kept, NEW p \in Procs, ServeMutation(p), Calls' = Calls
  PROVE  /\ Kept' /\ (Complete /\ NoBypass => Complete')
         /\ EdgesKnown /\ DeletesOK /\ Objects \cap Edges = {} => EdgesKnown'
<1> DEFINE o == op[p]
<1>1. Running(p) /\ o \in Op /\ Shaped(o) /\ o.pc = "locked" /\ o.kind \in Mutations
  BY InvRunning DEF ServeMutation, Steps
<1>2. cache' = cache /\ db' = Applied(o)
  BY DEF ServeMutation
<1>3. PICK pc \in {"answered", "closing"}, v \in SUBSET Edges :
        /\ op' = [op EXCEPT ![p].pc = pc, ![p].val = v]
        /\ pc = "answered" => o.kind \in {"createEdge", "updateObject"}
        /\ o.kind = "createEdge" => pc = "answered" /\ v = {o.on}
  <2> DEFINE pc == CASE o.kind = "createEdge" -> "answered"
                     [] o.kind = "updateObject" /\ o.s # NoLock -> "answered"
                     [] OTHER -> "closing"
             v == IF o.kind = "createEdge" THEN {o.on} ELSE {}
  <2>1. op' = [op EXCEPT ![p].pc = pc, ![p].val = v]
    BY DEF ServeMutation
  <2>2. o.kind = "createEdge" => o.on \in Edges
    BY <1>1 DEF Shaped
  <2>3. v \in SUBSET Edges /\ (o.kind = "createEdge" => v = {o.on})
    BY <2>2
  <2>4. /\ pc \in {"answered", "closing"}
        /\ pc = "answered" => o.kind \in {"createEdge", "updateObject"}
        /\ o.kind = "createEdge" => pc = "answered"
    OBVIOUS
  <2> HIDE DEF pc, v
  <2> QED
    BY <2>1, <2>3, <2>4
<1> DEFINE n == [o EXCEPT !.pc = pc, !.val = v]
<1>4. /\ n \in Op /\ n # Idle /\ op' = [op EXCEPT ![p] = n]
      /\ n.kind = o.kind /\ n.on = o.on /\ n.pc = pc /\ n.s = o.s /\ n.val = v
  BY <1>1, <1>3 DEF Op, Idle
<1>5. PICK m \in Op : m = n
  BY <1>4
<1>6. /\ m # Idle /\ op' = [op EXCEPT ![p] = m]
      /\ m.kind = o.kind /\ m.on = o.on /\ m.pc = pc /\ m.s = o.s /\ m.val = v
  BY <1>4, <1>5
<1> HIDE DEF n
<1> DEFINE fresh == {}
<1>7. Tame(cache, cache', fresh) /\ \A ks : Quiet(cache, cache', ks)
  BY <1>2, TameSame
<1>8. Moves(p, m, fresh) /\ \A s \in fresh : s.kind # "delete"
  BY <1>6, <1>7 DEF Moves
<1> HIDE DEF fresh
<1>9. CASE o.kind \in Deletes
  <2>1. m.pc = "closing"
    BY <1>3, <1>6, <1>9 DEF Deletes
  <2>2. Kept' /\ (Complete => Complete') /\ (EdgesKnown /\ DeletesOK /\ Objects \cap Edges = {} => EdgesKnown')
    BY <1>1, <1>2, <1>6, <1>9, <2>1, DeletedFollows
  <2> QED
    BY <2>2
<1>10. CASE o.kind = "updateObject"
  <2>1. db' = db
    BY <1>2, <1>10 DEF Applied
  <2>2. Plain(o) /\ Plain(m) /\ o # Idle /\ \A e, s : ~DeleteHolder(o, e, s)
    BY <1>1, <1>6, <1>10, NoHolder DEF Plain, Running
  <2>3. Follows
    BY <1>6, <1>7, <1>8, <2>1, <2>2, PlainGo
  <2> QED
    BY <2>3 DEF Follows
<1>11. CASE o.kind \in {"createEdge", "createEdgeBypass"}
  <2>1. db' = db \cup {o.on} /\ o.on \in Edges
    BY <1>1, <1>2, <1>11 DEF Applied, Shaped
  <2>2. Plain(o) /\ \A e, s : ~DeleteHolder(o, e, s)
    BY <1>1, <1>11, NoHolder DEF Plain
  <2>3. /\ \A e, x : ~Pending(o, e, x)
        /\ \A store, e : ~Doomed(o, store, e)
        /\ ~Awaiting(o)
    BY <2>2, PlainIs
  <2>4. SaveOK(m, cache', db') /\ ~Gathering(m)
    BY <1>3, <1>6, <1>11, <2>1 DEF SaveOK, Saves, Gathering, Listing
  <2>5. Fills(m) /\ Leaves(p, m)
    BY <1>2, <2>3 DEF Fills, Leaves
  <2>6. Edged'
    <3>1. \A e \in db \ db' : \E x \in Ties(e) : Gone(cache', x)
      BY <2>1
    <3> QED
      BY <1>8, <2>4, <2>5, <3>1, EdgesGo DEF Kept
  <2>7. DeleteLocks'
    BY <1>8, <2>2, LocksGo DEF Kept
  <2>8. EdgesKnown => EdgesKnown'
    <3>1. db \subseteq db' /\ \A k \in EdgeKeys : cache'[k].tag = "item" => cache'[k] = cache[k]
      BY <1>2, <2>1
    <3> QED
      BY <1>8, <2>3, <3>1, KnownGo
  <2>9. ASSUME Complete, NoBypass PROVE Complete'
    <3>1. o.kind \in Calls
      BY <1>1, <2>9 DEF Complete, CalledOK, Running
    <3>2. CASE o.kind = "createEdge"
      <4>1. Awaiting(m)
        BY <1>3, <1>6, <3>2 DEF Awaiting
      <4>2. \A e : (Awaited(e) => Awaited(e)') /\ (e = o.on => Awaited(e)')
        BY <1>6, <1>8, <2>3, <4>1, AwaitedStays
      <4>3. \A k \in Collections : cache'[k].tag = "item" => cache'[k] = cache[k]
        BY <1>2
      <4>4. \A k \in Collections : cache'[k].tag \in {"item", "lock"} =>
              \A e \in Members(k) : /\ e \in db' => e \in db \/ Awaited(e)'
                                    /\ Awaited(e) => Awaited(e)'
        BY <2>1, <4>2
      <4> QED
        BY <1>6, <1>8, <2>4, <2>9, <3>1, <4>3, <4>4, CompleteGo
    <3>3. CASE o.kind = "createEdgeBypass"
      <4>1. Calls \in Mixes
        BY DEF Inv, TypeOK
      <4>2. Calls \cap Listing = {}
        BY <2>9, <3>1, <3>3, <4>1 DEF NoBypass
      <4>3. op'[p] = m /\ \A q \in Procs : q # p => op'[q] = op[q]
        BY <1>8, OthersSame
      <4>4. CalledOK'
        BY <1>2, <1>6, <2>9, <3>1, <4>3 DEF Complete, CalledOK
      <4>5. ListedOK' /\ ListersOK'
        BY <4>2, <4>4 DEF CalledOK, ListedOK, ListersOK, Gathering
      <4> QED
        BY <4>4, <4>5 DEF Complete
    <3> QED
      BY <1>11, <3>2, <3>3
  <2> QED
    BY <2>6, <2>7, <2>8, <2>9 DEF Kept
<1> QED
  BY <1>1, <1>9, <1>10, <1>11 DEF Mutations, Deletes

(* A flush leaves lists alone, and nobody a lock. *)
LEMMA FlushFollows ==
  ASSUME Inv, Kept, FlushCache, Calls' = Calls
  PROVE  Follows
<1>1. cache' = Flush(cache, TRUE) /\ db' = db /\ op' = op
  BY DEF FlushCache
<1>2. cache \in [AllKeys -> Entry]
  BY DEF Inv, TypeOK
<1>3. \A k \in AllKeys :
        /\ cache'[k] \in {cache[k], EmptyEntry}
        /\ cache'[k].tag \in {"empty", "list"}
        /\ cache[k].tag = "list" => cache'[k] = cache[k]
  <2> DEFINE ks == {k \in DOMAIN cache : \/ cache[k].tag \in {"item", "lock"}
                                         \/ cache[k].tag = "tombstone"}
  <2>1. cache' = Put(cache, ks, EmptyEntry)
    BY <1>1 DEF Flush
  <2>2. \A k \in AllKeys : cache'[k] = IF k \in ks THEN EmptyEntry ELSE cache[k]
    BY <1>2, <2>1 DEF Put
  <2>3. \A k \in AllKeys : k \in ks <=> cache[k].tag \in {"item", "lock", "tombstone"}
    BY <1>2
  <2> HIDE DEF ks
  <2>4. \A k \in AllKeys : cache[k].tag \in {"empty", "item", "lock", "tombstone", "list"}
    BY <1>2, EntryShape
  <2> QED
    BY <2>2, <2>3, <2>4, EntryOK
<1>4. /\ \A k \in Storable \cup {EdgesKey} : k \in AllKeys
      /\ \A e \in Edges : PrimaryKey(e) \in AllKeys /\ FullKey(e) \in AllKeys
      /\ \A x \in Objects \cup Edges : DependencyKey(x) \in AllKeys
  BY StorableKeys, KeysOfEdge, DependencyKeys DEF AllKeys
<1>5. EdgesFit' /\ EdgesTied'
  BY <1>3, <1>4 DEF EdgesFit, EdgesTied, KeysOf, ItemEntry, Storable
<1>6. ASSUME NEW p \in Procs, Running(p)' PROVE SaveOK(op'[p], cache', db')
  <2>1. op'[p] = op[p] /\ Running(p) /\ SaveOK(op[p], cache, db)
    BY <1>1, <1>6 DEF Running, Kept, Edged
  <2>2. op[p] \in Op /\ Shaped(op[p])
    BY <2>1 DEF Inv, TypeOK, Running
  <2>3. ASSUME op[p].kind \in Saves PROVE cache'[LockKey(op[p])] # LockEntry(op[p].s)
    <3>1. LockKey(op[p]) \in AllKeys
      BY <1>4, <2>2, <2>3, LockKeyOf
    <3> QED
      BY <1>3, <3>1 DEF LockEntry
  <2>4. SaveOK(op[p], cache', db')
    BY <2>1, <2>3 DEF SaveOK
  <2> QED
    BY <2>1, <2>4
<1>7. \A e \in Edges, x \in Objects \cup Edges :
        PrimaryKey(e) \in Listed(cache', DependencyKey(x)) => x \in {Source[e], Target[e]}
  <2> SUFFICES ASSUME NEW e \in Edges, NEW x \in Objects \cup Edges,
                      PrimaryKey(e) \in Listed(cache', DependencyKey(x))
               PROVE  x \in {Source[e], Target[e]}
    OBVIOUS
  <2>1. PrimaryKey(e) \in Listed(cache, DependencyKey(x))
    BY <1>3, <1>4, EntryOK DEF Listed
  <2> QED
    BY <2>1 DEF Kept, Edged
<1>8. cache'[EdgesKey].tag \in {"empty", "lock"}
  BY <1>3, <1>4, EntryOK DEF Kept, Edged
<1>9. DeleteLocks'
  BY <1>3, <1>4 DEF DeleteLocks, IsLock
<1>10. EdgesKnown'
  BY <1>3, <1>4 DEF EdgesKnown, KeysOf, ItemEntry
<1>11. ASSUME Complete PROVE Complete'
  <2>1. \A k \in Collections : k \in AllKeys
    BY StorableKeys DEF Gatherings
  <2>2. ListedOK' /\ CalledOK'
    BY <1>1, <1>3, <1>11, <2>1 DEF Complete, ListedOK, CalledOK
  <2>3. ASSUME NEW p \in Procs, Gathering(op[p])
        PROVE  op[p].val \subseteq Members(op[p].on) /\ ~Holds(cache', op[p])
    <3>1. Shaped(op[p]) /\ op[p].kind \in Listing
      BY <2>3 DEF Inv, Running, Gathering
    <3>2. op[p].on \in AllKeys
      BY <2>1, <3>1 DEF Shaped
    <3> QED
      BY <1>3, <1>11, <2>3, <3>2 DEF Complete, ListersOK, Holds, IsLock
  <2>4. ListersOK'
    BY <1>1, <2>3 DEF ListersOK
  <2> QED
    BY <2>2, <2>4 DEF Complete
<1> QED
  BY <1>5, <1>6, <1>7, <1>8, <1>9, <1>10, <1>11 DEF Follows, Kept, Edged

(* A change of the store alone, that is tame. *)
LEMMA StillFollows ==
  ASSUME Inv, Kept, UNCHANGED <<op, db, Calls>>, NEW fresh, fresh = {}, Tame(cache, cache', fresh),
         Quiet(cache, cache', Storable),
         \A k \in Storable : IsLock(cache'[k]) => cache'[k] = cache[k]
  PROVE  Follows
<1>1. \A k \in EdgeKeys : k \in Storable
  BY DEF Storable
<1>2. \A e \in Edges : \A k \in KeysOf(e) : k \in EdgeKeys /\ k \in Storable
  BY <1>1, EdgeKeysApart
<1>3. EdgesFit'
  <2> SUFFICES ASSUME NEW k \in EdgeKeys, cache'[k].tag = "item"
               PROVE  \E e \in Edges : k \in KeysOf(e) /\ cache'[k] = ItemEntry({e})
    BY DEF EdgesFit
  <2>1. cache'[k] = cache[k]
    BY <1>1 DEF Quiet
  <2> QED
    BY <2>1 DEF Kept, Edged, EdgesFit
<1>4. EdgesTied'
  <2> SUFFICES ASSUME NEW e \in Edges, NEW x \in Ties(e), NEW k \in KeysOf(e),
                      cache'[k] = ItemEntry({e}), ~(x = e /\ k = PrimaryKey(e))
               PROVE  k \in Listed(cache', DependencyKey(x)) \/ \E q \in Procs : Pending(op[q], e, x)
    BY DEF EdgesTied
  <2>1. cache'[k].tag = "item"
    BY DEF ItemEntry
  <2>2. cache[k] = ItemEntry({e})
    BY <1>2, <2>1 DEF Quiet
  <2>3. x \in Objects \cup Edges
    BY DEF Ties
  <2>4. k \in Listed(cache, DependencyKey(x)) \/ \E q \in Procs : Pending(op[q], e, x)
    BY <2>2 DEF Kept, Edged, EdgesTied
  <2> QED
    BY <1>2, <2>1, <2>3, <2>4 DEF Tame
<1>5. ASSUME NEW p \in Procs, op'[p] # Idle PROVE SaveOK(op'[p], cache', db')
  <2>1. op'[p] = op[p] /\ Running(p) /\ SaveOK(op[p], cache, db) /\ db' = db
    BY <1>5 DEF Running, Kept, Edged
  <2>2. PICK store : store = cache'
    OBVIOUS
  <2>3. Tame(cache, store, fresh) /\ \A s \in fresh : s \in Sentinel /\ s.id \notin InUse
    BY <2>2
  <2>4. \A e \in db \ db : \E x \in Ties(e) : Gone(store, x)
    OBVIOUS
  <2>5. SaveOK(op[p], store, db)
    BY <2>1, <2>3, <2>4, SaveStays
  <2> QED
    BY <2>1, <2>2, <2>5
<1>6. Edged'
  BY <1>3, <1>4, <1>5 DEF Kept, Edged, Tame, Running
<1>7. DeleteLocks'
  <2> SUFFICES ASSUME NEW e \in Edges, IsLock(cache'[PrimaryKey(e)]),
                      cache'[PrimaryKey(e)].s.kind = "delete"
               PROVE  /\ ~cache'[PrimaryKey(e)].bumped
                      /\ \E p \in Procs : DeleteHolder(op[p], e, cache'[PrimaryKey(e)].s)
    BY DEF DeleteLocks
  <2>1. cache'[PrimaryKey(e)] = cache[PrimaryKey(e)]
    BY KeysOfEdge
  <2> QED
    BY <2>1 DEF Kept, DeleteLocks
<1>8. ASSUME EdgesKnown PROVE EdgesKnown'
  <2> SUFFICES ASSUME NEW e \in Edges, NEW k \in KeysOf(e), cache'[k] = ItemEntry({e}), e \notin db
               PROVE  \E q \in Procs, f \in Edges : k \in KeysOf(f) /\ Doomed(op[q], cache', f)
    BY DEF EdgesKnown
  <2>1. cache[k] = ItemEntry({e})
    BY <1>2 DEF Quiet, ItemEntry
  <2>2. PICK q \in Procs, f \in Edges : k \in KeysOf(f) /\ Doomed(op[q], cache, f)
    BY <1>8, <2>1 DEF EdgesKnown
  <2>3. Doomed(op[q], cache', f)
    BY <2>2, DoomedStays
  <2> QED
    BY <2>2, <2>3
<1>9. ASSUME Complete PROVE Complete'
  <2>1. \A e : Awaited(e) <=> Awaited(e)'
    BY DEF Awaited
  <2>2. \A k \in Collections : k \in Storable
    BY DEF Storable, Gatherings
  <2>3. ListedOK' /\ CalledOK'
    BY <1>9, <2>1, <2>2 DEF Complete, ListedOK, CalledOK, Quiet
  <2>4. ASSUME NEW p \in Procs, Gathering(op[p]), Holds(cache', op[p]) PROVE Holds(cache, op[p])
    <3>1. op[p].on \in Collections
      BY <2>4 DEF Inv, Running, Gathering, Shaped
    <3> QED
      BY <2>2, <2>4, <3>1 DEF Holds
  <2>5. ListersOK'
    BY <1>9, <2>1, <2>4 DEF Complete, ListersOK
  <2> QED
    BY <2>3, <2>5 DEF Complete
<1> QED
  BY <1>6, <1>7, <1>8, <1>9 DEF Follows, Kept

LEMMA ExpireFollows ==
  ASSUME Inv, Kept, NEW c \in AllKeys, Expire(c), Calls' = Calls
  PROVE  Follows
<1>1. cache' = Put(cache, {c}, EmptyEntry) /\ op' = op /\ db' = db /\ Outlived(c)
  BY DEF Expire
<1>2. cache \in [AllKeys -> Entry] /\ EmptyEntry \in Entry /\ EmptyEntry.tag = "empty"
  BY EntryOK DEF Inv, TypeOK
<1>3. \A l \in AllKeys : cache'[l] = IF l = c THEN EmptyEntry ELSE cache[l]
  BY <1>1, <1>2, PutType
<1>4. /\ \A l \in Storable \cup {EdgesKey} : l \in AllKeys
      /\ \A e \in Edges : PrimaryKey(e) \in AllKeys /\ FullKey(e) \in AllKeys
      /\ \A x \in Objects \cup Edges : DependencyKey(x) \in AllKeys
  BY StorableKeys, KeysOfEdge, DependencyKeys DEF AllKeys
<1>5. /\ \A l \in Storable \cup {EdgesKey} : cache'[l].tag # "empty" => cache'[l] = cache[l]
      /\ \A x \in Objects \cup Edges : cache'[DependencyKey(x)].tag # "empty" =>
           cache'[DependencyKey(x)] = cache[DependencyKey(x)]
  BY <1>2, <1>3, <1>4
<1>6. cache'[EdgesKey].tag \in {"empty", "lock"}
  BY <1>2, <1>3, <1>4 DEF Kept, Edged
<1>7. \A x \in Objects \cup Edges : Listed(cache', DependencyKey(x)) \subseteq Listed(cache, DependencyKey(x))
  BY <1>5 DEF Listed
<1>8. Quiet(cache, cache', Storable)
  BY <1>5 DEF Quiet
<1>9. CASE cache[c].tag # "tombstone"
  <2> DEFINE fresh == {}
  <2>1. \A x \in Objects \cup Edges : Gone(cache, x) => Gone(cache', x)
    BY <1>3, <1>4, <1>9, EntryOK DEF Gone
  <2>2. ASSUME NEW l \in EdgeKeys, NEW x \in Objects \cup Edges,
               cache'[l].tag = "item", l \in Listed(cache, DependencyKey(x))
        PROVE  l \in Listed(cache', DependencyKey(x))
    <3>1. cache[l].tag = "item"
      BY <1>5, <2>2 DEF Storable
    <3>2. DependencyKey(x) # c
      <4> SUFFICES ASSUME DependencyKey(x) = c PROVE FALSE
        OBVIOUS
      <4>1. cache[c].tag = "list" /\ l \in cache[c].keys
        BY <2>2 DEF Listed
      <4>2. cache[l].tag \notin {"item", "lock"}
        BY <1>1, <4>1 DEF Outlived, IsLock
      <4> QED
        BY <3>1, <4>2
    <3> QED
      BY <1>3, <1>4, <2>2, <3>2 DEF Listed
  <2>3. Tame(cache, cache', fresh)
    BY <1>5, <1>6, <1>7, <2>1, <2>2 DEF Tame
  <2>4. \A l \in Storable : IsLock(cache'[l]) => cache'[l] = cache[l]
    BY <1>5 DEF IsLock
  <2>5. fresh = {} /\ UNCHANGED <<op, db, Calls>>
    BY <1>1
  <2> HIDE DEF fresh
  <2> QED
    BY <1>8, <2>3, <2>4, <2>5, StillFollows
<1>10. CASE cache[c].tag = "tombstone"
  <2>1. ASSUME NEW p \in Procs PROVE op[p] = Idle \/ (op[p].kind \in Reads /\ op[p].pc = "locked")
    <3>1. Outlived(c) = \A q \in Procs : Running(q) => op[q].kind \in Reads /\ op[q].pc = "locked"
      BY <1>10 DEF Outlived, IsLock
    <3> QED
      BY <1>1, <3>1 DEF Running
  <2>2. \A p \in Procs : Plain(op[p])
    BY <2>1 DEF Plain
  <2>3. \A p \in Procs : /\ \A e, x : ~Pending(op[p], e, x)
                         /\ \A store, e : ~Doomed(op[p], store, e)
                         /\ \A store, edges : op[p] # Idle => SaveOK(op[p], store, edges)
                         /\ ~Awaiting(op[p]) /\ ~Gathering(op[p])
    BY <2>2, PlainIs
  <2>4. \A e \in Edges : \A l \in KeysOf(e) : l \in EdgeKeys /\ l \in Storable
    BY EdgeKeysApart DEF Storable
  <2>5. EdgesFit'
    <3>1. \A l \in EdgeKeys : cache'[l].tag = "item" => cache'[l] = cache[l]
      <4>1. \A l \in EdgeKeys : l \in Storable
        BY DEF Storable
      <4> QED
        BY <1>5, <4>1
    <3>2. EdgesFit
      BY DEF Kept, Edged
    <3> SUFFICES ASSUME NEW l \in EdgeKeys, cache'[l].tag = "item"
                 PROVE  \E e \in Edges : l \in KeysOf(e) /\ cache'[l] = ItemEntry({e})
      BY DEF EdgesFit
    <3>3. cache'[l] = cache[l]
      BY <3>1
    <3>4. \E e \in Edges : l \in KeysOf(e) /\ cache[l] = ItemEntry({e})
      BY <3>2, <3>3 DEF EdgesFit
    <3> QED
      BY <3>3, <3>4
  <2>6. EdgesTied'
    <3> SUFFICES ASSUME NEW e \in Edges, NEW x \in Ties(e), NEW l \in KeysOf(e),
                        cache'[l] = ItemEntry({e}), ~(x = e /\ l = PrimaryKey(e))
                 PROVE  l \in Listed(cache', DependencyKey(x))
      BY DEF EdgesTied
    <3>1. cache[l] = ItemEntry({e})
      BY <1>8, <2>4 DEF Quiet, ItemEntry
    <3>2. l \in Listed(cache, DependencyKey(x))
      BY <2>3, <3>1 DEF Kept, Edged, EdgesTied
    <3>3. DependencyKey(x) # c /\ x \in Objects \cup Edges
      BY <1>10, <3>2 DEF Listed, Ties
    <3> QED
      BY <1>3, <1>4, <3>2, <3>3 DEF Listed
  <2>7. Edged'
    BY <1>1, <1>6, <1>7, <2>3, <2>5, <2>6 DEF Kept, Edged, Running
  <2>8. DeleteLocks'
    <3> SUFFICES ASSUME NEW e \in Edges, IsLock(cache'[PrimaryKey(e)]),
                        cache'[PrimaryKey(e)].s.kind = "delete"
                 PROVE  /\ ~cache'[PrimaryKey(e)].bumped
                        /\ \E p \in Procs : DeleteHolder(op[p], e, cache'[PrimaryKey(e)].s)
      BY <1>1 DEF DeleteLocks
    <3>1. cache'[PrimaryKey(e)] = cache[PrimaryKey(e)]
      BY <1>5, KeysOfEdge DEF IsLock
    <3> QED
      BY <3>1 DEF Kept, DeleteLocks
  <2>9. ASSUME EdgesKnown PROVE EdgesKnown'
    <3> SUFFICES ASSUME NEW e \in Edges, NEW l \in KeysOf(e), cache'[l] = ItemEntry({e})
                 PROVE  e \in db
      BY <1>1 DEF EdgesKnown
    <3>1. cache[l] = ItemEntry({e})
      BY <1>8, <2>4 DEF Quiet, ItemEntry
    <3> QED
      BY <2>3, <2>9, <3>1 DEF EdgesKnown
  <2>10. ASSUME Complete PROVE Complete'
    <3>1. \A e : Awaited(e) <=> Awaited(e)'
      BY <1>1 DEF Awaited
    <3>2. ListedOK' /\ CalledOK'
      BY <1>1, <1>8, <2>10, <3>1 DEF Complete, ListedOK, CalledOK, Quiet, Storable, Gatherings
    <3>3. ListersOK'
      BY <1>1, <2>3 DEF ListersOK
    <3> QED
      BY <3>2, <3>3 DEF Complete
  <2> QED
    BY <2>7, <2>8, <2>9, <2>10 DEF Follows, Kept
<1> QED
  BY <1>9, <1>10

-----------------------------------------------------------------------------
(* A create and a delete of one edge are not in flight together.           *)
Apart == \A p, q \in Procs :
  Mutating(p) /\ Mutating(q) /\ op[p].kind = "createEdge" /\ op[q].kind = "deleteEdge"
    => op[p].on # op[q].on

(* Beside a DeleteEdge no mutation is in flight but deletes of objects and *)
(* of their edges.                                                         *)
Orderly == \A p, q \in Procs :
  p # q /\ Mutating(p) /\ Mutating(q) /\ op[p].kind = "deleteEdge"
    => op[q].kind \in {"deleteObject", "deleteEdgesByObject"}

LEMMA OrderlyApart == Orderly => Apart
BY DEF Orderly, Apart

(* Every CreateEdge gets its lock then. *)
CreateLocked(o) == o.kind = "createEdge" /\ o.pc # "locking" => o.s # NoLock
CreatesLocked == \A p \in Procs : Running(p) => CreateLocked(op[p])

(* The steps in which a caller goes on with the lock it has.               *)
Onward(p) ==
  \/ ServeRead(p) \/ FailRead(p) \/ LinkCollection(p) \/ StoreCollection(p)
  \/ StoreEdge(p) \/ ClearCollections(p) \/ Unlink(p)
  \/ LinkEdge(p) \/ LinkName(p) \/ UndoSave(p)
  \/ ServeMutation(p) \/ FailMutation(p) \/ StoreObject(p) \/ Close(p)

LEMMA OnwardIs ==
  ASSUME Inv, NEW p \in Procs, Onward(p)
  PROVE  /\ Running(p) /\ op[p] \in Op /\ op[p].pc # "locking"
         /\ \E n : /\ op' = [op EXCEPT ![p] = n]
                   /\ n # Idle => /\ n.kind = op[p].kind /\ n.on = op[p].on /\ n.s = op[p].s
                                  /\ n.pc \notin {"locking", "tombstoning", "locked"}
<1> DEFINE later == Steps \ {"locking", "tombstoning", "locked"}
<1>1. op[p].pc \in Steps \ {"locking"}
  BY DEF Onward, Steps, ServeRead, FailRead, LinkCollection, StoreCollection, StoreEdge,
     ClearCollections, Unlink, LinkEdge, LinkName, UndoSave, ServeMutation, FailMutation,
     StoreObject, Close
<1>2. Running(p) /\ op[p] \in Op /\ op[p].pc # "locking"
  BY <1>1, InvRunning
<1>3. \/ End(p)
      \/ \E pc \in later : Go(p, pc)
      \/ \E pc \in later : \E v : op' = [op EXCEPT ![p].pc = pc, ![p].val = v]
      \/ \E known : op' = [op EXCEPT ![p].pc = "clearing", ![p].known = known]
  <2>1. CASE ServeRead(p)
    BY <2>1 DEF ServeRead, Steps
  <2>2. CASE FailRead(p)
    BY <2>2 DEF FailRead, Steps
  <2>3. CASE LinkCollection(p)
    BY <2>3 DEF LinkCollection, Steps
  <2>4. CASE StoreCollection(p)
    BY <2>4 DEF StoreCollection, Steps
  <2>5. CASE StoreEdge(p)
    <3> DEFINE stored == CanSetValue(cache[LockKey(op[p])], {op[p].on}, op[p].s) = "set"
    <3>1. CASE op[p].kind = "createEdge" /\ op[p].s = NoLock
      BY <2>5, <3>1 DEF StoreEdge, Steps
    <3>2. CASE op[p].kind = "createEdge" /\ op[p].s # NoLock
      BY <2>5, <3>2 DEF StoreEdge
    <3>3. CASE op[p].kind # "createEdge" /\ op[p].val # {} /\ stored
      BY <2>5, <3>3 DEF StoreEdge, Steps
    <3>4. CASE op[p].kind # "createEdge" /\ ~(op[p].val # {} /\ stored)
      BY <2>5, <3>4 DEF StoreEdge
    <3> HIDE DEF stored
    <3> QED
      BY <3>1, <3>2, <3>3, <3>4
  <2>6. CASE ClearCollections(p) \/ Unlink(p)
    BY <2>6 DEF ClearCollections, Unlink, Steps
  <2>7. CASE LinkEdge(p)
    BY <2>7 DEF LinkEdge, Steps
  <2>8. CASE LinkName(p) \/ UndoSave(p)
    BY <2>8 DEF LinkName, UndoSave, AfterSave, Steps
  <2>9. CASE ServeMutation(p)
    <3> DEFINE pc == CASE op[p].kind = "createEdge" -> "answered"
                       [] op[p].kind = "updateObject" /\ op[p].s # NoLock -> "answered"
                       [] OTHER -> "closing"
               v == IF op[p].kind = "createEdge" THEN {op[p].on} ELSE {}
    <3>1. op' = [op EXCEPT ![p].pc = pc, ![p].val = v]
      BY <2>9 DEF ServeMutation
    <3>2. pc \in later
      BY DEF Steps
    <3> HIDE DEF pc, v
    <3> QED
      BY <3>1, <3>2
  <2>10. CASE FailMutation(p) \/ StoreObject(p) \/ Close(p)
    BY <2>10 DEF FailMutation, StoreObject, Close, Steps
  <2> QED
    BY <2>1, <2>2, <2>3, <2>4, <2>5, <2>6, <2>7, <2>8, <2>9, <2>10 DEF Onward
<1>4. CASE End(p)
  BY <1>2, <1>4 DEF End
<1>5. ASSUME NEW pc \in later, Go(p, pc)
      PROVE  \E n : /\ op' = [op EXCEPT ![p] = n]
                    /\ n # Idle => /\ n.kind = op[p].kind /\ n.on = op[p].on /\ n.s = op[p].s
                                   /\ n.pc \notin {"locking", "tombstoning", "locked"}
  <2> DEFINE n == [op[p] EXCEPT !.pc = pc]
  <2>1. n.kind = op[p].kind /\ n.on = op[p].on /\ n.s = op[p].s /\ n.pc = pc
    BY <1>2 DEF Op
  <2>2. op' = [op EXCEPT ![p] = n]
    BY <1>5 DEF Go
  <2> HIDE DEF n
  <2> QED
    BY <1>5, <2>1, <2>2
<1>6. ASSUME NEW pc \in later, NEW v, op' = [op EXCEPT ![p].pc = pc, ![p].val = v]
      PROVE  \E n : /\ op' = [op EXCEPT ![p] = n]
                    /\ n # Idle => /\ n.kind = op[p].kind /\ n.on = op[p].on /\ n.s = op[p].s
                                   /\ n.pc \notin {"locking", "tombstoning", "locked"}
  <2> DEFINE n == [op[p] EXCEPT !.pc = pc, !.val = v]
  <2>1. n.kind = op[p].kind /\ n.on = op[p].on /\ n.s = op[p].s /\ n.pc = pc
    BY <1>2 DEF Op
  <2>2. op' = [op EXCEPT ![p] = n]
    BY <1>6
  <2> HIDE DEF n
  <2> QED
    BY <1>6, <2>1, <2>2
<1>7. ASSUME NEW known, op' = [op EXCEPT ![p].pc = "clearing", ![p].known = known]
      PROVE  \E n : /\ op' = [op EXCEPT ![p] = n]
                    /\ n # Idle => /\ n.kind = op[p].kind /\ n.on = op[p].on /\ n.s = op[p].s
                                   /\ n.pc \notin {"locking", "tombstoning", "locked"}
  <2> DEFINE n == [op[p] EXCEPT !.pc = "clearing", !.known = known]
  <2>1. n.kind = op[p].kind /\ n.on = op[p].on /\ n.s = op[p].s /\ n.pc = "clearing"
    BY <1>2 DEF Op
  <2>2. op' = [op EXCEPT ![p] = n]
    BY <1>7
  <2> HIDE DEF n
  <2> QED
    BY <2>1, <2>2
<1> QED
  BY <1>2, <1>3, <1>4, <1>5, <1>6, <1>7

LEMMA CreatesGo ==
  ASSUME Inv, CreatesLocked, NEW p \in Procs, NEW n, op' = [op EXCEPT ![p] = n],
         n # Idle => CreateLocked(n)
  PROVE  CreatesLocked'
<1> SUFFICES ASSUME NEW q \in Procs, op'[q] # Idle PROVE CreateLocked(op'[q])
  BY DEF CreatesLocked, Running
<1>1. op'[q] = IF q = p THEN n ELSE op[q]
  BY DEF Inv, TypeOK
<1> QED
  BY <1>1 DEF CreatesLocked, Running

(* Only a delete's lock refuses that of a mutation, and on the primary key *)
(* of an edge that is a DeleteEdge of the edge under way.                  *)
LEMMA LockGranted ==
  ASSUME Inv, Kept, NEW p \in Procs, op[p].pc = "locking", NEW e \in Edges, NEW s \in Sentinel,
         NEW lks, lks[1] = PrimaryKey(e), s.kind # "read",
         \A q \in Procs : q # p /\ Mutating(q) => op[q].kind # "deleteEdge" \/ op[q].on # e
  PROVE  ~Unavailable(cache, s, lks) /\ Granted(cache, s, lks) = s
<1>1. ASSUME IsLock(cache[PrimaryKey(e)]), cache[PrimaryKey(e)].s.kind = "delete" PROVE FALSE
  <2>1. PICK q \in Procs : DeleteHolder(op[q], e, cache[PrimaryKey(e)].s)
    BY <1>1 DEF Kept, DeleteLocks
  <2>2. q # p
    BY <2>1 DEF DeleteHolder
  <2>3. Mutating(q) /\ op[q].kind = "deleteEdge" /\ op[q].on = e
    BY <2>1 DEF DeleteHolder, Mutating, Running, Mutations
  <2> QED
    BY <2>2, <2>3
<1>2. ~Unavailable(cache, s, lks)
  BY <1>1 DEF Unavailable, CanSetSentinelGivenCurrVal
<1> QED
  BY <1>2 DEF Granted

LEMMA TakeLockLocks ==
  ASSUME Inv, Kept, Apart, NEW p \in Procs, TakeLock(p), op[p].kind = "createEdge"
  PROVE  \E s \in Sentinel : \E n : /\ op' = [op EXCEPT ![p] = n]
                                    /\ n # Idle => n.s = s
<1> DEFINE o == op[p]
           lks == LockedKeys(o)
           pc == IF SentinelOf(o.kind) = "write" THEN "locked" ELSE "tombstoning"
<1>1. Running(p) /\ o \in Op /\ Shaped(o) /\ o.pc = "locking" /\ o.on \in Edges
  <2>1. Running(p) /\ o \in Op /\ Shaped(o) /\ o.pc = "locking"
    BY InvRunning DEF TakeLock, Steps
  <2> QED
    BY <2>1 DEF Shaped
<1>2. PICK s \in FreshSentinel(SentinelOf(o.kind)) :
        op' = [op EXCEPT ![p].s = Granted(cache, s, lks), ![p].pc = pc]
  BY DEF TakeLock
<1>3. s \in Sentinel /\ s.kind = "write"
  BY <1>2, FreshIs DEF SentinelOf, Kinds
<1>4. lks[1] = PrimaryKey(o.on)
  <2>1. lks = <<PrimaryKey(o.on), EdgesKey, FullKey(o.on)>>
    BY DEF LockedKeys, Collecting
  <2> QED
    BY <2>1
<1>5. \A q \in Procs : q # p /\ Mutating(q) => op[q].kind # "deleteEdge" \/ op[q].on # o.on
  BY <1>1 DEF Apart, Mutating, Mutations
<1>6. PICK g : g = Granted(cache, s, lks)
  OBVIOUS
<1> HIDE DEF lks
<1>7. g = s
  BY <1>1, <1>3, <1>4, <1>5, <1>6, LockGranted
<1> DEFINE n == [o EXCEPT !.s = g, !.pc = pc]
<1>8. op' = [op EXCEPT ![p] = n]
  BY <1>2, <1>6
<1> HIDE DEF pc
<1>9. n.s = g
  BY <1>1 DEF Op
<1> HIDE DEF n
<1> QED
  BY <1>3, <1>7, <1>8, <1>9

LEMMA CreatesLockedNext == Inv /\ Kept /\ Apart /\ CreatesLocked /\ [Next]_vars => CreatesLocked'
<1> SUFFICES ASSUME Inv, Kept, Apart, CreatesLocked, [Next]_vars PROVE CreatesLocked'
  OBVIOUS
<1>1. CASE op' = op
  BY <1>1 DEF CreatesLocked, Running
<1>2. ASSUME NEW p \in Procs, Onward(p) PROVE CreatesLocked'
  <2>1. PICK n : /\ op' = [op EXCEPT ![p] = n]
                 /\ n # Idle => /\ n.kind = op[p].kind /\ n.on = op[p].on /\ n.s = op[p].s
                                /\ n.pc \notin {"locking", "tombstoning", "locked"}
    BY <1>2, OnwardIs
  <2>2. CreateLocked(op[p]) /\ op[p].pc # "locking"
    BY <1>2, OnwardIs DEF CreatesLocked
  <2>3. n # Idle => CreateLocked(n)
    BY <2>1, <2>2 DEF CreateLocked
  <2> QED
    BY <2>1, <2>3, CreatesGo
<1>3. ASSUME NEW p \in Procs, NEW kind, NEW x, NEW pc, NEW s, NEW known, Begin(p, kind, x, pc, s, known),
             kind # "createEdge" \/ pc = "locking"
      PROVE  CreatesLocked'
  <2> DEFINE n == [kind |-> kind, on |-> x, pc |-> pc, s |-> s, val |-> {}, known |-> known]
  <2>1. op' = [op EXCEPT ![p] = n] /\ CreateLocked(n)
    BY <1>3 DEF Begin, CreateLocked
  <2> HIDE DEF n
  <2> QED
    BY <2>1, CreatesGo
<1>4. ASSUME NEW p \in Procs, NEW kind \in Reads \cap Calls, NEW x \in ReadTargets(kind), Miss(p, kind, x)
      PROVE  CreatesLocked'
  <2>1. PICK s \in FreshSentinel("read") : Begin(p, kind, x, "locked", s, FALSE)
    BY <1>4 DEF Miss
  <2> QED
    BY <1>3, <2>1 DEF Reads
<1>5. ASSUME NEW p \in Procs, NEW kind, NEW x, StartMutation(p, kind, x) PROVE CreatesLocked'
  <2> DEFINE known == kind = "deleteEdge" /\ cache[PrimaryKey(x)].tag = "item"
  <2>1. PICK k : k = known
    OBVIOUS
  <2>2. Begin(p, kind, x, "locking", NoLock, k)
    BY <1>5, <2>1 DEF StartMutation
  <2> QED
    BY <1>3, <2>2
<1>6. ASSUME NEW p \in Procs, TakeLock(p) PROVE CreatesLocked'
  <2>1. CASE op[p].kind = "createEdge"
    <3>1. PICK s \in Sentinel : \E n : op' = [op EXCEPT ![p] = n] /\ (n # Idle => n.s = s)
      BY <1>6, <2>1, TakeLockLocks
    <3>2. PICK n : op' = [op EXCEPT ![p] = n] /\ (n # Idle => n.s = s)
      BY <3>1
    <3>3. s # NoLock
      BY DEF Sentinel, NoLock, Kinds
    <3>4. n # Idle => CreateLocked(n)
      BY <3>2, <3>3 DEF CreateLocked
    <3> QED
      BY <3>2, <3>4, CreatesGo
  <2>2. CASE op[p].kind # "createEdge"
    <3>1. PICK s, pc : op' = [op EXCEPT ![p].s = s, ![p].pc = pc]
      BY <1>6 DEF TakeLock
    <3> DEFINE n == [op[p] EXCEPT !.s = s, !.pc = pc]
    <3>2. op[p] \in Op
      BY <1>6, InvRunning DEF TakeLock, Steps
    <3>3. op' = [op EXCEPT ![p] = n] /\ n.kind = op[p].kind
      BY <3>1, <3>2 DEF Op
    <3>4. CreateLocked(n)
      BY <2>2, <3>3 DEF CreateLocked
    <3> HIDE DEF n
    <3> QED
      BY <3>3, <3>4, CreatesGo
  <2> QED
    BY <2>1, <2>2
<1>7. ASSUME NEW p \in Procs, TombstoneList(p) PROVE CreatesLocked'
  <2>1. op[p] \in Op /\ Shaped(op[p]) /\ op[p].pc = "tombstoning"
    BY <1>7, InvRunning DEF TombstoneList, Steps
  <2> DEFINE n == [op[p] EXCEPT !.pc = "locked"]
  <2>2. op' = [op EXCEPT ![p] = n] /\ n.kind = op[p].kind
    BY <1>7, <2>1 DEF TombstoneList, Go, Op
  <2>3. CreateLocked(n)
    BY <2>1, <2>2 DEF CreateLocked, Shaped, Deletes
  <2> HIDE DEF n
  <2> QED
    BY <2>2, <2>3, CreatesGo
<1>8. CASE UNCHANGED vars
  BY <1>1, <1>8 DEF vars
<1>9. CASE FlushCache \/ \E k \in AllKeys : Expire(k)
  BY <1>1, <1>9 DEF FlushCache, Expire
<1> QED
  BY <1>2, <1>4, <1>5, <1>6, <1>7, <1>8, <1>9 DEF Next, Step, Onward

-----------------------------------------------------------------------------
(* A step spares a DeleteEdge that leaves it what it holds. *)
Spares(o) == DeleteHeld(o, cache) => DeleteHeld(o, cache')

LEMMA SparesSame ==
  ASSUME NEW o, o.kind = "deleteEdge" => o.on \in Edges,
         \A x \in Objects \cup Edges : Gone(cache, x) => Gone(cache', x),
         o.kind = "deleteEdge" =>
           \A k \in {PrimaryKey(o.on), EdgesKey} : cache'[k] = cache[k] \/ cache[k] = EmptyEntry
  PROVE  Spares(o)
<1> SUFFICES ASSUME DeleteHeld(o, cache), o.kind = "deleteEdge", o.pc \in {"tombstoning", "locked"}
             PROVE  DeleteHeld(o, cache')
  BY DEF Spares, DeleteHeld
<1>1. cache[EdgesKey] = LockEntry(o.s) /\ o.s # NoLock
  BY DEF DeleteHeld
<1>2. cache'[EdgesKey] = LockEntry(o.s)
  BY <1>1 DEF EmptyEntry, LockEntry
<1>3. Source[o.on] \in Objects /\ Target[o.on] \in Objects
  OBVIOUS
<1>4. EmptyEntry \notin {LockEntry(o.s), Tombstone}
  BY DEF EmptyEntry, LockEntry, Tombstone
<1>5. \/ cache'[PrimaryKey(o.on)] \in {LockEntry(o.s), Tombstone}
      \/ Gone(cache', Source[o.on]) \/ Gone(cache', Target[o.on])
  BY <1>3, <1>4 DEF DeleteHeld
<1> QED
  BY <1>1, <1>2, <1>5 DEF DeleteHeld

LEMMA SparesPut ==
  ASSUME Inv, NEW ks, NEW e \in Entry, cache' = Put(cache, ks, e),
         \A x \in Objects \cup Edges : DependencyKey(x) \notin ks,
         NEW o, o.kind = "deleteEdge" => o.on \in Edges,
         o.kind = "deleteEdge" =>
           \A k \in {PrimaryKey(o.on), EdgesKey} : k \in ks => cache[k] = EmptyEntry
  PROVE  Spares(o)
<1>1. \A k \in AllKeys : cache'[k] = IF k \in ks THEN e ELSE cache[k]
  BY PutType DEF Inv, TypeOK
<1>2. \A x \in Objects \cup Edges : Gone(cache, x) => Gone(cache', x)
  BY <1>1, DependencyKeys DEF Gone
<1>3. EdgesKey \in AllKeys
  BY DEF AllKeys
<1>4. o.kind = "deleteEdge" =>
        \A k \in {PrimaryKey(o.on), EdgesKey} : cache'[k] = cache[k] \/ cache[k] = EmptyEntry
  BY <1>1, <1>3, KeysOfEdge
<1> QED
  BY <1>2, <1>4, SparesSame

(* The deletes that may overlap lock no edge, nor do the releases of       *)
(* collections.                                                            *)
LEMMA LocksNoEdge ==
  ASSUME NEW o \in Op, Shaped(o), o.kind \in Collecting \cup {"deleteObject", "deleteEdgesByObject"}
  PROVE  \A m \in DOMAIN LockedKeys(o) :
           /\ \A e \in Edges : LockedKeys(o)[m] # PrimaryKey(e)
           /\ LockedKeys(o)[m] # EdgesKey
           /\ \A x : LockedKeys(o)[m] # DependencyKey(x)
<1>1. CASE o.kind = "deleteObject"
  <2>1. LockedKeys(o) = <<ObjectKey(o.on), OfObject(o.on)>>
    BY <1>1 DEF LockedKeys, Collecting
  <2> QED
    BY <2>1, EdgeKeysApart, KeysApart
<1>2. CASE o.kind = "deleteEdgesByObject"
  <2>1. LockedKeys(o) = <<OfObject(o.on)>>
    BY <1>2 DEF LockedKeys, Collecting
  <2> QED
    BY <2>1, EdgeKeysApart, KeysApart
<1>3. CASE o.kind \in Collecting
  <2>1. LockedKeys(o) = <<OfObject(o.on[2]), o.on>>
    BY <1>3 DEF LockedKeys, Collecting
  <2>2. o.on \in Gatherings
    BY <1>3 DEF Shaped
  <2>3. o.on \notin EdgeKeys \cup {EdgesKey} /\ \A x : o.on # DependencyKey(x)
    BY <2>2, KeysApart, StorableKeys
  <2>4. \A e \in Edges : PrimaryKey(e) \in EdgeKeys
    BY DEF EdgeKeys
  <2> QED
    BY <2>1, <2>3, <2>4, EdgeKeysApart, KeysApart
<1> QED
  BY <1>1, <1>2, <1>3

Beside(p, q) == /\ q # p /\ Running(q)
                /\ op[q].kind = "deleteEdge" /\ op[q].pc \in {"tombstoning", "locked"}
                /\ Mutating(p) => op[p].kind \in {"deleteObject", "deleteEdgesByObject"}

LEMMA BesideIs ==
  ASSUME Inv, NEW p \in Procs, NEW q \in Procs, Beside(p, q)
  PROVE  /\ op[q] \in Op /\ Shaped(op[q]) /\ op[q].on \in Edges
         /\ op[q].s # NoLock => op[q].s.kind = "delete"
<1>1. op[q] \in Op /\ Shaped(op[q])
  BY DEF Inv, TypeOK, Beside, Running
<1> QED
  BY <1>1 DEF Beside, Shaped, Mutations, SentinelOf

LEMMA SparesAll ==
  ASSUME cache' = cache, NEW o
  PROVE  Spares(o)
BY DEF Spares

LEMMA MissSpares ==
  ASSUME Inv, NEW p \in Procs, NEW kind \in Reads, NEW x \in ReadTargets(kind), Miss(p, kind, x),
         NEW q \in Procs, Beside(p, q)
  PROVE  Spares(op[q])
<1> DEFINE k == LockKey([kind |-> kind, on |-> x])
<1>1. cache[k] = EmptyEntry
  BY DEF Miss
<1>2. PICK s \in FreshSentinel("read") : cache' = LockOnMiss(cache, k, s)
  BY DEF Miss
<1>3. LockEntry(s) \in Entry
  BY <1>2, FreshIs, EntryOK DEF Kinds
<1> DEFINE ks == {k}
<1>4. cache' = Put(cache, ks, LockEntry(s))
  BY <1>1, <1>2 DEF LockOnMiss
<1>5. \A y \in Objects \cup Edges : DependencyKey(y) \notin ks
  <2>1. k \in Storable \cup {EdgesKey}
    <3>1. CASE kind = "findEdge"
      BY <3>1 DEF LockKey, Collecting
    <3>2. CASE kind = "getEdge"
      <4>1. k = PrimaryKey(x) /\ x \in Edges
        BY <3>2 DEF LockKey, Collecting, ReadTargets
      <4> QED
        BY <4>1 DEF Storable, EdgeKeys
    <3>3. CASE kind \in Collecting
      <4>1. k = x
        BY <3>3 DEF LockKey, Collecting
      <4>2. x \in Gatherings
        BY <3>3 DEF ReadTargets, Collecting, Gatherings, Collections
      <4> QED
        BY <4>1, <4>2, StorableKeys
    <3> QED
      BY <3>1, <3>2, <3>3 DEF Reads, Collecting
  <2> HIDE DEF k
  <2> QED
    BY <2>1, KeysApart
<1>6. \A l \in ks : cache[l] = EmptyEntry
  BY <1>1
<1>7. PICK o : o = op[q]
  OBVIOUS
<1>8. o.on \in Edges
  BY <1>7, BesideIs
<1> HIDE DEF ks, k
<1>9. Spares(o)
  BY <1>3, <1>4, <1>5, <1>6, <1>8, SparesPut
<1> QED
  BY <1>7, <1>9

LEMMA AddSpares ==
  ASSUME Inv, Tame(cache, cache', {}),
         \A k \in Storable \cup {EdgesKey} : cache'[k] = cache[k],
         NEW p \in Procs, NEW q \in Procs, Beside(p, q)
  PROVE  Spares(op[q])
<1>1. PICK o : o = op[q]
  OBVIOUS
<1>2. o.on \in Edges
  BY <1>1, BesideIs
<1>3. \A x \in Objects \cup Edges : Gone(cache, x) => Gone(cache', x)
  BY DEF Tame
<1>4. \A k \in {PrimaryKey(o.on), EdgesKey} : cache'[k] = cache[k] \/ cache[k] = EmptyEntry
  BY <1>2, KeysOfEdge
<1>5. Spares(o)
  BY <1>2, <1>3, <1>4, SparesSame
<1> QED
  BY <1>1, <1>5

LEMMA LinkCollectionSpares ==
  ASSUME Inv, NEW p \in Procs, LinkCollection(p), NEW q \in Procs, Beside(p, q)
  PROVE  Spares(op[q])
BY LinkCollectionIs, AddSpares

LEMMA LinkEdgeSpares ==
  ASSUME Inv, NEW p \in Procs, LinkEdge(p) \/ LinkName(p), NEW q \in Procs, Beside(p, q)
  PROVE  Spares(op[q])
<1>1. CASE LinkEdge(p)
  <2> DEFINE e == op[p].on
  <2>1. e \in Edges
    BY <1>1, InvRunning DEF LinkEdge, Steps, Shaped
  <2>2. cache' = AddDependency(cache, EndPoints(e), KeysOf(e))
    BY <1>1 DEF LinkEdge, KeysOf
  <2>3. Tame(cache, cache', {}) /\ \A k \in Storable \cup {EdgesKey} : cache'[k] = cache[k]
    BY <2>1, <2>2, LinkIs
  <2> QED
    BY <2>3, AddSpares
<1>2. CASE LinkName(p)
  <2> DEFINE e == op[p].on
  <2>1. e \in Edges
    BY <1>2, InvRunning DEF LinkName, Steps, Shaped
  <2>2. cache' = AddDependency(cache, <<DependencyKey(e)>>, {FullKey(e)})
    BY <1>2 DEF LinkName
  <2>3. Tame(cache, cache', {}) /\ \A k \in Storable \cup {EdgesKey} : cache'[k] = cache[k]
    BY <2>1, <2>2, LinkNameIs
  <2> QED
    BY <2>3, AddSpares
<1> QED
  BY <1>1, <1>2

LEMMA StoreCollectionSpares ==
  ASSUME Inv, NEW p \in Procs, StoreCollection(p), NEW q \in Procs, Beside(p, q)
  PROVE  Spares(op[q])
<1> DEFINE ks == {op[p].on}
           v == op[p].val
<1>1. op[p] \in Op /\ Shaped(op[p]) /\ op[p].kind \in Collecting
  BY InvRunning DEF StoreCollection, Steps
<1>2. op[p].on \in Gatherings /\ v \in SUBSET Edges /\ op[p].s.kind # "write"
  BY <1>1 DEF Shaped, Op, Collecting, Reads
<1>3. op[p].on \in AllKeys /\ cache \in [AllKeys -> Entry] /\ ItemEntry(v) \in Entry
  BY <1>2, StorableKeys, EntryOK DEF Inv, TypeOK
<1>4. cache' = SetValue(cache, op[p].on, ks, v, op[p].s)
  BY DEF StoreCollection
<1>5. (\A x \in Objects \cup Edges : DependencyKey(x) \notin ks) /\ EdgesKey \notin ks
      /\ \A e \in Edges : PrimaryKey(e) \notin ks
  <2>1. \A e \in Edges : PrimaryKey(e) \in EdgeKeys
    BY DEF EdgeKeys
  <2> QED
    BY <1>2, <2>1, KeysApart, StorableKeys
<1> HIDE DEF ks, v
<1>6. cache' = Put(cache, ks, ItemEntry(v)) \/ cache' = cache
  BY <1>2, <1>3, <1>4, SetIs
<1>7. PICK o : o = op[q]
  OBVIOUS
<1>8. o.on \in Edges
  BY <1>7, BesideIs
<1>9. Spares(o)
  <2>1. CASE cache' = cache
    BY <2>1, SparesAll
  <2>2. CASE cache' = Put(cache, ks, ItemEntry(v))
    BY <1>3, <1>5, <1>8, <2>2, SparesPut
  <2> QED
    BY <1>6, <2>1, <2>2
<1> QED
  BY <1>7, <1>9

(* A read stores while it holds its lock, or does nothing. *)
LEMMA ReadSets ==
  ASSUME NEW store \in [AllKeys -> Entry], NEW lkey \in AllKeys, NEW ks,
         NEW v \in SUBSET Edges, NEW s, s.kind # "write"
  PROVE  \/ store[lkey] = LockEntry(s) /\ SetValue(store, lkey, ks, v, s) = Put(store, ks, ItemEntry(v))
         \/ SetValue(store, lkey, ks, v, s) = store
BY SetIs

LEMMA StoreEdgeSpares ==
  ASSUME Inv, NEW p \in Procs, StoreEdge(p), NEW q \in Procs, Beside(p, q)
  PROVE  Spares(op[q])
<1> DEFINE ks == KeysOf(op[p].on)
<1>1. Running(p) /\ op[p] \in Op /\ Shaped(op[p]) /\ op[p].kind \in {"getEdge", "findEdge"}
  <2>1. Running(p) /\ op[p] \in Op /\ Shaped(op[p]) /\ op[p].kind \in {"getEdge", "findEdge", "createEdge"}
    BY InvRunning DEF StoreEdge, Steps
  <2> QED
    BY <2>1 DEF Beside, Mutating, Mutations
<1>2. op[p].s.kind = "read" /\ op[p].on \in Edges
  BY <1>1 DEF Shaped, Reads
<1>3. LockKey(op[p]) \in AllKeys /\ LockKey(op[p]) = IF op[p].kind = "findEdge" THEN EdgesKey ELSE PrimaryKey(op[p].on)
  BY <1>1, <1>2, LockKeyOf, KeysOfEdge DEF Saves
<1>4. PICK v \in SUBSET Edges : v = op[p].val
  BY <1>1 DEF Op
<1>5. cache' = cache \/ cache' = SetValue(cache, LockKey(op[p]), ks, v, op[p].s)
  BY <1>4 DEF StoreEdge, KeysOf
<1>6. \/ cache' = cache
      \/ cache[LockKey(op[p])] = LockEntry(op[p].s) /\ cache' = Put(cache, ks, ItemEntry(v))
  <2>1. PICK store \in [AllKeys -> Entry], lkey \in AllKeys :
          store = cache /\ lkey = LockKey(op[p])
    BY <1>3 DEF Inv, TypeOK
  <2>2. PICK s, ls : s = op[p].s /\ ls = ks
    OBVIOUS
  <2>3. s.kind # "write"
    BY <1>2, <2>2
  <2>4. \/ store[lkey] = LockEntry(s) /\ SetValue(store, lkey, ls, v, s) = Put(store, ls, ItemEntry(v))
        \/ SetValue(store, lkey, ls, v, s) = store
    BY <2>3, ReadSets
  <2> HIDE DEF ks
  <2> QED
    BY <1>5, <2>1, <2>2, <2>4
<1>7. PICK o : o = op[q]
  OBVIOUS
<1>8. o.on \in Edges /\ (o.s # NoLock => o.s.kind = "delete")
  BY <1>7, BesideIs
<1>9. Spares(o)
  <2>1. CASE cache' = cache
    BY <2>1, SparesAll
  <2>2. CASE cache[LockKey(op[p])] = LockEntry(op[p].s) /\ cache' = Put(cache, ks, ItemEntry(v))
    <3>1. ItemEntry(v) \in Entry /\ EdgesKey \notin ks
      BY <1>2, EntryOK, EdgeKeysApart DEF KeysOf
    <3>2. \A k \in AllKeys : cache'[k] = IF k \in ks THEN ItemEntry(v) ELSE cache[k]
      BY <2>2, <3>1, PutType DEF Inv, TypeOK
    <3>3. \A x \in Objects \cup Edges : Gone(cache, x) => Gone(cache', x)
      BY <1>2, <3>2, KeysOfEdge, DependencyKeys DEF Gone, KeysOf
    <3>4. cache'[EdgesKey] = cache[EdgesKey]
      BY <1>2, <3>1, <3>2, KeysOfEdge
    <3>5. ASSUME DeleteHeld(o, cache), o.kind = "deleteEdge", o.pc \in {"tombstoning", "locked"}
          PROVE  DeleteHeld(o, cache')
      <4>1. /\ o.s # NoLock /\ cache[EdgesKey] = LockEntry(o.s)
            /\ \/ cache[PrimaryKey(o.on)] \in {LockEntry(o.s), Tombstone}
               \/ Gone(cache, Source[o.on]) \/ Gone(cache, Target[o.on])
        BY <3>5 DEF DeleteHeld
      <4>2. LockEntry(op[p].s) # LockEntry(o.s) /\ LockEntry(op[p].s) # Tombstone
        BY <1>2, <1>8, <4>1 DEF LockEntry, Tombstone
      <4>3. op[p].kind = "getEdge" /\ cache[PrimaryKey(op[p].on)] \notin {LockEntry(o.s), Tombstone}
        BY <1>1, <1>3, <2>2, <4>1, <4>2
      <4>4. PrimaryKey(o.on) \in ks => o.on = op[p].on
        BY <1>2, <1>8, EdgeKeysApart DEF KeysOf
      <4>5. PrimaryKey(o.on) \notin ks => cache'[PrimaryKey(o.on)] = cache[PrimaryKey(o.on)]
        BY <1>8, <3>2, KeysOfEdge
      <4>6. Source[o.on] \in Objects /\ Target[o.on] \in Objects
        BY <1>8
      <4> HIDE DEF ks
      <4>7. \/ cache'[PrimaryKey(o.on)] \in {LockEntry(o.s), Tombstone}
            \/ Gone(cache', Source[o.on]) \/ Gone(cache', Target[o.on])
        BY <3>3, <4>1, <4>3, <4>4, <4>5, <4>6
      <4> QED
        BY <3>4, <4>1, <4>7 DEF DeleteHeld
    <3> QED
      BY <3>5 DEF Spares, DeleteHeld
  <2> QED
    BY <1>6, <2>1, <2>2
<1> QED
  BY <1>7, <1>9

LEMMA UndoSaveSpares ==
  ASSUME Inv, NEW p \in Procs, UndoSave(p), NEW q \in Procs, Beside(p, q)
  PROVE  Spares(op[q])
<1> DEFINE ks == KeysOf(op[p].on)
<1>1. op[p].on \in Edges
  BY InvRunning DEF UndoSave, Steps, Shaped
<1>2. cache' = Put(cache, ks, Tombstone) /\ Tombstone \in Entry
  BY EntryOK DEF UndoSave, KeysOf
<1>3. \A k \in AllKeys : cache'[k] = IF k \in ks THEN Tombstone ELSE cache[k]
  BY <1>2, PutType DEF Inv, TypeOK
<1>4. PICK o : o = op[q]
  OBVIOUS
<1>5. o.on \in Edges
  BY <1>4, BesideIs
<1>6. \A x \in Objects \cup Edges : Gone(cache, x) => Gone(cache', x)
  BY <1>1, <1>3, KeysOfEdge, DependencyKeys DEF Gone, KeysOf
<1>7. cache'[EdgesKey] = cache[EdgesKey]
  BY <1>1, <1>3, KeysOfEdge, EdgeKeysApart DEF KeysOf
<1>8. cache'[PrimaryKey(o.on)] = Tombstone \/ cache'[PrimaryKey(o.on)] = cache[PrimaryKey(o.on)]
  BY <1>3, <1>5, KeysOfEdge
<1>9. Source[o.on] \in Objects /\ Target[o.on] \in Objects
  BY <1>5
<1> HIDE DEF ks
<1>10. Spares(o)
  BY <1>6, <1>7, <1>8, <1>9 DEF Spares, DeleteHeld
<1> QED
  BY <1>4, <1>10

(* A list that is tombstoned takes the place of the edges it named. *)
LEMMA TombstoneSpares ==
  ASSUME Inv, Kept, NEW y \in Objects \cup Edges,
         cache' = ClearDependencies(cache, DependencyKey(y), TRUE),
         NEW o, o.kind = "deleteEdge" => o.on \in Edges
  PROVE  Spares(o)
<1> SUFFICES ASSUME DeleteHeld(o, cache), o.kind = "deleteEdge", o.pc \in {"tombstoning", "locked"}
             PROVE  DeleteHeld(o, cache')
  BY DEF Spares, DeleteHeld
<1>1. /\ o.s # NoLock /\ cache[EdgesKey] = LockEntry(o.s)
      /\ \/ cache[PrimaryKey(o.on)] \in {LockEntry(o.s), Tombstone}
         \/ Gone(cache, Source[o.on]) \/ Gone(cache, Target[o.on])
  BY DEF DeleteHeld
<1> DEFINE set == TRUE
           fresh == {}
           new == ClearDependencies(cache, DependencyKey(y), set)
<1>2. cache \in [AllKeys -> Entry] /\ ListsOK(cache) /\ set \in BOOLEAN /\ set
  BY DEF Inv, TypeOK
<1>3. cache' = new
  OBVIOUS
<1> HIDE DEF set, fresh
<1>4. /\ \A k \in AllKeys : new[k] =
           IF k = DependencyKey(y) THEN IF set \/ cache[k] = Tombstone THEN Tombstone ELSE EmptyEntry
           ELSE IF k \in Listed(cache, DependencyKey(y)) THEN EmptyEntry ELSE cache[k]
      /\ Tame(cache, new, fresh) /\ Gone(new, y)
  <2>1. \A k \in AllKeys : new[k] =
          IF k = DependencyKey(y) THEN IF set \/ cache[k] = Tombstone THEN Tombstone ELSE EmptyEntry
          ELSE IF k \in Listed(cache, DependencyKey(y)) THEN EmptyEntry ELSE cache[k]
    BY <1>2 DEF ClearDependencies, Put
  <2>2. Tame(cache, new, fresh) /\ (set => Gone(new, y))
    BY <1>2, TameClear
  <2> HIDE DEF new
  <2> QED
    BY <1>2, <2>1, <2>2
<1> HIDE DEF new
<1>5. \A x \in Objects \cup Edges : Gone(cache, x) => Gone(cache', x)
  BY <1>3, <1>4 DEF Tame
<1>6. Listed(cache, DependencyKey(y)) \subseteq Storable
  BY <1>2 DEF Listed, ListsOK, EmptyEntry, Tombstone
<1>7. cache'[EdgesKey] = cache[EdgesKey]
  <2>1. EdgesKey \notin Listed(cache, DependencyKey(y)) /\ EdgesKey # DependencyKey(y)
    BY <1>6, EdgeKeysApart, KeysApart
  <2>2. EdgesKey \in AllKeys
    BY DEF AllKeys
  <2> QED
    BY <1>3, <1>4, <2>1, <2>2
<1>8. CASE PrimaryKey(o.on) \in Listed(cache, DependencyKey(y))
  <2>1. y \in {Source[o.on], Target[o.on]}
    BY <1>8 DEF Kept, Edged
  <2> QED
    BY <1>1, <1>3, <1>4, <1>7, <2>1 DEF DeleteHeld
<1>9. CASE PrimaryKey(o.on) \notin Listed(cache, DependencyKey(y))
  <2>1. PrimaryKey(o.on) \in AllKeys /\ PrimaryKey(o.on) # DependencyKey(y)
    BY KeysOfEdge
  <2>2. cache'[PrimaryKey(o.on)] = cache[PrimaryKey(o.on)]
    BY <1>3, <1>4, <1>9, <2>1
  <2>3. Source[o.on] \in Objects /\ Target[o.on] \in Objects
    OBVIOUS
  <2> QED
    BY <1>1, <1>5, <1>7, <2>2, <2>3 DEF DeleteHeld
<1> QED
  BY <1>8, <1>9

(* Locks come and go on other keys. *)
LEMMA TakeLockSpares ==
  ASSUME Inv, NEW p \in Procs, TakeLock(p), NEW q \in Procs, Beside(p, q)
  PROVE  Spares(op[q])
<1> DEFINE lks == LockedKeys(op[p])
           ks == Lockable(cache, lks)
<1>1. op[p] \in Op /\ Shaped(op[p]) /\ op[p].kind \in {"deleteObject", "deleteEdgesByObject"}
  <2>1. Running(p) /\ op[p] \in Op /\ Shaped(op[p]) /\ op[p].pc = "locking"
    BY InvRunning DEF TakeLock, Steps
  <2>2. Mutating(p)
    BY <2>1 DEF Shaped, Mutating
  <2> QED
    BY <2>1, <2>2 DEF Beside
<1>2. PICK s \in FreshSentinel(SentinelOf(op[p].kind)) : cache' = WriteSentinel(cache, s, lks)
  BY DEF TakeLock
<1>3. LockEntry(s) \in Entry
  BY <1>2, FreshIs, EntryOK DEF SentinelOf, Kinds
<1>4. cache' = cache \/ cache' = Put(cache, ks, LockEntry(s))
  BY <1>2 DEF WriteSentinel
<1>5. \A k \in ks : \E m \in DOMAIN lks : k = lks[m]
  <2>1. lks \in Seq(Lockables) /\ Len(lks) \in Nat \ {0}
    BY <1>1, LockedAre DEF Mutations
  <2> HIDE DEF lks
  <2> QED
    BY <2>1 DEF Lockable
<1>6. /\ \A e \in Edges : PrimaryKey(e) \notin ks
      /\ EdgesKey \notin ks /\ \A x : DependencyKey(x) \notin ks
  <2>1. \A m \in DOMAIN lks : /\ \A e \in Edges : lks[m] # PrimaryKey(e)
                              /\ lks[m] # EdgesKey
                              /\ \A x : lks[m] # DependencyKey(x)
    BY <1>1, LocksNoEdge
  <2> HIDE DEF ks, lks
  <2> QED
    BY <1>5, <2>1
<1>7. PICK o : o = op[q]
  OBVIOUS
<1>8. o.on \in Edges
  BY <1>7, BesideIs
<1> HIDE DEF ks
<1>9. Spares(o)
  <2>1. CASE cache' = cache
    BY <2>1, SparesAll
  <2>2. CASE cache' = Put(cache, ks, LockEntry(s))
    BY <1>3, <1>6, <1>8, <2>2, SparesPut
  <2> QED
    BY <1>4, <2>1, <2>2
<1> QED
  BY <1>7, <1>9

LEMMA CloseSpares ==
  ASSUME Inv, NEW p \in Procs, Close(p), NEW q \in Procs, Beside(p, q)
  PROVE  Spares(op[q])
<1> DEFINE lks == LockedKeys(op[p])
           ks == {k \in {lks[n] : n \in DOMAIN lks} : cache[k] = LockEntry(op[p].s)}
<1>1. op[p] \in Op /\ Shaped(op[p]) /\ op[p].kind \in Collecting \cup {"deleteObject", "deleteEdgesByObject"}
  <2>1. Running(p) /\ op[p] \in Op /\ Shaped(op[p]) /\ op[p].pc = "closing"
    BY InvRunning DEF Close, Steps
  <2>2. op[p].kind \in Mutations => Mutating(p)
    BY <2>1 DEF Mutating
  <2> QED
    BY <2>1, <2>2 DEF Beside, Shaped
<1>2. cache' = cache \/ cache' = Put(cache, ks, EmptyEntry)
  BY DEF Close, ReleaseSentinel
<1>3. /\ \A e \in Edges : PrimaryKey(e) \notin ks
      /\ EdgesKey \notin ks /\ \A x : DependencyKey(x) \notin ks
  <2>1. \A m \in DOMAIN lks : /\ \A e \in Edges : lks[m] # PrimaryKey(e)
                              /\ lks[m] # EdgesKey
                              /\ \A x : lks[m] # DependencyKey(x)
    BY <1>1, LocksNoEdge
  <2> HIDE DEF lks
  <2> QED
    BY <2>1
<1>4. PICK o : o = op[q]
  OBVIOUS
<1>5. o.on \in Edges
  BY <1>4, BesideIs
<1> HIDE DEF ks
<1>6. Spares(o)
  <2>1. CASE cache' = cache
    BY <2>1, SparesAll
  <2>2. CASE cache' = Put(cache, ks, EmptyEntry)
    BY <1>3, <1>5, <2>2, EntryOK, SparesPut
  <2> QED
    BY <1>2, <2>1, <2>2
<1> QED
  BY <1>4, <1>6

(* A tombstone stays while the delete is under way, and so does its lock.  *)
LEMMA ExpireSpares ==
  ASSUME Inv, NEW c \in AllKeys, Expire(c), NEW q \in Procs, Running(q),
         op[q].kind = "deleteEdge", op[q].pc \in {"tombstoning", "locked"}
  PROVE  Spares(op[q])
<1>1. PICK o : o = op[q]
  OBVIOUS
<1>2. Shaped(o) /\ o.on \in Edges
  BY <1>1 DEF Inv, Shaped
<1>3. \A k \in AllKeys : cache'[k] = IF k = c THEN EmptyEntry ELSE cache[k]
  BY EntryOK, PutType DEF Expire, Inv, TypeOK
<1>4. cache[c] # Tombstone /\ cache[c] # LockEntry(o.s)
  <2>1. Outlived(c)
    BY DEF Expire
  <2>2. ASSUME cache[c] = Tombstone PROVE FALSE
    <3>1. cache[c].tag = "tombstone" /\ ~IsLock(cache[c])
      BY <2>2, EntryOK DEF IsLock
    <3>2. Outlived(c) = \A p \in Procs : Running(p) => op[p].kind \in Reads /\ op[p].pc = "locked"
      BY <3>1 DEF Outlived
    <3> QED
      BY <2>1, <3>2 DEF Reads
  <2>3. ASSUME cache[c] = LockEntry(o.s) PROVE FALSE
    <3>1. cache[c].tag = "lock" /\ cache[c].s = o.s
      BY <2>3 DEF LockEntry
    <3>2. \A p \in Procs : Running(p) => op[p].s # cache[c].s
      BY <2>1, <3>1 DEF Outlived, IsLock
    <3> QED
      BY <1>1, <3>1, <3>2
  <2> QED
    BY <2>2, <2>3
<1>5. \A x \in Objects \cup Edges : Gone(cache, x) => Gone(cache', x)
  BY <1>3, <1>4, DependencyKeys DEF Gone
<1>6. \A k \in AllKeys : cache[k] \in {LockEntry(o.s), Tombstone} => cache'[k] = cache[k]
  BY <1>3, <1>4
<1>7. EdgesKey \in AllKeys /\ PrimaryKey(o.on) \in AllKeys
  BY <1>2, KeysOfEdge
<1>8. Source[o.on] \in Objects /\ Target[o.on] \in Objects
  BY <1>2
<1>9. Spares(o)
  BY <1>5, <1>6, <1>7, <1>8 DEF Spares, DeleteHeld
<1> QED
  BY <1>1, <1>9

LEMMA DeletesGo ==
  ASSUME Inv, Orderly, DeletesOK, NEW p \in Procs, NEW n, op' = [op EXCEPT ![p] = n],
         n # Idle => DeleteHeld(n, cache'),
         \A q \in Procs : Beside(p, q) => Spares(op[q])
  PROVE  DeletesOK'
<1> SUFFICES ASSUME NEW q \in Procs, op'[q] # Idle PROVE DeleteHeld(op'[q], cache')
  BY DEF DeletesOK, Running
<1>1. op'[q] = IF q = p THEN n ELSE op[q]
  BY DEF Inv, TypeOK
<1>2. CASE q = p
  BY <1>1, <1>2
<1>3. CASE q # p
  <2>1. op'[q] = op[q] /\ Running(q) /\ DeleteHeld(op[q], cache)
    BY <1>1, <1>3 DEF DeletesOK, Running
  <2>2. CASE op[q].kind = "deleteEdge" /\ op[q].pc \in {"tombstoning", "locked"}
    <3>1. Mutating(q)
      BY <2>1, <2>2 DEF Mutating, Mutations
    <3>2. Beside(p, q)
      BY <1>3, <2>1, <2>2, <3>1 DEF Beside, Orderly
    <3> QED
      BY <2>1, <3>2 DEF Spares
  <2>3. CASE ~(op[q].kind = "deleteEdge" /\ op[q].pc \in {"tombstoning", "locked"})
    BY <2>1, <2>3 DEF DeleteHeld
  <2> QED
    BY <2>2, <2>3
<1> QED
  BY <1>2, <1>3

LEMMA OnwardSpares ==
  ASSUME Inv, NEW p \in Procs, Onward(p), NEW q \in Procs, Beside(p, q)
  PROVE  Spares(op[q])
<1>1. CASE ServeRead(p) \/ FailRead(p) \/ ServeMutation(p) \/ FailMutation(p)
  <2>1. cache' = cache
    BY <1>1 DEF ServeRead, FailRead, ServeMutation, FailMutation
  <2> QED
    BY <2>1, SparesAll
<1>2. CASE ClearCollections(p) \/ Unlink(p) \/ StoreObject(p)
  <2>1. Running(p) /\ op[p].kind \in {"createEdge", "updateObject"}
    <3>1. op[p].pc \in {"clearing", "unlinking"} \/ op[p].kind = "updateObject"
      BY <1>2 DEF ClearCollections, Unlink, StoreObject
    <3>2. Running(p) /\ Shaped(op[p])
      BY <1>2, InvRunning DEF ClearCollections, Unlink, StoreObject, Steps
    <3> QED
      BY <3>1, <3>2 DEF Shaped
  <2>2. Mutating(p)
    BY <2>1 DEF Mutating, Mutations
  <2> QED
    BY <2>1, <2>2 DEF Beside
<1>3. CASE LinkCollection(p)
  BY <1>3, LinkCollectionSpares
<1>4. CASE StoreCollection(p)
  BY <1>4, StoreCollectionSpares
<1>5. CASE StoreEdge(p)
  BY <1>5, StoreEdgeSpares
<1>6. CASE LinkEdge(p) \/ LinkName(p)
  BY <1>6, LinkEdgeSpares
<1>7. CASE UndoSave(p)
  BY <1>7, UndoSaveSpares
<1>8. CASE Close(p)
  BY <1>8, CloseSpares
<1> QED
  BY <1>1, <1>2, <1>3, <1>4, <1>5, <1>6, <1>7, <1>8 DEF Onward

(* A DeleteEdge that takes its lock has it under both keys.                *)
LEMMA DeleteTakes ==
  ASSUME Inv, Kept, Orderly, NEW p \in Procs, TakeLock(p), op[p].kind = "deleteEdge",
         NEW n, op' = [op EXCEPT ![p] = n]
  PROVE  DeleteHeld(n, cache')
<1> DEFINE lks == LockedKeys(op[p])
           e == op[p].on
           ks == Lockable(cache, lks)
<1>1. Running(p) /\ op[p] \in Op /\ e \in Edges /\ op[p].pc = "locking"
  <2>1. Running(p) /\ op[p] \in Op /\ Shaped(op[p]) /\ op[p].pc = "locking"
    BY InvRunning DEF TakeLock, Steps
  <2> QED
    BY <2>1 DEF Shaped
<1>2. PICK s \in FreshSentinel("delete") :
        /\ cache' = WriteSentinel(cache, s, lks)
        /\ op' = [op EXCEPT ![p].s = Granted(cache, s, lks), ![p].pc = "tombstoning"]
  BY DEF TakeLock, SentinelOf
<1>3. s \in Sentinel /\ s.kind = "delete"
  BY <1>2, FreshIs DEF Kinds
<1>4. lks[1] = PrimaryKey(e) /\ 2 \in 2 .. Len(lks) /\ lks[2] = EdgesKey
  BY DeleteEdgeLocks
<1>5. \A q \in Procs : q # p /\ Mutating(q) => op[q].kind # "deleteEdge" \/ op[q].on # e
  BY <1>1 DEF Orderly, Mutating, Mutations
<1> HIDE DEF lks
<1>6. ~Unavailable(cache, s, lks) /\ Granted(cache, s, lks) = s
  <2>1. PICK f \in Edges : f = e
    BY <1>1
  <2>2. PICK ms : ms = lks
    OBVIOUS
  <2>3. ms[1] = PrimaryKey(f) /\ s.kind # "read"
    BY <1>3, <1>4, <2>1, <2>2
  <2>4. ~Unavailable(cache, s, ms) /\ Granted(cache, s, ms) = s
    BY <1>1, <1>3, <1>5, <2>1, <2>3, LockGranted
  <2> QED
    BY <2>2, <2>4
<1>7. PrimaryKey(e) \in ks /\ EdgesKey \in ks
  <2>1. cache[EdgesKey].tag \notin {"tombstone", "list"}
    BY DEF Kept, Edged
  <2> QED
    BY <1>4, <2>1 DEF Lockable
<1> HIDE DEF ks
<1>8. cache' = Put(cache, ks, LockEntry(s)) /\ LockEntry(s) \in Entry
  BY <1>2, <1>3, <1>6, EntryOK DEF WriteSentinel, ks
<1>9. cache'[PrimaryKey(e)] = LockEntry(s) /\ cache'[EdgesKey] = LockEntry(s)
  BY <1>1, <1>7, <1>8, PutType, KeysOfEdge DEF Inv, TypeOK
<1>10. op'[p] = n /\ op'[p] = [op[p] EXCEPT !.s = s, !.pc = "tombstoning"]
  BY <1>2, <1>6 DEF Inv, TypeOK
<1>11. n.s = s /\ n.on = e
  BY <1>1, <1>10 DEF Op
<1>12. s # NoLock
  BY <1>3 DEF Sentinel, NoLock, Kinds
<1> QED
  BY <1>9, <1>11, <1>12 DEF DeleteHeld

LEMMA DeletesNext == Inv /\ Kept /\ Orderly /\ DeletesOK /\ [Next]_vars => DeletesOK'
<1> SUFFICES ASSUME Inv, Kept, Orderly, DeletesOK, [Next]_vars PROVE DeletesOK'
  OBVIOUS
<1>1. ASSUME NEW p \in Procs, Onward(p) PROVE DeletesOK'
  <2>1. PICK n : /\ op' = [op EXCEPT ![p] = n]
                 /\ n # Idle => n.pc \notin {"locking", "tombstoning", "locked"}
    BY <1>1, OnwardIs
  <2>2. n # Idle => DeleteHeld(n, cache')
    BY <2>1 DEF DeleteHeld
  <2>3. \A q \in Procs : Beside(p, q) => Spares(op[q])
    BY <1>1, OnwardSpares
  <2> QED
    BY <2>1, <2>2, <2>3, DeletesGo
<1>2. ASSUME NEW p \in Procs, NEW kind, NEW x, NEW pc, NEW s, NEW known, Begin(p, kind, x, pc, s, known),
             kind # "deleteEdge" \/ pc = "locking",
             \A q \in Procs : Beside(p, q) => Spares(op[q])
      PROVE  DeletesOK'
  <2> DEFINE n == [kind |-> kind, on |-> x, pc |-> pc, s |-> s, val |-> {}, known |-> known]
  <2>1. op' = [op EXCEPT ![p] = n] /\ DeleteHeld(n, cache')
    BY <1>2 DEF Begin, DeleteHeld
  <2> HIDE DEF n
  <2> QED
    BY <1>2, <2>1, DeletesGo
<1>3. ASSUME NEW p \in Procs, NEW kind \in Reads \cap Calls, NEW x \in ReadTargets(kind), Miss(p, kind, x)
      PROVE  DeletesOK'
  <2>1. PICK s \in FreshSentinel("read") : Begin(p, kind, x, "locked", s, FALSE)
    BY <1>3 DEF Miss
  <2>2. \A q \in Procs : Beside(p, q) => Spares(op[q])
    BY <1>3, MissSpares
  <2> QED
    BY <1>2, <2>1, <2>2 DEF Reads
<1>4. ASSUME NEW p \in Procs, NEW kind, NEW x, StartMutation(p, kind, x) PROVE DeletesOK'
  <2> DEFINE known == kind = "deleteEdge" /\ cache[PrimaryKey(x)].tag = "item"
  <2>1. PICK k : k = known
    OBVIOUS
  <2>2. Begin(p, kind, x, "locking", NoLock, k) /\ cache' = cache
    BY <1>4, <2>1 DEF StartMutation
  <2>3. \A q \in Procs : Spares(op[q])
    BY <2>2, SparesAll
  <2> QED
    BY <1>2, <2>2, <2>3
<1>5. ASSUME NEW p \in Procs, TakeLock(p) PROVE DeletesOK'
  <2>1. PICK s, pc : op' = [op EXCEPT ![p].s = s, ![p].pc = pc]
    BY <1>5 DEF TakeLock
  <2> DEFINE n == [op[p] EXCEPT !.s = s, !.pc = pc]
  <2>2. op[p] \in Op
    BY <1>5, InvRunning DEF TakeLock, Steps
  <2>3. op' = [op EXCEPT ![p] = n] /\ n.kind = op[p].kind
    BY <2>1, <2>2 DEF Op
  <2>4. PICK m : m = n
    OBVIOUS
  <2>5. op' = [op EXCEPT ![p] = m] /\ m.kind = op[p].kind
    BY <2>3, <2>4
  <2>6. DeleteHeld(m, cache')
    <3>1. CASE op[p].kind = "deleteEdge"
      BY <1>5, <2>5, <3>1, DeleteTakes
    <3>2. CASE op[p].kind # "deleteEdge"
      BY <2>5, <3>2 DEF DeleteHeld
    <3> QED
      BY <3>1, <3>2
  <2>7. \A q \in Procs : Beside(p, q) => Spares(op[q])
    BY <1>5, TakeLockSpares
  <2> QED
    BY <2>5, <2>6, <2>7, DeletesGo
<1>6. ASSUME NEW p \in Procs, TombstoneList(p) PROVE DeletesOK'
  <2>1. Running(p) /\ op[p] \in Op /\ Shaped(op[p]) /\ op[p].pc = "tombstoning"
    BY <1>6, InvRunning DEF TombstoneList, Steps
  <2>2. PICK y \in Objects \cup Edges : y = op[p].on
    BY <2>1 DEF Shaped, Deletes
  <2>3. cache' = ClearDependencies(cache, DependencyKey(y), TRUE)
    BY <1>6, <2>2 DEF TombstoneList
  <2>4. ASSUME NEW q \in Procs, Running(q) PROVE Spares(op[q])
    <3>1. PICK o : o = op[q]
      OBVIOUS
    <3>2. o.kind = "deleteEdge" => o.on \in Edges
      BY <2>4, <3>1 DEF Inv, Shaped
    <3>3. Spares(o)
      BY <2>3, <3>2, TombstoneSpares
    <3> QED
      BY <3>1, <3>3
  <2> DEFINE n == [op[p] EXCEPT !.pc = "locked"]
  <2>5. op' = [op EXCEPT ![p] = n]
    BY <1>6 DEF TombstoneList, Go
  <2>6. n.kind = op[p].kind /\ n.on = op[p].on /\ n.s = op[p].s
    BY <2>1 DEF Op
  <2>7. DeleteHeld(n, cache')
    <3>1. DeleteHeld(op[p], cache')
      BY <2>1, <2>4 DEF DeletesOK, Spares
    <3> HIDE DEF n
    <3> QED
      BY <2>1, <2>6, <3>1 DEF DeleteHeld
  <2> HIDE DEF n
  <2>8. \A q \in Procs : Beside(p, q) => Spares(op[q])
    BY <2>4 DEF Beside
  <2> QED
    BY <2>5, <2>7, <2>8, DeletesGo
<1>7. CASE UNCHANGED vars
  BY <1>7 DEF vars, DeletesOK, Running
<1>8. CASE FlushCache
  <2>1. op' = op /\ \A p \in Procs : ~Mutating(p)
    BY <1>8 DEF FlushCache
  <2>2. \A p \in Procs : Running(p) => op[p].kind # "deleteEdge"
    BY <2>1 DEF Mutating, Mutations
  <2> QED
    BY <2>1, <2>2 DEF DeletesOK, DeleteHeld, Running
<1>9. ASSUME NEW c \in AllKeys, Expire(c) PROVE DeletesOK'
  <2>1. op' = op
    BY <1>9 DEF Expire
  <2> SUFFICES ASSUME NEW q \in Procs, Running(q) PROVE DeleteHeld(op[q], cache')
    BY <2>1 DEF DeletesOK, Running
  <2>2. DeleteHeld(op[q], cache)
    BY DEF DeletesOK
  <2>3. CASE op[q].kind = "deleteEdge" /\ op[q].pc \in {"tombstoning", "locked"}
    BY <1>9, <2>2, <2>3, ExpireSpares DEF Spares
  <2>4. CASE ~(op[q].kind = "deleteEdge" /\ op[q].pc \in {"tombstoning", "locked"})
    BY <2>4 DEF DeleteHeld
  <2> QED
    BY <2>3, <2>4
<1> QED
  BY <1>1, <1>3, <1>4, <1>5, <1>6, <1>7, <1>8, <1>9 DEF Next, Step, Onward

-----------------------------------------------------------------------------
LEMMA InitKept == Init => Kept /\ EdgesKnown /\ Complete /\ CreatesLocked /\ DeletesOK
<1> SUFFICES ASSUME Init PROVE Kept /\ EdgesKnown /\ Complete /\ CreatesLocked /\ DeletesOK
  OBVIOUS
<1>1. (\A p \in Procs : op[p] = Idle) /\ \A k \in AllKeys : cache[k] = EmptyEntry
  BY DEF Init
<1>2. EmptyEntry.tag = "empty" /\ \A k \in Storable \cup {EdgesKey} : k \in AllKeys
  BY EntryOK, StorableKeys DEF AllKeys
<1>3. \A k \in Storable \cup {EdgesKey} : cache[k].tag = "empty"
  BY <1>1, <1>2
<1>4. \A e \in Edges : PrimaryKey(e) \in Storable /\ \A k \in KeysOf(e) : k \in EdgeKeys /\ k \in Storable
  BY KeysOfEdge, EdgeKeysApart DEF Storable
<1>5. \A x \in Objects \cup Edges : Listed(cache, DependencyKey(x)) = {}
  BY <1>1, <1>2, DependencyKeys DEF Listed
<1>6. \A e \in Edges : \A k \in KeysOf(e) : cache[k] # ItemEntry({e})
  BY <1>3, <1>4 DEF ItemEntry
<1>7. Edged
  <2>1. EdgesFit
    BY <1>3 DEF EdgesFit, Storable
  <2>2. EdgesTied
    BY <1>6 DEF EdgesTied
  <2> QED
    BY <1>1, <1>3, <1>5, <2>1, <2>2 DEF Edged, Running
<1>8. DeleteLocks
  BY <1>3, <1>4 DEF DeleteLocks, IsLock
<1>9. EdgesKnown
  BY <1>6 DEF EdgesKnown
<1>10. Complete
  <2>1. \A k \in Collections : cache[k].tag = "empty"
    BY <1>3 DEF Storable, Gatherings
  <2> QED
    BY <1>1, <2>1 DEF Complete, ListersOK, ListedOK, CalledOK, Gathering
<1> QED
  BY <1>1, <1>7, <1>8, <1>9, <1>10 DEF Kept, CreatesLocked, DeletesOK, Running

(* A step keeps what is known of the edges and of the collections, if the  *)
(* locks of what it mutates are held.                                      *)
Succeeds ==
  /\ Kept'
  /\ EdgesKnown /\ DeletesOK /\ Objects \cap Edges = {} => EdgesKnown'
  /\ Complete /\ CreatesLocked /\ NoBypass /\ ~Filtered => Complete'

LEMMA NextKept == Inv /\ Kept /\ [Next]_vars => Succeeds
<1> SUFFICES ASSUME Inv, Kept, [Next]_vars PROVE Succeeds
  OBVIOUS
<1>1. Follows => Succeeds
  BY DEF Follows, Succeeds
<1>2. CASE UNCHANGED vars
  <2>1. Kept' /\ (EdgesKnown => EdgesKnown')
    BY <1>2 DEF vars, Kept, Edged, EdgesFit, EdgesTied, DeleteLocks, EdgesKnown, Running
  <2>2. Complete => Complete'
    BY <1>2 DEF vars, Complete, ListersOK, ListedOK, CalledOK, Awaited, Holds
  <2> QED
    BY <2>1, <2>2 DEF Succeeds
<1>3. CASE Next
  <2>1. Step /\ Calls' = Calls
    BY <1>3 DEF Next
  <2>2. ASSUME NEW p \in Procs, NEW kind \in Reads \cap Calls, NEW x \in ReadTargets(kind),
               Miss(p, kind, x)
        PROVE  Succeeds
    BY <1>1, <2>1, <2>2, MissFollows
  <2>3. ASSUME NEW p \in Procs, NEW kind \in Mutations \cap Calls, NEW x \in Edges \cup Subjects,
               StartMutation(p, kind, x)
        PROVE  Succeeds
    BY <1>1, <2>1, <2>3, StartMutationFollows
  <2>4. ASSUME NEW p \in Procs, FailRead(p) \/ LinkCollection(p) \/ StoreCollection(p)
        PROVE  Succeeds
    BY <1>1, <2>1, <2>4, FailReadFollows, LinkCollectionFollows, StoreCollectionFollows
  <2>5. ASSUME NEW p \in Procs, \/ ClearCollections(p) \/ Unlink(p)
                                \/ LinkEdge(p) \/ LinkName(p) \/ UndoSave(p)
        PROVE  Succeeds
    BY <1>1, <2>1, <2>5, ClearCollectionsFollows, UnlinkFollows, LinkEdgeFollows, LinkNameFollows,
       UndoSaveFollows
  <2>6. ASSUME NEW p \in Procs, TakeLock(p) \/ TombstoneList(p) \/ StoreObject(p) \/ Close(p)
        PROVE  Succeeds
    BY <1>1, <2>1, <2>6, TakeLockFollows, TombstoneListFollows, StoreObjectFollows, CloseFollows
  <2>7. ASSUME NEW p \in Procs, StoreEdge(p) PROVE Succeeds
    <3>1. op[p].pc = "answered" /\ Running(p)
      BY <2>7, InvRunning DEF StoreEdge, Steps
    <3>2. CreatesLocked => (op[p].kind = "createEdge" => op[p].s # NoLock)
      BY <3>1 DEF CreatesLocked, CreateLocked
    <3> QED
      BY <2>1, <2>7, <3>2, StoreEdgeFollows DEF Succeeds
  <2>8. ASSUME NEW p \in Procs, ServeRead(p) \/ ServeMutation(p) \/ FailMutation(p) PROVE Succeeds
    BY <2>1, <2>8, ServeReadFollows, ServeMutationFollows, FailMutationFollows DEF Succeeds
  <2>9. CASE FlushCache
    BY <1>1, <2>1, <2>9, FlushFollows
  <2>10. CASE \E k \in AllKeys : Expire(k)
    BY <1>1, <2>1, <2>10, ExpireFollows
  <2> QED
    BY <2>1, <2>2, <2>3, <2>4, <2>5, <2>6, <2>7, <2>8, <2>9, <2>10 DEF Step
<1> QED
  BY <1>2, <1>3

(* Once no mutation is in flight no collection waits to be cleared and,    *)
(* with no save half done, no edge to be taken out.                        *)
CollectionsCoherent ==
  \A k \in Collections : cache[k].tag = "item" => cache[k].val = db \cap Members(k)

LEMMA CompleteWhenQuiet == Inv /\ Complete /\ Settled => CollectionsCoherent
<1> SUFFICES ASSUME Inv, Complete, Settled, NEW k \in Collections, cache[k].tag = "item"
             PROVE  cache[k].val = db \cap Members(k)
  BY DEF CollectionsCoherent
<1>1. \A e : ~Awaited(e)
  BY DEF Awaited, Awaiting, Settled, Mutating, Running, Mutations
<1>2. cache[k].val \subseteq db
  BY DEF Inv, CachedOK, Gatherings
<1>3. /\ cache[k].val \subseteq Members(k)
      /\ \A e \in db \cap Members(k) : e \in cache[k].val
  BY <1>1 DEF Complete, ListedOK
<1> QED
  BY <1>2, <1>3

LEMMA KnownWhenQuiet ==
  Inv /\ Kept /\ EdgesKnown /\ Settled =>
    \A k \in EdgeKeys \cup Paths : cache[k].tag = "item" => cache[k].val \subseteq db
<1> SUFFICES ASSUME Inv, Kept, EdgesKnown, Settled, NEW k \in EdgeKeys \cup Paths, cache[k].tag = "item"
             PROVE  cache[k].val \subseteq db
  OBVIOUS
<1>1. CASE k \in Paths
  BY <1>1 DEF Inv, CachedOK, Gatherings
<1>2. CASE k \in EdgeKeys
  <2>1. PICK e \in Edges : k \in KeysOf(e) /\ cache[k] = ItemEntry({e})
    BY <1>2 DEF Kept, Edged, EdgesFit
  <2>2. ASSUME NEW p \in Procs, NEW f PROVE ~Doomed(op[p], cache, f)
    <3>1. op[p] # Idle => /\ op[p].pc \notin {"linking", "selfLinking", "undoing"}
                          /\ op[p].kind \notin Mutations
      BY DEF Settled, Mutating, Running
    <3>2. op[p] # Idle => op[p].pc \notin {"clearing", "unlinking"}
      BY <3>1 DEF Inv, Shaped, Mutations, Running
    <3> QED
      BY <3>1, <3>2 DEF Doomed, Pending, Saving
  <2>3. e \in db
    BY <2>1, <2>2 DEF EdgesKnown
  <2> QED
    BY <2>1, <2>3 DEF ItemEntry
<1> QED
  BY <1>1, <1>2

LEMMA ListsWholeIfApart ==
  ASSUME NoBypass, ~Filtered
  PROVE  Spec /\ []Apart => [](Settled => CollectionsCoherent)
<1> DEFINE J == Inv /\ Kept /\ Complete /\ CreatesLocked
<1>1. Init => J
  BY InitInv, InitKept
<1>2. J /\ Apart /\ [Next]_vars => J'
  BY NextInv, NextKept, CreatesLockedNext DEF Succeeds
<1>3. J => (Settled => CollectionsCoherent)
  BY CompleteWhenQuiet
<1> HIDE DEF J
<1> QED
  BY <1>1, <1>2, <1>3, PTL DEF Spec

(* Mutations start only as MayMutate allows. *)
LEMMA MutatesBefore ==
  ASSUME Inv, [Next]_vars,
         \A p \in Procs : \A kind, x : ~StartMutation(p, kind, x),
         NEW p \in Procs, Mutating(p)'
  PROVE  Mutating(p) /\ op'[p].kind = op[p].kind /\ op'[p].on = op[p].on
<1>1. CASE op' = op
  BY <1>1 DEF Mutating, Running
<1>2. ASSUME NEW q \in Procs, NEW n, op' = [op EXCEPT ![q] = n],
             n # Idle /\ n.kind \in Mutations =>
               Running(q) /\ n.kind = op[q].kind /\ n.on = op[q].on
      PROVE  Mutating(p) /\ op'[p].kind = op[p].kind /\ op'[p].on = op[p].on
  <2>1. op'[p] = IF p = q THEN n ELSE op[p]
    BY <1>2 DEF Inv, TypeOK
  <2> QED
    BY <1>2, <2>1 DEF Mutating, Running
<1>3. ASSUME NEW q \in Procs, Onward(q)
      PROVE  Mutating(p) /\ op'[p].kind = op[p].kind /\ op'[p].on = op[p].on
  <2>1. PICK n : /\ op' = [op EXCEPT ![q] = n]
                 /\ n # Idle => n.kind = op[q].kind /\ n.on = op[q].on
    BY <1>3, OnwardIs
  <2>2. Running(q)
    BY <1>3, OnwardIs
  <2> QED
    BY <1>2, <2>1, <2>2
<1>4. ASSUME NEW q \in Procs, NEW kind \in Reads \cap Calls, NEW x \in ReadTargets(kind), Miss(q, kind, x)
      PROVE  Mutating(p) /\ op'[p].kind = op[p].kind /\ op'[p].on = op[p].on
  <2>1. PICK s : Begin(q, kind, x, "locked", s, FALSE)
    BY <1>4 DEF Miss
  <2> DEFINE n == [kind |-> kind, on |-> x, pc |-> "locked", s |-> s, val |-> {}, known |-> FALSE]
  <2>2. op' = [op EXCEPT ![q] = n] /\ n.kind \notin Mutations
    BY <2>1 DEF Begin, Reads, Mutations
  <2> HIDE DEF n
  <2> QED
    BY <1>2, <2>2
<1>5. ASSUME NEW q \in Procs, TakeLock(q) \/ TombstoneList(q)
      PROVE  Mutating(p) /\ op'[p].kind = op[p].kind /\ op'[p].on = op[p].on
  <2>1. Running(q) /\ op[q] \in Op
    BY <1>5, InvRunning DEF TakeLock, TombstoneList, Steps
  <2>2. \E s, pc : op' = [op EXCEPT ![q] = [op[q] EXCEPT !.s = s, !.pc = pc]]
    <3>1. CASE TakeLock(q)
      BY <3>1 DEF TakeLock
    <3>2. CASE TombstoneList(q)
      <4>1. [op[q] EXCEPT !.pc = "locked"] = [op[q] EXCEPT !.s = op[q].s, !.pc = "locked"]
        BY <2>1 DEF Op
      <4> QED
        BY <3>2, <4>1 DEF TombstoneList, Go
    <3> QED
      BY <1>5, <3>1, <3>2
  <2>3. PICK s, pc : op' = [op EXCEPT ![q] = [op[q] EXCEPT !.s = s, !.pc = pc]]
    BY <2>2
  <2> DEFINE n == [op[q] EXCEPT !.s = s, !.pc = pc]
  <2>4. op' = [op EXCEPT ![q] = n] /\ n.kind = op[q].kind /\ n.on = op[q].on
    BY <2>1, <2>3 DEF Op
  <2> HIDE DEF n
  <2> QED
    BY <1>2, <2>1, <2>4
<1>6. CASE UNCHANGED vars
  BY <1>1, <1>6 DEF vars
<1>7. CASE FlushCache \/ \E c \in AllKeys : Expire(c)
  BY <1>1, <1>7 DEF FlushCache, Expire
<1> QED
  BY <1>3, <1>4, <1>5, <1>6, <1>7 DEF Next, Step, Onward

LEMMA StartsOne ==
  ASSUME Inv, NEW p \in Procs, NEW kind, NEW x, StartMutation(p, kind, x)
  PROVE  /\ MayMutate(kind, x)
         /\ \A q \in Procs : Mutating(q)' =>
              \/ q = p /\ ~Mutating(p) /\ op'[q].kind = kind /\ op'[q].on = x
              \/ q # p /\ Mutating(q) /\ op'[q] = op[q]
<1> DEFINE known == kind = "deleteEdge" /\ cache[PrimaryKey(x)].tag = "item"
<1>1. MayMutate(kind, x) /\ Begin(p, kind, x, "locking", NoLock, known)
  BY DEF StartMutation
<1> DEFINE n == [kind |-> kind, on |-> x, pc |-> "locking", s |-> NoLock, val |-> {}, known |-> known]
<1>2. op[p] = Idle /\ op' = [op EXCEPT ![p] = n] /\ n.kind = kind /\ n.on = x
  BY <1>1 DEF Begin
<1> HIDE DEF n, known
<1>3. \A q \in Procs : op'[q] = IF q = p THEN n ELSE op[q]
  BY <1>2 DEF Inv, TypeOK
<1> QED
  BY <1>1, <1>2, <1>3 DEF Mutating, Running

(* Without rivals no edge is created and deleted at the same time. *)
LEMMA ApartNext == ~Rivals /\ Inv /\ Apart /\ [Next]_vars => Apart'
<1> SUFFICES ASSUME ~Rivals, Inv, Apart, [Next]_vars PROVE Apart'
  OBVIOUS
<1>1. CASE \A p \in Procs : \A kind, x : ~StartMutation(p, kind, x)
  BY <1>1, MutatesBefore DEF Apart
<1>2. ASSUME NEW p \in Procs, NEW kind, NEW x, StartMutation(p, kind, x)
      PROVE  Apart'
  <2>1. /\ MayMutate(kind, x)
        /\ \A q \in Procs : Mutating(q)' =>
             \/ q = p /\ ~Mutating(p) /\ op'[q].kind = kind /\ op'[q].on = x
             \/ q # p /\ Mutating(q) /\ op'[q] = op[q]
    BY <1>2, StartsOne
  <2>2. \A q \in Procs : Mutating(q) => x \notin Edges \/ op[q].on # x
    BY <2>1 DEF MayMutate
  <2>3. kind \in {"createEdge", "deleteEdge"} => x \in Edges
    BY <1>2 DEF StartMutation
  <2> SUFFICES ASSUME NEW q \in Procs, NEW r \in Procs, Mutating(q)', Mutating(r)',
                      op'[q].kind = "createEdge", op'[r].kind = "deleteEdge"
               PROVE  op'[q].on # op'[r].on
    BY DEF Apart
  <2> QED
    BY <2>1, <2>2, <2>3 DEF Apart
<1> QED
  BY <1>1, <1>2

(* One mutation at a time. *)
AtMostOne == \A p, q \in Procs : Mutating(p) /\ Mutating(q) => p = q

LEMMA AtMostOneNext == MaxMutators <= 1 /\ Inv /\ AtMostOne /\ [Next]_vars => AtMostOne'
<1> SUFFICES ASSUME MaxMutators <= 1, Inv, AtMostOne, [Next]_vars PROVE AtMostOne'
  OBVIOUS
<1>1. CASE \A p \in Procs : \A kind, x : ~StartMutation(p, kind, x)
  BY <1>1, MutatesBefore DEF AtMostOne
<1>2. ASSUME NEW p \in Procs, NEW kind, NEW x, StartMutation(p, kind, x)
      PROVE  AtMostOne'
  <2> DEFINE S == {q \in Procs : Mutating(q)}
  <2>1. Cardinality(S) < MaxMutators
    BY <1>2, StartsOne DEF MayMutate
  <2>2. IsFiniteSet(S) /\ Cardinality(S) \in Nat
    BY FS_Subset, FS_CardinalityType
  <2>3. Cardinality(S) = 0
    BY <2>1, <2>2
  <2>4. S = {}
    BY <2>2, <2>3, FS_EmptySet
  <2>5. \A q \in Procs : ~Mutating(q)
    BY <2>4
  <2> QED
    BY <1>2, <2>5, StartsOne DEF AtMostOne
<1> QED
  BY <1>1, <1>2

(* Only what the mix has is called. *)
MutatesAsCalled == \A p \in Procs : Mutating(p) => op[p].kind \in Calls

LEMMA MutatesAsCalledNext == Inv /\ MutatesAsCalled /\ [Next]_vars => MutatesAsCalled'
<1> SUFFICES ASSUME Inv, MutatesAsCalled, [Next]_vars, NEW p \in Procs, Mutating(p)'
             PROVE  op'[p].kind \in Calls'
  BY DEF MutatesAsCalled
<1>1. Calls' = Calls
  BY DEF Next, vars
<1>2. CASE \A q \in Procs : \A kind, x : ~StartMutation(q, kind, x)
  <2>1. Mutating(p) /\ op'[p].kind = op[p].kind
    BY <1>2, MutatesBefore
  <2> QED
    BY <1>1, <2>1 DEF MutatesAsCalled
<1>3. ASSUME NEW q \in Procs, NEW kind, NEW x, StartMutation(q, kind, x)
      PROVE  op'[p].kind \in Calls
  <2>1. \/ op'[p].kind = kind
        \/ Mutating(p) /\ op'[p] = op[p]
    BY <1>3, StartsOne
  <2>2. kind \in Calls
    BY <1>3, StartsOne DEF MayMutate
  <2> QED
    BY <2>1, <2>2 DEF MutatesAsCalled
<1> QED
  BY <1>1, <1>2, <1>3

(* A cached list of edges shows all there are as soon as no mutation is in *)
(* flight, any number having overlapped, while no two are of one edge, no  *)
(* create goes past the cache where lists are read and nobody lists by a   *)
(* filter, whose answer is stored as if it were all: CreateEdge clears     *)
(* the collections of its edge after the server has it                     *)
(* (saveItemToCacheWorker), and a list that was read before has lost its   *)
(* lock by then or is cleared.                                             *)
THEOREM ListsWholeWhenQuiet ==
  ASSUME NoBypass, ~Rivals, ~Filtered
  PROVE  Spec => [](Settled => CollectionsCoherent)
<1>1. Init => Inv /\ Apart
  BY InitInv DEF Init, Apart, Mutating, Running
<1>2. Inv /\ Apart /\ [Next]_vars => Inv' /\ Apart'
  BY NextInv, ApartNext
<1> QED
  BY <1>1, <1>2, ListsWholeIfApart, PTL DEF Spec

(* And all the cache holds is what the server has, edges and paths too,    *)
(* while beside a DeleteEdge nothing is in flight but the deletes of       *)
(* objects and of their edges (and lists are again of all there is): what  *)
(* a GetEdge or FindEdge brings back                                       *)
(* after the edge was cleared it takes out again, as it finds no list to   *)
(* enter it in (saveItemToCacheWorker).                                    *)
THEOREM CoherentIfOrderly ==
  ASSUME NoBypass, ~Filtered, Objects \cap Edges = {}
  PROVE  Spec /\ []Orderly => []CoherentWhenQuiet
<1> DEFINE J == Inv /\ Kept /\ EdgesKnown /\ Complete /\ CreatesLocked /\ DeletesOK
<1>1. Init => J
  BY InitInv, InitKept
<1>2. J /\ Orderly /\ [Next]_vars => J'
  BY NextInv, NextKept, CreatesLockedNext, DeletesNext, OrderlyApart DEF Succeeds
<1>3. J => CoherentWhenQuiet
  BY CompleteWhenQuiet, KnownWhenQuiet DEF CoherentWhenQuiet, CollectionsCoherent
<1> HIDE DEF J
<1> QED
  BY <1>1, <1>2, <1>3, PTL DEF Spec

(* So it is whenever mutations come one at a time, and reads as they like, *)
(* or when no single edge is deleted (authz/client.go).                    *)
THEOREM QuietCoherence ==
  ASSUME NoBypass, ~Filtered, Objects \cap Edges = {},
         MaxMutators <= 1 \/ \A mix \in Mixes : "deleteEdge" \notin mix
  PROVE  Spec => []CoherentWhenQuiet
<1> DEFINE J == Inv /\ MutatesAsCalled /\ (MaxMutators <= 1 => AtMostOne)
<1>1. Init => J
  BY InitInv DEF Init, AtMostOne, MutatesAsCalled, Mutating, Running
<1>2. J /\ [Next]_vars => J'
  BY NextInv, AtMostOneNext, MutatesAsCalledNext
<1>3. J => Orderly
  BY DEF Inv, TypeOK, Orderly, AtMostOne, MutatesAsCalled
<1> HIDE DEF J
<1> QED
  BY <1>1, <1>2, <1>3, CoherentIfOrderly, PTL DEF Spec
=============================================================================
