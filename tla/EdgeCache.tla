----------------------------- MODULE EdgeCache -----------------------------
(***************************************************************************)
(* Edges, the collections they appear in and the objects they hang from,   *)
(* in the cache of the authorization client: GetEdge, FindEdge, CreateEdge *)
(* and DeleteEdge, the reads of collections (ListEdgesOnObject,            *)
(* ListEdgesBetweenObjects, CheckAttribute), and what UpdateObject,        *)
(* DeleteObject and DeleteEdgesByObject do to the edges of an object.      *)
(*                                                                         *)
(* An edge is stored under its primary key and under its full name, a      *)
(* collection under a key of its own.  What has to go when an object or an *)
(* edge goes is in the list under its dependency key, which is tombstoned  *)
(* while it is deleted.  Every call of the provider is one step.           *)
(*                                                                         *)
(* The objects themselves, their names and collections are left out        *)
(* (ItemCache has items with one key), and so are the keys that only mark  *)
(* recent changes for follower reads, which this client never looks at.    *)
(***************************************************************************)
EXTENDS Naturals, Sequences, FiniteSets

CONSTANTS Procs,                 \* callers
          Ids,                   \* the uuids sentinels are made from
          Objects, Edges,
          Source, Target, Type,  \* of each edge
          Subjects,              \* the objects somebody asks about or changes,
          Pairs,                 \* and the pairs of them somebody asks about
          Mixes,                 \* bound: which kinds of call are made together
          Faults,                \* the faults of this instance
          MaxMutators,           \* bound: mutations in flight
          Rivals,                \* and whether two may be of the same edge
          Filtered               \* whether an object's edges may be asked for by a filter

Reads == {"getEdge", "findEdge", "listEdges", "listEdgesBetween", "checkAttribute"}
Collecting == {"listEdges", "listEdgesBetween", "checkAttribute"}
Mutations == {"createEdge", "createEdgeBypass", "deleteEdge",
              "deleteObject", "deleteEdgesByObject", "updateObject"}
FaultKinds ==
  {"refused",  \* a call fails without being handled
   "lost"}     \* a delete is handled and its reply lost

-----------------------------------------------------------------------------
PrimaryKey(e) == <<"edge", e>>
FullKey(e) == <<"full", Source[e], Target[e], Type[e]>>
EdgesKey == <<"edges">>                      \* only ever locked
OfObject(o) == <<"of", o>>                   \* all edges in and out of o
Between(o, t) == <<"between", o, t>>         \* the edges from o to t
Path(o, t) == <<"path", o, t>>               \* how o has an attribute on t
ObjectKey(o) == <<"object", o>>
DependencyKey(x) == <<"dependencies", x>>

EdgeKeys == {PrimaryKey(e) : e \in Edges} \cup {FullKey(e) : e \in Edges}
Collections == {OfObject(o) : o \in Subjects}
                 \cup {Between(pair[1], pair[2]) : pair \in Pairs}
Paths == {Path(pair[1], pair[2]) : pair \in Pairs}
AllKeys == EdgeKeys \cup Collections \cup Paths \cup {EdgesKey}
             \cup {ObjectKey(o) : o \in Subjects}
             \cup {DependencyKey(x) : x \in Objects \cup Edges}

ASSUME EdgeCacheAssumption ==
  /\ Source \in [Edges -> Objects] /\ Target \in [Edges -> Objects]
  /\ DOMAIN Type = Edges
  /\ Subjects \subseteq Objects
  /\ Pairs \subseteq Subjects \X Objects
  /\ Mixes \subseteq SUBSET (Reads \cup Mutations \cup {"flush"})
  /\ Faults \subseteq FaultKinds
  /\ IsFiniteSet(Procs) /\ IsFiniteSet(Edges)
  /\ MaxMutators \in Nat
  /\ Rivals \in BOOLEAN /\ Filtered \in BOOLEAN

\* What an entry holds is the set of edges it was made from.
INSTANCE CacheProvider WITH Keys <- AllKeys, Values <- SUBSET Edges

VARIABLES cache,  \* the provider's store
          db,     \* the edges the server has
          op,     \* what each caller is doing
          Calls   \* the mix of this behaviour, which never changes

vars == <<cache, db, op, Calls>>

Op == [kind  : (Reads \cup Mutations),
       on    : Edges \cup Objects \cup Collections \cup Paths,
       pc    : {"locking", "tombstoning", "locked", "answered", "clearing",
                "unlinking", "linking", "selfLinking", "undoing", "closing"},
       s     : Sentinel \cup {NoLock},
       val   : SUBSET Edges,
       known : BOOLEAN]  \* a delete knows the edge's name; a save has stored it
Idle == [pc |-> "idle"]

Init == /\ cache = [k \in AllKeys |-> EmptyEntry]
        /\ db \in {es \in SUBSET Edges : \A e, f \in es : FullKey(e) = FullKey(f) => e = f}
        /\ op = [p \in Procs |-> Idle]
        /\ Calls \in Mixes

-----------------------------------------------------------------------------
EdgesOf(o) == {e \in Edges : o \in {Source[e], Target[e]}}
Members(k) == IF k[1] = "of" THEN EdgesOf(k[2])
                             ELSE {e \in Edges : Source[e] = k[2] /\ Target[e] = k[3]}

Running(p) == op[p] # Idle
Mutating(p) == Running(p) /\ op[p].kind \in Mutations
MayMutate(kind, x) ==
  /\ kind \in Calls
  /\ Cardinality({p \in Procs : Mutating(p)}) < MaxMutators
  /\ ~Rivals => \A p \in Procs : Mutating(p) => x \notin Edges \/ op[p].on # x

InUse == {op[p].s.id : p \in {q \in Procs : Running(q) /\ op[q].s # NoLock}}
           \cup {cache[k].s.id : k \in {l \in AllKeys : IsLock(cache[l])}}
FreshSentinel(kind) == [kind : {kind}, id : Ids \ InUse]

Begin(p, kind, x, pc, s, known) ==
  /\ op[p] = Idle
  /\ op' = [op EXCEPT ![p] = [kind |-> kind, on |-> x, pc |-> pc, s |-> s,
                              val |-> {}, known |-> known]]
Go(p, pc) == op' = [op EXCEPT ![p].pc = pc]
End(p) == op' = [op EXCEPT ![p] = Idle]

\* The key a save looks for the caller's lock under.
LockKey(o) == CASE o.kind = "findEdge"     -> EdgesKey
                [] o.kind = "updateObject" -> ObjectKey(o.on)
                [] o.kind \in Collecting -> o.on
                [] OTHER                   -> PrimaryKey(o.on)

-----------------------------------------------------------------------------
(* Reads.  A read that finds what it looks for is not shown: it changes    *)
(* nothing.                                                                *)
ReadTargets(kind) == CASE kind \in {"getEdge", "findEdge"} -> Edges
                       [] kind = "listEdges"        -> {OfObject(o) : o \in Subjects}
                       [] kind = "listEdgesBetween" -> {Between(pair[1], pair[2]) : pair \in Pairs}
                       [] kind = "checkAttribute"   -> Paths

Miss(p, kind, x) ==
  /\ kind \in Calls
  /\ LET k == LockKey([kind |-> kind, on |-> x]) IN
     /\ cache[k] = EmptyEntry
     /\ \E s \in FreshSentinel("read") : /\ Begin(p, kind, x, "locked", s, FALSE)
                                         /\ cache' = LockOnMiss(cache, k, s)
  /\ UNCHANGED db

(* ListEdgesOnObject sends the server its caller's pagination options, and *)
(* a filter among them leaves edges out.                                   *)
Listings(o) == LET all == db \cap Members(o.on)
               IN IF o.kind = "listEdges" /\ Filtered THEN SUBSET all ELSE {all}

(* Without a lock nothing is stored, so only the request is left. *)
ServeRead(p) ==
  LET o == op[p] IN
  /\ o.pc = "locked" /\ o.kind \in Reads
  /\ \E answer \in CASE o.kind \in {"getEdge", "findEdge"} -> {db \cap {o.on}}
                     [] o.kind \in {"listEdges", "listEdgesBetween"} -> Listings(o)
                     [] o.kind = "checkAttribute" -> {{}} \cup {{e} : e \in db \cap Members(o.on)} :
       op' = [op EXCEPT ![p].pc = "answered", ![p].val = answer]
  /\ UNCHANGED <<cache, db>>

(* A request that fails: GetEdge and FindEdge return at once and leave     *)
(* their lock, the others release it.  A collection that takes more than   *)
(* one page is not stored either.                                          *)
FailRead(p) ==
  LET o == op[p] IN
  /\ o.pc = "locked" /\ o.kind \in Reads
  /\ "refused" \in Faults
  /\ IF o.kind \in {"getEdge", "findEdge"} THEN End(p) ELSE Go(p, "closing")
  /\ UNCHANGED <<cache, db>>

(* SaveItemsToCollection enters the collection in the lists of everything  *)
(* it depends on ...                                                       *)
EndPoints(e) == <<DependencyKey(Source[e]), DependencyKey(Target[e])>>

DependenciesOf(k, es) ==
  {DependencyKey(x) : x \in es \cup {k[2]} \cup UNION {{Source[e], Target[e]} : e \in es}}
Orders(S) == {q \in [1 .. Cardinality(S) -> S] : \A i, j \in DOMAIN q : q[i] = q[j] => i = j}

LinkCollection(p) ==
  LET o == op[p] IN
  /\ o.pc = "answered" /\ o.kind \in Collecting
  /\ IF o.kind = "checkAttribute" /\ o.val = {}
       THEN Go(p, "closing") /\ UNCHANGED cache
       ELSE \E dkeys \in Orders(DependenciesOf(o.on, o.val)) :
              /\ cache' = AddDependency(cache, dkeys, {o.on})
              /\ Go(p, IF Dependable(cache, dkeys) THEN "linking" ELSE "closing")
  /\ UNCHANGED db

(* ... and stores it when every list took it. *)
StoreCollection(p) ==
  LET o == op[p] IN
  /\ o.pc = "linking" /\ o.kind \in Collecting
  /\ cache' = SetValue(cache, o.on, {o.on}, o.val, o.s)
  /\ Go(p, "closing")
  /\ UNCHANGED db

-----------------------------------------------------------------------------
(* saveItemToCacheWorker, for GetEdge, FindEdge and CreateEdge: it stores  *)
(* the edge first ...                                                      *)
StoreEdge(p) ==
  LET o == op[p]
      stored == CanSetValue(cache[LockKey(o)], {o.on}, o.s) = "set"
  IN
  /\ o.pc = "answered" /\ o.kind \in {"getEdge", "findEdge", "createEdge"}
  /\ IF o.val = {} \/ o.s = NoLock
       THEN UNCHANGED cache
       ELSE cache' = SetValue(cache, LockKey(o), {PrimaryKey(o.on), FullKey(o.on)}, o.val, o.s)
  /\ CASE o.kind = "createEdge" /\ o.s = NoLock -> Go(p, "closing")
       [] o.kind = "createEdge" /\ o.s # NoLock ->
            op' = [op EXCEPT ![p].pc = "clearing", ![p].known = stored]
       [] o.kind # "createEdge" /\ o.val # {} /\ stored -> Go(p, "linking")
       [] OTHER -> End(p)
  /\ UNCHANGED db

(* ... a create then tombstones the collections the edge belongs to and    *)
(* clears what depends on it ...                                           *)
\* Wrong variant: the collections of either end are left alone.
CollectionsOf_BetweenOnly(e) == {Between(Source[e], Target[e]), Between(Target[e], Source[e])}
CollectionsOf(e) == {Between(Source[e], Target[e]), Between(Target[e], Source[e]),
                     OfObject(Source[e]), OfObject(Target[e])}

ClearCollections(p) ==
  /\ op[p].pc = "clearing"
  /\ cache' = Put(cache, CollectionsOf(op[p].on), Tombstone)
  /\ Go(p, "unlinking")
  /\ UNCHANGED db

Unlink(p) ==
  LET o == op[p] IN
  /\ o.pc = "unlinking"
  /\ cache' = ClearDependencies(cache, DependencyKey(o.on), FALSE)
  /\ Go(p, IF o.kind = "createEdge" /\ o.known THEN "linking" ELSE "closing")
  /\ UNCHANGED db

(* ... enters it in the lists of the objects it hangs from, and its name   *)
(* in its own list, and if any of them is tombstoned takes it out again.   *)
AfterSave(p) == IF op[p].kind = "createEdge" THEN Go(p, "closing") ELSE End(p)

LinkEdge(p) ==
  LET e == op[p].on IN
  /\ op[p].pc = "linking" /\ op[p].kind \in {"getEdge", "findEdge", "createEdge"}
  /\ cache' = AddDependency(cache, EndPoints(e), {PrimaryKey(e), FullKey(e)})
  /\ Go(p, IF Dependable(cache, EndPoints(e)) THEN "selfLinking" ELSE "undoing")
  /\ UNCHANGED db

LinkName(p) ==
  LET e == op[p].on IN
  /\ op[p].pc = "selfLinking"
  /\ cache' = AddDependency(cache, <<DependencyKey(e)>>, {FullKey(e)})
  /\ IF Dependable(cache, <<DependencyKey(e)>>) THEN AfterSave(p) ELSE Go(p, "undoing")
  /\ UNCHANGED db

UndoSave(p) ==
  LET e == op[p].on IN
  /\ op[p].pc = "undoing"
  /\ cache' = Put(cache, {PrimaryKey(e), FullKey(e)}, Tombstone)
  /\ AfterSave(p)
  /\ UNCHANGED db

-----------------------------------------------------------------------------
(* Mutations.  The keys each locks, the one that decides first.            *)
LockedKeys(o) ==
  CASE o.kind \in {"createEdge", "createEdgeBypass"} ->
         <<PrimaryKey(o.on), EdgesKey, FullKey(o.on)>>
    [] o.kind = "deleteEdge" ->
         <<PrimaryKey(o.on), EdgesKey>> \o IF o.known THEN <<FullKey(o.on)>> ELSE <<>>
    [] o.kind = "deleteObject"        -> <<ObjectKey(o.on), OfObject(o.on)>>
    [] o.kind = "deleteEdgesByObject" -> <<OfObject(o.on)>>
    [] o.kind = "updateObject"        -> <<ObjectKey(o.on)>>
    [] o.kind \in Collecting          -> <<OfObject(o.on[2]), o.on>>

(* A delete looks the edge up to learn its name before it takes the lock. *)
StartMutation(p, kind, x) ==
  /\ x \in IF kind \in {"createEdge", "createEdgeBypass", "deleteEdge"} THEN Edges ELSE Subjects
  /\ MayMutate(kind, x)
  /\ Begin(p, kind, x, "locking", NoLock,
           kind = "deleteEdge" /\ cache[PrimaryKey(x)].tag = "item")
  /\ UNCHANGED <<cache, db>>

SentinelOf(kind) == IF kind \in {"createEdge", "createEdgeBypass", "updateObject"}
                      THEN "write" ELSE "delete"

(* Which a call may be refused, and then goes on without it. *)
TakeLock(p) ==
  LET o == op[p] IN
  /\ o.pc = "locking"
  /\ \E s \in FreshSentinel(SentinelOf(o.kind)) :
       /\ cache' = WriteSentinel(cache, s, LockedKeys(o))
       /\ op' = [op EXCEPT ![p].s = Granted(cache, s, LockedKeys(o)),
                           ![p].pc = IF SentinelOf(o.kind) = "write"
                                       THEN "locked" ELSE "tombstoning"]
  /\ UNCHANGED db

(* Wrong variant: the list is cleared and no tombstone takes its place. *)
TombstoneList_ClearingOnly(p) ==
  /\ op[p].pc = "tombstoning"
  /\ cache' = ClearDependencies(cache, DependencyKey(op[p].on), FALSE)
  /\ Go(p, "locked")
  /\ UNCHANGED db

(* A delete clears what depends on the object or the edge and tombstones   *)
(* its list before it asks the server.                                     *)
TombstoneList(p) ==
  /\ op[p].pc = "tombstoning"
  /\ cache' = ClearDependencies(cache, DependencyKey(op[p].on), TRUE)
  /\ Go(p, "locked")
  /\ UNCHANGED db

(* What the server makes of a mutation; the edges of an object go with it. *)
Applied(o) ==
  CASE o.kind \in {"createEdge", "createEdgeBypass"}  -> db \cup {o.on}
    [] o.kind = "deleteEdge"                          -> db \ {o.on}
    [] o.kind \in {"deleteObject", "deleteEdgesByObject"} -> db \ EdgesOf(o.on)
    [] o.kind = "updateObject"                        -> db
Acceptable(o) == o.kind \in {"createEdge", "createEdgeBypass"} =>
                   \A e \in db : FullKey(e) = FullKey(o.on) => e = o.on

ServeMutation(p) ==
  LET o == op[p] IN
  /\ o.pc = "locked" /\ o.kind \in Mutations
  /\ Acceptable(o)
  /\ db' = Applied(o)
  /\ op' = [op EXCEPT
              ![p].pc = CASE o.kind = "createEdge" -> "answered"
                          [] o.kind = "updateObject" /\ o.s # NoLock -> "answered"
                          [] OTHER -> "closing",
              ![p].val = IF o.kind = "createEdge" THEN {o.on} ELSE {}]
  /\ UNCHANGED cache

FailMutation(p) ==
  LET o == op[p] IN
  /\ o.pc = "locked" /\ o.kind \in Mutations
  /\ \/ ~Acceptable(o) /\ UNCHANGED db
     \/ "refused" \in Faults /\ UNCHANGED db
     \/ "lost" \in Faults /\ SentinelOf(o.kind) = "delete" /\ db' = Applied(o)
  /\ Go(p, "closing")
  /\ UNCHANGED cache

(* UpdateObject saves the object and clears everything in its list. *)
StoreObject(p) ==
  LET o == op[p] IN
  /\ o.pc = "answered" /\ o.kind = "updateObject"
  /\ cache' = SetValue(cache, ObjectKey(o.on), {ObjectKey(o.on)}, {}, o.s)
  /\ Go(p, "unlinking")
  /\ UNCHANGED db

(* The deferred release: of the keys that were locked, or of the           *)
(* collection and the edges of the object it belongs to.                   *)
Close(p) ==
  LET o == op[p]
      ks == {LockedKeys(o)[n] : n \in DOMAIN LockedKeys(o)}
  IN
  /\ o.pc = "closing"
  /\ cache' = IF o.s = NoLock THEN cache ELSE ReleaseSentinel(cache, o.s, ks)
  /\ End(p)
  /\ UNCHANGED db

-----------------------------------------------------------------------------
(* FlushCache, while no mutation is in flight. *)
FlushCache ==
  /\ "flush" \in Calls
  /\ \A p \in Procs : ~Mutating(p)
  /\ cache' = Flush(cache, TRUE)
  /\ UNCHANGED <<db, op>>

(* Timing assumptions: the TTL of a lock outlives the call that holds it;  *)
(* that of a dependency list, renewed with every addition, the entries it  *)
(* names; and that of a tombstone the calls that overlap with the one that *)
(* put it there (api.go:31), so that it may go once no mutation is in      *)
(* flight and no read carries an answer from before.                       *)
Outlived(k) ==
  CASE IsLock(cache[k])            -> \A p \in Procs : Running(p) => op[p].s # cache[k].s
    [] cache[k].tag = "list"       -> \A l \in cache[k].keys : cache[l].tag \notin {"item", "lock"}
    [] cache[k].tag = "tombstone"  -> \A p \in Procs : Running(p) =>
                                        op[p].kind \in Reads /\ op[p].pc = "locked"
    [] OTHER                       -> TRUE
Expire(k) == /\ cache[k] # EmptyEntry
             /\ Outlived(k)
             /\ cache' = Put(cache, {k}, EmptyEntry)
             /\ UNCHANGED <<db, op>>

Step ==
  \/ \E p \in Procs :
       \/ \E kind \in Reads \cap Calls : \E x \in ReadTargets(kind) : Miss(p, kind, x)
       \/ ServeRead(p) \/ FailRead(p) \/ LinkCollection(p) \/ StoreCollection(p)
       \/ StoreEdge(p) \/ ClearCollections(p) \/ Unlink(p)
       \/ LinkEdge(p) \/ LinkName(p) \/ UndoSave(p)
       \/ \E kind \in Mutations \cap Calls, x \in Edges \cup Subjects : StartMutation(p, kind, x)
       \/ TakeLock(p) \/ TombstoneList(p) \/ ServeMutation(p) \/ FailMutation(p)
       \/ StoreObject(p) \/ Close(p)
  \/ FlushCache
  \/ \E k \in AllKeys : Expire(k)
Next == Step /\ UNCHANGED Calls

Spec == Init /\ [][Next]_vars

-----------------------------------------------------------------------------
(* Every variable keeps the shape the comments above give it. *)
TypeOK == /\ cache \in [AllKeys -> Entry]
          /\ db \subseteq Edges
          /\ op \in [Procs -> Op \cup {Idle}]
          /\ Calls \in Mixes

(* No collection and no path in the cache shows an edge the server has     *)
(* deleted: DeleteObject, DeleteEdge and DeleteEdgesByObject clear what    *)
(* depends on the object or the edge before they ask the server, and       *)
(* SaveItemsToCollection stores nothing it could not enter in the lists of *)
(* everything the collection shows.                                        *)
CollectionsShowNoDeleted ==
  \A k \in Collections \cup Paths : cache[k].tag = "item" => cache[k].val \subseteq db

(* Once no mutation is in flight and no save is half done, an edge in the  *)
(* cache is one the server has and a collection shows all its edges,       *)
(* whatever interleaved with the create, the delete or the update before:  *)
(* saveItemToCacheWorker clears the collections of what it saves, and      *)
(* undoes a save it cannot enter in the lists of the objects.              *)
Settled == \A p \in Procs : /\ ~Mutating(p)
                            /\ Running(p) => op[p].pc \notin {"linking", "selfLinking", "undoing"}
CoherentWhenQuiet ==
  Settled =>
    /\ \A k \in EdgeKeys \cup Paths : cache[k].tag = "item" => cache[k].val \subseteq db
    /\ \A k \in Collections : cache[k].tag = "item" => cache[k].val = db \cap Members(k)

(* From the moment a delete has tombstoned the list of its object or edge  *)
(* until it returns, nobody stores a collection that depends on it: a read *)
(* in flight has lost its lock, and a later one cannot enter the list      *)
(* (takeLockWorker, SaveItemsToCollection, DeleteEdgesByObject).           *)
Deleting(x) == \E p \in Procs :
  /\ Mutating(p) /\ op[p].on = x
  /\ SentinelOf(op[p].kind) = "delete" /\ op[p].pc \in {"locked", "closing"}
Stored(k) == cache[k].tag # "item" /\ cache'[k].tag = "item"
DeletesBlockCollections ==
  [][\A k \in Collections \cup Paths :
       Stored(k) => \A x \in Objects \cup Edges :
                      Deleting(x) => DependencyKey(x) \notin DependenciesOf(k, cache'[k].val)]_vars

=============================================================================
