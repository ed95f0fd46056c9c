----------------------------- MODULE ItemCache -----------------------------
(***************************************************************************)
(* Reads and writes of single items through the cache: GetItem and         *)
(* CreateItem of infra/cache/methods.go and the update and delete methods  *)
(* of authz/client.go, run by concurrent callers that share one provider.  *)
(* An item is named by its primary key.  The other keys an item has, and   *)
(* what the mutation of one item does to the keys of another, are not in   *)
(* this module.                                                            *)
(*                                                                         *)
(* A call is three steps or more, and other calls run between them: it     *)
(* takes a lock, the server handles its request, it tells the cache what   *)
(* the server answered, it releases the lock.                              *)
(***************************************************************************)
EXTENDS CacheProvider, FiniteSets

CONSTANTS Procs,        \* callers
          Nil,          \* the server has no such item
          Err,          \* the call failed
          Mutations,    \* the kinds of mutation this instance exercises
          Faults,       \* the faults this instance exercises
          MaxMutators,  \* bound: mutations in flight that can disturb each other
          FlushesAlone  \* bound: and none of them flushes, if there are two

MutationKinds ==
  {"create", "update",  \* CreateItem; UpdateObject, UpdateOrganization
   "updateAndFlush",    \* UpdateEdgeType
   "updateBypass",      \* UpdateOrganization with BypassCache
   "delete",            \* DeleteObject, DeleteEdge
   "purge",             \* DeleteObjectType, DeleteEdgeType
   "flush"}             \* FlushCache
FaultKinds ==
  {"refused",           \* the server fails without handling the request
   "lost",              \* the request is handled and its reply lost
   "dependency",        \* AddDependency finds the list of keys tombstoned
   "crash",             \* the caller goes away; the (shared) cache stays
   "crashDelete"}       \* and so does one that deletes

ASSUME ItemCacheAssumption ==
  /\ Mutations \subseteq MutationKinds
  /\ Faults \subseteq FaultKinds
  /\ IsFiniteSet(Procs)
  /\ MaxMutators \in Nat
  /\ FlushesAlone \in BOOLEAN
  /\ {Nil, Err} \cap Values = {}
  /\ Nil # Err

VARIABLES cache,  \* the provider's store
          db,     \* the server's items
          op      \* what each caller is doing

vars == <<cache, db, op>>

(* val is what a mutation wants written until the server answers, and what *)
(* the server answered from then on.                                       *)
Op == [kind : {"get"} \cup MutationKinds,
       item : Keys,
       pc   : {"locked", "answered", "undoing", "flushing", "closing", "returned"},
       s    : Sentinel \cup {NoLock},
       val  : Values \cup {Nil, Err}]
Idle == [pc |-> "idle"]

Init == /\ cache = [i \in Keys |-> EmptyEntry]
        /\ db \in [Keys -> Values \cup {Nil}]
        /\ op = [p \in Procs |-> Idle]

-----------------------------------------------------------------------------
Running(p) == op[p].pc \notin {"idle", "returned"}
Mutating(p) == Running(p) /\ op[p].kind # "get"

(* A flush touches every key, so it can disturb a mutation of any item. *)
Flushing == {"updateAndFlush", "purge", "flush"}
Rivals(kind, i) ==
  {q \in Procs : Mutating(q) /\ \/ op[q].item = i
                                \/ {kind, op[q].kind} \cap Flushing # {}}
MayMutate(kind, i) ==
  /\ kind \in Mutations
  /\ Cardinality(Rivals(kind, i)) < MaxMutators
  /\ FlushesAlone => \A q \in Rivals(kind, i) : {kind, op[q].kind} \cap Flushing = {}

(* A uuid nobody holds is as good as one that was never used. *)
InUse == {op[q].s.id : q \in {r \in Procs : op[r].pc # "idle" /\ op[r].s # NoLock}}
           \cup {cache[i].s.id : i \in {j \in Keys : IsLock(cache[j])}}
FreshSentinel(kind) == [kind : {kind}, id : Ids \ InUse]

Begin(p, kind, i, pc, s, v) ==
  /\ op[p] = Idle
  /\ op' = [op EXCEPT ![p] = [kind |-> kind, item |-> i, pc |-> pc, s |-> s, val |-> v]]
Go(p, pc) == op' = [op EXCEPT ![p].pc = pc]
GoWith(p, pc, v) == op' = [op EXCEPT ![p].pc = pc, ![p].val = v]

-----------------------------------------------------------------------------
(* GetItem, the call to GetItemFromCache. *)
GetHit(p, i) == /\ cache[i].tag = "item"
                /\ Begin(p, "get", i, "returned", NoLock, cache[i].val)
                /\ UNCHANGED <<cache, db>>

GetMiss(p, i) == /\ cache[i] = EmptyEntry
                 /\ \E s \in FreshSentinel("read") :
                      /\ Begin(p, "get", i, "locked", s, Nil)
                      /\ cache' = LockOnMiss(cache, i, s)
                 /\ UNCHANGED db

(* The key is locked or tombstoned, or the caller asked for bypassCache. *)
GetUnlocked(p, i) == /\ Begin(p, "get", i, "locked", NoLock, Nil)
                     /\ UNCHANGED <<cache, db>>

(* Wrong variant: a reply of 404 is taken for an item. *)
ServeGet_Ignoring404(p) ==
  /\ op[p].pc = "locked" /\ op[p].kind = "get"
  /\ GoWith(p, "answered", db[op[p].item])
  /\ UNCHANGED <<cache, db>>

(* The request of GetItem.  If it fails GetItem returns at once, and its   *)
(* read sentinel stays in the cache until it expires.                      *)
ServeGet(p) ==
  LET i == op[p].item IN
  /\ op[p].pc = "locked" /\ op[p].kind = "get"
  /\ \/ db[i] # Nil /\ GoWith(p, "answered", db[i])
     \/ (db[i] = Nil \/ Faults \cap {"refused", "lost"} # {}) /\ GoWith(p, "returned", Err)
  /\ UNCHANGED <<cache, db>>

(* SaveItemToCache does nothing without a sentinel, whatever the caller. *)
Saved(p) == LET o == op[p] IN
  IF o.s = NoLock THEN cache ELSE SetValue(cache, o.item, {o.item}, o.val, o.s)

(* What it stored it has to enter in the dependency lists of other keys,   *)
(* which fails while those are tombstoned.                                 *)
DependencyFails(p) == /\ "dependency" \in Faults
                      /\ op[p].s # NoLock
                      /\ cache[op[p].item] = LockEntry(op[p].s)

SaveGet(p) == /\ op[p].pc = "answered" /\ op[p].kind = "get"
              /\ cache' = Saved(p)
              /\ \/ Go(p, "returned")
                 \/ DependencyFails(p) /\ Go(p, "undoing")
              /\ UNCHANGED db

(* Then SaveItemToCache puts a tombstone in the place of the item, whatever *)
(* the key holds by now.                                                   *)
UndoSave(p) == /\ op[p].pc = "undoing"
               /\ cache' = Put(cache, {op[p].item}, Tombstone)
               /\ Go(p, IF op[p].kind = "get" THEN "returned" ELSE "closing")
               /\ UNCHANGED db

-----------------------------------------------------------------------------
(* CreateItem with ifNotExists, UpdateObject and UpdateEdgeType return     *)
(* what the cache has when it is what the caller asks for.                 *)
AlreadyCached(p, kind, i, v) ==
  /\ kind \in Mutations \cap {"create", "update", "updateAndFlush"}
  /\ cache[i] = ItemEntry(v)
  /\ Begin(p, kind, i, "returned", NoLock, v)
  /\ UNCHANGED <<cache, db>>

(* TakeItemLock.  A lock that is not available is not an error: the call   *)
(* goes on without one.                                                    *)
TakeLock(p, kind, i, v) ==
  /\ kind \in {"create", "update", "updateAndFlush", "delete"}
  /\ (v = Nil) <=> (kind = "delete")
  /\ MayMutate(kind, i)
  /\ LET stype == IF kind = "updateAndFlush" THEN "update" ELSE kind IN
     \E s \in FreshSentinel(SentinelKind(stype)) :
       /\ Begin(p, kind, i, "locked", Granted(cache, s, <<i>>), v)
       /\ cache' = WriteSentinel(cache, s, <<i>>)
  /\ UNCHANGED db

(* DeleteObjectType, DeleteEdgeType and UpdateOrganization with bypassCache *)
(* go to the server without a lock.                                        *)
BeginUnlocked(p, kind, i, v) ==
  /\ kind \in {"purge", "updateBypass"}
  /\ (v = Nil) <=> (kind = "purge")
  /\ MayMutate(kind, i)
  /\ Begin(p, kind, i, "locked", NoLock, v)
  /\ UNCHANGED <<cache, db>>

(* Whether the server accepts a mutation.  With ifNotExists a create of    *)
(* what exists already succeeds and changes nothing.                       *)
Acceptable(o) == CASE o.kind = "create" -> db[o.item] \in {Nil, o.val}
                   [] OTHER             -> db[o.item] # Nil

Apply(p) == db' = [db EXCEPT ![op[p].item] = op[p].val]

AfterSuccess(kind) == CASE kind = "delete" -> "closing"
                        [] kind = "purge"  -> "flushing"
                        [] OTHER           -> "answered"

ServeMutation(p) ==
  LET o == op[p] IN
  /\ o.pc = "locked" /\ o.kind # "get"
  /\ \/ Acceptable(o) /\ Apply(p) /\ Go(p, AfterSuccess(o.kind))
     \/ Acceptable(o) /\ "lost" \in Faults /\ Apply(p) /\ GoWith(p, "closing", Err)
     \/ /\ \/ ~Acceptable(o)
           \/ o.kind = "create" /\ db[o.item] # Nil
           \/ "refused" \in Faults
        /\ GoWith(p, "closing", Err)
        /\ UNCHANGED db
  /\ UNCHANGED cache

SaveMutation(p) ==
  /\ op[p].pc = "answered" /\ op[p].kind # "get"
  /\ cache' = Saved(p)
  /\ \/ Go(p, IF op[p].kind = "updateAndFlush" THEN "flushing" ELSE "closing")
     \/ DependencyFails(p) /\ op[p].kind # "updateAndFlush" /\ Go(p, "undoing")
  /\ UNCHANGED db

(* CreateItem with bypassCache takes the lock and saves nothing. *)
SkipSave(p) == /\ op[p].pc = "answered" /\ op[p].kind = "create"
               /\ Go(p, "closing")
               /\ UNCHANGED <<cache, db>>

FlushAfter(p) == /\ op[p].pc = "flushing"
                 /\ cache' = Flush(cache, TRUE)
                 /\ Go(p, "closing")
                 /\ UNCHANGED db

(* The deferred ReleaseItemLock. *)
Close(p) ==
  LET o == op[p] IN
  /\ o.pc = "closing"
  /\ cache' = IF o.s = NoLock THEN cache ELSE ReleaseSentinel(cache, o.s, {o.item})
  /\ Go(p, "returned")
  /\ UNCHANGED db

(* UpdateOrganization releases its lock on no path. *)
CloseOrganization(p) == /\ op[p].pc = "closing" /\ op[p].kind = "update"
                        /\ Go(p, "returned")
                        /\ UNCHANGED <<cache, db>>

(* FlushCache, called on its own. *)
FlushCache(p) == /\ op[p] = Idle
                 /\ \A i \in Keys : MayMutate("flush", i)
                 /\ cache' = Flush(cache, TRUE)
                 /\ UNCHANGED <<db, op>>

-----------------------------------------------------------------------------
Return(p) == /\ op[p].pc = "returned"
             /\ op' = [op EXCEPT ![p] = Idle]
             /\ UNCHANGED <<cache, db>>

Crash(p) == /\ Running(p)
            /\ (IF op[p].kind \in {"delete", "purge"} THEN "crashDelete" ELSE "crash") \in Faults
            /\ op' = [op EXCEPT ![p] = Idle]
            /\ UNCHANGED <<cache, db>>

(* Timing assumption: the TTL of a lock (60 or 70 seconds) outlives the    *)
(* call that holds it, and the TTL of an item (minutes) and of a tombstone *)
(* (which is to last as long as any operation of the server, api.go:31)    *)
(* the mutations that were in flight when it was stored, which are those   *)
(* in flight while it is there: one that starts later replaces it by its   *)
(* lock.  Everything else may expire at any time.                          *)
Outlived(i) ==
  ~\E p \in Procs :
     /\ Running(p) /\ op[p].item = i /\ op[p].s # NoLock
     /\ \/ IsLock(cache[i]) /\ cache[i].s = op[p].s
        \/ cache[i].tag \in {"item", "tombstone"} /\ Mutating(p)
Expire(i) == /\ cache[i] # EmptyEntry
             /\ Outlived(i)
             /\ cache' = Put(cache, {i}, EmptyEntry)
             /\ UNCHANGED <<db, op>>

Next ==
  \/ \E p \in Procs :
       \/ ServeGet(p) \/ SaveGet(p) \/ UndoSave(p)
       \/ ServeMutation(p) \/ SaveMutation(p) \/ SkipSave(p)
       \/ FlushAfter(p) \/ Close(p) \/ CloseOrganization(p)
       \/ FlushCache(p) \/ Return(p) \/ Crash(p)
       \/ \E i \in Keys :
            \/ GetHit(p, i) \/ GetMiss(p, i) \/ GetUnlocked(p, i)
            \/ \E kind \in Mutations, v \in Values \cup {Nil} :
                 \/ AlreadyCached(p, kind, i, v)
                 \/ TakeLock(p, kind, i, v)
                 \/ BeginUnlocked(p, kind, i, v)
  \/ \E i \in Keys : Expire(i)

Spec == Init /\ [][Next]_vars

-----------------------------------------------------------------------------
(* Every variable keeps the shape the comments above give it. *)
TypeOK == /\ cache \in [Keys -> Entry]
          /\ db \in [Keys -> Values \cup {Nil}]
          /\ op \in [Procs -> Op \cup {Idle}]

Purging(i) == \E p \in Procs :
  op[p].pc = "flushing" /\ op[p].kind = "purge" /\ op[p].item = i

(* An item found in the cache is the server's, although readers, failures  *)
(* and expiries interleave with the mutation that changes it: GetItem and  *)
(* SaveItemToCache never leave an old value behind.  Only DeleteObjectType *)
(* and DeleteEdgeType, which flush the cache after the fact, let one be    *)
(* seen until they do.                                                     *)
Coherent == \A i \in Keys :
  cache[i].tag = "item" => cache[i].val = db[i] \/ Purging(i)

(* The same, once no mutation of the item is in flight: mutations that     *)
(* overlap may disagree about the order the server ran them in, and        *)
(* SetValue has to clear the key rather than guess.                        *)
CoherentWhenQuiet == \A i \in Keys :
  cache[i].tag = "item" /\ Rivals("get", i) = {} => cache[i].val = db[i]

(* A delete that got the lock keeps it until it releases it, whoever else  *)
(* runs: no read fills the key and no write takes the lock over while the  *)
(* server handles the delete (CanSetSentinelGivenCurrVal, CanSetValue).    *)
(* Only a save that is being undone may put its tombstone there.           *)
DeleteKeepsLock ==
  [][\A p \in Procs :
       LET o == op[p] IN
       (o.pc \in {"locked", "closing"} /\ o.kind = "delete" /\ o.s # NoLock)
         => \/ cache[o.item] # LockEntry(o.s)
            \/ cache'[o.item] \in {cache[o.item], Tombstone}
            \/ op'[p] # o]_vars

(* Every delete in flight holds the lock of its item, as getItemLockKeys   *)
(* says of deletes.                                                        *)
DeleteHoldsLock == \A p \in Procs :
  Running(p) /\ op[p].kind = "delete" => op[p].s # NoLock

(* Reads are served from the cache, or from the server, as if there were   *)
(* no cache: a call takes effect when its request is handled, or when it   *)
(* finds the item cached.                                                  *)
Answered(p) == op[p].pc \notin {"idle", "locked"}
Atomic == INSTANCE AtomicItems WITH
  Items <- Keys,
  answer <- [p \in Procs |->
               IF Answered(p)
                 THEN [kind |-> op[p].kind, item |-> op[p].item, val |-> op[p].val]
                 ELSE [kind |-> "none"]]
Linearizable == Atomic!Spec
=============================================================================
