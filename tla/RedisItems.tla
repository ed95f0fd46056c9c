----------------------------- MODULE RedisItems -----------------------------
(***************************************************************************)
(* An item of the write-through cache kept in Redis                        *)
(* (infra/cache/redis_provider.go), where an operation of the provider is  *)
(* not one critical section: it reads the keys, decides, and commits its   *)
(* writes in a transaction that fails if a key it watches was touched in   *)
(* between, in which case it starts over.  It watches fewer keys than it   *)
(* writes.                                                                 *)
(*                                                                         *)
(* The item has a primary key and a name, appears in the collection of all *)
(* items, and has a dependency list, in which its name is entered.  Every  *)
(* command, or pipeline of commands, sent to Redis is one step.  How often *)
(* an operation starts over (maxRdConflictRetries) is not counted: it may  *)
(* give up at any conflict.                                                *)
(***************************************************************************)
EXTENDS Naturals, Sequences, FiniteSets

CONSTANTS Procs,       \* callers, possibly in different processes
          Ids,         \* the uuids sentinels are made from
          Items,       \* what the item can be
          Nil,         \* no item
          MayGiveUp,   \* the operations that may run out of retries
          Mixes        \* bound: what is made together, with what the server
                       \*   does to it and how many mutations at a time

Mutations == {"put", "delete", "purge"}
Operations == {"WriteSentinel", "SetValue", "ReleaseSentinel", "ClearDependencies"}

ASSUME RedisItemsAssumption ==
  /\ IsFiniteSet(Procs)
  /\ Nil \notin Items
  /\ MayGiveUp \subseteq Operations \X {"get", "list", "put", "delete"}
  /\ Mixes \subseteq [calls    : SUBSET ({"get", "list"} \cup Mutations),
                      faults   : SUBSET {"refused", "lost"},
                      mutators : Nat]

AllKeys == {"primary", "name", "collection", "dependencies"}
Contents == Items \cup {Nil}
INSTANCE CacheProvider WITH Keys <- AllKeys, Values <- Contents

VARIABLES cache,  \* the Redis server
          db,     \* the server's item
          op,     \* what each caller is doing
          mix     \* the mix this behaviour exercises

vars == <<cache, db, op, mix>>

Op(ks) ==
  [kind  : {"get", "list"} \cup Mutations,
   pc    : {"missed", "locking", "granting", "tombstoning", "locked", "answered",
            "setting", "clearing", "unlinking", "committing", "linking", "undoing",
            "closing", "releasing", "scanning", "flushing"},
   s     : Sentinel \cup {NoLock},
   val   : Contents,
   keys  : SUBSET AllKeys,  \* that WriteSentinel is to lock
   named : BOOLEAN,         \* a delete knows the name; a save was stored
   seen  : [ks -> Entry],   \* what the operation under way has read
   dirty : BOOLEAN]         \* whether a key it watches was touched since
Idle == [pc |-> "idle"]

Init == /\ cache = [k \in AllKeys |-> EmptyEntry]
        /\ db \in Contents
        /\ op = [p \in Procs |-> Idle]
        /\ mix \in Mixes

-----------------------------------------------------------------------------
Running(p) == op[p] # Idle
Mutating(p) == Running(p) /\ op[p].kind \in Mutations

InUse == {op[p].s.id : p \in {q \in Procs : Running(q) /\ op[q].s # NoLock}}
           \cup {cache[k].s.id : k \in {l \in AllKeys : IsLock(cache[l])}}
FreshSentinel(kind) == [kind : {kind}, id : Ids \ InUse]

(* Wrong variant: the collection is not locked with the item. *)
LockedKeys_OwnKeys(o) == <<"primary">> \o
                         IF o.kind = "put" \/ o.named THEN <<"name">> ELSE <<>>

(* The keys a mutation locks: a delete knows the name if the item is cached. *)
LockedKeys(o) == <<"primary", "collection">> \o
                 IF o.kind = "put" \/ o.named THEN <<"name">> ELSE <<>>
LockedSet(o) == {LockedKeys(o)[n] : n \in DOMAIN LockedKeys(o)}
LockKey(o) == IF o.kind = "list" THEN "collection" ELSE "primary"
SavedKeys(o) == IF o.kind = "list" THEN {"collection"} ELSE {"primary", "name"}

(* Wrong variant: a save does not watch the lock it decides by. *)
Watched_NotBySaves(o) ==
  CASE o.pc = "granting"   -> {"primary"}
    [] o.pc = "releasing"  -> LockedSet(o)
    [] o.pc = "committing" -> {"dependencies"}
    [] OTHER               -> {}

(* The keys an operation watches between what it reads and its commit. *)
Watched(o) ==
  CASE o.pc = "granting"   -> {"primary"}
    [] o.pc = "setting"    -> {LockKey(o)}
    [] o.pc = "releasing"  -> LockedSet(o)
    [] o.pc = "committing" -> {"dependencies"}
    [] OTHER               -> {}

(* A write of the keys ks fails the transactions that watch one of them. *)
Touched(ks, o) == IF o # Idle /\ ks \cap Watched(o) # {} THEN [o EXCEPT !.dirty = TRUE] ELSE o
Write(p, ks, store, o) ==
  /\ cache' = store
  /\ op' = [q \in Procs |-> IF q = p THEN o ELSE Touched(ks, op[q])]

Nothing == [k \in {} |-> EmptyEntry]
At(o, pc) == [o EXCEPT !.pc = pc, !.seen = Nothing, !.dirty = FALSE]
Go(p, o) == op' = [op EXCEPT ![p] = o]

Start(p, kind, pc, s) ==
  /\ op[p] = Idle /\ kind \in mix.calls
  /\ Go(p, [kind |-> kind, pc |-> pc, s |-> s, val |-> Nil, named |-> FALSE,
            keys |-> {}, seen |-> Nothing, dirty |-> FALSE])

(* The reads of an operation, after its WATCH. *)
Look(p, from, ks, pc) ==
  /\ op[p].pc = from
  /\ Go(p, [op[p] EXCEPT !.pc = pc, !.seen = [k \in ks |-> cache[k]], !.dirty = FALSE])
  /\ UNCHANGED <<cache, db>>

(* Its EXEC: writes nothing and asks nobody when there is nothing to write, *)
(* commits when nothing it watches was touched, and otherwise starts over   *)
(* at pc or gives up.                                                       *)
Commit(p, operation, ks, store, done, again, failed) ==
  LET o == op[p] IN
  /\ \/ ks = {} /\ Go(p, done) /\ UNCHANGED cache
     \/ ks # {} /\ ~o.dirty /\ Write(p, ks, store, done)
     \/ /\ ks # {} /\ o.dirty
        /\ \/ Go(p, again)
           \/ <<operation, o.kind>> \in MayGiveUp /\ Go(p, failed)
        /\ UNCHANGED cache
  /\ UNCHANGED db

-----------------------------------------------------------------------------
(* GetValue: MGET, and SETNX on a miss. *)
Miss(p, kind) ==
  /\ kind \in {"get", "list"}
  /\ \E s \in FreshSentinel("read") : Start(p, kind, "missed", s)
  /\ cache[LockKey([kind |-> kind])] = EmptyEntry
  /\ UNCHANGED <<cache, db>>

LockMissed(p) ==
  LET o == op[p]
      k == LockKey(o)
  IN
  /\ o.pc = "missed"
  /\ IF cache[k] = EmptyEntry
       THEN Write(p, {k}, LockOnMiss(cache, k, o.s), At(o, "locked"))
       ELSE Go(p, Idle) /\ UNCHANGED cache  \* it stores nothing without a lock
  /\ UNCHANGED db

ServeRead(p) ==
  LET o == op[p] IN
  /\ o.pc = "locked" /\ o.kind \in {"get", "list"}
  /\ Go(p, IF o.kind = "get" /\ db = Nil
             THEN Idle
             ELSE [o EXCEPT !.pc = "answered", !.val = db])
  /\ UNCHANGED <<cache, db>>

-----------------------------------------------------------------------------
(* WriteSentinel reads all the keys and watches the first. *)
StartMutation(p, kind) ==
  /\ kind \in {"put", "delete"}
  /\ Cardinality({q \in Procs : Mutating(q)}) < mix.mutators
  /\ op[p] = Idle /\ kind \in mix.calls
  /\ \E v \in IF kind = "put" THEN Items ELSE {Nil},
        s \in FreshSentinel(IF kind = "put" THEN "write" ELSE "delete") :
       LET o == [kind |-> kind, pc |-> "locking", s |-> s, val |-> v,
                 named |-> kind = "delete" /\ cache["primary"].tag = "item",
                 keys |-> {}, seen |-> Nothing, dirty |-> FALSE]
       IN Go(p, [o EXCEPT !.keys = LockedSet(o)])
  /\ UNCHANGED <<cache, db>>

ReadLocks(p) == Look(p, "locking", op[p].keys, "granting")

(* A key that held a tombstone is not locked, and not even looked at again *)
(* when it starts over.                                                    *)
TakeLock(p) ==
  LET o == op[p]
      ks == {k \in o.keys : k = "primary" \/ o.seen[k] # Tombstone}
      granted == [At(o, IF o.kind = "put" THEN "locked" ELSE "tombstoning") EXCEPT !.keys = {}]
  IN
  /\ o.pc = "granting"
  /\ IF Unavailable(o.seen, o.s, <<"primary">>)
       THEN Commit(p, "WriteSentinel", {}, cache, [granted EXCEPT !.s = NoLock], o, Idle)
       ELSE Commit(p, "WriteSentinel", ks, Put(cache, ks, LockEntry(o.s)), granted,
                   [At(o, "locking") EXCEPT !.keys = ks], Idle)

Acceptable(kind) == kind = "put" \/ db # Nil
ServeMutation(p) ==
  LET o == op[p] IN
  /\ o.pc = "locked" /\ o.kind \in Mutations
  /\ \/ /\ Acceptable(o.kind)
        /\ db' = o.val
        /\ \/ Go(p, At(o, CASE o.kind = "put" /\ o.s # NoLock -> "answered"
                            [] o.kind = "purge" -> "scanning"
                            [] OTHER            -> "closing"))
           \/ "lost" \in mix.faults /\ o.kind # "purge" /\ Go(p, At(o, "closing"))
     \/ /\ ~Acceptable(o.kind) \/ "refused" \in mix.faults
        /\ Go(p, At(o, "closing"))
        /\ UNCHANGED db
  /\ UNCHANGED cache

-----------------------------------------------------------------------------
(* SetValue reads and watches the lock key. *)
ReadLock(p) == Look(p, "answered", {LockKey(op[p])}, "setting")

(* What follows a save: a list is done, an item enters its name in its     *)
(* list, a put clears the collection first.                                *)
AfterSave(o, stored) ==
  CASE o.kind = "put"            -> [At(o, "clearing") EXCEPT !.named = stored]
    [] o.kind = "get" /\ stored  -> At(o, "linking")
    [] OTHER                     -> Idle

SetLocked(p) ==
  LET o == op[p]
      curr == o.seen[LockKey(o)]
      verdict == IF curr.tag = "empty" THEN "none" ELSE CanSetValue(curr, o.val, o.s)
      entry == CASE verdict = "set"      -> ItemEntry(o.val)
                 [] verdict = "clear"    -> EmptyEntry
                 [] verdict = "conflict" -> Bumped(curr)
                 [] verdict = "none"     -> EmptyEntry
      ks == IF verdict = "none" THEN {} ELSE SavedKeys(o)
  IN
  /\ o.pc = "setting"
  /\ Commit(p, "SetValue", ks, Put(cache, ks, entry),
            AfterSave(o, verdict = "set"), At(o, "answered"), AfterSave(o, FALSE))

(* A put tombstones the collection, whatever it holds. *)
ClearCollection(p) ==
  /\ op[p].pc = "clearing"
  /\ Write(p, {"collection"}, Put(cache, {"collection"}, Tombstone), At(op[p], "unlinking"))
  /\ UNCHANGED db

(* ClearDependencies reads and watches the list: a put clears what is on   *)
(* it, a delete leaves a tombstone in its place before it asks the server. *)
ReadList(p) == \E from \in {"unlinking", "tombstoning"} :
  Look(p, from, {"dependencies"}, "committing")

ClearList(p) ==
  LET o == op[p]
      tombstone == o.kind = "delete" \/ o.seen["dependencies"] = Tombstone
      members == Listed(o.seen, "dependencies")
      store == Put(Put(cache, members, EmptyEntry), {"dependencies"},
                   IF tombstone THEN Tombstone ELSE EmptyEntry)
      ks == IF o.kind = "put" /\ tombstone THEN {} ELSE members \cup {"dependencies"}
  IN
  /\ o.pc = "committing"
  /\ IF o.kind = "delete"
       THEN Commit(p, "ClearDependencies", ks, store, At(o, "locked"), At(o, "tombstoning"), Idle)
       ELSE Commit(p, "ClearDependencies", ks, store,
                   At(o, IF o.named THEN "linking" ELSE "closing"),
                   At(o, "unlinking"), At(o, "undoing"))

(* AddDependency is one SADD, which fails on a tombstone. *)
Finish(o) == IF o.kind = "put" THEN At(o, "closing") ELSE Idle
LinkName(p) ==
  LET o == op[p] IN
  /\ o.pc = "linking"
  /\ IF cache["dependencies"] = Tombstone
       THEN Go(p, At(o, "undoing")) /\ UNCHANGED cache
       ELSE Write(p, {"dependencies"},
                  Put(cache, {"dependencies"}, ListEntry(Listed(cache, "dependencies") \cup {"name"})),
                  Finish(o))
  /\ UNCHANGED db

UndoSave(p) ==
  /\ op[p].pc = "undoing"
  /\ Write(p, {"primary", "name"}, Put(cache, {"primary", "name"}, Tombstone), Finish(op[p]))
  /\ UNCHANGED db

-----------------------------------------------------------------------------
(* ReleaseSentinel reads and watches all the keys. *)
ReadReleased(p) == Look(p, "closing", LockedSet(op[p]), "releasing") /\ op[p].s # NoLock

Release(p) ==
  LET o == op[p]
      ks == {k \in DOMAIN o.seen : o.seen[k] = LockEntry(o.s)}
  IN
  /\ o.pc = "releasing"
  /\ Commit(p, "ReleaseSentinel", ks, Put(cache, ks, EmptyEntry), Idle, At(o, "closing"), Idle)

CloseUnlocked(p) == /\ op[p].pc = "closing" /\ op[p].s = NoLock
                    /\ Go(p, Idle)
                    /\ UNCHANGED <<cache, db>>

-----------------------------------------------------------------------------
(* DeleteObjectType flushes the cache after its request: Flush deletes the *)
(* keys a SCAN has found.                                                  *)
StartPurge(p) ==
  /\ Cardinality({q \in Procs : Mutating(q)}) < mix.mutators
  /\ Start(p, "purge", "locked", NoLock)
  /\ UNCHANGED <<cache, db>>

Scan(p) == Look(p, "scanning", {k \in AllKeys : cache[k] # EmptyEntry}, "flushing")

DeleteScanned(p) ==
  LET o == op[p]
      ks == DOMAIN o.seen
  IN
  /\ o.pc = "flushing"
  /\ Write(p, ks, Put(cache, ks, EmptyEntry), Idle)
  /\ UNCHANGED db

(* Timing assumptions, as for the in-memory provider: a lock outlives the  *)
(* call that holds it, a list what it names, an item the mutations in      *)
(* flight, and a tombstone the calls that overlap with the one that put it *)
(* there.                                                                  *)
Outlived(k) ==
  CASE IsLock(cache[k])            -> \A p \in Procs : Running(p) => op[p].s # cache[k].s
    [] cache[k].tag = "list"       -> \A l \in cache[k].keys : cache[l].tag # "item"
    [] cache[k].tag = "tombstone"  -> \A p \in Procs : Running(p) =>
                                        op[p].kind \in {"get", "list"} /\ op[p].pc \in {"missed", "locked"}
    [] cache[k].tag = "item"       -> \A p \in Procs : ~Mutating(p)
Expire(k) ==
  /\ cache[k] # EmptyEntry
  /\ Outlived(k)
  /\ cache' = Put(cache, {k}, EmptyEntry)
  /\ op' = [p \in Procs |-> Touched({k}, op[p])]
  /\ UNCHANGED db

Step ==
  \/ \E p \in Procs :
       \/ \E kind \in mix.calls : Miss(p, kind) \/ StartMutation(p, kind)
       \/ LockMissed(p) \/ ServeRead(p) \/ ServeMutation(p)
       \/ ReadLocks(p) \/ TakeLock(p) \/ ReadLock(p) \/ SetLocked(p)
       \/ ClearCollection(p) \/ ReadList(p) \/ ClearList(p) \/ LinkName(p) \/ UndoSave(p)
       \/ ReadReleased(p) \/ Release(p) \/ CloseUnlocked(p)
       \/ StartPurge(p) \/ Scan(p) \/ DeleteScanned(p)
  \/ \E k \in AllKeys : Expire(k)

Next == Step /\ UNCHANGED mix
Spec == Init /\ [][Next]_vars

-----------------------------------------------------------------------------
(* Every variable keeps the shape the comments above give it. *)
TypeOK == /\ cache \in [AllKeys -> Entry]
          /\ db \in Contents
          /\ mix \in Mixes
          /\ \A p \in Procs : op[p] = Idle \/ \E ks \in SUBSET AllKeys : op[p] \in Op(ks)

(* No mutation is in flight, and no reader is between storing the item and *)
(* learning that it has to take it back.                                   *)
Quiet == \A p \in Procs : ~Mutating(p)
Settled == Quiet /\ \A p \in Procs : Running(p) => op[p].pc \notin {"linking", "undoing"}

(* Once no mutation is in flight, the item cached under its primary key,   *)
(* under its name and in the collection is the server's, although each of  *)
(* the operations that put it there read the cache in one step and wrote   *)
(* it in another, and although WriteSentinel and SetValue watch one of the *)
(* keys they write.                                                        *)
CoherentWhenQuiet ==
  Settled => \A k \in AllKeys : cache[k].tag = "item" => cache[k].val = db

(* A transaction that commits did what the operation of the in-memory      *)
(* provider does in its critical section to the cache as it is now, and    *)
(* not as it was when the operation read it: the watched keys suffice.     *)
(* Only which of the secondary keys WriteSentinel locks may be decided by  *)
(* an old value.                                                           *)
CommitsAtomically ==
  [][\A p \in Procs :
       LET o == op[p] IN
       (op'[p].pc # o.pc /\ cache' # cache) =>
         CASE o.pc = "granting"   -> \E ks \in SUBSET LockedSet(o) :
                                       /\ "primary" \in ks
                                       /\ ~Unavailable(cache, o.s, <<"primary">>)
                                       /\ cache' = Put(cache, ks, LockEntry(o.s))
           [] o.pc = "setting"    -> cache' = SetValue(cache, LockKey(o), SavedKeys(o), o.val, o.s)
           [] o.pc = "committing" -> cache' = ClearDependencies(cache, "dependencies", o.kind = "delete")
           [] o.pc = "releasing"  -> cache' = ReleaseSentinel(cache, o.s, LockedSet(o))
           [] OTHER               -> TRUE]_vars
=============================================================================
