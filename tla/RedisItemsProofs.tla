-------------------------- MODULE RedisItemsProofs --------------------------
(***************************************************************************)
(* What is proved of RedisItems for any number of callers and items and    *)
(* whatever mixes of calls and faults: the types, and that a transaction   *)
(* which commits did to the cache, as it was at that moment, what the      *)
(* operation of the provider is specified to do.  The invariant behind it  *)
(* is that of optimistic concurrency: as long as an operation has not been *)
(* told of a write to a key it watches, what it read there is still there. *)
(* And that the cache is coherent where mutations do not overlap: there    *)
(* the invariant says what each call in flight still holds, and who is yet *)
(* to enter the name in the list or to take the item back.                 *)
(***************************************************************************)
EXTENDS RedisItems, TLAPS, FiniteSetTheorems

USE RedisItemsAssumption

Ops == UNION {Op(ks) : ks \in SUBSET AllKeys}

Reading == {"locking", "granting", "setting", "committing", "releasing"}
Plain == {"locked", "tombstoning", "answered", "clearing", "unlinking", "linking", "undoing",
          "closing", "scanning", "flushing"}

(* What an operation has to have read of the store by the time it commits. *)
Consistent(o, store) ==
  /\ o.pc \in {"missed", "locking", "granting"} => o.s \in Sentinel
  /\ o.pc \in {"locking", "granting"} => "primary" \in o.keys /\ o.keys \subseteq LockedSet(o)
  /\ o.pc = "granting" => DOMAIN o.seen = o.keys
  /\ o.pc = "setting" => DOMAIN o.seen = {LockKey(o)}
  /\ o.pc = "committing" => DOMAIN o.seen = {"dependencies"}
  /\ o.pc = "releasing" => DOMAIN o.seen = LockedSet(o)
  /\ ~o.dirty => \A k \in Watched(o) : o.seen[k] = store[k]

Good(o, store) == o \in Ops /\ Consistent(o, store)

Inv ==
  /\ cache \in [AllKeys -> Entry]
  /\ db \in Contents
  /\ mix \in Mixes
  /\ op \in [Procs -> Ops \cup {Idle}]
  /\ \A p \in Procs : op[p] # Idle => Good(op[p], cache)

-----------------------------------------------------------------------------
LEMMA IdleIsNoOp == Idle \notin Ops
BY DEF Idle, Ops, Op

LEMMA WatchedKeys == \A o \in Ops : Watched(o) \subseteq AllKeys /\ LockedSet(o) \subseteq AllKeys
<1>1. \A o : LockedSet(o) \subseteq AllKeys
  BY DEF LockedSet, LockedKeys, AllKeys
<1>2. \A o : LockKey(o) \in AllKeys  BY DEF LockKey, AllKeys
<1> QED  BY <1>1, <1>2 DEF Watched, AllKeys

(* A call whose program counter says that it watches nothing is consistent *)
(* with any store.                                                         *)
LEMMA PlainIsGood ==
  ASSUME NEW o \in Ops, o.pc \in Plain, NEW store
  PROVE  Good(o, store)
BY DEF Good, Consistent, Plain, Watched

(* A step of the call moves it on to pc with nothing read. *)
LEMMA AtOps ==
  ASSUME NEW o \in Ops, NEW pc \in Plain \cup {"locking", "setting"}
  PROVE  /\ At(o, pc) \in Ops
         /\ At(o, pc).pc = pc
         /\ At(o, pc).kind = o.kind /\ At(o, pc).s = o.s /\ At(o, pc).val = o.val
         /\ At(o, pc).named = o.named /\ At(o, pc).keys = o.keys
<1>1. PICK ks \in SUBSET AllKeys : o \in Op(ks)  BY DEF Ops
<1>2. Nothing \in [{} -> Entry]  BY DEF Nothing
<1>3. At(o, pc) \in Op({})  BY <1>1, <1>2, Zenon DEF At, Op, Plain
<1>4. At(o, pc).pc = pc /\ At(o, pc).kind = o.kind /\ At(o, pc).s = o.s
  BY <1>1, Zenon DEF At, Op
<1>5. At(o, pc).val = o.val /\ At(o, pc).named = o.named /\ At(o, pc).keys = o.keys
  BY <1>1, Zenon DEF At, Op
<1>6. {} \in SUBSET AllKeys  OBVIOUS
<1> QED  BY <1>3, <1>4, <1>5, <1>6 DEF Ops

(* What a caller does without writing to the cache concerns only itself. *)
LEMMA GoKeeps ==
  ASSUME Inv, NEW p \in Procs, NEW o, o = Idle \/ Good(o, cache), Go(p, o),
         cache' = cache, db' \in Contents, mix' = mix
  PROVE  Inv'
<1>1. o \in Ops \cup {Idle}  BY DEF Good
<1>2. op' \in [Procs -> Ops \cup {Idle}] /\ op'[p] = o /\ \A q \in Procs : q # p => op'[q] = op[q]
  BY <1>1 DEF Go, Inv
<1>3. \A q \in Procs : op'[q] # Idle => Good(op'[q], cache)  BY <1>2 DEF Inv
<1> QED  BY <1>2, <1>3 DEF Inv

(* A write tells every call that watches a key it touches. *)
LEMMA TouchedGood ==
  ASSUME NEW o \in Ops, NEW before, NEW after, NEW ks, Good(o, before),
         \A k \in AllKeys \ ks : after[k] = before[k]
  PROVE  Good(Touched(ks, o), after)
<1>1. PICK js \in SUBSET AllKeys : o \in Op(js)  BY DEF Ops
<1>2. o # Idle  BY IdleIsNoOp
<1>3. CASE ks \cap Watched(o) # {}
  <2> DEFINE d == [o EXCEPT !.dirty = TRUE]
  <2>1. Touched(ks, o) = d  BY <1>2, <1>3 DEF Touched
  <2>2. d \in Op(js)  BY <1>1, Zenon DEF Op
  <2>3. /\ d.pc = o.pc /\ d.kind = o.kind /\ d.s = o.s /\ d.named = o.named
        /\ d.keys = o.keys /\ d.seen = o.seen /\ d.dirty = TRUE
    BY <1>1, Zenon DEF Op
  <2> HIDE DEF d
  <2>4. LockedSet(d) = LockedSet(o) /\ LockKey(d) = LockKey(o)
    BY <2>3 DEF LockedSet, LockedKeys, LockKey
  <2> QED  BY <2>1, <2>2, <2>3, <2>4 DEF Good, Consistent, Ops
<1>4. CASE ks \cap Watched(o) = {}
  <2>1. Touched(ks, o) = o  BY <1>4 DEF Touched
  <2>2. \A k \in Watched(o) : after[k] = before[k]  BY <1>4, WatchedKeys
  <2> QED  BY <2>1, <2>2 DEF Good, Consistent
<1> QED  BY <1>3, <1>4

LEMMA WriteKeeps ==
  ASSUME Inv, NEW p \in Procs, NEW ks, NEW store \in [AllKeys -> Entry], NEW o,
         \A k \in AllKeys \ ks : store[k] = cache[k],
         o = Idle \/ Good(o, store), Write(p, ks, store, o), db' = db, mix' = mix
  PROVE  Inv'
<1>1. /\ op' = [q \in Procs |-> IF q = p THEN o ELSE Touched(ks, op[q])]
      /\ cache' = store
  BY DEF Write
<1>2. ASSUME NEW q \in Procs, op[q] = Idle PROVE Touched(ks, op[q]) = Idle
  BY <1>2 DEF Touched
<1>3. ASSUME NEW q \in Procs, op[q] # Idle PROVE Good(Touched(ks, op[q]), store)
  <2>1. op[q] \in Ops /\ Good(op[q], cache)  BY <1>3 DEF Inv
  <2> QED  BY <2>1, TouchedGood
<1>4. \A q \in Procs : op'[q] = Idle \/ Good(op'[q], store)  BY <1>1, <1>2, <1>3
<1>5. op' \in [Procs -> Ops \cup {Idle}]  BY <1>1, <1>4 DEF Good
<1> QED  BY <1>1, <1>4, <1>5 DEF Inv

-----------------------------------------------------------------------------
LEMMA Entries ==
  /\ EmptyEntry \in Entry /\ Tombstone \in Entry
  /\ \A v \in Contents : ItemEntry(v) \in Entry
  /\ \A s \in Sentinel : LockEntry(s) \in Entry
  /\ \A ks \in SUBSET AllKeys : ListEntry(ks) \in Entry
  /\ \A e \in Entry : IsLock(e) => Bumped(e) \in Entry
  /\ \A e \in Entry : e.tag = "list" => e.keys \in SUBSET AllKeys
<1>1. \A s \in Sentinel : LockEntry(s) \in Entry  BY DEF LockEntry, Entry
<1>2. \A e \in Entry : IsLock(e) => Bumped(e) \in Entry
  BY DEF IsLock, Bumped, Entry, EmptyEntry, Tombstone, ItemEntry, ListEntry
<1>3. \A e \in Entry : e.tag = "list" => e.keys \in SUBSET AllKeys
  BY DEF Entry, EmptyEntry, Tombstone, ItemEntry, ListEntry
<1> QED  BY <1>1, <1>2, <1>3 DEF Entry

LEMMA PutType ==
  ASSUME NEW store \in [AllKeys -> Entry], NEW ks, NEW e \in Entry
  PROVE  /\ Put(store, ks, e) \in [AllKeys -> Entry]
         /\ \A k \in AllKeys : Put(store, ks, e)[k] = IF k \in ks THEN e ELSE store[k]
BY DEF Put

LEMMA ListedKeys ==
  ASSUME NEW e \in [{"dependencies"} -> Entry]
  PROVE  Listed(e, "dependencies") \in SUBSET AllKeys
BY Entries DEF Listed

(* A call that holds nothing but plain data, or none. *)
Calm(o) == o = Idle \/ (o \in Ops /\ o.pc \in Plain)

LEMMA CommitKeeps ==
  ASSUME Inv, NEW p \in Procs, NEW operation, NEW ks, NEW store,
         NEW done, NEW again, NEW failed,
         Commit(p, operation, ks, store, done, again, failed),
         ks # {} => /\ store \in [AllKeys -> Entry]
                    /\ \A k \in AllKeys \ ks : store[k] = cache[k],
         Calm(done), Calm(failed),
         ks # {} => again = Idle \/ Good(again, cache),
         mix' = mix
  PROVE  Inv'
<1>1. db' = db /\ db \in Contents  BY DEF Commit, Inv
<1>2. \A s : done = Idle \/ Good(done, s)  BY PlainIsGood DEF Calm
<1>3. \A s : failed = Idle \/ Good(failed, s)  BY PlainIsGood DEF Calm
<1>4. CASE Go(p, done) /\ cache' = cache  BY <1>1, <1>2, <1>4, GoKeeps
<1>5. CASE ks # {} /\ Write(p, ks, store, done)  BY <1>1, <1>2, <1>5, WriteKeeps
<1>6. CASE ks # {} /\ Go(p, again) /\ cache' = cache  BY <1>1, <1>6, GoKeeps
<1>7. CASE Go(p, failed) /\ cache' = cache  BY <1>1, <1>3, <1>7, GoKeeps
<1> QED  BY <1>4, <1>5, <1>6, <1>7 DEF Commit

(* A call that is not idle has a record of what it does. *)
LEMMA HasBegun ==
  ASSUME Inv, NEW p \in Procs, op[p].pc # "idle"
  PROVE  /\ op[p] # Idle /\ op[p] \in Ops /\ Good(op[p], cache)
         /\ op[p].kind \in {"get", "list"} \cup Mutations
         /\ op[p].s \in Sentinel \cup {NoLock} /\ op[p].val \in Contents
         /\ op[p].keys \in SUBSET AllKeys
         /\ op[p].seen \in [DOMAIN op[p].seen -> Entry]
<1>1. op[p] # Idle /\ op[p] \in Ops  BY DEF Idle, Inv
<1>2. PICK ks \in SUBSET AllKeys : op[p] \in Op(ks)  BY <1>1 DEF Ops
<1>3. op[p].seen \in [ks -> Entry]  BY <1>2 DEF Op
<1> QED  BY <1>1, <1>2, <1>3 DEF Op, Inv

(* The steps that only move the call on, and those that end it. *)
LEMMA MoveKeeps ==
  ASSUME Inv, NEW p \in Procs, op[p].pc # "idle", NEW pc \in Plain,
         Go(p, At(op[p], pc)) \/ Go(p, Idle),
         cache' = cache, db' \in Contents, mix' = mix
  PROVE  Inv'
<1>1. op[p] \in Ops  BY HasBegun
<1>2. Good(At(op[p], pc), cache)  BY <1>1, AtOps, PlainIsGood
<1> QED  BY <1>2, GoKeeps

(* Reading what an operation watches, and remembering it. *)
LEMMA LookKeeps ==
  ASSUME Inv, NEW p \in Procs, NEW from, NEW ks \in SUBSET AllKeys, NEW pc \in Reading,
         Look(p, from, ks, pc), from # "idle",
         \A d \in Ops : (/\ d.pc = pc /\ d.kind = op[p].kind /\ d.s = op[p].s
                         /\ d.named = op[p].named /\ d.keys = op[p].keys
                         /\ DOMAIN d.seen = ks
                         /\ \A k \in ks : d.seen[k] = cache[k])
                        => Consistent(d, cache),
         mix' = mix
  PROVE  Inv'
<1> DEFINE seen == [k \in ks |-> cache[k]]
           d == [op[p] EXCEPT !.pc = pc, !.seen = seen, !.dirty = FALSE]
<1>1. op[p] \in Ops  BY HasBegun DEF Look
<1>2. PICK js \in SUBSET AllKeys : op[p] \in Op(js)  BY <1>1 DEF Ops
<1>3. seen \in [ks -> Entry] /\ DOMAIN seen = ks /\ \A k \in ks : seen[k] = cache[k]
  BY DEF Inv
<1> HIDE DEF seen
<1>4. d \in Op(ks)  BY <1>2, <1>3, Zenon DEF Op, Reading
<1>5. d.pc = pc /\ d.kind = op[p].kind /\ d.s = op[p].s  BY <1>2, Zenon DEF Op
<1>6. d.named = op[p].named /\ d.keys = op[p].keys /\ d.seen = seen  BY <1>2, Zenon DEF Op
<1>7. Go(p, d) /\ cache' = cache /\ db' = db
  BY DEF Look, seen
<1> HIDE DEF d
<1>8. d \in Ops  BY <1>4 DEF Ops
<1>9. Good(d, cache)  BY <1>3, <1>5, <1>6, <1>8 DEF Good
<1> QED  BY <1>7, <1>9, GoKeeps DEF Inv

-----------------------------------------------------------------------------
LEMMA InitInv == Init => Inv
<1> SUFFICES ASSUME Init PROVE Inv  OBVIOUS
<1>1. cache \in [AllKeys -> Entry]  BY Entries DEF Init
<1> QED  BY <1>1 DEF Init, Inv

LEMMA FreshIsSentinel ==
  \A kind \in {"read", "write", "delete"} : FreshSentinel(kind) \subseteq Sentinel
BY DEF FreshSentinel, Sentinel, Kinds

(* The record a call begins with. *)
LEMMA StartOps ==
  ASSUME NEW kind \in {"get", "list"} \cup Mutations, NEW pc \in {"missed", "locking", "locked"},
         NEW s \in Sentinel \cup {NoLock}, NEW v \in Contents, NEW named \in BOOLEAN,
         NEW ks \in SUBSET AllKeys
  PROVE  [kind |-> kind, pc |-> pc, s |-> s, val |-> v, named |-> named,
          keys |-> ks, seen |-> Nothing, dirty |-> FALSE] \in Ops
<1> DEFINE o == [kind |-> kind, pc |-> pc, s |-> s, val |-> v, named |-> named,
                 keys |-> ks, seen |-> Nothing, dirty |-> FALSE]
<1>1. Nothing \in [{} -> Entry]  BY DEF Nothing
<1>2. o \in Op({})  BY <1>1, Zenon DEF Op
<1>3. {} \in SUBSET AllKeys  OBVIOUS
<1> QED  BY <1>2, <1>3 DEF Ops

LEMMA MissKeeps ==
  ASSUME Inv, NEW p \in Procs, NEW kind, Miss(p, kind), mix' = mix
  PROVE  Inv'
<1>1. PICK s \in FreshSentinel("read") : Start(p, kind, "missed", s)  BY DEF Miss
<1> DEFINE o == [kind |-> kind, pc |-> "missed", s |-> s, val |-> Nil, named |-> FALSE,
                 keys |-> {}, seen |-> Nothing, dirty |-> FALSE]
<1>2. s \in Sentinel  BY FreshIsSentinel
<1>3. o \in Ops  BY <1>2, StartOps DEF Miss, Contents
<1>4. Go(p, o)  BY <1>1 DEF Start
<1>5. o.pc = "missed" /\ o.s = s  OBVIOUS
<1> HIDE DEF o
<1>6. Good(o, cache)  BY <1>2, <1>3, <1>5 DEF Good, Consistent, Watched
<1> QED  BY <1>4, <1>6, GoKeeps DEF Miss, Inv

LEMMA LockMissedKeeps ==
  ASSUME Inv, NEW p \in Procs, LockMissed(p), mix' = mix
  PROVE  Inv'
<1> DEFINE o == op[p]
           k == LockKey(o)
           store == LockOnMiss(cache, k, o.s)
<1>1. o \in Ops /\ o.s \in Sentinel
  BY HasBegun DEF LockMissed, Good, Consistent
<1>2. k \in AllKeys  BY DEF LockKey, AllKeys
<1>3. store \in [AllKeys -> Entry] /\ \A j \in AllKeys \ {k} : store[j] = cache[j]
  BY <1>1, PutType, Entries DEF LockOnMiss, Inv
<1>4. Good(At(o, "locked"), store)  BY <1>1, AtOps, PlainIsGood DEF Plain
<1>5. CASE cache[k] = EmptyEntry
  <2>1. Write(p, {k}, store, At(o, "locked")) /\ db' = db  BY <1>5 DEF LockMissed
  <2> QED  BY <1>3, <1>4, <2>1, WriteKeeps
<1>6. CASE cache[k] # EmptyEntry
  <2>1. Go(p, Idle) /\ cache' = cache /\ db' = db  BY <1>6 DEF LockMissed
  <2> QED  BY <2>1, GoKeeps DEF Inv
<1> QED  BY <1>5, <1>6

LEMMA ServeReadKeeps ==
  ASSUME Inv, NEW p \in Procs, ServeRead(p), mix' = mix
  PROVE  Inv'
<1> DEFINE d == [op[p] EXCEPT !.pc = "answered", !.val = db]
<1>1. op[p] \in Ops /\ db \in Contents  BY HasBegun DEF ServeRead, Inv
<1>2. PICK ks \in SUBSET AllKeys : op[p] \in Op(ks)  BY <1>1 DEF Ops
<1>3. d \in Op(ks) /\ d.pc = "answered"  BY <1>1, <1>2, Zenon DEF Op
<1>4. Go(p, Idle) \/ Go(p, d)  BY DEF ServeRead
<1> HIDE DEF d
<1>5. Good(d, cache)  BY <1>3, PlainIsGood DEF Ops, Plain
<1> QED  BY <1>4, <1>5, GoKeeps DEF ServeRead, Inv

LEMMA StartMutationKeeps ==
  ASSUME Inv, NEW p \in Procs, NEW kind, StartMutation(p, kind), mix' = mix
  PROVE  Inv'
<1>1. kind \in {"put", "delete"}  BY DEF StartMutation
<1>2. PICK v \in IF kind = "put" THEN Items ELSE {Nil},
           s \in FreshSentinel(IF kind = "put" THEN "write" ELSE "delete") :
         LET o == [kind |-> kind, pc |-> "locking", s |-> s, val |-> v,
                   named |-> kind = "delete" /\ cache["primary"].tag = "item",
                   keys |-> {}, seen |-> Nothing, dirty |-> FALSE]
         IN Go(p, [o EXCEPT !.keys = LockedSet(o)])
  BY DEF StartMutation
<1> DEFINE named == kind = "delete" /\ cache["primary"].tag = "item"
           o == [kind |-> kind, pc |-> "locking", s |-> s, val |-> v, named |-> named,
                 keys |-> {}, seen |-> Nothing, dirty |-> FALSE]
           ks == LockedSet(o)
           d == [o EXCEPT !.keys = ks]
<1>3. s \in Sentinel /\ v \in Contents /\ named \in BOOLEAN
  BY <1>1, FreshIsSentinel DEF Contents
<1>4. ks \in SUBSET AllKeys /\ "primary" \in ks
  BY DEF LockedSet, LockedKeys, AllKeys
<1>5. Go(p, d)  BY <1>2
<1>6. o.pc = "locking" /\ o.s = s  OBVIOUS
<1> HIDE DEF named
<1>7. o \in Ops  BY <1>1, <1>3, StartOps DEF Mutations
<1> HIDE DEF o
<1>8. PICK js \in SUBSET AllKeys : o \in Op(js)  BY <1>7 DEF Ops
<1>9. /\ d.pc = "locking" /\ d.s = s /\ d.keys = ks
      /\ d.kind = o.kind /\ d.named = o.named
  BY <1>6, <1>8, Zenon DEF Op
<1>10. ks = LockedSet(d)
  BY <1>9 DEF LockedSet, LockedKeys
<1> HIDE DEF ks
<1>11. d \in Op(js)  BY <1>4, <1>8, Zenon DEF Op
<1> HIDE DEF d
<1>12. Good(d, cache)
  BY <1>3, <1>4, <1>9, <1>10, <1>11 DEF Good, Consistent, Watched, Ops
<1> QED  BY <1>5, <1>12, GoKeeps DEF StartMutation, Inv

LEMMA StartPurgeKeeps ==
  ASSUME Inv, NEW p \in Procs, StartPurge(p), mix' = mix
  PROVE  Inv'
<1> DEFINE o == [kind |-> "purge", pc |-> "locked", s |-> NoLock, val |-> Nil, named |-> FALSE,
                 keys |-> {}, seen |-> Nothing, dirty |-> FALSE]
<1>1. o \in Ops  BY StartOps DEF Mutations, Contents
<1>2. Go(p, o)  BY DEF StartPurge, Start
<1>3. o.pc = "locked"  OBVIOUS
<1> HIDE DEF o
<1>4. Good(o, cache)  BY <1>1, <1>3, PlainIsGood DEF Plain
<1> QED  BY <1>2, <1>4, GoKeeps DEF StartPurge, Inv

-----------------------------------------------------------------------------
LEMMA ReadLocksKeeps ==
  ASSUME Inv, NEW p \in Procs, ReadLocks(p), mix' = mix
  PROVE  Inv'
<1>1. op[p].pc = "locking" /\ Good(op[p], cache) /\ op[p].keys \in SUBSET AllKeys
  BY HasBegun DEF ReadLocks, Look
<1>2. ASSUME NEW d \in Ops, d.pc = "granting", d.kind = op[p].kind, d.s = op[p].s,
             d.named = op[p].named, d.keys = op[p].keys, DOMAIN d.seen = op[p].keys,
             \A k \in op[p].keys : d.seen[k] = cache[k]
      PROVE  Consistent(d, cache)
  <2>1. LockedSet(d) = LockedSet(op[p])  BY <1>2 DEF LockedSet, LockedKeys
  <2>2. op[p].s \in Sentinel /\ "primary" \in op[p].keys /\ op[p].keys \subseteq LockedSet(op[p])
    BY <1>1 DEF Good, Consistent
  <2> QED  BY <1>2, <2>1, <2>2 DEF Consistent, Watched
<1> QED  BY <1>1, <1>2, LookKeeps DEF ReadLocks, Reading

LEMMA ReadLockKeeps ==
  ASSUME Inv, NEW p \in Procs, ReadLock(p), mix' = mix
  PROVE  Inv'
<1>1. {LockKey(op[p])} \in SUBSET AllKeys  BY DEF LockKey, AllKeys
<1>2. ASSUME NEW d \in Ops, d.pc = "setting", d.kind = op[p].kind,
             DOMAIN d.seen = {LockKey(op[p])},
             \A k \in {LockKey(op[p])} : d.seen[k] = cache[k]
      PROVE  Consistent(d, cache)
  <2>1. LockKey(d) = LockKey(op[p])  BY <1>2 DEF LockKey
  <2> QED  BY <1>2, <2>1 DEF Consistent, Watched
<1> QED  BY <1>1, <1>2, LookKeeps DEF ReadLock, Reading

LEMMA ReadListKeeps ==
  ASSUME Inv, NEW p \in Procs, ReadList(p), mix' = mix
  PROVE  Inv'
<1>1. PICK from \in {"unlinking", "tombstoning"} :
        Look(p, from, {"dependencies"}, "committing")
  BY DEF ReadList
<1>2. ASSUME NEW d \in Ops, d.pc = "committing", DOMAIN d.seen = {"dependencies"},
             \A k \in {"dependencies"} : d.seen[k] = cache[k]
      PROVE  Consistent(d, cache)
  BY <1>2 DEF Consistent, Watched
<1>3. {"dependencies"} \in SUBSET AllKeys  BY DEF AllKeys
<1> QED  BY <1>1, <1>2, <1>3, LookKeeps DEF Reading

LEMMA ReadReleasedKeeps ==
  ASSUME Inv, NEW p \in Procs, ReadReleased(p), mix' = mix
  PROVE  Inv'
<1>1. LockedSet(op[p]) \in SUBSET AllKeys
  BY HasBegun, WatchedKeys DEF ReadReleased, Look
<1>2. ASSUME NEW d \in Ops, d.pc = "releasing", d.kind = op[p].kind, d.named = op[p].named,
             DOMAIN d.seen = LockedSet(op[p]),
             \A k \in LockedSet(op[p]) : d.seen[k] = cache[k]
      PROVE  Consistent(d, cache)
  <2>1. LockedSet(d) = LockedSet(op[p])  BY <1>2 DEF LockedSet, LockedKeys
  <2> QED  BY <1>2, <2>1 DEF Consistent, Watched
<1> QED  BY <1>1, <1>2, LookKeeps DEF ReadReleased, Reading

LEMMA ScanKeeps ==
  ASSUME Inv, NEW p \in Procs, Scan(p), mix' = mix
  PROVE  Inv'
<1> DEFINE ks == {k \in AllKeys : cache[k] # EmptyEntry}
           d == [op[p] EXCEPT !.pc = "flushing", !.seen = [k \in ks |-> cache[k]], !.dirty = FALSE]
<1>1. op[p] \in Ops  BY HasBegun DEF Scan, Look
<1>2. PICK js \in SUBSET AllKeys : op[p] \in Op(js)  BY <1>1 DEF Ops
<1>3. [k \in ks |-> cache[k]] \in [ks -> Entry] /\ ks \in SUBSET AllKeys  BY DEF Inv
<1>4. Go(p, d)  BY DEF Scan, Look
<1> HIDE DEF ks
<1>5. d \in Op(ks) /\ d.pc = "flushing"  BY <1>2, <1>3, Zenon DEF Op
<1> HIDE DEF d
<1>6. Good(d, cache)  BY <1>3, <1>5, PlainIsGood DEF Plain, Ops
<1> QED  BY <1>4, <1>6, GoKeeps DEF Scan, Look, Inv

(* What WriteSentinel writes, when it commits. *)
LEMMA TakeLockKeeps ==
  ASSUME Inv, NEW p \in Procs, TakeLock(p), mix' = mix
  PROVE  Inv'
<1> DEFINE o == op[p]
           ks == {k \in o.keys : k = "primary" \/ o.seen[k] # Tombstone}
           pc == IF o.kind = "put" THEN "locked" ELSE "tombstoning"
           granted == [At(o, pc) EXCEPT !.keys = {}]
           unlocked == [granted EXCEPT !.s = NoLock]
           again == [At(o, "locking") EXCEPT !.keys = ks]
           store == Put(cache, ks, LockEntry(o.s))
<1>1. /\ o \in Ops /\ Good(o, cache) /\ o.pc = "granting" /\ o.keys \in SUBSET AllKeys
      /\ o.s \in Sentinel
  BY HasBegun DEF TakeLock, Good, Consistent
<1>2. At(o, pc) \in Ops /\ At(o, pc).pc = pc  BY <1>1, AtOps DEF Plain
<1>3. granted \in Ops /\ granted.pc = pc
  <2>1. PICK js \in SUBSET AllKeys : At(o, pc) \in Op(js)  BY <1>2 DEF Ops
  <2> HIDE DEF pc
  <2>2. granted \in Op(js) /\ granted.pc = pc  BY <1>2, <2>1, Zenon DEF Op
  <2> QED  BY <2>1, <2>2 DEF Ops
<1> HIDE DEF granted
<1>4. unlocked \in Ops /\ unlocked.pc = pc
  <2>1. PICK js \in SUBSET AllKeys : granted \in Op(js)  BY <1>3 DEF Ops
  <2> HIDE DEF pc
  <2>2. unlocked \in Op(js) /\ unlocked.pc = pc  BY <1>3, <2>1, Zenon DEF Op
  <2> QED  BY <2>1, <2>2 DEF Ops
<1> HIDE DEF unlocked
<1>a. pc \in Plain  BY DEF Plain
<1> HIDE DEF pc
<1>5. Calm(granted) /\ Calm(unlocked) /\ Calm(Idle)  BY <1>3, <1>4, <1>a DEF Calm
<1>6. store \in [AllKeys -> Entry] /\ \A k \in AllKeys \ ks : store[k] = cache[k]
  BY <1>1, PutType, Entries DEF Inv
<1>7. ks \in SUBSET AllKeys /\ "primary" \in ks /\ ks \subseteq LockedSet(o)
  BY <1>1 DEF Good, Consistent
<1>8. Good(again, cache)
  <2>1. /\ At(o, "locking") \in Ops /\ At(o, "locking").pc = "locking"
        /\ At(o, "locking").kind = o.kind /\ At(o, "locking").s = o.s
        /\ At(o, "locking").named = o.named
    BY <1>1, AtOps
  <2>2. PICK js \in SUBSET AllKeys : At(o, "locking") \in Op(js)  BY <2>1 DEF Ops
  <2> HIDE DEF ks
  <2>3. again \in Op(js)  BY <1>7, <2>2, Zenon DEF Op
  <2>4. /\ again.pc = "locking" /\ again.s = o.s /\ again.keys = ks
        /\ again.kind = o.kind /\ again.named = o.named
    BY <2>1, <2>2, Zenon DEF Op
  <2> HIDE DEF again
  <2>5. LockedSet(again) = LockedSet(o)  BY <2>4 DEF LockedSet, LockedKeys
  <2> QED  BY <1>1, <1>7, <2>3, <2>4, <2>5 DEF Good, Consistent, Watched, Ops
<1>9. \/ Commit(p, "WriteSentinel", {}, cache, unlocked, o, Idle)
      \/ Commit(p, "WriteSentinel", ks, store, granted, again, Idle)
  BY DEF TakeLock, granted, unlocked, pc
<1> HIDE DEF ks, store, again, pc
<1>10. CASE Commit(p, "WriteSentinel", {}, cache, unlocked, o, Idle)
  BY <1>5, <1>10, CommitKeeps
<1>11. CASE Commit(p, "WriteSentinel", ks, store, granted, again, Idle)
  BY <1>5, <1>6, <1>8, <1>11, CommitKeeps
<1> QED  BY <1>9, <1>10, <1>11

LEMMA ServeMutationKeeps ==
  ASSUME Inv, NEW p \in Procs, ServeMutation(p), mix' = mix
  PROVE  Inv'
<1>1. /\ op[p].pc = "locked" /\ op[p].val \in Contents
      /\ op[p].kind \in {"put", "delete", "purge"}
  BY HasBegun DEF ServeMutation, Mutations
<1>2. db' \in Contents /\ cache' = cache  BY <1>1 DEF ServeMutation, Inv
<1>3. \E pc \in {"answered", "scanning", "closing"} : Go(p, At(op[p], pc))
  BY <1>1 DEF ServeMutation
<1>4. PICK pc \in {"answered", "scanning", "closing"} : Go(p, At(op[p], pc))  BY <1>3
<1>5. pc \in Plain  BY DEF Plain
<1> QED  BY <1>1, <1>2, <1>4, <1>5, MoveKeeps

LEMMA AfterSaveCalm ==
  ASSUME NEW o \in Ops, NEW stored \in BOOLEAN
  PROVE  Calm(AfterSave(o, stored))
<1>1. /\ At(o, "clearing") \in Ops /\ At(o, "clearing").pc = "clearing"
      /\ At(o, "linking") \in Ops /\ At(o, "linking").pc = "linking"
  BY AtOps DEF Plain
<1> DEFINE d == [At(o, "clearing") EXCEPT !.named = stored]
<1>2. PICK js \in SUBSET AllKeys : At(o, "clearing") \in Op(js)  BY <1>1 DEF Ops
<1>3. d \in Op(js) /\ d.pc = "clearing"  BY <1>1, <1>2, Zenon DEF Op
<1>4. AfterSave(o, stored) \in {d, At(o, "linking"), Idle}  BY DEF AfterSave
<1> HIDE DEF d
<1>5. Calm(d)  BY <1>3 DEF Calm, Ops, Plain
<1>6. Calm(At(o, "linking"))  BY <1>1 DEF Calm, Plain
<1> QED  BY <1>4, <1>5, <1>6 DEF Calm

(* What a save makes of the keys, going by what it has read. *)
LEMMA SetLockedKeeps ==
  ASSUME Inv, NEW p \in Procs, SetLocked(p), mix' = mix
  PROVE  Inv'
<1> DEFINE o == op[p]
           curr == o.seen[LockKey(o)]
           verdict == IF curr.tag = "empty" THEN "none" ELSE CanSetValue(curr, o.val, o.s)
           entry == CASE verdict = "set"      -> ItemEntry(o.val)
                      [] verdict = "clear"    -> EmptyEntry
                      [] verdict = "conflict" -> Bumped(curr)
                      [] verdict = "none"     -> EmptyEntry
           ks == IF verdict = "none" THEN {} ELSE SavedKeys(o)
           store == Put(cache, ks, entry)
           stored == verdict = "set"
<1>1. o \in Ops /\ o.val \in Contents /\ Good(o, cache) /\ o.seen \in [DOMAIN o.seen -> Entry]
      /\ o.pc = "setting"
  BY HasBegun DEF SetLocked
<1>2. curr \in Entry  BY <1>1 DEF Good, Consistent
<1>3. Commit(p, "SetValue", ks, store, AfterSave(o, stored), At(o, "answered"), AfterSave(o, FALSE))
  BY DEF SetLocked
<1>4. verdict \in {"set", "clear", "conflict", "none"} /\ (verdict = "conflict" => IsLock(curr))
  BY DEF CanSetValue
<1>5. entry \in Entry
  <2> HIDE DEF verdict, curr
  <2> QED  BY <1>1, <1>2, <1>4, Entries
<1> HIDE DEF entry, verdict
<1>6. store \in [AllKeys -> Entry] /\ \A k \in AllKeys \ ks : store[k] = cache[k]
  BY <1>5, PutType DEF Inv
<1>7. stored \in BOOLEAN  OBVIOUS
<1>8. Calm(AfterSave(o, stored)) /\ Calm(AfterSave(o, FALSE))
  BY <1>1, <1>7, AfterSaveCalm
<1>9. At(o, "answered") \in Ops /\ At(o, "answered").pc = "answered"
  BY <1>1, AtOps DEF Plain
<1>10. Good(At(o, "answered"), cache)  BY <1>9, PlainIsGood DEF Plain
<1> HIDE DEF ks, store, stored
<1> QED  BY <1>3, <1>6, <1>8, <1>10, CommitKeeps

LEMMA ClearCollectionKeeps ==
  ASSUME Inv, NEW p \in Procs, ClearCollection(p), mix' = mix
  PROVE  Inv'
<1> DEFINE store == Put(cache, {"collection"}, Tombstone)
<1>1. op[p] \in Ops  BY HasBegun DEF ClearCollection
<1>2. store \in [AllKeys -> Entry] /\ \A k \in AllKeys \ {"collection"} : store[k] = cache[k]
  BY PutType, Entries DEF Inv
<1>3. Good(At(op[p], "unlinking"), store)  BY <1>1, AtOps, PlainIsGood DEF Plain
<1>4. Write(p, {"collection"}, store, At(op[p], "unlinking")) /\ db' = db
  BY DEF ClearCollection
<1> HIDE DEF store
<1> QED  BY <1>2, <1>3, <1>4, WriteKeeps

(* What ClearDependencies writes, going by the list it has read. *)
LEMMA ClearListKeeps ==
  ASSUME Inv, NEW p \in Procs, ClearList(p), mix' = mix
  PROVE  Inv'
<1> DEFINE o == op[p]
           tombstone == o.kind = "delete" \/ o.seen["dependencies"] = Tombstone
           members == Listed(o.seen, "dependencies")
           entry == IF tombstone THEN Tombstone ELSE EmptyEntry
           cleared == Put(cache, members, EmptyEntry)
           store == Put(cleared, {"dependencies"}, entry)
           ks == IF o.kind = "put" /\ tombstone THEN {} ELSE members \cup {"dependencies"}
           next == IF o.named THEN "linking" ELSE "closing"
<1>1. o \in Ops  BY HasBegun DEF ClearList
<1>2. /\ At(o, "locked") \in Ops /\ At(o, "locked").pc = "locked"
      /\ At(o, "tombstoning") \in Ops /\ At(o, "tombstoning").pc = "tombstoning"
      /\ At(o, "unlinking") \in Ops /\ At(o, "unlinking").pc = "unlinking"
      /\ At(o, "undoing") \in Ops /\ At(o, "undoing").pc = "undoing"
      /\ At(o, next) \in Ops /\ At(o, next).pc = next
  BY <1>1, AtOps DEF Plain
<1>3. next \in Plain  BY DEF Plain
<1>4. \/ Commit(p, "ClearDependencies", ks, store, At(o, "locked"), At(o, "tombstoning"), Idle)
      \/ Commit(p, "ClearDependencies", ks, store, At(o, next), At(o, "unlinking"), At(o, "undoing"))
  BY DEF ClearList
<1>5. cleared \in [AllKeys -> Entry] /\ \A k \in AllKeys \ members : cleared[k] = cache[k]
  BY PutType, Entries DEF Inv
<1>6. entry \in Entry  BY Entries
<1>7. ks # {} => /\ store \in [AllKeys -> Entry]
                 /\ \A k \in AllKeys \ ks : store[k] = cache[k]
  <2> HIDE DEF cleared, entry, members
  <2>1. store \in [AllKeys -> Entry]
        /\ \A k \in AllKeys \ {"dependencies"} : store[k] = cleared[k]
    BY <1>5, <1>6, PutType
  <2> QED  BY <1>5, <2>1
<1> HIDE DEF next, ks, store
<1>8. /\ Calm(At(o, "locked")) /\ Calm(At(o, next)) /\ Calm(At(o, "undoing")) /\ Calm(Idle)
      /\ Good(At(o, "tombstoning"), cache) /\ Good(At(o, "unlinking"), cache)
  BY <1>2, <1>3, PlainIsGood DEF Calm, Plain
<1>9. CASE Commit(p, "ClearDependencies", ks, store, At(o, "locked"), At(o, "tombstoning"), Idle)
  BY <1>7, <1>8, <1>9, CommitKeeps
<1>10. CASE Commit(p, "ClearDependencies", ks, store, At(o, next), At(o, "unlinking"), At(o, "undoing"))
  BY <1>7, <1>8, <1>10, CommitKeeps
<1> QED  BY <1>4, <1>9, <1>10

LEMMA FinishCalm ==
  ASSUME NEW o \in Ops, NEW store
  PROVE  Finish(o) = Idle \/ Good(Finish(o), store)
<1>1. At(o, "closing") \in Ops /\ At(o, "closing").pc = "closing"  BY AtOps DEF Plain
<1>2. Good(At(o, "closing"), store)  BY <1>1, PlainIsGood DEF Plain
<1> QED  BY <1>2 DEF Finish

LEMMA LinkNameKeeps ==
  ASSUME Inv, NEW p \in Procs, LinkName(p), mix' = mix
  PROVE  Inv'
<1> DEFINE list == ListEntry(Listed(cache, "dependencies") \cup {"name"})
           store == Put(cache, {"dependencies"}, list)
<1>1. op[p] \in Ops /\ op[p].pc # "idle" /\ db' = db  BY HasBegun DEF LinkName
<1>2. Listed(cache, "dependencies") \cup {"name"} \in SUBSET AllKeys
  BY Entries DEF Listed, Inv, AllKeys
<1>3. list \in Entry  BY <1>2, Entries
<1> HIDE DEF list
<1>4. store \in [AllKeys -> Entry] /\ \A k \in AllKeys \ {"dependencies"} : store[k] = cache[k]
  BY <1>3, PutType DEF Inv
<1>5. Finish(op[p]) = Idle \/ Good(Finish(op[p]), store)  BY <1>1, FinishCalm
<1>6. \/ Go(p, At(op[p], "undoing")) /\ cache' = cache
      \/ Write(p, {"dependencies"}, store, Finish(op[p]))
  BY DEF LinkName, list
<1> HIDE DEF store
<1>7. CASE Go(p, At(op[p], "undoing")) /\ cache' = cache
  BY <1>1, <1>7, MoveKeeps DEF Plain, Inv
<1>8. CASE Write(p, {"dependencies"}, store, Finish(op[p]))
  BY <1>1, <1>4, <1>5, <1>8, WriteKeeps
<1> QED  BY <1>6, <1>7, <1>8

LEMMA UndoSaveKeeps ==
  ASSUME Inv, NEW p \in Procs, UndoSave(p), mix' = mix
  PROVE  Inv'
<1> DEFINE ks == {"primary", "name"}
           store == Put(cache, ks, Tombstone)
<1>1. op[p] \in Ops  BY HasBegun DEF UndoSave
<1>2. store \in [AllKeys -> Entry] /\ \A k \in AllKeys \ ks : store[k] = cache[k]
  BY PutType, Entries DEF Inv
<1>3. Finish(op[p]) = Idle \/ Good(Finish(op[p]), store)  BY <1>1, FinishCalm
<1>4. Write(p, ks, store, Finish(op[p])) /\ db' = db  BY DEF UndoSave
<1> HIDE DEF ks, store
<1> QED  BY <1>2, <1>3, <1>4, WriteKeeps

LEMMA ReleaseKeeps ==
  ASSUME Inv, NEW p \in Procs, Release(p), mix' = mix
  PROVE  Inv'
<1> DEFINE o == op[p]
           ks == {k \in DOMAIN o.seen : o.seen[k] = LockEntry(o.s)}
           store == Put(cache, ks, EmptyEntry)
<1>1. o \in Ops  BY HasBegun DEF Release
<1>2. store \in [AllKeys -> Entry] /\ \A k \in AllKeys \ ks : store[k] = cache[k]
  BY PutType, Entries DEF Inv
<1>3. At(o, "closing") \in Ops /\ At(o, "closing").pc = "closing"  BY <1>1, AtOps DEF Plain
<1>4. Good(At(o, "closing"), cache)  BY <1>3, PlainIsGood DEF Plain
<1>5. Commit(p, "ReleaseSentinel", ks, store, Idle, At(o, "closing"), Idle)
  BY DEF Release
<1>6. Calm(Idle)  BY DEF Calm
<1> HIDE DEF ks, store
<1> QED  BY <1>2, <1>4, <1>5, <1>6, CommitKeeps

LEMMA CloseUnlockedKeeps ==
  ASSUME Inv, NEW p \in Procs, CloseUnlocked(p), mix' = mix
  PROVE  Inv'
BY GoKeeps DEF CloseUnlocked, Inv

LEMMA DeleteScannedKeeps ==
  ASSUME Inv, NEW p \in Procs, DeleteScanned(p), mix' = mix
  PROVE  Inv'
<1> DEFINE ks == DOMAIN op[p].seen
           store == Put(cache, ks, EmptyEntry)
<1>1. store \in [AllKeys -> Entry] /\ \A k \in AllKeys \ ks : store[k] = cache[k]
  BY PutType, Entries DEF Inv
<1>2. Write(p, ks, store, Idle) /\ db' = db  BY DEF DeleteScanned
<1> HIDE DEF ks, store
<1> QED  BY <1>1, <1>2, WriteKeeps

LEMMA ExpireKeeps ==
  ASSUME Inv, NEW k \in AllKeys, Expire(k), mix' = mix
  PROVE  Inv'
<1> DEFINE store == Put(cache, {k}, EmptyEntry)
<1>1. store \in [AllKeys -> Entry] /\ \A l \in AllKeys \ {k} : store[l] = cache[l]
  BY PutType, Entries DEF Inv
<1>2. cache' = store /\ db' = db /\ op' = [p \in Procs |-> Touched({k}, op[p])]
  BY DEF Expire
<1> HIDE DEF store
<1>3. ASSUME NEW q \in Procs PROVE Touched({k}, op[q]) = Idle \/ Good(Touched({k}, op[q]), store)
  <2>1. CASE op[q] = Idle  BY <2>1 DEF Touched
  <2>2. CASE op[q] # Idle
    <3>1. op[q] \in Ops /\ Good(op[q], cache)  BY <2>2 DEF Inv
    <3> QED  BY <1>1, <3>1, TouchedGood
  <2> QED  BY <2>1, <2>2
<1>4. op' \in [Procs -> Ops \cup {Idle}]  BY <1>2, <1>3 DEF Good
<1>5. \A q \in Procs : op'[q] = Idle \/ Good(op'[q], store)  BY <1>2, <1>3
<1> QED  BY <1>1, <1>2, <1>4, <1>5 DEF Inv

-----------------------------------------------------------------------------
(* The steps of one caller. *)
Act(p) ==
  \/ \E kind \in mix.calls : Miss(p, kind) \/ StartMutation(p, kind)
  \/ LockMissed(p) \/ ServeRead(p) \/ ServeMutation(p)
  \/ ReadLocks(p) \/ TakeLock(p) \/ ReadLock(p) \/ SetLocked(p)
  \/ ClearCollection(p) \/ ReadList(p) \/ ClearList(p) \/ LinkName(p) \/ UndoSave(p)
  \/ ReadReleased(p) \/ Release(p) \/ CloseUnlocked(p)
  \/ StartPurge(p) \/ Scan(p) \/ DeleteScanned(p)

LEMMA NextCases ==
  Next => /\ mix' = mix
          /\ (\E p \in Procs : Act(p)) \/ (\E k \in AllKeys : Expire(k))
BY DEF Next, Step, Act

LEMMA NextInv == Inv /\ [Next]_vars => Inv'
<1> SUFFICES ASSUME Inv, [Next]_vars PROVE Inv'  OBVIOUS
<1>1. CASE Next
  <2>1. mix' = mix  BY <1>1, NextCases
  <2>2. ASSUME NEW p \in Procs, Act(p) PROVE Inv'
    <3>1. ASSUME NEW kind, Miss(p, kind) PROVE Inv'  BY <2>1, <3>1, MissKeeps
    <3>2. ASSUME NEW kind, StartMutation(p, kind) PROVE Inv'  BY <2>1, <3>2, StartMutationKeeps
    <3>3. CASE LockMissed(p)  BY <2>1, <3>3, LockMissedKeeps
    <3>4. CASE ServeRead(p)  BY <2>1, <3>4, ServeReadKeeps
    <3>5. CASE ServeMutation(p)  BY <2>1, <3>5, ServeMutationKeeps
    <3>6. CASE ReadLocks(p)  BY <2>1, <3>6, ReadLocksKeeps
    <3>7. CASE TakeLock(p)  BY <2>1, <3>7, TakeLockKeeps
    <3>8. CASE ReadLock(p)  BY <2>1, <3>8, ReadLockKeeps
    <3>9. CASE SetLocked(p)  BY <2>1, <3>9, SetLockedKeeps
    <3>10. CASE ClearCollection(p)  BY <2>1, <3>10, ClearCollectionKeeps
    <3>11. CASE ReadList(p)  BY <2>1, <3>11, ReadListKeeps
    <3>12. CASE ClearList(p)  BY <2>1, <3>12, ClearListKeeps
    <3>13. CASE LinkName(p)  BY <2>1, <3>13, LinkNameKeeps
    <3>14. CASE UndoSave(p)  BY <2>1, <3>14, UndoSaveKeeps
    <3>15. CASE ReadReleased(p)  BY <2>1, <3>15, ReadReleasedKeeps
    <3>16. CASE Release(p)  BY <2>1, <3>16, ReleaseKeeps
    <3>17. CASE CloseUnlocked(p)  BY <2>1, <3>17, CloseUnlockedKeeps
    <3>18. CASE StartPurge(p)  BY <2>1, <3>18, StartPurgeKeeps
    <3>19. CASE Scan(p)  BY <2>1, <3>19, ScanKeeps
    <3>20. CASE DeleteScanned(p)  BY <2>1, <3>20, DeleteScannedKeeps
    <3> QED
      BY <2>2, <3>1, <3>2, <3>3, <3>4, <3>5, <3>6, <3>7, <3>8, <3>9, <3>10, <3>11, <3>12,
         <3>13, <3>14, <3>15, <3>16, <3>17, <3>18, <3>19, <3>20 DEF Act
  <2>3. ASSUME NEW k \in AllKeys, Expire(k) PROVE Inv'  BY <2>1, <2>3, ExpireKeeps
  <2> QED  BY <1>1, <2>2, <2>3, NextCases
<1>2. CASE UNCHANGED vars  BY <1>2 DEF Inv, vars
<1> QED  BY <1>1, <1>2

LEMMA Invariance == Spec => []Inv
<1> QED  BY InitInv, NextInv, PTL DEF Spec

(* Whatever the number of callers, the mix and the transactions that give  *)
(* up, every variable keeps the shape the model gives it                   *)
(* (redis_provider.go).                                                    *)
THEOREM TypeCorrect == Spec => []TypeOK
<1>1. Inv => TypeOK
  <2> SUFFICES ASSUME Inv, NEW p \in Procs
               PROVE  op[p] = Idle \/ \E ks \in SUBSET AllKeys : op[p] \in Op(ks)
    BY DEF Inv, TypeOK
  <2> QED  BY DEF Inv, Ops
<1> QED  BY <1>1, Invariance, PTL

-----------------------------------------------------------------------------
(* A step of one caller does not move another on. *)
LEMMA Bystander ==
  ASSUME Inv, NEW ks, NEW p \in Procs
  PROVE  Touched(ks, op[p]).pc = op[p].pc
<1>1. CASE op[p] = Idle  BY <1>1 DEF Touched
<1>2. CASE op[p] # Idle
  <2>1. op[p] \in Ops  BY <1>2 DEF Inv
  <2>2. PICK js \in SUBSET AllKeys : op[p] \in Op(js)  BY <2>1 DEF Ops
  <2>3. [op[p] EXCEPT !.dirty = TRUE].pc = op[p].pc  BY <2>2, Zenon DEF Op
  <2> QED  BY <2>3 DEF Touched
<1> QED  BY <1>1, <1>2

(* Everything a caller writes, it writes with Write or leaves the cache as *)
(* it is and changes its own state alone.                                  *)
LEMMA ActWrites ==
  ASSUME NEW q \in Procs, Act(q)
  PROVE  (\E ks, store, o : Write(q, ks, store, o)) \/ (\E o : Go(q, o))
<1>1. ASSUME NEW operation, NEW ks, NEW store, NEW done, NEW again, NEW failed,
             Commit(q, operation, ks, store, done, again, failed)
      PROVE  (\E js, st, o : Write(q, js, st, o)) \/ (\E o : Go(q, o))
  BY <1>1 DEF Commit
<1>2. ASSUME NEW from, NEW ks, NEW pc, Look(q, from, ks, pc) PROVE \E o : Go(q, o)
  BY <1>2 DEF Look
<1>3. CASE \E kind \in mix.calls : Miss(q, kind) \/ StartMutation(q, kind)
  BY <1>3 DEF Miss, Start, StartMutation
<1>4. CASE LockMissed(q) \/ ServeRead(q) \/ ServeMutation(q) \/ CloseUnlocked(q) \/ StartPurge(q)
  BY <1>4 DEF LockMissed, ServeRead, ServeMutation, CloseUnlocked, StartPurge, Start
<1>5. CASE ReadLocks(q) \/ ReadLock(q) \/ ReadList(q) \/ ReadReleased(q) \/ Scan(q)
  BY <1>2, <1>5 DEF ReadLocks, ReadLock, ReadList, ReadReleased, Scan
<1>6. CASE TakeLock(q)  BY <1>1, <1>6 DEF TakeLock
<1>7. CASE SetLocked(q)  BY <1>1, <1>7 DEF SetLocked
<1>8. CASE ClearList(q)  BY <1>1, <1>8 DEF ClearList
<1>9. CASE Release(q)  BY <1>1, <1>9 DEF Release
<1>10. CASE ClearCollection(q) \/ LinkName(q) \/ UndoSave(q) \/ DeleteScanned(q)
  BY <1>10 DEF ClearCollection, LinkName, UndoSave, DeleteScanned
<1> QED  BY <1>3, <1>4, <1>5, <1>6, <1>7, <1>8, <1>9, <1>10 DEF Act

(* So whoever gets on took the step himself. *)
LEMMA WhoMoves ==
  ASSUME Inv, Next, NEW p \in Procs, op'[p].pc # op[p].pc
  PROVE  Act(p)
<1>1. ASSUME NEW q \in Procs, Act(q), q # p PROVE FALSE
  <2>1. ASSUME NEW ks, NEW store, NEW o, Write(q, ks, store, o) PROVE FALSE
    <3>1. op'[p] = Touched(ks, op[p])  BY <1>1, <2>1 DEF Write
    <3> QED  BY <3>1, Bystander
  <2>2. ASSUME NEW o, Go(q, o) PROVE FALSE
    <3>1. op'[p] = op[p]  BY <1>1, <2>2 DEF Go, Inv
    <3> QED  BY <3>1
  <2> QED  BY <1>1, <2>1, <2>2, ActWrites
<1>2. ASSUME NEW k \in AllKeys, Expire(k) PROVE FALSE
  <2>1. op'[p] = Touched({k}, op[p])  BY <1>2 DEF Expire
  <2> QED  BY <2>1, Bystander
<1> QED  BY <1>1, <1>2, NextCases

LEMMA Pcs ==
  ASSUME NEW p, Act(p), op[p].pc \in {"granting", "setting", "committing", "releasing"}
  PROVE  /\ op[p].pc = "granting" => TakeLock(p)
         /\ op[p].pc = "setting" => SetLocked(p)
         /\ op[p].pc = "committing" => ClearList(p)
         /\ op[p].pc = "releasing" => Release(p)
<1>1. op[p] # Idle  BY DEF Idle
<1>2. ~(\E kind \in mix.calls : Miss(p, kind) \/ StartMutation(p, kind)) /\ ~StartPurge(p)
  BY <1>1 DEF Miss, Start, StartMutation, StartPurge
<1>3. ~LockMissed(p) /\ ~ServeRead(p) /\ ~ServeMutation(p) /\ ~CloseUnlocked(p)
  BY DEF LockMissed, ServeRead, ServeMutation, CloseUnlocked
<1>4. ~ReadLocks(p) /\ ~ReadLock(p) /\ ~ReadList(p) /\ ~ReadReleased(p) /\ ~Scan(p)
  BY DEF ReadLocks, ReadLock, ReadList, ReadReleased, Scan, Look
<1>5. ~ClearCollection(p) /\ ~LinkName(p) /\ ~UndoSave(p) /\ ~DeleteScanned(p)
  BY DEF ClearCollection, LinkName, UndoSave, DeleteScanned
<1>6. /\ TakeLock(p) => op[p].pc = "granting"
      /\ SetLocked(p) => op[p].pc = "setting"
      /\ ClearList(p) => op[p].pc = "committing"
      /\ Release(p) => op[p].pc = "releasing"
  BY DEF TakeLock, SetLocked, ClearList, Release
<1> QED  BY <1>2, <1>3, <1>4, <1>5, <1>6 DEF Act

(* A transaction that changes the cache was not told of any change. *)
LEMMA Committed ==
  ASSUME NEW p, NEW operation, NEW ks, NEW store, NEW done, NEW again, NEW failed,
         Commit(p, operation, ks, store, done, again, failed), cache' # cache
  PROVE  ks # {} /\ ~op[p].dirty /\ cache' = store
BY DEF Commit, Write

LEMMA GrantsAtomically ==
  ASSUME Inv, NEW p \in Procs, TakeLock(p), cache' # cache
  PROVE  \E ks \in SUBSET LockedSet(op[p]) :
            /\ "primary" \in ks
            /\ ~Unavailable(cache, op[p].s, <<"primary">>)
            /\ cache' = Put(cache, ks, LockEntry(op[p].s))
<1> DEFINE o == op[p]
           ks == {k \in o.keys : k = "primary" \/ o.seen[k] # Tombstone}
           store == Put(cache, ks, LockEntry(o.s))
<1>1. o.pc = "granting" /\ Good(o, cache)  BY HasBegun DEF TakeLock
<1>2. ks \subseteq LockedSet(o) /\ "primary" \in ks  BY <1>1 DEF Good, Consistent
<1>3. /\ ~Unavailable(o.seen, o.s, <<"primary">>)
      /\ \E done, again : Commit(p, "WriteSentinel", ks, store, done, again, Idle)
  <2>1. CASE Unavailable(o.seen, o.s, <<"primary">>)
    <3>1. \E done : Commit(p, "WriteSentinel", {}, cache, done, o, Idle)
      BY <2>1 DEF TakeLock
    <3> QED  BY <3>1, Committed
  <2>2. CASE ~Unavailable(o.seen, o.s, <<"primary">>)  BY <2>2 DEF TakeLock
  <2> QED  BY <2>1, <2>2
<1> HIDE DEF ks, store
<1>4. ~o.dirty /\ cache' = store  BY <1>3, Committed
<1>5. o.seen["primary"] = cache["primary"]
  BY <1>1, <1>4 DEF Good, Consistent, Watched
<1>6. ~Unavailable(cache, o.s, <<"primary">>)  BY <1>3, <1>5 DEF Unavailable
<1> QED  BY <1>2, <1>4, <1>6 DEF store

LEMMA SavesAtomically ==
  ASSUME Inv, NEW p \in Procs, SetLocked(p), cache' # cache
  PROVE  cache' = SetValue(cache, LockKey(op[p]), SavedKeys(op[p]), op[p].val, op[p].s)
<1> DEFINE o == op[p]
           curr == o.seen[LockKey(o)]
           verdict == IF curr.tag = "empty" THEN "none" ELSE CanSetValue(curr, o.val, o.s)
           entry == CASE verdict = "set"      -> ItemEntry(o.val)
                      [] verdict = "clear"    -> EmptyEntry
                      [] verdict = "conflict" -> Bumped(curr)
                      [] verdict = "none"     -> EmptyEntry
           ks == IF verdict = "none" THEN {} ELSE SavedKeys(o)
           store == Put(cache, ks, entry)
<1>1. o.pc = "setting" /\ Good(o, cache)  BY HasBegun DEF SetLocked
<1>2. \E done, again, failed : Commit(p, "SetValue", ks, store, done, again, failed)
  BY DEF SetLocked
<1>3. ks # {} /\ ~o.dirty /\ cache' = store
  <2> HIDE DEF ks, store
  <2> QED  BY <1>2, Committed
<1>4. curr = cache[LockKey(o)]  BY <1>1, <1>3 DEF Good, Consistent, Watched
<1>5. curr.tag # "empty" /\ verdict = CanSetValue(curr, o.val, o.s) /\ verdict # "none"
  BY <1>3
<1>6. curr.tag # "list"
  BY <1>5 DEF CanSetValue, LockEntry, IsLock
<1>7. verdict \in {"set", "clear", "conflict"}  BY <1>5 DEF CanSetValue
<1>8. cache' = Put(cache, SavedKeys(o), entry)  BY <1>3, <1>5
<1> HIDE DEF curr, verdict
<1>9. CASE verdict = "set"  BY <1>4, <1>5, <1>6, <1>8, <1>9 DEF SetValue
<1>10. CASE verdict = "clear"  BY <1>4, <1>5, <1>6, <1>8, <1>10 DEF SetValue
<1>11. CASE verdict = "conflict"  BY <1>4, <1>5, <1>6, <1>8, <1>11 DEF SetValue
<1> QED  BY <1>7, <1>9, <1>10, <1>11

LEMMA ClearsAtomically ==
  ASSUME Inv, NEW p \in Procs, ClearList(p), cache' # cache
  PROVE  cache' = ClearDependencies(cache, "dependencies", op[p].kind = "delete")
<1> DEFINE o == op[p]
           tombstone == o.kind = "delete" \/ o.seen["dependencies"] = Tombstone
           members == Listed(o.seen, "dependencies")
           store == Put(Put(cache, members, EmptyEntry), {"dependencies"},
                        IF tombstone THEN Tombstone ELSE EmptyEntry)
           ks == IF o.kind = "put" /\ tombstone THEN {} ELSE members \cup {"dependencies"}
<1>1. o.pc = "committing" /\ Good(o, cache)  BY HasBegun DEF ClearList
<1>2. \E done, again, failed : Commit(p, "ClearDependencies", ks, store, done, again, failed)
  BY DEF ClearList
<1>3. ~o.dirty /\ cache' = store
  <2> HIDE DEF ks, store
  <2> QED  BY <1>2, Committed
<1>4. o.seen["dependencies"] = cache["dependencies"]
  BY <1>1, <1>3 DEF Good, Consistent, Watched
<1>5. members = Listed(cache, "dependencies")  BY <1>4 DEF Listed
<1> QED  BY <1>3, <1>4, <1>5 DEF ClearDependencies

LEMMA ReleasesAtomically ==
  ASSUME Inv, NEW p \in Procs, Release(p), cache' # cache
  PROVE  cache' = ReleaseSentinel(cache, op[p].s, LockedSet(op[p]))
<1> DEFINE o == op[p]
           ks == {k \in DOMAIN o.seen : o.seen[k] = LockEntry(o.s)}
           store == Put(cache, ks, EmptyEntry)
<1>1. o.pc = "releasing" /\ Good(o, cache)  BY HasBegun DEF Release
<1>2. ~o.dirty /\ cache' = store
  <2>1. Commit(p, "ReleaseSentinel", ks, store, Idle, At(o, "closing"), Idle)
    BY DEF Release
  <2> HIDE DEF ks, store
  <2> QED  BY <2>1, Committed
<1>3. DOMAIN o.seen = LockedSet(o) /\ \A k \in LockedSet(o) : o.seen[k] = cache[k]
  BY <1>1, <1>2 DEF Good, Consistent, Watched
<1>4. ks = {k \in LockedSet(o) : cache[k] = LockEntry(o.s)}  BY <1>3
<1> QED  BY <1>2, <1>4 DEF ReleaseSentinel

(* A transaction of redis_provider.go that commits did to the cache, as it *)
(* is at that moment, what the operation of the provider is specified to   *)
(* do, although it decided by what it had read earlier and watches fewer   *)
(* keys than it writes.                                                    *)
THEOREM CommitsAreAtomic == Spec => CommitsAtomically
<1> DEFINE Atomic(p) ==
      LET o == op[p] IN
      (op'[p].pc # o.pc /\ cache' # cache) =>
        CASE o.pc = "granting"   -> \E ks \in SUBSET LockedSet(o) :
                                      /\ "primary" \in ks
                                      /\ ~Unavailable(cache, o.s, <<"primary">>)
                                      /\ cache' = Put(cache, ks, LockEntry(o.s))
          [] o.pc = "setting"    -> cache' = SetValue(cache, LockKey(o), SavedKeys(o), o.val, o.s)
          [] o.pc = "committing" -> cache' = ClearDependencies(cache, "dependencies", o.kind = "delete")
          [] o.pc = "releasing"  -> cache' = ReleaseSentinel(cache, o.s, LockedSet(o))
          [] OTHER               -> TRUE
<1>1. ASSUME Inv, Next, NEW p \in Procs PROVE Atomic(p)
  <2> SUFFICES ASSUME op'[p].pc # op[p].pc, cache' # cache PROVE Atomic(p)  OBVIOUS
  <2>1. Act(p)  BY <1>1, WhoMoves
  <2>2. CASE op[p].pc = "granting"
    <3>1. TakeLock(p)  BY <2>1, <2>2, Pcs
    <3>2. \E ks \in SUBSET LockedSet(op[p]) :
            /\ "primary" \in ks
            /\ ~Unavailable(cache, op[p].s, <<"primary">>)
            /\ cache' = Put(cache, ks, LockEntry(op[p].s))
      BY <1>1, <3>1, GrantsAtomically
    <3> QED  BY <2>2, <3>2
  <2>3. CASE op[p].pc = "setting"
    <3>1. SetLocked(p)  BY <2>1, <2>3, Pcs
    <3> QED  BY <1>1, <2>3, <3>1, SavesAtomically
  <2>4. CASE op[p].pc = "committing"
    <3>1. ClearList(p)  BY <2>1, <2>4, Pcs
    <3> QED  BY <1>1, <2>4, <3>1, ClearsAtomically
  <2>5. CASE op[p].pc = "releasing"
    <3>1. Release(p)  BY <2>1, <2>5, Pcs
    <3> QED  BY <1>1, <2>5, <3>1, ReleasesAtomically
  <2>6. CASE op[p].pc \notin {"granting", "setting", "committing", "releasing"}
    BY <2>6
  <2> QED  BY <2>2, <2>3, <2>4, <2>5, <2>6
<1>2. Inv /\ [Next]_vars => [\A p \in Procs : Atomic(p)]_vars  BY <1>1
<1> QED  BY <1>2, Invariance, PTL DEF Spec, CommitsAtomically

-----------------------------------------------------------------------------
HIDE RedisItemsAssumption

(* Coherence, in a mix in which one mutation at a time runs against any    *)
(* number of readers, nothing but what leaves no trace gives up, and no    *)
(* answer of the server is lost.                                           *)
Serial ==
  /\ mix.calls \subseteq {"get", "list", "put", "delete"}
  /\ "lost" \notin mix.faults
  /\ mix.mutators \in {0, 1}
  /\ MayGiveUp \cap {<<"SetValue", "put">>, <<"ReleaseSentinel", "delete">>,
                     <<"ClearDependencies", "put">>, <<"ClearDependencies", "delete">>} = {}

Mutator(o) == o.kind \in {"put", "delete"}

(* The steps of each kind of call, and the sentinel it goes by. *)
Phases(kind) ==
  CASE kind = "get"    -> {"missed", "locked", "answered", "setting", "linking", "undoing"}
    [] kind = "list"   -> {"missed", "locked", "answered", "setting"}
    [] kind = "put"    -> {"locking", "granting", "locked", "answered", "setting", "clearing",
                           "unlinking", "committing", "linking", "undoing", "closing", "releasing"}
    [] kind = "delete" -> {"locking", "granting", "tombstoning", "committing", "locked",
                           "closing", "releasing"}
Shaped(o) ==
  /\ o.kind \in {"get", "list", "put", "delete"}
  /\ o.pc \in Phases(o.kind)
  /\ o.s \in Sentinel
  /\ o.s.kind = CASE o.kind = "put"    -> "write"
                  [] o.kind = "delete" -> "delete"
                  [] OTHER             -> "read"
  /\ o.kind = "delete" => o.val = Nil

(* What a mutation has locked stays locked, or an undone save has put a    *)
(* tombstone there.                                                        *)
Holds(e, o) == e \in {LockEntry(o.s), Tombstone}
DeleteLocked(e) == IsLock(e) /\ e.s.kind = "delete"

(* The collection does not come back as an item: it is locked, about to be *)
(* locked, or a tombstone.                                                 *)
GripsCollection(o, c) ==
  /\ o.pc \in {"locking", "granting"} /\ "collection" \notin o.keys
       => c["collection"] = Tombstone
  /\ o.pc = "granting" /\ "collection" \in o.keys /\ o.seen["collection"] = Tombstone
       => c["collection"] = Tombstone
  /\ o.pc = "locked" \/ (o.kind = "delete" /\ o.pc \in {"tombstoning", "committing"})
       => Holds(c["collection"], o)

(* Nor does the item under its primary key.  A save that reads a tombstone *)
(* in place of its lock stores nothing, and need not.                      *)
Locked(o) == IF o.kind = "put" THEN o.pc \in {"locked", "answered", "setting"}
                               ELSE o.pc \notin {"locking", "granting"}
Decided(o) == IF o.kind = "put" THEN o.pc = "setting" ELSE o.pc = "releasing"
GripsPrimary(o, c) ==
  /\ o.pc = "granting" => ~DeleteLocked(o.seen["primary"])
  /\ Locked(o) => Holds(c["primary"], o)
  /\ Locked(o) /\ o.kind = "put" /\ c["primary"] = Tombstone => c["name"].tag # "item"
  /\ Decided(o) => /\ Holds(o.seen["primary"], o)
                   /\ c["primary"] = LockEntry(o.s) => o.seen["primary"] = LockEntry(o.s)

(* A delete leaves no list for readers to enter names in before it asks    *)
(* the server.                                                             *)
GripsList(o, c) ==
  o.kind = "delete" /\ o.pc \in {"locked", "closing", "releasing"} => c["dependencies"] = Tombstone

(* Whoever may store an item has the server's. *)
StoresRight(o, c, d) ==
  /\ o.kind = "put" /\ o.pc \in {"answered", "setting"} => o.val = d
  /\ ~Mutator(o) /\ o.pc \in {"answered", "setting"} /\ c[LockKey(o)] = LockEntry(o.s) => o.val = d

Fit(o, c, d) ==
  /\ Shaped(o)
  /\ Mutator(o) => GripsCollection(o, c) /\ GripsPrimary(o, c) /\ GripsList(o, c)
  /\ StoresRight(o, c, d)

(* Who is yet to enter the name in the list or take the item back, who is  *)
(* about to store the item anew, and who owns the lock of a delete.        *)
Linker(o) == o # Idle /\ o.kind = "get" /\ o.pc \in {"linking", "undoing"}
Namer(o) == /\ o # Idle /\ o.kind = "put" /\ o.named
            /\ o.pc \in {"clearing", "unlinking", "committing", "linking", "undoing"}
Renewer(o, c) == /\ o # Idle /\ o.kind = "put" /\ o.pc \in {"answered", "setting"}
                 /\ c["primary"] = LockEntry(o.s)
Deleter(o, c) == /\ o # Idle /\ o.kind = "delete" /\ o.pc \notin {"locking", "granting"}
                 /\ c["primary"] = LockEntry(o.s)

Linking(ops) == \E p \in Procs : Linker(ops[p])
Naming(ops) == \E p \in Procs : Namer(ops[p])
Renewing(ops, c) == \E p \in Procs : Renewer(ops[p], c)

Calls(ops, c, d) ==
  /\ \A p \in Procs : ops[p] # Idle => Fit(ops[p], c, d)
  /\ \A p, q \in Procs : p # q /\ ops[p] # Idle /\ ops[q] # Idle =>
       ops[p].s # ops[q].s /\ ~(Mutator(ops[p]) /\ Mutator(ops[q]))

DeleteLockOwned(ops, c) == DeleteLocked(c["primary"]) => \E p \in Procs : Deleter(ops[p], c)
ListRight(c) == /\ c["dependencies"].tag \in {"empty", "list", "tombstone"}
                /\ c["dependencies"].tag = "list" => c["dependencies"].keys \subseteq {"name"}
(* An item cached under the name is on the list, or its owner is about to  *)
(* put it there; and it is the server's, or about to be replaced.          *)
NameListed(ops, c) ==
  c["name"].tag = "item" => "name" \in Listed(c, "dependencies") \/ Linking(ops) \/ Naming(ops)
NameRight(ops, c, d) ==
  c["name"].tag = "item" => \/ c["name"].val = d
                            \/ Renewing(ops, c)
                            \/ c["dependencies"] = Tombstone /\ Linking(ops)
ItemsRight(c, d) == \A k \in {"primary", "collection"} : c[k].tag = "item" => c[k].val = d

Kept(ops, c, d) == /\ DeleteLockOwned(ops, c) /\ ListRight(c)
                   /\ NameListed(ops, c) /\ NameRight(ops, c, d) /\ ItemsRight(c, d)

QuietInv == Inv /\ Calls(op, cache, db) /\ Kept(op, cache, db)

-----------------------------------------------------------------------------
(* What tells the entries apart. *)
LEMMA Tags ==
  /\ EmptyEntry.tag = "empty" /\ Tombstone.tag = "tombstone"
  /\ \A v : ItemEntry(v).tag = "item" /\ ItemEntry(v).val = v
  /\ \A s : LockEntry(s).tag = "lock" /\ LockEntry(s).s = s
  /\ \A ks : ListEntry(ks).tag = "list" /\ ListEntry(ks).keys = ks
BY DEF EmptyEntry, Tombstone, ItemEntry, LockEntry, ListEntry

LEMMA TagCases ==
  \A e \in Entry : /\ e.tag \in {"empty", "tombstone", "item", "lock", "list"}
                   /\ e.tag = "empty" => e = EmptyEntry
                   /\ e.tag = "tombstone" => e = Tombstone
BY DEF Entry, EmptyEntry, Tombstone, ItemEntry, ListEntry

(* A call that others only told of a write. *)
Same(a, b) == /\ b.kind = a.kind /\ b.pc = a.pc /\ b.s = a.s /\ b.val = a.val
              /\ b.named = a.named /\ b.keys = a.keys /\ b.seen = a.seen
Kin(a, b) == IF a = Idle THEN b = Idle ELSE b # Idle /\ Same(a, b)

LEMMA TouchedKin ==
  ASSUME NEW o \in Ops \cup {Idle}, NEW ks
  PROVE  Kin(o, Touched(ks, o))
<1>1. CASE o = Idle  BY <1>1 DEF Touched, Kin
<1>2. CASE o # Idle
  <2>1. PICK js \in SUBSET AllKeys : o \in Op(js)  BY <1>2 DEF Ops
  <2> DEFINE d == [o EXCEPT !.dirty = TRUE]
  <2>2. d \in Op(js)  BY <2>1, Zenon DEF Op
  <2>3. Same(o, d)  BY <2>1, Zenon DEF Op, Same
  <2> HIDE DEF d
  <2>4. d # Idle  BY <2>1, <2>2, IdleIsNoOp DEF Ops
  <2>5. Touched(ks, o) \in {o, d}  BY DEF Touched, d
  <2>6. Same(o, o)  BY DEF Same
  <2> QED  BY <1>2, <2>3, <2>4, <2>5, <2>6 DEF Kin
<1> QED  BY <1>1, <1>2

(* Whatever p does leaves the other calls where they are. *)
LEMMA Others ==
  ASSUME Inv, NEW p \in Procs, (\E ks, store, o : Write(p, ks, store, o)) \/ (\E o : Go(p, o))
  PROVE  \A q \in Procs \ {p} : Kin(op[q], op'[q])
<1> SUFFICES ASSUME NEW q \in Procs \ {p} PROVE Kin(op[q], op'[q])  OBVIOUS
<1>1. op[q] \in Ops \cup {Idle}  BY DEF Inv
<1>2. ASSUME NEW ks, NEW store, NEW o, Write(p, ks, store, o) PROVE Kin(op[q], op'[q])
  <2>1. op'[q] = Touched(ks, op[q])  BY <1>2 DEF Write
  <2> QED  BY <1>1, <2>1, TouchedKin
<1>3. ASSUME NEW o, Go(p, o) PROVE Kin(op[q], op'[q])
  <2>1. op'[q] = op[q]  BY <1>3 DEF Go, Inv
  <2> QED  BY <2>1 DEF Kin, Same
<1> QED  BY <1>2, <1>3

(* A change of the cache by another that leaves the call of o what it      *)
(* rests on: nobody else writes its sentinel, and what a mutation holds    *)
(* stays, except that an undone save puts tombstones in place of the item. *)
Mild(o, c, e) ==
  /\ \A k \in AllKeys : e[k] = LockEntry(o.s) => c[k] = LockEntry(o.s)
  /\ Mutator(o) =>
       /\ Holds(c["primary"], o) =>
            /\ e["primary"] \in {c["primary"], Tombstone}
            /\ e["name"] = c["name"] \/ e["name"].tag # "item"
            /\ e["primary"] # c["primary"] => e["name"].tag # "item"
       /\ Holds(c["collection"], o) => e["collection"] = c["collection"]
       /\ c["dependencies"] = Tombstone => e["dependencies"] = Tombstone

LEMMA BystanderFit ==
  ASSUME NEW o, NEW b, NEW c, NEW e, NEW d, Fit(o, c, d), Same(o, b), Mild(o, c, e)
  PROVE  Fit(b, e, d)
<1>1. Shaped(b)  BY DEF Fit, Shaped, Same
<1>2. LockKey(b) = LockKey(o) /\ LockKey(o) \in AllKeys  BY DEF LockKey, Same, AllKeys
<1>3. StoresRight(b, e, d)  BY <1>2 DEF Fit, StoresRight, Same, Mild, Mutator
<1>4. ASSUME Mutator(b) PROVE GripsCollection(b, e) /\ GripsPrimary(b, e) /\ GripsList(b, e)
  <2>1. Mutator(o) /\ GripsCollection(o, c) /\ GripsPrimary(o, c) /\ GripsList(o, c)
    BY <1>4 DEF Fit, Same, Mutator
  <2>2. GripsCollection(b, e)  BY <2>1 DEF GripsCollection, Same, Mild, Holds
  <2>3. GripsList(b, e)  BY <2>1 DEF GripsList, Same, Mild
  <2>4. GripsPrimary(b, e)
    <3>1. e["primary"] = LockEntry(o.s) => c["primary"] = LockEntry(o.s)
      BY DEF Mild, AllKeys
    <3>2. Holds(c["primary"], o) => /\ Holds(e["primary"], o)
                                    /\ e["name"] = c["name"] \/ e["name"].tag # "item"
                                    /\ e["primary"] # c["primary"] => e["name"].tag # "item"
      BY <2>1 DEF Mild, Holds
    <3>3. b.kind = o.kind /\ b.pc = o.pc /\ b.seen = o.seen /\ b.s = o.s  BY DEF Same
    <3>4. \A x : Holds(x, b) = Holds(x, o)  BY <3>3 DEF Holds
    <3>5. Locked(b) = Locked(o) /\ Decided(b) = Decided(o)  BY <3>3 DEF Locked, Decided
    <3>6. Locked(o) => Holds(c["primary"], o)  BY <2>1 DEF GripsPrimary
    <3>7. Locked(o) /\ o.kind = "put" /\ e["primary"] = Tombstone => e["name"].tag # "item"
      BY <2>1, <3>2, <3>6 DEF GripsPrimary
    <3> HIDE DEF Holds
    <3> QED  BY <2>1, <3>1, <3>2, <3>3, <3>4, <3>5, <3>6, <3>7 DEF GripsPrimary
  <2> QED  BY <2>2, <2>3, <2>4
<1> QED  BY <1>1, <1>3, <1>4 DEF Fit

LEMMA SameCache ==
  ASSUME NEW o, NEW c
  PROVE  Mild(o, c, c)
BY DEF Mild, Holds

(* The others keep fitting, and so does p. *)
LEMMA CallsKeep ==
  ASSUME NEW ops, NEW nops, NEW c, NEW e, NEW d, NEW f, NEW p \in Procs, Calls(ops, c, d),
         \A q \in Procs \ {p} : /\ Kin(ops[q], nops[q])
                                /\ nops[q] # Idle => Fit(nops[q], e, f),
         nops[p] # Idle =>
           /\ Fit(nops[p], e, f)
           /\ \A q \in Procs \ {p} : ops[q] # Idle => /\ nops[p].s # ops[q].s
                                                      /\ ~(Mutator(nops[p]) /\ Mutator(ops[q]))
  PROVE  Calls(nops, e, f)
<1>1. \A q \in Procs : nops[q] # Idle => Fit(nops[q], e, f)  OBVIOUS
<1>2. \A q \in Procs \ {p} : nops[q] # Idle =>
        ops[q] # Idle /\ nops[q].s = ops[q].s /\ Mutator(nops[q]) = Mutator(ops[q])
  BY DEF Kin, Same, Mutator
<1>3. ASSUME NEW q \in Procs, NEW r \in Procs, q # r, nops[q] # Idle, nops[r] # Idle
      PROVE  nops[q].s # nops[r].s /\ ~(Mutator(nops[q]) /\ Mutator(nops[r]))
  <2>1. CASE q = p  BY <1>2, <1>3, <2>1
  <2>2. CASE r = p  BY <1>2, <1>3, <2>2
  <2>3. CASE q # p /\ r # p
    <3>1. ops[q].s # ops[r].s /\ ~(Mutator(ops[q]) /\ Mutator(ops[r]))
      BY <1>2, <1>3, <2>3 DEF Calls
    <3> QED  BY <1>2, <1>3, <2>3, <3>1
  <2> QED  BY <2>1, <2>2, <2>3
<1> QED  BY <1>1, <1>3 DEF Calls

(* p goes on with its call or ends it, and writes nothing to the cache     *)
(* that another rests on.                                                  *)
LEMMA StepCalls ==
  ASSUME NEW ops, NEW nops, NEW c, NEW e, NEW d, NEW p \in Procs, Calls(ops, c, d),
         ops[p] # Idle,
         \A q \in Procs \ {p} : Kin(ops[q], nops[q]),
         \A q \in Procs \ {p} : ops[q] # Idle => Mild(ops[q], c, e),
         nops[p] # Idle => /\ Fit(nops[p], e, d)
                           /\ nops[p].s = ops[p].s /\ nops[p].kind = ops[p].kind
  PROVE  Calls(nops, e, d)
<1>1. ASSUME NEW q \in Procs \ {p}, nops[q] # Idle PROVE Fit(nops[q], e, d)
  <2>1. ops[q] # Idle /\ Same(ops[q], nops[q])  BY <1>1 DEF Kin
  <2>2. Fit(ops[q], c, d) /\ Mild(ops[q], c, e)  BY <2>1 DEF Calls
  <2> QED  BY <2>1, <2>2, BystanderFit
<1>2. ASSUME NEW q \in Procs \ {p}, nops[p] # Idle, ops[q] # Idle
      PROVE  nops[p].s # ops[q].s /\ ~(Mutator(nops[p]) /\ Mutator(ops[q]))
  BY <1>2 DEF Calls, Mutator
<1> QED  BY <1>1, <1>2, CallsKeep

(* A write of p that leaves no sentinel but its own does not concern       *)
(* readers, which is all there is besides a mutation.                      *)
LEMMA LocksItsOwn ==
  ASSUME NEW ops, NEW c, NEW e, NEW d, NEW p \in Procs, NEW q \in Procs \ {p}, Calls(ops, c, d),
         ops[p] # Idle, ops[q] # Idle, Mutator(ops[p]),
         \A k \in AllKeys : e[k] = c[k] \/ e[k] = LockEntry(ops[p].s) \/ e[k].tag # "lock"
  PROVE  Mild(ops[q], c, e)
<1>1. ops[p].s # ops[q].s /\ ~Mutator(ops[q])  BY DEF Calls
<1>2. \A k \in AllKeys : e[k] = LockEntry(ops[q].s) => c[k] = LockEntry(ops[q].s)
  BY <1>1, Tags
<1> QED  BY <1>1, <1>2 DEF Mild

-----------------------------------------------------------------------------
LEMMA KinRoles ==
  ASSUME NEW a, NEW b, Kin(a, b), NEW c, NEW e
  PROVE  /\ Linker(a) => Linker(b)
         /\ Namer(a) => Namer(b)
         /\ Renewer(a, c) /\ e["primary"] = c["primary"] => Renewer(b, e)
         /\ Deleter(a, c) /\ e["primary"] = c["primary"] => Deleter(b, e)
BY DEF Kin, Same, Linker, Namer, Renewer, Deleter

LEMMA RolesKeep ==
  ASSUME NEW ops, NEW nops, NEW c, NEW e, NEW p \in Procs,
         \A q \in Procs \ {p} : Kin(ops[q], nops[q])
  PROVE  /\ Linking(ops) => Linking(nops) \/ (Linker(ops[p]) /\ ~Linker(nops[p]))
         /\ Naming(ops) => Naming(nops) \/ (Namer(ops[p]) /\ ~Namer(nops[p]))
         /\ Renewing(ops, c) /\ e["primary"] = c["primary"] =>
              Renewing(nops, e) \/ (Renewer(ops[p], c) /\ ~Renewer(nops[p], e))
         /\ DeleteLockOwned(ops, c) /\ e["primary"] = c["primary"] =>
              DeleteLockOwned(nops, e) \/ (Deleter(ops[p], c) /\ ~Deleter(nops[p], e))
<1>1. ASSUME Linking(ops) PROVE Linking(nops) \/ (Linker(ops[p]) /\ ~Linker(nops[p]))
  <2>1. PICK q \in Procs : Linker(ops[q])  BY <1>1 DEF Linking
  <2>2. q # p => Linker(nops[q])  BY <2>1, KinRoles
  <2> QED  BY <2>1, <2>2 DEF Linking
<1>2. ASSUME Naming(ops) PROVE Naming(nops) \/ (Namer(ops[p]) /\ ~Namer(nops[p]))
  <2>1. PICK q \in Procs : Namer(ops[q])  BY <1>2 DEF Naming
  <2>2. q # p => Namer(nops[q])  BY <2>1, KinRoles
  <2> QED  BY <2>1, <2>2 DEF Naming
<1>3. ASSUME Renewing(ops, c), e["primary"] = c["primary"]
      PROVE  Renewing(nops, e) \/ (Renewer(ops[p], c) /\ ~Renewer(nops[p], e))
  <2>1. PICK q \in Procs : Renewer(ops[q], c)  BY <1>3 DEF Renewing
  <2>2. q # p => Renewer(nops[q], e)  BY <1>3, <2>1, KinRoles
  <2> QED  BY <2>1, <2>2 DEF Renewing
<1>4. ASSUME DeleteLockOwned(ops, c), e["primary"] = c["primary"]
      PROVE  DeleteLockOwned(nops, e) \/ (Deleter(ops[p], c) /\ ~Deleter(nops[p], e))
  <2>1. CASE ~DeleteLocked(c["primary"])  BY <1>4, <2>1 DEF DeleteLockOwned
  <2>2. CASE DeleteLocked(c["primary"])
    <3>1. PICK q \in Procs : Deleter(ops[q], c)  BY <1>4, <2>2 DEF DeleteLockOwned
    <3>2. q # p => Deleter(nops[q], e)  BY <1>4, <3>1, KinRoles
    <3> QED  BY <3>1, <3>2 DEF DeleteLockOwned
  <2> QED  BY <2>1, <2>2
<1> QED  BY <1>1, <1>2, <1>3, <1>4

(* A step that leaves the cache and the server alone. *)
LEMMA KeptStays ==
  ASSUME NEW ops, NEW nops, NEW c, NEW d, NEW p \in Procs, Kept(ops, c, d),
         \A q \in Procs \ {p} : Kin(ops[q], nops[q]),
         Linker(ops[p]) => Linker(nops[p]), Namer(ops[p]) => Namer(nops[p]),
         Renewer(ops[p], c) => Renewer(nops[p], c), Deleter(ops[p], c) => Deleter(nops[p], c)
  PROVE  Kept(nops, c, d)
<1>1. /\ Linking(ops) => Linking(nops)
      /\ Naming(ops) => Naming(nops)
      /\ Renewing(ops, c) => Renewing(nops, c)
      /\ DeleteLockOwned(nops, c)
  BY RolesKeep DEF Kept
<1> QED  BY <1>1 DEF Kept, NameListed, NameRight

-----------------------------------------------------------------------------
LEMMA Calling ==
  ASSUME QuietInv, NEW p \in Procs, op[p].pc # "idle"
  PROVE  /\ op[p] # Idle /\ op[p] \in Ops /\ op[p].val \in Contents
         /\ Fit(op[p], cache, db) /\ Consistent(op[p], cache)
BY HasBegun DEF QuietInv, Calls, Good

LEMMA MoveStaysQuiet ==
  ASSUME QuietInv, Inv', NEW p \in Procs, op[p] # Idle, NEW o, Go(p, o),
         o # Idle => Fit(o, cache, db) /\ o.s = op[p].s /\ o.kind = op[p].kind,
         Linker(op[p]) => Linker(o), Namer(op[p]) => Namer(o),
         Renewer(op[p], cache) => Renewer(o, cache), Deleter(op[p], cache) => Deleter(o, cache),
         cache' = cache, db' = db
  PROVE  QuietInv'
<1>1. op'[p] = o  BY DEF Go, QuietInv, Inv
<1>2. \A q \in Procs \ {p} : Kin(op[q], op'[q])  BY Others DEF QuietInv
<1>3. Calls(op', cache, db)
  <2>1. \A q \in Procs \ {p} : op[q] # Idle => Mild(op[q], cache, cache)  BY SameCache
  <2> QED  BY <1>1, <1>2, <2>1, StepCalls DEF QuietInv
<1>4. Kept(op', cache, db)  BY <1>1, <1>2, KeptStays DEF QuietInv
<1> QED  BY <1>3, <1>4 DEF QuietInv

LEMMA WriteStaysQuiet ==
  ASSUME QuietInv, Inv', NEW p \in Procs, op[p] # Idle, NEW ks, NEW store, NEW o,
         Write(p, ks, store, o), db' = db,
         o # Idle => Fit(o, store, db) /\ o.s = op[p].s /\ o.kind = op[p].kind,
         \A q \in Procs \ {p} : op[q] # Idle => Mild(op[q], cache, store),
         Kept(op', store, db)
  PROVE  QuietInv'
<1>1. cache' = store  BY DEF Write
<1>2. op'[p] = o  BY DEF Write
<1>3. \A q \in Procs \ {p} : Kin(op[q], op'[q])  BY Others DEF QuietInv
<1>4. Calls(op', store, db)  BY <1>2, <1>3, StepCalls DEF QuietInv
<1> QED  BY <1>1, <1>4 DEF QuietInv

LEMMA NobodysSentinel ==
  ASSUME QuietInv, NEW kind \in {"read", "write", "delete"}, NEW s \in FreshSentinel(kind)
  PROVE  /\ s \in Sentinel /\ s.kind = kind
         /\ \A q \in Procs : op[q] # Idle => op[q].s # s
<1>1. s \in Sentinel /\ s.kind = kind  BY FreshIsSentinel DEF FreshSentinel
<1>2. ASSUME NEW q \in Procs, op[q] # Idle PROVE op[q].s # s
  <2>1. op[q].s \in Sentinel  BY <1>2 DEF QuietInv, Calls, Fit, Shaped
  <2>2. op[q].s # NoLock  BY <2>1 DEF Sentinel, Kinds, NoLock
  <2>3. op[q].s.id \in InUse  BY <1>2, <2>2 DEF InUse, Running
  <2>4. s.id \notin InUse  BY DEF FreshSentinel
  <2> QED  BY <2>3, <2>4
<1> QED  BY <1>1, <1>2

(* A call begins with a sentinel of its own, and a mutation alone. *)
LEMMA BeginStaysQuiet ==
  ASSUME QuietInv, Inv', NEW p \in Procs, op[p] = Idle, NEW o, Go(p, o), o # Idle,
         Fit(o, cache, db), \A q \in Procs : op[q] # Idle => o.s # op[q].s,
         Mutator(o) => \A q \in Procs : op[q] # Idle => ~Mutator(op[q]),
         cache' = cache, db' = db
  PROVE  QuietInv'
<1>1. op'[p] = o  BY DEF Go, QuietInv, Inv
<1>2. \A q \in Procs \ {p} : op'[q] = op[q]  BY DEF Go, QuietInv, Inv
<1>3. \A q \in Procs \ {p} : Kin(op[q], op'[q])  BY <1>2 DEF Kin, Same
<1>4. Calls(op, cache, db)  BY DEF QuietInv
<1>5. \A q \in Procs \ {p} : op'[q] # Idle => Fit(op'[q], cache, db)  BY <1>2, <1>4 DEF Calls
<1>6. Calls(op', cache, db)  BY <1>1, <1>3, <1>4, <1>5, CallsKeep
<1>7. ~Linker(op[p]) /\ ~Namer(op[p]) /\ ~Renewer(op[p], cache) /\ ~Deleter(op[p], cache)
  BY DEF Linker, Namer, Renewer, Deleter
<1>8. Kept(op', cache, db)  BY <1>3, <1>7, KeptStays DEF QuietInv
<1> QED  BY <1>6, <1>8 DEF QuietInv

LEMMA MissQuiet ==
  ASSUME QuietInv, Inv', NEW p \in Procs, NEW kind, Miss(p, kind)
  PROVE  QuietInv'
<1>1. PICK s \in FreshSentinel("read") : Start(p, kind, "missed", s)  BY DEF Miss
<1> DEFINE o == [kind |-> kind, pc |-> "missed", s |-> s, val |-> Nil, named |-> FALSE,
                 keys |-> {}, seen |-> Nothing, dirty |-> FALSE]
<1>2. op[p] = Idle /\ Go(p, o) /\ kind \in {"get", "list"} /\ cache' = cache /\ db' = db
  BY <1>1 DEF Start, Miss
<1>3. o.kind = kind /\ o.pc = "missed" /\ o.s = s /\ o # Idle  BY DEF Idle
<1> HIDE DEF o
<1>4. s \in Sentinel /\ s.kind = "read" /\ \A q \in Procs : op[q] # Idle => o.s # op[q].s
  BY <1>3, NobodysSentinel
<1>5. Fit(o, cache, db) /\ ~Mutator(o)
  BY <1>2, <1>3, <1>4 DEF Fit, Shaped, Phases, Mutator, StoresRight
<1> QED  BY <1>2, <1>3, <1>4, <1>5, BeginStaysQuiet

LEMMA NoOtherMutation ==
  ASSUME QuietInv, Serial, Cardinality({q \in Procs : Mutating(q)}) < mix.mutators
  PROVE  \A q \in Procs : op[q] # Idle => ~Mutator(op[q])
<1> DEFINE them == {q \in Procs : Mutating(q)}
<1>1. IsFiniteSet(them)  BY RedisItemsAssumption, FS_Subset
<1>2. mix.mutators \in {0, 1}  BY DEF Serial
<1>3. Cardinality(them) = 0
  <2>1. Cardinality(them) \in Nat  BY <1>1, FS_CardinalityType
  <2> HIDE DEF them
  <2> QED  BY <1>2, <2>1 DEF them
<1>4. them = {}  BY <1>1, <1>3, FS_EmptySet
<1> QED  BY <1>4 DEF Mutating, Mutator, Running, Mutations

LEMMA StartMutationQuiet ==
  ASSUME QuietInv, Inv', Serial, NEW p \in Procs, NEW kind, StartMutation(p, kind)
  PROVE  QuietInv'
<1> DEFINE named == kind = "delete" /\ cache["primary"].tag = "item"
           skind == IF kind = "put" THEN "write" ELSE "delete"
<1>1. /\ kind \in {"put", "delete"} /\ op[p] = Idle /\ cache' = cache /\ db' = db
      /\ Cardinality({q \in Procs : Mutating(q)}) < mix.mutators
  BY DEF StartMutation
<1>2. PICK v \in IF kind = "put" THEN Items ELSE {Nil}, s \in FreshSentinel(skind) :
         LET o == [kind |-> kind, pc |-> "locking", s |-> s, val |-> v, named |-> named,
                   keys |-> {}, seen |-> Nothing, dirty |-> FALSE]
         IN Go(p, [o EXCEPT !.keys = LockedSet(o)])
  BY DEF StartMutation
<1> DEFINE o == [kind |-> kind, pc |-> "locking", s |-> s, val |-> v, named |-> named,
                 keys |-> {}, seen |-> Nothing, dirty |-> FALSE]
           ks == LockedSet(o)
           d == [o EXCEPT !.keys = ks]
<1>3. Go(p, d)  BY <1>2
<1>4. "collection" \in ks  BY DEF LockedSet, LockedKeys
<1> HIDE DEF ks
<1>5. /\ d.kind = kind /\ d.pc = "locking" /\ d.s = s /\ d.val = v /\ d.keys = ks
      /\ d # Idle
  BY DEF Idle
<1> HIDE DEF d
<1>6. /\ s \in Sentinel /\ s.kind = skind
      /\ \A q \in Procs : op[q] # Idle => d.s # op[q].s
  BY <1>1, <1>5, NobodysSentinel
<1>7. \A q \in Procs : op[q] # Idle => ~Mutator(op[q])  BY <1>1, NoOtherMutation
<1>8. Shaped(d)  BY <1>1, <1>2, <1>5, <1>6 DEF Shaped, Phases
<1>9. GripsCollection(d, cache) /\ GripsPrimary(d, cache) /\ GripsList(d, cache)
  BY <1>1, <1>4, <1>5 DEF GripsCollection, GripsPrimary, GripsList, Locked, Decided
<1>10. Fit(d, cache, db)  BY <1>1, <1>5, <1>8, <1>9 DEF Fit, StoresRight, Mutator
<1> QED  BY <1>1, <1>3, <1>5, <1>6, <1>7, <1>10, BeginStaysQuiet

LEMMA LockMissedQuiet ==
  ASSUME QuietInv, Inv', NEW p \in Procs, LockMissed(p)
  PROVE  QuietInv'
<1> DEFINE o == op[p]
           k == LockKey(o)
           d == At(o, "locked")
           store == LockOnMiss(cache, k, o.s)
<1>1. o # Idle /\ o \in Ops /\ Fit(o, cache, db) /\ o.pc = "missed" /\ db' = db
  BY Calling DEF LockMissed
<1>2. o.kind \in {"get", "list"} /\ o.s \in Sentinel /\ o.s.kind = "read"
  BY <1>1 DEF Fit, Shaped, Phases
<1>3. d.pc = "locked" /\ d.kind = o.kind /\ d.s = o.s  BY <1>1, AtOps DEF Plain
<1>4. k \in {"primary", "collection"}  BY DEF LockKey
<1> HIDE DEF d
<1>5. CASE cache[k] # EmptyEntry
  <2>1. Go(p, Idle) /\ cache' = cache  BY <1>5 DEF LockMissed
  <2>2. ~Linker(o) /\ ~Namer(o) /\ ~Renewer(o, cache) /\ ~Deleter(o, cache)
    BY <1>1, <1>2 DEF Linker, Namer, Renewer, Deleter
  <2> QED  BY <1>1, <2>1, <2>2, MoveStaysQuiet
<1>6. CASE cache[k] = EmptyEntry
  <2>1. Write(p, {k}, store, d)  BY <1>6 DEF LockMissed, d
  <2>2. store = Put(cache, {k}, LockEntry(o.s))  BY <1>6 DEF LockOnMiss
  <2>3. \A j \in AllKeys : store[j] = IF j = k THEN LockEntry(o.s) ELSE cache[j]
    BY <1>2, <2>2, PutType, Entries DEF QuietInv, Inv
  <2> HIDE DEF store
  <2>4. \A q \in Procs \ {p} : Kin(op[q], op'[q])  BY <2>1, Others DEF QuietInv
  <2>5. op'[p] = d /\ cache' = store  BY <2>1 DEF Write
  <2>6. ASSUME NEW q \in Procs \ {p}, op[q] # Idle PROVE Mild(op[q], cache, store)
    <3>1. \A j \in AllKeys : store[j] = LockEntry(op[q].s) => cache[j] = LockEntry(op[q].s)
      <4>1. o.s # op[q].s  BY <1>1, <2>6 DEF QuietInv, Calls
      <4>2. LockEntry(o.s) # LockEntry(op[q].s)  BY <4>1, Tags
      <4> QED  BY <2>3, <4>2
    <3>2. cache[k] # Tombstone /\ cache[k] # LockEntry(op[q].s)  BY <1>6, Tags
    <3> QED  BY <1>4, <2>3, <3>1, <3>2 DEF Mild, Holds, AllKeys
  <2>7. Fit(d, store, db)
    BY <1>1, <1>2, <1>3 DEF Fit, Shaped, Phases, Mutator, StoresRight
  <2>8. Kept(op', store, db)
    <3>1. Kept(op, cache, db)  BY DEF QuietInv
    <3>2. ~Linker(o) /\ ~Namer(o) /\ ~Renewer(o, cache) /\ ~Deleter(o, cache)
      BY <1>1, <1>2 DEF Linker, Namer, Renewer, Deleter
    <3>3. /\ Linking(op) => Linking(op')
          /\ Naming(op) => Naming(op')
          /\ store["primary"] = cache["primary"] =>
               /\ Renewing(op, cache) => Renewing(op', store)
               /\ DeleteLockOwned(op', store)
      BY <2>4, <3>1, <3>2, RolesKeep DEF Kept
    <3>4. /\ store["name"] = cache["name"] /\ store["dependencies"] = cache["dependencies"]
          /\ store["primary"] = cache["primary"] \/ store["primary"] = LockEntry(o.s)
          /\ store["primary"] = cache["primary"] \/ cache["primary"] = EmptyEntry
          /\ \A j \in {"primary", "collection"} : store[j] = cache[j] \/ store[j].tag = "lock"
      BY <1>4, <1>6, <2>3, Tags DEF AllKeys
    <3>5. ListRight(store) /\ ItemsRight(store, db)
      BY <3>1, <3>4 DEF Kept, ListRight, ItemsRight
    <3>6. NameListed(op', store)
      BY <3>1, <3>3, <3>4 DEF Kept, NameListed, Listed
    <3>7. cache["primary"] = EmptyEntry => ~Renewing(op, cache)
      BY Tags DEF Renewing, Renewer
    <3>8. NameRight(op', store, db)
      BY <3>1, <3>3, <3>4, <3>7 DEF Kept, NameRight
    <3>9. DeleteLockOwned(op', store)
      BY <1>2, <3>3, <3>4, Tags DEF DeleteLockOwned, DeleteLocked
    <3> QED  BY <3>5, <3>6, <3>8, <3>9 DEF Kept
  <2> QED  BY <1>1, <1>3, <2>1, <2>6, <2>7, <2>8, WriteStaysQuiet
<1> QED  BY <1>5, <1>6

LEMMA ServeReadQuiet ==
  ASSUME QuietInv, Inv', NEW p \in Procs, ServeRead(p)
  PROVE  QuietInv'
<1> DEFINE o == op[p]
           d == [o EXCEPT !.pc = "answered", !.val = db]
<1>1. /\ o # Idle /\ o \in Ops /\ Fit(o, cache, db) /\ o.pc = "locked"
      /\ o.kind \in {"get", "list"} /\ db' = db /\ cache' = cache
  BY Calling DEF ServeRead
<1>2. PICK ks \in SUBSET AllKeys : o \in Op(ks)  BY <1>1 DEF Ops
<1>3. db \in Contents  BY DEF QuietInv, Inv
<1>4. d \in Op(ks)  BY <1>2, <1>3, Zenon DEF Op
<1>5. d.pc = "answered" /\ d.kind = o.kind /\ d.s = o.s /\ d.val = db
  BY <1>2, Zenon DEF Op
<1>6. Go(p, Idle) \/ Go(p, d)  BY DEF ServeRead
<1> HIDE DEF d
<1>7. Fit(d, cache, db)
  BY <1>1, <1>5 DEF Fit, Shaped, Phases, Mutator, StoresRight
<1>8. ~Linker(o) /\ ~Namer(o) /\ ~Renewer(o, cache) /\ ~Deleter(o, cache)
  BY <1>1 DEF Linker, Namer, Renewer, Deleter
<1>9. CASE Go(p, Idle)  BY <1>1, <1>8, <1>9, MoveStaysQuiet
<1>10. CASE Go(p, d)  BY <1>1, <1>5, <1>7, <1>8, <1>10, MoveStaysQuiet
<1> QED  BY <1>6, <1>9, <1>10

(* What a call knows once it has read the keys ks. *)
Knows(d, o, pc, ks, store) ==
  /\ d # Idle /\ d.pc = pc /\ d.kind = o.kind /\ d.s = o.s /\ d.val = o.val
  /\ d.named = o.named /\ d.keys = o.keys
  /\ \A k \in ks : d.seen[k] = store[k]

LEMMA Looked ==
  ASSUME QuietInv, NEW p \in Procs, NEW from, from # "idle", NEW ks \in SUBSET AllKeys,
         NEW pc \in Reading, Look(p, from, ks, pc)
  PROVE  /\ op[p] # Idle /\ op[p].pc = from /\ Fit(op[p], cache, db)
         /\ cache' = cache /\ db' = db
         /\ \E d : Go(p, d) /\ Knows(d, op[p], pc, ks, cache)
<1> DEFINE o == op[p]
           seen == [k \in ks |-> cache[k]]
           d == [o EXCEPT !.pc = pc, !.seen = seen, !.dirty = FALSE]
<1>1. o # Idle /\ o \in Ops /\ Fit(o, cache, db) /\ o.pc = from  BY Calling DEF Look
<1>2. PICK js \in SUBSET AllKeys : o \in Op(js)  BY <1>1 DEF Ops
<1>3. seen \in [ks -> Entry] /\ \A k \in ks : seen[k] = cache[k]  BY DEF QuietInv, Inv
<1>4. Go(p, d) /\ cache' = cache /\ db' = db  BY DEF Look
<1> HIDE DEF seen
<1>5. d.pc = pc /\ d.kind = o.kind /\ d.s = o.s /\ d.val = o.val  BY <1>2, Zenon DEF Op
<1>6. d.named = o.named /\ d.keys = o.keys /\ d.seen = seen  BY <1>2, Zenon DEF Op
<1>7. d \in Op(ks)  BY <1>2, <1>3, Zenon DEF Op, Reading
<1> HIDE DEF d
<1>8. d # Idle  BY <1>7, IdleIsNoOp DEF Ops
<1>9. Knows(d, o, pc, ks, cache)  BY <1>3, <1>5, <1>6, <1>8 DEF Knows
<1> QED  BY <1>1, <1>4, <1>9

LEMMA ReadLocksQuiet ==
  ASSUME QuietInv, Inv', NEW p \in Procs, ReadLocks(p)
  PROVE  QuietInv'
<1> DEFINE o == op[p]
<1>1. o.keys \in SUBSET AllKeys /\ "primary" \in o.keys
  BY HasBegun DEF ReadLocks, Look, QuietInv, Good, Consistent
<1>2. /\ o # Idle /\ o.pc = "locking" /\ Fit(o, cache, db) /\ cache' = cache /\ db' = db
      /\ \E d : Go(p, d) /\ Knows(d, o, "granting", o.keys, cache)
  BY <1>1, Looked DEF ReadLocks, Reading
<1>3. PICK d : Go(p, d) /\ Knows(d, o, "granting", o.keys, cache)  BY <1>2
<1>4. Mutator(o)  BY <1>2 DEF Fit, Shaped, Phases, Mutator
<1>5. ~DeleteLocked(cache["primary"])
  <2>1. ~(\E q \in Procs : Deleter(op[q], cache))
    <3>1. ~Deleter(o, cache)  BY <1>2 DEF Deleter
    <3>2. \A q \in Procs \ {p} : op[q] # Idle => ~Mutator(op[q])
      BY <1>2, <1>4 DEF QuietInv, Calls
    <3> QED  BY <3>1, <3>2 DEF Deleter, Mutator
  <2> QED  BY <2>1 DEF QuietInv, Kept, DeleteLockOwned
<1>6. Fit(d, cache, db)
  <2>1. Shaped(d) /\ Mutator(d)
    BY <1>2, <1>3, <1>4 DEF Fit, Shaped, Phases, Knows, Mutator
  <2>2. GripsCollection(d, cache)
    BY <1>2, <1>3, <1>4 DEF Fit, GripsCollection, Knows
  <2>3. GripsPrimary(d, cache) /\ GripsList(d, cache) /\ StoresRight(d, cache, db)
    BY <1>1, <1>3, <1>5, <2>1
    DEF GripsPrimary, GripsList, StoresRight, Locked, Decided, Knows, Mutator
  <2> QED  BY <2>1, <2>2, <2>3 DEF Fit
<1>7. ~Linker(o) /\ ~Namer(o) /\ ~Renewer(o, cache) /\ ~Deleter(o, cache)
  BY <1>2 DEF Linker, Namer, Renewer, Deleter
<1> QED  BY <1>2, <1>3, <1>6, <1>7, MoveStaysQuiet DEF Knows

LEMMA ReadLockQuiet ==
  ASSUME QuietInv, Inv', NEW p \in Procs, ReadLock(p)
  PROVE  QuietInv'
<1> DEFINE o == op[p]
           k == LockKey(o)
<1>1. k \in AllKeys  BY DEF LockKey, AllKeys
<1>2. /\ o # Idle /\ o.pc = "answered" /\ Fit(o, cache, db) /\ cache' = cache /\ db' = db
      /\ \E d : Go(p, d) /\ Knows(d, o, "setting", {k}, cache)
  BY <1>1, Looked DEF ReadLock, Reading
<1>3. PICK d : Go(p, d) /\ Knows(d, o, "setting", {k}, cache)  BY <1>2
<1>4. o.kind \in {"get", "list", "put"}  BY <1>2 DEF Fit, Shaped, Phases
<1>5. d.kind = o.kind /\ d.pc = "setting" /\ d.s = o.s /\ d.val = o.val /\ d.seen[k] = cache[k]
  BY <1>3 DEF Knows
<1>6. Shaped(d)  BY <1>2, <1>4, <1>5 DEF Fit, Shaped, Phases
<1>7. StoresRight(d, cache, db)
  BY <1>2, <1>4, <1>5 DEF Fit, StoresRight, LockKey, Mutator
<1>8. ASSUME Mutator(d)
      PROVE  GripsCollection(d, cache) /\ GripsPrimary(d, cache) /\ GripsList(d, cache)
  <2>1. o.kind = "put" /\ k = "primary" /\ GripsPrimary(o, cache)
    BY <1>2, <1>4, <1>5, <1>8 DEF Mutator, LockKey, Fit
  <2>2. Holds(cache["primary"], o)  BY <1>2, <2>1 DEF GripsPrimary, Locked
  <2>3. GripsPrimary(d, cache)
    BY <1>2, <1>5, <2>1, <2>2 DEF GripsPrimary, Locked, Decided, Holds
  <2> QED  BY <1>5, <2>1, <2>3 DEF GripsCollection, GripsList
<1>9. Fit(d, cache, db)  BY <1>6, <1>7, <1>8 DEF Fit
<1>10. /\ ~Linker(o) /\ ~Namer(o) /\ ~Deleter(o, cache)
       /\ Renewer(o, cache) => Renewer(d, cache)
  BY <1>2, <1>3, <1>4, <1>5 DEF Linker, Namer, Renewer, Deleter, Knows
<1> QED  BY <1>2, <1>3, <1>9, <1>10, MoveStaysQuiet DEF Knows

LEMMA ReadListQuiet ==
  ASSUME QuietInv, Inv', NEW p \in Procs, ReadList(p)
  PROVE  QuietInv'
<1> DEFINE o == op[p]
<1>1. PICK from \in {"unlinking", "tombstoning"} : Look(p, from, {"dependencies"}, "committing")
  BY DEF ReadList
<1>2. /\ o # Idle /\ o.pc = from /\ Fit(o, cache, db) /\ cache' = cache /\ db' = db
      /\ \E d : Go(p, d) /\ Knows(d, o, "committing", {"dependencies"}, cache)
  BY <1>1, Looked DEF Reading, AllKeys
<1>3. PICK d : Go(p, d) /\ Knows(d, o, "committing", {"dependencies"}, cache)  BY <1>2
<1>4. /\ (o.kind = "put" /\ o.pc = "unlinking") \/ (o.kind = "delete" /\ o.pc = "tombstoning")
      /\ Mutator(o)
  BY <1>2 DEF Fit, Shaped, Phases, Mutator
<1>5. d.kind = o.kind /\ d.pc = "committing" /\ d.s = o.s /\ d.val = o.val /\ d.named = o.named
  BY <1>3 DEF Knows
<1>6. Shaped(d) /\ Mutator(d)  BY <1>2, <1>4, <1>5 DEF Fit, Shaped, Phases, Mutator
<1>7. GripsCollection(d, cache)
  BY <1>2, <1>4, <1>5 DEF Fit, GripsCollection, Holds
<1>8. GripsPrimary(d, cache)
  <2>1. Locked(d) => o.kind = "delete" /\ Locked(o) BY <1>4, <1>5 DEF Locked
  <2> QED  BY <1>2, <1>4, <1>5, <2>1 DEF Fit, GripsPrimary, Decided, Holds
<1>9. GripsList(d, cache) /\ StoresRight(d, cache, db)
  BY <1>5, <1>6 DEF GripsList, StoresRight
<1>10. Fit(d, cache, db)  BY <1>6, <1>7, <1>8, <1>9 DEF Fit
<1>11. /\ ~Linker(o) /\ ~Renewer(o, cache)
       /\ Namer(o) => Namer(d)
       /\ Deleter(o, cache) => Deleter(d, cache)
  BY <1>2, <1>3, <1>4, <1>5 DEF Linker, Namer, Renewer, Deleter, Knows
<1> QED  BY <1>2, <1>3, <1>10, <1>11, MoveStaysQuiet DEF Knows

LEMMA ReadReleasedQuiet ==
  ASSUME QuietInv, Inv', NEW p \in Procs, ReadReleased(p)
  PROVE  QuietInv'
<1> DEFINE o == op[p]
           ks == LockedSet(o)
<1>1. ks \in SUBSET AllKeys /\ "primary" \in ks
  BY DEF LockedSet, LockedKeys, AllKeys
<1>2. /\ o # Idle /\ o.pc = "closing" /\ Fit(o, cache, db) /\ cache' = cache /\ db' = db
      /\ \E d : Go(p, d) /\ Knows(d, o, "releasing", ks, cache)
  BY <1>1, Looked DEF ReadReleased, Reading
<1>3. PICK d : Go(p, d) /\ Knows(d, o, "releasing", ks, cache)  BY <1>2
<1>4. Mutator(o)  BY <1>2 DEF Fit, Shaped, Phases, Mutator
<1>5. /\ d.kind = o.kind /\ d.pc = "releasing" /\ d.s = o.s /\ d.val = o.val
      /\ d.seen["primary"] = cache["primary"]
  BY <1>1, <1>3 DEF Knows
<1>6. Shaped(d) /\ Mutator(d)  BY <1>2, <1>4, <1>5 DEF Fit, Shaped, Phases, Mutator
<1>7. GripsCollection(d, cache) /\ GripsList(d, cache) /\ StoresRight(d, cache, db)
  BY <1>2, <1>4, <1>5, <1>6 DEF Fit, GripsCollection, GripsList, StoresRight, Mutator
<1>8. GripsPrimary(d, cache)
  <2>1. Locked(d) => o.kind = "delete" /\ Locked(o) BY <1>2, <1>4, <1>5 DEF Locked, Mutator
  <2>2. Decided(d) => o.kind = "delete" /\ Locked(o)
    BY <1>2, <1>4, <1>5 DEF Locked, Decided, Mutator
  <2> QED  BY <1>2, <1>4, <1>5, <2>1, <2>2 DEF Fit, GripsPrimary, Holds
<1>9. Fit(d, cache, db)  BY <1>6, <1>7, <1>8 DEF Fit
<1>10. /\ ~Linker(o) /\ ~Namer(o) /\ ~Renewer(o, cache)
       /\ Deleter(o, cache) => Deleter(d, cache)
  BY <1>2, <1>3, <1>5 DEF Linker, Namer, Renewer, Deleter, Knows
<1> QED  BY <1>2, <1>3, <1>9, <1>10, MoveStaysQuiet DEF Knows

(* The server takes a mutation while its caller holds the item and the     *)
(* collection, so no reader finds the lock it needs to store what the      *)
(* server held before.                                                     *)
LEMMA ServeMutationQuiet ==
  ASSUME QuietInv, Inv', Serial, NEW p \in Procs, ServeMutation(p)
  PROVE  QuietInv'
<1> DEFINE o == op[p]
           next == IF o.kind = "put" THEN "answered" ELSE "closing"
<1>1. o # Idle /\ o \in Ops /\ Fit(o, cache, db) /\ o.pc = "locked" /\ cache' = cache
  BY Calling DEF ServeMutation
<1>2. Mutator(o) /\ o.s \in Sentinel /\ o.s # NoLock
  <2>1. Mutator(o)  BY <1>1 DEF ServeMutation, Mutations, Fit, Shaped, Mutator
  <2>2. o.s \in Sentinel  BY <1>1 DEF Fit, Shaped
  <2> QED  BY <2>1, <2>2 DEF Sentinel, Kinds, NoLock
<1>3. "lost" \notin mix.faults  BY DEF Serial
<1>4. \/ db' = o.val /\ Go(p, At(o, next))
      \/ db' = db /\ Go(p, At(o, "closing"))
  BY <1>2, <1>3 DEF ServeMutation, Mutator
<1>5. /\ ~Linker(o) /\ ~Namer(o) /\ ~Renewer(o, cache)
  BY <1>1 DEF Linker, Namer, Renewer
<1>6. /\ Holds(cache["primary"], o) /\ Holds(cache["collection"], o)
      /\ o.kind = "put" /\ cache["primary"] = Tombstone => cache["name"].tag # "item"
      /\ o.kind = "delete" => cache["dependencies"] = Tombstone
      /\ Shaped(o)
  BY <1>1, <1>2 DEF Fit, Mutator, GripsPrimary, GripsCollection, GripsList, Locked
<1>7. ASSUME NEW pc \in {next, "closing"}, NEW d, pc = "answered" => d = o.val
      PROVE  /\ Fit(At(o, pc), cache, d)
             /\ At(o, pc).s = o.s /\ At(o, pc).kind = o.kind /\ At(o, pc).pc = pc
             /\ Deleter(o, cache) => Deleter(At(o, pc), cache)
             /\ pc = "answered" /\ cache["primary"] = LockEntry(o.s) => Renewer(At(o, pc), cache)
  <2> DEFINE b == At(o, pc)
  <2>1. b.pc = pc /\ b.kind = o.kind /\ b.s = o.s /\ b.val = o.val /\ b # Idle
    BY <1>1, AtOps, IdleIsNoOp DEF Plain
  <2> HIDE DEF b
  <2>2. Shaped(b) /\ Mutator(b)  BY <1>2, <1>6, <2>1 DEF Shaped, Phases, Mutator
  <2>3. GripsCollection(b, cache) /\ GripsList(b, cache) /\ StoresRight(b, cache, d)
    BY <1>6, <1>7, <2>1, <2>2 DEF GripsCollection, GripsList, StoresRight
  <2>4. GripsPrimary(b, cache)  BY <1>6, <2>1 DEF GripsPrimary, Locked, Decided, Holds
  <2>5. Deleter(o, cache) => Deleter(b, cache)  BY <2>1 DEF Deleter
  <2>6. pc = "answered" /\ cache["primary"] = LockEntry(o.s) => Renewer(b, cache)
    BY <1>2, <2>1 DEF Renewer, Mutator
  <2> QED  BY <2>1, <2>2, <2>3, <2>4, <2>5, <2>6 DEF Fit, b
<1>8. CASE db' = db /\ Go(p, At(o, "closing"))
  BY <1>1, <1>5, <1>7, <1>8, MoveStaysQuiet
<1>9. CASE db' = o.val /\ Go(p, At(o, next))
  <2>1. op'[p] = At(o, next) /\ \A q \in Procs \ {p} : op'[q] = op[q]
    BY <1>9 DEF Go, QuietInv, Inv
  <2>2. \A q \in Procs \ {p} : Kin(op[q], op'[q])  BY <2>1 DEF Kin, Same
  <2>3. Calls(op, cache, db) /\ Kept(op, cache, db)  BY DEF QuietInv
  <2>4. ASSUME NEW q \in Procs \ {p}, op'[q] # Idle PROVE Fit(op'[q], cache, db')
    <3>1. Fit(op[q], cache, db) /\ op[q].s # o.s /\ ~Mutator(op[q])
      BY <1>1, <1>2, <2>1, <2>3, <2>4 DEF Calls
    <3>2. cache[LockKey(op[q])] # LockEntry(op[q].s)
      BY <1>6, <3>1, Tags DEF LockKey, Holds
    <3> QED  BY <2>1, <3>1, <3>2 DEF Fit, StoresRight, Mutator
  <2>5. Fit(op'[p], cache, db') /\ op'[p].s = o.s /\ op'[p].kind = o.kind
    BY <1>7, <1>9, <2>1
  <2>6. \A q \in Procs \ {p} : op[q] # Idle => /\ op'[p].s # op[q].s
                                               /\ ~(Mutator(op'[p]) /\ Mutator(op[q]))
    BY <1>1, <2>3, <2>5 DEF Calls, Mutator
  <2>7. Calls(op', cache, db')  BY <2>2, <2>3, <2>4, <2>5, <2>6, CallsKeep
  <2>8. Linking(op) => Linking(op')  BY <1>5, <2>2, RolesKeep
  <2>9. Naming(op) => Naming(op')  BY <1>5, <2>2, RolesKeep
  <2>10. DeleteLockOwned(op', cache)
    <3>1. Deleter(o, cache) => Deleter(op'[p], cache)  BY <1>7, <1>9, <2>1
    <3> QED  BY <2>2, <2>3, <3>1, RolesKeep DEF Kept
  <2>11. NameListed(op', cache)  BY <2>3, <2>8, <2>9 DEF Kept, NameListed
  <2>12. ItemsRight(cache, db')  BY <1>6, Tags DEF ItemsRight, Holds
  <2>13. NameRight(op', cache, db')
    <3> SUFFICES ASSUME cache["name"].tag = "item"
                 PROVE  Renewing(op', cache) \/ (cache["dependencies"] = Tombstone /\ Linking(op'))
      BY DEF NameRight
    <3>1. CASE o.kind = "put"
      <4>1. cache["primary"] = LockEntry(o.s)  BY <1>6, <3>1 DEF Holds
      <4>2. Renewer(op'[p], cache)  BY <1>7, <1>9, <2>1, <3>1, <4>1
      <4> QED  BY <4>2 DEF Renewing
    <3>2. CASE o.kind = "delete"
      <4>1. "name" \notin Listed(cache, "dependencies")  BY <1>6, <3>2, Tags DEF Listed
      <4>2. ~Naming(op)
        BY <1>1, <1>2, <1>5, <2>3 DEF Naming, Namer, Calls, Mutator
      <4> QED  BY <1>6, <2>3, <2>8, <3>2, <4>1, <4>2 DEF Kept, NameListed
    <3> QED  BY <1>2, <3>1, <3>2 DEF Mutator
  <2> QED  BY <1>1, <2>3, <2>7, <2>10, <2>11, <2>12, <2>13 DEF QuietInv, Kept
<1> QED  BY <1>4, <1>8, <1>9

-----------------------------------------------------------------------------
(* Going on with d costs the call o nothing it was yet to do. *)
Moves(o, d, c, f) ==
  /\ d # Idle => Fit(d, c, f) /\ d.s = o.s /\ d.kind = o.kind
  /\ Linker(o) => Linker(d)
  /\ Namer(o) => Namer(d)
  /\ Renewer(o, c) => Renewer(d, c)
  /\ Deleter(o, c) => Deleter(d, c)

LEMMA CommitQuiet ==
  ASSUME QuietInv, Inv', NEW p \in Procs, op[p] # Idle, NEW operation, NEW ks, NEW store,
         NEW done, NEW again, NEW failed,
         Commit(p, operation, ks, store, done, again, failed),
         ks = {} => Moves(op[p], done, cache, db),
         ks # {} /\ op[p].dirty => Moves(op[p], again, cache, db),
         ks # {} /\ op[p].dirty /\ <<operation, op[p].kind>> \in MayGiveUp =>
           Moves(op[p], failed, cache, db),
         ks # {} /\ ~op[p].dirty /\ Write(p, ks, store, done) /\ db' = db => QuietInv'
  PROVE  QuietInv'
<1>1. db' = db  BY DEF Commit
<1>2. ASSUME NEW d, Go(p, d), cache' = cache, Moves(op[p], d, cache, db) PROVE QuietInv'
  BY <1>1, <1>2, MoveStaysQuiet DEF Moves
<1> QED  BY <1>1, <1>2 DEF Commit

LEMMA PutAt ==
  ASSUME Inv, NEW ks, NEW e \in Entry, NEW k \in AllKeys
  PROVE  Put(cache, ks, e)[k] = IF k \in ks THEN e ELSE cache[k]
BY PutType DEF Inv

(* WriteSentinel never finds the lock of another delete, and the keys it   *)
(* does not lock hold a tombstone.                                         *)
LEMMA TakeLockQuiet ==
  ASSUME QuietInv, Inv', Serial, NEW p \in Procs, TakeLock(p)
  PROVE  QuietInv'
<1> DEFINE o == op[p]
           ks == {k \in o.keys : k = "primary" \/ o.seen[k] # Tombstone}
           pc == IF o.kind = "put" THEN "locked" ELSE "tombstoning"
           granted == [At(o, pc) EXCEPT !.keys = {}]
           again == [At(o, "locking") EXCEPT !.keys = ks]
           store == Put(cache, ks, LockEntry(o.s))
<1>1. /\ o # Idle /\ o \in Ops /\ Fit(o, cache, db) /\ o.pc = "granting"
      /\ "primary" \in o.keys /\ o.keys \subseteq LockedSet(o)
  BY Calling DEF TakeLock, Consistent
<1>2. Mutator(o) /\ Shaped(o) /\ o.s \in Sentinel /\ o.s.kind # "read"
  BY <1>1 DEF Fit, Shaped, Phases, Mutator
<1>3. GripsCollection(o, cache) /\ GripsPrimary(o, cache)  BY <1>1, <1>2 DEF Fit
<1>4. ~Unavailable(o.seen, o.s, <<"primary">>)
  <2>1. ~DeleteLocked(o.seen["primary"])  BY <1>1, <1>3 DEF GripsPrimary
  <2> QED  BY <1>2, <2>1 DEF Unavailable, CanSetSentinelGivenCurrVal, DeleteLocked
<1>5. /\ granted.pc = pc /\ granted.kind = o.kind /\ granted.s = o.s /\ granted.val = o.val
      /\ granted # Idle
  <2>1. /\ At(o, pc) \in Ops /\ At(o, pc).pc = pc /\ At(o, pc).kind = o.kind
        /\ At(o, pc).s = o.s /\ At(o, pc).val = o.val
    BY <1>1, AtOps DEF Plain
  <2>2. PICK js \in SUBSET AllKeys : At(o, pc) \in Op(js)  BY <2>1 DEF Ops
  <2> HIDE DEF pc
  <2>3. granted \in Op(js)  BY <2>2, Zenon DEF Op
  <2>4. granted.pc = At(o, pc).pc /\ granted.kind = At(o, pc).kind
        /\ granted.s = At(o, pc).s /\ granted.val = At(o, pc).val
    BY <2>2, Zenon DEF Op
  <2> HIDE DEF granted
  <2> QED  BY <2>1, <2>2, <2>3, <2>4, IdleIsNoOp DEF Ops
<1>6. /\ again.pc = "locking" /\ again.kind = o.kind /\ again.s = o.s /\ again.val = o.val
      /\ again.keys = ks /\ again # Idle
  <2>1. /\ At(o, "locking") \in Ops /\ At(o, "locking").pc = "locking"
        /\ At(o, "locking").kind = o.kind
        /\ At(o, "locking").s = o.s /\ At(o, "locking").val = o.val
    BY <1>1, AtOps
  <2>2. PICK js \in SUBSET AllKeys : At(o, "locking") \in Op(js)  BY <2>1 DEF Ops
  <2>3. ks \in SUBSET AllKeys  BY <1>1, WatchedKeys
  <2> HIDE DEF ks
  <2>4. again \in Op(js)  BY <2>2, <2>3, Zenon DEF Op
  <2>5. again.pc = At(o, "locking").pc /\ again.kind = At(o, "locking").kind
        /\ again.s = At(o, "locking").s /\ again.val = At(o, "locking").val /\ again.keys = ks
    BY <2>2, Zenon DEF Op
  <2> HIDE DEF again
  <2> QED  BY <2>1, <2>2, <2>4, <2>5, IdleIsNoOp DEF Ops
<1>7. Commit(p, "WriteSentinel", ks, store, granted, again, Idle)
  BY <1>4 DEF TakeLock
<1>8. /\ "primary" \in ks /\ ks \subseteq AllKeys /\ "dependencies" \notin ks
      /\ "collection" \notin ks => cache["collection"] = Tombstone
  <2>1. "primary" \in ks /\ ks \subseteq o.keys  BY <1>1
  <2>2. "dependencies" \notin LockedSet(o)  BY DEF LockedSet, LockedKeys
  <2>3. "collection" \notin ks => cache["collection"] = Tombstone
    BY <1>1, <1>3 DEF GripsCollection
  <2> QED  BY <1>1, <2>1, <2>2, <2>3, WatchedKeys
<1>9. ~Linker(o) /\ ~Namer(o) /\ ~Renewer(o, cache) /\ ~Deleter(o, cache)
  BY <1>1 DEF Linker, Namer, Renewer, Deleter
<1> HIDE DEF granted, again, ks
<1>10. Moves(o, Idle, cache, db)  BY <1>9 DEF Moves
<1>11. Moves(o, again, cache, db)
  <2>1. Shaped(again) /\ Mutator(again)  BY <1>2, <1>6 DEF Shaped, Phases, Mutator
  <2>2. GripsCollection(again, cache) /\ GripsPrimary(again, cache)
        /\ GripsList(again, cache) /\ StoresRight(again, cache, db)
    BY <1>6, <1>8, <2>1
    DEF GripsCollection, GripsPrimary, GripsList, StoresRight, Locked, Decided, Mutator
  <2> QED  BY <1>6, <1>9, <2>1, <2>2 DEF Moves, Fit
<1>12. ASSUME Write(p, ks, store, granted), db' = db PROVE QuietInv'
  <2>1. \A k \in AllKeys : store[k] = IF k \in ks THEN LockEntry(o.s) ELSE cache[k]
    BY <1>2, PutAt, Entries DEF QuietInv
  <2> HIDE DEF store
  <2>2. \A q \in Procs \ {p} : Kin(op[q], op'[q])  BY <1>12, Others DEF QuietInv
  <2>3. op'[p] = granted  BY <1>12 DEF Write
  <2>4. Calls(op, cache, db) /\ Kept(op, cache, db)  BY DEF QuietInv
  <2>5. \A q \in Procs \ {p} : op[q] # Idle => Mild(op[q], cache, store)
    BY <1>1, <1>2, <2>1, <2>4, LocksItsOwn
  <2>6. store["primary"] = LockEntry(o.s) /\ Holds(store["collection"], o)
        /\ store["dependencies"] = cache["dependencies"]
    BY <1>8, <2>1 DEF Holds, AllKeys
  <2>7. Fit(granted, store, db)
    <3>1. Shaped(granted) /\ Mutator(granted)  BY <1>2, <1>5 DEF Shaped, Phases, Mutator
    <3>2. GripsCollection(granted, store) /\ GripsList(granted, store)
          /\ StoresRight(granted, store, db)
      BY <1>5, <2>6, <3>1 DEF GripsCollection, GripsList, StoresRight, Mutator, Holds
    <3>3. GripsPrimary(granted, store)
      BY <1>5, <2>6, Tags DEF GripsPrimary, Locked, Decided, Holds
    <3> QED  BY <3>1, <3>2, <3>3 DEF Fit
  <2>8. Linking(op) => Linking(op')  BY <1>9, <2>2, RolesKeep
  <2>9. Naming(op) => Naming(op')  BY <1>9, <2>2, RolesKeep
  <2>10. ~Renewing(op, cache)
    BY <1>1, <1>2, <1>9, <2>4 DEF Renewing, Renewer, Calls, Mutator
  <2>11. \A k \in AllKeys : store[k].tag = "item" => store[k] = cache[k]  BY <2>1, Tags
  <2>12. DeleteLockOwned(op', store)
    <3>1. o.s.kind = "delete" => o.kind = "delete"  BY <1>2 DEF Shaped, Mutator
    <3>2. o.kind = "delete" => Deleter(op'[p], store)  BY <1>5, <2>3, <2>6 DEF Deleter
    <3> QED  BY <2>6, <3>1, <3>2, Tags DEF DeleteLockOwned, DeleteLocked
  <2>13. ListRight(store)  BY <2>4, <2>6 DEF Kept, ListRight
  <2>14. NameListed(op', store)
    BY <2>4, <2>6, <2>8, <2>9, <2>11 DEF Kept, NameListed, Listed, AllKeys
  <2>15. NameRight(op', store, db)
    BY <2>4, <2>6, <2>8, <2>10, <2>11 DEF Kept, NameRight, AllKeys
  <2>16. ItemsRight(store, db)  BY <2>4, <2>11 DEF Kept, ItemsRight, AllKeys
  <2>17. Kept(op', store, db)  BY <2>12, <2>13, <2>14, <2>15, <2>16 DEF Kept
  <2> QED  BY <1>1, <1>5, <1>12, <2>5, <2>7, <2>17, WriteStaysQuiet
<1> HIDE DEF store
<1> QED  BY <1>1, <1>7, <1>8, <1>10, <1>11, <1>12, CommitQuiet

(* What a call is after its save. *)
LEMMA AfterSaveIs ==
  ASSUME NEW o \in Ops, NEW stored \in BOOLEAN
  PROVE  LET d == AfterSave(o, stored) IN
         /\ o.kind = "list" => d = Idle
         /\ o.kind = "get" => d = IF stored THEN At(o, "linking") ELSE Idle
         /\ o.kind = "put" => /\ d # Idle /\ d.pc = "clearing" /\ d.kind = "put" /\ d.s = o.s
                              /\ d.val = o.val /\ d.named = stored
<1>1. /\ At(o, "clearing") \in Ops /\ At(o, "clearing").pc = "clearing"
      /\ At(o, "clearing").kind = o.kind /\ At(o, "clearing").s = o.s
      /\ At(o, "clearing").val = o.val
  BY AtOps DEF Plain
<1> DEFINE b == At(o, "clearing")
           d == [b EXCEPT !.named = stored]
<1>2. PICK js \in SUBSET AllKeys : b \in Op(js)  BY <1>1 DEF Ops
<1>3. d \in Op(js) /\ d.pc = b.pc /\ d.kind = b.kind  BY <1>2, Zenon DEF Op
<1>4. d.s = b.s /\ d.val = b.val /\ d.named = stored  BY <1>2, Zenon DEF Op
<1>5. o.kind = "put" => AfterSave(o, stored) = d  BY DEF AfterSave
<1> HIDE DEF d
<1>6. d # Idle  BY <1>2, <1>3, IdleIsNoOp DEF Ops
<1>7. /\ o.kind = "list" => AfterSave(o, stored) = Idle
      /\ o.kind = "get" => AfterSave(o, stored) = IF stored THEN At(o, "linking") ELSE Idle
  BY DEF AfterSave
<1> QED  BY <1>1, <1>3, <1>4, <1>5, <1>6, <1>7

(* A save that commits still finds the lock its caller's item goes with. *)
LEMMA SetLockedQuiet ==
  ASSUME QuietInv, Inv', Serial, NEW p \in Procs, SetLocked(p)
  PROVE  QuietInv'
<1> DEFINE o == op[p]
           lkey == LockKey(o)
           curr == o.seen[lkey]
           mine == curr = LockEntry(o.s)
           verdict == IF curr.tag = "empty" THEN "none" ELSE CanSetValue(curr, o.val, o.s)
           entry == CASE verdict = "set"      -> ItemEntry(o.val)
                      [] verdict = "clear"    -> EmptyEntry
                      [] verdict = "conflict" -> Bumped(curr)
                      [] verdict = "none"     -> EmptyEntry
           ks == IF mine THEN SavedKeys(o) ELSE {}
           store == Put(cache, ks, ItemEntry(o.val))
           done == AfterSave(o, mine)
           again == At(o, "answered")
<1>1. /\ o # Idle /\ o \in Ops /\ Fit(o, cache, db) /\ o.pc = "setting" /\ o.val \in Contents
      /\ Consistent(o, cache)
  BY Calling DEF SetLocked
<1>2. Shaped(o) /\ o.kind \in {"get", "list", "put"} /\ StoresRight(o, cache, db)
  BY <1>1 DEF Fit, Shaped, Phases
<1>3. o.kind = "put" => /\ lkey = "primary"
                        /\ Holds(curr, o)
                        /\ cache["primary"] = LockEntry(o.s) => mine
  BY <1>1 DEF Fit, Mutator, GripsPrimary, Decided, LockKey
<1>4. verdict = IF mine THEN "set" ELSE "none"
  <2>1. CASE mine
    <3>1. curr.tag = "lock" /\ curr.s = o.s /\ ~curr.bumped  BY <2>1 DEF LockEntry
    <3> QED  BY <2>1, <3>1 DEF CanSetValue
  <2>2. CASE ~mine /\ o.kind = "put"
    BY <1>3, <2>2, Tags DEF CanSetValue, Holds, IsLock
  <2>3. CASE ~mine /\ o.kind # "put"
    <3>1. o.s.kind = "read"  BY <1>2, <2>3 DEF Shaped
    <3> QED  BY <2>3, <3>1 DEF CanSetValue
  <2> QED  BY <2>1, <2>2, <2>3
<1>5. Commit(p, "SetValue", IF verdict = "none" THEN {} ELSE SavedKeys(o),
             Put(cache, IF verdict = "none" THEN {} ELSE SavedKeys(o), entry),
             AfterSave(o, verdict = "set"), again, AfterSave(o, FALSE))
  BY DEF SetLocked
<1>6. CASE ~mine
  <2>1. Commit(p, "SetValue", {}, Put(cache, {}, entry), AfterSave(o, FALSE), again, AfterSave(o, FALSE))
    BY <1>4, <1>5, <1>6
  <2> DEFINE d == AfterSave(o, FALSE)
  <2>2. /\ o.kind # "put" => d = Idle
        /\ o.kind = "put" => /\ d # Idle /\ d.pc = "clearing" /\ d.kind = "put" /\ d.s = o.s
                             /\ d.val = o.val /\ d.named = FALSE
    BY <1>1, <1>2, AfterSaveIs
  <2> HIDE DEF d
  <2>3. Moves(o, d, cache, db)
    <3>1. ~Linker(o) /\ ~Namer(o) /\ ~Renewer(o, cache) /\ ~Deleter(o, cache)
      BY <1>1, <1>2, <1>3, <1>6 DEF Linker, Namer, Renewer, Deleter
    <3>2. o.kind = "put" => Fit(d, cache, db)
      BY <1>2, <2>2
      DEF Fit, Shaped, Phases, GripsCollection, GripsPrimary, GripsList, StoresRight,
          Locked, Decided, Mutator
    <3> QED  BY <2>2, <3>1, <3>2 DEF Moves
  <2> HIDE DEF entry, again
  <2> QED  BY <1>1, <2>1, <2>3, CommitQuiet DEF d
<1>7. CASE mine
  <2>1. Commit(p, "SetValue", ks, store, done, again, AfterSave(o, FALSE))
    BY <1>4, <1>5, <1>7
  <2>2. ~Linker(o) /\ ~Namer(o) /\ ~Deleter(o, cache)
    BY <1>1, <1>2 DEF Linker, Namer, Deleter
  <2>3. Moves(o, again, cache, db)
    <3>1. /\ again.pc = "answered" /\ again.kind = o.kind /\ again.s = o.s /\ again.val = o.val
          /\ again # Idle
      BY <1>1, AtOps, IdleIsNoOp DEF Plain
    <3> HIDE DEF again
    <3>2. Shaped(again) /\ StoresRight(again, cache, db)
      BY <1>1, <1>2, <3>1 DEF Shaped, Phases, StoresRight, LockKey, Mutator
    <3>3. ASSUME Mutator(again)
          PROVE  /\ GripsCollection(again, cache) /\ GripsPrimary(again, cache)
                 /\ GripsList(again, cache)
      <4>1. o.kind = "put" /\ Mutator(o)  BY <1>2, <3>1, <3>3 DEF Mutator
      <4> QED
        BY <1>1, <3>1, <4>1
        DEF Fit, GripsCollection, GripsPrimary, GripsList, Locked, Decided, Holds
    <3>4. Renewer(o, cache) => Renewer(again, cache)  BY <3>1 DEF Renewer
    <3> QED  BY <2>2, <3>1, <3>2, <3>3, <3>4 DEF Moves, Fit
  <2>4. <<"SetValue", o.kind>> \in MayGiveUp => Moves(o, AfterSave(o, FALSE), cache, db)
    <3>1. <<"SetValue", "put">> \notin MayGiveUp  BY DEF Serial
    <3>2. o.kind # "put" => AfterSave(o, FALSE) = Idle  BY <1>1, <1>2, AfterSaveIs
    <3>3. o.kind # "put" => ~Renewer(o, cache)  BY DEF Renewer
    <3> QED  BY <2>2, <3>1, <3>2, <3>3 DEF Moves
  <2>5. ASSUME ~o.dirty, Write(p, ks, store, done), db' = db PROVE QuietInv'
    <3>1. cache[lkey] = LockEntry(o.s)
      BY <1>1, <1>7, <2>5 DEF Consistent, Watched
    <3>2. o.val = db  BY <1>1, <1>2, <3>1 DEF StoresRight, Mutator
    <3>3. /\ lkey \in ks /\ ks = SavedKeys(o) /\ ks \subseteq AllKeys /\ "dependencies" \notin ks
          /\ o.kind = "list" => ks = {"collection"} /\ lkey = "collection"
          /\ o.kind # "list" => ks = {"primary", "name"} /\ lkey = "primary"
      BY <1>7 DEF SavedKeys, LockKey, AllKeys
    <3>4. \A k \in AllKeys : store[k] = IF k \in ks THEN ItemEntry(db) ELSE cache[k]
      BY <1>1, <3>2, PutAt, Entries DEF QuietInv
    <3>5. /\ o.kind = "list" => done = Idle
          /\ o.kind = "get" => done = At(o, "linking")
          /\ o.kind = "put" => /\ done # Idle /\ done.pc = "clearing" /\ done.kind = "put"
                               /\ done.s = o.s /\ done.val = o.val /\ done.named = TRUE
      BY <1>1, <1>7, AfterSaveIs
    <3> HIDE DEF ks, store, done
    <3>6. o.kind = "get" => /\ done # Idle /\ done.pc = "linking" /\ done.kind = "get"
                            /\ done.s = o.s
      BY <1>1, <3>5, AtOps, IdleIsNoOp DEF Plain
    <3>7. \A q \in Procs \ {p} : Kin(op[q], op'[q])  BY <2>5, Others DEF QuietInv
    <3>8. op'[p] = done  BY <2>5 DEF Write
    <3>9. Calls(op, cache, db) /\ Kept(op, cache, db)  BY DEF QuietInv
    <3>10. ASSUME NEW q \in Procs \ {p}, op[q] # Idle PROVE Mild(op[q], cache, store)
      <4>1. op[q].s # o.s  BY <1>1, <3>9, <3>10 DEF Calls
      <4>2. ~Holds(cache[lkey], op[q])  BY <3>1, <4>1, Tags DEF Holds
      <4>3. \A k \in AllKeys : store[k] = LockEntry(op[q].s) => cache[k] = LockEntry(op[q].s)
        BY <3>4, Tags
      <4>4. Holds(cache["primary"], op[q]) =>
              store["primary"] = cache["primary"] /\ store["name"] = cache["name"]
        BY <3>3, <3>4, <4>2, <1>2 DEF AllKeys
      <4>5. Holds(cache["collection"], op[q]) => store["collection"] = cache["collection"]
        BY <3>3, <3>4, <4>2, <1>2 DEF AllKeys
      <4>6. store["dependencies"] = cache["dependencies"]  BY <3>3, <3>4 DEF AllKeys
      <4> QED  BY <4>3, <4>4, <4>5, <4>6 DEF Mild
    <3>11. done # Idle => Fit(done, store, db) /\ done.s = o.s /\ done.kind = o.kind
      BY <1>2, <3>5, <3>6
      DEF Fit, Shaped, Phases, GripsCollection, GripsPrimary, GripsList, StoresRight,
          Locked, Decided, Mutator
    <3>12. CASE o.kind = "list"
      <4>1. /\ store["primary"] = cache["primary"] /\ store["name"] = cache["name"]
            /\ store["dependencies"] = cache["dependencies"]
            /\ store["collection"] = ItemEntry(db)
        BY <3>3, <3>4, <3>12 DEF AllKeys
      <4>2. ~Renewer(o, cache)  BY <3>12 DEF Renewer
      <4>3. /\ Linking(op) => Linking(op')
            /\ Naming(op) => Naming(op')
            /\ Renewing(op, cache) => Renewing(op', store)
            /\ DeleteLockOwned(op', store)
        BY <2>2, <3>7, <3>9, <4>1, <4>2, RolesKeep DEF Kept
      <4>4. ListRight(store) /\ ItemsRight(store, db)
        BY <3>9, <4>1, Tags DEF Kept, ListRight, ItemsRight
      <4>5. NameListed(op', store) /\ NameRight(op', store, db)
        BY <3>9, <4>1, <4>3 DEF Kept, NameListed, NameRight, Listed
      <4>6. Kept(op', store, db)  BY <4>3, <4>4, <4>5 DEF Kept
      <4> QED  BY <1>1, <2>5, <3>10, <3>11, <4>6, WriteStaysQuiet
    <3>13. CASE o.kind # "list"
      <4>1. /\ store["primary"] = ItemEntry(db) /\ store["name"] = ItemEntry(db)
            /\ store["dependencies"] = cache["dependencies"]
            /\ store["collection"] = cache["collection"]
        BY <3>3, <3>4, <3>13 DEF AllKeys
      <4>2. Linker(done) \/ Namer(done)
        BY <1>2, <3>5, <3>6, <3>13 DEF Linker, Namer
      <4>3. NameListed(op', store)  BY <3>8, <4>2 DEF NameListed, Linking, Naming
      <4>4. NameRight(op', store, db)  BY <4>1, Tags DEF NameRight
      <4>5. ListRight(store) /\ ItemsRight(store, db)
        BY <3>9, <4>1, Tags DEF Kept, ListRight, ItemsRight
      <4>6. DeleteLockOwned(op', store)
        BY <4>1, Tags DEF DeleteLockOwned, DeleteLocked, IsLock
      <4>7. Kept(op', store, db)  BY <4>3, <4>4, <4>5, <4>6 DEF Kept
      <4> QED  BY <1>1, <2>5, <3>10, <3>11, <4>7, WriteStaysQuiet
    <3> QED  BY <3>12, <3>13
  <2>6. ks # {}  BY <1>7 DEF SavedKeys
  <2> HIDE DEF ks, store, done, again
  <2> QED  BY <1>1, <2>1, <2>3, <2>4, <2>5, <2>6, CommitQuiet
<1> QED  BY <1>6, <1>7

(* Where a mutation writes, no other may be about to. *)
LEMMA OnlyMutation ==
  ASSUME QuietInv, NEW p \in Procs, op[p] # Idle, Mutator(op[p])
  PROVE  /\ Naming(op) => Namer(op[p])
         /\ Renewing(op, cache) => Renewer(op[p], cache)
         /\ DeleteLocked(cache["primary"]) => Deleter(op[p], cache)
<1>1. \A q \in Procs \ {p} : op[q] # Idle => ~Mutator(op[q])  BY DEF QuietInv, Calls
<1>2. DeleteLockOwned(op, cache)  BY DEF QuietInv, Kept
<1> QED
  BY <1>1, <1>2 DEF Naming, Namer, Renewing, Renewer, DeleteLockOwned, Deleter, Mutator

LEMMA ClearCollectionQuiet ==
  ASSUME QuietInv, Inv', NEW p \in Procs, ClearCollection(p)
  PROVE  QuietInv'
<1> DEFINE o == op[p]
           d == At(o, "unlinking")
           store == Put(cache, {"collection"}, Tombstone)
<1>1. /\ o # Idle /\ o \in Ops /\ Fit(o, cache, db) /\ o.pc = "clearing"
      /\ Write(p, {"collection"}, store, d) /\ db' = db
  BY Calling DEF ClearCollection
<1>2. Shaped(o) /\ o.kind = "put"  BY <1>1 DEF Fit, Shaped, Phases
<1>3. /\ d.pc = "unlinking" /\ d.kind = "put" /\ d.s = o.s /\ d.named = o.named /\ d # Idle
  BY <1>1, <1>2, AtOps, IdleIsNoOp DEF Plain
<1>4. \A k \in AllKeys : store[k] = IF k = "collection" THEN Tombstone ELSE cache[k]
  BY PutAt, Entries DEF QuietInv
<1> HIDE DEF d, store
<1>5. \A q \in Procs \ {p} : Kin(op[q], op'[q])  BY <1>1, Others DEF QuietInv
<1>6. op'[p] = d  BY <1>1 DEF Write
<1>7. Calls(op, cache, db) /\ Kept(op, cache, db)  BY DEF QuietInv
<1>8. \A q \in Procs \ {p} : op[q] # Idle => Mild(op[q], cache, store)
  BY <1>1, <1>2, <1>4, <1>7, LocksItsOwn, Tags DEF Mutator
<1>9. Fit(d, store, db)
  BY <1>2, <1>3
  DEF Fit, Shaped, Phases, GripsCollection, GripsPrimary, GripsList, StoresRight,
      Locked, Decided, Mutator
<1>10. /\ ~Linker(o) /\ ~Renewer(o, cache) /\ ~Deleter(o, cache)
       /\ Namer(o) => Namer(d)
  BY <1>1, <1>2, <1>3 DEF Linker, Namer, Renewer, Deleter
<1>11. /\ store["primary"] = cache["primary"] /\ store["name"] = cache["name"]
       /\ store["dependencies"] = cache["dependencies"] /\ store["collection"] = Tombstone
  BY <1>4 DEF AllKeys
<1>12. /\ Linking(op) => Linking(op')
       /\ Naming(op) => Naming(op')
       /\ Renewing(op, cache) => Renewing(op', store)
       /\ DeleteLockOwned(op', store)
  BY <1>5, <1>6, <1>7, <1>10, <1>11, RolesKeep DEF Kept
<1>13. ListRight(store) /\ ItemsRight(store, db)
  BY <1>7, <1>11, Tags DEF Kept, ListRight, ItemsRight
<1>14. NameListed(op', store) /\ NameRight(op', store, db)
  BY <1>7, <1>11, <1>12 DEF Kept, NameListed, NameRight, Listed
<1>15. Kept(op', store, db)  BY <1>12, <1>13, <1>14 DEF Kept
<1> QED  BY <1>1, <1>2, <1>3, <1>8, <1>9, <1>15, WriteStaysQuiet

LEMMA LinkNameQuiet ==
  ASSUME QuietInv, Inv', NEW p \in Procs, LinkName(p)
  PROVE  QuietInv'
<1> DEFINE o == op[p]
           list == ListEntry(Listed(cache, "dependencies") \cup {"name"})
           store == Put(cache, {"dependencies"}, list)
           done == Finish(o)
           undo == At(o, "undoing")
<1>1. o # Idle /\ o \in Ops /\ Fit(o, cache, db) /\ o.pc = "linking" /\ db' = db
  BY Calling DEF LinkName
<1>2. Shaped(o) /\ o.kind \in {"get", "put"}  BY <1>1 DEF Fit, Shaped, Phases
<1>3. ~Renewer(o, cache) /\ ~Deleter(o, cache)  BY <1>1, <1>2 DEF Renewer, Deleter
<1>4. CASE cache["dependencies"] = Tombstone
  <2>1. Go(p, undo) /\ cache' = cache  BY <1>4 DEF LinkName
  <2>2. /\ undo.pc = "undoing" /\ undo.kind = o.kind /\ undo.s = o.s /\ undo.named = o.named
        /\ undo # Idle
    BY <1>1, AtOps, IdleIsNoOp DEF Plain
  <2> HIDE DEF undo
  <2>3. Fit(undo, cache, db)
    BY <1>2, <2>2
    DEF Fit, Shaped, Phases, GripsCollection, GripsPrimary, GripsList, StoresRight,
        Locked, Decided, Mutator
  <2>4. (Linker(o) => Linker(undo)) /\ (Namer(o) => Namer(undo))
    BY <2>2 DEF Linker, Namer
  <2> QED  BY <1>1, <1>3, <2>1, <2>2, <2>3, <2>4, MoveStaysQuiet
<1>5. CASE cache["dependencies"] # Tombstone
  <2>1. Write(p, {"dependencies"}, store, done)  BY <1>5 DEF LinkName
  <2>2. Kept(op, cache, db) /\ Calls(op, cache, db)  BY DEF QuietInv
  <2>3. Listed(cache, "dependencies") \subseteq {"name"}
    BY <2>2 DEF Kept, ListRight, Listed
  <2>4. list = ListEntry({"name"})
    <3>1. Listed(cache, "dependencies") \cup {"name"} = {"name"}  BY <2>3
    <3> QED  BY <3>1
  <2>5. list \in Entry  BY <2>4, Entries DEF AllKeys
  <2> HIDE DEF list
  <2>6. \A k \in AllKeys : store[k] = IF k = "dependencies" THEN list ELSE cache[k]
    BY <2>5, PutAt DEF QuietInv
  <2>7. done # Idle => /\ done.pc = "closing" /\ done.kind = "put" /\ done.s = o.s
                       /\ o.kind = "put"
    BY <1>1, <1>2, AtOps DEF Finish, Plain
  <2> HIDE DEF store, done
  <2>8. \A q \in Procs \ {p} : Kin(op[q], op'[q])  BY <2>1, Others DEF QuietInv
  <2>9. /\ store["primary"] = cache["primary"] /\ store["name"] = cache["name"]
        /\ store["collection"] = cache["collection"]
        /\ store["dependencies"].tag = "list" /\ store["dependencies"].keys = {"name"}
    BY <2>4, <2>6, Tags DEF AllKeys
  <2>10. ASSUME NEW q \in Procs \ {p}, op[q] # Idle PROVE Mild(op[q], cache, store)
    <3>1. \A k \in AllKeys : store[k] = LockEntry(op[q].s) => cache[k] = LockEntry(op[q].s)
      BY <2>4, <2>6, Tags
    <3> QED  BY <1>5, <2>9, <3>1 DEF Mild
  <2>11. done # Idle => Fit(done, store, db)
    BY <1>2, <2>7
    DEF Fit, Shaped, Phases, GripsCollection, GripsPrimary, GripsList, StoresRight,
        Locked, Decided, Mutator
  <2>12. /\ Renewing(op, cache) => Renewing(op', store)
         /\ DeleteLockOwned(op', store)
    BY <1>3, <2>2, <2>8, <2>9, RolesKeep DEF Kept
  <2>13. ListRight(store) /\ ItemsRight(store, db)
    BY <2>2, <2>9 DEF Kept, ListRight, ItemsRight
  <2>14. NameListed(op', store)  BY <2>9 DEF NameListed, Listed
  <2>15. NameRight(op', store, db)  BY <1>5, <2>2, <2>9, <2>12 DEF Kept, NameRight
  <2>16. Kept(op', store, db)  BY <2>12, <2>13, <2>14, <2>15 DEF Kept
  <2> QED  BY <1>1, <2>1, <2>7, <2>10, <2>11, <2>16, WriteStaysQuiet
<1> QED  BY <1>4, <1>5

LEMMA UndoSaveQuiet ==
  ASSUME QuietInv, Inv', NEW p \in Procs, UndoSave(p)
  PROVE  QuietInv'
<1> DEFINE o == op[p]
           ks == {"primary", "name"}
           store == Put(cache, ks, Tombstone)
           done == Finish(o)
<1>1. /\ o # Idle /\ o \in Ops /\ Fit(o, cache, db) /\ o.pc = "undoing" /\ db' = db
      /\ Write(p, ks, store, done)
  BY Calling DEF UndoSave
<1>2. Shaped(o) /\ o.kind \in {"get", "put"}  BY <1>1 DEF Fit, Shaped, Phases
<1>3. \A k \in AllKeys : store[k] = IF k \in ks THEN Tombstone ELSE cache[k]
  BY PutAt, Entries DEF QuietInv
<1>4. done # Idle => /\ done.pc = "closing" /\ done.kind = "put" /\ done.s = o.s
                     /\ o.kind = "put"
  BY <1>1, <1>2, AtOps DEF Finish, Plain
<1> HIDE DEF store, done
<1>5. \A q \in Procs \ {p} : Kin(op[q], op'[q])  BY <1>1, Others DEF QuietInv
<1>6. /\ store["primary"] = Tombstone /\ store["name"] = Tombstone
      /\ store["collection"] = cache["collection"]
      /\ store["dependencies"] = cache["dependencies"]
  BY <1>3 DEF AllKeys
<1>7. ASSUME NEW q \in Procs \ {p}, op[q] # Idle PROVE Mild(op[q], cache, store)
  <2>1. \A k \in AllKeys : store[k] = LockEntry(op[q].s) => cache[k] = LockEntry(op[q].s)
    BY <1>3, Tags
  <2> QED  BY <1>6, <2>1, Tags DEF Mild
<1>8. done # Idle => Fit(done, store, db)
  BY <1>2, <1>4
  DEF Fit, Shaped, Phases, GripsCollection, GripsPrimary, GripsList, StoresRight,
      Locked, Decided, Mutator
<1>9. Kept(op', store, db)
  <2>1. Kept(op, cache, db)  BY DEF QuietInv
  <2>2. DeleteLockOwned(op', store)  BY <1>6, Tags DEF DeleteLockOwned, DeleteLocked, IsLock
  <2>3. NameListed(op', store) /\ NameRight(op', store, db)
    BY <1>6, Tags DEF NameListed, NameRight
  <2>4. ListRight(store) /\ ItemsRight(store, db)
    BY <1>6, <2>1, Tags DEF Kept, ListRight, ItemsRight
  <2> QED  BY <2>2, <2>3, <2>4 DEF Kept
<1> QED  BY <1>1, <1>4, <1>7, <1>8, <1>9, WriteStaysQuiet

(* A commit of ClearDependencies takes the name from the list and from the *)
(* cache, and an item that was not on the list is left to the reader that  *)
(* is yet to enter it.                                                     *)
LEMMA ClearListQuiet ==
  ASSUME QuietInv, Inv', Serial, NEW p \in Procs, ClearList(p)
  PROVE  QuietInv'
<1> DEFINE o == op[p]
           isDelete == o.kind = "delete"
           tombstone == isDelete \/ o.seen["dependencies"] = Tombstone
           members == Listed(o.seen, "dependencies")
           entry == IF tombstone THEN Tombstone ELSE EmptyEntry
           store == Put(Put(cache, members, EmptyEntry), {"dependencies"}, entry)
           ks == IF o.kind = "put" /\ tombstone THEN {} ELSE members \cup {"dependencies"}
           next == IF isDelete THEN "locked" ELSE IF o.named THEN "linking" ELSE "closing"
           back == IF isDelete THEN "tombstoning" ELSE "unlinking"
           done == At(o, next)
           again == At(o, back)
<1>1. /\ o # Idle /\ o \in Ops /\ Fit(o, cache, db) /\ o.pc = "committing"
      /\ Consistent(o, cache)
  BY Calling DEF ClearList
<1>2. Shaped(o) /\ Mutator(o)  BY <1>1 DEF Fit, Shaped, Phases, Mutator
<1>3. \E failed : Commit(p, "ClearDependencies", ks, store, done, again, failed)
  BY DEF ClearList
<1>4. /\ done.pc = next /\ done.kind = o.kind /\ done.s = o.s /\ done.named = o.named
      /\ done.val = o.val /\ done # Idle
  BY <1>1, AtOps, IdleIsNoOp DEF Plain
<1>5. /\ again.pc = back /\ again.kind = o.kind /\ again.s = o.s /\ again.named = o.named
      /\ again.val = o.val /\ again # Idle
  BY <1>1, AtOps, IdleIsNoOp DEF Plain
<1> HIDE DEF done, again
<1>6. \A operation : operation = "ClearDependencies" => <<operation, o.kind>> \notin MayGiveUp
  BY <1>2 DEF Serial, Mutator
<1>7. isDelete => Holds(cache["primary"], o) /\ Holds(cache["collection"], o)
  BY <1>1, <1>2 DEF Fit, GripsPrimary, GripsCollection, Locked
<1>8. /\ ~Linker(o) /\ ~Renewer(o, cache)
      /\ Namer(o) => ~isDelete /\ o.named
  BY <1>1, <1>2 DEF Linker, Namer, Renewer, Mutator
<1>9. Shaped(done) /\ Shaped(again) /\ Mutator(done) /\ Mutator(again)
  BY <1>2, <1>4, <1>5 DEF Shaped, Phases, Mutator
<1>10. Moves(o, again, cache, db)
  <2>1. GripsCollection(again, cache) /\ GripsPrimary(again, cache)
        /\ GripsList(again, cache) /\ StoresRight(again, cache, db)
    BY <1>2, <1>5, <1>7, <1>9
    DEF GripsCollection, GripsPrimary, GripsList, StoresRight, Locked, Decided, Mutator, Holds
  <2>2. Deleter(o, cache) => Deleter(again, cache)  BY <1>5 DEF Deleter
  <2>3. Namer(o) => Namer(again)  BY <1>5, <1>8 DEF Namer
  <2> QED  BY <1>5, <1>8, <1>9, <2>1, <2>2, <2>3 DEF Moves, Fit
<1>11. ks = {} => Moves(o, done, cache, db)
  <2>1. ks = {} => o.kind = "put"  OBVIOUS
  <2>2. o.kind = "put" => /\ GripsCollection(done, cache) /\ GripsPrimary(done, cache)
                          /\ GripsList(done, cache) /\ StoresRight(done, cache, db)
    BY <1>4
    DEF GripsCollection, GripsPrimary, GripsList, StoresRight, Locked, Decided, Mutator
  <2>3. o.kind = "put" => ~Deleter(o, cache)  BY DEF Deleter
  <2>4. Namer(o) => Namer(done)  BY <1>4, <1>8 DEF Namer
  <2> QED  BY <1>4, <1>8, <1>9, <2>1, <2>2, <2>3, <2>4 DEF Moves, Fit
<1>12. ASSUME ks # {}, ~o.dirty, Write(p, ks, store, done), db' = db PROVE QuietInv'
  <2>1. Calls(op, cache, db) /\ Kept(op, cache, db)  BY DEF QuietInv
  <2>2. o.seen["dependencies"] = cache["dependencies"]
    BY <1>1, <1>12 DEF Consistent, Watched
  <2>3. members = Listed(cache, "dependencies") /\ members \subseteq {"name"}
    BY <2>1, <2>2 DEF Kept, ListRight, Listed
  <2>4. /\ store["primary"] = cache["primary"] /\ store["collection"] = cache["collection"]
        /\ store["name"] = IF "name" \in members THEN EmptyEntry ELSE cache["name"]
        /\ store["dependencies"] = entry
    <3>1. /\ Put(cache, members, EmptyEntry) \in [AllKeys -> Entry]
          /\ \A k \in AllKeys : Put(cache, members, EmptyEntry)[k] =
               IF k \in members THEN EmptyEntry ELSE cache[k]
      BY PutType, Entries DEF QuietInv, Inv
    <3>2. entry \in Entry  BY Entries
    <3> DEFINE cleared == Put(cache, members, EmptyEntry)
    <3> HIDE DEF entry, cleared, members
    <3>3. \A k \in AllKeys : store[k] = IF k = "dependencies" THEN entry ELSE cleared[k]
      BY <3>1, <3>2, PutType DEF cleared
    <3> QED  BY <2>3, <3>1, <3>3 DEF AllKeys, cleared
  <2>5. isDelete => entry = Tombstone  OBVIOUS
  <2>6. ~isDelete => entry = EmptyEntry /\ cache["dependencies"] # Tombstone
    BY <1>2, <1>12, <2>2 DEF Mutator
  <2> HIDE DEF entry, store, ks
  <2>7. \A q \in Procs \ {p} : Kin(op[q], op'[q])  BY <1>12, Others DEF QuietInv
  <2>8. op'[p] = done  BY <1>12 DEF Write
  <2>9. ASSUME NEW k \in AllKeys PROVE store[k] = cache[k] \/ store[k].tag # "lock"
    BY <2>4, <2>5, <2>6, Tags DEF AllKeys
  <2>10. \A q \in Procs \ {p} : op[q] # Idle => Mild(op[q], cache, store)
    BY <1>1, <1>2, <2>1, <2>9, LocksItsOwn
  <2>11. Fit(done, store, db)
    <3>1. GripsCollection(done, store) /\ GripsPrimary(done, store)
          /\ GripsList(done, store) /\ StoresRight(done, store, db)
      BY <1>2, <1>4, <1>7, <1>9, <2>4, <2>5
      DEF GripsCollection, GripsPrimary, GripsList, StoresRight, Locked, Decided, Mutator, Holds
    <3> QED  BY <1>9, <3>1 DEF Fit
  <2>12. Linking(op) => Linking(op')  BY <1>8, <2>7, RolesKeep
  <2>13. DeleteLockOwned(op', store)
    <3>1. Deleter(o, cache) => Deleter(done, store)  BY <1>4, <2>4 DEF Deleter
    <3> QED  BY <2>1, <2>4, <2>7, <2>8, <3>1, RolesKeep DEF Kept
  <2>14. ListRight(store)  BY <2>4, <2>5, <2>6, Tags DEF ListRight
  <2>15. ItemsRight(store, db)  BY <2>1, <2>4 DEF Kept, ItemsRight
  <2>16. store["name"].tag = "item" =>
           /\ store["name"] = cache["name"]
           /\ Linking(op) \/ Namer(o)
    <3>1. store["name"].tag = "item" => store["name"] = cache["name"] /\ "name" \notin members
      BY <2>4, Tags
    <3>2. Naming(op) => Namer(o)  BY <1>1, <1>2, OnlyMutation
    <3> QED  BY <2>1, <2>3, <3>1, <3>2 DEF Kept, NameListed
  <2>17. Namer(o) => Namer(done)  BY <1>4, <1>8 DEF Namer
  <2>18. NameListed(op', store)
    BY <2>8, <2>12, <2>16, <2>17 DEF NameListed, Naming
  <2>19. NameRight(op', store, db)
    <3>1. ~Renewing(op, cache)  BY <1>1, <1>2, <1>8, OnlyMutation
    <3>2. cache["dependencies"] = Tombstone => store["dependencies"] = Tombstone
      BY <2>4, <2>5, <2>6
    <3> QED  BY <2>1, <2>12, <2>16, <3>1, <3>2 DEF Kept, NameRight
  <2>20. Kept(op', store, db)  BY <2>13, <2>14, <2>15, <2>18, <2>19 DEF Kept
  <2> QED  BY <1>1, <1>4, <1>12, <2>10, <2>11, <2>20, WriteStaysQuiet
<1>13. PICK failed : Commit(p, "ClearDependencies", ks, store, done, again, failed)
  BY <1>3
<1> HIDE DEF ks, store
<1> QED  BY <1>1, <1>6, <1>10, <1>11, <1>12, <1>13, CommitQuiet

(* A delete that ends has given back its lock, if an undone save has not   *)
(* put a tombstone in its place.                                           *)
LEMMA ReleaseQuiet ==
  ASSUME QuietInv, Inv', Serial, NEW p \in Procs, Release(p)
  PROVE  QuietInv'
<1> DEFINE o == op[p]
           ks == {k \in DOMAIN o.seen : o.seen[k] = LockEntry(o.s)}
           store == Put(cache, ks, EmptyEntry)
           again == At(o, "closing")
<1>1. /\ o # Idle /\ o \in Ops /\ Fit(o, cache, db) /\ o.pc = "releasing"
      /\ Consistent(o, cache)
  BY Calling DEF Release
<1>2. Shaped(o) /\ Mutator(o)  BY <1>1 DEF Fit, Shaped, Phases, Mutator
<1>3. Commit(p, "ReleaseSentinel", ks, store, Idle, again, Idle)  BY DEF Release
<1>4. /\ again.pc = "closing" /\ again.kind = o.kind /\ again.s = o.s /\ again.val = o.val
      /\ again # Idle
  BY <1>1, AtOps, IdleIsNoOp DEF Plain
<1> HIDE DEF again
<1>5. ~Linker(o) /\ ~Namer(o) /\ ~Renewer(o, cache)
  BY <1>1, <1>2 DEF Linker, Namer, Renewer, Mutator
<1>6. DOMAIN o.seen = LockedSet(o) /\ "primary" \in LockedSet(o)
      /\ "dependencies" \notin LockedSet(o)
  BY <1>1 DEF Consistent, LockedSet, LockedKeys
<1>7. Deleter(o, cache) => "primary" \in ks
  BY <1>1, <1>2, <1>6 DEF Deleter, Fit, GripsPrimary, Decided
<1>8. Moves(o, again, cache, db)
  <2>1. Shaped(again) /\ Mutator(again)  BY <1>2, <1>4 DEF Shaped, Phases, Mutator
  <2>2. GripsCollection(again, cache) /\ GripsPrimary(again, cache)
        /\ GripsList(again, cache) /\ StoresRight(again, cache, db)
    BY <1>1, <1>2, <1>4, <2>1
    DEF Fit, GripsCollection, GripsPrimary, GripsList, StoresRight, Locked, Decided, Mutator, Holds
  <2>3. Deleter(o, cache) => Deleter(again, cache)  BY <1>4 DEF Deleter
  <2> QED  BY <1>4, <1>5, <2>1, <2>2, <2>3 DEF Moves, Fit
<1>9. ks = {} => Moves(o, Idle, cache, db)  BY <1>5, <1>7 DEF Moves
<1>10. <<"ReleaseSentinel", o.kind>> \in MayGiveUp => Moves(o, Idle, cache, db)
  <2>1. <<"ReleaseSentinel", "delete">> \notin MayGiveUp  BY DEF Serial
  <2> QED  BY <1>5, <2>1 DEF Moves, Deleter
<1>11. ASSUME ~o.dirty, Write(p, ks, store, Idle), db' = db PROVE QuietInv'
  <2>1. \A k \in AllKeys : store[k] = IF k \in ks THEN EmptyEntry ELSE cache[k]
    BY PutAt, Entries DEF QuietInv
  <2>2. "dependencies" \notin ks  BY <1>6
  <2> HIDE DEF ks, store
  <2>3. \A q \in Procs \ {p} : Kin(op[q], op'[q])  BY <1>11, Others DEF QuietInv
  <2>4. Calls(op, cache, db) /\ Kept(op, cache, db)  BY DEF QuietInv
  <2>5. \A q \in Procs \ {p} : op[q] # Idle => Mild(op[q], cache, store)
    BY <1>1, <1>2, <2>1, <2>4, LocksItsOwn, Tags
  <2>6. Linking(op) => Linking(op')  BY <1>5, <2>3, RolesKeep
  <2>7. ~Naming(op) /\ ~Renewing(op, cache)  BY <1>1, <1>2, <1>5, OnlyMutation
  <2>8. \A k \in AllKeys : store[k].tag = "item" => store[k] = cache[k]  BY <2>1, Tags
  <2>9. DeleteLockOwned(op', store)
    <3>1. DeleteLocked(store["primary"]) => store["primary"] = cache["primary"] /\ "primary" \notin ks
      BY <2>1, Tags DEF DeleteLocked, IsLock, AllKeys
    <3>2. DeleteLocked(cache["primary"]) => Deleter(o, cache)  BY <1>1, <1>2, OnlyMutation
    <3> QED  BY <1>7, <3>1, <3>2 DEF DeleteLockOwned
  <2>10. store["dependencies"] = cache["dependencies"]  BY <2>1, <2>2 DEF AllKeys
  <2>11. ListRight(store) /\ ItemsRight(store, db)
    BY <2>4, <2>8, <2>10 DEF Kept, ListRight, ItemsRight, AllKeys
  <2>12. NameListed(op', store) /\ NameRight(op', store, db)
    BY <2>4, <2>6, <2>7, <2>8, <2>10 DEF Kept, NameListed, NameRight, Listed, AllKeys
  <2>13. Kept(op', store, db)  BY <2>9, <2>11, <2>12 DEF Kept
  <2> QED  BY <1>1, <1>11, <2>5, <2>13, WriteStaysQuiet
<1> HIDE DEF ks, store
<1> QED  BY <1>1, <1>3, <1>8, <1>9, <1>10, <1>11, CommitQuiet

LEMMA CloseUnlockedQuiet ==
  ASSUME QuietInv, NEW p \in Procs
  PROVE  ~CloseUnlocked(p)
<1> SUFFICES ASSUME CloseUnlocked(p) PROVE FALSE  OBVIOUS
<1>1. op[p].s \in Sentinel  BY Calling DEF CloseUnlocked, Fit, Shaped
<1> QED  BY <1>1 DEF CloseUnlocked, Sentinel, Kinds, NoLock

(* What expires is nothing that a call in flight rests on. *)
LEMMA ExpireQuiet ==
  ASSUME QuietInv, Inv', NEW k \in AllKeys, Expire(k)
  PROVE  QuietInv'
<1> DEFINE store == Put(cache, {k}, EmptyEntry)
<1>1. /\ cache' = store /\ db' = db /\ cache[k] # EmptyEntry
      /\ op' = [p \in Procs |-> Touched({k}, op[p])]
  BY DEF Expire
<1>2. Outlived(k)  BY DEF Expire
<1>3. \A j \in AllKeys : store[j] = IF j = k THEN EmptyEntry ELSE cache[j]
  BY PutAt, Entries DEF QuietInv
<1> HIDE DEF store
<1>4. \A q \in Procs : Kin(op[q], op'[q])  BY <1>1, TouchedKin DEF QuietInv, Inv
<1>5. Calls(op, cache, db) /\ Kept(op, cache, db) /\ cache[k] \in Entry
  BY DEF QuietInv, Inv
<1>6. /\ IsLock(cache[k]) => \A q \in Procs : op[q] # Idle => cache[k].s # op[q].s
      /\ cache[k].tag = "list" => \A l \in cache[k].keys : cache[l].tag # "item"
      /\ cache[k] = Tombstone => \A q \in Procs : op[q] # Idle => ~Mutator(op[q]) /\ ~Linker(op[q])
      /\ cache[k].tag = "item" => \A q \in Procs : op[q] # Idle => ~Mutator(op[q])
  BY <1>2, Tags DEF Outlived, Running, Mutating, Mutations, Mutator, Linker, IsLock
<1>7. \A q \in Procs : op[q] # Idle => cache[k] # LockEntry(op[q].s)
  BY <1>6, Tags DEF IsLock
<1>8. ASSUME NEW q \in Procs, op[q] # Idle PROVE Mild(op[q], cache, store)
  <2>1. \A j \in AllKeys : store[j] = LockEntry(op[q].s) => cache[j] = LockEntry(op[q].s)
    BY <1>3, Tags
  <2>2. Mutator(op[q]) => ~Holds(cache[k], op[q])  BY <1>6, <1>7, <1>8 DEF Holds
  <2>3. store["name"] = cache["name"] \/ store["name"].tag # "item"
    BY <1>3, Tags DEF AllKeys
  <2>4. Mutator(op[q]) =>
          /\ Holds(cache["primary"], op[q]) => store["primary"] = cache["primary"]
          /\ Holds(cache["collection"], op[q]) => store["collection"] = cache["collection"]
          /\ cache["dependencies"] = Tombstone => store["dependencies"] = Tombstone
    BY <1>3, <2>2 DEF AllKeys, Holds
  <2> QED  BY <2>1, <2>3, <2>4 DEF Mild
<1>9. Calls(op', store, db)
  <2>1. ASSUME NEW q \in Procs, op'[q] # Idle
        PROVE  op[q] # Idle /\ Same(op[q], op'[q]) /\ Fit(op'[q], store, db)
    <3>1. op[q] # Idle /\ Same(op[q], op'[q])  BY <1>4, <2>1 DEF Kin
    <3>2. Fit(op[q], cache, db) /\ Mild(op[q], cache, store)  BY <1>5, <1>8, <3>1 DEF Calls
    <3> QED  BY <3>1, <3>2, BystanderFit
  <2> QED  BY <1>5, <2>1 DEF Calls, Same, Mutator
<1>10. /\ Linking(op) => Linking(op') /\ cache[k] # Tombstone
       /\ Naming(op) => Naming(op')
  <2>1. Linking(op) => Linking(op')  BY <1>4, KinRoles DEF Linking
  <2>2. Naming(op) => Naming(op')  BY <1>4, KinRoles DEF Naming
  <2>3. Linking(op) => cache[k] # Tombstone  BY <1>6 DEF Linking, Linker
  <2> QED  BY <2>1, <2>2, <2>3
<1>11. Renewing(op, cache) => Renewing(op', store)
  <2> SUFFICES ASSUME NEW q \in Procs, Renewer(op[q], cache) PROVE Renewing(op', store)
    BY DEF Renewing
  <2>1. op[q] # Idle /\ cache["primary"] = LockEntry(op[q].s)  BY DEF Renewer
  <2>2. store["primary"] = cache["primary"]  BY <1>3, <1>7, <2>1 DEF AllKeys
  <2>3. Renewer(op'[q], store)  BY <1>4, <2>2, KinRoles
  <2> QED  BY <2>3 DEF Renewing
<1>12. DeleteLockOwned(op', store)
  <2> SUFFICES ASSUME DeleteLocked(store["primary"]) PROVE \E q \in Procs : Deleter(op'[q], store)
    BY DEF DeleteLockOwned
  <2>1. store["primary"] = cache["primary"]
    BY <1>3, Tags DEF DeleteLocked, IsLock, AllKeys
  <2>2. PICK q \in Procs : Deleter(op[q], cache)  BY <1>5, <2>1 DEF Kept, DeleteLockOwned
  <2>3. Deleter(op'[q], store)  BY <1>4, <2>1, <2>2, KinRoles
  <2> QED  BY <2>3
<1>13. \A j \in AllKeys : store[j].tag = "item" => store[j] = cache[j]  BY <1>3, Tags
<1>14. store["dependencies"] \in {cache["dependencies"], EmptyEntry}
  BY <1>3 DEF AllKeys
<1>15. ListRight(store) /\ ItemsRight(store, db)
  BY <1>5, <1>13, <1>14, Tags DEF Kept, ListRight, ItemsRight, AllKeys
<1>16. NameListed(op', store)
  <2> SUFFICES ASSUME store["name"].tag = "item", "name" \in Listed(cache, "dependencies")
               PROVE  "name" \in Listed(store, "dependencies")
    BY <1>5, <1>10, <1>13 DEF Kept, NameListed, AllKeys
  <2>1. cache["dependencies"].tag = "list" /\ "name" \in cache["dependencies"].keys
    BY DEF Listed
  <2>2. cache["name"].tag = "item"  BY <1>13 DEF AllKeys
  <2>3. k # "dependencies"  BY <1>6, <2>1, <2>2
  <2>4. store["dependencies"] = cache["dependencies"]  BY <1>3, <2>3 DEF AllKeys
  <2> QED  BY <2>4 DEF Listed
<1>17. NameRight(op', store, db)
  <2>1. Linking(op) /\ cache["dependencies"] = Tombstone => store["dependencies"] = Tombstone
    BY <1>3, <1>10 DEF AllKeys
  <2> QED  BY <1>5, <1>10, <1>11, <1>13, <2>1 DEF Kept, NameRight, AllKeys
<1>18. Kept(op', store, db)  BY <1>12, <1>15, <1>16, <1>17 DEF Kept
<1> QED  BY <1>1, <1>9, <1>18 DEF QuietInv

LEMMA InitQuiet == Init => QuietInv
<1> SUFFICES ASSUME Init PROVE QuietInv  OBVIOUS
<1>1. \A k \in AllKeys : cache[k] = EmptyEntry  BY DEF Init
<1>2. \A p \in Procs : op[p] = Idle  BY DEF Init
<1>3. Kept(op, cache, db)
  BY <1>1, Tags
  DEF Kept, DeleteLockOwned, DeleteLocked, IsLock, ListRight, NameListed, NameRight,
      ItemsRight, AllKeys
<1> QED  BY <1>2, <1>3, InitInv DEF QuietInv, Calls

LEMMA NoPurges ==
  ASSUME QuietInv, Serial, NEW p \in Procs
  PROVE  ~StartPurge(p) /\ ~Scan(p) /\ ~DeleteScanned(p)
<1>1. "purge" \notin mix.calls  BY DEF Serial
<1>2. op[p].pc # "idle" => op[p].pc \notin {"scanning", "flushing"}
  BY Calling DEF Fit, Shaped, Phases
<1> QED  BY <1>1, <1>2 DEF StartPurge, Start, Scan, Look, DeleteScanned

LEMMA NextQuiet ==
  ASSUME Serial, QuietInv, [Next]_vars
  PROVE  QuietInv'
<1>1. Inv'  BY NextInv DEF QuietInv
<1>2. ASSUME NEW p \in Procs, Act(p) PROVE QuietInv'
  <2>1. ASSUME NEW kind, Miss(p, kind) PROVE QuietInv'  BY <1>1, <2>1, MissQuiet
  <2>2. ASSUME NEW kind, StartMutation(p, kind) PROVE QuietInv'
    BY <1>1, <2>2, StartMutationQuiet
  <2>3. CASE LockMissed(p)  BY <1>1, <2>3, LockMissedQuiet
  <2>4. CASE ServeRead(p)  BY <1>1, <2>4, ServeReadQuiet
  <2>5. CASE ServeMutation(p)  BY <1>1, <2>5, ServeMutationQuiet
  <2>6. CASE ReadLocks(p)  BY <1>1, <2>6, ReadLocksQuiet
  <2>7. CASE TakeLock(p)  BY <1>1, <2>7, TakeLockQuiet
  <2>8. CASE ReadLock(p)  BY <1>1, <2>8, ReadLockQuiet
  <2>9. CASE SetLocked(p)  BY <1>1, <2>9, SetLockedQuiet
  <2>10. CASE ClearCollection(p)  BY <1>1, <2>10, ClearCollectionQuiet
  <2>11. CASE ReadList(p)  BY <1>1, <2>11, ReadListQuiet
  <2>12. CASE ClearList(p)  BY <1>1, <2>12, ClearListQuiet
  <2>13. CASE LinkName(p)  BY <1>1, <2>13, LinkNameQuiet
  <2>14. CASE UndoSave(p)  BY <1>1, <2>14, UndoSaveQuiet
  <2>15. CASE ReadReleased(p)  BY <1>1, <2>15, ReadReleasedQuiet
  <2>16. CASE Release(p)  BY <1>1, <2>16, ReleaseQuiet
  <2>17. ~CloseUnlocked(p)  BY CloseUnlockedQuiet
  <2>18. ~StartPurge(p) /\ ~Scan(p) /\ ~DeleteScanned(p)  BY NoPurges
  <2> QED
    BY <1>2, <2>1, <2>2, <2>3, <2>4, <2>5, <2>6, <2>7, <2>8, <2>9, <2>10, <2>11, <2>12,
       <2>13, <2>14, <2>15, <2>16, <2>17, <2>18 DEF Act
<1>3. ASSUME NEW k \in AllKeys, Expire(k) PROVE QuietInv'  BY <1>1, <1>3, ExpireQuiet
<1>4. CASE UNCHANGED vars  BY <1>1, <1>4 DEF QuietInv, vars
<1> QED  BY <1>2, <1>3, <1>4, NextCases

(* Once neither a mutation nor a reader with a save to confirm is in       *)
(* flight, what Redis keeps under the primary key, the name and the        *)
(* collection is the server's item (redis_provider.go), for any number of  *)
(* callers of which one at a time mutates: the WATCHed keys are enough.    *)
THEOREM QuietCoherence == Spec => [](Serial => CoherentWhenQuiet)
<1> DEFINE J == Serial => QuietInv
<1>1. Init => J  BY InitQuiet
<1>2. J /\ [Next]_vars => J'
  <2> SUFFICES ASSUME J, [Next]_vars, Serial' PROVE QuietInv'  OBVIOUS
  <2>1. mix' = mix  BY NextCases DEF vars
  <2>2. Serial  BY <2>1 DEF Serial
  <2> QED  BY <2>2, NextQuiet
<1>3. J => (Serial => CoherentWhenQuiet)
  <2> SUFFICES ASSUME QuietInv, Settled, NEW k \in AllKeys, cache[k].tag = "item"
               PROVE  cache[k].val = db
    BY DEF CoherentWhenQuiet
  <2>1. \A p \in Procs : op[p] # Idle => ~Mutator(op[p]) /\ ~Linker(op[p])
    BY DEF Settled, Quiet, Running, Mutating, Mutations, Mutator, Linker
  <2>2. ~Linking(op) /\ ~Renewing(op, cache)
    BY <2>1 DEF Linking, Linker, Renewing, Renewer, Mutator
  <2>3. Kept(op, cache, db)  BY DEF QuietInv
  <2>4. k # "dependencies"  BY <2>3 DEF Kept, ListRight
  <2>5. k = "name" => cache[k].val = db  BY <2>2, <2>3 DEF Kept, NameRight
  <2> QED  BY <2>3, <2>4, <2>5 DEF Kept, ItemsRight, AllKeys
<1> HIDE DEF J
<1> QED  BY <1>1, <1>2, <1>3, PTL DEF Spec
=============================================================================
