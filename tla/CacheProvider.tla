--------------------------- MODULE CacheProvider ---------------------------
(***************************************************************************)
(* The operations of the cache provider as functions on a store, a function *)
(* from keys to entries.  Each is one critical section of                  *)
(* infra/cache/inmemory_provider.go, which takes keysMutex for the whole   *)
(* call, so an operation is one step for whoever calls it.                 *)
(*                                                                         *)
(* Expiry is not here: an entry may vanish at any moment its TTL allows,   *)
(* which is a step of the modules that own the store.                      *)
(***************************************************************************)
EXTENDS SentinelManager, Naturals, Sequences

(* Give every key of ks the entry e. *)
Put(store, ks, e) == [k \in DOMAIN store |-> IF k \in ks THEN e ELSE store[k]]

(* WriteSentinel looks at the first key only to decide whether the lock is *)
(* available ...                                                           *)
Unavailable(store, s, ks) ==
  /\ IsSentinelValue(store[ks[1]])
  /\ ~CanSetSentinelGivenCurrVal(store[ks[1]], s)

(* ... and leaves alone those of the others that hold a tombstone.  (What   *)
(* it does to one that holds a list is left out: dependency keys are never *)
(* locked.)                                                                *)
Lockable(store, ks) ==
  {ks[1]} \cup {ks[n] : n \in {m \in 2 .. Len(ks) :
                                 store[ks[m]].tag \notin {"tombstone", "list"}}}

(* Wrong variant: the caller gets the uuid and not what it may do. *)
Granted_WithoutKind(store, s, ks) == IF Unavailable(store, s, ks) THEN NoLock ELSE s.id

(* The sentinel the caller of WriteSentinel gets, and the store it leaves. *)
Granted(store, s, ks) == IF Unavailable(store, s, ks) THEN NoLock ELSE s
WriteSentinel(store, s, ks) ==
  IF Unavailable(store, s, ks)
    THEN store
    ELSE Put(store, Lockable(store, ks), LockEntry(s))

(* ReleaseSentinel removes the keys that hold exactly s: a bumped lock and *)
(* a lock somebody else took over stay.                                    *)
ReleaseSentinel(store, s, ks) ==
  Put(store, {k \in ks : store[k] = LockEntry(s)}, EmptyEntry)

(* SetValue decides by the lock key alone and then treats all the keys     *)
(* alike.  A missing lock key means there is nothing to do.                *)
SetValue(store, lkey, ks, v, s) ==
  LET curr == store[lkey]
      verdict == CanSetValue(curr, v, s)
  IN IF curr.tag \in {"empty", "list"}
       THEN store
       ELSE CASE verdict = "set"      -> Put(store, ks, ItemEntry(v))
              [] verdict = "clear"    -> Put(store, ks, EmptyEntry)
              [] verdict = "conflict" -> Put(store, ks, Bumped(curr))
              [] verdict = "none"     -> store

(* GetValue locks a missing key for the reader that asks for it. *)
LockOnMiss(store, k, s) ==
  IF store[k] = EmptyEntry THEN Put(store, {k}, LockEntry(s)) ELSE store

(* The keys a dependency list names. *)
Listed(store, d) == IF store[d].tag = "list" THEN store[d].keys ELSE {}

(* Which lists AddDependency reaches: it goes through them in order and    *)
(* fails at the first that is tombstoned, those before it already written. *)
Reached(store, dkeys) ==
  {dkeys[n] : n \in {m \in DOMAIN dkeys :
                       \A l \in 1 .. m : store[dkeys[l]] # Tombstone}}
Dependable(store, dkeys) == Reached(store, dkeys) = {dkeys[n] : n \in DOMAIN dkeys}

(* Wrong variant: a list is started anew with every addition. *)
AddDependency_Overwriting(store, dkeys, ks) ==
  Put(store, Reached(store, dkeys), ListEntry(ks))

(* AddDependency enters the keys ks in the lists, and drops from them the  *)
(* keys that have left the cache.                                          *)
AddDependency(store, dkeys, ks) ==
  [d \in DOMAIN store |->
     IF d \notin Reached(store, dkeys)
       THEN store[d]
       ELSE ListEntry(ks \cup {k \in Listed(store, d) : store[k] # EmptyEntry})]

(* ClearDependencies removes every key of a list, whatever it holds, and   *)
(* the list.  A tombstone in the place of the list stays.                  *)
ClearDependencies(store, dkey, setTombstone) ==
  Put(Put(store, Listed(store, dkey), EmptyEntry), {dkey},
      IF setTombstone \/ store[dkey] = Tombstone THEN Tombstone ELSE EmptyEntry)

(* Wrong variant: a flush that spares the locks of calls in flight. *)
Flush_ItemsOnly(store, flushTombstones) ==
  Put(store, {k \in DOMAIN store : store[k].tag = "item"}, EmptyEntry)

(* Flush drops every string entry; tombstones only when told to, and       *)
(* dependency lists never.                                                 *)
Flush(store, flushTombstones) ==
  Put(store, {k \in DOMAIN store :
                \/ store[k].tag \in {"item", "lock"}
                \/ flushTombstones /\ store[k].tag = "tombstone"}, EmptyEntry)

=============================================================================
