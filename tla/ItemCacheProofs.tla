-------------------------- MODULE ItemCacheProofs --------------------------
(***************************************************************************)
(* What ItemCache guarantees for any number of callers, items and values.  *)
(***************************************************************************)
EXTENDS ItemCache, FiniteSetTheorems, TLAPS

-----------------------------------------------------------------------------
(* The provider's operations on one key.                                   *)

(* Which shapes an entry has. *)
LEMMA EntryShape ==
  ASSUME NEW e \in Entry
  PROVE  /\ e.tag \in {"empty", "item", "lock", "tombstone", "list"}
         /\ e.tag = "empty" => e = EmptyEntry
         /\ e.tag = "item" => e.val \in Values /\ e = ItemEntry(e.val)
         /\ e.tag = "lock" => /\ e.s \in Sentinel
                              /\ e.bumped \in BOOLEAN
                              /\ e = LockEntry(e.s) \/ e = Bumped(e)
BY DEF Entry, EmptyEntry, ItemEntry, LockEntry, Bumped, Tombstone, ListEntry

(* Which entries are legal. *)
LEMMA EntryOK ==
  /\ EmptyEntry \in Entry /\ Tombstone \in Entry
  /\ \A v \in Values : ItemEntry(v) \in Entry
  /\ \A s \in Sentinel : LockEntry(s) \in Entry
  /\ \A e \in Entry : IsLock(e) => Bumped(e) \in Entry
<1>1. \A s \in Sentinel : LockEntry(s) \in Entry
  BY DEF Entry, LockEntry
<1>2. \A e \in Entry : IsLock(e) => Bumped(e) \in Entry
  <2> SUFFICES ASSUME NEW e \in Entry, IsLock(e) PROVE Bumped(e) \in Entry
    OBVIOUS
  <2>1. e.s \in Sentinel
    BY EntryShape DEF IsLock
  <2> QED BY <2>1 DEF Entry, Bumped
<1> QED BY <1>1, <1>2 DEF Entry

LEMMA PutOK ==
  ASSUME NEW st \in [Keys -> Entry], NEW ks, NEW e \in Entry
  PROVE  /\ Put(st, ks, e) \in [Keys -> Entry]
         /\ \A k \in Keys : Put(st, ks, e)[k] = IF k \in ks THEN e ELSE st[k]
BY DEF Put

(* A lock is either not available or taken on the one key asked for. *)
LEMMA WriteSentinelOne ==
  ASSUME NEW st \in [Keys -> Entry], NEW k \in Keys, NEW s \in Sentinel
  PROVE  /\ WriteSentinel(st, s, <<k>>) \in [Keys -> Entry]
         /\ \/ /\ Granted(st, s, <<k>>) = s
               /\ WriteSentinel(st, s, <<k>>) = Put(st, {k}, LockEntry(s))
               /\ ~(IsLock(st[k]) /\ st[k].s.kind = "delete")
            \/ /\ Granted(st, s, <<k>>) = NoLock
               /\ WriteSentinel(st, s, <<k>>) = st
               /\ s.kind = "read" \/ (IsLock(st[k]) /\ st[k].s.kind = "delete")
<1>1. <<k>>[1] = k /\ Len(<<k>>) = 1
  OBVIOUS
<1>2. Lockable(st, <<k>>) = {k}
  BY <1>1 DEF Lockable
<1>3. LockEntry(s) \in Entry
  BY EntryOK
<1>4. Put(st, {k}, LockEntry(s)) \in [Keys -> Entry]
  BY <1>3, PutOK
<1>5. CASE Unavailable(st, s, <<k>>)
  BY <1>1, <1>5 DEF WriteSentinel, Granted, Unavailable, CanSetSentinelGivenCurrVal
<1>6. CASE ~Unavailable(st, s, <<k>>)
  BY <1>1, <1>2, <1>4, <1>6
  DEF WriteSentinel, Granted, Unavailable, CanSetSentinelGivenCurrVal,
      IsSentinelValue, IsLock
<1> QED BY <1>5, <1>6

(* What SetValue can do to the key it is called for. *)
LEMMA SetValueOne ==
  ASSUME NEW st \in [Keys -> Entry], NEW k \in Keys, NEW v \in Values,
         NEW s \in Sentinel,
         NEW r, r = SetValue(st, k, {k}, v, s)
  PROVE  /\ r \in [Keys -> Entry]
         /\ \A j \in Keys : j # k => r[j] = st[j]
         /\ \/ st[k] = LockEntry(s) /\ r[k] = ItemEntry(v)
            \/ st[k] # LockEntry(s) /\ r[k] = st[k]
            \/ /\ st[k] # LockEntry(s) /\ s.kind = "write" /\ r[k] = EmptyEntry
               /\ ~(IsLock(st[k]) /\ st[k].s.kind = "delete")
            \/ /\ st[k] # LockEntry(s) /\ s.kind = "write" /\ r[k] = Bumped(st[k])
               /\ IsLock(st[k]) /\ st[k].s.kind = "write"
<1> DEFINE curr == st[k]
<1>0. curr \in Entry
  OBVIOUS
<1>1. CASE curr.tag \in {"empty", "list"}
  <2>1. r = st
    BY <1>1 DEF SetValue
  <2>2. curr # LockEntry(s)
    BY <1>1 DEF LockEntry
  <2> QED BY <2>1, <2>2
<1>2. CASE curr.tag \notin {"empty", "list"}
  <2>1. CASE curr = LockEntry(s)
    <3>1. CanSetValue(curr, v, s) = "set"
      BY <2>1 DEF CanSetValue, LockEntry, IsLock
    <3>2. r = Put(st, {k}, ItemEntry(v))
      BY <1>2, <3>1 DEF SetValue
    <3>3. ItemEntry(v) \in Entry
      BY EntryOK
    <3>4. /\ r \in [Keys -> Entry]
          /\ \A j \in Keys : r[j] = IF j \in {k} THEN ItemEntry(v) ELSE st[j]
      BY <3>2, <3>3 DEF Put
    <3> QED BY <2>1, <3>4
  <2>2. CASE curr # LockEntry(s)
    <3>1. \/ CanSetValue(curr, v, s) = "none"
          \/ /\ CanSetValue(curr, v, s) = "clear"
             /\ s.kind = "write"
             /\ ~(IsLock(curr) /\ curr.s.kind = "delete")
          \/ /\ CanSetValue(curr, v, s) = "conflict"
             /\ s.kind = "write" /\ IsLock(curr) /\ curr.s.kind = "write"
      <4> DEFINE a == s.kind = "write" /\ curr.tag = "item" /\ curr.val # v
                 b == s.kind = "write" /\ IsLock(curr) /\ curr.s = s /\ curr.bumped
                 c == s.kind = "write" /\ IsLock(curr) /\ curr.s.kind = "write"
                        /\ curr.s # s
      <4>1. CanSetValue(curr, v, s) =
              CASE curr = LockEntry(s) -> "set" [] a -> "clear" [] b -> "clear"
                [] c -> "conflict" [] OTHER -> "none"
        BY DEF CanSetValue
      <4>2. a => ~b /\ ~c /\ ~IsLock(curr)
        BY DEF IsLock
      <4>3. b => ~c
        OBVIOUS
      <4> HIDE DEF a, b, c
      <4>4. CASE a
        BY <2>2, <4>1, <4>2, <4>4 DEF a
      <4>5. CASE b
        BY <2>2, <4>1, <4>2, <4>3, <4>5 DEF b
      <4>6. CASE c
        BY <2>2, <4>1, <4>2, <4>3, <4>6 DEF c
      <4>7. CASE ~a /\ ~b /\ ~c
        BY <2>2, <4>1, <4>7
      <4> QED BY <4>4, <4>5, <4>6, <4>7
    <3>2. CASE CanSetValue(curr, v, s) = "none"
      <4>1. r = st
        BY <1>2, <3>2 DEF SetValue
      <4> QED BY <2>2, <4>1
    <3>3. CASE CanSetValue(curr, v, s) = "clear"
      <4>1. r = Put(st, {k}, EmptyEntry)
        BY <1>2, <3>3 DEF SetValue
      <4>2. /\ r \in [Keys -> Entry]
            /\ \A j \in Keys : r[j] = IF j \in {k} THEN EmptyEntry ELSE st[j]
        BY <4>1, EntryOK DEF Put
      <4> QED BY <2>2, <3>1, <3>3, <4>2
    <3>4. CASE CanSetValue(curr, v, s) = "conflict"
      <4>1. r = Put(st, {k}, Bumped(curr))
        BY <1>2, <3>4 DEF SetValue
      <4>2. Bumped(curr) \in Entry
        BY <3>1, <3>4, EntryOK
      <4>3. /\ r \in [Keys -> Entry]
            /\ \A j \in Keys : r[j] = IF j \in {k} THEN Bumped(curr) ELSE st[j]
        BY <4>1, <4>2 DEF Put
      <4> QED BY <2>2, <3>1, <3>4, <4>3
    <3> QED BY <3>1, <3>2, <3>3, <3>4
  <2> QED BY <2>1, <2>2
<1> QED BY <1>1, <1>2

-----------------------------------------------------------------------------
(* Type correctness.  It needs to know what val is when it matters: what a *)
(* call is about to store is an item, and what it is about to ask of the   *)
(* server suits its kind.                                                  *)
Locking == {"create", "update", "updateAndFlush", "delete"}
Writes == {"create", "update", "updateAndFlush", "updateBypass"}

ValOK(o) ==
  /\ o.pc = "answered" => o.val \in Values /\ o.kind \in {"get"} \cup Writes
  /\ o.pc = "locked" /\ o.kind \in Writes => o.val \in Values
  /\ o.pc = "locked" /\ o.kind \in {"delete", "purge"} => o.val = Nil
  /\ o.pc = "locked" => o.kind # "flush"
  /\ o.pc = "flushing" => o.kind \in {"updateAndFlush", "purge"}
  /\ o.pc # "idle" => o.kind \in {"get"} \cup Mutations

(* The kind of the sentinel tells reads, writes and deletes apart. *)
SentinelOK(o) ==
  /\ o.kind = "get" /\ o.s # NoLock => o.s.kind = "read"
  /\ o.kind \in Writes /\ o.s # NoLock => o.s.kind = "write"
  /\ o.kind = "delete" /\ o.s # NoLock => o.s.kind = "delete"
  /\ o.kind \in {"purge", "updateBypass"} => o.s = NoLock

TypeInv == /\ TypeOK
           /\ \A p \in Procs : op[p].pc # "idle" => ValOK(op[p]) /\ SentinelOK(op[p])

LEMMA NoLockIsNoSentinel == NoLock \notin Sentinel
BY DEF NoLock, Sentinel, Kinds

LEMMA OpShape ==
  ASSUME TypeOK, NEW p \in Procs
  PROVE  /\ op[p].pc = "idle" <=> op[p] = Idle
         /\ op[p].pc # "idle" => op[p] \in Op
BY DEF TypeOK, Op, Idle

(* A call that begins. *)
LEMMA BeginType ==
  ASSUME TypeInv, NEW p \in Procs, NEW kind \in {"get"} \cup MutationKinds, NEW i \in Keys,
         NEW pc \in {"locked", "answered", "undoing", "flushing", "closing", "returned"},
         NEW s \in Sentinel \cup {NoLock}, NEW v \in Values \cup {Nil, Err},
         Begin(p, kind, i, pc, s, v),
         LET o == [kind |-> kind, item |-> i, pc |-> pc, s |-> s, val |-> v]
         IN  ValOK(o) /\ SentinelOK(o)
  PROVE  /\ op' \in [Procs -> Op \cup {Idle}]
         /\ \A q \in Procs : op'[q].pc # "idle" => ValOK(op'[q]) /\ SentinelOK(op'[q])
<1> DEFINE o == [kind |-> kind, item |-> i, pc |-> pc, s |-> s, val |-> v]
<1>1. o \in Op
  BY DEF Op
<1>2. op' = [op EXCEPT ![p] = o]
  BY DEF Begin
<1>3. ValOK(o) /\ SentinelOK(o)
  OBVIOUS
<1> HIDE DEF o
<1> QED BY <1>1, <1>2, <1>3 DEF TypeInv, TypeOK

(* A call that goes on, keeping what it carries or with what it is told. *)
LEMMA GoWithType ==
  ASSUME TypeInv, NEW p \in Procs, op[p].pc # "idle",
         NEW pc \in {"answered", "undoing", "flushing", "closing", "returned"},
         NEW v \in Values \cup {Nil, Err}, GoWith(p, pc, v),
         pc = "flushing" => op[p].kind \in {"updateAndFlush", "purge"},
         pc = "answered" => v \in Values /\ op[p].kind \in {"get"} \cup Writes
  PROVE  /\ op' \in [Procs -> Op \cup {Idle}]
         /\ \A q \in Procs : op'[q].pc # "idle" => ValOK(op'[q]) /\ SentinelOK(op'[q])
<1> DEFINE o == [op[p] EXCEPT !.pc = pc, !.val = v]
<1>1. op[p] \in Op /\ ValOK(op[p]) /\ SentinelOK(op[p])
  BY OpShape DEF TypeInv
<1>2. /\ o \in Op /\ o.kind = op[p].kind /\ o.s = op[p].s /\ o.pc = pc /\ o.val = v
  BY <1>1 DEF Op
<1>3. op' = [op EXCEPT ![p] = o]
  BY DEF GoWith, TypeInv, TypeOK
<1> HIDE DEF o
<1>4. ValOK(o) /\ SentinelOK(o)
  BY <1>1, <1>2 DEF ValOK, SentinelOK
<1> QED BY <1>2, <1>3, <1>4 DEF TypeInv, TypeOK

LEMMA GoType ==
  ASSUME TypeInv, NEW p \in Procs, op[p].pc # "idle",
         NEW pc \in {"answered", "undoing", "flushing", "closing", "returned"}, Go(p, pc),
         pc = "flushing" => op[p].kind \in {"updateAndFlush", "purge"},
         pc = "answered" => op[p].val \in Values /\ op[p].kind \in {"get"} \cup Writes
  PROVE  /\ op' \in [Procs -> Op \cup {Idle}]
         /\ \A q \in Procs : op'[q].pc # "idle" => ValOK(op'[q]) /\ SentinelOK(op'[q])
<1>1. op[p] \in Op
  BY OpShape DEF TypeInv
<1>2. op[p].val \in Values \cup {Nil, Err} /\ GoWith(p, pc, op[p].val)
  BY <1>1 DEF Go, GoWith, Op, TypeInv, TypeOK
<1> QED BY <1>2, GoWithType

(* A save, and a release, change nothing but the key of the item. *)
LEMMA SavedType ==
  ASSUME TypeInv, NEW p \in Procs, op[p].pc = "answered"
  PROVE  Saved(p) \in [Keys -> Entry]
<1>1. op[p] \in Op /\ op[p].val \in Values
  BY OpShape DEF TypeInv, ValOK
<1>2. CASE op[p].s = NoLock
  BY <1>2 DEF Saved, TypeInv, TypeOK
<1>3. CASE op[p].s # NoLock
  <2>1. op[p].s \in Sentinel /\ op[p].item \in Keys /\ cache \in [Keys -> Entry]
    BY <1>1, <1>3 DEF Op, TypeInv, TypeOK
  <2>2. SetValue(cache, op[p].item, {op[p].item}, op[p].val, op[p].s) \in [Keys -> Entry]
    BY <1>1, <2>1, SetValueOne
  <2> QED BY <1>3, <2>2 DEF Saved
<1> QED BY <1>2, <1>3

LEMMA TypeInvInit == Init => TypeInv
BY EntryOK DEF Init, TypeInv, TypeOK, Idle

LEMMA TypeInvNext == TypeInv /\ [Next]_vars => TypeInv'
<1> SUFFICES ASSUME TypeInv, [Next]_vars PROVE TypeInv'
  OBVIOUS
<1> USE DEF TypeInv
<1>t. /\ cache \in [Keys -> Entry]
      /\ db \in [Keys -> Values \cup {Nil}]
      /\ op \in [Procs -> Op \cup {Idle}]
  BY DEF TypeOK
<1>o. ASSUME NEW p \in Procs, op[p].pc # "idle"
      PROVE  op[p] \in Op /\ ValOK(op[p]) /\ SentinelOK(op[p])
  BY <1>o, OpShape
<1>f. ASSUME NEW kind \in Kinds, NEW s \in FreshSentinel(kind)
      PROVE  s \in Sentinel /\ s # NoLock /\ s.kind = kind
  BY NoLockIsNoSentinel DEF FreshSentinel, Sentinel, Kinds
<1>1. ASSUME NEW p \in Procs, NEW i \in Keys, GetHit(p, i) PROVE TypeInv'
  <2>1. cache[i].val \in Values
    BY <1>1, <1>t, EntryShape DEF GetHit
  <2> QED BY <1>1, <2>1, <1>t, BeginType DEF GetHit, TypeOK, ValOK, SentinelOK, Writes
<1>2. ASSUME NEW p \in Procs, NEW i \in Keys, GetMiss(p, i) PROVE TypeInv'
  <2>1. PICK s \in FreshSentinel("read") :
          Begin(p, "get", i, "locked", s, Nil) /\ cache' = LockOnMiss(cache, i, s)
    BY <1>2 DEF GetMiss
  <2>2. s \in Sentinel /\ s.kind = "read"
    BY <1>f DEF Kinds
  <2>3. cache' \in [Keys -> Entry]
    BY <2>1, <2>2, <1>t, EntryOK, PutOK DEF LockOnMiss
  <2> QED BY <1>2, <2>1, <2>2, <2>3, <1>t, BeginType
          DEF GetMiss, TypeOK, ValOK, SentinelOK, Writes
<1>3. ASSUME NEW p \in Procs, NEW i \in Keys, GetUnlocked(p, i) PROVE TypeInv'
  BY <1>3, <1>t, BeginType DEF GetUnlocked, TypeOK, ValOK, SentinelOK, Writes
<1>4. ASSUME NEW p \in Procs, ServeGet(p) PROVE TypeInv'
  <2>1. op[p].pc # "idle" /\ op[p].kind = "get" /\ op[p] \in Op
    BY <1>4, <1>o DEF ServeGet
  <2>2. CASE db[op[p].item] # Nil /\ GoWith(p, "answered", db[op[p].item])
    <3>1. db[op[p].item] \in Values
      BY <2>1, <2>2, <1>t DEF Op
    <3> QED BY <1>4, <2>1, <2>2, <3>1, <1>t, GoWithType DEF ServeGet, TypeOK
  <2>3. CASE GoWith(p, "returned", Err)
    BY <1>4, <2>1, <2>3, <1>t, GoWithType DEF ServeGet, TypeOK
  <2> QED BY <1>4, <2>2, <2>3 DEF ServeGet
<1>5. ASSUME NEW p \in Procs, SaveGet(p) PROVE TypeInv'
  <2>1. op[p].pc # "idle" /\ op[p].pc = "answered"
    BY <1>5 DEF SaveGet
  <2> QED BY <1>5, <2>1, <1>t, SavedType, GoType DEF SaveGet, TypeOK
<1>19. ASSUME NEW p \in Procs, UndoSave(p) PROVE TypeInv'
  <2>1. cache' \in [Keys -> Entry]
    BY <1>19, <1>t, EntryOK, PutOK DEF UndoSave
  <2> QED BY <1>19, <2>1, <1>t, GoType DEF UndoSave, TypeOK
<1>6. ASSUME NEW p \in Procs, NEW kind \in Mutations, NEW i \in Keys,
             NEW v \in Values \cup {Nil}, AlreadyCached(p, kind, i, v)
      PROVE  TypeInv'
  <2>1. v \in Values
    BY <1>6, <1>t, EntryShape DEF AlreadyCached, ItemEntry
  <2>2. kind \in MutationKinds /\ kind \in Writes
    BY <1>6, ItemCacheAssumption DEF AlreadyCached, Writes, MutationKinds
  <2> QED BY <1>6, <2>1, <2>2, <1>t, BeginType
          DEF AlreadyCached, TypeOK, ValOK, SentinelOK, Writes
<1>7. ASSUME NEW p \in Procs, NEW kind \in Mutations, NEW i \in Keys,
             NEW v \in Values \cup {Nil}, TakeLock(p, kind, i, v)
      PROVE  TypeInv'
  <2> DEFINE sk == SentinelKind(IF kind = "updateAndFlush" THEN "update" ELSE kind)
  <2>1. /\ kind \in Locking /\ kind \in MutationKinds
        /\ sk \in Kinds /\ sk = IF kind = "delete" THEN "delete" ELSE "write"
    BY <1>7 DEF TakeLock, Locking, MutationKinds, SentinelKind, Kinds
  <2>2. PICK s \in FreshSentinel(sk) :
          /\ Begin(p, kind, i, "locked", Granted(cache, s, <<i>>), v)
          /\ cache' = WriteSentinel(cache, s, <<i>>)
    BY <1>7 DEF TakeLock
  <2>3. s \in Sentinel /\ s.kind = sk
    BY <2>1, <1>f
  <2>4. /\ cache' \in [Keys -> Entry]
        /\ Granted(cache, s, <<i>>) \in {s, NoLock}
    BY <2>2, <2>3, <1>t, WriteSentinelOne
  <2>5. (v = Nil) <=> (kind = "delete")
    BY <1>7 DEF TakeLock
  <2> HIDE DEF sk
  <2>6. LET o == [kind |-> kind, item |-> i, pc |-> "locked",
                  s |-> Granted(cache, s, <<i>>), val |-> v]
        IN  ValOK(o) /\ SentinelOK(o)
    BY <2>1, <2>3, <2>4, <2>5 DEF ValOK, SentinelOK, Writes, Locking
  <2> QED BY <1>7, <2>1, <2>2, <2>3, <2>4, <2>6, <1>t, BeginType DEF TakeLock, TypeOK
<1>8. ASSUME NEW p \in Procs, NEW kind \in Mutations, NEW i \in Keys,
             NEW v \in Values \cup {Nil}, BeginUnlocked(p, kind, i, v)
      PROVE  TypeInv'
  <2>1. kind \in {"purge", "updateBypass"} /\ kind \in MutationKinds
    BY <1>8 DEF BeginUnlocked, MutationKinds
  <2>2. LET o == [kind |-> kind, item |-> i, pc |-> "locked", s |-> NoLock, val |-> v]
        IN  ValOK(o) /\ SentinelOK(o)
    BY <1>8, <2>1 DEF BeginUnlocked, ValOK, SentinelOK, Writes
  <2> QED BY <1>8, <2>1, <2>2, <1>t, BeginType DEF BeginUnlocked, TypeOK
<1>9. ASSUME NEW p \in Procs, ServeMutation(p) PROVE TypeInv'
  <2>1. /\ op[p].pc = "locked" /\ op[p] \in Op /\ op[p].kind # "get"
        /\ ValOK(op[p]) /\ cache' = cache
    BY <1>9, <1>o DEF ServeMutation
  <2>2. op[p].val \in Values \cup {Nil}
    BY <2>1 DEF ValOK, Op, Writes, MutationKinds
  <2>3. db' \in [Keys -> Values \cup {Nil}]
    BY <1>9, <2>1, <2>2, <1>t DEF ServeMutation, Apply, Op
  <2>4. CASE Go(p, AfterSuccess(op[p].kind))
    <3>1. /\ AfterSuccess(op[p].kind) \in {"answered", "flushing", "closing"}
          /\ AfterSuccess(op[p].kind) = "flushing" => op[p].kind = "purge"
          /\ AfterSuccess(op[p].kind) = "answered" => op[p].kind \in Writes
      BY <2>1 DEF AfterSuccess, ValOK, Op, MutationKinds, Writes
    <3>2. op[p].kind \in Writes => op[p].val \in Values
      BY <2>1 DEF ValOK
    <3> QED BY <2>1, <2>3, <2>4, <3>1, <3>2, <1>t, GoType DEF TypeOK
  <2>5. CASE GoWith(p, "closing", Err)
    BY <2>1, <2>3, <2>5, <1>t, GoWithType DEF TypeOK
  <2> QED BY <1>9, <2>4, <2>5 DEF ServeMutation
<1>10. ASSUME NEW p \in Procs, SaveMutation(p) PROVE TypeInv'
  BY <1>10, <1>t, SavedType, GoType DEF SaveMutation, TypeOK
<1>11. ASSUME NEW p \in Procs, SkipSave(p) PROVE TypeInv'
  BY <1>11, <1>t, GoType DEF SkipSave, TypeOK
<1>12. ASSUME NEW p \in Procs, FlushAfter(p) PROVE TypeInv'
  <2>1. cache' \in [Keys -> Entry]
    BY <1>12, <1>t, EntryOK, PutOK DEF FlushAfter, Flush
  <2> QED BY <1>12, <2>1, <1>t, GoType DEF FlushAfter, TypeOK
<1>13. ASSUME NEW p \in Procs, Close(p) PROVE TypeInv'
  <2>1. cache' \in [Keys -> Entry]
    BY <1>13, <1>t, EntryOK, PutOK DEF Close, ReleaseSentinel
  <2> QED BY <1>13, <2>1, <1>t, GoType DEF Close, TypeOK
<1>14. ASSUME NEW p \in Procs, CloseOrganization(p) PROVE TypeInv'
  BY <1>14, <1>t, GoType DEF CloseOrganization, TypeOK
<1>15. ASSUME NEW p \in Procs, FlushCache(p) PROVE TypeInv'
  <2>1. cache' \in [Keys -> Entry]
    BY <1>15, <1>t, EntryOK, PutOK DEF FlushCache, Flush
  <2> QED BY <1>15, <2>1, <1>t DEF FlushCache, TypeOK
<1>16. ASSUME NEW p \in Procs, Return(p) \/ Crash(p) PROVE TypeInv'
  BY <1>16, <1>t DEF Return, Crash, TypeOK, Idle
<1>17. ASSUME NEW i \in Keys, Expire(i) PROVE TypeInv'
  <2>1. cache' \in [Keys -> Entry]
    BY <1>17, <1>t, EntryOK, PutOK DEF Expire
  <2> QED BY <1>17, <2>1, <1>t DEF Expire, TypeOK
<1>18. CASE UNCHANGED vars
  BY <1>18, <1>t DEF vars, TypeOK
<1> QED
  BY <1>1, <1>2, <1>3, <1>4, <1>5, <1>6, <1>7, <1>8, <1>9, <1>10, <1>11, <1>12,
     <1>13, <1>14, <1>15, <1>16, <1>17, <1>18, <1>19 DEF Next

(* Every reachable state has the types the model gives its variables: no   *)
(* call ever carries or caches anything but a value the server knows.      *)
THEOREM TypeCorrectness == Spec => []TypeOK
<1>1. Spec => []TypeInv
  BY TypeInvInit, TypeInvNext, PTL DEF Spec
<1>2. TypeInv => TypeOK
  BY DEF TypeInv
<1> QED BY <1>1, <1>2, PTL

-----------------------------------------------------------------------------
(* Coherence, when no two mutations disturb each other.  Coherent is not   *)
(* inductive: that a save stores the server's item rests on the lock its   *)
(* caller still finds in the cache, so the invariant says what finding it  *)
(* there means for reads and for writes.                                   *)
Serial ==
  /\ MaxMutators = 1
  /\ "updateBypass" \notin Mutations
  /\ "lost" \in Faults => "purge" \notin Mutations
  /\ "crashDelete" \notin Faults

OneMutator == \A p, q \in Procs :
  p # q /\ Mutating(p) /\ Mutating(q) =>
    op[p].item # op[q].item /\ {op[p].kind, op[q].kind} \cap Flushing = {}

WriterHoldsLock(p) ==
  op[p].pc \in {"locked", "answered"} /\ op[p].kind \in Locking =>
    op[p].s # NoLock /\ cache[op[p].item] \in {LockEntry(op[p].s), Tombstone}

WriterKnowsItem(p) ==
  op[p].pc = "answered" /\ op[p].kind \in Writes => op[p].val = db[op[p].item]

ReaderUpToDate(p) ==
  op[p].pc = "answered" /\ op[p].kind = "get" /\ op[p].s # NoLock
    /\ cache[op[p].item] = LockEntry(op[p].s)
  => op[p].val = db[op[p].item] \/ Purging(op[p].item)

CallOK(p) == WriterHoldsLock(p) /\ WriterKnowsItem(p) /\ ReaderUpToDate(p)

DeleteLockHeld(i) ==
  IsLock(cache[i]) /\ cache[i].s.kind = "delete" =>
    \E p \in Procs : /\ Running(p) /\ op[p].kind = "delete" /\ op[p].item = i
                     /\ op[p].s # NoLock /\ cache[i] = LockEntry(op[p].s)

CoherentAt(i) ==
  cache[i].tag = "item" => cache[i].val = db[i] \/ Purging(i)

KeyOK(i) == DeleteLockHeld(i) /\ CoherentAt(i)

Parts == /\ OneMutator
         /\ \A p \in Procs : op[p].pc # "idle" => CallOK(p)
         /\ \A i \in Keys : KeyOK(i)

SerialInv == TypeInv /\ Parts

LEMMA NoRivals ==
  ASSUME Serial, NEW kind, NEW i, MayMutate(kind, i)
  PROVE  Rivals(kind, i) = {}
<1>1. IsFiniteSet(Rivals(kind, i))
  BY ItemCacheAssumption, FS_Subset DEF Rivals
<1>2. Cardinality(Rivals(kind, i)) = 0
  BY <1>1, FS_CardinalityType DEF MayMutate, Serial
<1> QED BY <1>1, <1>2, FS_EmptySet

LEMMA Fresh ==
  ASSUME NEW kind \in Kinds, NEW s \in FreshSentinel(kind),
         NEW q \in Procs, op[q].pc # "idle", op[q].s # NoLock
  PROVE  op[q].s # s
BY DEF FreshSentinel, InUse

(* A step of one call touches nothing but its own item ... *)
Alone(p, i) ==
  /\ \A q \in Procs : q # p => op'[q] = op[q]
  /\ \A j \in Keys : j # i => cache'[j] = cache[j] /\ db'[j] = db[j]
  /\ op[p].pc # "idle" => op[p].item = i
  /\ op'[p].pc # "idle" => op'[p].item = i

(* ... and so disturbs only what is known of that item. *)
LEMMA LocalStep ==
  ASSUME SerialInv, NEW p \in Procs, NEW i \in Keys, Alone(p, i),
         OneMutator',
         \A q \in Procs : (op[q].pc # "idle" /\ op[q].item = i => CallOK(q))',
         KeyOK(i)'
  PROVE  Parts'
<1> USE DEF Alone
<1>k. \A q \in Procs : op[q].pc # "idle" => op[q].item \in Keys
  BY OpShape DEF SerialInv, TypeInv, Op
<1>1. \A j \in Keys : j # i => (Purging(j)' <=> Purging(j))
  BY DEF Purging
<1>2. ASSUME NEW q \in Procs, op'[q].pc # "idle" PROVE CallOK(q)'
  <2>1. CASE op'[q].item = i
    BY <1>2, <2>1
  <2>2. CASE op'[q].item # i
    <3>1. q # p /\ op'[q] = op[q] /\ op[q].item \in Keys /\ CallOK(q)
      BY <1>2, <1>k, <2>2 DEF SerialInv, Parts
    <3>2. /\ cache'[op[q].item] = cache[op[q].item] /\ db'[op[q].item] = db[op[q].item]
          /\ Purging(op[q].item)' <=> Purging(op[q].item)
      BY <1>1, <2>2, <3>1
    <3> QED BY <3>1, <3>2 DEF CallOK, WriterHoldsLock, WriterKnowsItem, ReaderUpToDate
  <2> QED BY <2>1, <2>2
<1>3. ASSUME NEW j \in Keys, j # i PROVE KeyOK(j)'
  <2>1. CoherentAt(j)'
    BY <1>1, <1>3 DEF SerialInv, Parts, KeyOK, CoherentAt
  <2>2. DeleteLockHeld(j)'
    BY <1>3 DEF SerialInv, Parts, KeyOK, DeleteLockHeld, Running
  <2> QED BY <2>1, <2>2 DEF KeyOK
<1> QED BY <1>2, <1>3 DEF Parts

LEMMA SerialInit == Init => SerialInv
<1> SUFFICES ASSUME Init PROVE SerialInv
  OBVIOUS
<1>1. /\ \A p \in Procs : op[p] = Idle
      /\ \A i \in Keys : cache[i] = EmptyEntry
  BY DEF Init
<1> QED BY <1>1, TypeInvInit
        DEF SerialInv, Parts, OneMutator, KeyOK, DeleteLockHeld, CoherentAt,
            Mutating, Running, Idle, IsLock, EmptyEntry

(* Steps that leave the cache and the server alone, and take the call      *)
(* where it has no more to say.                                            *)
Quiet(p, i) ==
  /\ Alone(p, i)
  /\ cache' = cache /\ db' = db
  /\ op[p].pc = "idle" \/ op'[p].pc = "idle" \/ (op'[p].kind = op[p].kind /\ op'[p].s = op[p].s)
  /\ ~(op[p].pc = "flushing" /\ op[p].kind = "purge")
  /\ Running(p) /\ op[p].kind = "delete" => Running(p)' 
  /\ Mutating(p)' => Mutating(p)
  /\ op'[p].pc \notin {"locked", "answered"} \/ (op'[p].kind = "get" /\ op'[p].pc = "locked")

LEMMA QuietStep ==
  ASSUME SerialInv, NEW p \in Procs, NEW i \in Keys, Quiet(p, i)
  PROVE  Parts'
<1>1. \A j : Purging(j) => Purging(j)'
  BY DEF Purging, Quiet, Alone
<1>2. OneMutator'
  <2>1. \A q \in Procs : Mutating(q)' => /\ Mutating(q) /\ op'[q].item = op[q].item
                                        /\ op'[q].kind = op[q].kind
    BY DEF Quiet, Alone, Mutating, Running
  <2> QED BY <2>1 DEF SerialInv, Parts, OneMutator
<1>3. ASSUME NEW q \in Procs, op'[q].pc # "idle" PROVE CallOK(q)'
  <2>1. CASE q = p
    BY <2>1 DEF Quiet, CallOK, WriterHoldsLock, WriterKnowsItem, ReaderUpToDate, Locking, Writes
  <2>2. CASE q # p
    BY <1>1, <1>3, <2>2
    DEF Quiet, Alone, SerialInv, Parts, CallOK, WriterHoldsLock, WriterKnowsItem,
        ReaderUpToDate
  <2> QED BY <2>1, <2>2
<1>4. KeyOK(i)'
  <2>1. CoherentAt(i)'
    BY <1>1 DEF Quiet, SerialInv, Parts, KeyOK, CoherentAt
  <2>2. DeleteLockHeld(i)'
    BY DEF Quiet, Alone, SerialInv, Parts, KeyOK, DeleteLockHeld, Running
  <2> QED BY <2>1, <2>2 DEF KeyOK
<1> QED BY <1>2, <1>3, <1>4, LocalStep DEF Quiet

(* A step of a mutation that no other mutation disturbs: readers of the    *)
(* item lose their lock, or nothing they rely on changes.                  *)
Undisturbed(p, i) == \A q \in Procs : q # p /\ Mutating(q) => op[q].item # i

ReadersSafe(i) ==
  \/ \A s \in Sentinel : s.kind = "read" => cache'[i] # LockEntry(s)
  \/ Purging(i)'
  \/ cache'[i] = cache[i] /\ db'[i] = db[i] /\ (Purging(i) => Purging(i)')

LEMMA MutatorStep ==
  ASSUME SerialInv, NEW p \in Procs, NEW i \in Keys,
         Alone(p, i), Undisturbed(p, i), ReadersSafe(i),
         OneMutator', op'[p].pc # "idle" => CallOK(p)', KeyOK(i)'
  PROVE  Parts'
<1>1. ASSUME NEW q \in Procs, q # p, op'[q].pc # "idle", op'[q].item = i
      PROVE  CallOK(q)'
  <2>1. /\ op'[q] = op[q] /\ op[q].pc # "idle" /\ op[q].item = i
        /\ CallOK(q) /\ SentinelOK(op[q]) /\ ValOK(op[q]) /\ op[q] \in Op
    BY <1>1, OpShape DEF Alone, SerialInv, Parts, TypeInv
  <2>2. ~Mutating(q)
    BY <1>1, <2>1 DEF Undisturbed
  <2>3. ~(op[q].pc \in {"locked", "answered"} /\ op[q].kind # "get")
    BY <2>2 DEF Mutating, Running
  <2>4. WriterHoldsLock(q)' /\ WriterKnowsItem(q)'
    BY <2>1, <2>3 DEF WriterHoldsLock, WriterKnowsItem, Locking, Writes
  <2>5. ReaderUpToDate(q)'
    <3> SUFFICES ASSUME op[q].pc = "answered", op[q].kind = "get", op[q].s # NoLock,
                        cache'[i] = LockEntry(op[q].s)
                 PROVE  op[q].val = db'[i] \/ Purging(i)'
      BY <2>1 DEF ReaderUpToDate
    <3>1. op[q].s \in Sentinel /\ op[q].s.kind = "read"
      BY <2>1 DEF Op, SentinelOK
    <3>2. CASE cache'[i] = cache[i] /\ db'[i] = db[i] /\ (Purging(i) => Purging(i)')
      BY <2>1, <3>2 DEF CallOK, ReaderUpToDate
    <3> QED BY <3>1, <3>2 DEF ReadersSafe
  <2> QED BY <2>4, <2>5 DEF CallOK
<1>2. \A q \in Procs : (op[q].pc # "idle" /\ op[q].item = i => CallOK(q))'
  BY <1>1
<1> QED BY <1>2, LocalStep

(* A mutation that goes on where it was leaves OneMutator as it was. *)
LEMMA SameMutators ==
  ASSUME SerialInv, NEW p \in Procs, NEW i \in Keys, Alone(p, i),
         Mutating(p)' => Mutating(p) /\ op'[p].kind = op[p].kind
  PROVE  OneMutator'
<1>1. \A q \in Procs : Mutating(q)' => /\ Mutating(q) /\ op'[q].item = op[q].item
                                      /\ op'[q].kind = op[q].kind
  BY DEF Alone, Mutating, Running
<1> QED BY <1>1 DEF SerialInv, Parts, OneMutator

(* A mutation that begins is alone. *)
LEMMA NewMutator ==
  ASSUME Serial, SerialInv, NEW p \in Procs, NEW i \in Keys, NEW kind, Alone(p, i),
         MayMutate(kind, i), op'[p].kind = kind, op'[p].item = i
  PROVE  OneMutator' /\ Undisturbed(p, i)
<1>1. \A q \in Procs : Mutating(q) => op[q].item # i /\ {kind, op[q].kind} \cap Flushing = {}
  BY NoRivals DEF Rivals
<1>2. \A q \in Procs : q # p => op'[q] = op[q]
  BY DEF Alone
<1>3. \A q \in Procs : q # p => (Mutating(q)' <=> Mutating(q))
  BY <1>2 DEF Mutating, Running
<1>4. ASSUME NEW q \in Procs, NEW r \in Procs, q # r, Mutating(q)', Mutating(r)'
      PROVE  op'[q].item # op'[r].item /\ {op'[q].kind, op'[r].kind} \cap Flushing = {}
  <2>1. CASE q = p
    BY <1>1, <1>2, <1>3, <1>4, <2>1
  <2>2. CASE r = p
    BY <1>1, <1>2, <1>3, <1>4, <2>2
  <2>3. CASE q # p /\ r # p
    BY <1>2, <1>3, <1>4, <2>3 DEF SerialInv, Parts, OneMutator
  <2> QED BY <2>1, <2>2, <2>3
<1> QED BY <1>1, <1>4 DEF OneMutator, Undisturbed

(* What a save does to the key of the item, and that it leaves the others. *)
LEMMA SavedOne ==
  ASSUME TypeInv, NEW p \in Procs, op[p].pc = "answered",
         NEW i, i = op[p].item, NEW r, r = Saved(p)
  PROVE  /\ \A j \in Keys : j # i => r[j] = cache[j]
         /\ \/ r = cache /\ (op[p].s = NoLock \/ cache[i] # LockEntry(op[p].s))
            \/ /\ op[p].s # NoLock /\ cache[i] = LockEntry(op[p].s)
               /\ r[i] = ItemEntry(op[p].val)
            \/ /\ op[p].s # NoLock /\ op[p].s.kind = "write"
               /\ cache[i] # LockEntry(op[p].s)
<1>1. op[p] \in Op /\ op[p].val \in Values /\ i \in Keys /\ cache \in [Keys -> Entry]
  BY OpShape DEF TypeInv, TypeOK, ValOK, Op
<1>2. CASE op[p].s = NoLock
  BY <1>2 DEF Saved
<1>3. CASE op[p].s # NoLock
  <2>1. op[p].s \in Sentinel
    BY <1>1, <1>3 DEF Op
  <2>2. r = SetValue(cache, i, {i}, op[p].val, op[p].s)
    BY <1>3 DEF Saved
  <2> DEFINE v == op[p].val
             s == op[p].s
  <2>3. v \in Values /\ s \in Sentinel /\ r = SetValue(cache, i, {i}, v, s)
    BY <1>1, <2>1, <2>2
  <2> HIDE DEF v, s
  <2>4. /\ r \in [Keys -> Entry]
        /\ \A j \in Keys : j # i => r[j] = cache[j]
        /\ \/ cache[i] = LockEntry(s) /\ r[i] = ItemEntry(v)
           \/ cache[i] # LockEntry(s) /\ r[i] = cache[i]
           \/ cache[i] # LockEntry(s) /\ s.kind = "write"
    BY <1>1, <2>3, SetValueOne
  <2>5. r[i] = cache[i] => r = cache
    BY <1>1, <2>4
  <2> USE DEF v, s
  <2> QED BY <1>3, <2>4, <2>5
<1> QED BY <1>2, <1>3

(* A flush leaves neither an item nor a lock, and no other mutation runs.  *)
LEMMA FlushStep ==
  ASSUME SerialInv, NEW p \in Procs,
         cache' = Flush(cache, TRUE), db' = db,
         \A q \in Procs : q # p => op'[q] = op[q] /\ ~Mutating(q),
         op'[p].pc \in {"idle", "closing"}
  PROVE  Parts'
<1>1. \A j \in Keys : cache'[j].tag \notin {"item", "lock"}
  BY DEF SerialInv, TypeInv, TypeOK, Flush, Put, EmptyEntry
<1>2. OneMutator'
  BY DEF OneMutator, Mutating, Running
<1>3. \A j \in Keys : KeyOK(j)'
  BY <1>1 DEF KeyOK, DeleteLockHeld, CoherentAt, IsLock
<1>4. ASSUME NEW q \in Procs, op'[q].pc # "idle" PROVE CallOK(q)'
  <2>1. CASE q = p
    BY <1>4, <2>1 DEF CallOK, WriterHoldsLock, WriterKnowsItem, ReaderUpToDate
  <2>2. CASE q # p
    <3>1. op'[q] = op[q] /\ ~Mutating(q) /\ op[q] \in Op
      BY <1>4, <2>2, OpShape DEF SerialInv, TypeInv
    <3>2. op[q].item \in Keys
      BY <3>1 DEF Op
    <3>3. cache'[op[q].item] # LockEntry(op[q].s)
      <4>1. LockEntry(op[q].s).tag = "lock"
        BY DEF LockEntry
      <4> QED BY <1>1, <3>2, <4>1
    <3> QED BY <3>1, <3>3
            DEF CallOK, WriterHoldsLock, WriterKnowsItem, ReaderUpToDate,
                Mutating, Running, Locking, Writes
  <2> QED BY <2>1, <2>2
<1> QED BY <1>2, <1>3, <1>4 DEF Parts

LEMMA SerialNext == Serial /\ SerialInv /\ [Next]_vars => SerialInv'
<1> SUFFICES ASSUME Serial, SerialInv, [Next]_vars PROVE Parts'
  BY TypeInvNext DEF SerialInv
<1>t. /\ cache \in [Keys -> Entry]
      /\ db \in [Keys -> Values \cup {Nil}]
      /\ op \in [Procs -> Op \cup {Idle}]
  BY DEF SerialInv, TypeInv, TypeOK
<1>o. ASSUME NEW p \in Procs, op[p].pc # "idle"
      PROVE  op[p] \in Op /\ ValOK(op[p]) /\ SentinelOK(op[p]) /\ CallOK(p)
  BY <1>o, OpShape DEF SerialInv, Parts, TypeInv
<1>k. \A q \in Procs : op[q].pc # "idle" => op[q].item \in Keys
  BY <1>o DEF Op
<1>f. ASSUME NEW kind \in Kinds, NEW s \in FreshSentinel(kind)
      PROVE  s \in Sentinel /\ s # NoLock /\ s.kind = kind
  BY NoLockIsNoSentinel DEF FreshSentinel, Sentinel, Kinds
<1>1. ASSUME NEW p \in Procs, NEW i \in Keys, GetHit(p, i) PROVE Parts'
  <2>1. /\ cache' = cache /\ db' = db /\ op[p] = Idle
        /\ \A q \in Procs : q # p => op'[q] = op[q]
        /\ op'[p].pc = "returned" /\ op'[p].item = i
    BY <1>1, <1>t DEF GetHit, Begin
  <2>2. Quiet(p, i)
    BY <2>1 DEF Quiet, Alone, Mutating, Running, Idle
  <2> QED BY <2>2, QuietStep
<1>2. ASSUME NEW p \in Procs, NEW i \in Keys, GetMiss(p, i) PROVE Parts'
  <2>1. PICK s \in FreshSentinel("read") :
          Begin(p, "get", i, "locked", s, Nil) /\ cache' = LockOnMiss(cache, i, s)
    BY <1>2 DEF GetMiss
  <2>2. s \in Sentinel /\ s # NoLock /\ s.kind = "read"
    BY <1>f DEF Kinds
  <2>3. /\ cache[i] = EmptyEntry /\ db' = db /\ op[p] = Idle
        /\ \A j \in Keys : cache'[j] = IF j = i THEN LockEntry(s) ELSE cache[j]
    BY <1>2, <2>1, <1>t DEF GetMiss, LockOnMiss, Put, Begin
  <2>4. /\ \A q \in Procs : q # p => op'[q] = op[q]
        /\ op'[p].pc = "locked" /\ op'[p].kind = "get" /\ op'[p].item = i
    BY <2>1, <1>t DEF Begin
  <2>5. \A q \in Procs : op[q].pc # "idle" /\ op[q].s # NoLock
                           => LockEntry(op[q].s) # LockEntry(s)
    BY Fresh DEF LockEntry, Kinds
  <2>6. OneMutator'
    BY <2>3, <2>4 DEF SerialInv, Parts, OneMutator, Mutating, Running, Idle
  <2>7. ASSUME NEW q \in Procs, op'[q].pc # "idle", op'[q].item = i PROVE CallOK(q)'
    <3>1. CASE q = p
      BY <2>4, <3>1
      DEF CallOK, WriterHoldsLock, WriterKnowsItem, ReaderUpToDate, Locking, Writes
    <3>2. CASE q # p
      <4>1. op'[q] = op[q] /\ CallOK(q) /\ cache'[i] = LockEntry(s) /\ cache[i] = EmptyEntry
        BY <2>3, <2>4, <2>7, <3>2, <1>o
      <4>2. ~(op[q].pc \in {"locked", "answered"} /\ op[q].kind \in Locking)
        BY <2>7, <4>1 DEF CallOK, WriterHoldsLock, EmptyEntry, LockEntry, Tombstone
      <4> QED BY <2>3, <2>5, <2>7, <4>1, <4>2
              DEF CallOK, WriterHoldsLock, WriterKnowsItem, ReaderUpToDate, Locking
    <3> QED BY <3>1, <3>2
  <2>8. KeyOK(i)'
    BY <2>2, <2>3 DEF KeyOK, DeleteLockHeld, CoherentAt, LockEntry
  <2>9. Alone(p, i)
    BY <2>3, <2>4 DEF Alone, Idle
  <2> QED BY <2>6, <2>7, <2>8, <2>9, LocalStep
<1>3. ASSUME NEW p \in Procs, NEW i \in Keys, GetUnlocked(p, i) PROVE Parts'
  <2>1. /\ cache' = cache /\ db' = db /\ op[p] = Idle
        /\ \A q \in Procs : q # p => op'[q] = op[q]
        /\ op'[p].pc = "locked" /\ op'[p].kind = "get" /\ op'[p].item = i
    BY <1>3, <1>t DEF GetUnlocked, Begin
  <2>2. Quiet(p, i)
    BY <2>1 DEF Quiet, Alone, Mutating, Running, Idle
  <2> QED BY <2>2, QuietStep
<1>4. ASSUME NEW p \in Procs, ServeGet(p) PROVE Parts'
  <2>1. /\ op[p].pc = "locked" /\ op[p].kind = "get" /\ op[p] \in Op
        /\ cache' = cache /\ db' = db
        /\ \A q \in Procs : q # p => op'[q] = op[q]
        /\ op'[p].kind = "get" /\ op'[p].item = op[p].item /\ op'[p].s = op[p].s
    BY <1>4, <1>o, <1>t DEF ServeGet, GoWith, Op
  <2>2. CASE op'[p].pc = "returned"
    <3>1. Quiet(p, op[p].item) /\ op[p].item \in Keys
      BY <2>1, <2>2, <1>k DEF Quiet, Alone, Mutating, Running
    <3> QED BY <3>1, QuietStep
  <2>3. CASE op'[p].pc = "answered" /\ op'[p].val = db[op[p].item]
    <3>1. \A j : Purging(j)' <=> Purging(j)
      BY <2>1, <2>3 DEF Purging
    <3>2. OneMutator'
      BY <2>1, <2>3 DEF SerialInv, Parts, OneMutator, Mutating, Running
    <3>3. ASSUME NEW q \in Procs, op'[q].pc # "idle" PROVE CallOK(q)'
      BY <2>1, <2>3, <3>1, <3>3, <1>o
      DEF CallOK, WriterHoldsLock, WriterKnowsItem, ReaderUpToDate, Locking, Writes
    <3>4. \A j \in Keys : KeyOK(j)'
      BY <2>1, <2>3, <3>1
      DEF SerialInv, Parts, KeyOK, DeleteLockHeld, CoherentAt, Running
    <3> QED BY <3>2, <3>3, <3>4 DEF Parts
  <2>4. op'[p].pc = "returned" \/ (op'[p].pc = "answered" /\ op'[p].val = db[op[p].item])
    <3>1. CASE GoWith(p, "answered", db[op[p].item])
      BY <2>1, <3>1, <1>t DEF GoWith, Op
    <3>2. CASE GoWith(p, "returned", Err)
      BY <2>1, <3>2, <1>t DEF GoWith, Op
    <3> QED BY <1>4, <3>1, <3>2 DEF ServeGet
  <2> QED BY <2>2, <2>3, <2>4
<1>5. ASSUME NEW p \in Procs, SaveGet(p) PROVE Parts'
  <2> DEFINE i == op[p].item
  <2>1. /\ op[p].pc = "answered" /\ op[p].kind = "get" /\ i \in Keys
        /\ op[p].val \in Values /\ ReaderUpToDate(p) /\ db' = db
        /\ \A q \in Procs : q # p => op'[q] = op[q]
        /\ op'[p].pc \in {"returned", "undoing"}
        /\ op'[p].kind = "get" /\ op'[p].item = op[p].item /\ op'[p].s = op[p].s
    BY <1>5, <1>o, <1>t DEF SaveGet, Go, Op, ValOK, CallOK
  <2>2. CASE cache' = cache
    <3>1. Quiet(p, i)
      BY <2>1, <2>2 DEF Quiet, Alone, Mutating, Running
    <3> QED BY <2>1, <3>1, QuietStep
  <2>3. CASE /\ op[p].s # NoLock /\ cache[i] = LockEntry(op[p].s)
             /\ cache'[i] = ItemEntry(op[p].val)
             /\ \A j \in Keys : j # i => cache'[j] = cache[j]
    <3>1. \A j : Purging(j)' <=> Purging(j)
      BY <2>1 DEF Purging
    <3>2. OneMutator'
      BY <2>1 DEF SerialInv, Parts, OneMutator, Mutating, Running
    <3>3. op[p].s.kind = "read"
      BY <2>1, <2>3, <1>o DEF SentinelOK
    <3>4. ASSUME NEW q \in Procs, op'[q].pc # "idle", op'[q].item = i PROVE CallOK(q)'
      <4>1. CASE q = p
        BY <2>1, <4>1 DEF CallOK, WriterHoldsLock, WriterKnowsItem, ReaderUpToDate
      <4>2. CASE q # p
        <5>1. /\ op'[q] = op[q] /\ CallOK(q) /\ SentinelOK(op[q])
              /\ op[q].pc # "idle" /\ op[q].item = i
          BY <2>1, <3>4, <4>2, <1>o
        <5>2. ~(op[q].pc \in {"locked", "answered"} /\ op[q].kind \in Locking)
          BY <2>3, <3>3, <5>1
          DEF CallOK, WriterHoldsLock, LockEntry, Tombstone, SentinelOK, Locking, Writes
        <5> QED BY <2>1, <2>3, <5>1, <5>2
                DEF CallOK, WriterHoldsLock, WriterKnowsItem, ReaderUpToDate,
                    LockEntry, ItemEntry
      <4> QED BY <4>1, <4>2
    <3>5. KeyOK(i)'
      BY <2>1, <2>3, <3>1
      DEF KeyOK, DeleteLockHeld, CoherentAt, ReaderUpToDate, ItemEntry, IsLock
    <3>6. Alone(p, i)
      BY <2>1, <2>3 DEF Alone
    <3> QED BY <2>1, <3>2, <3>4, <3>5, <3>6, LocalStep
  <2>4. cache' = cache \/
        /\ op[p].s # NoLock /\ cache[i] = LockEntry(op[p].s)
        /\ cache'[i] = ItemEntry(op[p].val)
        /\ \A j \in Keys : j # i => cache'[j] = cache[j]
    <3>1. op[p].s # NoLock => op[p].s.kind = "read"
      BY <2>1, <1>o DEF SentinelOK
    <3>2. cache' = Saved(p)
      BY <1>5 DEF SaveGet
    <3> QED BY <2>1, <3>1, <3>2, SavedOne DEF SerialInv
  <2> QED BY <2>2, <2>3, <2>4
<1>19. ASSUME NEW p \in Procs, UndoSave(p) PROVE Parts'
  <2>1. op[p].pc = "undoing" /\ op[p] \in Op /\ db' = db
    BY <1>19, <1>o DEF UndoSave
  <2>2. PICK i \in Keys : i = op[p].item
    BY <2>1, <1>k
  <2>3. /\ \A q \in Procs : q # p => op'[q] = op[q]
        /\ op'[p].pc \in {"returned", "closing"} /\ op'[p].item = i
        /\ op'[p].kind = op[p].kind
        /\ \A j \in Keys : cache'[j] = IF j = i THEN Tombstone ELSE cache[j]
    BY <1>19, <2>1, <2>2, <1>t DEF UndoSave, Go, Op, Put
  <2>4. Alone(p, i)
    BY <2>1, <2>2, <2>3 DEF Alone
  <2>5. OneMutator'
    BY <2>1, <2>3, <2>4, SameMutators DEF Mutating, Running
  <2>6. ASSUME NEW q \in Procs, op'[q].pc # "idle", op'[q].item = i PROVE CallOK(q)'
    <3>1. CASE q = p
      BY <2>3, <3>1 DEF CallOK, WriterHoldsLock, WriterKnowsItem, ReaderUpToDate
    <3>2. CASE q # p
      <4>1. /\ op'[q] = op[q] /\ CallOK(q) /\ op[q].item = i /\ cache'[i] = Tombstone
        BY <2>3, <2>6, <3>2, <1>o
      <4> QED BY <2>1, <4>1
              DEF CallOK, WriterHoldsLock, WriterKnowsItem, ReaderUpToDate, LockEntry,
                  Tombstone
    <3> QED BY <3>1, <3>2
  <2>7. KeyOK(i)'
    BY <2>3 DEF KeyOK, DeleteLockHeld, CoherentAt, Tombstone, IsLock
  <2> QED BY <2>4, <2>5, <2>6, <2>7, LocalStep
<1>6. ASSUME NEW p \in Procs, NEW kind \in Mutations, NEW i \in Keys,
             NEW v \in Values \cup {Nil}, AlreadyCached(p, kind, i, v)
      PROVE  Parts'
  <2>1. /\ cache' = cache /\ db' = db /\ op[p] = Idle
        /\ \A q \in Procs : q # p => op'[q] = op[q]
        /\ op'[p].pc = "returned" /\ op'[p].item = i
    BY <1>6, <1>t DEF AlreadyCached, Begin
  <2>2. Quiet(p, i)
    BY <2>1 DEF Quiet, Alone, Mutating, Running, Idle
  <2> QED BY <2>2, QuietStep
<1>7. ASSUME NEW p \in Procs, NEW kind \in Mutations, NEW i \in Keys,
             NEW v \in Values \cup {Nil}, TakeLock(p, kind, i, v)
      PROVE  Parts'
  <2> DEFINE sk == SentinelKind(IF kind = "updateAndFlush" THEN "update" ELSE kind)
  <2>1. kind \in Locking /\ sk \in Kinds /\ sk = IF kind = "delete" THEN "delete" ELSE "write"
    BY <1>7 DEF TakeLock, Locking, SentinelKind, Kinds
  <2>2. PICK s \in FreshSentinel(sk) :
          /\ Begin(p, kind, i, "locked", Granted(cache, s, <<i>>), v)
          /\ cache' = WriteSentinel(cache, s, <<i>>)
    BY <1>7 DEF TakeLock
  <2>3. s \in Sentinel /\ s # NoLock /\ s.kind = sk
    BY <2>1, <1>f
  <2> HIDE DEF sk
  <2>4. MayMutate(kind, i) /\ db' = db /\ op[p] = Idle
    BY <1>7, <2>2 DEF TakeLock, Begin
  <2>5. ~(IsLock(cache[i]) /\ cache[i].s.kind = "delete")
    <3> SUFFICES ASSUME IsLock(cache[i]), cache[i].s.kind = "delete" PROVE FALSE
      OBVIOUS
    <3>1. PICK q \in Procs : Running(q) /\ op[q].kind = "delete" /\ op[q].item = i
      BY DEF SerialInv, Parts, KeyOK, DeleteLockHeld
    <3> QED BY <2>4, <3>1, NoRivals DEF Rivals, Mutating
  <2>6. /\ Granted(cache, s, <<i>>) = s
        /\ cache'[i] = LockEntry(s)
        /\ \A j \in Keys : j # i => cache'[j] = cache[j]
    <3>1. s.kind # "read"
      BY <2>1, <2>3
    <3>2. /\ Granted(cache, s, <<i>>) = s
          /\ cache' = Put(cache, {i}, LockEntry(s))
      BY <1>t, <2>2, <2>3, <2>5, <3>1, WriteSentinelOne
    <3> QED BY <3>2, <1>t DEF Put
  <2>7. /\ \A q \in Procs : q # p => op'[q] = op[q]
        /\ op'[p].pc = "locked" /\ op'[p].kind = kind /\ op'[p].item = i /\ op'[p].s = s
    BY <2>2, <2>6, <1>t DEF Begin
  <2>8. Alone(p, i)
    BY <2>4, <2>6, <2>7 DEF Alone, Idle
  <2>9. OneMutator' /\ Undisturbed(p, i)
    BY <2>4, <2>7, <2>8, NewMutator
  <2>10. CallOK(p)'
    BY <2>1, <2>3, <2>6, <2>7
    DEF CallOK, WriterHoldsLock, WriterKnowsItem, ReaderUpToDate, Locking
  <2>11. KeyOK(i)'
    <3>1. cache'[i].tag = "lock" /\ cache'[i].s = s
      BY <2>6 DEF LockEntry
    <3>2. CoherentAt(i)'
      BY <3>1 DEF CoherentAt
    <3>3. s.kind = "delete" => kind = "delete"
      BY <2>1, <2>3
    <3>4. DeleteLockHeld(i)'
      BY <2>3, <2>6, <2>7, <3>1, <3>3 DEF DeleteLockHeld, Running
    <3> QED BY <3>2, <3>4 DEF KeyOK
  <2>12. ReadersSafe(i)
    BY <2>1, <2>3, <2>6 DEF ReadersSafe, LockEntry
  <2> QED BY <2>8, <2>9, <2>10, <2>11, <2>12, MutatorStep
<1>8. ASSUME NEW p \in Procs, NEW kind \in Mutations, NEW i \in Keys,
             NEW v \in Values \cup {Nil}, BeginUnlocked(p, kind, i, v)
      PROVE  Parts'
  <2>1. /\ kind = "purge" /\ MayMutate(kind, i)
        /\ cache' = cache /\ db' = db /\ op[p] = Idle
    BY <1>8 DEF BeginUnlocked, Begin, Serial
  <2>2. /\ \A q \in Procs : q # p => op'[q] = op[q]
        /\ op'[p].pc = "locked" /\ op'[p].kind = "purge" /\ op'[p].item = i
    BY <1>8, <2>1, <1>t DEF BeginUnlocked, Begin
  <2>3. Alone(p, i)
    BY <2>1, <2>2 DEF Alone, Idle
  <2>4. OneMutator' /\ Undisturbed(p, i)
    BY <2>1, <2>2, <2>3, NewMutator
  <2>5. CallOK(p)'
    BY <2>2 DEF CallOK, WriterHoldsLock, WriterKnowsItem, ReaderUpToDate, Locking
  <2>6. Purging(i) => Purging(i)'
    BY <2>1, <2>2 DEF Purging, Idle
  <2>7. KeyOK(i)'
    BY <2>1, <2>2, <2>6
    DEF SerialInv, Parts, KeyOK, DeleteLockHeld, CoherentAt, Running, Idle
  <2>8. ReadersSafe(i)
    BY <2>1, <2>6 DEF ReadersSafe
  <2> QED BY <2>3, <2>4, <2>5, <2>7, <2>8, MutatorStep
<1>9. ASSUME NEW p \in Procs, ServeMutation(p) PROVE Parts'
  <2> DEFINE i == op[p].item
             kind == op[p].kind
  <2>1. /\ op[p].pc = "locked" /\ kind # "get" /\ op[p] \in Op /\ i \in Keys
        /\ ValOK(op[p]) /\ CallOK(p) /\ cache' = cache
        /\ \A q \in Procs : q # p => op'[q] = op[q]
        /\ op'[p].kind = kind /\ op'[p].item = i /\ op'[p].s = op[p].s
        /\ op'[p].pc # "idle"
    <3>1. op[p].pc = "locked" /\ kind # "get" /\ cache' = cache
      BY <1>9 DEF ServeMutation
    <3>2. op[p] \in Op /\ i \in Keys /\ ValOK(op[p]) /\ CallOK(p)
      BY <3>1, <1>o, <1>k
    <3>3. \/ op' = [op EXCEPT ![p].pc = AfterSuccess(kind)]
          \/ op' = [op EXCEPT ![p].pc = "closing", ![p].val = Err]
      BY <1>9 DEF ServeMutation, Go, GoWith
    <3>4. AfterSuccess(kind) # "idle"
      BY DEF AfterSuccess
    <3>5. /\ \A q \in Procs : q # p => op'[q] = op[q]
          /\ op'[p].kind = kind /\ op'[p].item = i /\ op'[p].s = op[p].s
          /\ op'[p].pc \in {"closing", AfterSuccess(kind)}
      BY <3>2, <3>3, <1>t DEF Op
    <3> QED BY <3>1, <3>2, <3>4, <3>5
  <2>2. CASE db' = db /\ op'[p].pc = "closing"
    <3>1. Quiet(p, i)
      BY <2>1, <2>2 DEF Quiet, Alone, Mutating, Running
    <3> QED BY <2>1, <3>1, QuietStep
  <2>3. CASE /\ db'[i] = op[p].val /\ \A j \in Keys : j # i => db'[j] = db[j]
             /\ \/ op'[p].pc = AfterSuccess(kind) /\ op'[p].val = op[p].val
                \/ op'[p].pc = "closing" /\ "lost" \in Faults
    <3>1. Alone(p, i)
      BY <2>1, <2>3 DEF Alone
    <3>2. OneMutator'
      BY <2>1, <3>1, SameMutators DEF Mutating, Running
    <3>3. Mutating(p)
      BY <2>1 DEF Mutating, Running
    <3>4. Undisturbed(p, i)
      BY <3>3 DEF Undisturbed, SerialInv, Parts, OneMutator
    <3>5. kind \in Mutations
      BY <2>1 DEF ValOK
    <3>6. kind \in Locking \/ kind = "purge"
      BY <2>1, <3>5 DEF ValOK, Op, MutationKinds, Locking, Serial
    <3>7. CASE kind \in Locking
      <4>1. op[p].s # NoLock /\ cache[i] \in {LockEntry(op[p].s), Tombstone}
        BY <2>1, <3>7 DEF CallOK, WriterHoldsLock
      <4>2. op[p].s.kind # "read"
        BY <2>1, <3>7, <4>1, <1>o DEF SentinelOK, Locking, Writes
      <4>3. ReadersSafe(i)
        BY <2>1, <4>1, <4>2 DEF ReadersSafe, LockEntry, Tombstone
      <4>4. op'[p].pc \in {"answered", "closing"}
        BY <2>3, <3>7 DEF AfterSuccess, Locking
      <4>5. op'[p].pc = "answered" => op'[p].val = op[p].val
        BY <2>3, <4>4
      <4>6. CallOK(p)'
        BY <2>1, <2>3, <4>1, <4>4, <4>5
        DEF CallOK, WriterHoldsLock, WriterKnowsItem, ReaderUpToDate
      <4>7. KeyOK(i)'
        <5>1. cache'[i].tag # "item"
          BY <2>1, <4>1 DEF LockEntry, Tombstone
        <5>2. Running(p)'
          BY <4>4 DEF Running
        <5>3. DeleteLockHeld(i)'
          BY <2>1, <4>1, <5>2, <3>3
          DEF SerialInv, Parts, KeyOK, DeleteLockHeld, Running
        <5>4. CoherentAt(i)'
          BY <2>1, <5>1 DEF CoherentAt
        <5> QED BY <5>3, <5>4 DEF KeyOK
      <4> QED BY <2>1, <3>1, <3>2, <3>4, <4>3, <4>6, <4>7, MutatorStep
    <3>8. CASE kind = "purge"
      <4>1. op'[p].pc = "flushing"
        BY <2>3, <3>5, <3>8 DEF AfterSuccess, Serial
      <4>2. Purging(i)'
        BY <2>1, <3>8, <4>1 DEF Purging
      <4>3. CallOK(p)'
        BY <4>1 DEF CallOK, WriterHoldsLock, WriterKnowsItem, ReaderUpToDate
      <4>4. DeleteLockHeld(i)'
        BY <2>1, <3>8 DEF SerialInv, Parts, KeyOK, DeleteLockHeld, Running
      <4> QED BY <2>1, <3>1, <3>2, <3>4, <4>2, <4>3, <4>4, MutatorStep
              DEF ReadersSafe, KeyOK, CoherentAt
    <3> QED BY <3>6, <3>7, <3>8
  <2>4. CASE Apply(p) /\ Go(p, AfterSuccess(kind))
    <3>1. /\ db'[i] = op[p].val /\ \A j \in Keys : j # i => db'[j] = db[j]
          /\ op'[p].pc = AfterSuccess(kind) /\ op'[p].val = op[p].val
      BY <2>1, <2>4, <1>t DEF Apply, Go, Op
    <3> QED BY <2>3, <3>1
  <2>5. CASE Apply(p) /\ "lost" \in Faults /\ GoWith(p, "closing", Err)
    <3>1. /\ db'[i] = op[p].val /\ \A j \in Keys : j # i => db'[j] = db[j]
          /\ op'[p].pc = "closing"
      BY <2>1, <2>5, <1>t DEF Apply, GoWith, Op
    <3> QED BY <2>3, <2>5, <3>1
  <2>6. CASE UNCHANGED db /\ GoWith(p, "closing", Err)
    <3>1. op'[p].pc = "closing"
      BY <2>1, <2>6, <1>t DEF GoWith, Op
    <3> QED BY <2>2, <2>6, <3>1
  <2> QED BY <1>9, <2>4, <2>5, <2>6 DEF ServeMutation
<1>10. ASSUME NEW p \in Procs, SaveMutation(p) PROVE Parts'
  <2>1. PICK i \in Keys : i = op[p].item
    BY <1>10, <1>k DEF SaveMutation
  <2>2. /\ op[p].pc = "answered" /\ op[p].kind \in Locking /\ db' = db
        /\ op[p].s # NoLock /\ cache[i] \in {LockEntry(op[p].s), Tombstone}
        /\ op[p].val = db[i] /\ op[p] \in Op
    <3>1. op[p].pc = "answered" /\ op[p].kind # "get" /\ db' = db
      BY <1>10 DEF SaveMutation
    <3>2. op[p] \in Op /\ ValOK(op[p]) /\ CallOK(p)
      BY <3>1, <1>o
    <3>3. op[p].kind \in Locking /\ op[p].kind \in Writes
      BY <3>1, <3>2 DEF ValOK, Serial, Locking, Writes
    <3> QED BY <2>1, <3>1, <3>2, <3>3 DEF CallOK, WriterHoldsLock, WriterKnowsItem
  <2>3. /\ \A j \in Keys : j # i => cache'[j] = cache[j]
        /\ cache'[i] \in {ItemEntry(op[p].val), Tombstone}
    <3>1. cache' = Saved(p)
      BY <1>10 DEF SaveMutation
    <3>2. CASE cache[i] = LockEntry(op[p].s)
      BY <2>1, <2>2, <3>1, <3>2, SavedOne DEF SerialInv
    <3>3. CASE cache[i] = Tombstone
      <4>1. op[p].s \in Sentinel /\ op[p].val \in Values
        BY <2>2, <1>o DEF Op, ValOK
      <4>2. CanSetValue(cache[i], op[p].val, op[p].s) = "none"
        BY <3>3 DEF CanSetValue, Tombstone, LockEntry, IsLock
      <4>3. cache' = SetValue(cache, i, {i}, op[p].val, op[p].s)
        BY <2>1, <2>2, <3>1 DEF Saved
      <4>4. cache' = cache
        BY <3>3, <4>2, <4>3 DEF SetValue, Tombstone
      <4> QED BY <3>3, <4>4
    <3> QED BY <2>2, <3>2, <3>3
  <2>4. /\ \A q \in Procs : q # p => op'[q] = op[q]
        /\ op'[p].pc \in {"flushing", "closing", "undoing"}
        /\ op'[p].item = i /\ op'[p].kind = op[p].kind
    BY <1>10, <2>1, <2>2, <1>t DEF SaveMutation, Go, Op
  <2>5. Alone(p, i)
    BY <2>1, <2>2, <2>3, <2>4 DEF Alone
  <2>6. Mutating(p)
    BY <2>2 DEF Mutating, Running, Locking
  <2>7. OneMutator' /\ Undisturbed(p, i)
    <3>1. OneMutator'
      BY <2>4, <2>5, <2>6, SameMutators
    <3> QED BY <2>1, <2>6, <3>1 DEF Undisturbed, SerialInv, Parts, OneMutator
  <2>8. CallOK(p)'
    BY <2>4 DEF CallOK, WriterHoldsLock, WriterKnowsItem, ReaderUpToDate
  <2>9. cache'[i].tag # "lock" /\ (cache'[i].tag = "item" => cache'[i].val = db'[i])
    BY <2>2, <2>3 DEF ItemEntry, Tombstone
  <2>10. KeyOK(i)'
    BY <2>9 DEF KeyOK, DeleteLockHeld, CoherentAt, IsLock
  <2>11. ReadersSafe(i)
    BY <2>9 DEF ReadersSafe, LockEntry
  <2> QED BY <2>5, <2>7, <2>8, <2>10, <2>11, MutatorStep
<1>11. ASSUME NEW p \in Procs, SkipSave(p) \/ CloseOrganization(p) PROVE Parts'
  <2>1. /\ op[p].pc \in {"answered", "closing"} /\ op[p].kind \in {"create", "update"}
        /\ cache' = cache /\ db' = db
    BY <1>11 DEF SkipSave, CloseOrganization
  <2>2. PICK i \in Keys : i = op[p].item
    BY <2>1, <1>k
  <2>3. /\ \A q \in Procs : q # p => op'[q] = op[q]
        /\ op'[p].pc \in {"closing", "returned"} /\ op'[p].item = i
        /\ op'[p].kind = op[p].kind /\ op'[p].s = op[p].s
    BY <1>11, <2>1, <2>2, <1>o, <1>t DEF SkipSave, CloseOrganization, Go, Op
  <2>4. Quiet(p, i)
    BY <2>1, <2>2, <2>3 DEF Quiet, Alone, Mutating, Running
  <2> QED BY <2>4, QuietStep
<1>12. ASSUME NEW p \in Procs, FlushAfter(p) PROVE Parts'
  <2>1. /\ op[p].pc = "flushing" /\ cache' = Flush(cache, TRUE) /\ db' = db
        /\ \A q \in Procs : q # p => op'[q] = op[q]
        /\ op'[p].pc = "closing"
    BY <1>12, <1>o, <1>t DEF FlushAfter, Go, Op
  <2>2. op[p].kind \in Flushing /\ Mutating(p)
    BY <2>1, <1>o DEF ValOK, Flushing, Mutating, Running
  <2>3. \A q \in Procs : q # p => ~Mutating(q)
    BY <2>2 DEF SerialInv, Parts, OneMutator
  <2> QED BY <2>1, <2>3, FlushStep
<1>13. ASSUME NEW p \in Procs, FlushCache(p) PROVE Parts'
  <2>1. \A q \in Procs : ~Mutating(q)
    <3> SUFFICES ASSUME NEW q \in Procs, Mutating(q) PROVE FALSE
      OBVIOUS
    <3>1. PICK i \in Keys : i = op[q].item
      BY <1>k DEF Mutating, Running
    <3>2. MayMutate("flush", i)
      BY <1>13 DEF FlushCache
    <3> QED BY <3>1, <3>2, NoRivals DEF Rivals
  <2>2. /\ cache' = Flush(cache, TRUE) /\ db' = db /\ op' = op /\ op[p].pc = "idle"
    BY <1>13 DEF FlushCache, Idle
  <2> QED BY <2>1, <2>2, FlushStep
<1>14. ASSUME NEW p \in Procs, Close(p) PROVE Parts'
  <2>1. op[p].pc = "closing" /\ op[p] \in Op /\ SentinelOK(op[p]) /\ db' = db
    BY <1>14, <1>o DEF Close
  <2>2. PICK i \in Keys : i = op[p].item
    BY <2>1, <1>k
  <2>3. /\ \A q \in Procs : q # p => op'[q] = op[q]
        /\ op'[p].pc = "returned" /\ op'[p].item = i
        /\ op'[p].kind = op[p].kind /\ op'[p].s = op[p].s
    BY <1>14, <2>1, <2>2, <1>t DEF Close, Go, Op
  <2>4. /\ \A j \in Keys : j # i => cache'[j] = cache[j]
        /\ \/ cache'[i] = EmptyEntry
           \/ cache'[i] = cache[i] /\ (op[p].s = NoLock \/ cache[i] # LockEntry(op[p].s))
    <3>1. CASE op[p].s = NoLock
      BY <1>14, <3>1 DEF Close
    <3>2. CASE op[p].s # NoLock
      <4>1. cache' = ReleaseSentinel(cache, op[p].s, {i})
        BY <1>14, <2>2, <3>2 DEF Close
      <4> QED BY <4>1, <1>t DEF ReleaseSentinel, Put
    <3> QED BY <3>1, <3>2
  <2>5. Alone(p, i)
    BY <2>1, <2>2, <2>3, <2>4 DEF Alone
  <2>6. OneMutator'
    BY <2>3, <2>5, SameMutators DEF Mutating, Running
  <2>7. \A j : Purging(j)' <=> Purging(j)
    BY <2>1, <2>3 DEF Purging
  <2>8. ASSUME NEW q \in Procs, op'[q].pc # "idle", op'[q].item = i PROVE CallOK(q)'
    <3>1. CASE q = p
      BY <2>3, <3>1 DEF CallOK, WriterHoldsLock, WriterKnowsItem, ReaderUpToDate
    <3>2. CASE q # p
      <4>1. /\ op'[q] = op[q] /\ op[q].pc # "idle" /\ op[q].item = i
            /\ CallOK(q) /\ SentinelOK(op[q])
        BY <2>3, <2>8, <3>2, <1>o
      <4>2. WriterKnowsItem(q)'
        BY <2>1, <4>1 DEF CallOK, WriterKnowsItem
      <4>3. ReaderUpToDate(q)'
        BY <2>1, <2>4, <2>7, <4>1 DEF CallOK, ReaderUpToDate, EmptyEntry, LockEntry
      <4>4. WriterHoldsLock(q)'
        <5> SUFFICES ASSUME op[q].pc \in {"locked", "answered"}, op[q].kind \in Locking
                     PROVE  op[q].s # NoLock /\ cache'[i] \in {LockEntry(op[q].s), Tombstone}
          BY <4>1 DEF WriterHoldsLock
        <5>1. /\ op[q].s # NoLock /\ cache[i] \in {LockEntry(op[q].s), Tombstone}
              /\ op[q].s.kind # "read" /\ Mutating(q)
          BY <4>1 DEF CallOK, WriterHoldsLock, SentinelOK, Locking, Writes, Mutating, Running
        <5>2. op[p].kind = "get"
          BY <2>1, <2>2, <3>2, <4>1, <5>1
          DEF SerialInv, Parts, OneMutator, Mutating, Running
        <5>3. op[p].s = NoLock \/ op[p].s.kind = "read"
          BY <2>1, <5>2 DEF SentinelOK
        <5>4. op[p].s # NoLock => cache[i] # LockEntry(op[p].s)
          BY <5>1, <5>3 DEF LockEntry, Tombstone
        <5>5. cache' = cache \/ cache'[i] = cache[i]
          <6>1. CASE op[p].s = NoLock
            BY <1>14, <6>1 DEF Close
          <6>2. CASE op[p].s # NoLock
            <7>1. cache' = ReleaseSentinel(cache, op[p].s, {i})
              BY <1>14, <2>2, <6>2 DEF Close
            <7> QED BY <5>4, <6>2, <7>1, <1>t DEF ReleaseSentinel, Put
          <6> QED BY <6>1, <6>2
        <5> QED BY <5>1, <5>5
      <4> QED BY <4>2, <4>3, <4>4 DEF CallOK
    <3> QED BY <3>1, <3>2
  <2>9. KeyOK(i)'
    <3>1. CASE cache'[i] = EmptyEntry
      BY <3>1 DEF KeyOK, DeleteLockHeld, CoherentAt, EmptyEntry, IsLock
    <3>2. CASE /\ cache'[i] = cache[i]
               /\ op[p].s = NoLock \/ cache[i] # LockEntry(op[p].s)
      <4>1. CoherentAt(i)'
        BY <2>1, <2>7, <3>2 DEF SerialInv, Parts, KeyOK, CoherentAt
      <4>2. DeleteLockHeld(i)'
        BY <2>3, <3>2 DEF SerialInv, Parts, KeyOK, DeleteLockHeld, Running
      <4> QED BY <4>1, <4>2 DEF KeyOK
    <3> QED BY <2>4, <3>1, <3>2
  <2> QED BY <2>5, <2>6, <2>8, <2>9, LocalStep
<1>15. ASSUME NEW p \in Procs, Return(p) PROVE Parts'
  <2>1. /\ op[p].pc = "returned" /\ cache' = cache /\ db' = db
        /\ \A q \in Procs : q # p => op'[q] = op[q]
        /\ op'[p].pc = "idle"
    BY <1>15, <1>t DEF Return, Idle
  <2>2. PICK i \in Keys : i = op[p].item
    BY <2>1, <1>k
  <2>3. Quiet(p, i)
    BY <2>1, <2>2 DEF Quiet, Alone, Mutating, Running
  <2> QED BY <2>3, QuietStep
<1>16. ASSUME NEW p \in Procs, Crash(p) PROVE Parts'
  <2>1. /\ op[p].pc # "idle" /\ cache' = cache /\ db' = db
        /\ \A q \in Procs : q # p => op'[q] = op[q]
        /\ op'[p].pc = "idle"
    BY <1>16, <1>t DEF Crash, Running, Idle
  <2>2. PICK i \in Keys : i = op[p].item
    BY <2>1, <1>k
  <2>3. op[p].kind \notin {"delete", "purge"}
    BY <1>16 DEF Crash, Serial
  <2>4. Quiet(p, i)
    BY <2>1, <2>2, <2>3 DEF Quiet, Alone, Mutating, Running
  <2> QED BY <2>4, QuietStep
<1>17. ASSUME NEW i \in Keys, Expire(i) PROVE Parts'
  <2>1. /\ Outlived(i) /\ db' = db /\ op' = op
        /\ \A j \in Keys : cache'[j] = IF j = i THEN EmptyEntry ELSE cache[j]
    BY <1>17, <1>t DEF Expire, Put
  <2>2. OneMutator'
    BY <2>1 DEF SerialInv, Parts, OneMutator, Mutating, Running
  <2>3. \A j : Purging(j)' <=> Purging(j)
    BY <2>1 DEF Purging
  <2>4. ASSUME NEW q \in Procs, op'[q].pc # "idle" PROVE CallOK(q)'
    <3>1. op'[q] = op[q] /\ op[q].pc # "idle" /\ CallOK(q) /\ op[q].item \in Keys
      BY <2>1, <2>4, <1>o, <1>k
    <3>2. WriterHoldsLock(q)'
      <4> SUFFICES ASSUME op[q].pc \in {"locked", "answered"}, op[q].kind \in Locking
                   PROVE  /\ op[q].s # NoLock
                          /\ cache'[op[q].item] \in {LockEntry(op[q].s), Tombstone}
        BY <3>1 DEF WriterHoldsLock
      <4>1. op[q].s # NoLock /\ cache[op[q].item] \in {LockEntry(op[q].s), Tombstone}
        BY <3>1 DEF CallOK, WriterHoldsLock
      <4>2. Running(q) /\ Mutating(q)
        BY DEF Running, Mutating, Locking
      <4>3. op[q].item # i
        BY <2>1, <4>1, <4>2 DEF Outlived, LockEntry, Tombstone, IsLock
      <4> QED BY <2>1, <3>1, <4>1, <4>3
    <3>3. WriterKnowsItem(q)'
      BY <2>1, <3>1 DEF CallOK, WriterKnowsItem
    <3>4. ReaderUpToDate(q)'
      BY <2>1, <2>3, <3>1 DEF CallOK, ReaderUpToDate, EmptyEntry, LockEntry
    <3> QED BY <3>2, <3>3, <3>4 DEF CallOK
  <2>5. ASSUME NEW j \in Keys PROVE KeyOK(j)'
    <3>1. CASE j = i
      BY <2>1, <3>1 DEF KeyOK, DeleteLockHeld, CoherentAt, EmptyEntry, IsLock
    <3>2. CASE j # i
      BY <2>1, <2>3, <3>2 DEF SerialInv, Parts, KeyOK, DeleteLockHeld, CoherentAt, Running
    <3> QED BY <3>1, <3>2
  <2> QED BY <2>2, <2>4, <2>5 DEF Parts
<1>18. CASE UNCHANGED vars
  BY <1>18
  DEF vars, SerialInv, Parts, OneMutator, Mutating, Running, Purging, CallOK,
      WriterHoldsLock, WriterKnowsItem, ReaderUpToDate, KeyOK, DeleteLockHeld, CoherentAt
<1> QED
  BY <1>1, <1>2, <1>3, <1>4, <1>5, <1>6, <1>7, <1>8, <1>9, <1>10, <1>11, <1>12,
     <1>13, <1>14, <1>15, <1>16, <1>17, <1>18, <1>19 DEF Next

(* An item found in the cache is the server's, however many callers read   *)
(* it while one of them changes it: what GetItemFromCache returns and      *)
(* SaveItemToCache stores is never out of date.  It holds when mutations   *)
(* do not overlap, when a mutation whose reply is lost flushes nothing     *)
(* afterwards, and when no call that deletes crashes; the runs of          *)
(* ItemCache show what goes wrong when one of these does not.              *)
THEOREM Coherence ==
  ASSUME Serial
  PROVE  Spec => []Coherent
<1>1. SerialInv /\ [Next]_vars => SerialInv'
  BY SerialNext
<1>2. SerialInv => Coherent
  BY DEF SerialInv, Parts, KeyOK, CoherentAt, Coherent
<1> QED BY <1>1, <1>2, SerialInit, PTL DEF Spec
-----------------------------------------------------------------------------
(* A delete keeps its lock.  The invariant behind it: no two calls hold    *)
(* sentinels made from the same uuid.                                      *)
Unique == \A p, q \in Procs :
  /\ p # q /\ op[p].pc # "idle" /\ op[q].pc # "idle"
  /\ op[p].s # NoLock /\ op[q].s # NoLock
  => op[p].s.id # op[q].s.id

LEMMA FreshId ==
  ASSUME NEW kind \in Kinds, NEW s \in FreshSentinel(kind)
  PROVE  /\ s.id \in Ids
         /\ \A q \in Procs : op[q].pc # "idle" /\ op[q].s # NoLock => op[q].s.id # s.id
BY DEF FreshSentinel, InUse

(* A call that begins with a fresh sentinel, or with none. *)
LEMMA UniqueBegin ==
  ASSUME TypeInv, Unique, NEW p \in Procs, NEW kind, NEW i, NEW pc, NEW s, NEW v,
         Begin(p, kind, i, pc, s, v),
         \/ s = NoLock
         \/ \A q \in Procs : op[q].pc # "idle" /\ op[q].s # NoLock => op[q].s.id # s.id
  PROVE  Unique'
<1>1. /\ \A q \in Procs : q # p => op'[q] = op[q]
      /\ op'[p].s = s /\ op[p] = Idle
  BY DEF Begin, TypeInv, TypeOK
<1> QED BY <1>1 DEF Unique

(* A call that goes on keeps its sentinel. *)
LEMMA UniqueKept ==
  ASSUME Unique, \A q \in Procs : op'[q].pc = "idle" \/ (op[q].pc # "idle" /\ op'[q].s = op[q].s)
  PROVE  Unique'
BY DEF Unique

LEMMA UniqueNext == TypeInv /\ Unique /\ [Next]_vars => Unique'
<1> SUFFICES ASSUME TypeInv, Unique, [Next]_vars PROVE Unique'
  OBVIOUS
<1>t. op \in [Procs -> Op \cup {Idle}]
  BY DEF TypeInv, TypeOK
<1>o. \A p \in Procs : op[p].pc # "idle" => op[p] \in Op
  BY OpShape DEF TypeInv
<1>1. ASSUME NEW p \in Procs, NEW i \in Keys, GetHit(p, i) \/ GetUnlocked(p, i) PROVE Unique'
  BY <1>1, UniqueBegin DEF GetHit, GetUnlocked
<1>2. ASSUME NEW p \in Procs, NEW i \in Keys, GetMiss(p, i) PROVE Unique'
  <2>1. PICK s \in FreshSentinel("read") : Begin(p, "get", i, "locked", s, Nil)
    BY <1>2 DEF GetMiss
  <2> QED BY <2>1, FreshId, UniqueBegin DEF Kinds
<1>3. ASSUME NEW p \in Procs, NEW kind \in Mutations, NEW i \in Keys,
             NEW v \in Values \cup {Nil},
             AlreadyCached(p, kind, i, v) \/ BeginUnlocked(p, kind, i, v)
      PROVE  Unique'
  BY <1>3, UniqueBegin DEF AlreadyCached, BeginUnlocked
<1>4. ASSUME NEW p \in Procs, NEW kind \in Mutations, NEW i \in Keys,
             NEW v \in Values \cup {Nil}, TakeLock(p, kind, i, v)
      PROVE  Unique'
  <2> DEFINE sk == SentinelKind(IF kind = "updateAndFlush" THEN "update" ELSE kind)
  <2>1. PICK s \in FreshSentinel(sk) :
          Begin(p, kind, i, "locked", Granted(cache, s, <<i>>), v)
    BY <1>4 DEF TakeLock
  <2>2. sk \in Kinds
    BY <1>4 DEF TakeLock, SentinelKind, Kinds
  <2>3. Granted(cache, s, <<i>>) \in {s, NoLock}
    BY DEF Granted
  <2> HIDE DEF sk
  <2> QED BY <2>1, <2>2, <2>3, FreshId, UniqueBegin
<1>5. ASSUME NEW p \in Procs, NEW pc \in {"answered", "undoing", "flushing", "closing", "returned"}, Go(p, pc), op[p].pc # "idle" PROVE Unique'
  <2>1. \A q \in Procs : op'[q].pc = "idle" \/ (op[q].pc # "idle" /\ op'[q].s = op[q].s)
    BY <1>5, <1>t, <1>o DEF Go, Op, Idle
  <2> QED BY <2>1, UniqueKept
<1>6. ASSUME NEW p \in Procs, NEW pc \in {"answered", "undoing", "flushing", "closing", "returned"}, NEW v, GoWith(p, pc, v), op[p].pc # "idle"
      PROVE  Unique'
  <2>1. \A q \in Procs : op'[q].pc = "idle" \/ (op[q].pc # "idle" /\ op'[q].s = op[q].s)
    BY <1>6, <1>t, <1>o DEF GoWith, Op, Idle
  <2> QED BY <2>1, UniqueKept
<1>7. ASSUME NEW p \in Procs, ServeGet(p) PROVE Unique'
  BY <1>6, <1>7 DEF ServeGet
<1>8. ASSUME NEW p \in Procs, ServeMutation(p) PROVE Unique'
  <2>1. AfterSuccess(op[p].kind) \in {"answered", "flushing", "closing"}
    BY DEF AfterSuccess
  <2> QED BY <1>5, <1>6, <1>8, <2>1 DEF ServeMutation
<1>9. ASSUME NEW p \in Procs, 
             \/ SaveGet(p) \/ UndoSave(p) \/ SaveMutation(p) \/ SkipSave(p)
             \/ FlushAfter(p) \/ Close(p) \/ CloseOrganization(p)
      PROVE  Unique'
  <2>1. op[p].pc # "idle" /\ \E pc \in {"answered", "undoing", "flushing", "closing", "returned"} : Go(p, pc)
    BY <1>9 DEF SaveGet, UndoSave, SaveMutation, SkipSave, FlushAfter, Close, CloseOrganization
  <2> QED BY <1>5, <2>1
<1>10. ASSUME NEW p \in Procs, Return(p) \/ Crash(p) PROVE Unique'
  <2>1. \A q \in Procs : op'[q] = IF q = p THEN Idle ELSE op[q]
    BY <1>10, <1>t DEF Return, Crash
  <2> QED BY <2>1, UniqueKept DEF Idle
<1>11. ASSUME op' = op PROVE Unique'
  BY <1>11 DEF Unique
<1> QED
  BY <1>1, <1>2, <1>3, <1>4, <1>7, <1>8, <1>9, <1>10, <1>11
  DEF Next, Expire, FlushCache, vars

(* The lock of a running delete survives every step but its own. *)
LEMMA DeleteLockStep ==
  ASSUME TypeInv, Unique, Mutations \cap Flushing = {}, [Next]_vars,
         NEW p \in Procs, op[p].pc \in {"locked", "closing"},
         op[p].kind = "delete", op[p].s # NoLock, op'[p] = op[p],
         NEW i \in Keys, i = op[p].item, cache[i] = LockEntry(op[p].s)
  PROVE  cache'[i] \in {cache[i], Tombstone}
<1>1. op[p].s \in Sentinel /\ op[p].s.kind = "delete" /\ cache \in [Keys -> Entry]
  BY OpShape DEF TypeInv, TypeOK, SentinelOK, Op
<1>2. /\ cache[i].tag = "lock" /\ cache[i].s = op[p].s
      /\ IsLock(cache[i]) /\ cache[i].s.kind = "delete"
  BY <1>1 DEF LockEntry, IsLock
<1>o. ASSUME NEW q \in Procs, op[q].pc # "idle"
      PROVE  op[q] \in Op /\ ValOK(op[q]) /\ SentinelOK(op[q])
  BY <1>o, OpShape DEF TypeInv
<1>3. ASSUME NEW q \in Procs, NEW j \in Keys, GetMiss(q, j) PROVE cache'[i] = cache[i]
  <2>1. cache[j] = EmptyEntry
    BY <1>3 DEF GetMiss
  <2>2. j # i
    BY <1>2, <2>1 DEF EmptyEntry
  <2> QED BY <1>1, <1>3, <2>2 DEF GetMiss, LockOnMiss, Put
<1>4. ASSUME NEW q \in Procs, NEW kind, NEW j \in Keys, NEW v, TakeLock(q, kind, j, v)
      PROVE  cache'[i] = cache[i]
  <2> DEFINE sk == SentinelKind(IF kind = "updateAndFlush" THEN "update" ELSE kind)
  <2>1. PICK s \in FreshSentinel(sk) : cache' = WriteSentinel(cache, s, <<j>>)
    BY <1>4 DEF TakeLock
  <2>2. sk \in Kinds
    BY <1>4 DEF TakeLock, SentinelKind, Kinds
  <2>3. s \in Sentinel
    BY <2>2 DEF FreshSentinel, Sentinel
  <2> HIDE DEF sk
  <2>4. \/ cache' = Put(cache, {j}, LockEntry(s)) /\ ~(IsLock(cache[j]) /\ cache[j].s.kind = "delete")
        \/ cache' = cache
    BY <1>1, <2>1, <2>3, WriteSentinelOne
  <2> QED BY <1>1, <1>2, <2>4 DEF Put
<1>5. ASSUME NEW q \in Procs, q # p, op[q].pc = "answered", cache' = Saved(q)
      PROVE  cache'[i] = cache[i]
  <2>1. PICK j \in Keys : j = op[q].item
    BY <1>5, <1>o DEF Op
  <2>2. op[q].val \in Values
    BY <1>5, <1>o DEF ValOK
  <2>3. CASE op[q].s = NoLock
    BY <1>5, <2>3 DEF Saved
  <2>4. CASE op[q].s # NoLock
    <3> DEFINE s == op[q].s
               v == op[q].val
    <3>1. s \in Sentinel /\ s.id # op[p].s.id
      BY <1>5, <1>o, <2>4 DEF Op, Unique
    <3>2. cache' = SetValue(cache, j, {j}, v, s) /\ v \in Values
      BY <1>5, <2>1, <2>2, <2>4 DEF Saved
    <3> HIDE DEF s, v
    <3>3. /\ \A k \in Keys : k # j => cache'[k] = cache[k]
          /\ \/ cache[j] = LockEntry(s)
             \/ cache'[j] = cache[j]
             \/ ~(IsLock(cache[j]) /\ cache[j].s.kind = "delete")
      BY <1>1, <3>1, <3>2, SetValueOne
    <3>4. j = i => cache[j] # LockEntry(s)
      BY <1>2, <3>1 DEF LockEntry
    <3> QED BY <1>2, <3>3, <3>4
  <2> QED BY <2>3, <2>4
<1>6. ASSUME NEW q \in Procs, SaveGet(q) \/ SaveMutation(q) PROVE cache'[i] = cache[i]
  BY <1>5, <1>6 DEF SaveGet, SaveMutation
<1>7. ASSUME NEW q \in Procs, Close(q) PROVE cache'[i] = cache[i]
  <2>1. q # p
    <3> SUFFICES ASSUME q = p PROVE FALSE
      OBVIOUS
    <3>1. op'[p].pc = "returned"
      BY <1>7, <1>o DEF Close, Go, TypeInv, TypeOK, Op
    <3> QED BY <1>7, <3>1 DEF Close
  <2>2. CASE op[q].s = NoLock
    BY <1>7, <2>2 DEF Close
  <2>3. CASE op[q].s # NoLock
    <3>1. cache' = ReleaseSentinel(cache, op[q].s, {op[q].item})
      BY <1>7, <2>3 DEF Close
    <3>2. op[q].s.id # op[p].s.id
      BY <1>7, <2>1, <2>3 DEF Unique, Close
    <3>3. cache[i] # LockEntry(op[q].s)
      BY <1>2, <3>2 DEF LockEntry
    <3> QED BY <1>1, <3>1, <3>3 DEF ReleaseSentinel, Put
  <2> QED BY <2>2, <2>3
<1>8. \A q \in Procs : ~FlushAfter(q)
  <2> SUFFICES ASSUME NEW q \in Procs, FlushAfter(q) PROVE FALSE
    OBVIOUS
  <2>1. ValOK(op[q]) /\ op[q].pc = "flushing"
    BY <1>o DEF FlushAfter
  <2> QED BY <2>1 DEF ValOK, Flushing
<1>9. \A q \in Procs : ~FlushCache(q)
  BY DEF FlushCache, MayMutate, Flushing
<1>10. ASSUME NEW j \in Keys, Expire(j) PROVE cache'[i] = cache[i]
  <2>1. j # i
    BY <1>2, <1>10 DEF Expire, Outlived, Running
  <2> QED BY <1>1, <1>10, <2>1 DEF Expire, Put
<1>11. ASSUME cache' = cache PROVE cache'[i] = cache[i]
  BY <1>11
<1>12. ASSUME NEW q \in Procs, UndoSave(q) PROVE cache'[i] \in {cache[i], Tombstone}
  BY <1>1, <1>12 DEF UndoSave, Put
<1> QED
  BY <1>3, <1>4, <1>6, <1>7, <1>8, <1>9, <1>10, <1>11, <1>12
  DEF Next, vars, GetHit, GetUnlocked, ServeGet, ServeMutation, SkipSave,
      CloseOrganization, Return, Crash, AlreadyCached, BeginUnlocked

(* Whatever overlaps with it, a delete that took the lock of its item      *)
(* holds it until it releases it, unless a save is undone under it or      *)
(* somebody flushes the cache:                                             *)
(* CanSetSentinelGivenCurrVal refuses the key to every other sentinel and  *)
(* CanSetValue stores nothing over it.                                     *)
THEOREM DeleteLockKept ==
  ASSUME Mutations \cap Flushing = {}
  PROVE  Spec => DeleteKeepsLock
<1>1. Init => TypeInv /\ Unique
  BY TypeInvInit DEF Init, Unique, Idle
<1>2. TypeInv /\ Unique /\ [Next]_vars => (TypeInv /\ Unique)'
  BY TypeInvNext, UniqueNext
<1>3. TypeInv /\ Unique /\ [Next]_vars =>
        [\A p \in Procs :
           LET o == op[p] IN
           (o.pc \in {"locked", "closing"} /\ o.kind = "delete" /\ o.s # NoLock)
             => \/ cache[o.item] # LockEntry(o.s)
                \/ cache'[o.item] \in {cache[o.item], Tombstone}
                \/ op'[p] # o]_vars
  <2> SUFFICES ASSUME TypeInv, Unique, [Next]_vars, NEW p \in Procs,
                      op[p].pc \in {"locked", "closing"}, op[p].kind = "delete",
                      op[p].s # NoLock, cache[op[p].item] = LockEntry(op[p].s),
                      op'[p] = op[p]
               PROVE  cache'[op[p].item] \in {cache[op[p].item], Tombstone}
    OBVIOUS
  <2>1. PICK i \in Keys : i = op[p].item
    BY OpShape DEF TypeInv, Op
  <2> QED BY <2>1, DeleteLockStep
<1> QED BY <1>1, <1>2, <1>3, PTL DEF Spec, DeleteKeepsLock

-----------------------------------------------------------------------------
(***************************************************************************)
(* That ItemCache implements AtomicItems: callers cannot tell that there   *)
(* is a cache.  Each step of a call is one atomic call, or the return of   *)
(* one, or nothing that AtomicItems knows of.                              *)
(***************************************************************************)

(* What Linearizable shows of a call: its answer, once there is one. *)
AnswerOf(o) == IF o.pc \notin {"idle", "locked"}
                 THEN [kind |-> o.kind, item |-> o.item, val |-> o.val]
                 ELSE [kind |-> "none"]

Answers == [p \in Procs |-> AnswerOf(op[p])]

(* The steps of AtomicItems in these terms: a call that finds the item as  *)
(* it wants it, one that fails, and one that changes the item.             *)
LEMMA Reads ==
  ASSUME NEW p \in Procs, NEW i \in Keys, NEW kind \in {"get"} \cup Mutations,
         AnswerOf(op[p]) = [kind |-> "none"], db' = db, db[i] # Nil,
         Answers' = [Answers EXCEPT ![p] = [kind |-> kind, item |-> i, val |-> db[i]]]
  PROVE  [Atomic!Next]_Atomic!vars
<1>1. Answers[p] = Atomic!Waiting
  BY DEF Answers, Atomic!Waiting
<1>2. Atomic!Read(p, kind, i)
  BY <1>1 DEF Atomic!Read, Atomic!Reply, Atomic!Answer, Answers, AnswerOf, Answered
<1> QED BY <1>2 DEF Atomic!Next

LEMMA Fails ==
  ASSUME NEW p \in Procs, NEW i \in Keys, NEW kind \in {"get"} \cup Mutations,
         AnswerOf(op[p]) = [kind |-> "none"], db' = db,
         Answers' = [Answers EXCEPT ![p] = [kind |-> kind, item |-> i, val |-> Err]]
  PROVE  [Atomic!Next]_Atomic!vars
<1>1. Answers[p] = Atomic!Waiting
  BY DEF Answers, Atomic!Waiting
<1>2. Atomic!Refuse(p, kind, i)
  BY <1>1 DEF Atomic!Refuse, Atomic!Reply, Atomic!Answer, Answers, AnswerOf, Answered
<1> QED BY <1>2 DEF Atomic!Next

LEMMA Changes ==
  ASSUME NEW p \in Procs, NEW i \in Keys, NEW kind \in {"get"} \cup Mutations,
         AnswerOf(op[p]) = [kind |-> "none"], kind # "get",
         NEW v \in Values \cup {Nil}, db' = [db EXCEPT ![i] = v], NEW a \in {v, Err},
         Answers' = [Answers EXCEPT ![p] = [kind |-> kind, item |-> i, val |-> a]]
  PROVE  [Atomic!Next]_Atomic!vars
<1>1. Answers[p] = Atomic!Waiting
  BY DEF Answers, Atomic!Waiting
<1>2. CASE a = v
  <2>1. Atomic!Write(p, kind, i, v)
    BY <1>1, <1>2 DEF Atomic!Write, Atomic!Reply, Atomic!Answer, Answers, AnswerOf, Answered
  <2> QED BY <2>1 DEF Atomic!Next
<1>3. CASE a = Err
  <2>1. Atomic!LoseReply(p, kind, i, v)
    BY <1>1, <1>3 DEF Atomic!LoseReply, Atomic!Reply, Atomic!Answer, Answers, AnswerOf, Answered
  <2> QED BY <2>1 DEF Atomic!Next
<1> QED BY <1>2, <1>3

(* A step after which every call has the answer it had. *)
LEMMA Stutter ==
  ASSUME db' = db, \A p \in Procs : AnswerOf(op'[p]) = AnswerOf(op[p])
  PROVE  [Atomic!Next]_Atomic!vars
<1>1. UNCHANGED Atomic!vars
  BY DEF Atomic!vars, AnswerOf, Answered
<1> QED BY <1>1

(* A call that returns, or goes away after it was answered. *)
LEMMA Returns ==
  ASSUME db' = db, NEW p \in Procs, op[p].pc \notin {"idle", "locked"}, op[p].kind # "none",
         Answers' = [Answers EXCEPT ![p] = [kind |-> "none"]]
  PROVE  [Atomic!Next]_Atomic!vars
<1>1. Answers[p].kind = op[p].kind
  BY DEF Answers, AnswerOf
<1>2. Answers[p] # Atomic!Waiting
  BY <1>1 DEF Atomic!Waiting
<1>3. Atomic!Return(p)
  BY <1>2 DEF Atomic!Return, Atomic!Waiting, Answers, AnswerOf, Answered
<1> QED BY <1>3 DEF Atomic!Next

(* One caller's step changes that caller's answer only. *)
LEMMA OneAnswer ==
  ASSUME NEW p \in Procs, \A q \in Procs : q # p => op'[q] = op[q]
  PROVE  Answers' = [Answers EXCEPT ![p] = AnswerOf(op'[p])]
BY DEF Answers, AnswerOf

(* What a call keeps as it goes on. *)
LEMMA Going ==
  ASSUME TypeInv, NEW p \in Procs, op[p].pc # "idle", NEW pc, Go(p, pc)
  PROVE  /\ \A q \in Procs : q # p => op'[q] = op[q]
         /\ op'[p].pc = pc /\ op'[p].kind = op[p].kind
         /\ op'[p].item = op[p].item /\ op'[p].val = op[p].val
<1>1. op[p] \in Op
  BY OpShape DEF TypeInv
<1> QED BY <1>1 DEF Go, TypeInv, TypeOK, Op

LEMMA GoingWith ==
  ASSUME TypeInv, NEW p \in Procs, op[p].pc # "idle", NEW pc, NEW v, GoWith(p, pc, v)
  PROVE  /\ \A q \in Procs : q # p => op'[q] = op[q]
         /\ op'[p].pc = pc /\ op'[p].kind = op[p].kind
         /\ op'[p].item = op[p].item /\ op'[p].val = v
<1>1. op[p] \in Op
  BY OpShape DEF TypeInv
<1> QED BY <1>1 DEF GoWith, TypeInv, TypeOK, Op

(* A call that begins, answered at once or not. *)
LEMMA Beginning ==
  ASSUME TypeInv, NEW p \in Procs, NEW kind, NEW i, NEW s, NEW v
  PROVE  /\ Begin(p, kind, i, "returned", s, v) =>
              /\ AnswerOf(op[p]) = [kind |-> "none"]
              /\ Answers' = [Answers EXCEPT ![p] = [kind |-> kind, item |-> i, val |-> v]]
         /\ Begin(p, kind, i, "locked", s, v) =>
              \A q \in Procs : AnswerOf(op'[q]) = AnswerOf(op[q])
<1>1. ASSUME NEW pc, Begin(p, kind, i, pc, s, v)
      PROVE  /\ op' = [op EXCEPT ![p] = [kind |-> kind, item |-> i, pc |-> pc, s |-> s, val |-> v]]
             /\ op[p] = Idle /\ op'[p].pc = pc
             /\ op'[p].kind = kind /\ op'[p].item = i /\ op'[p].val = v
             /\ \A q \in Procs : q # p => op'[q] = op[q]
  BY <1>1 DEF Begin, TypeInv, TypeOK
<1>2. ASSUME Begin(p, kind, i, "returned", s, v)
      PROVE  /\ AnswerOf(op[p]) = [kind |-> "none"]
             /\ Answers' = [Answers EXCEPT ![p] = [kind |-> kind, item |-> i, val |-> v]]
  BY <1>1, <1>2, OneAnswer DEF AnswerOf, Idle
<1>3. ASSUME Begin(p, kind, i, "locked", s, v)
      PROVE  \A q \in Procs : AnswerOf(op'[q]) = AnswerOf(op[q])
  BY <1>1, <1>3 DEF AnswerOf, Idle
<1> QED BY <1>2, <1>3

(* A call that was answered and goes on keeps its answer. *)
LEMMA GoesOn ==
  ASSUME TypeInv, db' = db, NEW p \in Procs, op[p].pc \notin {"idle", "locked"},
         NEW pc \in {"undoing", "flushing", "closing", "returned"}, Go(p, pc)
  PROVE  [Atomic!Next]_Atomic!vars
<1>1. \A q \in Procs : AnswerOf(op'[q]) = AnswerOf(op[q])
  BY Going DEF AnswerOf
<1> QED BY <1>1, Stutter

LEMMA AtomicInit == Init => Atomic!Init
BY DEF Init, Atomic!Init, Atomic!Waiting, Answered, Idle

(* Every step is one of AtomicItems, if what is found in the cache is what *)
(* the server has.                                                         *)
LEMMA AtomicNext ==
  ASSUME TypeInv, Coherent, "purge" \notin Mutations, [Next]_vars
  PROVE  [Atomic!Next]_Atomic!vars
<1>t. /\ cache \in [Keys -> Entry] /\ db \in [Keys -> Values \cup {Nil}]
      /\ op \in [Procs -> Op \cup {Idle}]
  BY DEF TypeInv, TypeOK
<1>o. ASSUME NEW p \in Procs, op[p].pc # "idle"
      PROVE  op[p] \in Op /\ ValOK(op[p]) /\ op[p].item \in Keys
             /\ op[p].kind \in {"get"} \cup Mutations /\ op[p].kind # "none"
  <2>1. op[p] \in Op /\ ValOK(op[p])
    BY <1>o, OpShape DEF TypeInv
  <2> QED BY <2>1, <1>o DEF Op, ValOK, MutationKinds
<1>c. ASSUME NEW i \in Keys, cache[i].tag = "item"
      PROVE  cache[i].val = db[i] /\ db[i] # Nil
  <2>1. ~Purging(i)
    <3> SUFFICES ASSUME NEW p \in Procs, op[p].pc = "flushing", op[p].kind = "purge"
                 PROVE  FALSE
      BY DEF Purging
    <3> QED BY <1>o
  <2>2. cache[i].val \in Values
    BY <1>c, <1>t, EntryShape
  <2> QED BY <1>c, <2>1, <2>2, ItemCacheAssumption DEF Coherent
<1>1. ASSUME NEW p \in Procs, NEW i \in Keys, GetHit(p, i)
      PROVE  [Atomic!Next]_Atomic!vars
  <2>1. Begin(p, "get", i, "returned", NoLock, cache[i].val) /\ db' = db
    BY <1>1 DEF GetHit
  <2>2. cache[i].val = db[i] /\ db[i] # Nil
    BY <1>1, <1>c DEF GetHit
  <2> QED BY <2>1, <2>2, Beginning, Reads
<1>2. ASSUME NEW p \in Procs, NEW kind, NEW i, NEW s, NEW v,
             Begin(p, kind, i, "locked", s, v), db' = db
      PROVE  [Atomic!Next]_Atomic!vars
  BY <1>2, Beginning, Stutter
<1>3. ASSUME NEW p \in Procs, NEW i \in Keys, GetMiss(p, i) \/ GetUnlocked(p, i)
      PROVE  [Atomic!Next]_Atomic!vars
  BY <1>2, <1>3 DEF GetMiss, GetUnlocked
<1>4. ASSUME NEW p \in Procs, ServeGet(p) PROVE [Atomic!Next]_Atomic!vars
  <2>1. PICK i \in Keys : i = op[p].item
    BY <1>4, <1>o DEF ServeGet
  <2>2. /\ op[p].pc = "locked" /\ op[p].kind = "get" /\ db' = db
        /\ AnswerOf(op[p]) = [kind |-> "none"]
    BY <1>4 DEF ServeGet, AnswerOf
  <2>3. CASE db[i] # Nil /\ GoWith(p, "answered", db[i])
    <3>1. AnswerOf(op'[p]) = [kind |-> "get", item |-> i, val |-> db[i]]
      BY <2>1, <2>2, <2>3, GoingWith DEF AnswerOf
    <3> QED BY <2>2, <2>3, <3>1, GoingWith, OneAnswer, Reads
  <2>4. CASE GoWith(p, "returned", Err)
    <3>1. AnswerOf(op'[p]) = [kind |-> "get", item |-> i, val |-> Err]
      BY <2>1, <2>2, <2>4, GoingWith DEF AnswerOf
    <3> QED BY <2>2, <2>4, <3>1, GoingWith, OneAnswer, Fails
  <2> QED BY <1>4, <2>1, <2>3, <2>4 DEF ServeGet
<1>5. ASSUME NEW p \in Procs, NEW kind \in Mutations, NEW i \in Keys,
             NEW v \in Values \cup {Nil}, AlreadyCached(p, kind, i, v)
      PROVE  [Atomic!Next]_Atomic!vars
  <2>1. Begin(p, kind, i, "returned", NoLock, v) /\ db' = db
    BY <1>5 DEF AlreadyCached
  <2>2. v = db[i] /\ db[i] # Nil
    BY <1>5, <1>c DEF AlreadyCached, ItemEntry
  <2> QED BY <2>1, <2>2, Beginning, Reads
<1>6. ASSUME NEW p \in Procs, NEW kind \in Mutations, NEW i \in Keys,
             NEW v \in Values \cup {Nil},
             TakeLock(p, kind, i, v) \/ BeginUnlocked(p, kind, i, v)
      PROVE  [Atomic!Next]_Atomic!vars
  BY <1>2, <1>6 DEF TakeLock, BeginUnlocked
<1>7. ASSUME NEW p \in Procs, ServeMutation(p) PROVE [Atomic!Next]_Atomic!vars
  <2>1. PICK i \in Keys : i = op[p].item
    BY <1>7, <1>o DEF ServeMutation
  <2> DEFINE v == op[p].val
             kind == op[p].kind
  <2>2. /\ op[p].pc = "locked" /\ kind # "get" /\ kind \in {"get"} \cup Mutations
        /\ AnswerOf(op[p]) = [kind |-> "none"]
    BY <1>7, <1>o DEF ServeMutation, AnswerOf
  <2>3. v \in Values \cup {Nil}
    <3>1. kind \in Writes \cup {"delete", "purge"}
      BY <2>2, <1>o DEF ValOK, Writes, Op, MutationKinds
    <3> QED BY <2>2, <3>1, <1>o DEF ValOK
  <2>4. AfterSuccess(kind) \notin {"idle", "locked"}
    BY DEF AfterSuccess
  <2>5. CASE db' = [db EXCEPT ![i] = v] /\ Go(p, AfterSuccess(kind))
    <3>1. AnswerOf(op'[p]) = [kind |-> kind, item |-> i, val |-> v]
      BY <2>1, <2>2, <2>4, <2>5, Going DEF AnswerOf
    <3>2. Answers' = [Answers EXCEPT ![p] = [kind |-> kind, item |-> i, val |-> v]]
      BY <2>2, <2>5, <3>1, Going, OneAnswer
    <3> QED BY <2>2, <2>3, <2>5, <3>2, Changes
  <2>6. CASE db' = [db EXCEPT ![i] = v] /\ GoWith(p, "closing", Err)
    <3>1. AnswerOf(op'[p]) = [kind |-> kind, item |-> i, val |-> Err]
      BY <2>1, <2>2, <2>6, GoingWith DEF AnswerOf
    <3>2. Answers' = [Answers EXCEPT ![p] = [kind |-> kind, item |-> i, val |-> Err]]
      BY <2>2, <2>6, <3>1, GoingWith, OneAnswer
    <3> QED BY <2>2, <2>3, <2>6, <3>2, Changes
  <2>7. CASE db' = db /\ GoWith(p, "closing", Err)
    <3>1. AnswerOf(op'[p]) = [kind |-> kind, item |-> i, val |-> Err]
      BY <2>1, <2>2, <2>7, GoingWith DEF AnswerOf
    <3> QED BY <2>2, <2>7, <3>1, GoingWith, OneAnswer, Fails
  <2> QED BY <1>7, <2>1, <2>5, <2>6, <2>7 DEF ServeMutation, Apply
<1>8. ASSUME NEW p \in Procs,
             \/ SaveGet(p) \/ UndoSave(p) \/ SaveMutation(p) \/ SkipSave(p)
             \/ FlushAfter(p) \/ Close(p) \/ CloseOrganization(p)
      PROVE  [Atomic!Next]_Atomic!vars
  <2>1. /\ op[p].pc \notin {"idle", "locked"} /\ db' = db
        /\ \E pc \in {"undoing", "flushing", "closing", "returned"} : Go(p, pc)
    BY <1>8 DEF SaveGet, UndoSave, SaveMutation, SkipSave, FlushAfter, Close, CloseOrganization
  <2> QED BY <2>1, GoesOn
<1>9. ASSUME NEW p \in Procs, Return(p) \/ Crash(p) PROVE [Atomic!Next]_Atomic!vars
  <2>1. /\ op[p].pc # "idle" /\ db' = db
        /\ \A q \in Procs : q # p => op'[q] = op[q]
        /\ op'[p] = Idle
    BY <1>9, <1>t DEF Return, Crash, Running
  <2>2. AnswerOf(op'[p]) = [kind |-> "none"]
    BY <2>1 DEF AnswerOf, Idle
  <2>3. CASE op[p].pc = "locked"
    <3>1. \A q \in Procs : AnswerOf(op'[q]) = AnswerOf(op[q])
      BY <2>1, <2>2, <2>3 DEF AnswerOf
    <3> QED BY <2>1, <3>1, Stutter
  <2>4. CASE op[p].pc # "locked"
    BY <2>1, <2>2, <2>4, <1>o, OneAnswer, Returns
  <2> QED BY <2>3, <2>4
<1>10. ASSUME op' = op, db' = db PROVE [Atomic!Next]_Atomic!vars
  BY <1>10, Stutter
<1> QED
  BY <1>1, <1>3, <1>4, <1>5, <1>6, <1>7, <1>8, <1>9, <1>10
  DEF Next, vars, FlushCache, Expire

(* Linearizable for any number of callers, items and values: GetItem,      *)
(* CreateItem, and the updates and deletes of authz/client.go answer as if *)
(* they went to the server one at a time.  It holds when mutations do not  *)
(* disturb each other (Serial) and no type is deleted (DeleteObjectType    *)
(* flushes the cache after the fact).                                      *)
THEOREM CacheIsTransparent ==
  ASSUME Serial, "purge" \notin Mutations
  PROVE  Spec => Linearizable
<1>1. Spec => []Coherent
  BY Coherence
<1>2. TypeInv /\ Coherent /\ [Next]_vars => [Atomic!Next]_Atomic!vars
  BY AtomicNext
<1> QED
  BY <1>1, <1>2, AtomicInit, TypeInvInit, TypeInvNext, PTL
  DEF Spec, Linearizable, Atomic!Spec

-----------------------------------------------------------------------------
(* Coherence between mutations, when two of them may overlap.  An item is  *)
(* wrong in the cache only while a mutation that will put it right is in   *)
(* flight, and a mutation in flight is covered: its item is locked by one  *)
(* that has not saved yet, or is the only thing it has still to replace.   *)
Overlapping ==
  /\ MaxMutators <= 2
  /\ FlushesAlone
  /\ Faults = {}
  /\ Mutations \subseteq {"update", "delete"} \cup Flushing

(* A call that flushes has changed the server and not flushed yet. *)
Dirty == \E p \in Procs :
  op[p].pc \in {"answered", "flushing"} /\ op[p].kind \in {"updateAndFlush", "purge"}

(* A mutation that has not told the cache what it did. *)
Unfinished(q, i) ==
  op[q].pc \in {"locked", "answered"} /\ op[q].kind \in {"update", "delete"} /\ op[q].item = i
Only(w, i) == \A q \in Procs : Unfinished(q, i) => q = w

(* The update the server handled last, if it can still save or clear.      *)
Settler(i) == \E m \in Procs :
  op[m].pc = "answered" /\ op[m].kind = "update" /\ op[m].item = i /\ op[m].s # NoLock
    /\ op[m].val = db[i]

DeleteLocked(i) == IsLock(cache[i]) /\ cache[i].s.kind = "delete"

Covered(i) == db[i] # Nil => \A m \in Procs : Unfinished(m, i) =>
  \/ cache[i].tag = "item" /\ Only(m, i)
  \/ IsLock(cache[i]) /\ \E w \in Procs : /\ Unfinished(w, i) /\ op[w].s = cache[i].s
                                          /\ (cache[i].bumped => Only(w, i))
Shielded(i) == db[i] # Nil => \A m \in Procs :
  Unfinished(m, i) /\ (op[m].s = NoLock \/ op[m].kind = "delete") => DeleteLocked(i)
DeleteHeld(i) == db[i] # Nil /\ DeleteLocked(i) =>
  \E w \in Procs : Unfinished(w, i) /\ op[w].kind = "delete" /\ cache[i] = LockEntry(op[w].s)
Right(i) == cache[i].tag = "item" => cache[i].val = db[i] \/ Settler(i) \/ Dirty
SaverRight(p) ==
  op[p].pc = "answered" /\ op[p].s # NoLock /\ cache[op[p].item] = LockEntry(op[p].s) =>
    \/ Dirty
    \/ op[p].kind = "get" /\ op[p].val = db[op[p].item]
    \/ op[p].kind = "update" /\ Settler(op[p].item)
SaversRight(i) == \A p \in Procs : op[p].pc # "idle" /\ op[p].item = i => SaverRight(p)

OverlapAt(i) == Covered(i) /\ Shielded(i) /\ DeleteHeld(i) /\ Right(i) /\ SaversRight(i)

FewMutators ==
  /\ \A p, q \in Procs : p # q /\ Mutating(p) /\ Mutating(q) =>
       {op[p].kind, op[q].kind} \cap Flushing = {}
  /\ \A p, q, r \in Procs :
       Mutating(p) /\ Mutating(q) /\ Mutating(r)
         /\ op[p].item = op[q].item /\ op[p].item = op[r].item => p = q \/ p = r \/ q = r

Calls == FewMutators /\ \A p \in Procs : op[p].pc # "undoing"
Basis == TypeInv /\ Unique /\ Calls
OverlapInv == Basis /\ \A i \in Keys : OverlapAt(i)

(* What every call in flight is. *)
LEMMA Kinded ==
  ASSUME Overlapping, Basis, NEW p \in Procs, op[p].pc # "idle"
  PROVE  /\ op[p] \in Op /\ op[p].item \in Keys
         /\ op[p].kind \in {"get", "update", "delete"} \cup Flushing
         /\ op[p].pc \in {"locked", "answered", "flushing", "closing", "returned"}
         /\ op[p].s # NoLock => op[p].s \in Sentinel
         /\ op[p].pc = "locked" => op[p].kind # "flush"
         /\ op[p].pc = "locked" /\ op[p].kind = "update" => op[p].val \in Values
         /\ op[p].pc = "locked" /\ op[p].kind = "delete" => op[p].val = Nil
         /\ op[p].pc = "answered" => op[p].val \in Values
         /\ op[p].pc = "answered" => op[p].kind \in {"get", "update", "updateAndFlush"}
         /\ op[p].pc = "flushing" => op[p].kind \in {"updateAndFlush", "purge"}
         /\ op[p].kind = "get" /\ op[p].s # NoLock => op[p].s.kind = "read"
         /\ op[p].kind \in {"update", "updateAndFlush"} /\ op[p].s # NoLock
              => op[p].s.kind = "write"
         /\ op[p].kind = "delete" /\ op[p].s # NoLock => op[p].s.kind = "delete"
         /\ op[p].kind = "purge" => op[p].s = NoLock
<1>1. op[p] \in Op /\ ValOK(op[p]) /\ SentinelOK(op[p]) /\ op[p].pc # "undoing"
  BY OpShape DEF Basis, TypeInv, Calls
<1>2. op[p].kind \in {"get", "update", "delete"} \cup Flushing
  BY <1>1 DEF ValOK, Overlapping
<1> QED
  BY <1>1, <1>2 DEF ValOK, SentinelOK, Op, Writes, Flushing

(* A step of one call leaves the other items as they were. *)
LEMMA Elsewhere ==
  ASSUME OverlapInv, NEW p \in Procs, NEW i \in Keys, Alone(p, i), Dirty => Dirty', OverlapAt(i)'
  PROVE  \A j \in Keys : OverlapAt(j)'
<1> SUFFICES ASSUME NEW j \in Keys, j # i PROVE OverlapAt(j)'
  OBVIOUS
<1>1. /\ \A q \in Procs : Unfinished(q, j)' <=> Unfinished(q, j)
      /\ \A q \in Procs : Unfinished(q, j) => op'[q] = op[q]
  BY DEF Alone, Unfinished
<1>2. Settler(j) => Settler(j)'
  BY DEF Settler, Alone
<1>3. cache'[j] = cache[j] /\ db'[j] = db[j]
  BY DEF Alone
<1>4. OverlapAt(j)
  BY DEF OverlapInv
<1>5. Covered(j)'
  BY <1>1, <1>3, <1>4 DEF Covered, OverlapAt, Only
<1>6. Shielded(j)' /\ DeleteHeld(j)'
  BY <1>1, <1>3, <1>4 DEF Shielded, DeleteHeld, DeleteLocked, OverlapAt
<1>7. Right(j)'
  BY <1>2, <1>3, <1>4 DEF Right, OverlapAt
<1>8. SaversRight(j)'
  BY <1>2, <1>3, <1>4 DEF SaversRight, SaverRight, OverlapAt, Alone
<1> QED
  BY <1>5, <1>6, <1>7, <1>8 DEF OverlapAt

(* The cache has nothing of an item no mutation is about to change. *)
LEMMA Cleared ==
  ASSUME NEW i \in Keys, db'[i] # Nil => \A q \in Procs : ~Unfinished(q, i)',
         cache'[i].tag \notin {"item", "lock"}
  PROVE  OverlapAt(i)'
<1>1. Covered(i)' /\ Shielded(i)'
  BY DEF Covered, Shielded
<1>2. DeleteHeld(i)' /\ Right(i)' /\ SaversRight(i)'
  BY DEF DeleteHeld, DeleteLocked, IsLock, Right, SaversRight, SaverRight, LockEntry
<1> QED
  BY <1>1, <1>2 DEF OverlapAt

LEMMA NoItemNoSettler ==
  ASSUME Overlapping, Basis, NEW i \in Keys, db[i] = Nil
  PROVE  ~Settler(i)
<1>1. \A m \in Procs : op[m].pc = "answered" => op[m].val \in Values
  BY Kinded
<1> QED
  BY <1>1, ItemCacheAssumption DEF Settler

(* A step that touches neither the item nor its cache entry, of a call     *)
(* that has nothing more to say about it.                                  *)
LEMMA Bystander ==
  ASSUME Overlapping, OverlapInv, NEW p \in Procs, NEW i \in Keys, Alone(p, i), Dirty => Dirty',
         cache'[i] = cache[i], db'[i] = db[i],
         ~Unfinished(p, i) \/ db[i] = Nil, ~Unfinished(p, i)',
         op'[p].pc = "answered" => op'[p].kind = "get" /\ op'[p].val = db[i]
  PROVE  OverlapAt(i)'
<1>1. OverlapAt(i)
  BY DEF OverlapInv
<1>2. \A q \in Procs : q # p => op'[q] = op[q] /\ (Unfinished(q, i)' <=> Unfinished(q, i))
  BY DEF Alone, Unfinished
<1>3. Settler(i) => Settler(i)'
  <2>1. CASE db[i] = Nil
    BY <2>1, NoItemNoSettler DEF OverlapInv
  <2>2. CASE ~Unfinished(p, i)
    BY <1>2, <2>2 DEF Settler, Unfinished
  <2> QED
    BY <2>1, <2>2
<1>4. Covered(i)'
  BY <1>1, <1>2 DEF Covered, OverlapAt, Only
<1>5. Shielded(i)' /\ DeleteHeld(i)'
  BY <1>1, <1>2 DEF Shielded, DeleteHeld, DeleteLocked, OverlapAt
<1>6. Right(i)'
  BY <1>1, <1>3 DEF Right, OverlapAt
<1>7. ASSUME NEW q \in Procs, op'[q].pc # "idle", op'[q].item = i PROVE SaverRight(q)'
  <2>1. CASE q = p
    BY <1>7, <2>1 DEF SaverRight
  <2>2. CASE q # p
    <3>1. op'[q] = op[q] /\ SaverRight(q)
      BY <1>1, <1>2, <1>7, <2>2 DEF OverlapAt, SaversRight
    <3> QED
      BY <1>3, <1>7, <3>1 DEF SaverRight
  <2> QED
    BY <2>1, <2>2
<1> QED
  BY <1>4, <1>5, <1>6, <1>7 DEF OverlapAt, SaversRight

(* Nobody is about to change an item that the cache has no trace of, or    *)
(* whose lock belongs to a call that is not.                               *)
LEMMA Bare ==
  ASSUME OverlapInv, NEW i \in Keys, db[i] # Nil, cache[i].tag \notin {"item", "lock"}
  PROVE  \A q \in Procs : ~Unfinished(q, i)
BY DEF OverlapInv, OverlapAt, Covered, IsLock

LEMMA Uncontested ==
  ASSUME OverlapInv, NEW p \in Procs, NEW i \in Keys, db[i] # Nil,
         op[p].pc # "idle", ~Unfinished(p, i), op[p].s # NoLock, cache[i] = LockEntry(op[p].s)
  PROVE  \A q \in Procs : ~Unfinished(q, i)
<1>1. IsLock(cache[i]) /\ cache[i].s = op[p].s /\ cache[i].tag # "item"
  BY DEF LockEntry, IsLock
<1>2. \A w \in Procs : Unfinished(w, i) => op[w].s # op[p].s
  BY DEF Unfinished, Unique, OverlapInv, Basis
<1> QED
  BY <1>1, <1>2 DEF OverlapInv, OverlapAt, Covered

(* What the save of a mutation does to the key of its item. *)
LEMMA SavedWrite ==
  ASSUME TypeInv, NEW p \in Procs, op[p].pc = "answered", NEW i, i = op[p].item,
         NEW s, s = op[p].s, s # NoLock, s.kind = "write", NEW r, r = Saved(p)
  PROVE  /\ \A j \in Keys : j # i => r[j] = cache[j]
         /\ \/ cache[i] = LockEntry(s) /\ r[i] = ItemEntry(op[p].val)
            \/ cache[i].tag = "item" /\ cache[i].val # op[p].val /\ r[i] = EmptyEntry
            \/ IsLock(cache[i]) /\ cache[i].s = s /\ cache[i].bumped /\ r[i] = EmptyEntry
            \/ /\ IsLock(cache[i]) /\ cache[i].s.kind = "write" /\ cache[i].s # s
               /\ r[i] = Bumped(cache[i])
            \/ /\ r[i] = cache[i]
               /\ cache[i].tag = "item" => cache[i].val = op[p].val
               /\ IsLock(cache[i]) => cache[i].s.kind # "write"
<1> DEFINE v == op[p].val
           curr == cache[i]
<1>1. op[p] \in Op /\ v \in Values /\ i \in Keys /\ cache \in [Keys -> Entry] /\ curr \in Entry
  BY OpShape DEF TypeInv, TypeOK, ValOK, Op
<1>2. s \in Sentinel
  BY <1>1 DEF Op
<1>3. r = SetValue(cache, i, {i}, v, s)
  BY DEF Saved
<1>4. IsLock(curr) => curr = LockEntry(curr.s) \/ curr.bumped
  BY <1>1, EntryShape DEF IsLock, Bumped
<1>5. /\ IsLock(curr) => curr.tag \notin {"item", "empty", "list"}
      /\ LockEntry(s).tag = "lock" /\ LockEntry(s).s = s
  BY DEF IsLock, LockEntry
<1>6. /\ \A j \in Keys : j # i => Put(cache, {i}, ItemEntry(v))[j] = cache[j]
      /\ \A j \in Keys : j # i => Put(cache, {i}, EmptyEntry)[j] = cache[j]
      /\ \A j \in Keys : j # i => Put(cache, {i}, Bumped(curr))[j] = cache[j]
      /\ Put(cache, {i}, ItemEntry(v))[i] = ItemEntry(v)
      /\ Put(cache, {i}, EmptyEntry)[i] = EmptyEntry
      /\ Put(cache, {i}, Bumped(curr))[i] = Bumped(curr)
  BY <1>1 DEF Put
<1> DEFINE own == curr = LockEntry(s)
           old == curr.tag = "item" /\ curr.val # v
           marked == IsLock(curr) /\ curr.s = s /\ curr.bumped
           other == IsLock(curr) /\ curr.s.kind = "write" /\ curr.s # s
<1>7. CanSetValue(curr, v, s) =
        CASE own -> "set" [] old -> "clear" [] marked -> "clear" [] other -> "conflict"
          [] OTHER -> "none"
  BY DEF CanSetValue
<1>8. /\ own => ~old /\ ~marked /\ ~other
      /\ old => ~marked /\ ~other
      /\ marked => ~other
  BY DEF LockEntry, IsLock
<1>9. /\ own => curr.tag \notin {"empty", "list"}
      /\ old \/ marked \/ other => curr.tag \notin {"empty", "list"}
  BY <1>5
<1> HIDE DEF own, old, marked, other
<1>10. CASE own
  <2>1. r = Put(cache, {i}, ItemEntry(v))
    <3>1. CanSetValue(curr, v, s) = "set"
      BY <1>7, <1>8, <1>10
    <3> QED
      BY <1>3, <1>9, <1>10, <3>1 DEF SetValue
  <2> QED
    BY <1>6, <1>10, <2>1 DEF own
<1>11. CASE old
  <2>1. r = Put(cache, {i}, EmptyEntry)
    <3>1. CanSetValue(curr, v, s) = "clear"
      BY <1>7, <1>8, <1>11
    <3> QED
      BY <1>3, <1>9, <1>11, <3>1 DEF SetValue
  <2> QED
    BY <1>6, <1>11, <2>1 DEF old
<1>12. CASE marked
  <2>1. r = Put(cache, {i}, EmptyEntry)
    <3>1. CanSetValue(curr, v, s) = "clear"
      BY <1>7, <1>8, <1>12
    <3> QED
      BY <1>3, <1>9, <1>12, <3>1 DEF SetValue
  <2> QED
    BY <1>6, <1>12, <2>1 DEF marked
<1>13. CASE other
  <2>1. r = Put(cache, {i}, Bumped(curr))
    <3>1. CanSetValue(curr, v, s) = "conflict"
      BY <1>7, <1>8, <1>13
    <3> QED
      BY <1>3, <1>9, <1>13, <3>1 DEF SetValue
  <2> QED
    BY <1>6, <1>13, <2>1 DEF other
<1>14. CASE ~own /\ ~old /\ ~marked /\ ~other
  <2>1. r = cache
    <3>1. CanSetValue(curr, v, s) = "none"
      BY <1>7, <1>14
    <3> QED
      BY <1>3, <3>1 DEF SetValue
  <2>2. IsLock(curr) => curr.s.kind # "write"
    BY <1>4, <1>14 DEF own, marked, other
  <2> QED
    BY <1>14, <2>1, <2>2 DEF old
<1> QED
  BY <1>10, <1>11, <1>12, <1>13, <1>14

(* Which mutations are in flight together. *)
LEMMA CallsKept ==
  ASSUME Calls, NEW p \in Procs, \A q \in Procs : q # p => op'[q] = op[q],
         Mutating(p)' => Mutating(p) /\ op'[p].kind = op[p].kind /\ op'[p].item = op[p].item,
         op'[p].pc # "undoing"
  PROVE  Calls'
<1>1. \A q \in Procs : Mutating(q)' => /\ Mutating(q) /\ op'[q].kind = op[q].kind
                                      /\ op'[q].item = op[q].item
  BY DEF Mutating, Running
<1> QED
  BY <1>1 DEF Calls, FewMutators

LEMMA TwoRivals ==
  ASSUME Overlapping, NEW kind, NEW i, MayMutate(kind, i)
  PROVE  /\ \A q, r \in Rivals(kind, i) : q = r
         /\ \A q \in Procs : Mutating(q) => {kind, op[q].kind} \cap Flushing = {}
<1>1. ASSUME NEW q \in Rivals(kind, i), NEW r \in Rivals(kind, i), q # r PROVE FALSE
  <2>1. IsFiniteSet(Rivals(kind, i))
    BY ItemCacheAssumption, FS_Subset DEF Rivals
  <2>2. Cardinality({q, r}) <= Cardinality(Rivals(kind, i))
    BY <2>1, FS_Subset
  <2>3. Cardinality({q, r}) = 2
    <3>1. IsFiniteSet({r}) /\ Cardinality({r}) = 1
      BY FS_Singleton
    <3>2. {q, r} = {r} \cup {q} /\ q \notin {r}
      BY <1>1
    <3> QED
      BY <3>1, <3>2, FS_AddElement
  <2>4. Cardinality(Rivals(kind, i)) \in Nat /\ Cardinality(Rivals(kind, i)) < MaxMutators
    BY <2>1, FS_CardinalityType DEF MayMutate
  <2> QED
    BY <2>2, <2>3, <2>4, ItemCacheAssumption DEF Overlapping
<1>2. \A q \in Procs : Mutating(q) => {kind, op[q].kind} \cap Flushing = {}
  BY DEF MayMutate, Overlapping, Rivals
<1> QED
  BY <1>1, <1>2

LEMMA CallsBegin ==
  ASSUME Overlapping, Calls, NEW p \in Procs, NEW kind, NEW i, MayMutate(kind, i),
         \A q \in Procs : q # p => op'[q] = op[q], ~Mutating(p),
         op'[p].kind = kind, op'[p].item = i, op'[p].pc # "undoing"
  PROVE  Calls'
<1>1. \A q \in Procs : Mutating(q)' => q = p \/ (Mutating(q) /\ op'[q] = op[q] /\ q # p)
  BY DEF Mutating, Running
<1>2. \A q, r \in Procs : /\ Mutating(q) /\ Mutating(r) /\ op[q].item = i /\ op[r].item = i
                          => q = r
  BY TwoRivals DEF Rivals
<1>3. \A q \in Procs : Mutating(q) => {kind, op[q].kind} \cap Flushing = {}
  BY TwoRivals
<1>4. \A q, r \in Procs : q # r /\ Mutating(q)' /\ Mutating(r)' =>
        {op'[q].kind, op'[r].kind} \cap Flushing = {}
  BY <1>1, <1>3 DEF Calls, FewMutators
<1>5. ASSUME NEW q \in Procs, NEW r \in Procs, NEW t \in Procs,
             Mutating(q)', Mutating(r)', Mutating(t)',
             op'[q].item = op'[r].item, op'[q].item = op'[t].item
      PROVE  q = r \/ q = t \/ r = t
  BY <1>1, <1>2, <1>5 DEF Calls, FewMutators
<1> QED
  BY <1>4, <1>5 DEF Calls, FewMutators

(* A mutation that flushes runs alone. *)
LEMMA AloneWhenFlushing ==
  ASSUME Calls, NEW p \in Procs, Mutating(p), op[p].kind \in Flushing
  PROVE  /\ \A q \in Procs : q # p => ~Mutating(q)
         /\ \A q \in Procs : \A i \in Keys : ~Unfinished(q, i)
<1>1. \A q \in Procs : q # p => ~Mutating(q)
  BY DEF Calls, FewMutators
<1>2. ASSUME NEW q \in Procs, NEW i \in Keys, Unfinished(q, i) PROVE FALSE
  BY <1>1, <1>2 DEF Unfinished, Mutating, Running, Flushing
<1> QED
  BY <1>1, <1>2

(* What is to be shown of every step. *)
Sound == Calls /\ \A i \in Keys : OverlapAt(i)

LEMMA BystanderStep ==
  ASSUME Overlapping, OverlapInv, Calls', NEW p \in Procs, NEW i \in Keys,
         Alone(p, i), cache' = cache, db' = db, Dirty => Dirty',
         ~Unfinished(p, i) \/ db[i] = Nil, ~Unfinished(p, i)',
         op'[p].pc = "answered" => op'[p].kind = "get" /\ op'[p].val = db[i]
  PROVE  Sound'
BY Bystander, Elsewhere DEF Sound

(* How a call begins, and how it goes on. *)
LEMMA Begins ==
  ASSUME TypeInv, NEW p \in Procs, NEW kind, NEW i, NEW pc, NEW s, NEW v,
         Begin(p, kind, i, pc, s, v)
  PROVE  /\ \A q \in Procs : q # p => op'[q] = op[q]
         /\ op[p].pc = "idle" /\ ~Mutating(p)
         /\ op'[p].kind = kind /\ op'[p].item = i /\ op'[p].pc = pc
         /\ op'[p].s = s /\ op'[p].val = v
BY DEF Begin, TypeInv, TypeOK, Idle, Mutating, Running

LEMMA GoesWith ==
  ASSUME TypeInv, NEW p \in Procs, op[p].pc # "idle", NEW pc, NEW v, GoWith(p, pc, v)
  PROVE  /\ \A q \in Procs : q # p => op'[q] = op[q]
         /\ op'[p].kind = op[p].kind /\ op'[p].item = op[p].item /\ op'[p].pc = pc
         /\ op'[p].s = op[p].s /\ op'[p].val = v
<1>1. op[p] \in Op
  BY OpShape DEF TypeInv
<1> QED
  BY <1>1 DEF GoWith, TypeInv, TypeOK, Op

LEMMA Goes ==
  ASSUME TypeInv, NEW p \in Procs, op[p].pc # "idle", NEW pc, Go(p, pc)
  PROVE  /\ \A q \in Procs : q # p => op'[q] = op[q]
         /\ op'[p].kind = op[p].kind /\ op'[p].item = op[p].item /\ op'[p].pc = pc
         /\ op'[p].s = op[p].s /\ op'[p].val = op[p].val
<1>1. op[p] \in Op
  BY OpShape DEF TypeInv
<1> QED
  BY <1>1 DEF Go, TypeInv, TypeOK, Op

(* Whose step it is does not make another's flush less due. *)
LEMMA DirtyKept ==
  ASSUME NEW p \in Procs, \A q \in Procs : q # p => op'[q] = op[q],
         \/ op[p].pc \notin {"answered", "flushing"}
         \/ op[p].kind \notin {"updateAndFlush", "purge"}
         \/ op'[p].pc \in {"answered", "flushing"} /\ op'[p].kind = op[p].kind
  PROVE  Dirty => Dirty'
BY DEF Dirty

(* Steps that change neither the cache nor the server. *)
LEMMA BeginsAside ==
  ASSUME Overlapping, OverlapInv, Calls', NEW p \in Procs, NEW kind, NEW i \in Keys, NEW pc,
         NEW s, NEW v, Begin(p, kind, i, pc, s, v), UNCHANGED <<cache, db>>,
         (pc = "locked" /\ kind \notin {"update", "delete"}) \/ pc = "returned"
  PROVE  Sound'
<1>1. /\ \A q \in Procs : q # p => op'[q] = op[q]
      /\ op[p].pc = "idle" /\ op'[p].kind = kind /\ op'[p].item = i /\ op'[p].pc = pc
  BY Begins DEF OverlapInv, Basis
<1>2. Alone(p, i) /\ ~Unfinished(p, i) /\ ~Unfinished(p, i)' /\ (Dirty => Dirty')
  BY <1>1, DirtyKept DEF Alone, Unfinished
<1> QED
  BY <1>1, <1>2, BystanderStep

LEMMA BeginsReturned ==
  ASSUME Overlapping, OverlapInv, NEW p \in Procs, NEW kind, NEW i \in Keys, NEW pc, NEW s, NEW v,
         Begin(p, kind, i, pc, s, v), UNCHANGED <<cache, db>>,
         (pc = "locked" /\ kind = "get") \/ pc = "returned"
  PROVE  Sound'
<1>1. /\ \A q \in Procs : q # p => op'[q] = op[q]
      /\ op'[p].kind = kind /\ op'[p].pc = pc
  BY Begins DEF OverlapInv, Basis
<1>2. Calls'
  BY <1>1, CallsKept DEF OverlapInv, Basis, Mutating, Running
<1> QED
  BY <1>2, BeginsAside

LEMMA ServeGetSound ==
  ASSUME Overlapping, OverlapInv, NEW p \in Procs, ServeGet(p)
  PROVE  Sound'
<1>0. PICK i \in Keys : i = op[p].item
  BY Kinded DEF OverlapInv, ServeGet
<1>1. /\ op[p].pc = "locked" /\ op[p].kind = "get" /\ cache' = cache /\ db' = db
      /\ \/ GoWith(p, "answered", db[i])
         \/ GoWith(p, "returned", Err)
  BY <1>0 DEF ServeGet
<1>2. /\ \A q \in Procs : q # p => op'[q] = op[q]
      /\ op'[p].kind = "get" /\ op'[p].item = i
      /\ (op'[p].pc = "answered" /\ op'[p].val = db[i]) \/ op'[p].pc = "returned"
  BY <1>0, <1>1, GoesWith DEF OverlapInv, Basis
<1>4. Calls'
  BY <1>2, CallsKept DEF OverlapInv, Basis, Mutating, Running
<1>5. Alone(p, i) /\ ~Unfinished(p, i) /\ ~Unfinished(p, i)' /\ (Dirty => Dirty')
  BY <1>0, <1>1, <1>2, DirtyKept DEF Alone, Unfinished
<1>6. op'[p].pc = "answered" => op'[p].kind = "get" /\ op'[p].val = db[i]
  BY <1>2
<1> QED
  BY <1>1, <1>4, <1>5, <1>6, BystanderStep

LEMMA ReturnSound ==
  ASSUME Overlapping, OverlapInv, NEW p \in Procs,
         Return(p) \/ CloseOrganization(p)
  PROVE  Sound'
<1>0. PICK i \in Keys : i = op[p].item
  BY Kinded DEF OverlapInv, Return, CloseOrganization
<1>1. /\ op[p].pc \in {"returned", "closing"} /\ cache' = cache /\ db' = db
      /\ Return(p) \/ Go(p, "returned")
  BY DEF Return, CloseOrganization
<1>2. /\ \A q \in Procs : q # p => op'[q] = op[q]
      /\ op'[p].pc = "idle" \/ (op'[p].pc = "returned" /\ op'[p].item = i)
  <2>1. CASE Return(p)
    BY <2>1 DEF Return, OverlapInv, Basis, TypeInv, TypeOK, Idle
  <2>2. CASE Go(p, "returned")
    BY <1>0, <1>1, <2>2, Goes DEF OverlapInv, Basis
  <2> QED
    BY <1>1, <2>1, <2>2
<1>4. Calls'
  BY <1>2, CallsKept DEF OverlapInv, Basis, Mutating, Running
<1>5. Alone(p, i) /\ ~Unfinished(p, i) /\ ~Unfinished(p, i)' /\ (Dirty => Dirty')
  BY <1>0, <1>1, <1>2, DirtyKept DEF Alone, Unfinished
<1>6. op'[p].pc = "answered" => op'[p].kind = "get" /\ op'[p].val = db[i]
  BY <1>2
<1> QED
  BY <1>1, <1>4, <1>5, <1>6, BystanderStep

(* A lock that was just taken, on an item nobody is about to save. *)
LEMMA NewLock ==
  ASSUME NEW p \in Procs, NEW i \in Keys, Alone(p, i), op'[p].pc = "locked",
         NEW kind \in Kinds, NEW s \in FreshSentinel(kind), cache'[i] = LockEntry(s)
  PROVE  /\ Right(i)' /\ SaversRight(i)'
         /\ IsLock(cache[i])' /\ cache'[i].s = s /\ ~cache'[i].bumped /\ s.kind = kind
         /\ cache'[i].tag # "item"
<1>1. /\ IsLock(cache[i])' /\ cache'[i].s = s /\ ~cache'[i].bumped /\ s.kind = kind
      /\ cache'[i].tag # "item"
  BY DEF IsLock, LockEntry, FreshSentinel
<1>2. ASSUME NEW q \in Procs, op'[q].pc = "answered", op'[q].s # NoLock
      PROVE  cache'[i] # LockEntry(op'[q].s)
  <2>1. q # p /\ op'[q] = op[q]
    BY <1>2 DEF Alone
  <2>2. op[q].s # s
    BY <1>2, <2>1, Fresh
  <2> QED
    BY <1>1, <2>1, <2>2 DEF LockEntry
<1> QED
  BY <1>1, <1>2 DEF Right, SaversRight, SaverRight

LEMMA GetMissSound ==
  ASSUME Overlapping, OverlapInv, NEW p \in Procs, NEW i \in Keys, GetMiss(p, i)
  PROVE  Sound'
<1>1. PICK s \in FreshSentinel("read") :
        Begin(p, "get", i, "locked", s, Nil) /\ cache' = LockOnMiss(cache, i, s)
  BY DEF GetMiss
<1>2. /\ \A q \in Procs : q # p => op'[q] = op[q]
      /\ op[p].pc = "idle" /\ op'[p].kind = "get" /\ op'[p].pc = "locked" /\ op'[p].item = i
  BY <1>1, Begins DEF OverlapInv, Basis
<1>3. /\ cache[i] = EmptyEntry /\ db' = db
      /\ \A j \in Keys : cache'[j] = IF j = i THEN LockEntry(s) ELSE cache[j]
  BY <1>1 DEF GetMiss, LockOnMiss, Put, OverlapInv, Basis, TypeInv, TypeOK
<1>4. Alone(p, i) /\ (Dirty => Dirty')
  BY <1>2, <1>3, DirtyKept DEF Alone
<1>5. /\ Right(i)' /\ SaversRight(i)'
      /\ IsLock(cache[i])' /\ cache'[i].s = s /\ s.kind = "read"
  BY <1>2, <1>3, <1>4, NewLock DEF Kinds
<1>6. db'[i] # Nil => \A q \in Procs : ~Unfinished(q, i)'
  <2>1. db[i] # Nil => \A q \in Procs : ~Unfinished(q, i)
    BY <1>3, Bare DEF EmptyEntry
  <2> QED
    BY <1>2, <1>3, <2>1 DEF Unfinished
<1>7. OverlapAt(i)'
  BY <1>5, <1>6 DEF OverlapAt, Covered, Shielded, DeleteHeld, DeleteLocked
<1>8. Calls'
  BY <1>2, CallsKept DEF OverlapInv, Basis, Mutating, Running
<1> QED
  BY <1>4, <1>7, <1>8, Elsewhere DEF Sound

(* An update or a delete that gets the lock covers the item from then on;  *)
(* one that does not finds it covered by the delete that has it.           *)
LEMMA TakeLockSound ==
  ASSUME Overlapping, OverlapInv, NEW p \in Procs, NEW kind \in Mutations, NEW i \in Keys,
         NEW v \in Values \cup {Nil}, TakeLock(p, kind, i, v)
  PROVE  Sound'
<1> DEFINE sk == SentinelKind(IF kind = "updateAndFlush" THEN "update" ELSE kind)
<1>1. PICK s \in FreshSentinel(sk) :
        /\ Begin(p, kind, i, "locked", Granted(cache, s, <<i>>), v)
        /\ cache' = WriteSentinel(cache, s, <<i>>)
  BY DEF TakeLock
<1>2. /\ kind \in {"update", "delete", "updateAndFlush"} /\ MayMutate(kind, i) /\ db' = db
      /\ sk \in Kinds /\ sk # "read" /\ (sk = "delete" <=> kind = "delete")
  BY DEF TakeLock, Overlapping, Flushing, SentinelKind, Kinds
<1> HIDE DEF sk
<1>3. s \in Sentinel /\ s.kind = sk
  BY <1>2 DEF FreshSentinel, Sentinel
<1> DEFINE g == Granted(cache, s, <<i>>)
<1>4. /\ \A q \in Procs : q # p => op'[q] = op[q]
      /\ op[p].pc = "idle" /\ ~Mutating(p) /\ op'[p].kind = kind /\ op'[p].item = i
      /\ op'[p].pc = "locked" /\ op'[p].s = g
  BY <1>1, Begins DEF OverlapInv, Basis
<1>5. Calls'
  BY <1>2, <1>4, CallsBegin DEF OverlapInv, Basis
<1>6. cache \in [Keys -> Entry]
  BY DEF OverlapInv, Basis, TypeInv, TypeOK
<1>7. \/ /\ g = s /\ ~DeleteLocked(i)
         /\ \A j \in Keys : cache'[j] = IF j = i THEN LockEntry(s) ELSE cache[j]
      \/ g = NoLock /\ cache' = cache /\ DeleteLocked(i)
  <2>1. \/ /\ g = s /\ cache' = Put(cache, {i}, LockEntry(s)) /\ ~DeleteLocked(i)
        \/ g = NoLock /\ cache' = cache /\ DeleteLocked(i)
    BY <1>1, <1>2, <1>3, <1>6, WriteSentinelOne DEF DeleteLocked
  <2> QED
    BY <1>6, <2>1 DEF Put
<1> HIDE DEF g
<1>8. Alone(p, i) /\ (Dirty => Dirty')
  BY <1>2, <1>4, <1>7, DirtyKept DEF Alone
<1>9. \A q \in Procs : Unfinished(q, i)' <=> Unfinished(q, i) \/ (q = p /\ kind # "updateAndFlush")
  BY <1>2, <1>4 DEF Unfinished
<1>10. OverlapAt(i) /\ ~Unfinished(p, i)
  BY <1>4 DEF OverlapInv, Unfinished
<1>11. kind = "updateAndFlush" => \A q \in Procs : ~Unfinished(q, i)
  BY <1>2, TwoRivals DEF Unfinished, Mutating, Running, Flushing
<1>12. ASSUME g = s, ~DeleteLocked(i), cache'[i] = LockEntry(s) PROVE OverlapAt(i)'
  <2>1. /\ Right(i)' /\ SaversRight(i)'
        /\ IsLock(cache[i])' /\ cache'[i].s = s /\ ~cache'[i].bumped /\ s.kind = sk
    BY <1>2, <1>4, <1>8, <1>12, NewLock
  <2>2. Covered(i)'
    BY <1>4, <1>9, <1>11, <1>12, <2>1 DEF Covered
  <2>3. Shielded(i)'
    BY <1>2, <1>3, <1>4, <1>9, <1>10, <1>12, <2>1, NoLockIsNoSentinel
    DEF OverlapAt, Shielded, DeleteLocked
  <2>4. DeleteHeld(i)'
    BY <1>2, <1>3, <1>4, <1>9, <1>12, <2>1 DEF DeleteHeld, DeleteLocked
  <2> QED
    BY <2>1, <2>2, <2>3, <2>4 DEF OverlapAt
<1>13. ASSUME g = NoLock, cache' = cache, DeleteLocked(i) PROVE OverlapAt(i)'
  <2>1. Settler(i) => Settler(i)'
    BY <1>2, <1>4 DEF Settler
  <2>2. db[i] # Nil => \E w \in Procs : /\ Unfinished(w, i) /\ op[w].kind = "delete"
                                       /\ cache[i] = LockEntry(op[w].s)
    BY <1>10, <1>13 DEF OverlapAt, DeleteHeld
  <2>3. Covered(i)'
    <3> SUFFICES ASSUME db[i] # Nil
                 PROVE  /\ IsLock(cache[i]) /\ ~cache[i].bumped
                        /\ \E w \in Procs : Unfinished(w, i)' /\ op'[w].s = cache[i].s
      BY <1>2, <1>13 DEF Covered
    <3>1. PICK w \in Procs : Unfinished(w, i) /\ cache[i] = LockEntry(op[w].s)
      BY <2>2
    <3> QED
      BY <1>4, <1>9, <1>10, <1>13, <3>1 DEF DeleteLocked, LockEntry
  <2>4. Shielded(i)'
    BY <1>13 DEF Shielded, DeleteLocked
  <2>5. DeleteHeld(i)'
    BY <1>2, <1>4, <1>9, <1>10, <1>13, <2>2 DEF DeleteHeld
  <2>6. Right(i)'
    BY <1>13 DEF Right, DeleteLocked, IsLock
  <2>7. SaversRight(i)'
    BY <1>2, <1>4, <1>8, <1>10, <1>13, <2>1 DEF OverlapAt, SaversRight, SaverRight
  <2> QED
    BY <2>3, <2>4, <2>5, <2>6, <2>7 DEF OverlapAt
<1>14. OverlapAt(i)'
  BY <1>7, <1>12, <1>13
<1> QED
  BY <1>5, <1>8, <1>14, Elsewhere DEF Sound

LEMMA BeginUnlockedSound ==
  ASSUME Overlapping, OverlapInv, NEW p \in Procs, NEW kind \in Mutations, NEW i \in Keys,
         NEW v \in Values \cup {Nil}, BeginUnlocked(p, kind, i, v)
  PROVE  Sound'
<1>1. /\ Begin(p, kind, i, "locked", NoLock, v) /\ UNCHANGED <<cache, db>>
      /\ MayMutate(kind, i) /\ kind \notin {"update", "delete"}
  BY DEF BeginUnlocked
<1>2. /\ \A q \in Procs : q # p => op'[q] = op[q]
      /\ ~Mutating(p) /\ op'[p].kind = kind /\ op'[p].item = i /\ op'[p].pc = "locked"
  BY <1>1, Begins DEF OverlapInv, Basis
<1>3. Calls'
  BY <1>1, <1>2, CallsBegin DEF OverlapInv, Basis
<1> QED
  BY <1>1, <1>3, BeginsAside

(* Right and SaversRight hold of every item while a flush is due. *)
LEMMA DirtyIsRight ==
  ASSUME NEW i \in Keys, Dirty'
  PROVE  Right(i)' /\ SaversRight(i)'
BY DEF Right, SaversRight, SaverRight

(* The server carries out an update: unless a delete holds the item its    *)
(* caller can still save or clear what is in the cache.                    *)
LEMMA ServeUpdate ==
  ASSUME Overlapping, OverlapInv, NEW p \in Procs, NEW i \in Keys, Alone(p, i),
         Unfinished(p, i), op[p].kind = "update", db[i] # Nil, cache' = cache,
         db'[i] = op[p].val, op'[p].kind = "update", op'[p].pc = "answered", op'[p].s = op[p].s,
         op'[p].val = op[p].val
  PROVE  OverlapAt(i)'
<1>1. OverlapAt(i)
  BY DEF OverlapInv
<1>2. /\ \A q \in Procs : op'[q].s = op[q].s /\ op'[q].kind = op[q].kind
      /\ \A q \in Procs : Unfinished(q, i)' <=> Unfinished(q, i)
  BY DEF Alone, Unfinished
<1>3. Covered(i)'
  BY <1>1, <1>2 DEF OverlapAt, Covered, Only
<1>4. Shielded(i)' /\ DeleteHeld(i)'
  BY <1>1, <1>2 DEF OverlapAt, Shielded, DeleteHeld, DeleteLocked
<1>5. CASE op[p].s # NoLock
  <2>1. Settler(i)'
    BY <1>5 DEF Settler, Alone
  <2>2. Right(i)'
    BY <2>1 DEF Right
  <2>3. ASSUME NEW q \in Procs, op'[q].pc = "answered", op'[q].item = i, op'[q].s # NoLock,
               cache[i] = LockEntry(op'[q].s)
        PROVE  Dirty' \/ (op'[q].kind = "update" /\ Settler(i)')
    <3>1. CASE op'[q].kind = "get"
      <4>1. op[q].s.kind = "read"
        BY <1>2, <2>3, <3>1, Kinded DEF OverlapInv, Alone
      <4>2. \E w \in Procs : Unfinished(w, i) /\ op[w].s = op[q].s
        BY <1>1, <1>2, <2>3 DEF OverlapAt, Covered, LockEntry
      <4>3. \A w \in Procs : Unfinished(w, i) /\ op[w].s # NoLock => op[w].s.kind # "read"
        BY Kinded DEF OverlapInv, Unfinished
      <4> QED
        BY <1>2, <2>3, <4>1, <4>2, <4>3
    <3>2. CASE op'[q].kind = "update"
      BY <2>1, <3>2
    <3>3. CASE op'[q].kind = "updateAndFlush"
      BY <2>3, <3>3 DEF Dirty
    <3>4. op'[q].kind \in {"get", "update", "updateAndFlush"}
      <4>1. CASE q = p
        BY <4>1
      <4>2. CASE q # p
        BY <2>3, <4>2, Kinded DEF OverlapInv, Alone
      <4> QED
        BY <4>1, <4>2
    <3> QED
      BY <3>1, <3>2, <3>3, <3>4
  <2>4. SaversRight(i)'
    BY <2>3 DEF SaversRight, SaverRight
  <2> QED
    BY <1>3, <1>4, <2>2, <2>4 DEF OverlapAt
<1>6. CASE op[p].s = NoLock
  <2>1. DeleteLocked(i)
    BY <1>1, <1>6 DEF OverlapAt, Shielded
  <2>2. Right(i)'
    BY <2>1 DEF Right, DeleteLocked, IsLock
  <2>3. ASSUME NEW q \in Procs, op'[q].pc = "answered", op'[q].s # NoLock
        PROVE  cache'[i] # LockEntry(op'[q].s)
    <3>1. CASE q = p
      BY <1>6, <2>3, <3>1
    <3>2. CASE q # p
      <4>1. op'[q] = op[q]
        BY <3>2 DEF Alone
      <4>2. op[q].s.kind # "delete"
        BY <2>3, <4>1, Kinded DEF OverlapInv
      <4> QED
        BY <2>1, <4>1, <4>2 DEF DeleteLocked, LockEntry
    <3> QED
      BY <3>1, <3>2
  <2>4. SaversRight(i)'
    BY <2>3 DEF SaversRight, SaverRight
  <2> QED
    BY <1>3, <1>4, <2>2, <2>4 DEF OverlapAt
<1> QED
  BY <1>5, <1>6

(* The server carries out a delete, whose lock nobody can save over. *)
LEMMA ServeDelete ==
  ASSUME Overlapping, OverlapInv, NEW p \in Procs, NEW i \in Keys, Alone(p, i),
         Unfinished(p, i), op[p].kind = "delete", db[i] # Nil, cache' = cache,
         db'[i] = Nil, op'[p].pc = "closing"
  PROVE  OverlapAt(i)'
<1>1. DeleteLocked(i)
  BY DEF OverlapInv, OverlapAt, Shielded
<1>2. Covered(i)' /\ Shielded(i)' /\ DeleteHeld(i)'
  BY DEF Covered, Shielded, DeleteHeld
<1>3. Right(i)'
  BY <1>1 DEF Right, DeleteLocked, IsLock
<1>4. ASSUME NEW q \in Procs, op'[q].pc = "answered", op'[q].s # NoLock
      PROVE  cache'[i] # LockEntry(op'[q].s)
  <2>1. op'[q] = op[q]
    BY <1>4 DEF Alone
  <2>2. op[q].s.kind # "delete"
    BY <1>4, <2>1, Kinded DEF OverlapInv
  <2> QED
    BY <1>1, <2>1, <2>2 DEF DeleteLocked, LockEntry
<1>5. SaversRight(i)'
  BY <1>4 DEF SaversRight, SaverRight
<1> QED
  BY <1>2, <1>3, <1>5 DEF OverlapAt

(* The step of a mutation that flushes, before it has flushed. *)
LEMMA FlusherStep ==
  ASSUME Overlapping, OverlapInv, NEW p \in Procs, NEW i \in Keys, Alone(p, i),
         Mutating(p), op[p].kind \in Flushing, op'[p].kind = op[p].kind, Dirty',
         db[i] = Nil => db'[i] = Nil,
         DeleteLocked(i)' => DeleteLocked(i)
  PROVE  OverlapAt(i)'
<1>1. \A q \in Procs : ~Unfinished(q, i)
  BY AloneWhenFlushing DEF OverlapInv, Basis
<1>2. \A q \in Procs : ~Unfinished(q, i)'
  BY <1>1 DEF Unfinished, Alone, Flushing
<1>3. Covered(i)' /\ Shielded(i)'
  BY <1>2 DEF Covered, Shielded
<1>4. DeleteHeld(i)'
  BY <1>1 DEF DeleteHeld, OverlapInv, OverlapAt
<1> QED
  BY <1>3, <1>4, DirtyIsRight DEF OverlapAt

LEMMA ServeMutationSound ==
  ASSUME Overlapping, OverlapInv, NEW p \in Procs, ServeMutation(p)
  PROVE  Sound'
<1>0. PICK i \in Keys : i = op[p].item
  BY Kinded DEF OverlapInv, ServeMutation
<1>1. /\ op[p].pc = "locked" /\ op[p].kind \in {"update", "delete", "updateAndFlush", "purge"}
      /\ op[p].kind = "update" => op[p].val \in Values
      /\ op[p].kind = "delete" => op[p].val = Nil
  BY Kinded DEF OverlapInv, ServeMutation, Flushing
<1>2. /\ cache' = cache
      /\ \/ db[i] # Nil /\ Apply(p) /\ Go(p, AfterSuccess(op[p].kind))
         \/ db[i] = Nil /\ GoWith(p, "closing", Err) /\ db' = db
  BY <1>0, <1>1 DEF ServeMutation, Overlapping, Acceptable
<1>3. /\ \A q \in Procs : q # p => op'[q] = op[q]
      /\ op'[p].kind = op[p].kind /\ op'[p].item = i /\ op'[p].s = op[p].s
  BY <1>0, <1>1, <1>2, Goes, GoesWith DEF OverlapInv, Basis
<1>4. /\ \A j \in Keys : j # i => db'[j] = db[j]
      /\ Apply(p) => db'[i] = op[p].val
  BY <1>0, <1>2 DEF Apply, OverlapInv, Basis, TypeInv, TypeOK
<1>5. Alone(p, i)
  BY <1>0, <1>2, <1>3, <1>4 DEF Alone
<1>6. op'[p].pc \in {"answered", "flushing", "closing"}
  BY <1>1, <1>2, Goes, GoesWith DEF OverlapInv, Basis, AfterSuccess
<1>7. Calls'
  BY <1>0, <1>1, <1>3, <1>6, CallsKept DEF OverlapInv, Basis, Mutating, Running
<1>8. Dirty => Dirty'
  BY <1>1, <1>3, DirtyKept
<1>9. CASE db[i] = Nil /\ GoWith(p, "closing", Err) /\ db' = db
  <2>1. op'[p].pc = "closing"
    BY <1>1, <1>9, GoesWith DEF OverlapInv, Basis
  <2>2. ~Unfinished(p, i)'
    BY <2>1 DEF Unfinished
  <2> QED
    BY <1>2, <1>5, <1>7, <1>8, <1>9, <2>1, <2>2, BystanderStep
<1>10. ASSUME db[i] # Nil, Apply(p), Go(p, AfterSuccess(op[p].kind)) PROVE OverlapAt(i)'
  <2>1. op'[p].pc = AfterSuccess(op[p].kind) /\ op'[p].val = op[p].val
    BY <1>1, <1>10, Goes DEF OverlapInv, Basis
  <2>2. CASE op[p].kind = "update"
    <3>1. op'[p].pc = "answered"
      BY <2>1, <2>2 DEF AfterSuccess
    <3>2. Unfinished(p, i)
      BY <1>0, <1>1, <2>2 DEF Unfinished
    <3> QED
      BY <1>2, <1>3, <1>4, <1>5, <1>10, <2>1, <2>2, <3>1, <3>2, ServeUpdate
  <2>3. CASE op[p].kind = "delete"
    <3>1. op'[p].pc = "closing"
      BY <2>1, <2>3 DEF AfterSuccess
    <3>2. Unfinished(p, i)
      BY <1>0, <1>1, <2>3 DEF Unfinished
    <3> QED
      BY <1>1, <1>2, <1>4, <1>5, <1>10, <2>3, <3>1, <3>2, ServeDelete
  <2>4. CASE op[p].kind \in {"updateAndFlush", "purge"}
    <3>1. op'[p].pc \in {"answered", "flushing"}
      BY <2>1, <2>4 DEF AfterSuccess
    <3>2. Dirty'
      BY <1>3, <2>4, <3>1 DEF Dirty
    <3>3. Mutating(p) /\ op[p].kind \in Flushing
      BY <1>1, <2>4 DEF Mutating, Running, Flushing
    <3>4. DeleteLocked(i)' => DeleteLocked(i)
      BY <1>2 DEF DeleteLocked
    <3> QED
      BY <1>3, <1>5, <1>10, <3>2, <3>3, <3>4, FlusherStep
  <2> QED
    BY <1>1, <2>2, <2>3, <2>4
<1>11. CASE db[i] # Nil /\ Apply(p) /\ Go(p, AfterSuccess(op[p].kind))
  BY <1>5, <1>7, <1>8, <1>10, <1>11, Elsewhere DEF Sound
<1> QED
  BY <1>2, <1>9, <1>11

LEMMA SaveGetSound ==
  ASSUME Overlapping, OverlapInv, NEW p \in Procs, SaveGet(p)
  PROVE  Sound'
<1>0. PICK i \in Keys : i = op[p].item
  BY Kinded DEF OverlapInv, SaveGet
<1>1. /\ op[p].pc = "answered" /\ op[p].kind = "get" /\ cache' = Saved(p) /\ db' = db
      /\ Go(p, "returned") /\ op[p].val \in Values
      /\ op[p].s # NoLock => op[p].s.kind = "read"
  BY Kinded DEF OverlapInv, SaveGet, DependencyFails, Overlapping
<1>2. /\ \A q \in Procs : q # p => op'[q] = op[q]
      /\ op'[p].kind = "get" /\ op'[p].item = i /\ op'[p].pc = "returned"
  BY <1>0, <1>1, Goes DEF OverlapInv, Basis
<1>3. /\ \A j \in Keys : j # i => cache'[j] = cache[j]
      /\ \/ cache' = cache
         \/ /\ op[p].s # NoLock /\ cache[i] = LockEntry(op[p].s)
            /\ cache'[i] = ItemEntry(op[p].val)
  BY <1>0, <1>1, SavedOne DEF OverlapInv, Basis
<1>4. Calls'
  BY <1>2, CallsKept DEF OverlapInv, Basis, Mutating, Running
<1>5. Alone(p, i) /\ ~Unfinished(p, i) /\ ~Unfinished(p, i)' /\ (Dirty => Dirty')
  BY <1>0, <1>1, <1>2, <1>3, DirtyKept DEF Alone, Unfinished
<1>6. CASE cache' = cache
  BY <1>1, <1>2, <1>4, <1>5, <1>6, BystanderStep
<1>7. ASSUME op[p].s # NoLock, cache[i] = LockEntry(op[p].s), cache'[i] = ItemEntry(op[p].val)
      PROVE  OverlapAt(i)'
  <2>1. /\ cache'[i].tag = "item" /\ ~IsLock(cache[i])' /\ cache'[i].val = op[p].val
        /\ \A s : cache'[i] # LockEntry(s)
    BY <1>7 DEF ItemEntry, IsLock, LockEntry
  <2>2. db[i] # Nil => \A q \in Procs : ~Unfinished(q, i)
    BY <1>1, <1>5, <1>7, Uncontested
  <2>3. \A q \in Procs : Unfinished(q, i)' => Unfinished(q, i)
    BY <1>2 DEF Unfinished
  <2>4. Covered(i)' /\ Shielded(i)'
    BY <1>1, <2>2, <2>3 DEF Covered, Shielded
  <2>5. DeleteHeld(i)' /\ SaversRight(i)'
    BY <2>1 DEF DeleteHeld, DeleteLocked, SaversRight, SaverRight
  <2>6. Dirty \/ op[p].val = db[i]
    BY <1>0, <1>1, <1>7 DEF OverlapInv, OverlapAt, SaversRight, SaverRight
  <2>7. Right(i)'
    BY <1>1, <1>5, <2>1, <2>6 DEF Right
  <2> QED
    BY <2>4, <2>5, <2>7 DEF OverlapAt
<1> QED
  BY <1>3, <1>4, <1>5, <1>6, <1>7, Elsewhere DEF Sound

(* The save of an update, by what it finds in the cache. *)
LEMMA SaveUpdate ==
  ASSUME Overlapping, OverlapInv, NEW p \in Procs, NEW i \in Keys, Alone(p, i),
         op[p].pc = "answered", op[p].kind = "update", op[p].item = i, cache' = Saved(p),
         db' = db, op'[p].pc = "closing"
  PROVE  OverlapAt(i)'
<1>1. OverlapAt(i) /\ Unfinished(p, i)
  BY DEF OverlapInv, Unfinished
<1>2. /\ \A q \in Procs : q # p => op'[q] = op[q]
      /\ \A q \in Procs : Unfinished(q, i)' <=> Unfinished(q, i) /\ q # p
  BY DEF Alone, Unfinished
<1>3. Dirty => Dirty'
  BY <1>2, DirtyKept
<1>4. op[p].s # NoLock => op[p].s \in Sentinel /\ op[p].s.kind = "write"
  BY Kinded DEF OverlapInv
<1>5. \A q, r \in Procs : Unfinished(q, i)' /\ Unfinished(r, i)' => q = r
  BY <1>1, <1>2 DEF Unfinished, Mutating, Running, OverlapInv, Basis, Calls, FewMutators
<1>6. db[i] = Nil => Covered(i)' /\ Shielded(i)' /\ DeleteHeld(i)'
  BY DEF Covered, Shielded, DeleteHeld
<1>7. db[i] = Nil => ~Settler(i)
  BY NoItemNoSettler DEF OverlapInv
<1>8. \A q \in Procs : op[q].pc = "answered" /\ op[q].s # NoLock => op[q].s.kind # "delete"
  BY Kinded DEF OverlapInv
<1>9. ASSUME db[i] = Nil, cache'[i] = cache[i] PROVE OverlapAt(i)'
  <2>1. ~Unfinished(p, i)' /\ db'[i] = db[i]
    BY <1>2
  <2> QED
    BY <1>3, <1>9, <2>1, Bystander
<1>10. ASSUME db[i] # Nil, cache'[i] = cache[i], DeleteLocked(i) PROVE OverlapAt(i)'
  <2>1. PICK w \in Procs : /\ Unfinished(w, i) /\ op[w].kind = "delete"
                           /\ cache[i] = LockEntry(op[w].s)
    BY <1>1, <1>10 DEF OverlapAt, DeleteHeld
  <2>2. /\ w # p /\ op'[w] = op[w] /\ Unfinished(w, i)' /\ op[w].s = cache[i].s
        /\ ~cache[i].bumped
    BY <1>2, <2>1 DEF LockEntry
  <2>3. Covered(i)'
    BY <1>10, <2>2 DEF Covered, DeleteLocked
  <2>4. Shielded(i)' /\ DeleteHeld(i)'
    BY <1>10, <2>1, <2>2 DEF Shielded, DeleteHeld, DeleteLocked
  <2>5. Right(i)'
    BY <1>10 DEF Right, DeleteLocked, IsLock
  <2>6. SaversRight(i)'
    BY <1>2, <1>8, <1>10 DEF SaversRight, SaverRight, DeleteLocked, LockEntry
  <2> QED
    BY <2>3, <2>4, <2>5, <2>6 DEF OverlapAt
<1>11. ASSUME op[p].s # NoLock, cache[i] = LockEntry(op[p].s), cache'[i] = ItemEntry(op[p].val)
       PROVE  OverlapAt(i)'
  <2>1. /\ cache'[i].tag = "item" /\ ~IsLock(cache[i])' /\ cache'[i].val = op[p].val
        /\ \A s : cache'[i] # LockEntry(s)
    BY <1>11 DEF ItemEntry, IsLock, LockEntry
  <2>2. Covered(i)'
    BY <1>5, <2>1 DEF Covered, Only
  <2>3. ~DeleteLocked(i)
    BY <1>4, <1>11 DEF DeleteLocked, LockEntry
  <2>4. Shielded(i)'
    BY <1>1, <1>2, <2>3 DEF OverlapAt, Shielded
  <2>5. DeleteHeld(i)' /\ SaversRight(i)'
    BY <2>1 DEF DeleteHeld, DeleteLocked, SaversRight, SaverRight
  <2>6. Dirty \/ Settler(i)
    BY <1>1, <1>11 DEF OverlapAt, SaversRight, SaverRight
  <2>7. Dirty \/ op[p].val = db[i] \/ Settler(i)'
    BY <1>2, <2>6 DEF Settler
  <2>8. Right(i)'
    BY <1>3, <2>1, <2>7 DEF Right
  <2> QED
    BY <2>2, <2>4, <2>5, <2>8 DEF OverlapAt
<1>12. ASSUME cache'[i] = EmptyEntry, db[i] # Nil => Only(p, i) PROVE OverlapAt(i)'
  BY <1>2, <1>12, Cleared DEF Only, EmptyEntry
<1>13. ASSUME cache[i].tag = "item", cache'[i] = cache[i], cache[i].val = op[p].val, Only(p, i)
       PROVE  OverlapAt(i)'
  <2>1. Covered(i)' /\ Shielded(i)'
    BY <1>2, <1>13 DEF Covered, Shielded, Only
  <2>2. DeleteHeld(i)' /\ SaversRight(i)'
    BY <1>13 DEF DeleteHeld, DeleteLocked, IsLock, SaversRight, SaverRight, LockEntry
  <2>3. Settler(i) => op[p].val = db[i]
    BY <1>13 DEF Settler, Only, Unfinished
  <2>4. Right(i)'
    BY <1>1, <1>3, <1>13, <2>3 DEF OverlapAt, Right
  <2> QED
    BY <2>1, <2>2, <2>4 DEF OverlapAt
<1>14. ASSUME op[p].s # NoLock, IsLock(cache[i]), cache[i].s.kind = "write", cache[i].s # op[p].s,
              cache'[i] = Bumped(cache[i])
       PROVE  OverlapAt(i)'
  <2>1. /\ IsLock(cache[i])' /\ cache'[i].s = cache[i].s /\ cache'[i].bumped
        /\ cache'[i].tag # "item" /\ \A s : cache'[i] # LockEntry(s)
    BY <1>14 DEF Bumped, IsLock, LockEntry
  <2>2. Right(i)' /\ DeleteHeld(i)' /\ SaversRight(i)'
    BY <1>14, <2>1 DEF Right, DeleteHeld, DeleteLocked, SaversRight, SaverRight
  <2>3. ASSUME db[i] # Nil PROVE \E w \in Procs : Unfinished(w, i)' /\ op'[w].s = cache'[i].s
    <3>1. PICK w \in Procs : Unfinished(w, i) /\ op[w].s = cache[i].s
      BY <1>1, <1>14, <2>3 DEF OverlapAt, Covered, IsLock
    <3> QED
      BY <1>2, <1>14, <2>1, <3>1
  <2>4. Covered(i)'
    BY <1>5, <2>1, <2>3 DEF Covered, Only
  <2>5. ~DeleteLocked(i)
    BY <1>14 DEF DeleteLocked
  <2>6. Shielded(i)'
    BY <1>1, <1>2, <2>5 DEF OverlapAt, Shielded
  <2> QED
    BY <2>2, <2>4, <2>6 DEF OverlapAt
<1>15. db[i] # Nil => \/ cache[i].tag = "item" /\ Only(p, i)
                      \/ /\ IsLock(cache[i]) /\ ~(cache[i].tag = "item")
                         /\ \E w \in Procs : Unfinished(w, i) /\ op[w].s = cache[i].s
                                             /\ (cache[i].bumped => Only(w, i))
  BY <1>1 DEF OverlapAt, Covered, IsLock
<1>16. CASE op[p].s = NoLock
  <2>1. cache'[i] = cache[i]
    BY <1>16 DEF Saved
  <2>2. db[i] # Nil => DeleteLocked(i)
    BY <1>1, <1>16 DEF OverlapAt, Shielded
  <2> QED
    BY <1>9, <1>10, <2>1, <2>2
<1>17. CASE op[p].s # NoLock
  <2>1. \/ cache[i] = LockEntry(op[p].s) /\ cache'[i] = ItemEntry(op[p].val)
        \/ cache[i].tag = "item" /\ cache'[i] = EmptyEntry
        \/ /\ IsLock(cache[i]) /\ cache[i].s = op[p].s /\ cache[i].bumped
           /\ cache'[i] = EmptyEntry
        \/ /\ IsLock(cache[i]) /\ cache[i].s.kind = "write" /\ cache[i].s # op[p].s
           /\ cache'[i] = Bumped(cache[i])
        \/ /\ cache'[i] = cache[i]
           /\ cache[i].tag = "item" => cache[i].val = op[p].val
           /\ IsLock(cache[i]) => cache[i].s.kind # "write"
    <3>1. PICK s : s = op[p].s
      OBVIOUS
    <3> QED
      BY <1>4, <1>17, <3>1, SavedWrite DEF OverlapInv, Basis
  <2>2. \A w \in Procs : Unfinished(w, i) /\ op[w].s # NoLock => op[w].s.kind # "read"
    BY Kinded DEF OverlapInv, Unfinished
  <2>3. \A w \in Procs : Unfinished(w, i) /\ op[w].s = op[p].s => w = p
    BY <1>17 DEF Unfinished, OverlapInv, Basis, Unique
  <2>4. CASE cache[i].tag = "item" /\ cache'[i] = EmptyEntry
    BY <1>12, <1>15, <2>4 DEF IsLock
  <2>5. CASE IsLock(cache[i]) /\ cache[i].s = op[p].s /\ cache[i].bumped /\ cache'[i] = EmptyEntry
    BY <1>12, <1>15, <2>3, <2>5
  <2>6. CASE /\ cache'[i] = cache[i]
             /\ cache[i].tag = "item" => cache[i].val = op[p].val
             /\ IsLock(cache[i]) => cache[i].s.kind # "write"
    <3>1. CASE db[i] # Nil /\ cache[i].tag = "item"
      BY <1>13, <1>15, <2>6, <3>1
    <3>2. ASSUME db[i] # Nil, cache[i].tag # "item" PROVE DeleteLocked(i)
      <4>1. IsLock(cache[i]) /\ \E w \in Procs : Unfinished(w, i) /\ op[w].s = cache[i].s
        BY <1>15, <3>2
      <4>2. cache[i].s \in Sentinel
        BY <4>1, EntryShape DEF OverlapInv, Basis, TypeInv, TypeOK, IsLock
      <4>3. cache[i].s.kind \in Kinds /\ cache[i].s # NoLock
        BY <4>2, NoLockIsNoSentinel DEF Sentinel
      <4> QED
        BY <2>2, <2>6, <4>1, <4>3 DEF DeleteLocked, Kinds
    <3> QED
      BY <1>9, <1>10, <2>6, <3>1, <3>2
  <2> QED
    BY <1>11, <1>14, <1>17, <2>1, <2>4, <2>5, <2>6
<1> QED
  BY <1>16, <1>17

LEMMA SaveMutationSound ==
  ASSUME Overlapping, OverlapInv, NEW p \in Procs, SaveMutation(p)
  PROVE  Sound'
<1>0. PICK i \in Keys : i = op[p].item
  BY Kinded DEF OverlapInv, SaveMutation
<1>1. /\ op[p].pc = "answered" /\ op[p].kind \in {"update", "updateAndFlush"}
      /\ cache' = Saved(p) /\ db' = db
      /\ Go(p, IF op[p].kind = "updateAndFlush" THEN "flushing" ELSE "closing")
  BY Kinded DEF OverlapInv, SaveMutation, DependencyFails, Overlapping
<1>2. /\ \A q \in Procs : q # p => op'[q] = op[q]
      /\ op'[p].kind = op[p].kind /\ op'[p].item = i
      /\ op'[p].pc = IF op[p].kind = "updateAndFlush" THEN "flushing" ELSE "closing"
  BY <1>0, <1>1, Goes DEF OverlapInv, Basis
<1>3. \A j \in Keys : j # i => cache'[j] = cache[j]
  BY <1>0, <1>1, SavedOne DEF OverlapInv, Basis
<1>4. Calls'
  BY <1>0, <1>1, <1>2, CallsKept DEF OverlapInv, Basis, Mutating, Running
<1>5. Alone(p, i) /\ (Dirty => Dirty')
  BY <1>0, <1>1, <1>2, <1>3, DirtyKept DEF Alone
<1>6. ASSUME op[p].kind = "update" PROVE OverlapAt(i)'
  BY <1>0, <1>1, <1>2, <1>5, <1>6, SaveUpdate
<1>7. ASSUME op[p].kind = "updateAndFlush" PROVE OverlapAt(i)'
  <2>1. Dirty'
    BY <1>2, <1>7 DEF Dirty
  <2>2. Mutating(p) /\ op[p].kind \in Flushing
    BY <1>1, <1>7 DEF Mutating, Running, Flushing
  <2>3. DeleteLocked(i)' => DeleteLocked(i)
    <3>1. CASE op[p].s = NoLock
      BY <1>1, <3>1 DEF Saved, DeleteLocked
    <3>2. CASE op[p].s # NoLock
      <4>1. op[p].s.kind = "write"
        BY <1>1, <1>7, <3>2, Kinded DEF OverlapInv
      <4>2. PICK s : s = op[p].s
        OBVIOUS
      <4>3. \/ cache'[i] = ItemEntry(op[p].val)
            \/ cache'[i] = EmptyEntry
            \/ cache[i].s.kind = "write" /\ cache'[i] = Bumped(cache[i])
            \/ cache'[i] = cache[i]
        BY <1>0, <1>1, <3>2, <4>1, <4>2, SavedWrite DEF OverlapInv, Basis
      <4> QED
        BY <4>3 DEF DeleteLocked, IsLock, ItemEntry, EmptyEntry, Bumped
    <3> QED
      BY <3>1, <3>2
  <2> QED
    BY <1>1, <1>2, <1>5, <2>1, <2>2, <2>3, FlusherStep
<1> QED
  BY <1>1, <1>4, <1>5, <1>6, <1>7, Elsewhere DEF Sound

(* A flush, with no other mutation in flight. *)
LEMMA FlushSound ==
  ASSUME Overlapping, OverlapInv, NEW p \in Procs, FlushAfter(p) \/ FlushCache(p)
  PROVE  Sound'
<1>1. \A j \in Keys : cache'[j].tag \notin {"item", "lock"}
  BY DEF FlushAfter, FlushCache, OverlapInv, Basis, TypeInv, TypeOK, Flush, Put, EmptyEntry
<1>2. CASE FlushAfter(p)
  <2>1. /\ op[p].pc = "flushing" /\ op[p].kind \in Flushing /\ Go(p, "closing")
    BY <1>2, Kinded DEF FlushAfter, OverlapInv, Flushing
  <2>2. /\ \A q \in Procs : q # p => op'[q] = op[q]
        /\ op'[p].kind = op[p].kind /\ op'[p].item = op[p].item /\ op'[p].pc = "closing"
    BY <2>1, Goes DEF OverlapInv, Basis
  <2>3. Calls'
    BY <2>1, <2>2, CallsKept DEF OverlapInv, Basis, Mutating, Running, Flushing
  <2>4. \A q \in Procs : \A j \in Keys : ~Unfinished(q, j)
    BY <2>1, AloneWhenFlushing DEF OverlapInv, Basis, Mutating, Running, Flushing
  <2>5. \A q \in Procs : \A j \in Keys : ~Unfinished(q, j)'
    BY <2>2, <2>4 DEF Unfinished
  <2> QED
    BY <1>1, <2>3, <2>5, Cleared DEF Sound
<1>3. CASE FlushCache(p)
  <2>1. op' = op /\ \A j \in Keys : MayMutate("flush", j)
    BY <1>3 DEF FlushCache
  <2>2. Calls'
    BY <2>1 DEF OverlapInv, Basis, Calls, FewMutators, Mutating, Running
  <2>3. ASSUME NEW q \in Procs, NEW j \in Keys PROVE ~Unfinished(q, j)'
    BY <2>1, TwoRivals DEF Unfinished, Mutating, Running, Flushing
  <2> QED
    BY <1>1, <2>2, <2>3, Cleared DEF Sound
<1> QED
  BY <1>2, <1>3

(* A call that closes gives its own lock back, and others have theirs. *)
LEMMA CloseSound ==
  ASSUME Overlapping, OverlapInv, NEW p \in Procs, Close(p)
  PROVE  Sound'
<1>0. PICK i \in Keys : i = op[p].item
  BY Kinded DEF OverlapInv, Close
<1>1. /\ op[p].pc = "closing" /\ db' = db /\ Go(p, "returned")
      /\ cache' = IF op[p].s = NoLock THEN cache ELSE ReleaseSentinel(cache, op[p].s, {i})
  BY <1>0 DEF Close
<1>2. /\ \A q \in Procs : q # p => op'[q] = op[q]
      /\ op'[p].kind = op[p].kind /\ op'[p].item = i /\ op'[p].pc = "returned"
  BY <1>0, <1>1, Goes DEF OverlapInv, Basis
<1>3. /\ \A j \in Keys : j # i => cache'[j] = cache[j]
      /\ \/ cache'[i] = cache[i]
         \/ op[p].s # NoLock /\ cache[i] = LockEntry(op[p].s) /\ cache'[i] = EmptyEntry
  BY <1>1 DEF ReleaseSentinel, Put, OverlapInv, Basis, TypeInv, TypeOK
<1>4. Calls'
  BY <1>2, CallsKept DEF OverlapInv, Basis, Mutating, Running
<1>5. Alone(p, i) /\ ~Unfinished(p, i) /\ ~Unfinished(p, i)' /\ (Dirty => Dirty')
  BY <1>0, <1>1, <1>2, <1>3, DirtyKept DEF Alone, Unfinished
<1>6. ASSUME cache'[i] = cache[i] PROVE OverlapAt(i)'
  <2>1. db'[i] = db[i] /\ op'[p].pc # "answered"
    BY <1>1, <1>2
  <2> QED
    BY <1>5, <1>6, <2>1, Bystander
<1>7. ASSUME op[p].s # NoLock, cache[i] = LockEntry(op[p].s), cache'[i] = EmptyEntry
      PROVE  OverlapAt(i)'
  <2>1. db[i] # Nil => \A q \in Procs : ~Unfinished(q, i)
    BY <1>1, <1>5, <1>7, Uncontested
  <2>2. db'[i] # Nil => \A q \in Procs : ~Unfinished(q, i)'
    BY <1>1, <1>2, <2>1 DEF Unfinished
  <2> QED
    BY <1>7, <2>2, Cleared DEF EmptyEntry
<1> QED
  BY <1>3, <1>4, <1>5, <1>6, <1>7, Elsewhere DEF Sound

(* What covers a mutation in flight does not expire. *)
LEMMA ExpireSound ==
  ASSUME Overlapping, OverlapInv, NEW i \in Keys, Expire(i)
  PROVE  Sound'
<1>1. Outlived(i) /\ db' = db /\ op' = op
  BY DEF Expire
<1>2. \A j \in Keys : cache'[j] = IF j = i THEN EmptyEntry ELSE cache[j]
  BY DEF Expire, Put, OverlapInv, Basis, TypeInv, TypeOK
<1>3. OverlapAt(i)
  BY DEF OverlapInv
<1>4. ASSUME NEW m \in Procs, Unfinished(m, i), db[i] # Nil PROVE FALSE
  <2>1. Running(m) /\ Mutating(m) /\ op[m].item = i
    BY <1>4 DEF Unfinished, Running, Mutating
  <2>2. CASE cache[i].tag = "item"
    <3>1. op[m].s # NoLock
      BY <1>3, <1>4, <2>2 DEF OverlapAt, Shielded, DeleteLocked, IsLock
    <3> QED
      BY <1>1, <2>1, <2>2, <3>1 DEF Outlived
  <2>3. CASE IsLock(cache[i]) /\ cache[i].tag # "item"
    <3>1. PICK w \in Procs : Unfinished(w, i) /\ op[w].s = cache[i].s
      BY <1>3, <1>4, <2>3 DEF OverlapAt, Covered
    <3>2. cache[i].s # NoLock
      BY <2>3, EntryShape, NoLockIsNoSentinel DEF OverlapInv, Basis, TypeInv, TypeOK, IsLock
    <3>3. Running(w) /\ op[w].item = i
      BY <3>1 DEF Unfinished, Running
    <3> QED
      BY <1>1, <2>3, <3>1, <3>2, <3>3 DEF Outlived
  <2> QED
    BY <1>3, <1>4, <2>2, <2>3 DEF OverlapAt, Covered, IsLock
<1>5. OverlapAt(i)'
  <2>1. db'[i] # Nil => \A q \in Procs : ~Unfinished(q, i)'
    BY <1>1, <1>4 DEF Unfinished
  <2> QED
    BY <1>2, <2>1, Cleared DEF EmptyEntry
<1>6. ASSUME NEW j \in Keys, j # i PROVE OverlapAt(j)'
  <2>1. OverlapAt(j) /\ cache'[j] = cache[j]
    BY <1>2, <1>6 DEF OverlapInv
  <2> QED
    BY <1>1, <2>1
    DEF OverlapAt, Covered, Shielded, DeleteHeld, DeleteLocked, Right, SaversRight, SaverRight,
        Unfinished, Only, Settler, Dirty
<1>7. Calls'
  BY <1>1 DEF OverlapInv, Basis, Calls, FewMutators, Mutating, Running
<1> QED
  BY <1>5, <1>6, <1>7 DEF Sound

LEMMA OverlapInit == Init => OverlapInv
<1> SUFFICES ASSUME Init PROVE OverlapInv
  OBVIOUS
<1>1. /\ \A p \in Procs : op[p].pc = "idle"
      /\ \A i \in Keys : cache[i].tag = "empty"
  BY DEF Init, Idle, EmptyEntry
<1>2. Unique /\ Calls
  BY <1>1 DEF Unique, Calls, FewMutators, Mutating, Running
<1>3. \A i \in Keys : OverlapAt(i)
  BY <1>1 DEF OverlapAt, Covered, Shielded, DeleteHeld, DeleteLocked, Right, SaversRight,
              SaverRight, Unfinished, IsLock
<1> QED
  BY <1>2, <1>3, TypeInvInit DEF OverlapInv, Basis

LEMMA OverlapNext == Overlapping /\ OverlapInv /\ [Next]_vars => OverlapInv'
<1> SUFFICES ASSUME Overlapping, OverlapInv, [Next]_vars PROVE Sound'
  BY TypeInvNext, UniqueNext DEF OverlapInv, Basis, Sound
<1>1. ASSUME NEW p \in Procs, NEW i \in Keys, GetHit(p, i) PROVE Sound'
  BY <1>1, BeginsReturned DEF GetHit
<1>2. ASSUME NEW p \in Procs, NEW i \in Keys, GetUnlocked(p, i) PROVE Sound'
  BY <1>2, BeginsReturned DEF GetUnlocked
<1>3. ASSUME NEW p \in Procs, NEW i \in Keys, NEW kind \in Mutations, NEW v \in Values \cup {Nil},
             AlreadyCached(p, kind, i, v)
      PROVE  Sound'
  BY <1>3, BeginsReturned DEF AlreadyCached
<1>4. ASSUME NEW p \in Procs, UndoSave(p) \/ SkipSave(p) \/ Crash(p) PROVE FALSE
  <2>1. op[p].pc # "undoing" /\ ~(op[p].pc = "answered" /\ op[p].kind = "create")
    BY Kinded DEF OverlapInv, Basis, Calls
  <2> QED
    BY <1>4, <2>1 DEF UndoSave, SkipSave, Crash, Overlapping
<1>5. ASSUME UNCHANGED vars PROVE Sound'
  <2>1. cache' = cache /\ db' = db /\ op' = op
    BY <1>5 DEF vars
  <2>2. Calls'
    BY <2>1 DEF OverlapInv, Basis, Calls, FewMutators, Mutating, Running
  <2>3. ASSUME NEW j \in Keys PROVE OverlapAt(j)'
    BY <2>1
    DEF OverlapInv, OverlapAt, Covered, Shielded, DeleteHeld, DeleteLocked, Right, SaversRight,
        SaverRight, Unfinished, Only, Settler, Dirty
  <2> QED
    BY <2>2, <2>3 DEF Sound
<1> QED
  BY <1>1, <1>2, <1>3, <1>4, <1>5, GetMissSound, ServeGetSound, SaveGetSound, TakeLockSound,
     BeginUnlockedSound, ServeMutationSound, SaveMutationSound, FlushSound, CloseSound,
     ReturnSound, ExpireSound
  DEF Next

(* CoherentWhenQuiet: with at most two mutations of an item in flight, and *)
(* one that flushes alone, an item found in the cache when no mutation of  *)
(* it is in flight is the server's.                                        *)
THEOREM QuietCoherence ==
  ASSUME Overlapping
  PROVE  Spec => []CoherentWhenQuiet
<1>1. OverlapInv /\ [Next]_vars => OverlapInv'
  BY OverlapNext
<1>2. OverlapInv => CoherentWhenQuiet
  <2> SUFFICES ASSUME OverlapInv, NEW i \in Keys, cache[i].tag = "item", Rivals("get", i) = {}
               PROVE  cache[i].val = db[i]
    BY DEF CoherentWhenQuiet
  <2>1. \A q \in Procs : Mutating(q) => op[q].item # i /\ op[q].kind \notin Flushing
    BY DEF Rivals
  <2>2. ~Settler(i) /\ ~Dirty
    BY <2>1 DEF Settler, Dirty, Mutating, Running, Flushing
  <2> QED
    BY <2>2 DEF OverlapInv, OverlapAt, Right
<1> QED
  BY <1>1, <1>2, OverlapInit, PTL DEF Spec

=============================================================================
