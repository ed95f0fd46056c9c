-------------------------- MODULE SentinelManager --------------------------
(***************************************************************************)
(* The locking rules of the write-through cache: what a cache key can hold *)
(* and who may replace it (infra/cache/writethrough_sentinel_manager.go).  *)
(*                                                                         *)
(* The code keeps everything in one string per key and tells the cases     *)
(* apart by prefix.  Here an entry is a record whose tag is the case:      *)
(*   empty      the key is missing                                         *)
(*   item       a serialised item                                          *)
(*   lock       a sentinel, "sentinel_" + kind + uuid; "bumped" says that  *)
(*              other writers appended their own sentinel to it, after     *)
(*              which it still has the owner's sentinel as a prefix but is *)
(*              no longer equal to it                                      *)
(*   tombstone  the mark an invalidation leaves for a short time           *)
(*   list       the set of keys kept under a dependency key                *)
(***************************************************************************)
CONSTANTS Ids,      \* the uuids sentinels are made from
          Values,   \* the contents an item can have
          Keys      \* the cache keys

Kinds == {"read", "write", "delete"}

Sentinel == [kind : Kinds, id : Ids]
NoLock == [kind |-> "none"]

EmptyEntry == [tag |-> "empty"]
ItemEntry(v) == [tag |-> "item", val |-> v]
LockEntry(s) == [tag |-> "lock", s |-> s, bumped |-> FALSE]
(* Wrong variant: the mark of a conflict replaces the owner's sentinel. *)
Bumped_Ownerless(e) == [tag |-> "lock", s |-> NoLock, bumped |-> TRUE]
Bumped(e) == [tag |-> "lock", s |-> e.s, bumped |-> TRUE]
Tombstone == [tag |-> "tombstone"]
ListEntry(ks) == [tag |-> "list", keys |-> ks]

Entry == {EmptyEntry, Tombstone}
           \cup {ItemEntry(v) : v \in Values}
           \cup [tag : {"lock"}, s : Sentinel, bumped : BOOLEAN]
           \cup {ListEntry(ks) : ks \in SUBSET Keys}

IsLock(e) == e.tag = "lock"
IsSentinelValue(e) == e.tag \in {"lock", "tombstone"}

(* GenerateSentinel: creates and updates share the write prefix. *)
SentinelKind(stype) ==
  CASE stype = "read"               -> "read"
    [] stype \in {"create", "update"} -> "write"
    [] stype = "delete"             -> "delete"

(* Wrong variant: a write waits for the reads that hold the key. *)
CanSetSentinel_WritesYieldToReads(curr, s) ==
  s.kind # "read" /\ ~(IsLock(curr) /\ curr.s.kind \in {"read", "delete"})

(* Wrong variant: a write takes over the lock of a delete too. *)
CanSetSentinel_WritesOverDeletes(curr, s) == s.kind # "read"

(* A read never takes a lock somebody holds, and a delete keeps its lock   *)
(* against everybody; otherwise the newcomer takes the lock over.          *)
CanSetSentinelGivenCurrVal(curr, s) ==
  /\ s.kind # "read"
  /\ ~(IsLock(curr) /\ curr.s.kind = "delete")

(* Wrong variant: any lock of the caller's kind counts as the caller's. *)
CanSetValue_AnyLockOfKind(curr, v, s) ==
  IF IsLock(curr) /\ curr.s.kind = s.kind THEN "set" ELSE "none"

(* Wrong variant: a write that lost its lock to another leaves that alone. *)
CanSetValue_NoConflict(curr, v, s) ==
  CASE curr = LockEntry(s) -> "set"
    [] s.kind = "write" /\ curr.tag = "item" /\ curr.val # v -> "clear"
    [] OTHER -> "none"

(* What SetValue is to do with a key that holds curr, for the operation    *)
(* that owns s and wants to store v: "set" it, "clear" it, mark the        *)
(* "conflict" on the lock that is there, or leave it alone ("none").       *)
CanSetValue(curr, v, s) ==
  CASE curr = LockEntry(s) -> "set"
    [] s.kind = "write" /\ curr.tag = "item" /\ curr.val # v -> "clear"
    [] s.kind = "write" /\ IsLock(curr) /\ curr.s = s /\ curr.bumped -> "clear"
    [] s.kind = "write" /\ IsLock(curr) /\ curr.s.kind = "write"
         /\ curr.s # s -> "conflict"
    [] OTHER -> "none"

=============================================================================
