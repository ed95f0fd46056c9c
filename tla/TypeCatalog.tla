---------------------------- MODULE TypeCatalog ----------------------------
(***************************************************************************)
(* The edge types and object types of a tenant (authz/client.go): a        *)
(* catalog that is read one by one and listed as a whole, page by page,    *)
(* while types are created, updated and deleted.                           *)
(*                                                                         *)
(* A list locks the key of the collection, saves the types of every page   *)
(* under their own keys on the strength of that one lock, follows the      *)
(* cursor to the next page, and at the end saves the collection.  The      *)
(* server orders the types by id and answers each page from what it holds  *)
(* at that moment.  The name of a type is left out: its key is locked and  *)
(* written together with the type's own.                                   *)
(***************************************************************************)
EXTENDS Naturals, Sequences, FiniteSets

CONSTANTS Procs,       \* goroutines that share a cache
          Ids,         \* the uuids sentinels are made from
          Last,        \* types are numbered 1 .. Last, as their ids are ordered
          Defs,        \* what a type can be
          Nil,         \* no type
          PageSize,    \* types the server puts on a page
          Asked,       \* of which types each goroutine lists: a list may be of
                       \*   the types of one organization
          Faults,      \* what the server may do to a mutation
          Mixes        \* bound: the kinds of call that are made together, on
                       \*   types of what kind, how many mutations at a time

ASSUME TypeCatalogAssumption ==
  /\ Last \in Nat \ {0}
  /\ Nil \notin Defs
  /\ PageSize \in Nat \ {0}
  /\ Asked \in [Procs -> SUBSET (1 .. Last)]
  /\ Faults \subseteq {"refused", "lost"}
  /\ Mixes \subseteq [calls    : SUBSET {"get", "list", "create", "update", "delete"},
                      defs     : SUBSET Defs,
                      mutators : Nat]

Types == 1 .. Last
Cursors == 0 .. Last  \* the type a page starts after; 0 is the beginning
Collection == 0       \* the key of the whole catalog
AllKeys == Cursors

(* What a list of types is: their ids in order, and what each of them is. *)
Listings == UNION {[S -> Defs] : S \in SUBSET Types}
INSTANCE CacheProvider WITH Keys <- AllKeys, Values <- Defs \cup Listings

VARIABLES cache,  \* the in-memory provider
          db,     \* the server's types
          op,     \* what each goroutine is doing
          during, \* what the server held since each list began (history)
          mix     \* the mix this behaviour exercises

vars == <<cache, db, op, during, mix>>

Mutations == {"create", "update", "delete"}
Op ==
  [kind   : {"get", "list"} \cup Mutations,
   pc     : {"locked", "answered", "clearing", "flushing", "closing"},
   type   : Cursors,               \* of a list, the cursor
   s      : Sentinel \cup {NoLock},
   val    : Defs \cup {Nil},
   page   : Listings,
   more   : BOOLEAN,               \* the server has a next page
   found  : Listings,
   again  : BOOLEAN]               \* a type was on two pages
Idle == [pc |-> "idle"]

Held == {t \in Types : db[t] # Nil}
Catalog == [t \in Held |-> db[t]]

Init == /\ cache = [k \in AllKeys |-> EmptyEntry]
        /\ mix \in Mixes
        /\ db \in [Types -> mix.defs \cup {Nil}]
        /\ op = [p \in Procs |-> Idle]
        /\ during = [p \in Procs |-> {}]

-----------------------------------------------------------------------------
Running(p) == op[p] # Idle
Mutating(p) == Running(p) /\ op[p].kind \in Mutations

InUse == {op[p].s.id : p \in {q \in Procs : Running(q) /\ op[q].s # NoLock}}
           \cup {cache[k].s.id : k \in {l \in AllKeys : IsLock(cache[l])}}
FreshSentinel(kind) == [kind : {kind}, id : Ids \ InUse]

Empty == [t \in {} |-> Nil]
Begin(p, kind, t, s, v) ==
  /\ op[p] = Idle /\ kind \in mix.calls
  /\ op' = [op EXCEPT ![p] = [kind |-> kind, pc |-> "locked", type |-> t, s |-> s, val |-> v,
                              page |-> Empty, more |-> FALSE, found |-> Empty, again |-> FALSE]]
  /\ during' = [during EXCEPT ![p] = IF kind = "list" THEN {Catalog} ELSE {}]
Become(p, o) == op' = [op EXCEPT ![p] = o]
Goto(p, pc) == Become(p, [op[p] EXCEPT !.pc = pc])
At(p, kind, pc) == Running(p) /\ op[p].kind = kind /\ op[p].pc = pc

(* A read goes to the server unless the key holds what it looks for; it    *)
(* gets a lock only if the key is empty.                                   *)
BeginRead(p, kind, k) ==
  /\ cache[k].tag # "item"
  /\ \E s \in IF cache[k] = EmptyEntry THEN FreshSentinel("read") ELSE {NoLock} :
       /\ Begin(p, kind, k, s, Nil)
       /\ cache' = IF s = NoLock THEN cache ELSE LockOnMiss(cache, k, s)
  /\ UNCHANGED db

-----------------------------------------------------------------------------
(* GetEdgeType and GetObjectType. *)
BeginGet(p, t) == BeginRead(p, "get", t)

ServeGet(p) ==
  /\ At(p, "get", "locked")
  /\ IF db[op[p].type] = Nil
       THEN Become(p, Idle)
       ELSE Become(p, [op[p] EXCEPT !.pc = "answered", !.val = db[op[p].type]])
  /\ UNCHANGED <<cache, db, during>>

SavedItem(store, lkey, t, v, s) ==
  IF s = NoLock THEN store ELSE SetValue(store, lkey, {t}, v, s)

SaveGet(p) ==
  LET o == op[p] IN
  /\ At(p, "get", "answered")
  /\ cache' = SavedItem(cache, o.type, o.type, o.val, o.s)
  /\ Become(p, Idle)
  /\ UNCHANGED <<db, during>>

-----------------------------------------------------------------------------
BeginList(p) == BeginRead(p, "list", Collection)

(* The server's page after a cursor: the first types beyond it, of those   *)
(* the query asks for.                                                     *)
After(p, c) == {t \in Held \cap Asked[p] : t > c}
PageOf(p, c) == {t \in After(p, c) : Cardinality({u \in After(p, c) : u < t}) < PageSize}

ServePage(p) ==
  LET o == op[p]
      S == PageOf(p, o.type)
  IN
  /\ At(p, "list", "locked")
  /\ Become(p, [o EXCEPT !.pc = "answered", !.page = [t \in S |-> db[t]],
                         !.more = S # After(p, o.type)])
  /\ UNCHANGED <<cache, db, during>>

(* An error ends the list and leaves its lock behind. *)
FailPage(p) ==
  /\ At(p, "list", "locked")
  /\ Become(p, Idle)
  /\ during' = [during EXCEPT ![p] = {}]
  /\ UNCHANGED <<cache, db>>

(* Wrong variant: the cursor stays where it is. *)
AdvanceCursor_Staying(o) == o.type

(* Paginator.AdvanceCursor: the next page starts after this one's last. *)
AdvanceCursor(o) == CHOOSE t \in DOMAIN o.page : \A u \in DOMAIN o.page : u <= t

(* SaveItemsFromCollectionToCache decides for every type of the page by    *)
(* the lock of the collection.  It saves them one after the other; here a  *)
(* page is saved in one step.                                              *)
SavePage(p) ==
  LET o == op[p]
      found == [t \in DOMAIN o.found \cup DOMAIN o.page |->
                  IF t \in DOMAIN o.page THEN o.page[t] ELSE o.found[t]]
  IN
  /\ At(p, "list", "answered")
  /\ cache' = IF cache[Collection] = LockEntry(o.s)
                THEN [k \in AllKeys |-> IF k \in DOMAIN o.page THEN ItemEntry(o.page[k]) ELSE cache[k]]
                ELSE cache
  /\ Become(p, [o EXCEPT !.pc = IF o.more THEN "locked" ELSE "closing",
                         !.type = IF o.more THEN AdvanceCursor(o) ELSE @,
                         !.again = @ \/ DOMAIN o.found \cap DOMAIN o.page # {},
                         !.found = found, !.page = Empty, !.more = FALSE])
  /\ UNCHANGED <<db, during>>

(* Wrong variant: the last page is taken for the collection, as in         *)
(* ListEdgesBetweenObjects.                                                *)
Gathered_LastPage(o) == [t \in {u \in DOMAIN o.found : u > o.type} |-> o.found[t]]

(* What is saved as the collection: everything all the pages held. *)
Gathered(o) == o.found

SaveList(p) ==
  /\ At(p, "list", "closing")
  /\ cache' = IF op[p].s = NoLock THEN cache
              ELSE SetValue(cache, Collection, {Collection}, Gathered(op[p]), op[p].s)
  /\ Become(p, Idle)
  /\ during' = [during EXCEPT ![p] = {}]
  /\ UNCHANGED db

-----------------------------------------------------------------------------
MayMutate == Cardinality({p \in Procs : Mutating(p)}) < mix.mutators

LockKeys(t) == <<t, Collection>>

(* CreateEdgeType and UpdateEdgeType lock the type and the collection. *)
BeginPut(p, kind, t) ==
  /\ MayMutate
  /\ \E s \in FreshSentinel("write"), v \in mix.defs :
       /\ Begin(p, kind, t, Granted(cache, s, LockKeys(t)), v)
       /\ cache' = WriteSentinel(cache, s, LockKeys(t))
  /\ UNCHANGED db

(* DeleteEdgeType takes no lock. *)
BeginDelete(p, t) ==
  /\ MayMutate
  /\ Begin(p, "delete", t, NoLock, Nil)
  /\ UNCHANGED <<cache, db>>

Acceptable(o) == (o.kind = "create") = (db[o.type] = Nil)

ServeMutation(p) ==
  LET o == op[p] IN
  /\ Mutating(p) /\ o.pc = "locked"
  /\ \/ /\ Acceptable(o)
        /\ db' = [db EXCEPT ![o.type] = o.val]
        /\ during' = [q \in Procs |-> IF Running(q) /\ op[q].kind = "list"
                                        THEN during[q] \cup {[t \in {u \in Types : db'[u] # Nil} |-> db'[t]]}
                                        ELSE {}]
        /\ \/ Goto(p, IF o.kind = "delete" THEN "flushing" ELSE "answered")
           \/ "lost" \in Faults /\ Goto(p, "closing")
     \/ /\ ~Acceptable(o) \/ "refused" \in Faults
        /\ Goto(p, "closing")
        /\ UNCHANGED <<db, during>>
  /\ UNCHANGED cache

SavePut(p) ==
  LET o == op[p] IN
  /\ Mutating(p) /\ o.pc = "answered"
  /\ cache' = SavedItem(cache, o.type, o.type, o.val, o.s)
  /\ Goto(p, IF o.s = NoLock THEN "closing" ELSE "clearing")
  /\ UNCHANGED <<db, during>>

(* DeleteValue, forced: a tombstone for the collection. *)
ClearCollection(p) ==
  /\ Mutating(p) /\ op[p].pc = "clearing"
  /\ cache' = Put(cache, {Collection}, Tombstone)
  /\ Goto(p, IF op[p].kind = "update" THEN "flushing" ELSE "closing")
  /\ UNCHANGED <<db, during>>

(* UpdateEdgeType and DeleteEdgeType flush the whole cache. *)
FlushCache(p) ==
  /\ Mutating(p) /\ op[p].pc = "flushing"
  /\ cache' = Flush(cache, TRUE)
  /\ Goto(p, "closing")
  /\ UNCHANGED <<db, during>>

Close(p) ==
  LET o == op[p] IN
  /\ Mutating(p) /\ o.pc = "closing"
  /\ cache' = IF o.s = NoLock THEN cache ELSE ReleaseSentinel(cache, o.s, {o.type, Collection})
  /\ Become(p, Idle)
  /\ UNCHANGED <<db, during>>

(* Timing assumptions, as in ItemCache: a lock outlives the call that      *)
(* holds it, an item and a tombstone the mutations in flight.              *)
Outlived(k) ==
  IF IsLock(cache[k])
    THEN \A p \in Procs : Running(p) => op[p].s # cache[k].s
    ELSE \A p \in Procs : ~Mutating(p)
Expire(k) ==
  /\ cache[k] # EmptyEntry /\ Outlived(k)
  /\ cache' = Put(cache, {k}, EmptyEntry)
  /\ UNCHANGED <<db, op, during>>

ListStep(p) == ServePage(p) \/ FailPage(p) \/ SavePage(p) \/ SaveList(p)
Step ==
  \/ \E p \in Procs :
       \/ ServeGet(p) \/ SaveGet(p)
       \/ BeginList(p) \/ ListStep(p)
       \/ ServeMutation(p) \/ SavePut(p) \/ ClearCollection(p) \/ FlushCache(p) \/ Close(p)
       \/ \E t \in Types :
            \/ BeginGet(p, t) \/ BeginDelete(p, t)
            \/ BeginPut(p, "create", t) \/ BeginPut(p, "update", t)
  \/ \E k \in AllKeys : Expire(k)
Next == Step /\ UNCHANGED mix
Spec == Init /\ [][Next]_vars

-----------------------------------------------------------------------------
(* Every variable keeps the shape the comments above give it. *)
TypeOK == /\ cache \in [AllKeys -> Entry]
          /\ db \in [Types -> Defs \cup {Nil}]
          /\ op \in [Procs -> Op \cup {Idle}]
          /\ mix \in Mixes
          /\ during \in [Procs -> SUBSET Listings]

(* Once no mutation is in flight a cached type and the cached collection   *)
(* are the server's, although a list gathers its pages at different times  *)
(* and saves the types of each under a lock that is not theirs.  (A list   *)
(* of one organization's types is saved as the collection, too: the        *)
(* property is one of callers that ask for all types.)                     *)
CoherentWhenQuiet ==
  (\A p \in Procs : ~Mutating(p)) =>
    /\ \A t \in Types : cache[t].tag = "item" => cache[t].val = db[t]
    /\ cache[Collection].tag = "item" => cache[Collection].val = Catalog

(* A list names every type it asks for that was there all the while, none  *)
(* twice, and nothing that was not there at some moment of the call.       *)
ListsWhatWasThere ==
  \A p \in Procs : At(p, "list", "closing") =>
    LET found == op[p].found IN
    /\ ~op[p].again
    /\ \A t \in DOMAIN found : \E c \in during[p] : t \in DOMAIN c /\ c[t] = found[t]
    /\ \A t \in Asked[p] : (\A c \in during[p] : t \in DOMAIN c) => t \in DOMAIN found
=============================================================================
