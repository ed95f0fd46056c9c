# The authorization SDK's cache, specified

`src/` is the Go SDK of an authorization service.  Its client (`src/authz`)
answers most calls from a write-through cache (`src/infra/cache`), which several
goroutines, or several processes over Redis, share without holding any lock while a
request is at the server.  The cache is where the program is hard, and it is
where most of this project is; the HTTP client, the log transport, the rate limiter and
the parsers of filters and of where clauses are the other parts with behaviour of their own.

## The system

| part | state | operations | what has to be right |
|---|---|---|---|
| sentinel manager `infra/cache/writethrough_sentinel_manager.go` | none: rules on the string a key holds | `GenerateSentinel`, `CanSetSentinelGivenCurrVal`, `CanSetValue` | of two operations on one key, the one whose value may be old must not store it |
| in-memory provider `inmemory_provider.go` | one map, one mutex | `WriteSentinel`, `ReleaseSentinel`, `SetValue`, `GetValue(s)`, `DeleteValue`, `AddDependency`, `ClearDependencies`, `Flush` | each is one critical section and treats all keys of an item alike |
| Redis provider `redis_provider.go` | the Redis server | the same, as WATCH/MULTI transactions retried on conflict; rate limit slots | the transactions do what the critical sections do; no more slots than the limit |
| cache API `api.go`, `methods.go` | none of its own | take lock, request, save, record dependencies, undo, release; the same for collections | no stale item, no deleted item, no lock forgotten |
| authorization client `authz/client.go` | the provider, the JSON client | create, get, update, delete and list of object types, edge types, objects, edges, organizations; `CheckAttribute`; `FlushCache` | callers see what the server has |
| key names `authz/cache_name_provider.go` | none | which keys an item is stored under, locks and depends on | every key that can hold an item is locked by whoever changes it |
| JSON client `infra/jsonclient` | bearer token, options | request with retry, token refresh, create-if-not-exists | what is reported was true; a call sends its own options and a fresh token |
| pagination `infra/pagination` | cursor, filter | advance, join filters, parse them | every item once; a filter whose values are plain is accepted and means what it says |
| selector parser `idp/userstore/selectorconfigparser` | automata, a channel, the stack of an LALR parser | a goroutine scans a where clause, the caller parses the tokens | what is accepted is a clause, what is refused is none, every clause is answered |
| log transports `infra/logtransports` | queue, counters, a background goroutine | write, drain, flush, close | no record lost or counted twice; close ends |
| IDP, tokenizer, OIDC, JWT, models, tracing, sets | none to speak of | wrappers and data types | – |

The parts of the cache meet in the shared store only.  A call reads or locks its keys (one
critical section), sends a request, stores the answer (another), enters the
item's key in the dependency lists of other items (another), undoes the save if that
fails (another) and releases what it locked (another).  Between any two of these
every other call may run, a TTL may run out, the cache may be flushed, a request may
fail before or after the server handled it, and a process may go away.

The hazards this leaves, each at its line and with the properties that are about it, are
listed in `PROJECT.json`.

## Modules

    SentinelManager      what a key can hold, and who may replace it
      CacheProvider      the provider's operations as functions on a store
        ItemCache        calls on single items, by concurrent callers   -> refines AtomicItems
          MCItemCache      for TLC
          ItemCacheProofs
        EdgeCache        edges, collections of edges, objects; dependency lists
          MCEdgeCache
          EdgeCacheProofs
        TypeCatalog      types, read one by one and listed page by page
          MCTypeCatalog
          TypeCatalogProofs
        RedisItems       an item in Redis, command by command           -> commits CacheProvider's functions
          MCRedisItems
          RedisItemsProofs
    AtomicItems          what callers are promised: no cache at all
    RateLimiter          rate limit slots, as separate Redis commands
      MCRateLimiter
      RateLimiterProofs
    JsonClient           requests, retries, the shared options and token
      MCJsonClient
      JsonClientProofs
    FilterParser         the filter a Paginator puts together, and its parser
      MCFilterParser
    SelectorTokens       the tokens of a where clause: regular expressions and automata
    SelectorGrammar      the grammar of parser.y: the sequences of tokens that are clauses
      SelectorParser     the scanner's goroutine and the LALR parser, against both
        MCSelectorParser
    LogTransport         the queue and the background goroutine of a log transport
      MCLogTransport
      LogTransportProofs
    LogServerTransport   what is kept for the log server, and when it is posted
      MCLogServerTransport
      LogServerTransportProofs

Four modules compose CacheProvider with callers, each with what the others abstract from: ItemCache has
every kind of call and fault on items with one key; EdgeCache has several keys,
collections and dependency lists; TypeCatalog has lists of several pages that save
their items one by one; RedisItems has the provider's operations in their single commands.

### SentinelManager, CacheProvider

The code keeps a string under each key and tells the cases apart by prefix; here an
entry is a record with a tag: `empty`, `item`, `lock`, `tombstone`, `list`.
`CanSetValue` returns up to four flags in the code; no branch sets more than one, so
here it returns one word.  A conflict appends the second writer's sentinel to
the first one's; `bumped` says that this has happened, which is all that later
comparisons can tell (the prefix still is the owner's, the string no longer
equals the sentinel).

An operation of the in-memory provider holds `keysMutex` throughout, so it is one
function from stores to stores.  `WriteSentinel` decides by its first key and skips others
that are tombstoned; `SetValue` decides by the lock key for all keys; `AddDependency` goes through
the lists in order, fails at the first tombstone with those before it already written, and drops the
names of keys that have gone; `ClearDependencies` removes whatever the named keys hold, locks included.
TTLs are steps of the module that owns the store.

### ItemCache

`cache` is the provider's store, `db` the server's items, `op[p]` what caller `p` is
doing.  The steps of a call are the code's critical sections and its request:

| step | code |
|---|---|
| `GetHit`, `GetMiss`, `GetUnlocked` | `GetItemFromCache`, `getItemFromCacheWorker` |
| `ServeGet`, `SaveGet` | the request and the save of `GetItem` |
| `AlreadyCached`, `TakeLock`, `BeginUnlocked` | the start of `CreateItem`, `UpdateObject`, `DeleteObject`, `DeleteObjectType`, ... |
| `ServeMutation` | the request, which may be refused, or handled and its reply lost |
| `SaveMutation`, `SkipSave`, `UndoSave` | `SaveItemToCache` and its undo when `AddDependency` fails |
| `FlushAfter`, `FlushCache` | `UpdateEdgeType`, `DeleteObjectType`, `DeleteEdgeType`; `FlushCache` |
| `Close`, `CloseOrganization` | the deferred `ReleaseItemLock`, which `UpdateOrganization` has not |
| `Expire`, `Crash` | a TTL that runs out; a process that goes away |

Abstractions.  An item is named by its primary key; its other keys, the collections it is listed
in and the dependency lists are in EdgeCache and RedisItems.  A sentinel's uuid
is fresh with respect to the store and the calls in progress.  Go's
`GetItem` after a hit, and an error of the provider itself, do nothing further.

Timing, here and in EdgeCache, TypeCatalog and RedisItems.  A lock (60 or 70 s) outlives the call that holds it; an item (minutes) and
a tombstone (5 s) last as long as the mutations that are in flight;
`api.go:31` says as much of tombstones ("The tombstone expiration time is set to longest time a
server side operation can take"); a dependency list outlives what it names.  `Outlived` is that assumption, and
nothing else about time is assumed: any other entry may vanish at any moment.
A request whose client has given up is handled before the call ends or never.

Faults, chosen per run: `refused` (the server fails without handling the request),
`lost` (handled, the reply lost), `dependency` (`AddDependency` fails, which undoes the
save), `crash` (the caller goes away; of a delete, `crashDelete`).  `Mutations` selects the kinds of call of an instance, and
`MaxMutators` bounds how many mutations that can disturb each other are in flight, and `FlushesAlone` keeps those that flush from overlapping others.

### EdgeCache

An edge is stored under its primary key and its full name (source, target, type); the edges of an
object, the edges between two objects and the path by which one object has an attribute on another have keys of
their own.  Whatever has to go when object or edge `x` goes is in the list under `DependencyKey(x)`.

| step | code |
|---|---|
| `Miss`, `ServeRead`, `FailRead` | `GetItemFromCache`, `GetItemsFromCache`, and the requests of `GetEdge`, `FindEdge`, `ListEdgesOnObject`, `ListEdgesBetweenObjects`, `CheckAttribute` |
| `LinkCollection`, `StoreCollection` | `SaveItemsToCollection`: all lists first, then the value |
| `StoreEdge`, `ClearCollections`, `Unlink`, `LinkEdge`, `LinkName`, `UndoSave` | `saveItemToCacheWorker`: the value first, then the collections it belongs to, then the lists, and the undo |
| `StartMutation`, `TakeLock`, `TombstoneList` | the lookup of the old edge, `TakeItemLock`, `TakePerItemCollectionLock`, and the `ClearDependencies` of `takeLockWorker` |
| `ServeMutation`, `FailMutation`, `StoreObject`, `Close` | the request; the save of `UpdateObject`; the deferred release |
| `FlushCache`, `Expire` | `FlushCache`; TTLs |

`LockKey` and `LockedKeys` name the keys by which each call decides, where the traps are: `FindEdge` stores an edge
by the lock of the collection of all edges; `DeleteEdge` locks the name only if it found the edge cached; the
release of a collection read names the object's collection and its own.  Left out: the objects' own names and
collections, paths of more than one edge (a path depends on each object and edge along it, so that one edge has
every kind of dependency), answers of more than one page, which are not cached, and the keys that record recent
changes for follower reads.

`Listings(o)` is what the server may answer a list of an object's edges with.  `ListEdgesOnObject` sends the caller's pagination options along, a
filter among them, and stores an answer of one page as the list of all the object's edges (`client.go:1046`, `client.go:1083`).  With
`Filtered = TRUE` the answer is any part of the edges; with `Filtered = FALSE` no caller filters.  Which of the results below need the
latter is said at each.

### TypeCatalog

`ListEdgeTypes` (and `ListObjectTypes`) in the steps in which other goroutines see it: `BeginList` locks the collection, `ServePage` and
`SavePage` ask for a page and store its types one by one under the collection's lock, `AdvanceCursor`
moves on, `SaveList` stores the whole.  Beside it `BeginGet` ... `SaveGet`, the put (`CreateEdgeType`, `UpdateEdgeType`: `BeginPut`,
`ServeMutation`, `SavePut`, `ClearCollection`, for an update `FlushCache`, `Close`) and the delete, which takes no lock and
flushes.  The server orders the types by id and answers each page from what it holds at that moment.  `Asked[p]` are the types `p` lists: with the
option of an organization the query names it, but the list is cached under the key of them all (`client.go:646`).
`during[p]` is a history variable: the catalogs there were since `p`'s list began.

### RedisItems

Each of the provider's operations as the commands it sends: WATCH and the reads (`Read...`), then the EXEC
(`TakeLock`, `SetLocked`, `ClearList`, `Release`), which commits only if nothing *watched* was touched in between.  `Watched` says what is
watched, which is less than what is written: `WriteSentinel` watches its first key, `SetValue` the lock key, `ClearDependencies` the list.
A conflict makes the operation start over, with the keys it had dropped still dropped, or give up (`MayGiveUp`).
`AddDependency`, `GetValue`'s SETNX and the forced `DeleteValue` are single commands; `Flush` deletes what a SCAN has found.
The item has a name, a collection it appears in and one dependency list, so that every operation has keys it does not watch.

`CommitsAtomically` is a refinement step by step: when `WriteSentinel`, `SetValue`, `ReleaseSentinel` or `ClearDependencies` commits, the store
becomes what the corresponding function of CacheProvider would make of the store *at that moment*, not of
the one that was read.  Where it would not, the property says exactly how the transactions differ.

### RateLimiter

`ReserveRateLimitSlot` and `ReleaseRateLimitSlot` of the Redis provider: each is
several Redis commands, and each command is a step.

| step | code |
|---|---|
| `Reserve` | the `MGET` of a reservation and the refusal when the limit is reached |
| `TakeSlot`, `SetExpiry`, `GiveBack` | `INCR`, `EXPIRE` if the bucket was missing, `DECR` if there were too many after all |
| `Release` | the `MGET` of a release |
| `FreeSlot`, `UndoFree` | `DECR` of the earliest bucket left, and `INCR` when that bucket had been emptied since |
| `Abandon`, `Lapse`, `Tick`, `Expire` | an error or a caller that goes away; a slot the window has passed; the caller's clock; a TTL |

`count`, `live` and `volatile` are the buckets (an `INCR` makes a missing one, without a
TTL), `op[p]` the local variables of a call.  The code leaves the window to its caller, who
names the buckets of the window it is in; here the windows are a sequence through which `Tick`
goes, and three things are assumed of the caller, none of which the code enforces: the window
does not move while a call is under way, a slot is released only while the window reaches its
bucket, and the TTL outlives the window.  The faults `straggler` and `expiry` lift the first
and the last.  With `straggler` the limit is exceeded: a slow call adds its slot to a bucket
that is no longer the last, next to what later calls already counted.  A call with `takeSlot = false` and one
refused by its `MGET` change nothing and are left out.

### JsonClient

Every caller makes one call on one item of the server.  `CheckToken`, `LockOptions`, `GetToken`, `TokenNetworkError`,
`TokenRefused` and `Apply` are `refreshBearerToken` (the check under one read lock, the token source asked under
another, the token put in under the write lock); `Clone` and `Send` the clone of the options and the request made with it; `Receive` and
`NetworkError` what `makeRequest` does with the outcome, the retries among it; `Handle` is the server.  A request stays in
`network` when its client gives up on it, and may be handled at any later time or never.  A
token expires at any moment, except between its fetch and its `Apply`.  `Shared` says which fields of a clone share their
storage with the options: the headers are a map that is copied, the cookies and the per-request headers slices
that are not, so that what is appended lands in the common array if that has room (`SpareCapacity`).

Fairness: weak for each caller's steps (`CallStep`): goroutines are scheduled, the token source answers or
fails, and net/http reports a broken connection.  The server owes nothing: `Handle` is not fair.

### FilterParser

A filter is a sequence of tokens.  `Filter` is the option of that name, `CreateFilterQuery` the beginning of the parse,
`parseStartNested` ... `parseUnexpected` the parser's steps, `EndParse` its test at the end, and `ApplyAgain` the same options
given to the Paginator of another call.  The tree is a sequence of nodes that name each other by number, since the
code's nodes are changed in place: `rotateLeft` copies a node and leaves the parents its children know.

A text `'KEY',OP,'VALUE'` is one token, of the kind that the expression of `filter_parser.go:76` makes of it.  `'[^']+',[A-Z]+,'.*?[^\\]'[)]` is not
anchored, wants one character at least in a value, none of them a line break, and the last none of a backslash; it ends at the first quote and
parenthesis after that.  So of a leaf that is `empty`, or whose value ends in a backslash (`slash`), the match runs on through the text
behind it (`Closings`, `LeafEnds`); one it cannot match (`odd`, `newline`) is passed over for one further on (`LeafStart`), or it starts in
the middle of one (`Misread`); and with a character of two bytes (`wide`) the parser skips as much too much (`Skipped`).  Where it goes on
after a leaf that begins further on depends on how long texts are: `Landings` leaves it open.  A line break as the last character of a value
is left out.

`Plain(n)` is the reference: the filters of up to `n` tokens of the form that `options.go:28` gives, with values that are *plain*: ASCII, not
empty, of one line, and with no backslash at the end.  The documentation allows more, an empty string and an unspecified value among them
(`options.go:50`); `DocumentedOf` has the kinds of leaves as its argument, and what becomes of the others is a departure.  `Reading` is what a
tree says.

### SelectorParser

`ParseWhereClause` runs `yyParse` on what a goroutine of the lexer sends over a channel without a buffer.  Both are generated:
`parser.go` from the grammar `parser.y`, `lexer.go` (15,000 lines) from the regular expressions of `lexer.nex`.  The model has both sides.  The tables of
the parser are copied, and the automata are those of the lexer; the grammar (SelectorGrammar) and the regular
expressions (SelectorTokens, where an automaton's state is what is left of its expression to match) say what they should do.

| step | code |
|---|---|
| `Read`, `Reread`, `Step` | the loop over the input in `scan`: a rune read, or taken from what was read before, moves every automaton; longest match, first automaton |
| `Match` | the automata are stuck, or the input has ended: the match is cut off, the rest kept |
| `Lex` | the channel: the scanner sends its frame, `Next` takes it, `Lex` passes blanks over; at the end of the input the scanner stops, whatever it has kept |
| `Shift`, `Reduce`, `Accept`, `Refuse` | `yyParserImpl.Parse` |

A text is a sequence of pieces: single characters where an expression tells them apart, whole words (`"BOOL"`, `"EAN"`, `"day"`) where it
reads them as one, cut where one word begins another.  `Readings(s)` are all divisions of a text into tokens, whichever match is longest;
`Clauses` and `Beginnings` the sequences of up to `MaxTokens` tokens that the grammar derives.  Left out: positions, `Error`'s text, and `Stop`, which
nothing calls.

Fairness: weak for the scanner and for the parser, two goroutines that are scheduled.

### LogTransport

`Log` and `Close` of the logger with one transport, and `transportBackgroundIOWrapper`.

| step | code |
|---|---|
| `StartLog`, `WarnInvalid`, `StartNested` | `Log` takes the read lock; for an invalid event it calls itself, and takes it again |
| `CheckCapacity`, `Post` | `writeLogRecord`: the size is read without the lock, the record posted under it |
| `Start`, `OnTick`, `OnFlush`, `OnDone` | the goroutine and the cases of its select |
| `Drain`, `Account`, `WriteOut`, `Exit` | `writeToIO` and the end of the goroutine |
| `StartClose`, `ShutDown`, `CloseTransport` | `uclog.Close`, then the transport's |
| `Flush`, `FlushAgain` | the transport's `Flush` |

A record is the number under which it was posted.  The channels have no buffer, so
a send and its receipt are one step.  Go's `RWMutex` lets no reader in while a writer
waits (`CanRead`), which is why the read lock that `Log` takes twice can be its end: it
and a `Close` that came in between wait for each other.  `runningBGThread` is read and written
without synchronisation; a stale value read is the value at an earlier moment, and
such a read can be taken to have happened then.

Fairness (`FairSpec`): the goroutine, and a call that is under way, are scheduled (weak
fairness); a Flush or Close that waits at the select is taken in the end even if the ticker is
ready just as often, because Go chooses at random (strong fairness).  Nobody has
to call anything: `StartLog`, `StartClose` and `Flush` are not fair.

### LogServerTransport

What `transportLogServer.go` does with the records that the goroutine of LogTransport hands over; there the writing out is one step, here
the queue is a sequence that `Log` appends to and `Wake` takes.

| step | code |
|---|---|
| `Wake` | the goroutine's tick, Flush or Close: `writeToIO` takes the records, in order, and the time of the last one logged |
| `CountRecord` | the loop of `writeMessages`: a key per tenant, event and offset in seconds from the start time, while there is room |
| `StoreMessages` | `EncodeLogForTransfer`: all records, in arrays of one tenant, if the server wants them and there is room |
| `EventsAccepted`, `EventsFailed`, `NoEvents` | `sendEventToServer`: after more than `counterInterval` ticks, and in a Flush or Close |
| `MessagesAccepted`, `MessagesFailed`, `NoMessages` | `sendMessagesToServer`, which forgets what it could not post |

The answer of the server sets the intervals and whether messages are wanted (`updateConfig`).  `received`, `delivered`, `owed` and `repeated` are the
server's and history variables.  A post fails before or after the server handled it (`refused`, `lost`); the client of the log server does not
retry by itself.  Bounds: one lost reply to a post of events; an event counts one; the payload in a key is part of
the event's name.  PostCounters sends the time of the post and not the start time it is given (`logserver/client/client.go:189`), so that offsets count from there; the model counts per event and leaves
open what the server makes of the offsets.

Fairness (`FairSpec`): weak for the goroutine and its ticker; strong for `EventsAccepted`: a server that is asked again and again
accepts a post some time.

## Runs

SentinelManager and CacheProvider are exercised by the runs of the modules that compose them.

| run | module | properties | instance |
|---|---|---|---|
| ItemCacheSerial | ItemCache | `TypeOK`, `Coherent`, `Linearizable` | 3 callers, 1 key; creates, updates and deletes, one at a time, all faults but the crash of a delete |
| ItemCacheOverlap | ItemCache | `CoherentWhenQuiet`, `DeleteKeepsLock` | 3 callers, 1 key; any two of update, delete, the two that flush afterwards and `FlushCache` overlap, but no flush a mutation; no faults |
| EdgeCacheMixes | EdgeCache | `TypeOK`, `CollectionsShowNoDeleted`, `CoherentWhenQuiet`, `DeletesBlockCollections` | 2 callers, 1 edge between 2 objects, 12 keys, no filters; six mixes of calls, two mutations at a time, requests refused and lost |
| EdgeCacheUnlocked | EdgeCache | `CoherentWhenQuiet` (violated) | an edge is deleted and read while its source is updated; no faults |
| TypeCatalogLists | TypeCatalog | `TypeOK`, `CoherentWhenQuiet`, `ListsWhatWasThere` | 2 goroutines that list all types, 2 types on pages of one; three mixes of calls, up to two mutations, requests refused |
| RedisItemsCommits | RedisItems | `TypeOK`, `CoherentWhenQuiet`, `CommitsAtomically` | 2 callers, 4 keys; five mixes of calls, operations that give up |
| RateLimiterSliding | RateLimiter | `TypeOK`, `NeverOverLimit` | 4 callers, limit 3, 3 buckets, windows of up to 2 |
| JsonClientRetries | JsonClient | `TypeOK`, `SendsFreshToken`, `OutcomesTrue`, `CallsEnd` | 2 callers, 2 contents, 2 tries, 2 tokens that expire; nothing shared (`SpareCapacity = FALSE`) |
| FilterParserTrees | FilterParser | `TypeOK`, `EndsBelowTheRoot`, `AcceptsThePlain`, `ReadsAsWritten` | all filters of up to 5 tokens of all 12 kinds, and of up to 6 of 7 kinds; the plain ones of up to 15, pairs and triples of plain ones, some applied twice |
| SelectorParserClauses | SelectorParser | `AcceptsOnlyClauses`, `RefusesOnlyInvalid`, `EveryClauseAnswered` | sixteen families of texts, of up to 14 pieces, that take the tokens of every production; all sequences of up to 12 tokens |
| LogTransportClose | LogTransport | `TypeOK`, `InPostedOrder`, `QueueSizeHonest`, `QueueBounded`, `GoneIsFlushed`, `EventuallyWritten` | 2 callers of Log, 1 Close, 1 Flush, 4 records, room for 2 |
| LogServerPosts | LogServerTransport | `TypeOK`, `CountersHonest`, `CountedOnce`, `MessagesInOrder`, `EventuallyPosted` | 3 records of 2 tenants, room for 2 keys and 2 messages, arrays of up to 2; posts refused and lost, settings that change, any Flush and a Close |

What they show:

- `Coherent`: an item in the cache is the server's in *every* state, as long as the mutations of
  an item do not overlap, whatever reads, failed saves, lost replies, expiries and callers that go away do meanwhile.
- `Linearizable`: no caller can then tell that there is a cache (the refinement of AtomicItems).
- `CoherentWhenQuiet`: when mutations overlap the cache may disagree with the server for
  as long as one is in flight, but not after.  It holds for an update against a delete of an item; for
  edges, their collections and the paths over them against deletes of the edge and of its objects; for lists of types of several pages; and for
  the transactions of Redis.  "Departures" lists the instances in which it fails.
- `DeleteKeepsLock`: an action property; whoever else runs, a delete's lock gives way to
  nothing but the tombstone of an undone save.
- `CollectionsShowNoDeleted`, `DeletesBlockCollections`: a collection is stronger than a single edge.  No collection shows a deleted edge
  *even while* the delete is in flight, because it is entered in the lists before it is stored and a
  delete tombstones its list before it asks the server.  A single edge is stored first, and may be read for the moment until the
  save is undone.
- `ListsWhatWasThere`: pages answered at different times still make a list that names every type that was there all
  along, none twice, and none that never was, because the cursor is the last id seen and not a position.
- `CommitsAtomically`: the watched keys suffice.  What is read of the secondary keys may be old, but only
  decides which of them `WriteSentinel` locks.
- `NeverOverLimit`: taking the slot first and checking after is enough, however the
  commands of several calls interleave.  It is the strict order of the two that matters: with the
  check before (the mutant `Verdict_OnceBelow`) two callers get the last slot.
- `SendsFreshToken`, `OutcomesTrue`, `CallsEnd`: concurrent refreshes lose no token and never put an expired one back; a call reports nothing of the
  item that was not true while it ran, although its request may be handled twice or late; the read lock
  held while the token is fetched, and the writer that waits behind it, stop nobody for good.
- `AcceptsThePlain`, `ReadsAsWritten`: whatever options are combined, if the values in them are plain the joined filter is accepted, and its tree says what the text
  says, although rotations leave parents behind that are out of date.  `EndsBelowTheRoot`: no text whatever makes the parser
  ask the root for its parent at the end.
- `AcceptsOnlyClauses`, `RefusesOnlyInvalid`: the tables of the parser agree with the grammar, and the scanner's loop with the regular expressions.  The automata are
  derived from these expressions, so that those of `lexer.go` agree with `lexer.nex` is assumed and not shown.  What is accepted is a clause of `parser.y`,
  but for what the lexer drops at the end; what is refused begins none, however it is divided into tokens, but for divisions
  that the longest match cannot find.  Both exceptions are stated in the properties and are departures (below).
  `EveryClauseAnswered`: neither goroutine waits for the other for good before the caller has an answer.
- `InPostedOrder`, `QueueSizeHonest`, `QueueBounded`: no record is lost, doubled or
  reordered on its way through the list, and the size that decides what is dropped is right but for the batch being
  counted, and overrun by less than one record per writer.
- `GoneIsFlushed`, `EventuallyWritten`: nothing is posted after the final drain, and everything posted is written.
- `CountedOnce`, `EventuallyPosted`: behind the queue, too, every event that is not dropped at the limit is counted by the log server in the
  end, however many posts fail, and once, but for those in a post whose reply was lost.  `MessagesInOrder`: messages
  are never repeated.  `CountersHonest`, `TypeOK`: the two sizes that decide what is dropped never
  fall below what is kept; the first is exact, the second is not (a departure).

`CHECK_DEADLOCK FALSE` is said of RateLimiterSliding, where the windows run out; of FilterParserTrees, where
a filter too long to be applied again ends; of SelectorParserClauses, where a clause has been answered (and, if it was refused,
the scanner is blocked); of JsonClientRetries, where every call has returned; of LogServerPosts, where the transport is
closed; and of the run of LogTransport, where everybody may have returned, the bound `MaxRecords` be
reached, or a nested Log and a Close wait for each other.

JsonClientRetries has `SpareCapacity = FALSE`, since the sharing of the cookies and header functions (`options.go:53`) has no part in
its questions and would multiply its states; what the sharing does is shown by JsonClientCookies ("Departures").

Every property of a passing run has a mutant in PROJECT.json that breaks it: a wrong variant of one
definition, written beside it.

Bounds.  One key is enough where the operations of interest touch one item; the
flush touches every key, but overlaps no mutation in the run.  Three callers are the
least with which a reader runs between two writers; the rules compare a caller's sentinel with
one other and with one value, so no further caller can be told from these.  Two
values tell a new item from an old one.  The uuids are one more than the calls, since a key may still
hold the sentinel of a call that ended.  The theorem `Coherence` covers the first
two of these bounds for every value.

EdgeCache and TypeCatalog run with two callers: two mutations at once, or a mutation and a read, which is
where each of their hazards needs no third; what a third reader adds to two writers is in ItemCache.  `Mixes` lists which kinds of
call are made together, one mix per behaviour (a variable that never changes): all of them at once
would add states and no new conflict, since two callers make at most two calls at a time of the mix.  One edge suffices
for `DependenciesOf` to name both objects and the edge; `Rivals = FALSE` keeps two mutations off the *same* edge
(see "Departures").  Pages of one type make a list of two
types take two pages with every mutation in between.  RedisItems has two callers, because a transaction conflicts with one
other; `CommitsAreAtomic` is proved for any number.  Two tries and two tokens give JsonClient one retry, one refresh and one expiry between them, and a
request that is handled after a second one was sent; its safety is proved for any number.  Fifteen tokens of a
filter are three leaves, two operators and two levels of parentheses, a rotation under a rotation among them; the parser
is deterministic, so its state space is one path per filter.  The families of SelectorParserClauses begin in the middle of a
production and go on in every combination of the few pieces that tell its tokens apart; twelve tokens are more than any clause of a family has.  `Reusable = 9` lets a pair of leaves be applied again.

In RateLimiter four callers and three slots leave one
caller too many, and windows of two buckets that move on twice let every bucket be first, last and
gone.  In LogTransport two writers race past the capacity check and each other, and four
records fill the queue twice.

## Proofs

Proved by TLAPS, for all values of the constants that satisfy the modules' assumptions.

`ItemCacheProofs`

- `TypeCorrectness`: `Spec => []TypeOK`.  The invariant is `TypeInv`, which adds that what a call has
  been answered, and what it saves, are values and no errors.
- `Coherence`: `Serial => (Spec => []Coherent)`, for any number of callers, items and
  sentinels.  `Serial` says what ItemCacheSerial chooses: at
  most one mutation of an item at a time, no organization updated with BypassCache, no lost reply of a
  `purge`, and no crash of a call that deletes.
  `Coherent` is not inductive: what makes it hold is what the calls know.  `SerialInv` adds
  that the one mutation in flight holds the key (its lock, or a tombstone, is there), that
  a call that was answered knows the server's item, and that a reader whose sentinel still
  is in the cache was answered after the last change; the last is the reason a reader may save.
- `DeleteLockKept`: `Spec => DeleteKeepsLock` when nothing flushes, however many mutations overlap
  and whatever fails.  The invariant behind it is `Unique`: no two calls hold
  sentinels with one uuid, so nobody mistakes the delete's lock for its own.
- `QuietCoherence`: `Overlapping => (Spec => []CoherentWhenQuiet)`, for any number of callers, items and values.  `Overlapping` says what
  ItemCacheOverlap chooses: at most two mutations that disturb each other at a time, of which none flushes, from update, delete and those that flush,
  and no faults; with three updates, or with `updateBypass`, the property is false (see "Further instances").  `OverlapInv` says why two are
  harmless.  `Covered`: while mutations of an item have yet to tell the cache (`Unfinished`), either its key has the lock of one of
  them, and if a conflict is marked on it that one is the last, or the item in the cache meets only one, which will clear or confirm it.
  `Shielded`, `DeleteHeld`: a mutation that could not take the lock is under that of a delete, which
  is on its way.  `Right`, `SaversRight`: an item in the cache, or about to be stored by the owner of the lock, is the server's, or the update that
  the server handled last is still to be saved (`Settler`), or a flush is due (`Dirty`).  One lemma per action; the hard one is
  `SaveUpdate`, one step per verdict of `CanSetValue`.
- `CacheIsTransparent`: `Serial => (Spec => Linearizable)`, that is, ItemCache implements AtomicItems, for any number of callers, items and values, as long
  as no type is deleted (a purge lets its item be seen until it flushes).  From `TypeInv` and `Coherence`: one lemma per step of AtomicItems
  (`Reads`, `Fails`, `Changes`, `Returns`) says what a step of ItemCache must do to be it, and `AtomicNext` goes through
  the actions.  A hit is an atomic read because what is cached is the server's; every other call takes effect when its request is handled.

`EdgeCacheProofs`, for any number of callers, objects and edges, mixes of calls and faults, and mutations that overlap (`Rivals` or not)

- `TypeCorrect`: `Spec => []TypeOK`.
- `NothingDeletedShown`: `Spec => []CollectionsShowNoDeleted`.  The invariant `Inv` has four parts beside the types and `Shaped` (which calls get where).
  `CachedOK`: a collection is in the cache only while the list of each thing it depends on names it, and shows only edges there are.
  `ListsOK`: what stands for a dependency list is a list, a tombstone or nothing.
  `DeleterOK`: from before its request until it closes, a delete's tombstone is in the place of the list.
  `ReaderOK`: a reader that still has its lock was answered with edges there are, or a tombstone blocks one of the lists it is about to enter.
  TLC checked `Inv` on the instance of EdgeCacheMixes (1.5 million states) before it was proved.  The
  invariant needs no timing of mutations against each other: a tombstone may not expire while a call is in flight that it protects from (`Outlived`).
- `DeletesBlock`: `Spec => DeletesBlockCollections`, from the same invariant: the step that stores a collection is one that found its lists free.
- `ListsWholeWhenQuiet`: `Spec => [](Settled => CollectionsCoherent)`, the second half of `CoherentWhenQuiet`, if no two mutations of one edge overlap
  (`~Rivals`), no mix lists edges beside a `createEdgeBypass` (`NoBypass`, below), and no list is asked for by a filter (`~Filtered`): with any number of creates, updates and deletes at a time and all faults, a cached list
  of edges lacks none once nothing is in flight.  `Complete` says what is true in between: a list that is cached, or that a reader is about to store
  under a lock it still has, lacks only edges whose create was handled and has yet to clear the list (`Awaited`).
- `CoherentIfOrderly`: `Spec /\ []Orderly => []CoherentWhenQuiet`, and `QuietCoherence`: `Spec => []CoherentWhenQuiet` if mutations come one at a time or
  no mix has a `deleteEdge`; both with `NoBypass` and `~Filtered`, and with objects and edges that have different ids, as uuids are.
  `Orderly`: beside a DeleteEdge only deletes of objects and of edges by object are in flight.
  The first takes the restriction as a property of the execution, so that it covers the mixes in which those deletes overlap a DeleteEdge in any number; the second has nothing that is not
  said of the constants.
  The invariant is `Inv` with more parts.  `EdgesTied`: an edge that is cached is on the list of its source, its target and itself, or the call that stored it has
  that list still to enter.  `SaveOK`: what a call is about to save under its own lock is an edge there is, or one of whose lists is a tombstone.
  `EdgesKnown`: an edge that is cached and gone will be taken out again, by the call that brought it or by that which finds the tombstone.
  `DeleteLocks`: a delete's lock on the key of an edge is that of a DeleteEdge of this edge under way.  `DeletesOK`: such a DeleteEdge has the key of the edge names locked, and
  that of the edge, unless this is a tombstone or the list of one of its ends is.
  `DeletesOK` is what needs `Orderly`: an update clears locks with what is on its list (the finding), a create takes over the lock of the edge names (below), another DeleteEdge
  every lock.  That no create meets a delete of its own edge (`Apart`), so that every create has its lock (`CreatesLocked`) and clears the lists, needs only `~Rivals`.
  One lemma per action, three groups of conclusions (`Follows`); the invariants were first checked by TLC on two edges with random simulation and breadth first for
  some million states each.

`TypeCatalogProofs`, for any number of goroutines and types, any size of page and mixes of calls

- `TypeCorrect`: `Spec => []TypeOK` (`Basic`, on top of the invariant below: a call has the lock its kind takes, and a delete saves nothing).

- `ListsAreOfTheirTime`: `Spec => []ListsWhatWasThere`.  `Good` is an invariant about the cursor: what a list has found lies up to
  it, of what was always there nothing up to it is missing (`UpToCursor`), and a page leaves nothing out between the cursor and
  its own end (`NextPage`).  `PageShape` shows the last of the server's page: the types beyond the cursor with fewer than
  `PageSize` before them are the first ones, and are none only if there are none.  `GoodGrows` shows that
  all of it survives whatever the server's types become.  It is about the types the list was asked for, all or those of an organization.  The cache has no part in the argument: it holds whatever is cached, and whatever the faults.
- `CatalogCoherent`: `"lost" \notin Faults /\ AllAsked => (Spec => []CoherentWhenQuiet)`, for all kinds of call together and any number of mutations at a time; the run takes
  three mixes of them.  `Coherent` says what is true in between: an item, or what a call is about to save under a lock it still
  has, is the server's, or there is an update or a delete that the server has handled and that has yet to flush (`Pending`); of a
  collection, or also a create that has yet to clear it (`Created`).  A flush leaves nothing cached and no lock to save under, a clear neither a collection nor its lock: that
  is what pays the debt.  `FoundSoFar` is the list's half: what it has found is the catalog up to its cursor.  The assumptions are what the
  code lacks: when a reply is lost nothing is flushed, and a list of one organization's types is cached as that of all (see "Departures").  TLC checked `Coherent` with all five kinds of call together first.

`RedisItemsProofs`, for any number of callers, items, mixes of calls, and operations that give up

- `TypeCorrect`: `Spec => []TypeOK`.
- `CommitsAreAtomic`: `Spec => CommitsAtomically`.  `Inv` is the invariant of optimistic concurrency (`Consistent`): as long as
  an operation is not dirty, what it has read of the keys it watches is what they hold.  `WriteKeeps` shows that it survives whatever anybody
  writes, because a write of a watched key dirties the reader; `CommitKeeps` that it survives a commit.  What remains is one
  step per operation: its decision depends on watched keys only.
- `QuietCoherence`: `Spec => [](Serial => CoherentWhenQuiet)`.  `Serial` is a mix of reads, puts and deletes, refused or not, in which
  one mutation at a time is in flight, none is lost, and neither the SetValue of a put, nor the ReleaseSentinel of a delete, nor
  ClearDependencies gives up; the first of the run's mixes is one.  The invariant, `QuietInv`, takes from every call what it still rests
  on (`Fit`): a mutation holds the item and the collection, by its lock or by the tombstone an undone save left there, from its lock to
  its request; a key WriteSentinel left unlocked for a tombstone still has it; a save that has read a tombstone may find no lock; whoever
  may store an item has the server's, as long as its lock is there.  The name is the hard part, being written under a lock that
  is somewhere else: an item there is on the list, or a call that has not ended is still to enter it or to take it back (`NameListed`), and
  it is the server's, or a put is about to replace it, or a reader will be refused by the tombstone on the list (`NameRight`).
  `BystanderFit` then says what a step may do to the other calls, and there is a lemma per action.  TLC checked `QuietInv` with two and
  three callers before it was proved.

`RateLimiterProofs`

- `TypeCorrect`: `Spec => []TypeOK`, for any windows, with `SlotsNat` (what is counted is a number) and
  `EarliestIsFirst` (a nonempty set of places has a first one).
- `LimitKept`: `Spec => []NeverOverLimit` when all callers use one bucket and it does not
  expire under them.  `LimitInv`: the count covers every caller that has taken a slot and not given it back, so a
  release always finds one and nothing is undone; and a slot is granted only
  against a count within the limit.  An abandoned call leaves the count too high, never too low.
- `LimitKeptSliding`: the same over a window of any number of consecutive buckets (`SlidingWindows`), if no call runs on when the window
  moves and no bucket expires in use.  A release may take its slot from an older bucket than its caller's, and may find that one emptied
  and go on to the next, so that no bucket on its own counts the slots taken in it.  `ClaimsInv`: from every bucket on to the
  last, what is counted covers the callers whose slot is there, a release under way claiming the first bucket it has still to try (`Claims`).
  For a claim to move on, what it passes must be empty: buckets before the last that a release does not try only get emptier
  (`CallsInv`), and one that is emptied too far stays so until that is undone (`BucketsInv`).  The last bucket is never taken too far, as whoever tries it
  claims it (`LastIsCounted`); so an addition to it is seen by the next that is checked, and what a reservation read of the older
  ones can only be too much.  With calls that run on it is false: TLC finds it violated (below).  TLC checked `SlideInv` for four callers,
  limits of two and three and windows of up to three buckets before it was proved.

`JsonClientProofs`, for any number of callers, contents, tries and tokens

- `TypeCorrect`: `Spec => []TypeOK`, with the bound on the tries of a request and of a token.
- `TokensFresh`: `Spec => []SendsFreshToken`.  `Fresh` follows a token from the source to the clone: one that waits
  for the write lock has not expired; a caller that found the options' token good, and did not know of its
  expiry, still has a good one when it clones, whoever has replaced it since.
- `OutcomesHold`: `Spec => []OutcomesTrue`.  `Truthful`: the item now is among those since any call in progress began, an answer says
  something of one of those, and so does what is made of it.

`LogTransportProofs`, for any number of callers of Log, Close and Flush, any queue and any levels

- `TypeCorrect`, `SizeHonest`: one induction, `SizeInv`; that the size is honest is what keeps it from
  falling below zero.
- `NothingLeftBehind`: `Spec => []GoneIsFlushed`.  `ClosedInv` follows the shutdown: after it nobody is in
  `Log`, the goroutine is told to stop only then, what it drains then empties the list for good, and every
  record posted is in the list, the batch or what was written.
- `OverrunBounded`: `Spec => []QueueBounded`, from `BoundInv`, in which a writer that has passed the check counts
  as if it had posted.  It needs room for one record at least (`LogTransportAssumption`).
- `OrderKept`: `Spec => []InPostedOrder`; posting at the front of the list is adding at the end of its
  reverse (`ReverseFront`), and the batch is empty whenever a new one is taken (`ClosedInv`).

`LogServerTransportProofs`

- `CountersStayHonest`: `Spec => []CountersHonest`, for any events, limits, intervals, settings and faults.  The invariant adds that what was
  logged has a time, so that a batch has one, and the counters it is the first to enter get a start time.
- `TypeCorrect`: `Spec => []TypeOK`.  Its one conjunct that is more than a shape says that the size of the messages covers the records in
  the map.  The size grows by records and shrinks by arrays, so it needs that no array is empty and that
  `EncodeLogForTransfer` neither loses nor adds a record (`EncodeIsFaithful`).  Offsets are not negative as no batch is older than the start
  time (`ClockInv`).
- `TenantsInOrder`: `Spec => []MessagesInOrder`.  `OrderInv`: what is stored or sent was logged before what is in the batch, and that before what is in
  the queue; within a batch, `AddRecordInOrder` shows of each record put in an array that those of its tenant before it are in earlier
  arrays or earlier in the same.
- `EveryEventCounted`: `Spec => []CountedOnce`.  `CountsInv` has the sum of the four places an event may be in (counted by
  the server, in the map, in the batch, in the queue) equal to what is owed, and more only for the events that a post whose reply was lost
  had counted.  The sum over the map is the cardinality of a set with one element per event counted (`Units`), which a step changes by one.

The last three rest on what folds compute over sequences of any length.  The library's induction theorems take an operator as a
parameter and cannot be used, but their set form can: the set of all naturals, or of all sequences over a set, with the property claimed
is everything, as its complement would have a least element (`NatInSet` and `SeqInSet`, from `WFMin`).  `HasFold` gives the
recursive function that a fold of the community modules is defined by, after which its value is followed step by step.

Only model-checked: `CoherentWhenQuiet` of EdgeCache where a DeleteEdge overlaps another mutation that takes the lock of an edge, and of RedisItems where two mutations overlap or an answer is lost (both
depend on which kinds meet, and fail for some); the filter
parser and the selector parser (`TypeOK` and `EndsBelowTheRoot` of the first would follow from an invariant on the shape of its tree, not worked
out; the other properties compare what a parser's tables or its tree accept with recursively defined sets of
texts; an induction on the length of a text, as for the folds above, is conceivable for the first and not carried out, and the modules of
the second hold RECURSIVE operators, with which the prover has no SMT backend); `EventuallyWritten`, `EventuallyPosted`, `CallsEnd` and `EveryClauseAnswered` (liveness under fairness is, too).

## Findings

**EdgeCacheUnlocked** (`api.go:632`).  While one caller deletes an edge, another updates the object it hangs
from.  The update ends with `ClearDependencies` of the object, which removes every key on its list, whatever it
holds: the lock the delete has just taken on the edge, which had been cached before.  A `GetEdge` that comes before the delete
clears what depends on the edge finds no lock and stores the edge again; the delete then clears only what is on the edge's own
list, its full name, and the edge stays cached under its id after the server has deleted it.  `api.go:323` says that a
delete clears and tombstones "to ensure that stale data is not returned after the server registers the delete",
and `api.go:21` promises "read after write consistency".  The run has no faults.

## Departures

Each of the following is an instance in which a property a reader would expect fails; of most the repository says no more than
that the design suggests it, and the others quote the line.  Their configurations are kept beside the runs; TLC ends each
with a counterexample (`tlc -config X.cfg` of the MC module named; with `-continue` for the two of SelectorParserStrict).

| configuration | module | fails | because |
|---|---|---|---|
| ItemCacheUnlockedDelete | MCItemCache | `DeleteHoldsLock` | a delete that meets another delete's lock is granted none and is not told (`inmemory_provider.go:154`), although `api.go:258` says that it "takes all locks regardless of key state" |
| ItemCacheFailedWriter | MCItemCache | `CoherentWhenQuiet` | update A takes the lock over from update B, fails and releases the key; a read fills it before the server handles B, and the old item stays (`inmemory_provider.go:199`) |
| ItemCacheLostPurge | MCItemCache | `CoherentWhenQuiet` | a deletion of a type whose reply is lost skips the flush (`authz/client.go:422`) |
| ItemCacheUndoneSave | MCItemCache | `CoherentWhenQuiet` | the undo of a save puts its tombstone over the lock of a delete that came in between; an update takes the tombstone over and caches an item the delete then removes (`api.go:665`) |
| RateLimiterLeak | MCRateLimiter | `SlotsAccounted` | of two releases that read the same buckets the second finds its bucket emptied and frees nothing, though it reports that it did (`redis_provider.go:966`) |
| LogTransportReturn | MCLogTransport | `CallsReturn` | a Flush that saw the goroutine running just before a Close ended it waits forever (`transportBackgroundIOWrapper.go:237`) |
| LogServerRoom | MCLogServerTransport | `RoomForMessages` | the size of the messages kept grows by records and shrinks by arrays of records (`transportLogServer.go:284`), and not at all after a failed post: it stays at the limit with nothing kept, and no message is stored again |
| LogServerStart | MCLogServerTransport | `StartsEarliest` | "Grab the earliest time in the batch" (`transportBackgroundIOWrapper.go:150`) takes that of the first record of a list that is kept last first; what was logged earlier counts as of then |
| JsonClientCookies | MCJsonClient | `OwnOptions` | `SpareCapacity = TRUE`: the clone shares the array of the cookies (`options.go:53`), and a request goes out with the cookie of another |
| FilterParserWide | MCFilterParser | `AcceptsAllDocumented` | `options.go:50` allows values that are empty (a nullable key's are "unspecified (i.e., NULL)"), of several lines or not ASCII; `leafFilter` (`filter_parser.go:76`) wants one character and no line break, and takes in the leaf that follows an empty value; and the parser splits the text into characters and advances by bytes (`filter_parser.go:122`).  Each of the three kinds of values is refused |
| FilterParserReuse | MCFilterParser | `OptionsKept` | the option `Filter` assigns to the argument its closure captured (`options.go:108`): applied to a second Paginator it joins once more what it joined for the first |
| SelectorParserStrict | MCSelectorParser | `AcceptsOnlyWhole` | at the end of the input the scanner stops even if it has kept runes behind the last match (`lexer.go:146`): a clause that goes on with the beginning of a longer token, `{x}=TRUE::`, is accepted, although `whereclause.go:20` says that an invalid one returns an error |
| SelectorParserStrict | MCSelectorParser | `RefusesOnlyUnreadable` | the longest match, and of equals the first: two blanks before an `AND` that may begin with one, or the value `'day'`, which is the part of a date, make a clause of the grammar be refused |
| SelectorParserLeak | MCSelectorParser | `ScannerEnds` | after a refusal nobody takes from the channel or calls `Stop`, and the goroutine is blocked for good (`lexer.go:133`) |

Further instances that fail, by changing one constant of a run: both properties of ItemCacheOverlap with `FlushesAlone = FALSE`
(a flush removes the lock of a mutation in flight, `inmemory_provider.go:468`; a read locks the key, is answered before the
server handles an update, and stores the old item after the update has found that lock and left it alone); `CoherentWhenQuiet` of ItemCache for three overlapping
updates (`MaxMutators = 3`: the one that clears a key with a conflict mark leaves the earliest
unprotected, `writethrough_sentinel_manager.go:79`), and as soon as `updateBypass` is
among the mutations (an organization updated with BypassCache leaves the cached one in
place); that of EdgeCache with `Rivals = TRUE` (a create that is refused the lock skips the invalidation of the collections) and when a
mix lists edges and has `createEdgeBypass`; with a second edge, also for a create of one edge beside a DeleteEdge of the other: `CreateEdge` takes the lock of the edge
names over from the delete, for which it is only a second key (`inmemory_provider.go:154` looks at the first), a FindEdge then locks the names, is answered
the old edge and stores it over the delete's lock before the delete has tombstoned the list, and the edge stays cached after it is gone; with `Filtered = TRUE` also, where a caller's filtered list is cached as the object's whole one (`client.go:1083`; `CollectionsShowNoDeleted` and
`DeletesBlockCollections` hold); that of TypeCatalog with `lost` among the faults, and with a goroutine whose `Asked` is one type, whose list is cached as that of all
(`client.go:646`; `ListsWhatWasThere` holds); that of RedisItems when
`MayGiveUp` has the SetValue of a put or the ClearDependencies or ReleaseSentinel of a delete; and
`NeverOverLimit` with the fault `straggler`.

## Not modelled

- The transition functions in `lexer.go`, which are nearly half of the repository's lines, one by one: SelectorTokens has an automaton for each,
  which accepts what it accepts.  The wrappers of one request each, without state (`idp/client.go`, `idp/tokenizer_client.go`, most of
  `authz/client.go`'s calls on organizations and attributes), the samples, the data types with their JSON and validation, metrics, tracing, token
  parsing, configuration, the formats of the transports.  They have no state between calls and nothing that
  interleaves; a model of them would repeat them.  They are why the modules stand for a small share of the
  repository's other lines, though for most of the lines that decide anything about shared state.
- The text of keys.  Two keys are equal in the models only if their constructors and arguments are, which is what
  `cache_name_provider.go` intends.
- The aliases of objects (`client.go:864`: an update does not know the old alias and leaves the item under it), follower
  reads and their keys, `DeleteValue` without force, `GetValues` of several keys at once, the read-only mode of Redis.
- Paths of more than one edge; `ListEdgesBetweenObjects` with more than one page, which asks for the same page again and again
  (`client.go:1136`).
- TTLs as durations: `Outlived` is what the models assume of them.
- The log server's settings of the log level; the identity of a message beyond its place in the queue; `init` of the transports when it fails.
- The fetcher of event metadata (`logServerMapFetcher.go`), which fills a map of event codes from the log server and logs with the
  logger's read lock held; LogTransport has the nested `Log` that this comes to.
- A transport's statistics, event metadata and the logger's initialisation; the validation of a Paginator's cursor
  and sort keys; what the server makes of a filter's tree.

Planned next: the theorem of `CoherentWhenQuiet` of RedisItems for two mutations at a time, and the shape of FilterParser's tree.
