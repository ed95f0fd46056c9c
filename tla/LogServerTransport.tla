------------------------- MODULE LogServerTransport -------------------------
(***************************************************************************)
(* The transport that sends events and messages to the log server          *)
(* (infra/logtransports/transportLogServer.go), behind the queue of        *)
(* LogTransport: what it accumulates, how often it posts it, and what it   *)
(* does when a post fails.                                                 *)
(*                                                                         *)
(* All of it runs in the transport's goroutine.  Callers of Log only put   *)
(* records in the queue.                                                   *)
(***************************************************************************)
EXTENDS Integers, SequencesExt

CONSTANTS Events,             \* what is logged: [tenant, name], a name of
                              \* "none" for a message that counts nothing
          DefaultTenant,      \* the tenant of events that name none
          maxEventMapSize,    \* the limits of what is kept for the server
          maxMessageMapSize,
          maxPerArray,        \* maxLogRecordPerTransferRecord
          DefaultInterval,    \* defaultCounterInterval, defaultMessageInterval
          Settings,           \* what the server may answer
          Faults,             \* the faults this instance exercises
          MaxRecords,         \* bound: the records logged
          MaxTime             \* bound: the clock, in seconds

FaultKinds == {"refused",     \* a post fails and the server has not handled it
               "lost"}        \* it is handled and its reply lost

Tenants == ({e.tenant : e \in Events} \ {"nil"}) \cup {DefaultTenant}
Names == {e.name : e \in Events} \cup {"none"}

ASSUME LogServerAssumption ==
  /\ \A e \in Events : e = [tenant |-> e.tenant, name |-> e.name]
  /\ \A n \in {maxEventMapSize, maxMessageMapSize, maxPerArray, DefaultInterval} :
       n \in Nat \ {0}
  /\ Settings \subseteq [update : BOOLEAN, sendRawData : BOOLEAN,
                         countersInterval : Nat, messageInterval : Nat]
  /\ Faults \subseteq FaultKinds
  /\ MaxRecords \in Nat /\ MaxTime \in Nat

VARIABLES clock,
          logged,            \* the number of records logged so far
          queue,             \* the records the goroutine has not taken
          pc,                \* where the goroutine is
          reason,            \* what woke it: "tick", "flush" or "done"
          batch,             \* the records it has taken, in order
          at,                \* the next of them to be counted
          batchTime,         \* startTime of writeToIO
          countersMap,       \* how often each key was counted
          countersMapSize,
          startTime,         \* of the keys' offsets; Never if there are none
          messageMap,        \* the arrays of records encoded for the server
          messageMapSize,
          counterTickCount, messageTickCount,
          counterInterval, messageInterval, sendRawData,
          received,          \* what the server has counted, by tenant and name
          delivered,         \* the arrays of records it has been sent
          owed,              \* what it should count: all but what was dropped
          repeated           \* what was in a post whose reply was lost

input == <<clock, logged, queue>>
goroutine == <<pc, reason, batch, at, batchTime>>
counters == <<countersMap, countersMapSize, startTime>>
messages == <<messageMap, messageMapSize>>
ticks == <<counterTickCount, messageTickCount>>
config == <<counterInterval, messageInterval, sendRawData>>
server == <<received, delivered>>
history == <<owed, repeated>>
vars == <<input, goroutine, counters, messages, ticks, config, server, history>>

Never == -1
NoCounts == [e \in [tenant : Tenants, name : Names] |-> 0]
NoKeys == [k \in {} |-> 0]

Init == /\ clock = 0 /\ logged = 0 /\ queue = <<>>
        /\ pc = "waiting" /\ reason = "tick"
        /\ batch = <<>> /\ at = 1 /\ batchTime = Never
        /\ countersMap = NoKeys /\ countersMapSize = 0 /\ startTime = Never
        /\ messageMap = <<>> /\ messageMapSize = 0
        /\ counterTickCount = 0 /\ messageTickCount = 0
        /\ counterInterval = DefaultInterval /\ messageInterval = DefaultInterval
        /\ sendRawData \in BOOLEAN
        /\ received = NoCounts /\ delivered = <<>>
        /\ owed = NoCounts /\ repeated = {}

-----------------------------------------------------------------------------
(* An event without a tenant is one of the default tenant. *)
TenantOf(e) == IF e.tenant = "nil" THEN DefaultTenant ELSE e.tenant
Event(r) == [tenant |-> TenantOf(r), name |-> r.name]

(* A record is put in the queue.  Nobody logs while the transport is being *)
(* closed.                                                                 *)
Log(e) == /\ logged < MaxRecords /\ reason # "done"
          /\ logged' = logged + 1
          /\ queue' = Append(queue, [id |-> logged + 1, time |-> clock,
                                     tenant |-> e.tenant, name |-> e.name])
          /\ owed' = IF e.name = "none" THEN owed ELSE [owed EXCEPT ![Event(e)] = @ + 1]
          /\ UNCHANGED <<clock, goroutine, counters, messages, ticks, config, server, repeated>>

Second == /\ clock < MaxTime
          /\ clock' = clock + 1
          /\ UNCHANGED <<logged, queue, goroutine, counters, messages, ticks, config,
                         server, history>>

-----------------------------------------------------------------------------
(* writeToIO takes the records, and the time of the last one. *)
TimeOf(records) == IF records = <<>> THEN Never ELSE Last(records).time

Wake(why) == /\ pc = "waiting"
             /\ reason' = why
             /\ batch' = queue /\ queue' = <<>>
             /\ batchTime' = TimeOf(queue)
             /\ at' = 1 /\ pc' = "counting"
             /\ UNCHANGED <<clock, logged, counters, messages, ticks, config, server, history>>

Base == IF startTime = Never THEN batchTime ELSE startTime
Key(r) == [event |-> Event(r), offset |-> batchTime - Base]

Counts(r) == r.name # "none" /\ countersMapSize < maxEventMapSize

(* Wrong variant: the start of the keys' offsets is never set. *)
Increment_NoStart(r) ==
  /\ countersMap' = [k \in DOMAIN countersMap \cup {Key(r)} |->
                       (IF k \in DOMAIN countersMap THEN countersMap[k] ELSE 0)
                         + (IF k = Key(r) THEN 1 ELSE 0)]
  /\ countersMapSize' = countersMapSize + (IF Key(r) \in DOMAIN countersMap THEN 0 ELSE 1)
  /\ UNCHANGED startTime

(* Wrong variant: the size counts events and not keys. *)
Increment_SizeOfEvents(r) ==
  /\ startTime' = Base
  /\ countersMap' = [k \in DOMAIN countersMap \cup {Key(r)} |->
                       (IF k \in DOMAIN countersMap THEN countersMap[k] ELSE 0)
                         + (IF k = Key(r) THEN 1 ELSE 0)]
  /\ countersMapSize' = countersMapSize + 1

Increment(r) ==
  /\ startTime' = Base
  /\ countersMap' = [k \in DOMAIN countersMap \cup {Key(r)} |->
                       (IF k \in DOMAIN countersMap THEN countersMap[k] ELSE 0)
                         + (IF k = Key(r) THEN 1 ELSE 0)]
  /\ countersMapSize' = countersMapSize + (IF Key(r) \in DOMAIN countersMap THEN 0 ELSE 1)

(* writeMessages: each event is counted while there is room for keys, ...  *)
CountRecord ==
  /\ pc = "counting" /\ at <= Len(batch)
  /\ at' = at + 1
  /\ IF Counts(batch[at])
       THEN Increment(batch[at]) /\ UNCHANGED owed
       ELSE /\ UNCHANGED counters
            /\ owed' = IF batch[at].name = "none" THEN owed
                       ELSE [owed EXCEPT ![Event(batch[at])] = @ - 1]
  /\ UNCHANGED <<input, pc, reason, batch, batchTime, messages, ticks, config,
                 server, repeated>>

(* EncodeLogForTransfer: arrays of records of one tenant, of at most       *)
(* maxPerArray and one.                                                    *)
Unsent(open) == {a \in {[tenant |-> t, ids |-> open[t]] : t \in Tenants} : a.ids # <<>>}

EncodeLogForTransfer(records) ==
  LET Add(s, r) ==
        LET t == TenantOf(r)
            ids == Append(s.open[t], r.id)
        IN  IF Len(ids) > maxPerArray
              THEN [ready |-> Append(s.ready, [tenant |-> t, ids |-> ids]),
                    open  |-> [s.open EXCEPT ![t] = <<>>]]
              ELSE [s EXCEPT !.open[t] = ids]
      encoded == FoldLeft(Add, [ready |-> <<>>, open |-> [t \in Tenants |-> <<>>]], records)
  IN  encoded.ready \o SetToSeq(Unsent(encoded.open))

(* Wrong variant: the size grows by arrays, as it shrinks. *)
StoreMessages_Arrays ==
  /\ pc = "counting" /\ at > Len(batch)
  /\ IF sendRawData /\ messageMapSize < maxMessageMapSize
       THEN /\ messageMap' = messageMap \o EncodeLogForTransfer(batch)
            /\ messageMapSize' = messageMapSize + Len(EncodeLogForTransfer(batch))
       ELSE UNCHANGED messages
  /\ batch' = <<>> /\ at' = 1 /\ batchTime' = Never
  /\ pc' = "events"
  /\ UNCHANGED <<input, reason, counters, ticks, config, server, history>>

(* ... and all records are stored, if the server wants them.               *)
StoreMessages ==
  /\ pc = "counting" /\ at > Len(batch)
  /\ IF sendRawData /\ messageMapSize < maxMessageMapSize
       THEN /\ messageMap' = messageMap \o EncodeLogForTransfer(batch)
            /\ messageMapSize' = messageMapSize + Len(batch)
       ELSE UNCHANGED messages
  /\ batch' = <<>> /\ at' = 1 /\ batchTime' = Never
  /\ pc' = "events"
  /\ UNCHANGED <<input, reason, counters, ticks, config, server, history>>

-----------------------------------------------------------------------------
(* The server's settings come with its answers. *)
updateConfig(settings) ==
  IF ~settings.update THEN UNCHANGED config
  ELSE /\ sendRawData' = settings.sendRawData
       /\ counterInterval' = IF settings.countersInterval > 1
                               THEN settings.countersInterval ELSE counterInterval
       /\ messageInterval' = IF settings.messageInterval > 1
                               THEN settings.messageInterval ELSE messageInterval

(* The counters are posted when enough ticks have passed, and the messages *)
(* after them; by a Flush or a Close, both once more.                      *)
EventsDue == \/ pc = "flushEvents"
             \/ pc = "events" /\ counterTickCount > counterInterval
MessagesDue == \/ pc = "flushMessages"
               \/ pc = "messages" /\ messageTickCount > messageInterval

AfterEvents == /\ pc' = IF pc = "events" THEN "messages" ELSE "flushMessages"
               /\ counterTickCount' = IF pc = "events" /\ EventsDue THEN 0 ELSE counterTickCount
               /\ UNCHANGED messageTickCount

AfterMessages == IF pc = "messages"
  THEN /\ pc' = IF reason = "tick" THEN "waiting" ELSE "flushEvents"
       /\ UNCHANGED reason
       /\ counterTickCount' = counterTickCount + 1
       /\ messageTickCount' = (IF MessagesDue THEN 0 ELSE messageTickCount) + 1
  ELSE /\ pc' = IF reason = "done" THEN "closed" ELSE "waiting"
       /\ reason' = IF reason = "done" THEN "done" ELSE "tick"
       /\ UNCHANGED ticks

NoEvents == /\ pc \in {"events", "flushEvents"}
            /\ ~EventsDue \/ startTime = Never
            /\ AfterEvents
            /\ UNCHANGED <<input, reason, batch, at, batchTime, counters, messages,
                           config, server, history>>

CountOf(e) == FoldLeft(LAMBDA n, k : n + countersMap[k], 0,
                       SetToSeq({k \in DOMAIN countersMap : k.event = e}))

ServerCounts == received' = [e \in DOMAIN received |-> received[e] + CountOf(e)]

PostsEvents == EventsDue /\ startTime # Never

EventsAccepted ==
  /\ PostsEvents /\ AfterEvents /\ ServerCounts
  /\ countersMap' = NoKeys
  /\ countersMapSize' = countersMapSize - Cardinality(DOMAIN countersMap)
  /\ startTime' = Never
  /\ \E settings \in Settings : updateConfig(settings)
  /\ UNCHANGED <<input, reason, batch, at, batchTime, messages, delivered, history>>

(* Wrong variant: what could not be posted is forgotten, as messages are. *)
EventsFailed_Forgotten ==
  /\ PostsEvents /\ AfterEvents
  /\ countersMap' = NoKeys /\ startTime' = Never
  /\ countersMapSize' = countersMapSize - Cardinality(DOMAIN countersMap)
  /\ \/ "refused" \in Faults /\ UNCHANGED <<received, repeated>>
     \/ /\ "lost" \in Faults /\ repeated = {}
        /\ ServerCounts
        /\ repeated' = repeated \cup {k.event : k \in DOMAIN countersMap}
  /\ UNCHANGED <<input, reason, batch, at, batchTime, messages, config, delivered, owed>>

(* What could not be posted stays for the next time.  Bound: one reply to  *)
(* a post of events is lost.                                               *)
EventsFailed ==
  /\ PostsEvents /\ AfterEvents
  /\ \/ "refused" \in Faults /\ UNCHANGED <<received, repeated>>
     \/ /\ "lost" \in Faults /\ repeated = {}
        /\ ServerCounts
        /\ repeated' = repeated \cup {k.event : k \in DOMAIN countersMap}
  /\ UNCHANGED <<input, reason, batch, at, batchTime, counters, messages, config,
                 delivered, owed>>

NoMessages == /\ pc \in {"messages", "flushMessages"}
              /\ ~MessagesDue \/ ~sendRawData \/ messageMap = <<>>
              /\ AfterMessages
              /\ UNCHANGED <<input, batch, at, batchTime, counters, messages,
                             config, server, history>>

PostsMessages == MessagesDue /\ sendRawData /\ messageMap # <<>>

(* The size grew by the records and shrinks by the arrays they are in. *)
MessagesAccepted ==
  /\ PostsMessages /\ AfterMessages
  /\ delivered' = delivered \o messageMap
  /\ messageMap' = <<>>
  /\ messageMapSize' = messageMapSize - Len(messageMap)
  /\ \E settings \in Settings : updateConfig(settings)
  /\ UNCHANGED <<input, batch, at, batchTime, counters, received, history>>

(* Wrong variant: messages that were not delivered are kept, as events are. *)
MessagesFailed_Kept ==
  /\ PostsMessages /\ AfterMessages
  /\ \/ "refused" \in Faults /\ UNCHANGED delivered
     \/ "lost" \in Faults /\ delivered' = delivered \o messageMap
  /\ UNCHANGED <<input, batch, at, batchTime, counters, messages,
                 config, received, history>>

(* Messages that were not delivered are gone, but not from the size. *)
MessagesFailed ==
  /\ PostsMessages /\ AfterMessages
  /\ messageMap' = <<>>
  /\ \/ "refused" \in Faults /\ UNCHANGED delivered
     \/ "lost" \in Faults /\ delivered' = delivered \o messageMap
  /\ UNCHANGED <<input, batch, at, batchTime, counters, messageMapSize,
                 config, received, history>>

Write == \/ CountRecord \/ StoreMessages
         \/ NoEvents \/ EventsAccepted \/ EventsFailed
         \/ NoMessages \/ MessagesAccepted \/ MessagesFailed
Goroutine == Write \/ Wake("tick")

Next == \/ \E e \in Events : Log(e)
        \/ Second
        \/ \E why \in {"tick", "flush", "done"} : Wake(why)
        \/ Write

Spec == Init /\ [][Next]_vars

(* Fairness: the goroutine is scheduled and the ticker goes on; a server   *)
(* that is asked again and again accepts a post in the end.                *)
FairSpec == Spec /\ WF_vars(Goroutine) /\ SF_vars(EventsAccepted)

-----------------------------------------------------------------------------
(* A record of the queue, and a key of the counters. *)
Record == [id : 1..MaxRecords, time : 0..MaxTime, tenant : Tenants \cup {"nil"}, name : Names]
KeyType == [event : [tenant : Tenants, name : Names], offset : 0..MaxTime]

(* Every variable keeps the shape its comment gives it, and the records    *)
(* kept for the server are no more than the size says, by which the limit  *)
(* is kept (writeMessages, sendMessagesToServer).                          *)
TypeOK ==
  /\ clock \in 0..MaxTime /\ logged \in 0..MaxRecords
  /\ queue \in Seq(Record) /\ batch \in Seq(Record) /\ at \in 1..(Len(batch) + 1)
  /\ pc \in {"waiting", "counting", "events", "messages", "flushEvents",
             "flushMessages", "closed"}
  /\ reason \in {"tick", "flush", "done"}
  /\ batchTime \in {Never} \cup 0..MaxTime /\ startTime \in {Never} \cup 0..MaxTime
  /\ DOMAIN countersMap \subseteq KeyType
  /\ \A k \in DOMAIN countersMap : countersMap[k] \in Nat \ {0}
  /\ countersMapSize \in Nat
  /\ messageMapSize \in Nat /\ Len(FlattenSeq([k \in DOMAIN messageMap |-> messageMap[k].ids])) <= messageMapSize
  /\ {counterTickCount, messageTickCount, counterInterval, messageInterval} \subseteq Nat
  /\ sendRawData \in BOOLEAN

(* countersMapSize, which decides what is dropped, is the number of keys,  *)
(* and within the limit; and while there is a key there is a start time,   *)
(* without which sendEventToServer would never post it.                    *)
CountersHonest ==
  /\ countersMapSize = Cardinality(DOMAIN countersMap)
  /\ countersMapSize <= maxEventMapSize
  /\ (startTime = Never) <=> (DOMAIN countersMap = {})

Waiting(e, records) == Cardinality({i \in DOMAIN records : Event(records[i]) = e})

(* Every event that was not dropped at the limit is counted by the server, *)
(* or will be: once, unless the reply to a post was lost.                  *)
CountedOnce ==
  \A e \in {x \in DOMAIN owed : x.name # "none"} :
    LET found == received[e] + CountOf(e) + Waiting(e, queue)
                   + Waiting(e, IF pc = "counting" THEN SubSeq(batch, at, Len(batch)) ELSE <<>>)
    IN  found >= owed[e] /\ (e \notin repeated => found = owed[e])

(* Of two records of a tenant, the one logged first is in an earlier array *)
(* or earlier in the same one.                                             *)
InOrder(arrays) ==
  \A k, l \in DOMAIN arrays :
    arrays[k].tenant = arrays[l].tenant =>
      \A i \in DOMAIN arrays[k].ids, j \in DOMAIN arrays[l].ids :
        k < l \/ (k = l /\ i < j) => arrays[k].ids[i] < arrays[l].ids[j]

(* The records of a tenant reach the server in the order they were logged, *)
(* and none twice, whatever becomes of the posts and their replies.        *)
MessagesInOrder == InOrder(delivered \o messageMap)

(* As long as the transport is not closed, what was counted is posted in   *)
(* the end, however many posts fail and whatever intervals the server sets. *)
EventuallyPosted == countersMap # NoKeys ~> countersMap = NoKeys \/ reason = "done"

(* Departures, which fail.  There is room for messages again and again, as *)
(* there is for events; and the start time is the earliest in the batch.   *)
RoomForMessages == []<>(messageMapSize < maxMessageMapSize \/ reason = "done")
StartsEarliest == \A k \in DOMAIN batch : batchTime <= batch[k].time
=============================================================================
