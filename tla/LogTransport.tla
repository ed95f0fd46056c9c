---------------------------- MODULE LogTransport ----------------------------
(***************************************************************************)
(* Logging through a transport with a background goroutine: Log and Close  *)
(* of infra/uclog/logger.go, and the queue they share with the goroutine   *)
(* of infra/logtransports/transportBackgroundIOWrapper.go.                 *)
(*                                                                         *)
(* A record is its number in the order records were posted: what it says   *)
(* matters to nobody here but its level, which decides whether it is       *)
(* posted at all.  Levels run from 0, an event without a message, over 1,  *)
(* an error, and 2, a warning, to 5, the most verbose.  Events the         *)
(* transport is not configured for are left out.                           *)
(***************************************************************************)
EXTENDS Integers, Sequences, FiniteSets, SequencesExt

CONSTANTS Loggers,    \* callers of Log
          Closers,    \* callers of uclog.Close
          Flushers,   \* callers of the transport's Flush
          Levels,     \* the levels events are logged at
          Room,       \* Room[l]: how long the queue may be for level l
          MaxRecords  \* bound: the records posted

ASSUME LogTransportAssumption ==
  /\ IsFiniteSet(Loggers)
  /\ Levels \subseteq 0 .. 5
  /\ Room \in [1 .. 5 -> Nat \ {0}]
  /\ \A l \in 1 .. 4 : Room[l] >= Room[l + 1]
  /\ MaxRecords \in Nat

VARIABLES logging,    \* loggerState has not reached shutting down
          log,        \* what each caller of Log is doing
          closing,    \* what each caller of Close is doing
          flushing,   \* what each caller of Flush is doing
          bg,         \* what the goroutine is doing
          reason,     \* why it is draining the queue
          running,    \* runningBGThread
          posted,     \* the number of records posted so far
          disk,       \* diskRecords, the last one first
          queueSize,
          batch,      \* the records writeToIO has taken, in order
          written     \* what the wrapped transport was given

vars == <<logging, log, closing, flushing, bg, reason, running,
          posted, disk, queueSize, batch, written>>

queue == <<posted, disk, queueSize, batch, written>>
goroutine == <<bg, reason, running>>

Init == /\ logging = TRUE
        /\ log = [w \in Loggers |-> "idle"]
        /\ closing = [c \in Closers |-> "idle"]
        /\ flushing = [f \in Flushers |-> "idle"]
        /\ bg = "starting" /\ reason = "tick" /\ running = FALSE
        /\ posted = 0 /\ disk = <<>> /\ queueSize = 0
        /\ batch = <<>> /\ written = <<>>

-----------------------------------------------------------------------------
(* loggerConfigMutex.  A writer that waits for the readers to leave keeps  *)
(* new ones out, even one that already holds the lock.                     *)
CanRead == \A c \in Closers : closing[c] # "locking"
Reading(w) == log[w] # "idle"

(* Wrong variant: the state is changed without waiting for the readers. *)
NoReaders_Unlocked == TRUE

NoReaders == \A w \in Loggers : ~Reading(w)

(* Log.  Once the logger is shutting down it returns at once. *)
StartLog(w) == /\ log[w] = "idle" /\ logging /\ CanRead
               /\ log' = [log EXCEPT ![w] = "logging"]
               /\ UNCHANGED <<logging, closing, flushing, goroutine, queue>>

(* An event that is not valid is dropped, and Log called again to say so,  *)
(* under the lock: "nested" waits for it, "warning" has it.                *)
WarnInvalid(w) == /\ log[w] = "logging"
                  /\ log' = [log EXCEPT ![w] = "nested"]
                  /\ UNCHANGED <<logging, closing, flushing, goroutine, queue>>
StartNested(w) == /\ log[w] = "nested" /\ CanRead
                  /\ log' = [log EXCEPT ![w] = "warning"]
                  /\ UNCHANGED <<logging, closing, flushing, goroutine, queue>>

(* The level up to which queueCapacityBackoff lets events through. *)
Backoff == LET fit == {l \in 1 .. 5 : queueSize < Room[l]}
           IN IF fit = {} THEN -1 ELSE CHOOSE l \in fit : \A m \in fit : m <= l
Dropped(level) == Backoff < level \/ (Backoff <= 2 /\ level = 0)

Logs(w, level) == \/ log[w] = "logging" /\ level \in Levels
                  \/ log[w] = "warning" /\ level = 2

(* Wrong variant: the queue takes whatever comes. *)
CheckCapacity_Never(w, level) == /\ Logs(w, level)
                                 /\ log' = [log EXCEPT ![w] = "posting"]
                                 /\ UNCHANGED <<logging, closing, flushing, goroutine, queue>>

(* writeLogRecord: the size of the queue is read without its lock ... *)
CheckCapacity(w, level) ==
  /\ Logs(w, level)
  /\ log' = [log EXCEPT ![w] = IF Dropped(level) THEN "idle" ELSE "posting"]
  /\ UNCHANGED <<logging, closing, flushing, goroutine, queue>>

(* ... and the record put in front of the list under postMutext. *)
Post(w) == /\ log[w] = "posting" /\ posted < MaxRecords
           /\ log' = [log EXCEPT ![w] = "idle"]
           /\ posted' = posted + 1
           /\ disk' = <<posted + 1>> \o disk
           /\ queueSize' = queueSize + 1
           /\ UNCHANGED <<logging, closing, flushing, goroutine, batch, written>>

-----------------------------------------------------------------------------
(* The goroutine Init starts. *)
Start == /\ bg = "starting"
         /\ bg' = "waiting"
         /\ running' = TRUE
         /\ UNCHANGED <<logging, log, closing, flushing, reason, queue>>

(* Its select: the ticker, ... *)
Wake(r) == bg = "waiting" /\ bg' = "draining" /\ reason' = r /\ UNCHANGED running

OnTick == /\ Wake("tick")
          /\ UNCHANGED <<logging, log, closing, flushing, queue>>

(* ... a Flush, which returns as soon as its signal is taken, ... *)
OnFlush(f) == /\ Wake("flush")
              /\ flushing[f] = "sending"
              /\ flushing' = [flushing EXCEPT ![f] = "returned"]
              /\ UNCHANGED <<logging, log, closing, queue>>

(* Wrong variant: told to stop, the goroutine stops. *)
OnDone_NoDrain(c) == /\ bg = "waiting" /\ bg' = "exiting"
                     /\ closing[c] = "sending"
                     /\ closing' = [closing EXCEPT ![c] = "waiting"]
                     /\ UNCHANGED <<logging, log, flushing, reason, running, queue>>

(* ... or a Close, which goes on to wait for exitBG. *)
OnDone(c) == /\ Wake("done")
             /\ closing[c] = "sending"
             /\ closing' = [closing EXCEPT ![c] = "waiting"]
             /\ UNCHANGED <<logging, log, flushing, queue>>

(* Wrong variant: the list is written as it comes. *)
InOrder_AsListed(list) == list

InOrder(list) == Reverse(list)

(* Wrong variant: the list is read and not taken. *)
Drain_KeepsList == /\ bg = "draining"
                   /\ batch' = InOrder(disk)
                   /\ bg' = "counting"
                   /\ UNCHANGED <<logging, log, closing, flushing, reason, running,
                                  posted, disk, queueSize, written>>

(* writeToIO takes the list under postMutext, ... *)
Drain == /\ bg = "draining"
         /\ batch' = InOrder(disk)
         /\ disk' = <<>>
         /\ bg' = "counting"
         /\ UNCHANGED <<logging, log, closing, flushing, reason, running,
                        posted, queueSize, written>>

(* Wrong variant: a batch is counted as one record. *)
Account_Batches == /\ bg = "counting"
                   /\ queueSize' = queueSize - (IF batch = <<>> THEN 0 ELSE 1)
                   /\ bg' = "writing"
                   /\ UNCHANGED <<logging, log, closing, flushing, reason, running,
                                  posted, disk, batch, written>>

(* ... corrects the size of the queue, ... *)
Account == /\ bg = "counting"
           /\ queueSize' = queueSize - Len(batch)
           /\ bg' = "writing"
           /\ UNCHANGED <<logging, log, closing, flushing, reason, running,
                          posted, disk, batch, written>>

(* ... and has the records written; after a Close the goroutine is done.   *)
WriteOut == /\ bg = "writing"
            /\ written' = written \o batch
            /\ batch' = <<>>
            /\ bg' = IF reason = "done" THEN "exiting" ELSE "waiting"
            /\ running' = (reason # "done")
            /\ UNCHANGED <<logging, log, closing, flushing, reason,
                           posted, disk, queueSize>>

Exit(c) == /\ bg = "exiting" /\ closing[c] = "waiting"
           /\ bg' = "gone"
           /\ closing' = [closing EXCEPT ![c] = "returned"]
           /\ UNCHANGED <<logging, log, flushing, reason, running, queue>>

-----------------------------------------------------------------------------
(* uclog.Close shuts the logger down under the lock, ... *)
StartClose(c) == /\ closing[c] = "idle"
                 /\ closing' = [closing EXCEPT ![c] = "locking"]
                 /\ UNCHANGED <<logging, log, flushing, goroutine, queue>>
ShutDown(c) == /\ closing[c] = "locking" /\ NoReaders
               /\ closing' = [closing EXCEPT ![c] = "closing"]
               /\ logging' = FALSE
               /\ UNCHANGED <<log, flushing, goroutine, queue>>

(* ... then calls the transport's Close, which looks at runningBGThread    *)
(* without a lock.                                                         *)
CloseTransport(c) ==
  /\ closing[c] = "closing"
  /\ closing' = [closing EXCEPT ![c] = IF running THEN "sending" ELSE "returned"]
  /\ UNCHANGED <<logging, log, flushing, goroutine, queue>>

Flush(f) == /\ flushing[f] = "idle"
            /\ flushing' = [flushing EXCEPT ![f] = IF running THEN "sending" ELSE "returned"]
            /\ UNCHANGED <<logging, log, closing, goroutine, queue>>

(* A caller may flush again. *)
FlushAgain(f) == /\ flushing[f] = "returned"
                 /\ flushing' = [flushing EXCEPT ![f] = "idle"]
                 /\ UNCHANGED <<logging, log, closing, goroutine, queue>>

Background == Start \/ OnTick \/ Drain \/ Account \/ WriteOut
                \/ \E c \in Closers : OnDone(c) \/ Exit(c)
                \/ \E f \in Flushers : OnFlush(f)

Logging(w) == \/ StartNested(w) \/ Post(w)
              \/ \E level \in 0 .. 5 : CheckCapacity(w, level)

Next == \/ Background
        \/ \E w \in Loggers : StartLog(w) \/ WarnInvalid(w) \/ Logging(w)
        \/ \E c \in Closers : StartClose(c) \/ ShutDown(c) \/ CloseTransport(c)
        \/ \E f \in Flushers : Flush(f) \/ FlushAgain(f)

Spec == Init /\ [][Next]_vars

(* Fairness: the goroutine, and a call that is under way, are scheduled;   *)
(* of the cases of its select the goroutine takes each that keeps coming.  *)
Fairness == /\ WF_vars(Background)
            /\ \A w \in Loggers : WF_vars(Logging(w))
            /\ \A c \in Closers : /\ WF_vars(ShutDown(c) \/ CloseTransport(c))
                                  /\ SF_vars(OnDone(c))
            /\ \A f \in Flushers : SF_vars(OnFlush(f))
FairSpec == Spec /\ Fairness

-----------------------------------------------------------------------------
(* Every variable keeps the shape the comments above give it. *)
TypeOK ==
  /\ logging \in BOOLEAN /\ running \in BOOLEAN
  /\ log \in [Loggers -> {"idle", "logging", "nested", "warning", "posting"}]
  /\ closing \in [Closers -> {"idle", "locking", "closing", "sending", "waiting", "returned"}]
  /\ flushing \in [Flushers -> {"idle", "sending", "returned"}]
  /\ bg \in {"starting", "waiting", "draining", "counting", "writing", "exiting", "gone"}
  /\ reason \in {"tick", "flush", "done"}
  /\ posted \in Nat /\ queueSize \in Nat
  /\ disk \in Seq(Nat) /\ batch \in Seq(Nat) /\ written \in Seq(Nat)

(* Every record posted is in exactly one place and the records are written *)
(* in the order they were posted, although the list is kept backwards and  *)
(* taken away while writers add to it.                                     *)
InPostedOrder == written \o batch \o Reverse(disk) = [n \in 1 .. posted |-> n]

(* queueSize is the number of records that are waiting, but for those      *)
(* writeToIO has taken and not yet counted.                                *)
QueueSizeHonest ==
  queueSize = Len(disk) + IF bg = "counting" THEN Len(batch) ELSE 0

(* Writers that race past the check of queueCapacityBackoff overrun        *)
(* maxQueueSize by no more than one record each.                           *)
QueueBounded == queueSize < Room[1] + Cardinality(Loggers)

(* When the goroutine is gone nothing is left behind, and nothing will be: *)
(* Close drains the queue after the last Log that could post to it.        *)
GoneIsFlushed == bg \in {"exiting", "gone"} =>
  Len(written) = posted /\ \A w \in Loggers : log[w] = "idle"

(* A record that was posted is written in the end. *)
EventuallyWritten ==
  \A n \in 1 .. MaxRecords : posted >= n ~> \E i \in DOMAIN written : written[i] = n

(* A Flush or a Close of the transport returns, whoever else calls what.   *)
CallsReturn ==
  /\ \A f \in Flushers : flushing[f] = "sending" ~> flushing[f] # "sending"
  /\ \A c \in Closers : closing[c] = "sending" ~> closing[c] = "returned"
=============================================================================
