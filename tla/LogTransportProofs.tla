------------------------- MODULE LogTransportProofs -------------------------
(***************************************************************************)
(* Proofs about LogTransport, for any number of callers and records: its   *)
(* type invariant, that the size of the queue is right and bounded, that   *)
(* records keep their order, and that nothing is left behind by a Close.   *)
(***************************************************************************)
EXTENDS LogTransport, FiniteSetTheorems, SequenceTheorems, TLAPS

LEMMA InOrderShape ==
  ASSUME NEW list \in Seq(Nat)
  PROVE  InOrder(list) \in Seq(Nat) /\ Len(InOrder(list)) = Len(list)
BY DEF InOrder, Reverse

(* A call of Log, Close or Flush that goes on leaves the rest alone. *)
LEMMA CallType ==
  ASSUME TypeOK
  PROVE  /\ \A w \in Loggers, s \in {"idle", "logging", "nested", "warning", "posting"} :
              [log EXCEPT ![w] = s]
                \in [Loggers -> {"idle", "logging", "nested", "warning", "posting"}]
         /\ \A c \in Closers,
               s \in {"idle", "locking", "closing", "sending", "waiting", "returned"} :
              [closing EXCEPT ![c] = s]
                \in [Closers -> {"idle", "locking", "closing", "sending", "waiting", "returned"}]
         /\ \A f \in Flushers, s \in {"idle", "sending", "returned"} :
              [flushing EXCEPT ![f] = s] \in [Flushers -> {"idle", "sending", "returned"}]
BY DEF TypeOK

-----------------------------------------------------------------------------
(* The size of the queue: what Account subtracts has been added before, so *)
(* it never falls below zero.                                              *)
SizeInv == TypeOK /\ QueueSizeHonest

LEMMA SizeInit == Init => SizeInv
<1>1. <<>> \in Seq(Nat) /\ Len(<<>>) = 0
  OBVIOUS
<1>2. Init => TypeOK
  <2> SUFFICES ASSUME Init PROVE TypeOK
    OBVIOUS
  <2>1. /\ log \in [Loggers -> {"idle", "logging", "nested", "warning", "posting"}]
        /\ closing \in [Closers -> {"idle", "locking", "closing", "sending", "waiting", "returned"}]
        /\ flushing \in [Flushers -> {"idle", "sending", "returned"}]
    BY DEF Init
  <2>2. /\ logging \in BOOLEAN /\ running \in BOOLEAN
        /\ bg = "starting" /\ reason = "tick" /\ posted \in Nat /\ queueSize \in Nat
    BY DEF Init
  <2>3. disk \in Seq(Nat) /\ batch \in Seq(Nat) /\ written \in Seq(Nat)
    BY <1>1 DEF Init
  <2> QED
    BY <2>1, <2>2, <2>3 DEF TypeOK
<1>3. Init => QueueSizeHonest
  BY <1>1 DEF Init, QueueSizeHonest
<1> QED
  BY <1>2, <1>3 DEF SizeInv

LEMMA SizeNext ==
  ASSUME SizeInv, [Next]_vars
  PROVE  SizeInv'
<1> USE DEF SizeInv
<1>1. ASSUME NEW w \in Loggers, StartLog(w) \/ WarnInvalid(w) \/ StartNested(w) PROVE SizeInv'
  BY <1>1, CallType
  DEF StartLog, WarnInvalid, StartNested, TypeOK, QueueSizeHonest, goroutine, queue
<1>2. ASSUME NEW w \in Loggers, NEW level \in 0 .. 5, CheckCapacity(w, level) PROVE SizeInv'
  BY <1>2, CallType DEF CheckCapacity, TypeOK, QueueSizeHonest, goroutine, queue
<1>3. ASSUME NEW w \in Loggers, Post(w) PROVE SizeInv'
  <2>1. disk' = <<posted + 1>> \o disk /\ disk \in Seq(Nat) /\ posted + 1 \in Nat
    BY <1>3 DEF Post, TypeOK
  <2>2. disk' \in Seq(Nat) /\ Len(disk') = Len(disk) + 1
    BY <2>1
  <2>3. TypeOK'
    BY <1>3, <2>1, <2>2, CallType DEF Post, TypeOK, goroutine
  <2>4. /\ queueSize' = queueSize + 1 /\ batch' = batch /\ bg' = bg
        /\ Len(disk) \in Nat /\ Len(batch) \in Nat /\ queueSize \in Nat
    BY <1>3 DEF Post, TypeOK, goroutine
  <2>5. QueueSizeHonest'
    <3>1. CASE bg = "counting"
      <4>1. queueSize = Len(disk) + Len(batch)
        BY <3>1 DEF QueueSizeHonest
      <4> QED
        BY <2>2, <2>4, <3>1, <4>1 DEF QueueSizeHonest
    <3>2. CASE bg # "counting"
      <4>1. queueSize = Len(disk) + 0
        BY <3>2 DEF QueueSizeHonest
      <4> QED
        BY <2>2, <2>4, <3>2, <4>1 DEF QueueSizeHonest
    <3> QED
      BY <3>1, <3>2
  <2> QED
    BY <2>3, <2>5
<1>4. ASSUME Start \/ OnTick PROVE SizeInv'
  BY <1>4 DEF Start, OnTick, Wake, TypeOK, QueueSizeHonest, queue
<1>5. ASSUME NEW f \in Flushers, OnFlush(f) \/ Flush(f) \/ FlushAgain(f) PROVE SizeInv'
  BY <1>5, CallType
  DEF OnFlush, Flush, FlushAgain, Wake, TypeOK, QueueSizeHonest, goroutine, queue
<1>6. ASSUME NEW c \in Closers, OnDone(c) \/ Exit(c) PROVE SizeInv'
  BY <1>6, CallType DEF OnDone, Exit, Wake, TypeOK, QueueSizeHonest, queue
<1>7. ASSUME Drain PROVE SizeInv'
  <2>1. batch' \in Seq(Nat) /\ Len(batch') = Len(disk)
    BY <1>7, InOrderShape DEF Drain, TypeOK
  <2> QED
    BY <1>7, <2>1 DEF Drain, TypeOK, QueueSizeHonest
<1>8. ASSUME Account PROVE SizeInv'
  <2>1. queueSize' = Len(disk) /\ Len(disk) \in Nat
    BY <1>8 DEF Account, TypeOK, QueueSizeHonest
  <2> QED
    BY <1>8, <2>1 DEF Account, TypeOK, QueueSizeHonest
<1>9. ASSUME WriteOut PROVE SizeInv'
  <2>1. written' \in Seq(Nat) /\ batch' = <<>>
    BY <1>9 DEF WriteOut, TypeOK
  <2> QED
    BY <1>9, <2>1 DEF WriteOut, TypeOK, QueueSizeHonest
<1>10. ASSUME NEW c \in Closers, StartClose(c) \/ ShutDown(c) \/ CloseTransport(c) PROVE SizeInv'
  BY <1>10, CallType
  DEF StartClose, ShutDown, CloseTransport, TypeOK, QueueSizeHonest, goroutine, queue
<1>11. ASSUME UNCHANGED vars PROVE SizeInv'
  BY <1>11 DEF vars, TypeOK, QueueSizeHonest
<1> QED
  BY <1>1, <1>2, <1>3, <1>4, <1>5, <1>6, <1>7, <1>8, <1>9, <1>10, <1>11
  DEF Next, Background, Logging

(* Whatever callers, levels and sizes there are, every variable keeps its  *)
(* shape; the size of the queue, which writeToIO corrects after it has let *)
(* go of the lock, is never negative.                                      *)
THEOREM TypeCorrect == Spec => []TypeOK
<1>1. SizeInv => TypeOK
  BY DEF SizeInv
<1>2. SizeInv /\ [Next]_vars => SizeInv'
  BY SizeNext
<1> QED
  BY <1>1, <1>2, SizeInit, PTL DEF Spec

(* queueSize, by which records are dropped, counts what is waiting: writers *)
(* add under the lock what the goroutine subtracts without it.             *)
THEOREM SizeHonest == Spec => []QueueSizeHonest
<1>1. SizeInv => QueueSizeHonest
  BY DEF SizeInv
<1>2. SizeInv /\ [Next]_vars => SizeInv'
  BY SizeNext
<1> QED
  BY <1>1, <1>2, SizeInit, PTL DEF Spec

-----------------------------------------------------------------------------
(* Nothing is left behind.  Once the logger is shut down nobody logs, the  *)
(* goroutine is told to stop only after that, and what it drains then is   *)
(* all there will ever be.                                                 *)
ClosedInv ==
  /\ logging \/ \A w \in Loggers : log[w] = "idle"
  /\ \A c \in Closers : closing[c] \in {"closing", "sending", "waiting", "returned"} => ~logging
  /\ reason = "done" => ~logging
  /\ reason = "done" => bg \in {"draining", "counting", "writing", "exiting", "gone"}
  /\ bg \in {"exiting", "gone"} => reason = "done"
  /\ reason = "done" /\ bg # "draining" => disk = <<>>
  /\ bg \notin {"counting", "writing"} => batch = <<>>
  /\ Len(written) + Len(batch) + Len(disk) = posted

LEMMA ClosedInit == Init => ClosedInv
<1>1. Len(<<>>) = 0
  OBVIOUS
<1> QED
  BY <1>1 DEF Init, ClosedInv

LEMMA ClosedNext ==
  ASSUME TypeOK, TypeOK', ClosedInv, [Next]_vars
  PROVE  ClosedInv'
<1>1. ASSUME NEW w \in Loggers, StartLog(w) \/ WarnInvalid(w) \/ StartNested(w) PROVE ClosedInv'
  <2>1. logging
    BY <1>1 DEF StartLog, WarnInvalid, StartNested, ClosedInv
  <2> QED
    BY <1>1, <2>1 DEF StartLog, WarnInvalid, StartNested, ClosedInv, goroutine, queue
<1>2. ASSUME NEW w \in Loggers, NEW level \in 0 .. 5, CheckCapacity(w, level) PROVE ClosedInv'
  <2>1. logging
    BY <1>2 DEF CheckCapacity, Logs, ClosedInv
  <2> QED
    BY <1>2, <2>1 DEF CheckCapacity, ClosedInv, goroutine, queue
<1>3. ASSUME NEW w \in Loggers, Post(w) PROVE ClosedInv'
  <2>1. logging /\ reason # "done"
    BY <1>3 DEF Post, ClosedInv
  <2>2. Len(disk') = Len(disk) + 1
    BY <1>3 DEF Post, TypeOK
  <2>3. Len(written') + Len(batch') + Len(disk') = posted'
    BY <1>3, <2>2 DEF Post, TypeOK, ClosedInv
  <2> QED
    BY <1>3, <2>1, <2>3 DEF Post, ClosedInv, goroutine
<1>4. ASSUME Start \/ OnTick PROVE ClosedInv'
  BY <1>4 DEF Start, OnTick, Wake, ClosedInv, queue
<1>5. ASSUME NEW f \in Flushers, OnFlush(f) PROVE ClosedInv'
  BY <1>5 DEF OnFlush, Wake, ClosedInv, queue
<1>6. ASSUME NEW f \in Flushers, Flush(f) \/ FlushAgain(f) PROVE ClosedInv'
  BY <1>6 DEF Flush, FlushAgain, ClosedInv, goroutine, queue
<1>7. ASSUME NEW c \in Closers, OnDone(c) PROVE ClosedInv'
  <2>1. ~logging
    BY <1>7 DEF OnDone, ClosedInv
  <2> QED
    BY <1>7, <2>1 DEF OnDone, Wake, TypeOK, ClosedInv, queue
<1>8. ASSUME NEW c \in Closers, Exit(c) PROVE ClosedInv'
  <2>1. ~logging /\ reason = "done"
    BY <1>8 DEF Exit, ClosedInv
  <2> QED
    BY <1>8, <2>1 DEF Exit, TypeOK, ClosedInv, queue
<1>9. ASSUME Drain PROVE ClosedInv'
  <2>1. Len(batch') = Len(disk) /\ Len(disk') = 0 /\ Len(batch) = 0
    BY <1>9, InOrderShape DEF Drain, TypeOK, ClosedInv
  <2>2. Len(written') + Len(batch') + Len(disk') = posted'
    BY <1>9, <2>1 DEF Drain, TypeOK, ClosedInv
  <2> QED
    BY <1>9, <2>2 DEF Drain, ClosedInv
<1>10. ASSUME Account PROVE ClosedInv'
  BY <1>10 DEF Account, ClosedInv
<1>11. ASSUME WriteOut PROVE ClosedInv'
  <2>1. Len(written') = Len(written) + Len(batch) /\ Len(batch') = 0
    BY <1>11 DEF WriteOut, TypeOK
  <2>2. Len(written') + Len(batch') + Len(disk') = posted'
    BY <1>11, <2>1 DEF WriteOut, TypeOK, ClosedInv
  <2> QED
    BY <1>11, <2>2 DEF WriteOut, ClosedInv
<1>12. ASSUME NEW c \in Closers, StartClose(c) PROVE ClosedInv'
  BY <1>12 DEF StartClose, TypeOK, ClosedInv, goroutine, queue
<1>13. ASSUME NEW c \in Closers, ShutDown(c) PROVE ClosedInv'
  BY <1>13 DEF ShutDown, NoReaders, Reading, TypeOK, ClosedInv, goroutine, queue
<1>14. ASSUME NEW c \in Closers, CloseTransport(c) PROVE ClosedInv'
  BY <1>14 DEF CloseTransport, TypeOK, ClosedInv, goroutine, queue
<1>15. ASSUME UNCHANGED vars PROVE ClosedInv'
  BY <1>15 DEF vars, ClosedInv
<1> QED
  BY <1>1, <1>2, <1>3, <1>4, <1>5, <1>6, <1>7, <1>8, <1>9, <1>10, <1>11, <1>12, <1>13,
     <1>14, <1>15
  DEF Next, Background, Logging

(* When the goroutine has drained the queue for a Close, every record ever *)
(* posted is written and no call of Log is left that could post another:   *)
(* uclog.Close takes the write lock before it stops the transports.        *)
THEOREM NothingLeftBehind == Spec => []GoneIsFlushed
<1> DEFINE Inv == SizeInv /\ ClosedInv
<1>1. Init => Inv
  BY SizeInit, ClosedInit
<1>2. Inv /\ [Next]_vars => Inv'
  BY SizeNext, ClosedNext DEF SizeInv
<1>3. Inv => GoneIsFlushed
  <2> SUFFICES ASSUME TypeOK, ClosedInv, bg \in {"exiting", "gone"}
               PROVE  Len(written) = posted /\ \A w \in Loggers : log[w] = "idle"
    BY DEF SizeInv, GoneIsFlushed
  <2>1. ~logging /\ disk = <<>> /\ batch = <<>>
    BY DEF ClosedInv
  <2>2. Len(written) + 0 + 0 = posted /\ Len(written) \in Nat
    BY <2>1 DEF ClosedInv, TypeOK
  <2> QED
    BY <2>1, <2>2 DEF ClosedInv, TypeOK
<1> QED
  BY <1>1, <1>2, <1>3, PTL DEF Spec

-----------------------------------------------------------------------------
(* The bound of the queue.  A writer that has passed the check counts as   *)
(* if it had posted already.                                               *)
Posting == {w \in Loggers : log[w] = "posting"}
BoundInv == queueSize + Cardinality(Posting) < Room[1] + Cardinality(Loggers)

LEMMA PostingFinite ==
  /\ IsFiniteSet(Posting) /\ Cardinality(Posting) \in Nat
  /\ Cardinality(Loggers) \in Nat
  /\ Cardinality(Posting) <= Cardinality(Loggers)
<1>1. Posting \subseteq Loggers
  BY DEF Posting
<1> QED
  BY <1>1, LogTransportAssumption, FS_Subset, FS_CardinalityType

LEMMA RoomPositive == Room[1] \in Nat \ {0}
BY LogTransportAssumption

(* Whatever its level, an event gets through only while there is room. *)
LEMMA RoomLeft ==
  ASSUME queueSize \in Nat, NEW level \in 0 .. 5, ~Dropped(level)
  PROVE  queueSize < Room[1]
<1> DEFINE fit == {l \in 1 .. 5 : queueSize < Room[l]}
<1>1. fit # {}
  <2> SUFFICES ASSUME fit = {} PROVE FALSE
    OBVIOUS
  <2>1. Backoff = -1
    BY DEF Backoff
  <2> QED
    BY <2>1 DEF Dropped
<1>2. PICK l \in 1 .. 5 : queueSize < Room[l]
  BY <1>1
<1>3. \A m \in 1 .. 5 : Room[m] \in Nat
  BY LogTransportAssumption
<1>4. Room[1] >= Room[2] /\ Room[2] >= Room[3] /\ Room[3] >= Room[4] /\ Room[4] >= Room[5]
  BY LogTransportAssumption
<1>5. /\ Room[1] \in Nat /\ Room[2] \in Nat /\ Room[3] \in Nat
      /\ Room[4] \in Nat /\ Room[5] \in Nat
  BY <1>3
<1>6. l = 1 \/ l = 2 \/ l = 3 \/ l = 4 \/ l = 5
  BY <1>2
<1> QED
  BY <1>2, <1>4, <1>5, <1>6

(* A step that posts nothing and lets nobody past the check. *)
LEMMA BoundQuiet ==
  ASSUME TypeOK, TypeOK', BoundInv, queueSize' <= queueSize, Posting' \subseteq Posting
  PROVE  BoundInv'
<1>1. Cardinality(Posting') <= Cardinality(Posting) /\ Cardinality(Posting') \in Nat
  BY PostingFinite, FS_Subset, FS_CardinalityType
<1>2. queueSize \in Nat /\ queueSize' \in Nat
  BY DEF TypeOK
<1> QED
  BY <1>1, <1>2, PostingFinite, RoomPositive DEF BoundInv

LEMMA BoundInit == Init => BoundInv
<1> SUFFICES ASSUME Init PROVE BoundInv
  OBVIOUS
<1>1. Posting = {} /\ queueSize = 0
  BY DEF Init, Posting
<1>2. Cardinality(Posting) = 0
  BY <1>1, FS_EmptySet
<1> QED
  BY <1>1, <1>2, PostingFinite, RoomPositive DEF BoundInv

LEMMA BoundNext ==
  ASSUME SizeInv, SizeInv', BoundInv, [Next]_vars
  PROVE  BoundInv'
<1>t. TypeOK /\ TypeOK'
  BY DEF SizeInv
<1>n. queueSize \in Nat
  BY <1>t DEF TypeOK
<1>1. ASSUME NEW w \in Loggers, StartLog(w) \/ WarnInvalid(w) \/ StartNested(w) PROVE BoundInv'
  <2>1. Posting' \subseteq Posting /\ queueSize' = queueSize
    BY <1>1, <1>t DEF StartLog, WarnInvalid, StartNested, Posting, TypeOK, queue
  <2> QED
    BY <1>t, <1>n, <2>1, BoundQuiet
<1>2. ASSUME NEW w \in Loggers, NEW level \in 0 .. 5, CheckCapacity(w, level) PROVE BoundInv'
  <2>1. queueSize' = queueSize
    BY <1>2 DEF CheckCapacity, queue
  <2>2. CASE Dropped(level)
    <3>1. Posting' \subseteq Posting
      BY <1>2, <1>t, <2>2 DEF CheckCapacity, Posting, TypeOK
    <3> QED
      BY <1>t, <1>n, <2>1, <3>1, BoundQuiet
  <2>3. CASE ~Dropped(level)
    <3>1. queueSize < Room[1]
      BY <1>n, <2>3, RoomLeft
    <3>2. Posting' \subseteq Loggers
      BY DEF Posting
    <3>3. Cardinality(Posting') <= Cardinality(Loggers) /\ Cardinality(Posting') \in Nat
      BY <3>2, LogTransportAssumption, FS_Subset, FS_CardinalityType
    <3> QED
      BY <1>n, <2>1, <3>1, <3>3, PostingFinite, RoomPositive DEF BoundInv
  <2> QED
    BY <2>2, <2>3
<1>3. ASSUME NEW w \in Loggers, Post(w) PROVE BoundInv'
  <2>1. w \in Posting /\ Posting' = Posting \ {w} /\ queueSize' = queueSize + 1
    BY <1>3, <1>t DEF Post, Posting, TypeOK
  <2>2. Cardinality(Posting') = Cardinality(Posting) - 1
    BY <2>1, PostingFinite, FS_RemoveElement
  <2> QED
    BY <1>n, <2>1, <2>2, PostingFinite, RoomPositive DEF BoundInv
<1>4. ASSUME Account PROVE BoundInv'
  <2>1. queueSize' = queueSize - Len(batch) /\ Len(batch) \in Nat /\ Posting' = Posting
    BY <1>4, <1>t DEF Account, Posting, TypeOK
  <2> QED
    BY <1>t, <1>n, <2>1, BoundQuiet
<1>5. ASSUME queueSize' = queueSize, log' = log PROVE BoundInv'
  BY <1>5 DEF BoundInv, Posting
<1>6. CASE Start \/ OnTick \/ Drain \/ WriteOut
  BY <1>5, <1>6 DEF Start, OnTick, Drain, WriteOut, queue
<1>7. ASSUME NEW c \in Closers,
             OnDone(c) \/ Exit(c) \/ StartClose(c) \/ ShutDown(c) \/ CloseTransport(c)
      PROVE  BoundInv'
  BY <1>5, <1>7 DEF OnDone, Exit, StartClose, ShutDown, CloseTransport, queue
<1>8. ASSUME NEW f \in Flushers, OnFlush(f) \/ Flush(f) \/ FlushAgain(f) PROVE BoundInv'
  BY <1>5, <1>8 DEF OnFlush, Flush, FlushAgain, queue
<1>9. CASE UNCHANGED vars
  BY <1>5, <1>9 DEF vars
<1> QED
  BY <1>1, <1>2, <1>3, <1>4, <1>6, <1>7, <1>8, <1>9 DEF Next, Background, Logging

(* However many writers race past the check of queueCapacityBackoff, which *)
(* reads the size without the lock, they overrun maxQueueSize by less than *)
(* one record each.                                                        *)
THEOREM OverrunBounded == Spec => []QueueBounded
<1> DEFINE Inv == SizeInv /\ BoundInv
<1>1. Init => Inv
  BY SizeInit, BoundInit
<1>2. Inv /\ [Next]_vars => Inv'
  BY SizeNext, BoundNext
<1>3. Inv => QueueBounded
  <2> SUFFICES ASSUME TypeOK, BoundInv PROVE QueueBounded
    BY DEF SizeInv
  <2>1. queueSize \in Nat
    BY DEF TypeOK
  <2> QED
    BY <2>1, PostingFinite, RoomPositive DEF BoundInv, QueueBounded
<1> QED
  BY <1>1, <1>2, <1>3, PTL DEF Spec

-----------------------------------------------------------------------------
(* The order of records.  Posting at the front of the list is adding at    *)
(* the end of its reverse.                                                 *)
LEMMA ReverseShape ==
  ASSUME NEW s \in Seq(Nat)
  PROVE  /\ Reverse(s) \in Seq(Nat) /\ Len(Reverse(s)) = Len(s)
         /\ \A i \in 1 .. Len(s) : Reverse(s)[i] = s[Len(s) - i + 1]
BY DEF Reverse

LEMMA ReverseEmpty == Reverse(<<>>) = <<>>
BY DEF Reverse

LEMMA ReverseFront ==
  ASSUME NEW s \in Seq(Nat), NEW n \in Nat
  PROVE  Reverse(<<n>> \o s) = Reverse(s) \o <<n>>
<1> DEFINE t == <<n>> \o s
           u == Reverse(s) \o <<n>>
<1>1. /\ t \in Seq(Nat) /\ Len(t) = Len(s) + 1 /\ t[1] = n
      /\ \A i \in 1 .. Len(s) : t[i + 1] = s[i]
  OBVIOUS
<1>2. /\ u \in Seq(Nat) /\ Len(u) = Len(s) + 1 /\ u[Len(s) + 1] = n
      /\ \A i \in 1 .. Len(s) : u[i] = s[Len(s) - i + 1]
  BY ReverseShape
<1>3. Len(s) \in Nat
  OBVIOUS
<1> HIDE DEF t, u
<1>4. /\ Reverse(t) \in Seq(Nat) /\ Len(Reverse(t)) = Len(s) + 1
      /\ \A i \in 1 .. Len(s) + 1 : Reverse(t)[i] = t[Len(s) + 1 - i + 1]
  BY <1>1, ReverseShape
<1>5. ASSUME NEW i \in 1 .. Len(s) + 1 PROVE Reverse(t)[i] = u[i]
  <2>1. CASE i = Len(s) + 1
    BY <1>1, <1>2, <1>3, <1>4, <2>1
  <2>2. CASE i # Len(s) + 1
    <3>1. i \in 1 .. Len(s) /\ Len(s) - i + 1 \in 1 .. Len(s)
      BY <1>3, <2>2
    <3>2. t[Len(s) - i + 1 + 1] = s[Len(s) - i + 1]
      BY <1>1, <3>1
    <3>3. Len(s) + 1 - i + 1 = Len(s) - i + 1 + 1
      BY <1>3
    <3> QED
      BY <1>2, <1>4, <3>1, <3>2, <3>3
  <2> QED
    BY <2>1, <2>2
<1>6. Reverse(t) = u
  BY <1>2, <1>4, <1>5, SeqEqual
<1> QED
  BY <1>6 DEF t, u

LEMMA CountOn ==
  ASSUME NEW k \in Nat
  PROVE  [n \in 1 .. k |-> n] \o <<k + 1>> = [n \in 1 .. k + 1 |-> n]
<1> DEFINE a == [n \in 1 .. k |-> n]
           b == [n \in 1 .. k + 1 |-> n]
<1>1. a \in Seq(Nat) /\ Len(a) = k /\ b \in Seq(Nat) /\ Len(b) = k + 1
  OBVIOUS
<1>2. a \o <<k + 1>> \in Seq(Nat) /\ Len(a \o <<k + 1>>) = k + 1
  BY <1>1
<1>3. \A i \in 1 .. k + 1 : (a \o <<k + 1>>)[i] = b[i]
  BY <1>1
<1> HIDE DEF a, b
<1>4. a \o <<k + 1>> = b
  BY <1>1, <1>2, <1>3, SeqEqual
<1> QED
  BY <1>4 DEF a, b

LEMMA OrderInit == Init => InPostedOrder
<1> SUFFICES ASSUME Init PROVE InPostedOrder
  OBVIOUS
<1>1. written \o batch \o Reverse(disk) = <<>>
  BY ReverseEmpty DEF Init
<1>2. [n \in 1 .. posted |-> n] = <<>>
  BY DEF Init
<1> QED
  BY <1>1, <1>2 DEF InPostedOrder

LEMMA OrderNext ==
  ASSUME TypeOK, ClosedInv, InPostedOrder, [Next]_vars
  PROVE  InPostedOrder'
<1>s. /\ written \in Seq(Nat) /\ batch \in Seq(Nat) /\ disk \in Seq(Nat) /\ posted \in Nat
      /\ Reverse(disk) \in Seq(Nat)
  BY ReverseShape DEF TypeOK
<1>1. ASSUME NEW w \in Loggers, Post(w) PROVE InPostedOrder'
  <2>1. /\ posted' = posted + 1 /\ disk' = <<posted + 1>> \o disk
        /\ batch' = batch /\ written' = written
    BY <1>1 DEF Post
  <2>2. Reverse(disk') = Reverse(disk) \o <<posted + 1>>
    BY <1>s, <2>1, ReverseFront
  <2>3. (written \o batch) \o (Reverse(disk) \o <<posted + 1>>)
          = (written \o batch \o Reverse(disk)) \o <<posted + 1>>
    <3>1. written \o batch \in Seq(Nat) /\ <<posted + 1>> \in Seq(Nat)
      BY <1>s
    <3> QED
      BY <1>s, <3>1, ConcatAssociative
  <2>4. written' \o batch' \o Reverse(disk') = [n \in 1 .. posted |-> n] \o <<posted + 1>>
    BY <2>1, <2>2, <2>3 DEF InPostedOrder
  <2>5. written' \o batch' \o Reverse(disk') = [n \in 1 .. posted' |-> n]
    BY <1>s, <2>1, <2>4, CountOn
  <2> QED
    BY <2>5 DEF InPostedOrder
<1>2. ASSUME Drain PROVE InPostedOrder'
  <2>1. /\ batch = <<>> /\ batch' = Reverse(disk) /\ disk' = <<>>
        /\ written' = written /\ posted' = posted
    BY <1>2 DEF Drain, InOrder, ClosedInv
  <2>2. written \o <<>> = written /\ (written \o Reverse(disk)) \o <<>> = written \o Reverse(disk)
    BY <1>s
  <2>3. written' \o batch' \o Reverse(disk') = written \o batch \o Reverse(disk)
    BY <2>1, <2>2, ReverseEmpty
  <2> QED
    BY <2>1, <2>3 DEF InPostedOrder
<1>3. ASSUME WriteOut PROVE InPostedOrder'
  <2>1. /\ written' = written \o batch /\ batch' = <<>>
        /\ disk' = disk /\ posted' = posted
    BY <1>3 DEF WriteOut
  <2>2. (written \o batch) \o <<>> = written \o batch
    BY <1>s
  <2> QED
    BY <2>1, <2>2 DEF InPostedOrder
<1>4. ASSUME UNCHANGED <<posted, disk, batch, written>> PROVE InPostedOrder'
  BY <1>4 DEF InPostedOrder
<1>5. CASE Start \/ OnTick \/ Account
  BY <1>4, <1>5 DEF Start, OnTick, Account, queue
<1>6. ASSUME NEW w \in Loggers, NEW level \in 0 .. 5,
             StartLog(w) \/ WarnInvalid(w) \/ StartNested(w) \/ CheckCapacity(w, level)
      PROVE  InPostedOrder'
  BY <1>4, <1>6 DEF StartLog, WarnInvalid, StartNested, CheckCapacity, queue
<1>7. ASSUME NEW c \in Closers,
             OnDone(c) \/ Exit(c) \/ StartClose(c) \/ ShutDown(c) \/ CloseTransport(c)
      PROVE  InPostedOrder'
  BY <1>4, <1>7 DEF OnDone, Exit, StartClose, ShutDown, CloseTransport, queue
<1>8. ASSUME NEW f \in Flushers, OnFlush(f) \/ Flush(f) \/ FlushAgain(f) PROVE InPostedOrder'
  BY <1>4, <1>8 DEF OnFlush, Flush, FlushAgain, queue
<1>9. CASE UNCHANGED vars
  BY <1>4, <1>9 DEF vars
<1> QED
  BY <1>1, <1>2, <1>3, <1>5, <1>6, <1>7, <1>8, <1>9 DEF Next, Background, Logging

(* No record is lost, doubled or overtaken between writeLogRecord and the  *)
(* wrapped transport, whoever posts while writeToIO takes the list away.   *)
THEOREM OrderKept == Spec => []InPostedOrder
<1> DEFINE Inv == SizeInv /\ ClosedInv /\ InPostedOrder
<1>1. Init => Inv
  BY SizeInit, ClosedInit, OrderInit
<1>2. Inv /\ [Next]_vars => Inv'
  BY SizeNext, ClosedNext, OrderNext DEF SizeInv
<1>3. Inv => InPostedOrder
  OBVIOUS
<1> QED
  BY <1>1, <1>2, <1>3, PTL DEF Spec
=============================================================================
