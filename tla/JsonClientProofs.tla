-------------------------- MODULE JsonClientProofs --------------------------
(***************************************************************************)
(* What is proved of JsonClient for any number of callers, items, tokens   *)
(* and retries.  The inductive invariant has three layers: the types       *)
(* (Types), the life of a token on its way from the source to a request    *)
(* (Tokens fresh until they are cloned, Fresh), and what every answer says *)
(* of the items the server has held since the call began (Truthful).       *)
(***************************************************************************)
EXTENDS JsonClient, TLAPS

USE JsonClientAssumption

(* A request on its way is that of a call that began. *)
Types ==
  /\ TypeOK
  /\ \A r \in network : ~ At(r.caller, "idle")

-----------------------------------------------------------------------------
(* A caller that has begun has a record of its call. *)
LEMMA HasBegun ==
  ASSUME TypeOK, NEW p \in Callers, call[p].pc # "idle"
  PROVE  call[p] \in Call
BY DEF TypeOK, Idle

(* A step of one caller leaves the others alone. *)
LEMMA BecomeCall ==
  ASSUME TypeOK, NEW p \in Callers, NEW c \in Call, Become(p, c)
  PROVE  /\ call' \in [Callers -> Call \cup {Idle}]
         /\ call'[p] = c
         /\ \A q \in Callers : q # p => call'[q] = call[q]
BY DEF TypeOK, Become

LEMMA ReturnedCall ==
  ASSUME NEW c \in Call, NEW outcome \in Outcomes
  PROVE  /\ Returned(c, outcome) \in Call
         /\ Returned(c, outcome).pc = "returned"
         /\ Returned(c, outcome).outcome = outcome
         /\ Returned(c, outcome).kind = c.kind
         /\ Returned(c, outcome).content = c.content
         /\ Returned(c, outcome).stale = {}
<1>1. 0 \in Tokens  BY DEF Tokens
<1>2. Returned(c, outcome) \in Call  BY <1>1, Zenon DEF Returned, Call
<1>3. Returned(c, outcome).pc = "returned" /\ Returned(c, outcome).outcome = outcome
  BY Zenon DEF Returned, Call
<1>4. Returned(c, outcome).kind = c.kind /\ Returned(c, outcome).content = c.content
  BY Zenon DEF Returned, Call
<1>5. Returned(c, outcome).stale = {}  BY Zenon DEF Returned, Call
<1> QED  BY <1>2, <1>3, <1>4, <1>5

(* The requests on their way belong to calls that began: nothing a caller  *)
(* does once it has begun takes it back.                                   *)
LEMMA NetworkKept ==
  ASSUME Types, NEW p \in Callers, NEW c \in Call, Become(p, c), network' = network
  PROVE  \A r \in network' : ~ At(r.caller, "idle")'
<1> SUFFICES ASSUME NEW r \in network' PROVE call'[r.caller].pc # "idle"
  BY DEF At
<1>1. r.caller \in Callers /\ call[r.caller].pc # "idle"
  BY DEF Types, TypeOK, Request, At
<1>2. CASE r.caller = p
  <2>1. call'[p] = c  BY BecomeCall DEF Types
  <2> QED  BY <1>2, <2>1 DEF Call
<1>3. CASE r.caller # p
  <2>1. call'[r.caller] = call[r.caller]  BY <1>1, <1>3, BecomeCall DEF Types
  <2> QED  BY <1>1, <2>1
<1> QED  BY <1>2, <1>3

(* The same for a step that only moves the call on. *)
LEMMA StepTypes ==
  ASSUME Types, NEW p \in Callers, NEW c \in Call, Become(p, c),
         UNCHANGED <<token, waiting, added, issued, expired, network, item, since>>
  PROVE  Types'
<1>1. call' \in [Callers -> Call \cup {Idle}]  BY BecomeCall DEF Types
<1>2. \A r \in network' : ~ At(r.caller, "idle")'  BY NetworkKept
<1> QED  BY <1>1, <1>2 DEF Types, TypeOK

-----------------------------------------------------------------------------
LEMMA StatusType == \A r : Status(r) \in Statuses
BY DEF Status, Statuses

LEMMA OutcomeType == \A s \in Statuses : Outcome(s) \in Outcomes
BY DEF Outcome, Statuses, Outcomes

LEMMA InitTypes == Init => Types
<1> SUFFICES ASSUME Init PROVE Types  OBVIOUS
<1>1. call \in [Callers -> Call \cup {Idle}]  BY DEF Init
<1>2. added \in [Fields -> Callers \cup {Nil}]  BY DEF Init
<1>3. since \in [Callers -> SUBSET Items]  BY DEF Init
<1> QED  BY <1>1, <1>2, <1>3 DEF Init, Types, TypeOK, Tokens

-----------------------------------------------------------------------------
LEMMA TokensExpired ==
  ASSUME TypeOK
  PROVE  expired \in SUBSET Tokens
BY DEF TypeOK, Tokens

LEMMA StartTypes ==
  ASSUME Types, NEW p \in Callers, Start(p)
  PROVE  Types'
<1>1. PICK w \in Wants[p] :
        Become(p, [kind |-> w.kind, content |-> w.content, pc |-> "refreshing",
                   retries |-> 1, fetches |-> 1, token |-> 0, stale |-> expired,
                   answer |-> Nil, outcome |-> Nil])
  BY DEF Start
<1> DEFINE c == [kind |-> w.kind, content |-> w.content, pc |-> "refreshing",
                 retries |-> 1, fetches |-> 1, token |-> 0, stale |-> expired,
                 answer |-> Nil, outcome |-> Nil]
<1>2. w.kind \in {"create", "delete", "get"} /\ w.content \in Items
  BY DEF JsonClientAssumption, Items
<1>3. 1 \in 1 .. maxRetries /\ 0 \in Tokens /\ expired \in SUBSET Tokens
  BY TokensExpired DEF JsonClientAssumption, Types, Tokens
<1>4. c \in Call  BY <1>2, <1>3 DEF Call
<1>5. Become(p, c)  BY <1>1
<1> HIDE DEF c
<1>6. call' \in [Callers -> Call \cup {Idle}]  BY <1>4, <1>5, BecomeCall DEF Types
<1>7. \A r \in network' : ~ At(r.caller, "idle")'
  BY <1>4, <1>5, NetworkKept DEF Start
<1>8. since' \in [Callers -> SUBSET Items]  BY DEF Start, Types, TypeOK
<1> QED  BY <1>6, <1>7, <1>8 DEF Types, TypeOK, Start, options, source

LEMMA GotoTypes ==
  ASSUME Types, NEW p \in Callers, call[p].pc # "idle",
         NEW pc \in {"locking", "fetching", "cloning"}
  PROVE  [call[p] EXCEPT !.pc = pc] \in Call
BY HasBegun DEF Call, Types

LEMMA CheckTokenTypes ==
  ASSUME Types, NEW p \in Callers, CheckToken(p)
  PROVE  Types'
<1> DEFINE pc == IF tokenNeedsRefresh(token) THEN "locking" ELSE "cloning"
<1>1. [call[p] EXCEPT !.pc = pc] \in Call  BY GotoTypes DEF CheckToken, At
<1>2. Become(p, [call[p] EXCEPT !.pc = pc])  BY DEF CheckToken, Goto
<1> HIDE DEF pc
<1> QED  BY <1>1, <1>2, StepTypes DEF CheckToken, options, source, server

LEMMA LockOptionsTypes ==
  ASSUME Types, NEW p \in Callers, LockOptions(p)
  PROVE  Types'
<1>1. [call[p] EXCEPT !.pc = "fetching"] \in Call  BY GotoTypes DEF LockOptions, At
<1>2. Become(p, [call[p] EXCEPT !.pc = "fetching"])  BY DEF LockOptions, Goto
<1> QED  BY <1>1, <1>2, StepTypes DEF LockOptions, options, source, server

LEMMA GetTokenTypes ==
  ASSUME Types, NEW p \in Callers, GetToken(p)
  PROVE  Types'
<1> DEFINE c == [call[p] EXCEPT !.pc = "waiting", !.token = issued']
<1>1. issued' \in Tokens /\ expired \subseteq 1 .. issued'
  BY DEF GetToken, Types, TypeOK, Tokens, JsonClientAssumption
<1>2. c \in Call  BY <1>1, HasBegun DEF GetToken, At, Types, Call
<1>3. Become(p, c)  BY DEF GetToken
<1> HIDE DEF c
<1>4. call' \in [Callers -> Call \cup {Idle}]  BY <1>2, <1>3, BecomeCall DEF Types
<1>5. \A r \in network' : ~ At(r.caller, "idle")'  BY <1>2, <1>3, NetworkKept DEF GetToken
<1>6. waiting' \subseteq Callers  BY DEF GetToken, Types, TypeOK
<1> QED  BY <1>1, <1>4, <1>5, <1>6 DEF Types, TypeOK, GetToken, server

LEMMA TokenNetworkErrorTypes ==
  ASSUME Types, NEW p \in Callers, TokenNetworkError(p)
  PROVE  Types'
<1> DEFINE c == call[p]
           d == IF MayRetry(c.fetches)
                  THEN [c EXCEPT !.pc = "refreshing", !.fetches = @ + 1]
                  ELSE Returned(c, "failed")
<1>1. c \in Call  BY HasBegun DEF TokenNetworkError, At, Types
<1>2. d \in Call
  <2>1. CASE MayRetry(c.fetches)
    <3>1. c.fetches + 1 \in 1 .. maxRetries
      BY <1>1, <2>1 DEF MayRetry, Call, JsonClientAssumption
    <3>2. [c EXCEPT !.pc = "refreshing", !.fetches = @ + 1] \in Call
      BY <1>1, <3>1, Zenon DEF Call
    <3> QED  BY <2>1, <3>2
  <2>2. CASE ~ MayRetry(c.fetches)
    <3>1. Returned(c, "failed") \in Call  BY <1>1, ReturnedCall DEF Outcomes
    <3> QED  BY <2>2, <3>1
  <2> QED  BY <2>1, <2>2
<1>3. Become(p, d)  BY DEF TokenNetworkError
<1> HIDE DEF d
<1> QED  BY <1>2, <1>3, StepTypes DEF TokenNetworkError, options, source, server

LEMMA TokenRefusedTypes ==
  ASSUME Types, NEW p \in Callers, TokenRefused(p)
  PROVE  Types'
<1>1. call[p] \in Call  BY HasBegun DEF TokenRefused, At, Types
<1>2. Returned(call[p], "failed") \in Call  BY <1>1, ReturnedCall DEF Outcomes
<1> QED  BY <1>2, StepTypes DEF TokenRefused, options, source, server

LEMMA ApplyTypes ==
  ASSUME Types, NEW p \in Callers, Apply(p)
  PROVE  Types'
<1>1. call[p] \in Call  BY HasBegun DEF Apply, At, Types
<1>2. [call[p] EXCEPT !.pc = "cloning"] \in Call  BY GotoTypes DEF Apply, At
<1>3. Become(p, [call[p] EXCEPT !.pc = "cloning"])  BY DEF Apply, Goto
<1>4. call' \in [Callers -> Call \cup {Idle}]  BY <1>2, <1>3, BecomeCall DEF Types
<1>5. \A r \in network' : ~ At(r.caller, "idle")'  BY <1>2, <1>3, NetworkKept DEF Apply
<1>6. token' \in Tokens  BY <1>1 DEF Apply, Call
<1>7. waiting' \subseteq Callers  BY DEF Apply, Types, TypeOK
<1> QED  BY <1>4, <1>5, <1>6, <1>7 DEF Types, TypeOK, Apply, source, server

LEMMA CloneTypes ==
  ASSUME Types, NEW p \in Callers, Clone(p)
  PROVE  Types'
<1> DEFINE c == [call[p] EXCEPT !.pc = "sending", !.token = token]
<1>1. token \in Tokens /\ call[p] \in Call  BY HasBegun DEF Clone, At, Types, TypeOK
<1>2. c \in Call  BY <1>1, Zenon DEF Call
<1>3. Become(p, c)  BY DEF Clone
<1> HIDE DEF c
<1>4. call' \in [Callers -> Call \cup {Idle}]  BY <1>2, <1>3, BecomeCall DEF Types
<1>5. \A r \in network' : ~ At(r.caller, "idle")'  BY <1>2, <1>3, NetworkKept DEF Clone
<1>6. added' \in [Fields -> Callers \cup {Nil}]  BY DEF Clone, Types, TypeOK
<1> QED  BY <1>4, <1>5, <1>6 DEF Types, TypeOK, Clone, source, server

LEMMA SendTypes ==
  ASSUME Types, NEW p \in Callers, Send(p)
  PROVE  Types'
<1> DEFINE c == [call[p] EXCEPT !.pc = "sent", !.token = 0, !.stale = {}]
           a == [f \in Fields |-> IF f \in Shared THEN added[f] ELSE p]
           r == [caller |-> p, retries |-> call[p].retries, token |-> call[p].token, added |-> a]
<1>1. call[p] \in Call /\ call[p].pc # "idle"  BY HasBegun DEF Send, At, Types
<1>2. 0 \in Tokens  BY DEF Tokens, JsonClientAssumption
<1>3. c \in Call  BY <1>1, <1>2, Zenon DEF Call
<1>4. Become(p, c)  BY DEF Send
<1>5. a \in [Fields -> Callers \cup {Nil}]  BY DEF Types, TypeOK
<1>6. network' = network \cup {r}  BY DEF Send
<1> HIDE DEF c, a
<1>7. r \in Request  BY <1>1, <1>5 DEF Request, Call
<1>8. call' \in [Callers -> Call \cup {Idle}] /\ call'[p] = c
      /\ \A q \in Callers : q # p => call'[q] = call[q]
  BY <1>3, <1>4, BecomeCall DEF Types
<1>9. \A q \in network' : ~ At(q.caller, "idle")'
  <2>1. call'[p].pc # "idle"  BY <1>3, <1>8 DEF Call
  <2>2. \A q \in network : q.caller \in Callers /\ call[q.caller].pc # "idle"
    BY DEF Types, TypeOK, Request, At
  <2>3. \A q \in network : call'[q.caller].pc # "idle"  BY <1>8, <2>1, <2>2
  <2> QED  BY <1>6, <2>1, <2>3 DEF At
<1>10. network' \subseteq Request  BY <1>6, <1>7 DEF Types, TypeOK
<1> QED  BY <1>8, <1>9, <1>10 DEF Types, TypeOK, Send, options, source, server

LEMMA HandleTypes ==
  ASSUME Types, NEW r \in network, Handle(r)
  PROVE  Types'
<1> DEFINE p == r.caller
           d == [call[p] EXCEPT !.answer = Status(r)]
<1>1. p \in Callers /\ call[p].pc # "idle"  BY DEF Types, TypeOK, Request, At
<1>2. call[p] \in Call  BY <1>1, HasBegun DEF Types
<1>3. d \in Call /\ d.pc = call[p].pc  BY <1>2, StatusType, Zenon DEF Call
<1>4. call' = call \/ call' = [call EXCEPT ![p] = d]  BY <1>1 DEF Handle, Types, TypeOK
<1> HIDE DEF d
<1>5. call' \in [Callers -> Call \cup {Idle}] /\ \A q \in Callers : call'[q].pc = call[q].pc
  BY <1>1, <1>3, <1>4 DEF Types, TypeOK
<1>6. \A q \in network' : ~ At(q.caller, "idle")'
  BY <1>5 DEF Handle, Types, TypeOK, Request, At
<1>7. item' \in Items  BY <1>2 DEF Handle, Types, TypeOK, Call
<1>8. since' \in [Callers -> SUBSET Items]  BY <1>7 DEF Handle, Types, TypeOK
<1>9. network' \subseteq Request  BY DEF Handle, Types, TypeOK
<1> QED  BY <1>5, <1>6, <1>7, <1>8, <1>9 DEF Types, TypeOK, Handle, options, source

LEMMA ReceiveTypes ==
  ASSUME Types, NEW p \in Callers, Receive(p)
  PROVE  Types'
<1>1. call[p] \in Call /\ call[p].answer # Nil  BY HasBegun DEF Receive, At, Types
<1>2. Outcome(call[p].answer) \in Outcomes  BY <1>1, OutcomeType DEF Call
<1>3. Returned(call[p], Outcome(call[p].answer)) \in Call  BY <1>1, <1>2, ReturnedCall
<1>4. Returned(call[p], "failed") \in Call  BY <1>1, ReturnedCall DEF Outcomes
<1> QED  BY <1>3, <1>4, StepTypes DEF Receive, options, source, server

LEMMA NetworkErrorTypes ==
  ASSUME Types, NEW p \in Callers, NetworkError(p)
  PROVE  Types'
<1> DEFINE c == call[p]
           again == [c EXCEPT !.pc = "refreshing", !.retries = @ + 1, !.fetches = 1,
                              !.stale = expired, !.answer = Nil]
           d == IF MayRetry(c.retries) THEN again ELSE Returned(c, "failed")
<1>1. c \in Call  BY HasBegun DEF NetworkError, At, Types
<1>2. d \in Call
  <2>1. CASE MayRetry(c.retries)
    <3>1. c.retries + 1 \in 1 .. maxRetries /\ 1 \in 1 .. maxRetries
      BY <1>1, <2>1 DEF MayRetry, Call, JsonClientAssumption
    <3>2. expired \in SUBSET Tokens  BY TokensExpired DEF Types
    <3>3. again \in Call  BY <1>1, <3>1, <3>2, Zenon DEF Call
    <3> QED  BY <2>1, <3>3
  <2>2. CASE ~ MayRetry(c.retries)
    <3>1. Returned(c, "failed") \in Call  BY <1>1, ReturnedCall DEF Outcomes
    <3> QED  BY <2>2, <3>1
  <2> QED  BY <2>1, <2>2
<1>3. Become(p, d)  BY DEF NetworkError
<1> HIDE DEF d
<1> QED  BY <1>2, <1>3, StepTypes DEF NetworkError, options, source, server

LEMMA ExpireTypes ==
  ASSUME Types, NEW t \in Tokens, Expire(t)
  PROVE  Types'
<1>1. expired' \subseteq 1 .. issued  BY DEF Expire, Types, TypeOK
<1>2. \A r \in network' : ~ At(r.caller, "idle")'  BY DEF Expire, Types, At, server
<1> QED  BY <1>1, <1>2 DEF Types, TypeOK, Expire, options, server

(* Every step keeps the types. *)
LEMMA NextTypes == Types /\ [Next]_vars => Types'
<1> SUFFICES ASSUME Types, [Next]_vars PROVE Types'  OBVIOUS
<1>1. ASSUME NEW p \in Callers, Start(p) PROVE Types'  BY <1>1, StartTypes
<1>2. ASSUME NEW p \in Callers, CallStep(p) PROVE Types'
  BY <1>2, CheckTokenTypes, LockOptionsTypes, GetTokenTypes, TokenNetworkErrorTypes,
     TokenRefusedTypes, ApplyTypes, CloneTypes, SendTypes, ReceiveTypes, NetworkErrorTypes
     DEF CallStep
<1>3. ASSUME NEW r \in network, Handle(r) PROVE Types'  BY <1>3, HandleTypes
<1>4. ASSUME NEW t \in Tokens, Expire(t) PROVE Types'  BY <1>4, ExpireTypes
<1>5. CASE UNCHANGED vars  BY <1>5 DEF vars, Types, TypeOK, At
<1> QED  BY <1>1, <1>2, <1>3, <1>4, <1>5 DEF Next

(* Every variable keeps its shape, and no call makes more than maxRetries  *)
(* requests, or asks for a token more often in one try (client.go:357).    *)
THEOREM TypeCorrect == Spec => []TypeOK
<1>1. Types => TypeOK  BY DEF Types
<1> QED  BY InitTypes, NextTypes, <1>1, PTL DEF Spec

-----------------------------------------------------------------------------
(* A token on its way into the options is valid, one that was valid when a *)
(* try began and is cloned was seen valid by it: what a try knows expired  *)
(* has expired for all.                                                    *)
FreshCall(c) ==
  /\ c.pc # "idle" => c.stale \subseteq expired
  /\ c.pc = "waiting" => c.token \in 1 .. issued /\ c.token \notin expired
  /\ c.pc = "cloning" => token # 0 /\ token \notin c.stale
  /\ c.pc = "sending" => c.token # 0 /\ c.token \notin c.stale

Fresh == \A p \in Callers : FreshCall(call[p])

LEMMA FreshStep ==
  ASSUME Types, Fresh, NEW p \in Callers, NEW c \in Call, Become(p, c), FreshCall(c),
         UNCHANGED <<token, issued, expired>>
  PROVE  Fresh'
<1>1. call'[p] = c /\ \A q \in Callers : q # p => call'[q] = call[q]
  BY BecomeCall DEF Types
<1> QED  BY <1>1 DEF Fresh, FreshCall

LEMMA ReturnedFresh ==
  ASSUME Types, NEW p \in Callers, call[p].pc # "idle", NEW outcome \in Outcomes
  PROVE  Returned(call[p], outcome) \in Call /\ FreshCall(Returned(call[p], outcome))
<1>1. call[p] \in Call  BY HasBegun DEF Types
<1> QED  BY <1>1, ReturnedCall DEF FreshCall

LEMMA InitFresh == Init => Fresh
BY DEF Init, Fresh, FreshCall, Idle

LEMMA CheckTokenFresh ==
  ASSUME Types, Fresh, NEW p \in Callers, CheckToken(p)
  PROVE  Fresh'
<1> DEFINE pc == IF tokenNeedsRefresh(token) THEN "locking" ELSE "cloning"
           c == [call[p] EXCEPT !.pc = pc]
<1>1. call[p] \in Call /\ FreshCall(call[p]) /\ call[p].pc # "idle"
  BY HasBegun DEF CheckToken, At, Types, Fresh
<1>2. c \in Call  BY <1>1, GotoTypes
<1>3. c.pc = pc /\ c.stale = call[p].stale  BY <1>1, Zenon DEF Call
<1>4. Become(p, c)  BY DEF CheckToken, Goto
<1>5. pc = "cloning" => token # 0 /\ token \notin expired  BY DEF tokenNeedsRefresh
<1>6. pc \in {"locking", "cloning"}  OBVIOUS
<1> HIDE DEF c, pc
<1>7. FreshCall(c)  BY <1>1, <1>3, <1>5, <1>6 DEF FreshCall
<1> QED  BY <1>2, <1>4, <1>7, FreshStep DEF CheckToken, options, source

LEMMA LockOptionsFresh ==
  ASSUME Types, Fresh, NEW p \in Callers, LockOptions(p)
  PROVE  Fresh'
<1> DEFINE c == [call[p] EXCEPT !.pc = "fetching"]
<1>1. call[p] \in Call /\ FreshCall(call[p]) /\ call[p].pc # "idle"
  BY HasBegun DEF LockOptions, At, Types, Fresh
<1>2. c \in Call  BY <1>1, GotoTypes
<1>3. c.pc = "fetching" /\ c.stale = call[p].stale  BY <1>1, Zenon DEF Call
<1>4. Become(p, c)  BY DEF LockOptions, Goto
<1> HIDE DEF c
<1>5. FreshCall(c)  BY <1>1, <1>3 DEF FreshCall
<1> QED  BY <1>2, <1>4, <1>5, FreshStep DEF LockOptions, options, source

(* The token a caller is given is newer than any that has expired. *)
LEMMA GetTokenFresh ==
  ASSUME Types, Fresh, NEW p \in Callers, GetToken(p)
  PROVE  Fresh'
<1> DEFINE c == [call[p] EXCEPT !.pc = "waiting", !.token = issued']
<1>1. call[p] \in Call /\ FreshCall(call[p]) /\ call[p].pc # "idle"
  BY HasBegun DEF GetToken, At, Types, Fresh
<1>2. issued \in Nat /\ issued' = issued + 1 /\ issued' \in Tokens /\ expired \subseteq 1 .. issued
  BY DEF GetToken, Types, TypeOK, Tokens, JsonClientAssumption
<1>3. c \in Call  BY <1>1, <1>2, Zenon DEF Call
<1>4. c.pc = "waiting" /\ c.stale = call[p].stale /\ c.token = issued'
  BY <1>1, Zenon DEF Call
<1>5. Become(p, c)  BY DEF GetToken
<1> HIDE DEF c
<1>6. call'[p] = c /\ \A q \in Callers : q # p => call'[q] = call[q]
  BY <1>3, <1>5, BecomeCall DEF Types
<1>7. token' = token /\ expired' = expired  BY DEF GetToken
<1>8. FreshCall(call[p])'
  <2>1. call'[p].stale \subseteq expired  BY <1>1, <1>4, <1>6 DEF FreshCall
  <2>2. issued' \in 1 .. issued' /\ issued' \notin expired  BY <1>2
  <2>3. call'[p].pc = "waiting" /\ call'[p].token = issued'  BY <1>4, <1>6
  <2> QED  BY <1>7, <2>1, <2>2, <2>3 DEF FreshCall
<1>9. ASSUME NEW q \in Callers, q # p PROVE FreshCall(call[q])'
  <2>1. call'[q] = call[q] /\ FreshCall(call[q])  BY <1>6, <1>9 DEF Fresh
  <2> QED  BY <1>2, <1>7, <2>1 DEF FreshCall
<1> QED  BY <1>8, <1>9 DEF Fresh

LEMMA TokenNetworkErrorFresh ==
  ASSUME Types, Fresh, NEW p \in Callers, TokenNetworkError(p)
  PROVE  Fresh'
<1> DEFINE c == call[p]
           again == [c EXCEPT !.pc = "refreshing", !.fetches = @ + 1]
           d == IF MayRetry(c.fetches) THEN again ELSE Returned(c, "failed")
<1>1. c \in Call /\ FreshCall(c) /\ c.pc # "idle"
  BY HasBegun DEF TokenNetworkError, At, Types, Fresh
<1>2. d \in Call /\ FreshCall(d)
  <2>1. CASE MayRetry(c.fetches)
    <3>1. c.fetches + 1 \in 1 .. maxRetries
      BY <1>1, <2>1 DEF MayRetry, Call, JsonClientAssumption
    <3>2. again \in Call  BY <1>1, <3>1, Zenon DEF Call
    <3>3. again.pc = "refreshing" /\ again.stale = c.stale  BY <1>1, Zenon DEF Call
    <3> HIDE DEF again
    <3>4. FreshCall(again)  BY <1>1, <3>3 DEF FreshCall
    <3> QED  BY <2>1, <3>2, <3>4
  <2>2. CASE ~ MayRetry(c.fetches)
    <3>1. Returned(c, "failed") \in Call /\ FreshCall(Returned(c, "failed"))
      BY <1>1, ReturnedFresh DEF Outcomes
    <3> QED  BY <2>2, <3>1
  <2> QED  BY <2>1, <2>2
<1>3. Become(p, d)  BY DEF TokenNetworkError
<1> HIDE DEF d
<1> QED  BY <1>2, <1>3, FreshStep DEF TokenNetworkError, options, source

LEMMA TokenRefusedFresh ==
  ASSUME Types, Fresh, NEW p \in Callers, TokenRefused(p)
  PROVE  Fresh'
<1>1. Returned(call[p], "failed") \in Call /\ FreshCall(Returned(call[p], "failed"))
  BY ReturnedFresh DEF Outcomes, TokenRefused, At
<1> QED  BY <1>1, FreshStep DEF TokenRefused, options, source

(* The token that replaces another under those about to clone it is valid  *)
(* now, hence unknown to any of them as expired.                           *)
LEMMA ApplyFresh ==
  ASSUME Types, Fresh, NEW p \in Callers, Apply(p)
  PROVE  Fresh'
<1> DEFINE c == [call[p] EXCEPT !.pc = "cloning"]
<1>1. call[p] \in Call /\ FreshCall(call[p]) /\ call[p].pc = "waiting"
  BY HasBegun DEF Apply, At, Types, Fresh
<1>2. c \in Call  BY <1>1, GotoTypes
<1>3. c.pc = "cloning" /\ c.stale = call[p].stale  BY <1>1, Zenon DEF Call
<1>4. Become(p, c)  BY DEF Apply, Goto
<1> HIDE DEF c
<1>5. call'[p] = c /\ \A q \in Callers : q # p => call'[q] = call[q]
  BY <1>2, <1>4, BecomeCall DEF Types
<1>6. token' = call[p].token /\ issued' = issued /\ expired' = expired  BY DEF Apply, source
<1>7. token' # 0 /\ token' \notin expired
  BY <1>1, <1>6 DEF FreshCall, Types, TypeOK, Tokens
<1>8. FreshCall(call[p])'  BY <1>1, <1>3, <1>5, <1>6, <1>7 DEF FreshCall
<1>9. ASSUME NEW q \in Callers, q # p PROVE FreshCall(call[q])'
  <2>1. call'[q] = call[q] /\ FreshCall(call[q])  BY <1>5, <1>9 DEF Fresh
  <2> QED  BY <1>6, <1>7, <2>1 DEF FreshCall
<1> QED  BY <1>8, <1>9 DEF Fresh

LEMMA CloneFresh ==
  ASSUME Types, Fresh, NEW p \in Callers, Clone(p)
  PROVE  Fresh'
<1> DEFINE c == [call[p] EXCEPT !.pc = "sending", !.token = token]
<1>1. call[p] \in Call /\ FreshCall(call[p]) /\ call[p].pc = "cloning" /\ token \in Tokens
  BY HasBegun DEF Clone, At, Types, TypeOK, Fresh
<1>2. c \in Call  BY <1>1, Zenon DEF Call
<1>3. c.pc = "sending" /\ c.stale = call[p].stale /\ c.token = token  BY <1>1, Zenon DEF Call
<1>4. Become(p, c)  BY DEF Clone
<1> HIDE DEF c
<1>5. FreshCall(c)  BY <1>1, <1>3 DEF FreshCall
<1> QED  BY <1>2, <1>4, <1>5, FreshStep DEF Clone, source

LEMMA SendFresh ==
  ASSUME Types, Fresh, NEW p \in Callers, Send(p)
  PROVE  Fresh'
<1> DEFINE c == [call[p] EXCEPT !.pc = "sent", !.token = 0, !.stale = {}]
<1>1. call[p] \in Call  BY HasBegun DEF Send, At, Types
<1>2. 0 \in Tokens  BY DEF Tokens, JsonClientAssumption
<1>3. c \in Call  BY <1>1, <1>2, Zenon DEF Call
<1>4. c.pc = "sent" /\ c.stale = {}  BY <1>1, Zenon DEF Call
<1>5. Become(p, c)  BY DEF Send
<1> HIDE DEF c
<1>6. FreshCall(c)  BY <1>4 DEF FreshCall
<1> QED  BY <1>3, <1>5, <1>6, FreshStep DEF Send, options, source

LEMMA ReceiveFresh ==
  ASSUME Types, Fresh, NEW p \in Callers, Receive(p)
  PROVE  Fresh'
<1>1. call[p] \in Call /\ call[p].pc # "idle" /\ call[p].answer # Nil
  BY HasBegun DEF Receive, At, Types
<1>2. Outcome(call[p].answer) \in Outcomes /\ "failed" \in Outcomes
  BY <1>1, OutcomeType DEF Call, Outcomes
<1>3. ASSUME NEW outcome \in Outcomes, Become(p, Returned(call[p], outcome)) PROVE Fresh'
  <2>1. Returned(call[p], outcome) \in Call /\ FreshCall(Returned(call[p], outcome))
    BY <1>1, ReturnedFresh
  <2> QED  BY <1>3, <2>1, FreshStep DEF Receive, options, source
<1> QED  BY <1>2, <1>3 DEF Receive

LEMMA NetworkErrorFresh ==
  ASSUME Types, Fresh, NEW p \in Callers, NetworkError(p)
  PROVE  Fresh'
<1> DEFINE c == call[p]
           again == [c EXCEPT !.pc = "refreshing", !.retries = @ + 1, !.fetches = 1,
                              !.stale = expired, !.answer = Nil]
           d == IF MayRetry(c.retries) THEN again ELSE Returned(c, "failed")
<1>1. c \in Call /\ c.pc # "idle"  BY HasBegun DEF NetworkError, At, Types
<1>2. d \in Call /\ FreshCall(d)
  <2>1. CASE MayRetry(c.retries)
    <3>1. c.retries + 1 \in 1 .. maxRetries /\ 1 \in 1 .. maxRetries
      BY <1>1, <2>1 DEF MayRetry, Call, JsonClientAssumption
    <3>2. expired \in SUBSET Tokens  BY TokensExpired DEF Types
    <3>3. again \in Call  BY <1>1, <3>1, <3>2, Zenon DEF Call
    <3>4. again.pc = "refreshing" /\ again.stale = expired  BY <1>1, Zenon DEF Call
    <3> HIDE DEF again
    <3>5. FreshCall(again)  BY <3>4 DEF FreshCall
    <3> QED  BY <2>1, <3>3, <3>5
  <2>2. CASE ~ MayRetry(c.retries)
    <3>1. Returned(c, "failed") \in Call /\ FreshCall(Returned(c, "failed"))
      BY <1>1, ReturnedFresh DEF Outcomes
    <3> QED  BY <2>2, <3>1
  <2> QED  BY <2>1, <2>2
<1>3. Become(p, d)  BY DEF NetworkError
<1> HIDE DEF d
<1> QED  BY <1>2, <1>3, FreshStep DEF NetworkError, options, source

LEMMA StartFresh ==
  ASSUME Types, Fresh, NEW p \in Callers, Start(p)
  PROVE  Fresh'
<1>1. call' \in [Callers -> Call \cup {Idle}] /\ call'[p].pc = "refreshing" /\ call'[p].stale = expired
  <2>1. Types'  BY StartTypes
  <2>2. PICK w \in Wants[p] :
          Become(p, [kind |-> w.kind, content |-> w.content, pc |-> "refreshing",
                     retries |-> 1, fetches |-> 1, token |-> 0, stale |-> expired,
                     answer |-> Nil, outcome |-> Nil])
    BY DEF Start
  <2> QED  BY <2>1, <2>2 DEF Become, Types, TypeOK
<1>2. \A q \in Callers : q # p => call'[q] = call[q]
  BY DEF Start, Become, Types, TypeOK
<1>3. UNCHANGED <<token, issued, expired>>  BY DEF Start, options, source
<1> QED  BY <1>1, <1>2, <1>3 DEF Fresh, FreshCall

LEMMA HandleFresh ==
  ASSUME Types, Fresh, NEW r \in network, Handle(r)
  PROVE  Fresh'
<1> DEFINE p == r.caller
           d == [call[p] EXCEPT !.answer = Status(r)]
<1>1. p \in Callers /\ call[p].pc # "idle"  BY DEF Types, TypeOK, Request, At
<1>2. call[p] \in Call  BY <1>1, HasBegun DEF Types
<1>3. d.pc = call[p].pc /\ d.stale = call[p].stale /\ d.token = call[p].token
  BY <1>2, Zenon DEF Call
<1>4. call' = call \/ call' = [call EXCEPT ![p] = d]  BY <1>1 DEF Handle, Types, TypeOK
<1> HIDE DEF d
<1>5. \A q \in Callers : /\ call'[q].pc = call[q].pc /\ call'[q].stale = call[q].stale
                         /\ call'[q].token = call[q].token
  BY <1>1, <1>3, <1>4 DEF Types, TypeOK
<1>6. UNCHANGED <<token, issued, expired>>  BY DEF Handle, options, source
<1> QED  BY <1>5, <1>6 DEF Fresh, FreshCall

(* What expires is neither on its way into the options nor known to have   *)
(* expired to anyone.                                                      *)
LEMMA ExpireFresh ==
  ASSUME Types, Fresh, NEW t \in Tokens, Expire(t)
  PROVE  Fresh'
<1>1. UNCHANGED <<token, issued, call>> /\ expired' = expired \cup {t}
  BY DEF Expire, options
<1>2. \A p \in Callers : call[p].pc = "waiting" => call[p].token # t  BY DEF Expire, At
<1> QED  BY <1>1, <1>2 DEF Fresh, FreshCall

LEMMA NextFresh == Types /\ Fresh /\ [Next]_vars => Fresh'
<1> SUFFICES ASSUME Types, Fresh, [Next]_vars PROVE Fresh'  OBVIOUS
<1>1. ASSUME NEW p \in Callers, Start(p) PROVE Fresh'  BY <1>1, StartFresh
<1>2. ASSUME NEW p \in Callers, CallStep(p) PROVE Fresh'
  BY <1>2, CheckTokenFresh, LockOptionsFresh, GetTokenFresh, TokenNetworkErrorFresh,
     TokenRefusedFresh, ApplyFresh, CloneFresh, SendFresh, ReceiveFresh, NetworkErrorFresh
     DEF CallStep
<1>3. ASSUME NEW r \in network, Handle(r) PROVE Fresh'  BY <1>3, HandleFresh
<1>4. ASSUME NEW t \in Tokens, Expire(t) PROVE Fresh'  BY <1>4, ExpireFresh
<1>5. CASE UNCHANGED vars  BY <1>5 DEF vars, Fresh, FreshCall
<1> QED  BY <1>1, <1>2, <1>3, <1>4, <1>5 DEF Next

(* No request goes out with a token that its sender could have known to be *)
(* expired, however many callers refresh it at the same time: the token    *)
(* only ever changes to one that is valid (client.go:305).                 *)
THEOREM TokensFresh == Spec => []SendsFreshToken
<1>1. Fresh => SendsFreshToken  BY DEF Fresh, FreshCall, SendsFreshToken, At
<1> QED  BY InitTypes, NextTypes, InitFresh, NextFresh, <1>1, PTL DEF Spec

-----------------------------------------------------------------------------
(* What an outcome says of the items the server has held. *)
Told(kind, content, outcome, seen) ==
  /\ outcome = "existed" => content \in seen
  /\ outcome = "missing" => Nil \in seen
  /\ outcome = "conflict" => seen \ {Nil, content} # {}
  /\ outcome = "ok" => IF kind = "get" THEN seen \ {Nil} # {} ELSE content \in seen

(* Between its first step and its return a call sees every item the server *)
(* holds, an answer is true of what it has seen, and so is the outcome.    *)
Preparing == {"refreshing", "locking", "fetching", "waiting", "cloning", "sending"}

TrueCall(c, seen) ==
  /\ c.pc \in Preparing => c.answer = Nil
  /\ c.pc \in Preparing \cup {"sent"} => item \in seen
  /\ c.pc = "sent" /\ c.answer # Nil => Told(c.kind, c.content, Outcome(c.answer), seen)
  /\ c.pc = "returned" => c.outcome \in Outcomes /\ Told(c.kind, c.content, c.outcome, seen)

Truthful == \A p \in Callers : TrueCall(call[p], since[p])

LEMMA InitTruthful == Init => Truthful
BY DEF Init, Truthful, TrueCall, Idle, Preparing

LEMMA TruthStep ==
  ASSUME Types, Truthful, NEW p \in Callers, NEW c \in Call, Become(p, c),
         TrueCall(c, since[p]), UNCHANGED <<item, since>>
  PROVE  Truthful'
<1>1. call'[p] = c /\ \A q \in Callers : q # p => call'[q] = call[q]
  BY BecomeCall DEF Types
<1>2. TrueCall(call[p], since[p])'  BY <1>1 DEF TrueCall
<1>3. ASSUME NEW q \in Callers, q # p PROVE TrueCall(call[q], since[q])'
  BY <1>1, <1>3 DEF Truthful, TrueCall
<1> QED  BY <1>2, <1>3 DEF Truthful

(* A call that goes on preparing its request has nothing to tell. *)
LEMMA PreparingStep ==
  ASSUME Types, Truthful, NEW p \in Callers, NEW c \in Call, Become(p, c),
         call[p].pc \in Preparing, c.pc \in Preparing, c.answer = call[p].answer,
         UNCHANGED <<item, since>>
  PROVE  Truthful'
<1>1. TrueCall(c, since[p])  BY DEF Truthful, TrueCall, Preparing
<1> QED  BY <1>1, TruthStep

(* A call that fails says nothing of the server. *)
LEMMA FailedStep ==
  ASSUME Types, Truthful, NEW p \in Callers, call[p].pc # "idle",
         Become(p, Returned(call[p], "failed")), UNCHANGED <<item, since>>
  PROVE  Truthful'
<1>1. call[p] \in Call /\ "failed" \in Outcomes  BY HasBegun DEF Types, Outcomes
<1>2. /\ Returned(call[p], "failed") \in Call
      /\ Returned(call[p], "failed").pc = "returned"
      /\ Returned(call[p], "failed").outcome = "failed"
  BY <1>1, ReturnedCall
<1>3. TrueCall(Returned(call[p], "failed"), since[p])
  BY <1>1, <1>2 DEF TrueCall, Told, Preparing
<1> QED  BY <1>2, <1>3, TruthStep

LEMMA StartTruthful ==
  ASSUME Types, Truthful, NEW p \in Callers, Start(p)
  PROVE  Truthful'
<1>1. PICK w \in Wants[p] :
        Become(p, [kind |-> w.kind, content |-> w.content, pc |-> "refreshing",
                   retries |-> 1, fetches |-> 1, token |-> 0, stale |-> expired,
                   answer |-> Nil, outcome |-> Nil])
  BY DEF Start
<1>2. call'[p].pc = "refreshing" /\ call'[p].answer = Nil
  BY <1>1 DEF Become, Types, TypeOK
<1>3. /\ \A q \in Callers : q # p => call'[q] = call[q] /\ since'[q] = since[q]
      /\ since'[p] = {item} /\ item' = item
  BY DEF Start, Become, Types, TypeOK
<1>4. TrueCall(call[p], since[p])'  BY <1>2, <1>3 DEF TrueCall, Preparing
<1>5. ASSUME NEW q \in Callers, q # p PROVE TrueCall(call[q], since[q])'
  BY <1>3, <1>5 DEF Truthful, TrueCall
<1> QED  BY <1>4, <1>5 DEF Truthful

LEMMA RefreshTruthful ==
  ASSUME Types, Truthful, NEW p \in Callers,
         CheckToken(p) \/ LockOptions(p) \/ GetToken(p) \/ Apply(p) \/ Clone(p)
  PROVE  Truthful'
<1>1. call[p] \in Call /\ call[p].pc \in Preparing
  BY HasBegun DEF CheckToken, LockOptions, GetToken, Apply, Clone, At, Types, Preparing
<1>2. item' = item /\ since' = since
  BY DEF CheckToken, LockOptions, GetToken, Apply, Clone, server
<1>3. ASSUME NEW pc \in Preparing, Goto(p, pc) PROVE Truthful'
  <2>1. /\ [call[p] EXCEPT !.pc = pc].pc = pc
        /\ [call[p] EXCEPT !.pc = pc].answer = call[p].answer
    BY <1>1, Zenon DEF Call
  <2>2. [call[p] EXCEPT !.pc = pc] \in Call  BY <1>1 DEF Call, Preparing
  <2>3. Become(p, [call[p] EXCEPT !.pc = pc])  BY <1>3 DEF Goto
  <2> QED  BY <1>1, <1>2, <2>1, <2>2, <2>3, PreparingStep
<1>4. ASSUME NEW pc \in Preparing, NEW t \in Tokens,
             Become(p, [call[p] EXCEPT !.pc = pc, !.token = t])
      PROVE  Truthful'
  <2>1. /\ [call[p] EXCEPT !.pc = pc, !.token = t].pc = pc
        /\ [call[p] EXCEPT !.pc = pc, !.token = t].answer = call[p].answer
    BY <1>1, Zenon DEF Call
  <2>2. [call[p] EXCEPT !.pc = pc, !.token = t] \in Call  BY <1>1 DEF Call, Preparing
  <2> QED  BY <1>1, <1>2, <1>4, <2>1, <2>2, PreparingStep
<1>5. CASE CheckToken(p)  BY <1>3, <1>5 DEF CheckToken, Preparing
<1>6. CASE LockOptions(p)  BY <1>3, <1>6 DEF LockOptions, Preparing
<1>7. CASE GetToken(p)
  <2>1. issued' \in Tokens  BY <1>7, GetTokenTypes DEF Types, TypeOK
  <2> QED  BY <1>4, <1>7, <2>1 DEF GetToken, Preparing
<1>8. CASE Apply(p)  BY <1>3, <1>8 DEF Apply, Preparing
<1>9. CASE Clone(p)  BY <1>4, <1>9 DEF Clone, Preparing, Types, TypeOK
<1> QED  BY <1>5, <1>6, <1>7, <1>8, <1>9

LEMMA TokenErrorTruthful ==
  ASSUME Types, Truthful, NEW p \in Callers, TokenNetworkError(p) \/ TokenRefused(p)
  PROVE  Truthful'
<1> DEFINE c == call[p]
           again == [c EXCEPT !.pc = "refreshing", !.fetches = @ + 1]
<1>1. c \in Call /\ c.pc = "fetching"
  BY HasBegun DEF TokenNetworkError, TokenRefused, At, Types
<1>2. item' = item /\ since' = since  BY DEF TokenNetworkError, TokenRefused, server
<1>3. CASE Become(p, Returned(c, "failed"))  BY <1>1, <1>2, <1>3, FailedStep
<1>4. CASE MayRetry(c.fetches) /\ Become(p, again)
  <2>1. c.fetches + 1 \in 1 .. maxRetries
    BY <1>1, <1>4 DEF MayRetry, Call, JsonClientAssumption
  <2>2. again \in Call  BY <1>1, <2>1, Zenon DEF Call
  <2>3. again.pc = "refreshing" /\ again.answer = c.answer  BY <1>1, Zenon DEF Call
  <2>4. again.pc \in Preparing /\ c.pc \in Preparing  BY <1>1, <2>3 DEF Preparing
  <2> QED  BY <1>2, <1>4, <2>2, <2>3, <2>4, PreparingStep
<1> QED  BY <1>3, <1>4 DEF TokenNetworkError, TokenRefused

LEMMA SendTruthful ==
  ASSUME Types, Truthful, NEW p \in Callers, Send(p)
  PROVE  Truthful'
<1> DEFINE c == [call[p] EXCEPT !.pc = "sent", !.token = 0, !.stale = {}]
<1>1. call[p] \in Call /\ call[p].pc = "sending"  BY HasBegun DEF Send, At, Types
<1>2. 0 \in Tokens  BY DEF Tokens, JsonClientAssumption
<1>3. c \in Call  BY <1>1, <1>2, Zenon DEF Call
<1>4. c.pc = "sent" /\ c.answer = call[p].answer  BY <1>1, Zenon DEF Call
<1>5. Become(p, c)  BY DEF Send
<1> HIDE DEF c
<1>6. TrueCall(c, since[p])  BY <1>1, <1>4 DEF Truthful, TrueCall, Preparing
<1> QED  BY <1>3, <1>5, <1>6, TruthStep DEF Send, server

LEMMA ReceiveTruthful ==
  ASSUME Types, Truthful, NEW p \in Callers, Receive(p)
  PROVE  Truthful'
<1> DEFINE c == call[p]
           d == Returned(c, Outcome(c.answer))
<1>1. c \in Call /\ c.pc = "sent" /\ c.answer # Nil  BY HasBegun DEF Receive, At, Types
<1>2. item' = item /\ since' = since  BY DEF Receive, server
<1>3. CASE Become(p, d)
  <2>1. Outcome(c.answer) \in Outcomes  BY <1>1, OutcomeType DEF Call
  <2>2. /\ d \in Call /\ d.pc = "returned" /\ d.outcome = Outcome(c.answer)
        /\ d.kind = c.kind /\ d.content = c.content
    BY <1>1, <2>1, ReturnedCall
  <2>3. Told(c.kind, c.content, Outcome(c.answer), since[p])
    BY <1>1 DEF Truthful, TrueCall
  <2> HIDE DEF d
  <2>4. TrueCall(d, since[p])  BY <2>1, <2>2, <2>3 DEF TrueCall, Preparing
  <2> QED  BY <1>2, <1>3, <2>2, <2>4, TruthStep
<1>4. CASE Become(p, Returned(c, "failed"))  BY <1>1, <1>2, <1>4, FailedStep
<1> QED  BY <1>3, <1>4 DEF Receive

LEMMA NetworkErrorTruthful ==
  ASSUME Types, Truthful, NEW p \in Callers, NetworkError(p)
  PROVE  Truthful'
<1> DEFINE c == call[p]
           again == [c EXCEPT !.pc = "refreshing", !.retries = @ + 1, !.fetches = 1,
                              !.stale = expired, !.answer = Nil]
<1>1. c \in Call /\ c.pc = "sent"  BY HasBegun DEF NetworkError, At, Types
<1>2. item' = item /\ since' = since  BY DEF NetworkError, server
<1>3. CASE Become(p, Returned(c, "failed"))  BY <1>1, <1>2, <1>3, FailedStep
<1>4. CASE MayRetry(c.retries) /\ Become(p, again)
  <2>1. c.retries + 1 \in 1 .. maxRetries /\ 1 \in 1 .. maxRetries
    BY <1>1, <1>4 DEF MayRetry, Call, JsonClientAssumption
  <2>2. expired \in SUBSET Tokens  BY TokensExpired DEF Types
  <2>3. again \in Call  BY <1>1, <2>1, <2>2, Zenon DEF Call
  <2>4. again.pc = "refreshing" /\ again.answer = Nil  BY <1>1, Zenon DEF Call
  <2> HIDE DEF again
  <2>5. TrueCall(again, since[p])  BY <1>1, <2>4 DEF Truthful, TrueCall, Preparing
  <2> QED  BY <1>2, <1>4, <2>3, <2>5, TruthStep
<1> QED  BY <1>3, <1>4 DEF NetworkError

(* The answer the server gives is true of the item it then holds, which    *)
(* the caller, still waiting, has seen; what others have been told is not  *)
(* made untrue by what they see more.                                      *)
LEMMA HandleTruthful ==
  ASSUME Types, Truthful, NEW r \in network, Handle(r)
  PROVE  Truthful'
<1> DEFINE p == r.caller
           s == Status(r)
           d == [call[p] EXCEPT !.answer = s]
<1>1. p \in Callers /\ call[p].pc # "idle"  BY DEF Types, TypeOK, Request, At
<1>2. call[p] \in Call  BY <1>1, HasBegun DEF Types
<1>3. /\ d.pc = call[p].pc /\ d.kind = call[p].kind /\ d.content = call[p].content
      /\ d.outcome = call[p].outcome /\ d.answer = s
  BY <1>2, Zenon DEF Call
<1>4. \/ call' = call
      \/ call' = [call EXCEPT ![p] = d] /\ call[p].pc = "sent"
  BY <1>1 DEF Handle, Types, TypeOK
<1>5. ASSUME NEW q \in Callers
      PROVE  /\ call[q].pc \in Preparing \cup {"sent"} => since'[q] = since[q] \cup {item'}
             /\ call[q].pc = "returned" => since'[q] = since[q]
  BY DEF Handle, At, Preparing, Types, TypeOK
<1>6. ASSUME NEW q \in Callers, call'[q] = call[q] PROVE TrueCall(call[q], since[q])'
  <2>1. TrueCall(call[q], since[q])  BY DEF Truthful
  <2>2. CASE call[q].pc \in Preparing \cup {"sent"}
    <3>1. since'[q] = since[q] \cup {item'} /\ call[q].pc # "returned"
      BY <1>5, <2>2 DEF Preparing
    <3>2. \A k, v, o : Told(k, v, o, since[q]) => Told(k, v, o, since'[q])
      BY <3>1 DEF Told
    <3> QED  BY <1>6, <2>1, <3>1, <3>2 DEF TrueCall
  <2>3. CASE call[q].pc = "returned"
    BY <1>5, <1>6, <2>1, <2>3 DEF TrueCall, Preparing
  <2>4. CASE call[q].pc \notin Preparing \cup {"sent", "returned"}
    BY <1>6, <2>4 DEF TrueCall
  <2> QED  BY <2>2, <2>3, <2>4
<1>7. ASSUME call' = [call EXCEPT ![p] = d], call[p].pc = "sent"
      PROVE  TrueCall(call[p], since[p])'
  <2>1. item \in since[p] /\ since'[p] = since[p] \cup {item'}
    BY <1>1, <1>5, <1>7 DEF Truthful, TrueCall
  <2>2. call[p].kind \in {"create", "delete", "get"}  BY <1>2 DEF Call
  <2>3. item' = IF s = "ok" /\ call[p].kind # "get" THEN call[p].content ELSE item
    BY DEF Handle
  <2>4. /\ s = "identical" => item = call[p].content
        /\ s = "missing" => item = Nil
        /\ s = "conflict" => item \notin {Nil, call[p].content}
        /\ s = "ok" /\ call[p].kind = "get" => item # Nil
        /\ s # "existed"
    BY <2>2 DEF Status
  <2> HIDE DEF s
  <2>5. Told(call[p].kind, call[p].content, Outcome(s), since'[p])
    BY <2>1, <2>3, <2>4 DEF Told, Outcome
  <2>6. call'[p] = d  BY <1>1, <1>7 DEF Types, TypeOK
  <2> HIDE DEF d
  <2> QED  BY <1>3, <1>7, <2>1, <2>5, <2>6 DEF TrueCall, Preparing
<1>8. ASSUME NEW q \in Callers PROVE TrueCall(call[q], since[q])'
  <2>1. CASE call'[q] = call[q]  BY <1>6, <2>1
  <2>2. CASE call'[q] # call[q]
    <3>1. q = p /\ call' = [call EXCEPT ![p] = d] /\ call[p].pc = "sent"
      BY <1>4, <2>2 DEF Types, TypeOK
    <3> HIDE DEF d
    <3> QED  BY <1>7, <3>1
  <2> QED  BY <2>1, <2>2
<1> QED  BY <1>8 DEF Truthful

LEMMA NextTruthful == Types /\ Truthful /\ [Next]_vars => Truthful'
<1> SUFFICES ASSUME Types, Truthful, [Next]_vars PROVE Truthful'  OBVIOUS
<1>1. ASSUME NEW p \in Callers, Start(p) PROVE Truthful'  BY <1>1, StartTruthful
<1>2. ASSUME NEW p \in Callers, CallStep(p) PROVE Truthful'
  BY <1>2, RefreshTruthful, TokenErrorTruthful, SendTruthful, ReceiveTruthful,
     NetworkErrorTruthful DEF CallStep
<1>3. ASSUME NEW r \in network, Handle(r) PROVE Truthful'  BY <1>3, HandleTruthful
<1>4. ASSUME NEW t \in Tokens, Expire(t) PROVE Truthful'
  BY <1>4 DEF Expire, server, Truthful, TrueCall
<1>5. CASE UNCHANGED vars  BY <1>5 DEF vars, Truthful, TrueCall
<1> QED  BY <1>1, <1>2, <1>3, <1>4, <1>5 DEF Next

(* What a call reports of the item was true at some moment of the call,    *)
(* however often its request was sent and however late it was handled      *)
(* (client.go:229, 372).                                                   *)
THEOREM OutcomesHold == Spec => []OutcomesTrue
<1>1. Types /\ Truthful => OutcomesTrue
  <2> SUFFICES ASSUME Types, Truthful, NEW p \in Callers, call[p].pc = "returned"
               PROVE  CASE call[p].outcome = "existed"  -> call[p].content \in since[p]
                        [] call[p].outcome = "missing"  -> Nil \in since[p]
                        [] call[p].outcome = "conflict" -> since[p] \ {Nil, call[p].content} # {}
                        [] call[p].outcome = "ok"       ->
                             IF call[p].kind = "get" THEN since[p] # {Nil}
                                                     ELSE call[p].content \in since[p]
                        [] call[p].outcome \in {"failed", "unauthorized"} -> TRUE
    BY DEF OutcomesTrue, At
  <2>1. call[p].outcome \in Outcomes
        /\ Told(call[p].kind, call[p].content, call[p].outcome, since[p])
    BY DEF Truthful, TrueCall
  <2> QED  BY <2>1 DEF Told, Outcomes
<1> QED  BY InitTypes, NextTypes, InitTruthful, NextTruthful, <1>1, PTL DEF Spec
=============================================================================
