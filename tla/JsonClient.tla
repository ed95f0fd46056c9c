----------------------------- MODULE JsonClient -----------------------------
(***************************************************************************)
(* The HTTP client every call of the SDK goes through                      *)
(* (infra/jsonclient/client.go).  Callers share its options, under a       *)
(* reader-writer lock: the bearer token, which a caller that finds it      *)
(* expired replaces by one from the token source, and the lists of         *)
(* headers and cookies, which every request clones and adds its own to.    *)
(* A network error is retried, as the client may be told to, up to         *)
(* maxRetries times.                                                       *)
(*                                                                         *)
(* Every caller makes one call, on one item of the server.  A request the  *)
(* client has given up on is still in the network and may be handled late. *)
(* The client has a token source, as the clients of the SDK have.  What    *)
(* UnmarshalOnError, ParseOAuthError and CustomDecoder change in the error *)
(* that is returned is left out.                                           *)
(***************************************************************************)
EXTENDS Naturals, FiniteSets

CONSTANTS Callers,             \* the goroutines that use the client
          Contents,            \* what a call may want to create
          Nil,                 \* no item, no answer, nobody
          Wants,               \* the calls a caller may make
          maxRetries,
          retryNetworkErrors,  \* the option
          SpareCapacity,       \* whether the slices of the options have room
          MaxTokens            \* bound: tokens the source issues

ASSUME JsonClientAssumption ==
  /\ Nil \notin Contents /\ Nil \notin Callers
  /\ Wants \in [Callers -> SUBSET [kind : {"create", "delete", "get"}, content : Contents \cup {Nil}]]
  /\ maxRetries \in Nat \ {0}
  /\ retryNetworkErrors \in BOOLEAN
  /\ SpareCapacity \in BOOLEAN
  /\ MaxTokens \in Nat

Items == Contents \cup {Nil}
Tokens == 0 .. MaxTokens  \* numbered as they are issued; 0 is no token
Fields == {"headers", "cookies", "perRequestHeaders"}
Statuses == {"ok", "identical", "conflict", "missing", "unauthorized"}
Outcomes == {"ok", "existed", "conflict", "missing", "unauthorized", "failed"}

VARIABLES
  token,    \* the bearer token in the options
  waiting,  \* callers that wait for the write lock, which stops new readers
  call,     \* what each caller is doing
  added,    \* who wrote last to what the clones of a field share
  issued,   \* how many tokens the source has issued
  expired,  \* those that are no longer valid
  network,  \* requests on their way
  item,     \* the server's item
  since     \* what the item has been since each call began (history)

options == <<token, waiting, added>>
source == <<issued, expired>>
server == <<item, since>>
vars == <<token, waiting, call, added, issued, expired, network, item, since>>

Call ==
  [kind    : {"create", "delete", "get"},
   content : Items,
   pc      : {"refreshing", "locking", "fetching", "waiting", "cloning",
              "sending", "sent", "returned"},
   retries : 1 .. maxRetries,            \* of the request
   fetches : 1 .. maxRetries,            \* of the token, for this try
   token   : Tokens,                     \* fetched, and then cloned
   stale   : SUBSET Tokens,              \* expired when this try began
   answer  : Statuses \cup {Nil},
   outcome : Outcomes \cup {Nil}]
Idle == [pc |-> "idle"]

Request == [caller : Callers, retries : 1 .. maxRetries, token : Tokens,
            added : [Fields -> Callers \cup {Nil}]]

Init ==
  /\ token = 0 /\ issued = 0 /\ expired = {}
  /\ waiting = {}
  /\ call = [p \in Callers |-> Idle]
  /\ added = [f \in Fields |-> Nil]
  /\ network = {}
  /\ item \in Items
  /\ since = [p \in Callers |-> {}]

-----------------------------------------------------------------------------
At(p, pc) == call[p].pc = pc
Become(p, c) == call' = [call EXCEPT ![p] = c]
Goto(p, pc) == Become(p, [call[p] EXCEPT !.pc = pc])
Returned(c, outcome) == [c EXCEPT !.pc = "returned", !.outcome = outcome, !.token = 0,
                                  !.stale = {}, !.answer = Nil]

(* sync.RWMutex: a reader enters unless a writer waits, and a writer when  *)
(* the last reader has left.  Only the fetch of a token stays inside.      *)
CanRead == waiting = {}

(* Wrong variant: the read lock is released when the refresh returns. *)
Readers_UntilReturn == {p \in Callers : At(p, "fetching") \/ At(p, "waiting")}
Readers == {p \in Callers : At(p, "fetching")}

(* Wrong variant: any token will do. *)
tokenNeedsRefresh_IfMissing(t) == t = 0
tokenNeedsRefresh(t) == t = 0 \/ t \in expired

Start(p) ==
  /\ call[p] = Idle
  /\ \E w \in Wants[p] :
       Become(p, [kind |-> w.kind, content |-> w.content, pc |-> "refreshing",
                  retries |-> 1, fetches |-> 1, token |-> 0, stale |-> expired,
                  answer |-> Nil, outcome |-> Nil])
  /\ since' = [since EXCEPT ![p] = {item}]
  /\ UNCHANGED <<options, source, network, item>>

CheckToken(p) ==
  /\ At(p, "refreshing") /\ CanRead
  /\ Goto(p, IF tokenNeedsRefresh(token) THEN "locking" ELSE "cloning")
  /\ UNCHANGED <<options, source, network, server>>

LockOptions(p) ==
  /\ At(p, "locking") /\ CanRead
  /\ Goto(p, "fetching")
  /\ UNCHANGED <<options, source, network, server>>

(* The read lock is held while the source is asked; Apply takes the write  *)
(* lock, which stops new readers.                                          *)
GetToken(p) ==
  /\ At(p, "fetching")
  /\ issued < MaxTokens
  /\ issued' = issued + 1
  /\ waiting' = waiting \cup {p}
  /\ Become(p, [call[p] EXCEPT !.pc = "waiting", !.token = issued'])
  /\ UNCHANGED <<token, added, expired, network, server>>

(* Wrong variant: the last try of all is tried again. *)
MayRetry_OnceMore(n) == retryNetworkErrors /\ n <= maxRetries
MayRetry(n) == retryNetworkErrors /\ n < maxRetries

(* A try that fails with a network error is made again from the start. *)
TokenNetworkError(p) ==
  LET c == call[p] IN
  /\ At(p, "fetching")
  /\ Become(p, IF MayRetry(c.fetches)
                 THEN [c EXCEPT !.pc = "refreshing", !.fetches = @ + 1]
                 ELSE Returned(c, "failed"))
  /\ UNCHANGED <<options, source, network, server>>

TokenRefused(p) ==
  /\ At(p, "fetching")
  /\ Become(p, Returned(call[p], "failed"))
  /\ UNCHANGED <<options, source, network, server>>

Apply(p) ==
  /\ At(p, "waiting") /\ Readers = {}
  /\ token' = call[p].token
  /\ waiting' = waiting \ {p}
  /\ Goto(p, "cloning")
  /\ UNCHANGED <<added, source, network, server>>

-----------------------------------------------------------------------------
(* The request's own options are added to a clone.  It shares the arrays   *)
(* of its slices with the options it was made from (options.clone copies   *)
(* the cookies onto themselves), so that what is appended to it lands in   *)
(* the spare room all clones have in common.                               *)
Shared == IF SpareCapacity THEN {"cookies", "perRequestHeaders"} ELSE {}

Clone(p) ==
  /\ At(p, "cloning") /\ CanRead
  /\ added' = [f \in Fields |-> IF f \in Shared THEN p ELSE added[f]]
  /\ Become(p, [call[p] EXCEPT !.pc = "sending", !.token = token])
  /\ UNCHANGED <<token, waiting, source, network, server>>

Send(p) ==
  /\ At(p, "sending")
  /\ network' = network \cup
       {[caller |-> p, retries |-> call[p].retries, token |-> call[p].token,
         added |-> [f \in Fields |-> IF f \in Shared THEN added[f] ELSE p]]}
  /\ Become(p, [call[p] EXCEPT !.pc = "sent", !.token = 0, !.stale = {}])
  /\ UNCHANGED <<options, source, server>>

(* The server, which only the requests tell it of. *)
Status(r) ==
  LET c == call[r.caller] IN
  CASE r.token \in expired -> "unauthorized"
    [] OTHER -> CASE c.kind = "create" /\ item \notin {Nil, c.content} -> "conflict"
                  [] c.kind = "create" /\ item = c.content -> "identical"
                  [] c.kind # "create" /\ item = Nil       -> "missing"
                  [] OTHER                                 -> "ok"

Handle(r) ==
  LET c == call[r.caller] IN
  /\ r \in network
  /\ network' = network \ {r}
  /\ item' = IF Status(r) = "ok" /\ c.kind # "get" THEN c.content ELSE item
  /\ since' = [p \in Callers |-> IF At(p, "idle") \/ At(p, "returned") THEN since[p] ELSE since[p] \cup {item'}]
  /\ call' = IF c.pc = "sent" /\ c.retries = r.retries
               THEN [call EXCEPT ![r.caller].answer = Status(r)]
               ELSE call
  /\ UNCHANGED <<options, source>>

-----------------------------------------------------------------------------
(* Wrong variant: every conflict is taken for the item that was wanted. *)
Outcome_AnyConflict(status) == IF status \in {"identical", "conflict"} THEN "existed" ELSE status

(* CreateIfNotExists takes the conflict with an identical item for an      *)
(* answer; every other status from 400 up is an error of the call.         *)
Outcome(status) == IF status = "identical" THEN "existed" ELSE status

Receive(p) ==
  LET c == call[p] IN
  /\ At(p, "sent") /\ c.answer # Nil
  /\ \/ Become(p, Returned(c, Outcome(c.answer)))
     \/ c.answer = "ok" /\ Become(p, Returned(c, "failed"))  \* it cannot be decoded
  /\ UNCHANGED <<options, source, network, server>>

(* The network fails the request, before or after the server handled it. *)
NetworkError(p) ==
  LET c == call[p] IN
  /\ At(p, "sent")
  /\ Become(p, IF MayRetry(c.retries)
                 THEN [c EXCEPT !.pc = "refreshing", !.retries = @ + 1, !.fetches = 1,
                                !.stale = expired, !.answer = Nil]
                 ELSE Returned(c, "failed"))
  /\ UNCHANGED <<options, source, network, server>>

(* Timing assumption: a token does not expire before the caller that       *)
(* fetched it has put it into the options.                                 *)
Expire(t) ==
  /\ t \in 1 .. issued \ expired
  /\ \A p \in Callers : At(p, "waiting") => call[p].token # t
  /\ expired' = expired \cup {t}
  /\ UNCHANGED <<options, issued, network, server, call>>

CallStep(p) ==
  \/ CheckToken(p) \/ LockOptions(p) \/ GetToken(p) \/ TokenNetworkError(p) \/ TokenRefused(p)
  \/ Apply(p) \/ Clone(p) \/ Send(p)
  \/ Receive(p) \/ NetworkError(p)

Next ==
  \/ \E p \in Callers : Start(p) \/ CallStep(p)
  \/ \E r \in network : Handle(r)
  \/ \E t \in Tokens : Expire(t)

(* Every goroutine runs on, the token source answers or fails, and a       *)
(* request is answered or fails: net/http reports a broken connection.     *)
Spec == Init /\ [][Next]_vars /\ \A p \in Callers : WF_vars(CallStep(p))

-----------------------------------------------------------------------------
(* Every variable keeps the shape the comments above give it; that a call  *)
(* makes no more than maxRetries requests is part of it.                   *)
TypeOK ==
  /\ token \in Tokens /\ issued \in Tokens /\ expired \subseteq 1 .. issued
  /\ waiting \subseteq Callers
  /\ call \in [Callers -> Call \cup {Idle}]
  /\ added \in [Fields -> Callers \cup {Nil}]
  /\ network \subseteq Request
  /\ item \in Items
  /\ since \in [Callers -> SUBSET Items]

(* What a caller adds to the clone of the options for its own request goes *)
(* out with that request and with no other: client.go:88 keeps the options *)
(* "contained so they can be cloned & augmented per request".  It fails as *)
(* soon as a slice has room to spare, and without is the shape of Send.    *)
OwnOptions == \A r \in network, f \in Fields : r.added[f] = r.caller

(* No request goes out with a token that had expired when the caller       *)
(* looked: whoever replaces the token while others clone it, no refresh is *)
(* lost (client.go:305).                                                   *)
SendsFreshToken ==
  \A p \in Callers : At(p, "sending") =>
    call[p].token # 0 /\ call[p].token \notin call[p].stale

(* What a call reports was true of the server while it ran, although its   *)
(* request may have been handled twice, or after it was given up.          *)
OutcomesTrue ==
  \A p \in Callers : At(p, "returned") =>
    CASE call[p].outcome = "existed"  -> call[p].content \in since[p]
      [] call[p].outcome = "missing"  -> Nil \in since[p]
      [] call[p].outcome = "conflict" -> since[p] \ {Nil, call[p].content} # {}
      [] call[p].outcome = "ok"       ->
           IF call[p].kind = "get" THEN since[p] # {Nil} ELSE call[p].content \in since[p]
      [] call[p].outcome \in {"failed", "unauthorized"} -> TRUE

(* Every call returns, although callers wait for each other on a lock that *)
(* one of them holds while it asks for a token.                            *)
CallsEnd == \A p \in Callers : (call[p] # Idle) ~> At(p, "returned")
=============================================================================
