-------------------------------- MODULE Rpc --------------------------------
(***************************************************************************)
(* The request/response layer of index.ts, one Sn instance for each node.  *)
(* A request carries a fresh UUID; if a response is expected its callback  *)
(* is kept in responseUUIDMapping next to a timer, and the first incoming  *)
(* message with that UUID takes it.  A request that timed out leaves an    *)
(* entry in a TTLMap for a while.  Everything else goes to the user's      *)
(* handleData with a respond function, which sends a "resp" message with   *)
(* the same UUID to the requester's port at the address the incoming       *)
(* message came from.                                                      *)
(*                                                                         *)
(* Each action is one turn of a node's event loop, which nothing           *)
(* interrupts.  The native layer below is used through its contract        *)
(* (SendService): a message it accepted is handed to the network once or   *)
(* reported as failed, and its completion callback and the messages it     *)
(* delivers reach the event loop in any order.                             *)
(*                                                                         *)
(* Clocks are left out: a timer fires at any moment after it was armed     *)
(* and, two hosts' clocks being unrelated, respond's test of replyTime     *)
(* against sendTime + timeout may go either way for an "ask"; when it says *)
(* late, respond returns and changes nothing.  A "resp" has no timeout     *)
(* field, the sum is NaN and the test never says late.                     *)
(***************************************************************************)
EXTENDS Integers, FiniteSets

CONSTANTS
  Req,         \* requests, named by their UUID
  Node,        \* Sn instances
  None,        \* no node
  Host, Port,  \* the address and the port a node listens on
  Targets,     \* the sets of nodes a request may be sent to, by its sender
  Stalled,     \* nodes that may leave a connect or a write waiting for ever
  MaxAnswers   \* bound: calls of respond for one UUID

NodeAt(h, p) ==
  LET here == {n \in Node : Host[n] = h /\ Port[n] = p}
  IN  IF here = {} THEN None ELSE CHOOSE n \in here : TRUE

ASSUME RpcAssumption ==
  /\ None \notin Node
  /\ \A m, n \in Node : m # n => <<Host[m], Port[m]>> # <<Host[n], Port[n]>>
  /\ Targets \in [Node -> SUBSET SUBSET Node]
  /\ \A n \in Node : \A T \in Targets[n] : IsFiniteSet(T)
  /\ Stalled \subseteq Node
  /\ MaxAnswers \in Nat

VARIABLES
  version,             \* HEADER_OPTS.sendHeaderVersion of each node
  request,             \* who sent a request, to whom, expecting what
  promise,             \* the promise its send returned
  responseUUIDMapping, \* requests waiting for a response
  timer,               \* requests whose timeout is armed
  timedOutUUIDMapping, \* keys of the TTLMap
  ttlTimer,            \* keys whose expiry timer is armed
  onResponse,          \* the messages onResponse was called with
  onTimeout,           \* how often onTimeout was called
  handled,             \* messages given to handleData with a respond
  answers,             \* calls of respond that sent something, by UUID
  respondErrors,       \* messages whose respond threw in the native layer
  sending,             \* messages the native layer has accepted
  completions,         \* outcomes on their way to sendCallback
  net                  \* messages in the network or the receiver's queue

user   == <<version, request, promise>>
tables == <<responseUUIDMapping, timer, timedOutUUIDMapping, ttlTimer>>
calls  == <<onResponse, onTimeout, handled, answers, respondErrors>>
native == <<sending, completions, net>>
vars   == <<user, tables, calls, native>>

Wire == [uuid : Req, dir : {"ask", "resp"}, from : Node,
         to : Node \cup {None}, seq : 0 .. MaxAnswers]

Unsent  == [from |-> None, to |-> {}, expects |-> FALSE, await |-> TRUE]
Request == [from : Node, to : SUBSET Node, expects : BOOLEAN, await : BOOLEAN]

Sent(r) == request[r] # Unsent

Init ==
  /\ version \in [Node -> {0, 1}]
  /\ request = [r \in Req |-> Unsent]
  /\ promise = [r \in Req |-> "none"]
  /\ responseUUIDMapping = {}
  /\ timer = {}
  /\ timedOutUUIDMapping = {}
  /\ ttlTimer = {}
  /\ onResponse = [r \in Req |-> {}]
  /\ onTimeout = [r \in Req |-> 0]
  /\ handled = {}
  /\ answers = [r \in Req |-> 0]
  /\ respondErrors = {}
  /\ sending = {}
  /\ completions = {}
  /\ net = {}

-----------------------------------------------------------------------------
(* header_from_json_string builds a header for version 1 only.             *)
HeaderOk(n) == version[n] = 1

(* Mutant: the callback is bound but no timer is armed.                    *)
RegisterNoTimer(r, T, expects) ==
  /\ UNCHANGED timer
  /\ responseUUIDMapping' = IF expects THEN responseUUIDMapping \cup {r}
                                       ELSE responseUUIDMapping

(* The end of _sendAug: a timeout other than 0 arms the timer and binds    *)
(* the response callback to the UUID.                                      *)
Register(r, T, expects) ==
  /\ timer' = IF expects THEN timer \cup {r} ELSE timer
  /\ responseUUIDMapping' = IF expects THEN responseUUIDMapping \cup {r}
                                       ELSE responseUUIDMapping

(* _sendAug when the native call returns: in the same turn one message is  *)
(* queued for each destination, the timer is armed and the callback bound. *)
SendAug(r, n, T, expects, await) ==
  /\ ~Sent(r)
  /\ request' = [request EXCEPT ![r] = [from |-> n, to |-> T,
                                        expects |-> expects, await |-> await]]
  /\ promise' = [promise EXCEPT ![r] = "pending"]
  /\ sending' = sending \cup
       {[uuid |-> r, dir |-> "ask", from |-> n, to |-> t, seq |-> 0] : t \in T}
  /\ Register(r, T, expects)
  /\ UNCHANGED <<version, timedOutUUIDMapping, ttlTimer, calls, completions, net>>

(* send: one destination, no header.                                       *)
Send(r, n, T, expects) ==
  /\ Cardinality(T) = 1
  /\ SendAug(r, n, T, expects, TRUE)

(* sendWithHeader: one destination, with a header.                         *)
SendWithHeader(r, n, T, expects) ==
  /\ HeaderOk(n)
  /\ Cardinality(T) = 1
  /\ SendAug(r, n, T, expects, TRUE)

(* multiSendWithHeader: the completion callbacks come only if              *)
(* awaitProcessing is set.                                                 *)
MultiSendWithHeader(r, n, T, expects, await) ==
  /\ HeaderOk(n)
  /\ T # {}
  /\ SendAug(r, n, T, expects, await)

(* Any of the three when the native call throws (an address that does not  *)
(* resolve, a header that cannot be built, no address at all): the         *)
(* executor throws and the promise rejects; no timer, no callback.         *)
SendThrows(r, n, T, expects) ==
  /\ ~Sent(r)
  /\ request' = [request EXCEPT ![r] = [from |-> n, to |-> T,
                                        expects |-> expects, await |-> TRUE]]
  /\ promise' = [promise EXCEPT ![r] = "thrown"]
  /\ UNCHANGED <<version, tables, calls, native>>

UpdateHeaderOpts(n, v) ==
  /\ version[n] # v
  /\ version' = [version EXCEPT ![n] = v]
  /\ UNCHANGED <<request, promise, tables, calls, native>>

-----------------------------------------------------------------------------
(* The native layer, by its contract.                                      *)

Completion(w, ok) == IF request[w.uuid].await \/ w.dir = "resp"
                     THEN {[wire |-> w, ok |-> ok]} ELSE {}

Transmit(w) ==
  /\ w.to # None
  /\ sending' = sending \ {w}
  /\ net' = net \cup {w}
  /\ completions' = completions \cup Completion(w, TRUE)
  /\ UNCHANGED <<user, tables, calls>>

(* Mutant: a frame that went out is nevertheless reported as failed.       *)
FailSendLate(w) ==
  /\ sending' = sending \ {w}
  /\ net' = net \cup {w}
  /\ completions' = completions \cup Completion(w, FALSE)
  /\ UNCHANGED <<user, tables, calls>>

FailSend(w) ==
  /\ sending' = sending \ {w}
  /\ completions' = completions \cup Completion(w, FALSE)
  /\ UNCHANGED <<user, tables, calls, net>>

(* The receiver drops the message, is not listening or has stopped.        *)
Lose(w) ==
  /\ net' = net \ {w}
  /\ UNCHANGED <<user, tables, calls, sending, completions>>

(* Mutant: a failed destination is left to the others to report.           *)
SendCallbackOkOnly(c) ==
  /\ completions' = completions \ {c}
  /\ promise' = [promise EXCEPT ![c.wire.uuid] =
                   IF c.wire.dir = "ask" /\ @ = "pending" /\ c.ok
                   THEN "resolved" ELSE @]
  /\ UNCHANGED <<version, request, tables, calls, sending, net>>

(* sendCallback and the end of _wrappedSendAug.  The first outcome settles *)
(* the promise; respond catches and logs its own.                          *)
SendCallback(c) ==
  /\ completions' = completions \ {c}
  /\ promise' = [promise EXCEPT ![c.wire.uuid] =
                   IF c.wire.dir = "ask" /\ @ = "pending"
                   THEN IF c.ok THEN "resolved" ELSE "rejected"
                   ELSE @]
  /\ UNCHANGED <<version, request, tables, calls, sending, net>>

-----------------------------------------------------------------------------
(* Mutant: one table of callbacks for all the Sn instances of a process.   *)
ExpectedAnywhere(w) == w.uuid \in responseUUIDMapping

(* Mutant: the callback is bound only when the send has completed.         *)
ExpectedAfterSend(w) ==
  /\ w.uuid \in responseUUIDMapping
  /\ request[w.uuid].from = w.to
  /\ promise[w.uuid] = "resolved"

(* responseUUIDMapping[UUID] at the node that receives w.                  *)
Expected(w) ==
  w.uuid \in responseUUIDMapping /\ request[w.uuid].from = w.to

(* Mutant: the callback forgets clearTimeout.                              *)
TakeResponseTimerLeft(w) ==
  /\ responseUUIDMapping' = responseUUIDMapping \ {w.uuid}
  /\ onResponse' = [onResponse EXCEPT ![w.uuid] = @ \cup {w}]
  /\ UNCHANGED <<timer, timedOutUUIDMapping, ttlTimer, handled>>

(* extractUUIDHandleData finds the UUID: the entry is deleted, the bound   *)
(* callback clears the timer and calls onResponse.                         *)
TakeResponse(w) ==
  /\ responseUUIDMapping' = responseUUIDMapping \ {w.uuid}
  /\ timer' = timer \ {w.uuid}
  /\ onResponse' = [onResponse EXCEPT ![w.uuid] = @ \cup {w}]
  /\ UNCHANGED <<timedOutUUIDMapping, ttlTimer, handled>>

(* Mutant: TTLMap::delete clears the expiry timer but keeps the entry.     *)
ForgetTimedOutTimerOnly(w) ==
  /\ timedOutUUIDMapping' = timedOutUUIDMapping
  /\ ttlTimer' = IF request[w.uuid].from = w.to /\ w.uuid \in timedOutUUIDMapping
                 THEN ttlTimer \ {w.uuid} ELSE ttlTimer

(* TTLMap::get, and ::delete when it found an entry.  An entry past its    *)
(* expiry is deleted by get, which leaves its timer armed.                 *)
ForgetTimedOut(w) ==
  LET mine == request[w.uuid].from = w.to /\ w.uuid \in timedOutUUIDMapping
  IN  /\ timedOutUUIDMapping' = IF mine THEN timedOutUUIDMapping \ {w.uuid}
                                        ELSE timedOutUUIDMapping
      /\ \/ ttlTimer' = IF mine THEN ttlTimer \ {w.uuid} ELSE ttlTimer
         \/ mine /\ UNCHANGED ttlTimer

(* It does not: handleData gets the message and a respond function.        *)
HandleData(w) ==
  /\ ForgetTimedOut(w)
  /\ handled' = handled \cup {w}
  /\ UNCHANGED <<responseUUIDMapping, timer, onResponse>>

(* The listen callback, for a message in the event loop's queue.           *)
Deliver(w) ==
  /\ net' = net \ {w}
  /\ IF Expected(w) THEN TakeResponse(w) ELSE HandleData(w)
  /\ UNCHANGED <<user, onTimeout, answers, respondErrors, sending, completions>>

(* respond, not judged late.  PORT is the requester's, kept from message   *)
(* to message; the address is the one w came from.                         *)
Respond(w) ==
  /\ HeaderOk(w.to)
  /\ answers[w.uuid] < MaxAnswers
  /\ answers' = [answers EXCEPT ![w.uuid] = @ + 1]
  /\ sending' = sending \cup
       {[uuid |-> w.uuid, dir |-> "resp", from |-> w.to,
         to |-> NodeAt(Host[w.from], Port[request[w.uuid].from]),
         seq |-> answers'[w.uuid]]}
  /\ UNCHANGED <<user, tables, onResponse, onTimeout, handled, respondErrors,
                 completions, net>>

(* respond when send_with_header throws: the rejection is logged.          *)
RespondThrows(w) ==
  /\ ~HeaderOk(w.to)
  /\ respondErrors' = respondErrors \cup {w}
  /\ UNCHANGED <<user, tables, onResponse, onTimeout, handled, answers, native>>

-----------------------------------------------------------------------------
(* Mutant: the timeout leaves the callback bound.                          *)
TimeoutKeepsMapping(r) ==
  /\ r \in timer
  /\ timer' = timer \ {r}
  /\ timedOutUUIDMapping' = timedOutUUIDMapping \cup {r}
  /\ ttlTimer' = ttlTimer \cup {r}
  /\ onTimeout' = [onTimeout EXCEPT ![r] = @ + 1]
  /\ UNCHANGED <<user, responseUUIDMapping, onResponse, handled, answers,
                 respondErrors, native>>

(* Mutant: setInterval in place of setTimeout.                             *)
TimeoutRepeats(r) ==
  /\ r \in timer
  /\ onTimeout[r] < 2
  /\ timedOutUUIDMapping' = timedOutUUIDMapping \cup {r}
  /\ ttlTimer' = ttlTimer \cup {r}
  /\ responseUUIDMapping' = responseUUIDMapping \ {r}
  /\ onTimeout' = [onTimeout EXCEPT ![r] = @ + 1]
  /\ UNCHANGED <<user, timer, onResponse, handled, answers, respondErrors, native>>

(* The timer of _sendAug fires.                                            *)
Timeout(r) ==
  /\ r \in timer
  /\ timer' = timer \ {r}
  /\ timedOutUUIDMapping' = timedOutUUIDMapping \cup {r}
  /\ ttlTimer' = ttlTimer \cup {r}
  /\ responseUUIDMapping' = responseUUIDMapping \ {r}
  /\ onTimeout' = [onTimeout EXCEPT ![r] = @ + 1]
  /\ UNCHANGED <<user, onResponse, handled, answers, respondErrors, native>>

(* The timer of TTLMap::set fires.                                         *)
Expire(r) ==
  /\ r \in ttlTimer
  /\ ttlTimer' = ttlTimer \ {r}
  /\ timedOutUUIDMapping' = timedOutUUIDMapping \ {r}
  /\ UNCHANGED <<user, responseUUIDMapping, timer, calls, native>>

-----------------------------------------------------------------------------
Next ==
  \/ \E r \in Req, n \in Node, expects \in BOOLEAN : \E T \in Targets[n] :
       \/ Send(r, n, T, expects)
       \/ SendWithHeader(r, n, T, expects)
       \/ \E await \in BOOLEAN : MultiSendWithHeader(r, n, T, expects, await)
       \/ SendThrows(r, n, T, expects)
  \/ \E n \in Node, v \in {0, 1} : UpdateHeaderOpts(n, v)
  \/ \E w \in sending : Transmit(w) \/ FailSend(w)
  \/ \E w \in net : Lose(w) \/ Deliver(w)
  \/ \E c \in completions : SendCallback(c)
  \/ \E w \in handled : Respond(w) \/ RespondThrows(w)
  \/ \E r \in Req : Timeout(r) \/ Expire(r)

(* The event loop runs every timer that is due and every callback the      *)
(* native layer has queued.  The native layer decides every send to a peer *)
(* that does not stall (EverySendCompletes of Sender); it has no timeout   *)
(* of its own, so that one to a stalled peer may never be decided.         *)
Fairness ==
  /\ \A r \in Req : WF_vars(Timeout(r)) /\ WF_vars(Expire(r))
  /\ WF_vars(\E w \in sending : w.to \notin Stalled /\ (Transmit(w) \/ FailSend(w)))
  /\ WF_vars(\E c \in completions : SendCallback(c))

Spec == Init /\ [][Next]_vars
FairSpec == Spec /\ Fairness

-----------------------------------------------------------------------------
(* Type correctness of the node's tables, of the messages and of what the  *)
(* callbacks were given; onTimeout is called at most once.                 *)
TypeOK ==
  /\ version \in [Node -> {0, 1}]
  /\ request \in [Req -> Request \cup {Unsent}]
  /\ promise \in [Req -> {"none", "pending", "resolved", "rejected", "thrown"}]
  /\ responseUUIDMapping \subseteq Req
  /\ timer \subseteq Req
  /\ timedOutUUIDMapping \subseteq Req
  /\ ttlTimer \subseteq Req
  /\ onResponse \in [Req -> SUBSET Wire]
  /\ onTimeout \in [Req -> {0, 1}]
  /\ handled \subseteq Wire
  /\ answers \in [Req -> 0 .. MaxAnswers]
  /\ respondErrors \subseteq Wire
  /\ sending \subseteq Wire
  /\ completions \subseteq [wire : Wire, ok : BOOLEAN]
  /\ net \subseteq Wire

Waiting(r) ==
  /\ request[r].expects
  /\ promise[r] # "thrown"
  /\ onResponse[r] = {}
  /\ onTimeout[r] = 0

(* A request that expects a response and was handed to the native layer is *)
(* either still waiting, with both its timer armed and its callback bound, *)
(* or has had its outcome, with neither left behind: a timer never fires   *)
(* for an answered request and no callback is leaked by one that failed.   *)
PendingTracked ==
  \A r \in Req : /\ r \in timer <=> Waiting(r)
                 /\ r \in responseUUIDMapping <=> Waiting(r)

(* A response racing the timeout, several responses to a multi-send and    *)
(* several calls of respond notwithstanding, the user hears of a request   *)
(* at most once, and never if no response was expected.                    *)
OneOutcome ==
  \A r \in Req :
    Cardinality(onResponse[r]) + onTimeout[r] <= IF request[r].expects THEN 1 ELSE 0

(* handleData, meant for other nodes' messages, sees a response to a       *)
(* request of its own node only when that request has had its outcome or   *)
(* wanted none: no response is diverted while its request still waits,     *)
(* however early it overtakes the completion of the send.                  *)
StrayResponsesAreLate ==
  \A w \in handled : w.to = request[w.uuid].from => ~Waiting(w.uuid)

(* What onResponse is given is a response, sent by a node that the request *)
(* was addressed to and whose handleData had received that request.        *)
AnswerFromAskedNode ==
  \A r \in Req : \A w \in onResponse[r] :
    /\ w.dir = "resp"
    /\ w.from \in request[r].to
    /\ \E a \in handled : a.uuid = r /\ a.dir = "ask" /\ a.to = w.from

(* A send to one destination whose promise rejects was not delivered, so   *)
(* it is never answered.                                                   *)
RejectedNeverAnswered ==
  \A r \in Req :
    Cardinality(request[r].to) = 1 /\ promise[r] \in {"rejected", "thrown"} =>
      onResponse[r] = {}

(* Every entry of the TTLMap has its expiry timer armed, although get and  *)
(* delete remove entries on their own, and stands for a request that timed *)
(* out.                                                                    *)
TimedOutTracked ==
  \A r \in timedOutUUIDMapping : r \in ttlTimer /\ onTimeout[r] = 1

(* A request that expects a response and was accepted has an outcome in    *)
(* the end, whatever the network loses.                                    *)
EveryRequestEnds ==
  \A r \in Req : Waiting(r) ~> onResponse[r] # {} \/ onTimeout[r] = 1

(* The promise of a send that awaits processing settles once one of its    *)
(* destinations does not stall, even if all of them fail and whatever the  *)
(* stalled ones do: a multi-send never waits for its slowest peer.         *)
PromiseSettles ==
  \A r \in Req :
    /\ promise[r] = "pending"
    /\ request[r].await
    /\ ~(request[r].to \subseteq Stalled)
    ~> promise[r] # "pending"

-----------------------------------------------------------------------------
(* Its job is to determine if the incoming data is a response to a request *)
(* the user sent (the comment on extractUUIDHandleData): what it takes for *)
(* a response is one.                                                      *)
OnlyResponsesTaken ==
  \A r \in Req : \A w \in onResponse[r] : w.dir = "resp"

(* respond is the function you can use to send data back (README.md): it   *)
(* sends the data back.                                                    *)
RespondSends == respondErrors = {}
=============================================================================
