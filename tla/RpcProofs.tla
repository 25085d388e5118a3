----------------------------- MODULE RpcProofs -----------------------------
(***************************************************************************)
(* For any nodes, requests, destinations and number of responses: a        *)
(* request's timer is armed and its callback bound exactly while it waits, *)
(* the user hears of it at most once, the table of timed-out requests      *)
(* keeps no entry without a timer, a send that was rejected is never       *)
(* answered, and a response comes from a node that was asked.              *)
(***************************************************************************)
EXTENDS Rpc, FiniteSetTheorems, TLAPS

(* What the callbacks have been told of a request: one thing at most, and  *)
(* nothing if no response was expected.                                    *)
OutcomeInv ==
  \A r \in Req :
    /\ onResponse[r] # {} => \E w \in Wire : onResponse[r] = {w}
    /\ onResponse[r] # {} => onTimeout[r] = 0
    /\ ~request[r].expects => onResponse[r] = {} /\ onTimeout[r] = 0

(* Every message is about a request that was sent, and one that reached    *)
(* the network or a user is addressed to a node.                           *)
MessageInv ==
  /\ \A w \in sending \cup net \cup handled : Sent(w.uuid)
  /\ \A w \in net \cup handled : w.to \in Node

IInv ==
  /\ TypeOK
  /\ PendingTracked
  /\ OutcomeInv
  /\ TimedOutTracked
  /\ MessageInv
  /\ StrayResponsesAreLate

-----------------------------------------------------------------------------
(* The invariant holds when the nodes start.                               *)
LEMMA InitIInv == Init => IInv
  BY RpcAssumption
  DEF Init, IInv, TypeOK, PendingTracked, OutcomeInv, TimedOutTracked, Waiting,
      MessageInv, StrayResponsesAreLate, Unsent, Request, Wire

(* A response is addressed to a node or to nobody.                         *)
LEMMA NodeAtType ==
  ASSUME NEW h, NEW p
  PROVE  NodeAt(h, p) \in Node \cup {None}
  BY DEF NodeAt

(* A message of the wire format has a request's UUID.                      *)
LEMMA WireUuid == \A w \in Wire : w.uuid \in Req
  BY DEF Wire

(* A request that was never sent is not in any table, so that sending it   *)
(* starts its wait afresh.                                                 *)
LEMMA SendAugIInv ==
  ASSUME IInv, NEW r \in Req, NEW n \in Node, NEW T \in SUBSET Node,
         NEW expects \in BOOLEAN, NEW await \in BOOLEAN,
         SendAug(r, n, T, expects, await)
  PROVE  IInv'
<1> USE RpcAssumption DEF IInv
<1>1. /\ request[r] = Unsent
      /\ request' = [request EXCEPT ![r] = [from |-> n, to |-> T,
                                            expects |-> expects, await |-> await]]
      /\ promise' = [promise EXCEPT ![r] = "pending"]
      /\ sending' = sending \cup
           {[uuid |-> r, dir |-> "ask", from |-> n, to |-> t, seq |-> 0] : t \in T}
      /\ timer' = IF expects THEN timer \cup {r} ELSE timer
      /\ responseUUIDMapping' = IF expects THEN responseUUIDMapping \cup {r}
                                           ELSE responseUUIDMapping
      /\ UNCHANGED <<version, timedOutUUIDMapping, ttlTimer, onResponse, onTimeout,
                     handled, answers, respondErrors, completions, net>>
  BY DEF SendAug, Sent, Register, calls
<1>2. /\ ~request[r].expects
      /\ request'[r].expects = expects
      /\ promise'[r] = "pending"
      /\ \A q \in Req : q # r => request'[q] = request[q] /\ promise'[q] = promise[q]
  BY <1>1 DEF TypeOK, Unsent
<1>3. TypeOK'
  <2>1. request' \in [Req -> Request \cup {Unsent}]
    BY <1>1 DEF TypeOK, Request
  <2>2. promise' \in [Req -> {"none", "pending", "resolved", "rejected", "thrown"}]
    BY <1>1 DEF TypeOK
  <2>3. sending' \subseteq Wire
    BY <1>1 DEF TypeOK, Wire
  <2> QED
    BY <1>1, <2>1, <2>2, <2>3 DEF TypeOK
<1>4. onResponse[r] = {} /\ onTimeout[r] = 0
  BY <1>2 DEF OutcomeInv
<1>5. PendingTracked'
  BY <1>1, <1>2, <1>4 DEF PendingTracked, Waiting
<1>6. OutcomeInv'
  BY <1>1, <1>2, <1>4 DEF OutcomeInv, Wire
<1>7. TimedOutTracked'
  BY <1>1 DEF TimedOutTracked
<1>8. /\ request'[r] # Unsent
      /\ \A q \in Req : Sent(q) => Sent(q)'
  BY <1>1, <1>2 DEF TypeOK, Unsent, Sent
<1>9. MessageInv'
  BY <1>1, <1>8, WireUuid DEF MessageInv, TypeOK, Sent
<1>10. \A w \in handled : w.uuid \in Req /\ w.uuid # r
  BY <1>1, WireUuid DEF MessageInv, TypeOK, Sent
<1>11. StrayResponsesAreLate'
  BY <1>1, <1>2, <1>10 DEF StrayResponsesAreLate, Waiting
<1> QED
  BY <1>3, <1>5, <1>6, <1>7, <1>9, <1>11

(* A native call that throws leaves nothing behind.                        *)
LEMMA SendThrowsIInv ==
  ASSUME IInv, NEW r \in Req, NEW n \in Node, NEW T \in SUBSET Node,
         NEW expects \in BOOLEAN, SendThrows(r, n, T, expects)
  PROVE  IInv'
<1> USE RpcAssumption DEF IInv
<1>1. /\ request[r] = Unsent
      /\ request' = [request EXCEPT ![r] = [from |-> n, to |-> T,
                                            expects |-> expects, await |-> TRUE]]
      /\ promise' = [promise EXCEPT ![r] = "thrown"]
      /\ UNCHANGED <<version, responseUUIDMapping, timer, timedOutUUIDMapping,
                     ttlTimer, onResponse, onTimeout, handled, answers,
                     respondErrors, sending, completions, net>>
  BY DEF SendThrows, Sent, tables, calls, native
<1>2. /\ ~request[r].expects
      /\ promise'[r] = "thrown"
      /\ \A q \in Req : q # r => request'[q] = request[q] /\ promise'[q] = promise[q]
  BY <1>1 DEF TypeOK, Unsent
<1>3. TypeOK'
  <2>1. request' \in [Req -> Request \cup {Unsent}]
    BY <1>1 DEF TypeOK, Request
  <2>2. promise' \in [Req -> {"none", "pending", "resolved", "rejected", "thrown"}]
    BY <1>1 DEF TypeOK
  <2> QED
    BY <1>1, <2>1, <2>2 DEF TypeOK
<1>4. PendingTracked'
  BY <1>1, <1>2 DEF PendingTracked, Waiting
<1>5. OutcomeInv'
  BY <1>1, <1>2 DEF OutcomeInv, Wire
<1>6. TimedOutTracked'
  BY <1>1 DEF TimedOutTracked
<1>7. /\ request'[r] # Unsent
      /\ \A q \in Req : Sent(q) => Sent(q)'
  BY <1>1, <1>2 DEF TypeOK, Unsent, Sent
<1>8. MessageInv'
  BY <1>1, <1>7, WireUuid DEF MessageInv, TypeOK
<1>9. \A w \in handled : w.uuid \in Req /\ w.uuid # r
  BY <1>1, WireUuid DEF MessageInv, TypeOK, Sent
<1>10. StrayResponsesAreLate'
  BY <1>1, <1>2, <1>9 DEF StrayResponsesAreLate, Waiting
<1> QED
  BY <1>3, <1>4, <1>5, <1>6, <1>8, <1>10

(* A step that changes neither tables nor outcomes keeps what is said of   *)
(* them, whatever it does to promises that were not thrown.                *)
LEMMA TablesStep ==
  ASSUME IInv, TypeOK', MessageInv',
         UNCHANGED <<request, responseUUIDMapping, timer, timedOutUUIDMapping,
                     ttlTimer, onResponse, onTimeout, handled>>,
         \A r \in Req : promise'[r] = "thrown" <=> promise[r] = "thrown"
  PROVE  IInv'
<1>1. \A r \in Req : Waiting(r)' <=> Waiting(r)
  BY DEF Waiting
<1>2. PendingTracked' /\ OutcomeInv' /\ TimedOutTracked'
  BY <1>1 DEF IInv, PendingTracked, OutcomeInv, TimedOutTracked, Wire
<1>3. StrayResponsesAreLate'
  BY <1>1, WireUuid DEF IInv, TypeOK, StrayResponsesAreLate
<1> QED
  BY <1>2, <1>3 DEF IInv

(* The native layer moves a message it has accepted.                       *)
LEMMA NativeIInv ==
  ASSUME IInv, NEW w \in sending, Transmit(w) \/ FailSend(w)
  PROVE  IInv'
<1>1. /\ w \in Wire
      /\ \A ok \in BOOLEAN : Completion(w, ok) \subseteq [wire : Wire, ok : BOOLEAN]
  BY DEF IInv, TypeOK, Completion
<1>2. TypeOK'
  BY <1>1 DEF IInv, TypeOK, Transmit, FailSend, user, tables, calls
<1>3. w.to \in Node \cup {None}
  BY <1>1 DEF Wire
<1>4. MessageInv'
  BY <1>3 DEF IInv, MessageInv, Sent, Transmit, FailSend, user, calls
<1> QED
  BY <1>2, <1>4, TablesStep DEF Transmit, FailSend, user, tables, calls

(* The network loses a message.                                            *)
LEMMA LoseIInv ==
  ASSUME IInv, NEW w \in net, Lose(w)
  PROVE  IInv'
<1>1. TypeOK'
  BY DEF IInv, TypeOK, Lose, user, tables, calls
<1>2. MessageInv'
  BY DEF IInv, MessageInv, Sent, Lose, user, calls
<1> QED
  BY <1>1, <1>2, TablesStep DEF Lose, user, tables, calls

(* A completion settles a promise that was pending.                        *)
LEMMA SendCallbackIInv ==
  ASSUME IInv, NEW c \in completions, SendCallback(c)
  PROVE  IInv'
<1>1. c.wire.uuid \in Req
  BY WireUuid DEF IInv, TypeOK
<1>2. TypeOK'
  BY <1>1 DEF IInv, TypeOK, SendCallback, tables, calls
<1>3. \A r \in Req : promise'[r] = "thrown" <=> promise[r] = "thrown"
  BY <1>1 DEF IInv, TypeOK, SendCallback
<1>4. MessageInv'
  BY DEF IInv, MessageInv, Sent, SendCallback, calls
<1> QED
  BY <1>2, <1>3, <1>4, TablesStep DEF SendCallback, tables, calls

(* respond queues a message to whoever listens on the requester's port.    *)
LEMMA RespondIInv ==
  ASSUME IInv, NEW w \in handled, Respond(w)
  PROVE  IInv'
<1> DEFINE to  == NodeAt(Host[w.from], Port[request[w.uuid].from])
           msg == [uuid |-> w.uuid, dir |-> "resp", from |-> w.to, to |-> to,
                   seq |-> answers[w.uuid] + 1]
<1>1. w \in Wire /\ w.uuid \in Req /\ MaxAnswers \in Nat
  BY WireUuid, RpcAssumption DEF IInv, TypeOK
<1>2. answers[w.uuid] \in 0 .. MaxAnswers /\ answers[w.uuid] < MaxAnswers
  BY <1>1 DEF IInv, TypeOK, Respond
<1>3. /\ answers' = [answers EXCEPT ![w.uuid] = answers[w.uuid] + 1]
      /\ answers'[w.uuid] = answers[w.uuid] + 1
  BY <1>1 DEF IInv, TypeOK, Respond
<1>4. answers' \in [Req -> 0 .. MaxAnswers]
  BY <1>1, <1>2, <1>3 DEF IInv, TypeOK
<1>5. sending' = sending \cup {msg}
  BY <1>3 DEF Respond
<1>6. msg \in Wire
  <2>1. to \in Node \cup {None}
    BY NodeAtType
  <2>2. w.to \in Node
    BY DEF IInv, MessageInv
  <2>3. answers[w.uuid] + 1 \in 0 .. MaxAnswers
    BY <1>1, <1>2
  <2> HIDE DEF to
  <2> QED
    BY <1>1, <2>1, <2>2, <2>3 DEF Wire
<1>7. msg.uuid = w.uuid
  OBVIOUS
<1> HIDE DEF msg
<1>8. TypeOK'
  BY <1>4, <1>5, <1>6 DEF IInv, TypeOK, Respond, user, tables
<1>9. MessageInv'
  BY <1>5, <1>7 DEF IInv, MessageInv, Sent, Respond, user
<1> QED
  BY <1>8, <1>9, TablesStep DEF Respond, user, tables

(* A respond that throws changes only the log.                             *)
LEMMA RespondThrowsIInv ==
  ASSUME IInv, NEW w \in handled, RespondThrows(w)
  PROVE  IInv'
<1>1. TypeOK'
  BY DEF IInv, TypeOK, RespondThrows, user, tables, native
<1>2. MessageInv'
  BY DEF IInv, MessageInv, Sent, RespondThrows, user, native
<1> QED
  BY <1>1, <1>2, TablesStep DEF RespondThrows, user, tables

(* The header version of a node plays no part in the tables.               *)
LEMMA UpdateHeaderOptsIInv ==
  ASSUME IInv, NEW n \in Node, NEW v \in {0, 1}, UpdateHeaderOpts(n, v)
  PROVE  IInv'
<1>1. TypeOK'
  BY DEF IInv, TypeOK, UpdateHeaderOpts, tables, calls, native
<1>2. MessageInv'
  BY DEF IInv, MessageInv, Sent, UpdateHeaderOpts, calls, native
<1> QED
  BY <1>1, <1>2, TablesStep DEF UpdateHeaderOpts, tables, calls

(* A message that is taken for the response ends the wait of its request:  *)
(* timer, callback and wait go together, and it was the first outcome.     *)
LEMMA TakeResponseIInv ==
  ASSUME IInv, NEW w \in net, Deliver(w), Expected(w)
  PROVE  IInv'
<1> DEFINE r == w.uuid
<1> USE DEF IInv
<1>1. w \in Wire /\ r \in Req
  BY WireUuid DEF TypeOK
<1>2. /\ net' = net \ {w}
      /\ responseUUIDMapping' = responseUUIDMapping \ {r}
      /\ timer' = timer \ {r}
      /\ onResponse' = [onResponse EXCEPT ![r] = onResponse[r] \cup {w}]
      /\ UNCHANGED <<version, request, promise, timedOutUUIDMapping, ttlTimer,
                     onTimeout, handled, answers, respondErrors, sending,
                     completions>>
  BY DEF Deliver, TakeResponse, user
<1>3. Waiting(r)
  BY <1>1 DEF Expected, PendingTracked
<1>4. /\ onResponse'[r] = {w}
      /\ \A q \in Req : q # r => onResponse'[q] = onResponse[q]
  BY <1>1, <1>2, <1>3 DEF TypeOK, Waiting
<1>5. TypeOK'
  BY <1>1, <1>2 DEF TypeOK
<1>6. PendingTracked'
  BY <1>2, <1>4 DEF PendingTracked, Waiting
<1>7. OutcomeInv'
  <2> SUFFICES ASSUME NEW q \in Req
               PROVE  /\ onResponse'[q] # {} => \E x \in Wire : onResponse'[q] = {x}
                      /\ onResponse'[q] # {} => onTimeout[q] = 0
                      /\ ~request[q].expects => onResponse'[q] = {} /\ onTimeout[q] = 0
    BY <1>2 DEF OutcomeInv, Wire
  <2>1. CASE q = r
    BY <2>1, <1>1, <1>3, <1>4 DEF Waiting
  <2>2. CASE q # r
    BY <2>2, <1>4 DEF OutcomeInv
  <2> QED
    BY <2>1, <2>2
<1>8. TimedOutTracked'
  BY <1>2 DEF TimedOutTracked
<1>9. MessageInv'
  BY <1>2 DEF MessageInv, Sent
<1>10. StrayResponsesAreLate'
  <2>1. \A q \in Req : Waiting(q)' => Waiting(q)
    BY <1>2, <1>4 DEF Waiting
  <2> QED
    BY <1>2, <2>1, WireUuid DEF StrayResponsesAreLate, TypeOK
<1> QED
  BY <1>5, <1>6, <1>7, <1>8, <1>9, <1>10

(* A message that is not expected goes to handleData; if it came to the    *)
(* node that asked, the request's callback was gone, so its wait was over. *)
LEMMA HandleDataIInv ==
  ASSUME IInv, NEW w \in net, Deliver(w), ~Expected(w)
  PROVE  IInv'
<1> USE DEF IInv
<1>1. w \in Wire /\ w.uuid \in Req
  BY WireUuid DEF TypeOK
<1>2. /\ net' = net \ {w}
      /\ handled' = handled \cup {w}
      /\ UNCHANGED <<version, request, promise, responseUUIDMapping, timer,
                     onResponse, onTimeout, answers, respondErrors, sending,
                     completions>>
  BY DEF Deliver, HandleData, user
<1>3. \/ UNCHANGED <<timedOutUUIDMapping, ttlTimer>>
      \/ /\ timedOutUUIDMapping' = timedOutUUIDMapping \ {w.uuid}
         /\ ttlTimer' = ttlTimer \ {w.uuid} \/ ttlTimer' = ttlTimer
  BY DEF Deliver, HandleData, ForgetTimedOut
<1>4. TypeOK'
  BY <1>1, <1>2, <1>3 DEF TypeOK
<1>5. \A r \in Req : Waiting(r)' <=> Waiting(r)
  BY <1>2 DEF Waiting
<1>6. PendingTracked' /\ OutcomeInv'
  BY <1>2, <1>5 DEF PendingTracked, OutcomeInv, Wire
<1>7. TimedOutTracked'
  BY <1>2, <1>3 DEF TimedOutTracked
<1>8. MessageInv'
  BY <1>2 DEF MessageInv, Sent
<1>9. w.to = request[w.uuid].from => ~Waiting(w.uuid)
  BY <1>1 DEF Expected, PendingTracked
<1>10. StrayResponsesAreLate'
  BY <1>1, <1>2, <1>5, <1>9, WireUuid DEF StrayResponsesAreLate, TypeOK
<1> QED
  BY <1>4, <1>6, <1>7, <1>8, <1>10

(* A timer fires only for a request that still waits, and ends its wait.   *)
LEMMA TimeoutIInv ==
  ASSUME IInv, NEW r \in Req, Timeout(r)
  PROVE  IInv'
<1> USE DEF IInv
<1>1. /\ r \in timer
      /\ timer' = timer \ {r}
      /\ timedOutUUIDMapping' = timedOutUUIDMapping \cup {r}
      /\ ttlTimer' = ttlTimer \cup {r}
      /\ responseUUIDMapping' = responseUUIDMapping \ {r}
      /\ onTimeout' = [onTimeout EXCEPT ![r] = onTimeout[r] + 1]
      /\ UNCHANGED <<version, request, promise, onResponse, handled, answers,
                     respondErrors, sending, completions, net>>
  BY DEF Timeout, user, native
<1>2. Waiting(r)
  BY <1>1 DEF PendingTracked
<1>3. /\ onTimeout'[r] = 1
      /\ \A q \in Req : q # r => onTimeout'[q] = onTimeout[q]
  BY <1>1, <1>2 DEF TypeOK, Waiting
<1>4. onTimeout' \in [Req -> {0, 1}]
  BY <1>1, <1>3 DEF TypeOK
<1>5. TypeOK'
  BY <1>1, <1>4 DEF TypeOK
<1>6. PendingTracked'
  BY <1>1, <1>3 DEF PendingTracked, Waiting
<1>7. OutcomeInv'
  BY <1>1, <1>2, <1>3 DEF OutcomeInv, Waiting, Wire
<1>8. TimedOutTracked'
  BY <1>1, <1>3 DEF TimedOutTracked, TypeOK
<1>9. MessageInv'
  BY <1>1 DEF MessageInv, Sent
<1>10. StrayResponsesAreLate'
  <2>1. \A q \in Req : Waiting(q)' => Waiting(q)
    BY <1>1, <1>3 DEF Waiting
  <2> QED
    BY <1>1, <2>1, WireUuid DEF StrayResponsesAreLate, TypeOK
<1> QED
  BY <1>5, <1>6, <1>7, <1>8, <1>9, <1>10

(* An expiry timer takes its entry with it.                                *)
LEMMA ExpireIInv ==
  ASSUME IInv, NEW r \in Req, Expire(r)
  PROVE  IInv'
<1> USE DEF IInv
<1>1. /\ ttlTimer' = ttlTimer \ {r}
      /\ timedOutUUIDMapping' = timedOutUUIDMapping \ {r}
      /\ UNCHANGED <<version, request, promise, responseUUIDMapping, timer,
                     onResponse, onTimeout, handled, answers, respondErrors,
                     sending, completions, net>>
  BY DEF Expire, user, calls, native
<1>2. TypeOK'
  BY <1>1 DEF TypeOK
<1>3. \A q \in Req : Waiting(q)' <=> Waiting(q)
  BY <1>1 DEF Waiting
<1>4. PendingTracked' /\ OutcomeInv'
  BY <1>1, <1>3 DEF PendingTracked, OutcomeInv, Wire
<1>5. TimedOutTracked'
  BY <1>1 DEF TimedOutTracked
<1>6. MessageInv'
  BY <1>1 DEF MessageInv, Sent
<1>7. StrayResponsesAreLate'
  BY <1>1, <1>3, WireUuid DEF StrayResponsesAreLate, TypeOK
<1> QED
  BY <1>2, <1>4, <1>5, <1>6, <1>7

-----------------------------------------------------------------------------
(* Every turn of an event loop and every step of the native layer and the  *)
(* network preserves the invariant.                                        *)
LEMMA NextIInv == IInv /\ [Next]_vars => IInv'
<1> SUFFICES ASSUME IInv, [Next]_vars PROVE IInv'
  OBVIOUS
<1>1. ASSUME NEW r \in Req, NEW n \in Node, NEW expects \in BOOLEAN,
             NEW T \in Targets[n],
             \/ Send(r, n, T, expects)
             \/ SendWithHeader(r, n, T, expects)
             \/ \E await \in BOOLEAN : MultiSendWithHeader(r, n, T, expects, await)
             \/ SendThrows(r, n, T, expects)
      PROVE  IInv'
  <2>1. T \in SUBSET Node
    BY RpcAssumption
  <2>2. CASE SendThrows(r, n, T, expects)
    BY <2>1, <2>2, SendThrowsIInv
  <2>3. ASSUME NEW await \in BOOLEAN, SendAug(r, n, T, expects, await)
        PROVE  IInv'
    BY <2>1, <2>3, SendAugIInv
  <2> QED
    BY <1>1, <2>2, <2>3 DEF Send, SendWithHeader, MultiSendWithHeader
<1>2. ASSUME NEW w \in net, Lose(w) \/ Deliver(w)
      PROVE  IInv'
  BY <1>2, LoseIInv, TakeResponseIInv, HandleDataIInv
<1>3. CASE UNCHANGED vars
  <2>1. UNCHANGED <<version, request, promise, responseUUIDMapping, timer,
                    timedOutUUIDMapping, ttlTimer, onResponse, onTimeout, handled,
                    answers, respondErrors, sending, completions, net>>
    BY <1>3 DEF vars, user, tables, calls, native
  <2>2. TypeOK' /\ MessageInv'
    BY <2>1 DEF IInv, TypeOK, MessageInv, Sent
  <2> QED
    BY <2>1, <2>2, TablesStep
<1> QED
  BY <1>1, <1>2, <1>3, NativeIInv, SendCallbackIInv, RespondIInv,
     RespondThrowsIInv, UpdateHeaderOptsIInv, TimeoutIInv, ExpireIInv
  DEF Next

(* The inductive invariant holds of every behaviour of the nodes.          *)
THEOREM RpcInvariant == Spec => []IInv
  BY InitIInv, NextIInv, PTL DEF Spec

(* The tables and the messages keep their types; in particular the timer   *)
(* of _sendAug calls onTimeout once at most.                               *)
THEOREM RpcTypeOK == Spec => []TypeOK
<1>1. IInv => TypeOK
  BY DEF IInv
<1> QED
  BY <1>1, RpcInvariant, PTL

(* The timer of _sendAug is armed and its callback bound exactly while the *)
(* request waits, whatever the network does and however often respond is   *)
(* called.                                                                 *)
THEOREM RpcPendingTracked == Spec => []PendingTracked
<1>1. IInv => PendingTracked
  BY DEF IInv
<1> QED
  BY <1>1, RpcInvariant, PTL

(* The user hears of a request once at most, by onResponse or onTimeout,   *)
(* and never if it expected no response.                                   *)
THEOREM RpcOneOutcome == Spec => []OneOutcome
<1>1. IInv => OneOutcome
  <2> SUFFICES ASSUME IInv, NEW r \in Req
               PROVE  Cardinality(onResponse[r]) + onTimeout[r]
                        <= IF request[r].expects THEN 1 ELSE 0
    BY DEF OneOutcome
  <2>1. onTimeout[r] \in {0, 1}
    BY DEF IInv, TypeOK
  <2>2. CASE onResponse[r] = {}
    BY <2>1, <2>2, FS_EmptySet DEF IInv, OutcomeInv
  <2>3. CASE onResponse[r] # {}
    <3>1. PICK w \in Wire : onResponse[r] = {w}
      BY <2>3 DEF IInv, OutcomeInv
    <3>2. Cardinality(onResponse[r]) = 1
      BY <3>1, FS_Singleton
    <3> QED
      BY <2>3, <3>2 DEF IInv, OutcomeInv
  <2> QED
    BY <2>2, <2>3
<1> QED
  BY <1>1, RpcInvariant, PTL

(* extractUUIDHandleData never diverts to handleData a message for the     *)
(* request's own node while that request still waits.                      *)
THEOREM RpcStrayResponsesAreLate == Spec => []StrayResponsesAreLate
<1>1. IInv => StrayResponsesAreLate
  BY DEF IInv
<1> QED
  BY <1>1, RpcInvariant, PTL

(* No entry of the TTLMap is without its expiry timer, and each stands for *)
(* a request that timed out.                                               *)
THEOREM RpcTimedOutTracked == Spec => []TimedOutTracked
<1>1. IInv => TimedOutTracked
  BY DEF IInv
<1> QED
  BY <1>1, RpcInvariant, PTL

-----------------------------------------------------------------------------
(* Where a request and its answers have got to.                            *)

(* Nobody but the sender's native layer has heard of the request.          *)
Silent(r) ==
  /\ \A w \in net \cup handled : w.uuid # r
  /\ \A w \in sending : w.uuid = r => w.dir = "ask"
  /\ onResponse[r] = {}

(* The send of the request has failed, or is about to be reported failed.  *)
Failed(r) ==
  \/ promise[r] \in {"rejected", "thrown"}
  \/ \E c \in completions : c.wire.uuid = r /\ c.wire.dir = "ask" /\ ~c.ok

(* w answers a request that its sender was asked and has handled.          *)
AnswersAsk(w) ==
  /\ w.from \in request[w.uuid].to
  /\ \E a \in handled : a.uuid = w.uuid /\ a.dir = "ask" /\ a.to = w.from

(* A request's own messages go from its sender to its destinations, one    *)
(* each, and a completion is about a request that was sent.                *)
AskInv ==
  /\ \A w \in sending \cup net \cup handled : w.dir = "ask" =>
       /\ w.from = request[w.uuid].from
       /\ w.to \in request[w.uuid].to
       /\ w.seq = 0
  /\ \A c \in completions : Sent(c.wire.uuid)
  /\ \A r \in Req : Sent(r) => /\ request[r].from \in Node
                               /\ request[r].to \in Targets[request[r].from]

(* With one destination, the request is unheard of while its message is    *)
(* unsent, and for ever if its send failed.                                *)
SilentInv ==
  \A r \in Req : (\A s, t \in request[r].to : s = t) =>
    /\ (\E w \in sending : w.uuid = r /\ w.dir = "ask") => Silent(r)
    /\ Failed(r) => Silent(r) /\ \A w \in sending : w.uuid # r

(* While a request waits, every answer to it that is under way goes to the *)
(* node that asked and comes from one that was asked.                      *)
AnswerInv ==
  /\ \A w \in sending \cup net : w.dir = "resp" /\ Waiting(w.uuid) =>
       w.to = request[w.uuid].from /\ AnswersAsk(w)
  /\ \A w \in handled : w.dir = "resp" => ~Waiting(w.uuid)

WireInv == AskInv /\ SilentInv /\ AnswerInv

-----------------------------------------------------------------------------
(* Nothing is under way when the nodes start.                              *)
LEMMA InitWireInv == Init => WireInv
  BY DEF Init, WireInv, AskInv, SilentInv, AnswerInv, Silent, Failed, Sent, Unsent

(* A step that leaves requests, promises, outcomes and messages alone.     *)
LEMMA QuietWireInv ==
  ASSUME IInv, WireInv,
         UNCHANGED <<request, promise, onResponse, onTimeout, handled, sending,
                     completions, net>>
  PROVE  WireInv'
  BY DEF WireInv, AskInv, SilentInv, AnswerInv, Silent, Failed, AnswersAsk,
         Waiting, Sent

(* A fresh request has no message, completion or answer about it yet.      *)
LEMMA FreshRequest ==
  ASSUME IInv, WireInv, NEW r \in Req, ~Sent(r)
  PROVE  /\ \A w \in sending \cup net \cup handled : w.uuid \in Req /\ w.uuid # r
         /\ \A c \in completions : c.wire.uuid \in Req /\ c.wire.uuid # r
         /\ onResponse[r] = {}
<1>1. \A w \in sending \cup net \cup handled : w.uuid \in Req /\ w.uuid # r
  BY WireUuid DEF IInv, MessageInv, TypeOK
<1>2. \A c \in completions : c.wire.uuid \in Req /\ c.wire.uuid # r
  BY WireUuid DEF IInv, TypeOK, WireInv, AskInv
<1>3. ~request[r].expects
  BY DEF Sent, Unsent
<1> QED
  BY <1>1, <1>2, <1>3 DEF IInv, OutcomeInv

(* A send starts with one message for each destination and nothing else.   *)
LEMMA SendAugWireInv ==
  ASSUME IInv, WireInv, NEW r \in Req, NEW n \in Node, NEW T \in Targets[n],
         NEW expects \in BOOLEAN, NEW await \in BOOLEAN,
         SendAug(r, n, T, expects, await)
  PROVE  WireInv'
<1> DEFINE asks == {[uuid |-> r, dir |-> "ask", from |-> n, to |-> t, seq |-> 0] : t \in T}
<1>1. /\ ~Sent(r)
      /\ request' = [request EXCEPT ![r] = [from |-> n, to |-> T,
                                            expects |-> expects, await |-> await]]
      /\ promise' = [promise EXCEPT ![r] = "pending"]
      /\ sending' = sending \cup asks
      /\ UNCHANGED <<onResponse, onTimeout, handled, completions, net>>
  BY DEF SendAug, calls
<1>2. /\ request'[r].from = n /\ request'[r].to = T
      /\ promise'[r] = "pending"
      /\ \A q \in Req : q # r => request'[q] = request[q] /\ promise'[q] = promise[q]
  BY <1>1 DEF IInv, TypeOK
<1>3. \A w \in asks : /\ w.uuid = r /\ w.dir = "ask" /\ w.from = n
                      /\ w.to \in T /\ w.seq = 0
  OBVIOUS
<1> HIDE DEF asks
<1>4. /\ \A w \in sending \cup net \cup handled : w.uuid \in Req /\ w.uuid # r
      /\ \A c \in completions : c.wire.uuid \in Req /\ c.wire.uuid # r
      /\ onResponse[r] = {}
  BY <1>1, FreshRequest
<1>5. AskInv'
  BY <1>1, <1>2, <1>3, <1>4 DEF WireInv, AskInv, Sent
<1>6. SilentInv'
  <2> SUFFICES ASSUME NEW q \in Req, \A s, t \in request'[q].to : s = t
               PROVE  /\ (\E w \in sending' : w.uuid = q /\ w.dir = "ask") => Silent(q)'
                      /\ Failed(q)' => Silent(q)' /\ \A w \in sending' : w.uuid # q
    BY DEF SilentInv
  <2>1. CASE q = r
    <3>1. Silent(q)'
      BY <2>1, <1>1, <1>3, <1>4 DEF Silent
    <3>2. ~Failed(q)'
      BY <2>1, <1>1, <1>2, <1>4 DEF Failed
    <3> QED
      BY <3>1, <3>2
  <2>2. CASE q # r
    <3>1. \A s, t \in request[q].to : s = t
      BY <2>2, <1>2
    <3>2. Silent(q)' <=> Silent(q)
      BY <2>2, <1>1, <1>3 DEF Silent
    <3>3. Failed(q)' <=> Failed(q)
      BY <2>2, <1>1, <1>2 DEF Failed
    <3> QED
      BY <2>2, <3>1, <3>2, <3>3, <1>1, <1>3 DEF WireInv, SilentInv
  <2> QED
    BY <2>1, <2>2
<1>7. AnswerInv'
  <2>1. \A q \in Req : q # r => (Waiting(q)' <=> Waiting(q))
    BY <1>1, <1>2 DEF Waiting
  <2> QED
    BY <2>1, <1>1, <1>2, <1>3, <1>4 DEF WireInv, AnswerInv, AnswersAsk
<1> QED
  BY <1>5, <1>6, <1>7 DEF WireInv

(* A native call that throws sends nothing.                                *)
LEMMA SendThrowsWireInv ==
  ASSUME IInv, WireInv, NEW r \in Req, NEW n \in Node, NEW T \in Targets[n],
         NEW expects \in BOOLEAN, SendThrows(r, n, T, expects)
  PROVE  WireInv'
<1>1. /\ ~Sent(r)
      /\ request' = [request EXCEPT ![r] = [from |-> n, to |-> T,
                                            expects |-> expects, await |-> TRUE]]
      /\ promise' = [promise EXCEPT ![r] = "thrown"]
      /\ UNCHANGED <<onResponse, onTimeout, handled, sending, completions, net>>
  BY DEF SendThrows, calls, native
<1>2. /\ request'[r].from = n /\ request'[r].to = T
      /\ \A q \in Req : q # r => request'[q] = request[q] /\ promise'[q] = promise[q]
  BY <1>1 DEF IInv, TypeOK
<1>3. /\ \A w \in sending \cup net \cup handled : w.uuid \in Req /\ w.uuid # r
      /\ \A c \in completions : c.wire.uuid \in Req /\ c.wire.uuid # r
      /\ onResponse[r] = {}
  BY <1>1, FreshRequest
<1>4. AskInv'
  BY <1>1, <1>2, <1>3 DEF WireInv, AskInv, Sent
<1>5. SilentInv'
  <2> SUFFICES ASSUME NEW q \in Req, \A s, t \in request'[q].to : s = t
               PROVE  /\ (\E w \in sending' : w.uuid = q /\ w.dir = "ask") => Silent(q)'
                      /\ Failed(q)' => Silent(q)' /\ \A w \in sending' : w.uuid # q
    BY DEF SilentInv
  <2>1. CASE q = r
    BY <2>1, <1>1, <1>3 DEF Silent
  <2>2. CASE q # r
    <3>1. /\ \A s, t \in request[q].to : s = t
          /\ Silent(q)' <=> Silent(q)
          /\ Failed(q)' <=> Failed(q)
      BY <2>2, <1>1, <1>2 DEF Silent, Failed
    <3> QED
      BY <3>1, <1>1 DEF WireInv, SilentInv
  <2> QED
    BY <2>1, <2>2
<1>6. AnswerInv'
  <2>1. \A q \in Req : q # r => (Waiting(q)' <=> Waiting(q))
    BY <1>1, <1>2 DEF Waiting
  <2> QED
    BY <2>1, <1>1, <1>2, <1>3 DEF WireInv, AnswerInv, AnswersAsk
<1> QED
  BY <1>4, <1>5, <1>6 DEF WireInv

(* A request to one destination has one message.                           *)
LEMMA OneAsk ==
  ASSUME IInv, WireInv, NEW v \in sending, NEW w \in sending,
         v.uuid = w.uuid, v.dir = "ask", w.dir = "ask",
         \A s, t \in request[v.uuid].to : s = t
  PROVE  v = w
<1>1. v \in Wire /\ w \in Wire
  BY DEF IInv, TypeOK
<1>2. v.from = w.from /\ v.to = w.to /\ v.seq = w.seq
  BY DEF WireInv, AskInv
<1> QED
  BY <1>1, <1>2 DEF Wire

(* A message that goes out was not reported as failed.                     *)
LEMMA TransmitWireInv ==
  ASSUME IInv, WireInv, NEW w \in sending, Transmit(w)
  PROVE  WireInv'
<1>1. /\ sending' = sending \ {w}
      /\ net' = net \cup {w}
      /\ completions' \subseteq completions \cup {[wire |-> w, ok |-> TRUE]}
      /\ UNCHANGED <<request, promise, onResponse, onTimeout, handled>>
  BY DEF Transmit, Completion, user, calls
<1>2. w \in Wire /\ w.uuid \in Req /\ Sent(w.uuid) /\ w.dir \in {"ask", "resp"}
  BY WireUuid DEF IInv, TypeOK, MessageInv, Wire
<1>3. AskInv'
  BY <1>1, <1>2 DEF WireInv, AskInv, Sent
<1>4. SilentInv'
  <2> SUFFICES ASSUME NEW q \in Req, \A s, t \in request[q].to : s = t
               PROVE  /\ (\E v \in sending' : v.uuid = q /\ v.dir = "ask") => Silent(q)'
                      /\ Failed(q)' => Silent(q)' /\ \A v \in sending' : v.uuid # q
    BY <1>1 DEF SilentInv
  <2>1. Failed(q)' => Failed(q)
    BY <1>1 DEF Failed
  <2>2. CASE q = w.uuid
    <3>1. ~Failed(q)
      BY <2>2 DEF WireInv, SilentInv
    <3>2. ASSUME NEW v \in sending', v.uuid = q, v.dir = "ask"
          PROVE  FALSE
      <4>1. Silent(q)
        BY <3>2, <1>1 DEF WireInv, SilentInv
      <4>2. w.dir = "ask"
        BY <4>1, <2>2 DEF Silent
      <4> QED
        BY <3>2, <4>2, <2>2, <1>1, OneAsk
    <3> QED
      BY <2>1, <3>1, <3>2
  <2>3. CASE q # w.uuid
    <3>1. Silent(q) => Silent(q)'
      BY <2>3, <1>1 DEF Silent
    <3> QED
      BY <2>1, <3>1, <1>1 DEF WireInv, SilentInv
  <2> QED
    BY <2>2, <2>3
<1>5. AnswerInv'
  <2>1. \A q : Waiting(q)' <=> Waiting(q)
    BY <1>1 DEF Waiting
  <2>2. \A v : AnswersAsk(v)' <=> AnswersAsk(v)
    BY <1>1 DEF AnswersAsk
  <2> QED
    BY <2>1, <2>2, <1>1 DEF WireInv, AnswerInv
<1> QED
  BY <1>3, <1>4, <1>5 DEF WireInv

(* A message that fails was the request's only one, if it has one          *)
(* destination, and nobody has heard of it.                                *)
LEMMA FailSendWireInv ==
  ASSUME IInv, WireInv, NEW w \in sending, FailSend(w)
  PROVE  WireInv'
<1>1. /\ sending' = sending \ {w}
      /\ completions' \subseteq completions \cup {[wire |-> w, ok |-> FALSE]}
      /\ UNCHANGED <<request, promise, onResponse, onTimeout, handled, net>>
  BY DEF FailSend, Completion, user, calls
<1>2. w \in Wire /\ w.uuid \in Req /\ Sent(w.uuid) /\ w.dir \in {"ask", "resp"}
  BY WireUuid DEF IInv, TypeOK, MessageInv, Wire
<1>3. AskInv'
  BY <1>1, <1>2 DEF WireInv, AskInv, Sent
<1>4. SilentInv'
  <2> SUFFICES ASSUME NEW q \in Req, \A s, t \in request[q].to : s = t
               PROVE  /\ (\E v \in sending' : v.uuid = q /\ v.dir = "ask") => Silent(q)'
                      /\ Failed(q)' => Silent(q)' /\ \A v \in sending' : v.uuid # q
    BY <1>1 DEF SilentInv
  <2>1. Silent(q) => Silent(q)'
    BY <1>1 DEF Silent
  <2>2. CASE q = w.uuid /\ w.dir = "ask"
    <3>1. Silent(q)
      BY <2>2 DEF WireInv, SilentInv
    <3>2. \A v \in sending' : v.uuid # q
      <4> SUFFICES ASSUME NEW v \in sending', v.uuid = q PROVE FALSE
        OBVIOUS
      <4>1. v \in sending /\ v # w /\ v.dir = "ask"
        BY <3>1, <1>1 DEF Silent
      <4> QED
        BY <4>1, <2>2, OneAsk
    <3> QED
      BY <2>1, <3>1, <3>2
  <2>3. CASE ~(q = w.uuid /\ w.dir = "ask")
    <3>1. Failed(q)' => Failed(q)
      BY <2>3, <1>1 DEF Failed
    <3> QED
      BY <2>1, <3>1, <1>1 DEF WireInv, SilentInv
  <2> QED
    BY <2>2, <2>3
<1>5. AnswerInv'
  BY <1>1 DEF WireInv, AnswerInv, AnswersAsk, Waiting
<1> QED
  BY <1>3, <1>4, <1>5 DEF WireInv

(* A message that is lost leaves less to say.                              *)
LEMMA LoseWireInv ==
  ASSUME IInv, WireInv, NEW w \in net, Lose(w)
  PROVE  WireInv'
<1>1. /\ net' = net \ {w}
      /\ UNCHANGED <<request, promise, onResponse, onTimeout, handled, sending,
                     completions>>
  BY DEF Lose, user, calls
<1>2. AskInv'
  BY <1>1 DEF WireInv, AskInv, Sent
<1>3. SilentInv'
  <2>1. \A q : (Silent(q) => Silent(q)') /\ (Failed(q)' <=> Failed(q))
    BY <1>1 DEF Silent, Failed
  <2> QED
    BY <2>1, <1>1 DEF WireInv, SilentInv
<1>4. AnswerInv'
  BY <1>1 DEF WireInv, AnswerInv, AnswersAsk, Waiting
<1> QED
  BY <1>2, <1>3, <1>4 DEF WireInv

(* sendCallback rejects a promise only on a failed completion.             *)
LEMMA SendCallbackWireInv ==
  ASSUME IInv, WireInv, NEW c \in completions, SendCallback(c)
  PROVE  WireInv'
<1>1. /\ completions' = completions \ {c}
      /\ promise' = [promise EXCEPT ![c.wire.uuid] =
                       IF c.wire.dir = "ask" /\ promise[c.wire.uuid] = "pending"
                       THEN IF c.ok THEN "resolved" ELSE "rejected"
                       ELSE promise[c.wire.uuid]]
      /\ UNCHANGED <<request, onResponse, onTimeout, handled, sending, net>>
  BY DEF SendCallback, calls
<1>2. \A q \in Req : Failed(q)' => Failed(q)
  BY <1>1 DEF Failed, IInv, TypeOK
<1>3. AskInv'
  BY <1>1 DEF WireInv, AskInv, Sent
<1>4. SilentInv'
  <2>1. \A q : Silent(q)' <=> Silent(q)
    BY <1>1 DEF Silent
  <2> QED
    BY <2>1, <1>1, <1>2 DEF WireInv, SilentInv
<1>5. AnswerInv'
  <2>1. \A q \in Req : Waiting(q)' => Waiting(q)
    BY <1>1 DEF Waiting, IInv, TypeOK
  <2>2. \A w \in sending \cup net \cup handled : w.uuid \in Req
    BY WireUuid DEF IInv, TypeOK
  <2> QED
    BY <2>1, <2>2, <1>1 DEF WireInv, AnswerInv, AnswersAsk
<1> QED
  BY <1>3, <1>4, <1>5 DEF WireInv

(* Whoever responds was heard from, so the request is not unheard of; the  *)
(* response to a request goes back to the node that sent it, because no    *)
(* other node listens on its address and port.                             *)
LEMMA RespondWireInv ==
  ASSUME IInv, WireInv, NEW w \in handled, Respond(w)
  PROVE  WireInv'
<1> DEFINE r   == w.uuid
           to  == NodeAt(Host[w.from], Port[request[r].from])
           msg == [uuid |-> r, dir |-> "resp", from |-> w.to, to |-> to,
                   seq |-> answers'[r]]
<1>1. /\ sending' = sending \cup {msg}
      /\ UNCHANGED <<request, promise, onResponse, onTimeout, handled, completions, net>>
  BY DEF Respond, user
<1>2. w \in Wire /\ r \in Req /\ Sent(r) /\ w.dir \in {"ask", "resp"}
  BY WireUuid DEF IInv, TypeOK, MessageInv, Wire
<1>3. msg.uuid = r /\ msg.dir = "resp" /\ msg.from = w.to /\ msg.to = to
  OBVIOUS
<1> HIDE DEF msg
<1>4. AskInv'
  BY <1>1, <1>3 DEF WireInv, AskInv, Sent
<1>5. SilentInv'
  <2> SUFFICES ASSUME NEW q \in Req, \A s, t \in request[q].to : s = t
               PROVE  /\ (\E v \in sending' : v.uuid = q /\ v.dir = "ask") => Silent(q)'
                      /\ Failed(q)' => Silent(q)' /\ \A v \in sending' : v.uuid # q
    BY <1>1 DEF SilentInv
  <2>1. Failed(q)' <=> Failed(q)
    BY <1>1 DEF Failed
  <2>2. CASE q = r
    <3>1. ~Silent(q)
      BY <2>2 DEF Silent
    <3>2. ~Failed(q) /\ ~\E v \in sending : v.uuid = q /\ v.dir = "ask"
      BY <3>1 DEF WireInv, SilentInv
    <3> QED
      BY <2>1, <3>2, <1>1, <1>3
  <2>3. CASE q # r
    <3>1. Silent(q) => Silent(q)'
      BY <2>3, <1>1, <1>3 DEF Silent
    <3> QED
      BY <2>1, <2>3, <3>1, <1>1, <1>3 DEF WireInv, SilentInv
  <2> QED
    BY <2>2, <2>3
<1>6. Waiting(r) => to = request[r].from /\ w.to \in request[r].to /\ w.dir = "ask"
  <2> SUFFICES ASSUME Waiting(r)
               PROVE  to = request[r].from /\ w.to \in request[r].to /\ w.dir = "ask"
    OBVIOUS
  <2>1. w.dir = "ask"
    BY <1>2 DEF WireInv, AnswerInv
  <2>2. w.from = request[r].from /\ w.to \in request[r].to /\ request[r].from \in Node
    BY <2>1, <1>2 DEF WireInv, AskInv
  <2>3. {n \in Node : Host[n] = Host[w.from] /\ Port[n] = Port[w.from]} = {w.from}
    BY <2>2, RpcAssumption
  <2>4. to = w.from
    BY <2>2, <2>3 DEF NodeAt
  <2> QED
    BY <2>1, <2>2, <2>4
<1> HIDE DEF to
<1>7. AnswerInv'
  <2>1. \A q : Waiting(q)' <=> Waiting(q)
    BY <1>1 DEF Waiting
  <2>2. \A v : AnswersAsk(v)' <=> AnswersAsk(v)
    BY <1>1 DEF AnswersAsk
  <2>3. Waiting(r) => AnswersAsk(msg) /\ msg.to = request[r].from
    BY <1>3, <1>6 DEF AnswersAsk
  <2> QED
    BY <2>1, <2>2, <2>3, <1>1, <1>3 DEF WireInv, AnswerInv
<1> QED
  BY <1>4, <1>5, <1>7 DEF WireInv

(* A message taken for the response ends the wait of its request.          *)
LEMMA TakeResponseWireInv ==
  ASSUME IInv, WireInv, NEW w \in net, Deliver(w), Expected(w)
  PROVE  WireInv'
<1>1. /\ net' = net \ {w}
      /\ onResponse' = [onResponse EXCEPT ![w.uuid] = onResponse[w.uuid] \cup {w}]
      /\ UNCHANGED <<request, promise, onTimeout, handled, sending, completions>>
  BY DEF Deliver, TakeResponse, user
<1>2. w \in Wire /\ w.uuid \in Req
  BY WireUuid DEF IInv, TypeOK
<1>3. /\ onResponse'[w.uuid] # {}
      /\ \A q \in Req : q # w.uuid => onResponse'[q] = onResponse[q]
  BY <1>1, <1>2 DEF IInv, TypeOK
<1>4. AskInv'
  BY <1>1 DEF WireInv, AskInv, Sent
<1>5. SilentInv'
  <2> SUFFICES ASSUME NEW q \in Req, \A s, t \in request[q].to : s = t
               PROVE  /\ (\E v \in sending : v.uuid = q /\ v.dir = "ask") => Silent(q)'
                      /\ Failed(q)' => Silent(q)' /\ \A v \in sending : v.uuid # q
    BY <1>1 DEF SilentInv
  <2>1. Failed(q)' <=> Failed(q)
    BY <1>1 DEF Failed
  <2>2. Silent(q) => q # w.uuid
    BY DEF Silent
  <2>3. Silent(q) => Silent(q)'
    BY <2>2, <1>1, <1>3 DEF Silent
  <2> QED
    BY <2>1, <2>3 DEF WireInv, SilentInv
<1>6. AnswerInv'
  <2>1. \A q \in Req : Waiting(q)' => Waiting(q)
    BY <1>1, <1>3 DEF Waiting
  <2>2. \A v \in sending \cup net \cup handled : v.uuid \in Req
    BY WireUuid DEF IInv, TypeOK
  <2> QED
    BY <2>1, <2>2, <1>1 DEF WireInv, AnswerInv, AnswersAsk
<1> QED
  BY <1>4, <1>5, <1>6 DEF WireInv

(* A response given to handleData found no callback: at the node that      *)
(* asked, that means that the request no longer waits.                     *)
LEMMA HandleDataWireInv ==
  ASSUME IInv, WireInv, NEW w \in net, Deliver(w), ~Expected(w)
  PROVE  WireInv'
<1>1. /\ net' = net \ {w}
      /\ handled' = handled \cup {w}
      /\ UNCHANGED <<request, promise, onResponse, onTimeout, sending, completions>>
  BY DEF Deliver, HandleData, user
<1>2. w \in Wire /\ w.uuid \in Req
  BY WireUuid DEF IInv, TypeOK
<1>3. AskInv'
  BY <1>1 DEF WireInv, AskInv, Sent
<1>4. SilentInv'
  <2>1. \A q : (Silent(q) => Silent(q)') /\ (Failed(q)' <=> Failed(q))
    BY <1>1 DEF Silent, Failed
  <2> QED
    BY <2>1, <1>1 DEF WireInv, SilentInv
<1>5. AnswerInv'
  <2>1. \A q : Waiting(q)' <=> Waiting(q)
    BY <1>1 DEF Waiting
  <2>2. \A v : AnswersAsk(v) => AnswersAsk(v)'
    BY <1>1 DEF AnswersAsk
  <2>3. w.dir = "resp" => ~Waiting(w.uuid)
    BY <1>2 DEF WireInv, AnswerInv, Expected, IInv, PendingTracked
  <2> QED
    BY <2>1, <2>2, <2>3, <1>1 DEF WireInv, AnswerInv
<1> QED
  BY <1>3, <1>4, <1>5 DEF WireInv

(* A timeout ends a wait and moves no message.                             *)
LEMMA TimeoutWireInv ==
  ASSUME IInv, WireInv, NEW r \in Req, Timeout(r)
  PROVE  WireInv'
<1>1. /\ onTimeout' = [onTimeout EXCEPT ![r] = onTimeout[r] + 1]
      /\ UNCHANGED <<request, promise, onResponse, handled, sending, completions, net>>
  BY DEF Timeout, user, native
<1>2. \A q \in Req : Waiting(q)' => Waiting(q)
  BY <1>1 DEF Waiting, IInv, TypeOK
<1>3. \A v \in sending \cup net \cup handled : v.uuid \in Req
  BY WireUuid DEF IInv, TypeOK
<1>4. AskInv' /\ SilentInv'
  BY <1>1 DEF WireInv, AskInv, SilentInv, Sent, Silent, Failed
<1>5. AnswerInv'
  BY <1>1, <1>2, <1>3 DEF WireInv, AnswerInv, AnswersAsk
<1> QED
  BY <1>4, <1>5 DEF WireInv

(* Every step of the nodes and the network preserves what is said of the   *)
(* messages under way.                                                     *)
LEMMA NextWireInv == IInv /\ WireInv /\ [Next]_vars => WireInv'
<1> SUFFICES ASSUME IInv, WireInv, [Next]_vars PROVE WireInv'
  OBVIOUS
<1>1. ASSUME NEW r \in Req, NEW n \in Node, NEW expects \in BOOLEAN,
             NEW T \in Targets[n],
             \/ Send(r, n, T, expects)
             \/ SendWithHeader(r, n, T, expects)
             \/ \E await \in BOOLEAN : MultiSendWithHeader(r, n, T, expects, await)
             \/ SendThrows(r, n, T, expects)
      PROVE  WireInv'
  <2>1. CASE SendThrows(r, n, T, expects)
    BY <2>1, SendThrowsWireInv
  <2>2. ASSUME NEW await \in BOOLEAN, SendAug(r, n, T, expects, await)
        PROVE  WireInv'
    BY <2>2, SendAugWireInv
  <2> QED
    BY <1>1, <2>1, <2>2 DEF Send, SendWithHeader, MultiSendWithHeader
<1>2. ASSUME NEW w \in net, Lose(w) \/ Deliver(w)
      PROVE  WireInv'
  BY <1>2, LoseWireInv, TakeResponseWireInv, HandleDataWireInv
<1>3. ASSUME \/ \E n \in Node, v \in {0, 1} : UpdateHeaderOpts(n, v)
             \/ \E w \in handled : RespondThrows(w)
             \/ \E r \in Req : Expire(r)
             \/ UNCHANGED vars
      PROVE  WireInv'
  BY <1>3, QuietWireInv
  DEF UpdateHeaderOpts, RespondThrows, Expire, vars, user, calls, native
<1> QED
  BY <1>1, <1>2, <1>3, TransmitWireInv, FailSendWireInv, SendCallbackWireInv,
     RespondWireInv, TimeoutWireInv
  DEF Next

(* What is said of the messages under way holds of every behaviour.        *)
THEOREM RpcWireInvariant == Spec => []WireInv
  BY InitWireInv, NextWireInv, RpcInvariant, PTL DEF Spec

(* A send or sendWithHeader whose promise rejects was not delivered:       *)
(* onResponse is never called for it.                                      *)
THEOREM RpcRejectedNeverAnswered == Spec => []RejectedNeverAnswered
<1>1. IInv /\ WireInv => RejectedNeverAnswered
  <2> SUFFICES ASSUME IInv, WireInv, NEW r \in Req, Cardinality(request[r].to) = 1,
                      promise[r] \in {"rejected", "thrown"}
               PROVE  onResponse[r] = {}
    BY DEF RejectedNeverAnswered
  <2>1. IsFiniteSet(request[r].to)
    <3>1. CASE Sent(r)
      BY <3>1, RpcAssumption DEF WireInv, AskInv
    <3>2. CASE ~Sent(r)
      BY <3>2, FS_EmptySet DEF Sent, Unsent
    <3> QED
      BY <3>1, <3>2
  <2>2. \A s, t \in request[r].to : s = t
    BY <2>1, FS_Singleton
  <2>3. Failed(r)
    BY DEF Failed
  <2> QED
    BY <2>2, <2>3 DEF WireInv, SilentInv, Silent
<1> QED
  BY <1>1, RpcInvariant, RpcWireInvariant, PTL

(* No node asks itself.                                                    *)
ToOtherNodes == \A n \in Node : \A T \in Targets[n] : n \notin T

(* A step gives onResponse only a response of a node that was asked.       *)
LEMMA AnswerFromAskedNodeStep ==
  ASSUME ToOtherNodes, IInv, WireInv, AnswerFromAskedNode, [Next]_vars
  PROVE  AnswerFromAskedNode'
<1>1. ASSUME UNCHANGED <<request, onResponse>>, handled \subseteq handled'
      PROVE  AnswerFromAskedNode'
  BY <1>1 DEF AnswerFromAskedNode
<1>2. ASSUME NEW r \in Req, ~Sent(r), UNCHANGED <<onResponse, handled>>,
             \A q \in Req : q # r => request'[q] = request[q]
      PROVE  AnswerFromAskedNode'
  <2>1. onResponse[r] = {}
    BY <1>2, FreshRequest
  <2> QED
    BY <1>2, <2>1 DEF AnswerFromAskedNode
<1>3. ASSUME NEW r \in Req, NEW n \in Node, NEW expects \in BOOLEAN,
             NEW T \in Targets[n],
             \/ Send(r, n, T, expects)
             \/ SendWithHeader(r, n, T, expects)
             \/ \E await \in BOOLEAN : MultiSendWithHeader(r, n, T, expects, await)
             \/ SendThrows(r, n, T, expects)
      PROVE  AnswerFromAskedNode'
  <2>1. /\ ~Sent(r)
        /\ UNCHANGED <<onResponse, handled>>
        /\ \A q \in Req : q # r => request'[q] = request[q]
    BY <1>3 DEF Send, SendWithHeader, MultiSendWithHeader, SendThrows, SendAug,
                calls, IInv, TypeOK
  <2> QED
    BY <2>1, <1>2
<1>4. ASSUME NEW w \in net, Deliver(w), Expected(w)
      PROVE  AnswerFromAskedNode'
  <2>1. /\ onResponse' = [onResponse EXCEPT ![w.uuid] = onResponse[w.uuid] \cup {w}]
        /\ UNCHANGED <<request, handled>>
    BY <1>4 DEF Deliver, TakeResponse, user
  <2>2. w \in Wire /\ w.uuid \in Req /\ Sent(w.uuid) /\ w.dir \in {"ask", "resp"}
    BY WireUuid DEF IInv, TypeOK, MessageInv, Wire
  <2>3. Waiting(w.uuid) /\ w.to = request[w.uuid].from
    BY <1>4, <2>2 DEF Expected, IInv, PendingTracked
  <2>4. w.dir = "resp"
    <3>1. request[w.uuid].from \notin request[w.uuid].to
      BY <2>2 DEF WireInv, AskInv, ToOtherNodes
    <3> QED
      BY <2>2, <2>3, <3>1 DEF WireInv, AskInv
  <2>5. AnswersAsk(w)
    BY <2>3, <2>4 DEF WireInv, AnswerInv
  <2>6. \A q \in Req : \A v \in onResponse'[q] :
          v \in onResponse[q] \/ (v = w /\ q = w.uuid)
    BY <2>1, <2>2 DEF IInv, TypeOK
  <2> QED
    BY <2>1, <2>4, <2>5, <2>6 DEF AnswerFromAskedNode, AnswersAsk
<1>5. ASSUME NEW w \in net, Deliver(w), ~Expected(w)
      PROVE  AnswerFromAskedNode'
  BY <1>5, <1>1 DEF Deliver, HandleData, user
<1>6. ASSUME \/ \E n \in Node, v \in {0, 1} : UpdateHeaderOpts(n, v)
             \/ \E w \in sending : Transmit(w) \/ FailSend(w)
             \/ \E w \in net : Lose(w)
             \/ \E c \in completions : SendCallback(c)
             \/ \E w \in handled : Respond(w) \/ RespondThrows(w)
             \/ \E r \in Req : Timeout(r) \/ Expire(r)
             \/ UNCHANGED vars
      PROVE  AnswerFromAskedNode'
  <2>1. UNCHANGED <<request, onResponse, handled>>
    BY <1>6 DEF UpdateHeaderOpts, Transmit, FailSend, Lose, SendCallback, Respond,
                RespondThrows, Timeout, Expire, vars, user, calls, native
  <2> QED
    BY <2>1, <1>1
<1> QED
  BY <1>3, <1>4, <1>5, <1>6 DEF Next

(* If no node sends requests to itself, what extractUUIDHandleData takes   *)
(* for the response is a response, from a node that was asked and has      *)
(* handled the request; the requester's port kept along a chain of         *)
(* respond calls never brings one from elsewhere while it waits.           *)
THEOREM RpcAnswerFromAskedNode == ToOtherNodes => (Spec => []AnswerFromAskedNode)
<1>1. Init => AnswerFromAskedNode
  BY DEF Init, AnswerFromAskedNode
<1> SUFFICES ASSUME ToOtherNodes PROVE Spec => []AnswerFromAskedNode
  OBVIOUS
<1>2. IInv /\ WireInv /\ AnswerFromAskedNode /\ [Next]_vars => AnswerFromAskedNode'
  BY AnswerFromAskedNodeStep
<1> QED
  BY <1>1, <1>2, RpcInvariant, RpcWireInvariant, PTL DEF Spec
=============================================================================
