---------------------------- MODULE SenderProofs ----------------------------
(***************************************************************************)
(* For every set of messages and addresses, either kind of cache and every *)
(* capacity: the sender's state is well typed, a connection's socket is    *)
(* used by one task at a time and never after its shutdown has begun, no   *)
(* stream is lost, and open streams are bounded by the cache's capacity    *)
(* and the sends under way.                                                *)
(***************************************************************************)
EXTENDS Sender, FiniteSetTheorems, SequenceTheorems, TLAPS

(* A message waits in the channel at most once, and only while queued.     *)
QueueInv ==
  /\ \A i \in DOMAIN send_channel : pc[send_channel[i]] = "queued"
  /\ \A i, j \in DOMAIN send_channel : send_channel[i] = send_channel[j] => i = j

(* The LruCache's list has exactly the cached addresses, each once.        *)
LruInv ==
  /\ \A i, j \in DOMAIN recency : recency[i] = recency[j] => i = j
  /\ UseLru => \A a \in Addr : cache[a] # None <=> \E i \in DOMAIN recency : recency[i] = a

(* What a task's program counter says of the connection it holds.          *)
TaskInv ==
  \A m \in Msg :
    /\ pc[m] = "idle" <=> dest[m] = None
    /\ held[m] = None <=> pc[m] \in {"idle", "queued", "done"}
    /\ pc[m] \in Critical => lock[held[m]] = m
    /\ pc[m] \in {"len", "body"} => socket[held[m]] # None
    /\ pc[m] = "connect" => socket[held[m]] = None

(* A lock is held by a task inside its critical section.                   *)
LockInv ==
  \A c \in Msg : lock[c] # None => held[lock[c]] = c /\ pc[lock[c]] \in Critical

(* A socket belongs to one reachable connection and is not shutting down.  *)
SocketInv ==
  \A c \in Msg : socket[c] # None =>
    /\ c \in Referenced(cache, held)
    /\ stream[socket[c]] \in {"open", "broken"}
    /\ \A d \in Msg : socket[d] = socket[c] => d = c

(* A live stream is the socket of some connection.                         *)
LeakInv ==
  \A s \in Stream : stream[s] \in {"open", "broken"} => \E c \in Msg : socket[c] = s

(* Connections and streams that are yet to be made do not exist.           *)
FreshInv ==
  \A m \in Msg :
    /\ pc[m] \in {"idle", "queued"} => m \notin Referenced(cache, held)
    /\ pc[m] \in {"idle", "queued", "lock"} =>
         attempt[m] = 1 /\ stream[<<m, 1>>] = "unused"
    /\ pc[m] = "connect" => stream[<<m, attempt[m]>>] = "unused"
    /\ attempt[m] = 1 => stream[<<m, 2>>] = "unused"

IInv ==
  /\ TypeOK
  /\ QueueInv
  /\ LruInv
  /\ TaskInv
  /\ LockInv
  /\ SocketInv
  /\ LeakInv
  /\ FreshInv

-----------------------------------------------------------------------------
(* The invariant holds when the sender starts.                             *)
LEMMA InitIInv == Init => IInv
  BY SenderAssumption
  DEF Init, IInv, TypeOK, QueueInv, LruInv, TaskInv, LockInv, SocketInv, LeakInv,
      FreshInv, PC, Results, States, Critical, Referenced, Stream

(* A call of send queues a message that had never been seen.               *)
LEMMA SendIInv ==
  ASSUME IInv, NEW m \in Msg, NEW a \in Addr, Send(m, a)
  PROVE  IInv'
<1> USE SenderAssumption DEF IInv
<1>1. /\ pc[m] = "idle"
      /\ dest' = [dest EXCEPT ![m] = a]
      /\ pc' = [pc EXCEPT ![m] = "queued"]
      /\ send_channel' = Append(send_channel, m)
      /\ UNCHANGED <<evict_channel, running, cache, recency, attempt, result, held,
                     lock, socket, stream, wire>>
  BY DEF Send
<1>2. TypeOK'
  BY <1>1 DEF TypeOK, PC
<1>3. QueueInv'
  BY <1>1 DEF TypeOK, QueueInv
<1>4. LruInv'
  BY <1>1 DEF LruInv
<1>5. TaskInv'
  BY <1>1 DEF TypeOK, TaskInv, Critical
<1>6. LockInv'
  BY <1>1 DEF TypeOK, LockInv, Critical
<1>7. SocketInv' /\ LeakInv'
  BY <1>1 DEF SocketInv, LeakInv, Referenced
<1>8. FreshInv'
  <2>1. Referenced(cache, held)' = Referenced(cache, held)
    BY <1>1 DEF Referenced
  <2>2. \A k \in Msg : pc'[k] = pc[k] \/ (k = m /\ pc'[k] = "queued")
    BY <1>1 DEF TypeOK
  <2> QED
    BY <1>1, <2>1, <2>2 DEF FreshInv
<1> QED
  BY <1>2, <1>3, <1>4, <1>5, <1>6, <1>7, <1>8

(* multi_send queues two.                                                  *)
LEMMA MultiSendIInv ==
  ASSUME IInv, NEW m1 \in Msg, NEW a1 \in Addr, NEW m2 \in Msg, NEW a2 \in Addr,
         MultiSend(m1, a1, m2, a2)
  PROVE  IInv'
<1> USE SenderAssumption DEF IInv
<1>1. /\ m1 # m2 /\ pc[m1] = "idle" /\ pc[m2] = "idle"
      /\ dest' = [dest EXCEPT ![m1] = a1, ![m2] = a2]
      /\ pc' = [pc EXCEPT ![m1] = "queued", ![m2] = "queued"]
      /\ send_channel' = Append(Append(send_channel, m1), m2)
      /\ UNCHANGED <<evict_channel, running, cache, recency, attempt, result, held,
                     lock, socket, stream, wire>>
  BY DEF MultiSend
<1>a. \A k \in Msg : \/ k \notin {m1, m2} /\ pc'[k] = pc[k] /\ dest'[k] = dest[k]
                     \/ k \in {m1, m2} /\ pc'[k] = "queued" /\ dest'[k] \in Addr
  BY <1>1 DEF TypeOK
<1>2. TypeOK'
  <2>1. send_channel' \in Seq(Msg)
    BY <1>1 DEF TypeOK
  <2>2. pc' \in [Msg -> PC] /\ dest' \in [Msg -> Addr \cup {None}]
    BY <1>1 DEF TypeOK, PC
  <2> QED
    BY <1>1, <2>1, <2>2 DEF TypeOK
<1>3. QueueInv'
  BY <1>1 DEF TypeOK, QueueInv
<1>4. LruInv'
  BY <1>1 DEF LruInv
<1>5. TaskInv'
  BY <1>1 DEF TypeOK, TaskInv, Critical
<1>6. LockInv'
  <2>1. lock' = lock /\ held' = held /\ pc[m1] = "idle" /\ pc[m2] = "idle"
    BY <1>1
  <2>2. \A c \in Msg : lock[c] \in Msg \cup {None}
    BY DEF TypeOK
  <2> QED
    BY <1>a, <2>1, <2>2 DEF LockInv, Critical
<1>7. SocketInv' /\ LeakInv'
  BY <1>1 DEF SocketInv, LeakInv, Referenced
<1>8. FreshInv'
  <2>1. Referenced(cache, held)' = Referenced(cache, held)
    BY <1>1 DEF Referenced
  <2> QED
    BY <1>1, <1>a, <2>1 DEF FreshInv
<1> QED
  BY <1>2, <1>3, <1>4, <1>5, <1>6, <1>7, <1>8

(* A request to evict only queues an address.                              *)
LEMMA EvictSocketIInv ==
  ASSUME IInv, NEW a \in Addr, EvictSocket(a)
  PROVE  IInv'
<1>1. /\ evict_channel' = Append(evict_channel, a)
      /\ UNCHANGED <<send_channel, running, dest, cache, recency, pc, attempt, result,
                     held, lock, socket, stream, wire>>
  BY DEF EvictSocket
<1>2. TypeOK'
  BY <1>1 DEF IInv, TypeOK
<1> QED
  BY <1>1, <1>2 DEF IInv, QueueInv, LruInv, TaskInv, LockInv, SocketInv, LeakInv,
                    FreshInv, Referenced

-----------------------------------------------------------------------------
(* Steps of the task of one message that is past the channel change        *)
(* neither the channel's nor the cache's part of the invariant.            *)
LEMMA TaskStep ==
  ASSUME IInv, NEW m \in Msg, pc[m] # "queued",
         \A k \in Msg \ {m} : pc'[k] = pc[k],
         UNCHANGED <<send_channel, cache, recency, held>>
  PROVE  /\ QueueInv'
         /\ LruInv'
         /\ Referenced(cache, held)' = Referenced(cache, held)
<1>1. QueueInv'
  BY DEF IInv, TypeOK, QueueInv
<1>2. LruInv'
  BY DEF IInv, LruInv
<1> QED
  BY <1>1, <1>2 DEF Referenced

(* Taking the mutex of the connection.                                     *)
LEMMA LockSocketIInv ==
  ASSUME IInv, NEW m \in Msg, LockSocket(m)
  PROVE  IInv'
<1> DEFINE p == IF socket[held[m]] = None THEN "connect" ELSE "len"
<1>1. /\ pc[m] = "lock"
      /\ lock[held[m]] = None
      /\ lock' = [lock EXCEPT ![held[m]] = m]
      /\ pc' = [pc EXCEPT ![m] = p]
      /\ UNCHANGED <<channels, dest, cache, recency, attempt, result, held,
                     socket, stream, wire>>
  BY DEF LockSocket
<1>2. held[m] \in Msg
  BY <1>1 DEF IInv, TypeOK, TaskInv
<1>3. TypeOK'
  BY <1>1, <1>2 DEF IInv, TypeOK, channels, PC
<1>4. QueueInv' /\ LruInv' /\ Referenced(cache, held)' = Referenced(cache, held)
  BY <1>1, TaskStep DEF IInv, TypeOK, channels
<1>5. TaskInv'
  BY <1>1, <1>2, SenderAssumption DEF IInv, TypeOK, TaskInv, LockInv, Critical
<1>6. LockInv'
  BY <1>1, <1>2, SenderAssumption DEF IInv, TypeOK, LockInv, Critical
<1>7. SocketInv' /\ LeakInv'
  BY <1>1, <1>4 DEF IInv, SocketInv, LeakInv
<1>8. FreshInv'
  BY <1>1, <1>4 DEF IInv, TypeOK, FreshInv
<1> QED
  BY <1>3, <1>4, <1>5, <1>6, <1>7, <1>8 DEF IInv

(* Connection::send returns: the mutex is free again.                      *)
LEMMA ReturnIInv ==
  ASSUME IInv, NEW m \in Msg, NEW r \in Results, Return(m, r), pc[m] \in Critical,
         UNCHANGED <<channels, dest, cache, recency, attempt, held, socket, stream>>,
         wire' \in [Stream -> Seq(Piece)]
  PROVE  IInv'
<1>1. /\ result' = [result EXCEPT ![m] = r]
      /\ lock' = [lock EXCEPT ![held[m]] = None]
      /\ pc' = [pc EXCEPT ![m] = "notify"]
      /\ UNCHANGED <<send_channel, evict_channel, running>>
  BY DEF Return, channels
<1>2. held[m] \in Msg /\ lock[held[m]] = m
  BY DEF IInv, TypeOK, TaskInv, Critical
<1>3. TypeOK'
  BY <1>1, <1>2 DEF IInv, TypeOK, PC
<1>4. QueueInv' /\ LruInv' /\ Referenced(cache, held)' = Referenced(cache, held)
  BY <1>1, TaskStep DEF IInv, TypeOK, Critical
<1>5. TaskInv'
  BY <1>1, <1>2, SenderAssumption DEF IInv, TypeOK, TaskInv, Critical
<1>6. LockInv'
  BY <1>1, <1>2, SenderAssumption DEF IInv, TypeOK, LockInv, Critical
<1>7. SocketInv' /\ LeakInv'
  BY <1>4 DEF IInv, SocketInv, LeakInv
<1>8. FreshInv'
  BY <1>1, <1>4 DEF IInv, TypeOK, FreshInv
<1> QED
  BY <1>3, <1>4, <1>5, <1>6, <1>7, <1>8 DEF IInv

(* Writing to the socket of the held connection keeps the wires typed.     *)
LEMMA WriteTyped ==
  ASSUME IInv, NEW m \in Msg, pc[m] \in {"len", "body"},
         NEW part \in {"len", "body", "fail"}, Write(m, part)
  PROVE  wire' \in [Stream -> Seq(Piece)]
<1>1. held[m] \in Msg /\ socket[held[m]] \in Stream
  BY DEF IInv, TypeOK, TaskInv
<1>2. [msg |-> m, part |-> part] \in Piece
  BY DEF Piece
<1> QED
  BY <1>1, <1>2 DEF IInv, TypeOK, Write

(* A fresh stream, of a name not used before, becomes the socket.          *)
LEMMA ConnectOkIInv ==
  ASSUME IInv, NEW m \in Msg, ConnectOk(m)
  PROVE  IInv'
<1> DEFINE s == <<m, attempt[m]>>
<1>1. /\ pc[m] = "connect"
      /\ socket' = [socket EXCEPT ![held[m]] = s]
      /\ stream' = [stream EXCEPT ![s] = "open"]
      /\ pc' = [pc EXCEPT ![m] = "len"]
      /\ UNCHANGED <<channels, dest, cache, recency, attempt, result, held, lock,
                     wire>>
  BY DEF ConnectOk
<1>2. /\ held[m] \in Msg
      /\ held[m] \in Referenced(cache, held)
      /\ s \in Stream
      /\ s # None
      /\ stream[s] = "unused"
      /\ socket[held[m]] = None
      /\ lock[held[m]] = m
  <2>1. held[m] \in Msg /\ socket[held[m]] = None /\ lock[held[m]] = m
    BY <1>1 DEF IInv, TypeOK, TaskInv, Critical
  <2>2. held[m] \in Referenced(cache, held)
    BY <2>1 DEF Referenced
  <2>3. s \in Stream /\ s # None
    BY SenderAssumption DEF IInv, TypeOK, Stream
  <2>4. stream[s] = "unused"
    BY <1>1 DEF IInv, FreshInv
  <2> QED
    BY <2>1, <2>2, <2>3, <2>4
<1>3. \A c \in Msg : socket[c] # s
  BY <1>2, SenderAssumption DEF IInv, TypeOK, SocketInv
<1>4. TypeOK'
  BY <1>1, <1>2 DEF IInv, TypeOK, channels, PC, States
<1>5. QueueInv' /\ LruInv' /\ Referenced(cache, held)' = Referenced(cache, held)
  BY <1>1, TaskStep DEF IInv, TypeOK, channels
<1>6. TaskInv'
  <2>1. \A k \in Msg \ {m} : pc[k] \in Critical => held[k] # held[m]
    BY <1>2 DEF IInv, TypeOK, TaskInv
  <2> QED
    BY <1>1, <1>2, <2>1 DEF IInv, TypeOK, TaskInv, Critical
<1>7. LockInv'
  BY <1>1 DEF IInv, TypeOK, LockInv, Critical
<1>8. SocketInv'
  BY <1>1, <1>2, <1>3, <1>5 DEF IInv, TypeOK, SocketInv
<1>9. LeakInv'
  <2> SUFFICES ASSUME NEW x \in Stream, stream'[x] \in {"open", "broken"}
               PROVE  \E c \in Msg : socket'[c] = x
    BY DEF LeakInv
  <2>1. CASE x = s
    BY <1>1, <1>2, <2>1 DEF IInv, TypeOK
  <2>2. CASE x # s
    <3>1. PICK c \in Msg : socket[c] = x
      BY <1>1, <2>2 DEF IInv, TypeOK, LeakInv
    <3>2. c # held[m]
      BY <1>2, <3>1, SenderAssumption
    <3> QED
      BY <1>1, <3>1, <3>2 DEF IInv, TypeOK
  <2> QED
    BY <2>1, <2>2
<1>10. FreshInv'
  <2> SUFFICES ASSUME NEW k \in Msg
               PROVE  /\ pc'[k] \in {"idle", "queued"} => k \notin Referenced(cache, held)'
                      /\ pc'[k] \in {"idle", "queued", "lock"} =>
                           attempt'[k] = 1 /\ stream'[<<k, 1>>] = "unused"
                      /\ pc'[k] = "connect" => stream'[<<k, attempt'[k]>>] = "unused"
                      /\ attempt'[k] = 1 => stream'[<<k, 2>>] = "unused"
    BY DEF FreshInv
  <2>1. CASE k = m
    BY <1>1, <1>2, <2>1 DEF IInv, TypeOK, FreshInv, Stream
  <2>2. CASE k # m
    <3>1. /\ pc'[k] = pc[k] /\ attempt'[k] = attempt[k]
          /\ \A i \in {1, 2} : stream'[<<k, i>>] = stream[<<k, i>>]
      BY <1>1, <1>2, <2>2 DEF IInv, TypeOK, Stream
    <3>2. attempt[k] \in {1, 2}
      BY DEF IInv, TypeOK
    <3> QED
      BY <1>5, <3>1, <3>2 DEF IInv, FreshInv
  <2> QED
    BY <2>1, <2>2
<1> QED
  BY <1>4, <1>5, <1>6, <1>7, <1>8, <1>9, <1>10 DEF IInv

(* A failed connect returns from send.                                     *)
LEMMA ConnectFailIInv ==
  ASSUME IInv, NEW m \in Msg, ConnectFail(m)
  PROVE  IInv'
  BY ReturnIInv DEF ConnectFail, IInv, TypeOK, Results, Critical

(* Writing the length moves only the task and the wire.                    *)
LEMMA WriteLenIInv ==
  ASSUME IInv, NEW m \in Msg, WriteLen(m)
  PROVE  IInv'
<1>1. /\ pc[m] = "len"
      /\ pc' = [pc EXCEPT ![m] = "body"]
      /\ UNCHANGED <<channels, dest, cache, recency, attempt, result, held, lock,
                     socket, stream>>
  BY DEF WriteLen
<1>2. wire' \in [Stream -> Seq(Piece)]
  BY WriteTyped DEF WriteLen
<1>3. TypeOK'
  BY <1>1, <1>2 DEF IInv, TypeOK, channels, PC
<1>4. QueueInv' /\ LruInv' /\ Referenced(cache, held)' = Referenced(cache, held)
  BY <1>1, TaskStep DEF IInv, TypeOK, channels
<1>5. TaskInv'
  BY <1>1 DEF IInv, TypeOK, TaskInv, Critical
<1>6. LockInv'
  BY <1>1 DEF IInv, TypeOK, LockInv, Critical
<1>7. SocketInv' /\ LeakInv'
  BY <1>1, <1>4 DEF IInv, SocketInv, LeakInv
<1>8. FreshInv'
  BY <1>1, <1>4 DEF IInv, TypeOK, FreshInv
<1> QED
  BY <1>3, <1>4, <1>5, <1>6, <1>7, <1>8 DEF IInv

(* Writing the body returns from send.                                     *)
LEMMA WriteBodyIInv ==
  ASSUME IInv, NEW m \in Msg, WriteBody(m)
  PROVE  IInv'
<1>1. wire' \in [Stream -> Seq(Piece)]
  BY WriteTyped DEF WriteBody
<1> QED
  BY <1>1, ReturnIInv DEF WriteBody, Results, Critical

(* The second failed write returns from send.                              *)
LEMMA WriteFailGiveUpIInv ==
  ASSUME IInv, NEW m \in Msg, WriteFailGiveUp(m)
  PROVE  IInv'
<1>1. wire' \in [Stream -> Seq(Piece)]
  BY WriteTyped DEF WriteFailGiveUp
<1> QED
  BY <1>1, ReturnIInv DEF WriteFailGiveUp, Results, Critical

(* The first failed write closes the stream and empties the socket.        *)
LEMMA WriteFailRetryIInv ==
  ASSUME IInv, NEW m \in Msg, WriteFailRetry(m)
  PROVE  IInv'
<1> DEFINE s == socket[held[m]]
<1>1. /\ pc[m] \in {"len", "body"}
      /\ attempt[m] = 1
      /\ stream' = [stream EXCEPT ![s] = "closed"]
      /\ socket' = [socket EXCEPT ![held[m]] = None]
      /\ attempt' = [attempt EXCEPT ![m] = 2]
      /\ pc' = [pc EXCEPT ![m] = "connect"]
      /\ UNCHANGED <<channels, dest, cache, recency, result, held, lock>>
  BY DEF WriteFailRetry
<1>2. /\ held[m] \in Msg
      /\ s \in Stream
      /\ stream[s] \in {"open", "broken"}
      /\ lock[held[m]] = m
      /\ \A c \in Msg \ {held[m]} : socket[c] # s
  <2>1. held[m] \in Msg /\ s # None /\ s \in Stream /\ lock[held[m]] = m
    BY <1>1 DEF IInv, TypeOK, TaskInv, Critical
  <2> QED
    BY <2>1 DEF IInv, SocketInv
<1>3. wire' \in [Stream -> Seq(Piece)]
  BY WriteTyped DEF WriteFailRetry
<1>4. TypeOK'
  BY <1>1, <1>2, <1>3 DEF IInv, TypeOK, channels, PC, States
<1>5. QueueInv' /\ LruInv' /\ Referenced(cache, held)' = Referenced(cache, held)
  BY <1>1, TaskStep DEF IInv, TypeOK, channels
<1>6. TaskInv'
  <2>1. \A k \in Msg \ {m} : pc[k] \in Critical => held[k] # held[m]
    BY <1>2 DEF IInv, TypeOK, TaskInv
  <2> QED
    BY <1>1, <1>2, <2>1 DEF IInv, TypeOK, TaskInv, Critical
<1>7. LockInv'
  BY <1>1 DEF IInv, TypeOK, LockInv, Critical
<1>8. SocketInv'
  BY <1>1, <1>2, <1>5 DEF IInv, TypeOK, SocketInv
<1>9. LeakInv'
  BY <1>1, <1>2 DEF IInv, TypeOK, LeakInv
<1>10. FreshInv'
  <2>1. \A x \in Stream : stream[x] = "unused" => stream'[x] = "unused"
    BY <1>1, <1>2 DEF IInv, TypeOK
  <2>2. \A k \in Msg : <<k, 1>> \in Stream /\ <<k, 2>> \in Stream /\ attempt[k] \in {1, 2}
    BY DEF Stream, IInv, TypeOK
  <2>3. \A k \in Msg : \/ k # m /\ pc'[k] = pc[k] /\ attempt'[k] = attempt[k]
                       \/ k = m /\ pc'[k] = "connect" /\ attempt'[k] = 2
    BY <1>1 DEF IInv, TypeOK
  <2>4. stream[<<m, 2>>] = "unused"
    BY <1>1 DEF IInv, FreshInv
  <2> SUFFICES ASSUME NEW k \in Msg
               PROVE  /\ pc'[k] \in {"idle", "queued"} => k \notin Referenced(cache, held)'
                      /\ pc'[k] \in {"idle", "queued", "lock"} =>
                           attempt'[k] = 1 /\ stream'[<<k, 1>>] = "unused"
                      /\ pc'[k] = "connect" => stream'[<<k, attempt'[k]>>] = "unused"
                      /\ attempt'[k] = 1 => stream'[<<k, 2>>] = "unused"
    BY DEF FreshInv
  <2>5. CASE k = m
    BY <2>1, <2>2, <2>3, <2>4, <2>5
  <2>6. CASE k # m
    BY <1>5, <2>1, <2>2, <2>3, <2>6 DEF IInv, FreshInv
  <2> QED
    BY <2>5, <2>6
<1> QED
  BY <1>4, <1>5, <1>6, <1>7, <1>8, <1>9, <1>10 DEF IInv

(* Notifying the caller moves only the task.                               *)
LEMMA NotifyIInv ==
  ASSUME IInv, NEW m \in Msg, Notify(m)
  PROVE  IInv'
<1>1. /\ pc[m] = "notify"
      /\ pc' = [pc EXCEPT ![m] = "drop"]
      /\ UNCHANGED <<channels, dest, cache, recency, attempt, result, held, lock,
                     socket, stream, wire>>
  BY DEF Notify
<1>2. TypeOK'
  BY <1>1 DEF IInv, TypeOK, channels, PC
<1>3. QueueInv' /\ LruInv' /\ Referenced(cache, held)' = Referenced(cache, held)
  BY <1>1, TaskStep DEF IInv, TypeOK, channels
<1>4. TaskInv'
  BY <1>1 DEF IInv, TypeOK, TaskInv, Critical
<1>5. LockInv'
  BY <1>1 DEF IInv, TypeOK, LockInv, Critical
<1>6. SocketInv' /\ LeakInv'
  BY <1>1, <1>3 DEF IInv, SocketInv, LeakInv
<1>7. FreshInv'
  BY <1>1, <1>3 DEF IInv, TypeOK, FreshInv
<1> QED
  BY <1>2, <1>3, <1>4, <1>5, <1>6, <1>7 DEF IInv

-----------------------------------------------------------------------------
(* A stream that changes among the live states, or among those that are    *)
(* not, is no concern of the tasks.                                        *)
LEMMA StreamStep ==
  ASSUME IInv, NEW s \in Stream, NEW x \in States \ {"unused"},
         stream[s] # "unused",
         stream' = [stream EXCEPT ![s] = x],
         stream[s] \in {"open", "broken"} <=> x \in {"open", "broken"},
         UNCHANGED <<channels, dest, cache, recency, tasks, held, lock, socket, wire>>
  PROVE  IInv'
<1>1. TypeOK'
  BY DEF IInv, TypeOK, channels, tasks
<1>2. QueueInv' /\ LruInv' /\ TaskInv' /\ LockInv'
  BY DEF IInv, QueueInv, LruInv, TaskInv, LockInv, channels, tasks
<1>3. Referenced(cache, held)' = Referenced(cache, held)
  BY DEF Referenced
<1>4. \A y \in Stream : /\ stream'[y] = "unused" <=> stream[y] = "unused"
                        /\ stream'[y] \in {"open", "broken"}
                             <=> stream[y] \in {"open", "broken"}
  BY DEF IInv, TypeOK
<1>5. SocketInv'
  BY <1>3, <1>4 DEF IInv, TypeOK, SocketInv
<1>6. LeakInv'
  BY <1>4 DEF IInv, LeakInv
<1>7. FreshInv'
  <2>1. \A k \in Msg : <<k, 1>> \in Stream /\ <<k, 2>> \in Stream /\ attempt[k] \in {1, 2}
    BY DEF Stream, IInv, TypeOK
  <2>2. pc' = pc /\ attempt' = attempt
    BY DEF tasks
  <2> QED
    BY <1>3, <1>4, <2>1, <2>2 DEF IInv, FreshInv
<1> QED
  BY <1>1, <1>2, <1>5, <1>6, <1>7 DEF IInv

(* The shutdown of a dropped stream ends: no socket is that stream.        *)
LEMMA ShutdownStreamIInv ==
  ASSUME IInv, NEW s \in Stream, ShutdownStream(s)
  PROVE  IInv'
  BY StreamStep DEF ShutdownStream, States

(* A stream that breaks stays the socket of its connection.                *)
LEMMA BreakIInv ==
  ASSUME IInv, NEW s \in Stream, Break(s)
  PROVE  IInv'
  BY StreamStep DEF Break, States

-----------------------------------------------------------------------------
(* Removing an address from the LruCache's list.                           *)
LEMMA WithoutFacts ==
  ASSUME IInv, NEW a \in Addr
  PROVE  /\ Without(a) \in Seq(Addr)
         /\ \A i, j \in DOMAIN Without(a) : Without(a)[i] = Without(a)[j] => i = j
         /\ \A b \in Addr : (\E i \in DOMAIN Without(a) : Without(a)[i] = b)
                             <=> b # a /\ \E i \in DOMAIN recency : recency[i] = b
<1>1. /\ recency \in Seq(Addr)
      /\ \A i, j \in DOMAIN recency : recency[i] = recency[j] => i = j
  BY DEF IInv, TypeOK, LruInv
<1>2. CASE \E i \in DOMAIN recency : recency[i] = a
  <2>1. PICK n \in DOMAIN recency :
          /\ recency[n] = a
          /\ Without(a) = SubSeq(recency, 1, n - 1) \o SubSeq(recency, n + 1, Len(recency))
    BY <1>2 DEF Without, RemoveAt
  <2>2. n \in 1 .. Len(recency)
    BY <1>1, <2>1
  <2> DEFINE s1 == SubSeq(recency, 1, n - 1)
             s2 == SubSeq(recency, n + 1, Len(recency))
  <2>3. /\ s1 \in Seq(Addr) /\ Len(s1) = n - 1
        /\ \A i \in 1 .. n - 1 : s1[i] = recency[i]
    BY <1>1, <2>2, SubSeqProperties
  <2>4. /\ s2 \in Seq(Addr) /\ Len(s2) = Len(recency) - n
        /\ \A i \in 1 .. Len(recency) - n : s2[i] = recency[n + i]
    BY <1>1, <2>2, SubSeqProperties
  <2> HIDE DEF s1, s2
  <2>5. /\ s1 \o s2 \in Seq(Addr)
        /\ Len(s1 \o s2) = Len(recency) - 1
        /\ \A i \in 1 .. Len(recency) - 1 :
             (s1 \o s2)[i] = IF i < n THEN recency[i] ELSE recency[i + 1]
    <3>1. \A i \in 1 .. Len(s1) + Len(s2) :
             (s1 \o s2)[i] = IF i <= Len(s1) THEN s1[i] ELSE s2[i - Len(s1)]
      BY <2>3, <2>4, ConcatProperties
    <3>2. s1 \o s2 \in Seq(Addr) /\ Len(s1 \o s2) = Len(s1) + Len(s2)
      BY <2>3, <2>4, ConcatProperties
    <3>3. Len(s1) + Len(s2) = Len(recency) - 1
      BY <1>1, <2>2, <2>3, <2>4
    <3>4. ASSUME NEW i \in 1 .. Len(recency) - 1
          PROVE  (s1 \o s2)[i] = IF i < n THEN recency[i] ELSE recency[i + 1]
      <4>1. (s1 \o s2)[i] = IF i <= n - 1 THEN s1[i] ELSE s2[i - (n - 1)]
        BY <2>3, <3>1, <3>3
      <4>2. CASE i < n
        BY <1>1, <2>2, <2>3, <4>1, <4>2
      <4>3. CASE i >= n
        <5>1. i - (n - 1) \in 1 .. Len(recency) - n
          BY <1>1, <2>2, <4>3
        <5>2. s2[i - (n - 1)] = recency[n + (i - (n - 1))]
          BY <2>4, <5>1
        <5>3. n + (i - (n - 1)) = i + 1
          BY <1>1, <2>2
        <5> QED
          BY <1>1, <2>2, <4>1, <4>3, <5>2, <5>3
      <4>4. i < n \/ i >= n
        <5>1. i \in Int /\ n \in Int
          BY <1>1, <2>2
        <5> QED
          BY <5>1
      <4> QED
        BY <4>2, <4>3, <4>4
    <3> QED
      BY <3>2, <3>3, <3>4
  <2>6. Without(a) = s1 \o s2
    BY <2>1 DEF s1, s2
  <2> DEFINE w == Without(a)
  <2>7. /\ w \in Seq(Addr)
        /\ Len(w) = Len(recency) - 1
        /\ \A i \in 1 .. Len(recency) - 1 :
             w[i] = IF i < n THEN recency[i] ELSE recency[i + 1]
    BY <2>5, <2>6
  <2> HIDE DEF w
  <2> DEFINE g(i) == IF i < n THEN i ELSE i + 1
  <2>b. \A i \in DOMAIN w : /\ i \in 1 .. Len(recency) - 1
                            /\ g(i) \in DOMAIN recency
                            /\ g(i) # n
                            /\ w[i] = recency[g(i)]
    BY <1>1, <2>2, <2>7
  <2>8. \A i, j \in DOMAIN w : w[i] = w[j] => i = j
    <3> SUFFICES ASSUME NEW i \in DOMAIN w, NEW j \in DOMAIN w, w[i] = w[j]
                 PROVE  i = j
      OBVIOUS
    <3>1. g(i) = g(j)
      BY <1>1, <2>b
    <3>2. i \in Int /\ j \in Int /\ n \in Int
      BY <1>1, <2>2, <2>b
    <3> QED
      BY <3>1, <3>2
  <2>9. ASSUME NEW b \in Addr
        PROVE  (\E i \in DOMAIN w : w[i] = b)
                 <=> b # a /\ \E i \in DOMAIN recency : recency[i] = b
    <3>1. ASSUME NEW i \in DOMAIN w, w[i] = b
          PROVE  b # a /\ \E j \in DOMAIN recency : recency[j] = b
      <4>1. /\ g(i) \in DOMAIN recency /\ g(i) # n /\ recency[g(i)] = b
        BY <2>b, <3>1
      <4> QED
        BY <1>1, <2>1, <4>1
    <3>2. ASSUME b # a, NEW j \in DOMAIN recency, recency[j] = b
          PROVE  \E i \in DOMAIN w : w[i] = b
      <4>1. CASE j < n
        BY <1>1, <2>2, <2>7, <3>2, <4>1
      <4>2. CASE j > n
        <5>1. j - 1 \in DOMAIN w /\ w[j - 1] = recency[j]
          BY <1>1, <2>2, <2>7, <4>2
        <5> QED
          BY <3>2, <5>1
      <4> QED
        BY <1>1, <2>1, <2>2, <3>2, <4>1, <4>2
    <3> QED
      BY <3>1, <3>2
  <2> QED
    BY <2>7, <2>8, <2>9 DEF w
<1>3. CASE ~ \E i \in DOMAIN recency : recency[i] = a
  BY <1>1, <1>3 DEF Without
<1> QED
  BY <1>2, <1>3

(* Moving references: connections that keep an Arc keep their socket, and  *)
(* only the streams of connections that lose their last one begin to shut  *)
(* down.                                                                   *)
LEMMA ReferencesStep ==
  ASSUME IInv,
         NEW ca \in [Addr -> Msg \cup {None}], NEW he \in [Msg -> Msg \cup {None}],
         SetReferences(ca, he)
  PROVE  /\ socket' \in [Msg -> Stream \cup {None}]
         /\ stream' \in [Stream -> States]
         /\ \A c \in Referenced(ca, he) : socket'[c] = socket[c]
         /\ \A s \in Stream : stream[s] = "unused" => stream'[s] = "unused"
         /\ SocketInv'
         /\ LeakInv'
<1> DEFINE dropped == Referenced(cache, held) \ Referenced(ca, he)
<1>1. /\ cache' = ca
      /\ held' = he
      /\ socket' = [c \in Msg |-> IF c \in dropped THEN None ELSE socket[c]]
      /\ stream' = [s \in Stream |-> IF \E c \in dropped : socket[c] = s
                                     THEN "closing" ELSE stream[s]]
  BY DEF SetReferences
<1>2. Referenced(cache, held)' = Referenced(ca, he)
  BY <1>1 DEF Referenced
<1>3. dropped \subseteq Msg /\ Referenced(ca, he) \subseteq Msg
  BY DEF Referenced
<1>4. socket' \in [Msg -> Stream \cup {None}]
  BY <1>1 DEF IInv, TypeOK
<1>5. stream' \in [Stream -> States]
  BY <1>1 DEF IInv, TypeOK, States
<1> HIDE DEF dropped
<1>6. \A c \in Referenced(ca, he) : socket'[c] = socket[c]
  BY <1>1, <1>3 DEF dropped
<1>7. \A s \in Stream : stream[s] = "unused" => stream'[s] = "unused"
  <2> SUFFICES ASSUME NEW s \in Stream, stream[s] = "unused"
               PROVE  \A c \in dropped : socket[c] # s
    BY <1>1
  <2> QED
    BY <1>3, SenderAssumption DEF IInv, SocketInv
<1>8. SocketInv'
  <2> SUFFICES ASSUME NEW c \in Msg, socket'[c] # None
               PROVE  /\ c \in Referenced(ca, he)
                      /\ stream'[socket'[c]] \in {"open", "broken"}
                      /\ \A d \in Msg : socket'[d] = socket'[c] => d = c
    BY <1>2 DEF SocketInv
  <2>1. c \notin dropped /\ socket'[c] = socket[c] /\ socket[c] \in Stream
    BY <1>1 DEF IInv, TypeOK
  <2>2. c \in Referenced(ca, he)
    BY <2>1 DEF dropped, IInv, SocketInv
  <2>3. \A d \in Msg : socket[d] = socket[c] => d = c
    BY <2>1, SenderAssumption DEF IInv, SocketInv
  <2>4. stream'[socket[c]] = stream[socket[c]]
    BY <1>1, <1>3, <2>1, <2>3
  <2>5. stream[socket[c]] \in {"open", "broken"}
    BY <2>1, SenderAssumption DEF IInv, SocketInv
  <2>6. \A d \in Msg : socket'[d] = socket[c] => socket[d] = socket[c]
    BY <1>1, <2>1, SenderAssumption
  <2> QED
    BY <2>1, <2>2, <2>3, <2>4, <2>5, <2>6
<1>9. LeakInv'
  <2> SUFFICES ASSUME NEW s \in Stream, stream'[s] \in {"open", "broken"}
               PROVE  \E c \in Msg : socket'[c] = s
    BY DEF LeakInv
  <2>1. /\ stream[s] \in {"open", "broken"}
        /\ \A c \in dropped : socket[c] # s
    BY <1>1
  <2>2. PICK c \in Msg : socket[c] = s
    BY <2>1 DEF IInv, LeakInv
  <2> QED
    BY <1>1, <2>1, <2>2
<1> QED
  BY <1>4, <1>5, <1>6, <1>7, <1>8, <1>9

(* Moving references makes no stream, and no connection but the one of a   *)
(* message that is being dispatched.                                       *)
LEMMA FreshStep ==
  ASSUME IInv, attempt' = attempt,
         \A k \in Msg : \/ pc'[k] = pc[k]
                        \/ pc[k] = "queued" /\ pc'[k] = "lock"
                        \/ pc'[k] = "done",
         \A k \in Msg : pc'[k] \in {"idle", "queued"} => k \notin Referenced(cache, held)',
         \A s \in Stream : stream[s] = "unused" => stream'[s] = "unused"
  PROVE  FreshInv'
<1>1. \A k \in Msg : <<k, 1>> \in Stream /\ <<k, 2>> \in Stream /\ attempt[k] \in {1, 2}
  BY DEF Stream, IInv, TypeOK
<1> SUFFICES ASSUME NEW k \in Msg
             PROVE  /\ pc'[k] \in {"idle", "queued"} => k \notin Referenced(cache, held)'
                    /\ pc'[k] \in {"idle", "queued", "lock"} =>
                         attempt'[k] = 1 /\ stream'[<<k, 1>>] = "unused"
                    /\ pc'[k] = "connect" => stream'[<<k, attempt'[k]>>] = "unused"
                    /\ attempt'[k] = 1 => stream'[<<k, 2>>] = "unused"
  BY DEF FreshInv
<1>2. pc'[k] \in {"idle", "queued", "lock"} =>
        attempt'[k] = 1 /\ stream'[<<k, 1>>] = "unused"
  BY <1>1 DEF IInv, FreshInv
<1>3. pc'[k] = "connect" => stream'[<<k, attempt'[k]>>] = "unused"
  BY <1>1 DEF IInv, FreshInv
<1>4. attempt'[k] = 1 => stream'[<<k, 2>>] = "unused"
  BY <1>1 DEF IInv, FreshInv
<1> QED
  BY <1>2, <1>3, <1>4

(* The task ends and gives its reference back.                             *)
LEMMA DropConnectionIInv ==
  ASSUME IInv, NEW m \in Msg, DropConnection(m)
  PROVE  IInv'
<1> DEFINE he == [held EXCEPT ![m] = None]
<1>1. /\ pc[m] = "drop"
      /\ SetReferences(cache, he)
      /\ cache' = cache
      /\ held' = he
      /\ pc' = [pc EXCEPT ![m] = "done"]
      /\ UNCHANGED <<channels, dest, recency, attempt, result, lock, wire>>
  BY DEF DropConnection, SetReferences
<1>2. cache \in [Addr -> Msg \cup {None}] /\ he \in [Msg -> Msg \cup {None}]
  BY DEF IInv, TypeOK
<1>3. /\ socket' \in [Msg -> Stream \cup {None}]
      /\ stream' \in [Stream -> States]
      /\ \A c \in Referenced(cache, he) : socket'[c] = socket[c]
      /\ \A s \in Stream : stream[s] = "unused" => stream'[s] = "unused"
      /\ SocketInv' /\ LeakInv'
  BY <1>1, <1>2, ReferencesStep
<1>4. \A k \in Msg : \/ k # m /\ pc'[k] = pc[k] /\ held'[k] = held[k]
                     \/ k = m /\ pc'[k] = "done" /\ held'[k] = None
  BY <1>1 DEF IInv, TypeOK
<1>5. TypeOK'
  BY <1>1, <1>2, <1>3 DEF IInv, TypeOK, channels, PC
<1>6. QueueInv'
  BY <1>1, <1>4 DEF IInv, TypeOK, QueueInv, channels
<1>7. LruInv'
  BY <1>1 DEF IInv, LruInv
<1>8. TaskInv'
  <2>1. \A k \in Msg : pc'[k] \in Critical =>
          /\ k # m
          /\ held[k] \in Referenced(cache, he)
          /\ socket'[held[k]] = socket[held[k]]
    <3> SUFFICES ASSUME NEW k \in Msg, pc'[k] \in Critical
                 PROVE  k # m /\ held[k] \in Referenced(cache, he)
      BY <1>3
    <3>1. k # m /\ held[k] \in Msg /\ he[k] = held[k]
      BY <1>1, <1>4 DEF IInv, TypeOK, TaskInv, Critical
    <3> QED
      BY <3>1 DEF Referenced
  <2> QED
    BY <1>1, <1>4, <2>1 DEF IInv, TaskInv, Critical
<1>9. LockInv'
  <2>1. \A c \in Msg : lock[c] \in Msg \cup {None}
    BY DEF IInv, TypeOK
  <2> QED
    BY <1>1, <1>4, <2>1 DEF IInv, LockInv, Critical
<1>10. FreshInv'
  <2>1. Referenced(cache, held)' \subseteq Referenced(cache, held)
    BY <1>1, <1>4, SenderAssumption DEF Referenced
  <2>2. \A k \in Msg : pc'[k] \in {"idle", "queued"} => k \notin Referenced(cache, held)'
    BY <1>4, <2>1 DEF IInv, FreshInv
  <2> QED
    BY <1>1, <1>3, <1>4, <2>2, FreshStep
<1> QED
  BY <1>3, <1>5, <1>6, <1>7, <1>8, <1>9, <1>10 DEF IInv

(* The evictor removes an entry.                                           *)
LEMMA EvictorStepIInv ==
  ASSUME IInv, EvictorStep
  PROVE  IInv'
<1> DEFINE a == Head(evict_channel)
           ca == [cache EXCEPT ![a] = None]
<1>1. /\ evict_channel # <<>>
      /\ SetReferences(ca, held)
      /\ cache' = ca
      /\ held' = held
      /\ recency' = Without(a)
      /\ evict_channel' = Tail(evict_channel)
      /\ UNCHANGED <<send_channel, running, dest, pc, attempt, result, lock, wire>>
  BY DEF EvictorStep, SetReferences
<1>2. a \in Addr /\ Tail(evict_channel) \in Seq(Addr)
  BY <1>1, HeadTailProperties DEF IInv, TypeOK
<1> HIDE DEF a
<1>3. ca \in [Addr -> Msg \cup {None}] /\ held \in [Msg -> Msg \cup {None}]
  BY <1>2 DEF IInv, TypeOK
<1>4. /\ socket' \in [Msg -> Stream \cup {None}]
      /\ stream' \in [Stream -> States]
      /\ \A c \in Referenced(ca, held) : socket'[c] = socket[c]
      /\ \A s \in Stream : stream[s] = "unused" => stream'[s] = "unused"
      /\ SocketInv' /\ LeakInv'
  BY <1>1, <1>3, ReferencesStep
<1>5. TypeOK'
  BY <1>1, <1>2, <1>3, <1>4, WithoutFacts DEF IInv, TypeOK
<1>6. QueueInv'
  BY <1>1 DEF IInv, QueueInv
<1>7. LruInv'
  <2>1. \A b \in Addr : cache'[b] # None <=> b # a /\ cache[b] # None
    BY <1>1, <1>2 DEF IInv, TypeOK
  <2>2. \A i, j \in DOMAIN recency' : recency'[i] = recency'[j] => i = j
    BY <1>1, <1>2, WithoutFacts
  <2>3. \A b \in Addr : (\E i \in DOMAIN recency' : recency'[i] = b)
                          <=> b # a /\ \E i \in DOMAIN recency : recency[i] = b
    BY <1>1, <1>2, WithoutFacts
  <2>4. UseLru => \A b \in Addr : cache[b] # None <=> \E i \in DOMAIN recency : recency[i] = b
    BY DEF IInv, LruInv
  <2>5. UseLru => \A b \in Addr : cache'[b] # None <=> \E i \in DOMAIN recency' : recency'[i] = b
    BY <2>1, <2>3, <2>4
  <2> QED
    BY <2>2, <2>5 DEF LruInv
<1>8. TaskInv'
  <2>1. \A k \in Msg : held[k] # None => socket'[held[k]] = socket[held[k]]
    <3> SUFFICES ASSUME NEW k \in Msg, held[k] # None
                 PROVE  held[k] \in Referenced(ca, held)
      BY <1>4
    <3> QED
      BY DEF Referenced, IInv, TypeOK
  <2> QED
    BY <1>1, <2>1 DEF IInv, TaskInv, Critical
<1>9. LockInv'
  BY <1>1 DEF IInv, LockInv
<1>10. FreshInv'
  <2>1. Referenced(cache, held)' \subseteq Referenced(cache, held)
    BY <1>1, <1>2, SenderAssumption DEF Referenced, IInv, TypeOK
  <2>2. \A k \in Msg : pc'[k] \in {"idle", "queued"} => k \notin Referenced(cache, held)'
    BY <1>1, <2>1 DEF IInv, FreshInv
  <2> QED
    BY <1>1, <1>4, <2>2, FreshStep
<1> QED
  BY <1>4, <1>5, <1>6, <1>7, <1>8, <1>9, <1>10 DEF IInv

(* The sender is collected: the channels are closed, nothing else changes. *)
LEMMA CollectIInv ==
  ASSUME IInv, Collect
  PROVE  IInv'
<1>1. /\ running' = running \ {"handle"}
      /\ UNCHANGED <<send_channel, evict_channel, dest, cache, recency, tasks, held,
                     lock, socket, stream, wire>>
  BY DEF Collect
<1>2. TypeOK'
  BY <1>1 DEF IInv, TypeOK, tasks
<1> QED
  BY <1>1, <1>2 DEF IInv, QueueInv, LruInv, TaskInv, LockInv, SocketInv, LeakInv,
                    FreshInv, Referenced, tasks

(* A loop ends; with the second one every entry of the cache goes, as if   *)
(* each had been evicted.                                                  *)
LEMMA EndLoopIInv ==
  ASSUME IInv, NEW l, NEW channel, EndLoop(l, channel)
  PROVE  IInv'
<1> DEFINE ca == [a \in Addr |-> None]
<1>1. /\ running' = running \ {l}
      /\ UNCHANGED <<send_channel, evict_channel, dest, pc, attempt, result, lock, wire>>
  BY DEF EndLoop, tasks
<1>2. running' \in SUBSET Parties
  BY <1>1 DEF IInv, TypeOK
<1>3. CASE UNCHANGED <<cache, recency, held, socket, stream>>
  <2>1. TypeOK'
    BY <1>1, <1>2, <1>3 DEF IInv, TypeOK
  <2> QED
    BY <1>1, <1>3, <2>1 DEF IInv, QueueInv, LruInv, TaskInv, LockInv, SocketInv,
                            LeakInv, FreshInv, Referenced
<1>4. CASE SetReferences(ca, held) /\ recency' = <<>>
  <2>1. cache' = ca /\ held' = held
    BY <1>4 DEF SetReferences
  <2>2. ca \in [Addr -> Msg \cup {None}] /\ held \in [Msg -> Msg \cup {None}]
    BY DEF IInv, TypeOK
  <2>3. /\ socket' \in [Msg -> Stream \cup {None}]
        /\ stream' \in [Stream -> States]
        /\ \A c \in Referenced(ca, held) : socket'[c] = socket[c]
        /\ \A s \in Stream : stream[s] = "unused" => stream'[s] = "unused"
        /\ SocketInv' /\ LeakInv'
    BY <1>4, <2>2, ReferencesStep
  <2>4. TypeOK'
    BY <1>1, <1>2, <1>4, <2>1, <2>2, <2>3 DEF IInv, TypeOK
  <2>5. QueueInv'
    BY <1>1 DEF IInv, QueueInv
  <2>6. LruInv'
    BY <1>4, <2>1 DEF LruInv
  <2>7. TaskInv'
    <3>1. \A k \in Msg : held[k] # None => socket'[held[k]] = socket[held[k]]
      <4> SUFFICES ASSUME NEW k \in Msg, held[k] # None
                   PROVE  held[k] \in Referenced(ca, held)
        BY <2>3
      <4> QED
        BY DEF Referenced, IInv, TypeOK
    <3> QED
      BY <1>1, <2>1, <3>1 DEF IInv, TaskInv, Critical
  <2>8. LockInv'
    BY <1>1, <2>1 DEF IInv, LockInv
  <2>9. FreshInv'
    <3>1. Referenced(cache, held)' \subseteq Referenced(cache, held)
      BY <2>1, SenderAssumption DEF Referenced
    <3>2. \A k \in Msg : pc'[k] \in {"idle", "queued"} => k \notin Referenced(cache, held)'
      BY <1>1, <3>1 DEF IInv, FreshInv
    <3> QED
      BY <1>1, <2>3, <3>2, FreshStep
  <2> QED
    BY <2>3, <2>4, <2>5, <2>6, <2>7, <2>8, <2>9 DEF IInv
<1> QED
  BY <1>3, <1>4 DEF EndLoop

(* What get_or_insert does to the cache: the address it is called for is   *)
(* cached afterwards, at most one other entry goes, and no connection      *)
(* appears but the one named after the message.                            *)
LEMMA GetOrInsertFacts ==
  ASSUME IInv, NEW m \in Msg, NEW a \in Addr
  PROVE  /\ GetOrInsert(m, a) \in [Addr -> Msg \cup {None}]
         /\ GetOrInsert(m, a)[a] \in Msg
         /\ \A b \in Addr : GetOrInsert(m, a)[b] \in {cache[b], m, None}
         /\ \A b \in Addr : GetOrInsert(m, a)[b] # None
                             <=> b = a \/ (cache[b] # None /\ b \notin Overflow(a))
<1>1. cache \in [Addr -> Msg \cup {None}] /\ None \notin Msg
  BY SenderAssumption DEF IInv, TypeOK
<1>2. cache[a] # None => Overflow(a) = {}
  BY DEF Overflow, Cached
<1>3. \A b \in Addr : GetOrInsert(m, a)[b] =
         IF b = a /\ cache[a] = None THEN m
         ELSE IF b \in Overflow(a) THEN None ELSE cache[b]
  BY DEF GetOrInsert
<1>4. a \in Overflow(a) => cache[a] = None
  BY <1>2
<1>5. GetOrInsert(m, a) \in [Addr -> Msg \cup {None}]
  <2>1. GetOrInsert(m, a) = [b \in Addr |-> GetOrInsert(m, a)[b]]
    BY DEF GetOrInsert
  <2>2. \A b \in Addr : GetOrInsert(m, a)[b] \in Msg \cup {None}
    BY <1>1, <1>3
  <2> QED
    BY <2>1, <2>2
<1> QED
  BY <1>1, <1>2, <1>3, <1>4, <1>5

(* A full LruCache has a least recently used entry to throw out.           *)
LEMMA OverflowFacts ==
  ASSUME IInv, NEW a \in Addr, Overflow(a) # {}
  PROVE  /\ UseLru
         /\ cache[a] = None
         /\ recency # <<>>
         /\ Overflow(a) = {Head(recency)}
<1>1. UseLru /\ a \notin Cached /\ Cardinality(Cached) >= LruSize
  BY DEF Overflow
<1>2. Cached # {}
  <2>1. Cardinality({}) = 0
    BY FS_EmptySet
  <2> QED
    BY <1>1, <2>1, SenderAssumption
<1>3. PICK b \in Addr : cache[b] # None
  BY <1>2 DEF Cached
<1>4. recency # <<>>
  BY <1>1, <1>3 DEF IInv, LruInv
<1>5. Head(recency) \in Addr
  BY <1>4, HeadTailProperties DEF IInv, TypeOK
<1> QED
  BY <1>1, <1>4, <1>5 DEF Overflow, Cached

(* The LruCache's list after get_or_insert: the address moves to its end,  *)
(* and an entry thrown out leaves its front.                               *)
LEMMA RecencyStep ==
  ASSUME IInv, NEW m \in Msg, NEW a \in Addr, UseLru,
         cache' = GetOrInsert(m, a),
         recency' = Append(IF Overflow(a) = {} THEN Without(a) ELSE Tail(recency), a)
  PROVE  recency' \in Seq(Addr) /\ LruInv'
<1> DEFINE w == IF Overflow(a) = {} THEN Without(a) ELSE Tail(recency)
<1>1. /\ recency \in Seq(Addr)
      /\ \A i, j \in DOMAIN recency : recency[i] = recency[j] => i = j
      /\ \A b \in Addr : cache[b] # None <=> \E i \in DOMAIN recency : recency[i] = b
  BY DEF IInv, TypeOK, LruInv
<1>2. /\ w \in Seq(Addr)
      /\ \A i, j \in DOMAIN w : w[i] = w[j] => i = j
      /\ \A b \in Addr : (\E i \in DOMAIN w : w[i] = b)
           <=> b # a /\ b \notin Overflow(a) /\ \E i \in DOMAIN recency : recency[i] = b
  <2>1. CASE Overflow(a) = {}
    BY <2>1, WithoutFacts
  <2>2. CASE Overflow(a) # {}
    <3>1. /\ cache[a] = None
          /\ recency # <<>>
          /\ Overflow(a) = {Head(recency)}
      BY <2>2, OverflowFacts
    <3> DEFINE v == Tail(recency)
    <3>2. /\ v \in Seq(Addr)
          /\ Len(v) = Len(recency) - 1
          /\ \A i \in 1 .. Len(v) : v[i] = recency[i + 1]
          /\ Len(recency) \in Nat \ {0}
      BY <1>1, <3>1, HeadTailProperties
    <3>3. Head(recency) = recency[1]
      BY <1>1, <3>1
    <3> HIDE DEF v
    <3>4. \A i \in DOMAIN v : /\ i \in 1 .. Len(recency) - 1
                              /\ i + 1 \in DOMAIN recency
                              /\ v[i] = recency[i + 1]
      BY <1>1, <3>2
    <3>5. ASSUME NEW i \in DOMAIN v, NEW j \in DOMAIN v, v[i] = v[j]
          PROVE  i = j
      <4>1. i + 1 = j + 1
        BY <1>1, <3>4, <3>5
      <4> QED
        BY <3>4, <4>1
    <3>6. ASSUME NEW b \in Addr
          PROVE  (\E i \in DOMAIN v : v[i] = b)
                   <=> b # a /\ b \notin Overflow(a) /\ \E i \in DOMAIN recency : recency[i] = b
      <4>1. ASSUME NEW i \in DOMAIN v, v[i] = b
            PROVE  b # a /\ b \notin Overflow(a) /\ \E j \in DOMAIN recency : recency[j] = b
        <5>1. i + 1 \in DOMAIN recency /\ recency[i + 1] = b
          BY <3>4, <4>1
        <5>2. b # recency[1]
          <6>1. 1 \in DOMAIN recency /\ i + 1 # 1
            BY <1>1, <3>2, <3>4
          <6> QED
            BY <1>1, <5>1, <6>1
        <5>3. b # a
          BY <1>1, <3>1, <5>1
        <5> QED
          BY <3>1, <3>3, <5>1, <5>2, <5>3
      <4>2. ASSUME b \notin Overflow(a), NEW j \in DOMAIN recency, recency[j] = b
            PROVE  \E i \in DOMAIN v : v[i] = b
        <5>1. j # 1
          BY <3>1, <3>3, <4>2
        <5>2. j - 1 \in DOMAIN v /\ v[j - 1] = recency[j]
          BY <1>1, <3>2, <5>1
        <5> QED
          BY <4>2, <5>2
      <4> QED
        BY <4>1, <4>2
    <3> QED
      BY <2>2, <3>2, <3>5, <3>6 DEF v
  <2> QED
    BY <2>1, <2>2
<1>3. recency' = Append(w, a)
  OBVIOUS
<1> HIDE DEF w
<1>4. /\ recency' \in Seq(Addr)
      /\ Len(recency') = Len(w) + 1
      /\ \A i \in 1 .. Len(w) : recency'[i] = w[i]
      /\ recency'[Len(w) + 1] = a
  <2>1. w \in Seq(Addr)
    BY <1>2
  <2>2. /\ Append(w, a) \in Seq(Addr)
        /\ Len(Append(w, a)) = Len(w) + 1
        /\ \A i \in 1 .. Len(w) : Append(w, a)[i] = w[i]
        /\ Append(w, a)[Len(w) + 1] = a
    BY ONLY <2>1, a \in Addr, AppendProperties
  <2> QED
    BY ONLY <1>3, <2>2
<1>5. /\ DOMAIN w = 1 .. Len(w) /\ Len(w) \in Nat
      /\ DOMAIN recency' = 1 .. Len(w) + 1
  BY <1>2, <1>4
<1>6. \A i, j \in DOMAIN recency' : recency'[i] = recency'[j] => i = j
  <2>1. \A i \in DOMAIN w : w[i] # a
    BY <1>2
  <2> QED
    BY <1>2, <1>4, <1>5, <2>1
<1>7. ASSUME NEW b \in Addr
      PROVE  cache'[b] # None <=> \E i \in DOMAIN recency' : recency'[i] = b
  <2>1. (\E i \in DOMAIN recency' : recency'[i] = b)
          <=> b = a \/ \E i \in DOMAIN w : w[i] = b
    <3>1. ASSUME NEW i \in DOMAIN recency', recency'[i] = b
          PROVE  b = a \/ \E j \in DOMAIN w : w[j] = b
      <4>1. i \in 1 .. Len(w) \/ i = Len(w) + 1
        BY <1>5
      <4> QED
        BY <1>4, <1>5, <3>1, <4>1
    <3>2. ASSUME NEW i \in DOMAIN w, w[i] = b
          PROVE  \E j \in DOMAIN recency' : recency'[j] = b
      <4>1. i \in DOMAIN recency' /\ recency'[i] = b
        BY <1>4, <1>5, <3>2
      <4> QED
        BY <4>1
    <3>3. Len(w) + 1 \in DOMAIN recency'
      BY <1>5
    <3> QED
      BY <1>4, <3>1, <3>2, <3>3
  <2>2. cache'[b] # None <=> b = a \/ (cache[b] # None /\ b \notin Overflow(a))
    BY GetOrInsertFacts
  <2>3. (\E i \in DOMAIN w : w[i] = b)
          <=> b # a /\ b \notin Overflow(a) /\ cache[b] # None
    BY <1>1, <1>2
  <2> QED
    BY <2>1, <2>2, <2>3
<1> QED
  BY <1>4, <1>6, <1>7 DEF LruInv

(* The sender task dispatches a message.                                   *)
LEMMA DispatchSendIInv ==
  ASSUME IInv, DispatchSend
  PROVE  IInv'
<1> DEFINE m  == Head(send_channel)
           a  == dest[m]
           ca == GetOrInsert(m, a)
           he == [held EXCEPT ![m] = ca[a]]
<1>1. /\ send_channel # <<>>
      /\ SetReferences(ca, he)
      /\ cache' = ca
      /\ held' = he
      /\ recency' = IF UseLru
                    THEN Append(IF Overflow(a) = {}
                                THEN Without(a) ELSE Tail(recency), a)
                    ELSE recency
      /\ pc' = [pc EXCEPT ![m] = "lock"]
      /\ send_channel' = Tail(send_channel)
      /\ UNCHANGED <<evict_channel, running, dest, attempt, result, lock, wire>>
  BY DEF DispatchSend, SetReferences
<1>2. /\ m \in Msg
      /\ m = send_channel[1]
      /\ 1 \in DOMAIN send_channel
      /\ Tail(send_channel) \in Seq(Msg)
      /\ Len(Tail(send_channel)) = Len(send_channel) - 1
      /\ \A i \in 1 .. Len(Tail(send_channel)) : Tail(send_channel)[i] = send_channel[i + 1]
  BY <1>1, HeadTailProperties DEF IInv, TypeOK
<1>3. pc[m] = "queued"
  BY <1>2 DEF IInv, QueueInv
<1> HIDE DEF m
<1>4. a \in Addr
  BY <1>2, <1>3 DEF IInv, TypeOK, TaskInv
<1> HIDE DEF a
<1>5. /\ ca \in [Addr -> Msg \cup {None}]
      /\ ca[a] \in Msg
      /\ \A b \in Addr : ca[b] \in {cache[b], m, None}
  BY <1>2, <1>4, GetOrInsertFacts
<1>6. LruInv' /\ recency' \in Seq(Addr)
  <2>1. CASE UseLru
    BY <1>1, <1>2, <1>4, <2>1, RecencyStep
  <2>2. CASE ~UseLru
    BY <1>1, <2>2 DEF IInv, LruInv, TypeOK
  <2> QED
    BY <2>1, <2>2
<1> HIDE DEF ca
<1>7. he \in [Msg -> Msg \cup {None}]
  BY <1>2, <1>5 DEF IInv, TypeOK
<1>8. \A k \in Msg : \/ k # m /\ pc'[k] = pc[k] /\ held'[k] = held[k]
                     \/ k = m /\ pc'[k] = "lock" /\ held'[k] = ca[a]
  BY <1>1, <1>2 DEF IInv, TypeOK
<1>9. /\ socket' \in [Msg -> Stream \cup {None}]
      /\ stream' \in [Stream -> States]
      /\ \A c \in Referenced(ca, he) : socket'[c] = socket[c]
      /\ \A s \in Stream : stream[s] = "unused" => stream'[s] = "unused"
      /\ SocketInv' /\ LeakInv'
  BY <1>1, <1>5, <1>7, ReferencesStep
<1>10. TypeOK'
  BY <1>1, <1>2, <1>5, <1>6, <1>7, <1>9 DEF IInv, TypeOK, PC
<1>11. QueueInv'
  <2>1. \A i \in DOMAIN send_channel' : /\ i + 1 \in DOMAIN send_channel
                                        /\ i \in Int
                                        /\ i + 1 # 1
                                        /\ send_channel'[i] = send_channel[i + 1]
    BY <1>1, <1>2 DEF IInv, TypeOK
  <2>2. \A i \in DOMAIN send_channel : send_channel[i] \in Msg
    BY DEF IInv, TypeOK
  <2>3. ASSUME NEW i \in DOMAIN send_channel'
        PROVE  pc'[send_channel'[i]] = "queued"
    <3>1. send_channel[i + 1] # m
      BY <1>2, <2>1 DEF IInv, QueueInv
    <3> QED
      BY <1>8, <2>1, <2>2, <3>1 DEF IInv, QueueInv
  <2>4. ASSUME NEW i \in DOMAIN send_channel', NEW j \in DOMAIN send_channel',
               send_channel'[i] = send_channel'[j]
        PROVE  i = j
    <3>1. i + 1 = j + 1
      BY <2>1, <2>4 DEF IInv, QueueInv
    <3> QED
      BY <2>1, <3>1
  <2> QED
    BY <2>3, <2>4 DEF QueueInv
<1>12. TaskInv'
  <2>1. \A k \in Msg : pc'[k] \in Critical =>
          /\ k # m
          /\ held[k] \in Referenced(ca, he)
          /\ socket'[held[k]] = socket[held[k]]
    <3> SUFFICES ASSUME NEW k \in Msg, pc'[k] \in Critical
                 PROVE  k # m /\ held[k] \in Referenced(ca, he)
      BY <1>9
    <3>1. k # m /\ held[k] \in Msg /\ he[k] = held[k]
      BY <1>1, <1>8 DEF IInv, TypeOK, TaskInv, Critical
    <3> QED
      BY <3>1 DEF Referenced
  <2>2. ca[a] # None
    BY <1>5, SenderAssumption
  <2>3. a # None
    BY <1>4, SenderAssumption
  <2> QED
    BY <1>1, <1>3, <1>8, <2>1, <2>2, <2>3 DEF IInv, TaskInv, Critical
<1>13. LockInv'
  <2>1. \A c \in Msg : lock[c] \in Msg \cup {None}
    BY DEF IInv, TypeOK
  <2> QED
    BY <1>1, <1>3, <1>8, <2>1 DEF IInv, LockInv, Critical
<1>14. FreshInv'
  <2>1. ASSUME NEW k \in Msg, pc'[k] \in {"idle", "queued"}
        PROVE  k \notin Referenced(cache, held)'
    <3>1. k # m /\ pc[k] \in {"idle", "queued"}
      BY <1>8, <2>1
    <3>2. k \notin Referenced(cache, held)
      BY <3>1 DEF IInv, FreshInv
    <3>3. k # None
      BY SenderAssumption
    <3>4. \A b \in Addr : ca[b] # k
      BY <1>5, <3>1, <3>2, <3>3 DEF Referenced
    <3>5. \A n \in Msg : held'[n] # k
      BY <1>4, <1>8, <3>2, <3>4 DEF Referenced
    <3> QED
      BY <1>1, <3>4, <3>5 DEF Referenced
  <2> QED
    BY <1>1, <1>3, <1>8, <1>9, <2>1, FreshStep
<1> QED
  BY <1>6, <1>9, <1>10, <1>11, <1>12, <1>13, <1>14 DEF IInv

-----------------------------------------------------------------------------
(* Every step keeps the invariant.                                         *)
LEMMA NextIInv == IInv /\ [Next]_vars => IInv'
<1>1. ASSUME IInv, UNCHANGED vars
      PROVE  IInv'
  BY <1>1 DEF IInv, TypeOK, QueueInv, LruInv, TaskInv, LockInv, SocketInv, LeakInv,
              FreshInv, Referenced, vars
<1>2. ASSUME IInv, NEW m \in Msg, Network(m) \/ Task(m)
      PROVE  IInv'
  BY <1>2, ConnectOkIInv, ConnectFailIInv, WriteLenIInv, WriteBodyIInv,
     WriteFailRetryIInv, WriteFailGiveUpIInv, LockSocketIInv, NotifyIInv,
     DropConnectionIInv DEF Network, Task
<1>3. ASSUME IInv, NEW s \in Stream, ShutdownStream(s) \/ Break(s)
      PROVE  IInv'
  BY <1>3, ShutdownStreamIInv, BreakIInv
<1> QED
  BY <1>1, <1>2, <1>3, SendIInv, MultiSendIInv, EvictSocketIInv, DispatchSendIInv,
     EvictorStepIInv, CollectIInv, EndLoopIInv DEF Next, LoopEnds

(* The invariant holds in every state of the sender.                       *)
LEMMA SenderIInv == Spec => []IInv
  BY InitIInv, NextIInv, PTL DEF Spec

(* The sender's state is well typed: no third attempt, no task without a   *)
(* connection, names of streams and connections never reused.              *)
THEOREM SenderTypeOK == Spec => []TypeOK
<1>1. IInv => TypeOK
  BY DEF IInv
<1> QED
  BY <1>1, SenderIInv, PTL

(* No task ever writes to a stream whose shutdown has begun, whatever is   *)
(* evicted or replaced in the cache (Drop for Connection).                 *)
THEOREM SenderNoUseAfterShutdown == Spec => []NoUseAfterShutdown
<1>1. IInv => NoUseAfterShutdown
  <2> SUFFICES ASSUME IInv, NEW m \in Msg, pc[m] \in {"len", "body"}
               PROVE  /\ socket[held[m]] # None
                      /\ stream[socket[held[m]]] \in {"open", "broken"}
    BY DEF NoUseAfterShutdown
  <2>1. held[m] \in Msg /\ socket[held[m]] # None
    BY DEF IInv, TypeOK, TaskInv
  <2> QED
    BY <2>1 DEF IInv, SocketInv
<1> QED
  BY <1>1, SenderIInv, PTL

(* No live stream is ever without a connection that an Arc reaches.        *)
THEOREM SenderNoStreamLeak == Spec => []NoStreamLeak
<1>1. ASSUME IInv, NEW s \in Stream, stream[s] \in {"open", "broken"}
      PROVE  \E c \in Referenced(cache, held) :
               socket[c] = s /\ \A d \in Msg \ {c} : socket[d] # s
  <2>1. PICK c \in Msg : socket[c] = s
    BY <1>1 DEF IInv, LeakInv
  <2>2. s # None
    BY SenderAssumption
  <2>3. c \in Referenced(cache, held) /\ \A d \in Msg : socket[d] = s => d = c
    BY <1>1, <2>1, <2>2 DEF IInv, SocketInv
  <2> QED
    BY <2>1, <2>3
<1>2. IInv => NoStreamLeak
  BY <1>1 DEF NoStreamLeak
<1> QED
  BY <1>2, SenderIInv, PTL

-----------------------------------------------------------------------------
(* What bounds the sockets in use: the LruCache never holds more than its  *)
(* capacity, and only finitely many messages were ever accepted.           *)
BoundInv ==
  /\ UseLru => Cardinality(Cached) <= LruSize
  /\ IsFiniteSet({m \in Msg : pc[m] # "idle"})

(* The LruCache's list counts its entries.                                 *)
LEMMA CachedCount ==
  ASSUME IInv, UseLru
  PROVE  /\ {recency[i] : i \in DOMAIN recency} = Cached
         /\ IsFiniteSet(Cached)
         /\ Len(recency) = Cardinality(Cached)
<1> DEFINE n == Len(recency)
           f == [i \in 1 .. n |-> recency[i]]
<1>1. recency \in Seq(Addr) /\ n \in Nat /\ DOMAIN recency = 1 .. n
  BY DEF IInv, TypeOK
<1>2. \A i \in 1 .. n : recency[i] \in Addr
  BY <1>1
<1> HIDE DEF n
<1>3. {recency[i] : i \in DOMAIN recency} = Cached
  BY <1>1, <1>2 DEF IInv, LruInv, Cached
<1>4. f \in Bijection(1 .. n, Cached)
  <2>1. f \in [1 .. n -> Cached]
    BY <1>1, <1>3
  <2>2. \A i, j \in 1 .. n : f[i] = f[j] => i = j
    BY <1>1 DEF IInv, LruInv
  <2>3. \A b \in Cached : \E i \in 1 .. n : f[i] = b
    BY <1>1, <1>3
  <2> QED
    BY <2>1, <2>2, <2>3 DEF Bijection, Injection, Surjection, IsInjective
<1>5. ExistsBijection(1 .. n, Cached)
  BY <1>4 DEF ExistsBijection
<1>6. Cardinality(Cached) = n /\ IsFiniteSet(Cached)
  BY <1>1, <1>5, FS_CountingElements, FS_NatBijection
<1> QED
  BY <1>3, <1>6 DEF n

(* A step that accepts no message and adds nothing to the cache.           *)
LEMMA BoundStep ==
  ASSUME IInv, BoundInv,
         \A a \in Addr : cache'[a] # None => cache[a] # None,
         \A m \in Msg : pc'[m] # "idle" => pc[m] # "idle"
  PROVE  BoundInv'
<1>1. ASSUME UseLru PROVE Cardinality(Cached') <= LruSize
  <2>1. IsFiniteSet(Cached) /\ Cached' \in SUBSET Cached
    BY <1>1, CachedCount DEF Cached
  <2>2. IsFiniteSet(Cached') /\ Cardinality(Cached') <= Cardinality(Cached)
    BY <2>1, FS_Subset
  <2>3. Cardinality(Cached) \in Nat /\ Cardinality(Cached') \in Nat
    BY <2>1, <2>2, FS_CardinalityType
  <2>4. Cardinality(Cached) <= LruSize
    BY <1>1 DEF BoundInv
  <2> QED
    BY <2>2, <2>3, <2>4, SenderAssumption
<1>2. IsFiniteSet({m \in Msg : pc'[m] # "idle"})
  <2>1. {m \in Msg : pc'[m] # "idle"} \in SUBSET {m \in Msg : pc[m] # "idle"}
    OBVIOUS
  <2> QED
    BY <2>1, FS_Subset DEF BoundInv
<1> QED
  BY <1>1, <1>2 DEF BoundInv

(* Accepting one message, or two.                                          *)
LEMMA AcceptBound ==
  ASSUME IInv, BoundInv, cache' = cache, NEW m1 \in Msg, NEW m2 \in Msg,
         \A k \in Msg : k \notin {m1, m2} => pc'[k] = pc[k]
  PROVE  BoundInv'
<1> DEFINE P == {m \in Msg : pc[m] # "idle"}
           Q == {m \in Msg : pc'[m] # "idle"}
<1>1. IsFiniteSet(P)
  BY DEF BoundInv
<1>2. IsFiniteSet((P \cup {m1}) \cup {m2})
  BY <1>1, FS_AddElement
<1>3. Q \in SUBSET ((P \cup {m1}) \cup {m2})
  OBVIOUS
<1>4. IsFiniteSet(Q)
  BY <1>2, <1>3, FS_Subset
<1>5. Cached' = Cached
  BY DEF Cached
<1> QED
  BY <1>4, <1>5 DEF BoundInv

(* get_or_insert throws an entry out before it exceeds the capacity.       *)
LEMMA GetOrInsertBound ==
  ASSUME IInv, BoundInv, UseLru, NEW m \in Msg, NEW a \in Addr,
         cache' = GetOrInsert(m, a)
  PROVE  Cardinality(Cached') <= LruSize
<1>1. Cached' = (Cached \ Overflow(a)) \cup {a}
  BY GetOrInsertFacts DEF Cached
<1>2. IsFiniteSet(Cached) /\ Cardinality(Cached) \in Nat /\ Cardinality(Cached) <= LruSize
  BY CachedCount, FS_CardinalityType DEF BoundInv
<1>3. CASE a \in Cached
  <2>1. Overflow(a) = {}
    BY <1>3 DEF Overflow
  <2>2. Cached' = Cached
    BY <1>1, <1>3, <2>1
  <2> QED
    BY <1>2, <2>2
<1>4. CASE a \notin Cached /\ Overflow(a) # {}
  <2>1. recency # <<>> /\ Overflow(a) = {Head(recency)}
    BY <1>4, OverflowFacts
  <2>2. Head(recency) \in Cached
    <3>1. 1 \in DOMAIN recency /\ Head(recency) = recency[1]
      BY <2>1, HeadTailProperties DEF IInv, TypeOK
    <3> QED
      BY <3>1, CachedCount
  <2> DEFINE b == Head(recency)
  <2>3. Cached' = (Cached \ {b}) \cup {a} /\ b \in Cached /\ a \notin Cached \ {b}
    BY <1>1, <1>4, <2>1, <2>2
  <2> HIDE DEF b
  <2>4. IsFiniteSet(Cached \ {b}) /\ Cardinality(Cached \ {b}) = Cardinality(Cached) - 1
    BY <1>2, <2>3, FS_RemoveElement
  <2>5. Cardinality(Cached') = Cardinality(Cached) - 1 + 1
    BY <2>3, <2>4, FS_AddElement
  <2> QED
    BY <1>2, <2>5
<1>5. CASE a \notin Cached /\ Overflow(a) = {}
  <2>1. Cardinality(Cached) < LruSize
    <3> SUFFICES ASSUME Cardinality(Cached) >= LruSize PROVE FALSE
      BY <1>2, SenderAssumption
    <3>1. Len(recency) >= 1 /\ recency \in Seq(Addr)
      BY CachedCount, SenderAssumption DEF IInv, TypeOK
    <3>2. Head(recency) \in Addr
      BY <3>1
    <3> QED
      BY <1>5, <3>2 DEF Overflow
  <2>2. Cached' = Cached \cup {a}
    BY <1>1, <1>5
  <2>3. Cardinality(Cached \cup {a}) = Cardinality(Cached) + 1
    BY <1>2, <1>5, FS_AddElement
  <2> QED
    BY <1>2, <2>1, <2>2, <2>3, SenderAssumption
<1> QED
  BY <1>3, <1>4, <1>5

(* Every step keeps the bounds.                                            *)
LEMMA NextBound == IInv /\ BoundInv /\ [Next]_vars => BoundInv'
<1> SUFFICES ASSUME IInv, BoundInv, [Next]_vars PROVE BoundInv'
  OBVIOUS
<1>1. CASE UNCHANGED <<cache, pc>>
  BY <1>1, BoundStep
<1>2. ASSUME NEW m \in Msg, NEW a \in Addr, Send(m, a)
      PROVE  BoundInv'
  <2>1. cache' = cache /\ \A k \in Msg : k \notin {m, m} => pc'[k] = pc[k]
    BY <1>2 DEF Send, IInv, TypeOK
  <2> QED
    BY <2>1, AcceptBound
<1>3. ASSUME NEW m1 \in Msg, NEW m2 \in Msg, NEW a1 \in Addr, NEW a2 \in Addr,
             MultiSend(m1, a1, m2, a2)
      PROVE  BoundInv'
  <2>1. cache' = cache /\ \A k \in Msg : k \notin {m1, m2} => pc'[k] = pc[k]
    BY <1>3 DEF MultiSend, IInv, TypeOK
  <2> QED
    BY <2>1, AcceptBound
<1>4. CASE DispatchSend
  <2> DEFINE m == Head(send_channel)
             a == dest[m]
  <2>1. cache' = GetOrInsert(m, a) /\ pc' = [pc EXCEPT ![m] = "lock"] /\ send_channel # <<>>
    BY <1>4 DEF DispatchSend, SetReferences
  <2>2. m \in Msg /\ m = send_channel[1] /\ 1 \in DOMAIN send_channel
    BY <2>1, HeadTailProperties DEF IInv, TypeOK
  <2>3. pc[m] = "queued"
    BY <2>2 DEF IInv, QueueInv
  <2> HIDE DEF m
  <2>4. a \in Addr
    BY <2>2, <2>3 DEF IInv, TypeOK, TaskInv
  <2> HIDE DEF a
  <2>5. UseLru => Cardinality(Cached') <= LruSize
    BY <2>1, <2>2, <2>4, GetOrInsertBound
  <2>6. {k \in Msg : pc'[k] # "idle"} = {k \in Msg : pc[k] # "idle"}
    BY <2>1, <2>2, <2>3 DEF IInv, TypeOK
  <2> QED
    BY <2>5, <2>6 DEF BoundInv
<1>5. CASE EvictorStep
  <2>1. pc' = pc /\ cache' = [cache EXCEPT ![Head(evict_channel)] = None]
    BY <1>5 DEF EvictorStep, SetReferences
  <2>2. \A a \in Addr : cache'[a] # None => cache[a] # None
    BY <2>1 DEF IInv, TypeOK
  <2> QED
    BY <2>1, <2>2, BoundStep
<1>6. CASE LoopEnds
  <2>1. pc' = pc /\ (cache' = cache \/ cache' = [a \in Addr |-> None])
    BY <1>6 DEF LoopEnds, EndLoop, SetReferences, tasks
  <2>2. \A a \in Addr : cache'[a] # None => cache[a] # None
    BY <2>1
  <2> QED
    BY <2>1, <2>2, BoundStep
<1>7. ASSUME NEW m \in Msg, Network(m) \/ Task(m)
      PROVE  BoundInv'
  <2>1. cache' = cache
    BY <1>7 DEF Network, Task, ConnectOk, ConnectFail, WriteLen, WriteBody, WriteFailRetry,
                WriteFailGiveUp, LockSocket, Notify, DropConnection, SetReferences
  <2>2. pc[m] # "idle" /\ \A k \in Msg : k # m => pc'[k] = pc[k]
    BY <1>7 DEF Network, Task, ConnectOk, ConnectFail, WriteLen, WriteBody, WriteFailRetry,
                WriteFailGiveUp, LockSocket, Notify, DropConnection, Return, IInv, TypeOK
  <2>3. \A k \in Msg : pc'[k] # "idle" => pc[k] # "idle"
    BY <2>2
  <2> QED
    BY <2>1, <2>3, BoundStep
<1>8. ASSUME NEW a \in Addr, EvictSocket(a)
      PROVE  UNCHANGED <<cache, pc>>
  BY <1>8 DEF EvictSocket
<1>9. ASSUME NEW s \in Stream, ShutdownStream(s) \/ Break(s)
      PROVE  UNCHANGED <<cache, pc>>
  BY <1>9 DEF ShutdownStream, Break, tasks
<1>10. Collect \/ UNCHANGED vars => UNCHANGED <<cache, pc>>
  BY DEF Collect, tasks, vars
<1> QED
  BY <1>1, <1>2, <1>3, <1>4, <1>5, <1>6, <1>7, <1>8, <1>9, <1>10 DEF Next

(* Each live stream is the socket of a connection of its own, and each     *)
(* such connection is in the cache or in the hands of a task.              *)
LEMMA LiveStreams ==
  ASSUME IInv, BoundInv, UseLru
  PROVE  Cardinality({s \in Stream : stream[s] \in {"open", "broken"}})
           <= LruSize + Cardinality({m \in Msg : held[m] # None})
<1> DEFINE Live == {s \in Stream : stream[s] \in {"open", "broken"}}
           Hold == {m \in Msg : held[m] # None}
           ByCache == {cache[a] : a \in Cached}
           ByTask == {held[m] : m \in Hold}
           R == ByCache \cup ByTask
           f == [s \in Live |-> CHOOSE c \in Msg : socket[c] = s]
           g == [a \in Cached |-> cache[a]]
           h == [m \in Hold |-> held[m]]
<1>1. IsFiniteSet(Cached) /\ Cardinality(Cached) \in Nat /\ Cardinality(Cached) <= LruSize
  BY CachedCount, FS_CardinalityType DEF BoundInv
<1>2. IsFiniteSet(Hold) /\ Cardinality(Hold) \in Nat
  <2>1. Hold \in SUBSET {m \in Msg : pc[m] # "idle"}
    BY DEF IInv, TaskInv
  <2> QED
    BY <2>1, FS_Subset, FS_CardinalityType DEF BoundInv
<1>3. IsFiniteSet(ByCache) /\ Cardinality(ByCache) <= Cardinality(Cached)
  <2>1. g \in Surjection(Cached, ByCache)
    BY DEF Surjection
  <2> QED
    BY <1>1, <2>1, FS_Surjection
<1>4. IsFiniteSet(ByTask) /\ Cardinality(ByTask) <= Cardinality(Hold)
  <2>1. h \in Surjection(Hold, ByTask)
    BY DEF Surjection
  <2> QED
    BY <1>2, <2>1, FS_Surjection
<1>5. f \in Injection(Live, R)
  <2>1. ASSUME NEW s \in Live
        PROVE  f[s] \in Msg /\ socket[f[s]] = s /\ f[s] \in R
    <3>1. f[s] \in Msg /\ socket[f[s]] = s
      BY <2>1 DEF IInv, LeakInv
    <3>2. s # None
      BY <2>1, SenderAssumption
    <3>3. f[s] \in Referenced(cache, held)
      BY <3>1, <3>2 DEF IInv, SocketInv
    <3>4. Referenced(cache, held) \subseteq R
      BY SenderAssumption DEF Referenced, Cached
    <3> QED
      BY <3>1, <3>3, <3>4
  <2> HIDE DEF R
  <2>2. f \in [Live -> R]
    BY <2>1
  <2>3. \A s, t \in Live : f[s] = f[t] => s = t
    BY <2>1
  <2> QED
    BY <2>2, <2>3 DEF Injection, IsInjective
<1> HIDE DEF Live, Hold, ByCache, ByTask, f, g, h
<1>6. /\ IsFiniteSet(R)
      /\ Cardinality(R) = Cardinality(ByCache) + Cardinality(ByTask)
                            - Cardinality(ByCache \cap ByTask)
  BY <1>3, <1>4, FS_Union
<1>7. IsFiniteSet(ByCache \cap ByTask)
  BY <1>3, FS_Intersection
<1>8. IsFiniteSet(Live) /\ Cardinality(Live) <= Cardinality(R)
  BY <1>5, <1>6, FS_Injection
<1>9. /\ Cardinality(Live) \in Nat /\ Cardinality(R) \in Nat
      /\ Cardinality(ByCache) \in Nat /\ Cardinality(ByTask) \in Nat
      /\ Cardinality(ByCache \cap ByTask) \in Nat
  BY <1>3, <1>4, <1>6, <1>7, <1>8, FS_CardinalityType
<1>10. Cardinality(Live) <= LruSize + Cardinality(Hold)
  <2> HIDE DEF R
  <2> QED
    BY <1>1, <1>2, <1>3, <1>4, <1>6, <1>8, <1>9, SenderAssumption
<1> QED
  BY <1>10 DEF Live, Hold

(* The sockets in use are bounded by the LruCache's capacity plus the      *)
(* tasks in flight, whatever is evicted, replaced, broken and retried.     *)
THEOREM SenderSocketsBounded == Spec => []SocketsBounded
<1>1. Init => BoundInv
  <2> SUFFICES ASSUME Init PROVE BoundInv
    OBVIOUS
  <2>1. Cached = {} /\ {m \in Msg : pc[m] # "idle"} = {}
    BY DEF Init, Cached
  <2> QED
    BY <2>1, FS_EmptySet, SenderAssumption DEF BoundInv
<1>2. IInv /\ BoundInv => SocketsBounded
  BY CachedCount, LiveStreams DEF SocketsBounded
<1> QED
  BY <1>1, <1>2, NextBound, SenderIInv, PTL DEF Spec
=============================================================================
