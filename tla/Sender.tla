------------------------------- MODULE Sender -------------------------------
(***************************************************************************)
(* The sending half of shardus_net (shardus_net_sender.rs): an unbounded   *)
(* channel feeds one sender task, which looks a Connection up in a shared  *)
(* cache and spawns one task per message; an evictor task removes          *)
(* connections from the cache; every Connection guards its TcpStream with  *)
(* a mutex, connects lazily, and retries a failed write once over a fresh  *)
(* stream; a Connection whose last Arc goes away shuts its stream down.    *)
(* When Node collects the sender both loops end, and the cache with them.  *)
(*                                                                         *)
(* Names.  A Connection is named after the message whose dispatch created  *)
(* it, a TcpStream after the message that connected it and the attempt     *)
(* (1 or 2) it did so in.  Both names are unique, so no allocator is       *)
(* modelled.                                                               *)
(*                                                                         *)
(* The data of a message is abstract.  A frame is two pieces, the u32      *)
(* length and the body, because write_data_to_stream awaits between them;  *)
(* a third piece, "fail", marks where a write returned an error after      *)
(* putting any part of its bytes on the wire.                              *)
(***************************************************************************)
EXTENDS Integers, Sequences, SequencesExt, FiniteSets

CONSTANTS
  Msg,       \* the calls of send, one value for each
  Addr,      \* socket addresses
  None,      \* Rust's None, and the absence of an address
  UseLru,    \* TRUE: LruCache, FALSE: HashMap  (create_shardus_net_sender)
  LruSize,   \* capacity of the LruCache
  MaxEvicts, \* bound: requests waiting in the evictor's channel
  Stalled    \* addresses whose peer may leave connects and writes pending

Stream == Msg \X {1, 2}

ASSUME SenderAssumption ==
  /\ None \notin Msg \cup Addr \cup Stream
  /\ UseLru \in BOOLEAN
  /\ LruSize \in Nat \ {0}
  /\ MaxEvicts \in Nat
  /\ Stalled \subseteq Addr

VARIABLES
  send_channel,  \* messages accepted and not yet dispatched
  evict_channel, \* addresses whose eviction was asked for
  running,       \* the JsBox with the channels' senders, and the two loops
  dest,          \* the address a message was sent to
  cache,         \* ConnectionCache: the connection kept for an address
  recency,       \* order of the LruCache, least recently used first
  pc,            \* where the task of a message is
  attempt,       \* 1, or 2 once Connection::send is retrying
  result,        \* what Connection::send returned
  held,          \* the Arc<Connection> a task owns
  lock,          \* Connection.socket's mutex: the task that holds it
  socket,        \* Connection.socket's content
  stream,        \* state of a TcpStream
  wire           \* what was written to a TcpStream, piece by piece

channels == <<send_channel, evict_channel, running>>
tasks    == <<pc, attempt, result>>
vars     == <<send_channel, evict_channel, running, dest, cache, recency, pc,
              attempt, result, held, lock, socket, stream, wire>>

PC      == {"idle", "queued", "lock", "connect", "len", "body",
            "notify", "drop", "done"}
Results == {"none", "ok", "connection_failed", "send_failed"}
States  == {"unused", "open", "broken", "closing", "closed"}
Piece   == [msg : Msg, part : {"len", "body", "fail"}]
Parties == {"handle", "sender", "evictor"}

(* The tasks between taking a connection's lock and returning from send.   *)
Critical == {"connect", "len", "body"}

(* ConnectionCache::get on both implementations: is there an entry.        *)
Cached == {a \in Addr : cache[a] # None}

-----------------------------------------------------------------------------
(* ShardusNetSender::new with an empty cache and two spawned tasks.        *)
Init ==
  /\ send_channel = <<>>
  /\ evict_channel = <<>>
  /\ running = Parties
  /\ dest = [m \in Msg |-> None]
  /\ cache = [a \in Addr |-> None]
  /\ recency = <<>>
  /\ pc = [m \in Msg |-> "idle"]
  /\ attempt = [m \in Msg |-> 1]
  /\ result = [m \in Msg |-> "none"]
  /\ held = [m \in Msg |-> None]
  /\ lock = [c \in Msg |-> None]
  /\ socket = [c \in Msg |-> None]
  /\ stream = [s \in Stream |-> "unused"]
  /\ wire = [s \in Stream |-> <<>>]

-----------------------------------------------------------------------------
(* The connections that some Arc points to, given a cache and the tasks'   *)
(* own references.                                                         *)
Referenced(ca, he) ==
  {c \in Msg : (\E a \in Addr : ca[a] = c) \/ (\E m \in Msg : he[m] = c)}

(* Mutant: eviction shuts a connection down although tasks still hold it.  *)
SetReferencesEager(ca, he) ==
  LET gone == {c \in Msg : /\ \E a \in Addr : cache[a] = c
                          /\ \A a \in Addr : ca[a] # c}
  IN  /\ cache' = ca
      /\ held' = he
      /\ socket' = socket
      /\ stream' = [s \in Stream |->
                      IF \E c \in gone : socket[c] = s
                      THEN "closing" ELSE stream[s]]

(* Mutant: the value a cache operation returns is leaked, never dropped.   *)
SetReferencesLeak(ca, he) ==
  /\ cache' = ca
  /\ held' = he
  /\ UNCHANGED <<socket, stream>>

(* Moves the cache and the tasks' references to ca and he.  A Connection   *)
(* that loses its last Arc runs Drop: it takes the stream out of the       *)
(* socket and spawns a task that shuts it down.                            *)
SetReferences(ca, he) ==
  LET dropped == Referenced(cache, held) \ Referenced(ca, he)
  IN  /\ cache' = ca
      /\ held' = he
      /\ socket' = [c \in Msg |-> IF c \in dropped THEN None ELSE socket[c]]
      /\ stream' = [s \in Stream |->
                      IF \E c \in dropped : socket[c] = s
                      THEN "closing" ELSE stream[s]]

-----------------------------------------------------------------------------
(* ShardusNetSender::send and ::send_with_header, called on JS's thread.   *)
Send(m, a) ==
  /\ "handle" \in running
  /\ pc[m] = "idle"
  /\ dest' = [dest EXCEPT ![m] = a]
  /\ pc' = [pc EXCEPT ![m] = "queued"]
  /\ send_channel' = Append(send_channel, m)
  /\ UNCHANGED <<evict_channel, running, cache, recency, attempt, result, held,
                 lock, socket, stream, wire>>

(* ::multi_send_with_header: one serialized message, queued once for each  *)
(* address with a completion of its own.                                   *)
MultiSend(m1, a1, m2, a2) ==
  /\ "handle" \in running
  /\ m1 # m2
  /\ pc[m1] = "idle"
  /\ pc[m2] = "idle"
  /\ dest' = [dest EXCEPT ![m1] = a1, ![m2] = a2]
  /\ pc' = [pc EXCEPT ![m1] = "queued", ![m2] = "queued"]
  /\ send_channel' = Append(Append(send_channel, m1), m2)
  /\ UNCHANGED <<evict_channel, running, cache, recency, attempt, result, held,
                 lock, socket, stream, wire>>

(* ::evict_socket                                                          *)
EvictSocket(a) ==
  /\ "handle" \in running
  /\ Len(evict_channel) < MaxEvicts
  /\ evict_channel' = Append(evict_channel, a)
  /\ UNCHANGED <<send_channel, running, dest, cache, recency, pc, attempt, result,
                 held, lock, socket, stream, wire>>

-----------------------------------------------------------------------------
(* recency without a, where a occurs at most once.                         *)
Without(a) ==
  IF \E i \in DOMAIN recency : recency[i] = a
  THEN RemoveAt(recency, CHOOSE i \in DOMAIN recency : recency[i] = a)
  ELSE recency

(* Mutant: the cache admits one connection more than its capacity.         *)
OverflowLate(a) ==
  {b \in Addr : /\ UseLru
                /\ a \notin Cached
                /\ Cardinality(Cached) > LruSize
                /\ b = Head(recency)}

(* The entry LruCache::put throws out to stay within its capacity.         *)
Overflow(a) ==
  {b \in Addr : /\ UseLru
                /\ a \notin Cached
                /\ Cardinality(Cached) >= LruSize
                /\ b = Head(recency)}

(* The cache after get_or_insert(a) for message m: a hit returns the       *)
(* cached connection, a miss stores a new one, named m.                    *)
GetOrInsert(m, a) ==
  [b \in Addr |-> IF b = a /\ cache[a] = None THEN m
                  ELSE IF b \in Overflow(a) THEN None ELSE cache[b]]

(* Mutant: the sender task awaits each send instead of spawning it.        *)
DispatchSendInline ==
  /\ \A m \in Msg : pc[m] \in {"idle", "queued", "drop", "done"}
  /\ send_channel # <<>>
  /\ LET m  == Head(send_channel)
         ca == GetOrInsert(m, dest[m])
     IN  /\ SetReferences(ca, [held EXCEPT ![m] = ca[dest[m]]])
         /\ recency' = IF Overflow(dest[m]) = {}
                       THEN Append(Without(dest[m]), dest[m])
                       ELSE Append(Tail(recency), dest[m])
         /\ pc' = [pc EXCEPT ![m] = "lock"]
  /\ send_channel' = Tail(send_channel)
  /\ UNCHANGED <<evict_channel, running, dest, attempt, result, lock, wire>>

(* One round of the loop of spawn_sender: take a message, get or insert    *)
(* its connection under the cache's lock, spawn the task that owns both.   *)
(* Only this task receives from the channel, so taking the message and     *)
(* locking the cache make one step.                                        *)
DispatchSend ==
  /\ send_channel # <<>>
  /\ LET m  == Head(send_channel)
         a  == dest[m]
         ca == GetOrInsert(m, a)
     IN  /\ SetReferences(ca, [held EXCEPT ![m] = ca[a]])
         /\ recency' = IF UseLru
                       THEN Append(IF Overflow(a) = {}
                                   THEN Without(a) ELSE Tail(recency), a)
                       ELSE recency
         /\ pc' = [pc EXCEPT ![m] = "lock"]
  /\ send_channel' = Tail(send_channel)
  /\ UNCHANGED <<evict_channel, running, dest, attempt, result, lock, wire>>

(* One round of the loop of spawn_evictor: ConnectionCache::remove, and    *)
(* the drop of the Arc it returns.                                         *)
EvictorStep ==
  /\ evict_channel # <<>>
  /\ LET a == Head(evict_channel)
     IN  /\ SetReferences([cache EXCEPT ![a] = None], held)
         /\ recency' = Without(a)
  /\ evict_channel' = Tail(evict_channel)
  /\ UNCHANGED <<send_channel, running, dest, pc, attempt, result, lock, wire>>

-----------------------------------------------------------------------------
(* Node collects the JsBox, and the channels' senders with it.  The waiter *)
(* of a message keeps the box alive until the message is completed.        *)
Collect ==
  /\ "handle" \in running
  /\ \A m \in Msg : pc[m] \in {"idle", "drop", "done"}
  /\ running' = running \ {"handle"}
  /\ UNCHANGED <<send_channel, evict_channel, dest, cache, recency, tasks, held,
                 lock, socket, stream, wire>>

(* Mutant: the evictor waits for the other task with its Arc of the cache  *)
(* in hand, so that the cache is never dropped.                            *)
EndLoopKeepsCache(l, channel) ==
  /\ l \in running
  /\ "handle" \notin running
  /\ channel = <<>>
  /\ running' = running \ {l}
  /\ UNCHANGED <<send_channel, evict_channel, dest, cache, recency, tasks, held,
                 lock, socket, stream, wire>>

(* recv returns None once the channel is closed and empty: the loop ends.  *)
(* The cache goes with the second of the two tasks that own it.            *)
EndLoop(l, channel) ==
  /\ l \in running
  /\ "handle" \notin running
  /\ channel = <<>>
  /\ running' = running \ {l}
  /\ IF running' = {}
     THEN SetReferences([a \in Addr |-> None], held) /\ recency' = <<>>
     ELSE UNCHANGED <<cache, recency, held, socket, stream>>
  /\ UNCHANGED <<send_channel, evict_channel, dest, tasks, lock, wire>>

-----------------------------------------------------------------------------
(* The task of message m, running Connection::send on connection held[m].  *)

(* Mutant: the socket is used without taking its mutex.                    *)
LockSocketUnguarded(m) ==
  /\ pc[m] = "lock"
  /\ lock' = [lock EXCEPT ![held[m]] = m]
  /\ pc' = [pc EXCEPT ![m] = IF socket[held[m]] = None THEN "connect" ELSE "len"]
  /\ UNCHANGED <<channels, dest, cache, recency, attempt, result, held, socket,
                 stream, wire>>

(* self.socket.lock().await, and connect_and_set_socket_if_none's test.    *)
LockSocket(m) ==
  /\ pc[m] = "lock"
  /\ lock[held[m]] = None
  /\ lock' = [lock EXCEPT ![held[m]] = m]
  /\ pc' = [pc EXCEPT ![m] = IF socket[held[m]] = None THEN "connect" ELSE "len"]
  /\ UNCHANGED <<channels, dest, cache, recency, attempt, result, held, socket,
                 stream, wire>>

(* Connection::send returns r: the guard is dropped.                       *)
Return(m, r) ==
  /\ result' = [result EXCEPT ![m] = r]
  /\ lock' = [lock EXCEPT ![held[m]] = None]
  /\ pc' = [pc EXCEPT ![m] = "notify"]

(* TcpStream::connect succeeds: the stream becomes the socket.             *)
ConnectOk(m) ==
  /\ pc[m] = "connect"
  /\ socket' = [socket EXCEPT ![held[m]] = <<m, attempt[m]>>]
  /\ stream' = [stream EXCEPT ![<<m, attempt[m]>>] = "open"]
  /\ pc' = [pc EXCEPT ![m] = "len"]
  /\ UNCHANGED <<channels, dest, cache, recency, attempt, result, held, lock,
                 wire>>

(* TcpStream::connect fails: ConnectionFailedError, on either attempt.     *)
ConnectFail(m) ==
  /\ pc[m] = "connect"
  /\ Return(m, "connection_failed")
  /\ UNCHANGED <<channels, dest, cache, recency, attempt, held, socket, stream,
                 wire>>

Write(m, part) ==
  wire' = [wire EXCEPT ![socket[held[m]]] =
             Append(@, [msg |-> m, part |-> part])]

(* write_data_to_stream: write_u32 succeeds.                               *)
WriteLen(m) ==
  /\ pc[m] = "len"
  /\ stream[socket[held[m]]] # "broken"
  /\ Write(m, "len")
  /\ pc' = [pc EXCEPT ![m] = "body"]
  /\ UNCHANGED <<channels, dest, cache, recency, attempt, result, held, lock,
                 socket, stream>>

(* Mutant: the body is out, but a timeout around write_all reports an      *)
(* error and the frame is sent again.                                      *)
WriteBodyTimedOut(m) ==
  /\ pc[m] = "body"
  /\ stream[socket[held[m]]] # "broken"
  /\ Write(m, "body")
  /\ \/ /\ Return(m, "ok")
        /\ UNCHANGED <<attempt, socket, stream>>
     \/ /\ attempt[m] = 1
        /\ stream' = [stream EXCEPT ![socket[held[m]]] = "closed"]
        /\ socket' = [socket EXCEPT ![held[m]] = None]
        /\ attempt' = [attempt EXCEPT ![m] = 2]
        /\ pc' = [pc EXCEPT ![m] = "connect"]
        /\ UNCHANGED <<result, lock>>
  /\ UNCHANGED <<channels, dest, cache, recency, held>>

(* write_data_to_stream: write_all succeeds, and send returns Ok.          *)
WriteBody(m) ==
  /\ pc[m] = "body"
  /\ stream[socket[held[m]]] # "broken"
  /\ Write(m, "body")
  /\ Return(m, "ok")
  /\ UNCHANGED <<channels, dest, cache, recency, attempt, held, socket, stream>>

(* Mutant: retries without counting to two.                                *)
WriteFailRetryForever(m) ==
  /\ pc[m] \in {"len", "body"}
  /\ stream[socket[held[m]]] = "broken"
  /\ Write(m, "fail")
  /\ stream' = [stream EXCEPT ![socket[held[m]]] = "closed"]
  /\ socket' = [socket EXCEPT ![held[m]] = None]
  /\ attempt' = [attempt EXCEPT ![m] = @ + 1]
  /\ pc' = [pc EXCEPT ![m] = "connect"]
  /\ UNCHANGED <<channels, dest, cache, recency, result, held, lock>>

(* Mutant: the reset of socket_op is missing, so the retry reuses the      *)
(* stream that has just failed.                                            *)
WriteFailRetryStale(m) ==
  /\ pc[m] \in {"len", "body"}
  /\ attempt[m] = 1
  /\ stream[socket[held[m]]] = "broken"
  /\ Write(m, "fail")
  /\ attempt' = [attempt EXCEPT ![m] = 2]
  /\ pc' = [pc EXCEPT ![m] = "len"]
  /\ UNCHANGED <<channels, dest, cache, recency, result, held, lock, socket,
                 stream>>

(* write_data_to_stream fails for the first time: the stream is dropped    *)
(* and send goes on to reconnect.                                          *)
WriteFailRetry(m) ==
  /\ pc[m] \in {"len", "body"}
  /\ attempt[m] = 1
  /\ stream[socket[held[m]]] = "broken"
  /\ Write(m, "fail")
  /\ stream' = [stream EXCEPT ![socket[held[m]]] = "closed"]
  /\ socket' = [socket EXCEPT ![held[m]] = None]
  /\ attempt' = [attempt EXCEPT ![m] = 2]
  /\ pc' = [pc EXCEPT ![m] = "connect"]
  /\ UNCHANGED <<channels, dest, cache, recency, result, held, lock>>

(* Mutant: the second error is swallowed and send falls through to Ok.     *)
WriteFailGiveUpSwallowed(m) ==
  /\ pc[m] \in {"len", "body"}
  /\ attempt[m] = 2
  /\ stream[socket[held[m]]] = "broken"
  /\ Write(m, "fail")
  /\ Return(m, "ok")
  /\ UNCHANGED <<channels, dest, cache, recency, attempt, held, socket, stream>>

(* It fails again: SendFailedError.  The broken stream stays the socket.   *)
WriteFailGiveUp(m) ==
  /\ pc[m] \in {"len", "body"}
  /\ attempt[m] = 2
  /\ stream[socket[held[m]]] = "broken"
  /\ Write(m, "fail")
  /\ Return(m, "send_failed")
  /\ UNCHANGED <<channels, dest, cache, recency, attempt, held, socket, stream>>

(* complete_tx.send(result)                                                *)
Notify(m) ==
  /\ pc[m] = "notify"
  /\ pc' = [pc EXCEPT ![m] = "drop"]
  /\ UNCHANGED <<channels, dest, cache, recency, attempt, result, held, lock,
                 socket, stream, wire>>

(* The task ends and drops its Arc<Connection>.                            *)
DropConnection(m) ==
  /\ pc[m] = "drop"
  /\ SetReferences(cache, [held EXCEPT ![m] = None])
  /\ pc' = [pc EXCEPT ![m] = "done"]
  /\ UNCHANGED <<channels, dest, recency, attempt, result, lock, wire>>

-----------------------------------------------------------------------------
(* The task that Connection::drop spawned: stream.shutdown(), then drop.   *)
ShutdownStream(s) ==
  /\ stream[s] = "closing"
  /\ stream' = [stream EXCEPT ![s] = "closed"]
  /\ UNCHANGED <<channels, dest, cache, recency, tasks, held, lock, socket, wire>>

(* The peer resets or closes the stream: every later write to it fails.    *)
Break(s) ==
  /\ stream[s] = "open"
  /\ stream' = [stream EXCEPT ![s] = "broken"]
  /\ UNCHANGED <<channels, dest, cache, recency, tasks, held, lock, socket, wire>>

-----------------------------------------------------------------------------
Network(m) ==
  \/ ConnectOk(m)
  \/ ConnectFail(m)
  \/ WriteLen(m)
  \/ WriteBody(m)
  \/ WriteFailRetry(m)
  \/ WriteFailGiveUp(m)

Task(m) == LockSocket(m) \/ Notify(m) \/ DropConnection(m)

LoopEnds == EndLoop("sender", send_channel) \/ EndLoop("evictor", evict_channel)

Next ==
  \/ \E m \in Msg, a \in Addr : Send(m, a)
  \/ \E m1, m2 \in Msg, a1, a2 \in Addr : MultiSend(m1, a1, m2, a2)
  \/ \E a \in Addr : EvictSocket(a)
  \/ DispatchSend
  \/ EvictorStep
  \/ Collect
  \/ LoopEnds
  \/ \E m \in Msg : Network(m) \/ Task(m)
  \/ \E s \in Stream : ShutdownStream(s) \/ Break(s)

(* The tokio runtime polls every ready task, and a connect or a write ends *)
(* (the kernel's timeouts see to it) unless the peer is Stalled.  A task   *)
(* of a message, or of a stream's shutdown, takes a few steps and ends, so *)
(* that fairness to all of them together is fairness to each.              *)
Fairness ==
  /\ WF_vars(DispatchSend)
  /\ WF_vars(EvictorStep)
  /\ WF_vars(LoopEnds)
  /\ WF_vars(\E m \in Msg : Task(m))
  /\ WF_vars(\E m \in Msg : dest[m] \notin Stalled /\ Network(m))
  /\ WF_vars(\E s \in Stream : ShutdownStream(s))

Spec == Init /\ [][Next]_vars
FairSpec == Spec /\ Fairness
-----------------------------------------------------------------------------
(* Type correctness of the sender's state: in particular a task never      *)
(* makes a third attempt and connections and streams keep unique names.    *)
TypeOK ==
  /\ send_channel \in Seq(Msg)
  /\ evict_channel \in Seq(Addr)
  /\ running \in SUBSET Parties
  /\ dest \in [Msg -> Addr \cup {None}]
  /\ cache \in [Addr -> Msg \cup {None}]
  /\ recency \in Seq(Addr)
  /\ pc \in [Msg -> PC]
  /\ attempt \in [Msg -> {1, 2}]
  /\ result \in [Msg -> Results]
  /\ held \in [Msg -> Msg \cup {None}]
  /\ lock \in [Msg -> Msg \cup {None}]
  /\ socket \in [Msg -> Stream \cup {None}]
  /\ stream \in [Stream -> States]
  /\ wire \in [Stream -> Seq(Piece)]

(* Many tasks write to one TcpStream, each awaiting between the length and *)
(* the body; the socket's mutex keeps the frames whole.  On every stream a *)
(* body directly follows the length of its own message, a length is only   *)
(* ever followed by its own message, and nothing but further failures      *)
(* comes after a torn frame.                                               *)
FramesIntact ==
  \A s \in Stream : \A i \in DOMAIN wire[s] :
    LET p == wire[s][i]
    IN  /\ p.part = "body" =>
             i > 1 /\ wire[s][i - 1] = [msg |-> p.msg, part |-> "len"]
        /\ p.part = "len" /\ i < Len(wire[s]) =>
             /\ wire[s][i + 1].msg = p.msg
             /\ wire[s][i + 1].part # "len"
        /\ p.part = "fail" =>
             \A j \in DOMAIN wire[s] : j > i => wire[s][j].part = "fail"

(* Where the whole frame of m was put on a wire.                           *)
Copies(m) ==
  UNION {{s} \X {i \in DOMAIN wire[s] : wire[s][i] = [msg |-> m, part |-> "body"]} :
           s \in Stream}

(* Whatever was evicted, broken and retried, a send that reports Ok put    *)
(* exactly one complete frame on a stream to its own address, and one that *)
(* reports an error, or has not returned, put none.                        *)
DeliveredOnce ==
  \A m \in Msg :
    /\ Cardinality(Copies(m)) = IF result[m] = "ok" THEN 1 ELSE 0
    /\ \A c \in Copies(m) : dest[c[1][1]] = dest[m]

(* "There was an error sending data. The connection might have been        *)
(* previously closed."  A send gives up with SendFailedError only after a  *)
(* second write failed on a stream that it connected itself after the      *)
(* first one failed: a stale cached connection alone never makes a send    *)
(* fail.  A write that the kernel still accepts on such a stream is Ok.    *)
FailsOnlyOnFreshStream ==
  \A m \in Msg : result[m] = "send_failed" =>
    /\ Contains(wire[<<m, 2>>], [msg |-> m, part |-> "fail"])
    /\ \E s \in Stream \ {<<m, 2>>} :
         Contains(wire[s], [msg |-> m, part |-> "fail"])

(* Eviction and LRU replacement race with tasks in the middle of a write:  *)
(* a task between the lock and the end of its write has a socket, and      *)
(* nobody has begun to shut that stream down.                              *)
NoUseAfterShutdown ==
  \A m \in Msg : pc[m] \in {"len", "body"} =>
    /\ socket[held[m]] # None
    /\ stream[socket[held[m]]] \in {"open", "broken"}

(* A stream that is not being shut down belongs to a connection that some  *)
(* Arc still reaches, and to one only: evicting, replacing, reconnecting   *)
(* and failing never lose a socket.                                        *)
NoStreamLeak ==
  \A s \in Stream : stream[s] \in {"open", "broken"} =>
    \E c \in Referenced(cache, held) :
      socket[c] = s /\ \A d \in Msg \ {c} : socket[d] # s

(* The LruCache's own list agrees with its table, and the sockets in use   *)
(* are bounded by its capacity plus the tasks in flight, whatever the      *)
(* number of addresses ever sent to.                                       *)
SocketsBounded ==
  UseLru =>
    /\ {recency[i] : i \in DOMAIN recency} = Cached
    /\ Len(recency) = Cardinality(Cached)
    /\ Cardinality({s \in Stream : stream[s] \in {"open", "broken"}})
         <= LruSize + Cardinality({m \in Msg : held[m] # None})

(* Every send to a peer that answers completes, even while other tasks     *)
(* wait forever for a stalled peer: there is no head-of-line blocking      *)
(* across addresses.                                                       *)
EverySendCompletes ==
  \A m \in Msg :
    pc[m] = "queued" /\ dest[m] \notin Stalled ~> pc[m] = "done"

(* "Sending channel complete. Shutting down sending task."  A stream whose *)
(* connection left the cache is shut down once the tasks using it have     *)
(* ended; and once Node has collected the sender every stream is, because  *)
(* both loops drain their channels and stop, and the cache they share goes *)
(* with the last of them.  So again and again there are no streams but     *)
(* those kept for the next message, and those of stalled peers.            *)
UnusedStreamsClose ==
  []<>(\A s \in Stream :
         \/ stream[s] \in {"unused", "closed"}
         \/ dest[s[1]] \in Stalled
         \/ "handle" \in running /\ \E a \in Cached : socket[cache[a]] = s)
=============================================================================
