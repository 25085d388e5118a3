------------------------------ MODULE Listener ------------------------------
(***************************************************************************)
(* The receiving half of shardus_net (shardus_net_listener.rs): a task     *)
(* that binds, accepts and, after an error, sleeps and binds again; a task *)
(* for every accepted connection that reads frames and judges them; one    *)
(* unbounded channel to the bridge.                                        *)
(*                                                                         *)
(* A stream carries whole frames and may end in the middle of one, or be   *)
(* reset with frames unread: EndToEnd shows that Sender's streams are such *)
(* streams.  Peers write letters, encoded as their own sender does it, or  *)
(* frames of other origin (Foreign): of another version or build of the    *)
(* library, or damaged.                                                    *)
(***************************************************************************)
EXTENDS Codec, FiniteSets

CONSTANTS
  Conn,      \* connections that peers make
  Letter,    \* what the library's own senders may send, see Codec!Encode
  Foreign,   \* frames that no sender of this library writes
  hash_key,  \* the hash key of the listener's process
  MaxFrames  \* bound: frames written in one behaviour

(* A header that serde accepts: version 1, with a UUID, the texts UTF-8 as *)
(* every String is, and a known compression.                               *)
HeaderGiven(json) ==
  /\ FromJson(1, json).some
  /\ LET h == FromJson(1, json).value
     IN  /\ h.uuid \in Nat
         /\ h.compression \in Compression
         /\ \A f \in Texts : h[f] \in Seq(Nat) /\ Utf8(h[f])

(* What callers can give a sender: texts of Node are UTF-8, a key here is  *)
(* one byte.  A plain text that begins with byte 1 would be taken for a    *)
(* message with a header, and is left out.                                 *)
Sendable(l) ==
  /\ l.headed \in BOOLEAN /\ l.text \in Seq(Nat) /\ Utf8(l.text)
  /\ ~l.headed /\ l.text # <<>> => l.text[1] # 1
  /\ l.headed =>
       HeaderGiven(l.json) /\ l.hash_key \in Nat /\ l.secret_key \in 0 .. 255

ASSUME ListenerAssumption ==
  /\ \A l \in Letter : Sendable(l) /\ Encode(l) \notin Foreign
  /\ hash_key \in Nat /\ HeaderLimit \in Nat
  /\ MaxFrames \in Nat

VARIABLES
  listener, \* the task of bind_to_socket
  conn,     \* the task of a connection, from the backlog to its end
  written,  \* the frames a peer has written in full
  ending,   \* has the stream ended: closed, cut inside a frame, or reset
  taken,    \* frames that receive has read
  received  \* the channel to the bridge, all that ever went through it

vars == <<listener, conn, written, ending, taken, received>>

Frames == {Encode(l) : l \in Letter} \cup Foreign

(* What receive makes of each frame.                                       *)
Judged == [s \in Frames |-> Judge(s, hash_key)]

Init ==
  /\ listener = "binding"
  /\ conn = [c \in Conn |-> "none"]
  /\ written = [c \in Conn |-> <<>>]
  /\ ending = [c \in Conn |-> "open"]
  /\ taken = [c \in Conn |-> 0]
  /\ received = <<>>

-----------------------------------------------------------------------------
(* The loop of bind_to_socket: TcpListener::bind, ...                      *)
BindOk ==
  /\ listener = "binding"
  /\ listener' = "accepting"
  /\ UNCHANGED <<conn, written, ending, taken, received>>

(* Mutant: a failed bind ends the task.                                    *)
BindFailsForGood ==
  /\ listener = "binding"
  /\ listener' = "ended"
  /\ UNCHANGED <<conn, written, ending, taken, received>>

BindFails ==
  /\ listener = "binding"
  /\ listener' = "sleeping"
  /\ UNCHANGED <<conn, written, ending, taken, received>>

(* ... accept_connections, which returns only with an error and drops the  *)
(* socket: connections in its backlog are reset, accepted ones live on.    *)
AcceptFails ==
  /\ listener = "accepting"
  /\ listener' = "sleeping"
  /\ conn' = [c \in Conn |-> IF conn[c] = "backlog" THEN "reset" ELSE conn[c]]
  /\ UNCHANGED <<written, ending, taken, received>>

(* ... and ten seconds of sleep.                                           *)
Wake ==
  /\ listener = "sleeping"
  /\ listener' = "binding"
  /\ UNCHANGED <<conn, written, ending, taken, received>>

(* Mutant: receive is awaited in the accept loop instead of spawned.       *)
AcceptInline(c) ==
  /\ listener = "accepting"
  /\ conn[c] = "backlog"
  /\ \A d \in Conn : conn[d] \notin {"length", "body"}
  /\ conn' = [conn EXCEPT ![c] = "length"]
  /\ UNCHANGED <<listener, written, ending, taken, received>>

(* accept returns a connection and its task is spawned.                    *)
Accept(c) ==
  /\ listener = "accepting"
  /\ conn[c] = "backlog"
  /\ conn' = [conn EXCEPT ![c] = "length"]
  /\ UNCHANGED <<listener, written, ending, taken, received>>

-----------------------------------------------------------------------------
(* The task of a connection: receive.                                      *)

Unread(c) == taken[c] < Len(written[c])

(* read_u32 returns: a frame has begun, complete or cut off.               *)
ReadLength(c) ==
  /\ conn[c] = "length"
  /\ Unread(c) \/ ending[c] \in {"torn", "reset"}
  /\ conn' = [conn EXCEPT ![c] = "body"]
  /\ UNCHANGED <<listener, written, ending, taken, received>>

(* Mutant: a peer's close is acted on although it sent more before it.     *)
EndOfStreamEarly(c) ==
  /\ conn[c] = "length"
  /\ ending[c] # "open"
  /\ conn' = [conn EXCEPT ![c] = "completed"]
  /\ UNCHANGED <<listener, written, ending, taken, received>>

(* read_u32 fails at the end of the stream or when it is reset: the loop   *)
(* ends, Ok(()).  A stream that was cut may have been cut inside the       *)
(* length.                                                                 *)
EndOfStream(c) ==
  /\ conn[c] = "length"
  /\ \/ ~Unread(c) /\ ending[c] # "open"
     \/ ending[c] = "reset"
  /\ conn' = [conn EXCEPT ![c] = "completed"]
  /\ UNCHANGED <<listener, written, ending, taken, received>>

(* read_exact fails: ReadStreamError.                                      *)
TornFrame(c) ==
  /\ conn[c] = "body"
  /\ ~Unread(c) \/ ending[c] = "reset"
  /\ conn' = [conn EXCEPT ![c] = "failed"]
  /\ UNCHANGED <<listener, written, ending, taken, received>>

(* Mutant: a skipped frame takes the next one with it.                     *)
ReadBodySkipsTwo(c) ==
  /\ conn[c] = "body"
  /\ Unread(c)
  /\ LET j == Judged[written[c][taken[c] + 1]]
     IN  /\ conn' = [conn EXCEPT ![c] = CASE j.verdict = "end"   -> "failed"
                                          [] j.verdict = "panic" -> "panicked"
                                          [] OTHER               -> "length"]
         /\ received' = IF j.verdict = "deliver"
                        THEN Append(received, [from |-> c, message |-> j])
                        ELSE received
         /\ taken' = [taken EXCEPT ![c] = @ + (IF j.verdict = "skip" THEN 2 ELSE 1)]
  /\ UNCHANGED <<listener, written, ending>>

(* read_exact returns the frame; it is judged, and delivered, skipped or   *)
(* the end of the task, all without another await.                         *)
ReadBody(c) ==
  /\ conn[c] = "body"
  /\ Unread(c)
  /\ taken' = [taken EXCEPT ![c] = @ + 1]
  /\ LET j == Judged[written[c][taken'[c]]]
     IN  /\ conn' = [conn EXCEPT ![c] = IF j.verdict = "end" THEN "failed"
                                        ELSE IF j.verdict = "panic" THEN "panicked"
                                        ELSE "length"]
         /\ received' = IF j.verdict = "deliver"
                        THEN Append(received, [from |-> c, message |-> j])
                        ELSE received
  /\ UNCHANGED <<listener, written, ending>>

-----------------------------------------------------------------------------
(* Peers.                                                                  *)

Connect(c) ==
  /\ listener = "accepting"
  /\ conn[c] = "none"
  /\ conn' = [conn EXCEPT ![c] = "backlog"]
  /\ UNCHANGED <<listener, written, ending, taken, received>>

WriteFrame(c, s) ==
  /\ conn[c] # "none"
  /\ ending[c] = "open"
  /\ Cardinality(UNION {{d} \X DOMAIN written[d] : d \in Conn}) < MaxFrames
  /\ written' = [written EXCEPT ![c] = Append(@, s)]
  /\ UNCHANGED <<listener, conn, ending, taken, received>>

(* The peer closes, between two frames or in the middle of one, or the     *)
(* connection is reset: frames on their way may be lost.                   *)
Close(c, how) ==
  /\ conn[c] # "none"
  /\ ending[c] = "open"
  /\ ending' = [ending EXCEPT ![c] = how]
  /\ UNCHANGED <<listener, conn, written, taken, received>>

-----------------------------------------------------------------------------
Receive(c) == ReadLength(c) \/ EndOfStream(c) \/ TornFrame(c) \/ ReadBody(c)

Next ==
  \/ BindOk \/ BindFails \/ AcceptFails \/ Wake
  \/ \E c \in Conn : Accept(c) \/ Receive(c) \/ Connect(c)
  \/ \E c \in Conn, s \in Frames : WriteFrame(c, s)
  \/ \E c \in Conn, how \in {"closed", "torn", "reset"} : Close(c, how)

(* The runtime polls its tasks, sleeps end, and an address that can be     *)
(* bound again and again in the end is.                                    *)
Fairness ==
  /\ WF_vars(Wake)
  /\ SF_vars(BindOk)
  /\ \A c \in Conn : WF_vars(Accept(c)) /\ WF_vars(Receive(c))

Spec == Init /\ [][Next]_vars
FairSpec == Spec /\ Fairness

-----------------------------------------------------------------------------
(* Type correctness of the listener's state; in particular no task reads   *)
(* past what its peer wrote.                                               *)
TypeOK ==
  /\ listener \in {"binding", "accepting", "sleeping"}
  /\ conn \in [Conn -> {"none", "backlog", "reset", "length", "body",
                        "completed", "failed", "panicked"}]
  /\ written \in [Conn -> Seq(Frames)]
  /\ ending \in [Conn -> {"open", "closed", "torn", "reset"}]
  /\ \A c \in Conn : taken[c] \in 0 .. Len(written[c])
  /\ \A i \in DOMAIN received : received[i].from \in Conn

(* Does a letter pass: it has no header, or one of allowed size, signed    *)
(* over the hash key that the listener uses.                               *)
Passes(l) ==
  l.headed =>
    LET h == FromJson(1, l.json).value
    IN  /\ l.hash_key = hash_key
        /\ 6 + Len(h.sender_id) + Len(h.tracker_id) + Len(h.verification_data)
             <= HeaderLimit

(* The frames of letters that pass, each with the letters it stands for.   *)
Passing ==
  [s \in {Encode(l) : l \in {k \in Letter : Passes(k)}} |->
     {l \in Letter : Encode(l) = s}]

(* Is j what the bridge is to get for the letter l: its text, the sender's *)
(* key in hexadecimal and, as index.ts parses it, the header that its      *)
(* caller gave.  Of a header with a character that JSON escapes nothing is *)
(* claimed: it may be lost or altered.                                     *)
Shows(j, l) ==
  /\ j.text = l.text
  /\ l.headed =>
       /\ j.version = 1
       /\ Unhex(j.sign.owner) = Some(<<l.secret_key>>)
       /\ (\A f \in Texts \cap DOMAIN l.json : Verbatim(l.json[f])) =>
            /\ j.header.some
            /\ \A f \in Texts \cup {"uuid"} :
                 j.header.value[f] = IF f \in DOMAIN l.json THEN l.json[f] ELSE <<>>

(* Of the frames read from a connection, exactly the letters that pass     *)
(* were handed on, in the order written, each once, with its own text, key *)
(* and, when its texts are verbatim, header, whatever came in between: a   *)
(* frame that is damaged, signed under another key or cut off never shows  *)
(* up as a message and never shifts the reading of the next.  at is the    *)
(* place of a message's frame among those of its connection.               *)
ReceivedAsSent ==
  \E at \in [DOMAIN received -> UNION {1 .. taken[c] : c \in Conn}] :
    /\ \A i, j \in DOMAIN received :
         i < j /\ received[i].from = received[j].from => at[i] < at[j]
    /\ \A c \in Conn : \A k \in 1 .. taken[c] :
         written[c][k] \in DOMAIN Passing <=>
           \E i \in DOMAIN received : received[i].from = c /\ at[i] = k
    /\ \A i \in DOMAIN received :
         /\ at[i] <= taken[received[i].from]
         /\ \E l \in Passing[written[received[i].from][at[i]]] :
              Shows(received[i].message, l)

(* A connection's task fails or panics only over a frame that was cut off  *)
(* or is foreign: nothing that this library sends, not even under another  *)
(* hash key or with too large a header, costs its sender the connection.   *)
OwnLettersNeverEndIt ==
  \A c \in Conn : conn[c] \in {"failed", "panicked"} =>
    \/ ending[c] = "torn" /\ ~Unread(c)
    \/ ending[c] = "reset"
    \/ taken[c] > 0 /\ written[c][taken[c]] \in Foreign

(* Everything written on a connection is read in the end, whatever other   *)
(* connections do and however often the accept loop fails, unless it was   *)
(* reset, its own task ended over a frame or the listener closed before    *)
(* accepting it.                                                           *)
EveryFrameRead ==
  \A c \in Conn :
    Unread(c) ~> \/ ~Unread(c)
                 \/ ending[c] = "reset"
                 \/ conn[c] \in {"failed", "panicked", "reset"}

(* After any error the listener accepts again.                             *)
ListensAgain == listener = "sleeping" ~> listener = "accepting"
=============================================================================
