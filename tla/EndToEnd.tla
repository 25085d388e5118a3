------------------------------ MODULE EndToEnd ------------------------------
(***************************************************************************)
(* A sender and the listener at one of its addresses, Home: the streams    *)
(* that Sender connects to Home and writes to are the connections that     *)
(* Listener accepts and reads.                                             *)
(*                                                                         *)
(* The reading side sees what a TCP stream shows it: the frames on the     *)
(* wire, found by taking a length and what follows it, a close once the    *)
(* sender has shut the stream down, or a reset after the stream broke,     *)
(* with which frames already written may be lost.  It takes time for       *)
(* either side to notice what the other did, so that a sender may write to *)
(* a stream whose reader has gone.                                         *)
(***************************************************************************)
EXTENDS Sender, Codec

CONSTANTS
  Home,     \* the address of the listener
  LetterOf, \* the letter a message stands for, each with a text of its own
  Garbled,  \* stands for a frame whose length and body do not belong together
  hash_key, \* the hash key of both processes
  MaxBreaks \* bound: streams that break

VARIABLES
  severed,  \* streams that broke at some time
  listener, conn, taken, received  \* see Listener

reader  == <<listener, conn, taken, received>>
sysVars == <<vars, severed, reader>>

(* Is the stream, or will it be, one to Home.                              *)
ToHome(s) == dest[s[1]] = Home

(* What is written for each message.                                       *)
FrameOf == [m \in Msg |-> Encode(LetterOf[m])]

(* The k-th frame of a stream: a length and what comes after it.           *)
FrameAt(w, k) ==
  IF /\ w[2 * k - 1].part = "len"
     /\ w[2 * k] = [msg |-> w[2 * k - 1].msg, part |-> "body"]
  THEN FrameOf[w[2 * k].msg] ELSE Garbled

(* The pieces that came through; a write that fails tears its frame.       *)
Whole(w) == {i \in DOMAIN w : w[i].part # "fail"}

FramesIn(w) == [k \in 1 .. Cardinality(Whole(w)) \div 2 |-> FrameAt(w, k)]

Written == [s \in Stream |-> IF ToHome(s) THEN FramesIn(wire[s]) ELSE <<>>]

Ending ==
  [s \in Stream |-> IF ~ToHome(s) THEN "open"
                    ELSE IF s \in severed THEN "reset"
                    ELSE IF stream[s] = "closed" THEN "closed" ELSE "open"]

L == INSTANCE Listener
     WITH Conn <- Stream, Letter <- {LetterOf[m] : m \in Msg}, Foreign <- {},
          MaxFrames <- Cardinality(Stream), written <- Written, ending <- Ending

(* The letters are such as callers give, pass at a listener with the same  *)
(* hash key, and can be told apart.                                        *)
ASSUME EndToEndAssumption ==
  /\ IsFiniteSet(Msg) /\ Home \in Addr
  /\ hash_key \in Nat /\ HeaderLimit \in Nat
  /\ \A m \in Msg : L!Sendable(LetterOf[m]) /\ L!Passes(LetterOf[m])
  /\ \A m, n \in Msg : LetterOf[m].text = LetterOf[n].text => m = n

-----------------------------------------------------------------------------
SystemInit ==
  /\ Init
  /\ severed = {}
  /\ listener = "binding"
  /\ conn = [s \in Stream |-> "none"]
  /\ taken = [s \in Stream |-> 0]
  /\ received = <<>>

(* A step of the sender.  A stream to Home is connected only while the     *)
(* listener accepts, and then waits in its backlog.                        *)
SenderStep ==
  /\ Next
  /\ conn' = [s \in Stream |-> IF /\ ToHome(s)
                                  /\ stream[s] = "unused"
                                  /\ stream'[s] = "open"
                               THEN "backlog" ELSE conn[s]]
  /\ conn' # conn => listener = "accepting"
  /\ severed' = severed \cup {s \in Stream : /\ stream[s] = "open"
                                             /\ stream'[s] = "broken"}
  /\ Cardinality(severed') <= MaxBreaks
  /\ UNCHANGED <<listener, taken, received>>

(* A step of the listener's own task, and of the task of a connection.     *)
ListenerStep ==
  /\ UNCHANGED <<vars, severed>>
  /\ L!BindOk \/ L!BindFails \/ L!AcceptFails \/ L!Wake

ReaderStep(s) == UNCHANGED <<vars, severed>> /\ (L!Accept(s) \/ L!Receive(s))

SystemNext ==
  SenderStep \/ ListenerStep \/ \E s \in Stream : ReaderStep(s)

SystemSpec == SystemInit /\ [][SystemNext]_sysVars

-----------------------------------------------------------------------------
(* The contract between the halves: whatever the sender does with caching, *)
(* eviction, retries and shutdown, its streams are streams of whole frames *)
(* of the library's own letters that end as Listener expects, and are      *)
(* connected only while it accepts.  So all that was checked of Listener   *)
(* holds for what this sender sends.                                       *)
FeedsListener == L!Spec

(* The messages of m that came out at the listener.                        *)
Arrivals(m) == {i \in DOMAIN received : received[i].message.text = LetterOf[m].text}

(* From one end to the other: nothing comes out that was not sent to this  *)
(* address, nothing comes out twice although the sender retries, and a     *)
(* send that reported an error never arrives after all.                    *)
ArrivesAtMostOnce ==
  /\ \A m \in Msg :
       /\ Cardinality(Arrivals(m)) <= 1
       /\ Arrivals(m) # {} => dest[m] = Home /\ result[m] = "ok"
  /\ DOMAIN received = UNION {Arrivals(m) : m \in Msg}

(* A message whose send reported Ok came out at the listener or will, even *)
(* when its connection was evicted meanwhile or the whole sender was       *)
(* collected: the task of its connection still has it to read, unless the  *)
(* network or the listener gave up the connection.  Listener's             *)
(* EveryFrameRead says that what a task has to read it reads.              *)
NoneLost ==
  \A m \in Msg : result[m] = "ok" /\ dest[m] = Home =>
    \/ Arrivals(m) # {}
    \/ \E c \in Copies(m) :
         \/ c[1] \in severed
         \/ conn[c[1]] = "reset"
         \/ /\ conn[c[1]] \in {"backlog", "length", "body"}
            /\ \E k \in taken[c[1]] + 1 .. Len(Written[c[1]]) :
                 Written[c[1]][k] = FrameOf[m]
=============================================================================
