-------------------------- MODULE SenderWireProofs --------------------------
(***************************************************************************)
(* What ends up on the wires, for every set of messages and addresses,     *)
(* either kind of cache and every capacity: frames stay whole although     *)
(* many tasks share a stream and await between the pieces of a frame, a    *)
(* send that reports Ok put one complete frame on a stream to its address  *)
(* and any other send none, and a send fails only on a stream of its own.  *)
(* From this it follows that Sender implements SendService.                *)
(***************************************************************************)
EXTENDS SenderRefinement, SenderProofs

Frame(m, part) == [msg |-> m, part |-> part]

(* A stream that was never connected is blank, an open one has no torn     *)
(* frame, and a live one ends in a length only while the task that wrote   *)
(* it is between the two writes.                                           *)
PieceInv ==
  \A s \in Stream :
    /\ stream[s] = "unused" => wire[s] = <<>>
    /\ stream[s] = "open" => \A i \in DOMAIN wire[s] : wire[s][i].part # "fail"
    /\ stream[s] \in {"open", "broken"} /\ wire[s] # <<>> /\ Last(wire[s]).part = "len" =>
         pc[Last(wire[s]).msg] = "body" /\ socket[held[Last(wire[s]).msg]] = s

(* A task that has written its length wrote the last piece of its stream.  *)
BodyInv ==
  \A m \in Msg : pc[m] = "body" =>
    /\ wire[socket[held[m]]] # <<>>
    /\ Last(wire[socket[held[m]]]) = Frame(m, "len")

(* Connection::send has a result only when it has returned.                *)
ResultInv ==
  \A m \in Msg : pc[m] \notin {"notify", "drop", "done"} => result[m] = "none"

(* The streams, connections and tasks that come together are for one       *)
(* address.                                                                *)
AddrInv ==
  /\ \A a \in Addr : cache[a] # None => dest[cache[a]] = a
  /\ \A m \in Msg : held[m] # None => dest[held[m]] = dest[m]
  /\ \A c \in Msg : socket[c] # None => dest[socket[c][1]] = dest[c]

(* The place of m's one complete frame.                                    *)
CopyAt(m, s, i) ==
  /\ dest[s[1]] = dest[m]
  /\ \A t \in Stream : \A j \in DOMAIN wire[t] :
       wire[t][j] = Frame(m, "body") <=> t = s /\ j = i

(* A message has one complete frame if its send returned Ok, else none.    *)
CopyInv ==
  \A m \in Msg :
    /\ result[m] # "ok" => \A s \in Stream : \A i \in DOMAIN wire[s] :
                             wire[s][i] # Frame(m, "body")
    /\ result[m] = "ok" => \E s \in Stream : \E i \in DOMAIN wire[s] : CopyAt(m, s, i)

(* m's write failed on stream s.                                           *)
FailedOn(m, s) == Contains(wire[s], Frame(m, "fail"))

(* A second attempt follows a failure on another stream and uses a stream  *)
(* of its own; a third there is not.                                       *)
RetryInv ==
  \A m \in Msg :
    /\ attempt[m] = 2 => \E s \in Stream \ {<<m, 2>>} : FailedOn(m, s)
    /\ attempt[m] = 2 /\ pc[m] \in {"len", "body"} => socket[held[m]] = <<m, 2>>
    /\ result[m] = "send_failed" => attempt[m] = 2 /\ FailedOn(m, <<m, 2>>)

WireInv ==
  /\ PieceInv
  /\ BodyInv
  /\ FramesIntact
  /\ ResultInv
  /\ AddrInv
  /\ CopyInv
  /\ RetryInv

-----------------------------------------------------------------------------
(* All wires are blank when the sender starts.                             *)
LEMMA InitWireInv == Init => WireInv
<1> SUFFICES ASSUME Init PROVE WireInv
  OBVIOUS
<1>1. \A s \in Stream : wire[s] = <<>> /\ DOMAIN wire[s] = {} /\ stream[s] = "unused"
  BY DEF Init
<1>2. \A m \in Msg : pc[m] = "idle" /\ result[m] = "none" /\ attempt[m] = 1
                     /\ held[m] = None /\ socket[m] = None
  BY DEF Init
<1>3. \A a \in Addr : cache[a] = None
  BY DEF Init
<1>4. PieceInv /\ FramesIntact
  BY <1>1 DEF PieceInv, FramesIntact
<1>5. BodyInv /\ ResultInv /\ RetryInv /\ AddrInv
  BY <1>2, <1>3 DEF BodyInv, ResultInv, RetryInv, AddrInv
<1>6. CopyInv
  BY <1>1, <1>2 DEF CopyInv
<1> QED
  BY <1>4, <1>5, <1>6 DEF WireInv

(* What a task that is writing knows of its stream.                        *)
LEMMA WriterFacts ==
  ASSUME IInv, NEW m \in Msg, pc[m] \in {"len", "body"}
  PROVE  /\ held[m] \in Msg /\ lock[held[m]] = m
         /\ socket[held[m]] \in Stream /\ socket[held[m]] # None
         /\ stream[socket[held[m]]] \in {"open", "broken"}
<1>1. held[m] \in Msg /\ lock[held[m]] = m
  BY DEF IInv, TypeOK, TaskInv, Critical
<1>2. socket[held[m]] \in Stream /\ socket[held[m]] # None
  BY <1>1 DEF IInv, TypeOK, TaskInv
<1>3. stream[socket[held[m]]] \in {"open", "broken"}
  BY <1>1, <1>2 DEF IInv, SocketInv
<1> QED
  BY <1>1, <1>2, <1>3

(* The mutex of a connection lets one task write to its stream.            *)
LEMMA OneWriter ==
  ASSUME IInv, NEW m \in Msg, pc[m] \in {"len", "body"},
         NEW k \in Msg, pc[k] \in {"len", "body"},
         socket[held[m]] = socket[held[k]]
  PROVE  m = k
<1>1. /\ held[m] \in Msg /\ lock[held[m]] = m /\ held[k] \in Msg /\ lock[held[k]] = k
      /\ socket[held[m]] # None
  BY WriterFacts
<1>2. held[m] = held[k]
  BY <1>1 DEF IInv, SocketInv
<1> QED
  BY <1>1, <1>2

(* The last piece of a wire is a piece.                                    *)
LEMMA LastPiece ==
  ASSUME IInv, NEW s \in Stream, wire[s] # <<>>
  PROVE  /\ Last(wire[s]) \in Piece /\ Last(wire[s]).msg \in Msg
         /\ Last(wire[s]) = wire[s][Len(wire[s])] /\ Len(wire[s]) \in DOMAIN wire[s]
<1>1. wire[s] \in Seq(Piece)
  BY DEF IInv, TypeOK
<1>2. Len(wire[s]) \in Nat \ {0} /\ DOMAIN wire[s] = 1 .. Len(wire[s])
  BY <1>1, EmptySeq, LenProperties
<1>3. wire[s][Len(wire[s])] \in Piece
  BY <1>1, <1>2, ElementOfSeq
<1> QED
  BY <1>2, <1>3 DEF Last, Piece

(* A step that writes nothing keeps what is said of the wires, if tasks    *)
(* that are writing stay where they are and no stream comes to life.       *)
LEMMA QuietStep ==
  ASSUME IInv, IInv', WireInv, wire' = wire, result' = result, attempt' = attempt,
         \A s \in Stream :
           /\ stream'[s] = "unused" => stream[s] = "unused"
           /\ stream'[s] = "open" => stream[s] = "open"
           /\ stream'[s] \in {"open", "broken"} => stream[s] \in {"open", "broken"},
         \A c \in Msg : socket'[c] \in {socket[c], None},
         \A m \in Msg :
           /\ pc'[m] = "body" <=> pc[m] = "body"
           /\ pc'[m] = "len" => pc[m] = "len" \/ attempt[m] = 1
           /\ pc[m] \in {"notify", "drop", "done"} => pc'[m] \in {"notify", "drop", "done"}
           /\ pc[m] \in {"len", "body"} => held'[m] = held[m]
  PROVE  PieceInv' /\ BodyInv' /\ FramesIntact' /\ ResultInv' /\ RetryInv'
<1>1. ASSUME NEW m \in Msg, pc[m] \in {"len", "body"}, pc'[m] \in {"len", "body"}
      PROVE  held'[m] = held[m] /\ socket'[held[m]] = socket[held[m]]
  <2>1. held'[m] = held[m] /\ held[m] \in Msg
    BY <1>1, WriterFacts
  <2>2. socket'[held'[m]] # None
    BY <1>1 DEF IInv, TaskInv
  <2> QED
    BY <2>1, <2>2
<1>2. PieceInv'
  <2> SUFFICES ASSUME NEW s \in Stream
               PROVE  /\ stream'[s] = "unused" => wire[s] = <<>>
                      /\ stream'[s] = "open" =>
                           \A i \in DOMAIN wire[s] : wire[s][i].part # "fail"
                      /\ stream'[s] \in {"open", "broken"} /\ wire[s] # <<>>
                         /\ Last(wire[s]).part = "len" =>
                           /\ pc'[Last(wire[s]).msg] = "body"
                           /\ socket'[held'[Last(wire[s]).msg]] = s
    BY DEF PieceInv
  <2>1. ASSUME stream'[s] \in {"open", "broken"}, wire[s] # <<>>, Last(wire[s]).part = "len"
        PROVE  /\ pc'[Last(wire[s]).msg] = "body"
               /\ socket'[held'[Last(wire[s]).msg]] = s
    <3>1. Last(wire[s]).msg \in Msg
      BY <2>1, LastPiece
    <3>2. pc[Last(wire[s]).msg] = "body" /\ socket[held[Last(wire[s]).msg]] = s
      BY <2>1 DEF WireInv, PieceInv
    <3> QED
      BY <3>1, <3>2, <1>1
  <2> QED
    BY <2>1 DEF WireInv, PieceInv
<1>3. BodyInv'
  BY <1>1 DEF WireInv, BodyInv
<1>4. FramesIntact'
  BY DEF WireInv, FramesIntact
<1>5. ResultInv'
  BY DEF WireInv, ResultInv
<1>6. RetryInv'
  <2>1. \A m \in Msg, s \in Stream : FailedOn(m, s)' <=> FailedOn(m, s)
    BY DEF FailedOn
  <2>2. ASSUME NEW m \in Msg, attempt[m] = 2, pc'[m] \in {"len", "body"}
        PROVE  socket'[held'[m]] = <<m, 2>>
    <3>1. pc[m] \in {"len", "body"}
      BY <2>2
    <3> QED
      BY <2>2, <3>1, <1>1 DEF WireInv, RetryInv
  <2>3. \A m \in Msg : <<m, 2>> \in Stream
    BY DEF Stream
  <2> QED
    BY <2>1, <2>2, <2>3 DEF WireInv, RetryInv
<1> QED
  BY <1>2, <1>3, <1>4, <1>5, <1>6

(* References that only go away keep the addresses together.               *)
LEMMA AddrStep ==
  ASSUME WireInv, dest' = dest,
         \A a \in Addr : cache'[a] \in {cache[a], None},
         \A m \in Msg : held'[m] \in {held[m], None},
         \A c \in Msg : socket'[c] \in {socket[c], None}
  PROVE  AddrInv'
  BY DEF WireInv, AddrInv

(* Frames, results and addresses that stay keep the copies.                *)
LEMMA CopyStep ==
  ASSUME WireInv, UNCHANGED <<wire, result, dest>>
  PROVE  CopyInv'
  BY DEF WireInv, CopyInv, CopyAt

(* A stream that exists was connected for a message that was sent.         *)
LEMMA UsedStream ==
  ASSUME IInv, NEW s \in Stream, stream[s] # "unused"
  PROVE  s[1] \in Msg /\ pc[s[1]] # "idle"
<1>1. s[1] \in Msg /\ s[2] \in {1, 2} /\ s = <<s[1], s[2]>>
  BY DEF Stream
<1>2. ASSUME pc[s[1]] = "idle" PROVE FALSE
  <2>1. stream[<<s[1], 1>>] = "unused" /\ stream[<<s[1], 2>>] = "unused"
    BY <1>1, <1>2 DEF IInv, FreshInv
  <2> QED
    BY <1>1, <2>1
<1> QED
  BY <1>1, <1>2

(* A message that is accepted had no part in anything yet.                 *)
LEMMA DestStep ==
  ASSUME IInv, WireInv, UNCHANGED <<cache, held, socket, stream, wire, result>>,
         \A k \in Msg : pc[k] # "idle" => dest'[k] = dest[k]
  PROVE  AddrInv' /\ CopyInv'
<1>1. ASSUME NEW c \in Msg, c \in Referenced(cache, held)
      PROVE  dest'[c] = dest[c]
  BY <1>1 DEF IInv, FreshInv
<1>2. \A a \in Addr : cache[a] # None => cache[a] \in Msg /\ cache[a] \in Referenced(cache, held)
  BY DEF IInv, TypeOK, Referenced
<1>3. \A m \in Msg : held[m] # None =>
        held[m] \in Msg /\ held[m] \in Referenced(cache, held) /\ pc[m] # "idle"
  BY DEF IInv, TypeOK, Referenced, TaskInv
<1>4. ASSUME NEW c \in Msg, socket[c] # None
      PROVE  dest'[c] = dest[c] /\ dest'[socket[c][1]] = dest[socket[c][1]]
  <2>1. socket[c] \in Stream /\ stream[socket[c]] # "unused" /\ c \in Referenced(cache, held)
    BY <1>4 DEF IInv, TypeOK, SocketInv
  <2> QED
    BY <1>1, <2>1, UsedStream
<1>5. AddrInv'
  BY <1>1, <1>2, <1>3, <1>4 DEF WireInv, AddrInv
<1>6. CopyInv'
  <2> SUFFICES ASSUME NEW m \in Msg
               PROVE  /\ result[m] # "ok" => \A s \in Stream : \A i \in DOMAIN wire[s] :
                                               wire[s][i] # Frame(m, "body")
                      /\ result[m] = "ok" =>
                           \E s \in Stream : \E i \in DOMAIN wire[s] : CopyAt(m, s, i)'
    BY DEF CopyInv
  <2>1. CASE result[m] # "ok"
    BY <2>1 DEF WireInv, CopyInv
  <2>2. CASE result[m] = "ok"
    <3>1. PICK s \in Stream : \E i \in DOMAIN wire[s] : CopyAt(m, s, i)
      BY <2>2 DEF WireInv, CopyInv
    <3>2. PICK i \in DOMAIN wire[s] : CopyAt(m, s, i)
      BY <3>1
    <3>3. pc[m] # "idle"
      BY <2>2 DEF WireInv, ResultInv
    <3>4. wire[s] # <<>>
      BY <3>2
    <3>5. s[1] \in Msg /\ pc[s[1]] # "idle"
      BY <3>4, UsedStream DEF WireInv, PieceInv
    <3>6. CopyAt(m, s, i)'
      BY <3>2, <3>3, <3>5 DEF CopyAt
    <3> QED
      BY <2>2, <3>6
  <2> QED
    BY <2>1, <2>2
<1> QED
  BY <1>5, <1>6

-----------------------------------------------------------------------------
(* A write adds one piece at the end of the task's stream.                 *)
LEMMA WriteFacts ==
  ASSUME IInv, NEW m \in Msg, pc[m] \in {"len", "body"},
         NEW part \in {"len", "body", "fail"}, Write(m, part),
         NEW s, s = socket[held[m]], NEW n, n = Len(wire[s])
  PROVE  /\ n \in Nat /\ DOMAIN wire[s] = 1 .. n /\ DOMAIN wire'[s] = 1 .. (n + 1)
         /\ Len(wire'[s]) = n + 1 /\ wire'[s] # <<>>
         /\ \A i \in 1 .. n : wire'[s][i] = wire[s][i] /\ wire[s][i] \in Piece
         /\ wire'[s][n + 1] = Frame(m, part) /\ Last(wire'[s]) = Frame(m, part)
         /\ \A t \in Stream \ {s} : wire'[t] = wire[t]
         /\ \A k \in Msg, t \in Stream : FailedOn(k, t) => FailedOn(k, t)'
<1> DEFINE p == Frame(m, part)
<1>1. s \in Stream /\ wire[s] \in Seq(Piece)
  BY WriterFacts DEF IInv, TypeOK
<1>2. p \in Piece
  BY DEF Piece, Frame
<1>3. wire' = [wire EXCEPT ![s] = Append(wire[s], p)]
  BY DEF Write, Frame
<1>4. wire'[s] = Append(wire[s], p) /\ \A t \in Stream \ {s} : wire'[t] = wire[t]
  BY <1>1, <1>3 DEF IInv, TypeOK
<1> HIDE DEF p
<1>5. /\ n \in Nat /\ DOMAIN wire[s] = 1 .. n
      /\ \A i \in 1 .. n : wire[s][i] \in Piece
  BY <1>1, LenProperties, ElementOfSeq
<1>6. /\ wire'[s] \in Seq(Piece) /\ Len(wire'[s]) = n + 1 /\ wire'[s] # <<>>
      /\ \A i \in 1 .. n : wire'[s][i] = wire[s][i]
      /\ wire'[s][n + 1] = p
  BY <1>1, <1>2, <1>4, AppendProperties
<1>7. DOMAIN wire'[s] = 1 .. (n + 1)
  BY <1>6, LenProperties
<1>8. Last(wire'[s]) = p
  BY <1>6 DEF Last
<1>9. ASSUME NEW k \in Msg, NEW t \in Stream, FailedOn(k, t)
      PROVE  FailedOn(k, t)'
  <2>1. CASE t = s
    <3>1. PICK i \in 1 .. n : wire[s][i] = Frame(k, "fail")
      BY <1>9, <2>1 DEF FailedOn, Contains
    <3>2. i \in 1 .. (n + 1) /\ wire'[s][i] = Frame(k, "fail")
      BY <3>1, <1>5, <1>6
    <3> QED
      BY <2>1, <3>2, <1>6 DEF FailedOn, Contains
  <2>2. CASE t # s
    <3>1. wire'[t] = wire[t]
      BY <2>2, <1>4
    <3> QED
      BY <1>9, <3>1 DEF FailedOn, Contains
  <2> QED
    BY <2>1, <2>2
<1> QED
  BY <1>4, <1>5, <1>6, <1>7, <1>8, <1>9 DEF p

(* A write that follows the order of write_data_to_stream, under the       *)
(* socket's mutex and to a stream in the state the write requires, keeps   *)
(* the frames of that stream whole.                                        *)
LEMMA FramesStep ==
  ASSUME IInv, WireInv, NEW m \in Msg, pc[m] \in {"len", "body"},
         NEW part \in {"len", "body", "fail"}, Write(m, part),
         part \in {"len", "body"} => pc[m] = part /\ stream[socket[held[m]]] # "broken"
  PROVE  FramesIntact'
<1> DEFINE s == socket[held[m]]
           n == Len(wire[s])
           Intact(w, i) ==
             /\ w[i].part = "body" => i > 1 /\ w[i - 1] = [msg |-> w[i].msg, part |-> "len"]
             /\ w[i].part = "len" /\ i < Len(w) => w[i + 1].msg = w[i].msg /\ w[i + 1].part # "len"
             /\ w[i].part = "fail" => \A j \in DOMAIN w : j > i => w[j].part = "fail"
<1>1. /\ s \in Stream /\ stream[s] \in {"open", "broken"}
      /\ s = socket[held[m]] /\ n = Len(wire[s])
  BY WriterFacts
<1> HIDE DEF s, n
<1>2. /\ n \in Nat /\ DOMAIN wire[s] = 1 .. n /\ DOMAIN wire'[s] = 1 .. (n + 1)
      /\ Len(wire'[s]) = n + 1
      /\ \A i \in 1 .. n : wire'[s][i] = wire[s][i] /\ wire[s][i] \in Piece
      /\ wire'[s][n + 1] = Frame(m, part)
      /\ \A t \in Stream \ {s} : wire'[t] = wire[t]
  BY <1>1, WriteFacts
<1>3. /\ pc[m] = "body" => n > 0 /\ wire[s][n] = Frame(m, "len")
      /\ pc[m] = "len" /\ n > 0 => wire[s][n].part # "len"
  <2>1. wire[s] # <<>> => Last(wire[s]) = wire[s][n] /\ Last(wire[s]).msg \in Msg
    BY <1>1, LastPiece
  <2>2. ASSUME pc[m] = "body" PROVE n > 0 /\ wire[s][n] = Frame(m, "len")
    <3>1. wire[s] # <<>> /\ Last(wire[s]) = Frame(m, "len")
      BY <1>1, <2>2 DEF WireInv, BodyInv
    <3>2. n \in DOMAIN wire[s]
      BY <1>1, <3>1, LastPiece
    <3> QED
      BY <1>2, <2>1, <3>1, <3>2
  <2>3. ASSUME pc[m] = "len", n > 0, wire[s][n].part = "len" PROVE FALSE
    <3>1. wire[s] # <<>>
      BY <2>3, <1>2
    <3>2. Last(wire[s]).part = "len" /\ Last(wire[s]).msg \in Msg
      BY <2>1, <2>3, <3>1
    <3>3. pc[Last(wire[s]).msg] = "body" /\ socket[held[Last(wire[s]).msg]] = s
      BY <1>1, <3>1, <3>2 DEF WireInv, PieceInv
    <3>4. Last(wire[s]).msg = m
      BY <1>1, <3>2, <3>3, OneWriter
    <3> QED
      BY <2>3, <3>3, <3>4
  <2> QED
    BY <2>2, <2>3
<1>4. part \in {"len", "body"} => \A i \in 1 .. n : wire[s][i].part # "fail"
  <2>1. part \in {"len", "body"} => stream[s] = "open"
    BY <1>1
  <2> QED
    BY <1>1, <1>2, <2>1 DEF WireInv, PieceInv
<1>5. \A i \in 1 .. n : Intact(wire[s], i)
  BY <1>1, <1>2 DEF WireInv, FramesIntact
<1>6. \A t \in Stream \ {s} : \A i \in DOMAIN wire[t] : Intact(wire[t], i)
  BY DEF WireInv, FramesIntact
<1>7. Frame(m, part).msg = m /\ Frame(m, part).part = part
  BY DEF Frame
<1>8. ASSUME NEW i \in 1 .. (n + 1) PROVE Intact(wire'[s], i)
  <2>1. CASE i = n + 1
    <3>1. part = "body" => n > 0 /\ wire'[s][n] = Frame(m, "len")
      BY <1>2, <1>3
    <3> QED
      BY <2>1, <3>1, <1>2, <1>7 DEF Frame
  <2>2. CASE i # n + 1
    <3>1. i \in 1 .. n /\ wire'[s][i] = wire[s][i] /\ Intact(wire[s], i)
      BY <2>2, <1>2, <1>5
    <3>2. wire[s][i].part = "body" =>
            i > 1 /\ wire'[s][i - 1] = [msg |-> wire[s][i].msg, part |-> "len"]
      BY <3>1, <1>2
    <3>3. ASSUME wire[s][i].part = "len"
          PROVE  wire'[s][i + 1].msg = wire[s][i].msg /\ wire'[s][i + 1].part # "len"
      <4>1. CASE i < n
        <5>1. wire'[s][i + 1] = wire[s][i + 1]
          BY <3>1, <4>1, <1>2
        <5> QED
          BY <3>1, <3>3, <4>1, <5>1 DEF n
      <4>2. CASE i = n
        <5>1. pc[m] = "body" /\ wire[s][n] = Frame(m, "len")
          BY <3>1, <3>3, <4>2, <1>3
        <5>2. part # "len"
          BY <5>1
        <5> QED
          BY <4>2, <5>1, <5>2, <1>2, <1>7 DEF Frame
      <4> QED
        BY <3>1, <4>1, <4>2, <1>2
    <3>4. ASSUME wire[s][i].part = "fail", NEW j \in 1 .. (n + 1), j > i
          PROVE  wire'[s][j].part = "fail"
      <4>1. part = "fail"
        BY <3>1, <3>4, <1>4
      <4>2. CASE j = n + 1
        BY <4>1, <4>2, <1>2, <1>7
      <4>3. CASE j # n + 1
        BY <3>1, <3>4, <4>3, <1>2
      <4> QED
        BY <4>2, <4>3
    <3> QED
      BY <3>1, <3>2, <3>3, <3>4, <1>2
  <2> QED
    BY <2>1, <2>2
<1>9. ASSUME NEW t \in Stream, NEW i \in DOMAIN wire'[t] PROVE Intact(wire'[t], i)
  <2>1. CASE t = s
    BY <1>2, <1>8, <1>9, <2>1
  <2>2. CASE t # s
    <3>1. wire'[t] = wire[t]
      BY <1>2, <2>2
    <3> HIDE DEF Intact
    <3> QED
      BY <1>6, <1>9, <2>2, <3>1
  <2> QED
    BY <2>1, <2>2
<1> QED
  BY <1>9 DEF FramesIntact

(* What every outcome of a write keeps: the task goes on to pc q, and its  *)
(* stream stays its connection's socket unless it was closed.              *)
LEMMA WriteStep ==
  ASSUME IInv, WireInv, NEW m \in Msg, pc[m] \in {"len", "body"},
         NEW part \in {"len", "body", "fail"}, Write(m, part),
         part \in {"len", "body"} => pc[m] = part /\ stream[socket[held[m]]] # "broken",
         part = "fail" => stream[socket[held[m]]] = "broken",
         NEW q, pc' = [pc EXCEPT ![m] = q], q = "body" <=> part = "len",
         UNCHANGED <<held, dest, cache>>,
         \/ UNCHANGED <<stream, socket>>
         \/ /\ part = "fail"
            /\ stream' = [stream EXCEPT ![socket[held[m]]] = "closed"]
            /\ socket' = [socket EXCEPT ![held[m]] = None]
  PROVE  PieceInv' /\ BodyInv' /\ FramesIntact' /\ AddrInv'
<1> DEFINE s == socket[held[m]]
           n == Len(wire[s])
<1>1. /\ s \in Stream /\ stream[s] \in {"open", "broken"} /\ held[m] \in Msg
      /\ s # None /\ s = socket[held[m]] /\ n = Len(wire[s])
  BY WriterFacts
<1> HIDE DEF s, n
<1>2. /\ n \in Nat /\ DOMAIN wire[s] = 1 .. n /\ DOMAIN wire'[s] = 1 .. (n + 1)
      /\ Len(wire'[s]) = n + 1 /\ wire'[s] # <<>>
      /\ \A i \in 1 .. n : wire'[s][i] = wire[s][i] /\ wire[s][i] \in Piece
      /\ wire'[s][n + 1] = Frame(m, part) /\ Last(wire'[s]) = Frame(m, part)
      /\ \A t \in Stream \ {s} : wire'[t] = wire[t]
  BY <1>1, WriteFacts
<1>3. FramesIntact'
  BY FramesStep
<1>4. /\ pc'[m] = q /\ \A k \in Msg \ {m} : pc'[k] = pc[k]
      /\ \A t \in Stream \ {s} : stream'[t] = stream[t]
      /\ \A c \in Msg \ {held[m]} : socket'[c] = socket[c]
      /\ stream'[s] \in {stream[s], "closed"}
      /\ socket'[held[m]] \in {s, None}
      /\ part # "fail" => stream' = stream /\ socket' = socket
  BY <1>1 DEF IInv, TypeOK
<1>5. Frame(m, part).msg = m /\ Frame(m, part).part = part
  BY DEF Frame
<1>6. ASSUME NEW k \in Msg, k # m, pc[k] = "body"
      PROVE  /\ socket[held[k]] \in Stream \ {s}
             /\ held[k] \in Msg \ {held[m]}
  <2>1. socket[held[k]] \in Stream /\ held[k] \in Msg
    BY <1>6, WriterFacts
  <2>2. socket[held[k]] # s
    BY <1>1, <1>6, OneWriter
  <2> QED
    BY <1>1, <2>1, <2>2
<1>7. PieceInv'
  <2> SUFFICES ASSUME NEW t \in Stream
               PROVE  /\ stream'[t] = "unused" => wire'[t] = <<>>
                      /\ stream'[t] = "open" =>
                           \A i \in DOMAIN wire'[t] : wire'[t][i].part # "fail"
                      /\ stream'[t] \in {"open", "broken"} /\ wire'[t] # <<>>
                         /\ Last(wire'[t]).part = "len" =>
                           /\ pc'[Last(wire'[t]).msg] = "body"
                           /\ socket'[held'[Last(wire'[t]).msg]] = t
    BY DEF PieceInv
  <2>1. CASE t = s
    <3>1. stream'[s] # "unused"
      BY <1>1, <1>4
    <3>2. ASSUME stream'[s] = "open", NEW i \in DOMAIN wire'[s]
          PROVE  wire'[s][i].part # "fail"
      <4>1. stream[s] = "open" /\ part # "fail"
        BY <1>1, <1>4, <3>2
      <4>2. \A j \in 1 .. n : wire[s][j].part # "fail"
        BY <1>1, <1>2, <4>1 DEF WireInv, PieceInv
      <4> QED
        BY <1>2, <1>5, <4>1, <4>2
    <3>3. ASSUME Last(wire'[s]).part = "len"
          PROVE  pc'[Last(wire'[s]).msg] = "body" /\ socket'[held'[Last(wire'[s]).msg]] = s
      <4>1. part = "len" /\ Last(wire'[s]).msg = m
        BY <1>2, <1>5, <3>3
      <4> QED
        BY <1>1, <1>4, <4>1
    <3> QED
      BY <2>1, <3>1, <3>2, <3>3
  <2>2. CASE t # s
    <3>1. wire'[t] = wire[t] /\ stream'[t] = stream[t]
      BY <1>2, <1>4, <2>2
    <3>2. ASSUME stream[t] \in {"open", "broken"}, wire[t] # <<>>, Last(wire[t]).part = "len"
          PROVE  pc'[Last(wire[t]).msg] = "body" /\ socket'[held'[Last(wire[t]).msg]] = t
      <4> DEFINE k == Last(wire[t]).msg
      <4>1. k \in Msg /\ pc[k] = "body" /\ socket[held[k]] = t
        BY <3>2, LastPiece DEF WireInv, PieceInv
      <4>2. k # m
        BY <1>1, <2>2, <4>1
      <4> HIDE DEF k
      <4>3. pc'[k] = "body" /\ socket'[held'[k]] = t
        BY <1>4, <1>6, <4>1, <4>2
      <4> QED
        BY <4>3 DEF k
    <3> QED
      BY <3>1, <3>2 DEF WireInv, PieceInv
  <2> QED
    BY <2>1, <2>2
<1>8. BodyInv'
  <2> SUFFICES ASSUME NEW k \in Msg, pc'[k] = "body"
               PROVE  /\ wire'[socket'[held'[k]]] # <<>>
                      /\ Last(wire'[socket'[held'[k]]]) = Frame(k, "len")
    BY DEF BodyInv
  <2>1. CASE k = m
    <3>1. part = "len" /\ socket'[held'[m]] = s
      BY <1>1, <1>4, <2>1
    <3> QED
      BY <1>2, <2>1, <3>1
  <2>2. CASE k # m
    <3>1. pc[k] = "body" /\ socket'[held'[k]] = socket[held[k]]
          /\ wire'[socket[held[k]]] = wire[socket[held[k]]]
      BY <1>2, <1>4, <1>6, <2>2
    <3> QED
      BY <3>1 DEF WireInv, BodyInv
  <2> QED
    BY <2>1, <2>2
<1>9. AddrInv'
  <2>1. \A c \in Msg : socket'[c] \in {socket[c], None}
    BY <1>1, <1>4
  <2> QED
    BY <2>1, AddrStep
<1> QED
  BY <1>3, <1>7, <1>8, <1>9

(* A piece that is not a body leaves every message's copies as they were.  *)
LEMMA NoCopyWritten ==
  ASSUME IInv, WireInv, NEW m \in Msg, pc[m] \in {"len", "body"},
         NEW part \in {"len", "fail"}, Write(m, part), dest' = dest,
         \A k \in Msg : result'[k] = "ok" <=> result[k] = "ok"
  PROVE  CopyInv'
<1> DEFINE s == socket[held[m]]
           n == Len(wire[s])
<1>1. s \in Stream /\ s = socket[held[m]] /\ n = Len(wire[s])
  BY WriterFacts
<1> HIDE DEF s, n
<1>2. /\ n \in Nat /\ DOMAIN wire[s] = 1 .. n /\ DOMAIN wire'[s] = 1 .. (n + 1)
      /\ \A i \in 1 .. n : wire'[s][i] = wire[s][i]
      /\ wire'[s][n + 1] = Frame(m, part)
      /\ \A t \in Stream \ {s} : wire'[t] = wire[t]
  BY <1>1, WriteFacts
<1>3. \A k \in Msg : Frame(m, part) # Frame(k, "body")
  BY DEF Frame
<1>4. \A t \in Stream : \A j \in DOMAIN wire[t] : j \in DOMAIN wire'[t] /\ wire'[t][j] = wire[t][j]
  BY <1>2
<1>5. \A t \in Stream : \A j \in DOMAIN wire'[t] : \A k \in Msg :
        wire'[t][j] = Frame(k, "body") => j \in DOMAIN wire[t] /\ wire[t][j] = Frame(k, "body")
  <2> SUFFICES ASSUME NEW t \in Stream, NEW j \in DOMAIN wire'[t], NEW k \in Msg,
                      wire'[t][j] = Frame(k, "body")
               PROVE  j \in DOMAIN wire[t] /\ wire[t][j] = Frame(k, "body")
    OBVIOUS
  <2>1. CASE t = s
    BY <1>2, <1>3, <2>1
  <2>2. CASE t # s
    BY <1>2, <2>2
  <2> QED
    BY <2>1, <2>2
<1>6. \A k \in Msg, t \in Stream : \A i \in DOMAIN wire[t] : CopyAt(k, t, i) => CopyAt(k, t, i)'
  BY <1>4, <1>5 DEF CopyAt
<1> QED
  BY <1>4, <1>5, <1>6 DEF WireInv, CopyInv

(* The length of a frame goes out.                                         *)
LEMMA WriteLenWireInv ==
  ASSUME IInv, WireInv, NEW m \in Msg, WriteLen(m)
  PROVE  WireInv'
<1>1. /\ pc[m] = "len" /\ stream[socket[held[m]]] # "broken" /\ Write(m, "len")
      /\ pc' = [pc EXCEPT ![m] = "body"]
      /\ UNCHANGED <<dest, cache, attempt, result, held, socket, stream>>
  BY DEF WriteLen
<1>2. PieceInv' /\ BodyInv' /\ FramesIntact' /\ AddrInv'
  BY <1>1, WriteStep
<1>3. CopyInv'
  BY <1>1, NoCopyWritten
<1>4. ResultInv'
  BY <1>1 DEF WireInv, ResultInv, IInv, TypeOK
<1>5. RetryInv'
  <2>1. \A k \in Msg, t \in Stream : FailedOn(k, t) => FailedOn(k, t)'
    BY <1>1, WriteFacts
  <2>2. \A k \in Msg : pc'[k] \in {"len", "body"} => pc[k] \in {"len", "body"}
    BY <1>1 DEF IInv, TypeOK
  <2>3. \A k \in Msg : <<k, 2>> \in Stream
    BY DEF Stream
  <2> QED
    BY <1>1, <2>1, <2>2, <2>3 DEF WireInv, RetryInv
<1> QED
  BY <1>2, <1>3, <1>4, <1>5 DEF WireInv

(* The body completes the frame, and there was no complete one before.     *)
LEMMA WriteBodyWireInv ==
  ASSUME IInv, WireInv, NEW m \in Msg, WriteBody(m)
  PROVE  WireInv'
<1>1. /\ pc[m] = "body" /\ stream[socket[held[m]]] # "broken" /\ Write(m, "body")
      /\ pc' = [pc EXCEPT ![m] = "notify"]
      /\ result' = [result EXCEPT ![m] = "ok"]
      /\ UNCHANGED <<dest, cache, attempt, held, socket, stream>>
  BY DEF WriteBody, Return
<1>2. PieceInv' /\ BodyInv' /\ FramesIntact' /\ AddrInv'
  BY <1>1, WriteStep
<1>a. PICK s \in Stream : s = socket[held[m]]
  BY <1>1, WriterFacts
<1>b. PICK n : n = Len(wire[s])
  OBVIOUS
<1>3. held[m] \in Msg /\ s # None /\ held[m] # None
  BY <1>1, <1>a, WriterFacts, SenderAssumption
<1>4. /\ n \in Nat /\ DOMAIN wire[s] = 1 .. n /\ DOMAIN wire'[s] = 1 .. (n + 1)
      /\ \A i \in 1 .. n : wire'[s][i] = wire[s][i]
      /\ wire'[s][n + 1] = Frame(m, "body")
      /\ \A t \in Stream \ {s} : wire'[t] = wire[t]
      /\ \A k \in Msg, t \in Stream : FailedOn(k, t) => FailedOn(k, t)'
  BY <1>1, <1>a, <1>b, WriteFacts
<1>5. \A k \in Msg : k # m => pc'[k] = pc[k] /\ result'[k] = result[k]
  BY <1>1 DEF IInv, TypeOK
<1>6. pc'[m] = "notify" /\ result'[m] = "ok" /\ result[m] = "none"
  BY <1>1 DEF WireInv, ResultInv, IInv, TypeOK
<1>7. ResultInv'
  BY <1>5, <1>6 DEF WireInv, ResultInv
<1>8. RetryInv'
  <2>1. \A k \in Msg : <<k, 2>> \in Stream
    BY DEF Stream
  <2> QED
    BY <1>1, <1>4, <1>5, <1>6, <2>1 DEF WireInv, RetryInv
<1>9. CopyInv'
  <2>1. \A t \in Stream : \A j \in DOMAIN wire'[t] :
          \/ j \in DOMAIN wire[t] /\ wire'[t][j] = wire[t][j]
          \/ t = s /\ j = n + 1
    <3> SUFFICES ASSUME NEW t \in Stream, NEW j \in DOMAIN wire'[t]
                 PROVE  \/ j \in DOMAIN wire[t] /\ wire'[t][j] = wire[t][j]
                        \/ t = s /\ j = n + 1
      OBVIOUS
    <3>1. CASE t = s
      BY <3>1, <1>4
    <3>2. CASE t # s
      BY <3>2, <1>4
    <3> QED
      BY <3>1, <3>2
  <2>2. \A t \in Stream : \A j \in DOMAIN wire[t] : j \in DOMAIN wire'[t] /\ wire'[t][j] = wire[t][j]
    BY <1>4
  <2>3. n + 1 \in DOMAIN wire'[s] /\ n + 1 \notin DOMAIN wire[s]
    BY <1>4
  <2>4. CopyAt(m, s, n + 1)'
    <3>1. dest'[s[1]] = dest'[m]
      BY <1>1, <1>a, <1>3 DEF WireInv, AddrInv
    <3>2. \A t \in Stream : \A j \in DOMAIN wire[t] : wire[t][j] # Frame(m, "body")
      BY <1>6 DEF WireInv, CopyInv
    <3> QED
      BY <2>1, <2>3, <3>1, <3>2, <1>4 DEF CopyAt
  <2>5. ASSUME NEW k \in Msg, k # m
        PROVE  /\ \A t \in Stream : \A j \in DOMAIN wire'[t] : wire'[t][j] = Frame(k, "body") =>
                    j \in DOMAIN wire[t] /\ wire[t][j] = Frame(k, "body")
               /\ \A t \in Stream : \A i \in DOMAIN wire[t] : CopyAt(k, t, i) => CopyAt(k, t, i)'
    <3>1. Frame(m, "body") # Frame(k, "body")
      BY <2>5 DEF Frame
    <3>2. \A t \in Stream : \A j \in DOMAIN wire'[t] : wire'[t][j] = Frame(k, "body") =>
            j \in DOMAIN wire[t] /\ wire[t][j] = Frame(k, "body")
      BY <2>1, <3>1, <1>4
    <3> QED
      BY <2>2, <3>2, <1>1 DEF CopyAt
  <2> QED
    BY <1>3, <1>5, <1>6, <2>2, <2>3, <2>4, <2>5 DEF WireInv, CopyInv
<1> QED
  BY <1>2, <1>7, <1>8, <1>9 DEF WireInv

(* The first failure: the stream goes, and the second attempt starts.      *)
LEMMA WriteFailRetryWireInv ==
  ASSUME IInv, WireInv, NEW m \in Msg, WriteFailRetry(m)
  PROVE  WireInv'
<1>1. /\ pc[m] \in {"len", "body"} /\ attempt[m] = 1
      /\ stream[socket[held[m]]] = "broken" /\ Write(m, "fail")
      /\ stream' = [stream EXCEPT ![socket[held[m]]] = "closed"]
      /\ socket' = [socket EXCEPT ![held[m]] = None]
      /\ attempt' = [attempt EXCEPT ![m] = 2]
      /\ pc' = [pc EXCEPT ![m] = "connect"]
      /\ UNCHANGED <<dest, cache, result, held>>
  BY DEF WriteFailRetry
<1>2. PieceInv' /\ BodyInv' /\ FramesIntact' /\ AddrInv'
  BY <1>1, WriteStep
<1>3. CopyInv'
  BY <1>1, NoCopyWritten
<1>4. /\ pc'[m] = "connect" /\ attempt'[m] = 2
      /\ \A k \in Msg : k # m => pc'[k] = pc[k] /\ attempt'[k] = attempt[k]
  BY <1>1 DEF IInv, TypeOK
<1>5. ResultInv'
  BY <1>1, <1>4 DEF WireInv, ResultInv
<1>6. RetryInv'
  <2>1. PICK s \in Stream : s = socket[held[m]]
    BY <1>1, WriterFacts
  <2>2. PICK n : n = Len(wire[s])
    OBVIOUS
  <2>3. /\ n \in Nat /\ Len(wire'[s]) = n + 1 /\ wire'[s][n + 1] = Frame(m, "fail")
        /\ \A k \in Msg, t \in Stream : FailedOn(k, t) => FailedOn(k, t)'
    BY <1>1, <2>1, <2>2, WriteFacts
  <2>4. FailedOn(m, s)'
    BY <2>3 DEF FailedOn, Contains
  <2>5. s # <<m, 2>>
    BY <1>1, <2>1 DEF IInv, FreshInv
  <2>6. result[m] = "none"
    BY <1>1 DEF WireInv, ResultInv
  <2>7. ASSUME NEW k \in Msg, k # m, pc[k] \in {"len", "body"}
        PROVE  socket'[held[k]] = socket[held[k]]
    <3>1. held[k] \in Msg /\ held[m] \in Msg /\ lock[held[k]] = k /\ lock[held[m]] = m
      BY <1>1, <2>7, WriterFacts
    <3>2. held[k] # held[m]
      BY <2>7, <3>1
    <3> QED
      BY <1>1, <3>1, <3>2 DEF IInv, TypeOK
  <2>8. \A k \in Msg : <<k, 2>> \in Stream
    BY DEF Stream
  <2>9. ASSUME NEW k \in Msg
        PROVE  /\ attempt'[k] = 2 => \E t \in Stream \ {<<k, 2>>} : FailedOn(k, t)'
               /\ attempt'[k] = 2 /\ pc'[k] \in {"len", "body"} => socket'[held'[k]] = <<k, 2>>
               /\ result'[k] = "send_failed" => attempt'[k] = 2 /\ FailedOn(k, <<k, 2>>)'
    <3>1. CASE k = m
      BY <1>1, <1>4, <2>4, <2>5, <2>6, <3>1
    <3>2. CASE k # m
      BY <1>1, <1>4, <2>3, <2>7, <2>8, <3>2 DEF WireInv, RetryInv
    <3> QED
      BY <3>1, <3>2
  <2> QED
    BY <2>9 DEF RetryInv
<1> QED
  BY <1>2, <1>3, <1>5, <1>6 DEF WireInv

(* The second failure: it was on the stream of the second attempt.         *)
LEMMA WriteFailGiveUpWireInv ==
  ASSUME IInv, WireInv, NEW m \in Msg, WriteFailGiveUp(m)
  PROVE  WireInv'
<1>1. /\ pc[m] \in {"len", "body"} /\ attempt[m] = 2
      /\ stream[socket[held[m]]] = "broken" /\ Write(m, "fail")
      /\ pc' = [pc EXCEPT ![m] = "notify"]
      /\ result' = [result EXCEPT ![m] = "send_failed"]
      /\ UNCHANGED <<dest, cache, attempt, held, socket, stream>>
  BY DEF WriteFailGiveUp, Return
<1>2. PieceInv' /\ BodyInv' /\ FramesIntact' /\ AddrInv'
  BY <1>1, WriteStep
<1>3. /\ pc'[m] = "notify" /\ result'[m] = "send_failed" /\ result[m] = "none"
      /\ \A k \in Msg : k # m => pc'[k] = pc[k] /\ result'[k] = result[k]
  BY <1>1 DEF WireInv, ResultInv, IInv, TypeOK
<1>4. CopyInv'
  <2>1. \A k \in Msg : result'[k] = "ok" <=> result[k] = "ok"
    BY <1>3
  <2> QED
    BY <1>1, <2>1, NoCopyWritten
<1>5. ResultInv'
  BY <1>3 DEF WireInv, ResultInv
<1>6. RetryInv'
  <2>1. PICK s \in Stream : s = socket[held[m]]
    BY <1>1, WriterFacts
  <2>2. PICK n : n = Len(wire[s])
    OBVIOUS
  <2>3. /\ n \in Nat /\ Len(wire'[s]) = n + 1 /\ wire'[s][n + 1] = Frame(m, "fail")
        /\ \A k \in Msg, t \in Stream : FailedOn(k, t) => FailedOn(k, t)'
    BY <1>1, <2>1, <2>2, WriteFacts
  <2>4. s = <<m, 2>>
    BY <1>1, <2>1 DEF WireInv, RetryInv
  <2>5. FailedOn(m, s)'
    BY <2>3 DEF FailedOn, Contains
  <2>6. \A k \in Msg : <<k, 2>> \in Stream
    BY DEF Stream
  <2>7. ASSUME NEW k \in Msg
        PROVE  /\ attempt'[k] = 2 => \E t \in Stream \ {<<k, 2>>} : FailedOn(k, t)'
               /\ attempt'[k] = 2 /\ pc'[k] \in {"len", "body"} => socket'[held'[k]] = <<k, 2>>
               /\ result'[k] = "send_failed" => attempt'[k] = 2 /\ FailedOn(k, <<k, 2>>)'
    <3>1. CASE k = m
      <4>1. \E t \in Stream \ {<<m, 2>>} : FailedOn(m, t)'
        BY <1>1, <2>3 DEF WireInv, RetryInv
      <4>2. FailedOn(m, <<m, 2>>)'
        BY <2>4, <2>5
      <4> QED
        BY <1>1, <1>3, <3>1, <4>1, <4>2
    <3>2. CASE k # m
      BY <1>1, <1>3, <2>3, <2>6, <3>2 DEF WireInv, RetryInv
    <3> QED
      BY <3>1, <3>2
  <2> QED
    BY <2>7 DEF RetryInv
<1> QED
  BY <1>2, <1>4, <1>5, <1>6 DEF WireInv

(* A fresh stream is blank, and belongs to the connection's address.       *)
LEMMA ConnectOkWireInv ==
  ASSUME IInv, WireInv, NEW m \in Msg, ConnectOk(m)
  PROVE  WireInv'
<1>1. PICK s \in Stream : s = <<m, attempt[m]>>
  BY DEF IInv, TypeOK, Stream
<1>2. /\ pc[m] = "connect"
      /\ socket' = [socket EXCEPT ![held[m]] = s]
      /\ stream' = [stream EXCEPT ![s] = "open"]
      /\ pc' = [pc EXCEPT ![m] = "len"]
      /\ UNCHANGED <<dest, cache, attempt, result, held, wire>>
  BY <1>1 DEF ConnectOk
<1>3. /\ held[m] \in Msg /\ held[m] # None /\ lock[held[m]] = m
      /\ stream[s] = "unused" /\ wire[s] = <<>> /\ DOMAIN wire[s] = {}
  <2>1. held[m] \in Msg /\ held[m] # None /\ lock[held[m]] = m
    BY <1>2, SenderAssumption DEF IInv, TypeOK, TaskInv, Critical
  <2>2. stream[s] = "unused"
    BY <1>1, <1>2 DEF IInv, FreshInv
  <2>3. wire[s] = <<>>
    BY <2>2 DEF WireInv, PieceInv
  <2> QED
    BY <2>1, <2>2, <2>3
<1>4. /\ pc'[m] = "len" /\ \A k \in Msg : k # m => pc'[k] = pc[k]
      /\ stream'[s] = "open" /\ \A t \in Stream : t # s => stream'[t] = stream[t]
      /\ socket'[held[m]] = s /\ \A c \in Msg : c # held[m] => socket'[c] = socket[c]
  BY <1>2, <1>3 DEF IInv, TypeOK
<1>5. ASSUME NEW k \in Msg, pc[k] \in {"len", "body"}
      PROVE  k # m /\ held[k] \in Msg /\ socket'[held[k]] = socket[held[k]] /\ pc'[k] = pc[k]
  <2>1. held[k] \in Msg /\ lock[held[k]] = k
    BY <1>5, WriterFacts
  <2> QED
    BY <1>2, <1>3, <1>4, <1>5, <2>1
<1>6. PieceInv'
  <2> SUFFICES ASSUME NEW t \in Stream
               PROVE  /\ stream'[t] = "unused" => wire[t] = <<>>
                      /\ stream'[t] = "open" =>
                           \A i \in DOMAIN wire[t] : wire[t][i].part # "fail"
                      /\ stream'[t] \in {"open", "broken"} /\ wire[t] # <<>>
                         /\ Last(wire[t]).part = "len" =>
                           /\ pc'[Last(wire[t]).msg] = "body"
                           /\ socket'[held[Last(wire[t]).msg]] = t
    BY <1>2 DEF PieceInv
  <2>1. CASE t = s
    BY <1>3, <1>4, <2>1
  <2>2. CASE t # s
    <3>1. ASSUME stream[t] \in {"open", "broken"}, wire[t] # <<>>, Last(wire[t]).part = "len"
          PROVE  pc'[Last(wire[t]).msg] = "body" /\ socket'[held[Last(wire[t]).msg]] = t
      BY <3>1, <1>5, LastPiece DEF WireInv, PieceInv
    <3> QED
      BY <1>4, <2>2, <3>1 DEF WireInv, PieceInv
  <2> QED
    BY <2>1, <2>2
<1>7. BodyInv'
  <2> SUFFICES ASSUME NEW k \in Msg, pc'[k] = "body"
               PROVE  wire[socket'[held[k]]] # <<>> /\ Last(wire[socket'[held[k]]]) = Frame(k, "len")
    BY <1>2 DEF BodyInv
  <2>1. pc[k] = "body" /\ socket'[held[k]] = socket[held[k]]
    BY <1>4, <1>5
  <2> QED
    BY <2>1 DEF WireInv, BodyInv
<1>8. FramesIntact'
  BY <1>2 DEF WireInv, FramesIntact
<1>9. ResultInv'
  BY <1>2, <1>4 DEF WireInv, ResultInv
<1>10. AddrInv'
  <2>1. dest[held[m]] = dest[m] /\ s[1] = m
    BY <1>1, <1>3 DEF WireInv, AddrInv
  <2>2. \A c \in Msg : socket'[c] # None => dest[socket'[c][1]] = dest[c]
    BY <1>4, <2>1 DEF WireInv, AddrInv
  <2> QED
    BY <1>2, <2>2 DEF WireInv, AddrInv
<1>11. CopyInv'
  BY <1>2, CopyStep
<1>12. RetryInv'
  <2>1. \A k \in Msg, t \in Stream : FailedOn(k, t)' <=> FailedOn(k, t)
    BY <1>2 DEF FailedOn
  <2>2. ASSUME NEW k \in Msg, attempt[k] = 2, pc'[k] \in {"len", "body"}
        PROVE  socket'[held[k]] = <<k, 2>>
    <3>1. CASE k = m
      BY <1>1, <1>4, <2>2, <3>1
    <3>2. CASE k # m
      BY <1>4, <1>5, <2>2, <3>2 DEF WireInv, RetryInv
    <3> QED
      BY <3>1, <3>2
  <2>3. \A k \in Msg : <<k, 2>> \in Stream
    BY DEF Stream
  <2> QED
    BY <1>2, <2>1, <2>2, <2>3 DEF WireInv, RetryInv
<1> QED
  BY <1>6, <1>7, <1>8, <1>9, <1>10, <1>11, <1>12 DEF WireInv

(* A failed connect returns an error and touches no stream.                *)
LEMMA ConnectFailWireInv ==
  ASSUME IInv, WireInv, NEW m \in Msg, ConnectFail(m)
  PROVE  WireInv'
<1>1. /\ pc[m] = "connect"
      /\ pc' = [pc EXCEPT ![m] = "notify"]
      /\ result' = [result EXCEPT ![m] = "connection_failed"]
      /\ UNCHANGED <<dest, cache, attempt, held, socket, stream, wire>>
  BY DEF ConnectFail, Return
<1>2. /\ pc'[m] = "notify" /\ result'[m] = "connection_failed" /\ result[m] = "none"
      /\ \A k \in Msg : k # m => pc'[k] = pc[k] /\ result'[k] = result[k]
  BY <1>1 DEF WireInv, ResultInv, IInv, TypeOK
<1>3. PieceInv'
  <2>1. \A k \in Msg : pc[k] = "body" => pc'[k] = "body"
    BY <1>1, <1>2
  <2> QED
    BY <1>1, <2>1, LastPiece DEF WireInv, PieceInv
<1>4. BodyInv' /\ FramesIntact' /\ ResultInv' /\ AddrInv'
  BY <1>1, <1>2 DEF WireInv, BodyInv, FramesIntact, ResultInv, AddrInv
<1>5. CopyInv'
  <2>1. \A k \in Msg : result'[k] = "ok" <=> result[k] = "ok"
    BY <1>2
  <2>2. \A k \in Msg, s \in Stream : \A i \in DOMAIN wire[s] : CopyAt(k, s, i)' <=> CopyAt(k, s, i)
    BY <1>1 DEF CopyAt
  <2> QED
    BY <1>1, <2>1, <2>2 DEF WireInv, CopyInv
<1>6. RetryInv'
  <2>1. \A k \in Msg, t \in Stream : FailedOn(k, t)' <=> FailedOn(k, t)
    BY <1>1 DEF FailedOn
  <2>2. \A k \in Msg : <<k, 2>> \in Stream
    BY DEF Stream
  <2> QED
    BY <1>1, <1>2, <2>1, <2>2 DEF WireInv, RetryInv
<1> QED
  BY <1>3, <1>4, <1>5, <1>6 DEF WireInv

-----------------------------------------------------------------------------
(* Moving references only takes sockets away and starts shutdowns.         *)
LEMMA ReferencesQuiet ==
  ASSUME IInv, NEW ca, NEW he, SetReferences(ca, he)
  PROVE  /\ cache' = ca /\ held' = he
         /\ \A c \in Msg : socket'[c] \in {socket[c], None}
         /\ \A s \in Stream : stream'[s] \in {stream[s], "closing"}
  BY DEF SetReferences, IInv, TypeOK

(* The steps of a task that write nothing.                                 *)
LEMMA TaskWireInv ==
  ASSUME IInv, IInv', WireInv, NEW m \in Msg, Task(m)
  PROVE  WireInv'
<1>1. UNCHANGED <<wire, result, attempt, dest, cache>>
  BY DEF Task, LockSocket, Notify, DropConnection, SetReferences
<1>2. /\ \A c \in Msg : socket'[c] \in {socket[c], None}
      /\ \A s \in Stream : stream'[s] \in {stream[s], "closing"}
  BY ReferencesQuiet DEF Task, LockSocket, Notify, DropConnection
<1>3. \A k \in Msg : k # m => pc'[k] = pc[k] /\ held'[k] = held[k]
  BY DEF Task, LockSocket, Notify, DropConnection, SetReferences, IInv, TypeOK
<1>4. /\ held'[m] \in {held[m], None}
      /\ pc[m] \in {"lock", "notify", "drop"}
      /\ pc[m] = "lock" => pc'[m] \in {"connect", "len"} /\ attempt[m] = 1
      /\ pc[m] # "lock" => pc'[m] \in {"drop", "done"}
  BY DEF Task, LockSocket, Notify, DropConnection, SetReferences, IInv, TypeOK, FreshInv
<1>5. AddrInv' /\ CopyInv'
  <2>1. \A k \in Msg : held'[k] \in {held[k], None}
    BY <1>3, <1>4
  <2> QED
    BY <1>1, <1>2, <2>1, AddrStep, CopyStep
<1>6. \A k \in Msg :
        /\ pc'[k] = "body" <=> pc[k] = "body"
        /\ pc'[k] = "len" => pc[k] = "len" \/ attempt[k] = 1
        /\ pc[k] \in {"notify", "drop", "done"} => pc'[k] \in {"notify", "drop", "done"}
        /\ pc[k] \in {"len", "body"} => held'[k] = held[k]
  BY <1>3, <1>4
<1>7. PieceInv' /\ BodyInv' /\ FramesIntact' /\ ResultInv' /\ RetryInv'
  BY <1>1, <1>2, <1>6, QuietStep
<1> QED
  BY <1>5, <1>7 DEF WireInv

(* The steps that move no task: eviction, the end of the loops, the        *)
(* shutdown of a stream and the peer's reset.                              *)
LEMMA BackgroundWireInv ==
  ASSUME IInv, IInv', WireInv, UNCHANGED <<wire, result, attempt, dest, pc, held>>,
         \A a \in Addr : cache'[a] \in {cache[a], None},
         \A c \in Msg : socket'[c] \in {socket[c], None},
         \A s \in Stream :
           \/ stream'[s] \in {stream[s], "closing", "closed"}
           \/ stream[s] = "open" /\ stream'[s] = "broken"
  PROVE  WireInv'
<1>1. AddrInv' /\ CopyInv'
  BY AddrStep, CopyStep
<1>2. PieceInv' /\ BodyInv' /\ FramesIntact' /\ ResultInv' /\ RetryInv'
  BY QuietStep
<1> QED
  BY <1>1, <1>2 DEF WireInv

(* The evictor drops a connection from the cache.                          *)
LEMMA EvictorStepWireInv ==
  ASSUME IInv, IInv', WireInv, EvictorStep
  PROVE  WireInv'
<1> DEFINE ca == [cache EXCEPT ![Head(evict_channel)] = None]
<1>1. SetReferences(ca, held) /\ UNCHANGED <<wire, result, attempt, dest, pc>>
  BY DEF EvictorStep
<1>2. \A a \in Addr : ca[a] \in {cache[a], None}
  BY DEF IInv, TypeOK
<1> HIDE DEF ca
<1> QED
  BY <1>1, <1>2, ReferencesQuiet, BackgroundWireInv

(* The end of the loops drops the cache.                                   *)
LEMMA LoopEndsWireInv ==
  ASSUME IInv, IInv', WireInv, LoopEnds
  PROVE  WireInv'
<1> DEFINE ca == [a \in Addr |-> None]
<1>1. UNCHANGED <<wire, result, attempt, dest, pc>>
  BY DEF LoopEnds, EndLoop, tasks
<1>2. SetReferences(ca, held) \/ UNCHANGED <<cache, held, socket, stream>>
  BY DEF LoopEnds, EndLoop
<1>3. \A a \in Addr : ca[a] = None
  OBVIOUS
<1> HIDE DEF ca
<1> QED
  BY <1>1, <1>2, <1>3, ReferencesQuiet, BackgroundWireInv

(* A stream is shut down, or its peer breaks it.                           *)
LEMMA StreamWireInv ==
  ASSUME IInv, IInv', WireInv, NEW s \in Stream, ShutdownStream(s) \/ Break(s)
  PROVE  WireInv'
<1>1. UNCHANGED <<wire, result, attempt, dest, pc, held, cache, socket>>
  BY DEF ShutdownStream, Break, tasks
<1>2. \A t \in Stream : \/ stream'[t] \in {stream[t], "closing", "closed"}
                        \/ stream[t] = "open" /\ stream'[t] = "broken"
  BY DEF ShutdownStream, Break, IInv, TypeOK
<1> QED
  BY <1>1, <1>2, BackgroundWireInv

(* A message that is dispatched gets a connection to its own address.      *)
LEMMA DispatchSendWireInv ==
  ASSUME IInv, IInv', WireInv, DispatchSend
  PROVE  WireInv'
<1>1. PICK m \in Msg : m = Head(send_channel)
  BY HeadTailProperties DEF DispatchSend, IInv, TypeOK
<1>2. pc[m] = "queued"
  <2>1. 1 \in DOMAIN send_channel /\ m = send_channel[1]
    BY <1>1, HeadTailProperties DEF DispatchSend, IInv, TypeOK
  <2> QED
    BY <2>1 DEF IInv, QueueInv
<1>3. PICK a \in Addr : a = dest[m]
  BY <1>2 DEF IInv, TypeOK, TaskInv
<1>4. PICK ca : ca = GetOrInsert(m, a)
  OBVIOUS
<1>5. /\ SetReferences(ca, [held EXCEPT ![m] = ca[a]])
      /\ pc' = [pc EXCEPT ![m] = "lock"]
      /\ UNCHANGED <<dest, attempt, result, wire>>
  BY <1>1, <1>3, <1>4 DEF DispatchSend
<1>6. /\ cache' = ca /\ held' = [held EXCEPT ![m] = ca[a]]
      /\ \A c \in Msg : socket'[c] \in {socket[c], None}
      /\ \A s \in Stream : stream'[s] \in {stream[s], "closing"}
  BY <1>5, ReferencesQuiet
<1>7. /\ pc'[m] = "lock" /\ held'[m] = ca[a]
      /\ \A k \in Msg : k # m => pc'[k] = pc[k] /\ held'[k] = held[k]
  BY <1>5, <1>6 DEF IInv, TypeOK
<1>8. /\ ca[a] \in Msg
      /\ \A b \in Addr : ca[b] \in {cache[b], None} \/ (b = a /\ ca[b] = m)
  <2>1. ca[a] \in Msg
    BY <1>4, GetOrInsertFacts
  <2>2. \A b \in Addr : ca[b] \in {cache[b], None} \/ (b = a /\ ca[b] = m)
    BY <1>4 DEF GetOrInsert
  <2> QED
    BY <2>1, <2>2
<1>9. AddrInv'
  <2>1. \A b \in Addr : ca[b] # None => dest[ca[b]] = b
    BY <1>3, <1>8 DEF WireInv, AddrInv
  <2>2. dest[ca[a]] = dest[m]
    BY <1>3, <1>8, <2>1, SenderAssumption
  <2>3. \A k \in Msg : held'[k] # None => dest[held'[k]] = dest[k]
    BY <1>7, <2>2 DEF WireInv, AddrInv
  <2>4. \A c \in Msg : socket'[c] # None => dest[socket'[c][1]] = dest[c]
    BY <1>6 DEF WireInv, AddrInv
  <2> QED
    BY <1>5, <1>6, <2>1, <2>3, <2>4 DEF AddrInv
<1>10. CopyInv'
  BY <1>5, CopyStep
<1>11. PieceInv' /\ BodyInv' /\ FramesIntact' /\ ResultInv' /\ RetryInv'
  <2>1. \A k \in Msg :
          /\ pc'[k] = "body" <=> pc[k] = "body"
          /\ pc'[k] = "len" => pc[k] = "len" \/ attempt[k] = 1
          /\ pc[k] \in {"notify", "drop", "done"} => pc'[k] \in {"notify", "drop", "done"}
          /\ pc[k] \in {"len", "body"} => held'[k] = held[k]
    BY <1>2, <1>7
  <2> QED
    BY <1>5, <1>6, <2>1, QuietStep
<1> QED
  BY <1>9, <1>10, <1>11 DEF WireInv

(* A message that is accepted has not been written anywhere.               *)
LEMMA AcceptWireInv ==
  ASSUME IInv, IInv', WireInv,
         UNCHANGED <<cache, held, socket, stream, wire, result, attempt>>,
         \A k \in Msg : \/ pc'[k] = pc[k] /\ dest'[k] = dest[k]
                        \/ pc[k] = "idle" /\ pc'[k] = "queued"
  PROVE  WireInv'
<1>1. AddrInv' /\ CopyInv'
  BY DestStep
<1>2. PieceInv' /\ BodyInv' /\ FramesIntact' /\ ResultInv' /\ RetryInv'
  <2>1. \A k \in Msg :
          /\ pc'[k] = "body" <=> pc[k] = "body"
          /\ pc'[k] = "len" => pc[k] = "len"
          /\ pc[k] \in {"notify", "drop", "done"} => pc'[k] \in {"notify", "drop", "done"}
    OBVIOUS
  <2> QED
    BY <2>1, QuietStep
<1> QED
  BY <1>1, <1>2 DEF WireInv

-----------------------------------------------------------------------------
(* Every step keeps what is said of the wires.                             *)
LEMMA NextWireInv == IInv /\ IInv' /\ WireInv /\ [Next]_vars => WireInv'
<1> SUFFICES ASSUME IInv, IInv', WireInv, [Next]_vars PROVE WireInv'
  OBVIOUS
<1>1. CASE UNCHANGED vars
  BY <1>1, AcceptWireInv DEF vars
<1>2. ASSUME NEW m \in Msg, NEW a \in Addr, Send(m, a)
      PROVE  WireInv'
  <2>1. \A k \in Msg : \/ pc'[k] = pc[k] /\ dest'[k] = dest[k]
                       \/ pc[k] = "idle" /\ pc'[k] = "queued"
    BY <1>2 DEF Send, IInv, TypeOK
  <2> QED
    BY <1>2, <2>1, AcceptWireInv DEF Send
<1>3. ASSUME NEW m1 \in Msg, NEW m2 \in Msg, NEW a1 \in Addr, NEW a2 \in Addr,
             MultiSend(m1, a1, m2, a2)
      PROVE  WireInv'
  <2>1. \A k \in Msg : \/ pc'[k] = pc[k] /\ dest'[k] = dest[k]
                       \/ pc[k] = "idle" /\ pc'[k] = "queued"
    BY <1>3 DEF MultiSend, IInv, TypeOK
  <2> QED
    BY <1>3, <2>1, AcceptWireInv DEF MultiSend
<1>4. ASSUME NEW a \in Addr, EvictSocket(a)
      PROVE  WireInv'
  BY <1>4, AcceptWireInv DEF EvictSocket
<1>5. CASE Collect
  BY <1>5, AcceptWireInv DEF Collect, tasks
<1>6. ASSUME NEW m \in Msg, Network(m) \/ Task(m)
      PROVE  WireInv'
  BY <1>6, ConnectOkWireInv, ConnectFailWireInv, WriteLenWireInv, WriteBodyWireInv,
     WriteFailRetryWireInv, WriteFailGiveUpWireInv, TaskWireInv DEF Network
<1> QED
  BY <1>1, <1>2, <1>3, <1>4, <1>5, <1>6, DispatchSendWireInv, EvictorStepWireInv,
     LoopEndsWireInv, StreamWireInv DEF Next

(* What is said of the wires holds in every state of the sender.           *)
LEMMA SenderWireInv == Spec => [](IInv /\ WireInv)
<1>1. Init => IInv /\ WireInv
  BY InitIInv, InitWireInv
<1>2. IInv /\ WireInv /\ [Next]_vars => (IInv /\ WireInv)'
  BY NextIInv, NextWireInv
<1> QED
  BY <1>1, <1>2, PTL DEF Spec

(* Every frame on every stream is whole, although the tasks that share the *)
(* stream await between the length and the body (write_data_to_stream).    *)
THEOREM SenderFramesIntact == Spec => []FramesIntact
<1>1. WireInv => FramesIntact
  BY DEF WireInv
<1> QED
  BY <1>1, SenderWireInv, PTL

(* A send that reports Ok put exactly one complete frame on a stream to    *)
(* its own address, and a send that reports an error, or has not returned, *)
(* put none (Connection::send).                                            *)
THEOREM SenderDeliveredOnce == Spec => []DeliveredOnce
<1>1. ASSUME WireInv, NEW m \in Msg
      PROVE  /\ Cardinality(Copies(m)) = IF result[m] = "ok" THEN 1 ELSE 0
             /\ \A c \in Copies(m) : dest[c[1][1]] = dest[m]
  <2>1. \A c : c \in Copies(m) <=>
          \E s \in Stream : \E i \in DOMAIN wire[s] : c = <<s, i>> /\ wire[s][i] = Frame(m, "body")
    BY DEF Copies, Frame
  <2>2. CASE result[m] # "ok"
    <3>1. Copies(m) = {}
      BY <1>1, <2>1, <2>2 DEF WireInv, CopyInv
    <3> QED
      BY <2>2, <3>1, FS_EmptySet
  <2>3. CASE result[m] = "ok"
    <3>1. PICK s \in Stream : \E i \in DOMAIN wire[s] : CopyAt(m, s, i)
      BY <1>1, <2>3 DEF WireInv, CopyInv
    <3>2. PICK i \in DOMAIN wire[s] : CopyAt(m, s, i)
      BY <3>1
    <3>3. Copies(m) = {<<s, i>>}
      BY <2>1, <3>2 DEF CopyAt
    <3>4. Cardinality({<<s, i>>}) = 1
      BY FS_Singleton
    <3>5. dest[s[1]] = dest[m]
      BY <3>2 DEF CopyAt
    <3> QED
      BY <2>3, <3>3, <3>4, <3>5
  <2> QED
    BY <2>2, <2>3
<1>2. WireInv => DeliveredOnce
  BY <1>1 DEF DeliveredOnce
<1> QED
  BY <1>2, SenderWireInv, PTL

(* A send gives up only after its write failed on a stream that it had     *)
(* connected itself, and had failed on another one before.                 *)
THEOREM SenderFailsOnlyOnFreshStream == Spec => []FailsOnlyOnFreshStream
<1>1. WireInv => FailsOnlyOnFreshStream
  BY DEF WireInv, RetryInv, FailsOnlyOnFreshStream, FailedOn, Frame
<1> QED
  BY <1>1, SenderWireInv, PTL

-----------------------------------------------------------------------------
(* Sender implements SendService: accepting a message, writing the body of *)
(* its frame and completing it are the steps of the service, and all the   *)
(* rest (dispatch, caching, eviction, locks, connects, lengths and failed  *)
(* writes, shutdowns) is invisible to the caller.                          *)

(* The one copy of a message is where its result and address say.          *)
CopiesOf(re, de) ==
  [m \in Msg |-> [a \in Addr |-> IF re[m] = "ok" /\ a = de[m] THEN 1 ELSE 0]]

(* What the mapping counts, read off the results.                          *)
LEMMA CopiesValue == IInv /\ WireInv => copies = CopiesOf(result, dest)
<1> SUFFICES ASSUME IInv, WireInv PROVE copies = CopiesOf(result, dest)
  OBVIOUS
<1>1. ASSUME NEW m \in Msg, NEW a \in Addr
      PROVE  Cardinality({c \in Copies(m) : dest[c[1][1]] = a})
               = IF result[m] = "ok" /\ a = dest[m] THEN 1 ELSE 0
  <2> DEFINE here == {c \in Copies(m) : dest[c[1][1]] = a}
  <2>1. \A c : c \in Copies(m) <=>
          \E s \in Stream : \E i \in DOMAIN wire[s] : c = <<s, i>> /\ wire[s][i] = Frame(m, "body")
    BY DEF Copies, Frame
  <2>2. CASE result[m] # "ok"
    <3>1. here = {}
      BY <2>1, <2>2 DEF WireInv, CopyInv
    <3> QED
      BY <2>2, <3>1, FS_EmptySet
  <2>3. CASE result[m] = "ok"
    <3>1. PICK s \in Stream : \E i \in DOMAIN wire[s] : CopyAt(m, s, i)
      BY <2>3 DEF WireInv, CopyInv
    <3>2. PICK i \in DOMAIN wire[s] : CopyAt(m, s, i)
      BY <3>1
    <3>3. Copies(m) = {<<s, i>>}
      BY <2>1, <3>2 DEF CopyAt
    <3>4. dest[s[1]] = dest[m]
      BY <3>2 DEF CopyAt
    <3>5. CASE a = dest[m]
      <4>1. here = {<<s, i>>}
        BY <3>3, <3>4, <3>5
      <4>2. Cardinality({<<s, i>>}) = 1
        BY FS_Singleton
      <4> QED
        BY <2>3, <3>5, <4>1, <4>2
    <3>6. CASE a # dest[m]
      <4>1. here = {}
        BY <3>3, <3>4, <3>6
      <4> QED
        BY <3>6, <4>1, FS_EmptySet
    <3> QED
      BY <3>5, <3>6
  <2> QED
    BY <2>2, <2>3
<1> QED
  BY <1>1 DEF copies, CopiesOf

(* The same in the state after a step.                                     *)
LEMMA CopiesValueNext == IInv' /\ WireInv' => copies' = CopiesOf(result', dest')
<1>1. (IInv /\ WireInv)' => (copies = CopiesOf(result, dest))'
  BY CopiesValue, PTL
<1> QED
  BY <1>1 DEF CopiesOf

(* A step that changes no address, no outcome the caller knows of and no   *)
(* result but to an error is invisible.                                    *)
LEMMA InvisibleStep ==
  ASSUME IInv, WireInv, IInv', WireInv', dest' = dest,
         \A m \in Msg :
           /\ pc'[m] = "idle" <=> pc[m] = "idle"
           /\ pc'[m] \in {"drop", "done"} <=> pc[m] \in {"drop", "done"}
           /\ result'[m] = "ok" <=> result[m] = "ok"
  PROVE  UNCHANGED Service!vars
<1>1. copies = CopiesOf(result, dest) /\ copies' = CopiesOf(result', dest')
  BY CopiesValue, CopiesValueNext
<1>2. CopiesOf(result', dest') = CopiesOf(result, dest)
  BY DEF CopiesOf
<1>3. status' = status
  BY DEF status
<1> QED
  BY <1>1, <1>2, <1>3 DEF Service!vars

(* The messages of S are handed over for the addresses that f gives them.  *)
LEMMA AcceptStep ==
  ASSUME IInv, WireInv, IInv', WireInv', result' = result,
         NEW S \in SUBSET Msg, NEW f \in [S -> Addr],
         \A m \in S : pc[m] = "idle" /\ pc'[m] = "queued" /\ dest'[m] = f[m],
         \A m \in Msg \ S : pc'[m] = pc[m] /\ dest'[m] = dest[m]
  PROVE  Service!Accept(f)
<1>1. DOMAIN f = S
  OBVIOUS
<1>2. \A m \in S : status[m] = "idle"
  BY DEF status
<1>3. status' = [m \in Msg |-> IF m \in S THEN "pending" ELSE status[m]]
  BY DEF status
<1>4. dest' = [m \in Msg |-> IF m \in S THEN f[m] ELSE dest[m]]
  BY DEF IInv, TypeOK
<1>5. copies' = copies
  <2>1. copies = CopiesOf(result, dest) /\ copies' = CopiesOf(result', dest')
    BY CopiesValue, CopiesValueNext
  <2>2. \A m \in S : result[m] = "none"
    BY DEF WireInv, ResultInv
  <2>3. CopiesOf(result', dest') = CopiesOf(result, dest)
    BY <2>2 DEF CopiesOf
  <2> QED
    BY <2>1, <2>3
<1> QED
  BY <1>1, <1>2, <1>3, <1>4, <1>5 DEF Service!Accept

(* write_all has put the body on the wire: the copy enters the network.    *)
LEMMA WriteBodyTransmits ==
  ASSUME IInv, WireInv, IInv', WireInv', NEW m \in Msg, WriteBody(m)
  PROVE  Service!Transmit(m)
<1>1. /\ pc[m] = "body" /\ pc' = [pc EXCEPT ![m] = "notify"]
      /\ result' = [result EXCEPT ![m] = "ok"] /\ dest' = dest
  BY DEF WriteBody, Return
<1>2. dest[m] \in Addr /\ result[m] = "none"
  <2>1. dest[m] \in Addr
    BY <1>1 DEF IInv, TypeOK, TaskInv
  <2> QED
    BY <1>1, <2>1 DEF WireInv, ResultInv
<1>3. copies = CopiesOf(result, dest) /\ copies' = CopiesOf(result', dest')
  BY CopiesValue, CopiesValueNext
<1>4. status[m] = "pending"
  BY <1>1 DEF status
<1>5. status' = status
  BY <1>1 DEF status, IInv, TypeOK
<1>6. copies[m][dest[m]] = 0
  BY <1>2, <1>3 DEF CopiesOf
<1>7. copies' = [copies EXCEPT ![m][dest[m]] = 1]
  <2>1. \A k \in Msg : result'[k] = IF k = m THEN "ok" ELSE result[k]
    BY <1>1 DEF IInv, TypeOK
  <2>2. CopiesOf(result', dest) = [CopiesOf(result, dest) EXCEPT ![m][dest[m]] = 1]
    BY <1>2, <2>1 DEF CopiesOf
  <2> QED
    BY <1>1, <1>3, <2>2
<1> QED
  BY <1>1, <1>4, <1>5, <1>6, <1>7 DEF Service!Transmit

(* complete_tx tells the caller Ok if and only if the copy is on its way.  *)
LEMMA NotifyCompletes ==
  ASSUME IInv, WireInv, IInv', WireInv', NEW m \in Msg, Notify(m)
  PROVE  Service!Complete(m)
<1>1. /\ pc[m] = "notify" /\ pc' = [pc EXCEPT ![m] = "drop"]
      /\ UNCHANGED <<result, dest>>
  BY DEF Notify
<1>2. dest[m] \in Addr
  BY <1>1 DEF IInv, TypeOK, TaskInv
<1>3. copies = CopiesOf(result, dest) /\ copies' = CopiesOf(result', dest')
  BY CopiesValue, CopiesValueNext
<1>4. copies' = copies
  BY <1>1, <1>3
<1>5. copies[m][dest[m]] = 1 <=> result[m] = "ok"
  BY <1>2, <1>3 DEF CopiesOf
<1>6. status[m] = "pending"
  BY <1>1 DEF status
<1>7. status' = [status EXCEPT ![m] = IF copies[m][dest[m]] = 1 THEN "ok" ELSE "error"]
  BY <1>1, <1>5 DEF status, IInv, TypeOK
<1> QED
  BY <1>1, <1>4, <1>6, <1>7 DEF Service!Complete

-----------------------------------------------------------------------------
(* The sender starts as the service does.                                  *)
LEMMA InitRefines == Init => Service!Init
<1> SUFFICES ASSUME Init PROVE Service!Init
  OBVIOUS
<1>1. copies = CopiesOf(result, dest)
  BY CopiesValue, InitIInv, InitWireInv
<1>2. copies = [m \in Msg |-> [a \in Addr |-> 0]]
  BY <1>1 DEF Init, CopiesOf
<1>3. status = [m \in Msg |-> "idle"]
  BY DEF Init, status
<1> QED
  BY <1>2, <1>3 DEF Init, Service!Init

(* Every step of the sender is a step of the service or invisible.         *)
LEMMA NextRefines ==
  IInv /\ WireInv /\ IInv' /\ WireInv' /\ [Next]_vars => [Service!Next]_(Service!vars)
<1> SUFFICES ASSUME IInv, WireInv, IInv', WireInv', [Next]_vars
             PROVE  Service!Next \/ UNCHANGED Service!vars
  OBVIOUS
<1>1. CASE UNCHANGED <<dest, pc, result>>
  BY <1>1, InvisibleStep
<1>2. ASSUME NEW m \in Msg, NEW a \in Addr, Send(m, a)
      PROVE  Service!Next
  <2> DEFINE f == [k \in {m} |-> a]
  <2>1. /\ \A k \in {m} : pc[k] = "idle" /\ pc'[k] = "queued" /\ dest'[k] = f[k]
        /\ \A k \in Msg \ {m} : pc'[k] = pc[k] /\ dest'[k] = dest[k]
        /\ result' = result
    BY <1>2 DEF Send, IInv, TypeOK
  <2>2. f \in [{m} -> Addr] /\ {m} \in SUBSET Msg
    OBVIOUS
  <2> HIDE DEF f
  <2>3. Service!Accept(f)
    BY <2>1, <2>2, AcceptStep
  <2> QED
    BY <2>2, <2>3 DEF Service!Next
<1>3. ASSUME NEW m1 \in Msg, NEW m2 \in Msg, NEW a1 \in Addr, NEW a2 \in Addr,
             MultiSend(m1, a1, m2, a2)
      PROVE  Service!Next
  <2> DEFINE f == [k \in {m1, m2} |-> IF k = m1 THEN a1 ELSE a2]
  <2>1. /\ \A k \in {m1, m2} : pc[k] = "idle" /\ pc'[k] = "queued" /\ dest'[k] = f[k]
        /\ \A k \in Msg \ {m1, m2} : pc'[k] = pc[k] /\ dest'[k] = dest[k]
        /\ result' = result
    BY <1>3 DEF MultiSend, IInv, TypeOK
  <2>2. f \in [{m1, m2} -> Addr] /\ {m1, m2} \in SUBSET Msg
    OBVIOUS
  <2> HIDE DEF f
  <2>3. Service!Accept(f)
    BY <2>1, <2>2, AcceptStep
  <2> QED
    BY <2>2, <2>3 DEF Service!Next
<1>4. CASE DispatchSend
  <2>1. PICK m \in Msg : pc[m] = "queued" /\ pc' = [pc EXCEPT ![m] = "lock"]
    <3>1. /\ Head(send_channel) \in Msg /\ 1 \in DOMAIN send_channel
          /\ Head(send_channel) = send_channel[1]
      BY <1>4, HeadTailProperties DEF DispatchSend, IInv, TypeOK
    <3> QED
      BY <1>4, <3>1 DEF DispatchSend, IInv, QueueInv
  <2>2. UNCHANGED <<dest, result>>
    BY <1>4 DEF DispatchSend
  <2> QED
    BY <2>1, <2>2, InvisibleStep DEF IInv, TypeOK
<1>5. ASSUME NEW m \in Msg, Network(m) \/ Task(m)
      PROVE  Service!Next \/ UNCHANGED Service!vars
  <2>1. CASE WriteBody(m)
    BY <2>1, WriteBodyTransmits DEF Service!Next
  <2>2. CASE Notify(m)
    BY <2>2, NotifyCompletes DEF Service!Next
  <2>3. CASE ~WriteBody(m) /\ ~Notify(m)
    <3>1. /\ dest' = dest
          /\ \A k \in Msg : k # m => pc'[k] = pc[k] /\ result'[k] = result[k]
      BY <1>5, <2>3 DEF Network, Task, ConnectOk, ConnectFail, WriteLen, WriteFailRetry,
                        WriteFailGiveUp, LockSocket, DropConnection, Return, IInv, TypeOK
    <3>2. /\ pc[m] # "idle" /\ pc'[m] # "idle"
          /\ pc'[m] \in {"drop", "done"} <=> pc[m] \in {"drop", "done"}
          /\ result'[m] = "ok" <=> result[m] = "ok"
      <4>1. pc[m] \in {"lock", "connect", "len", "body"} => result[m] = "none"
        BY DEF WireInv, ResultInv
      <4> QED
        BY <1>5, <2>3, <4>1 DEF Network, Task, ConnectOk, ConnectFail, WriteLen,
                WriteFailRetry, WriteFailGiveUp, LockSocket, DropConnection, Return, IInv, TypeOK
    <3>3. \A k \in Msg :
            /\ pc'[k] = "idle" <=> pc[k] = "idle"
            /\ pc'[k] \in {"drop", "done"} <=> pc[k] \in {"drop", "done"}
            /\ result'[k] = "ok" <=> result[k] = "ok"
      BY <3>1, <3>2
    <3> QED
      BY <3>1, <3>3, InvisibleStep
  <2> QED
    BY <2>1, <2>2, <2>3
<1>6. ASSUME NEW a \in Addr, EvictSocket(a)
      PROVE  UNCHANGED <<dest, pc, result>>
  BY <1>6 DEF EvictSocket
<1>7. EvictorStep \/ Collect \/ LoopEnds => UNCHANGED <<dest, pc, result>>
  BY DEF EvictorStep, Collect, LoopEnds, EndLoop, tasks
<1>8. ASSUME NEW s \in Stream, ShutdownStream(s) \/ Break(s)
      PROVE  UNCHANGED <<dest, pc, result>>
  BY <1>8 DEF ShutdownStream, Break, tasks
<1>9. UNCHANGED vars => UNCHANGED <<dest, pc, result>>
  BY DEF vars
<1> QED
  BY <1>1, <1>2, <1>3, <1>4, <1>5, <1>6, <1>7, <1>8, <1>9 DEF Next

(* Caching, eviction, LRU replacement, mutexes and the retry on a fresh    *)
(* stream are invisible to the caller of ShardusNetSender: every behaviour *)
(* of the sender is one of the abstract service.                           *)
THEOREM SenderImplementsService == Spec => ImplementsSendService
<1>1. Init => Service!Init
  BY InitRefines
<1>2. IInv /\ WireInv /\ (IInv /\ WireInv)' /\ [Next]_vars => [Service!Next]_(Service!vars)
  BY NextRefines
<1> QED
  BY <1>1, <1>2, SenderWireInv, PTL DEF Spec, ImplementsSendService, Service!Spec
=============================================================================
