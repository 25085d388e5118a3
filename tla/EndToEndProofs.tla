--------------------------- MODULE EndToEndProofs ---------------------------
(***************************************************************************)
(* Sender and Listener together, for every finite set of messages, every   *)
(* set of addresses, either kind of cache and any letters that pass: the   *)
(* sender's streams are streams as Listener's specification allows them,   *)
(* so that what was proved of the listener holds of this one; a message    *)
(* comes out at most once, and only if its send reported Ok; and one that  *)
(* was reported Ok came out, or is still there to be read, or was lost     *)
(* with its connection by the network or by the listener's socket.         *)
(***************************************************************************)
EXTENDS EndToEnd, SenderWireProofs

-----------------------------------------------------------------------------
(* The pieces of a stream, as the reading side takes them.                 *)

(* The first p pieces of w are lengths and bodies in turn, each body that  *)
(* of the length before it, and the others are failed writes.              *)
Paired(w, p) ==
  /\ p \in 0 .. Len(w)
  /\ \A i \in 1 .. Len(w) : w[i].part # "fail" <=> i <= p
  /\ \A i \in 1 .. p : w[i].part = "len" <=> i % 2 = 1
  /\ \A i \in 1 .. p : w[i].part = "body" =>
       i > 1 /\ w[i - 1] = Frame(w[i].msg, "len")

(* Its frames are those of the messages whose bodies it holds.             *)
LEMMA PairedFrames ==
  ASSUME NEW w \in Seq(Piece), NEW p, Paired(w, p)
  PROVE  /\ p \in Nat /\ p <= Len(w)
         /\ \A k \in 1 .. p \div 2 :
              /\ 2 * k \in 1 .. p /\ 2 * k \in DOMAIN w /\ w[2 * k].msg \in Msg
              /\ w[2 * k] = Frame(w[2 * k].msg, "body")
         /\ FramesIn(w) = [k \in 1 .. p \div 2 |-> FrameOf[w[2 * k].msg]]
<1>1. p \in Nat /\ Len(w) \in Nat /\ p <= Len(w) /\ DOMAIN w = 1 .. Len(w)
  BY LenProperties DEF Paired
<1>2. Whole(w) = 1 .. p
  BY <1>1 DEF Whole, Paired
<1>3. Cardinality(Whole(w)) = p
  BY <1>1, <1>2, FS_Interval
<1>4. ASSUME NEW k \in 1 .. p \div 2
      PROVE  /\ 2 * k \in 1 .. p /\ 2 * k \in DOMAIN w /\ w[2 * k].msg \in Msg
             /\ w[2 * k] = Frame(w[2 * k].msg, "body")
             /\ w[2 * k - 1] = Frame(w[2 * k].msg, "len")
  <2>1. 2 * k \in 1 .. p /\ 2 * k \in DOMAIN w /\ (2 * k) % 2 # 1
    BY <1>1
  <2>2. PICK q : q = w[2 * k]
    OBVIOUS
  <2>3. q \in Piece
    BY <2>1, <2>2, <1>1, ElementOfSeq
  <2>4. q.part # "len" /\ q.part # "fail"
    BY <2>1, <2>2, <1>1 DEF Paired
  <2>5. q.msg \in Msg /\ q = Frame(q.msg, "body")
    BY <2>3, <2>4 DEF Piece, Frame
  <2>6. q.part = "body"
    BY <2>5 DEF Frame
  <2>7. w[2 * k - 1] = Frame(q.msg, "len")
    BY <2>1, <2>2, <2>6 DEF Paired
  <2> QED
    BY <2>1, <2>2, <2>5, <2>7
<1>5. ASSUME NEW k \in 1 .. p \div 2
      PROVE  FrameAt(w, k) = FrameOf[w[2 * k].msg]
  <2>1. PICK n : n = w[2 * k].msg
    OBVIOUS
  <2>2. w[2 * k - 1] = [msg |-> n, part |-> "len"] /\ w[2 * k] = [msg |-> n, part |-> "body"]
    BY <1>4, <2>1 DEF Frame
  <2>3. w[2 * k - 1].part = "len" /\ w[2 * k - 1].msg = n /\ w[2 * k].msg = n
    BY <2>2
  <2> QED
    BY <2>2, <2>3 DEF FrameAt
<1> QED
  BY <1>1, <1>3, <1>4, <1>5 DEF FramesIn

(* The body of a message stands at an even place among the whole pieces.   *)
LEMMA BodyPlace ==
  ASSUME NEW w \in Seq(Piece), NEW p, Paired(w, p), NEW i \in DOMAIN w,
         w[i].part = "body"
  PROVE  i \div 2 \in 1 .. p \div 2 /\ i = 2 * (i \div 2)
<1>1. p \in Nat /\ Len(w) \in Nat /\ p <= Len(w) /\ i \in 1 .. Len(w)
  BY LenProperties DEF Paired
<1>2. i \in 1 .. p
  BY <1>1 DEF Paired
<1>3. i % 2 # 1
  BY <1>2 DEF Paired
<1> QED
  BY <1>1, <1>2, <1>3

(* A length after whole frames, ...                                        *)
LEMMA PairedLen ==
  ASSUME NEW w \in Seq(Piece), NEW m \in Msg, Paired(w, Len(w)), Len(w) % 2 = 0
  PROVE  /\ Paired(Append(w, Frame(m, "len")), Len(w) + 1)
         /\ FramesIn(Append(w, Frame(m, "len"))) = FramesIn(w)
<1> DEFINE x == Append(w, Frame(m, "len"))
           n == Len(w)
<1>1. Frame(m, "len") \in Piece /\ Frame(m, "len").part = "len"
  BY DEF Frame, Piece
<1>2. /\ n \in Nat /\ x \in Seq(Piece) /\ Len(x) = n + 1
      /\ \A i \in 1 .. n : x[i] = w[i]
      /\ x[n + 1] = Frame(m, "len")
  BY <1>1, AppendProperties, LenProperties
<1>3. Paired(w, n)
  OBVIOUS
<1> HIDE DEF x, n
<1>4. n % 2 = 0
  BY DEF n
<1>5. Paired(x, n + 1)
  <2>1. \A i \in 1 .. Len(x) : x[i].part # "fail" <=> i <= n + 1
    BY <1>1, <1>2, <1>3 DEF Paired
  <2>2. \A i \in 1 .. n + 1 : x[i].part = "len" <=> i % 2 = 1
    BY <1>1, <1>2, <1>3, <1>4 DEF Paired
  <2>3. ASSUME NEW i \in 1 .. n + 1, x[i].part = "body"
        PROVE  i > 1 /\ x[i - 1] = Frame(x[i].msg, "len")
    <3>1. i \in 1 .. n
      BY <1>1, <1>2, <2>3
    <3>2. i > 1 /\ w[i - 1] = Frame(w[i].msg, "len")
      BY <1>2, <1>3, <2>3, <3>1 DEF Paired
    <3> QED
      BY <1>2, <3>1, <3>2
  <2> QED
    BY <1>2, <2>1, <2>2, <2>3 DEF Paired
<1>6. (n + 1) \div 2 = n \div 2
  BY <1>2, <1>4
<1>7. FramesIn(w) = [k \in 1 .. n \div 2 |-> FrameOf[w[2 * k].msg]]
  BY <1>3, PairedFrames
<1>8. FramesIn(x) = [k \in 1 .. n \div 2 |-> FrameOf[x[2 * k].msg]]
  <2>1. FramesIn(x) = [k \in 1 .. (n + 1) \div 2 |-> FrameOf[x[2 * k].msg]]
    BY <1>2, <1>5, PairedFrames
  <2> QED
    BY <1>6, <2>1
<1>9. \A k \in 1 .. n \div 2 : x[2 * k] = w[2 * k]
  BY <1>2
<1> QED
  BY <1>5, <1>7, <1>8, <1>9 DEF x, n

(* ... its body, which makes one frame more, ...                           *)
LEMMA PairedBody ==
  ASSUME NEW w \in Seq(Piece), NEW m \in Msg, Paired(w, Len(w)), w # <<>>,
         w[Len(w)] = Frame(m, "len")
  PROVE  /\ Paired(Append(w, Frame(m, "body")), Len(w) + 1)
         /\ FramesIn(Append(w, Frame(m, "body"))) = Append(FramesIn(w), FrameOf[m])
<1> DEFINE x == Append(w, Frame(m, "body"))
           n == Len(w)
<1>1. /\ Frame(m, "body") \in Piece /\ Frame(m, "body").part = "body"
      /\ Frame(m, "body").msg = m /\ Frame(m, "len").part = "len"
  BY DEF Frame, Piece
<1>2. /\ n \in Nat \ {0} /\ x \in Seq(Piece) /\ Len(x) = n + 1
      /\ \A i \in 1 .. n : x[i] = w[i]
      /\ x[n + 1] = Frame(m, "body")
  BY <1>1, AppendProperties, LenProperties, EmptySeq
<1>3. Paired(w, n) /\ w[n] = Frame(m, "len")
  OBVIOUS
<1> HIDE DEF x, n
<1>4. n % 2 = 1
  BY <1>1, <1>2, <1>3 DEF Paired
<1>5. Paired(x, n + 1)
  <2>1. \A i \in 1 .. Len(x) : x[i].part # "fail" <=> i <= n + 1
    BY <1>1, <1>2, <1>3 DEF Paired
  <2>2. \A i \in 1 .. n + 1 : x[i].part = "len" <=> i % 2 = 1
    <3>1. \A i \in 1 .. n : x[i].part = "len" <=> i % 2 = 1
      BY <1>2, <1>3 DEF Paired
    <3>2. (n + 1) % 2 # 1 /\ x[n + 1].part # "len"
      BY <1>1, <1>2, <1>4
    <3> QED
      BY <1>2, <3>1, <3>2
  <2>3. ASSUME NEW i \in 1 .. n + 1, x[i].part = "body"
        PROVE  i > 1 /\ x[i - 1] = Frame(x[i].msg, "len")
    <3>1. CASE i \in 1 .. n
      <4>1. i > 1 /\ w[i - 1] = Frame(w[i].msg, "len")
        BY <1>2, <1>3, <2>3, <3>1 DEF Paired
      <4> QED
        BY <1>2, <3>1, <4>1
    <3>2. CASE i = n + 1
      BY <1>1, <1>2, <1>3, <3>2
    <3> QED
      BY <1>2, <3>1, <3>2
  <2> QED
    BY <1>2, <2>1, <2>2, <2>3 DEF Paired
<1> DEFINE h == n \div 2
<1>6. h \in Nat /\ (n + 1) \div 2 = h + 1 /\ 2 * (h + 1) = n + 1
  BY <1>2, <1>4
<1> HIDE DEF h
<1>7. FramesIn(w) = [k \in 1 .. h |-> FrameOf[w[2 * k].msg]]
  BY <1>3, PairedFrames DEF h
<1>8. FramesIn(x) = [k \in 1 .. h + 1 |-> FrameOf[x[2 * k].msg]]
  BY <1>2, <1>5, <1>6, PairedFrames
<1>9. /\ \A k \in 1 .. h : x[2 * k] = w[2 * k]
      /\ x[2 * (h + 1)].msg = m
  BY <1>1, <1>2, <1>6
<1>10. FramesIn(x) = [k \in 1 .. h + 1 |-> IF k <= h THEN FrameOf[w[2 * k].msg] ELSE FrameOf[m]]
  BY <1>6, <1>8, <1>9
<1>11. PICK f : f = FramesIn(w)
  OBVIOUS
<1>12. f = [k \in 1 .. h |-> FrameOf[w[2 * k].msg]] /\ Len(f) = h
  BY <1>6, <1>7, <1>11
<1>13. Append(f, FrameOf[m]) = [k \in 1 .. h + 1 |-> IF k <= h THEN FrameOf[w[2 * k].msg] ELSE FrameOf[m]]
  BY <1>6, <1>12
<1> QED
  BY <1>5, <1>10, <1>11, <1>13 DEF x, n

(* ... and a write that fails, which makes none.                           *)
LEMMA PairedFail ==
  ASSUME NEW w \in Seq(Piece), NEW m \in Msg, NEW p, Paired(w, p)
  PROVE  /\ Paired(Append(w, Frame(m, "fail")), p)
         /\ FramesIn(Append(w, Frame(m, "fail"))) = FramesIn(w)
<1> DEFINE x == Append(w, Frame(m, "fail"))
           n == Len(w)
<1>1. Frame(m, "fail") \in Piece /\ Frame(m, "fail").part = "fail"
  BY DEF Frame, Piece
<1>2. /\ n \in Nat /\ x \in Seq(Piece) /\ Len(x) = n + 1
      /\ \A i \in 1 .. n : x[i] = w[i]
      /\ x[n + 1] = Frame(m, "fail")
      /\ p \in 0 .. n
  BY <1>1, AppendProperties, LenProperties DEF Paired
<1>3. /\ \A i \in 1 .. n : w[i].part # "fail" <=> i <= p
      /\ \A i \in 1 .. p : w[i].part = "len" <=> i % 2 = 1
      /\ \A i \in 1 .. p : w[i].part = "body" =>
           i > 1 /\ w[i - 1] = Frame(w[i].msg, "len")
  BY DEF Paired
<1> HIDE DEF x, n
<1>4. Paired(x, p)
  BY <1>1, <1>2, <1>3 DEF Paired
<1>5. /\ FramesIn(w) = [k \in 1 .. p \div 2 |-> FrameOf[w[2 * k].msg]]
      /\ FramesIn(x) = [k \in 1 .. p \div 2 |-> FrameOf[x[2 * k].msg]]
  BY <1>2, <1>4, PairedFrames
<1>6. \A k \in 1 .. p \div 2 : x[2 * k] = w[2 * k]
  BY <1>2
<1> QED
  BY <1>4, <1>5, <1>6 DEF x

-----------------------------------------------------------------------------
(* What a step of the sender does to its streams.                          *)

(* Nothing that a reader sees: no piece is written, a stream at most       *)
(* begins to shut down, and those that exist keep their address.           *)
Quiet ==
  /\ wire' = wire
  /\ \A s \in Stream : stream[s] # "unused" => dest'[s[1]] = dest[s[1]]
  /\ \A s \in Stream :
       \/ stream'[s] = stream[s]
       \/ stream[s] \in {"open", "broken"} /\ stream'[s] = "closing"

(* A piece of m is written, or the write fails.                            *)
Writes(m, part) ==
  /\ pc[m] \in {"len", "body"}
  /\ Write(m, part)
  /\ UNCHANGED dest
  /\ IF part = "fail"
     THEN \A s \in Stream :
            stream'[s] = stream[s] \/ (stream[s] = "broken" /\ stream'[s] = "closed")
     ELSE /\ pc[m] = part
          /\ stream[socket[held[m]]] # "broken"
          /\ UNCHANGED stream

(* Moving references is quiet: only streams in use are shut down.          *)
LEMMA QuietReferences ==
  ASSUME IInv, NEW ca, NEW he, SetReferences(ca, he), UNCHANGED <<wire, dest>>
  PROVE  Quiet
<1>1. \A c \in Msg : socket[c] # None => stream[socket[c]] \in {"open", "broken"}
  BY DEF IInv, SocketInv
<1>2. \A s \in Stream : s # None
  BY SenderAssumption
<1>3. \A s \in Stream : stream'[s] =
        IF \E c \in Referenced(cache, held) \ Referenced(ca, he) : socket[c] = s
        THEN "closing" ELSE stream[s]
  BY DEF SetReferences
<1>4. Referenced(cache, held) \subseteq Msg
  BY DEF Referenced
<1> QED
  BY <1>1, <1>2, <1>3, <1>4 DEF Quiet

(* Accepting messages is quiet: they have no streams yet.                  *)
LEMMA QuietAccept ==
  ASSUME IInv, UNCHANGED <<wire, stream>>,
         \A k \in Msg : pc[k] # "idle" => dest'[k] = dest[k]
  PROVE  Quiet
  BY UsedStream DEF Quiet

LEMMA StepKinds ==
  ASSUME IInv, Next
  PROVE  \/ Quiet
         \/ \E m \in Msg : ConnectOk(m)
         \/ \E m \in Msg, part \in {"len", "body", "fail"} : Writes(m, part)
         \/ \E s \in Stream : ShutdownStream(s) \/ Break(s)
<1>1. ASSUME NEW m \in Msg, NEW a \in Addr, Send(m, a) PROVE Quiet
  BY <1>1, QuietAccept DEF Send, IInv, TypeOK
<1>2. ASSUME NEW m1 \in Msg, NEW m2 \in Msg, NEW a1 \in Addr, NEW a2 \in Addr,
             MultiSend(m1, a1, m2, a2)
      PROVE  Quiet
  BY <1>2, QuietAccept DEF MultiSend, IInv, TypeOK
<1>3. ASSUME NEW a \in Addr, EvictSocket(a) PROVE Quiet
  BY <1>3, QuietAccept DEF EvictSocket
<1>4. CASE DispatchSend
  BY <1>4, QuietReferences DEF DispatchSend
<1>5. CASE EvictorStep
  BY <1>5, QuietReferences DEF EvictorStep
<1>6. CASE Collect
  BY <1>6, QuietAccept DEF Collect
<1>7. CASE LoopEnds
  BY <1>7, QuietReferences, QuietAccept DEF LoopEnds, EndLoop
<1>8. ASSUME NEW m \in Msg, Task(m) PROVE Quiet
  BY <1>8, QuietReferences, QuietAccept DEF Task, LockSocket, Notify, DropConnection
<1>9. ASSUME NEW m \in Msg, ConnectFail(m) PROVE Quiet
  BY <1>9, QuietAccept DEF ConnectFail
<1>10. ASSUME NEW m \in Msg, WriteLen(m) PROVE Writes(m, "len")
  BY <1>10 DEF WriteLen, Writes
<1>11. ASSUME NEW m \in Msg, WriteBody(m) PROVE Writes(m, "body")
  BY <1>11 DEF WriteBody, Writes
<1>12. ASSUME NEW m \in Msg, WriteFailRetry(m) PROVE Writes(m, "fail")
  BY <1>12 DEF WriteFailRetry, Writes, IInv, TypeOK
<1>13. ASSUME NEW m \in Msg, WriteFailGiveUp(m) PROVE Writes(m, "fail")
  BY <1>13 DEF WriteFailGiveUp, Writes
<1>14. ASSUME NEW m \in Msg, Network(m)
       PROVE  \/ Quiet \/ ConnectOk(m)
              \/ \E part \in {"len", "body", "fail"} : Writes(m, part)
  BY <1>9, <1>10, <1>11, <1>12, <1>13, <1>14 DEF Network
<1> QED
  BY <1>1, <1>2, <1>3, <1>4, <1>5, <1>6, <1>7, <1>8, <1>14 DEF Next

-----------------------------------------------------------------------------
(* What every stream holds.                                                *)
PairInv == \A s \in Stream : \E p \in Nat : Paired(wire[s], p)

(* A write changes one stream, by one piece that fits: a length comes      *)
(* after whole frames and a body after its length.                         *)
LEMMA WritePaired ==
  ASSUME IInv, WireInv, PairInv, NEW m \in Msg, NEW part \in {"len", "body", "fail"},
         Writes(m, part), NEW s, s = socket[held[m]]
  PROVE  /\ s \in Stream
         /\ \A t \in Stream \ {s} : wire'[t] = wire[t]
         /\ \E p \in Nat : Paired(wire'[s], p)
         /\ part = "body" => FramesIn(wire'[s]) = Append(FramesIn(wire[s]), FrameOf[m])
         /\ part # "body" => FramesIn(wire'[s]) = FramesIn(wire[s])
         /\ part # "fail" => stream[s] = "open"
         /\ part = "body" => result[m] # "ok"
<1>1. s \in Stream /\ stream[s] \in {"open", "broken"} /\ wire[s] \in Seq(Piece)
  BY WriterFacts DEF Writes, IInv, TypeOK
<1>2. /\ wire'[s] = Append(wire[s], Frame(m, part))
      /\ \A t \in Stream \ {s} : wire'[t] = wire[t]
  BY <1>1 DEF Writes, Write, Frame, IInv, TypeOK
<1>3. part # "fail" => stream[s] = "open"
  BY <1>1 DEF Writes
<1>4. part = "body" => result[m] # "ok"
  BY DEF Writes, WireInv, ResultInv
<1>5. PICK p \in Nat : Paired(wire[s], p)
  BY <1>1 DEF PairInv
<1>6. Len(wire[s]) \in Nat /\ DOMAIN wire[s] = 1 .. Len(wire[s])
  BY <1>1, LenProperties
<1>7. part # "fail" => p = Len(wire[s])
  <2> HAVE part # "fail"
  <2>1. \A i \in 1 .. Len(wire[s]) : wire[s][i].part # "fail"
    BY <1>1, <1>3, <1>6 DEF WireInv, PieceInv
  <2> QED
    BY <1>5, <1>6, <2>1 DEF Paired
<1>8. CASE part = "len"
  <2>1. wire[s] # <<>> => Last(wire[s]).part # "len"
    <3> SUFFICES ASSUME wire[s] # <<>>, Last(wire[s]).part = "len" PROVE FALSE
      OBVIOUS
    <3> DEFINE n == Last(wire[s]).msg
    <3>1. n \in Msg
      BY <1>1, LastPiece
    <3>2. pc[n] = "body" /\ socket[held[n]] = s
      BY <1>1 DEF WireInv, PieceInv
    <3>3. pc[m] = "len"
      BY <1>8 DEF Writes
    <3> HIDE DEF n
    <3> QED
      BY <3>1, <3>2, <3>3, OneWriter
  <2>2. Len(wire[s]) % 2 = 0
    <3>1. CASE wire[s] = <<>>
      BY <3>1
    <3>2. CASE wire[s] # <<>>
      <4>1. wire[s][Len(wire[s])].part # "len" /\ Len(wire[s]) \in 1 .. Len(wire[s])
        BY <1>1, <1>6, <2>1, <3>2, LastPiece
      <4>2. Len(wire[s]) % 2 # 1
        BY <1>5, <1>7, <1>8, <4>1 DEF Paired
      <4>3. \A n \in Nat : n % 2 # 1 => n % 2 = 0
        OBVIOUS
      <4> QED
        BY <1>6, <4>2, <4>3
    <3> QED
      BY <3>1, <3>2
  <2>3. Paired(wire[s], Len(wire[s]))
    BY <1>5, <1>7, <1>8
  <2>4. /\ Paired(wire'[s], Len(wire[s]) + 1)
        /\ FramesIn(wire'[s]) = FramesIn(wire[s])
    BY <1>1, <1>2, <1>8, <2>2, <2>3, PairedLen
  <2> QED
    BY <1>1, <1>2, <1>3, <1>6, <1>8, <2>4
<1>9. CASE part = "body"
  <2>1. wire[s] # <<>> /\ wire[s][Len(wire[s])] = Frame(m, "len")
    <3>1. wire[s] # <<>> /\ Last(wire[s]) = Frame(m, "len")
      BY <1>9 DEF Writes, WireInv, BodyInv
    <3> QED
      BY <1>1, <3>1, LastPiece
  <2>2. Paired(wire[s], Len(wire[s]))
    BY <1>5, <1>7, <1>9
  <2> QED
    BY <1>1, <1>2, <1>3, <1>4, <1>6, <1>9, <2>1, <2>2, PairedBody
<1>10. CASE part = "fail"
  BY <1>1, <1>2, <1>5, <1>10, PairedFail
<1> QED
  BY <1>8, <1>9, <1>10

-----------------------------------------------------------------------------
(* How the listener's connections belong to the sender's streams: a        *)
(* connection is there once a stream to Home is connected, and the streams *)
(* that broke are known.                                                   *)
LinkInv ==
  /\ conn \in [Stream -> {"none", "backlog", "reset", "length", "body",
                          "completed", "failed", "panicked"}]
  /\ \A s \in Stream : conn[s] = "none" <=> stream[s] = "unused" \/ ~ToHome(s)
  /\ severed \subseteq Stream
  /\ \A s \in Stream : stream[s] = "broken" => s \in severed
  /\ \A s \in severed : stream[s] \notin {"unused", "open"}

LEMMA NoFrames == FramesIn(<<>>) = <<>>
<1>1. Whole(<<>>) = {}
  BY DEF Whole
<1>2. Cardinality(Whole(<<>>)) \div 2 = 0
  BY <1>1, FS_EmptySet
<1> QED
  BY <1>2 DEF FramesIn

(* What the reader sees of the next state.                                 *)
LEMMA NextView ==
  /\ Written' = [s \in Stream |-> IF dest'[s[1]] = Home THEN FramesIn(wire'[s]) ELSE <<>>]
  /\ Ending' = [s \in Stream |-> IF dest'[s[1]] # Home THEN "open"
                                 ELSE IF s \in severed' THEN "reset"
                                 ELSE IF stream'[s] = "closed" THEN "closed" ELSE "open"]
  BY DEF Written, Ending, ToHome

(* A quiet step shows the reader nothing.                                  *)
LEMMA QuietFeeds ==
  ASSUME IInv, WireInv, PairInv, LinkInv, SenderStep, Quiet
  PROVE  UNCHANGED L!vars /\ PairInv' /\ LinkInv'
<1>1. \A s \in Stream :
        /\ stream'[s] = "unused" <=> stream[s] = "unused"
        /\ stream'[s] = "open" => stream[s] = "open"
        /\ stream'[s] = "broken" => stream[s] = "broken"
        /\ stream'[s] = "closed" <=> stream[s] = "closed"
  BY DEF Quiet
<1>2. conn' = conn
  <2>1. \A s \in Stream : ~(stream[s] = "unused" /\ stream'[s] = "open")
    BY <1>1
  <2>2. conn' = [s \in Stream |-> conn[s]]
    BY <2>1 DEF SenderStep
  <2> QED
    BY <2>2 DEF LinkInv
<1>3. severed' = severed
  BY <1>1 DEF SenderStep
<1>4. PairInv'
  BY DEF PairInv, Quiet
<1>5. \A s \in Stream : stream[s] # "unused" => dest'[s[1]] = dest[s[1]]
  BY DEF Quiet
<1>6. LinkInv'
  BY <1>1, <1>2, <1>3, <1>5 DEF LinkInv, ToHome
<1>7. Written' = Written
  <2>1. \A s \in Stream : stream[s] = "unused" => wire[s] = <<>>
    BY DEF WireInv, PieceInv
  <2>2. wire' = wire
    BY DEF Quiet
  <2>3. \A s \in Stream : (IF dest'[s[1]] = Home THEN FramesIn(wire'[s]) ELSE <<>>) =
                           (IF dest[s[1]] = Home THEN FramesIn(wire[s]) ELSE <<>>)
    BY <1>5, <2>1, <2>2, NoFrames
  <2> QED
    BY <2>3, NextView DEF Written, ToHome
<1>8. Ending' = Ending
  <2>1. \A s \in Stream : stream[s] = "unused" => s \notin severed /\ stream[s] # "closed"
    BY DEF LinkInv
  <2> QED
    BY <1>1, <1>3, <1>5, <2>1, NextView DEF Ending, ToHome
<1> QED
  BY <1>2, <1>4, <1>6, <1>7, <1>8 DEF SenderStep, L!vars

(* A connect to Home is Listener's Connect.                                *)
LEMMA ConnectFeeds ==
  ASSUME IInv, WireInv, PairInv, LinkInv, SenderStep, NEW m \in Msg, ConnectOk(m)
  PROVE  (L!Next \/ UNCHANGED L!vars) /\ PairInv' /\ LinkInv'
<1> DEFINE s == <<m, attempt[m]>>
<1>1. s \in Stream /\ stream[s] = "unused"
  BY DEF ConnectOk, Stream, IInv, TypeOK, FreshInv
<1>2. stream' = [stream EXCEPT ![s] = "open"] /\ UNCHANGED <<wire, dest>>
  BY DEF ConnectOk
<1> HIDE DEF s
<1>3. stream'[s] = "open" /\ \A t \in Stream \ {s} : stream'[t] = stream[t]
  BY <1>1, <1>2 DEF IInv, TypeOK
<1>4. severed' = severed /\ s \notin severed
  BY <1>1, <1>3 DEF SenderStep, LinkInv
<1>5. conn[s] = "none"
  BY <1>1 DEF LinkInv
<1>6. \A t \in Stream : conn'[t] = IF t = s /\ ToHome(s) THEN "backlog" ELSE conn[t]
  BY <1>1, <1>3 DEF SenderStep
<1>7. conn' \in [Stream -> {"none", "backlog", "reset", "length", "body",
                           "completed", "failed", "panicked"}]
  BY <1>6 DEF SenderStep, LinkInv
<1>8. PairInv'
  BY <1>2 DEF PairInv
<1>9. LinkInv'
  BY <1>1, <1>2, <1>3, <1>4, <1>6, <1>7 DEF LinkInv, ToHome
<1>10. Written' = Written
  BY <1>2, NextView DEF Written, ToHome
<1>11. Ending' = Ending
  BY <1>1, <1>2, <1>3, <1>4, NextView DEF Ending, ToHome
<1>12. UNCHANGED <<listener, taken, received>>
  BY DEF SenderStep
<1>13. CASE ToHome(s)
  <2>1. conn' = [conn EXCEPT ![s] = "backlog"]
    BY <1>1, <1>6, <1>7, <1>13 DEF LinkInv
  <2>2. listener = "accepting"
    BY <1>5, <1>6, <1>1, <1>13 DEF SenderStep
  <2>3. L!Connect(s)
    BY <1>5, <1>10, <1>11, <1>12, <2>1, <2>2 DEF L!Connect
  <2> QED
    BY <1>1, <1>8, <1>9, <2>3 DEF L!Next
<1>14. CASE ~ToHome(s)
  <2>1. conn' = conn
    BY <1>6, <1>7, <1>14 DEF LinkInv
  <2> QED
    BY <1>8, <1>9, <1>10, <1>11, <1>12, <2>1 DEF L!vars
<1> QED
  BY <1>13, <1>14

(* The end of a stream to Home is Listener's Close: a shutdown closes it,  *)
(* a break resets it.                                                      *)
LEMMA EndFeeds ==
  ASSUME IInv, WireInv, PairInv, LinkInv, SenderStep, NEW s \in Stream,
         ShutdownStream(s) \/ Break(s)
  PROVE  (L!Next \/ UNCHANGED L!vars) /\ PairInv' /\ LinkInv'
<1>1. /\ UNCHANGED <<wire, dest>>
      /\ \A t \in Stream \ {s} : stream'[t] = stream[t]
      /\ \/ stream[s] = "closing" /\ stream'[s] = "closed"
         \/ stream[s] = "open" /\ stream'[s] = "broken"
  BY DEF ShutdownStream, Break, IInv, TypeOK
<1>2. conn' = conn
  <2>1. \A t \in Stream : ~(stream[t] = "unused" /\ stream'[t] = "open")
    BY <1>1
  <2>2. conn' = [t \in Stream |-> conn[t]]
    BY <2>1 DEF SenderStep
  <2> QED
    BY <2>2 DEF LinkInv
<1>3. severed' = IF stream[s] = "open" THEN severed \cup {s} ELSE severed
  BY <1>1 DEF SenderStep
<1>4. PairInv'
  BY <1>1 DEF PairInv
<1>5. LinkInv'
  BY <1>1, <1>2, <1>3 DEF LinkInv, ToHome
<1>6. Written' = Written
  BY <1>1, NextView DEF Written, ToHome
<1>7. UNCHANGED <<listener, taken, received>>
  BY DEF SenderStep
<1>8. \A t \in Stream \ {s} : Ending'[t] = Ending[t]
  BY <1>1, <1>3, NextView DEF Ending, ToHome
<1>9. /\ Ending = [t \in Stream |-> Ending[t]]
      /\ Ending' = [t \in Stream |-> Ending'[t]]
  BY NextView DEF Ending
<1>10. CASE ToHome(s) /\ s \notin severed
  <2> DEFINE how == IF stream[s] = "open" THEN "reset" ELSE "closed"
  <2>1. Ending[s] = "open" /\ Ending'[s] = how
    BY <1>1, <1>3, <1>10, NextView DEF Ending, ToHome
  <2>2. conn[s] # "none"
    BY <1>1, <1>10 DEF LinkInv
  <2>3. how \in {"closed", "torn", "reset"}
    OBVIOUS
  <2> HIDE DEF how
  <2>4. Ending' = [Ending EXCEPT ![s] = how]
    BY <1>8, <1>9, <2>1
  <2>5. L!Close(s, how)
    BY <1>2, <1>6, <1>7, <2>1, <2>2, <2>4 DEF L!Close
  <2> QED
    BY <1>4, <1>5, <2>3, <2>5 DEF L!Next
<1>11. CASE ~(ToHome(s) /\ s \notin severed)
  <2>1. Ending'[s] = Ending[s]
    BY <1>1, <1>3, <1>11, NextView DEF Ending, ToHome
  <2>2. Ending' = Ending
    BY <1>8, <1>9, <2>1
  <2> QED
    BY <1>2, <1>4, <1>5, <1>6, <1>7, <2>2 DEF L!vars
<1> QED
  BY <1>10, <1>11

(* The frame at a place of a stream to Home is that of a message whose     *)
(* send reported Ok to Home, and that has its body nowhere else.           *)
LEMMA FrameOwner ==
  ASSUME IInv, WireInv, PairInv, NEW s \in Stream, ToHome(s), NEW k \in DOMAIN Written[s]
  PROVE  /\ 2 * k \in DOMAIN wire[s] /\ k \in Nat
         /\ wire[s][2 * k].msg \in Msg
         /\ wire[s][2 * k] = Frame(wire[s][2 * k].msg, "body")
         /\ Written[s][k] = FrameOf[wire[s][2 * k].msg]
         /\ result[wire[s][2 * k].msg] = "ok" /\ dest[wire[s][2 * k].msg] = Home
         /\ \A t \in Stream : \A j \in DOMAIN wire[t] :
              wire[t][j] = Frame(wire[s][2 * k].msg, "body") <=> t = s /\ j = 2 * k
<1>1. wire[s] \in Seq(Piece) /\ Written[s] = FramesIn(wire[s])
  BY DEF IInv, TypeOK, Written
<1>2. PICK p \in Nat : Paired(wire[s], p)
  BY DEF PairInv
<1>3. FramesIn(wire[s]) = [j \in 1 .. p \div 2 |-> FrameOf[wire[s][2 * j].msg]]
  BY <1>1, <1>2, PairedFrames
<1>4. k \in 1 .. p \div 2 /\ Written[s][k] = FrameOf[wire[s][2 * k].msg]
  BY <1>1, <1>3
<1>5. PICK n : n = wire[s][2 * k].msg
  OBVIOUS
<1>6. 2 * k \in DOMAIN wire[s] /\ n \in Msg /\ wire[s][2 * k] = Frame(n, "body")
  BY <1>1, <1>2, <1>4, <1>5, PairedFrames
<1>7. result[n] = "ok"
  BY <1>6 DEF WireInv, CopyInv
<1>8. PICK t \in Stream : \E i \in DOMAIN wire[t] : CopyAt(n, t, i)
  BY <1>6, <1>7 DEF WireInv, CopyInv
<1>9. PICK i \in DOMAIN wire[t] : CopyAt(n, t, i)
  BY <1>8
<1>10. t = s /\ i = 2 * k
  BY <1>6, <1>9 DEF CopyAt
<1>11. dest[n] = Home
  BY <1>9, <1>10 DEF CopyAt, ToHome
<1> QED
  BY <1>4, <1>5, <1>6, <1>7, <1>9, <1>10, <1>11 DEF CopyAt

Places == UNION {{d} \X DOMAIN Written[d] : d \in Stream}

(* While some message has not been sent, there are fewer frames than       *)
(* streams.                                                                *)
LEMMA FramesBounded ==
  ASSUME IInv, WireInv, PairInv, NEW m \in Msg, result[m] # "ok"
  PROVE  Cardinality(Places) < Cardinality(Stream)
<1> DEFINE owner(c) == wire[c[1]][2 * c[2]].msg
           f == [c \in Places |-> owner(c)]
<1>1. ASSUME NEW c \in Places
      PROVE  /\ c[1] \in Stream /\ ToHome(c[1]) /\ c[2] \in DOMAIN Written[c[1]]
             /\ c = <<c[1], c[2]>>
  <2>1. PICK d \in Stream : c \in {d} \X DOMAIN Written[d]
    BY <1>1 DEF Places
  <2>2. c[1] = d /\ c[2] \in DOMAIN Written[d] /\ c = <<c[1], c[2]>>
    BY <2>1
  <2>3. ToHome(d)
    <3> SUFFICES ASSUME ~ToHome(d) PROVE FALSE
      OBVIOUS
    <3>1. Written[d] = <<>>
      BY DEF Written
    <3> QED
      BY <2>2, <3>1
  <2> QED
    BY <2>2, <2>3
<1>2. \A c \in Places : owner(c) \in Msg \ {m}
  BY <1>1, FrameOwner
<1>3. ASSUME NEW c \in Places, NEW e \in Places, owner(c) = owner(e) PROVE c = e
  <2>1. /\ c[2] \in Nat /\ 2 * c[2] \in DOMAIN wire[c[1]]
        /\ wire[c[1]][2 * c[2]] = Frame(owner(c), "body")
    BY <1>1, FrameOwner
  <2>2. /\ e[2] \in Nat
        /\ \A t \in Stream : \A j \in DOMAIN wire[t] :
             wire[t][j] = Frame(owner(e), "body") <=> t = e[1] /\ j = 2 * e[2]
    BY <1>1, FrameOwner
  <2>3. c[1] = e[1] /\ 2 * c[2] = 2 * e[2]
    BY <1>1, <1>3, <2>1, <2>2
  <2>4. c[2] = e[2]
    BY <2>1, <2>2, <2>3
  <2> QED
    BY <1>1, <2>3, <2>4
<1> HIDE DEF owner
<1>4. f \in Injection(Places, Msg \ {m})
  BY <1>2, <1>3 DEF Injection, IsInjective
<1>5. IsFiniteSet(Msg)
  BY EndToEndAssumption
<1>6. IsFiniteSet(Msg \ {m}) /\ Cardinality(Msg \ {m}) = Cardinality(Msg) - 1
  BY <1>5, FS_RemoveElement
<1>7. Cardinality(Places) <= Cardinality(Msg \ {m}) /\ IsFiniteSet(Places)
  BY <1>4, <1>6, FS_Injection
<1>8. Cardinality(Stream) = Cardinality(Msg) * 2
  <2>1. IsFiniteSet({1, 2}) /\ Cardinality({1, 2}) = 2
    <3>1. IsFiniteSet({1}) /\ Cardinality({1}) = 1
      BY FS_Singleton
    <3>2. {1, 2} = {1} \cup {2} /\ 2 \notin {1}
      OBVIOUS
    <3> QED
      BY <3>1, <3>2, FS_AddElement
  <2> QED
    BY <1>5, <2>1, FS_Product DEF Stream
<1>9. Cardinality(Msg) \in Nat /\ Cardinality(Places) \in Nat
  BY <1>5, <1>7, FS_CardinalityType
<1> QED
  BY <1>6, <1>7, <1>8, <1>9

(* The listener's frames are the letters' encodings.                       *)
LEMMA SameCardinality ==
  ASSUME NEW S
  PROVE  L!Cardinality(S) = Cardinality(S)
  BY DEF L!Cardinality, Cardinality

LEMMA SameEncode ==
  ASSUME NEW l
  PROVE  L!Encode(l) = Encode(l)
  BY DEF L!Encode, Encode, L!EncodeBy, EncodeBy, L!FromJson, FromJson, L!Some, Some,
         L!Nope, Nope, L!Defaults, Defaults, L!Compress, Compress, L!CompressBy, CompressBy,
         L!Mark, Mark, L!SerializeHeader, SerializeHeader, L!Field, Field,
         L!Wrapped, Wrapped, L!Serialize, Serialize, L!SerializeSign, SerializeSign,
         L!SerializeUnsigned, SerializeUnsigned, L!Sign, Sign, L!Signature, Signature,
         L!Hash, Hash

(* A body written to a stream to Home is Listener's WriteFrame; lengths    *)
(* and failed writes the reader does not see.                              *)
LEMMA WriteFeeds ==
  ASSUME IInv, WireInv, PairInv, LinkInv, SenderStep,
         NEW m \in Msg, NEW part \in {"len", "body", "fail"}, Writes(m, part)
  PROVE  (L!Next \/ UNCHANGED L!vars) /\ PairInv' /\ LinkInv'
<1>1. PICK s : s = socket[held[m]]
  OBVIOUS
<1>2. /\ s \in Stream
      /\ \A t \in Stream \ {s} : wire'[t] = wire[t]
      /\ \E p \in Nat : Paired(wire'[s], p)
      /\ part = "body" => FramesIn(wire'[s]) = Append(FramesIn(wire[s]), FrameOf[m])
      /\ part # "body" => FramesIn(wire'[s]) = FramesIn(wire[s])
      /\ part # "fail" => stream[s] = "open"
      /\ part = "body" => result[m] # "ok"
  BY <1>1, WritePaired
<1>3. /\ UNCHANGED dest
      /\ \A t \in Stream :
           stream'[t] = stream[t] \/ (stream[t] = "broken" /\ stream'[t] = "closed")
  BY DEF Writes
<1>4. conn' = conn
  <2>1. \A t \in Stream : ~(stream[t] = "unused" /\ stream'[t] = "open")
    BY <1>3
  <2>2. conn' = [t \in Stream |-> conn[t]]
    BY <2>1 DEF SenderStep
  <2> QED
    BY <2>2 DEF LinkInv
<1>5. severed' = severed
  BY <1>3 DEF SenderStep
<1>6. PairInv'
  BY <1>2 DEF PairInv
<1>7. LinkInv'
  BY <1>3, <1>4, <1>5 DEF LinkInv, ToHome
<1>8. Ending' = Ending
  BY <1>3, <1>5, NextView DEF Ending, ToHome, LinkInv
<1>9. UNCHANGED <<listener, taken, received>>
  BY DEF SenderStep
<1>10. /\ Written = [t \in Stream |-> Written[t]]
       /\ Written' = [t \in Stream |-> Written'[t]]
       /\ \A t \in Stream \ {s} : Written'[t] = Written[t]
  BY <1>2, <1>3, NextView DEF Written, ToHome
<1>11. CASE part = "body" /\ ToHome(s)
  <2>1. Written'[s] = Append(Written[s], FrameOf[m])
    BY <1>2, <1>3, <1>11, NextView DEF Written, ToHome
  <2>2. Written' = [Written EXCEPT ![s] = Append(Written[s], FrameOf[m])]
    BY <1>10, <2>1
  <2>3. conn[s] # "none"
    BY <1>2, <1>11 DEF LinkInv
  <2>4. Ending[s] = "open"
    BY <1>2, <1>11 DEF Ending, LinkInv
  <2>5. L!Cardinality(UNION {{d} \X DOMAIN Written[d] : d \in Stream}) < Cardinality(Stream)
    BY <1>2, <1>11, FramesBounded, SameCardinality DEF Places
  <2>6. FrameOf[m] \in L!Frames
    BY SameEncode DEF FrameOf, L!Frames
  <2>7. L!WriteFrame(s, FrameOf[m])
    BY <1>4, <1>8, <1>9, <2>2, <2>3, <2>4, <2>5 DEF L!WriteFrame
  <2> QED
    BY <1>2, <1>6, <1>7, <2>6, <2>7 DEF L!Next
<1>12. CASE ~(part = "body" /\ ToHome(s))
  <2>1. Written'[s] = Written[s]
    BY <1>2, <1>3, <1>12, NextView DEF Written, ToHome
  <2>2. Written' = Written
    BY <1>10, <2>1
  <2> QED
    BY <1>4, <1>6, <1>7, <1>8, <1>9, <2>2 DEF L!vars
<1> QED
  BY <1>11, <1>12

-----------------------------------------------------------------------------
(* The whole system.                                                       *)

SysInv == IInv /\ WireInv /\ PairInv /\ LinkInv

(* The sender behaves as Sender says, whatever the listener does.          *)
LEMMA SystemIsSender == SystemSpec => [](IInv /\ WireInv)
<1>1. SystemInit => Init
  BY DEF SystemInit
<1>2. [SystemNext]_sysVars => [Next]_vars
  BY DEF SystemNext, SenderStep, ListenerStep, ReaderStep, sysVars
<1>3. SystemSpec => Spec
  BY <1>1, <1>2, PTL DEF SystemSpec, Spec
<1> QED
  BY <1>3, SenderWireInv, PTL

LEMMA SystemStart ==
  ASSUME SystemInit
  PROVE  PairInv /\ LinkInv /\ L!Init
<1>1. /\ wire = [s \in Stream |-> <<>>] /\ stream = [s \in Stream |-> "unused"]
      /\ dest = [m \in Msg |-> None] /\ severed = {}
      /\ conn = [s \in Stream |-> "none"]
  BY DEF SystemInit, Init
<1>2. Paired(<<>>, 0)
  BY DEF Paired
<1>3. PairInv
  BY <1>1, <1>2 DEF PairInv
<1>4. LinkInv
  BY <1>1 DEF LinkInv
<1>5. \A s \in Stream : ~ToHome(s)
  <2>1. \A s \in Stream : s[1] \in Msg
    BY DEF Stream
  <2>2. Home # None
    BY EndToEndAssumption, SenderAssumption
  <2> QED
    BY <1>1, <2>1, <2>2 DEF ToHome
<1>6. Written = [s \in Stream |-> <<>>] /\ Ending = [s \in Stream |-> "open"]
  BY <1>5 DEF Written, Ending
<1> QED
  BY <1>3, <1>4, <1>6 DEF SystemInit, L!Init

(* The steps of the listener's tasks keep the connections that there are.  *)
LEMMA ListenerLink ==
  ASSUME LinkInv, PairInv, UNCHANGED <<vars, severed>>,
         \/ UNCHANGED conn
         \/ L!BindOk \/ L!BindFails \/ L!AcceptFails \/ L!Wake
         \/ \E s \in Stream : L!Accept(s) \/ L!Receive(s)
  PROVE  LinkInv' /\ PairInv'
<1>1. UNCHANGED <<stream, dest, wire, severed>>
  BY DEF vars
<1>2. PairInv'
  BY <1>1 DEF PairInv
<1>3. /\ conn' \in [Stream -> {"none", "backlog", "reset", "length", "body",
                              "completed", "failed", "panicked"}]
      /\ \A s \in Stream : conn'[s] = "none" <=> conn[s] = "none"
  <2>1. CASE UNCHANGED conn \/ L!BindOk \/ L!BindFails \/ L!Wake
    BY <2>1 DEF LinkInv, L!BindOk, L!BindFails, L!Wake
  <2>2. CASE L!AcceptFails
    BY <2>2 DEF LinkInv, L!AcceptFails
  <2>3. ASSUME NEW s \in Stream, L!Accept(s) \/ L!Receive(s)
        PROVE  /\ conn[s] \in {"backlog", "length", "body"}
               /\ \E x \in {"length", "body", "completed", "failed", "panicked"} :
                    conn' = [conn EXCEPT ![s] = x]
    <3>1. CASE L!Accept(s) \/ L!ReadLength(s) \/ L!EndOfStream(s) \/ L!TornFrame(s)
      BY <3>1 DEF L!Accept, L!ReadLength, L!EndOfStream, L!TornFrame
    <3>2. CASE L!ReadBody(s)
      BY <3>2 DEF L!ReadBody
    <3> QED
      BY <2>3, <3>1, <3>2 DEF L!Receive
  <2>4. ASSUME NEW s \in Stream, L!Accept(s) \/ L!Receive(s)
        PROVE  /\ conn' \in [Stream -> {"none", "backlog", "reset", "length", "body",
                                        "completed", "failed", "panicked"}]
               /\ \A t \in Stream : conn'[t] = "none" <=> conn[t] = "none"
    BY <2>3, <2>4 DEF LinkInv
  <2> QED
    BY <2>1, <2>2, <2>4
<1>4. LinkInv'
  BY <1>1, <1>3 DEF LinkInv, ToHome
<1> QED
  BY <1>2, <1>4

(* Every step of the system is one of Listener's, or invisible to it.      *)
LEMMA SystemStep ==
  ASSUME SysInv, [SystemNext]_sysVars
  PROVE  (L!Next \/ UNCHANGED L!vars) /\ PairInv' /\ LinkInv'
<1>1. IInv /\ WireInv /\ PairInv /\ LinkInv
  BY DEF SysInv
<1>2. CASE SenderStep
  <2>1. Next
    BY <1>2 DEF SenderStep
  <2> QED
    BY <1>1, <1>2, <2>1, StepKinds, QuietFeeds, ConnectFeeds, WriteFeeds, EndFeeds
<1>3. CASE ListenerStep
  <2>1. /\ UNCHANGED <<vars, severed>>
        /\ L!BindOk \/ L!BindFails \/ L!AcceptFails \/ L!Wake
    BY <1>3 DEF ListenerStep
  <2>2. L!Next
    BY <2>1 DEF L!Next
  <2> QED
    BY <1>1, <2>1, <2>2, ListenerLink
<1>4. ASSUME NEW s \in Stream, ReaderStep(s)
      PROVE  L!Next /\ PairInv' /\ LinkInv'
  <2>1. UNCHANGED <<vars, severed>> /\ (L!Accept(s) \/ L!Receive(s))
    BY <1>4 DEF ReaderStep
  <2>2. L!Next
    BY <2>1 DEF L!Next
  <2> QED
    BY <1>1, <2>1, <2>2, ListenerLink
<1>5. CASE UNCHANGED sysVars
  <2>1. UNCHANGED <<vars, severed, listener, conn, taken, received>>
    BY <1>5 DEF sysVars, reader
  <2>2. LinkInv' /\ PairInv'
    BY <1>1, <2>1, ListenerLink
  <2>3. UNCHANGED <<dest, wire, stream>>
    BY <2>1 DEF vars
  <2>4. Written' = Written /\ Ending' = Ending
    BY <2>1, <2>3, NextView DEF Written, Ending, ToHome
  <2> QED
    BY <2>1, <2>2, <2>4 DEF L!vars
<1> QED
  BY <1>2, <1>3, <1>4, <1>5 DEF SystemNext

(* The streams pair lengths with bodies and belong to the connections as   *)
(* LinkInv says, in every state of the system.                             *)
LEMMA SystemInvariant == SystemSpec => []SysInv
<1>1. SystemInit => PairInv /\ LinkInv
  BY SystemStart
<1>2. IInv /\ WireInv /\ PairInv /\ LinkInv /\ [SystemNext]_sysVars => PairInv' /\ LinkInv'
  BY SystemStep DEF SysInv
<1>3. SystemSpec => [](PairInv /\ LinkInv)
  BY <1>1, <1>2, SystemIsSender, PTL DEF SystemSpec
<1> QED
  BY <1>3, SystemIsSender, PTL DEF SysInv

(* Whatever Connection::send, the cache, the evictor and the retry do, the *)
(* streams that reach the listener are streams of whole frames of this     *)
(* library that end as receive expects.                                    *)
THEOREM EndToEndFeedsListener == SystemSpec => FeedsListener
<1>1. SystemInit => L!Init
  BY SystemStart
<1>2. SysInv /\ [SystemNext]_sysVars => [L!Next]_(L!vars)
  BY SystemStep
<1> QED
  BY <1>1, <1>2, SystemInvariant, PTL DEF SystemSpec, FeedsListener, L!Spec

-----------------------------------------------------------------------------
(* So what is proved of every listener holds of this one.                  *)

LP == INSTANCE ListenerProofs
      WITH Conn <- Stream, Letter <- {LetterOf[m] : m \in Msg}, Foreign <- {},
           MaxFrames <- Cardinality(Stream), written <- Written, ending <- Ending

(* The definitions that LP takes from Listener and Codec are those of L.   *)
LEMMA SameEncodeLP ==
  ASSUME NEW l
  PROVE  LP!Encode(l) = Encode(l)
  BY DEF LP!Encode, Encode, LP!EncodeBy, EncodeBy, LP!FromJson, FromJson,
         LP!Some, Some, LP!Nope, Nope, LP!Defaults, Defaults, LP!Compress,
         Compress, LP!CompressBy, CompressBy, LP!Mark, Mark,
         LP!SerializeHeader, SerializeHeader, LP!Field, Field, LP!Wrapped,
         Wrapped, LP!Serialize, Serialize, LP!SerializeSign,
         SerializeSign, LP!SerializeUnsigned, SerializeUnsigned, LP!Sign,
         Sign, LP!Signature, Signature, LP!Hash, Hash

LEMMA SameCursor ==
  /\ \A s : LP!Cursor(s) = L!Cursor(s)
  /\ \A c : LP!ReadOne(c) = L!ReadOne(c)
  /\ \A c : LP!ReadField(c) = L!ReadField(c)
  /\ \A x : LP!Some(x) = L!Some(x)
  /\ LP!Nope = L!Nope
  /\ \A s : LP!Field(s) = L!Field(s)
  /\ \A s : LP!Utf8(s) <=> L!Utf8(s)
<1>1. ASSUME NEW s PROVE LP!Cursor(s) = L!Cursor(s)
  BY DEF LP!Cursor, L!Cursor
<1>2. LP!Failed = L!Failed
  BY DEF LP!Failed, L!Failed
<1>3. ASSUME NEW c PROVE LP!ReadOne(c) = L!ReadOne(c)
  BY <1>2 DEF LP!ReadOne, L!ReadOne
<1>4. ASSUME NEW c PROVE LP!ReadField(c) = L!ReadField(c)
  BY <1>2 DEF LP!ReadField, L!ReadField
<1>5. ASSUME NEW x PROVE LP!Some(x) = L!Some(x)
  BY DEF LP!Some, L!Some
<1>6. LP!Nope = L!Nope
  BY DEF LP!Nope, L!Nope
<1>7. ASSUME NEW s PROVE LP!Field(s) = L!Field(s)
  BY DEF LP!Field, L!Field
<1>8. ASSUME NEW s PROVE LP!Utf8(s) <=> L!Utf8(s)
  BY DEF LP!Utf8, L!Utf8
<1> QED
  BY <1>1, <1>3, <1>4, <1>5, <1>6, <1>7, <1>8

LEMMA SameMessage ==
  ASSUME NEW s
  PROVE  LP!DeserializeMessage(s) = L!DeserializeMessage(s)
  BY SameCursor DEF LP!DeserializeMessage, L!DeserializeMessage

LEMMA SameHeader ==
  ASSUME NEW version, NEW s
  PROVE  LP!DeserializeHeader(version, s) = L!DeserializeHeader(version, s)
<1>1. LP!DeserializeHeaderV1(s) = L!DeserializeHeaderV1(s)
  BY SameCursor DEF LP!DeserializeHeaderV1, L!DeserializeHeaderV1, LP!Compression, L!Compression
<1> QED
  BY <1>1, SameCursor DEF LP!DeserializeHeader, L!DeserializeHeader

LEMMA SameData ==
  ASSUME NEW h, NEW data
  PROVE  /\ LP!Decompress(h, data) = L!Decompress(h, data)
         /\ LP!Validate(h, data) <=> L!Validate(h, data)
  BY SameCursor DEF LP!Decompress, L!Decompress, LP!DecompressBy, L!DecompressBy,
     LP!IsPrefix, L!IsPrefix, LP!Mark, L!Mark, LP!Validate, L!Validate

LEMMA SameVerify ==
  ASSUME NEW m, NEW key
  PROVE  /\ LP!Verify(m, key) <=> L!Verify(m, key)
         /\ LP!KeyWellFormed(m) <=> L!KeyWellFormed(m)
  BY DEF LP!Verify, L!Verify, LP!Opens, L!Opens, LP!Hash, L!Hash,
         LP!SerializeUnsigned, L!SerializeUnsigned, LP!Field, L!Field,
         LP!KeyWellFormed, L!KeyWellFormed

LEMMA SameHex ==
  ASSUME NEW s
  PROVE  LP!Hex(s) = L!Hex(s)
  BY DEF LP!Hex, L!Hex, LP!FlattenSeq, L!FlattenSeq

LEMMA SameJson ==
  ASSUME NEW h
  PROVE  /\ LP!ToJson(h) = L!ToJson(h)
         /\ LP!SignToJson(h) = L!SignToJson(h)
<1>1. LP!ToJson(h) = L!ToJson(h)
  BY SameCursor DEF LP!ToJson, L!ToJson, LP!Texts, L!Texts, LP!Verbatim, L!Verbatim,
     LP!NotJson, L!NotJson
<1>2. LP!SignToJson(h) = L!SignToJson(h)
  BY SameHex DEF LP!SignToJson, L!SignToJson
<1> QED
  BY <1>1, <1>2

LEMMA SameJudge ==
  ASSUME NEW s, NEW key
  PROVE  LP!Judge(s, key) = L!Judge(s, key)
<1>1. PICK message : message = L!DeserializeMessage(Tail(s))
  OBVIOUS
<1>2. PICK m : m = message.value
  OBVIOUS
<1>3. PICK header : header = L!DeserializeHeader(m.header_version, m.header)
  OBVIOUS
<1>4. PICK h : h = header.value
  OBVIOUS
<1>5. PICK data : data = L!Decompress(h, m.data)
  OBVIOUS
<1> DEFINE meant ==
      IF s = <<>> \/ s[1] # 1
      THEN [verdict |-> IF L!Utf8(s) THEN "deliver" ELSE "end", text |-> s]
      ELSE IF ~message.some                     THEN [verdict |-> "panic"]
      ELSE IF Len(m.header) > HeaderLimit       THEN [verdict |-> "skip"]
      ELSE IF ~L!KeyWellFormed(m.sign.owner)    THEN [verdict |-> "panic"]
      ELSE IF ~L!Verify(m, key)                 THEN [verdict |-> "skip"]
      ELSE IF ~header.some                      THEN [verdict |-> "panic"]
      ELSE IF ~L!Validate(h, m.data)            THEN [verdict |-> "skip"]
      ELSE IF ~data.some                        THEN [verdict |-> "panic"]
      ELSE IF ~L!Utf8(data.value)               THEN [verdict |-> "end"]
      ELSE [verdict |-> "deliver", text |-> data.value,
            version |-> m.header_version, header |-> L!ToJson(h),
            sign |-> L!SignToJson(m.sign)]
<1>6. L!Judge(s, key) = meant
  BY <1>1, <1>2, <1>3, <1>4, <1>5 DEF L!Judge
<1>7. LP!Judge(s, key) = meant
  BY <1>1, <1>2, <1>3, <1>4, <1>5, SameCursor, SameMessage, SameHeader, SameData,
     SameVerify, SameJson DEF LP!Judge
<1> QED
  BY <1>6, <1>7

LEMMA SameJudged == LP!Frames = L!Frames /\ LP!Judged = L!Judged
<1>1. LP!Frames = L!Frames
  BY SameEncode, SameEncodeLP DEF LP!Frames, L!Frames
<1> QED
  BY <1>1, SameJudge DEF LP!Judged, L!Judged

LEMMA SameNext == L!Next => LP!Next
<1>1. /\ L!BindOk => LP!BindOk
      /\ L!BindFails => LP!BindFails
      /\ L!AcceptFails => LP!AcceptFails
      /\ L!Wake => LP!Wake
  BY DEF L!BindOk, LP!BindOk, L!BindFails, LP!BindFails, L!AcceptFails,
         LP!AcceptFails, L!Wake, LP!Wake
<1>2. ASSUME NEW c \in Stream
      PROVE  /\ L!Accept(c) => LP!Accept(c)
             /\ L!Connect(c) => LP!Connect(c)
             /\ L!ReadLength(c) => LP!ReadLength(c)
             /\ L!EndOfStream(c) => LP!EndOfStream(c)
             /\ L!TornFrame(c) => LP!TornFrame(c)
  BY DEF L!Accept, LP!Accept, L!Connect, LP!Connect, L!ReadLength, LP!ReadLength,
         L!EndOfStream, LP!EndOfStream, L!TornFrame, LP!TornFrame, L!Unread, LP!Unread
<1>3. ASSUME NEW c \in Stream
      PROVE  L!ReadBody(c) => LP!ReadBody(c)
  BY SameJudged DEF L!ReadBody, LP!ReadBody, L!Unread, LP!Unread
<1>4. ASSUME NEW c \in Stream
      PROVE  L!Receive(c) => LP!Receive(c)
  BY <1>2, <1>3 DEF L!Receive, LP!Receive
<1>5. ASSUME NEW S
      PROVE  LP!Cardinality(S) = L!Cardinality(S)
  BY DEF LP!Cardinality, L!Cardinality
<1>6. ASSUME NEW c \in Stream, NEW s
      PROVE  L!WriteFrame(c, s) => LP!WriteFrame(c, s)
  BY <1>5 DEF L!WriteFrame, LP!WriteFrame
<1>7. ASSUME NEW c \in Stream, NEW how
      PROVE  L!Close(c, how) => LP!Close(c, how)
  BY DEF L!Close, LP!Close
<1> QED
  BY <1>1, <1>2, <1>4, <1>6, <1>7, SameJudged DEF L!Next, LP!Next

(* Listener's assumption holds of what this sender's callers give it.      *)
LEMMA LettersSendable ==
  /\ \A l \in {LetterOf[m] : m \in Msg} : LP!Sendable(l) /\ LP!Encode(l) \notin {}
  /\ hash_key \in Nat /\ HeaderLimit \in Nat
  /\ Cardinality(Stream) \in Nat
<1>1. \A l : L!Sendable(l) => LP!Sendable(l)
  BY DEF LP!Sendable, L!Sendable, LP!Utf8, L!Utf8, LP!HeaderGiven, L!HeaderGiven,
         LP!FromJson, L!FromJson, LP!Some, L!Some, LP!Nope, L!Nope, LP!Defaults,
         L!Defaults, LP!Compression, L!Compression, LP!Texts, L!Texts
<1>2. IsFiniteSet({1}) /\ {1, 2} = {1} \cup {2}
  BY FS_Singleton
<1>3. IsFiniteSet(Stream)
  BY <1>2, EndToEndAssumption, FS_AddElement, FS_Product DEF Stream
<1> QED
  BY <1>1, <1>3, EndToEndAssumption, FS_CardinalityType

(* What is known of the connections, in terms of the sender's streams.     *)
LEMMA SystemReader == SystemSpec => [](LP!ListenerInv /\ LP!ReadToTheEnd)
<1>1. L!Init => LP!Init
  BY DEF L!Init, LP!Init
<1>2. L!vars = LP!vars
  BY DEF L!vars, LP!vars
<1>3. [L!Next]_(L!vars) => [LP!Next]_(LP!vars)
  BY SameNext DEF L!vars, LP!vars
<1>4. L!Spec => LP!Spec
  BY <1>1, <1>3, PTL DEF L!Spec, LP!Spec
<1>5. LP!Spec => []LP!ListenerInv
  BY LP!ListenerInvariant, LettersSendable
<1>6. LP!Spec => []LP!ReadToTheEnd
  BY LP!ListenerReadsToTheEnd, LettersSendable
<1> QED
  BY <1>4, <1>5, <1>6, EndToEndFeedsListener, PTL DEF FeedsListener

-----------------------------------------------------------------------------
(* What comes out.                                                         *)

LEMMA SamePasses ==
  ASSUME NEW l
  PROVE  LP!Passes(l) <=> L!Passes(l)
  BY DEF LP!Passes, L!Passes, LP!FromJson, L!FromJson, LP!Some, L!Some,
         LP!Nope, L!Nope, LP!Defaults, L!Defaults

(* The frame of a message is delivered, with its text.                     *)
LEMMA FrameJudged ==
  ASSUME NEW m \in Msg
  PROVE  /\ FrameOf[m] \in LP!Frames
         /\ LP!Judged[FrameOf[m]].verdict = "deliver"
         /\ LP!Judged[FrameOf[m]].text = LetterOf[m].text
<1>1. PICK l : l = LetterOf[m]
  OBVIOUS
<1>2. l \in {LetterOf[n] : n \in Msg} /\ FrameOf[m] = LP!Encode(l)
  BY <1>1, SameEncodeLP DEF FrameOf
<1>3. LP!Passes(l)
  BY <1>1, SamePasses, EndToEndAssumption
<1>4. PICK j : j = LP!Judge(LP!Encode(l), hash_key)
  OBVIOUS
<1>5. j.verdict = "deliver" /\ LP!Shows(j, l)
  BY <1>2, <1>3, <1>4, LP!OwnLettersRoundTrip, LettersSendable
<1>6. j.text = l.text
  BY <1>5 DEF LP!Shows
<1>7. FrameOf[m] \in LP!Frames
  BY <1>2 DEF LP!Frames
<1>8. LP!Judged[FrameOf[m]] = j
  BY <1>2, <1>4, <1>7 DEF LP!Judged
<1> QED
  BY <1>1, <1>5, <1>6, <1>7, <1>8

(* The message whose body is the at-th of the frames that s carried.       *)
Source(s, at) == wire[s][2 * at].msg

(* What came out is the text of a message of this sender, sent to Home     *)
(* with success, of which no stream holds another copy.                    *)
LEMMA ArrivalSource ==
  ASSUME SysInv, LP!TypeInv, NEW at \in [DOMAIN received -> Nat], LP!FromItsFrame(at),
         NEW i \in DOMAIN received, NEW m, m = Source(received[i].from, at[i])
  PROVE  /\ m \in Msg /\ received[i].message.text = LetterOf[m].text
         /\ result[m] = "ok" /\ dest[m] = Home
         /\ received[i].from \in Stream
         /\ 2 * at[i] \in DOMAIN wire[received[i].from]
         /\ wire[received[i].from][2 * at[i]] = Frame(m, "body")
         /\ \A t \in Stream : \A j \in DOMAIN wire[t] :
              wire[t][j] = Frame(m, "body") <=> t = received[i].from /\ j = 2 * at[i]
<1>1. PICK s : s = received[i].from
  OBVIOUS
<1>2. PICK k : k = at[i]
  OBVIOUS
<1>3. s \in Stream /\ taken[s] \in Nat /\ taken[s] \in 0 .. Len(Written[s])
  BY <1>1 DEF LP!TypeInv, LP!TypeOK
<1>4. /\ k \in 1 .. taken[s]
      /\ received[i].message = LP!Judged[Written[s][k]]
  BY <1>1, <1>2 DEF LP!FromItsFrame
<1>5. Written[s] \in Seq(LP!Frames)
  BY <1>3 DEF LP!TypeInv, LP!TypeOK
<1>6. Len(Written[s]) \in Nat /\ DOMAIN Written[s] = 1 .. Len(Written[s])
  BY <1>5, LenProperties
<1>7. k \in DOMAIN Written[s]
  BY <1>3, <1>4, <1>6
<1>8. ToHome(s)
  <2> SUFFICES ASSUME ~ToHome(s) PROVE FALSE
    OBVIOUS
  <2>1. Written[s] = <<>>
    BY <1>3 DEF Written
  <2> QED
    BY <1>7, <2>1
<1>9. m = wire[s][2 * k].msg
  BY <1>1, <1>2 DEF Source
<1>10. /\ 2 * k \in DOMAIN wire[s] /\ m \in Msg
       /\ Written[s][k] = FrameOf[m]
       /\ result[m] = "ok" /\ dest[m] = Home
       /\ \A t \in Stream : \A j \in DOMAIN wire[t] :
            wire[t][j] = Frame(m, "body") <=> t = s /\ j = 2 * k
  BY <1>3, <1>7, <1>8, <1>9, FrameOwner DEF SysInv
<1>11. received[i].message.text = LetterOf[m].text
  BY <1>4, <1>10, FrameJudged
<1>12. wire[s][2 * k] = Frame(m, "body")
  BY <1>3, <1>10
<1> QED
  BY <1>1, <1>2, <1>3, <1>10, <1>11, <1>12

LEMMA ArrivalUnique ==
  ASSUME SysInv, LP!ListenerInv
  PROVE  ArrivesAtMostOnce
<1>1. PICK at \in [DOMAIN received -> Nat] :
        LP!FromItsFrame(at) /\ LP!InOrder(at) /\ LP!Complete(at)
  BY DEF LP!ListenerInv, LP!SourceInv
<1>2. LP!TypeInv
  BY DEF LP!ListenerInv
<1>3. received \in Seq(LP!Handed)
  BY <1>2 DEF LP!TypeInv
<1>4. Len(received) \in Nat /\ DOMAIN received = 1 .. Len(received)
  BY <1>3, LenProperties
<1>5. \A i \in DOMAIN received : \E m \in Msg : i \in Arrivals(m)
  BY <1>1, <1>2, ArrivalSource DEF Arrivals
<1>6. ASSUME NEW m \in Msg, NEW i \in Arrivals(m)
      PROVE  m = Source(received[i].from, at[i])
  BY <1>1, <1>2, <1>6, ArrivalSource, EndToEndAssumption DEF Arrivals
<1>7. ASSUME NEW m \in Msg, NEW i \in Arrivals(m), NEW j \in Arrivals(m)
      PROVE  i = j
  <2>1. i \in DOMAIN received /\ j \in DOMAIN received
    BY DEF Arrivals
  <2>2. m = Source(received[i].from, at[i]) /\ m = Source(received[j].from, at[j])
    BY <1>6
  <2>3. PICK s \in Stream : s = received[i].from
    BY <1>1, <1>2, <2>1, <2>2, ArrivalSource
  <2>4. PICK t \in Stream : t = received[j].from
    BY <1>1, <1>2, <2>1, <2>2, ArrivalSource
  <2>5. 2 * at[i] \in DOMAIN wire[s] /\ 2 * at[j] \in DOMAIN wire[t]
    BY <1>1, <1>2, <2>1, <2>2, <2>3, <2>4, ArrivalSource
  <2>6. wire[s][2 * at[i]] = Frame(m, "body")
    <3>1. wire[received[i].from][2 * at[i]] = Frame(Source(received[i].from, at[i]), "body")
      BY <1>1, <1>2, <2>1, ArrivalSource
    <3> QED
      BY <2>2, <2>3, <3>1
  <2>7. s = t /\ 2 * at[i] = 2 * at[j]
    BY <1>1, <1>2, <2>1, <2>2, <2>3, <2>4, <2>5, <2>6, ArrivalSource
  <2>8. at[i] \in Nat /\ at[j] \in Nat
    BY <1>1, <2>1
  <2>9. at[i] = at[j]
    BY <2>7, <2>8
  <2>10. received[i].from = received[j].from
    BY <2>3, <2>4, <2>7
  <2>11. /\ i < j => at[i] < at[j]
         /\ j < i => at[j] < at[i]
    BY <1>1, <2>1, <2>10 DEF LP!InOrder
  <2> QED
    BY <1>4, <2>1, <2>8, <2>9, <2>11
<1>8. ASSUME NEW m \in Msg
      PROVE  Cardinality(Arrivals(m)) <= 1
  <2>1. CASE Arrivals(m) = {}
    BY <2>1, FS_EmptySet
  <2>2. CASE Arrivals(m) # {}
    <3>1. PICK i : i \in Arrivals(m)
      BY <2>2
    <3>2. Arrivals(m) = {i}
      BY <1>7, <3>1
    <3> QED
      BY <3>2, FS_Singleton
  <2> QED
    BY <2>1, <2>2
<1>9. ASSUME NEW m \in Msg, Arrivals(m) # {}
      PROVE  dest[m] = Home /\ result[m] = "ok"
  <2>1. PICK i : i \in Arrivals(m)
    BY <1>9
  <2>2. i \in DOMAIN received /\ m = Source(received[i].from, at[i])
    BY <1>6, <2>1 DEF Arrivals
  <2> QED
    BY <1>1, <1>2, <2>2, ArrivalSource
<1>10. DOMAIN received = UNION {Arrivals(m) : m \in Msg}
  <2>1. \A m \in Msg : Arrivals(m) \subseteq DOMAIN received
    BY DEF Arrivals
  <2> QED
    BY <1>5, <2>1
<1> QED
  BY <1>8, <1>9, <1>10 DEF ArrivesAtMostOnce

(* Nothing comes out at the listener that was not sent to its address,     *)
(* nothing twice although Connection::send retries on a fresh stream, and  *)
(* nothing of which send reported an error.                                *)
THEOREM EndToEndArrivesAtMostOnce == SystemSpec => []ArrivesAtMostOnce
<1>1. SysInv /\ LP!ListenerInv => ArrivesAtMostOnce
  BY ArrivalUnique
<1> QED
  BY <1>1, SystemInvariant, SystemReader, PTL

(* A message that was sent to Home with success has its frame on a stream  *)
(* that the listener has seen.                                             *)
LEMMA SentFrame ==
  ASSUME SysInv, NEW m \in Msg, result[m] = "ok", dest[m] = Home
  PROVE  \E s \in Stream : \E i \in DOMAIN wire[s] :
           /\ ToHome(s) /\ <<s, i>> \in Copies(m) /\ conn[s] # "none"
           /\ i \div 2 \in DOMAIN Written[s] /\ Written[s][i \div 2] = FrameOf[m]
<1>1. PICK s \in Stream : \E i \in DOMAIN wire[s] : CopyAt(m, s, i)
  BY DEF SysInv, WireInv, CopyInv
<1>2. PICK i \in DOMAIN wire[s] : CopyAt(m, s, i)
  BY <1>1
<1>3. ToHome(s) /\ wire[s][i] = Frame(m, "body")
  BY <1>2 DEF CopyAt, ToHome
<1>4. wire[s][i].part = "body" /\ wire[s][i].msg = m
  BY <1>3 DEF Frame
<1>5. <<s, i>> \in Copies(m)
  BY <1>3 DEF Copies, Frame
<1>6. wire[s] \in Seq(Piece)
  BY DEF SysInv, IInv, TypeOK
<1>7. PICK p \in Nat : Paired(wire[s], p)
  BY DEF SysInv, PairInv
<1>8. i \div 2 \in 1 .. p \div 2 /\ i = 2 * (i \div 2)
  BY <1>4, <1>6, <1>7, BodyPlace
<1>9. Written[s] = [k \in 1 .. p \div 2 |-> FrameOf[wire[s][2 * k].msg]]
  BY <1>3, <1>6, <1>7, PairedFrames DEF Written
<1>10. i \div 2 \in DOMAIN Written[s] /\ Written[s][i \div 2] = FrameOf[m]
  BY <1>4, <1>8, <1>9
<1>11. stream[s] # "unused"
  BY <1>4 DEF SysInv, WireInv, PieceInv
<1>12. conn[s] # "none"
  BY <1>3, <1>11 DEF SysInv, LinkInv
<1> QED
  BY <1>3, <1>5, <1>10, <1>12

LEMMA NothingLost ==
  ASSUME SysInv, LP!ListenerInv, LP!ReadToTheEnd
  PROVE  NoneLost
<1> SUFFICES ASSUME NEW m \in Msg, result[m] = "ok", dest[m] = Home
             PROVE  \/ Arrivals(m) # {}
                    \/ \E c \in Copies(m) :
                         \/ c[1] \in severed
                         \/ conn[c[1]] = "reset"
                         \/ /\ conn[c[1]] \in {"backlog", "length", "body"}
                            /\ \E k \in taken[c[1]] + 1 .. Len(Written[c[1]]) :
                                 Written[c[1]][k] = FrameOf[m]
  BY DEF NoneLost
<1>1. PICK s \in Stream : \E i \in DOMAIN wire[s] :
           /\ ToHome(s) /\ <<s, i>> \in Copies(m) /\ conn[s] # "none"
           /\ i \div 2 \in DOMAIN Written[s] /\ Written[s][i \div 2] = FrameOf[m]
  BY SentFrame
<1>2. PICK i \in DOMAIN wire[s] :
           /\ ToHome(s) /\ <<s, i>> \in Copies(m) /\ conn[s] # "none"
           /\ i \div 2 \in DOMAIN Written[s] /\ Written[s][i \div 2] = FrameOf[m]
  BY <1>1
<1>3. PICK k : k = i \div 2
  OBVIOUS
<1>4. k \in DOMAIN Written[s] /\ Written[s][k] = FrameOf[m]
  BY <1>2, <1>3
<1>5. /\ Written[s] \in Seq(LP!Frames)
      /\ taken[s] \in Nat /\ taken[s] \in 0 .. Len(Written[s])
      /\ conn[s] \in {"none", "backlog", "reset", "length", "body", "completed",
                      "failed", "panicked"}
  BY DEF LP!ListenerInv, LP!TypeInv, LP!TypeOK
<1>6. Len(Written[s]) \in Nat /\ k \in 1 .. Len(Written[s])
  BY <1>4, <1>5, LenProperties
<1>7. CASE k <= taken[s]
  <2>1. PICK at \in [DOMAIN received -> Nat] :
          LP!FromItsFrame(at) /\ LP!InOrder(at) /\ LP!Complete(at)
    BY DEF LP!ListenerInv, LP!SourceInv
  <2>2. LP!Judged[Written[s][k]].verdict = "deliver"
    BY <1>4, FrameJudged
  <2>3. k \in 1 .. taken[s]
    BY <1>5, <1>6, <1>7
  <2>4. PICK j \in DOMAIN received : received[j].from = s /\ at[j] = k
    BY <2>1, <2>2, <2>3 DEF LP!Complete
  <2>5. received[j].message = LP!Judged[Written[s][k]]
    BY <2>1, <2>4 DEF LP!FromItsFrame
  <2>6. received[j].message.text = LetterOf[m].text
    BY <1>4, <2>5, FrameJudged
  <2> QED
    BY <2>6 DEF Arrivals
<1>8. CASE ~(k <= taken[s])
  <2>1. taken[s] < Len(Written[s]) /\ k \in taken[s] + 1 .. Len(Written[s])
    BY <1>5, <1>6, <1>8
  <2>2. LP!Unread(s)
    BY <2>1 DEF LP!Unread
  <2>3. conn[s] \in {"completed", "failed", "panicked"} => Ending[s] = "reset"
    BY <2>2 DEF LP!ListenerInv, LP!OwnLettersNeverEndIt, LP!ReadToTheEnd
  <2>4. Ending[s] = "reset" => s \in severed
    BY DEF Ending
  <2>5. \/ s \in severed
        \/ conn[s] = "reset"
        \/ conn[s] \in {"backlog", "length", "body"}
    BY <1>2, <1>5, <2>3, <2>4
  <2>6. PICK c : c = <<s, i>>
    OBVIOUS
  <2>7. c \in Copies(m) /\ c[1] = s
    BY <1>2, <2>6
  <2> QED
    BY <1>4, <2>1, <2>5, <2>7
<1> QED
  BY <1>7, <1>8

(* A message whose send reported Ok came out, or waits on a connection     *)
(* that its task still reads, unless the network broke the stream or the   *)
(* listener's socket closed with the connection in its backlog: evicting   *)
(* the connection or collecting the sender loses nothing.                  *)
THEOREM EndToEndNoneLost == SystemSpec => []NoneLost
<1>1. SysInv /\ LP!ListenerInv /\ LP!ReadToTheEnd => NoneLost
  BY NothingLost
<1> QED
  BY <1>1, SystemInvariant, SystemReader, PTL
=============================================================================
