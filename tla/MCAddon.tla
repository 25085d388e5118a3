------------------------------ MODULE MCAddon ------------------------------
(* An instance of Addon for TLC, with the transactions of TxSender and a   *)
(* RingBuffer.  The three share no state, and only one of them moves in a  *)
(* behaviour: each transaction is an initial state of its own, and without *)
(* one either Addon or the buffer runs.                                    *)
EXTENDS Addon, TxSender, RingBuffer

CONSTANTS s1, s2, s3, good, other, odd, short

Calls == {s1, s2, s3}

SmallValues == 0 .. 2

(* Every signature with every v, and every gas limit about the fee of      *)
(* every short text.                                                       *)
Signatures ==
  [typed : BOOLEAN, v : 0 .. Word - 1, r : 0 .. N, s : 0 .. N, sighash : 0 .. N - 1,
   data : {<<>>}, to : {"other"}, gas : {21000}]

Gases ==
  [typed : {FALSE}, v : {27}, r : {1}, s : {1}, sighash : {0},
   data : UNION {[1 .. n -> {0, 1, 255}] : n \in 0 .. 3},
   to : {"none", "zero", "other"},
   gas : {g + 4 * w + more : g \in {21000, 53000}, w \in 0 .. 12, more \in -1 .. 1}]

MCInit ==
  /\ Init
  /\ RingInit
  /\ tx \in {t \in Signatures \cup Gases : Decoded(t)} \cup {NoTx}

MCNext ==
  /\ tx = NoTx
  /\ UNCHANGED tx
  /\ \/ hist = <<>> /\ Next /\ UNCHANGED ringVars
     \/ Init /\ RingNext /\ UNCHANGED vars

MCSpec == MCInit /\ [][MCNext]_<<vars, ringVars, tx>> /\ Fairness
=============================================================================
