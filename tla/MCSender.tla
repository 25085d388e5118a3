------------------------------ MODULE MCSender ------------------------------
(* Instances of Sender for TLC.                                            *)
EXTENDS SenderRefinement, TLC

CONSTANTS m1, m2, m3, a1, a2

Messages     == {m1, m2, m3}
TwoMessages  == {m1, m2}
Addresses    == {a1, a2}
OneAddress   == {a1}
Nobody       == {}
Peer2        == {a2}

(* Messages are interchangeable.                                           *)
MsgSymmetry == Permutations(Messages)
=============================================================================
