------------------------------- MODULE MCRpc -------------------------------
(* Instances of Rpc for TLC.                                               *)
EXTENDS Rpc

CONSTANTS r1, n1, n2, n3

OneRequest == {r1}
TwoNodes   == {n1, n2}
ThreeNodes == {n1, n2, n3}

Nobody     == {}
OneNode    == {n3}

(* Nodes on one machine: every node has a port of its own.                 *)
OneHost   == [n \in Node |-> "h"]
OwnPort   == [n \in Node |-> n]

(* Two machines, where a port in use on one is in use on the other.        *)
TwoHosts  == [n \in Node |-> IF n = n3 THEN "g" ELSE "h"]
TwoPorts  == [n \in Node |-> IF n = n2 THEN 2 ELSE 1]

(* Requests go to one other node, to any nodes but oneself, to anyone.     *)
ToOther   == [n \in Node |-> {{m} : m \in Node \ {n}}]
ToOthers  == [n \in Node |-> IF n = n1 THEN SUBSET (Node \ {n}) ELSE {}]
ToAnyone  == [n \in Node |-> {{m} : m \in Node}]
=============================================================================
