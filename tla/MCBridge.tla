------------------------------ MODULE MCBridge ------------------------------
(* Instances of Bridge for TLC.                                            *)
EXTENDS Bridge

CONSTANTS c1, c2, i1

Calls    == {c1, c2}
OneCall  == {c1}
Messages == {i1}
Nothing  == {}

(* The first destination of one call.                                      *)
OneStalled == {<<c1, 1>>}

Single(k) ==
  [kind : {k}, ports : {1}, hosts : {1}, header : BOOLEAN, resolves : BOOLEAN,
   await : {TRUE}]
Multi ==
  [kind : {"multi_send_with_header"}, ports : 0 .. MaxTargets,
   hosts : 0 .. MaxTargets, header : BOOLEAN, resolves : BOOLEAN,
   await : BOOLEAN]

(* Everything a caller may pass.                                           *)
AllArgs == {a \in Single("send") : a.header} \cup Single("send_with_header") \cup Multi

(* Arguments that are all valid, not awaiting the processing.              *)
NotAwaiting ==
  {a \in Multi : a.header /\ a.resolves /\ a.ports = a.hosts /\ a.ports > 0 /\ ~a.await}

(* A plain send, to addresses that may not resolve.                        *)
PlainSend == {a \in Single("send") : a.header}
=============================================================================
