----------------------------- MODULE MCEndToEnd -----------------------------
(* An instance of EndToEnd for TLC.                                        *)
EXTENDS EndToEnd

CONSTANTS m1, m2, a1, a2

Messages   == {m1, m2}
OneAddress == {a1}
Addresses  == {a1, a2}
Nobody     == {}
Peer2 == {a2}

(* One message without a header and one with.                              *)
Letters ==
  [m \in Messages |->
     IF m = m1 THEN [headed |-> FALSE, text |-> <<7, 8>>]
     ELSE [headed |-> TRUE, text |-> <<7>>, hash_key |-> 2, secret_key |-> 4,
           json |-> [uuid |-> 9, sender_id |-> <<65>>]]]

Mixed == <<7, 139>>

(* No header here has a text that JSON would escape.                       *)
Unparsed(h) == Nope
=============================================================================
