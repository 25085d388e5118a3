----------------------------- MODULE MCListener -----------------------------
(* Instances of Listener for TLC.                                          *)
EXTENDS Listener

CONSTANTS c1, c2

Conns == {c1, c2}

Plain == [headed |-> FALSE, text |-> <<7, 8>>]

(* A letter whose header is given in JSON, by hash key.                    *)
Headed(key, json) ==
  [headed |-> TRUE, text |-> <<7>>, json |-> json, hash_key |-> key,
   secret_key |-> 4]

Ident == [uuid |-> 9, sender_id |-> <<65>>, compression |-> 1]

(* Texts that are not verbatim: a lone quote, an escape, and two quoted    *)
(* texts with a comma and a colon that make a field of their own.          *)
Quote  == <<34>>
Escape == <<92, 110>>
Fields == <<34, 44, 34, 120, 34, 58, 34>>

(* Good, under another hash key, with too large a header, and with texts   *)
(* that are not verbatim in headers that have no more than they must.      *)
Letters ==
  {Plain, Headed(2, Ident), Headed(3, Ident),
   Headed(2, [uuid |-> 9, tracker_id |-> [i \in 1 .. HeaderLimit |-> 65]]),
   Headed(2, [uuid |-> 9, verification_data |-> Quote]),
   Headed(2, [uuid |-> 9, sender_id |-> Escape, verification_data |-> Fields])}

(* What JSON.parse makes of these: nothing of a lone quote, a line feed of *)
(* the escape, an empty text (and a field nobody looks at) of the fields.  *)
Parsed(h) ==
  LET shown(f) ==
        IF f \in Texts /\ h[f] = Escape THEN <<10>>
        ELSE IF f \in Texts /\ h[f] = Fields THEN <<>> ELSE h[f]
  IN  IF Quote \in {h[f] : f \in Texts} THEN Nope
      ELSE Some([f \in DOMAIN h \ {"compression"} |-> shown(f)])

(* A signed letter cut short and one whose header was changed after        *)
(* signing, a signed message of an unknown version, one whose header gives *)
(* another length, one that a build with compression sends, and text that  *)
(* is not UTF-8.                                                           *)
Whole == Encode(Headed(2, Ident))

Signed(version, header) ==
  LET m == [header_version |-> version, header |-> header, data |-> <<7>>]
  IN  Wrapped(m, Sign(m, 2, 4))

ForeignFrames ==
  {SubSeq(Whole, 1, Len(Whole) - 1), [Whole EXCEPT ![7] = 66], Signed(2, <<>>),
   Signed(1, <<9, 2, 0, 0, 0, 0>>), EncodeBy(TRUE, Headed(2, Ident)), <<7, 139>>}
=============================================================================
