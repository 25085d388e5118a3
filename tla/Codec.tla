------------------------------- MODULE Codec -------------------------------
(***************************************************************************)
(* The wire format of shardus_net: message.rs, header_v1.rs, compression   *)
(* and the functions that choose by header version, with the keyed hash    *)
(* and the signatures of the crypto crate, and the JSON in which a header  *)
(* comes from and goes to index.ts.                                        *)
(*                                                                         *)
(* Bytes are natural numbers.  A number of fixed width (a u32 length, a    *)
(* UUID, a version, a key) is one of them; a string or a Vec<u8> is a      *)
(* sequence with its length in front.  Hashing and signing are taken to be *)
(* perfect: a hash is the key with what was hashed, a signature the        *)
(* signer's key with what was signed, and nobody signs for another.        *)
(* Compressed data is the data behind the mark of its format.              *)
(***************************************************************************)
EXTENDS Integers, Sequences, SequencesExt

CONSTANTS
  NotUtf8,           \* bytes that no UTF-8 text holds
  HeaderLimit,       \* HEADER_SIZE_LIMIT_IN_BYTES
  EnableCompression, \* ENABLE_COMPRESSION
  Misread(_)         \* what JSON.parse makes of a header that is not verbatim

Utf8(s) == \A i \in DOMAIN s : s[i] \notin NotUtf8

(* Rust's Option<T>, for the results of deserialize.                       *)
Some(x) == [some |-> TRUE, value |-> x]
Nope    == [some |-> FALSE]

-----------------------------------------------------------------------------
(* A length and that many bytes.                                           *)
Field(s) == <<Len(s)>> \o s

(* A cursor: may reading go on, what is left, what was read.               *)
Cursor(s) == [ok |-> TRUE, rest |-> s, read |-> <<>>]
Failed    == [ok |-> FALSE, rest |-> <<>>, read |-> <<>>]

(* read_exact of one number.                                               *)
ReadOne(c) ==
  IF c.rest = <<>> THEN Failed
  ELSE [c EXCEPT !.rest = Tail(c.rest), !.read = Append(c.read, Head(c.rest))]

(* read_exact of a length and of that many bytes.                          *)
ReadField(c) ==
  IF c.rest = <<>> \/ Head(c.rest) > Len(c.rest) - 1 THEN Failed
  ELSE LET n == Head(c.rest)
       IN  [c EXCEPT !.rest = SubSeq(c.rest, n + 2, Len(c.rest)),
                     !.read = Append(c.read, SubSeq(c.rest, 2, n + 1))]

-----------------------------------------------------------------------------
(* sodiumoxide::hex::encode, and the loop of {:02x} in to_json_string: two *)
(* digits for a byte.                                                      *)
Hex(s) == FlattenSeq([i \in DOMAIN s |-> <<s[i] \div 16, s[i] % 16>>])

(* sodiumoxide::hex::decode                                                *)
Unhex(digits) ==
  IF Len(digits) % 2 = 1 \/ \E i \in DOMAIN digits : digits[i] > 15
  THEN Nope
  ELSE Some([i \in 1 .. Len(digits) \div 2 |-> 16 * digits[2 * i - 1] + digits[2 * i]])

-----------------------------------------------------------------------------
(* The formats that Compression::from_u32 knows: None, Gzip, Brotli.  The  *)
(* marks are the first bytes of such data; Gzip's are no UTF-8.            *)
Compression == 0 .. 2
Mark(c)     == <<<<>>, <<31, 139>>, <<27>>>>[c + 1]

(* Compression::compress and ::decompress                                  *)
CompressBy(c, data)   == Mark(c) \o data
DecompressBy(c, data) ==
  IF IsPrefix(Mark(c), data)
  THEN Some(SubSeq(data, Len(Mark(c)) + 1, Len(data))) ELSE Nope

(* Header::compress in a build with the flag on or off.                    *)
Compress(on, h, data) == IF on THEN CompressBy(h.compression, data) ELSE data

(* Header::decompress                                                      *)
Decompress(h, data) ==
  IF EnableCompression THEN DecompressBy(h.compression, data) ELSE Some(data)

-----------------------------------------------------------------------------
(* The fields of a HeaderV1 with the defaults that serde fills in.         *)
Defaults == [message_length |-> 0, sender_id |-> <<>>, tracker_id |-> <<>>,
             verification_data |-> <<>>, compression |-> 0]

(* header_from_json_string: version 1 only, and the UUID must be there.    *)
FromJson(version, json) ==
  IF version # 1 \/ "uuid" \notin DOMAIN json THEN Nope
  ELSE Some([f \in DOMAIN Defaults \cup {"uuid"} |->
               IF f \in DOMAIN json THEN json[f] ELSE Defaults[f]])

Texts == {"sender_id", "tracker_id", "verification_data"}

(* JSON wants a control character, a quote and a backslash escaped: a text *)
(* without them stands in JSON as it is.                                   *)
NotJson     == 0 .. 31 \cup {34, 92}
Verbatim(s) == \A i \in DOMAIN s : s[i] \notin NotJson

(* Header::to_json_string and the JSON.parse of index.ts.  The texts are   *)
(* put between quotes without escaping, and the compression is left out.   *)
(* A header whose texts are not all verbatim may fail to parse (then the   *)
(* message is dropped by the catch of index.ts) or parse as another one: a *)
(* text may hold an escape, or a quote that ends it and fields of its own. *)
ToJson(h) ==
  IF \A f \in Texts : Verbatim(h[f])
  THEN Some([f \in DOMAIN h \ {"compression"} |-> h[f]])
  ELSE Misread(h)

(* HeaderV1::serialize                                                     *)
SerializeHeader(h) ==
  <<h.uuid, h.message_length>> \o Field(h.sender_id) \o Field(h.tracker_id)
    \o Field(h.verification_data) \o <<h.compression>>

(* HeaderV1::deserialize: bytes left over are ignored.                     *)
DeserializeHeaderV1(s) ==
  LET c == ReadOne(ReadField(ReadField(ReadField(ReadOne(ReadOne(Cursor(s)))))))
  IN  IF ~c.ok \/ c.read[6] \notin Compression \/ \E i \in 3 .. 5 : ~Utf8(c.read[i])
      THEN Nope
      ELSE Some([uuid |-> c.read[1], message_length |-> c.read[2],
                 sender_id |-> c.read[3], tracker_id |-> c.read[4],
                 verification_data |-> c.read[5], compression |-> c.read[6]])

(* HeaderV1::validate                                                      *)
Validate(h, data) == h.message_length = Len(data)

(* header_deserialize_factory                                              *)
DeserializeHeader(version, s) ==
  IF version = 1 THEN DeserializeHeaderV1(s) ELSE Nope

-----------------------------------------------------------------------------
(* ShardusCrypto::hash, sign and verify.                                   *)
Hash(key, s)         == <<key>> \o s
Signature(sk, hash)  == <<sk>> \o hash
Opens(sig, pk, hash) == sig # <<>> /\ Head(sig) = pk /\ Tail(sig) = hash

(* Message::serialize_unsigned                                             *)
SerializeUnsigned(m) == <<m.header_version>> \o Field(m.header) \o Field(m.data)

(* Message::sign: the owner is the public key of the pair.                 *)
Sign(m, key, sk) ==
  [owner |-> <<sk>>, sig |-> Signature(sk, Hash(key, SerializeUnsigned(m)))]

(* Sign::serialize and Message::serialize                                  *)
SerializeSign(sign) == Field(sign.owner) \o Field(sign.sig)
Serialize(m, sign)  == SerializeUnsigned(m) \o SerializeSign(sign)

(* wrap_serialized_message: the header system is in use.                   *)
Wrapped(m, sign) == <<1>> \o Serialize(m, sign)

(* Message::deserialize and Sign::deserialize                              *)
DeserializeMessage(s) ==
  LET c == ReadField(ReadField(ReadField(ReadField(ReadOne(Cursor(s))))))
  IN  IF ~c.ok THEN Nope
      ELSE Some([header_version |-> c.read[1], header |-> c.read[2],
                 data |-> c.read[3],
                 sign |-> [owner |-> c.read[4], sig |-> c.read[5]]])

(* Sign::to_json_string                                                    *)
SignToJson(sign) == [owner |-> Hex(sign.owner), sig |-> Hex(sign.sig)]

(* get_pk: a public key has a fixed length, and anything else panics.      *)
KeyWellFormed(owner) == Len(owner) = 1

(* Mutant: the signature is checked over the data but not the header.      *)
VerifyDataOnly(m, key) ==
  LET n == Len(Field(m.data))
      h == Hash(key, SerializeUnsigned(m))
  IN  /\ m.sign.sig # <<>>
      /\ Head(m.sign.sig) = m.sign.owner[1]
      /\ Len(m.sign.sig) > n
      /\ SubSeq(m.sign.sig, Len(m.sign.sig) - n + 1, Len(m.sign.sig))
           = SubSeq(h, Len(h) - n + 1, Len(h))

(* Message::verify                                                         *)
Verify(m, key) ==
  Opens(m.sign.sig, m.sign.owner[1], Hash(key, SerializeUnsigned(m)))

-----------------------------------------------------------------------------
(* What ShardusNetSender::send and ::send_with_header put into a frame for *)
(* a letter: a text, maybe with a header given in JSON, the key of the     *)
(* sender's process and its own.                                           *)
EncodeBy(on, l) ==
  IF ~l.headed THEN l.text
  ELSE LET given == FromJson(1, l.json).value
           data  == Compress(on, given, l.text)
           h     == [given EXCEPT !.message_length = Len(data)]
           m     == [header_version |-> 1, header |-> SerializeHeader(h), data |-> data]
       IN  Wrapped(m, Sign(m, l.hash_key, l.secret_key))

Encode(l) == EncodeBy(EnableCompression, l)

(* Mutant: a frame with a bad signature ends the connection.               *)
JudgeStrict(s, key) ==
  IF s = <<>> \/ s[1] # 1
  THEN [verdict |-> IF Utf8(s) THEN "deliver" ELSE "end", text |-> s]
  ELSE LET m == DeserializeMessage(Tail(s))
       IN  IF ~m.some THEN [verdict |-> "panic"]
           ELSE IF ~Verify(m.value, key) THEN [verdict |-> "end"]
           ELSE [verdict |-> "deliver", text |-> m.value.data]

(* What receive does with the frame s: deliver a text, with the header's   *)
(* metadata if there is one, skip the frame (continue), end the connection *)
(* (a ListenerError) or panic (an expect).                                 *)
Judge(s, key) ==
  IF s = <<>> \/ s[1] # 1
  THEN [verdict |-> IF Utf8(s) THEN "deliver" ELSE "end", text |-> s]
  ELSE LET message == DeserializeMessage(Tail(s))
           m       == message.value
           header  == DeserializeHeader(m.header_version, m.header)
           h       == header.value
           data    == Decompress(h, m.data)
       IN  IF ~message.some                        THEN [verdict |-> "panic"]
           ELSE IF Len(m.header) > HeaderLimit     THEN [verdict |-> "skip"]
           ELSE IF ~KeyWellFormed(m.sign.owner)    THEN [verdict |-> "panic"]
           ELSE IF ~Verify(m, key)                 THEN [verdict |-> "skip"]
           ELSE IF ~header.some                    THEN [verdict |-> "panic"]
           ELSE IF ~Validate(h, m.data)            THEN [verdict |-> "skip"]
           ELSE IF ~data.some                      THEN [verdict |-> "panic"]
           ELSE IF ~Utf8(data.value)               THEN [verdict |-> "end"]
           ELSE [verdict |-> "deliver", text |-> data.value,
                 version |-> m.header_version, header |-> ToJson(h),
                 sign |-> SignToJson(m.sign)]
=============================================================================
