--------------------------- MODULE ListenerProofs ---------------------------
(***************************************************************************)
(* The wire format and the listener, for every set of letters, foreign     *)
(* frames and connections: what the library's own senders encode is what   *)
(* receive decodes, whatever the texts, headers, keys and compression; so  *)
(* nothing that they send ends the task that reads it, and every letter    *)
(* that passes is handed up once, in order and unchanged.                  *)
(***************************************************************************)
EXTENDS Listener, SequenceTheorems, TLAPS

-----------------------------------------------------------------------------
(* What was read with the cursor c: rd so far, and r is left.              *)
At(r, rd) == [ok |-> TRUE, rest |-> r, read |-> rd]

(* One number in front of r.                                               *)
LEMMA OneThen ==
  ASSUME NEW n \in Nat, NEW r \in Seq(Nat)
  PROVE  /\ <<n>> \o r \in Seq(Nat) /\ <<n>> \o r # <<>>
         /\ Len(<<n>> \o r) = 1 + Len(r)
         /\ Head(<<n>> \o r) = n
         /\ Tail(<<n>> \o r) = r
         /\ \A i \in 1 .. Len(r) : (<<n>> \o r)[i + 1] = r[i]
<1>1. <<n>> \in Seq(Nat) /\ Len(<<n>>) = 1 /\ <<n>>[1] = n /\ Len(r) \in Nat
  OBVIOUS
<1> DEFINE q == <<n>> \o r
<1>2. /\ q \in Seq(Nat) /\ Len(q) = 1 + Len(r)
      /\ \A i \in 1 .. 1 + Len(r) : q[i] = IF i <= 1 THEN <<n>>[i] ELSE r[i - 1]
  BY <1>1, ConcatProperties
<1> HIDE DEF q
<1>3. q # <<>> /\ Head(q) = n
  BY <1>1, <1>2
<1>4. /\ Tail(q) \in Seq(Nat) /\ Len(Tail(q)) = Len(r)
      /\ \A i \in 1 .. Len(r) : Tail(q)[i] = q[i + 1]
  BY <1>1, <1>2, <1>3, HeadTailProperties
<1>5. \A i \in 1 .. Len(r) : q[i + 1] = r[i]
  BY <1>1, <1>2
<1>6. Tail(q) = r
  BY <1>4, <1>5, SeqEqual
<1> QED
  BY <1>2, <1>3, <1>5, <1>6 DEF q

(* read_exact gives back the number that was written.                      *)
LEMMA ReadOneBack ==
  ASSUME NEW n \in Nat, NEW r \in Seq(Nat), NEW rd
  PROVE  ReadOne(At(<<n>> \o r, rd)) = At(r, Append(rd, n))
<1> DEFINE q == <<n>> \o r
<1>1. q # <<>> /\ Head(q) = n /\ Tail(q) = r
  BY OneThen
<1> HIDE DEF q
<1>2. ReadOne(At(q, rd)) = At(r, Append(rd, n))
  BY <1>1 DEF ReadOne, At
<1> QED
  BY <1>2 DEF q

(* A field is a sequence of numbers.                                       *)
LEMMA FieldTyped ==
  ASSUME NEW x \in Seq(Nat)
  PROVE  Field(x) \in Seq(Nat) /\ Len(Field(x)) = 1 + Len(x)
  BY OneThen DEF Field

(* The length and the read_exact of that many bytes give back the bytes    *)
(* that were written, and leave what comes after them.                     *)
LEMMA ReadFieldBack ==
  ASSUME NEW x \in Seq(Nat), NEW r \in Seq(Nat), NEW rd
  PROVE  ReadField(At(Field(x) \o r, rd)) = At(r, Append(rd, x))
<1> DEFINE n == Len(x)
           q == <<n>> \o (x \o r)
<1>1. n \in Nat /\ Len(r) \in Nat /\ n = Len(x)
  OBVIOUS
<1>2. Field(x) \o r = q
  <2>1. <<n>> \in Seq(Nat)
    BY <1>1
  <2> QED
    BY <2>1, ConcatAssociative DEF Field
<1>3. /\ x \o r \in Seq(Nat) /\ Len(x \o r) = n + Len(r)
      /\ \A i \in 1 .. n + Len(r) : (x \o r)[i] = IF i <= n THEN x[i] ELSE r[i - n]
  BY ConcatProperties
<1>4. /\ q \in Seq(Nat) /\ q # <<>> /\ Len(q) = 1 + n + Len(r) /\ Head(q) = n
      /\ \A i \in 1 .. n + Len(r) : q[i + 1] = (x \o r)[i]
  BY <1>1, <1>3, OneThen
<1> HIDE DEF n, q
<1>a. \A i \in 1 .. Len(q) : q[i] \in Nat
  BY <1>4, ElementOfSeq
<1>5. SubSeq(q, 2, n + 1) = x
  <2> DEFINE p == SubSeq(q, 2, n + 1)
  <2>1. p \in Seq(Nat) /\ Len(p) = n /\ \A i \in 1 .. n : p[i] = q[i + 1]
    <3>1. \A i \in 2 .. n + 1 : q[i] \in Nat
      BY <1>1, <1>4, <1>a
    <3>2. /\ p \in Seq(Nat) /\ Len(p) = IF 2 <= n + 1 THEN n + 1 - 2 + 1 ELSE 0
          /\ \A i \in 1 .. n + 1 - 2 + 1 : p[i] = q[2 + i - 1]
      BY <1>1, <3>1, SubSeqProperties
    <3> HIDE DEF p
    <3> QED
      BY <1>1, <3>2
  <2>2. ASSUME NEW i \in 1 .. n PROVE q[i + 1] = x[i]
    <3>1. i \in 1 .. n + Len(r) /\ i <= n
      BY <1>1
    <3>2. (x \o r)[i] = x[i] /\ q[i + 1] = (x \o r)[i]
      BY <1>3, <1>4, <3>1
    <3> QED
      BY <3>2
  <2> HIDE DEF p
  <2>3. p = x
    BY <1>1, <2>1, <2>2, SeqEqual
  <2> QED
    BY <2>3 DEF p
<1>6. SubSeq(q, n + 2, Len(q)) = r
  <2> DEFINE p == SubSeq(q, n + 2, Len(q))
  <2>1. p \in Seq(Nat) /\ Len(p) = Len(r) /\ \A i \in 1 .. Len(r) : p[i] = q[n + i + 1]
    <3>1. \A i \in n + 2 .. Len(q) : q[i] \in Nat
      BY <1>1, <1>4, <1>a
    <3>2. /\ p \in Seq(Nat)
          /\ Len(p) = IF n + 2 <= Len(q) THEN Len(q) - (n + 2) + 1 ELSE 0
          /\ \A i \in 1 .. Len(q) - (n + 2) + 1 : p[i] = q[n + 2 + i - 1]
      BY <1>1, <1>4, <3>1, SubSeqProperties
    <3> HIDE DEF p
    <3>3. Len(q) - (n + 2) + 1 = Len(r) /\ \A i \in 1 .. Len(r) : n + 2 + i - 1 = n + i + 1
      BY <1>1, <1>4
    <3>4. Len(p) = Len(r)
      BY <1>1, <1>4, <3>2, <3>3
    <3> QED
      BY <3>2, <3>3, <3>4
  <2>2. \A i \in 1 .. Len(r) : q[n + i + 1] = r[i]
    <3> SUFFICES ASSUME NEW i \in 1 .. Len(r) PROVE q[n + i + 1] = r[i]
      OBVIOUS
    <3> DEFINE k == n + i
    <3>1. k \in 1 .. n + Len(r) /\ ~(k <= n) /\ k - n = i
      BY <1>1
    <3> HIDE DEF k
    <3>2. (x \o r)[k] = r[i] /\ q[k + 1] = (x \o r)[k]
      BY <1>3, <1>4, <3>1
    <3> QED
      BY <3>2 DEF k
  <2> HIDE DEF p
  <2>3. p = r
    BY <2>1, <2>2, SeqEqual
  <2> QED
    BY <2>3 DEF p
<1>7. ReadField(At(q, rd)) = At(r, Append(rd, x))
  <2>1. ~(Head(q) > Len(q) - 1)
    BY <1>1, <1>4
  <2> QED
    BY <1>4, <1>5, <1>6, <2>1 DEF ReadField, At
<1> QED
  BY <1>2, <1>7

(* Append, by the length of what it extends.                               *)
LEMMA AppendOne ==
  ASSUME NEW S, NEW r \in Seq(S), NEW x \in S, NEW n \in Nat, Len(r) = n,
         NEW q, q = Append(r, x)
  PROVE  /\ q \in Seq(S) /\ Len(q) = n + 1 /\ q[n + 1] = x
         /\ \A i \in 1 .. n : q[i] = r[i]
  BY AppendProperties

(* What was read, value by value.                                          *)
LEMMA ReadValues ==
  ASSUME NEW a, NEW b, NEW c, NEW d, NEW e, NEW f, NEW r5, NEW r6,
         r5 = Append(Append(Append(Append(Append(<<>>, a), b), c), d), e),
         r6 = Append(r5, f)
  PROVE  /\ r5[1] = a /\ r5[2] = b /\ r5[3] = c /\ r5[4] = d /\ r5[5] = e
         /\ r6[1] = a /\ r6[2] = b /\ r6[3] = c /\ r6[4] = d /\ r6[5] = e /\ r6[6] = f
<1> DEFINE S == {a, b, c, d, e, f}
<1>0. a \in S /\ b \in S /\ c \in S /\ d \in S /\ e \in S /\ f \in S
  OBVIOUS
<1> HIDE DEF S
<1>1. PICK r1 : r1 = Append(<<>>, a)
  OBVIOUS
<1>2. r1 \in Seq(S) /\ Len(r1) = 1 /\ r1[1] = a
  BY <1>0, <1>1, AppendProperties, EmptySeq
<1>3. PICK r2 : r2 = Append(r1, b)
  OBVIOUS
<1>4. r2 \in Seq(S) /\ Len(r2) = 2 /\ r2[1] = a /\ r2[2] = b
  BY ONLY <1>0, <1>2, <1>3, AppendOne
<1>5. PICK r3 : r3 = Append(r2, c)
  OBVIOUS
<1>6. r3 \in Seq(S) /\ Len(r3) = 3 /\ r3[1] = a /\ r3[2] = b /\ r3[3] = c
  BY ONLY <1>0, <1>4, <1>5, AppendOne
<1>7. PICK r4 : r4 = Append(r3, d)
  OBVIOUS
<1>8. r4 \in Seq(S) /\ Len(r4) = 4 /\ r4[1] = a /\ r4[2] = b /\ r4[3] = c /\ r4[4] = d
  BY ONLY <1>0, <1>6, <1>7, AppendOne
<1>9. r5 = Append(r4, e)
  BY <1>1, <1>3, <1>5, <1>7
<1>10. /\ r5 \in Seq(S) /\ Len(r5) = 5
       /\ r5[1] = a /\ r5[2] = b /\ r5[3] = c /\ r5[4] = d /\ r5[5] = e
  BY ONLY <1>0, <1>8, <1>9, AppendOne
<1>11. r6[1] = a /\ r6[2] = b /\ r6[3] = c /\ r6[4] = d /\ r6[5] = e /\ r6[6] = f
  BY ONLY <1>0, <1>10, r6 = Append(r5, f), AppendOne
<1> QED
  BY ONLY <1>10, <1>11

(* Concatenation under a name that the provers do not look into.           *)
Cat(x, y) == x \o y

LEMMA CatTyped ==
  ASSUME NEW x \in Seq(Nat), NEW y \in Seq(Nat)
  PROVE  Cat(x, y) \in Seq(Nat)
  BY ConcatProperties DEF Cat

LEMMA CatLen ==
  ASSUME NEW x \in Seq(Nat), NEW y \in Seq(Nat)
  PROVE  Len(Cat(x, y)) = Len(x) + Len(y)
  BY ConcatProperties DEF Cat

LEMMA CatAssociative ==
  ASSUME NEW x \in Seq(Nat), NEW y \in Seq(Nat), NEW z \in Seq(Nat)
  PROVE  Cat(Cat(x, y), z) = Cat(x, Cat(y, z))
<1>1. (x \o y) \o z = x \o (y \o z)
  BY ConcatAssociative
<1> QED
  BY <1>1 DEF Cat

(* Concatenation in the order of reading.                                  *)
LEMMA Chain ==
  ASSUME NEW a \in Seq(Nat), NEW b \in Seq(Nat), NEW c \in Seq(Nat), NEW d \in Seq(Nat),
         NEW e \in Seq(Nat)
  PROVE  /\ Cat(Cat(Cat(a, b), c), Cat(d, e)) = Cat(a, Cat(b, Cat(c, Cat(d, e))))
         /\ Cat(Cat(Cat(Cat(a, b), c), d), e) = Cat(a, Cat(b, Cat(c, Cat(d, e))))
<1>1. /\ Cat(a, b) \in Seq(Nat) /\ Cat(d, e) \in Seq(Nat)
      /\ Cat(Cat(a, b), c) \in Seq(Nat) /\ Cat(c, Cat(d, e)) \in Seq(Nat)
  BY CatTyped
<1>2. Cat(Cat(Cat(a, b), c), Cat(d, e)) = Cat(a, Cat(b, Cat(c, Cat(d, e))))
  BY <1>1, CatAssociative
<1>3. Cat(Cat(Cat(Cat(a, b), c), d), e) = Cat(a, Cat(b, Cat(c, Cat(d, e))))
  BY <1>1, <1>2, CatAssociative
<1> QED
  BY <1>2, <1>3

(* Message::deserialize gives back what Message::serialize was given,      *)
(* whatever the version, the header, the data and the signature are.       *)
LEMMA MessageBack ==
  ASSUME NEW m, m.header_version \in Nat, m.header \in Seq(Nat), m.data \in Seq(Nat),
         NEW sign, sign.owner \in Seq(Nat), sign.sig \in Seq(Nat)
  PROVE  /\ Serialize(m, sign) \in Seq(Nat)
         /\ DeserializeMessage(Serialize(m, sign)) =
              Some([header_version |-> m.header_version, header |-> m.header,
                    data |-> m.data, sign |-> [owner |-> sign.owner, sig |-> sign.sig]])
<1>a. PICK v \in Nat, h \in Seq(Nat), d \in Seq(Nat), o \in Seq(Nat), g \in Seq(Nat) :
        /\ v = m.header_version /\ h = m.header /\ d = m.data
        /\ o = sign.owner /\ g = sign.sig
  OBVIOUS
<1> DEFINE s == Serialize(m, sign)
<1> DEFINE r5 == <<>>
           r4 == Field(g)
           r3 == Field(o) \o r4
           r2 == Field(d) \o r3
           r1 == Field(h) \o r2
<1>0. <<v>> \in Seq(Nat)
  OBVIOUS
<1>1. /\ Field(h) \in Seq(Nat) /\ Field(d) \in Seq(Nat) /\ Field(o) \in Seq(Nat)
      /\ Field(g) \in Seq(Nat) /\ r5 \in Seq(Nat)
  BY FieldTyped
<1>2. r4 \in Seq(Nat) /\ r4 = Field(g) \o r5
  BY <1>1, ConcatEmptySeq
<1>3. r3 \in Seq(Nat)
  BY <1>1, <1>2, ConcatProperties
<1>4. r2 \in Seq(Nat)
  BY <1>1, <1>3, ConcatProperties
<1>5. r1 \in Seq(Nat)
  BY <1>1, <1>4, ConcatProperties
<1>6. s = <<v>> \o r1
  <2>1. s = ((<<v>> \o Field(h)) \o Field(d)) \o (Field(o) \o Field(g))
    BY <1>a DEF Serialize, SerializeUnsigned, SerializeSign
  <2> DEFINE V == <<v>> H == Field(h) D == Field(d) O == Field(o) G == Field(g)
  <2>2. V \in Seq(Nat) /\ H \in Seq(Nat) /\ D \in Seq(Nat) /\ O \in Seq(Nat) /\ G \in Seq(Nat)
    BY <1>0, <1>1
  <2> HIDE DEF V, H, D, O, G
  <2>3. Cat(Cat(Cat(V, H), D), Cat(O, G)) = Cat(V, Cat(H, Cat(D, Cat(O, G))))
    BY ONLY <2>2, Chain
  <2> QED
    BY <2>1, <2>3, Zenon DEF Cat, V, H, D, O, G
<1>7. s \in Seq(Nat)
  BY <1>5, <1>6, OneThen
<1> HIDE DEF s
<1> DEFINE c1 == At(r1, Append(<<>>, v))
           c2 == At(r2, Append(Append(<<>>, v), h))
           c3 == At(r3, Append(Append(Append(<<>>, v), h), d))
           c4 == At(r4, Append(Append(Append(Append(<<>>, v), h), d), o))
           c5 == At(r5, Append(Append(Append(Append(Append(<<>>, v), h), d), o), g))
<1>8. ReadOne(Cursor(s)) = c1
  BY <1>5, <1>6, ReadOneBack DEF Cursor, At
<1>9. ReadField(c1) = c2
  BY <1>4, ReadFieldBack
<1>10. ReadField(c2) = c3
  BY <1>3, ReadFieldBack
<1>11. ReadField(c3) = c4
  BY <1>2, ReadFieldBack
<1>12. ReadField(c4) = c5
  BY <1>1, <1>2, ReadFieldBack
<1> DEFINE c == ReadField(ReadField(ReadField(ReadField(ReadOne(Cursor(s))))))
           rd == Append(Append(Append(Append(Append(<<>>, v), h), d), o), g)
<1>13. c.ok /\ c.read = rd
  <2>1. c = At(r5, rd)
    BY <1>8, <1>9, <1>10, <1>11, <1>12
  <2> HIDE DEF c, rd, r5
  <2> QED
    BY <2>1 DEF At
<1>14. rd[1] = v /\ rd[2] = h /\ rd[3] = d /\ rd[4] = o /\ rd[5] = g
  BY ReadValues
<1> HIDE DEF rd
<1>16. DeserializeMessage(s) = Some([header_version |-> v, header |-> h, data |-> d,
                                     sign |-> [owner |-> o, sig |-> g]])
  BY <1>13, <1>14 DEF DeserializeMessage
<1> QED
  BY <1>a, <1>7, <1>16 DEF s

(* How many bytes a header takes.                                          *)
HeaderSize(a, b, e) == 6 + Len(a) + Len(b) + Len(e)

(* HeaderV1::deserialize gives back what HeaderV1::serialize was given.    *)
LEMMA HeaderBack ==
  ASSUME NEW h, h.uuid \in Nat, h.message_length \in Nat, h.compression \in Compression,
         h.sender_id \in Seq(Nat), h.tracker_id \in Seq(Nat),
         h.verification_data \in Seq(Nat),
         Utf8(h.sender_id), Utf8(h.tracker_id), Utf8(h.verification_data)
  PROVE  /\ SerializeHeader(h) \in Seq(Nat)
         /\ Len(SerializeHeader(h)) =
              HeaderSize(h.sender_id, h.tracker_id, h.verification_data)
         /\ DeserializeHeaderV1(SerializeHeader(h)) =
              Some([uuid |-> h.uuid, message_length |-> h.message_length,
                    sender_id |-> h.sender_id, tracker_id |-> h.tracker_id,
                    verification_data |-> h.verification_data,
                    compression |-> h.compression])
<1>0. PICK u \in Nat, n \in Nat, a \in Seq(Nat), b \in Seq(Nat), e \in Seq(Nat),
           k \in Compression :
        /\ u = h.uuid /\ n = h.message_length /\ a = h.sender_id /\ b = h.tracker_id
        /\ e = h.verification_data /\ k = h.compression
  OBVIOUS
<1> DEFINE r6 == <<>>
           r5 == <<k>>
           r4 == Field(e) \o r5
           r3 == Field(b) \o r4
           r2 == Field(a) \o r3
           r1 == <<n>> \o r2
           s  == <<u>> \o r1
<1>1. k \in Nat
  BY DEF Compression
<1>2. /\ SerializeHeader(h) = s
      /\ s \in Seq(Nat) /\ Len(s) = HeaderSize(a, b, e)
  <2> DEFINE U == <<u>> N == <<n>> UN == <<u, n>> A == Field(a) B == Field(b)
             E == Field(e) K == <<k>>
  <2>1. /\ U \in Seq(Nat) /\ N \in Seq(Nat) /\ UN \in Seq(Nat) /\ K \in Seq(Nat)
        /\ Len(U) = 1 /\ Len(N) = 1 /\ Len(K) = 1
    BY <1>1
  <2>2. /\ A \in Seq(Nat) /\ B \in Seq(Nat) /\ E \in Seq(Nat)
        /\ Len(A) = 1 + Len(a) /\ Len(B) = 1 + Len(b) /\ Len(E) = 1 + Len(e)
    BY FieldTyped
  <2>3. UN = Cat(U, N)
    <3> DEFINE q == <<u>> \o <<n>>
               p == <<u, n>>
    <3>1. q \in Seq(Nat) /\ Len(q) = 2 /\ q[1] = u /\ q[2] = n
      <4>1. <<n>> \in Seq(Nat) /\ Len(<<n>>) = 1 /\ <<n>>[1] = n
        OBVIOUS
      <4>2. Head(q) = u /\ q \in Seq(Nat) /\ Len(q) = 2 /\ q[2] = n
        BY <4>1, OneThen
      <4> HIDE DEF q
      <4> QED
        BY <4>2
    <3>2. p \in Seq(Nat) /\ Len(p) = 2 /\ p[1] = u /\ p[2] = n
      OBVIOUS
    <3> HIDE DEF p, q
    <3>3. \A i \in 1 .. 2 : i = 1 \/ i = 2
      OBVIOUS
    <3>4. \A i \in 1 .. 2 : p[i] = q[i]
      BY <3>1, <3>2, <3>3
    <3>5. p = q
      BY <3>1, <3>2, <3>4, SeqEqual
    <3> QED
      BY <3>5 DEF Cat, p, q
  <2>5. Len(a) \in Nat /\ Len(b) \in Nat /\ Len(e) \in Nat
    OBVIOUS
  <2>0. SerializeHeader(h) = Cat(Cat(Cat(Cat(UN, A), B), E), K)
    BY <1>0 DEF Cat, SerializeHeader
  <2> DEFINE t1 == Cat(E, K)
             t2 == Cat(B, t1)
             t3 == Cat(A, t2)
             t4 == Cat(N, t3)
  <2> HIDE DEF U, N, UN, A, B, E, K
  <2>6. /\ t1 \in Seq(Nat) /\ t2 \in Seq(Nat) /\ t3 \in Seq(Nat) /\ t4 \in Seq(Nat)
        /\ Cat(U, t4) \in Seq(Nat)
    BY ONLY <2>1, <2>2, CatTyped
  <2>7. SerializeHeader(h) = Cat(UN, t3)
    BY ONLY <2>0, <2>1, <2>2, Chain
  <2>8. Cat(UN, t3) = Cat(U, t4)
    BY ONLY <2>1, <2>3, <2>6, CatAssociative
  <2>9. Len(Cat(U, t4)) = 6 + Len(a) + Len(b) + Len(e)
    <3>1. /\ Len(t1) = Len(E) + Len(K)
          /\ Len(t2) = Len(B) + Len(t1)
          /\ Len(t3) = Len(A) + Len(t2)
          /\ Len(t4) = Len(N) + Len(t3)
          /\ Len(Cat(U, t4)) = Len(U) + Len(t4)
      BY ONLY <2>1, <2>2, <2>6, CatLen
    <3>2. Len(U) = 1 /\ Len(N) = 1 /\ Len(K) = 1
      BY <2>1, Zenon
    <3> HIDE DEF t1, t2, t3, t4
    <3> QED
      BY ONLY <2>2, <2>5, <3>1, <3>2
  <2>10. Cat(U, t4) = s
    BY Zenon DEF Cat, U, N, A, B, E, K
  <2> HIDE DEF s, t1, t2, t3, t4
  <2> QED
    BY ONLY <2>6, <2>7, <2>8, <2>9, <2>10, Zenon DEF HeaderSize
<1>3. r6 \in Seq(Nat) /\ r5 \in Seq(Nat) /\ r5 = <<k>> \o r6
  BY <1>1, ConcatEmptySeq
<1>4. Field(a) \in Seq(Nat) /\ Field(b) \in Seq(Nat) /\ Field(e) \in Seq(Nat)
  BY FieldTyped
<1>5. r4 \in Seq(Nat)
  BY <1>3, <1>4, ConcatProperties
<1>6. r3 \in Seq(Nat)
  BY <1>5, <1>4, ConcatProperties
<1>7. r2 \in Seq(Nat)
  BY <1>6, <1>4, ConcatProperties
<1>8. r1 \in Seq(Nat)
  BY <1>7, OneThen
<1> DEFINE d5 == Append(Append(Append(Append(Append(<<>>, u), n), a), b), e)
           d6 == Append(d5, k)
           c1 == At(r1, Append(<<>>, u))
           c2 == At(r2, Append(Append(<<>>, u), n))
           c3 == At(r3, Append(Append(Append(<<>>, u), n), a))
           c4 == At(r4, Append(Append(Append(Append(<<>>, u), n), a), b))
           c5 == At(r5, d5)
           c6 == At(r6, d6)
<1>9. ReadOne(Cursor(s)) = c1
  BY <1>8, ReadOneBack DEF Cursor, At
<1>10. ReadOne(c1) = c2
  BY <1>7, ReadOneBack
<1>11. ReadField(c2) = c3
  BY <1>6, ReadFieldBack
<1>12. ReadField(c3) = c4
  BY <1>5, ReadFieldBack
<1>13. ReadField(c4) = c5
  BY <1>3, ReadFieldBack
<1>14. ReadOne(c5) = c6
  BY <1>1, <1>3, ReadOneBack
<1> DEFINE c == ReadOne(ReadField(ReadField(ReadField(ReadOne(ReadOne(Cursor(s)))))))
<1>15. c.ok /\ c.read = d6
  <2>1. c = c6
    BY <1>9, <1>10, <1>11, <1>12, <1>13, <1>14
  <2> HIDE DEF c, d6, r6
  <2> QED
    BY <2>1 DEF At
<1>16. /\ d6[1] = u /\ d6[2] = n /\ d6[3] = a /\ d6[4] = b /\ d6[5] = e /\ d6[6] = k
  BY ReadValues
<1> HIDE DEF d6
<1>17. \A i \in 3 .. 5 : Utf8(d6[i])
  <2>1. \A i \in 3 .. 5 : i = 3 \/ i = 4 \/ i = 5
    OBVIOUS
  <2> QED
    BY <1>0, <1>16, <2>1
<1>18. DeserializeHeaderV1(s) =
         Some([uuid |-> u, message_length |-> n, sender_id |-> a, tracker_id |-> b,
               verification_data |-> e, compression |-> k])
  BY <1>15, <1>16, <1>17 DEF DeserializeHeaderV1
<1> QED
  BY <1>0, <1>2, <1>18

(* What follows a sequence can be cut off again.                           *)
LEMMA CutBack ==
  ASSUME NEW m \in Seq(Nat), NEW x \in Seq(Nat)
  PROVE  /\ IsPrefix(m, m \o x)
         /\ SubSeq(m \o x, Len(m) + 1, Len(m \o x)) = x
<1> DEFINE q == m \o x
           n == Len(m)
<1>1. n \in Nat /\ n = Len(m) /\ Len(x) \in Nat
  OBVIOUS
<1>2. /\ q \in Seq(Nat) /\ Len(q) = n + Len(x)
      /\ \A i \in 1 .. n + Len(x) : q[i] = IF i <= n THEN m[i] ELSE x[i - n]
  BY ConcatProperties
<1> HIDE DEF q, n
<1>3. \A i \in 1 .. Len(q) : q[i] \in Nat
  BY <1>2, ElementOfSeq
<1>4. SubSeq(q, n + 1, Len(q)) = x
  <2> DEFINE p == SubSeq(q, n + 1, Len(q))
  <2>1. \A i \in n + 1 .. Len(q) : q[i] \in Nat
    BY <1>1, <1>2, <1>3
  <2>2. /\ p \in Seq(Nat)
        /\ Len(p) = IF n + 1 <= Len(q) THEN Len(q) - (n + 1) + 1 ELSE 0
        /\ \A i \in 1 .. Len(q) - (n + 1) + 1 : p[i] = q[n + 1 + i - 1]
    BY <1>1, <1>2, <2>1, SubSeqProperties
  <2> HIDE DEF p
  <2>3. Len(q) - (n + 1) + 1 = Len(x)
    BY <1>1, <1>2
  <2>4. Len(p) = Len(x)
    BY <1>1, <1>2, <2>2, <2>3
  <2>5. \A i \in 1 .. Len(x) : p[i] = x[i]
    <3> SUFFICES ASSUME NEW i \in 1 .. Len(x) PROVE p[i] = x[i]
      OBVIOUS
    <3> DEFINE k == n + i
    <3>1. k \in 1 .. n + Len(x) /\ ~(k <= n) /\ k - n = i /\ n + 1 + i - 1 = k
      BY <1>1
    <3> HIDE DEF k
    <3>2. q[k] = x[i]
      BY <1>2, <3>1
    <3> QED
      BY <2>2, <2>3, <3>1, <3>2
  <2>6. p = x
    BY <2>2, <2>4, <2>5, SeqEqual
  <2> QED
    BY <2>6 DEF p
<1>5. SubSeq(m, 1, n) = SubSeq(q, 1, n)
  <2> DEFINE p == SubSeq(m, 1, n)
             r == SubSeq(q, 1, n)
  <2>1. (\A i \in 1 .. n : m[i] \in Nat) /\ (\A i \in 1 .. n : q[i] \in Nat)
    BY <1>1, <1>2, <1>3, ElementOfSeq
  <2>2. p \in Seq(Nat) /\ Len(p) = n /\ \A i \in 1 .. n : p[i] = m[i]
    <3>1. /\ p \in Seq(Nat) /\ Len(p) = IF 1 <= n THEN n - 1 + 1 ELSE 0
          /\ \A i \in 1 .. n - 1 + 1 : p[i] = m[1 + i - 1]
      BY <1>1, <2>1, SubSeqProperties
    <3> HIDE DEF p
    <3> QED
      BY <1>1, <3>1
  <2>3. r \in Seq(Nat) /\ Len(r) = n /\ \A i \in 1 .. n : r[i] = q[i]
    <3>1. /\ r \in Seq(Nat) /\ Len(r) = IF 1 <= n THEN n - 1 + 1 ELSE 0
          /\ \A i \in 1 .. n - 1 + 1 : r[i] = q[1 + i - 1]
      BY <1>1, <2>1, SubSeqProperties
    <3> HIDE DEF r
    <3> QED
      BY <1>1, <3>1
  <2>4. \A i \in 1 .. n : q[i] = m[i]
    BY <1>1, <1>2
  <2> HIDE DEF p, r
  <2>5. p = r
    BY <2>2, <2>3, <2>4, SeqEqual
  <2> QED
    BY <2>5 DEF p, r
<1>6. n <= Len(q)
  BY <1>1, <1>2
<1>7. IsPrefix(m, q)
  BY <1>1, <1>5, <1>6 DEF IsPrefix
<1> QED
  BY <1>4, <1>7 DEF q, n

LEMMA MarkTyped ==
  ASSUME NEW c \in Compression
  PROVE  Mark(c) \in Seq(Nat)
<1>1. c = 0 \/ c = 1 \/ c = 2
  BY DEF Compression
<1>2. c = 0 => Mark(c) = <<>>
  BY DEF Mark
<1>3. c = 1 => Mark(c) = <<31, 139>>
  BY DEF Mark
<1>4. c = 2 => Mark(c) = <<27>>
  BY DEF Mark
<1>5. <<>> \in Seq(Nat) /\ <<31, 139>> \in Seq(Nat) /\ <<27>> \in Seq(Nat)
  OBVIOUS
<1> QED
  BY <1>1, <1>2, <1>3, <1>4, <1>5

(* decompress gives back what compress was given, in a build with the flag *)
(* on and in one with it off.                                              *)
LEMMA DecompressBack ==
  ASSUME NEW h, h.compression \in Compression, NEW g, g.compression = h.compression,
         NEW x \in Seq(Nat)
  PROVE  /\ Compress(EnableCompression, h, x) \in Seq(Nat)
         /\ Decompress(g, Compress(EnableCompression, h, x)) = Some(x)
<1>1. PICK c \in Compression : c = h.compression
  OBVIOUS
<1>2. PICK m \in Seq(Nat) : m = Mark(c)
  BY MarkTyped
<1>3. PICK q : q = m \o x
  OBVIOUS
<1>4. q \in Seq(Nat) /\ IsPrefix(m, q) /\ SubSeq(q, Len(m) + 1, Len(q)) = x
  <2>1. m \o x \in Seq(Nat)
    BY ConcatProperties
  <2> QED
    BY <1>3, <2>1, CutBack
<1>5. CASE EnableCompression
  <2>1. Compress(EnableCompression, h, x) = q
    BY <1>1, <1>2, <1>3, <1>5 DEF Compress, CompressBy
  <2>2. Decompress(g, q) = Some(x)
    BY <1>1, <1>2, <1>4, <1>5 DEF Decompress, DecompressBy
  <2> QED
    BY <1>4, <2>1, <2>2
<1>6. CASE ~EnableCompression
  BY <1>6 DEF Compress, Decompress
<1> QED
  BY <1>5, <1>6

(* What send_with_header makes of a letter: the header, ...                *)
Given(l)      == FromJson(1, l.json).value
SentData(l)   == Compress(EnableCompression, Given(l), l.text)
SentHeader(l) == [Given(l) EXCEPT !.message_length = Len(SentData(l))]

(* ... the message and its signature.                                      *)
SentMessage(l) ==
  [header_version |-> 1, header |-> SerializeHeader(SentHeader(l)), data |-> SentData(l)]
SentSign(l) == Sign(SentMessage(l), l.hash_key, l.secret_key)

(* The header that send_with_header makes of the JSON it is given.         *)
LEMMA HeaderFields ==
  ASSUME NEW l, HeaderGiven(l.json)
  PROVE  LET g == Given(l)
             h == SentHeader(l)
         IN  /\ h.uuid = g.uuid /\ h.message_length = Len(SentData(l))
             /\ h.compression = g.compression
             /\ h.sender_id = g.sender_id /\ h.tracker_id = g.tracker_id
             /\ h.verification_data = g.verification_data
             /\ g.uuid \in Nat /\ g.compression \in Compression
             /\ g.sender_id \in Seq(Nat) /\ g.tracker_id \in Seq(Nat)
             /\ g.verification_data \in Seq(Nat)
             /\ Utf8(g.sender_id) /\ Utf8(g.tracker_id) /\ Utf8(g.verification_data)
             /\ h = [uuid |-> h.uuid, message_length |-> h.message_length,
                     sender_id |-> h.sender_id, tracker_id |-> h.tracker_id,
                     verification_data |-> h.verification_data,
                     compression |-> h.compression]
<1>a. PICK json, n, g, h :
        /\ json = l.json /\ n = Len(SentData(l)) /\ g = Given(l) /\ h = SentHeader(l)
  OBVIOUS
<1>b. HeaderGiven(json) /\ g = FromJson(1, json).value
  BY <1>a DEF Given
<1>c. h = [g EXCEPT !.message_length = n]
  BY <1>a DEF SentHeader
<1> DEFINE D == DOMAIN Defaults \cup {"uuid"}
<1>1. D = {"message_length", "sender_id", "tracker_id", "verification_data",
           "compression", "uuid"}
  BY DEF Defaults
<1>2. ~(1 # 1 \/ "uuid" \notin DOMAIN json)
  BY <1>b DEF HeaderGiven, FromJson, Nope
<1>3. g = [f \in D |-> IF f \in DOMAIN json THEN json[f] ELSE Defaults[f]]
  BY <1>b, <1>2 DEF FromJson, Some
<1>4. DOMAIN g = {"message_length", "sender_id", "tracker_id", "verification_data",
                  "compression", "uuid"}
  BY <1>1, <1>3
<1>5. g = [f \in DOMAIN g |-> g[f]]
  BY <1>3
<1> HIDE DEF D
<1>6. /\ h.uuid = g.uuid /\ h.message_length = n /\ h.compression = g.compression
      /\ h.sender_id = g.sender_id /\ h.tracker_id = g.tracker_id
      /\ h.verification_data = g.verification_data
  BY ONLY <1>4, <1>5, <1>c
<1>7. h = [uuid |-> h.uuid, message_length |-> h.message_length,
           sender_id |-> h.sender_id, tracker_id |-> h.tracker_id,
           verification_data |-> h.verification_data, compression |-> h.compression]
  BY ONLY <1>4, <1>5, <1>c
<1>8. /\ g.uuid \in Nat /\ g.compression \in Compression
      /\ g.sender_id \in Seq(Nat) /\ g.tracker_id \in Seq(Nat)
      /\ g.verification_data \in Seq(Nat)
      /\ Utf8(g.sender_id) /\ Utf8(g.tracker_id) /\ Utf8(g.verification_data)
  BY <1>b DEF HeaderGiven, Texts
<1> QED
  BY <1>a, <1>6, <1>7, <1>8, Zenon

(* Message::verify accepts what Message::sign signed exactly if both used  *)
(* the same hash key.                                                      *)
LEMMA VerifyOwn ==
  ASSUME NEW m, SerializeUnsigned(m) \in Seq(Nat),
         NEW d, SerializeUnsigned(d) = SerializeUnsigned(m),
         NEW key \in Nat, NEW sk \in Nat, d.sign = Sign(m, key, sk), NEW other \in Nat
  PROVE  Verify(d, other) <=> key = other
<1>0. PICK u \in Seq(Nat) : u = SerializeUnsigned(m) /\ u = SerializeUnsigned(d)
  OBVIOUS
<1>1. PICK a : a = <<key>> \o u
  OBVIOUS
<1>2. PICK b : b = <<other>> \o u
  OBVIOUS
<1>3. PICK g : g = <<sk>> \o a
  OBVIOUS
<1>4. a \in Seq(Nat) /\ Head(a) = key
  BY <1>1, OneThen
<1>5. Head(b) = other
  BY <1>2, OneThen
<1>6. g # <<>> /\ Head(g) = sk /\ Tail(g) = a
  BY <1>3, <1>4, OneThen
<1>7. d.sign = [owner |-> <<sk>>, sig |-> g]
  BY <1>0, <1>1, <1>3 DEF Sign, Signature, Hash
<1>8. d.sign.sig = g /\ d.sign.owner[1] = sk
  BY <1>7
<1>9. Verify(d, other) <=> a = b
  BY <1>0, <1>2, <1>6, <1>8 DEF Verify, Opens, Hash
<1>10. a = b <=> key = other
  BY <1>1, <1>2, <1>4, <1>5
<1> QED
  BY <1>9, <1>10

(* What receive makes of a letter with a header.                           *)
LEMMA HeadedJudged ==
  ASSUME NEW l \in Letter, l.headed
  PROVE  LET h == SentHeader(l)
         IN  Judge(Encode(l), hash_key) =
               IF HeaderSize(h.sender_id, h.tracker_id, h.verification_data) > HeaderLimit
                    \/ l.hash_key # hash_key
               THEN [verdict |-> "skip"]
               ELSE [verdict |-> "deliver", text |-> l.text, version |-> 1,
                     header |-> ToJson(h), sign |-> SignToJson(SentSign(l))]
<1> DEFINE g == Given(l)
           x == SentData(l)
           h == SentHeader(l)
           H == SerializeHeader(h)
           m == SentMessage(l)
           U == SerializeUnsigned(m)
           sg == SentSign(l)
           d == [header_version |-> 1, header |-> H, data |-> x, sign |-> sg]
           W == Serialize(m, sg)
<1>1. /\ HeaderGiven(l.json) /\ l.hash_key \in Nat /\ l.secret_key \in Nat
      /\ l.text \in Seq(Nat) /\ Utf8(l.text) /\ hash_key \in Nat
  <2>1. /\ HeaderGiven(l.json) /\ l.hash_key \in Nat /\ l.secret_key \in 0 .. 255
        /\ l.text \in Seq(Nat) /\ Utf8(l.text) /\ hash_key \in Nat
    BY ListenerAssumption DEF Sendable
  <2>2. \A k \in 0 .. 255 : k \in Nat
    OBVIOUS
  <2> QED
    BY <2>1, <2>2
<1>2. /\ h.uuid = g.uuid /\ h.message_length = Len(x) /\ h.compression = g.compression
      /\ h.sender_id = g.sender_id /\ h.tracker_id = g.tracker_id
      /\ h.verification_data = g.verification_data
      /\ g.uuid \in Nat /\ g.compression \in Compression
      /\ g.sender_id \in Seq(Nat) /\ g.tracker_id \in Seq(Nat)
      /\ g.verification_data \in Seq(Nat)
      /\ Utf8(g.sender_id) /\ Utf8(g.tracker_id) /\ Utf8(g.verification_data)
      /\ h = [uuid |-> h.uuid, message_length |-> h.message_length,
              sender_id |-> h.sender_id, tracker_id |-> h.tracker_id,
              verification_data |-> h.verification_data,
              compression |-> h.compression]
  BY <1>1, HeaderFields
<1>3. x \in Seq(Nat) /\ Decompress(h, x) = Some(l.text) /\ Len(x) \in Nat
  <2>1. x \in Seq(Nat) /\ Decompress(h, x) = Some(l.text)
    BY <1>1, <1>2, DecompressBack DEF SentData
  <2> QED
    BY <2>1
<1> HIDE DEF g, x, h
<1>4. /\ H \in Seq(Nat) /\ DeserializeHeaderV1(H) = Some(h)
      /\ Len(H) = HeaderSize(h.sender_id, h.tracker_id, h.verification_data)
  BY <1>2, <1>3, HeaderBack
<1>5. m = [header_version |-> 1, header |-> H, data |-> x]
  BY DEF SentMessage, h, x
<1> HIDE DEF H, m
<1>6. U \in Seq(Nat)
  <2> DEFINE a == <<1>> b == Field(H) c == Field(x)
  <2>1. a \in Seq(Nat) /\ b \in Seq(Nat) /\ c \in Seq(Nat)
    BY <1>3, <1>4, FieldTyped
  <2>2. U = Cat(Cat(a, b), c)
    BY <1>5 DEF SerializeUnsigned, Cat
  <2> HIDE DEF a, b, c
  <2> QED
    BY ONLY <2>1, <2>2, CatTyped
<1> HIDE DEF U
<1>7. PICK o \in Seq(Nat), s \in Seq(Nat) :
        sg = [owner |-> o, sig |-> s] /\ Len(o) = 1
  <2> DEFINE o == <<l.secret_key>>
             k == <<l.hash_key>> \o U
             s == <<l.secret_key>> \o k
  <2>1. o \in Seq(Nat) /\ Len(o) = 1
    BY <1>1
  <2>2. k \in Seq(Nat)
    BY <1>1, <1>6, OneThen
  <2>3. s \in Seq(Nat)
    BY <1>1, <2>2, OneThen
  <2>4. sg = [owner |-> o, sig |-> s]
    BY DEF SentSign, Sign, Signature, Hash, U, m
  <2> HIDE DEF o, s
  <2> QED
    BY <2>1, <2>3, <2>4
<1>8. sg = Sign(m, l.hash_key, l.secret_key)
  BY DEF SentSign, m
<1> HIDE DEF sg
<1>9. W \in Seq(Nat) /\ DeserializeMessage(W) = Some(d)
  <2>1. /\ m.header_version = 1 /\ m.header = H /\ m.data = x
        /\ sg.owner \in Seq(Nat) /\ sg.sig \in Seq(Nat)
        /\ sg = [owner |-> sg.owner, sig |-> sg.sig]
    BY <1>5, <1>7
  <2>2. m.header_version \in Nat /\ m.header \in Seq(Nat) /\ m.data \in Seq(Nat)
    BY <1>3, <1>4, <2>1
  <2>3. /\ W \in Seq(Nat)
        /\ DeserializeMessage(W) =
             Some([header_version |-> m.header_version, header |-> m.header,
                   data |-> m.data, sign |-> [owner |-> sg.owner, sig |-> sg.sig]])
    BY ONLY <2>1, <2>2, MessageBack, Zenon
  <2> HIDE DEF W
  <2> QED
    BY ONLY <2>1, <2>3, Zenon
<1>10. Encode(l) = <<1>> \o W
  BY <1>5, <1>8 DEF Encode, EncodeBy, Wrapped, Given, SentData, SentHeader, m, H, x, h
<1> HIDE DEF W
<1>11. PICK e : e = Encode(l)
  OBVIOUS
<1>12. e # <<>> /\ e[1] = 1 /\ Tail(e) = W
  <2>1. e \in Seq(Nat) /\ e # <<>> /\ Head(e) = 1 /\ Tail(e) = W
    BY <1>9, <1>10, <1>11, OneThen
  <2> QED
    BY <2>1
<1>13. Verify(d, hash_key) <=> l.hash_key = hash_key
  <2>1. SerializeUnsigned(d) = U
    BY <1>5 DEF SerializeUnsigned, U
  <2>2. d.sign = Sign(m, l.hash_key, l.secret_key)
    BY <1>8
  <2>3. SerializeUnsigned(m) \in Seq(Nat) /\ SerializeUnsigned(d) = SerializeUnsigned(m)
    BY <1>6, <2>1 DEF U
  <2> HIDE DEF d
  <2> QED
    BY ONLY <1>1, <2>2, <2>3, VerifyOwn
<1>14. /\ d.header_version = 1 /\ d.header = H /\ d.data = x /\ d.sign = sg
       /\ KeyWellFormed(d.sign.owner)
  BY <1>7 DEF KeyWellFormed
<1>15. /\ Some(d).some /\ Some(d).value = d /\ Some(h).some /\ Some(h).value = h
       /\ Some(l.text).some /\ Some(l.text).value = l.text
  BY DEF Some
<1>16. DeserializeHeader(1, H) = Some(h)
  BY <1>4 DEF DeserializeHeader
<1>17. Validate(h, x)
  BY <1>2 DEF Validate
<1> HIDE DEF d
<1>18. Judge(e, hash_key) =
         IF Len(H) > HeaderLimit \/ l.hash_key # hash_key
         THEN [verdict |-> "skip"]
         ELSE [verdict |-> "deliver", text |-> l.text, version |-> 1,
               header |-> ToJson(h), sign |-> SignToJson(sg)]
  BY <1>1, <1>3, <1>9, <1>12, <1>13, <1>14, <1>15, <1>16, <1>17 DEF Judge
<1> QED
  BY <1>4, <1>11, <1>18 DEF h, sg

(* sodiumoxide::hex gives back a key that it wrote.                        *)
LEMMA HexBack ==
  ASSUME NEW k \in 0 .. 255
  PROVE  Unhex(Hex(<<k>>)) = Some(<<k>>)
<1> DEFINE hi == k \div 16
           lo == k % 16
           q  == <<<<hi, lo>>>>
<1>1. hi \in 0 .. 15 /\ lo \in 0 .. 15 /\ 16 * hi + lo = k
  OBVIOUS
<1>2. [i \in DOMAIN <<k>> |-> <<(<<k>>)[i] \div 16, (<<k>>)[i] % 16>>] = q
  OBVIOUS
<1> HIDE DEF hi, lo
<1>3. FlattenSeq(q) = <<hi, lo>>
  <2> DEFINE Flat(g) == [i \in 1 .. 1 |-> IF i = 1 THEN q[i] ELSE g[i - 1] \o q[i]]
             f == CHOOSE g : g = Flat(g)
  <2>1. Len(q) = 1 /\ q[1] = <<hi, lo>>
    OBVIOUS
  <2>2. \E g : g = Flat(g)
    <3> DEFINE g == [i \in 1 .. 1 |-> q[1]]
    <3>1. g = Flat(g)
      OBVIOUS
    <3> QED
      BY <3>1
  <2>3. f = Flat(f)
    BY <2>2
  <2>4. f[1] = q[1]
    BY <2>3
  <2> HIDE DEF f, q
  <2>5. FlattenSeq(q) = f[1]
    BY <2>1 DEF FlattenSeq, f
  <2> QED
    BY <2>1, <2>4, <2>5
<1>4. Hex(<<k>>) = <<hi, lo>>
  BY <1>2, <1>3 DEF Hex
<1> DEFINE p == <<hi, lo>>
<1>5. /\ Len(p) = 2 /\ DOMAIN p = 1 .. 2 /\ p[1] = hi /\ p[2] = lo
      /\ \A i \in 1 .. 2 : i = 1 \/ i = 2
  OBVIOUS
<1> HIDE DEF p
<1>6. ~(Len(p) % 2 = 1 \/ \E i \in DOMAIN p : p[i] > 15)
  BY <1>1, <1>5
<1>7. [i \in 1 .. Len(p) \div 2 |-> 16 * p[2 * i - 1] + p[2 * i]] = <<k>>
  <2>1. Len(p) \div 2 = 1
    BY <1>5
  <2>2. \A i \in 1 .. 1 : 16 * p[2 * i - 1] + p[2 * i] = k
    <3>1. \A i \in 1 .. 1 : 2 * i - 1 = 1 /\ 2 * i = 2
      OBVIOUS
    <3> QED
      BY <1>1, <1>5, <3>1
  <2> QED
    BY <2>1, <2>2
<1>8. Unhex(p) = Some(<<k>>)
  BY <1>6, <1>7 DEF Unhex
<1> QED
  BY <1>4, <1>8 DEF p

(* The wire format round trip: of the letters of this library receive      *)
(* hands up those that pass, with the text and the key of their sender and *)
(* the header it was given, if that is verbatim, and skips the others;     *)
(* none is an error, for every text, header and key, in every build and    *)
(* whatever JSON.parse makes of headers that are not verbatim.             *)
THEOREM OwnLettersRoundTrip ==
  ASSUME NEW l \in Letter
  PROVE  LET j == Judge(Encode(l), hash_key)
         IN  /\ j.verdict \in {"deliver", "skip"}
             /\ j.verdict = "deliver" <=> Passes(l)
             /\ Passes(l) => Shows(j, l)
<1> DEFINE j == Judge(Encode(l), hash_key)
<1>1. CASE ~l.headed
  <2>1. Encode(l) = l.text
    BY <1>1 DEF Encode, EncodeBy
  <2>2. j = [verdict |-> "deliver", text |-> l.text]
    BY <1>1, <2>1, ListenerAssumption DEF Judge, Sendable
  <2>3. Passes(l)
    BY <1>1 DEF Passes
  <2> HIDE DEF j
  <2>4. j.verdict = "deliver" /\ j.text = l.text
    BY <2>2
  <2>5. Shows(j, l)
    BY <1>1, <2>4 DEF Shows
  <2> QED
    BY <2>3, <2>4, <2>5 DEF j
<1>2. CASE l.headed
  <2> DEFINE g == Given(l)
             h == SentHeader(l)
             sg == SentSign(l)
             n == HeaderSize(g.sender_id, g.tracker_id, g.verification_data)
  <2>1. HeaderGiven(l.json) /\ l.secret_key \in 0 .. 255 /\ HeaderLimit \in Nat
    BY <1>2, ListenerAssumption DEF Sendable
  <2>2. /\ h.uuid = g.uuid /\ h.sender_id = g.sender_id /\ h.tracker_id = g.tracker_id
        /\ h.verification_data = g.verification_data
        /\ g.sender_id \in Seq(Nat) /\ g.tracker_id \in Seq(Nat)
        /\ g.verification_data \in Seq(Nat)
        /\ h = [uuid |-> h.uuid, message_length |-> h.message_length,
                sender_id |-> h.sender_id, tracker_id |-> h.tracker_id,
                verification_data |-> h.verification_data,
                compression |-> h.compression]
    BY <2>1, HeaderFields
  <2>3. n \in Nat
    <3>1. \A x \in Seq(Nat) : Len(x) \in Nat
      OBVIOUS
    <3>2. PICK a, b, e \in Nat :
            a = Len(g.sender_id) /\ b = Len(g.tracker_id) /\ e = Len(g.verification_data)
      BY <2>2, <3>1
    <3>3. n = 6 + a + b + e
      BY <3>2 DEF HeaderSize
    <3>4. 6 + a + b + e \in Nat
      OBVIOUS
    <3> QED
      BY ONLY <3>3, <3>4
  <2>4. Passes(l) <=> ~(n > HeaderLimit \/ l.hash_key # hash_key)
    <3>1. Passes(l) <=> l.hash_key = hash_key /\ n <= HeaderLimit
      BY <1>2 DEF Passes, HeaderSize, Given
    <3> HIDE DEF n
    <3> QED
      BY <2>1, <2>3, <3>1
  <2>5. j = IF ~Passes(l) THEN [verdict |-> "skip"]
            ELSE [verdict |-> "deliver", text |-> l.text, version |-> 1,
                  header |-> ToJson(h), sign |-> SignToJson(sg)]
    BY <1>2, <2>2, <2>4, HeadedJudged
  <2> HIDE DEF j, g, h, sg, n
  <2>6. j.verdict \in {"deliver", "skip"} /\ (j.verdict = "deliver" <=> Passes(l))
    BY <2>5
  <2>7. ASSUME Passes(l) PROVE Shows(j, l)
    <3> DEFINE plain == \A f \in Texts \cap DOMAIN l.json : Verbatim(l.json[f])
    <3>1. /\ j.text = l.text /\ j.version = 1 /\ j.header = ToJson(h)
          /\ j.sign = SignToJson(sg)
      BY <2>5, <2>7
    <3>2. Unhex(j.sign.owner) = Some(<<l.secret_key>>)
      <4>1. sg.owner = <<l.secret_key>>
        BY DEF sg, SentSign, Sign
      <4>2. j.sign.owner = Hex(<<l.secret_key>>)
        BY <3>1, <4>1 DEF SignToJson
      <4> QED
        BY <2>1, <4>2, HexBack
    <3>3. \A f \in Texts \cup {"uuid"} :
            h[f] = IF f \in DOMAIN l.json THEN l.json[f] ELSE <<>>
      <4>1. "uuid" \in DOMAIN l.json
        BY <2>1 DEF HeaderGiven, FromJson, Nope
      <4>2. g = [f \in DOMAIN Defaults \cup {"uuid"} |->
                   IF f \in DOMAIN l.json THEN l.json[f] ELSE Defaults[f]]
        BY <4>1 DEF g, Given, FromJson, Some
      <4>3. /\ Texts \cup {"uuid"} \subseteq DOMAIN Defaults \cup {"uuid"}
            /\ \A f \in Texts : Defaults[f] = <<>>
        BY DEF Texts, Defaults
      <4>4. \A f \in Texts \cup {"uuid"} :
              g[f] = IF f \in DOMAIN l.json THEN l.json[f] ELSE <<>>
        BY <4>1, <4>2, <4>3
      <4>5. \A f \in Texts \cup {"uuid"} : h[f] = g[f]
        BY <2>2 DEF Texts
      <4> QED
        BY <4>4, <4>5
    <3>4. plain => \A f \in Texts : Verbatim(h[f])
      <4>1. Verbatim(<<>>)
        BY DEF Verbatim
      <4> QED
        BY <3>3, <4>1
    <3>5. DOMAIN h = {"uuid", "message_length", "sender_id", "tracker_id",
                      "verification_data", "compression"}
      BY <2>2
    <3>6. Texts \cup {"uuid"} \subseteq DOMAIN h \ {"compression"}
      BY <3>5 DEF Texts
    <3> HIDE DEF plain
    <3>7. ASSUME plain
          PROVE  /\ j.header.some
                 /\ \A f \in Texts \cup {"uuid"} : j.header.value[f] = h[f]
      <4>1. j.header = Some([f \in DOMAIN h \ {"compression"} |-> h[f]])
        BY <3>1, <3>4, <3>7 DEF ToJson
      <4>2. j.header.some /\ j.header.value = [f \in DOMAIN h \ {"compression"} |-> h[f]]
        BY <4>1 DEF Some
      <4> QED
        BY <3>6, <4>2
    <3> QED
      BY <1>2, <3>1, <3>2, <3>3, <3>7 DEF Shows, plain
  <2> QED
    BY <2>6, <2>7 DEF j
<1>3. l.headed \in BOOLEAN
  BY ListenerAssumption DEF Sendable
<1> QED
  BY <1>1, <1>2, <1>3

-----------------------------------------------------------------------------
(* What goes through the channel: a connection and what receive made of a  *)
(* frame.                                                                  *)
Handed == [from : Conn, message : {Judged[s] : s \in Frames}]

TypeInv ==
  /\ TypeOK
  /\ taken \in [Conn -> Nat]
  /\ received \in Seq(Handed)

(* A task that waits for the body of a frame has one to come, or a stream  *)
(* that was cut.                                                           *)
BodyInv ==
  \A c \in Conn : conn[c] = "body" => Unread(c) \/ ending[c] \in {"torn", "reset"}

(* at gives for every message handed up the place of its frame among those *)
(* of its connection: each comes from such a frame, ...                    *)
FromItsFrame(at) ==
  \A i \in DOMAIN received :
    /\ at[i] \in 1 .. taken[received[i].from]
    /\ received[i].message = Judged[written[received[i].from][at[i]]]
    /\ received[i].message.verdict = "deliver"

(* ... messages of one connection come in the order of their frames, ...   *)
InOrder(at) ==
  \A i, j \in DOMAIN received :
    i < j /\ received[i].from = received[j].from => at[i] < at[j]

(* ... and every frame read and not refused has its message.               *)
Complete(at) ==
  \A c \in Conn : \A k \in 1 .. taken[c] :
    Judged[written[c][k]].verdict = "deliver" =>
      \E i \in DOMAIN received : received[i].from = c /\ at[i] = k

SourceInv ==
  \E at \in [DOMAIN received -> Nat] : FromItsFrame(at) /\ InOrder(at) /\ Complete(at)

ListenerInv == TypeInv /\ BodyInv /\ OwnLettersNeverEndIt /\ SourceInv

(* A frame that a task has yet to read is one of Frames.                   *)
LEMMA NextFrame ==
  ASSUME TypeInv, NEW c \in Conn, Unread(c)
  PROVE  /\ taken[c] \in Nat /\ Len(written[c]) \in Nat
         /\ taken[c] + 1 \in 1 .. Len(written[c])
         /\ written[c][taken[c] + 1] \in Frames
<1>1. written[c] \in Seq(Frames) /\ taken[c] \in Nat
  BY DEF TypeInv, TypeOK
<1>2. Len(written[c]) \in Nat
  BY <1>1
<1>3. taken[c] + 1 \in 1 .. Len(written[c])
  BY <1>1, <1>2 DEF Unread
<1> QED
  BY <1>1, <1>2, <1>3, ElementOfSeq

LEMMA TypeInvInit ==
  ASSUME Init
  PROVE  TypeInv
<1>1. <<>> \in Seq(Frames) /\ <<>> \in Seq(Handed) /\ Len(<<>>) = 0 /\ DOMAIN <<>> = {}
  OBVIOUS
<1> QED
  BY <1>1 DEF Init, TypeInv, TypeOK

(* What was written stays, and there may be more of it.                    *)
LEMMA TypeInvNext ==
  ASSUME TypeInv, [Next]_vars
  PROVE  TypeInv'
<1> USE DEF TypeInv, TypeOK
<1>1. CASE BindOk \/ BindFails \/ AcceptFails \/ Wake
  BY <1>1 DEF BindOk, BindFails, AcceptFails, Wake
<1>2. ASSUME NEW c \in Conn, Accept(c) \/ ReadLength(c) \/ EndOfStream(c) \/ TornFrame(c)
                              \/ Connect(c)
      PROVE  TypeInv'
  BY <1>2 DEF Accept, ReadLength, EndOfStream, TornFrame, Connect
<1>3. ASSUME NEW c \in Conn, ReadBody(c) PROVE TypeInv'
  <2> DEFINE s == written[c][taken[c] + 1]
             j == Judged[s]
  <2>1. /\ taken[c] \in Nat /\ taken[c] + 1 \in 1 .. Len(written[c]) /\ s \in Frames
    BY <1>3, NextFrame DEF ReadBody
  <2>2. taken' = [taken EXCEPT ![c] = @ + 1] /\ taken'[c] = taken[c] + 1
    BY <1>3 DEF ReadBody
  <2>3. /\ conn' \in [Conn -> {"none", "backlog", "reset", "length", "body",
                               "completed", "failed", "panicked"}]
        /\ received' = IF j.verdict = "deliver"
                       THEN Append(received, [from |-> c, message |-> j]) ELSE received
        /\ UNCHANGED <<listener, written, ending>>
    BY <1>3, <2>2 DEF ReadBody
  <2>4. taken' \in [Conn -> Nat] /\ \A d \in Conn : taken'[d] \in 0 .. Len(written[d])
    BY <2>1, <2>2
  <2>5. [from |-> c, message |-> j] \in Handed
    BY <2>1 DEF Handed
  <2> HIDE DEF j
  <2>6. received' \in Seq(Handed)
    BY <2>3, <2>5, AppendProperties
  <2>7. \A i \in DOMAIN received' : received'[i].from \in Conn
    <3>1. \A i \in DOMAIN received' : received'[i] \in Handed
      BY <2>6, ElementOfSeq
    <3> QED
      BY <3>1 DEF Handed
  <2> QED
    BY <2>3, <2>4, <2>6, <2>7
<1>4. ASSUME NEW c \in Conn, NEW s \in Frames, WriteFrame(c, s) PROVE TypeInv'
  <2> DEFINE w == Append(written[c], s)
  <2>1. written[c] \in Seq(Frames) /\ Len(written[c]) \in Nat
    OBVIOUS
  <2>2. w \in Seq(Frames) /\ Len(w) = Len(written[c]) + 1
    BY <2>1, AppendProperties
  <2> HIDE DEF w
  <2>3. /\ written' = [written EXCEPT ![c] = w]
        /\ UNCHANGED <<listener, conn, ending, taken, received>>
    BY <1>4 DEF WriteFrame, w
  <2>4. written' \in [Conn -> Seq(Frames)]
    BY <2>2, <2>3
  <2>5. \A d \in Conn : taken'[d] \in 0 .. Len(written'[d])
    BY <2>1, <2>2, <2>3
  <2> QED
    BY <2>3, <2>4, <2>5
<1>5. ASSUME NEW c \in Conn, NEW how \in {"closed", "torn", "reset"}, Close(c, how)
      PROVE  TypeInv'
  BY <1>5 DEF Close
<1>6. CASE UNCHANGED vars
  BY <1>6 DEF vars
<1> QED
  BY <1>1, <1>2, <1>3, <1>4, <1>5, <1>6 DEF Next, Receive

(* A letter of this library never makes a task fail or panic.              *)
LEMMA OwnFrame ==
  ASSUME NEW s \in Frames, Judged[s].verdict \notin {"deliver", "skip"}
  PROVE  s \in Foreign
<1>1. Judged[s] = Judge(s, hash_key)
  BY DEF Judged
<1>2. \A l \in Letter : Judge(Encode(l), hash_key).verdict \in {"deliver", "skip"}
  BY OwnLettersRoundTrip
<1> QED
  BY <1>1, <1>2 DEF Frames

LEMMA BodyInvNext ==
  ASSUME TypeInv, BodyInv, [Next]_vars
  PROVE  BodyInv'
<1> SUFFICES ASSUME NEW d \in Conn, conn'[d] = "body"
             PROVE  Unread(d)' \/ ending'[d] \in {"torn", "reset"}
  BY DEF BodyInv
<1> USE DEF BodyInv, Unread, TypeInv, TypeOK
<1>1. CASE BindOk \/ BindFails \/ AcceptFails \/ Wake
  BY <1>1 DEF BindOk, BindFails, AcceptFails, Wake
<1>2. ASSUME NEW c \in Conn, Accept(c) \/ ReadLength(c) \/ EndOfStream(c) \/ TornFrame(c)
                              \/ Connect(c)
      PROVE  Unread(d)' \/ ending'[d] \in {"torn", "reset"}
  BY <1>2 DEF Accept, ReadLength, EndOfStream, TornFrame, Connect
<1>3. ASSUME NEW c \in Conn, ReadBody(c)
      PROVE  Unread(d)' \/ ending'[d] \in {"torn", "reset"}
  <2>1. /\ taken' = [taken EXCEPT ![c] = @ + 1]
        /\ \E t \in {"failed", "panicked", "length"} : conn' = [conn EXCEPT ![c] = t]
        /\ UNCHANGED <<written, ending>>
    BY <1>3 DEF ReadBody
  <2> QED
    BY <2>1
<1>4. ASSUME NEW c \in Conn, NEW s \in Frames, WriteFrame(c, s)
      PROVE  Unread(d)' \/ ending'[d] \in {"torn", "reset"}
  <2>1. written[c] \in Seq(Frames) /\ Len(written[c]) \in Nat /\ taken[c] \in Nat
    OBVIOUS
  <2>2. Len(Append(written[c], s)) = Len(written[c]) + 1
    BY <2>1, AppendProperties
  <2>3. Len(written'[c]) = Len(written[c]) + 1 /\ (d # c => written'[d] = written[d])
    BY <1>4, <2>2 DEF WriteFrame
  <2>4. UNCHANGED <<conn, ending, taken>>
    BY <1>4 DEF WriteFrame
  <2> QED
    BY <2>1, <2>3, <2>4
<1>5. ASSUME NEW c \in Conn, NEW how \in {"closed", "torn", "reset"}, Close(c, how)
      PROVE  Unread(d)' \/ ending'[d] \in {"torn", "reset"}
  BY <1>5 DEF Close
<1>6. CASE UNCHANGED vars
  BY <1>6 DEF vars
<1> QED
  BY <1>1, <1>2, <1>3, <1>4, <1>5, <1>6 DEF Next, Receive

(* Why a task may have ended badly.                                        *)
Excuse(c) ==
  \/ ending[c] = "torn" /\ ~Unread(c)
  \/ ending[c] = "reset"
  \/ taken[c] > 0 /\ written[c][taken[c]] \in Foreign

LEMMA OwnLettersNext ==
  ASSUME TypeInv, BodyInv, OwnLettersNeverEndIt, [Next]_vars
  PROVE  OwnLettersNeverEndIt'
<1> SUFFICES ASSUME NEW d \in Conn, conn'[d] \in {"failed", "panicked"}
             PROVE  Excuse(d)'
  BY DEF OwnLettersNeverEndIt, Excuse
<1>0. conn[d] \in {"failed", "panicked"} => Excuse(d)
  BY DEF OwnLettersNeverEndIt, Excuse
<1>t. /\ conn \in [Conn -> {"none", "backlog", "reset", "length", "body",
                            "completed", "failed", "panicked"}]
      /\ ending \in [Conn -> {"open", "closed", "torn", "reset"}]
      /\ written \in [Conn -> Seq(Frames)] /\ taken \in [Conn -> Nat]
      /\ \A c \in Conn : taken[c] \in 0 .. Len(written[c])
  BY DEF TypeInv, TypeOK
<1>1. CASE BindOk \/ BindFails \/ AcceptFails \/ Wake
  BY <1>0, <1>t, <1>1 DEF BindOk, BindFails, AcceptFails, Wake, Excuse, Unread
<1>2. ASSUME NEW c \in Conn, Accept(c) \/ ReadLength(c) \/ EndOfStream(c) \/ Connect(c)
      PROVE  Excuse(d)'
  BY <1>0, <1>t, <1>2 DEF Accept, ReadLength, EndOfStream, Connect, Excuse, Unread
<1>3. ASSUME NEW c \in Conn, TornFrame(c) PROVE Excuse(d)'
  BY <1>0, <1>t, <1>3 DEF TornFrame, BodyInv, Excuse, Unread
<1>4. ASSUME NEW c \in Conn, ReadBody(c) PROVE Excuse(d)'
  <2> DEFINE s == written[c][taken[c] + 1]
             j == Judged[s]
  <2>1. taken[c] \in Nat /\ s \in Frames
    BY <1>4, NextFrame DEF ReadBody
  <2>2. /\ taken' = [taken EXCEPT ![c] = @ + 1] /\ taken'[c] = taken[c] + 1
        /\ UNCHANGED <<written, ending>>
    BY <1>4, <1>t DEF ReadBody
  <2>3. conn' = [conn EXCEPT ![c] = IF j.verdict = "end" THEN "failed"
                                    ELSE IF j.verdict = "panic" THEN "panicked"
                                    ELSE "length"]
    BY <1>4, <2>2 DEF ReadBody
  <2>4. CASE d = c
    <3> HIDE DEF j
    <3>1. j.verdict \in {"end", "panic"}
      BY <1>t, <2>3, <2>4
    <3>2. s \in Foreign
      BY <2>1, <3>1, OwnFrame DEF j
    <3> QED
      BY <2>1, <2>2, <2>4, <3>2 DEF Excuse
  <2>5. CASE d # c
    <3>1. conn'[d] = conn[d] /\ taken'[d] = taken[d]
      BY <1>t, <2>2, <2>3, <2>5
    <3> QED
      BY <1>0, <2>2, <3>1 DEF Excuse, Unread
  <2> QED
    BY <2>4, <2>5
<1>5. ASSUME NEW c \in Conn, NEW s \in Frames, WriteFrame(c, s) PROVE Excuse(d)'
  <2>1. /\ written' = [written EXCEPT ![c] = Append(@, s)] /\ ending[c] = "open"
        /\ UNCHANGED <<conn, ending, taken>>
    BY <1>5 DEF WriteFrame
  <2>2. CASE d = c
    <3>1. taken[d] > 0 /\ written[d][taken[d]] \in Foreign
      BY <1>0, <2>1, <2>2 DEF Excuse
    <3>2. written[d] \in Seq(Frames) /\ taken[d] \in 1 .. Len(written[d])
      BY <1>t, <3>1
    <3>3. written'[d] = Append(written[d], s)
      BY <1>t, <2>1, <2>2
    <3>4. written'[d][taken[d]] = written[d][taken[d]]
      BY <3>2, <3>3, AppendProperties
    <3> QED
      BY <2>1, <3>1, <3>4 DEF Excuse
  <2>3. CASE d # c
    BY <1>0, <1>t, <2>1, <2>3 DEF Excuse, Unread
  <2> QED
    BY <2>2, <2>3
<1>6. ASSUME NEW c \in Conn, NEW how \in {"closed", "torn", "reset"}, Close(c, how)
      PROVE  Excuse(d)'
  BY <1>0, <1>t, <1>6 DEF Close, Excuse, Unread
<1>7. CASE UNCHANGED vars
  BY <1>0, <1>7 DEF vars, Excuse, Unread
<1> QED
  BY <1>1, <1>2, <1>3, <1>4, <1>5, <1>6, <1>7 DEF Next, Receive

(* The frames read so far stay what they are.                              *)
LEMMA SourceInvKept ==
  ASSUME TypeInv, SourceInv, UNCHANGED <<taken, received>>,
         \A c \in Conn : \A k \in 1 .. taken[c] : written'[c][k] = written[c][k]
  PROVE  SourceInv'
<1>1. PICK at \in [DOMAIN received -> Nat] :
        FromItsFrame(at) /\ InOrder(at) /\ Complete(at)
  BY DEF SourceInv
<1>2. \A i \in DOMAIN received : received[i].from \in Conn
  BY DEF TypeInv, TypeOK
<1>3. FromItsFrame(at)'
  BY <1>1, <1>2 DEF FromItsFrame, Judged
<1>4. InOrder(at)'
  BY <1>1 DEF InOrder
<1>5. Complete(at)'
  BY <1>1 DEF Complete, Judged
<1> QED
  BY <1>3, <1>4, <1>5 DEF SourceInv

(* The frame that a task reads is judged, and handed up as the last of its *)
(* connection or not at all.                                               *)
LEMMA SourceInvReadBody ==
  ASSUME TypeInv, SourceInv, NEW c \in Conn, ReadBody(c)
  PROVE  SourceInv'
<1> DEFINE n == taken[c] + 1
           x == Judged[written[c][n]]
<1>t. /\ taken \in [Conn -> Nat] /\ received \in Seq(Handed)
      /\ \A i \in DOMAIN received : received[i].from \in Conn
  BY DEF TypeInv, TypeOK
<1>0. PICK at \in [DOMAIN received -> Nat] :
        FromItsFrame(at) /\ InOrder(at) /\ Complete(at)
  BY DEF SourceInv
<1>1. /\ taken' = [taken EXCEPT ![c] = @ + 1] /\ taken'[c] = n
      /\ UNCHANGED written
  BY <1>t DEF ReadBody
<1>2. received' = IF x.verdict = "deliver"
                  THEN Append(received, [from |-> c, message |-> x]) ELSE received
  BY <1>1 DEF ReadBody
<1>3. n \in Nat /\ \A d \in Conn : taken[d] \in Nat /\ taken'[d] \in Nat
  BY <1>t, <1>1
<1>4. /\ \A d \in Conn : \A k \in 1 .. taken[d] : k \in 1 .. taken'[d]
      /\ \A d \in Conn : \A k \in 1 .. taken'[d] : k \in 1 .. taken[d] \/ (d = c /\ k = n)
  BY <1>t, <1>1
<1>5. Judged' = Judged
  BY DEF Judged
<1>6. CASE x.verdict # "deliver"
  <2> HIDE DEF n
  <2>1. received' = received
    BY <1>2, <1>6
  <2>2. FromItsFrame(at)'
    BY <1>t, <1>0, <1>1, <1>4, <1>5, <2>1 DEF FromItsFrame
  <2>3. InOrder(at)'
    BY <1>0, <2>1 DEF InOrder
  <2>4. Complete(at)'
    BY <1>0, <1>1, <1>4, <1>5, <1>6, <2>1 DEF Complete
  <2> QED
    BY <2>1, <2>2, <2>3, <2>4 DEF SourceInv
<1>7. CASE x.verdict = "deliver"
  <2>1. PICK len \in Nat : len = Len(received) /\ DOMAIN received = 1 .. len
    BY <1>t
  <2>2. PICK m : m = [from |-> c, message |-> x]
    OBVIOUS
  <2>3. m.from = c /\ m.message = x /\ m \in Handed
    <3>1. written[c][n] \in Frames
      BY NextFrame DEF ReadBody
    <3> QED
      BY <2>2, <3>1 DEF Handed
  <2> HIDE DEF x
  <2>4. /\ DOMAIN received' = 1 .. len + 1 /\ received'[len + 1] = m
        /\ \A i \in 1 .. len : received'[i] = received[i]
    <3>1. received' = Append(received, m)
      BY <1>2, <1>7, <2>2
    <3> QED
      BY <1>t, <2>1, <2>3, <3>1, AppendProperties
  <2>5. /\ \A i \in 1 .. len + 1 : i \in 1 .. len \/ i = len + 1
        /\ \A i \in 1 .. len : i \in 1 .. len + 1 /\ i # len + 1 /\ ~(len + 1 < i)
        /\ len + 1 \in 1 .. len + 1 /\ ~(len + 1 < len + 1)
    BY <2>1
  <2> HIDE DEF n
  <2>6. PICK to : to = [i \in 1 .. len + 1 |-> IF i = len + 1 THEN n ELSE at[i]]
    OBVIOUS
  <2>7. /\ to \in [1 .. len + 1 -> Nat] /\ to[len + 1] = n
        /\ \A i \in 1 .. len : to[i] = at[i]
    BY <1>3, <2>1, <2>5, <2>6
  <2>8. FromItsFrame(to)'
    <3> SUFFICES ASSUME NEW i \in 1 .. len + 1
                 PROVE  /\ to[i] \in 1 .. taken'[received'[i].from]
                        /\ received'[i].message = Judged[written[received'[i].from][to[i]]]
                        /\ received'[i].message.verdict = "deliver"
      BY <1>1, <1>5, <2>4 DEF FromItsFrame
    <3>1. CASE i = len + 1
      <4>1. n \in 1 .. taken'[c]
        BY <1>t, <1>1, <1>3 DEF n
      <4> QED
        BY <1>7, <2>3, <2>4, <2>7, <3>1, <4>1 DEF x
    <3>2. CASE i \in 1 .. len
      BY <1>t, <1>0, <1>4, <2>1, <2>4, <2>7, <3>2 DEF FromItsFrame
    <3> QED
      BY <2>5, <3>1, <3>2
  <2>9. InOrder(to)'
    <3> SUFFICES ASSUME NEW i \in 1 .. len + 1, NEW k \in 1 .. len + 1, i < k,
                        received'[i].from = received'[k].from
                 PROVE  to[i] < to[k]
      BY <2>4 DEF InOrder
    <3>1. i \in 1 .. len
      BY <2>1
    <3>2. CASE k = len + 1
      <4>1. received[i].from = c /\ to[i] \in 1 .. taken[c]
        BY <1>0, <2>1, <2>3, <2>4, <2>7, <3>1, <3>2 DEF FromItsFrame
      <4> QED
        BY <1>3, <2>7, <3>2, <4>1 DEF n
    <3>3. CASE k \in 1 .. len
      BY <1>0, <2>1, <2>4, <2>7, <3>1, <3>3 DEF InOrder
    <3> QED
      BY <2>5, <3>2, <3>3
  <2>10. Complete(to)'
    <3> SUFFICES ASSUME NEW d \in Conn, NEW k \in 1 .. taken'[d],
                        Judged[written[d][k]].verdict = "deliver"
                 PROVE  \E i \in 1 .. len + 1 : received'[i].from = d /\ to[i] = k
      BY <1>1, <1>5, <2>4 DEF Complete
    <3>1. CASE d = c /\ k = n
      BY <2>3, <2>4, <2>5, <2>7, <3>1
    <3>2. CASE k \in 1 .. taken[d]
      <4>1. PICK i \in 1 .. len : received[i].from = d /\ at[i] = k
        BY <1>0, <2>1, <3>2 DEF Complete
      <4> QED
        BY <2>4, <2>5, <2>7, <4>1
    <3> QED
      BY <1>4, <3>1, <3>2
  <2> QED
    BY <2>4, <2>7, <2>8, <2>9, <2>10 DEF SourceInv
<1> QED
  BY <1>6, <1>7

LEMMA SourceInvNext ==
  ASSUME TypeInv, SourceInv, [Next]_vars
  PROVE  SourceInv'
<1>1. CASE UNCHANGED <<written, taken, received>>
  BY <1>1, SourceInvKept
<1>2. ASSUME NEW c \in Conn, ReadBody(c) PROVE SourceInv'
  BY <1>2, SourceInvReadBody
<1>3. ASSUME NEW c \in Conn, NEW s \in Frames, WriteFrame(c, s) PROVE SourceInv'
  <2>1. /\ written' = [written EXCEPT ![c] = Append(@, s)]
        /\ UNCHANGED <<taken, received>>
    BY <1>3 DEF WriteFrame
  <2>2. \A d \in Conn : \A k \in 1 .. taken[d] : written'[d][k] = written[d][k]
    <3> SUFFICES ASSUME NEW d \in Conn, NEW k \in 1 .. taken[d]
                 PROVE  written'[d][k] = written[d][k]
      OBVIOUS
    <3>1. written[d] \in Seq(Frames) /\ k \in 1 .. Len(written[d])
      BY DEF TypeInv, TypeOK
    <3>2. Append(written[d], s)[k] = written[d][k]
      BY <3>1, AppendProperties
    <3>3. written'[d] = IF d = c THEN Append(written[d], s) ELSE written[d]
      BY <2>1 DEF TypeInv, TypeOK
    <3> QED
      BY <3>2, <3>3
  <2> QED
    BY <2>1, <2>2, SourceInvKept
<1> QED
  BY <1>1, <1>2, <1>3
     DEF Next, Receive, vars, BindOk, BindFails, AcceptFails, Wake, Accept, ReadLength,
         EndOfStream, TornFrame, Connect, Close

-----------------------------------------------------------------------------
LEMMA ListenerInvInit ==
  ASSUME Init
  PROVE  ListenerInv
<1>1. TypeInv
  BY TypeInvInit
<1>2. BodyInv /\ OwnLettersNeverEndIt
  BY DEF Init, BodyInv, OwnLettersNeverEndIt
<1>3. SourceInv
  <2>1. DOMAIN <<>> = {} /\ <<>> \in [{} -> Nat] /\ \A k \in 1 .. 0 : FALSE
    OBVIOUS
  <2>2. FromItsFrame(<<>>) /\ InOrder(<<>>) /\ Complete(<<>>)
    BY <2>1 DEF Init, FromItsFrame, InOrder, Complete
  <2> QED
    BY <2>1, <2>2 DEF Init, SourceInv
<1> QED
  BY <1>1, <1>2, <1>3 DEF ListenerInv

(* The inductive invariant: types, what a waiting task may count on, why a *)
(* task may have failed and where messages come from.                      *)
THEOREM ListenerInvariant == Spec => []ListenerInv
<1>1. Init => ListenerInv
  BY ListenerInvInit
<1>2. ListenerInv /\ [Next]_vars => ListenerInv'
  BY TypeInvNext, BodyInvNext, OwnLettersNext, SourceInvNext DEF ListenerInv
<1> QED
  BY <1>1, <1>2, PTL DEF Spec

(* The listener's state has its type; in particular no task of a           *)
(* connection reads past what the peer wrote.                              *)
THEOREM ListenerTypeOK == Spec => []TypeOK
<1>1. ListenerInv => TypeOK
  BY DEF ListenerInv, TypeInv
<1> QED
  BY <1>1, ListenerInvariant, PTL

(* receive fails or panics only over a stream that was cut or a frame that *)
(* no sender of the library wrote: for every text, header, key and choice  *)
(* of compression, what ShardusNetSender writes is read, decoded, and      *)
(* delivered or skipped.                                                   *)
THEOREM ListenerOwnLettersNeverEndIt == Spec => []OwnLettersNeverEndIt
<1>1. ListenerInv => OwnLettersNeverEndIt
  BY DEF ListenerInv
<1> QED
  BY <1>1, ListenerInvariant, PTL

(* What ReceivedAsSent says of letters, whatever foreign frames are taken  *)
(* for: the messages of a connection stand, in order and one to one, for   *)
(* frames read from it; a letter of this library among those frames has    *)
(* its message exactly if it passes (signed over this process's hash key,  *)
(* with a header of allowed size), and the message then shows the text,    *)
(* the header and the key that its sender was given.                       *)
ReceivedInOrder ==
  \E at \in [DOMAIN received -> Nat] :
    /\ \A i \in DOMAIN received : at[i] \in 1 .. taken[received[i].from]
    /\ \A i, j \in DOMAIN received :
         i < j /\ received[i].from = received[j].from => at[i] < at[j]
    /\ \A c \in Conn : \A k \in 1 .. taken[c] : \A l \in Letter :
         Encode(l) = written[c][k] =>
           /\ Passes(l) <=> \E i \in DOMAIN received : received[i].from = c /\ at[i] = k
           /\ \A i \in DOMAIN received : received[i].from = c /\ at[i] = k =>
                Shows(received[i].message, l)

(* receive hands up every letter that passes, once, in order, with the     *)
(* text, key and (if it is verbatim) header of its sender, and none that   *)
(* does not, whatever foreign frames come between: for every set of        *)
(* letters, frames and connections.                                        *)
THEOREM ListenerReceivedInOrder == Spec => []ReceivedInOrder
<1>1. ASSUME ListenerInv PROVE ReceivedInOrder
  <2>1. PICK at \in [DOMAIN received -> Nat] :
          FromItsFrame(at) /\ InOrder(at) /\ Complete(at)
    BY <1>1 DEF ListenerInv, SourceInv
  <2>2. /\ \A i \in DOMAIN received : at[i] \in 1 .. taken[received[i].from]
        /\ \A i, j \in DOMAIN received :
             i < j /\ received[i].from = received[j].from => at[i] < at[j]
    BY <2>1 DEF FromItsFrame, InOrder
  <2>3. ASSUME NEW c \in Conn, NEW k \in 1 .. taken[c], NEW l \in Letter,
               Encode(l) = written[c][k]
        PROVE  /\ Passes(l) <=> \E i \in DOMAIN received : received[i].from = c /\ at[i] = k
               /\ \A i \in DOMAIN received : received[i].from = c /\ at[i] = k =>
                    Shows(received[i].message, l)
    <3> DEFINE x == Judge(Encode(l), hash_key)
    <3>1. Judged[written[c][k]] = x
      BY <2>3 DEF Judged, Frames
    <3>2. (x.verdict = "deliver" <=> Passes(l)) /\ (Passes(l) => Shows(x, l))
      BY OwnLettersRoundTrip
    <3> HIDE DEF x
    <3>3. \A i \in DOMAIN received : received[i].from = c /\ at[i] = k =>
            received[i].message = x /\ x.verdict = "deliver"
      BY <2>1, <3>1 DEF FromItsFrame
    <3>4. x.verdict = "deliver" =>
            \E i \in DOMAIN received : received[i].from = c /\ at[i] = k
      BY <2>1, <3>1 DEF Complete
    <3> QED
      BY <3>2, <3>3, <3>4
  <2> QED
    BY <2>2, <2>3 DEF ReceivedInOrder
<1> QED
  BY <1>1, ListenerInvariant, PTL

(* Foreign frames that receive does not take for messages.                 *)
ForeignRefused == \A s \in Foreign : Judged[s].verdict # "deliver"

(* Where foreign frames are refused, what is handed up for a connection is *)
(* exactly its letters that pass, each as Shows says: the frames in        *)
(* between, damaged, of another version or under another key, neither show *)
(* up nor shift what is read after them.                                   *)
THEOREM ListenerReceivedAsSent ==
  ASSUME ForeignRefused
  PROVE  Spec => []ReceivedAsSent
<1>1. ASSUME ListenerInv PROVE ReceivedAsSent
  <2>1. PICK at \in [DOMAIN received -> Nat] :
          FromItsFrame(at) /\ InOrder(at) /\ Complete(at)
    BY <1>1 DEF ListenerInv, SourceInv
  <2>2. /\ written \in [Conn -> Seq(Frames)]
        /\ taken \in [Conn -> Nat]
        /\ \A c \in Conn : taken[c] \in 0 .. Len(written[c])
        /\ \A i \in DOMAIN received : received[i].from \in Conn
    BY <1>1 DEF ListenerInv, TypeInv, TypeOK
  <2>3. \A c \in Conn : \A k \in 1 .. taken[c] : written[c][k] \in Frames
    <3> SUFFICES ASSUME NEW c \in Conn, NEW k \in 1 .. taken[c]
                 PROVE  written[c][k] \in Frames
      OBVIOUS
    <3>1. written[c] \in Seq(Frames) /\ taken[c] \in 0 .. Len(written[c]) /\ taken[c] \in Nat
      BY <2>2
    <3>2. k \in 1 .. Len(written[c])
      BY <3>1
    <3> QED
      BY <3>1, <3>2, ElementOfSeq
  <2>4. \A l \in Letter :
          /\ Judged[Encode(l)] = Judge(Encode(l), hash_key)
          /\ Judged[Encode(l)].verdict = "deliver" <=> Passes(l)
          /\ Passes(l) => Shows(Judged[Encode(l)], l)
    BY OwnLettersRoundTrip DEF Judged, Frames
  <2>5. \A s \in Frames : Judged[s].verdict = "deliver" <=> s \in DOMAIN Passing
    <3> SUFFICES ASSUME NEW s \in Frames
                 PROVE  Judged[s].verdict = "deliver" <=> s \in DOMAIN Passing
      OBVIOUS
    <3>1. DOMAIN Passing = {Encode(l) : l \in {k \in Letter : Passes(k)}}
      BY DEF Passing
    <3>2. s \in Foreign => s \notin DOMAIN Passing
      BY <3>1, ListenerAssumption
    <3>3. CASE s \in Foreign
      BY <3>2, <3>3 DEF ForeignRefused
    <3>4. CASE \E l \in Letter : s = Encode(l)
      BY <2>4, <3>1, <3>4
    <3> QED
      BY <3>3, <3>4 DEF Frames
  <2>6. \A i \in DOMAIN received :
          \E l \in Passing[written[received[i].from][at[i]]] : Shows(received[i].message, l)
    <3> SUFFICES ASSUME NEW i \in DOMAIN received
                 PROVE  \E l \in Passing[written[received[i].from][at[i]]] :
                          Shows(received[i].message, l)
      OBVIOUS
    <3> DEFINE s == written[received[i].from][at[i]]
    <3>1. received[i].message = Judged[s] /\ Judged[s].verdict = "deliver" /\ s \in Frames
      BY <2>1, <2>2, <2>3 DEF FromItsFrame
    <3> HIDE DEF s
    <3>2. s \in DOMAIN Passing
      BY <2>5, <3>1
    <3>3. PICK l \in Letter : Passes(l) /\ s = Encode(l)
      BY <3>2 DEF Passing
    <3>4. l \in Passing[s]
      BY <3>3 DEF Passing
    <3>5. Shows(received[i].message, l)
      BY <2>4, <3>1, <3>3
    <3> QED
      BY <3>4, <3>5 DEF s
  <2>7. \A c \in Conn : \A k \in 1 .. taken[c] :
          written[c][k] \in DOMAIN Passing <=>
            \E i \in DOMAIN received : received[i].from = c /\ at[i] = k
    BY <2>1, <2>3, <2>5 DEF FromItsFrame, Complete
  <2>8. \A i \in DOMAIN received : at[i] \in 1 .. taken[received[i].from]
    BY <2>1 DEF FromItsFrame
  <2>9. at \in [DOMAIN received -> UNION {1 .. taken[c] : c \in Conn}]
    BY <2>2, <2>8
  <2>10. \A i \in DOMAIN received : at[i] <= taken[received[i].from]
    BY <2>2, <2>8
  <2> QED
    BY <2>1, <2>6, <2>7, <2>9, <2>10 DEF ReceivedAsSent, InOrder
<1> QED
  BY <1>1, ListenerInvariant, PTL

(* A task that ended without an error had read all there was, or lost its  *)
(* peer: a close never overtakes what was written before it.               *)
ReadToTheEnd ==
  \A c \in Conn : conn[c] = "completed" =>
    (~Unread(c) /\ ending[c] # "open") \/ ending[c] = "reset"

(* receive returns Ok only when its connection has been read to the end or *)
(* was reset; and a peer that has closed writes no more.                   *)
THEOREM ListenerReadsToTheEnd == Spec => []ReadToTheEnd
<1>1. Init => ReadToTheEnd
  BY DEF Init, ReadToTheEnd
<1>2. ASSUME ListenerInv, ReadToTheEnd, [Next]_vars PROVE ReadToTheEnd'
  <2> SUFFICES ASSUME NEW c \in Conn, conn'[c] = "completed"
               PROVE  (~Unread(c) /\ ending[c] # "open")' \/ ending'[c] = "reset"
    BY DEF ReadToTheEnd
  <2>1. /\ conn \in [Conn -> {"none", "backlog", "reset", "length", "body",
                              "completed", "failed", "panicked"}]
        /\ ending \in [Conn -> {"open", "closed", "torn", "reset"}]
        /\ written \in [Conn -> Seq(Frames)]
        /\ taken \in [Conn -> Nat]
    BY <1>2 DEF ListenerInv, TypeInv, TypeOK
  <2>2. conn[c] = "completed" => (~Unread(c) /\ ending[c] # "open") \/ ending[c] = "reset"
    BY <1>2 DEF ReadToTheEnd
  <2>3. CASE UNCHANGED <<conn, written, ending, taken>>
    BY <2>2, <2>3 DEF Unread
  <2>4. CASE AcceptFails
    BY <2>1, <2>2, <2>4 DEF AcceptFails, Unread
  <2>5. ASSUME NEW d \in Conn, Accept(d) \/ Connect(d) \/ ReadLength(d) \/ TornFrame(d)
        PROVE  (~Unread(c) /\ ending[c] # "open")' \/ ending'[c] = "reset"
    BY <2>1, <2>2, <2>5 DEF Accept, Connect, ReadLength, TornFrame, Unread
  <2>6. ASSUME NEW d \in Conn, EndOfStream(d)
        PROVE  (~Unread(c) /\ ending[c] # "open")' \/ ending'[c] = "reset"
    BY <2>1, <2>2, <2>6 DEF EndOfStream, Unread
  <2>7. ASSUME NEW d \in Conn, ReadBody(d)
        PROVE  (~Unread(c) /\ ending[c] # "open")' \/ ending'[c] = "reset"
    <3>1. c # d
      BY <2>1, <2>7 DEF ReadBody
    <3>2. conn'[c] = conn[c] /\ taken'[c] = taken[c]
      BY <2>1, <2>7, <3>1 DEF ReadBody
    <3> QED
      BY <2>2, <2>7, <3>2 DEF ReadBody, Unread
  <2>8. ASSUME NEW d \in Conn, NEW s \in Frames, WriteFrame(d, s)
        PROVE  (~Unread(c) /\ ending[c] # "open")' \/ ending'[c] = "reset"
    <3>1. conn' = conn /\ ending' = ending /\ taken' = taken
      BY <2>8 DEF WriteFrame
    <3>2. CASE c = d
      BY <2>2, <2>8, <3>1, <3>2 DEF WriteFrame
    <3>3. CASE c # d
      BY <2>1, <2>2, <2>8, <3>1, <3>3 DEF WriteFrame, Unread
    <3> QED
      BY <3>2, <3>3
  <2>9. ASSUME NEW d \in Conn, NEW how \in {"closed", "torn", "reset"}, Close(d, how)
        PROVE  (~Unread(c) /\ ending[c] # "open")' \/ ending'[c] = "reset"
    BY <2>1, <2>2, <2>9 DEF Close, Unread
  <2> QED
    BY <1>2, <2>3, <2>4, <2>5, <2>6, <2>7, <2>8, <2>9
    DEF Next, Receive, BindOk, BindFails, Wake, vars
<1> QED
  BY <1>1, <1>2, ListenerInvariant, PTL DEF Spec
=============================================================================
