-------------------------- MODULE RingBufferProofs --------------------------
(***************************************************************************)
(* For every capacity, every set of values and every number of puts: the   *)
(* ring buffer holds exactly the last values put, and the long-term        *)
(* extremes bound every value ever put.                                    *)
(***************************************************************************)
EXTENDS RingBuffer, SequenceTheorems, WellFoundedInduction, TLAPS

(* The inductive invariant: while the Vec grows the index is its length,   *)
(* and the buffer holds the window of the history.                         *)
Inv ==
  /\ RingTypeOK
  /\ HoldsLastValues
  /\ Len(buffer) < size => index = Len(buffer)
  /\ hist # <<>> => index > 0

(* Put stores the new value in the slot after the last one and moves every *)
(* older value one place back in the window.                               *)
LEMMA PutKeepsWindow ==
  ASSUME Inv, NEW v \in Value, Put(v)
  PROVE  Inv'
<1> USE RingBufferAssumption
<1>1. CASE Len(buffer) < size
  <2>1. Wrap(index) = Len(buffer)
    BY <1>1 DEF Inv, RingTypeOK, Wrap
  <2>2. /\ buffer' = Append(buffer, v)
        /\ index' = Len(buffer) + 1
        /\ hist' = Append(hist, v)
    BY <2>1 DEF Put, Store
  <2>3. RingTypeOK'
    BY <1>1, <2>2 DEF Inv, RingTypeOK, Put, Larger, Smaller
  <2>4. Len(buffer) = Len(hist)
    BY <1>1 DEF Inv, HoldsLastValues, RingTypeOK
  <2>5. ASSUME NEW k \in 0 .. Len(buffer') - 1
        PROVE  buffer'[Slot(k)'] = hist'[Len(hist') - k]
    <3>1. Slot(k)' = Len(buffer) + 1 - k
      BY <2>2 DEF Slot, Inv, RingTypeOK
    <3>2. CASE k = 0
      BY <2>2, <2>4, <3>1, <3>2 DEF Inv, RingTypeOK
    <3>3. CASE k > 0
      <4>1. k - 1 \in 0 .. Len(buffer) - 1
        BY <2>2, <3>3 DEF Inv, RingTypeOK
      <4>2. Slot(k - 1) = Len(buffer) + 1 - k
        BY <1>1, <4>1 DEF Inv, RingTypeOK, Slot
      <4>3. buffer[Slot(k - 1)] = hist[Len(hist) - (k - 1)]
        BY <4>1 DEF Inv, HoldsLastValues
      <4> QED
        BY <2>2, <2>4, <3>1, <4>1, <4>2, <4>3 DEF Inv, RingTypeOK
    <3> QED
      BY <3>2, <3>3
  <2>6. HoldsLastValues'
    <3>1. Len(buffer') = IF Len(hist') < size THEN Len(hist') ELSE size
      BY <1>1, <2>2, <2>4 DEF Inv, RingTypeOK
    <3> QED
      BY <2>5, <3>1 DEF HoldsLastValues
  <2> QED
    BY <1>1, <2>2, <2>3, <2>6 DEF Inv, RingTypeOK
<1>2. CASE Len(buffer) = size
  <2>1. /\ Wrap(index) \in 0 .. size - 1
        /\ Wrap(index) = index \/ (Wrap(index) = 0 /\ index = size)
    BY <1>2 DEF Inv, RingTypeOK, Wrap
  <2>2. /\ buffer' = [buffer EXCEPT ![Wrap(index) + 1] = v]
        /\ index' = Wrap(index) + 1
        /\ hist' = Append(hist, v)
    BY <1>2, <2>1 DEF Put, Store
  <2>3. /\ Len(buffer') = size
        /\ buffer' \in Seq(Value)
    BY <1>2, <2>1, <2>2 DEF Inv, RingTypeOK
  <2>4. RingTypeOK'
    BY <1>2, <2>1, <2>2, <2>3 DEF Inv, RingTypeOK, Put, Larger, Smaller
  <2>5. Len(hist) >= size
    BY <1>2 DEF Inv, HoldsLastValues, RingTypeOK
  <2>6. ASSUME NEW k \in 0 .. Len(buffer') - 1
        PROVE  buffer'[Slot(k)'] = hist'[Len(hist') - k]
    <3>1. CASE k = 0
      BY <1>2, <2>1, <2>2, <2>3, <3>1 DEF Inv, RingTypeOK, Slot
    <3>2. CASE k > 0
      <4>1. k - 1 \in 0 .. Len(buffer) - 1
        BY <1>2, <2>3, <3>2
      <4>2. Slot(k - 1) = Slot(k)'
        <5>1. k \in 1 .. size - 1 /\ index \in 0 .. size
          BY <1>2, <2>3, <3>2 DEF Inv, RingTypeOK
        <5>2. Slot(k)' = IF k < index' THEN index' - k ELSE index' - k + size
          BY DEF Slot
        <5>3. Slot(k - 1) = IF k - 1 < index THEN index - (k - 1)
                                             ELSE index - (k - 1) + size
          BY DEF Slot
        <5>4. CASE index' = index + 1
          BY <5>1, <5>2, <5>3, <5>4
        <5>5. CASE index' = 1 /\ index = size
          BY <5>1, <5>2, <5>3, <5>5
        <5> QED
          BY <2>1, <2>2, <5>4, <5>5
      <4>3. /\ Slot(k - 1) \in 1 .. size
            /\ Slot(k - 1) # Wrap(index) + 1
        BY <1>2, <2>1, <2>3, <2>5, <3>2 DEF Inv, RingTypeOK, Slot
      <4>4. buffer'[Slot(k - 1)] = buffer[Slot(k - 1)]
        BY <1>2, <2>2, <4>3 DEF Inv, RingTypeOK
      <4>5. buffer[Slot(k - 1)] = hist[Len(hist) - (k - 1)]
        BY <4>1 DEF Inv, HoldsLastValues
      <4>6. hist'[Len(hist') - k] = hist[Len(hist) - (k - 1)]
        BY <1>2, <2>2, <2>3, <2>5, <3>2 DEF Inv, RingTypeOK
      <4> QED
        BY <4>2, <4>4, <4>5, <4>6
    <3> QED
      BY <3>1, <3>2
  <2>7. HoldsLastValues'
    <3>1. Len(buffer') = IF Len(hist') < size THEN Len(hist') ELSE size
      BY <2>2, <2>3, <2>5 DEF Inv, RingTypeOK
    <3> QED
      BY <2>6, <3>1 DEF HoldsLastValues
  <2> QED
    BY <2>1, <2>2, <2>3, <2>4, <2>7 DEF Inv, RingTypeOK
<1> QED
  BY <1>1, <1>2 DEF Inv, RingTypeOK

(* The invariant holds in every state of the buffer.                       *)
LEMMA InvInductive == RingSpec => []Inv
<1>1. RingInit => Inv
  BY RingBufferAssumption DEF RingInit, Inv, RingTypeOK, HoldsLastValues
<1>2. Inv /\ [RingNext]_ringVars => Inv'
  <2>1. ASSUME Inv, NEW v \in Value, Put(v)
        PROVE  Inv'
    BY <2>1, PutKeepsWindow
  <2>2. ASSUME Inv, UNCHANGED ringVars
        PROVE  Inv'
    BY <2>2 DEF Inv, RingTypeOK, HoldsLastValues, Slot, ringVars
  <2> QED
    BY <2>1, <2>2 DEF RingNext
<1> QED
  BY <1>1, <1>2, PTL DEF RingSpec

(* The buffer holds exactly the last size values that were put, through    *)
(* any number of wraps of the index (RingBuffer::put).                     *)
THEOREM RingHoldsLastValues == RingSpec => []HoldsLastValues
<1>1. Inv => HoldsLastValues
  BY DEF Inv
<1> QED
  BY <1>1, InvInductive, PTL

(* long_term_max and long_term_min are the extremes of all values ever put *)
(* (RingBuffer::put).                                                      *)
THEOREM RingExtremesOfAll == RingSpec => []ExtremesOfAll
<1> USE RingBufferAssumption
<1> DEFINE E == /\ RingTypeOK
                /\ ExtremesOfAll
                /\ hist = <<>> <=> long_term_max = Nothing
                /\ hist = <<>> <=> long_term_min = Nothing
<1>1. RingInit => E
  BY DEF RingInit, RingTypeOK, ExtremesOfAll
<1>2. RingTypeOK /\ RingTypeOK' /\ E /\ [RingNext]_ringVars => E'
  <2>1. ASSUME RingTypeOK, RingTypeOK', E, NEW v \in Value, Put(v)
        PROVE  E'
    <3>1. /\ hist' = Append(hist, v)
          /\ hist' # <<>>
          /\ long_term_max' = Larger(long_term_max, v)
          /\ long_term_min' = Smaller(long_term_min, v)
      BY <2>1 DEF Put, RingTypeOK
    <3>2. CASE hist = <<>>
      <4>1. long_term_max' = v /\ long_term_min' = v /\ hist' = <<v>>
        BY <2>1, <3>1, <3>2 DEF Larger, Smaller
      <4>2. ExtremesOfAll'
        <5>1. DOMAIN hist' = {1} /\ hist'[1] = v
          BY <4>1
        <5>2. Values(hist)' = {v}
          BY <5>1 DEF Values
        <5> QED
          BY <4>1, <5>1, <5>2 DEF ExtremesOfAll
      <4> QED
        BY <2>1, <3>1, <4>1, <4>2
    <3>3. CASE hist # <<>>
      <4>1. long_term_max \in Value /\ long_term_min \in Value
        BY <2>1, <3>3 DEF RingTypeOK
      <4>2. /\ \A i \in DOMAIN hist' : hist'[i] = v \/ \E j \in DOMAIN hist : hist'[i] = hist[j]
            /\ \A j \in DOMAIN hist : j \in DOMAIN hist' /\ hist'[j] = hist[j]
            /\ Len(hist') \in DOMAIN hist' /\ hist'[Len(hist')] = v
        BY <2>1, <3>1 DEF RingTypeOK
      <4>3. /\ \A j \in DOMAIN hist : hist[j] \in Value
            /\ \A j \in DOMAIN hist : long_term_min <= hist[j] /\ hist[j] <= long_term_max
            /\ \E j \in DOMAIN hist : long_term_min = hist[j]
            /\ \E j \in DOMAIN hist : long_term_max = hist[j]
        BY <2>1, <3>3 DEF ExtremesOfAll, Values, RingTypeOK
      <4>4. /\ long_term_max' \in {long_term_max, v}
            /\ long_term_max <= long_term_max' /\ v <= long_term_max'
            /\ long_term_min' \in {long_term_min, v}
            /\ long_term_min' <= long_term_min /\ long_term_min' <= v
        BY <2>1, <3>1, <4>1 DEF Larger, Smaller
      <4>5. \A i \in DOMAIN hist' : long_term_min' <= hist'[i] /\ hist'[i] <= long_term_max'
        <5> SUFFICES ASSUME NEW i \in DOMAIN hist'
                     PROVE  long_term_min' <= hist'[i] /\ hist'[i] <= long_term_max'
          OBVIOUS
        <5>1. CASE hist'[i] = v
          BY <4>4, <5>1
        <5>2. ASSUME NEW j \in DOMAIN hist, hist'[i] = hist[j]
              PROVE  long_term_min' <= hist'[i] /\ hist'[i] <= long_term_max'
          <6>1. /\ hist[j] \in Nat
                /\ long_term_min \in Nat /\ long_term_max \in Nat
                /\ long_term_min' \in Nat /\ long_term_max' \in Nat
            BY <4>1, <4>3, <4>4
          <6> QED
            BY <4>3, <4>4, <5>2, <6>1
        <5> QED
          BY <4>2, <5>1, <5>2
      <4>6. /\ \E i \in DOMAIN hist' : long_term_min' = hist'[i]
            /\ \E i \in DOMAIN hist' : long_term_max' = hist'[i]
        BY <4>2, <4>3, <4>4
      <4>7. ExtremesOfAll'
        BY <4>5, <4>6 DEF ExtremesOfAll, Values
      <4> QED
        BY <2>1, <3>1, <4>1, <4>4, <4>7
    <3> QED
      BY <3>2, <3>3
  <2>2. ASSUME E, UNCHANGED ringVars
        PROVE  E'
    BY <2>2 DEF RingTypeOK, ExtremesOfAll, Values, ringVars
  <2> QED
    BY <2>1, <2>2 DEF RingNext
<1>3. RingSpec => []RingTypeOK
  <2>1. Inv => RingTypeOK
    BY DEF Inv
  <2> QED
    BY <2>1, InvInductive, PTL
<1>4. E => ExtremesOfAll
  OBVIOUS
<1> QED
  BY <1>1, <1>2, <1>3, <1>4, PTL DEF RingSpec

-----------------------------------------------------------------------------
(* What get_stats makes of the buffer.                                     *)

(* Induction, for a set of numbers: the least number outside it would be   *)
(* the successor of one inside.                                            *)
LEMMA AllNumbers ==
  ASSUME NEW S, 0 \in S, \A n \in Nat : n \in S => n + 1 \in S
  PROVE  Nat \subseteq S
<1> SUFFICES ASSUME Nat \ S # {} PROVE FALSE
  OBVIOUS
<1>1. PICK n \in Nat \ S : \A m \in Nat \ S : <<m, n>> \notin OpToRel(<, Nat)
  BY NatLessThanWellFounded, WFMin
<1>2. \A m \in Nat : m < n => m \in S
  BY <1>1 DEF OpToRel
<1>3. n \in Nat /\ n # 0 /\ n \notin S
  OBVIOUS
<1>4. n - 1 \in Nat /\ n - 1 < n /\ (n - 1) + 1 = n
  BY <1>3
<1> QED
  BY <1>2, <1>3, <1>4

(* The sums of the first values of s.                                      *)
IsSum(t, s, n) ==
  /\ t \in [0 .. n -> Nat]
  /\ t[0] = 0
  /\ \A i \in 1 .. n : t[i] = t[i - 1] + s[i]

LEMMA SumExists ==
  ASSUME NEW s \in Seq(Nat)
  PROVE  \E t : IsSum(t, s, Len(s))
<1> DEFINE S == {n \in Nat : n <= Len(s) => \E t : IsSum(t, s, n)}
<1>1. 0 \in S
  <2>1. IsSum([i \in 0 .. 0 |-> 0], s, 0)
    BY DEF IsSum
  <2> QED
    BY <2>1
<1>2. ASSUME NEW n \in Nat, n \in S PROVE n + 1 \in S
  <2> SUFFICES ASSUME n + 1 <= Len(s) PROVE \E t : IsSum(t, s, n + 1)
    OBVIOUS
  <2>1. Len(s) \in Nat /\ n <= Len(s) /\ n + 1 \in 1 .. Len(s)
    OBVIOUS
  <2>2. PICK t : IsSum(t, s, n)
    BY <1>2, <2>1
  <2>3. s[n + 1] \in Nat /\ t[n] \in Nat
    BY <2>1, <2>2 DEF IsSum
  <2>4. PICK x \in Nat : x = t[n] + s[n + 1]
    BY <2>3
  <2>5. PICK u : u = [i \in 0 .. n + 1 |-> IF i <= n THEN t[i] ELSE x]
    OBVIOUS
  <2>6. u \in [0 .. n + 1 -> Nat] /\ u[0] = 0
    BY <2>2, <2>4, <2>5 DEF IsSum
  <2>7. ASSUME NEW i \in 1 .. n + 1 PROVE u[i] = u[i - 1] + s[i]
    <3>1. CASE i <= n
      <4>1. i \in 1 .. n /\ i - 1 \in 0 .. n
        BY <3>1
      <4> QED
        BY <2>2, <2>5, <4>1 DEF IsSum
    <3>2. CASE i = n + 1
      BY <2>4, <2>5, <3>2
    <3> QED
      BY <3>1, <3>2
  <2>8. IsSum(u, s, n + 1)
    BY <2>6, <2>7 DEF IsSum
  <2> QED
    BY <2>8
<1>3. Nat \subseteq S
  <2> HIDE DEF S
  <2> QED
    BY <1>1, <1>2, AllNumbers
<1> QED
  BY <1>3

LEMMA TotalIsSum ==
  ASSUME NEW s \in Seq(Nat)
  PROVE  \E t : IsSum(t, s, Len(s)) /\ Total(s) = t[Len(s)]
<1> DEFINE Def(g) == [i \in 0 .. Len(s) |-> IF i = 0 THEN 0 ELSE g[i - 1] + s[i]]
           sum == CHOOSE g : g = Def(g)
<1>1. Len(s) \in Nat /\ \A i \in 1 .. Len(s) : s[i] \in Nat
  OBVIOUS
<1>2. PICK t : IsSum(t, s, Len(s))
  BY SumExists
<1>3. t = Def(t)
  BY <1>1, <1>2 DEF IsSum
<1>4. sum = Def(sum)
  BY <1>3
<1>5. Total(s) = sum[Len(s)]
  BY DEF Total
<1> HIDE DEF sum
<1>6. /\ DOMAIN sum = 0 .. Len(s) /\ sum[0] = 0
      /\ \A i \in 1 .. Len(s) : sum[i] = sum[i - 1] + s[i]
  BY <1>1, <1>4
<1> DEFINE S == {n \in Nat : n <= Len(s) => sum[n] \in Nat}
<1>7. 0 \in S
  BY <1>6
<1>8. ASSUME NEW n \in Nat, n \in S PROVE n + 1 \in S
  <2> SUFFICES ASSUME n + 1 <= Len(s) PROVE sum[n + 1] \in Nat
    OBVIOUS
  <2>1. n + 1 \in 1 .. Len(s) /\ n <= Len(s) /\ (n + 1) - 1 = n
    BY <1>1
  <2>2. sum[n] \in Nat /\ sum[n + 1] = sum[n] + s[n + 1]
    BY <1>6, <1>8, <2>1
  <2> QED
    BY <1>1, <2>1, <2>2
<1>9. Nat \subseteq S
  <2> HIDE DEF S
  <2> QED
    BY <1>7, <1>8, AllNumbers
<1>10. \A i \in 0 .. Len(s) : sum[i] \in Nat
  BY <1>1, <1>9
<1>11. sum \in [0 .. Len(s) -> Nat]
  BY <1>4, <1>6, <1>10
<1>12. IsSum(sum, s, Len(s))
  BY <1>6, <1>11 DEF IsSum
<1> QED
  BY <1>5, <1>12

(* w has the values of s from p on and around.                             *)
Turned(w, s, p, q) ==
  /\ Len(s) = p + q /\ Len(w) = p + q
  /\ \A j \in 1 .. q : w[j] = s[p + j]
  /\ \A j \in 1 .. p : w[q + j] = s[j]

(* The same values from any place on and around have the same sum.         *)
LEMMA RotatedTotal ==
  ASSUME NEW s \in Seq(Nat), NEW w \in Seq(Nat), NEW p \in Nat, NEW q \in Nat,
         Turned(w, s, p, q)
  PROVE  Total(w) = Total(s)
<1>1. PICK t : IsSum(t, s, p + q) /\ Total(s) = t[p + q]
  BY TotalIsSum DEF Turned
<1>2. PICK u : IsSum(u, w, p + q) /\ Total(w) = u[p + q]
  BY TotalIsSum DEF Turned
<1>3. /\ \A i \in 0 .. p + q : t[i] \in Nat /\ u[i] \in Nat
      /\ t[0] = 0 /\ u[0] = 0
      /\ \A i \in 1 .. p + q : t[i] = t[i - 1] + s[i] /\ u[i] = u[i - 1] + w[i]
  BY <1>1, <1>2 DEF IsSum
<1>4. \A i \in 1 .. p + q : s[i] \in Nat /\ w[i] \in Nat
  BY DEF Turned
<1> DEFINE A == {j \in Nat : j <= q => u[j] + t[p] = t[p + j]}
           B == {j \in Nat : j <= p => u[q + j] = u[q] + t[j]}
<1>5. Nat \subseteq A
  <2>1. 0 \in A
    BY <1>3
  <2>2. ASSUME NEW j \in Nat, j \in A PROVE j + 1 \in A
    <3> SUFFICES ASSUME j + 1 <= q PROVE u[j + 1] + t[p] = t[p + (j + 1)]
      OBVIOUS
    <3>1. /\ j <= q /\ j + 1 \in 1 .. q /\ j + 1 \in 1 .. p + q /\ (j + 1) - 1 = j
          /\ p + (j + 1) \in 1 .. p + q /\ (p + (j + 1)) - 1 = p + j
          /\ p \in 0 .. p + q /\ j \in 0 .. p + q /\ p + j \in 0 .. p + q
      OBVIOUS
    <3>2. u[j] + t[p] = t[p + j] /\ w[j + 1] = s[p + (j + 1)]
      BY <2>2, <3>1 DEF Turned
    <3>3. u[j + 1] = u[j] + w[j + 1] /\ t[p + (j + 1)] = t[p + j] + s[p + (j + 1)]
      BY <1>3, <3>1
    <3>4. u[j] \in Nat /\ t[p] \in Nat /\ w[j + 1] \in Nat
      BY <1>3, <1>4, <3>1
    <3> QED
      BY <3>2, <3>3, <3>4
  <2> HIDE DEF A
  <2> QED
    BY <2>1, <2>2, AllNumbers
<1>6. Nat \subseteq B
  <2>1. 0 \in B
    BY <1>3
  <2>2. ASSUME NEW j \in Nat, j \in B PROVE j + 1 \in B
    <3> SUFFICES ASSUME j + 1 <= p PROVE u[q + (j + 1)] = u[q] + t[j + 1]
      OBVIOUS
    <3>1. /\ j <= p /\ j + 1 \in 1 .. p /\ j + 1 \in 1 .. p + q /\ (j + 1) - 1 = j
          /\ q + (j + 1) \in 1 .. p + q /\ (q + (j + 1)) - 1 = q + j
          /\ q \in 0 .. p + q /\ j \in 0 .. p + q /\ q + j \in 0 .. p + q
      OBVIOUS
    <3>2. u[q + j] = u[q] + t[j] /\ w[q + (j + 1)] = s[j + 1]
      BY <2>2, <3>1 DEF Turned
    <3>3. u[q + (j + 1)] = u[q + j] + w[q + (j + 1)] /\ t[j + 1] = t[j] + s[j + 1]
      BY <1>3, <3>1
    <3>4. u[q] \in Nat /\ t[j] \in Nat /\ s[j + 1] \in Nat
      BY <1>3, <1>4, <3>1
    <3> QED
      BY <3>2, <3>3, <3>4
  <2> HIDE DEF B
  <2> QED
    BY <2>1, <2>2, AllNumbers
<1>7. u[q] + t[p] = t[p + q] /\ u[q + p] = u[q] + t[p]
  BY <1>5, <1>6
<1> QED
  BY <1>1, <1>2, <1>7

(* A sum lies between the extremes, as many times as there are values.     *)
LEMMA TotalBounded ==
  ASSUME NEW s \in Seq(Nat), NEW a \in Nat, NEW b \in Nat,
         \A i \in 1 .. Len(s) : a <= s[i] /\ s[i] <= b
  PROVE  Total(s) \in Nat /\ a * Len(s) <= Total(s) /\ Total(s) <= b * Len(s)
<1>9. Len(s) \in Nat /\ \A i \in 1 .. Len(s) : s[i] \in Nat
  OBVIOUS
<1>1. PICK t : IsSum(t, s, Len(s)) /\ Total(s) = t[Len(s)]
  BY TotalIsSum
<1>2. /\ Len(s) \in Nat /\ \A i \in 1 .. Len(s) : s[i] \in Nat
      /\ t[0] = 0 /\ \A i \in 0 .. Len(s) : t[i] \in Nat
      /\ \A i \in 1 .. Len(s) : t[i] = t[i - 1] + s[i]
  <2>1. t \in [0 .. Len(s) -> Nat] /\ t[0] = 0
    BY <1>1 DEF IsSum
  <2>2. \A i \in 1 .. Len(s) : t[i] = t[i - 1] + s[i]
    BY <1>1 DEF IsSum
  <2> QED
    BY <1>9, <2>1, <2>2
<1> DEFINE S == {n \in Nat : n <= Len(s) => a * n <= t[n] /\ t[n] <= b * n}
<1>3. 0 \in S
  BY <1>2
<1>4. ASSUME NEW n \in Nat, n \in S PROVE n + 1 \in S
  <2> SUFFICES ASSUME n + 1 <= Len(s)
               PROVE  a * (n + 1) <= t[n + 1] /\ t[n + 1] <= b * (n + 1)
    OBVIOUS
  <2>1. n + 1 \in 1 .. Len(s) /\ n \in 0 .. Len(s) /\ (n + 1) - 1 = n /\ n <= Len(s)
    BY <1>2
  <2>2. /\ a * n <= t[n] /\ t[n] <= b * n
        /\ t[n + 1] = t[n] + s[n + 1] /\ t[n] \in Nat /\ s[n + 1] \in Nat
        /\ a <= s[n + 1] /\ s[n + 1] <= b
    BY <1>2, <1>4, <2>1
  <2>3. a * (n + 1) = a * n + a /\ b * (n + 1) = b * n + b /\ a * n \in Nat /\ b * n \in Nat
    OBVIOUS
  <2> QED
    BY <2>2, <2>3
<1>5. Nat \subseteq S
  <2> HIDE DEF S
  <2> QED
    BY <1>3, <1>4, AllNumbers
<1> QED
  BY <1>1, <1>2, <1>5

(* A sequence that has values has a least and a greatest one.              *)
LEMMA Extremes ==
  ASSUME NEW s \in Seq(Nat), s # <<>>
  PROVE  /\ Min(Values(s)) \in Values(s) /\ Max(Values(s)) \in Values(s)
         /\ \A i \in 1 .. Len(s) : Min(Values(s)) <= s[i] /\ s[i] <= Max(Values(s))
<1>1. Len(s) \in Nat \ {0} /\ DOMAIN s = 1 .. Len(s) /\ \A i \in 1 .. Len(s) : s[i] \in Nat
  OBVIOUS
<1> DEFINE S == {n \in Nat : 1 <= n /\ n <= Len(s) =>
                   \E lo, hi \in 1 .. n : \A i \in 1 .. n : s[lo] <= s[i] /\ s[i] <= s[hi]}
<1>2. 0 \in S
  OBVIOUS
<1>3. ASSUME NEW n \in Nat, n \in S PROVE n + 1 \in S
  <2> SUFFICES ASSUME n + 1 <= Len(s)
               PROVE  \E lo, hi \in 1 .. n + 1 : \A i \in 1 .. n + 1 :
                        s[lo] <= s[i] /\ s[i] <= s[hi]
    OBVIOUS
  <2>1. CASE n = 0
    <3>1. \A i \in 1 .. n + 1 : i = 1 /\ s[1] <= s[i] /\ s[i] <= s[1]
      BY <1>1, <2>1
    <3>2. 1 \in 1 .. n + 1
      OBVIOUS
    <3> QED
      BY <3>1, <3>2
  <2>2. CASE n # 0
    <3>1. PICK lo \in 1 .. n, hi \in 1 .. n : \A i \in 1 .. n : s[lo] <= s[i] /\ s[i] <= s[hi]
      BY <1>1, <1>3, <2>2
    <3>2. PICK lo2 \in 1 .. n + 1 : lo2 = IF s[lo] <= s[n + 1] THEN lo ELSE n + 1
      OBVIOUS
    <3>3. PICK hi2 \in 1 .. n + 1 : hi2 = IF s[hi] >= s[n + 1] THEN hi ELSE n + 1
      OBVIOUS
    <3>4. \A i \in 1 .. n + 1 : i \in 1 .. n \/ i = n + 1
      OBVIOUS
    <3>5. s[lo] \in Nat /\ s[hi] \in Nat /\ s[n + 1] \in Nat /\ \A i \in 1 .. n : s[i] \in Nat
      BY <1>1
    <3>6. s[lo2] <= s[lo] /\ s[lo2] <= s[n + 1] /\ s[lo2] \in Nat
      BY <3>2, <3>5
    <3>7. s[hi] <= s[hi2] /\ s[n + 1] <= s[hi2] /\ s[hi2] \in Nat
      BY <3>3, <3>5
    <3>8. ASSUME NEW i \in 1 .. n PROVE s[lo2] <= s[i] /\ s[i] <= s[hi2]
      <4>1. s[lo] <= s[i] /\ s[i] <= s[hi] /\ s[i] \in Nat
        BY <3>1, <3>5
      <4>2. \A x, y, z \in Nat : x <= y /\ y <= z => x <= z
        OBVIOUS
      <4>3. s[lo2] <= s[i]
        BY <3>5, <3>6, <4>1, <4>2
      <4>4. s[i] <= s[hi2]
        BY <3>5, <3>7, <4>1, <4>2
      <4> QED
        BY <4>3, <4>4
    <3>9. \A i \in 1 .. n + 1 : s[lo2] <= s[i] /\ s[i] <= s[hi2]
      BY <3>4, <3>6, <3>7, <3>8
    <3> QED
      BY <3>9
  <2> QED
    BY <2>1, <2>2
<1>4. Nat \subseteq S
  <2> HIDE DEF S
  <2> QED
    BY <1>2, <1>3, AllNumbers
<1>5. PICK lo \in 1 .. Len(s), hi \in 1 .. Len(s) :
        \A i \in 1 .. Len(s) : s[lo] <= s[i] /\ s[i] <= s[hi]
  <2>1. PICK n \in Nat : n = Len(s)
    BY <1>1
  <2>2. n \in S
    <3> HIDE DEF S
    <3> QED
      BY <1>4
  <2>3. \E lo, hi \in 1 .. n : \A i \in 1 .. n : s[lo] <= s[i] /\ s[i] <= s[hi]
    BY <1>1, <2>1, <2>2
  <2> QED
    BY <2>1, <2>3
<1>6. /\ s[lo] \in Values(s) /\ s[hi] \in Values(s)
      /\ \A v \in Values(s) : s[lo] <= v /\ s[hi] >= v
  BY <1>1, <1>5 DEF Values
<1>7. Min(Values(s)) \in Values(s) /\ \A v \in Values(s) : Min(Values(s)) <= v
  BY <1>6 DEF Min
<1>8. Max(Values(s)) \in Values(s) /\ \A v \in Values(s) : Max(Values(s)) >= v
  BY <1>6 DEF Max
<1>9. \A i \in 1 .. Len(s) : s[i] \in Values(s)
  BY <1>1 DEF Values
<1>10. \A v \in Values(s) : v \in Nat
  BY <1>1 DEF Values
<1> QED
  BY <1>7, <1>8, <1>9, <1>10

(* Whole units of a sum, against whole units of its bounds.                *)
LEMMA WholeUnits ==
  ASSUME NEW n \in Nat \ {0}, NEW u \in Nat \ {0}, NEW total \in Nat,
         NEW a \in Nat, NEW b \in Nat, a * n <= total, total <= b * n
  PROVE  /\ (a \div u) * n <= total \div u
         /\ total \div u < (b \div u + 1) * n
<1>1. PICK x \in Nat : x = a \div u
  OBVIOUS
<1>2. PICK y \in Nat : y = b \div u
  OBVIOUS
<1>3. PICK z \in Nat : z = total \div u
  OBVIOUS
<1>4. x * u <= a /\ b < (y + 1) * u /\ z * u <= total /\ total < (z + 1) * u
  BY <1>1, <1>2, <1>3
<1>5. \A i, j, k \in Nat : i <= j => i * k <= j * k
  OBVIOUS
<1>6. (x * n) * u <= total
  <2>1. (x * u) * n <= a * n
    BY <1>4, <1>5
  <2>2. (x * u) * n = (x * n) * u
    OBVIOUS
  <2>3. a * n \in Nat /\ (x * n) * u \in Nat
    OBVIOUS
  <2> QED
    BY <2>1, <2>2, <2>3
<1>7. total < ((y + 1) * n) * u
  <2>1. b + 1 <= (y + 1) * u
    BY <1>4
  <2>2. (b + 1) * n <= ((y + 1) * u) * n
    BY <1>5, <2>1
  <2>3. ((y + 1) * u) * n = ((y + 1) * n) * u /\ (b + 1) * n = b * n + n
    OBVIOUS
  <2>4. b * n \in Nat /\ ((y + 1) * n) * u \in Nat
    OBVIOUS
  <2> QED
    BY <2>2, <2>3, <2>4
<1>8. PICK c \in Nat : c = x * n
  OBVIOUS
<1>9. PICK d \in Nat : d = (y + 1) * n
  OBVIOUS
<1>10. c <= z
  <2> SUFFICES ASSUME z + 1 <= c PROVE FALSE
    OBVIOUS
  <2>1. (z + 1) * u <= c * u
    BY <1>5
  <2>2. (z + 1) * u \in Nat /\ c * u \in Nat
    OBVIOUS
  <2> QED
    BY <1>4, <1>6, <1>8, <2>1, <2>2
<1>11. z < d
  <2> SUFFICES ASSUME d <= z PROVE FALSE
    OBVIOUS
  <2>1. d * u <= z * u
    BY <1>5
  <2>2. d * u \in Nat /\ z * u \in Nat
    OBVIOUS
  <2> QED
    BY <1>4, <1>7, <1>9, <2>1, <2>2
<1> QED
  BY <1>1, <1>2, <1>3, <1>8, <1>9, <1>10, <1>11

(* The last values put, as StatsOfWindow takes them from the history.      *)
Window == SubSeq(hist, Len(hist) - Len(buffer) + 1, Len(hist))

(* The buffer is the window, turned at the index.                          *)
LEMMA WindowTurned ==
  ASSUME Inv
  PROVE  /\ Window \in Seq(Nat) /\ buffer \in Seq(Nat)
         /\ Len(Window) = Len(buffer)
         /\ index \in Nat /\ Len(buffer) - index \in Nat
         /\ \A j \in 1 .. Len(buffer) - index : Window[j] = buffer[index + j]
         /\ \A j \in 1 .. index : Window[Len(buffer) - index + j] = buffer[j]
         /\ \A j \in 1 .. Len(buffer) :
              /\ Len(hist) - Len(buffer) + j \in 1 .. Len(hist)
              /\ Window[j] = hist[Len(hist) - Len(buffer) + j]
<1> USE RingBufferAssumption
<1>1. PICK n \in Nat : n = Len(buffer)
  BY DEF Inv, RingTypeOK
<1>2. PICK h \in Nat : h = Len(hist)
  BY DEF Inv, RingTypeOK
<1>3. /\ n <= h /\ n <= size /\ index \in 0 .. n /\ size \in Nat
      /\ n < size => index = n
      /\ hist \in Seq(Value) /\ buffer \in Seq(Value) /\ Value \subseteq Nat
      /\ \A k \in 0 .. n - 1 : buffer[Slot(k)] = hist[h - k]
  BY <1>1, <1>2 DEF Inv, RingTypeOK, HoldsLastValues
<1>4. hist \in Seq(Nat) /\ buffer \in Seq(Nat)
  BY <1>3, SeqMonotonic
<1>5. /\ Window \in Seq(Nat) /\ Len(Window) = n
      /\ \A j \in 1 .. n : Window[j] = hist[h - n + j]
  <2>1. PICK m \in Int : m = h - n + 1
    OBVIOUS
  <2>2. \A i \in m .. h : hist[i] \in Nat
    BY <1>2, <1>3, <1>4, <2>1, ElementOfSeq
  <2>3. Window = SubSeq(hist, m, h)
    BY <1>1, <1>2, <2>1 DEF Window
  <2>4. /\ Window \in Seq(Nat)
        /\ Len(Window) = IF m <= h THEN h - m + 1 ELSE 0
        /\ \A j \in 1 .. h - m + 1 : Window[j] = hist[m + j - 1]
    BY <2>2, <2>3, SubSeqProperties
  <2>5. h - m + 1 = n /\ (m <= h <=> n # 0) /\ \A j \in 1 .. n : m + j - 1 = h - n + j
    BY <2>1
  <2> QED
    BY <2>4, <2>5
<1>6. ASSUME NEW j \in 1 .. n PROVE Window[j] = buffer[Slot(n - j)]
  <2>1. n - j \in 0 .. n - 1 /\ h - (n - j) = h - n + j
    OBVIOUS
  <2> QED
    BY <1>3, <1>5, <2>1
<1>7. ASSUME NEW j \in 1 .. n - index PROVE Window[j] = buffer[index + j]
  <2>1. n = size /\ j \in 1 .. n
    BY <1>3
  <2>2. Slot(n - j) = index + j
    BY <1>3, <2>1 DEF Slot
  <2> QED
    BY <1>6, <2>1, <2>2
<1>8. ASSUME NEW j \in 1 .. index PROVE Window[n - index + j] = buffer[j]
  <2>1. PICK i \in 1 .. n : i = n - index + j
    BY <1>3
  <2>2. Slot(n - i) = j
    BY <1>3, <2>1 DEF Slot
  <2> QED
    BY <1>6, <2>1, <2>2
<1>9. \A j \in 1 .. n : h - n + j \in 1 .. h
  BY <1>3
<1> QED
  BY <1>1, <1>2, <1>3, <1>4, <1>5, <1>7, <1>8, <1>9

(* The values of the window are those of the buffer.                       *)
LEMMA SameValues ==
  ASSUME Inv
  PROVE  Values(Window) = Values(buffer)
<1>1. PICK n \in Nat : n = Len(buffer)
  BY DEF Inv, RingTypeOK
<1>2. PICK q \in Nat : q = n - index
  BY <1>1, WindowTurned
<1>3. /\ DOMAIN Window = 1 .. n /\ DOMAIN buffer = 1 .. n /\ index \in Nat /\ q + index = n
      /\ \A j \in 1 .. q : Window[j] = buffer[index + j]
      /\ \A j \in 1 .. index : Window[q + j] = buffer[j]
  BY <1>1, <1>2, WindowTurned, LenProperties
<1>4. ASSUME NEW j \in 1 .. n PROVE Window[j] \in Values(buffer)
  <2>1. CASE j <= q
    <3>1. j \in 1 .. q /\ index + j \in 1 .. n
      BY <1>3, <2>1
    <3> QED
      BY <1>3, <3>1 DEF Values
  <2>2. CASE ~(j <= q)
    <3>1. PICK i \in 1 .. index : q + i = j
      <4>1. j - q \in 1 .. index /\ q + (j - q) = j
        BY <1>3, <2>2
      <4> QED
        BY <4>1
    <3>2. i \in 1 .. n /\ Window[j] = buffer[i]
      BY <1>3, <3>1
    <3> QED
      BY <1>3, <3>2 DEF Values
  <2> QED
    BY <2>1, <2>2
<1>5. ASSUME NEW j \in 1 .. n PROVE buffer[j] \in Values(Window)
  <2>1. CASE j <= index
    <3>1. j \in 1 .. index /\ q + j \in 1 .. n
      BY <1>3, <2>1
    <3> QED
      BY <1>3, <3>1 DEF Values
  <2>2. CASE ~(j <= index)
    <3>1. PICK i \in 1 .. q : index + i = j
      <4>1. j - index \in 1 .. q /\ index + (j - index) = j
        BY <1>3, <2>2
      <4> QED
        BY <4>1
    <3>2. i \in 1 .. n /\ Window[i] = buffer[j]
      BY <1>3, <3>1
    <3> QED
      BY <1>3, <3>2 DEF Values
  <2> QED
    BY <2>1, <2>2
<1> QED
  BY <1>3, <1>4, <1>5 DEF Values

(* What get_stats reports of a buffer that has values.                     *)
LEMMA StatsOfValues ==
  ASSUME Inv, buffer # <<>>
  PROVE  /\ GetStats.count = Len(buffer) /\ Len(buffer) \in Nat \ {0}
         /\ GetStats.total = Total(buffer) /\ GetStats.total \in Nat
         /\ GetStats.min \in Nat /\ GetStats.max \in Nat
         /\ {GetStats.min, GetStats.max} \subseteq Values(Window)
         /\ \A i \in 1 .. Len(buffer) :
              GetStats.min <= Window[i] /\ Window[i] <= GetStats.max
         /\ GetStats.min * Len(buffer) <= GetStats.total
         /\ GetStats.total <= GetStats.max * Len(buffer)
<1>1. buffer \in Seq(Nat) /\ Window \in Seq(Nat) /\ Len(Window) = Len(buffer)
  BY WindowTurned
<1>2. Len(buffer) \in Nat \ {0}
  BY <1>1, EmptySeq
<1>3. PICK a : a = Min(Values(buffer))
  OBVIOUS
<1>4. PICK b : b = Max(Values(buffer))
  OBVIOUS
<1>5. /\ GetStats.min = a /\ GetStats.max = b
      /\ GetStats.count = Len(buffer) /\ GetStats.total = Total(buffer)
  BY <1>3, <1>4 DEF GetStats
<1>6. /\ a \in Values(buffer) /\ b \in Values(buffer)
      /\ \A i \in 1 .. Len(buffer) : a <= buffer[i] /\ buffer[i] <= b
  BY <1>1, <1>3, <1>4, Extremes
<1>7. a \in Nat /\ b \in Nat
  BY <1>1, <1>6, LenProperties, ElementOfSeq DEF Values
<1>8. Total(buffer) \in Nat /\ a * Len(buffer) <= Total(buffer) /\ Total(buffer) <= b * Len(buffer)
  BY <1>1, <1>6, <1>7, TotalBounded
<1>9. ASSUME NEW i \in 1 .. Len(buffer)
      PROVE  a <= Window[i] /\ Window[i] <= b
  <2>1. Window[i] \in Values(buffer)
    <3>1. Window[i] \in Values(Window)
      BY <1>1, LenProperties DEF Values
    <3> QED
      BY <3>1, SameValues
  <2>2. PICK j \in 1 .. Len(buffer) : Window[i] = buffer[j]
    BY <1>1, <2>1, LenProperties DEF Values
  <2> QED
    BY <1>6, <2>2
<1> QED
  BY <1>2, <1>5, <1>6, <1>7, <1>8, <1>9, SameValues

(* The average that the user sees, in any unit.                            *)
LEMMA AverageBetween ==
  ASSUME Inv, NEW unit \in Nat \ {0}
  PROVE  LET obj == ToObject(unit)
         IN  /\ obj.average.num >= obj.min * obj.average.den
             /\ obj.average.num < (obj.max + 1) * obj.average.den
             /\ unit = 1 => obj.average.num <= obj.max * obj.average.den
<1>1. PICK st : st = GetStats
  OBVIOUS
<1>2. PICK obj : obj = ToObject(unit)
  OBVIOUS
<1>3. /\ obj.min = st.min \div unit /\ obj.max = st.max \div unit
      /\ obj.average = IF st.count > 0
                       THEN [num |-> st.total \div unit, den |-> st.count]
                       ELSE [num |-> 0, den |-> 1]
  BY <1>1, <1>2 DEF ToObject
<1>4. CASE buffer = <<>>
  <2>1. st.min = 0 /\ st.max = 0 /\ st.count = 0
    BY <1>1, <1>4 DEF GetStats
  <2>2. 0 \div unit = 0
    OBVIOUS
  <2>3. obj.min = 0 /\ obj.max = 0 /\ obj.average.num = 0 /\ obj.average.den = 1
    BY <1>3, <2>1, <2>2
  <2> QED
    BY <1>2, <2>3
<1>5. CASE buffer # <<>>
  <2>1. PICK n \in Nat \ {0} : n = Len(buffer)
    BY <1>5, StatsOfValues
  <2>2. /\ st.count = n /\ st.total \in Nat /\ st.min \in Nat /\ st.max \in Nat
        /\ st.min * n <= st.total /\ st.total <= st.max * n
    BY <1>1, <1>5, <2>1, StatsOfValues
  <2>3. obj.average.num = st.total \div unit /\ obj.average.den = n
    BY <1>3, <2>2
  <2>4. /\ (st.min \div unit) * n <= st.total \div unit
        /\ st.total \div unit < (st.max \div unit + 1) * n
    BY <2>2, WholeUnits
  <2>5. st.min \div unit \in Nat /\ st.max \div unit \in Nat /\ st.total \div unit \in Nat
    BY <2>2
  <2>6. (st.min \div unit) * n \in Nat
    BY <2>5
  <2>7. unit = 1 => st.total \div unit = st.total /\ st.max \div unit = st.max
    BY <2>2
  <2> QED
    BY <1>2, <1>3, <2>2, <2>3, <2>4, <2>5, <2>6, <2>7
<1> QED
  BY <1>4, <1>5

(* get_stats reports the count, the sum and the extremes of the last size  *)
(* values put, wherever the index stands; to_object's average lies between *)
(* the extremes it reports, up to the part of a unit that each loses.      *)
THEOREM RingStatsOfWindow == RingSpec => []StatsOfWindow
<1> USE RingBufferAssumption
<1>1. Inv /\ ExtremesOfAll => StatsOfWindow
  <2> SUFFICES ASSUME Inv, ExtremesOfAll PROVE StatsOfWindow
    OBVIOUS
  <2>1. /\ Window \in Seq(Nat) /\ buffer \in Seq(Nat) /\ Len(Window) = Len(buffer)
        /\ index \in Nat /\ Len(buffer) - index \in Nat
    BY WindowTurned
  <2>2. GetStats.count = Len(Window)
    BY <2>1 DEF GetStats
  <2>3. GetStats.total = Total(Window)
    <3>1. GetStats.total = Total(buffer)
      BY DEF GetStats
    <3>2. PICK q \in Nat : q = Len(buffer) - index
      BY <2>1
    <3>3. Len(buffer) \in Nat
      BY <2>1, LenProperties
    <3>4. Len(buffer) = index + q /\ Len(Window) = index + q
      BY <2>1, <3>2, <3>3
    <3>5. Turned(Window, buffer, index, q)
      BY <2>1, <3>2, <3>4, WindowTurned DEF Turned
    <3>6. Total(Window) = Total(buffer)
      BY <2>1, <3>5, RotatedTotal
    <3> QED
      BY <3>1, <3>6
  <2>4. ASSUME Window # <<>>
        PROVE  /\ \A i \in DOMAIN Window :
                    GetStats.min <= Window[i] /\ Window[i] <= GetStats.max
               /\ {GetStats.min, GetStats.max} \subseteq Values(Window)
               /\ GetStats.long_term_min <= GetStats.min
               /\ GetStats.max <= GetStats.long_term_max
    <3>1. Len(Window) \in Nat \ {0} /\ DOMAIN Window = 1 .. Len(Window)
      BY <2>1, <2>4, EmptySeq, LenProperties
    <3>2. buffer # <<>>
      BY <2>1, <3>1, EmptySeq
    <3>3. /\ {GetStats.min, GetStats.max} \subseteq Values(Window)
          /\ \A i \in 1 .. Len(buffer) :
               GetStats.min <= Window[i] /\ Window[i] <= GetStats.max
      BY <3>2, StatsOfValues
    <3>4. hist \in Seq(Value) /\ Value \subseteq Nat /\ DOMAIN hist = 1 .. Len(hist)
      BY LenProperties DEF Inv, RingTypeOK
    <3>5. \A v \in Values(Window) : v \in Values(hist)
      <4>1. ASSUME NEW j \in 1 .. Len(buffer) PROVE Window[j] \in Values(hist)
        <5>1. PICK i \in 1 .. Len(hist) : Window[j] = hist[i]
          BY WindowTurned
        <5> QED
          BY <3>4, <5>1 DEF Values
      <4> QED
        BY <2>1, <3>1, <4>1 DEF Values
    <3>6. hist # <<>>
      <4>1. Values(<<>>) = {}
        BY DEF Values
      <4> QED
        BY <3>3, <3>5, <4>1
    <3>7. /\ \A v \in Values(hist) : long_term_min <= v /\ v <= long_term_max
          /\ long_term_min \in Values(hist) /\ long_term_max \in Values(hist)
      BY <3>6 DEF ExtremesOfAll, Values
    <3>8. long_term_min \in Value /\ long_term_max \in Value
      BY <3>4, <3>7, ElementOfSeq DEF Values
    <3>9. GetStats.long_term_min = long_term_min /\ GetStats.long_term_max = long_term_max
      BY <3>8 DEF GetStats, OrDefault
    <3> QED
      BY <2>1, <3>1, <3>3, <3>5, <3>7, <3>9
  <2>5. 1 \in Nat \ {0} /\ Milli \in Nat \ {0}
    OBVIOUS
  <2> QED
    BY <2>2, <2>3, <2>4, <2>5, AverageBetween DEF StatsOfWindow, Window
<1> QED
  BY <1>1, InvInductive, RingExtremesOfAll, PTL
=============================================================================
