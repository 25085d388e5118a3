---------------------------- MODULE AddonProofs ----------------------------
(***************************************************************************)
(* Proofs about the functions of the native module that stand alone.       *)
(*                                                                         *)
(* Addon, for any number of calls and any hash keys: the process-wide      *)
(* crypto instance is written by one call, before anybody reads it, and    *)
(* never again.                                                            *)
(*                                                                         *)
(* TxSender, for every prime group order and every decoded transaction:    *)
(* the address is the signer's, and isValid says whether the gas pays.     *)
(***************************************************************************)
EXTENDS Addon, TxSender, SequenceTheorems, FiniteSetTheorems,
        WellFoundedInduction, TLAPS

PC == {"idle", "once", "closure", "set", "instance"} \cup Ended

(* What the state is made of.                                              *)
AddonTypeOK ==
  /\ INIT \in Call \cup {"new", "done", "poisoned"}
  /\ instance \in HashKey \cup {None}
  /\ args \in [Call -> Args \cup {None}]
  /\ pc \in [Call -> PC]
  /\ \A c \in Call : pc[c] # "idle" => args[c] \in Args

(* The Once: exactly the call that holds it is in the closure, and the     *)
(* others are still before it unless it is done.                           *)
OnceHeld ==
  /\ \A c \in Call : pc[c] \in {"closure", "set"} <=> INIT = c
  /\ \A c \in Call : pc[c] \in {"instance", "made"} => INIT = "done"

(* The instance is set from the end of the closure on, by a call that was  *)
(* given its key.                                                          *)
InstanceSet ==
  /\ instance # None <=> INIT = "done" \/ \E c \in Call : pc[c] = "set"
  /\ instance # None =>
       /\ instance \in HexKey
       /\ \E c \in Call : /\ args[c] # None
                          /\ args[c].hash_key = instance
                          /\ pc[c] \notin {"idle", "once", "closure"}

(* Every hash was made under that key, after it was set.                   *)
DigestsOfInstance ==
  \A d \in digests :
    /\ INIT = "done"
    /\ d.key = IF instance \in DigestKey THEN instance ELSE "panic"

IInv == AddonTypeOK /\ OnceHeld /\ InstanceSet /\ DigestsOfInstance

(* The first state: nobody has called Sn.                                  *)
LEMMA InitIInv == Init => IInv
BY AddonAssumption
DEF Init, IInv, AddonTypeOK, OnceHeld, InstanceSet, DigestsOfInstance, PC, Ended

(* Calling Sn touches neither the Once nor the instance.                   *)
LEMMA CreateIInv ==
  ASSUME IInv, NEW c \in Call, NEW a \in Args, Create(c, a)
  PROVE  IInv'
<1> USE AddonAssumption DEF IInv, Create
<1>1. AddonTypeOK'
  BY DEF AddonTypeOK, PC
<1>2. OnceHeld'
  BY DEF AddonTypeOK, OnceHeld
<1>3. InstanceSet'
  <2>1. \A d \in Call : pc[d] # "idle" => pc'[d] = pc[d] /\ args'[d] = args[d]
    BY DEF AddonTypeOK
  <2> QED BY <2>1 DEF AddonTypeOK, InstanceSet
<1>4. DigestsOfInstance'
  BY DEF DigestsOfInstance
<1> QED BY <1>1, <1>2, <1>3, <1>4

(* The Once admits one call, and later ones when it is done.               *)
LEMMA CallOnceIInv ==
  ASSUME IInv, NEW c \in Call, CallOnce(c)
  PROVE  IInv'
<1> USE AddonAssumption DEF IInv, CallOnce
<1>1. AddonTypeOK'
  BY DEF AddonTypeOK, PC, Ended
<1>2. OnceHeld'
  BY DEF AddonTypeOK, OnceHeld
<1>3. InstanceSet'
  <2>1. \A d \in Call : pc[d] # "once" => pc'[d] = pc[d] /\ args'[d] = args[d]
    BY DEF AddonTypeOK
  <2>2. pc'[c] # "set" /\ (INIT' = "done" <=> INIT = "done")
    BY DEF AddonTypeOK
  <2> QED BY <2>1, <2>2 DEF AddonTypeOK, InstanceSet
<1>4. DigestsOfInstance'
  BY DEF DigestsOfInstance
<1> QED BY <1>1, <1>2, <1>3, <1>4

(* A panic in the closure leaves the instance unset for good.              *)
LEMMA ClosurePanicsIInv ==
  ASSUME IInv, NEW c \in Call, ClosurePanics(c)
  PROVE  IInv'
<1> USE AddonAssumption DEF IInv, ClosurePanics
<1>1. AddonTypeOK'
  BY DEF AddonTypeOK, PC, Ended
<1>2. INIT = c /\ instance = None
  BY DEF AddonTypeOK, OnceHeld, InstanceSet
<1>3. OnceHeld'
  BY <1>2 DEF AddonTypeOK, OnceHeld
<1>4. InstanceSet'
  BY <1>2 DEF AddonTypeOK, OnceHeld, InstanceSet
<1>5. DigestsOfInstance'
  BY <1>2 DEF DigestsOfInstance
<1> QED BY <1>1, <1>3, <1>4, <1>5

(* The instance is set to the key of the call in the closure.              *)
LEMMA SetInstanceIInv ==
  ASSUME IInv, NEW c \in Call, SetInstance(c)
  PROVE  IInv'
<1> USE AddonAssumption DEF IInv, SetInstance
<1>1. AddonTypeOK'
  BY DEF AddonTypeOK, PC, Ended
<1>2. INIT = c /\ args'[c] # None /\ pc'[c] = "set" /\ instance' = args'[c].hash_key
  BY DEF AddonTypeOK, OnceHeld
<1>3. OnceHeld'
  BY <1>2 DEF AddonTypeOK, OnceHeld
<1>4. InstanceSet'
  BY <1>2 DEF AddonTypeOK, InstanceSet
<1>5. DigestsOfInstance'
  BY <1>2 DEF DigestsOfInstance
<1> QED BY <1>1, <1>3, <1>4, <1>5

(* call_once returns to the call that set the instance.                    *)
LEMMA CompleteOnceIInv ==
  ASSUME IInv, NEW c \in Call, CompleteOnce(c)
  PROVE  IInv'
<1> USE AddonAssumption DEF IInv, CompleteOnce
<1>1. AddonTypeOK'
  BY DEF AddonTypeOK, PC, Ended
<1>2. INIT = c /\ instance # None
  BY DEF AddonTypeOK, OnceHeld, InstanceSet
<1>3. OnceHeld'
  BY <1>2 DEF AddonTypeOK, OnceHeld
<1>4. InstanceSet'
  <2>1. \A d \in Call : pc[d] \notin {"idle", "once", "closure"} =>
          pc'[d] \notin {"idle", "once", "closure"} /\ args'[d] = args[d]
    BY DEF AddonTypeOK
  <2> QED BY <1>2, <2>1 DEF AddonTypeOK, InstanceSet
<1>5. DigestsOfInstance'
  BY <1>2 DEF DigestsOfInstance
<1> QED BY <1>1, <1>3, <1>4, <1>5

(* The rest of the call only reads the instance.                           *)
LEMMA BuildIInv ==
  ASSUME IInv, NEW c \in Call, Build(c)
  PROVE  IInv'
<1> USE AddonAssumption DEF IInv, Build
<1>1. AddonTypeOK'
  BY DEF AddonTypeOK, PC, Ended
<1>2. OnceHeld'
  BY DEF AddonTypeOK, OnceHeld
<1>3. InstanceSet'
  <2>1. \A d \in Call : pc[d] \notin {"idle", "once", "closure"} =>
          pc'[d] \notin {"idle", "once", "closure"} /\ args'[d] = args[d]
    BY DEF AddonTypeOK
  <2>2. \A d \in Call : pc'[d] = "set" <=> pc[d] = "set"
    BY DEF AddonTypeOK
  <2> QED BY <2>1, <2>2 DEF AddonTypeOK, InstanceSet
<1>4. DigestsOfInstance'
  BY DEF DigestsOfInstance
<1> QED BY <1>1, <1>2, <1>3, <1>4

(* A message is hashed by an Sn that was made, so after the Once.          *)
LEMMA DigestIInv ==
  ASSUME IInv, NEW c \in Call, Digest(c)
  PROVE  IInv'
<1> USE DEF IInv, Digest
<1>1. AddonTypeOK' /\ OnceHeld' /\ InstanceSet'
  BY DEF AddonTypeOK, OnceHeld, InstanceSet
<1>2. DigestsOfInstance'
  BY DEF OnceHeld, DigestsOfInstance
<1> QED BY <1>1, <1>2

(* The invariant is inductive.                                             *)
THEOREM AddonIInv == Spec => []IInv
<1>1. ASSUME IInv, [Next]_vars PROVE IInv'
  <2>1. CASE UNCHANGED vars
    BY <1>1, <2>1 DEF vars, IInv, AddonTypeOK, OnceHeld, InstanceSet, DigestsOfInstance
  <2>2. ASSUME NEW c \in Call, NEW a \in Args, Create(c, a) PROVE IInv'
    BY <1>1, <2>2, CreateIInv
  <2>3. ASSUME NEW c \in Call, Step(c) PROVE IInv'
    BY <1>1, <2>3, CallOnceIInv, ClosurePanicsIInv, SetInstanceIInv,
       CompleteOnceIInv, BuildIInv DEF Step
  <2>4. ASSUME NEW c \in Call, Digest(c) PROVE IInv'
    BY <1>1, <2>4, DigestIInv
  <2> QED BY <1>1, <2>1, <2>2, <2>3, <2>4 DEF Next
<1> QED BY <1>1, InitIInv, PTL DEF Spec

(* InstanceReady for any calls and keys: neither panic of                  *)
(* shardus_crypto.rs is ever reached, and the instance is never read while *)
(* it is being written.                                                    *)
THEOREM AddonInstanceReady == Spec => []InstanceReady
<1>1. IInv => InstanceReady
  BY AddonAssumption
  DEF IInv, AddonTypeOK, OnceHeld, InstanceSet, InstanceReady
<1> QED BY <1>1, AddonIInv, PTL

(* OneHashKey for any calls and keys: all the hashes of a process are made *)
(* under the key of the call that ran the closure.                         *)
THEOREM AddonOneHashKey == Spec => []OneHashKey
<1>1. IInv => OneHashKey
  BY DEF IInv, InstanceSet, DigestsOfInstance, OneHashKey
<1> QED BY <1>1, AddonIInv, PTL

-----------------------------------------------------------------------------
(* Arithmetic modulo N.                                                    *)

LEMMA ModRest ==
  ASSUME NEW a \in Int
  PROVE  a % N \in 0 .. N - 1 /\ \E q \in Int : a = q * N + (a % N)
<1>1. N \in Nat /\ N > 3
  BY TxAssumption
<1>2. a % N \in 0 .. N - 1
  BY <1>1
<1>3. a \div N \in Int /\ a = (a \div N) * N + (a % N)
  BY <1>1
<1> QED
  BY <1>2, <1>3

LEMMA ModUnique ==
  ASSUME NEW q \in Int, NEW r \in 0 .. N - 1
  PROVE  (q * N + r) % N = r
<1>1. N \in Nat /\ N > 3
  BY TxAssumption
<1>2. PICK a \in Int : a = q * N + r
  BY <1>1
<1>3. PICK p \in Int : a = p * N + (a % N) /\ a % N \in 0 .. N - 1
  BY ModRest
<1>4. PICK e \in Int : e = q - p
  OBVIOUS
<1>5. e * N = q * N - p * N
  BY <1>1, <1>4
<1>6. e * N = (a % N) - r
  BY <1>1, <1>2, <1>3, <1>5
<1>7. e * N < N /\ -N < e * N
  BY <1>1, <1>3, <1>6
<1>8. e = 0
  <2>1. ASSUME e >= 1 PROVE FALSE
    <3>1. e * N >= 1 * N
      BY <1>1, <2>1
    <3> QED
      BY <1>1, <1>7, <3>1
  <2>2. ASSUME e <= -1 PROVE FALSE
    <3>1. e * N <= (-1) * N
      BY <1>1, <2>2
    <3> QED
      BY <1>1, <1>7, <3>1
  <2> QED
    BY <2>1, <2>2
<1>9. (a % N) - r = 0
  BY <1>1, <1>6, <1>8
<1> QED
  BY <1>2, <1>3, <1>9

LEMMA ModSame ==
  ASSUME NEW a \in Int, NEW b \in Int
  PROVE  a % N = b % N <=> \E q \in Int : a = b + q * N
<1>1. N \in Nat /\ N > 3
  BY TxAssumption
<1>2. PICK p \in Int : a = p * N + (a % N) /\ a % N \in 0 .. N - 1
  BY ModRest
<1>3. PICK q \in Int : b = q * N + (b % N) /\ b % N \in 0 .. N - 1
  BY ModRest
<1>4. ASSUME a % N = b % N PROVE \E e \in Int : a = b + e * N
  <2>1. PICK e \in Int : e = p - q
    OBVIOUS
  <2>2. e * N = p * N - q * N
    BY <1>1, <2>1
  <2>3. a = b + e * N
    BY <1>1, <1>2, <1>3, <1>4, <2>2
  <2> QED
    BY <2>3
<1>5. ASSUME NEW e \in Int, a = b + e * N PROVE a % N = b % N
  <2>1. PICK f \in Int : f = q + e
    OBVIOUS
  <2>2. PICK x \in Int, y \in Int, r \in Int : x = q * N /\ y = e * N /\ r = b % N
    BY <1>1, <1>3
  <2>3. f * N = x + y /\ b = x + r /\ a = b + y
    BY <1>1, <1>3, <1>5, <2>1, <2>2
  <2>4. a = f * N + (b % N)
    BY <2>2, <2>3
  <2> QED
    BY <1>3, <2>4, ModUnique
<1> QED
  BY <1>4, <1>5

(* N being prime, every number below it has a reciprocal: the least of the *)
(* combinations of x and N that are not 0 divides N, so that it is 1.      *)
LEMMA ReciprocalExists ==
  ASSUME NEW x \in 1 .. N - 1
  PROVE  Reciprocal(x) \in 1 .. N - 1 /\ (x * Reciprocal(x)) % N = 1
<1>1. N \in Nat /\ N > 3 /\ x \in Int
  BY TxAssumption
<1> DEFINE T == {n \in 1 .. N - 1 : \E y, q \in Int : n = x * y + q * N}
<1>2. x \in T
  <2>1. x = x * 1 + 0 * N
    BY <1>1
  <2> QED
    BY <2>1
<1>3. PICK d \in T : \A n \in T : <<n, d>> \notin OpToRel(<, Nat)
  <2>1. T \subseteq Nat
    <3>1. 1 .. N - 1 \subseteq Nat
      BY <1>1
    <3> QED
      BY <3>1
  <2> HIDE DEF T
  <2> QED
    BY <1>2, <2>1, NatLessThanWellFounded, WFMin
<1>4. d \in 1 .. N - 1 /\ d \in Nat
  BY <1>1
<1>5. \A n \in T : ~(n < d)
  <2>1. \A n \in T : n \in Nat
    BY <1>1
  <2> HIDE DEF T
  <2> QED
    BY <1>3, <1>4, <2>1 DEF OpToRel
<1>6. PICK y \in Int, q \in Int : d = x * y + q * N
  OBVIOUS
<1>7. d = 1
  <2> SUFFICES ASSUME d # 1 PROVE FALSE
    OBVIOUS
  <2>1. d \in 2 .. N - 1
    BY <1>1, <1>4
  <2>2. N % d # 0
    BY <2>1, TxAssumption
  <2>3. PICK r \in Int, c \in Int : r = N % d /\ c = N \div d
    BY <1>1, <2>1
  <2>4. r \in 1 .. d - 1 /\ N = c * d + r
    BY <1>1, <2>1, <2>2, <2>3
  <2>5. PICK y2 \in Int, q2 \in Int : y2 = -(c * y) /\ q2 = 1 - c * q
    OBVIOUS
  <2>6. c * d = c * (x * y) + c * (q * N)
    BY <1>1, <1>6
  <2>7. x * y2 = -(c * (x * y)) /\ q2 * N = N - c * (q * N)
    BY <1>1, <2>5
  <2>8. PICK u \in Int, v \in Int : u = c * (x * y) /\ v = c * (q * N)
    BY <1>1
  <2>9. r = x * y2 + q2 * N
    BY <1>1, <2>4, <2>6, <2>7, <2>8
  <2>10. r \in 1 .. N - 1 /\ r < d
    BY <1>1, <2>1, <2>4
  <2>11. r \in T
    BY <2>9, <2>10
  <2> HIDE DEF T
  <2> QED
    BY <1>5, <2>10, <2>11
<1>8. PICK p \in Int : y = p * N + (y % N) /\ y % N \in 0 .. N - 1
  BY ModRest
<1>9. PICK z \in 0 .. N - 1 : z = y % N
  BY <1>8
<1>10. PICK e \in Int : e = -(q + x * p)
  BY <1>1
<1>11. x * z = e * N + 1
  <2>1. x * y = x * (p * N) + x * z
    BY <1>1, <1>8, <1>9
  <2>2. e * N = -(q * N) - x * (p * N)
    BY <1>1, <1>10
  <2>3. PICK u \in Int, v \in Int : u = x * (p * N) /\ v = q * N
    BY <1>1
  <2>4. x * z \in Int /\ x * y \in Int
    BY <1>1
  <2> QED
    BY <1>1, <1>6, <1>7, <2>1, <2>2, <2>3, <2>4
<1>12. (x * z) % N = 1
  <2>1. 1 \in 0 .. N - 1
    BY <1>1
  <2> QED
    BY <1>11, <2>1, ModUnique
<1>13. z # 0
  <2> SUFFICES ASSUME z = 0 PROVE FALSE
    OBVIOUS
  <2>1. x * z = 0 * N + 0 /\ 0 \in 0 .. N - 1
    BY <1>1
  <2>2. (x * z) % N = 0
    BY <2>1, ModUnique
  <2> QED
    BY <1>12, <2>2
<1>14. \E w \in 1 .. N - 1 : (x * w) % N = 1
  <2>1. z \in 1 .. N - 1
    BY <1>1, <1>13
  <2> QED
    BY <1>12, <2>1
<1> QED
  BY <1>14 DEF Reciprocal

(* recover's equation, solved for the key, is the signer's.                *)
KeyOf(r, a, h) == (Reciprocal(r) * (a - h)) % N
Solves(r, a, h, d) == a % N = (h + r * d) % N

LEMMA KeySolves ==
  ASSUME NEW r \in 1 .. N - 1, NEW a \in Int, NEW h \in Int, NEW d \in 1 .. N - 1
  PROVE  KeyOf(r, a, h) = d <=> Solves(r, a, h, d)
<1>1. N \in Nat /\ N > 3 /\ r \in Int /\ d \in Int
  BY TxAssumption
<1>2. PICK y \in Int : y = Reciprocal(r) /\ (r * y) % N = 1
  <2>1. Reciprocal(r) \in 1 .. N - 1 /\ (r * Reciprocal(r)) % N = 1
    BY ReciprocalExists
  <2>2. PICK y : y = Reciprocal(r)
    OBVIOUS
  <2>3. y \in Int
    BY <1>1, <2>1, <2>2
  <2> QED
    BY <2>1, <2>2, <2>3
<1>3. PICK q \in Int : r * y = q * N + 1
  <2>1. r * y \in Int
    BY <1>1
  <2>2. PICK q \in Int : r * y = q * N + ((r * y) % N)
    BY <2>1, ModRest
  <2> QED
    BY <1>2, <2>2
<1>5. PICK X \in Int : X = a - h
  OBVIOUS
<1>6. ASSUME (y * X) % N = d PROVE a % N = (h + r * d) % N
  <2>1. y * X \in Int
    OBVIOUS
  <2>2. PICK p \in Int : y * X = p * N + d
    BY <1>6, <2>1, ModRest
  <2>3. r * (y * X) = r * (p * N) + r * d
    BY <1>1, <2>2
  <2>4. r * (y * X) = (r * y) * X
    BY <1>1
  <2>5. (r * y) * X = (q * N) * X + X
    BY <1>1, <1>3
  <2>6. PICK e \in Int : e = r * p - q * X
    BY <1>1
  <2>7. e * N = r * (p * N) - (q * N) * X
    BY <1>1, <2>6
  <2>8. PICK u \in Int, v \in Int, w \in Int : u = r * (p * N) /\ v = (q * N) * X /\ w = r * d
    BY <1>1
  <2>9. X = w + e * N
    BY <1>1, <2>3, <2>4, <2>5, <2>7, <2>8
  <2>10. a = (h + r * d) + e * N
    BY <1>1, <1>5, <2>8, <2>9
  <2>11. h + r * d \in Int
    BY <1>1
  <2> QED
    BY <2>10, <2>11, ModSame
<1>7. ASSUME a % N = (h + r * d) % N PROVE (y * X) % N = d
  <2>1. h + r * d \in Int
    BY <1>1
  <2>2. PICK p \in Int : a = (h + r * d) + p * N
    BY <1>7, <2>1, ModSame
  <2>3. X = r * d + p * N
    BY <1>1, <1>5, <2>2
  <2>4. y * X = (r * y) * d + y * (p * N)
    BY <1>1, <2>3
  <2>5. (r * y) * d = (q * N) * d + d
    BY <1>1, <1>3
  <2>6. PICK e \in Int : e = q * d + y * p
    BY <1>1
  <2>7. e * N = (q * N) * d + y * (p * N)
    BY <1>1, <2>6
  <2>8. PICK u \in Int, v \in Int : u = (q * N) * d /\ v = y * (p * N)
    BY <1>1
  <2>9. y * X = e * N + d
    BY <1>1, <2>4, <2>5, <2>7, <2>8
  <2>10. d \in 0 .. N - 1
    BY <1>1
  <2> QED
    BY <2>9, <2>10, ModUnique
<1> QED
  BY <1>2, <1>5, <1>6, <1>7 DEF KeyOf, Solves

-----------------------------------------------------------------------------
(* Who signed.                                                             *)

LEMMA SomeOrNope ==
  ASSUME NEW x, NEW y
  PROVE  /\ Some(x).some /\ Some(x).value = x /\ ~Nope.some
         /\ Some(x) # Nope
         /\ Some(x) = Some(y) <=> x = y
<1>1. Some(x).some /\ Some(x).value = x /\ Some(y).value = y /\ ~Nope.some
  BY DEF Some, Nope
<1> QED
  BY <1>1

(* The recovery id that get_sender_address finds in a transaction's v.     *)
RecoveryId(t) ==
  IF t.typed THEN VStandard((t.v + 27) % Word, Nope) ELSE VStandard(t.v, ChainId(t.v))

(* It is the parity that v tells; a difference that wraps around is none.  *)
LEMMA RecoveryIdTold ==
  ASSUME NEW t, Decoded(t), NEW parity \in {0, 1}
  PROVE  RecoveryId(t) = parity <=> Tells(t, parity)
<1>1. Word \in Nat /\ Word > 37
  BY TxAssumption
<1>2. CASE t.typed
  <2>1. t.v \in {0, 1}
    BY <1>2 DEF Decoded
  <2>2. (t.v + 27) % Word = t.v + 27
    BY <1>1, <2>1
  <2>3. RecoveryId(t) = (t.v + 27 - 27) % Word
    BY <1>2, <2>1, <2>2 DEF RecoveryId, VStandard, Nope
  <2>4. (t.v + 27 - 27) % Word = t.v
    BY <1>1, <2>1
  <2> QED
    BY <1>2, <2>3, <2>4 DEF Tells
<1>3. CASE ~t.typed
  <2>1. PICK v \in Nat : v = t.v /\ v < Word
    BY <1>1, <1>3 DEF Decoded
  <2>2. RecoveryId(t) = VStandard(v, ChainId(v))
    BY <1>3, <2>1 DEF RecoveryId
  <2>3. Tells(t, parity) <=> \/ v = parity \/ v = 27 + parity
                             \/ \E c \in 0 .. Word : v = 35 + 2 * c + parity
    BY <1>3, <2>1 DEF Tells
  <2>4. CASE v \in {0, 1}
    <3>1. RecoveryId(t) = v
      BY <2>2, <2>4 DEF VStandard
    <3> QED
      BY <1>1, <2>3, <2>4, <3>1
  <2>5. CASE v \in 2 .. 34
    <3>1. RecoveryId(t) = (v - 27) % Word
      BY <2>2, <2>5 DEF VStandard, ChainId, Nope
    <3>2. (v - 27) % Word = IF v >= 27 THEN v - 27 ELSE v - 27 + Word
      BY <1>1, <2>1, <2>5
    <3> QED
      BY <1>1, <2>3, <2>5, <3>1, <3>2
  <2>6. CASE v >= 35
    <3>1. PICK w \in Nat, c \in Nat : w = v - 35 /\ c = w \div 2 /\ c = (v - 35) \div 2
      BY <2>6
    <3>2. v - (2 * c + 35) \in {0, 1} /\ c \in 0 .. Word
      <4>1. w - 2 * c \in {0, 1} /\ c <= w
        BY <3>1
      <4>2. v - (2 * c + 35) = w - 2 * c /\ w < Word
        BY <1>1, <2>1, <3>1
      <4> QED
        BY <1>1, <4>1, <4>2
    <3>3. RecoveryId(t) = (v - (2 * c + 35)) % Word
      <4>1. ChainId(v) = [some |-> TRUE, value |-> c]
        BY <2>6, <3>1 DEF ChainId, Some
      <4>2. ChainId(v).some /\ ChainId(v).value = c
        BY <4>1
      <4> QED
        BY <2>2, <2>6, <4>2 DEF VStandard
    <3>4. RecoveryId(t) = v - (2 * c + 35)
      BY <1>1, <3>2, <3>3
    <3>5. ASSUME NEW b \in 0 .. Word, v = 35 + 2 * b + parity PROVE b = c
      BY <3>2, <3>5
    <3>6. RecoveryId(t) = parity <=> v = 35 + 2 * c + parity
      BY <3>2, <3>4
    <3>7. v # parity /\ v # 27 + parity
      BY <2>6
    <3> QED
      BY <2>3, <3>2, <3>5, <3>6, <3>7
  <2> QED
    BY <2>1, <2>4, <2>5, <2>6
<1> QED
  BY <1>2, <1>3 DEF Decoded

(* What get_sender_address returns, by the recovery id.                    *)
LEMMA SenderRecovered ==
  ASSUME NEW t, Decoded(t), NEW d \in 1 .. N - 1
  PROVE  GetSenderAddress(t).some /\ GetSenderAddress(t).value.address = d <=>
           /\ t.s <= N \div 2 /\ RecoveryId(t) \in {0, 1}
           /\ Recover(t.sighash, t.r, t.s, RecoveryId(t)) = Some(d)
<1>1. PICK pubkey : pubkey = IF t.typed
                             THEN Ecrecover(t.sighash, (t.v + 27) % Word, t.r, t.s, Nope)
                             ELSE Ecrecover(t.sighash, t.v, t.r, t.s, ChainId(t.v))
  OBVIOUS
<1>2. PICK id : id = RecoveryId(t)
  OBVIOUS
<1>3. PICK rec : rec = Recover(t.sighash, t.r, t.s, id)
  OBVIOUS
<1>4. pubkey = IF id \notin {0, 1} \/ t.s > N \div 2 THEN Nope ELSE rec
  BY <1>1, <1>2, <1>3 DEF Ecrecover, RecoveryId
<1>5. /\ GetSenderAddress(t).some <=> pubkey.some
      /\ pubkey.some => GetSenderAddress(t).value.address = pubkey.value
  BY <1>1 DEF GetSenderAddress, PubToAddr, Some, Nope
<1>6. rec = Nope \/ \E key : rec = Some(key)
  BY <1>3 DEF Recover
<1>7. t.s > N \div 2 <=> ~(t.s <= N \div 2)
  BY TxAssumption DEF Decoded
<1>8. CASE id \in {0, 1} /\ t.s <= N \div 2
  <2>1. pubkey = rec
    BY <1>4, <1>7, <1>8
  <2>2. pubkey.some /\ pubkey.value = d <=> rec = Some(d)
    BY <1>6, <2>1, SomeOrNope
  <2> QED
    BY <1>2, <1>3, <1>5, <1>8, <2>2
<1>9. CASE ~(id \in {0, 1} /\ t.s <= N \div 2)
  <2>1. ~pubkey.some
    BY <1>4, <1>7, <1>9, SomeOrNope
  <2> QED
    BY <1>2, <1>5, <1>9, <2>1
<1> QED
  BY <1>8, <1>9

(* Recovering a key from a signature finds who made it.                    *)
LEMMA RecoverSigner ==
  ASSUME NEW t, Decoded(t), NEW d \in 1 .. N - 1, NEW parity \in {0, 1}
  PROVE  Recover(t.sighash, t.r, t.s, parity) = Some(d) <=> SignedBy(d, t, parity)
<1>1. N \in Nat /\ N > 3 /\ t.r \in Int /\ t.s \in Int /\ t.sighash \in Int
  BY TxAssumption DEF Decoded
<1>2. PICK k : k = Point(t.r, parity)
  OBVIOUS
<1>3. PICK key : key = (Reciprocal(t.r) * (t.s * k - t.sighash)) % N
  OBVIOUS
<1>4. Recover(t.sighash, t.r, t.s, parity) =
        IF t.r \in 1 .. N \div 2 /\ t.s \in 1 .. N - 1 /\ key # 0 THEN Some(key) ELSE Nope
  BY <1>2, <1>3 DEF Recover
<1>5. CASE t.r \in 1 .. N \div 2 /\ t.s \in 1 .. N - 1
  <2>1. t.r \in 1 .. N - 1 /\ k \in 1 .. N - 1 /\ k \in Int
    BY <1>1, <1>2, <1>5 DEF Point
  <2>2. key = d <=> (t.s * k) % N = (t.sighash + t.r * d) % N
    <3>1. PICK r \in 1 .. N - 1, h \in Int, a \in Int :
            r = t.r /\ h = t.sighash /\ a = t.s * k
      BY <1>1, <2>1
    <3>2. key = KeyOf(r, a, h)
      BY <1>3, <3>1 DEF KeyOf
    <3>3. key = d <=> Solves(r, a, h, d)
      BY <3>2, KeySolves
    <3> QED
      BY <3>1, <3>3 DEF Solves
  <2>3. d # 0
    BY <1>1
  <2>4. Recover(t.sighash, t.r, t.s, parity) = Some(d) <=> key = d
    BY <1>4, <1>5, <2>3, SomeOrNope
  <2>5. SignedBy(d, t, parity) <=> (t.s * k) % N = (t.sighash + t.r * d) % N
    BY <1>2, <1>5, <2>1 DEF SignedBy
  <2> QED
    BY <2>2, <2>4, <2>5
<1>6. CASE ~(t.r \in 1 .. N \div 2 /\ t.s \in 1 .. N - 1)
  BY <1>4, <1>6, SomeOrNope DEF SignedBy
<1> QED
  BY <1>5, <1>6

(* getSenderAddress returns the address of the key that signed, for every  *)
(* group of prime order and every transaction that decoding can return:    *)
(* whichever form v has, and never for the upper half of s or for a v that *)
(* only wraps around to a recovery id.                                     *)
THEOREM TxSenderIsSigner == (tx = NoTx \/ Decoded(tx)) => SenderIsSigner
<1> SUFFICES ASSUME Decoded(tx), NEW d \in 1 .. N - 1
             PROVE  GetSenderAddress(tx).some /\ GetSenderAddress(tx).value.address = d <=>
                      tx.s <= N \div 2 /\ \E parity \in {0, 1} : Tells(tx, parity) /\ SignedBy(d, tx, parity)
  BY DEF SenderIsSigner
<1>1. GetSenderAddress(tx).some /\ GetSenderAddress(tx).value.address = d <=>
        /\ tx.s <= N \div 2 /\ RecoveryId(tx) \in {0, 1}
        /\ Recover(tx.sighash, tx.r, tx.s, RecoveryId(tx)) = Some(d)
  BY SenderRecovered
<1>2. \A parity \in {0, 1} :
        /\ RecoveryId(tx) = parity <=> Tells(tx, parity)
        /\ Recover(tx.sighash, tx.r, tx.s, parity) = Some(d) <=> SignedBy(d, tx, parity)
  BY RecoveryIdTold, RecoverSigner
<1> QED
  BY <1>1, <1>2

-----------------------------------------------------------------------------
(* Does the gas pay.                                                       *)

Zeros(data, n) == {i \in 1 .. n : data[i] = 0}

(* What the fold has added up after n bytes.                               *)
GasAfter(data, n) == 16 * n - 12 * Cardinality(Zeros(data, n))

LEMMA GasStep ==
  ASSUME NEW data, NEW n \in Nat
  PROVE  /\ GasAfter(data, 0) = 0 /\ GasAfter(data, n) \in Int
         /\ GasAfter(data, n + 1) =
              GasAfter(data, n) + (IF data[n + 1] = 0 THEN 4 ELSE 16)
<1>1. Zeros(data, 0) = {} /\ IsFiniteSet(1 .. n) /\ Zeros(data, n) \subseteq 1 .. n
  BY FS_Interval DEF Zeros
<1>2. IsFiniteSet(Zeros(data, n)) /\ Cardinality(Zeros(data, n)) \in Nat
  BY <1>1, FS_Subset, FS_CardinalityType
<1>3. GasAfter(data, 0) = 0
  <2>1. Cardinality(Zeros(data, 0)) = 0
    BY <1>1, FS_EmptySet
  <2> QED
    BY <2>1 DEF GasAfter
<1>4. CASE data[n + 1] = 0
  <2>1. Zeros(data, n + 1) = Zeros(data, n) \cup {n + 1} /\ n + 1 \notin Zeros(data, n)
    BY <1>4 DEF Zeros
  <2>2. Cardinality(Zeros(data, n + 1)) = Cardinality(Zeros(data, n)) + 1
    BY <1>2, <2>1, FS_AddElement
  <2> QED
    BY <1>2, <1>3, <1>4, <2>2 DEF GasAfter
<1>5. CASE data[n + 1] # 0
  <2>1. Zeros(data, n + 1) = Zeros(data, n)
    BY <1>5 DEF Zeros
  <2> QED
    BY <1>2, <1>3, <1>5, <2>1 DEF GasAfter
<1> QED
  BY <1>4, <1>5

(* The fold comes to 16 for each byte, less 12 for each that is zero.      *)
LEMMA DataGasIs ==
  ASSUME NEW data, Len(data) \in Nat
  PROVE  DataGas(data) = GasAfter(data, Len(data))
<1> DEFINE Def(g) == [i \in 0 .. Len(data) |->
                        IF i = 0 THEN 0 ELSE g[i - 1] + (IF data[i] = 0 THEN 4 ELSE 16)]
           acc == CHOOSE g : g = Def(g)
<1>1. PICK f : f = [i \in 0 .. Len(data) |-> GasAfter(data, i)]
  OBVIOUS
<1>2. f = Def(f)
  <2>1. ASSUME NEW i \in 0 .. Len(data), i # 0
        PROVE  GasAfter(data, i) = f[i - 1] + (IF data[i] = 0 THEN 4 ELSE 16)
    <3>1. PICK n \in Nat : i = n + 1 /\ n = i - 1
      BY <2>1
    <3>2. f[i - 1] = GasAfter(data, n)
      BY <1>1, <3>1
    <3> QED
      BY <3>1, <3>2, GasStep
  <2>2. GasAfter(data, 0) = 0
    BY GasStep
  <2> QED
    BY <1>1, <2>1, <2>2
<1>3. acc = Def(acc)
  BY <1>2
<1>4. DataGas(data) = acc[Len(data)]
  BY DEF DataGas
<1> HIDE DEF acc
<1>5. /\ acc[0] = 0
      /\ \A n \in Nat : n + 1 <= Len(data) =>
           acc[n + 1] = acc[n] + (IF data[n + 1] = 0 THEN 4 ELSE 16)
  <2>1. acc[0] = 0
    BY <1>3
  <2>2. ASSUME NEW n \in Nat, n + 1 <= Len(data)
        PROVE  acc[n + 1] = acc[n] + (IF data[n + 1] = 0 THEN 4 ELSE 16)
    <3>1. n + 1 \in 0 .. Len(data) /\ n + 1 # 0 /\ (n + 1) - 1 = n
      BY <2>2
    <3> QED
      BY <1>3, <3>1
  <2> QED
    BY <2>1, <2>2
<1> DEFINE Off == {n \in Nat : n <= Len(data) /\ acc[n] # GasAfter(data, n)}
<1>6. Off = {}
  <2> SUFFICES ASSUME Off # {} PROVE FALSE
    OBVIOUS
  <2>1. PICK n \in Off : \A m \in Off : <<m, n>> \notin OpToRel(<, Nat)
    <3>1. Off \subseteq Nat
      OBVIOUS
    <3> HIDE DEF Off
    <3> QED
      BY <3>1, NatLessThanWellFounded, WFMin
  <2>2. n \in Nat /\ n <= Len(data) /\ acc[n] # GasAfter(data, n)
    OBVIOUS
  <2>3. n # 0
    BY <1>5, <2>2, GasStep
  <2>4. PICK m \in Nat : n = m + 1
    <3>1. n - 1 \in Nat /\ n = (n - 1) + 1
      BY <2>2, <2>3
    <3> QED
      BY <3>1
  <2>5. m < n /\ m <= Len(data)
    BY <2>2, <2>4
  <2>6. m \notin Off
    <3> HIDE DEF Off
    <3> QED
      BY <2>1, <2>2, <2>5 DEF OpToRel
  <2>7. acc[m] = GasAfter(data, m)
    BY <2>5, <2>6
  <2> QED
    BY <1>5, <2>2, <2>4, <2>7, GasStep
<1> QED
  BY <1>4, <1>6

(* For a transaction with a destination, isValid says that the gas limit   *)
(* covers 21000, 4 for each zero byte of data and 16 for each other, and   *)
(* 32000 for the zero address, whatever the data (get_base_fee and the     *)
(* comparison in get_sender_address).                                      *)
THEOREM TxGasLimitPays == (tx = NoTx \/ Decoded(tx)) => GasLimitPays
<1> SUFFICES ASSUME Decoded(tx), GetSenderAddress(tx).some
             PROVE  LET need == DataCost(tx.data)
                                  + (IF tx.to = "zero" THEN 53000 ELSE 21000)
                    IN  GetSenderAddress(tx).value.isValid <=> tx.gas >= need
  BY DEF GasLimitPays
<1>1. PICK data : data = tx.data
  OBVIOUS
<1>2. data \in Seq(0 .. 255) /\ tx.gas \in Nat
  BY <1>1 DEF Decoded
<1>3. Len(data) \in Nat /\ DOMAIN data = 1 .. Len(data)
  BY <1>2, LenProperties
<1>4. PICK g \in Int : g = GasAfter(data, Len(data)) /\ g = DataGas(data)
  BY <1>3, GasStep, DataGasIs
<1>5. GetSenderAddress(tx).value.isValid <=> GasValid(tx)
  BY DEF GetSenderAddress, PubToAddr, Some, Nope
<1>6. GasValid(tx) <=> tx.gas >= 21000 + g + (IF tx.to = "zero" THEN 32000 ELSE 0)
  BY <1>1, <1>4 DEF GasValid, BaseFee
<1>7. PICK zeros : zeros = Cardinality({i \in DOMAIN tx.data : tx.data[i] = 0})
  OBVIOUS
<1>8. zeros = Cardinality(Zeros(data, Len(data)))
  BY <1>1, <1>3, <1>7 DEF Zeros
<1>9. g = 16 * Len(data) - 12 * zeros
  BY <1>4, <1>8 DEF GasAfter
<1>10. GetSenderAddress(tx).value.isValid <=>
         tx.gas >= 16 * Len(data) - 12 * zeros + (IF tx.to = "zero" THEN 53000 ELSE 21000)
  BY <1>2, <1>5, <1>6, <1>9
<1>11. DataCost(tx.data) = 16 * Len(data) - 12 * zeros
  BY <1>1, <1>7 DEF DataCost
<1> QED
  BY <1>10, <1>11
=============================================================================
