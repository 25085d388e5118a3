------------------------------ MODULE TxSender ------------------------------
(***************************************************************************)
(* getSenderAddress of the native module (lib.rs) and the functions of     *)
(* shardeum_utils under it: who signed an Ethereum transaction, and does   *)
(* its gas limit pay for it.                                               *)
(*                                                                         *)
(* The curve is secp256k1 in small: points are the multiples 1 .. N - 1 of *)
(* the generator, a point and its opposite have the same x-coordinate and  *)
(* differ in parity, a public key is the secret key's point.  ECDSA over   *)
(* it obeys its real equations, with (r, s, parity) and (r, N - s,         *)
(* opposite parity) for the same signer.  Keccak being perfect, an address *)
(* is the key it was made from.                                            *)
(***************************************************************************)
EXTENDS Integers, Sequences, FiniteSets

CONSTANTS
  N,    \* secp256k1n, the order of the group
  Word, \* the number of values of a u64
  NoTx  \* no transaction is looked at

ASSUME TxAssumption ==
  /\ N \in Nat /\ N > 3 /\ \A i \in 2 .. N - 1 : N % i # 0
  /\ Word \in Nat /\ Word > 37

VARIABLE tx  \* the transaction that getSenderAddress is called with

Some(x) == [some |-> TRUE, value |-> x]
Nope    == [some |-> FALSE]

Reciprocal(x) == CHOOSE y \in 1 .. N - 1 : (x * y) % N = 1

(* The two points with x-coordinate r.                                     *)
Point(r, parity) == IF parity = 0 THEN r ELSE N - r

(* RecoverableSignature::from_compact and ::recover                        *)
Recover(sig_hash, r, s, id) ==
  LET key == (Reciprocal(r) * (s * Point(r, id) - sig_hash)) % N
  IN  IF r \in 1 .. N \div 2 /\ s \in 1 .. N - 1 /\ key # 0 THEN Some(key) ELSE Nope

-----------------------------------------------------------------------------
(* The recovery id in v.  u64 arithmetic wraps around in a release build.  *)
VStandard(v, chainid) ==
  IF v \in {0, 1} THEN v
  ELSE IF chainid.some THEN (v - (2 * chainid.value + 35)) % Word
  ELSE (v - 27) % Word

(* Mutant: no test of EIP-2.                                               *)
EcrecoverAnyS(sig_hash, v, r, s, chainid) ==
  IF VStandard(v, chainid) \notin {0, 1} THEN Nope
  ELSE Recover(sig_hash, r, s, VStandard(v, chainid))

(* ecrecover: EIP-2 allows the lower half of the values of s only.         *)
Ecrecover(sig_hash, v, r, s, chainid) ==
  IF VStandard(v, chainid) \notin {0, 1} \/ s > N \div 2 THEN Nope
  ELSE Recover(sig_hash, r, s, VStandard(v, chainid))

(* The chain id that decoding a legacy transaction finds in its v.         *)
ChainId(v) == IF v >= 35 THEN Some((v - 35) \div 2) ELSE Nope

(* The fold over the bytes of the data, ...                                *)
DataGas(data) ==
  LET acc[i \in 0 .. Len(data)] ==
        IF i = 0 THEN 0 ELSE acc[i - 1] + (IF data[i] = 0 THEN 4 ELSE 16)
  IN  acc[Len(data)]

(* ... and get_base_fee: the cost of a transaction before anything is      *)
(* executed.                                                               *)
BaseFee(data, to) == 21000 + DataGas(data) + (IF to = "zero" THEN 32000 ELSE 0)

(* Mutant: the gas limit must exceed the fee.                              *)
GasValidAbove(t) == t.gas > BaseFee(t.data, t.to)

(* "this has to be upperbound inclusive"                                   *)
GasValid(t) == t.gas >= BaseFee(t.data, t.to)

(* pub_to_addr: an uncompressed key always has its 65 bytes.               *)
PubToAddr(key) == [address |-> key, is_valid |-> TRUE]

(* get_sender_address; the unwrap of an Err panics, which JS sees as an    *)
(* exception.                                                              *)
GetSenderAddress(t) ==
  LET pubkey == IF t.typed
                THEN Ecrecover(t.sighash, (t.v + 27) % Word, t.r, t.s, Nope)
                ELSE Ecrecover(t.sighash, t.v, t.r, t.s, ChainId(t.v))
      found  == PubToAddr(pubkey.value)
  IN  IF pubkey.some
      THEN Some([address |-> found.address, isValid |-> found.is_valid /\ GasValid(t)])
      ELSE Nope

(* What decoding returns; in a typed transaction v is a parity.            *)
Decoded(t) ==
  /\ t.typed \in BOOLEAN
  /\ t.v \in IF t.typed THEN {0, 1} ELSE 0 .. Word - 1
  /\ t.r \in 0 .. N /\ t.s \in 0 .. N /\ t.sighash \in 0 .. N - 1
  /\ t.to \in {"none", "zero", "other"}
  /\ t.data \in Seq(0 .. 255) /\ t.gas \in Nat

-----------------------------------------------------------------------------
(* Is (r, s) with this parity a signature that the key d makes: there is a *)
(* nonce k with r the x-coordinate of its point and s k = sighash + r d.   *)
SignedBy(d, t, parity) ==
  \E k \in 1 .. N - 1 :
    /\ t.r \in 1 .. N \div 2
    /\ t.s \in 1 .. N - 1
    /\ k = Point(t.r, parity)
    /\ (t.s * k) % N = (t.sighash + t.r * d) % N

(* The v of a transaction tells the parity: by itself, and if it is not    *)
(* typed also plus 27 or with a chain id as of EIP-155.                    *)
Tells(t, parity) ==
  \/ t.v = parity
  \/ /\ ~t.typed
     /\ t.v = 27 + parity \/ \E c \in 0 .. Word : t.v = 35 + 2 * c + parity

(* "v accepts 0, 1, 27, 28 or chainid": the address returned is that of    *)
(* the key that signed, for every kind of transaction, and there is one    *)
(* only for a v of the right kind with the lower s.  Neither a v so small  *)
(* that the u64 arithmetic wraps around nor the other s of a signature is  *)
(* ever good for an address.                                               *)
SenderIsSigner ==
  tx # NoTx => \A d \in 1 .. N - 1 :
    GetSenderAddress(tx).some /\ GetSenderAddress(tx).value.address = d <=>
      tx.s <= N \div 2 /\ \E parity \in {0, 1} : Tells(tx, parity) /\ SignedBy(d, tx, parity)

(* 4 for each zero byte of the data and 16 for each other one.             *)
DataCost(data) ==
  16 * Len(data) - 12 * Cardinality({i \in DOMAIN data : data[i] = 0})

(* For a transaction with a destination, isValid says that the gas limit   *)
(* pays for it: 21000, the data and 32000 for the zero address, no unit    *)
(* more and none less.                                                     *)
GasLimitPays ==
  tx # NoTx /\ tx.to # "none" /\ GetSenderAddress(tx).some =>
    LET need == DataCost(tx.data) + (IF tx.to = "zero" THEN 53000 ELSE 21000)
    IN  GetSenderAddress(tx).value.isValid <=> tx.gas >= need

-----------------------------------------------------------------------------
(* "If the transaction is to a 'null' address (contract creation), add     *)
(* additional gas" (get_base_fee): what creates a contract is a            *)
(* transaction without a destination, and it is not valid unless its gas   *)
(* limit pays the 32000 as well.                                           *)
CreationPays ==
  tx # NoTx /\ tx.to = "none" /\ GetSenderAddress(tx).some =>
    (GetSenderAddress(tx).value.isValid => tx.gas >= DataCost(tx.data) + 53000)
=============================================================================
