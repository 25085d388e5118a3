------------------------------- MODULE Addon -------------------------------
(***************************************************************************)
(* The native module as a process loads it: create_shardus_net (lib.rs)    *)
(* and the crypto instance that all the Sn objects of the process share    *)
(* (shardus_crypto.rs).  Node's main thread and its workers load the same  *)
(* library, so that calls of Sn may overlap: a Once lets one of them set   *)
(* the instance, makes the others wait, and is poisoned if that one        *)
(* panics.  Neon turns a panic into an exception.  The tasks of a sender   *)
(* and of a listener read the instance without going through the Once.     *)
(***************************************************************************)
EXTENDS Naturals

CONSTANTS
  Call,      \* calls of Sn, each on a thread of its own
  HashKey,   \* hash keys that callers give
  HexKey,    \* those of them that are hexadecimal
  DigestKey, \* those of a length that generichash takes
  None       \* Rust's None

(* The hash key, and which of the other arguments is wrong, if any: the    *)
(* secret key is none, the address does not resolve, the size is 0 or less *)
(* (as usize turns a negative number into 0).                              *)
Args == [hash_key : HashKey, wrong : {"none", "secret", "address", "lru_size"}]

ASSUME AddonAssumption ==
  /\ DigestKey \subseteq HexKey
  /\ HexKey \subseteq HashKey
  /\ None \notin HashKey \cup Call \cup Args
  /\ Call \cap {"new", "done", "poisoned"} = {}

VARIABLES
  INIT,     \* the Once: "new", the call that runs its closure, "done" or "poisoned"
  instance, \* SHARDUS_CRYPTO_INSTANCE
  args,     \* the arguments of a call
  pc,       \* where the call is
  digests   \* the hashes made: for which Sn and under which key

vars == <<INIT, instance, args, pc, digests>>

Ended == {"made", "thrown", "panicked"}

Init ==
  /\ INIT = "new"
  /\ instance = None
  /\ args = [c \in Call |-> None]
  /\ pc = [c \in Call |-> "idle"]
  /\ digests = {}

-----------------------------------------------------------------------------
(* Sn is called.                                                           *)
Create(c, a) ==
  /\ pc[c] = "idle"
  /\ args' = [args EXCEPT ![c] = a]
  /\ pc' = [pc EXCEPT ![c] = "once"]
  /\ UNCHANGED <<INIT, instance, digests>>

(* Mutant: a flag, set before the work is done, in place of the Once.      *)
CallOnceFlag(c) ==
  /\ pc[c] = "once"
  /\ INIT' = IF INIT = "new" THEN c ELSE INIT
  /\ pc' = [pc EXCEPT ![c] = IF INIT = "new" THEN "closure" ELSE "instance"]
  /\ UNCHANGED <<instance, args, digests>>

(* INIT.call_once: the first call runs the closure, those that come while  *)
(* it runs wait, later ones pass, or panic if the Once is poisoned.        *)
CallOnce(c) ==
  /\ pc[c] = "once"
  /\ INIT \in {"new", "done", "poisoned"}
  /\ INIT' = IF INIT = "new" THEN c ELSE INIT
  /\ pc' = [pc EXCEPT ![c] = CASE INIT = "new"      -> "closure"
                               [] INIT = "done"     -> "instance"
                               [] INIT = "poisoned" -> "panicked"]
  /\ UNCHANGED <<instance, args, digests>>

(* Mutant: a panic leaves the Once as it was, running.                     *)
ClosurePanicsUnnoticed(c) ==
  /\ pc[c] = "closure"
  /\ instance # None \/ args[c].hash_key \notin HexKey
  /\ INIT' = INIT
  /\ pc' = [pc EXCEPT ![c] = "panicked"]
  /\ UNCHANGED <<instance, args, digests>>

(* The closure panics: "already initialized", or the hash key is not       *)
(* hexadecimal (ShardusCrypto::new).                                       *)
ClosurePanics(c) ==
  /\ pc[c] = "closure"
  /\ instance # None \/ args[c].hash_key \notin HexKey
  /\ INIT' = "poisoned"
  /\ pc' = [pc EXCEPT ![c] = "panicked"]
  /\ UNCHANGED <<instance, args, digests>>

(* It sets the instance ...                                                *)
SetInstance(c) ==
  /\ pc[c] = "closure"
  /\ instance = None
  /\ args[c].hash_key \in HexKey
  /\ instance' = args[c].hash_key
  /\ pc' = [pc EXCEPT ![c] = "set"]
  /\ UNCHANGED <<INIT, args, digests>>

(* ... and call_once returns, which lets the others go on.                 *)
CompleteOnce(c) ==
  /\ pc[c] = "set"
  /\ INIT' = "done"
  /\ pc' = [pc EXCEPT ![c] = "instance"]
  /\ UNCHANGED <<instance, args, digests>>

(* The rest of create_shardus_net: get_shardus_crypto_instance and the key *)
(* pair (which panic), the listener's address (which throws), the LRU      *)
(* cache's size (whose unwrap panics), the sender and the object.          *)
Build(c) ==
  /\ pc[c] = "instance"
  /\ pc' = [pc EXCEPT ![c] =
              CASE instance = None                           -> "panicked"
                [] args[c].wrong \in {"secret", "lru_size"} -> "panicked"
                [] args[c].wrong = "address"                -> "thrown"
                [] OTHER                                    -> "made"]
  /\ UNCHANGED <<INIT, instance, args, digests>>

(* Mutant: every Sn has a crypto instance of its own.                      *)
DigestOwn(c) ==
  /\ pc[c] = "made"
  /\ digests' = digests \cup
       {[sn |-> c, key |-> IF args[c].hash_key \in DigestKey
                           THEN args[c].hash_key ELSE "panic"]}
  /\ UNCHANGED <<INIT, instance, args, pc>>

(* A message of an Sn is signed, or one that came in verified, under the   *)
(* key of the instance; a key of the wrong length panics.                  *)
Digest(c) ==
  /\ pc[c] = "made"
  /\ digests' = digests \cup
       {[sn |-> c, key |-> IF instance \in DigestKey THEN instance ELSE "panic"]}
  /\ UNCHANGED <<INIT, instance, args, pc>>

-----------------------------------------------------------------------------
Step(c) ==
  \/ CallOnce(c) \/ ClosurePanics(c) \/ SetInstance(c) \/ CompleteOnce(c)
  \/ Build(c)

Next ==
  \/ \E c \in Call, a \in Args : Create(c, a)
  \/ \E c \in Call : Step(c) \/ Digest(c)

(* Threads run; a call that waits for the Once is woken.                   *)
Fairness == \A c \in Call : WF_vars(Step(c))

Spec == Init /\ [][Next]_vars
FairSpec == Spec /\ Fairness

-----------------------------------------------------------------------------
(* "ShardusCrypto instance already initialized" and "... not initialized"  *)
(* are panics that no order of calls reaches, not even on several threads  *)
(* or after failed calls; and whoever reads the instance, without a lock,  *)
(* finds that nobody is writing it.                                        *)
InstanceReady ==
  \A c \in Call :
    /\ pc[c] = "closure" => instance = None
    /\ pc[c] \in {"instance", "made"} => instance \in HexKey /\ INIT = "done"

(* There is one hash key in a process, that of the first call that got as  *)
(* far as the Once, even if it failed afterwards: all messages of all Sn   *)
(* objects are hashed under it, whatever hash key they were given, and it  *)
(* never changes under the tasks that use it.                              *)
OneHashKey ==
  /\ \A d \in digests :
       /\ \A e \in digests : e.key = d.key
       /\ d.key # "panic" => d.key = instance
  /\ instance # None => \E c \in Call : /\ args[c] # None
                                        /\ args[c].hash_key = instance
                                        /\ pc[c] \notin {"idle", "once", "closure"}

(* Every call of Sn returns, with an object or an exception, also those    *)
(* that wait for a call that panics.                                       *)
EveryCallReturns ==
  \A c \in Call : pc[c] = "once" ~> pc[c] \in Ended
=============================================================================
