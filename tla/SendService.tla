---------------------------- MODULE SendService ----------------------------
(***************************************************************************)
(* What the sending half of shardus_net promises its caller, with no       *)
(* cache, connection, lock or retry in it.  A message is accepted for an   *)
(* address; at most one complete copy of it ever enters the network, and   *)
(* only towards that address; the caller is told exactly once, Ok if and   *)
(* only if the copy is on its way.                                         *)
(***************************************************************************)
EXTENDS Naturals

CONSTANTS
  Msg,   \* the calls of send, one value for each
  Addr,  \* socket addresses
  None   \* no address yet

VARIABLES
  status, \* what the caller knows of a message
  to,     \* the address a message was accepted for
  copies  \* complete copies of a message sent to an address

vars == <<status, to, copies>>

TypeOK ==
  /\ status \in [Msg -> {"idle", "pending", "ok", "error"}]
  /\ to \in [Msg -> Addr \cup {None}]
  /\ copies \in [Msg -> [Addr -> Nat]]

Init ==
  /\ status = [m \in Msg |-> "idle"]
  /\ to = [m \in Msg |-> None]
  /\ copies = [m \in Msg |-> [a \in Addr |-> 0]]

(* The caller hands over the messages that f gives an address to.          *)
Accept(f) ==
  /\ \A m \in DOMAIN f : status[m] = "idle"
  /\ status' = [m \in Msg |-> IF m \in DOMAIN f THEN "pending" ELSE status[m]]
  /\ to' = [m \in Msg |-> IF m \in DOMAIN f THEN f[m] ELSE to[m]]
  /\ UNCHANGED copies

(* The one copy enters the network.                                        *)
Transmit(m) ==
  /\ status[m] = "pending"
  /\ copies[m][to[m]] = 0
  /\ copies' = [copies EXCEPT ![m][to[m]] = 1]
  /\ UNCHANGED <<status, to>>

(* The caller learns the outcome.                                          *)
Complete(m) ==
  /\ status[m] = "pending"
  /\ status' = [status EXCEPT ![m] = IF copies[m][to[m]] = 1 THEN "ok" ELSE "error"]
  /\ UNCHANGED <<to, copies>>

Next ==
  \/ \E S \in SUBSET Msg : \E f \in [S -> Addr] : Accept(f)
  \/ \E m \in Msg : Transmit(m) \/ Complete(m)

Spec == Init /\ [][Next]_vars
=============================================================================
