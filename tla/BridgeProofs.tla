---------------------------- MODULE BridgeProofs ----------------------------
(***************************************************************************)
(* For any calls, destinations and incoming messages: the counters of      *)
(* stats.rs cover every decrement still to come, the one for receives      *)
(* exactly, and the one for sends exactly if all calls were well formed    *)
(* and awaited.  No set is assumed to be finite: the sets that the         *)
(* counters count stay finite because each call adds finitely many         *)
(* completions.                                                            *)
(***************************************************************************)
EXTENDS Bridge, FiniteSetTheorems, SequenceTheorems, TLAPS

Closure == Token \cup Incoming

(* Types of the bridge's state; a call that was made keeps its arguments.  *)
TypeInv ==
  /\ outstanding_sends \in Nat
  /\ outstanding_receives \in Nat
  /\ call \in [Call -> {"idle", "returned", "thrown"}]
  /\ args \in [Call -> Arguments \cup {NoArgs}]
  /\ oneshot \in [Token -> {"none", "open", "sent", "dropped"}]
  /\ waiter \in [Token -> {"none", "waiting", "scheduled", "skipped", "panicked", "done"}]
  /\ receive \in [Incoming -> {"none", "scheduled", "done"}]
  /\ blocking \subseteq Closure
  /\ queue \in Seq(Closure)
  /\ js \in {"idle", "callback"}

(* A closure is in one place only: in one blocking thread or once in the   *)
(* queue, whose head stays there while the JavaScript thread runs it.      *)
QueueInv ==
  /\ \A i, j \in DOMAIN queue : queue[i] = queue[j] => i = j
  /\ \A i \in DOMAIN queue : queue[i] \notin blocking
  /\ js # "idle" => queue # <<>>

(* A closure under way belongs to a completion or message that handed it   *)
(* on and has not been called back; a call that was not made has none.     *)
ScheduledInv ==
  /\ \A t \in Token : t \in blocking \/ (\E i \in DOMAIN queue : queue[i] = t) =>
       waiter[t] = "scheduled"
  /\ \A m \in Incoming : m \in blocking \/ (\E i \in DOMAIN queue : queue[i] = m) =>
       receive[m] = "scheduled"
  /\ \A t \in Token : call[t[1]] = "idle" => waiter[t] = "none"

(* Every call made so far was accepted, is awaited and named a port for    *)
(* each host.                                                              *)
WellFormed ==
  \A c \in Call : call[c] # "idle" =>
    call[c] = "returned" /\ args[c].await /\ args[c].ports = args[c].hosts

(* outstanding_sends covers the decrements to come, exactly if all calls   *)
(* were well formed.                                                       *)
SendsInv ==
  /\ IsFiniteSet(ToDecrement)
  /\ outstanding_sends >= Cardinality(ToDecrement)
  /\ WellFormed => outstanding_sends = Cardinality(ToDecrement)

ReceivesInv ==
  /\ IsFiniteSet(Undecremented \cap Incoming)
  /\ ReceivesExact

StructInv == TypeInv /\ QueueInv /\ ScheduledInv

IInv == StructInv /\ SendsInv /\ ReceivesInv

-----------------------------------------------------------------------------
(* Counting.                                                               *)

(* A call's first k destinations are k destinations.                       *)
LEMMA DestinationCount ==
  ASSUME NEW c, NEW k \in Nat, NEW D, D = {<<c, i>> : i \in 1 .. k}
  PROVE  IsFiniteSet(D) /\ Cardinality(D) = k
<1> DEFINE f == [i \in 1 .. k |-> <<c, i>>]
<1>1. f \in Bijection(1 .. k, D)
  BY DEF Bijection, Injection, Surjection, IsInjective
<1>2. ExistsBijection(1 .. k, D)
  BY <1>1 DEF ExistsBijection
<1>3. IsFiniteSet(D)
  BY <1>2, FS_NatBijection
<1>4. Cardinality(D) = k
  BY <1>2, FS_CountingElements
<1> QED
  BY <1>3, <1>4

(* The cardinality of a finite set is a natural number.                    *)
LEMMA CountType ==
  ASSUME NEW S, IsFiniteSet(S)
  PROVE  Cardinality(S) \in Nat
  BY FS_CardinalityType

(* Elements that were not counted add their number to the count.           *)
LEMMA CountAdded ==
  ASSUME NEW S, IsFiniteSet(S), NEW T, IsFiniteSet(T), S \cap T = {}
  PROVE  /\ IsFiniteSet(S \cup T)
         /\ Cardinality(S \cup T) = Cardinality(S) + Cardinality(T)
<1>1. IsFiniteSet(S \cup T)
  BY FS_Union
<1>2. Cardinality(S \cup T) = Cardinality(S) + Cardinality(T) - Cardinality(S \cap T)
  BY FS_Union
<1>3. Cardinality(S \cap T) = 0
  BY FS_EmptySet
<1>4. Cardinality(S) \in Nat /\ Cardinality(T) \in Nat
  BY CountType
<1> QED
  BY <1>1, <1>2, <1>3, <1>4

(* A step that leaves the counters and what they count alone.              *)
LEMMA CountsStep ==
  ASSUME SendsInv, ReceivesInv, UNCHANGED counters,
         ToDecrement' = ToDecrement,
         (Undecremented \cap Incoming)' = Undecremented \cap Incoming,
         WellFormed' => WellFormed
  PROVE  SendsInv' /\ ReceivesInv'
  BY DEF SendsInv, ReceivesInv, ReceivesExact, counters

(* Nothing is counted when the module is loaded.                           *)
LEMMA InitIInv == Init => IInv
<1> SUFFICES ASSUME Init PROVE IInv
  OBVIOUS
<1>1. queue = <<>> /\ DOMAIN queue = {}
  BY DEF Init
<1>2. Undecremented = {} /\ ToDecrement = {}
  BY <1>1 DEF Init, Undecremented, ToDecrement
<1>3. TypeInv
  BY DEF Init, TypeInv
<1>4. QueueInv /\ ScheduledInv
  BY <1>1 DEF Init, QueueInv, ScheduledInv
<1>5. SendsInv /\ ReceivesInv
  BY <1>2, FS_EmptySet DEF Init, SendsInv, ReceivesInv, ReceivesExact
<1> QED
  BY <1>3, <1>4, <1>5 DEF IInv, StructInv

-----------------------------------------------------------------------------
(* A native call counts its ports; the completions that will decrement are *)
(* those of the destinations handed over, of which there are no more.      *)
LEMMA NativeSendIInv ==
  ASSUME IInv, NEW c \in Call, NEW a \in Args, NativeSend(c, a)
  PROVE  IInv'
<1> USE DEF IInv, StructInv
<1>1. /\ a \in Arguments /\ a.ports \in 0 .. MaxTargets /\ a.hosts \in 0 .. MaxTargets
      /\ a.await \in BOOLEAN /\ a.header \in BOOLEAN /\ MaxTargets \in Nat
  BY BridgeAssumption DEF Arguments
<1>2. /\ call[c] = "idle"
      /\ args' = [args EXCEPT ![c] = a]
      /\ call' = [call EXCEPT ![c] = IF Sends(a) THEN "returned" ELSE "thrown"]
      /\ outstanding_sends' = outstanding_sends + a.ports
      /\ UNCHANGED <<outstanding_receives, receive, blocking, queue, js>>
  BY DEF NativeSend, Counted
<1>3. /\ args'[c] = a
      /\ call'[c] = IF Sends(a) THEN "returned" ELSE "thrown"
      /\ \A d \in Call : d # c => args'[d] = args[d] /\ call'[d] = call[d]
  BY <1>2 DEF TypeInv
<1> DEFINE D == IF Sends(a) THEN Handed(c, a) ELSE {}
<1>4. /\ Waited(c, a) \subseteq Token /\ D \subseteq Token
      /\ D \subseteq Waited(c, a)
      /\ \A t \in Token : t[1] \in Call
      /\ \A t \in Waited(c, a) : t[1] = c
  BY <1>1 DEF Waited, Handed, Token, Lesser
<1>5. /\ waiter' \in [Token -> {"none", "waiting", "scheduled", "skipped", "panicked", "done"}]
      /\ \A t \in Token : t \notin Waited(c, a) => waiter'[t] = waiter[t]
      /\ \A t \in Waited(c, a) : waiter'[t] \in {"none", "waiting"}
      /\ \A t \in D : waiter'[t] = "waiting"
  <2>1. CASE Spawns(a)
    BY <2>1, <1>4 DEF NativeSend, TypeInv
  <2>2. CASE ~Spawns(a)
    <3>1. ~Sends(a) /\ waiter' = waiter
      BY <2>2 DEF NativeSend, Sends, Spawns
    <3>2. \A t \in Waited(c, a) : waiter[t] = "none"
      BY <1>2, <1>4 DEF ScheduledInv
    <3> QED
      BY <3>1, <3>2 DEF TypeInv
  <2> QED
    BY <2>1, <2>2
<1>6. /\ oneshot' \in [Token -> {"none", "open", "sent", "dropped"}]
      /\ \A t \in Token : t \notin Waited(c, a) => oneshot'[t] = oneshot[t]
      /\ \A t \in D : oneshot'[t] = "open"
      /\ \A t \in Waited(c, a) : waiter'[t] = "waiting" /\ oneshot'[t] = "open" => t \in D
      /\ \A t \in Waited(c, a) : waiter'[t] = "waiting" => oneshot'[t] # "sent"
  <2>1. CASE Spawns(a)
    <3>1. oneshot' = [t \in Token |->
                        CASE t \notin Waited(c, a)            -> oneshot[t]
                          [] Sends(a) /\ t \in Handed(c, a)   -> "open"
                          [] OTHER                            -> "dropped"]
      BY <2>1 DEF NativeSend
    <3>2. \A t \in Token : oneshot'[t] = IF t \notin Waited(c, a) THEN oneshot[t]
                                         ELSE IF t \in D THEN "open" ELSE "dropped"
      BY <3>1, <1>4
    <3>3. DOMAIN oneshot' = Token /\ oneshot' = [t \in Token |-> oneshot'[t]]
      BY <3>1
    <3> HIDE DEF D
    <3>4. oneshot' \in [Token -> {"none", "open", "sent", "dropped"}]
      BY <3>2, <3>3 DEF TypeInv
    <3> QED
      BY <3>2, <3>4, <1>4
  <2>2. CASE ~Spawns(a)
    <3>1. ~Sends(a) /\ waiter' = waiter /\ oneshot' = oneshot
      BY <2>2 DEF NativeSend, Sends, Spawns
    <3>2. \A t \in Waited(c, a) : waiter[t] = "none"
      BY <1>2, <1>4 DEF ScheduledInv
    <3> QED
      BY <3>1, <3>2 DEF TypeInv
  <2> QED
    BY <2>1, <2>2
<1>7. IsFiniteSet(D) /\ Cardinality(D) \in Nat /\ Cardinality(D) <= a.ports
      /\ (Sends(a) /\ a.ports = a.hosts => Cardinality(D) = a.ports)
  <2>1. CASE Sends(a)
    <3>1. Lesser(a.ports, a.hosts) \in Nat /\ Lesser(a.ports, a.hosts) <= a.ports
          /\ (a.ports = a.hosts => Lesser(a.ports, a.hosts) = a.ports)
      BY <1>1 DEF Lesser
    <3>2. D = {<<c, i>> : i \in 1 .. Lesser(a.ports, a.hosts)}
      BY <2>1 DEF Handed
    <3> HIDE DEF D
    <3>3. PICK k \in Nat : k = Lesser(a.ports, a.hosts)
      BY <3>1
    <3>4. IsFiniteSet(D) /\ Cardinality(D) = k
      <4>1. D = {<<c, i>> : i \in 1 .. k}
        BY ONLY <3>2, <3>3
      <4>2. k \in Nat
        OBVIOUS
      <4>3. ASSUME NEW E, E = {<<c, i>> : i \in 1 .. k}
            PROVE  IsFiniteSet(E) /\ Cardinality(E) = k
        BY <4>3, <4>2, DestinationCount
      <4> QED
        BY ONLY <4>1, <4>3
    <3> QED
      BY ONLY <3>1, <3>3, <3>4
  <2>2. CASE ~Sends(a)
    BY <2>2, <1>1, FS_EmptySet
  <2> QED
    BY <2>1, <2>2
<1> HIDE DEF D
<1>8. TypeInv'
  BY <1>1, <1>2, <1>5, <1>6 DEF TypeInv
<1>9. QueueInv'
  BY <1>2 DEF QueueInv
<1>10. \A t \in Token : t[1] = c => waiter[t] = "none" /\ t \notin Undecremented
  BY <1>2, <1>4 DEF ScheduledInv, Undecremented
<1>11. ScheduledInv'
  <2>1. \A t \in Token : waiter[t] = "scheduled" => waiter'[t] = "scheduled"
    BY <1>4, <1>5, <1>10
  <2>2. \A t \in Token : call'[t[1]] = "idle" => t[1] # c /\ call[t[1]] = "idle"
    BY <1>3, <1>4
  <2> QED
    BY <1>2, <1>4, <1>5, <2>1, <2>2 DEF ScheduledInv
<1>12. Undecremented' = Undecremented
  BY <1>2 DEF Undecremented
<1> DEFINE N == IF a.await THEN D ELSE {}
<1>13. ToDecrement' = ToDecrement \cup N /\ ToDecrement \cap N = {}
  <2>1. ASSUME NEW t \in Token
        PROVE  t \in ToDecrement' <=> t \in ToDecrement \cup N
    <3>1. CASE t[1] = c
      BY <2>1, <3>1, <1>3, <1>4, <1>5, <1>6, <1>10, <1>12 DEF ToDecrement
    <3>2. CASE t[1] # c
      BY <2>1, <3>2, <1>3, <1>4, <1>5, <1>6, <1>12 DEF ToDecrement
    <3> QED
      BY <3>1, <3>2
  <2>2. ToDecrement' \subseteq Token /\ ToDecrement \subseteq Token /\ N \subseteq Token
    BY <1>4 DEF ToDecrement
  <2>3. \A t \in N : t \notin ToDecrement
    BY <1>4, <1>10 DEF ToDecrement
  <2> HIDE DEF N
  <2> QED
    BY <2>1, <2>2, <2>3
<1>14. IsFiniteSet(N) /\ Cardinality(N) \in Nat /\ Cardinality(N) <= a.ports
       /\ (Sends(a) /\ a.await /\ a.ports = a.hosts => Cardinality(N) = a.ports)
  BY <1>1, <1>7, FS_EmptySet
<1> HIDE DEF N
<1>15. IsFiniteSet(ToDecrement') /\ Cardinality(ToDecrement) \in Nat
       /\ Cardinality(ToDecrement') = Cardinality(ToDecrement) + Cardinality(N)
  BY <1>13, <1>14, CountAdded, CountType DEF SendsInv
<1>16. WellFormed' => WellFormed /\ Sends(a) /\ a.await /\ a.ports = a.hosts
  BY <1>2, <1>3 DEF WellFormed
<1>17. SendsInv'
  BY <1>1, <1>2, <1>14, <1>15, <1>16 DEF SendsInv, TypeInv
<1>18. ReceivesInv'
  BY <1>2, <1>12 DEF ReceivesInv, ReceivesExact
<1> QED
  BY <1>8, <1>9, <1>11, <1>17, <1>18

(* The sender's use of complete_tx changes nothing that is counted.        *)
LEMMA SenderNotifiesIInv ==
  ASSUME IInv, NEW t \in Token, SenderNotifies(t)
  PROVE  IInv'
<1> USE DEF IInv, StructInv
<1>1. /\ oneshot[t] = "open"
      /\ oneshot' = [oneshot EXCEPT ![t] = "sent"]
      /\ UNCHANGED <<outstanding_sends, outstanding_receives, call, args, waiter,
                     receive, blocking, queue, js>>
  BY DEF SenderNotifies, counters
<1>2. StructInv'
  BY <1>1 DEF TypeInv, QueueInv, ScheduledInv
<1>3. Undecremented' = Undecremented
  BY <1>1 DEF Undecremented
<1>4. \A u \in Token : oneshot'[u] \in {"open", "sent"} <=> oneshot[u] \in {"open", "sent"}
  BY <1>1 DEF TypeInv
<1>5. ToDecrement' = ToDecrement
  BY <1>1, <1>3, <1>4 DEF ToDecrement
<1>6. SendsInv' /\ ReceivesInv'
  BY <1>1, <1>3, <1>5, CountsStep DEF counters, WellFormed
<1> QED
  BY <1>2, <1>6

(* A waiter that wakes hands its decrement on to a closure, if the caller  *)
(* awaits the processing; otherwise it had none to make.                   *)
LEMMA WaiterWakesIInv ==
  ASSUME IInv, NEW t \in Token, WaiterWakes(t)
  PROVE  IInv'
<1> USE DEF IInv, StructInv
<1>1. /\ waiter[t] = "waiting" /\ oneshot[t] = "sent"
      /\ UNCHANGED <<outstanding_sends, outstanding_receives, call, args, oneshot,
                     receive, queue, js>>
  BY DEF WaiterWakes, counters
<1>2. /\ \/ /\ args[t[1]].await
            /\ waiter' = [waiter EXCEPT ![t] = "scheduled"]
            /\ blocking' = blocking \cup {t}
         \/ /\ ~args[t[1]].await
            /\ waiter' = [waiter EXCEPT ![t] = "skipped"]
            /\ blocking' = blocking
  BY DEF WaiterWakes
<1>3. /\ t \notin blocking /\ \A i \in DOMAIN queue : queue[i] # t
      /\ t \notin Incoming /\ call[t[1]] # "idle"
  BY <1>1, BridgeAssumption DEF ScheduledInv
<1>4. TypeInv' /\ QueueInv'
  BY <1>1, <1>2, <1>3 DEF TypeInv, QueueInv, Closure
<1>5. ScheduledInv'
  BY <1>1, <1>2, <1>3 DEF ScheduledInv, TypeInv
<1>6. /\ Undecremented' \cap Incoming = Undecremented \cap Incoming
      /\ \A u : u # t => (u \in Undecremented' <=> u \in Undecremented)
      /\ t \in Undecremented' <=> args[t[1]].await
      /\ t \notin Undecremented
  BY <1>1, <1>2, <1>3 DEF Undecremented
<1>7. ToDecrement' = ToDecrement
  <2>1. \A u \in Token : u # t => waiter'[u] = waiter[u]
    BY <1>2 DEF TypeInv
  <2>2. waiter'[t] # "waiting"
    BY <1>2 DEF TypeInv
  <2>3. \A u \in Token : u \in ToDecrement' <=> u \in ToDecrement
    BY <1>1, <1>6, <2>1, <2>2 DEF ToDecrement
  <2> QED
    BY <2>3 DEF ToDecrement
<1>8. SendsInv' /\ ReceivesInv'
  BY <1>1, <1>6, <1>7, CountsStep DEF counters, WellFormed
<1> QED
  BY <1>4, <1>5, <1>8

(* A waiter that panics had no decrement to make: its sending end was      *)
(* dropped.                                                                *)
LEMMA WaiterPanicsIInv ==
  ASSUME IInv, NEW t \in Token, WaiterPanics(t)
  PROVE  IInv'
<1> USE DEF IInv, StructInv
<1>1. /\ waiter[t] = "waiting" /\ oneshot[t] = "dropped"
      /\ waiter' = [waiter EXCEPT ![t] = "panicked"]
      /\ UNCHANGED <<outstanding_sends, outstanding_receives, call, args, oneshot,
                     receive, blocking, queue, js>>
  BY DEF WaiterPanics, counters
<1>2. TypeInv' /\ QueueInv'
  BY <1>1 DEF TypeInv, QueueInv
<1>3. ScheduledInv'
  BY <1>1 DEF ScheduledInv, TypeInv
<1>4. Undecremented' = Undecremented
  BY <1>1 DEF Undecremented
<1>5. ToDecrement' = ToDecrement
  BY <1>1, <1>4 DEF ToDecrement, TypeInv
<1>6. SendsInv' /\ ReceivesInv'
  BY <1>1, <1>4, <1>5, CountsStep DEF counters, WellFormed
<1> QED
  BY <1>2, <1>3, <1>6

(* A message from the listener is counted with its closure.                *)
LEMMA ReceiveMessageIInv ==
  ASSUME IInv, NEW m \in Incoming, ReceiveMessage(m)
  PROVE  IInv'
<1> USE DEF IInv, StructInv
<1>1. /\ receive[m] = "none"
      /\ receive' = [receive EXCEPT ![m] = "scheduled"]
      /\ outstanding_receives' = outstanding_receives + 1
      /\ blocking' = blocking \cup {m}
      /\ UNCHANGED <<outstanding_sends, call, args, oneshot, waiter, queue, js>>
  BY DEF ReceiveMessage
<1>2. m \notin blocking /\ (\A i \in DOMAIN queue : queue[i] # m) /\ m \notin Token
  BY <1>1, BridgeAssumption DEF ScheduledInv
<1>3. TypeInv' /\ QueueInv'
  BY <1>1, <1>2 DEF TypeInv, QueueInv, Closure
<1>4. ScheduledInv'
  BY <1>1, <1>2 DEF ScheduledInv, TypeInv
<1>5. Undecremented' = Undecremented \cup {m} /\ m \notin Undecremented
  BY <1>1, <1>2 DEF Undecremented
<1>6. ToDecrement' = ToDecrement
  BY <1>1, <1>2, <1>5 DEF ToDecrement
<1>7. SendsInv'
  BY <1>1, <1>6 DEF SendsInv, WellFormed
<1>8. ReceivesInv'
  <2>1. Undecremented' \cap Incoming = (Undecremented \cap Incoming) \cup {m}
    BY <1>5
  <2>2. IsFiniteSet(Undecremented \cap Incoming) /\ m \notin Undecremented \cap Incoming
    BY <1>5 DEF ReceivesInv
  <2>3. /\ IsFiniteSet(Undecremented' \cap Incoming)
        /\ Cardinality(Undecremented' \cap Incoming)
             = Cardinality(Undecremented \cap Incoming) + 1
    BY <2>1, <2>2, FS_AddElement
  <2> QED
    BY <1>1, <2>3 DEF ReceivesInv, ReceivesExact
<1> QED
  BY <1>3, <1>4, <1>7, <1>8

(* channel.send moves a closure and keeps what it will decrement; behind   *)
(* the closure that is running, if there is one.                           *)
LEMMA BlockingRunsIInv ==
  ASSUME IInv, NEW x \in blocking, BlockingRuns(x)
  PROVE  IInv'
<1> USE DEF IInv, StructInv
<1>1. /\ blocking' = blocking \ {x}
      /\ queue' = Append(queue, x)
      /\ UNCHANGED <<outstanding_sends, outstanding_receives, call, args, oneshot,
                     waiter, receive, js>>
  BY DEF BlockingRuns, counters
<1>2. /\ queue \in Seq(Closure) /\ x \in Closure
      /\ queue' \in Seq(Closure) /\ queue' # <<>>
      /\ Len(queue) \in Nat
      /\ DOMAIN queue = 1 .. Len(queue) /\ DOMAIN queue' = 1 .. (Len(queue) + 1)
      /\ \A i \in 1 .. Len(queue) : queue'[i] = queue[i]
      /\ queue'[Len(queue) + 1] = x
  BY <1>1, AppendProperties, LenProperties DEF TypeInv
<1>3. \A i \in DOMAIN queue : queue[i] # x
  BY DEF QueueInv
<1>4. js # "idle" => Len(queue) > 0
  BY <1>2, EmptySeq DEF QueueInv
<1>5. TypeInv'
  BY <1>1, <1>2 DEF TypeInv
<1>6. QueueInv'
  <2>1. ASSUME NEW i \in DOMAIN queue', NEW j \in DOMAIN queue', queue'[i] = queue'[j]
        PROVE  i = j
    <3>1. CASE i = Len(queue) + 1 \/ j = Len(queue) + 1
      BY <2>1, <3>1, <1>2, <1>3
    <3>2. CASE i # Len(queue) + 1 /\ j # Len(queue) + 1
      BY <2>1, <3>2, <1>2 DEF QueueInv
    <3> QED
      BY <3>1, <3>2
  <2>2. \A i \in DOMAIN queue' : queue'[i] \notin blocking'
    BY <1>1, <1>2, <1>3 DEF QueueInv
  <2> QED
    BY <1>2, <2>1, <2>2 DEF QueueInv
<1>7. \A y : y \in blocking' \/ (\E i \in DOMAIN queue' : queue'[i] = y) =>
             y \in blocking \/ \E i \in DOMAIN queue : queue[i] = y
  BY <1>1, <1>2
<1>8. ScheduledInv'
  BY <1>1, <1>7 DEF ScheduledInv
<1>9. Undecremented' = Undecremented
  <2>1. \A y : y \in Undecremented =>
               y \in blocking \/ \E i \in DOMAIN queue : queue[i] = y /\ (js = "idle" \/ i > 1)
    BY DEF Undecremented
  <2>2. ASSUME NEW y \in Undecremented PROVE y \in Undecremented'
    BY <2>1, <1>1, <1>2, <1>4 DEF Undecremented
  <2>3. ASSUME NEW y \in Undecremented' PROVE y \in Undecremented
    BY <1>1, <1>2 DEF Undecremented
  <2> QED
    BY <2>2, <2>3
<1>10. ToDecrement' = ToDecrement
  BY <1>1, <1>9 DEF ToDecrement
<1>11. SendsInv' /\ ReceivesInv'
  BY <1>1, <1>9, <1>10, CountsStep DEF counters, WellFormed
<1> QED
  BY <1>5, <1>6, <1>8, <1>11

(* A closure that starts pays its decrement: it was counted, and is not    *)
(* any more.                                                               *)
LEMMA ClosureStartsIInv ==
  ASSUME IInv, ClosureStarts
  PROVE  IInv'
<1> USE DEF IInv, StructInv
<1> DEFINE x == Head(queue)
<1>1. /\ js = "idle" /\ js' = "callback"
      /\ queue # <<>>
      /\ outstanding_sends' = outstanding_sends - (IF x \in Token THEN 1 ELSE 0)
      /\ outstanding_receives' = outstanding_receives - (IF x \in Incoming THEN 1 ELSE 0)
      /\ UNCHANGED <<call, args, oneshot, waiter, receive, blocking, queue>>
  BY DEF ClosureStarts, Decrement
<1>2. /\ x \in Closure /\ Len(queue) \in Nat \ {0}
      /\ DOMAIN queue = 1 .. Len(queue) /\ x = queue[1]
  BY <1>1, HeadTailProperties, LenProperties, EmptySeq DEF TypeInv
<1> HIDE DEF x
<1>3. Undecremented' = Undecremented \ {x} /\ x \in Undecremented
  <2>1. x \notin blocking /\ \A i \in DOMAIN queue : queue[i] = x => i = 1
    BY <1>2 DEF QueueInv
  <2>2. \A y : y \in Undecremented <=> y \in blocking \/ \E i \in DOMAIN queue : queue[i] = y
    BY <1>1 DEF Undecremented
  <2>3. \A y : y \in Undecremented' <=>
                 y \in blocking \/ \E i \in DOMAIN queue : queue[i] = y /\ i > 1
    BY <1>1 DEF Undecremented
  <2> QED
    BY <1>2, <2>1, <2>2, <2>3
<1>4. /\ x \in Token <=> x \notin Incoming
      /\ x \in Token => waiter[x] = "scheduled"
  <2>1. \A t \in Token : t \notin Incoming
    BY BridgeAssumption
  <2>2. \A t \in Token : (\E i \in DOMAIN queue : queue[i] = t) => waiter[t] = "scheduled"
    BY DEF ScheduledInv
  <2>3. 1 \in DOMAIN queue
    BY <1>2
  <2> QED
    BY <1>2, <2>1, <2>2, <2>3 DEF Closure
<1>5. ToDecrement' = ToDecrement \ {x} /\ (x \in Token => x \in ToDecrement)
  BY <1>1, <1>3, <1>4 DEF ToDecrement
<1>6. SendsInv' /\ outstanding_sends' \in Nat
  <2>1. CASE x \in Token
    <3>1. /\ IsFiniteSet(ToDecrement') /\ Cardinality(ToDecrement') \in Nat
          /\ Cardinality(ToDecrement') = Cardinality(ToDecrement) - 1
      BY <2>1, <1>5, FS_RemoveElement, CountType DEF SendsInv
    <3>2. WellFormed' => WellFormed
      BY <1>1 DEF WellFormed
    <3>3. Cardinality(ToDecrement) \in Nat /\ outstanding_sends \in Nat
      BY CountType DEF SendsInv, TypeInv
    <3> QED
      BY <2>1, <1>1, <3>1, <3>2, <3>3 DEF SendsInv
  <2>2. CASE x \notin Token
    <3>1. ToDecrement' = ToDecrement
      BY <2>2, <1>5 DEF ToDecrement
    <3>2. outstanding_sends' = outstanding_sends
      BY <2>2, <1>1 DEF TypeInv
    <3> QED
      BY <1>1, <3>1, <3>2 DEF SendsInv, WellFormed, TypeInv
  <2> QED
    BY <2>1, <2>2
<1>7. ReceivesInv' /\ outstanding_receives' \in Nat
  <2> DEFINE U == Undecremented \cap Incoming
  <2>1. Undecremented' \cap Incoming = U \ {x}
    BY <1>3
  <2>2. IsFiniteSet(U) /\ outstanding_receives = Cardinality(U)
    BY DEF ReceivesInv, ReceivesExact
  <2>3. x \in U <=> x \in Incoming
    BY <1>3
  <2> HIDE DEF U
  <2>4. /\ IsFiniteSet(U \ {x}) /\ Cardinality(U \ {x}) \in Nat
        /\ Cardinality(U \ {x}) = IF x \in U THEN Cardinality(U) - 1 ELSE Cardinality(U)
    BY <2>2, FS_RemoveElement, CountType
  <2>5. Cardinality(U) \in Nat
    BY <2>2, CountType
  <2>6. outstanding_receives' = Cardinality(U \ {x})
    BY <1>1, <2>2, <2>3, <2>4, <2>5
  <2> QED
    BY <2>1, <2>4, <2>6 DEF ReceivesInv, ReceivesExact
<1>8. TypeInv' /\ QueueInv' /\ ScheduledInv'
  BY <1>1, <1>6, <1>7 DEF TypeInv, QueueInv, ScheduledInv
<1> QED
  BY <1>6, <1>7, <1>8

(* A closure that ends leaves the queue; it had paid when it started.      *)
LEMMA ClosureEndsIInv ==
  ASSUME IInv, ClosureEnds
  PROVE  IInv'
<1> USE DEF IInv, StructInv
<1> DEFINE x == Head(queue)
<1>1. /\ js = "callback" /\ js' = "idle"
      /\ waiter' = [t \in Token |-> IF t = x THEN "done" ELSE waiter[t]]
      /\ receive' = [m \in Incoming |-> IF m = x THEN "done" ELSE receive[m]]
      /\ queue' = Tail(queue)
      /\ UNCHANGED <<outstanding_sends, outstanding_receives, call, args, oneshot, blocking>>
  BY DEF ClosureEnds, counters
<1>2. queue \in Seq(Closure) /\ queue # <<>>
  BY <1>1 DEF TypeInv, QueueInv
<1>3. /\ x \in Closure /\ Len(queue) \in Nat \ {0} /\ x = queue[1]
      /\ DOMAIN queue = 1 .. Len(queue)
      /\ queue' \in Seq(Closure) /\ DOMAIN queue' = 1 .. (Len(queue) - 1)
      /\ \A i \in 1 .. (Len(queue) - 1) : queue'[i] = queue[i + 1]
  BY <1>1, <1>2, HeadTailProperties, LenProperties, EmptySeq
<1> HIDE DEF x
<1>4. x \notin blocking /\ \A i \in DOMAIN queue : queue[i] = x => i = 1
  BY <1>3 DEF QueueInv
<1>5. \A y : (\E i \in DOMAIN queue' : queue'[i] = y) <=>
             (\E i \in DOMAIN queue : queue[i] = y /\ i > 1)
  <2>1. ASSUME NEW i \in DOMAIN queue'
        PROVE  i + 1 \in DOMAIN queue /\ i + 1 > 1 /\ queue'[i] = queue[i + 1]
    BY <1>3
  <2>2. ASSUME NEW i \in DOMAIN queue, i > 1
        PROVE  i - 1 \in DOMAIN queue' /\ queue'[i - 1] = queue[i]
    BY <2>2, <1>3
  <2> QED
    BY <2>1, <2>2
<1>6. TypeInv'
  BY <1>1, <1>3 DEF TypeInv
<1>7. QueueInv'
  BY <1>1, <1>3 DEF QueueInv
<1>8. \A y : y \in blocking \/ (\E i \in DOMAIN queue' : queue'[i] = y) =>
             y # x /\ (y \in blocking \/ \E i \in DOMAIN queue : queue[i] = y)
  BY <1>4, <1>5
<1>9. ScheduledInv'
  <2>1. \A t \in Token : t # x => waiter'[t] = waiter[t]
    BY <1>1
  <2>2. \A m \in Incoming : m # x => receive'[m] = receive[m]
    BY <1>1
  <2>3. x \in Token => call[x[1]] # "idle"
    BY <1>3 DEF ScheduledInv
  <2> QED
    BY <1>1, <1>8, <2>1, <2>2, <2>3 DEF ScheduledInv
<1>10. Undecremented' = Undecremented
  BY <1>1, <1>5 DEF Undecremented
<1>11. ToDecrement' = ToDecrement
  <2>1. x \in Token => waiter[x] = "scheduled"
    BY <1>3 DEF ScheduledInv
  <2>2. \A t \in Token : waiter'[t] = "waiting" <=> waiter[t] = "waiting"
    BY <1>1, <2>1
  <2> QED
    BY <1>1, <1>10, <2>2 DEF ToDecrement
<1>12. SendsInv' /\ ReceivesInv'
  BY <1>1, <1>10, <1>11, CountsStep DEF counters, WellFormed
<1> QED
  BY <1>6, <1>7, <1>9, <1>12

-----------------------------------------------------------------------------
(* Every step of the three kinds of threads preserves the invariant.       *)
LEMMA NextIInv == IInv /\ [Next]_vars => IInv'
<1> SUFFICES ASSUME IInv, [Next]_vars PROVE IInv'
  OBVIOUS
<1>1. CASE UNCHANGED vars
  <2>1. UNCHANGED <<outstanding_sends, outstanding_receives, call, args, oneshot,
                    waiter, receive, blocking, queue, js>>
    BY <1>1 DEF vars, counters
  <2>2. StructInv'
    BY <2>1 DEF IInv, StructInv, TypeInv, QueueInv, ScheduledInv
  <2>3. ToDecrement' = ToDecrement /\ Undecremented' = Undecremented
    BY <2>1 DEF ToDecrement, Undecremented
  <2>4. SendsInv' /\ ReceivesInv'
    BY <2>1, <2>3, CountsStep DEF IInv, counters, WellFormed
  <2> QED
    BY <2>2, <2>4 DEF IInv
<1> QED
  BY <1>1, NativeSendIInv, SenderNotifiesIInv, WaiterWakesIInv, WaiterPanicsIInv,
     ReceiveMessageIInv, BlockingRunsIInv, ClosureStartsIInv, ClosureEndsIInv
  DEF Next

(* The inductive invariant holds of every behaviour of the bridge.         *)
THEOREM BridgeInvariant == Spec => []IInv
  BY InitIInv, NextIInv, PTL DEF Spec

(* fetch_sub of outstanding_sends never wraps below zero, whatever arrays  *)
(* callers pass: it covers every decrement still to come.                  *)
THEOREM BridgeSendsNeverUnderflow == Spec => []SendsNeverUnderflow
<1>1. IInv => SendsNeverUnderflow
  BY DEF IInv, SendsInv, SendsNeverUnderflow
<1> QED
  BY <1>1, BridgeInvariant, PTL

(* outstanding_receives counts exactly the messages of the listener whose  *)
(* closure has not begun.                                                  *)
THEOREM BridgeReceivesExact == Spec => []ReceivesExact
<1>1. IInv => ReceivesExact
  BY DEF IInv, ReceivesInv
<1> QED
  BY <1>1, BridgeInvariant, PTL

(* When only well-formed, awaited calls were made and all their callbacks  *)
(* have returned, outstanding_sends is back at zero.                       *)
THEOREM BridgeAwaitedSendsDrain == Spec => []AwaitedSendsDrain
<1>1. IInv => AwaitedSendsDrain
  <2> SUFFICES ASSUME IInv, Quiet, WellFormed PROVE outstanding_sends = 0
    BY DEF AwaitedSendsDrain, WellFormed
  <2>1. \A t \in Token : waiter[t] # "waiting" /\ waiter[t] # "scheduled"
    BY DEF Quiet
  <2>2. \A t \in Token : t \notin Undecremented
    BY <2>1 DEF IInv, StructInv, ScheduledInv, Undecremented
  <2>3. ToDecrement = {}
    BY <2>1, <2>2 DEF ToDecrement
  <2> QED
    BY <2>3, FS_EmptySet DEF IInv, SendsInv
<1> QED
  BY <1>1, BridgeInvariant, PTL
=============================================================================
