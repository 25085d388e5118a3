------------------------------- MODULE Bridge -------------------------------
(***************************************************************************)
(* The neon bridge of lib.rs with the counters of stats.rs: what happens   *)
(* between a JavaScript call and its callback.                             *)
(*                                                                         *)
(* A native send counts its destinations in outstanding_sends, makes a     *)
(* oneshot channel for each host and spawns a waiter task on its receiving *)
(* end, and only then resolves the addresses and hands the sending ends to *)
(* the sender.  A waiter whose sending end is dropped panics; one that     *)
(* gets a result hands a closure to a blocking thread, which queues it for *)
(* the JavaScript thread, where it decrements the counter and calls back.  *)
(* Incoming messages take the same way in the other direction.             *)
(*                                                                         *)
(* The JavaScript thread runs one closure at a time.  The user's code runs *)
(* between two closures or in the callback of one, and may call the native *)
(* functions in both.                                                      *)
(***************************************************************************)
EXTENDS Integers, Sequences, FiniteSets

CONSTANTS
  Call,        \* native send calls
  Incoming,    \* messages the listener receives
  MaxTargets,  \* bound: length of the arrays given to multi_send_with_header
  Args,        \* the arguments callers use, see Arguments
  Stalled      \* destinations whose peer may take nothing for ever

Token == Call \X (1 .. MaxTargets)

(* kind: which function; ports, hosts: lengths of the two arrays; header:  *)
(* does header_from_json_string return a header; resolves: do the          *)
(* addresses; await: await_processing.                                     *)
Arguments ==
  [kind : {"send", "send_with_header", "multi_send_with_header"},
   ports : 0 .. MaxTargets, hosts : 0 .. MaxTargets,
   header : BOOLEAN, resolves : BOOLEAN, await : BOOLEAN]

ASSUME BridgeAssumption ==
  /\ MaxTargets \in Nat \ {0}
  /\ Args \subseteq Arguments
  /\ \A a \in Args : a.kind # "multi_send_with_header" =>
       a.ports = 1 /\ a.hosts = 1 /\ a.await
  /\ \A a \in Args : a.kind = "send" => a.header
  /\ Token \cap Incoming = {}
  /\ Stalled \subseteq Token

VARIABLES
  outstanding_sends,    \* AtomicUsize
  outstanding_receives, \* AtomicUsize
  call,                 \* "idle", "returned" or "thrown"
  args,                 \* the arguments of a call that was made
  oneshot,              \* the oneshot channel of a destination
  waiter,               \* its waiter task and the closure it hands on
  receive,              \* an incoming message on its way to the callback
  blocking,             \* closures in blocking threads, in no order
  queue,                \* closures queued for the JavaScript thread
  js                    \* is the JavaScript thread in a callback

counters == <<outstanding_sends, outstanding_receives>>
vars == <<counters, call, args, oneshot, waiter, receive, blocking, queue, js>>

Lesser(x, y) == IF x < y THEN x ELSE y

NoArgs == [kind |-> "none"]

Init ==
  /\ outstanding_sends = 0
  /\ outstanding_receives = 0
  /\ call = [c \in Call |-> "idle"]
  /\ args = [c \in Call |-> NoArgs]
  /\ oneshot = [t \in Token |-> "none"]
  /\ waiter = [t \in Token |-> "none"]
  /\ receive = [m \in Incoming |-> "none"]
  /\ blocking = {}
  /\ queue = <<>>
  /\ js = "idle"

-----------------------------------------------------------------------------
(* Mutant: the counter is incremented once for a call, not once for each   *)
(* destination.                                                            *)
CountedOnce(a) == 1

(* By how much a call raises outstanding_sends, before anything can fail.  *)
Counted(a) == a.ports

(* Does the call get as far as spawning its waiters and, beyond that, as   *)
(* handing the sending ends over?                                          *)
Spawns(a) == a.header
Sends(a)  == a.header /\ a.resolves /\ Lesser(a.ports, a.hosts) > 0

(* Mutant: a waiter is spawned for the first destination only.             *)
WaitedOne(c, a) == {<<c, i>> : i \in 1 .. Lesser(1, a.hosts)}

(* The destinations with a waiter, and those whose sending end goes to the *)
(* sender: the zips stop at the shorter array.                             *)
Waited(c, a) == {<<c, i>> : i \in 1 .. a.hosts}
Handed(c, a) == {<<c, i>> : i \in 1 .. Lesser(a.ports, a.hosts)}

(* send, send_with_header and multi_send_with_header up to their return or *)
(* throw.  Sending ends that were not handed over are dropped.             *)
NativeSend(c, a) ==
  /\ call[c] = "idle"
  /\ args' = [args EXCEPT ![c] = a]
  /\ call' = [call EXCEPT ![c] = IF Sends(a) THEN "returned" ELSE "thrown"]
  /\ outstanding_sends' = outstanding_sends + Counted(a)
  /\ IF Spawns(a)
     THEN /\ waiter' = [t \in Token |->
                          IF t \in Waited(c, a) THEN "waiting" ELSE waiter[t]]
          /\ oneshot' = [t \in Token |->
                           CASE t \notin Waited(c, a)            -> oneshot[t]
                             [] Sends(a) /\ t \in Handed(c, a)   -> "open"
                             [] OTHER                            -> "dropped"]
     ELSE UNCHANGED <<waiter, oneshot>>
  /\ UNCHANGED <<outstanding_receives, receive, blocking, queue, js>>

(* The sender uses complete_tx, once, with whatever result.                *)
SenderNotifies(t) ==
  /\ oneshot[t] = "open"
  /\ oneshot' = [oneshot EXCEPT ![t] = "sent"]
  /\ UNCHANGED <<counters, call, args, waiter, receive, blocking, queue, js>>

(* The waiter's receiver resolves: a closure for a blocking thread, or     *)
(* nothing if the caller does not await processing.                        *)
WaiterWakes(t) ==
  /\ waiter[t] = "waiting"
  /\ oneshot[t] = "sent"
  /\ IF args[t[1]].await
     THEN /\ waiter' = [waiter EXCEPT ![t] = "scheduled"]
          /\ blocking' = blocking \cup {t}
     ELSE /\ waiter' = [waiter EXCEPT ![t] = "skipped"]
          /\ UNCHANGED blocking
  /\ UNCHANGED <<counters, call, args, oneshot, receive, queue, js>>

(* expect("Complete send tx dropped before notify") on a dropped channel.  *)
WaiterPanics(t) ==
  /\ waiter[t] = "waiting"
  /\ oneshot[t] = "dropped"
  /\ waiter' = [waiter EXCEPT ![t] = "panicked"]
  /\ UNCHANGED <<counters, call, args, oneshot, receive, blocking, queue, js>>

(* Mutant: a try_send that gives up when something is already queued.      *)
BlockingRunsLossy(x) ==
  /\ x \in blocking
  /\ blocking' = blocking \ {x}
  /\ queue' = IF queue = <<>> THEN <<x>> ELSE queue
  /\ UNCHANGED <<counters, call, args, oneshot, waiter, receive, js>>

(* A blocking thread runs: channel.send.                                   *)
BlockingRuns(x) ==
  /\ x \in blocking
  /\ blocking' = blocking \ {x}
  /\ queue' = Append(queue, x)
  /\ UNCHANGED <<counters, call, args, oneshot, waiter, receive, js>>

-----------------------------------------------------------------------------
(* The listener's channel gives a message to the loop in listen.           *)
ReceiveMessage(m) ==
  /\ receive[m] = "none"
  /\ receive' = [receive EXCEPT ![m] = "scheduled"]
  /\ outstanding_receives' = outstanding_receives + 1
  /\ blocking' = blocking \cup {m}
  /\ UNCHANGED <<outstanding_sends, call, args, oneshot, waiter, queue, js>>

(* Mutant: every decrement goes to the counter of sends.                   *)
DecrementSendsOnly(x) ==
  /\ outstanding_sends' = outstanding_sends - 1
  /\ UNCHANGED outstanding_receives

(* decrement_outstanding_sends or ..._receives, by the kind of closure.    *)
Decrement(x) ==
  /\ outstanding_sends' = outstanding_sends - (IF x \in Token THEN 1 ELSE 0)
  /\ outstanding_receives' = outstanding_receives - (IF x \in Incoming THEN 1 ELSE 0)

(* A closure starts on the JavaScript thread: the counters, then the       *)
(* callback.  The statistics are borrowed only in between.                 *)
ClosureStarts ==
  /\ js = "idle"
  /\ queue # <<>>
  /\ Decrement(Head(queue))
  /\ js' = "callback"
  /\ UNCHANGED <<call, args, oneshot, waiter, receive, blocking, queue>>

(* The callback returns and the closure ends.                              *)
ClosureEnds ==
  /\ js = "callback"
  /\ LET x == Head(queue)
     IN  /\ waiter' = [t \in Token |-> IF t = x THEN "done" ELSE waiter[t]]
         /\ receive' = [m \in Incoming |-> IF m = x THEN "done" ELSE receive[m]]
  /\ queue' = Tail(queue)
  /\ js' = "idle"
  /\ UNCHANGED <<counters, call, args, oneshot, blocking>>

-----------------------------------------------------------------------------
Next ==
  \/ \E c \in Call, a \in Args : NativeSend(c, a)
  \/ \E t \in Token : SenderNotifies(t) \/ WaiterWakes(t) \/ WaiterPanics(t)
  \/ \E m \in Incoming : ReceiveMessage(m)
  \/ \E x \in blocking : BlockingRuns(x)
  \/ ClosureStarts
  \/ ClosureEnds

(* The runtime polls its tasks and runs its blocking closures, the         *)
(* JavaScript thread drains its queue and callbacks return.  The sender    *)
(* notifies of every send to a peer that does not stall, which is what     *)
(* EverySendCompletes says of it; connect and write_all have no timeout.   *)
Fairness ==
  /\ \A t \in Token \ Stalled : WF_vars(SenderNotifies(t))
  /\ \A t \in Token : WF_vars(WaiterWakes(t))
  /\ \A x \in Token \cup Incoming : WF_vars(BlockingRuns(x))
  /\ WF_vars(ClosureStarts \/ ClosureEnds)

Spec == Init /\ [][Next]_vars
FairSpec == Spec /\ Fairness

-----------------------------------------------------------------------------
(* The closures that have still to decrement a counter: of the head of the *)
(* queue only if it has not started.                                       *)
Undecremented ==
  blocking \cup {queue[i] : i \in {j \in DOMAIN queue : js = "idle" \/ j > 1}}

(* Completions that will decrement outstanding_sends.                      *)
ToDecrement ==
  {t \in Token :
     \/ /\ waiter[t] = "waiting"
        /\ oneshot[t] \in {"open", "sent"}
        /\ args[t[1]].await
     \/ t \in Undecremented}

(* fetch_sub(1) - 1 on an unsigned counter: whatever arrays of whatever    *)
(* lengths callers pass, whichever addresses fail to resolve and in        *)
(* whatever order completions arrive, the counter covers all the           *)
(* decrements still to come and never wraps below zero.                    *)
SendsNeverUnderflow == outstanding_sends >= Cardinality(ToDecrement)

(* outstanding_receives is exactly the number of messages taken from the   *)
(* listener whose closure has not begun on the JavaScript thread.          *)
ReceivesExact == outstanding_receives = Cardinality(Undecremented \cap Incoming)

Quiet == \A t \in Token : waiter[t] \in {"none", "skipped", "panicked", "done"}

(* When all calls were well formed and awaited and all their callbacks     *)
(* have returned, no send is outstanding.                                  *)
AwaitedSendsDrain ==
  /\ Quiet
  /\ \A c \in Call : call[c] # "idle" =>
       call[c] = "returned" /\ args[c].await /\ args[c].ports = args[c].hosts
  => outstanding_sends = 0

(* Every destination that was handed to the sender by a caller that awaits *)
(* processing gets its callback, unless its peer stalls: a stalled         *)
(* destination of the same call holds up no other.                         *)
EveryDestinationCallsBack ==
  \A t \in Token \ Stalled :
    oneshot[t] = "open" /\ args[t[1]].await ~> waiter[t] = "done"

(* Every message taken from the listener reaches the callback of listen,   *)
(* whatever completions and other messages overtake it and whichever peers *)
(* stall.                                                                  *)
EveryMessageCallsBack ==
  \A m \in Incoming : receive[m] = "scheduled" ~> receive[m] = "done"

-----------------------------------------------------------------------------
(* "this flag lets us skip the processing on the stats and the callback":  *)
(* a call that does not await processing leaves the statistics as they     *)
(* were once its sends are over.                                           *)
SkippedSendsLeaveStats ==
  /\ Quiet
  /\ \A c \in Call : call[c] # "idle" => call[c] = "returned"
  => outstanding_sends = 0

(* expect("Complete send tx dropped before notify"): the sending end of a  *)
(* completion is never dropped before it is used.                          *)
TxNeverDropped == \A t \in Token : waiter[t] # "panicked"
=============================================================================
