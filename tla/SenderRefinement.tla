-------------------------- MODULE SenderRefinement --------------------------
(* Sender implements SendService: the refinement mapping.                  *)
EXTENDS Sender

(* The caller knows a message's outcome once complete_tx was used.         *)
status ==
  [m \in Msg |->
     IF pc[m] = "idle" THEN "idle"
     ELSE IF pc[m] \notin {"drop", "done"} THEN "pending"
     ELSE IF result[m] = "ok" THEN "ok" ELSE "error"]

(* The complete frames of m on streams connected for messages to a.        *)
copies ==
  [m \in Msg |-> [a \in Addr |->
     Cardinality({c \in Copies(m) : dest[c[1][1]] = a})]]

Service == INSTANCE SendService WITH to <- dest

(* Caching, eviction, LRU replacement, mutexes and the retry on a fresh    *)
(* stream are invisible to the caller of ShardusNetSender: every behaviour *)
(* of the sender is one of SendService.                                    *)
ImplementsSendService == Service!Spec
=============================================================================
