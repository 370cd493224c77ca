--------------------------- MODULE RedisTaskQueue ---------------------------
(***************************************************************************)
(* RedisStreamTaskQueue of coordination/task_queue.py for one role: the    *)
(* stream {prefix}:tasks:{role} with its consumer group, the nack          *)
(* counters, the dead-letter stream and the result keys.  Roles share      *)
(* nothing but the metrics stream, which nobody reads, so one role is      *)
(* modelled.  Every operator is the effect one method has on the server;   *)
(* the callers, the orchestrator and the workers, decide when it happens.  *)
(*                                                                         *)
(* A message is named by its task: the executor enqueues a task once.      *)
(***************************************************************************)
EXTENDS Naturals, Sequences, FiniteSets

CONSTANT Tasks

ASSUME QueueTasksAssumption == IsFiniteSet(Tasks)

VARIABLES stream,     \* the entries of the stream; never trimmed
          delivered,  \* how many entries the group has been given
          pel,        \* the group's pending entries list
          nackCount,  \* {prefix}:nack:{role}:{message}
          dlq,        \* what the dead-letter stream holds
          stored      \* the tasks with a result key

queueVars == <<stream, delivered, pel, nackCount, dlq, stored>>

MaxNacks == 3

InStream == {stream[i] : i \in 1..Len(stream)}

\* The tasks the group was given, and those among them that are acknowledged.
Delivered == {stream[i] : i \in 1..delivered}
Acked     == Delivered \ pel

QueueInit == /\ stream = <<>>
             /\ delivered = 0
             /\ pel = {}
             /\ nackCount = [t \in Tasks |-> 0]
             /\ dlq = {}
             /\ stored = {}

\* enqueue: XADD.  The group exists already, or is created at entry 0.
XAdd(t) ==
  /\ stream' = Append(stream, t)
  /\ UNCHANGED <<delivered, pel, nackCount, dlq, stored>>

\* Variant: pending entries are read again.
XReadGroup_pending(t) ==
  \/ /\ delivered < Len(stream)
     /\ t = stream[delivered + 1]
     /\ delivered' = delivered + 1
     /\ pel' = pel \cup {t}
     /\ UNCHANGED <<stream, nackCount, dlq, stored>>
  \/ t \in pel /\ UNCHANGED queueVars

\* Variant: delivery settles the entry.
XReadGroup_noAck(t) ==
  /\ delivered < Len(stream)
  /\ t = stream[delivered + 1]
  /\ delivered' = delivered + 1
  /\ UNCHANGED <<stream, pel, nackCount, dlq, stored>>

\* dequeue: XREADGROUP with ">", the first entry no consumer was given.
XReadGroup(t) ==
  /\ delivered < Len(stream)
  /\ t = stream[delivered + 1]
  /\ delivered' = delivered + 1
  /\ pel' = pel \cup {t}
  /\ UNCHANGED <<stream, nackCount, dlq, stored>>

\* acknowledge: XACK, then DEL of the nack counter, two round trips.
XAck(t) ==
  /\ pel' = pel \ {t}
  /\ UNCHANGED <<stream, delivered, nackCount, dlq, stored>>

DelNackKey(t) ==
  /\ nackCount' = [nackCount EXCEPT ![t] = 0]
  /\ UNCHANGED <<stream, delivered, pel, dlq, stored>>

\* nack: the third one moves the entry to the dead-letter stream.
Nack(t) ==
  LET count == nackCount[t] + 1
  IN  /\ IF count >= MaxNacks
         THEN /\ dlq' = dlq \cup ({t} \cap InStream)
              /\ pel' = pel \ {t}
              /\ nackCount' = [nackCount EXCEPT ![t] = 0]
         ELSE /\ nackCount' = [nackCount EXCEPT ![t] = count]
              /\ UNCHANGED <<dlq, pel>>
      /\ UNCHANGED <<stream, delivered, stored>>

\* store_result: SET with a TTL of 3600 s, which outlives every poller.
StoreResult(t) ==
  /\ stored' = stored \cup {t}
  /\ UNCHANGED <<stream, delivered, pel, nackCount, dlq>>

\* depth: XLEN, which counts acknowledged entries too.
Depth == Len(stream)

\* Every variable keeps its type.
QueueTypeOK ==
  /\ stream \in Seq(Tasks)
  /\ delivered \in 0..Len(stream)
  /\ pel \subseteq Tasks
  /\ nackCount \in [Tasks -> Nat]
  /\ dlq \subseteq Tasks
  /\ stored \subseteq Tasks
=============================================================================
