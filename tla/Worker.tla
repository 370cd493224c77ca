------------------------------- MODULE Worker -------------------------------
(***************************************************************************)
(* The worker processes of coordination/worker.py that serve one role, on  *)
(* the queue of RedisTaskQueue.  A worker's loop dequeues without bound    *)
(* and starts one _process_one() coroutine ("job") per message; a          *)
(* semaphore lets Concurrency of them past their first line.  A step is    *)
(* what a worker does between two awaits, one Redis round trip at most.    *)
(*                                                                         *)
(* Faults: a process may be killed at any point, a Redis call may raise    *)
(* with or without having taken effect, and SIGTERM may arrive; the        *)
(* deployment restarts what has exited.                                    *)
(***************************************************************************)
EXTENDS RedisTaskQueue

CONSTANTS Workers,
          Concurrency,  \* SWARM_WORKER_CONCURRENCY, at least 1
          MaxFaults,    \* bound on crashes and Redis errors
          MaxStops      \* bound on SIGTERMs

ASSUME WorkersAssumption == IsFiniteSet(Workers)
ASSUME ConcurrencyAssumption == Concurrency \in Nat \ {0}
ASSUME BoundsAssumption == MaxFaults \in Nat /\ MaxStops \in Nat

VARIABLES loop,    \* loop[w]: "down", "up" (awaits dequeue) or "drain"
          stop,    \* stop[w]: the event SIGTERM sets
          job,     \* job[w][t]: where _process_one(t) of worker w is
          runs,    \* runs[t]: executions of t begun so far (history)
          faults,  \* faults so far
          stops    \* SIGTERMs so far

workerVars == <<loop, stop, job, runs, faults, stops>>
vars == <<queueVars, workerVars>>

(***************************************************************************)
(* _process_one: "queued" waits for the semaphore; "running" awaits        *)
(* agent.run_task; "storing", "publishing", "acking", "clearing",          *)
(* "nacking" and "metric" await the Redis call of that name.               *)
(***************************************************************************)
Holding == {"running", "storing", "publishing", "acking", "clearing",
            "nacking", "metric"}
JobState == {"none", "queued"} \cup Holding

Init == /\ QueueInit
        /\ loop = [w \in Workers |-> "down"]
        /\ stop = [w \in Workers |-> FALSE]
        /\ job = [w \in Workers |-> [t \in Tasks |-> "none"]]
        /\ runs = [t \in Tasks |-> 0]
        /\ faults = 0
        /\ stops = 0

Idle(w) == \A t \in Tasks : job[w][t] = "none"

\* The jobs inside "async with sem".
Holders(w) == {t \in Tasks : job[w][t] \in Holding}

\* Nobody is working on t.
Unattended(t) == \A w \in Workers : job[w][t] = "none"

-----------------------------------------------------------------------------
(* The process and its loop                                                *)

Start(w) ==
  /\ loop[w] = "down"
  /\ loop' = [loop EXCEPT ![w] = "up"]
  /\ stop' = [stop EXCEPT ![w] = FALSE]
  /\ UNCHANGED <<queueVars, job, runs, faults, stops>>

\* dequeue returns a message: its job is created, then the loop looks at
\* the stop event, so a message that was on its way is still taken.
Dequeue(w, t) ==
  /\ loop[w] = "up"
  /\ XReadGroup(t)
  /\ job' = [job EXCEPT ![w][t] = "queued"]
  /\ loop' = [loop EXCEPT ![w] = IF stop[w] THEN "drain" ELSE "up"]
  /\ UNCHANGED <<stop, runs, faults, stops>>

\* dequeue returns None after its 2 s and the loop sees the stop event.
\* Without the event it reads again: no change.
SeeStop(w) ==
  /\ loop[w] = "up" /\ stop[w]
  /\ loop' = [loop EXCEPT ![w] = "drain"]
  /\ UNCHANGED <<queueVars, stop, job, runs, faults, stops>>

\* dequeue raises: the reply is lost, after the group was given the message
\* or before, or the payload does not parse.  The loop ends by its finally.
DequeueRaises(w) ==
  /\ loop[w] = "up" /\ faults < MaxFaults
  /\ (\E t \in Tasks : XReadGroup(t)) \/ UNCHANGED queueVars
  /\ loop' = [loop EXCEPT ![w] = "drain"]
  /\ faults' = faults + 1
  /\ UNCHANGED <<stop, job, runs, stops>>

\* Variant: the loop's finally does not wait for the jobs.
Exit_atOnce(w) ==
  /\ loop[w] = "drain"
  /\ loop' = [loop EXCEPT ![w] = "down"]
  /\ job' = [job EXCEPT ![w] = [t \in Tasks |-> "none"]]
  /\ UNCHANGED <<queueVars, stop, runs, faults, stops>>

\* The finally of the loop: gather() the jobs, close, exit.
Exit(w) ==
  /\ loop[w] = "drain" /\ Idle(w)
  /\ loop' = [loop EXCEPT ![w] = "down"]
  /\ UNCHANGED <<queueVars, stop, job, runs, faults, stops>>

SigTerm(w) ==
  /\ loop[w] # "down" /\ ~stop[w] /\ stops < MaxStops
  /\ stop' = [stop EXCEPT ![w] = TRUE]
  /\ stops' = stops + 1
  /\ UNCHANGED <<queueVars, loop, job, runs, faults>>

\* The process is killed; what it held in memory is gone.
Crash(w) ==
  /\ loop[w] # "down" /\ faults < MaxFaults
  /\ loop' = [loop EXCEPT ![w] = "down"]
  /\ job' = [job EXCEPT ![w] = [t \in Tasks |-> "none"]]
  /\ faults' = faults + 1
  /\ UNCHANGED <<queueVars, stop, runs, stops>>

-----------------------------------------------------------------------------
(* One job                                                                 *)

Advance(w, t, from, to) ==
  /\ job[w][t] = from
  /\ job' = [job EXCEPT ![w][t] = to]
  /\ UNCHANGED <<loop, stop, stops>>

\* Variant: the semaphore has one slot less.
Acquire_oneLess(w, t) ==
  /\ Cardinality(Holders(w)) + 1 < Concurrency
  /\ Advance(w, t, "queued", "running")
  /\ runs' = [runs EXCEPT ![t] = @ + 1]
  /\ UNCHANGED <<queueVars, faults>>

\* The semaphore is acquired and the agent started.
Acquire(w, t) ==
  /\ Cardinality(Holders(w)) < Concurrency
  /\ Advance(w, t, "queued", "running")
  /\ runs' = [runs EXCEPT ![t] = @ + 1]
  /\ UNCHANGED <<queueVars, faults>>

RunReturns(w, t) ==
  /\ Advance(w, t, "running", "storing")
  /\ UNCHANGED <<queueVars, runs, faults>>

\* Variant: the agent's error is swallowed.
RunRaises_swallowed(w, t) ==
  /\ Advance(w, t, "running", "metric")
  /\ UNCHANGED <<queueVars, runs, faults>>

\* The agent raises: no provider, budget, iteration limit, a model error.
RunRaises(w, t) ==
  /\ Advance(w, t, "running", "nacking")
  /\ UNCHANGED <<queueVars, runs, faults>>

Store(w, t) ==
  /\ Advance(w, t, "storing", "publishing")
  /\ StoreResult(t)
  /\ UNCHANGED <<runs, faults>>

\* Variant: the acknowledgement is forgotten.
Publish_noAck(w, t) ==
  /\ Advance(w, t, "publishing", "metric")
  /\ UNCHANGED <<queueVars, runs, faults>>

\* The notification has no reader: the orchestrator polls.
Publish(w, t) ==
  /\ Advance(w, t, "publishing", "acking")
  /\ UNCHANGED <<queueVars, runs, faults>>

Acknowledge(w, t) ==
  /\ Advance(w, t, "acking", "clearing")
  /\ XAck(t)
  /\ UNCHANGED <<runs, faults>>

Clear(w, t) ==
  /\ Advance(w, t, "clearing", "metric")
  /\ DelNackKey(t)
  /\ UNCHANGED <<runs, faults>>

NackMessage(w, t) ==
  /\ Advance(w, t, "nacking", "metric")
  /\ Nack(t)
  /\ UNCHANGED <<runs, faults>>

\* Variant: the semaphore is never released.
EmitMetric_holding(w, t) ==
  /\ Advance(w, t, "metric", "metric")
  /\ UNCHANGED <<queueVars, runs, faults>>

\* emit_metric, whose errors are ignored; then the semaphore is released.
EmitMetric(w, t) ==
  /\ Advance(w, t, "metric", "none")
  /\ UNCHANGED <<queueVars, runs, faults>>

\* What a call does on the server when its reply is lost.
Effect(state, t) ==
  CASE state = "storing"    -> StoreResult(t)
    [] state = "publishing" -> UNCHANGED queueVars
    [] state = "acking"     -> XAck(t)
    [] state = "clearing"   -> DelNackKey(t)
    [] state = "nacking"    -> Nack(t)

\* A call raises, with or without its effect: the handler goes on to nack.
\* When nack itself raises the error leaves the job, by way of its finally.
CallRaises(w, t) ==
  /\ job[w][t] \in {"storing", "publishing", "acking", "clearing", "nacking"}
  /\ faults < MaxFaults
  /\ Advance(w, t, job[w][t],
             IF job[w][t] = "nacking" THEN "metric" ELSE "nacking")
  /\ Effect(job[w][t], t) \/ UNCHANGED queueVars
  /\ faults' = faults + 1
  /\ UNCHANGED runs

-----------------------------------------------------------------------------
JobStep(w, t) ==
  \/ Acquire(w, t) \/ RunReturns(w, t) \/ RunRaises(w, t)
  \/ Store(w, t) \/ Publish(w, t) \/ Acknowledge(w, t) \/ Clear(w, t)
  \/ NackMessage(w, t) \/ EmitMetric(w, t)

ProcessStep(w) ==
  \/ Start(w) \/ SeeStop(w) \/ Exit(w)
  \/ \E t \in Tasks : Dequeue(w, t)

Fault(w) ==
  \/ Crash(w) \/ SigTerm(w) \/ DequeueRaises(w)
  \/ \E t \in Tasks : CallRaises(w, t)

WorkersNext ==
  \E w \in Workers : \/ ProcessStep(w) \/ Fault(w)
                     \/ \E t \in Tasks : JobStep(w, t)

\* The producer: each task is enqueued once, when the executor likes.
Produce(t) == /\ t \notin InStream
              /\ XAdd(t)
              /\ UNCHANGED workerVars

Next == WorkersNext \/ \E t \in Tasks : Produce(t)

Spec == Init /\ [][Next]_vars

(***************************************************************************)
(* A worker that is down is restarted, one that reads is given what there  *)
(* is, and a job's calls return or raise: an agent has an iteration limit  *)
(* and the calls it awaits have timeouts.  Nothing makes a producer        *)
(* produce, or a fault happen.                                             *)
(***************************************************************************)
WorkerFairness ==
  \A w \in Workers : /\ WF_vars(ProcessStep(w))
                     /\ \A t \in Tasks : WF_vars(JobStep(w, t))

FairSpec == Spec /\ WorkerFairness

-----------------------------------------------------------------------------
(* Properties                                                              *)

\* Every variable keeps its type.
TypeOK ==
  /\ QueueTypeOK
  /\ loop \in [Workers -> {"down", "up", "drain"}]
  /\ stop \in [Workers -> BOOLEAN]
  /\ job \in [Workers -> [Tasks -> JobState]]
  /\ runs \in [Tasks -> Nat]
  /\ faults \in 0..MaxFaults
  /\ stops \in 0..MaxStops

(***************************************************************************)
(* No task is executed twice, whatever crashes, is restarted or gets its   *)
(* reply lost: delivery is at most once, because dequeue() reads ">" only  *)
(* and nobody claims pending entries (task_queue.py:177-183).              *)
(***************************************************************************)
ExecutedAtMostOnce == \A t \in Tasks : runs[t] <= 1

(***************************************************************************)
(* The other side of it: a message is nacked at most once, so the third    *)
(* nack, the only way into the dead-letter stream, does not happen and the *)
(* stream stays empty (task_queue.py:208-219).                             *)
(***************************************************************************)
DeadLetterUnreachable ==
  dlq = {} /\ \A t \in Tasks : nackCount[t] <= 1

(***************************************************************************)
(* An acknowledged task has its result stored: no crash or lost reply      *)
(* between the calls of a job leaves a message settled and the             *)
(* orchestrator without an answer (worker.py:134-139).                     *)
(***************************************************************************)
AckedHasResult == Acked \subseteq stored

(***************************************************************************)
(* However many messages the unbounded loop has dequeued, and however its  *)
(* jobs end, no more than Concurrency of them are past the semaphore       *)
(* (deployment.md:109, worker.py:107 and 113).                             *)
(***************************************************************************)
ConcurrencyBound == \A w \in Workers : Cardinality(Holders(w)) <= Concurrency

(***************************************************************************)
(* SIGTERM abandons nothing: as long as no process was killed and no Redis *)
(* call failed, a pending entry is being worked on or was nacked, although *)
(* the loop may take one more message after the signal, and exits with     *)
(* jobs still waiting for the semaphore (worker.py:160-173).               *)
(***************************************************************************)
NothingAbandoned ==
  faults = 0 =>
    \A t \in pel : ~Unattended(t) \/ nackCount[t] > 0

(***************************************************************************)
(* What is lost stays lost: a pending entry nobody works on, after a nack, *)
(* a crash or a lost reply, never comes back to a worker and is never      *)
(* acknowledged, since no code reads or claims pending entries.            *)
(***************************************************************************)
Lost == {t \in pel : Unattended(t)}

LostStaysLost == [][Lost \subseteq Lost']_vars

(***************************************************************************)
(* Every message that was enqueued is handed to a worker, and that worker  *)
(* is done with it at some point: neither the semaphore nor a shutdown     *)
(* leaves a job, or an entry of the stream, waiting for ever.              *)
(***************************************************************************)
EveryMessageIsHandled ==
  \A t \in Tasks : t \in InStream ~> (t \in Delivered /\ Unattended(t))

(***************************************************************************)
(* Without faults, what comes of it is a stored result, or a nack.         *)
(***************************************************************************)
AnsweredOrNacked ==
  \A t \in Tasks :
    t \in InStream ~> (t \in stored \/ nackCount[t] > 0 \/ faults > 0)

\* A worker told to stop does exit, having finished the jobs it took.
DrainEnds == \A w \in Workers : loop[w] = "drain" ~> loop[w] = "down"

-----------------------------------------------------------------------------
(* Claims of the documents that the code does not meet.                    *)

(***************************************************************************)
(* docs/keda-architecture.md:22 and the docstring of nack (task_queue.py   *)
(* line 43): a nacked message is requeued, and is moved to the dead-letter *)
(* stream by its third nack; at any rate it does not stay pending, nacked  *)
(* once, for ever.                                                         *)
(***************************************************************************)
NackedIsRetriedOrDeadLettered ==
  \A t \in Tasks :
    (nackCount[t] = 1 /\ t \in pel) ~> (runs[t] > 1 \/ t \in dlq \/ t \notin pel)

=============================================================================
