--------------------------- MODULE DistributedRun ---------------------------
(***************************************************************************)
(* A run of the swarm in the "redis-workers" and "kubernetes" deployment   *)
(* modes: the executor of TaskGraphExecutor, in the orchestrator's         *)
(* process, and the workers of Worker, in theirs, joined by the queue.     *)
(* SwarmRuntime.run creates the queue and hands it to the executor;        *)
(* _run_one enqueues its task and polls its result key; a worker takes the *)
(* message and stores the result.                                          *)
(***************************************************************************)
EXTENDS Naturals, Sequences, FiniteSets

CONSTANTS Tasks, Costs, GlobalBudget, Workers, Concurrency, MaxFaults, MaxStops

ASSUME RunAssumption ==
  /\ IsFiniteSet(Tasks) /\ IsFiniteSet(Workers)
  /\ Costs \subseteq Nat /\ GlobalBudget \in Nat
  /\ Concurrency \in Nat \ {0}
  /\ MaxFaults \in Nat /\ MaxStops \in Nat

VARIABLES deps, status, phase, call, totalCost, results, timeUp, expired,
          stream, delivered, pel, nackCount, dlq, stored,
          loop, stop, job, runs, faults, stops

Executor == INSTANCE TaskGraphExecutor WITH DispatchMode <- "task_queue"
Queue    == INSTANCE Worker

executorVars == <<deps, status, phase, call, totalCost, results, timeUp, expired>>
queueVars    == <<stream, delivered, pel, nackCount, dlq, stored>>
workerVars   == <<loop, stop, job, runs, faults, stops>>
vars         == <<executorVars, queueVars, workerVars>>

Init == Executor!Init /\ Queue!Init

-----------------------------------------------------------------------------
(* Where the two meet                                                      *)

Enqueue(t) ==
  /\ Executor!Enqueued(t)
  /\ Queue!XAdd(t)
  /\ UNCHANGED workerVars

\* XADD raises, and the entry may be in the stream all the same.
EnqueueRaises(t) ==
  /\ call[t] = "enqueueing" /\ Executor!QueueRaises(t)
  /\ Queue!XAdd(t) \/ UNCHANGED queueVars
  /\ faults < MaxFaults /\ faults' = faults + 1
  /\ UNCHANGED <<loop, stop, job, runs, stops>>

PollRaises(t) ==
  /\ call[t] = "polling" /\ Executor!QueueRaises(t)
  /\ faults < MaxFaults /\ faults' = faults + 1
  /\ UNCHANGED <<queueVars, loop, stop, job, runs, stops>>

\* Variant: any reply is taken for the result.
PollHit_anyReply(t, cost) ==
  /\ Executor!PollHit(t, cost)
  /\ UNCHANGED <<queueVars, workerVars>>

PollHit(t, cost) ==
  /\ t \in stored
  /\ Executor!PollHit(t, cost)
  /\ UNCHANGED <<queueVars, workerVars>>

PollMiss(t) ==
  /\ t \notin stored
  /\ Executor!PollMiss(t)
  /\ UNCHANGED <<queueVars, workerVars>>

-----------------------------------------------------------------------------
(* Steps of one side alone                                                 *)

\* What the coroutine of t does when it is its turn.
RunOne(t) == \/ Enqueue(t) \/ PollMiss(t)
             \/ \E cost \in Costs : PollHit(t, cost)
             \/ /\ Executor!PollAgain(t) \/ Executor!TaskTimeout(t)
                /\ UNCHANGED <<queueVars, workerVars>>

RunLoop == Executor!RunLoop /\ UNCHANGED <<queueVars, workerVars>>
Build   == Executor!Build /\ UNCHANGED <<queueVars, workerVars>>

Clock(t) == Executor!TaskClock(t) /\ UNCHANGED <<queueVars, workerVars>>
GlobalClock == Executor!GlobalClock /\ UNCHANGED <<queueVars, workerVars>>

WorkersNext == Queue!WorkersNext /\ UNCHANGED executorVars

Next == \/ Build \/ RunLoop \/ GlobalClock \/ WorkersNext
        \/ \E t \in Tasks : \/ RunOne(t) \/ Clock(t)
                            \/ EnqueueRaises(t) \/ PollRaises(t)

Spec == Init /\ [][Next]_vars

\* The fairness of the two sides.
WorkerStep(w)   == Queue!ProcessStep(w) /\ UNCHANGED executorVars
JobStep(w, t)   == Queue!JobStep(w, t) /\ UNCHANGED executorVars
StartRunning    == Executor!CallRun /\ UNCHANGED <<queueVars, workerVars>>

Fairness ==
  /\ WF_vars(StartRunning) /\ WF_vars(RunLoop)
  /\ \A t \in Tasks : WF_vars(RunOne(t)) /\ WF_vars(Clock(t))
  /\ \A w \in Workers : /\ WF_vars(WorkerStep(w))
                        /\ \A t \in Tasks : WF_vars(JobStep(w, t))

FairSpec == Spec /\ Fairness

-----------------------------------------------------------------------------
(* Properties                                                              *)

\* Every variable keeps its type.
TypeOK == Executor!TypeOK /\ Queue!TypeOK

(***************************************************************************)
(* A worker begins to execute a task only when the orchestrator has every  *)
(* predecessor completed, with its result stored; also when the task was   *)
(* given up meanwhile, or its message sat in the stream through crashes.   *)
(***************************************************************************)
ExecutedAfterPredecessors ==
  \A t \in Tasks :
    runs[t] > 0 => \A p \in deps[t] : status[p] = Executor!COMPLETED /\ p \in stored

(***************************************************************************)
(* A task is executed at most once in the whole run: the executor enqueues *)
(* it once, also when XADD raises after taking effect, and the workers     *)
(* deliver it at most once.                                                *)
(***************************************************************************)
ExecutedAtMostOnce == \A t \in Tasks : runs[t] <= 1

(***************************************************************************)
(* What the orchestrator reports as completed was executed and has a       *)
(* stored result; what was never dispatched was never executed.            *)
(***************************************************************************)
CompletedWasExecuted ==
  \A t \in Tasks : /\ status[t] = Executor!COMPLETED => runs[t] = 1 /\ t \in stored
                   /\ status[t] = Executor!PENDING => runs[t] = 0 /\ t \notin stored

(***************************************************************************)
(* A late answer changes nothing: a task that was failed, on its timeout   *)
(* or on an error, stays failed when its result is stored afterwards.      *)
(***************************************************************************)
LateResultIgnored ==
  [][\A t \in Tasks : status[t] = Executor!FAILED => status'[t] = Executor!FAILED]_vars

(***************************************************************************)
(* run() returns even if every worker is lost with the messages it took.   *)
(***************************************************************************)
RunReturns == <>(phase \in Executor!Returns)

(***************************************************************************)
(* After a run without faults in which everything completed, the workers   *)
(* acknowledge all they were given: nothing stays pending.                 *)
(***************************************************************************)
CompletedRunIsAcked ==
  (phase = "complete" /\ \A t \in Tasks : status[t] = Executor!COMPLETED)
    ~> (pel = {} \/ faults > 0)

=============================================================================
