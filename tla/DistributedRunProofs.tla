------------------------ MODULE DistributedRunProofs ------------------------
(***************************************************************************)
(* The safety properties of DistributedRun, for any number of tasks and    *)
(* workers, any concurrency and any number of faults.  What the executor   *)
(* and the workers keep is proved in their own modules, and used here of   *)
(* their instances E and W; what is left is where they meet.               *)
(***************************************************************************)
EXTENDS DistributedRun, TLAPS

E == INSTANCE TaskGraphExecutorProofs WITH DispatchMode <- "task_queue"
W == INSTANCE WorkerProofs

\* What one side knows of the other: a task is in the stream only when it
\* was dispatched, and is completed only when its result is stored.
Meeting ==
  \A t \in Tasks :
    /\ status[t] = E!PENDING \/ call[t] = "enqueueing" => t \notin W!InStream
    /\ status[t] = E!COMPLETED => t \in stored
    /\ call[t] \notin {"executing", "hooks"}

RunInv == E!ExecutorInv /\ W!WorkerInv /\ Meeting

-----------------------------------------------------------------------------
(* The two sides are those of the component modules                        *)

LEMMA SameSets == ASSUME NEW S
                  PROVE  /\ Queue!Cardinality(S) = W!Cardinality(S)
                         /\ IsFiniteSet(S) <=> W!IsFiniteSet(S)
                         /\ IsFiniteSet(S) <=> E!IsFiniteSet(S)
BY DEF Queue!Cardinality, W!Cardinality, IsFiniteSet, W!IsFiniteSet, E!IsFiniteSet

LEMMA Assumptions ==
  /\ W!QueueTasksAssumption /\ W!WorkersAssumption
  /\ W!ConcurrencyAssumption /\ W!BoundsAssumption
  /\ E!TasksAssumption /\ E!ModeAssumption /\ E!CostAssumption
BY SameSets, RunAssumption
DEF W!QueueTasksAssumption, W!WorkersAssumption, W!ConcurrencyAssumption,
    W!BoundsAssumption, E!TasksAssumption, E!ModeAssumption, E!CostAssumption

LEMMA SameWords ==
  /\ E!PENDING = Executor!PENDING /\ E!RUNNING = Executor!RUNNING
  /\ E!COMPLETED = Executor!COMPLETED /\ E!FAILED = Executor!FAILED
  /\ E!PENDING # E!COMPLETED /\ E!PENDING # E!FAILED /\ E!COMPLETED # E!FAILED
  /\ E!RUNNING # E!PENDING /\ E!RUNNING # E!COMPLETED
BY DEF E!PENDING, E!RUNNING, E!COMPLETED, E!FAILED, Executor!PENDING,
       Executor!RUNNING, Executor!COMPLETED, Executor!FAILED

\* The queue's operations.
LEMMA SameQueue ==
  ASSUME NEW t
  PROVE  /\ Queue!XAdd(t) <=> W!XAdd(t)
         /\ Queue!XReadGroup(t) <=> W!XReadGroup(t)
         /\ Queue!XAck(t) <=> W!XAck(t)
         /\ Queue!DelNackKey(t) <=> W!DelNackKey(t)
         /\ Queue!Nack(t) <=> W!Nack(t)
         /\ Queue!StoreResult(t) <=> W!StoreResult(t)
         /\ (UNCHANGED Queue!queueVars) <=> (UNCHANGED W!queueVars)
BY DEF Queue!XAdd, W!XAdd, Queue!XReadGroup, W!XReadGroup, Queue!XAck, W!XAck,
       Queue!DelNackKey, W!DelNackKey, Queue!Nack, W!Nack, Queue!MaxNacks, W!MaxNacks,
       Queue!InStream, W!InStream, Queue!StoreResult, W!StoreResult,
       Queue!queueVars, W!queueVars

\* What one worker does.
LEMMA SameProcess ==
  ASSUME NEW w
  PROVE  Queue!ProcessStep(w) <=> W!ProcessStep(w)
BY SameQueue
DEF Queue!ProcessStep, W!ProcessStep, Queue!Start, W!Start, Queue!SeeStop, W!SeeStop,
    Queue!Exit, W!Exit, Queue!Idle, W!Idle, Queue!Dequeue, W!Dequeue

LEMMA SameJob ==
  ASSUME NEW w, NEW t
  PROVE  Queue!JobStep(w, t) <=> W!JobStep(w, t)
<1> USE SameQueue DEF Queue!Advance, W!Advance
<1>1. Queue!Acquire(w, t) <=> W!Acquire(w, t)
  <2>1. Queue!Holders(w) = W!Holders(w)
    BY DEF Queue!Holders, W!Holders, Queue!Holding, W!Holding
  <2>2. Queue!Cardinality(W!Holders(w)) = W!Cardinality(W!Holders(w))
    BY SameSets
  <2> QED BY <2>1, <2>2 DEF Queue!Acquire, W!Acquire
<1>2. /\ Queue!RunReturns(w, t) <=> W!RunReturns(w, t)
      /\ Queue!RunRaises(w, t) <=> W!RunRaises(w, t)
      /\ Queue!Store(w, t) <=> W!Store(w, t)
      /\ Queue!Publish(w, t) <=> W!Publish(w, t)
  BY DEF Queue!RunReturns, W!RunReturns, Queue!RunRaises, W!RunRaises,
         Queue!Store, W!Store, Queue!Publish, W!Publish
<1>3. /\ Queue!Acknowledge(w, t) <=> W!Acknowledge(w, t)
      /\ Queue!Clear(w, t) <=> W!Clear(w, t)
      /\ Queue!NackMessage(w, t) <=> W!NackMessage(w, t)
      /\ Queue!EmitMetric(w, t) <=> W!EmitMetric(w, t)
  BY DEF Queue!Acknowledge, W!Acknowledge, Queue!Clear, W!Clear,
         Queue!NackMessage, W!NackMessage, Queue!EmitMetric, W!EmitMetric
<1> QED BY <1>1, <1>2, <1>3 DEF Queue!JobStep, W!JobStep

LEMMA SameFault ==
  ASSUME NEW w
  PROVE  Queue!Fault(w) <=> W!Fault(w)
<1> USE SameQueue
<1>1. ASSUME NEW t PROVE Queue!CallRaises(w, t) <=> W!CallRaises(w, t)
  BY DEF Queue!CallRaises, W!CallRaises, Queue!Advance, W!Advance,
         Queue!Effect, W!Effect
<1>2. /\ Queue!Crash(w) <=> W!Crash(w)
      /\ Queue!SigTerm(w) <=> W!SigTerm(w)
      /\ Queue!DequeueRaises(w) <=> W!DequeueRaises(w)
  BY DEF Queue!Crash, W!Crash, Queue!SigTerm, W!SigTerm,
         Queue!DequeueRaises, W!DequeueRaises
<1> QED BY <1>1, <1>2 DEF Queue!Fault, W!Fault

LEMMA SameWorkers == Queue!WorkersNext <=> W!WorkersNext
BY SameProcess, SameJob, SameFault DEF Queue!WorkersNext, W!WorkersNext

\* What the executor does.
LEMMA SameGraph ==
  /\ Executor!Ready = E!Ready
  /\ Executor!IsComplete(status) <=> E!IsComplete(status)
  /\ Executor!HasFailed(status) <=> E!HasFailed(status)
  /\ Executor!OverBudget <=> E!OverBudget
  /\ \A t, d : Executor!WithDependency(deps, t, d) = E!WithDependency(deps, t, d)
<1> USE SameWords
<1>1. Executor!Ready = E!Ready
  BY DEF Executor!Ready, E!Ready, Executor!ReadyTasks, E!ReadyTasks
<1>2. /\ Executor!IsComplete(status) <=> E!IsComplete(status)
      /\ Executor!HasFailed(status) <=> E!HasFailed(status)
      /\ Executor!OverBudget <=> E!OverBudget
  BY DEF Executor!IsComplete, E!IsComplete, Executor!HasFailed, E!HasFailed,
         Executor!OverBudget, E!OverBudget
<1>3. ASSUME NEW d0 PROVE Executor!Acyclic(d0) <=> E!Acyclic(d0)
  BY DEF Executor!Acyclic, E!Acyclic
<1>4. \A t, d : Executor!WithDependency(deps, t, d) = E!WithDependency(deps, t, d)
  BY <1>3 DEF Executor!WithDependency, E!WithDependency
<1> QED BY <1>1, <1>2, <1>4

LEMMA SameBuild == Executor!Build <=> E!Build
BY SameGraph
DEF Executor!Build, E!Build, Executor!CallRun, E!CallRun,
    Executor!AddDependency, E!AddDependency

LEMMA SameLoop == Executor!RunLoop <=> E!RunLoop
<1> USE SameGraph, SameWords DEF Executor!MayGoOn, E!MayGoOn
<1>1. /\ Executor!ReturnComplete <=> E!ReturnComplete
      /\ Executor!ReturnOnTimeout <=> E!ReturnOnTimeout
      /\ Executor!ReturnOnBudget <=> E!ReturnOnBudget
      /\ Executor!ReturnStalled <=> E!ReturnStalled
  BY DEF Executor!ReturnComplete, E!ReturnComplete, Executor!ReturnOnTimeout,
         E!ReturnOnTimeout, Executor!ReturnOnBudget, E!ReturnOnBudget,
         Executor!ReturnStalled, E!ReturnStalled, Executor!Return, E!Return
<1>2. Executor!StartBatch <=> E!StartBatch
  BY DEF Executor!StartBatch, E!StartBatch
<1>3. Executor!Join <=> E!Join
  BY DEF Executor!Join, E!Join, Executor!Awaiting, E!Awaiting,
         Executor!Returned, E!Returned
<1> QED BY <1>1, <1>2, <1>3 DEF Executor!RunLoop, E!RunLoop

LEMMA SameCall ==
  ASSUME NEW t
  PROVE  /\ Executor!Enqueued(t) <=> E!Enqueued(t)
         /\ Executor!QueueRaises(t) <=> E!QueueRaises(t)
         /\ \A cost : Executor!PollHit(t, cost) <=> E!PollHit(t, cost)
         /\ Executor!PollMiss(t) <=> E!PollMiss(t)
         /\ Executor!PollAgain(t) <=> E!PollAgain(t)
         /\ Executor!TaskTimeout(t) <=> E!TaskTimeout(t)
BY SameWords
DEF Executor!Enqueued, E!Enqueued, Executor!QueueRaises, E!QueueRaises,
    Executor!PollHit, E!PollHit, Executor!PollMiss, E!PollMiss,
    Executor!PollAgain, E!PollAgain, Executor!TaskTimeout, E!TaskTimeout,
    Executor!Succeed, E!Succeed, Executor!Fail, E!Fail

LEMMA SameClocks == /\ Executor!GlobalClock <=> E!GlobalClock
                    /\ \A t : Executor!TaskClock(t) <=> E!TaskClock(t)
BY DEF Executor!GlobalClock, E!GlobalClock, Executor!TaskClock, E!TaskClock

-----------------------------------------------------------------------------
(* Every step is one of the executor, or leaves it alone                   *)

LEMMA ExecutorSteps == [Next]_vars => [E!Next]_(E!executorVars)
<1> SUFFICES ASSUME [Next]_vars PROVE E!Next \/ UNCHANGED executorVars
  BY DEF E!executorVars, executorVars
<1>1. ASSUME NEW t \in Tasks, RunOne(t) \/ EnqueueRaises(t) \/ PollRaises(t)
      PROVE  E!ThroughQueue(t)
  <2> USE SameCall DEF E!ThroughQueue
  <2>1. CASE RunOne(t)
    BY <2>1 DEF RunOne, Enqueue, PollHit, PollMiss
  <2>2. CASE EnqueueRaises(t) \/ PollRaises(t)
    BY <2>2 DEF EnqueueRaises, PollRaises
  <2> QED BY <1>1, <2>1, <2>2
<1>2. CASE WorkersNext \/ UNCHANGED vars
  BY <1>2 DEF WorkersNext, vars
<1>3. CASE Build \/ RunLoop \/ GlobalClock \/ \E t \in Tasks : Clock(t)
  BY <1>3, SameBuild, SameLoop, SameClocks
  DEF E!Next, Build, RunLoop, GlobalClock, Clock
<1> QED BY <1>1, <1>2, <1>3 DEF Next, E!Next

-----------------------------------------------------------------------------
(* The invariant                                                           *)

LEMMA InitInv == Init => RunInv
<1> SUFFICES ASSUME Init PROVE RunInv
  OBVIOUS
<1>1. E!Init
  BY SameWords DEF Init, Executor!Init, E!Init, Executor!NoDependencies, E!NoDependencies
<1>2. W!Init
  BY DEF Init, Queue!Init, W!Init, Queue!QueueInit, W!QueueInit
<1>3. E!ExecutorInv /\ W!WorkerInv
  BY <1>1, <1>2, Assumptions, E!InitInv, W!InitInv DEF E!InitInv, W!InitInv
<1>4. W!InStream = {}
  BY <1>2 DEF W!Init, W!QueueInit, W!InStream
<1>5. Meeting
  BY <1>1, <1>4, SameWords DEF E!Init, Meeting
<1> QED BY <1>3, <1>5 DEF RunInv

\* The entries of the stream after XADD.
LEMMA AddedToStream ==
  ASSUME W!WorkerInv, NEW t \in Tasks, W!XAdd(t)
  PROVE  W!InStream' = W!InStream \cup {t} /\ stored' = stored
<1>1. /\ stream' = Append(stream, t)
      /\ Len(stream') = Len(stream) + 1 /\ Len(stream) \in Nat
      /\ \A i \in 1..Len(stream) : stream'[i] = stream[i]
      /\ stream'[Len(stream) + 1] = t
  BY DEF W!XAdd, W!WorkerInv, W!TypeOK, W!QueueTypeOK
<1>2. 1..Len(stream') = (1..Len(stream)) \cup {Len(stream) + 1}
  BY <1>1
<1> QED BY <1>1, <1>2 DEF W!InStream, W!XAdd

\* Workers neither add to the stream nor take a result back.
LEMMA WorkersSpareStream ==
  ASSUME W!WorkersNext
  PROVE  stream' = stream /\ stored \subseteq stored'
<1> USE DEF W!XReadGroup, W!XAck, W!DelNackKey, W!Nack, W!StoreResult, W!queueVars
<1>1. ASSUME NEW w, W!ProcessStep(w) PROVE stream' = stream /\ stored \subseteq stored'
  BY <1>1 DEF W!ProcessStep, W!Start, W!SeeStop, W!Exit, W!Dequeue
<1>2. ASSUME NEW w, NEW t, W!JobStep(w, t) PROVE stream' = stream /\ stored \subseteq stored'
  BY <1>2 DEF W!JobStep, W!Acquire, W!RunReturns, W!RunRaises, W!Store, W!Publish,
              W!Acknowledge, W!Clear, W!NackMessage, W!EmitMetric
<1>3. ASSUME NEW w, NEW t, W!CallRaises(w, t)
      PROVE  stream' = stream /\ stored \subseteq stored'
  <2>1. CASE UNCHANGED W!queueVars
    BY <2>1
  <2>2. CASE W!Effect(job[w][t], t)
    <3>1. job[w][t] \in {"storing", "publishing", "acking", "clearing", "nacking"}
      BY <1>3 DEF W!CallRaises
    <3> QED BY <2>2, <3>1 DEF W!Effect
  <2> QED BY <1>3, <2>1, <2>2 DEF W!CallRaises
<1>4. ASSUME NEW w, W!Fault(w) PROVE stream' = stream /\ stored \subseteq stored'
  BY <1>3, <1>4 DEF W!Fault, W!Crash, W!SigTerm, W!DequeueRaises
<1> QED BY <1>1, <1>2, <1>4 DEF W!WorkersNext

\* The workers' side: the executor enqueues what is not in the stream yet.
LEMMA WorkersKept == RunInv /\ [Next]_vars => W!WorkerInv'
<1> SUFFICES ASSUME RunInv, [Next]_vars PROVE W!WorkerInv'
  OBVIOUS
<1> USE Assumptions, SameQueue DEF RunInv
<1>0. faults \in Nat /\ faults \in 0..MaxFaults /\ MaxFaults \in Nat
  BY RunAssumption DEF W!WorkerInv, W!TypeOK
<1>1. CASE WorkersNext
  BY <1>1, SameWorkers, W!WorkersKeepInv DEF WorkersNext, W!WorkersKeepInv
<1>2. CASE UNCHANGED <<queueVars, workerVars>>
  BY <1>2, W!StutterKeepsInv
  DEF W!StutterKeepsInv, W!vars, W!queueVars, W!workerVars, queueVars, workerVars
<1>3. ASSUME NEW t \in Tasks, Queue!XAdd(t), call[t] = "enqueueing",
             UNCHANGED <<loop, stop, job, runs, stops>>, faults' \in faults..MaxFaults
      PROVE  W!WorkerInv'
  <2>1. t \notin W!InStream
    BY <1>3 DEF Meeting
  <2> QED BY <1>3, <2>1, W!AddKeepsInv DEF W!AddKeepsInv
<1>4. ASSUME UNCHANGED <<queueVars, loop, stop, job, runs, stops>>, faults' \in faults..MaxFaults
      PROVE  W!WorkerInv'
  BY <1>4, W!CountingKeepsInv DEF W!CountingKeepsInv, W!queueVars, queueVars
<1>5. ASSUME NEW t \in Tasks, Enqueue(t) PROVE W!WorkerInv'
  <2>1. faults' \in faults..MaxFaults
    BY <1>0, <1>5 DEF Enqueue, workerVars
  <2> QED BY <1>3, <1>5, <2>1 DEF Enqueue, Executor!Enqueued, workerVars
<1>6. ASSUME NEW t \in Tasks, EnqueueRaises(t) \/ PollRaises(t) PROVE W!WorkerInv'
  <2>1. faults' \in faults..MaxFaults
    BY <1>0, <1>6 DEF EnqueueRaises, PollRaises
  <2> QED BY <1>3, <1>4, <1>6, <2>1 DEF EnqueueRaises, PollRaises
<1>7. ASSUME NEW t \in Tasks, RunOne(t), ~Enqueue(t) PROVE W!WorkerInv'
  BY <1>2, <1>7 DEF RunOne, PollHit, PollMiss
<1> QED BY <1>1, <1>2, <1>5, <1>6, <1>7 DEF Next, Build, RunLoop, GlobalClock, Clock, vars

\* One coroutine moves, on its own task.
LEMMA CallKeepsMeeting ==
  ASSUME RunInv, NEW t \in Tasks, NEW s, NEW c,
         call' = [call EXCEPT ![t] = c], status' = [status EXCEPT ![t] = s],
         s # E!PENDING, s = E!COMPLETED => t \in stored,
         c \notin {"executing", "hooks", "enqueueing"},
         W!InStream' \subseteq W!InStream \cup {t}, stored' = stored
  PROVE  Meeting'
<1>1. call \in [Tasks -> {"idle"} \cup E!Awaiting \cup E!Returned] /\ status \in [Tasks -> E!TaskStatus]
  BY DEF RunInv, E!ExecutorInv, E!TypeOK
<1>2. /\ call'[t] = c /\ status'[t] = s
      /\ \A u \in Tasks : u # t => call'[u] = call[u] /\ status'[u] = status[u]
  BY <1>1
<1> QED BY <1>2 DEF RunInv, Meeting

LEMMA MeetingKept == RunInv /\ [Next]_vars => Meeting'
<1> SUFFICES ASSUME RunInv, [Next]_vars PROVE Meeting'
  OBVIOUS
<1> USE SameWords
<1>0. /\ status \in [Tasks -> E!TaskStatus]
      /\ \A t \in Tasks : call[t] \in {"enqueueing", "polling", "missed"} => status[t] = E!RUNNING
  BY DEF RunInv, E!ExecutorInv, E!TypeOK, E!CallMatchesStatus, E!Awaiting
<1>1. CASE WorkersNext
  <2>1. stream' = stream /\ stored \subseteq stored' /\ UNCHANGED <<status, call>>
    BY <1>1, SameWorkers, WorkersSpareStream DEF WorkersNext, executorVars
  <2> QED BY <2>1 DEF RunInv, Meeting, W!InStream
<1>2. CASE UNCHANGED <<status, call, stream, stored>>
  BY <1>2 DEF RunInv, Meeting, W!InStream
<1>3. CASE RunLoop
  <2>1. UNCHANGED <<stream, stored>>
    BY <1>3 DEF RunLoop, queueVars
  <2>2. CASE Executor!StartBatch
    <3>1. \A t \in Tasks : \/ status'[t] = E!RUNNING /\ call'[t] = "enqueueing" /\ status[t] = E!PENDING
                           \/ status'[t] = status[t] /\ call'[t] = call[t]
      BY <2>2 DEF Executor!StartBatch, Executor!Ready, Executor!ReadyTasks
    <3> QED BY <2>1, <3>1 DEF RunInv, Meeting, W!InStream
  <2>3. CASE Executor!Join
    BY <2>1, <2>3 DEF Executor!Join, RunInv, Meeting, W!InStream
  <2> QED BY <1>2, <1>3, <2>1, <2>2, <2>3
      DEF RunLoop, Executor!RunLoop, Executor!ReturnComplete, Executor!ReturnOnTimeout,
          Executor!ReturnOnBudget, Executor!ReturnStalled, Executor!Return
<1>4. ASSUME NEW t \in Tasks, Executor!Fail(t),
             W!InStream' \subseteq W!InStream \cup {t}, stored' = stored
      PROVE  Meeting'
  BY <1>4, CallKeepsMeeting DEF Executor!Fail
<1>5. ASSUME NEW t \in Tasks, Queue!XAdd(t)
      PROVE  W!InStream' \subseteq W!InStream \cup {t} /\ stored' = stored
  BY <1>5, SameQueue, AddedToStream DEF RunInv
<1>6. ASSUME UNCHANGED queueVars, NEW t
      PROVE  W!InStream' \subseteq W!InStream \cup {t} /\ stored' = stored
  BY <1>6 DEF queueVars, W!InStream
<1>7. ASSUME NEW t \in Tasks, EnqueueRaises(t) \/ PollRaises(t) PROVE Meeting'
  BY <1>4, <1>5, <1>6, <1>7 DEF EnqueueRaises, PollRaises, Executor!QueueRaises, queueVars
<1>8. ASSUME NEW t \in Tasks, RunOne(t) PROVE Meeting'
  <2>1. CASE Enqueue(t)
    <3>1. call' = [call EXCEPT ![t] = "polling"] /\ status' = [status EXCEPT ![t] = E!RUNNING]
      BY <1>0, <2>1 DEF Enqueue, Executor!Enqueued
    <3> QED BY <1>5, <2>1, <3>1, CallKeepsMeeting DEF Enqueue
  <2>2. CASE PollMiss(t) \/ (Executor!PollAgain(t) /\ UNCHANGED queueVars)
    <3>1. PICK c \in {"polling", "missed"} : call' = [call EXCEPT ![t] = c]
      BY <2>2 DEF PollMiss, Executor!PollMiss, Executor!PollAgain
    <3>2. status' = [status EXCEPT ![t] = E!RUNNING] /\ UNCHANGED queueVars
      BY <1>0, <2>2 DEF PollMiss, Executor!PollMiss, Executor!PollAgain
    <3> QED BY <1>6, <3>1, <3>2, CallKeepsMeeting
  <2>3. ASSUME NEW cost \in Costs, PollHit(t, cost) PROVE Meeting'
    <3>1. /\ t \in stored /\ UNCHANGED queueVars
          /\ call' = [call EXCEPT ![t] = "ok"]
          /\ status' = [status EXCEPT ![t] = E!COMPLETED]
      BY <2>3 DEF PollHit, Executor!PollHit, Executor!Succeed
    <3> QED BY <1>6, <3>1, CallKeepsMeeting
  <2>4. CASE Executor!TaskTimeout(t) /\ UNCHANGED queueVars
    BY <1>4, <1>6, <2>4 DEF Executor!TaskTimeout
  <2> QED BY <1>8, <2>1, <2>2, <2>3, <2>4 DEF RunOne
<1>9. CASE Build \/ GlobalClock \/ \E t \in Tasks : Clock(t)
  BY <1>2, <1>9 DEF Build, GlobalClock, Clock, queueVars, Executor!Build, Executor!CallRun,
                    Executor!AddDependency, Executor!GlobalClock, Executor!TaskClock
<1>10. CASE UNCHANGED vars
  BY <1>2, <1>10 DEF vars, executorVars, queueVars
<1> QED BY <1>1, <1>3, <1>7, <1>8, <1>9, <1>10 DEF Next

LEMMA StepInv == RunInv /\ [Next]_vars => RunInv'
<1>1. E!ExecutorInv /\ [Next]_vars => E!ExecutorInv'
  BY ExecutorSteps, Assumptions, E!StepKeepsInv DEF E!StepKeepsInv
<1> QED BY <1>1, WorkersKept, MeetingKept DEF RunInv

(* RunInv holds in every reachable state.                                  *)
THEOREM Invariance == Spec => []RunInv
BY InitInv, StepInv, PTL DEF Spec

-----------------------------------------------------------------------------
(* What follows                                                            *)

(* Every variable keeps its type.                                          *)
THEOREM TypeCorrect == Spec => []TypeOK
<1>1. E!TypeOK => Executor!TypeOK
  BY SameWords
  DEF Executor!TypeOK, E!TypeOK, Executor!Dependencies, E!Dependencies,
      Executor!TaskStatus, E!TaskStatus, Executor!Phases, E!Phases,
      Executor!Returns, E!Returns, Executor!Awaiting, E!Awaiting,
      Executor!Returned, E!Returned
<1>2. W!TypeOK => Queue!TypeOK
  BY DEF Queue!TypeOK, W!TypeOK, Queue!QueueTypeOK, W!QueueTypeOK,
         Queue!JobState, W!JobState, Queue!Holding, W!Holding
<1>3. RunInv => TypeOK
  BY <1>1, <1>2 DEF RunInv, E!ExecutorInv, W!WorkerInv, TypeOK
<1> QED BY <1>3, Invariance, PTL

\* A task that was executed was delivered, hence dispatched.
LEMMA RunsWereDispatched ==
  ASSUME RunInv, NEW t \in Tasks
  PROVE  /\ runs[t] > 0 \/ t \in stored => status[t] # E!PENDING
         /\ runs[t] <= 1
         /\ t \in stored => runs[t] = 1
         /\ runs[t] \in Nat
<1>1. /\ runs[t] \in Nat /\ runs[t] <= 1
      /\ t \in stored => runs[t] = 1
      /\ t \notin W!Delivered => runs[t] = 0
  BY DEF RunInv, W!WorkerInv, W!TypeOK, W!TaskInv
<1>2. W!Delivered \subseteq W!InStream
  BY DEF RunInv, W!WorkerInv, W!TypeOK, W!QueueTypeOK, W!Delivered, W!InStream
<1> QED BY <1>1, <1>2 DEF RunInv, Meeting

(* A worker begins a task only when every predecessor is completed and its *)
(* result is stored (worker.py:118, task_graph.py:142).                    *)
THEOREM ExecutionFollowsTheGraph == Spec => []ExecutedAfterPredecessors
<1>1. ASSUME RunInv, NEW t \in Tasks, runs[t] > 0, NEW p \in deps[t]
      PROVE  status[p] = Executor!COMPLETED /\ p \in stored
  <2>1. p \in Tasks
    BY <1>1 DEF RunInv, E!ExecutorInv, E!TypeOK, E!Dependencies
  <2>2. status[t] # E!PENDING
    BY <1>1, RunsWereDispatched
  <2>3. status[p] = E!COMPLETED
    BY <1>1, <2>2 DEF RunInv, E!ExecutorInv, E!DependentsWait
  <2> QED BY <1>1, <2>1, <2>3, SameWords DEF RunInv, Meeting
<1>2. RunInv => ExecutedAfterPredecessors
  BY <1>1 DEF ExecutedAfterPredecessors
<1> QED BY <1>2, Invariance, PTL

(* No task is executed twice in a run, whatever calls fail and whichever   *)
(* workers crash.                                                          *)
THEOREM AtMostOnce == Spec => []ExecutedAtMostOnce
<1>1. RunInv => ExecutedAtMostOnce
  BY RunsWereDispatched DEF ExecutedAtMostOnce
<1> QED BY <1>1, Invariance, PTL

(* What is reported as completed was executed and has its result; what was *)
(* never dispatched was not executed.                                      *)
THEOREM CompletedMeansExecuted == Spec => []CompletedWasExecuted
<1>1. ASSUME RunInv, NEW t \in Tasks
      PROVE  /\ status[t] = Executor!COMPLETED => runs[t] = 1 /\ t \in stored
             /\ status[t] = Executor!PENDING => runs[t] = 0 /\ t \notin stored
  BY <1>1, RunsWereDispatched, SameWords DEF RunInv, Meeting
<1>2. RunInv => CompletedWasExecuted
  BY <1>1 DEF CompletedWasExecuted
<1> QED BY <1>2, Invariance, PTL

(* A task that was failed stays failed when its result is stored late      *)
(* (task_graph.py:176-190).                                                *)
THEOREM LateResultsAreIgnored == Spec => LateResultIgnored
<1>1. ASSUME RunInv, [Next]_vars, NEW t \in Tasks, status[t] = Executor!FAILED
      PROVE  status'[t] = Executor!FAILED
  <2>1. E!ExecutorInv /\ [E!Next]_(E!executorVars) /\ call[t] # "hooks"
    BY <1>1, ExecutorSteps DEF RunInv, Meeting
  <2>2. status[t] = E!FAILED
    BY <1>1, SameWords
  <2>3. status'[t] = status[t]
    BY <2>1, <2>2, Assumptions, E!VerdictStep DEF E!VerdictStep
  <2> QED BY <1>1, <2>3
<1>2. RunInv /\ [Next]_vars
        => [\A t \in Tasks : status[t] = Executor!FAILED => status'[t] = Executor!FAILED]_vars
  BY <1>1
<1> QED BY <1>2, Invariance, PTL DEF Spec, LateResultIgnored

(* The orchestrator's side of a distributed run is a run of the executor   *)
(* alone, whatever the workers do.                                         *)
THEOREM RunImplementsExecutor == Spec => E!Spec
<1>1. Init => E!Init
  BY SameWords DEF Init, Executor!Init, E!Init, Executor!NoDependencies, E!NoDependencies
<1> QED BY <1>1, ExecutorSteps, PTL DEF Spec, E!Spec

(* And so a distributed run is an abstract schedule: a task begins once,   *)
(* after its predecessors, and its verdict is given once.                  *)
THEOREM RunImplementsSchedule == Spec => E!ImplementsSchedule
<1>1. E!Spec => E!ImplementsSchedule
  BY Assumptions, E!ExecutorImplementsSchedule DEF E!ExecutorImplementsSchedule
<1> QED BY <1>1, RunImplementsExecutor, PTL

=============================================================================
