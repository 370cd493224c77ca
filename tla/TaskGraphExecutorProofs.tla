---------------------- MODULE TaskGraphExecutorProofs ----------------------
(***************************************************************************)
(* The safety properties of TaskGraphExecutor, for every set of tasks,     *)
(* every acyclic graph the planner can build and both dispatch modes.      *)
(***************************************************************************)
EXTENDS TaskGraphExecutor, TLAPS

\* Before run() is called nothing has happened to any task.
BuildFirst ==
  phase = "build" => \A t \in Tasks : status[t] = PENDING /\ call[t] = "idle"

\* What the coroutine of a task is doing bounds what the task's status is.
CallMatchesStatus ==
  \A t \in Tasks :
    /\ phase # "batch" => call[t] = "idle"
    /\ call[t] = "idle" => status[t] # RUNNING
    /\ call[t] \in Awaiting \ {"hooks"} => status[t] = RUNNING
    /\ call[t] \in {"hooks", "ok"} => status[t] = COMPLETED
    /\ call[t] = "bad" => status[t] \in {COMPLETED, FAILED}

(***************************************************************************)
(* The barrier gather() makes: while a task's coroutine has not been       *)
(* joined, none of its dependents has been started.                        *)
(***************************************************************************)
Barrier ==
  \A t, u \in Tasks : call[t] # "idle" /\ t \in deps[u] => status[u] = PENDING

ExecutorInv == /\ TypeOK /\ Acyclic(deps) /\ BuildFirst /\ CallMatchesStatus
               /\ DependentsWait /\ Barrier

-----------------------------------------------------------------------------
LEMMA Statuses ==
  /\ PENDING # RUNNING /\ PENDING # COMPLETED /\ PENDING # FAILED
  /\ RUNNING # COMPLETED /\ RUNNING # FAILED /\ COMPLETED # FAILED
  /\ TaskStatus = {PENDING, RUNNING, COMPLETED, FAILED}
BY DEF PENDING, RUNNING, COMPLETED, FAILED, TaskStatus

(***************************************************************************)
(* add_dependency() with its rollback keeps the graph acyclic.             *)
(***************************************************************************)
LEMMA DependencyKeepsAcyclic ==
  ASSUME NEW d0 \in Dependencies, Acyclic(d0), NEW t \in Tasks, NEW d \in Tasks
  PROVE  WithDependency(d0, t, d) \in Dependencies /\ Acyclic(WithDependency(d0, t, d))
<1> DEFINE extended == [d0 EXCEPT ![t] = @ \cup {d}]
<1>1. extended \in Dependencies
  BY DEF Dependencies
<1>2. CASE Acyclic(extended)
  BY <1>1, <1>2 DEF WithDependency
<1>3. CASE ~Acyclic(extended)
  BY <1>3 DEF WithDependency
<1> QED BY <1>2, <1>3

LEMMA EmptyGraphIsAcyclic == NoDependencies \in Dependencies /\ Acyclic(NoDependencies)
BY DEF NoDependencies, Dependencies, Acyclic

-----------------------------------------------------------------------------
THEOREM InitInv == Init => ExecutorInv
<1> SUFFICES ASSUME Init PROVE ExecutorInv
  OBVIOUS
<1>1. TypeOK
  BY EmptyGraphIsAcyclic, Statuses DEF Init, TypeOK, Phases
<1>2. Acyclic(deps)
  BY EmptyGraphIsAcyclic DEF Init
<1>3. BuildFirst /\ CallMatchesStatus /\ DependentsWait /\ Barrier
  BY Statuses DEF Init, BuildFirst, CallMatchesStatus, DependentsWait, Barrier,
                  Awaiting, NoDependencies
<1> QED BY <1>1, <1>2, <1>3 DEF ExecutorInv

(***************************************************************************)
(* A step of one coroutine: it moves the call of t, which has been started *)
(* and not joined, and sets the status of t to something but pending.      *)
(***************************************************************************)
LEMMA OneCallMoves ==
  ASSUME ExecutorInv, NEW t \in Tasks, NEW s \in TaskStatus, NEW c,
         call[t] # "idle", s # PENDING, c # "idle",
         status' = [status EXCEPT ![t] = s], call' = [call EXCEPT ![t] = c],
         UNCHANGED <<deps, phase>>
  PROVE  DependentsWait' /\ Barrier' /\ BuildFirst' /\ phase = "batch"
<1> USE DEF ExecutorInv, TypeOK, Dependencies
<1>1. phase = "batch"
  BY DEF CallMatchesStatus
<1>2. status[t] # PENDING
  BY Statuses DEF CallMatchesStatus, Awaiting, Returned
<1>3. t \notin deps[t]
  BY <1>2 DEF Barrier
<1>4. DependentsWait'
  <2> SUFFICES ASSUME NEW u \in Tasks, status'[u] # PENDING, NEW p \in deps[u]
               PROVE  status'[p] = COMPLETED
    BY DEF DependentsWait
  <2>1. status[u] # PENDING
    BY <1>2
  <2>2. p \in Tasks /\ status[p] = COMPLETED
    BY <2>1 DEF DependentsWait
  <2>3. p # t
    BY <2>1 DEF Barrier
  <2> QED BY <2>2, <2>3
<1>5. Barrier'
  <2> SUFFICES ASSUME NEW v \in Tasks, NEW u \in Tasks, call'[v] # "idle", v \in deps[u]
               PROVE  status'[u] = PENDING
    BY DEF Barrier
  <2>1. call[v] # "idle"
    OBVIOUS
  <2>2. status[u] = PENDING
    BY <2>1 DEF Barrier
  <2>3. u # t
    BY <2>2, <1>2
  <2> QED BY <2>2, <2>3
<1> QED BY <1>1, <1>4, <1>5 DEF BuildFirst

LEMMA SucceedKeepsInv ==
  ASSUME ExecutorInv, NEW t \in Tasks, NEW cost \in Costs, NEW success \in BOOLEAN,
         call[t] # "idle", Succeed(t, cost, success)
  PROVE  ExecutorInv'
<1> DEFINE c == IF success THEN "ok" ELSE "bad"
<1>1. DependentsWait' /\ Barrier' /\ BuildFirst' /\ phase = "batch"
  <2>1. c # "idle" /\ COMPLETED \in TaskStatus /\ COMPLETED # PENDING
    BY Statuses
  <2>2. status' = [status EXCEPT ![t] = COMPLETED] /\ call' = [call EXCEPT ![t] = c]
    BY DEF Succeed
  <2>3. UNCHANGED <<deps, phase>>
    BY DEF Succeed
  <2> HIDE DEF c
  <2> QED BY <2>1, <2>2, <2>3, OneCallMoves
<1>2. TypeOK'
  <2>1. totalCost' \in Nat
    BY CostAssumption DEF ExecutorInv, TypeOK, Succeed
  <2> QED BY <2>1, Statuses DEF ExecutorInv, TypeOK, Succeed, Returned, Dependencies
<1>3. CallMatchesStatus'
  BY <1>1, Statuses DEF ExecutorInv, TypeOK, Succeed, CallMatchesStatus, Awaiting
<1>4. Acyclic(deps)'
  BY DEF Succeed, ExecutorInv
<1> QED BY <1>1, <1>2, <1>3, <1>4 DEF ExecutorInv

LEMMA FailKeepsInv ==
  ASSUME ExecutorInv, NEW t \in Tasks, call[t] # "idle", Fail(t)
  PROVE  ExecutorInv'
<1>1. DependentsWait' /\ Barrier' /\ BuildFirst' /\ phase = "batch"
  BY Statuses, OneCallMoves DEF Fail
<1>2. TypeOK'
  BY Statuses DEF ExecutorInv, TypeOK, Fail, Returned, Dependencies
<1>3. CallMatchesStatus'
  BY <1>1, Statuses DEF ExecutorInv, TypeOK, Fail, CallMatchesStatus, Awaiting
<1>4. Acyclic(deps)'
  BY DEF Fail, ExecutorInv
<1> QED BY <1>1, <1>2, <1>3, <1>4 DEF ExecutorInv

(***************************************************************************)
(* A coroutine goes from one await to the next without settling its task.  *)
(***************************************************************************)
LEMMA AwaitKeepsInv ==
  ASSUME ExecutorInv, NEW t \in Tasks, NEW c \in Awaiting \ {"hooks"},
         call[t] \in Awaiting \ {"hooks"},
         call' = [call EXCEPT ![t] = c],
         UNCHANGED <<deps, status, phase, totalCost, results, timeUp, expired>>
  PROVE  ExecutorInv'
<1>1. status[t] = RUNNING
  BY DEF ExecutorInv, CallMatchesStatus
<1>2. call[t] # "idle" /\ c # "idle"
  BY DEF Awaiting
<1>3. status' = [status EXCEPT ![t] = RUNNING]
  BY <1>1 DEF ExecutorInv, TypeOK
<1>4. DependentsWait' /\ Barrier' /\ BuildFirst' /\ phase = "batch"
  BY <1>2, <1>3, Statuses, OneCallMoves
<1>5. TypeOK'
  BY DEF ExecutorInv, TypeOK
<1>6. CallMatchesStatus'
  BY <1>1, <1>2, <1>4 DEF ExecutorInv, TypeOK, CallMatchesStatus, Awaiting
<1> QED BY <1>4, <1>5, <1>6 DEF ExecutorInv

-----------------------------------------------------------------------------
LEMMA StartBatchKeepsInv ==
  ASSUME ExecutorInv, StartBatch
  PROVE  ExecutorInv'
<1> USE DEF ExecutorInv
<1> DEFINE batch == Ready
<1>1. /\ batch \subseteq Tasks
      /\ \A t \in batch : status[t] = PENDING
      /\ \A t \in batch : \A p \in deps[t] : status[p] = COMPLETED
  BY DEF Ready, ReadyTasks
<1>2. /\ phase = "loop" /\ phase' = "batch" /\ deps' = deps
      /\ status' = [t \in Tasks |-> IF t \in batch THEN RUNNING ELSE status[t]]
  BY DEF StartBatch
<1>3. \A t \in Tasks : call[t] = "idle"
  BY <1>2 DEF CallMatchesStatus
<1>4. /\ \A t \in batch : call'[t] \in {"enqueueing", "executing"}
      /\ \A t \in Tasks \ batch : call'[t] = "idle"
      /\ DOMAIN call' = Tasks /\ call' = [t \in Tasks |-> call'[t]]
  BY <1>1, <1>3 DEF StartBatch
<1> HIDE DEF batch
<1>5. TypeOK'
  <2>1. status' \in [Tasks -> TaskStatus]
    BY <1>2, Statuses DEF TypeOK
  <2>2. call' \in [Tasks -> {"idle"} \cup Awaiting \cup Returned]
    BY <1>4 DEF Awaiting
  <2> QED BY <1>2, <2>1, <2>2 DEF TypeOK, StartBatch, Phases
<1>6. BuildFirst'
  BY <1>2 DEF BuildFirst
<1>7. CallMatchesStatus'
  BY <1>1, <1>2, <1>3, <1>4, Statuses DEF CallMatchesStatus, Awaiting
<1>8. DependentsWait'
  <2> SUFFICES ASSUME NEW u \in Tasks, status'[u] # PENDING, NEW p \in deps[u]
               PROVE  status'[p] = COMPLETED
    BY <1>2 DEF DependentsWait
  <2>1. p \in Tasks
    BY DEF TypeOK, Dependencies
  <2>2. status[p] = COMPLETED
    BY <1>1, <1>2 DEF DependentsWait
  <2> QED BY <1>1, <1>2, <2>1, <2>2, Statuses
<1>9. Barrier'
  <2> SUFFICES ASSUME NEW v \in Tasks, NEW u \in Tasks, call'[v] # "idle", v \in deps[u]
               PROVE  status'[u] = PENDING
    BY <1>2 DEF Barrier
  <2>1. v \in batch
    BY <1>4
  <2>2. status[v] # COMPLETED
    BY <1>1, <2>1, Statuses
  <2>3. status[u] = PENDING /\ u \notin batch
    BY <1>1, <2>2 DEF DependentsWait
  <2> QED BY <1>2, <2>3
<1> QED BY <1>2, <1>5, <1>6, <1>7, <1>8, <1>9

LEMMA JoinKeepsInv ==
  ASSUME ExecutorInv, Join
  PROVE  ExecutorInv'
<1> USE DEF ExecutorInv, Join
<1>1. \A t \in Tasks : status[t] # RUNNING
  BY Statuses DEF CallMatchesStatus, TypeOK, Awaiting, Returned
<1>2. TypeOK'
  <2>1. ASSUME NEW t \in Tasks
        PROVE  [task |-> t, success |-> call[t] = "ok"] \in [task : Tasks, success : BOOLEAN]
    <3>1. (call[t] = "ok") \in BOOLEAN
      OBVIOUS
    <3> HIDE DEF ExecutorInv, Join
    <3> QED BY <3>1, Zenon
  <2>2. results' \subseteq [task : Tasks, success : BOOLEAN]
    BY <2>1, Zenon DEF TypeOK
  <2> QED BY <2>2 DEF TypeOK, Phases
<1>3. BuildFirst' /\ CallMatchesStatus'
  BY <1>1 DEF BuildFirst, CallMatchesStatus, Awaiting
<1>4. DependentsWait' /\ Barrier'
  BY DEF DependentsWait, Barrier
<1> QED BY <1>2, <1>3, <1>4

(***************************************************************************)
(* Steps of run() and of the clocks that touch neither a task nor a call.  *)
(***************************************************************************)
LEMMA ReturnKeepsInv ==
  ASSUME ExecutorInv, NEW reason \in Returns, Return(reason)
  PROVE  ExecutorInv'
<1> USE DEF ExecutorInv, Return
<1>1. TypeOK'
  BY DEF TypeOK, Phases
<1>2. BuildFirst' /\ CallMatchesStatus'
  BY DEF BuildFirst, CallMatchesStatus, Returns
<1>3. DependentsWait' /\ Barrier'
  BY DEF DependentsWait, Barrier
<1> QED BY <1>1, <1>2, <1>3

LEMMA BuildKeepsInv ==
  ASSUME ExecutorInv, Build
  PROVE  ExecutorInv'
<1> USE DEF ExecutorInv
<1>1. CASE CallRun
  <2>1. TypeOK'
    BY <1>1 DEF CallRun, TypeOK, Phases
  <2>2. BuildFirst' /\ CallMatchesStatus'
    BY <1>1, Statuses DEF CallRun, BuildFirst, CallMatchesStatus
  <2>3. DependentsWait' /\ Barrier'
    BY <1>1 DEF CallRun, DependentsWait, Barrier
  <2> QED BY <1>1, <2>1, <2>2, <2>3 DEF CallRun
<1>2. ASSUME NEW t \in Tasks, NEW d \in Tasks, AddDependency(t, d)
      PROVE  ExecutorInv'
  <2>1. deps' \in Dependencies /\ Acyclic(deps)'
    BY <1>2, DependencyKeepsAcyclic DEF AddDependency, TypeOK
  <2>2. TypeOK'
    BY <1>2, <2>1 DEF AddDependency, TypeOK
  <2>3. BuildFirst' /\ CallMatchesStatus'
    BY <1>2 DEF AddDependency, BuildFirst, CallMatchesStatus
  <2>4. DependentsWait' /\ Barrier'
    BY <1>2 DEF AddDependency, BuildFirst, DependentsWait, Barrier
  <2> QED BY <2>1, <2>2, <2>3, <2>4
<1> QED BY <1>1, <1>2 DEF Build

LEMMA ClocksKeepInv ==
  ASSUME ExecutorInv, GlobalClock \/ \E t \in Tasks : TaskClock(t)
  PROVE  ExecutorInv'
<1> USE DEF ExecutorInv
<1>1. UNCHANGED <<deps, status, phase, call, totalCost, results>>
  BY DEF GlobalClock, TaskClock
<1>2. timeUp' \in BOOLEAN /\ expired' \in [Tasks -> BOOLEAN]
  BY DEF GlobalClock, TaskClock, TypeOK
<1>3. TypeOK'
  BY <1>1, <1>2 DEF TypeOK
<1>4. BuildFirst' /\ CallMatchesStatus' /\ DependentsWait' /\ Barrier'
  BY <1>1 DEF BuildFirst, CallMatchesStatus, DependentsWait, Barrier
<1> QED BY <1>1, <1>3, <1>4

LEMMA RunOneKeepsInv ==
  ASSUME ExecutorInv, NEW t \in Tasks, InProcess(t) \/ ThroughQueue(t)
  PROVE  ExecutorInv'
<1>1. CASE AgentCompletes(t)
  <2>1. /\ call[t] # "idle" /\ UNCHANGED <<deps, phase>>
        /\ status' = [status EXCEPT ![t] = COMPLETED]
        /\ call' = [call EXCEPT ![t] = "hooks"]
    BY <1>1 DEF AgentCompletes
  <2>2. DependentsWait' /\ Barrier' /\ BuildFirst' /\ phase = "batch"
    BY <2>1, Statuses, OneCallMoves
  <2>3. TypeOK'
    BY <1>1, Statuses DEF AgentCompletes, ExecutorInv, TypeOK, Awaiting, Dependencies
  <2>4. CallMatchesStatus'
    BY <2>1, <2>2, Statuses
    DEF ExecutorInv, TypeOK, CallMatchesStatus, Awaiting
  <2>5. Acyclic(deps)'
    BY <2>1 DEF ExecutorInv
  <2> QED BY <2>2, <2>3, <2>4, <2>5 DEF ExecutorInv
<1>2. ASSUME NEW cost \in Costs, AgentReturns(t, cost) \/ PollHit(t, cost)
      PROVE  ExecutorInv'
  BY <1>2, SucceedKeepsInv DEF AgentReturns, PollHit
<1>3. ASSUME NEW cost \in Costs, NEW success \in BOOLEAN,
             SubswarmReturns(t, cost, success)
      PROVE  ExecutorInv'
  BY <1>3, SucceedKeepsInv DEF SubswarmReturns
<1>4. CASE ExecutorRaises(t) \/ QueueRaises(t) \/ TaskTimeout(t)
  BY <1>4, FailKeepsInv DEF ExecutorRaises, QueueRaises, TaskTimeout
<1>5. CASE Enqueued(t) \/ PollMiss(t) \/ PollAgain(t)
  <2>1. PICK c \in {"polling", "missed"} : call' = [call EXCEPT ![t] = c]
    BY <1>5 DEF Enqueued, PollMiss, PollAgain
  <2>2. call[t] \in Awaiting \ {"hooks"} /\ c \in Awaiting \ {"hooks"}
    BY <1>5 DEF Enqueued, PollMiss, PollAgain, Awaiting
  <2>3. UNCHANGED <<deps, status, phase, totalCost, results, timeUp, expired>>
    BY <1>5 DEF Enqueued, PollMiss, PollAgain
  <2> QED BY <2>1, <2>2, <2>3, AwaitKeepsInv
<1> QED BY <1>1, <1>2, <1>3, <1>4, <1>5 DEF InProcess, ThroughQueue

(***************************************************************************)
(* The conjunction is inductive.                                           *)
(***************************************************************************)
THEOREM StepKeepsInv == ExecutorInv /\ [Next]_executorVars => ExecutorInv'
<1> SUFFICES ASSUME ExecutorInv, [Next]_executorVars PROVE ExecutorInv'
  OBVIOUS
<1>1. CASE Build
  BY <1>1, BuildKeepsInv
<1>2. CASE RunLoop
  <2>1. CASE ReturnComplete \/ ReturnOnTimeout \/ ReturnOnBudget \/ ReturnStalled
    BY <2>1, ReturnKeepsInv
    DEF ReturnComplete, ReturnOnTimeout, ReturnOnBudget, ReturnStalled, Returns
  <2>2. CASE StartBatch
    BY <2>2, StartBatchKeepsInv
  <2>3. CASE Join
    BY <2>3, JoinKeepsInv
  <2> QED BY <1>2, <2>1, <2>2, <2>3 DEF RunLoop
<1>3. ASSUME NEW t \in Tasks, InProcess(t) \/ ThroughQueue(t) PROVE ExecutorInv'
  BY <1>3, RunOneKeepsInv
<1>4. CASE GlobalClock \/ \E t \in Tasks : TaskClock(t)
  BY <1>4, ClocksKeepInv
<1>5. CASE UNCHANGED executorVars
  BY <1>5 DEF executorVars, ExecutorInv, TypeOK, BuildFirst, CallMatchesStatus,
              DependentsWait, Barrier
<1> QED BY <1>1, <1>2, <1>3, <1>4, <1>5 DEF Next

THEOREM Invariance == Spec => []ExecutorInv
BY InitInv, StepKeepsInv, PTL DEF Spec

(***************************************************************************)
(* Type correctness.                                                       *)
(***************************************************************************)
THEOREM TypeCorrect == Spec => []TypeOK
<1>1. ExecutorInv => TypeOK
  BY DEF ExecutorInv
<1> QED BY <1>1, Invariance, PTL

(***************************************************************************)
(* A started task has all its predecessors completed, in every reachable   *)
(* state: the batch barrier of run() is enough, although agents mark their *)
(* tasks completed before they are done with them.                         *)
(***************************************************************************)
THEOREM DependentsAlwaysWait == Spec => []DependentsWait
<1>1. ExecutorInv => DependentsWait
  BY DEF ExecutorInv
<1> QED BY <1>1, Invariance, PTL

-----------------------------------------------------------------------------
(***************************************************************************)
(* Where a pending task is not ready and nothing is running, the reason is *)
(* a failure among its ancestors.  The set S of the definition holds       *)
(* pending tasks; one of them, u, depends on none of the others, and still *)
(* is not ready: one of its predecessors can only be failed.               *)
(***************************************************************************)
LEMMA NotReadyMeansFailure ==
  ASSUME TypeOK, Acyclic(deps), \A u \in Tasks : status[u] # RUNNING,
         Ready = {}, NEW t \in Tasks, status[t] = PENDING
  PROVE  BehindFailure(deps, status, t)
<1> SUFFICES ASSUME NEW S \in SUBSET Tasks, t \in S, \A u \in S : deps[u] \subseteq S
             PROVE  \E f \in S : status[f] = FAILED
  BY DEF BehindFailure
<1> DEFINE waiting == {u \in S : status[u] = PENDING}
<1>1. waiting # {} /\ waiting \in SUBSET Tasks
  OBVIOUS
<1>2. PICK u \in waiting : deps[u] \cap waiting = {}
  BY <1>1 DEF Acyclic
<1>3. PICK p \in deps[u] : status[p] # COMPLETED
  BY <1>2 DEF Ready, ReadyTasks
<1>4. p \in S /\ p \notin waiting
  BY <1>2, <1>3
<1>5. status[p] = FAILED
  BY <1>3, <1>4, Statuses DEF TypeOK
<1> QED BY <1>4, <1>5

LEMMA NothingRunsBetweenBatches ==
  ASSUME ExecutorInv, phase # "batch"
  PROVE  \A t \in Tasks : call[t] = "idle" /\ status[t] # RUNNING
BY DEF ExecutorInv, CallMatchesStatus

LEMMA InvImpliesNeverSpins == ExecutorInv => NeverSpins
<1> SUFFICES ASSUME ExecutorInv, phase = "loop", ~IsComplete(status), Ready = {}
             PROVE  HasFailed(status)
  BY DEF NeverSpins
<1>1. \A u \in Tasks : status[u] # RUNNING
  BY NothingRunsBetweenBatches
<1>2. PICK t \in Tasks : status[t] = PENDING
  BY <1>1, Statuses DEF ExecutorInv, TypeOK, IsComplete
<1>3. BehindFailure(deps, status, t)
  BY <1>1, <1>2, NotReadyMeansFailure DEF ExecutorInv
<1>4. \A u \in Tasks : deps[u] \subseteq Tasks
  BY DEF ExecutorInv, TypeOK, Dependencies
<1> QED BY <1>3, <1>4 DEF BehindFailure, HasFailed

(***************************************************************************)
(* The idle branch of run() is dead code for every graph add_dependency()  *)
(* lets the planner build.                                                 *)
(***************************************************************************)
THEOREM NeverSpinsHolds == Spec => []NeverSpins
BY InvImpliesNeverSpins, Invariance, PTL

-----------------------------------------------------------------------------
StalledInv == phase = "stalled" => Ready = {}

LEMMA StalledStep == ExecutorInv /\ StalledInv /\ [Next]_executorVars => StalledInv'
<1> SUFFICES ASSUME ExecutorInv, StalledInv, [Next]_executorVars, phase' = "stalled"
             PROVE  Ready' = {}
  BY DEF StalledInv
<1>1. CASE ReturnStalled
  BY <1>1 DEF ReturnStalled, Return, Ready
<1>2. CASE phase = "stalled"
  <2>1. \A t \in Tasks : call[t] = "idle"
    BY <1>2, NothingRunsBetweenBatches
  <2>2. UNCHANGED <<deps, status>>
    BY <1>2, <2>1
    DEF Next, Build, AddDependency, CallRun, RunLoop, ReturnComplete,
        ReturnOnTimeout, ReturnOnBudget, ReturnStalled, Return, StartBatch, Join,
        InProcess, AgentCompletes, AgentReturns, SubswarmReturns, ExecutorRaises,
        ThroughQueue, Enqueued, QueueRaises, PollHit, PollMiss, PollAgain,
        TaskTimeout, TaskClock, GlobalClock, executorVars
  <2> QED BY <1>2, <2>2 DEF StalledInv, Ready
<1>3. CASE phase # "stalled" /\ ~ReturnStalled
  <2>1. phase' # "stalled"
    BY <1>3
    DEF Next, Build, AddDependency, CallRun, RunLoop, ReturnComplete,
        ReturnOnTimeout, ReturnOnBudget, Return, StartBatch, Join,
        InProcess, AgentCompletes, AgentReturns, SubswarmReturns, ExecutorRaises,
        ThroughQueue, Enqueued, QueueRaises, PollHit, PollMiss, PollAgain,
        TaskTimeout, TaskClock, GlobalClock, executorVars, Succeed, Fail
  <2> QED BY <2>1
<1> QED BY <1>1, <1>2, <1>3

(***************************************************************************)
(* When run() returns "stalled", the tasks it never started are exactly    *)
(* some of those behind a failure: no independent branch is dropped.       *)
(***************************************************************************)
THEOREM SkippedOnlyBehindFailureHolds == Spec => []SkippedOnlyBehindFailure
<1>1. Init => StalledInv
  BY DEF Init, StalledInv
<1>2. ExecutorInv /\ StalledInv => SkippedOnlyBehindFailure
  BY NothingRunsBetweenBatches, NotReadyMeansFailure
  DEF StalledInv, SkippedOnlyBehindFailure, ExecutorInv
<1> QED BY <1>1, <1>2, StalledStep, Invariance, PTL DEF Spec

-----------------------------------------------------------------------------
(***************************************************************************)
(* What a step does to a verdict.                                          *)
(***************************************************************************)
LEMMA VerdictStep ==
  ASSUME ExecutorInv, [Next]_executorVars, NEW t \in Tasks,
         status[t] \in {COMPLETED, FAILED}, call[t] # "hooks"
  PROVE  status'[t] = status[t]
<1>1. call[t] \notin Awaiting
  BY Statuses DEF ExecutorInv, CallMatchesStatus
<1>2. t \notin Ready
  BY Statuses DEF Ready, ReadyTasks
<1>3. ASSUME NEW u \in Tasks, call[u] \in Awaiting, NEW s,
             status' = [status EXCEPT ![u] = s]
      PROVE  status'[t] = status[t]
  BY <1>1, <1>3 DEF ExecutorInv, TypeOK
<1>4. CASE StartBatch
  BY <1>2, <1>4 DEF StartBatch
<1>5. CASE UNCHANGED status
  BY <1>5
<1>6. ASSUME NEW u \in Tasks, InProcess(u) \/ ThroughQueue(u)
      PROVE  status'[t] = status[t]
  <2>1. CASE UNCHANGED status
    BY <2>1
  <2>2. CASE ~UNCHANGED status
    <3>1. call[u] \in Awaiting /\ \E s : status' = [status EXCEPT ![u] = s]
      BY <1>6, <2>2
      DEF InProcess, AgentCompletes, AgentReturns, SubswarmReturns,
          ExecutorRaises, ThroughQueue, Enqueued, QueueRaises, PollHit,
          PollMiss, PollAgain, TaskTimeout, Succeed, Fail, Awaiting
    <3> QED BY <3>1, <1>3
  <2> QED BY <2>1, <2>2
<1> QED BY <1>4, <1>5, <1>6
    DEF Next, Build, AddDependency, CallRun, RunLoop, ReturnComplete,
        ReturnOnTimeout, ReturnOnBudget, ReturnStalled, Return, Join,
        TaskClock, GlobalClock, executorVars

(***************************************************************************)
(* A verdict is final, but for an agent that awaits its hooks.             *)
(***************************************************************************)
THEOREM VerdictIsFinalHolds == Spec => VerdictIsFinal
<1>1. ExecutorInv /\ [Next]_executorVars
        => [\A t \in Tasks :
              status[t] \in {COMPLETED, FAILED} /\ call[t] # "hooks"
                => status'[t] = status[t]]_executorVars
  BY VerdictStep
<1> QED BY <1>1, Invariance, PTL DEF Spec, VerdictIsFinal

-----------------------------------------------------------------------------
(* The results: one for each task joined, none yet for the others.         *)

Mine(t) == {r \in results : r.task = t}

Joined(t) == status[t] # PENDING /\ call[t] = "idle"

ResultsInv ==
  \A t \in Tasks :
    /\ ~Joined(t) => Mine(t) = {}
    /\ Joined(t) => \E r \in Mine(t) : Mine(t) = {r}
    /\ Joined(t) /\ status[t] = FAILED => \A r \in Mine(t) : ~r.success

LEMMA InvImpliesOneResult == ExecutorInv /\ ResultsInv => OneResultPerStartedTask
<1> SUFFICES ASSUME ExecutorInv, ResultsInv, phase # "batch", NEW t \in Tasks
             PROVE  /\ status[t] # RUNNING
                    /\ IF status[t] = PENDING THEN Mine(t) = {}
                       ELSE \E r \in Mine(t) : Mine(t) = {r}
                    /\ status[t] = FAILED => \A r \in Mine(t) : ~r.success
  BY DEF OneResultPerStartedTask, Mine
<1>1. call[t] = "idle" /\ status[t] # RUNNING
  BY NothingRunsBetweenBatches
<1>2. Joined(t) <=> status[t] # PENDING
  BY <1>1 DEF Joined
<1>3. status[t] = FAILED => Joined(t)
  BY <1>2, Statuses
<1> QED BY <1>1, <1>2, <1>3 DEF ResultsInv

\* gather() adds the result of each task of the batch, which had none.
LEMMA JoinKeepsResults ==
  ASSUME ExecutorInv, ResultsInv, Join
  PROVE  ResultsInv'
<1> DEFINE outcome(t) == [task |-> t, success |-> call[t] = "ok"]
           joining == {t \in Tasks : call[t] \in Returned}
<1>1. results' = results \cup {outcome(t) : t \in joining}
  BY DEF Join
<1>2. ASSUME NEW t \in Tasks
      PROVE  /\ ~Joined(t)' => Mine(t)' = {}
             /\ Joined(t)' => \E r \in Mine(t)' : Mine(t)' = {r}
             /\ Joined(t)' /\ status'[t] = FAILED => \A r \in Mine(t)' : ~r.success
  <2>1. status' = status /\ call'[t] = "idle" /\ (Joined(t)' <=> status[t] # PENDING)
    BY DEF Join, Joined
  <2>2. \A u \in joining : outcome(u).task = u /\ outcome(u).success = (call[u] = "ok")
    OBVIOUS
  <2> HIDE DEF outcome
  <2>3. CASE t \in joining
    <3>1. call[t] # "idle" /\ status[t] # PENDING /\ (status[t] = FAILED => call[t] = "bad")
      BY <2>3, Statuses DEF Returned, ExecutorInv, CallMatchesStatus
    <3>2. Mine(t) = {}
      BY <3>1 DEF ResultsInv, Joined
    <3>3. Mine(t)' = {outcome(t)}
      BY <1>1, <2>2, <2>3, <3>2 DEF Mine
    <3>4. status[t] = FAILED => ~outcome(t).success
      BY <2>2, <2>3, <3>1
    <3> QED BY <2>1, <3>1, <3>3, <3>4
  <2>4. CASE t \notin joining
    <3>1. call[t] = "idle"
      BY <2>4 DEF ExecutorInv, TypeOK, Join
    <3>2. Mine(t)' = Mine(t)
      BY <1>1, <2>2, <2>4 DEF Mine
    <3>3. Joined(t)' <=> Joined(t)
      BY <2>1, <3>1 DEF Joined
    <3> QED BY <2>1, <3>2, <3>3 DEF ResultsInv
  <2> QED BY <2>3, <2>4
<1> QED BY <1>2 DEF ResultsInv

\* Every other step leaves the results alone, and joins no task.
LEMMA ResultsStep == ExecutorInv /\ ResultsInv /\ [Next]_executorVars => ResultsInv'
<1> SUFFICES ASSUME ExecutorInv, ResultsInv, [Next]_executorVars, ~Join PROVE ResultsInv'
  BY JoinKeepsResults
<1>1. results' = results
  BY DEF Next, Build, AddDependency, CallRun, RunLoop, ReturnComplete,
         ReturnOnTimeout, ReturnOnBudget, ReturnStalled, Return, StartBatch,
         InProcess, AgentCompletes, AgentReturns, SubswarmReturns, ExecutorRaises,
         ThroughQueue, Enqueued, QueueRaises, PollHit, PollMiss, PollAgain,
         TaskTimeout, TaskClock, GlobalClock, executorVars, Succeed, Fail
<1>2. ASSUME NEW t \in Tasks
      PROVE  /\ Joined(t)' <=> Joined(t)
             /\ Joined(t) => status'[t] = status[t]
  <2>1. CASE UNCHANGED <<status, call>>
    BY <2>1 DEF Joined
  <2>2. CASE StartBatch
    <3>1. phase = "loop"
      BY <2>2 DEF StartBatch
    <3>2. call[t] = "idle"
      BY <3>1, NothingRunsBetweenBatches
    <3>3. CASE t \in Ready
      BY <2>2, <3>3, Statuses DEF StartBatch, Ready, ReadyTasks, Joined
    <3>4. CASE t \notin Ready
      BY <2>2, <3>2, <3>4 DEF StartBatch, Joined
    <3> QED BY <3>3, <3>4
  <2>3. ASSUME NEW u \in Tasks, InProcess(u) \/ ThroughQueue(u), ~UNCHANGED <<status, call>>
        PROVE  /\ Joined(t)' <=> Joined(t)
               /\ Joined(t) => status'[t] = status[t]
    <3>1. /\ call[u] # "idle"
          /\ \E s : status' = [status EXCEPT ![u] = s]
          /\ \E c : c # "idle" /\ call' = [call EXCEPT ![u] = c]
      <4>1. status = [status EXCEPT ![u] = status[u]]
        BY DEF ExecutorInv, TypeOK
      <4> QED
        BY <2>3, <4>1
        DEF InProcess, AgentCompletes, AgentReturns, SubswarmReturns,
            ExecutorRaises, ThroughQueue, Enqueued, QueueRaises, PollHit,
            PollMiss, PollAgain, TaskTimeout, Succeed, Fail
    <3> QED BY <3>1 DEF Joined, ExecutorInv, TypeOK
  <2> QED BY <2>1, <2>2, <2>3
      DEF Next, Build, AddDependency, CallRun, RunLoop, ReturnComplete,
          ReturnOnTimeout, ReturnOnBudget, ReturnStalled, Return,
          TaskClock, GlobalClock, executorVars
<1>3. \A t \in Tasks : Mine(t)' = Mine(t)
  BY <1>1 DEF Mine
<1> QED BY <1>2, <1>3 DEF ResultsInv

(***************************************************************************)
(* What run() returns is one result per started task, whichever way it     *)
(* returns, and no failed task contributes a successful one.               *)
(***************************************************************************)
THEOREM OneResultPerStartedTaskHolds == Spec => []OneResultPerStartedTask
<1>1. Init => ResultsInv
  BY DEF Init, ResultsInv, Joined, Mine
<1> QED BY <1>1, ResultsStep, InvImpliesOneResult, Invariance, PTL DEF Spec

-----------------------------------------------------------------------------
(* Refinement of the abstract schedule                                     *)

LEMMA ObservedUnchanged ==
  ASSUME ExecutorInv, NEW t \in Tasks, call[t] \in Awaiting,
         call' = [call EXCEPT ![t] = call'[t]], call'[t] \in Awaiting,
         \A u \in Tasks : u # t => status'[u] = status[u]
  PROVE  Observed' = Observed
BY DEF ExecutorInv, TypeOK, Observed

LEMMA CallSettles ==
  ASSUME ExecutorInv, NEW t \in Tasks, call[t] \in Awaiting, NEW c \in Returned,
         NEW s \in {COMPLETED, FAILED}, deps' = deps,
         call' = [call EXCEPT ![t] = c], status' = [status EXCEPT ![t] = s]
  PROVE  Schedule!Next
<1>1. Observed[t] = RUNNING
  BY DEF Observed
<1>2. Observed' = [Observed EXCEPT ![t] = s]
  BY DEF ExecutorInv, TypeOK, Observed, Awaiting, Returned
<1>3. Schedule!Settle(t, s)
  BY <1>1, <1>2 DEF Schedule!Settle, Schedule!RUNNING, RUNNING
<1> QED BY <1>3 DEF Schedule!Next, Schedule!COMPLETED, Schedule!FAILED, COMPLETED, FAILED

LEMMA BatchBegins == ASSUME ExecutorInv, StartBatch PROVE Schedule!Next
<1>1. \A t \in Tasks : call[t] = "idle" /\ call[t] \notin Awaiting
  BY NothingRunsBetweenBatches DEF StartBatch, Awaiting
<1>2. Observed = status
  BY <1>1 DEF Observed, ExecutorInv, TypeOK
<1>3. Observed' = [t \in Tasks |-> IF t \in Ready THEN RUNNING ELSE Observed[t]]
  BY <1>1, <1>2 DEF StartBatch, Observed, Awaiting, Ready, ReadyTasks
<1>4. Ready = Schedule!ReadyTasks(deps, Observed)
  BY <1>2 DEF Ready, ReadyTasks, Schedule!ReadyTasks, PENDING, Schedule!PENDING,
              COMPLETED, Schedule!COMPLETED
<1>5. Schedule!Begin(Ready)
  BY <1>3, <1>4 DEF Schedule!Begin, StartBatch, RUNNING, Schedule!RUNNING
<1>6. Ready \in SUBSET Tasks
  BY DEF Ready, ReadyTasks
<1> QED BY <1>5, <1>6 DEF Schedule!Next

LEMMA StepImplements ==
  ExecutorInv /\ ExecutorInv' /\ [Next]_executorVars => [Schedule!Next]_(Schedule!vars)
<1> SUFFICES ASSUME ExecutorInv, ExecutorInv', [Next]_executorVars
             PROVE  Schedule!Next \/ UNCHANGED <<deps, Observed>>
  BY DEF Schedule!vars
<1>1. ASSUME NEW t \in Tasks, NEW d \in Tasks, AddDependency(t, d)
      PROVE  Schedule!Next
  <2>1. Observed = [u \in Tasks |-> PENDING] /\ Observed' = Observed
    BY <1>1 DEF AddDependency, ExecutorInv, BuildFirst, Observed, Awaiting
  <2>2. deps' \in Schedule!Dependencies /\ Schedule!Acyclic(deps')
    BY DEF ExecutorInv, TypeOK, Dependencies, Acyclic,
           Schedule!Dependencies, Schedule!Acyclic
  <2> QED BY <2>1, <2>2 DEF Schedule!Next, Schedule!Plan, PENDING, Schedule!PENDING
<1>2. CASE StartBatch
  BY <1>2, BatchBegins
<1>3. CASE Join
  <2>1. \A t \in Tasks : call[t] \notin Awaiting /\ call'[t] \notin Awaiting
    BY <1>3 DEF Join, Awaiting
  <2> QED BY <1>3, <2>1 DEF Join, Observed
<1>4. ASSUME NEW t \in Tasks, InProcess(t) \/ ThroughQueue(t)
      PROVE  Schedule!Next \/ UNCHANGED <<deps, Observed>>
  <2>1. CASE AgentCompletes(t)
    BY <2>1, ObservedUnchanged DEF AgentCompletes, Awaiting, ExecutorInv, TypeOK
  <2>2. CASE Enqueued(t) \/ PollMiss(t) \/ PollAgain(t)
    BY <2>2, ObservedUnchanged
    DEF Enqueued, PollMiss, PollAgain, Awaiting, ExecutorInv, TypeOK
  <2>3. ASSUME NEW cost \in Costs, NEW success \in BOOLEAN,
               call[t] \in Awaiting, Succeed(t, cost, success)
        PROVE  Schedule!Next
    BY <2>3, CallSettles DEF Succeed, Returned
  <2>4. CASE call[t] \in Awaiting /\ Fail(t)
    BY <2>4, CallSettles DEF Fail, Returned
  <2> QED BY <1>4, <2>1, <2>2, <2>3, <2>4
      DEF InProcess, ThroughQueue, AgentReturns, SubswarmReturns, ExecutorRaises,
          QueueRaises, PollHit, TaskTimeout, Awaiting
<1>5. CASE UNCHANGED <<deps, status, call>>
  BY <1>5 DEF Observed
<1> QED BY <1>1, <1>2, <1>3, <1>4, <1>5
    DEF Next, Build, CallRun, RunLoop, ReturnComplete, ReturnOnTimeout,
        ReturnOnBudget, ReturnStalled, Return, TaskClock, GlobalClock, executorVars

(***************************************************************************)
(* The executor, in either dispatch mode, implements the abstract          *)
(* schedule: a task begins once, after its predecessors, and its verdict   *)
(* is given once.                                                          *)
(***************************************************************************)
THEOREM ExecutorImplementsSchedule == Spec => ImplementsSchedule
<1>1. Init => Schedule!Init
  BY DEF Init, Schedule!Init, Observed, Awaiting, NoDependencies,
         Schedule!NoDependencies, PENDING, Schedule!PENDING
<1> QED BY <1>1, StepImplements, Invariance, PTL
    DEF Spec, ImplementsSchedule, Schedule!Spec
=============================================================================
