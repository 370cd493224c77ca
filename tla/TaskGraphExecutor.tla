------------------------- MODULE TaskGraphExecutor -------------------------
(***************************************************************************)
(* TaskGraphExecutor of coordination/task_graph.py: the coroutine run(),   *)
(* which dispatches the ready tasks in batches, and one _run_one()         *)
(* coroutine for each task of the batch.  A step is what the event loop    *)
(* executes between two awaits.                                            *)
(*                                                                         *)
(* In "in_process" mode _run_one awaits the executor function (an agent or *)
(* a subswarm), which writes the status of the same Task object.  In       *)
(* "task_queue" mode it awaits enqueue() and then polls wait_for_result(); *)
(* what the queue answers is left open here, and decided by the workers in *)
(* module DistributedRun.                                                  *)
(***************************************************************************)
EXTENDS TaskGraph, Naturals

CONSTANTS DispatchMode,        \* "in_process" or "task_queue"
          Costs,               \* what a task result may cost
          GlobalBudget         \* 0 stands for None: no budget

ASSUME ModeAssumption == DispatchMode \in {"in_process", "task_queue"}
ASSUME CostAssumption == Costs \subseteq Nat /\ GlobalBudget \in Nat

VARIABLES deps,       \* the edges of the graph
          status,     \* Task.status of each task
          phase,      \* where run() is: see Phases
          call,       \* call[t]: where the _run_one(t) coroutine is
          totalCost,  \* self._total_cost
          results,    \* the results gathered so far, with their task
          timeUp,     \* time.time() - start > global_timeout
          expired     \* expired[t]: wait_for_result(t) is past its deadline

executorVars == <<deps, status, phase, call, totalCost, results, timeUp, expired>>

\* run() returns from one of the last four, named for the reason.
Returns == {"complete", "timeout", "budget", "stalled"}
Phases  == {"build", "loop", "batch"} \cup Returns

(***************************************************************************)
(* _run_one: "executing" awaits the executor function; "hooks" is an agent *)
(* that has marked the task completed and awaits its long-term memory and  *)
(* its on_complete hook; "enqueueing" awaits XADD; "polling" is a GET of   *)
(* the result key under way, "missed" one that found nothing; "ok" and     *)
(* "bad" have returned a result with that success flag to gather().        *)
(***************************************************************************)
Awaiting == {"executing", "hooks", "enqueueing", "polling", "missed"}
Returned == {"ok", "bad"}

Init == /\ deps = NoDependencies
        /\ status = [t \in Tasks |-> PENDING]
        /\ phase = "build"
        /\ call = [t \in Tasks |-> "idle"]
        /\ totalCost = 0
        /\ results = {}
        /\ timeUp = FALSE
        /\ expired = [t \in Tasks |-> FALSE]

-----------------------------------------------------------------------------
(* Building the graph: _decompose adds the dependencies the plan lists.    *)

AddDependency(t, d) ==
  /\ phase = "build"
  /\ deps' = WithDependency(deps, t, d)
  /\ UNCHANGED <<status, phase, call, totalCost, results, timeUp, expired>>

CallRun ==
  /\ phase = "build"
  /\ phase' = "loop"
  /\ UNCHANGED <<deps, status, call, totalCost, results, timeUp, expired>>

-----------------------------------------------------------------------------
(* run(): the checks at the head of the loop, in the order of the code.    *)

OverBudget == GlobalBudget > 0 /\ totalCost >= GlobalBudget

MayGoOn == ~IsComplete(status) /\ ~timeUp /\ ~OverBudget

Ready == ReadyTasks(deps, status)

Return(reason) ==
  /\ phase = "loop"
  /\ phase' = reason
  /\ UNCHANGED <<deps, status, call, totalCost, results, timeUp, expired>>

ReturnComplete  == IsComplete(status) /\ Return("complete")
ReturnOnTimeout == ~IsComplete(status) /\ timeUp /\ Return("timeout")
ReturnOnBudget  == /\ ~IsComplete(status) /\ ~timeUp /\ OverBudget
                   /\ Return("budget")
ReturnStalled   == /\ MayGoOn
                   /\ Ready = {} /\ HasFailed(status)
                   /\ Return("stalled")
\* With nothing ready and nothing failed run() sleeps and tries again: that
\* changes no state, and NeverSpins says it does not happen.

(***************************************************************************)
(* Every ready task is marked running, then gather() starts their          *)
(* coroutines, which run to their first await.                             *)
(***************************************************************************)
StartBatch ==
  LET batch == Ready
  IN  /\ phase = "loop" /\ MayGoOn
      /\ batch # {}
      /\ status' = [t \in Tasks |-> IF t \in batch THEN RUNNING ELSE status[t]]
      /\ call' = [t \in Tasks |->
                    IF t \in batch
                    THEN IF DispatchMode = "task_queue" THEN "enqueueing" ELSE "executing"
                    ELSE call[t]]
      /\ phase' = "batch"
      /\ UNCHANGED <<deps, totalCost, results, timeUp, expired>>

\* Variants: the loop goes on with the first coroutine that returns; the
\* results of the last batch replace those of the earlier ones.
Join_firstCompleted ==
  /\ phase = "batch"
  /\ \E t \in Tasks : call[t] \in Returned
  /\ results' = results \cup {[task |-> t, success |-> call[t] = "ok"] :
                                t \in {u \in Tasks : call[u] \in Returned}}
  /\ call' = [t \in Tasks |-> IF call[t] \in Returned THEN "idle" ELSE call[t]]
  /\ phase' = "loop"
  /\ UNCHANGED <<deps, status, totalCost, timeUp, expired>>

Join_lastBatchOnly ==
  /\ phase = "batch"
  /\ \A t \in Tasks : call[t] \notin Awaiting
  /\ results' = {[task |-> t, success |-> call[t] = "ok"] :
                   t \in {u \in Tasks : call[u] \in Returned}}
  /\ call' = [t \in Tasks |-> "idle"]
  /\ phase' = "loop"
  /\ UNCHANGED <<deps, status, totalCost, timeUp, expired>>

\* gather() returns when all its coroutines have; their results are kept.
Join ==
  /\ phase = "batch"
  /\ \A t \in Tasks : call[t] \notin Awaiting
  /\ results' = results \cup {[task |-> t, success |-> call[t] = "ok"] :
                                t \in {u \in Tasks : call[u] \in Returned}}
  /\ call' = [t \in Tasks |-> "idle"]
  /\ phase' = "loop"
  /\ UNCHANGED <<deps, status, totalCost, timeUp, expired>>

-----------------------------------------------------------------------------
(* _run_one(t)                                                             *)

\* The result is charged, the task marked completed whatever the result's
\* success flag says, and the result returned.
Succeed(t, cost, success) ==
  /\ totalCost' = totalCost + cost
  /\ status' = [status EXCEPT ![t] = COMPLETED]
  /\ call' = [call EXCEPT ![t] = IF success THEN "ok" ELSE "bad"]
  /\ UNCHANGED <<deps, phase, results, timeUp, expired>>

\* Any exception, and the timeout: marked failed, an unsuccessful result.
Fail(t) ==
  /\ status' = [status EXCEPT ![t] = FAILED]
  /\ call' = [call EXCEPT ![t] = "bad"]
  /\ UNCHANGED <<deps, phase, totalCost, results, timeUp, expired>>

\* The agent has its answer: it marks the task and goes on to its hooks.
AgentCompletes(t) ==
  /\ call[t] = "executing"
  /\ status' = [status EXCEPT ![t] = COMPLETED]
  /\ call' = [call EXCEPT ![t] = "hooks"]
  /\ UNCHANGED <<deps, phase, totalCost, results, timeUp, expired>>

AgentReturns(t, cost) ==
  /\ call[t] = "hooks"
  /\ Succeed(t, cost, TRUE)

\* A subswarm writes no status, and may return an unsuccessful result.
SubswarmReturns(t, cost, success) ==
  /\ call[t] = "executing"
  /\ Succeed(t, cost, success)

\* The executor function raises: the provider, the budget, the iteration
\* limit, or the memory or hook of an agent that had completed the task.
ExecutorRaises(t) ==
  /\ call[t] \in {"executing", "hooks"}
  /\ Fail(t)

Enqueued(t) ==
  /\ call[t] = "enqueueing"
  /\ call' = [call EXCEPT ![t] = "polling"]
  /\ UNCHANGED <<deps, status, phase, totalCost, results, timeUp, expired>>

\* A Redis call of enqueue() or wait_for_result() raises.
QueueRaises(t) ==
  /\ call[t] \in {"enqueueing", "polling"}
  /\ Fail(t)

\* Variant: the poller outlives the failure of its task.
PollHit_late(t, cost) ==
  /\ call[t] \in {"polling", "bad"}
  /\ Succeed(t, cost, TRUE)

\* The GET finds a result.  Workers store only successful ones.
PollHit(t, cost) ==
  /\ call[t] = "polling"
  /\ Succeed(t, cost, TRUE)

PollMiss(t) ==
  /\ call[t] = "polling"
  /\ call' = [call EXCEPT ![t] = "missed"]
  /\ UNCHANGED <<deps, status, phase, totalCost, results, timeUp, expired>>

\* Variant: the deadline is not looked at before the next poll.
PollAgain_forever(t) ==
  /\ call[t] = "missed"
  /\ call' = [call EXCEPT ![t] = "polling"]
  /\ UNCHANGED <<deps, status, phase, totalCost, results, timeUp, expired>>

PollAgain(t) ==
  /\ call[t] = "missed" /\ ~expired[t]
  /\ call' = [call EXCEPT ![t] = "polling"]
  /\ UNCHANGED <<deps, status, phase, totalCost, results, timeUp, expired>>

TaskTimeout(t) ==
  /\ call[t] = "missed" /\ expired[t]
  /\ Fail(t)

-----------------------------------------------------------------------------
(* Time                                                                    *)

GlobalClock ==
  /\ phase \in {"loop", "batch"} /\ ~timeUp
  /\ timeUp' = TRUE
  /\ UNCHANGED <<deps, status, phase, call, totalCost, results, expired>>

TaskClock(t) ==
  /\ call[t] \in {"polling", "missed"} /\ ~expired[t]
  /\ expired' = [expired EXCEPT ![t] = TRUE]
  /\ UNCHANGED <<deps, status, phase, call, totalCost, results, timeUp>>

-----------------------------------------------------------------------------
Build == CallRun \/ \E t, d \in Tasks : AddDependency(t, d)

RunLoop == \/ ReturnComplete \/ ReturnOnTimeout \/ ReturnOnBudget
           \/ ReturnStalled \/ StartBatch \/ Join

InProcess(t) == \/ AgentCompletes(t)
                \/ \E cost \in Costs : AgentReturns(t, cost)
                \/ \E cost \in Costs, success \in BOOLEAN :
                     SubswarmReturns(t, cost, success)
                \/ ExecutorRaises(t)

ThroughQueue(t) == \/ Enqueued(t) \/ QueueRaises(t)
                   \/ \E cost \in Costs : PollHit(t, cost)
                   \/ PollMiss(t) \/ PollAgain(t) \/ TaskTimeout(t)

Next == \/ Build \/ RunLoop
        \/ \E t \in Tasks : InProcess(t) \/ ThroughQueue(t) \/ TaskClock(t)
        \/ GlobalClock

Spec == Init /\ [][Next]_executorVars

(***************************************************************************)
(* The event loop runs whatever coroutine is ready, a call an agent awaits *)
(* returns or raises (an agent has an iteration limit), and clocks         *)
(* advance.                                                                *)
(***************************************************************************)
Fairness == /\ WF_executorVars(CallRun) /\ WF_executorVars(RunLoop)
            /\ \A t \in Tasks : /\ WF_executorVars(InProcess(t))
                                /\ WF_executorVars(ThroughQueue(t))
                                /\ WF_executorVars(TaskClock(t))

FairSpec == Spec /\ Fairness

-----------------------------------------------------------------------------
(* Properties                                                              *)

\* Every variable keeps its type.
TypeOK ==
  /\ deps \in Dependencies
  /\ status \in [Tasks -> TaskStatus]
  /\ phase \in Phases
  /\ call \in [Tasks -> {"idle"} \cup Awaiting \cup Returned]
  /\ totalCost \in Nat
  /\ results \subseteq [task : Tasks, success : BOOLEAN]
  /\ timeUp \in BOOLEAN
  /\ expired \in [Tasks -> BOOLEAN]

(***************************************************************************)
(* A task that was started has all its predecessors completed, now and not *)
(* only when it was started.  An agent marks its task completed before its *)
(* memory write and hook, which may still fail the task: what keeps a      *)
(* dependent from starting in between is that ready_tasks() is evaluated   *)
(* only after gather() returned (task_graph.py:133 and 148).               *)
(***************************************************************************)
DependentsWait ==
  \A t \in Tasks :
    status[t] # PENDING => \A p \in deps[t] : status[p] = COMPLETED

(***************************************************************************)
(* The loop of run() never sleeps and retries: while tasks remain and none *)
(* has failed, some task is ready (task_graph.py:139, a branch that would  *)
(* spin until the global timeout).  It rests on add_dependency() refusing  *)
(* every edge that closes a cycle.                                         *)
(***************************************************************************)
NeverSpins ==
  phase = "loop" /\ ~IsComplete(status) /\ ~HasFailed(status) => Ready # {}

(***************************************************************************)
(* When run() gives up because nothing is ready ("stalled on failure"),    *)
(* each task it never started has a failed ancestor: a failure costs its   *)
(* descendants and no unrelated task (task_graph.py:134-138).              *)
(***************************************************************************)
SkippedOnlyBehindFailure ==
  phase = "stalled" =>
    \A t \in Tasks : status[t] = PENDING => BehindFailure(deps, status, t)

(***************************************************************************)
(* Between batches, and when run() has returned, the results handed to     *)
(* aggregation are exactly one for each task that was started; every task *)
(* has settled or was never started; and a failed task's result is         *)
(* unsuccessful, so it adds nothing to the combined output.                *)
(***************************************************************************)
OneResultPerStartedTask ==
  phase \notin {"build", "batch"} =>
    \A t \in Tasks :
      LET mine == {r \in results : r.task = t}
      IN  /\ status[t] # RUNNING
          /\ IF status[t] = PENDING THEN mine = {} ELSE \E r \in mine : mine = {r}
          /\ status[t] = FAILED => \A r \in mine : ~r.success

(***************************************************************************)
(* Only the hooks of an agent may revise a settled status; a timeout or an *)
(* error never overturns a task whose coroutine has returned, nor a late   *)
(* result one that has failed (task_graph.py:166-190).                     *)
(***************************************************************************)
VerdictIsFinal ==
  [][\A t \in Tasks :
       status[t] \in {COMPLETED, FAILED} /\ call[t] # "hooks"
         => status'[t] = status[t]]_executorVars

\* run() returns, whatever fails and however long the tasks take.
RunReturns == <>(phase \in Returns)

(***************************************************************************)
(* The executor implements DagSchedule.  A task counts as running until    *)
(* its coroutine has returned: the completed status an agent writes before *)
(* its hooks is not yet the verdict.                                       *)
(***************************************************************************)
Observed == [t \in Tasks |-> IF call[t] \in Awaiting THEN RUNNING ELSE status[t]]

Schedule == INSTANCE DagSchedule WITH st <- Observed

\* Every run of the executor is a run of the abstract schedule.
ImplementsSchedule == Schedule!Spec
=============================================================================
