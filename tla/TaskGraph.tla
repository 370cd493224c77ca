----------------------------- MODULE TaskGraph -----------------------------
(***************************************************************************)
(* The graph of tasks of coordination/task_graph.py: a set of tasks, the   *)
(* predecessors of each, and the status every Task object carries          *)
(* (core/task.py).  The operators are the queries of class TaskGraph; they *)
(* take the two pieces of state as arguments, so that the executor and the *)
(* abstract schedule it implements read the graph in the same way.         *)
(***************************************************************************)
EXTENDS FiniteSets

CONSTANT Tasks                 \* the tasks a decomposed goal consists of

ASSUME TasksAssumption == IsFiniteSet(Tasks)

PENDING   == "pending"
RUNNING   == "running"
COMPLETED == "completed"
FAILED    == "failed"

\* TaskStatus also declares CANCELLED; no code ever assigns it.
TaskStatus == {PENDING, RUNNING, COMPLETED, FAILED}

\* deps[t] is the set of tasks that t depends on: the sources of the edges
\* that point to t in the networkx graph.
Dependencies == [Tasks -> SUBSET Tasks]

NoDependencies == [t \in Tasks |-> {}]

(***************************************************************************)
(* nx.is_directed_acyclic_graph: every non-empty set of tasks has a member *)
(* none of whose predecessors is in the set.                               *)
(***************************************************************************)
Acyclic(deps) ==
  \A S \in SUBSET Tasks : S # {} => \E t \in S : deps[t] \cap S = {}

\* Variant: the edge is added without the check.
WithDependency_unchecked(deps, t, d) == [deps EXCEPT ![t] = @ \cup {d}]

\* add_dependency: the edge is added, and removed again when it closes a
\* cycle; the CyclicTaskGraphError is swallowed by the planner.
WithDependency(deps, t, d) ==
  LET extended == [deps EXCEPT ![t] = @ \cup {d}]
  IN  IF Acyclic(extended) THEN extended ELSE deps

\* Variants: nothing is ready after the first failure; a failed predecessor
\* counts as done.
ReadyTasks_failFast(deps, status) ==
  {t \in Tasks : /\ \A u \in Tasks : status[u] # FAILED
                 /\ status[t] = PENDING
                 /\ \A p \in deps[t] : status[p] = COMPLETED}

ReadyTasks_settled(deps, status) ==
  {t \in Tasks : /\ status[t] = PENDING
                 /\ \A p \in deps[t] : status[p] \in {COMPLETED, FAILED}}

\* ready_tasks
ReadyTasks(deps, status) ==
  {t \in Tasks : /\ status[t] = PENDING
                 /\ \A p \in deps[t] : status[p] = COMPLETED}

\* is_complete
IsComplete(status) == \A t \in Tasks : status[t] \in {COMPLETED, FAILED}

\* has_failed
HasFailed(status) == \E t \in Tasks : status[t] = FAILED

(***************************************************************************)
(* "t has a failed ancestor", without recursion: whatever set contains t   *)
(* and, with each member, that member's predecessors, contains a failure.  *)
(***************************************************************************)
BehindFailure(deps, status, t) ==
  \A S \in SUBSET Tasks :
    (t \in S /\ \A u \in S : deps[u] \subseteq S)
      => \E f \in S : status[f] = FAILED
=============================================================================
