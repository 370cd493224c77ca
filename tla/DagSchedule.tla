---------------------------- MODULE DagSchedule ----------------------------
(***************************************************************************)
(* What running a task graph promises, whoever executes the tasks: the     *)
(* plan is an acyclic graph fixed before the first task begins, a task     *)
(* begins once, when every predecessor is completed, and what it settles   *)
(* to, completed or failed, is never revised.                              *)
(***************************************************************************)
EXTENDS TaskGraph

VARIABLES deps,   \* deps[t]: the tasks t depends on
          st      \* st[t]: what an observer is told about t

vars == <<deps, st>>

Init == /\ deps = NoDependencies
        /\ st = [t \in Tasks |-> PENDING]

\* The planner settles on the dependencies while no task has begun.
Plan == /\ \A t \in Tasks : st[t] = PENDING
        /\ deps' \in Dependencies
        /\ Acyclic(deps')
        /\ UNCHANGED st

\* A non-empty set of tasks begins; all of them were ready.
Begin(S) == /\ S # {}
            /\ S \subseteq ReadyTasks(deps, st)
            /\ st' = [t \in Tasks |-> IF t \in S THEN RUNNING ELSE st[t]]
            /\ UNCHANGED deps

\* One running task gets its verdict.
Settle(t, verdict) == /\ st[t] = RUNNING
                      /\ st' = [st EXCEPT ![t] = verdict]
                      /\ UNCHANGED deps

Next == \/ Plan
        \/ \E S \in SUBSET Tasks : Begin(S)
        \/ \E t \in Tasks, verdict \in {COMPLETED, FAILED} : Settle(t, verdict)

Spec == Init /\ [][Next]_vars
=============================================================================
