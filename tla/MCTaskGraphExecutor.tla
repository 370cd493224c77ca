------------------------ MODULE MCTaskGraphExecutor ------------------------
(***************************************************************************)
(* TaskGraphExecutor on three tasks, hence on all 25 acyclic graphs of     *)
(* three tasks, with results that cost 0 or 1, in both dispatch modes: a   *)
(* behaviour keeps the mode it begins with.                                *)
(***************************************************************************)
EXTENDS TaskGraphExecutor

VARIABLE mode

Local == INSTANCE TaskGraphExecutor WITH DispatchMode <- "in_process"

MCCosts == {0, 1}

\* The cfg gives DispatchMode the value "task_queue".
MCInit == Init /\ mode \in {"in_process", "task_queue"}

MCNext == \/ mode = "task_queue" /\ Next /\ UNCHANGED mode
          \/ mode = "in_process" /\ Local!Next /\ UNCHANGED mode

MCSpec == MCInit /\ [][MCNext]_<<executorVars, mode>>
=============================================================================
