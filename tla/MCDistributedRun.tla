-------------------------- MODULE MCDistributedRun --------------------------
(***************************************************************************)
(* Two tasks (in all three acyclic graphs of them), served by one worker   *)
(* that may run both at once, with one fault.                              *)
(***************************************************************************)
EXTENDS DistributedRun

MCCosts == {1}
=============================================================================
