------------------------------- MODULE MCAgent -------------------------------
(***************************************************************************)
(* An agent that may call two tools at a time and one that calls one.      *)
(***************************************************************************)
EXTENDS Agent

CONSTANTS a1, a2

TwoAgents == {a1, a2}
CallsOf == [a \in TwoAgents |-> IF a = a1 THEN 2 ELSE 1]

=============================================================================
