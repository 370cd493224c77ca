----------------------------- MODULE SafetyGate -----------------------------
(***************************************************************************)
(* coordination/safety.py: the gate before tool calls.  A call is checked  *)
(* (allowlist, circuit breaker, quota, confirmation), runs, and reports    *)
(* its success or error, as the tests drive it; calls of several agents    *)
(* overlap.  A refused check raises and changes nothing.                   *)
(***************************************************************************)
EXTENDS Naturals, FiniteSets

CONSTANTS Tools, Agents,
          Allowlist,      \* tool_allowlist, all tools if there is none
          Confirmed,      \* tools whose side effects need a confirmation
          ToolLimit, AgentLimit,  \* per_tool_limit, per_agent_limit
          Threshold       \* consecutive errors that open the breaker

\* What the constants are meant to be; the MC module assumes it.
GateAssumption == /\ IsFiniteSet(Tools) /\ IsFiniteSet(Agents)
                  /\ Allowlist \subseteq Tools /\ Confirmed \subseteq Tools
                  /\ ToolLimit \in Nat /\ AgentLimit \in Nat
                  /\ Threshold \in Nat \ {0}

VARIABLES errors,    \* _errors: since the last success
          breaker,   \* _opened_at: "closed" (none), "open", or "lapsed" (too old)
          perTool, perAgent,  \* the counters of QuotaTracker
          call,      \* call[a]: the call of a and how far it is
          ran        \* ran[a][t]: calls that passed the gate (history)

vars == <<errors, breaker, perTool, perAgent, call, ran>>

NoCall == [at |-> "none"]
At(place, t) == [at |-> place, tool |-> t]

Init == /\ errors = [t \in Tools |-> 0]
        /\ breaker = [t \in Tools |-> "closed"]
        /\ perTool = [t \in Tools |-> 0]
        /\ perAgent = [a \in Agents |-> 0]
        /\ call = [a \in Agents |-> NoCall]
        /\ ran = [a \in Agents |-> [t \in Tools |-> 0]]

is_open(t) == breaker[t] = "open"

\* QuotaTracker.check_and_increment, without an await between the two
check_and_increment(a, t) ==
  /\ perTool[t] < ToolLimit
  /\ perAgent[a] < AgentLimit
  /\ perTool' = [perTool EXCEPT ![t] = @ + 1]
  /\ perAgent' = [perAgent EXCEPT ![a] = @ + 1]

Pass(a, t) == /\ call' = [call EXCEPT ![a] = At("running", t)]
              /\ ran' = [ran EXCEPT ![a][t] = @ + 1]

\* Variant: the counters are incremented only once the operator has agreed.
Check_countsLater(a, t) ==
  /\ call[a] = NoCall /\ t \in Allowlist /\ ~is_open(t)
  /\ perTool[t] < ToolLimit /\ perAgent[a] < AgentLimit
  /\ \/ t \notin Confirmed /\ check_and_increment(a, t) /\ Pass(a, t)
     \/ /\ t \in Confirmed
        /\ call' = [call EXCEPT ![a] = At("confirming", t)]
        /\ UNCHANGED <<ran, perTool, perAgent>>
  /\ UNCHANGED <<errors, breaker>>

\* SafetyGate.check up to its end, or up to the question to the operator
Check(a, t) ==
  /\ call[a] = NoCall
  /\ t \in Allowlist
  /\ ~is_open(t)
  /\ check_and_increment(a, t)
  /\ \/ t \notin Confirmed /\ Pass(a, t)
     \/ /\ t \in Confirmed
        /\ call' = [call EXCEPT ![a] = At("confirming", t)]
        /\ UNCHANGED ran
  /\ UNCHANGED <<errors, breaker>>

\* confirm_tool_call returns: the operator allows the call or denies it.
Answer(a, t, approved) ==
  /\ call[a] = At("confirming", t)
  /\ \/ approved /\ Pass(a, t)
     \/ /\ ~approved
        /\ call' = [call EXCEPT ![a] = NoCall]
        /\ UNCHANGED ran
  /\ UNCHANGED <<errors, breaker, perTool, perAgent>>

record_success(t) == /\ errors' = [errors EXCEPT ![t] = 0]
                     /\ breaker' = [breaker EXCEPT ![t] = "closed"]

record_error(t) ==
  /\ errors' = [errors EXCEPT ![t] = @ + 1]
  /\ breaker' = [breaker EXCEPT ![t] = IF errors[t] + 1 >= Threshold THEN "open" ELSE @]

\* The tool returned or raised, and the caller records which.
Finish(a, t) ==
  /\ call[a] = At("running", t)
  /\ call' = [call EXCEPT ![a] = NoCall]
  /\ record_success(t) \/ record_error(t)
  /\ UNCHANGED <<perTool, perAgent, ran>>

\* More than the breaker's timeout has passed since it was opened.
Lapse(t) ==
  /\ breaker[t] = "open"
  /\ breaker' = [breaker EXCEPT ![t] = "lapsed"]
  /\ UNCHANGED <<errors, perTool, perAgent, call, ran>>

Next == \/ \E a \in Agents, t \in Tools :
             Check(a, t) \/ Finish(a, t) \/ \E ok \in BOOLEAN : Answer(a, t, ok)
        \/ \E t \in Tools : Lapse(t)

Spec == Init /\ [][Next]_vars

-----------------------------------------------------------------------------
TypeOK ==
  /\ errors \in [Tools -> Nat]
  /\ breaker \in [Tools -> {"closed", "open", "lapsed"}]
  /\ perTool \in [Tools -> Nat] /\ perAgent \in [Agents -> Nat]
  /\ call \in [Agents -> {NoCall} \cup {At(p, t) : p \in {"confirming", "running"}, t \in Tools}]

(* A running call is admitted while another waits for the operator, yet     *)
(* never more calls pass the gate than the quotas allow (safety.py:178).    *)
QuotaHolds ==
  /\ \A t \in Tools :
       Cardinality({x \in Agents \X (1..AgentLimit + ToolLimit) : x[2] <= ran[x[1]][t]})
         <= ToolLimit
  /\ \A a \in Agents :
       Cardinality({x \in Tools \X (1..AgentLimit + ToolLimit) : x[2] <= ran[a][x[1]]})
         <= AgentLimit

(* The breaker and its counter agree in whatever order overlapping calls    *)
(* succeed and fail: it is closed exactly below the threshold               *)
(* (safety.py:71-78).                                                        *)
BreakerMatchesErrors ==
  \A t \in Tools : breaker[t] = "closed" <=> errors[t] < Threshold

(* The gate's two limits hold together, over any overlap of checks,         *)
(* confirmations and outcomes.                                              *)
GateHolds == QuotaHolds /\ BreakerMatchesErrors

=============================================================================
