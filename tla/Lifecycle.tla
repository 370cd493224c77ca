----------------------------- MODULE Lifecycle -----------------------------
(***************************************************************************)
(* The lifecycle mode: SwarmRuntime._run_lifecycle of                      *)
(* coordination/orchestrator.py, which takes the phases of a lifecycle     *)
(* file one after the other, and the "swarm workforce" command of          *)
(* cli/main.py, which with --deploy stops it after "build", asks for       *)
(* feedback, and resumes it at "live_test".                                *)
(*                                                                         *)
(* A lifecycle is a record: order, the sequence of its phase ids; and, for *)
(* each phase, inputs and outputs (sets of artifact types), roles (a       *)
(* sequence of agent roles), gate, deployOnly (skip_without_deploy) and    *)
(* reroute (on_failure is not "abort").  The registry is reduced to        *)
(* whether a type has an artifact, and whether this command wrote it:      *)
(* drafts satisfy every check, and nothing supersedes an artifact.         *)
(***************************************************************************)
EXTENDS Naturals, Sequences

CONSTANTS Lifecycles,  \* the lifecycle files
          Topology,    \* the roles the topology registers
          LeftOvers,   \* the sets of types earlier commands may have left
          Unasked      \* the types an agent may write although not asked to

Nothing == "nothing"

Phases(l) == {l.order[i] : i \in 1..Len(l.order)}
Types(l)  == UNION {l.inputs[p] \cup l.outputs[p] : p \in Phases(l)}

\* The phases a command takes: without --deploy those of the deployment are
\* left out.
PlanOf(l, deploying) ==
  SelectSeq(l.order, LAMBDA p : deploying \/ ~l.deployOnly[p])

(***************************************************************************)
(* What the code takes for granted of a lifecycle file: every phase is     *)
(* listed once, and where the command resumes is right after where it      *)
(* pauses.                                                                 *)
(***************************************************************************)
ASSUME LifecycleAssumption ==
  \A l \in Lifecycles, deploying \in BOOLEAN :
    LET plan == PlanOf(l, deploying)
    IN  /\ plan \in Seq(Phases(l))
        /\ \A i, j \in 1..Len(plan) : plan[i] = plan[j] => i = j
        /\ deploying => \A i \in 1..Len(plan) :
             plan[i] = "live_test" => i > 1 /\ plan[i - 1] = "build"

(***************************************************************************)
(* A lifecycle file may have it that a phase reroutes to an "iteration"    *)
(* that comes before it; the one that is shipped does not, and neither do  *)
(* the ones of the runs.  Only PassedIsNotRepeated depends on it.          *)
(***************************************************************************)
ReroutesAreForward ==
  \A l \in Lifecycles, deploying \in BOOLEAN :
    LET plan == PlanOf(l, deploying)
    IN  \A i, j \in 1..Len(plan) : l.reroute[plan[i]] /\ plan[j] = "iteration" => i <= j

VARIABLES lifecycle,   \* the file that is loaded
          deploy,      \* --deploy
          gatesOn,     \* gates are asked: interactive, a TTY, not --approve-all
          stopAfter, resumeFrom,
          at,          \* where the command is: see Places
          idx,         \* current_phase_idx + 1
          slot,        \* the position in the phase's roles
          succeeded,   \* an agent of this phase returned a result
          anyResult,   \* an agent of this call of run() returned a result
          outcome,     \* what the last call of run() returned
          registry,    \* registry[type]: "none", "earlier" or "now"
          blocks,      \* the last SecurityReport blocks progression
          passed,      \* the phases that were left successfully (history)
          approved,    \* the phases a human approved (history)
          diverted     \* a failed phase did not end the run (history)

vars == <<lifecycle, deploy, gatesOn, stopAfter, resumeFrom, at, idx, slot,
          succeeded, anyResult, outcome, registry, blocks, passed, approved,
          diverted>>

\* _run_lifecycle is at the head of its loop, in the agents of a phase, or
\* at its gate; the command looks at what was returned, takes feedback, or
\* has ended.
Places == {"head", "agents", "gate", "returned", "feedback", "ended"}

Plan == PlanOf(lifecycle, deploy)

\* Without --deploy the inputs of "iteration" are waived.
Required(p) == IF ~deploy /\ p = "iteration" THEN {} ELSE lifecycle.inputs[p]

Phase == Plan[idx]
InPlan == idx <= Len(Plan)

\* _check_artifacts finds none missing.  It may also miss what is there,
\* since a registry query that fails returns nothing.
Found(types) == \A ty \in types : registry[ty] # "none"

Init ==
  /\ lifecycle \in Lifecycles
  /\ deploy \in BOOLEAN /\ gatesOn \in BOOLEAN
  /\ stopAfter = IF deploy THEN "build" ELSE Nothing
  /\ resumeFrom = Nothing
  /\ at = "head" /\ idx = 1 /\ slot = 1
  /\ succeeded = FALSE /\ anyResult = FALSE /\ outcome = Nothing
  /\ \E left \in LeftOvers :
       registry = [ty \in Types(lifecycle) |-> IF ty \in left THEN "earlier" ELSE "none"]
  /\ blocks = FALSE
  /\ passed = {} /\ approved = {} /\ diverted = FALSE

Config == <<lifecycle, deploy, gatesOn>>

-----------------------------------------------------------------------------
(* _run_lifecycle                                                          *)

Return(result) == at' = "returned" /\ outcome' = result

SkipToResumePoint ==
  /\ at = "head" /\ InPlan
  /\ resumeFrom # Nothing /\ Phase # resumeFrom
  /\ idx' = idx + 1
  /\ UNCHANGED <<Config, stopAfter, resumeFrom, at, slot, succeeded, anyResult,
                 outcome, registry, blocks, passed, approved, diverted>>

\* The phase is the next one to run, and its inputs are checked.
Reached == at = "head" /\ InPlan /\ resumeFrom \in {Nothing, Phase}

StartPhase ==
  /\ Reached /\ Found(Required(Phase))
  /\ at' = "agents" /\ slot' = 1 /\ succeeded' = FALSE
  /\ resumeFrom' = Nothing
  /\ UNCHANGED <<Config, stopAfter, idx, anyResult, outcome, registry, blocks,
                 passed, approved, diverted>>

InputsMissing ==
  /\ Reached /\ Required(Phase) # {}
  /\ Return("inputs_missing")
  /\ resumeFrom' = Nothing
  /\ UNCHANGED <<Config, stopAfter, idx, slot, succeeded, anyResult, registry,
                 blocks, passed, approved, diverted>>

\* The loop is done: the results of this call decide.
Finish ==
  /\ at = "head" /\ ~InPlan
  /\ Return(IF anyResult THEN "success" ELSE "no_success")
  /\ UNCHANGED <<Config, stopAfter, resumeFrom, idx, slot, succeeded, anyResult,
                 registry, blocks, passed, approved, diverted>>

-----------------------------------------------------------------------------
(* _run_phase_agents: one role after the other                             *)

AtRole == at = "agents" /\ slot <= Len(lifecycle.roles[Phase])
Registered == lifecycle.roles[Phase][slot] \in Topology

NextRole(result) ==
  /\ slot' = slot + 1
  /\ succeeded' = (succeeded \/ result)
  /\ anyResult' = (anyResult \/ result)
  /\ UNCHANGED <<Config, stopAfter, resumeFrom, at, idx, outcome, registry,
                 blocks, passed, approved, diverted>>

SkipRole == AtRole /\ ~Registered /\ NextRole(FALSE)

\* An agent writes an artifact with artifact_write, one that the phase asks
\* for or another; a SecurityReport has its verdict in it.
WriteArtifact(ty) ==
  /\ AtRole /\ Registered
  /\ ty \in lifecycle.outputs[Phase] \cup Unasked
  /\ registry' = [registry EXCEPT ![ty] = "now"]
  /\ IF ty = "SecurityReport" THEN blocks' \in BOOLEAN ELSE UNCHANGED blocks
  /\ UNCHANGED <<Config, stopAfter, resumeFrom, at, idx, slot, succeeded,
                 anyResult, outcome, passed, approved, diverted>>

AgentReturns == AtRole /\ Registered /\ NextRole(TRUE)
AgentRaises  == AtRole /\ Registered /\ NextRole(FALSE)

-----------------------------------------------------------------------------
(* The end of a phase                                                      *)

AgentsDone == at = "agents" /\ slot > Len(lifecycle.roles[Phase])

\* Variant: the outputs are not checked.
PhaseOk_agentsOnly == succeeded

PhaseOk     == succeeded /\ Found(lifecycle.outputs[Phase])
PhaseFailed == ~succeeded \/ lifecycle.outputs[Phase] # {}

NeedsGate == lifecycle.gate[Phase] /\ gatesOn

\* What follows the gate, or the phase if it has none.
LeavePhase ==
  /\ IF stopAfter # Nothing /\ stopAfter = Phase
     THEN Return("paused") /\ UNCHANGED idx
     ELSE at' = "head" /\ idx' = idx + 1 /\ UNCHANGED outcome
  /\ UNCHANGED <<Config, stopAfter, resumeFrom, slot, succeeded, anyResult,
                 registry, blocks>>

ToGate ==
  /\ at' = "gate"
  /\ UNCHANGED <<Config, stopAfter, resumeFrom, idx, slot, succeeded, anyResult,
                 outcome, registry, blocks, approved>>

PassPhase ==
  /\ AgentsDone /\ PhaseOk
  /\ passed' = passed \cup {Phase}
  /\ IF NeedsGate THEN ToGate ELSE LeavePhase /\ UNCHANGED approved
  /\ UNCHANGED diverted

Abort ==
  /\ AgentsDone /\ PhaseFailed /\ ~lifecycle.reroute[Phase]
  /\ Return("phase_failed")
  /\ UNCHANGED <<Config, stopAfter, resumeFrom, idx, slot, succeeded, anyResult,
                 registry, blocks, passed, approved, diverted>>

\* Variant: a failed phase is run again.
Reroute_retry ==
  /\ AgentsDone /\ PhaseFailed /\ lifecycle.reroute[Phase]
  /\ at' = "head" /\ diverted' = TRUE
  /\ UNCHANGED <<Config, stopAfter, resumeFrom, idx, slot, succeeded, anyResult,
                 outcome, registry, blocks, passed, approved>>

\* A lifecycle without an "iteration" phase goes on as if nothing failed.
Reroute ==
  /\ AgentsDone /\ PhaseFailed /\ lifecycle.reroute[Phase]
  /\ diverted' = TRUE
  /\ UNCHANGED passed
  /\ \/ \E i \in 1..Len(Plan) :
          /\ Plan[i] = "iteration"
          /\ at' = "head" /\ idx' = i
          /\ UNCHANGED <<Config, stopAfter, resumeFrom, slot, succeeded, anyResult,
                         outcome, registry, blocks, approved>>
     \/ /\ \A i \in 1..Len(Plan) : Plan[i] # "iteration"
        /\ IF NeedsGate THEN ToGate ELSE LeavePhase /\ UNCHANGED approved

Approve ==
  /\ at = "gate"
  /\ approved' = approved \cup {Phase}
  /\ LeavePhase
  /\ UNCHANGED <<passed, diverted>>

Reject ==
  /\ at = "gate"
  /\ Return("rejected")
  /\ UNCHANGED <<Config, stopAfter, resumeFrom, idx, slot, succeeded, anyResult,
                 registry, blocks, passed, approved, diverted>>

-----------------------------------------------------------------------------
(* The workforce command                                                   *)

\* With --json, or when the run did not succeed, the command is over.
Quit ==
  /\ at = "returned"
  /\ at' = "ended"
  /\ UNCHANGED <<Config, stopAfter, resumeFrom, idx, slot, succeeded, anyResult,
                 outcome, registry, blocks, passed, approved, diverted>>

\* The second call of run() is not followed by feedback.
TakeFeedback ==
  /\ at = "returned" /\ outcome \in {"success", "paused"}
  /\ deploy => stopAfter # Nothing
  /\ at' = "feedback"
  /\ UNCHANGED <<Config, stopAfter, resumeFrom, idx, slot, succeeded, anyResult,
                 outcome, registry, blocks, passed, approved, diverted>>

\* The user is done, or the agent that applies the feedback raises, which
\* ends the command.
EndFeedback ==
  /\ at = "feedback"
  /\ at' = "ended"
  /\ UNCHANGED <<Config, stopAfter, resumeFrom, idx, slot, succeeded, anyResult,
                 outcome, registry, blocks, passed, approved, diverted>>

\* Variant: the resumed run starts over.
Resume_fromStart ==
  /\ at = "feedback" /\ outcome = "paused"
  /\ stopAfter' = Nothing /\ resumeFrom' = Nothing
  /\ at' = "head" /\ idx' = 1
  /\ anyResult' = FALSE /\ outcome' = Nothing
  /\ UNCHANGED <<Config, slot, succeeded, registry, blocks, passed, approved, diverted>>

\* Variant: the resumed run skips the live test.
Resume_atQuality ==
  /\ at = "feedback" /\ outcome = "paused"
  /\ stopAfter' = Nothing /\ resumeFrom' = "quality"
  /\ at' = "head" /\ idx' = 1
  /\ anyResult' = FALSE /\ outcome' = Nothing
  /\ UNCHANGED <<Config, slot, succeeded, registry, blocks, passed, approved, diverted>>

Resume ==
  /\ at = "feedback" /\ outcome = "paused"
  /\ stopAfter' = Nothing
  /\ resumeFrom' = "live_test"
  /\ at' = "head" /\ idx' = 1
  /\ anyResult' = FALSE /\ outcome' = Nothing
  /\ UNCHANGED <<Config, slot, succeeded, registry, blocks, passed, approved, diverted>>

-----------------------------------------------------------------------------
RunPhases == \/ SkipToResumePoint \/ StartPhase \/ InputsMissing \/ Finish
             \/ SkipRole \/ AgentReturns \/ AgentRaises
             \/ PassPhase \/ Abort \/ Reroute \/ Approve \/ Reject

Command == Quit \/ TakeFeedback \/ EndFeedback \/ Resume

Next == RunPhases \/ Command \/ \E ty \in Types(lifecycle) : WriteArtifact(ty)

Spec == Init /\ [][Next]_vars

\* An agent returns or raises, since its iterations are limited, and the
\* human answers at gates and ends the feedback.
FairSpec == Spec /\ WF_vars(RunPhases) /\ WF_vars(Command)

-----------------------------------------------------------------------------
(* Properties                                                              *)

\* Every variable keeps its type.
TypeOK ==
  /\ lifecycle \in Lifecycles /\ deploy \in BOOLEAN /\ gatesOn \in BOOLEAN
  /\ stopAfter \in {Nothing, "build"} /\ resumeFrom \in {Nothing, "live_test"}
  /\ at \in Places
  /\ idx \in 1..Len(Plan) + 1 /\ (at \in {"agents", "gate"} => InPlan)
  /\ slot \in Nat \ {0}
  /\ succeeded \in BOOLEAN /\ anyResult \in BOOLEAN
  /\ outcome \in {Nothing, "success", "no_success", "paused", "inputs_missing",
                  "phase_failed", "rejected"}
  /\ registry \in [Types(lifecycle) -> {"none", "earlier", "now"}]
  /\ blocks \in BOOLEAN
  /\ passed \subseteq Phases(lifecycle) /\ approved \subseteq Phases(lifecycle)
  /\ diverted \in BOOLEAN

(***************************************************************************)
(* The agents of a phase run only when every phase of the plan before it   *)
(* has passed and, where gates are asked for, was approved, whether or not *)
(* the command was paused and resumed in between.  The skipping of the     *)
(* resumed call (orchestrator.py:325-329) knows nothing of what was done:  *)
(* it is right because the phase the command resumes at is the one after   *)
(* the phase it paused at.                                                 *)
(***************************************************************************)
PhasesInOrder ==
  at = "agents" /\ ~diverted =>
    \A i \in 1..(idx - 1) :
      /\ Plan[i] \in passed
      /\ gatesOn /\ lifecycle.gate[Plan[i]] => Plan[i] \in approved

(***************************************************************************)
(* A command that ends with success, and did not stop at the pause, has    *)
(* passed every phase of the plan and leaves every artifact they promise,  *)
(* although a resumed run() looks at the results of its own call only.     *)
(***************************************************************************)
SuccessIsComplete ==
  outcome = "success" /\ ~diverted =>
    \A i \in 1..Len(Plan) : Plan[i] \in passed /\ Found(lifecycle.outputs[Plan[i]])

(***************************************************************************)
(* A phase that has passed is not run again, after a resume or a reroute,  *)
(* as long as a phase is rerouted to one that does not come before it.     *)
(***************************************************************************)
PassedIsNotRepeated ==
  [][at = "head" /\ at' = "agents" => Phase \notin passed]_vars

(***************************************************************************)
(* The command ends: rerouting to "iteration" does not make a cycle, as    *)
(* long as "iteration" itself aborts on failure and comes last.            *)
(***************************************************************************)
CommandEnds == <>(at = "ended")

-----------------------------------------------------------------------------
(* Claims of comments and documents that the code does not meet.           *)

(***************************************************************************)
(* software_delivery.yaml:167: "Critical/High security findings block      *)
(* progression", and the transition of line 246.                           *)
(***************************************************************************)
BlockedIsNotDeployed ==
  at = "agents" /\ Phase = "deployment" => ~blocks

=============================================================================
