-------------------------- MODULE LifecycleProofs --------------------------
(***************************************************************************)
(* The safety properties of Lifecycle, for any lifecycle file that meets   *)
(* LifecycleAssumption, any topology and any contents of the registry.     *)
(***************************************************************************)
EXTENDS Lifecycle, TLAPS

\* The phase at position i has passed, with approval where it is asked for.
Cleared(i) == /\ Plan[i] \in passed
              /\ gatesOn /\ lifecycle.gate[Plan[i]] => Plan[i] \in approved

\* What has been done when run() is at work, for the first or second time.
Progress ==
  /\ at \in {"agents", "gate"} => resumeFrom = Nothing
  /\ at = "gate" => Phase \in passed
  /\ resumeFrom = Nothing /\ at \in {"head", "agents", "gate"} =>
       \A i \in 1..(idx - 1) : Cleared(i)

\* What has been done when the command pauses, and when it has resumed but
\* not yet reached the phase it resumes at.
Pause ==
  /\ stopAfter # Nothing => deploy
  /\ outcome = "paused" => /\ deploy /\ InPlan /\ Phase = "build"
                           /\ at \in {"returned", "feedback", "ended"}
                           /\ \A i \in 1..idx : Cleared(i)
  /\ resumeFrom # Nothing =>
       /\ ~anyResult
       /\ \A i \in 1..Len(Plan) : Plan[i] = "live_test" => \A j \in 1..(i - 1) : Cleared(j)

\* What passed has left its artifacts, and success means all have passed.
Artifacts ==
  /\ \A p \in passed : Found(lifecycle.outputs[p])
  /\ outcome = "success" /\ ~diverted => \A i \in 1..Len(Plan) : Plan[i] \in passed

LifecycleInv == TypeOK /\ (~diverted => Progress /\ Pause) /\ Artifacts

-----------------------------------------------------------------------------
(* The plan does not change while the command runs.                        *)
LEMMA PlanStays ==
  ASSUME UNCHANGED <<lifecycle, deploy, gatesOn>>
  PROVE  /\ Plan' = Plan /\ Phases(lifecycle)' = Phases(lifecycle)
         /\ Types(lifecycle)' = Types(lifecycle)
BY DEF Plan, Phases, Types

LEMMA PlanFacts ==
  ASSUME TypeOK
  PROVE  /\ Plan \in Seq(Phases(lifecycle)) /\ Len(Plan) \in Nat
         /\ \A i \in 1..Len(Plan) : Plan[i] \in Phases(lifecycle)
         /\ \A i, j \in 1..Len(Plan) : Plan[i] = Plan[j] => i = j
         /\ deploy => \A i \in 1..Len(Plan) :
              Plan[i] = "live_test" => i > 1 /\ Plan[i - 1] = "build"
<1>1. lifecycle \in Lifecycles /\ deploy \in BOOLEAN
  BY DEF TypeOK
<1>2. /\ Plan \in Seq(Phases(lifecycle))
      /\ \A i, j \in 1..Len(Plan) : Plan[i] = Plan[j] => i = j
      /\ deploy => \A i \in 1..Len(Plan) :
           Plan[i] = "live_test" => i > 1 /\ Plan[i - 1] = "build"
  BY <1>1, LifecycleAssumption DEF Plan
<1> QED BY <1>2

THEOREM InitInv == Init => LifecycleInv
<1> SUFFICES ASSUME Init PROVE LifecycleInv
  OBVIOUS
<1>1. Plan \in Seq(Phases(lifecycle))
  BY LifecycleAssumption DEF Init, Plan
<1>2. registry \in [Types(lifecycle) -> {"none", "earlier", "now"}]
  <2>1. PICK left \in LeftOvers :
          registry = [ty \in Types(lifecycle) |-> IF ty \in left THEN "earlier" ELSE "none"]
    BY DEF Init
  <2> QED BY <2>1
<1>3. TypeOK
  <2>1. stopAfter \in {Nothing, "build"} /\ resumeFrom \in {Nothing, "live_test"}
    BY DEF Init
  <2>2. idx \in 1..(Len(Plan) + 1)
    BY <1>1 DEF Init
  <2>3. passed \subseteq Phases(lifecycle) /\ approved \subseteq Phases(lifecycle)
    BY DEF Init
  <2>4. /\ lifecycle \in Lifecycles /\ deploy \in BOOLEAN /\ gatesOn \in BOOLEAN
        /\ at = "head" /\ slot = 1 /\ outcome = Nothing
        /\ succeeded = FALSE /\ anyResult = FALSE /\ blocks = FALSE /\ diverted = FALSE
    BY DEF Init
  <2>5. slot \in Nat \ {0} /\ at \in Places /\ at \notin {"agents", "gate"}
    BY <2>4 DEF Places
  <2> QED BY <1>2, <2>1, <2>2, <2>3, <2>4, <2>5 DEF TypeOK
<1>4. Progress /\ Pause /\ Artifacts
  BY DEF Init, Progress, Pause, Artifacts, Nothing
<1> QED BY <1>3, <1>4 DEF LifecycleInv

-----------------------------------------------------------------------------
(* Types                                                                   *)

THEOREM StepKeepsTypes == TypeOK /\ [Next]_vars => TypeOK'
<1> SUFFICES ASSUME TypeOK, [Next]_vars PROVE TypeOK'
  OBVIOUS
<1>1. UNCHANGED <<lifecycle, deploy, gatesOn>>
  BY DEF Next, RunPhases, Command, vars, Config, SkipToResumePoint, StartPhase,
         InputsMissing, Finish, SkipRole, AgentReturns, AgentRaises, NextRole,
         WriteArtifact, PassPhase, Abort, Reroute, Approve, Reject, LeavePhase,
         ToGate, Quit, TakeFeedback, EndFeedback, Resume
<1>2. /\ Plan' = Plan /\ Phases(lifecycle)' = Phases(lifecycle)
      /\ Types(lifecycle)' = Types(lifecycle)
  BY <1>1, PlanStays
<1>3. /\ Len(Plan) \in Nat
      /\ InPlan => Phase \in Phases(lifecycle) /\ idx \in 1..Len(Plan)
  BY PlanFacts DEF TypeOK, InPlan, Phase
<1> USE DEF TypeOK, Places, Config, Nothing, Return, InPlan
<1>4. CASE SkipToResumePoint
  BY <1>1, <1>2, <1>3, <1>4 DEF SkipToResumePoint
<1>5. CASE StartPhase \/ InputsMissing \/ Finish
  <2>1. CASE StartPhase
    <3>1. /\ idx \in 1..Len(Plan) /\ at' = "agents" /\ resumeFrom' = Nothing
          /\ slot' = 1 /\ succeeded' = FALSE
          /\ UNCHANGED <<stopAfter, idx, anyResult, outcome, registry, blocks,
                         passed, approved, diverted>>
      BY <1>3, <2>1 DEF StartPhase, Reached
    <3>2. idx' \in 1..(Len(Plan') + 1) /\ idx' <= Len(Plan')
      BY <1>2, <1>3, <3>1
    <3>3. slot' \in Nat \ {0}
      BY <3>1
    <3>4. succeeded' \in BOOLEAN
      BY <3>1, Zenon
    <3> QED BY <1>1, <1>2, <3>1, <3>2, <3>3, <3>4
  <2>2. CASE InputsMissing
    BY <1>1, <1>2, <1>3, <2>2 DEF InputsMissing, Reached
  <2>3. CASE Finish
    BY <1>1, <1>2, <1>3, <2>3 DEF Finish
  <2> QED BY <1>5, <2>1, <2>2, <2>3
<1>6. CASE SkipRole \/ AgentReturns \/ AgentRaises
  <2>1. ASSUME NEW result \in BOOLEAN, AtRole, NextRole(result) PROVE TypeOK'
    <3>1. succeeded' \in BOOLEAN /\ anyResult' \in BOOLEAN
      BY <2>1 DEF NextRole
    <3> QED BY <1>1, <1>2, <1>3, <2>1, <3>1 DEF NextRole, AtRole
  <2> QED BY <1>6, <2>1 DEF SkipRole, AgentReturns, AgentRaises
<1>7. ASSUME NEW ty \in Types(lifecycle), WriteArtifact(ty) PROVE TypeOK'
  <2>1. registry' \in [Types(lifecycle) -> {"none", "earlier", "now"}]
    BY <1>7 DEF WriteArtifact
  <2>2. blocks' \in BOOLEAN
    BY <1>7 DEF WriteArtifact
  <2> QED BY <1>1, <1>2, <1>3, <1>7, <2>1, <2>2 DEF WriteArtifact
<1>8. ASSUME at \in {"agents", "gate"}, LeavePhase,
             passed' \subseteq Phases(lifecycle), approved' \subseteq Phases(lifecycle),
             diverted' \in BOOLEAN
      PROVE  TypeOK'
  BY <1>1, <1>2, <1>3, <1>8 DEF LeavePhase
<1>9. ASSUME at = "agents", ToGate, passed' \subseteq Phases(lifecycle),
             diverted' \in BOOLEAN
      PROVE  TypeOK'
  BY <1>1, <1>2, <1>3, <1>9 DEF ToGate
<1>10. CASE PassPhase
  BY <1>3, <1>8, <1>9, <1>10 DEF PassPhase, AgentsDone
<1>11. CASE Abort \/ Reject
  BY <1>1, <1>2, <1>3, <1>11 DEF Abort, Reject
<1>12. CASE Reroute
  <2>1. CASE at' = "head" /\ \E i \in 1..Len(Plan) : idx' = i
             /\ UNCHANGED <<Config, stopAfter, resumeFrom, slot, succeeded, anyResult,
                            outcome, registry, blocks, approved>>
    BY <1>1, <1>2, <1>3, <1>12, <2>1 DEF Reroute
  <2> QED BY <1>3, <1>8, <1>9, <1>12, <2>1 DEF Reroute, AgentsDone
<1>13. CASE Approve
  BY <1>3, <1>8, <1>13 DEF Approve
<1>14. CASE Command
  <2>1. CASE Quit \/ TakeFeedback \/ EndFeedback
    BY <1>1, <1>2, <1>3, <2>1 DEF Quit, TakeFeedback, EndFeedback
  <2>2. CASE Resume
    <3>1. /\ stopAfter' = Nothing /\ resumeFrom' = "live_test" /\ at' = "head"
          /\ idx' = 1 /\ anyResult' = FALSE /\ outcome' = Nothing
          /\ UNCHANGED <<slot, succeeded, registry, blocks, passed, approved, diverted>>
      BY <2>2 DEF Resume
    <3>2. idx' \in 1..(Len(Plan) + 1)
      BY <1>3, <3>1
    <3> QED BY <1>1, <1>2, <3>1, <3>2
  <2> QED BY <1>14, <2>1, <2>2 DEF Command
<1>15. CASE UNCHANGED vars
  BY <1>1, <1>2, <1>15 DEF vars
<1> QED BY <1>4, <1>5, <1>6, <1>7, <1>10, <1>11, <1>12, <1>13, <1>14, <1>15
        DEF Next, RunPhases

THEOREM TypeCorrect == Spec => []TypeOK
<1>1. Init => TypeOK
  BY InitInv DEF LifecycleInv
<1> QED BY <1>1, StepKeepsTypes, PTL DEF Spec

-----------------------------------------------------------------------------
(* Lemmas about one step                                                   *)

LEMMA ConfigStays ==
  ASSUME Next
  PROVE  UNCHANGED <<lifecycle, deploy, gatesOn>>
BY DEF Next, RunPhases, Command, Config, SkipToResumePoint, StartPhase,
       InputsMissing, Finish, SkipRole, AgentReturns, AgentRaises, NextRole,
       WriteArtifact, PassPhase, Abort, Reroute, Approve, Reject, LeavePhase,
       ToGate, Quit, TakeFeedback, EndFeedback, Resume

\* What is cleared stays cleared.
LEMMA ClearedStays ==
  ASSUME UNCHANGED <<lifecycle, deploy, gatesOn>>,
         passed \subseteq passed', approved \subseteq approved',
         NEW i, Cleared(i)
  PROVE  Cleared(i)'
BY PlanStays DEF Cleared

\* A step that touches no artifact, passes no phase and does not succeed.
LEMMA ArtifactsStay ==
  ASSUME Artifacts, UNCHANGED <<lifecycle, deploy, gatesOn, registry, passed>>,
         outcome' # "success" \/ (outcome' = outcome /\ (diverted' \/ ~diverted))
  PROVE  Artifacts'
BY PlanStays DEF Artifacts, Found

\* What is left to prove of a step.
LEMMA Remaining ==
  ASSUME TypeOK', Artifacts', ~diverted' => Progress' /\ Pause'
  PROVE  LifecycleInv'
BY DEF LifecycleInv

\* A phase is left for the next one, or for the pause.
LEMMA LeaveKeepsInv ==
  ASSUME LifecycleInv, TypeOK', at \in {"agents", "gate"}, LeavePhase,
         passed \subseteq passed', approved \subseteq approved',
         diverted' = diverted, NEW k, k = idx, ~diverted => Cleared(k)',
         \A p \in passed' : Found(lifecycle.outputs[p])
  PROVE  LifecycleInv'
<1>1. UNCHANGED <<lifecycle, deploy, gatesOn, stopAfter, resumeFrom, anyResult, registry>>
  BY DEF LeavePhase, Config
<1>2. Plan' = Plan /\ idx \in 1..Len(Plan) /\ Len(Plan) \in Nat
  BY <1>1, PlanStays, PlanFacts DEF LifecycleInv, TypeOK, InPlan
<1>3. \/ /\ at' = "returned" /\ outcome' = "paused" /\ idx' = idx
         /\ stopAfter # Nothing /\ stopAfter = Phase
      \/ at' = "head" /\ idx' = idx + 1 /\ outcome' = outcome
  BY DEF LeavePhase, Return
<1>4. Artifacts'
  <2>1. \A p \in passed' : Found(lifecycle.outputs[p])'
    BY <1>1 DEF Found
  <2>2. outcome' = "success" => outcome = "success"
    BY <1>3
  <2> QED BY <1>2, <2>1, <2>2 DEF Artifacts, LifecycleInv
<1>5. ASSUME ~diverted' PROVE Progress' /\ Pause'
  <2>1. ~diverted /\ Progress /\ Pause /\ resumeFrom = Nothing /\ outcome # "paused"
    BY <1>5 DEF LifecycleInv, Progress, Pause
  <2>2. \A i \in 1..(idx - 1) : Cleared(i)
    BY <2>1 DEF Progress
  <2>3. \A i \in 1..(idx - 1) : Cleared(i)'
    BY <1>1, <2>2, ClearedStays
  <2>4. \A i \in 1..idx : Cleared(i)'
    <3> SUFFICES ASSUME NEW i \in 1..idx PROVE Cleared(i)'
      OBVIOUS
    <3>1. CASE i \in 1..(idx - 1)
      BY <2>3, <3>1
    <3>2. CASE i = k
      BY <2>1, <3>2
    <3> QED BY <1>2, <3>1, <3>2
  <2>5. Progress'
    BY <1>1, <1>2, <1>3, <2>1, <2>4 DEF Progress
  <2>6. stopAfter \in {Nothing, "build"}
    BY DEF LifecycleInv, TypeOK
  <2>7. outcome' = "paused" => /\ deploy' /\ InPlan' /\ Phase' = "build"
                               /\ at' = "returned" /\ \A i \in 1..idx' : Cleared(i)'
    <3> SUFFICES ASSUME outcome' = "paused" PROVE
                 /\ deploy' /\ InPlan' /\ Phase' = "build"
                 /\ at' = "returned" /\ \A i \in 1..idx' : Cleared(i)'
      OBVIOUS
    <3>1. at' = "returned" /\ idx' = idx /\ stopAfter # Nothing /\ stopAfter = Phase
      BY <1>3, <2>1
    <3>2. deploy /\ Phase = "build"
      BY <2>1, <2>6, <3>1 DEF Pause
    <3> QED BY <1>1, <1>2, <2>4, <3>1, <3>2 DEF InPlan, Phase
  <2> QED BY <1>1, <2>1, <2>5, <2>7 DEF Pause
<1> QED BY <1>4, <1>5, Remaining

THEOREM StepKeepsInv == LifecycleInv /\ [Next]_vars => LifecycleInv'
<1> SUFFICES ASSUME LifecycleInv, Next PROVE LifecycleInv'
  <2>1. ASSUME LifecycleInv, UNCHANGED vars PROVE LifecycleInv'
    BY <2>1 DEF LifecycleInv, vars, TypeOK, Progress, Pause, Artifacts, Cleared,
                Found, Plan, Phase, InPlan, Phases, Types
  <2> QED BY <2>1
<1>1. UNCHANGED <<lifecycle, deploy, gatesOn>>
  BY ConfigStays
<1>2. TypeOK /\ TypeOK' /\ Artifacts
  BY StepKeepsTypes DEF LifecycleInv
<1>3. /\ Plan' = Plan /\ Len(Plan) \in Nat /\ idx \in 1..(Len(Plan) + 1)
      /\ Plan \in Seq(Phases(lifecycle))
      /\ \A i, j \in 1..Len(Plan) : Plan[i] = Plan[j] => i = j
      /\ deploy => \A i \in 1..Len(Plan) :
           Plan[i] = "live_test" => i > 1 /\ Plan[i - 1] = "build"
  BY <1>1, <1>2, PlanStays, PlanFacts DEF TypeOK
\* Steps that pass and approve nothing.
<1>4. ASSUME NEW i, Cleared(i), UNCHANGED <<passed, approved>> PROVE Cleared(i)'
  BY <1>1, <1>4, ClearedStays
<1>5. CASE SkipToResumePoint
  <2>1. Artifacts'
    BY <1>1, <1>2, <1>5, ArtifactsStay DEF SkipToResumePoint, Artifacts, Found
  <2>2. ASSUME ~diverted PROVE Progress' /\ Pause'
    BY <1>1, <1>3, <1>4, <1>5, <2>2
    DEF SkipToResumePoint, LifecycleInv, Progress, Pause
  <2> QED BY <1>2, <1>5, <2>1, <2>2, Remaining DEF SkipToResumePoint
<1>6. CASE StartPhase
  <2>1. Artifacts'
    BY <1>1, <1>2, <1>3, <1>6 DEF StartPhase, Artifacts, Found
  <2>2. ASSUME ~diverted PROVE Progress' /\ Pause'
    <3>1. \A i \in 1..(idx - 1) : Cleared(i)
      <4>1. CASE resumeFrom = Nothing
        BY <1>6, <2>2, <4>1 DEF StartPhase, Reached, LifecycleInv, Progress
      <4>2. CASE resumeFrom # Nothing
        <5>1. resumeFrom = "live_test" /\ Plan[idx] = "live_test" /\ idx \in 1..Len(Plan)
          BY <1>2, <1>3, <1>6, <4>2 DEF StartPhase, Reached, InPlan, Phase, TypeOK
        <5> QED BY <2>2, <4>2, <5>1 DEF LifecycleInv, Pause
      <4> QED BY <4>1, <4>2
    <3>2. \A i \in 1..(idx - 1) : Cleared(i)'
      BY <1>4, <1>6, <3>1 DEF StartPhase
    <3> QED BY <1>1, <1>3, <1>6, <2>2, <3>2
        DEF StartPhase, Reached, LifecycleInv, Progress, Pause
  <2> QED BY <1>2, <1>6, <2>1, <2>2, Remaining DEF StartPhase
<1>7. CASE InputsMissing
  <2>1. Artifacts'
    BY <1>1, <1>2, <1>7, ArtifactsStay DEF InputsMissing, Return
  <2>2. ASSUME ~diverted PROVE Progress' /\ Pause'
    BY <1>1, <1>7, <2>2 DEF InputsMissing, Return, LifecycleInv, Progress, Pause
  <2> QED BY <1>2, <1>7, <2>1, <2>2, Remaining DEF InputsMissing
<1>8. CASE Finish
  <2>1. ASSUME ~diverted, anyResult PROVE \A i \in 1..Len(Plan) : Plan[i] \in passed
    BY <1>3, <1>8, <2>1 DEF Finish, InPlan, LifecycleInv, Progress, Pause, Cleared
  <2>2. Artifacts'
    BY <1>1, <1>2, <1>3, <1>8, <2>1 DEF Finish, Return, Artifacts, Found
  <2>3. ASSUME ~diverted PROVE Progress' /\ Pause'
    <3>1. at' = "returned" /\ outcome' # "paused"
          /\ UNCHANGED <<stopAfter, resumeFrom, anyResult, passed, approved>>
      BY <1>8 DEF Finish, Return
    <3>2. Progress'
      BY <3>1 DEF Progress
    <3>3. Pause'
      BY <1>1, <1>3, <1>4, <2>3, <3>1 DEF LifecycleInv, Pause
    <3> QED BY <3>2, <3>3
  <2> QED BY <1>2, <1>8, <2>2, <2>3, Remaining DEF Finish
<1>9. ASSUME NEW result, AtRole, NextRole(result) PROVE LifecycleInv'
  <2>1. Artifacts'
    BY <1>1, <1>2, <1>3, <1>9 DEF NextRole, Artifacts, Found
  <2>2. ASSUME ~diverted PROVE Progress' /\ Pause'
    BY <1>1, <1>3, <1>4, <1>9, <2>2
    DEF AtRole, NextRole, LifecycleInv, Progress, Pause, Phase, InPlan
  <2> QED BY <1>2, <1>9, <2>1, <2>2, Remaining DEF NextRole
<1>10. ASSUME NEW ty \in Types(lifecycle), WriteArtifact(ty) PROVE LifecycleInv'
  <2>1. \A u \in Types(lifecycle) : registry[u] # "none" => registry'[u] # "none"
    BY <1>2, <1>10 DEF WriteArtifact, TypeOK
  <2>2. \A p \in passed : lifecycle.outputs[p] \subseteq Types(lifecycle)
    BY <1>2 DEF TypeOK, Types
  <2>3. Artifacts'
    BY <1>1, <1>2, <1>3, <1>10, <2>1, <2>2 DEF WriteArtifact, Artifacts, Found
  <2>4. ASSUME ~diverted PROVE Progress' /\ Pause'
    BY <1>1, <1>3, <1>4, <1>10, <2>4
    DEF WriteArtifact, AtRole, LifecycleInv, Progress, Pause, Phase, InPlan
  <2> QED BY <1>2, <1>10, <2>3, <2>4, Remaining DEF WriteArtifact
\* The end of a phase.
<1>11. ASSUME at = "agents", ToGate, passed' = passed \cup {Phase},
              \A p \in passed' : Found(lifecycle.outputs[p]), diverted' = diverted
       PROVE  LifecycleInv'
  <2>1. UNCHANGED <<resumeFrom, idx, outcome, registry, approved, stopAfter, anyResult>>
        /\ at' = "gate"
    BY <1>11 DEF ToGate
  <2>2. Artifacts'
    BY <1>1, <1>2, <1>3, <1>11, <2>1 DEF Artifacts, Found
  <2>3. ASSUME ~diverted PROVE Progress' /\ Pause'
    <3>1. \A i : Cleared(i) => Cleared(i)'
      BY <1>1, <1>11, <2>1, ClearedStays
    <3>2. Phase' \in passed'
      BY <1>3, <1>11, <2>1 DEF Phase
    <3> QED BY <1>1, <1>3, <1>11, <2>1, <2>3, <3>1, <3>2
        DEF LifecycleInv, Progress, Pause
  <2> QED BY <1>2, <1>11, <2>2, <2>3, Remaining
<1>12. CASE PassPhase
  <2>1. \A p \in passed' : Found(lifecycle.outputs[p])
    BY <1>2, <1>12 DEF PassPhase, PhaseOk, Artifacts
  <2>2. CASE NeedsGate
    BY <1>11, <1>12, <2>1, <2>2 DEF PassPhase, AgentsDone
  <2>3. CASE ~NeedsGate
    <3>1. ASSUME NEW k, k = idx PROVE Cleared(k)'
      <4>1. Plan'[k] = Phase /\ ~(gatesOn /\ lifecycle.gate[Phase])
        BY <1>3, <2>3, <3>1 DEF NeedsGate, Phase
      <4>2. Plan'[k] \in passed'
        BY <1>12, <4>1 DEF PassPhase
      <4> QED BY <1>1, <4>1, <4>2 DEF Cleared
    <3> QED BY <1>2, <1>12, <2>1, <2>3, <3>1, LeaveKeepsInv DEF PassPhase, AgentsDone
  <2> QED BY <2>2, <2>3
<1>13. CASE Approve
  <2>1. passed' = passed /\ approved' = approved \cup {Phase} /\ diverted' = diverted
    BY <1>13 DEF Approve
  <2>2. ASSUME NEW k, k = idx, ~diverted PROVE Cleared(k)'
    <3>1. Phase \in passed /\ Plan'[k] = Phase
      BY <1>3, <1>13, <2>2 DEF Approve, LifecycleInv, Progress, Phase
    <3> QED BY <1>1, <2>1, <3>1 DEF Cleared
  <2> QED BY <1>2, <1>13, <2>1, <2>2, LeaveKeepsInv DEF Approve, Artifacts
<1>14. CASE Abort \/ Reject
  <2>1. /\ at' = "returned" /\ outcome' \notin {"success", "paused"}
        /\ UNCHANGED <<stopAfter, resumeFrom, anyResult, registry, passed,
                       approved, diverted>>
    BY <1>14 DEF Abort, Reject, Return
  <2>2. Artifacts'
    BY <1>1, <1>2, <2>1, ArtifactsStay
  <2>3. ASSUME ~diverted PROVE Progress' /\ Pause'
    BY <1>1, <1>3, <1>4, <2>1, <2>3 DEF LifecycleInv, Progress, Pause
  <2> QED BY <1>2, <2>1, <2>2, <2>3, Remaining
<1>15. CASE Reroute
  <2>1. diverted' /\ UNCHANGED <<registry, passed>>
    BY <1>15 DEF Reroute, ToGate, LeavePhase
  <2>2. Artifacts'
    BY <1>1, <1>2, <1>3, <2>1 DEF Artifacts, Found
  <2> QED BY <1>2, <2>1, <2>2, Remaining
\* The command.
<1>16. CASE Quit \/ TakeFeedback \/ EndFeedback
  <2>1. /\ at' \in {"feedback", "ended"}
        /\ UNCHANGED <<stopAfter, resumeFrom, idx, anyResult, outcome, registry,
                       passed, approved, diverted>>
    BY <1>16 DEF Quit, TakeFeedback, EndFeedback
  <2>2. Artifacts'
    BY <1>1, <1>2, <1>3, <2>1 DEF Artifacts, Found
  <2>3. ASSUME ~diverted PROVE Progress' /\ Pause'
    BY <1>1, <1>3, <1>4, <2>1, <2>3
    DEF LifecycleInv, Progress, Pause, Phase, InPlan
  <2> QED BY <1>2, <2>1, <2>2, <2>3, Remaining
<1>17. CASE Resume
  <2>1. /\ at = "feedback" /\ outcome = "paused" /\ outcome' = Nothing
        /\ at' = "head" /\ idx' = 1 /\ stopAfter' = Nothing
        /\ resumeFrom' = "live_test" /\ anyResult' = FALSE
        /\ UNCHANGED <<registry, passed, approved, diverted>>
    BY <1>17 DEF Resume
  <2>2. Artifacts'
    BY <1>1, <1>2, <2>1, ArtifactsStay DEF Nothing
  <2>3. ASSUME ~diverted PROVE Progress' /\ Pause'
    <3>1. deploy /\ idx \in 1..Len(Plan) /\ Plan[idx] = "build" /\ \A i \in 1..idx : Cleared(i)
      BY <1>3, <2>1, <2>3 DEF LifecycleInv, Pause, InPlan, Phase
    <3>2. ASSUME NEW i \in 1..Len(Plan), Plan[i] = "live_test", NEW j \in 1..(i - 1)
          PROVE  Cleared(j)'
      <4>1. i > 1 /\ i - 1 \in 1..Len(Plan) /\ Plan[i - 1] = Plan[idx]
        BY <1>3, <3>1, <3>2
      <4>2. i - 1 = idx
        BY <1>3, <3>1, <4>1
      <4> QED BY <1>4, <2>1, <3>1, <4>2
    <3>3. Progress'
      BY <2>1 DEF Progress, Nothing
    <3>4. Pause'
      BY <1>3, <2>1, <3>2 DEF Pause, Nothing
    <3> QED BY <3>3, <3>4
  <2> QED BY <1>2, <2>1, <2>2, <2>3, Remaining
<1> QED BY <1>5, <1>6, <1>7, <1>8, <1>9, <1>10, <1>12, <1>13, <1>14, <1>15, <1>16, <1>17
        DEF Next, RunPhases, Command, SkipRole, AgentReturns, AgentRaises

THEOREM Invariance == Spec => []LifecycleInv
BY InitInv, StepKeepsInv, PTL DEF Spec

-----------------------------------------------------------------------------
(***************************************************************************)
(* No phase's agents run before every earlier phase has passed and been    *)
(* approved, through pause and resume, unless a failed phase was rerouted. *)
(***************************************************************************)
THEOREM PhasesAreInOrder == Spec => []PhasesInOrder
<1>1. LifecycleInv => PhasesInOrder
  BY DEF LifecycleInv, Progress, Cleared, PhasesInOrder
<1> QED BY <1>1, Invariance, PTL

(***************************************************************************)
(* Success means that every phase of the plan has passed and left what it  *)
(* promises in the registry.                                               *)
(***************************************************************************)
THEOREM SuccessIsAlwaysComplete == Spec => []SuccessIsComplete
<1>1. LifecycleInv => SuccessIsComplete
  BY DEF LifecycleInv, Artifacts, SuccessIsComplete
<1> QED BY <1>1, Invariance, PTL

-----------------------------------------------------------------------------
(* No phase is run again.  The invariant says it of what is still to come: *)
(* nothing from position i on has passed.                                  *)
Unpassed(i) == \A k \in 1..Len(Plan) : k >= i => Plan[k] \notin passed

Ahead ==
  /\ at \in {"agents", "gate"} => resumeFrom = Nothing
  /\ at \in {"head", "agents"} /\ resumeFrom = Nothing => Unpassed(idx)
  /\ at = "gate" => Unpassed(idx + 1)
  /\ stopAfter # Nothing => deploy
  /\ outcome = "paused" => /\ deploy /\ InPlan /\ Phase = "build" /\ Unpassed(idx + 1)
                           /\ at \in {"returned", "feedback", "ended"}
  /\ resumeFrom # Nothing =>
       \A i \in 1..Len(Plan) : Plan[i] = "live_test" => Unpassed(i)

AheadInv == TypeOK /\ Ahead

\* What has not passed stays so while nothing passes.
LEMMA UnpassedStays ==
  ASSUME UNCHANGED <<lifecycle, deploy, gatesOn, passed>>, NEW i, Unpassed(i)
  PROVE  Unpassed(i)'
BY PlanStays DEF Unpassed

\* What lies further on has not passed either.
LEMMA UnpassedOn ==
  ASSUME NEW i \in Nat, NEW j \in Nat, i <= j, Unpassed(i), Len(Plan) \in Nat
  PROVE  Unpassed(j)
BY DEF Unpassed

\* A phase is left for the next one, or for the pause, with nothing ahead.
LEMMA LeaveKeepsAhead ==
  ASSUME AheadInv, TypeOK', at \in {"agents", "gate"}, LeavePhase,
         \A k \in 1..Len(Plan) : k >= idx + 1 => Plan[k] \notin passed'
  PROVE  AheadInv'
<1>1. UNCHANGED <<lifecycle, deploy, gatesOn, stopAfter, resumeFrom>>
  BY DEF LeavePhase, Config
<1>2. Plan' = Plan /\ idx \in 1..Len(Plan) /\ Len(Plan) \in Nat
  BY <1>1, PlanStays, PlanFacts DEF AheadInv, TypeOK, InPlan
<1>3. resumeFrom = Nothing /\ outcome # "paused" /\ stopAfter \in {Nothing, "build"}
      /\ (stopAfter # Nothing => deploy)
  BY DEF AheadInv, Ahead, TypeOK
<1>4. CASE at' = "head" /\ idx' = idx + 1 /\ outcome' = outcome
  <2>1. Unpassed(idx)'
    BY <1>2, <1>4 DEF Unpassed
  <2> QED BY <1>1, <1>3, <1>4, <2>1 DEF AheadInv, Ahead
<1>5. CASE /\ at' = "returned" /\ outcome' = "paused" /\ idx' = idx
           /\ stopAfter # Nothing /\ stopAfter = Phase
  <2>1. deploy' /\ InPlan' /\ Phase' = "build"
    BY <1>1, <1>2, <1>3, <1>5 DEF InPlan, Phase
  <2>2. Unpassed(idx + 1)'
    BY <1>2, <1>5 DEF Unpassed
  <2> QED BY <1>1, <1>3, <1>5, <2>1, <2>2 DEF AheadInv, Ahead
<1> QED BY <1>4, <1>5 DEF LeavePhase, Return

\* A gate is asked, with nothing ahead of the phase.
LEMMA GateKeepsAhead ==
  ASSUME AheadInv, TypeOK', at = "agents", ToGate,
         \A k \in 1..Len(Plan) : k >= idx + 1 => Plan[k] \notin passed'
  PROVE  AheadInv'
<1>1. UNCHANGED <<lifecycle, deploy, gatesOn, stopAfter, resumeFrom, idx, outcome>>
      /\ at' = "gate"
  BY DEF ToGate, Config
<1>2. resumeFrom = Nothing /\ outcome # "paused" /\ (stopAfter # Nothing => deploy)
  BY DEF AheadInv, Ahead
<1>3. Plan' = Plan
  BY <1>1, PlanStays
<1>4. Unpassed(idx + 1)'
  BY <1>1, <1>3 DEF Unpassed
<1> QED BY <1>1, <1>2, <1>4 DEF AheadInv, Ahead

THEOREM StepKeepsAhead == ReroutesAreForward /\ AheadInv /\ [Next]_vars => AheadInv'
<1> SUFFICES ASSUME ReroutesAreForward, AheadInv, Next PROVE AheadInv'
  <2>1. ASSUME AheadInv, UNCHANGED vars PROVE AheadInv'
    BY <2>1 DEF AheadInv, vars, TypeOK, Ahead, Unpassed, Found, Plan, Phase, InPlan,
                Phases, Types
  <2> QED BY <2>1
<1>1. UNCHANGED <<lifecycle, deploy, gatesOn>>
  BY ConfigStays
<1>2. TypeOK /\ TypeOK' /\ Ahead
  BY StepKeepsTypes DEF AheadInv
<1>3. /\ Plan' = Plan /\ Len(Plan) \in Nat /\ idx \in 1..(Len(Plan) + 1)
      /\ \A i, j \in 1..Len(Plan) : Plan[i] = Plan[j] => i = j
      /\ deploy => \A i \in 1..Len(Plan) :
           Plan[i] = "live_test" => i > 1 /\ Plan[i - 1] = "build"
  BY <1>1, <1>2, PlanStays, PlanFacts DEF TypeOK
<1>4. ASSUME NEW i, Unpassed(i), passed' = passed PROVE Unpassed(i)'
  BY <1>1, <1>4, UnpassedStays
\* Steps after which the loop is where it was and nothing has passed.
<1>5. ASSUME UNCHANGED <<stopAfter, at, idx, outcome, passed, resumeFrom>> PROVE AheadInv'
  BY <1>1, <1>2, <1>3, <1>4, <1>5 DEF AheadInv, Ahead, Phase, InPlan
\* Steps by which run() returns, but not for the pause.
<1>6. ASSUME at' = "returned", outcome' # "paused", UNCHANGED <<stopAfter, passed>>,
             resumeFrom' \in {Nothing, resumeFrom}
      PROVE  AheadInv'
  BY <1>1, <1>2, <1>3, <1>4, <1>6 DEF AheadInv, Ahead
<1>7. CASE SkipToResumePoint
  BY <1>1, <1>2, <1>3, <1>4, <1>7 DEF SkipToResumePoint, AheadInv, Ahead
<1>8. CASE StartPhase
  <2>1. /\ at = "head" /\ at' = "agents" /\ resumeFrom' = Nothing
        /\ UNCHANGED <<stopAfter, idx, outcome, passed>>
    BY <1>8 DEF StartPhase, Reached
  <2>2. Unpassed(idx)
    <3>1. CASE resumeFrom = Nothing
      BY <1>2, <2>1, <3>1 DEF Ahead
    <3>2. CASE resumeFrom # Nothing
      <4>1. Plan[idx] = "live_test" /\ idx \in 1..Len(Plan)
        BY <1>2, <1>3, <1>8, <3>2 DEF StartPhase, Reached, InPlan, Phase, TypeOK
      <4> QED BY <1>2, <3>2, <4>1 DEF Ahead
    <3> QED BY <3>1, <3>2
  <2>3. Unpassed(idx)'
    BY <1>3, <2>1, <2>2 DEF Unpassed
  <2> QED BY <1>1, <1>2, <2>1, <2>3 DEF AheadInv, Ahead
<1>9. CASE InputsMissing \/ Finish
  BY <1>6, <1>9 DEF InputsMissing, Finish, Return
<1>10. CASE SkipRole \/ AgentReturns \/ AgentRaises
  BY <1>5, <1>10 DEF SkipRole, AgentReturns, AgentRaises, NextRole
<1>11. ASSUME NEW ty \in Types(lifecycle), WriteArtifact(ty) PROVE AheadInv'
  BY <1>5, <1>11 DEF WriteArtifact
\* A phase that is at its end is the first of those that had not passed.
<1>12. ASSUME AgentsDone PROVE idx \in 1..Len(Plan) /\ Unpassed(idx) /\ resumeFrom = Nothing
  BY <1>2, <1>3, <1>12 DEF AgentsDone, Ahead, TypeOK, InPlan
<1>13. CASE PassPhase
  <2>1. AgentsDone /\ passed' = passed \cup {Phase}
    BY <1>13 DEF PassPhase
  <2>2. \A k \in 1..Len(Plan) : k >= idx + 1 => Plan[k] \notin passed'
    BY <1>3, <1>12, <2>1 DEF Unpassed, Phase
  <2>3. CASE NeedsGate
    BY <1>2, <1>13, <2>1, <2>2, <2>3, GateKeepsAhead DEF PassPhase, AgentsDone, AheadInv
  <2>4. CASE ~NeedsGate
    BY <1>2, <1>13, <2>1, <2>2, <2>4, LeaveKeepsAhead DEF PassPhase, AgentsDone, AheadInv
  <2> QED BY <2>3, <2>4
<1>14. CASE Abort \/ Reject
  BY <1>6, <1>14 DEF Abort, Reject, Return
\* A reroute goes to "iteration", which is not behind, or on as if passed.
<1>15. CASE Reroute
  <2>1. AgentsDone /\ lifecycle.reroute[Phase] /\ passed' = passed
    BY <1>15 DEF Reroute
  <2>2. \A k \in 1..Len(Plan) : k >= idx + 1 => Plan[k] \notin passed'
    BY <1>3, <1>12, <2>1 DEF Unpassed
  <2>3. ASSUME NEW i \in 1..Len(Plan), Plan[i] = "iteration", at' = "head", idx' = i,
               UNCHANGED <<stopAfter, resumeFrom, outcome>>
        PROVE  AheadInv'
    <3>1. idx <= i
      <4>1. lifecycle \in Lifecycles /\ deploy \in BOOLEAN
        BY <1>2 DEF TypeOK
      <4>2. lifecycle.reroute[Plan[idx]]
        BY <2>1 DEF Phase
      <4>3. \A k, j \in 1..Len(Plan) :
              lifecycle.reroute[Plan[k]] /\ Plan[j] = "iteration" => k <= j
        BY <4>1 DEF ReroutesAreForward, Plan
      <4> QED BY <1>12, <2>1, <2>3, <4>2, <4>3
    <3>2. Unpassed(idx)'
      BY <1>3, <1>12, <2>1, <2>3, <3>1 DEF Unpassed
    <3>3. outcome # "paused" /\ resumeFrom = Nothing /\ (stopAfter # Nothing => deploy)
      BY <1>2, <1>12, <2>1 DEF Ahead, AgentsDone
    <3> QED BY <1>1, <1>2, <2>3, <3>2, <3>3 DEF AheadInv, Ahead
  <2>4. ASSUME IF NeedsGate THEN ToGate ELSE LeavePhase PROVE AheadInv'
    BY <1>2, <2>1, <2>2, <2>4, GateKeepsAhead, LeaveKeepsAhead DEF AgentsDone, AheadInv
  <2> QED BY <1>15, <2>3, <2>4 DEF Reroute
<1>16. CASE Approve
  <2>1. passed' = passed /\ at = "gate" /\ Unpassed(idx + 1)
    BY <1>2, <1>16 DEF Approve, Ahead
  <2>2. \A k \in 1..Len(Plan) : k >= idx + 1 => Plan[k] \notin passed'
    BY <2>1 DEF Unpassed
  <2> QED BY <1>2, <1>16, <2>1, <2>2, LeaveKeepsAhead DEF Approve, AheadInv
\* The command.
<1>17. CASE Quit \/ TakeFeedback \/ EndFeedback
  <2>1. /\ at' \in {"feedback", "ended"}
        /\ UNCHANGED <<stopAfter, resumeFrom, idx, outcome, passed>>
    BY <1>17 DEF Quit, TakeFeedback, EndFeedback
  <2> QED BY <1>1, <1>2, <1>3, <1>4, <2>1 DEF AheadInv, Ahead, Phase, InPlan
<1>18. CASE Resume
  <2>1. /\ at = "feedback" /\ outcome = "paused" /\ outcome' = Nothing
        /\ at' = "head" /\ stopAfter' = Nothing /\ resumeFrom' = "live_test"
        /\ UNCHANGED passed
    BY <1>18 DEF Resume
  <2>2. deploy /\ idx \in 1..Len(Plan) /\ Plan[idx] = "build" /\ Unpassed(idx + 1)
    BY <1>2, <1>3, <2>1 DEF Ahead, InPlan, Phase
  <2>3. ASSUME NEW i \in 1..Len(Plan), Plan[i] = "live_test" PROVE Unpassed(i)'
    <3>1. i > 1 /\ i - 1 \in 1..Len(Plan) /\ Plan[i - 1] = Plan[idx]
      BY <1>3, <2>2, <2>3
    <3>2. i = idx + 1
      BY <1>3, <2>2, <3>1
    <3> QED BY <1>4, <2>1, <2>2, <3>2
  <2> QED BY <1>2, <1>3, <2>1, <2>3 DEF AheadInv, Ahead, Nothing
<1> QED BY <1>7, <1>8, <1>9, <1>10, <1>11, <1>13, <1>14, <1>15, <1>16, <1>17, <1>18
        DEF Next, RunPhases, Command

(***************************************************************************)
(* A phase that has passed is not run again, through any pause, resume and *)
(* reroute, of lifecycle files whose reroutes do not go back.              *)
(***************************************************************************)
THEOREM NoPhaseIsRepeated == ReroutesAreForward => (Spec => PassedIsNotRepeated)
<1> SUFFICES ASSUME ReroutesAreForward PROVE Spec => PassedIsNotRepeated
  OBVIOUS
<1>1. Init => AheadInv
  <2> SUFFICES ASSUME Init PROVE AheadInv
    OBVIOUS
  <2>1. TypeOK
    BY InitInv DEF LifecycleInv
  <2> QED BY <2>1 DEF Init, AheadInv, Ahead, Unpassed, Nothing
<1>2. AheadInv /\ [Next]_vars => AheadInv'
  BY StepKeepsAhead
<1>3. AheadInv /\ [Next]_vars => [at = "head" /\ at' = "agents" => Phase \notin passed]_vars
  <2> SUFFICES ASSUME AheadInv, Next, at = "head", at' = "agents" PROVE Phase \notin passed
    OBVIOUS
  <2>1. StartPhase
    BY DEF Next, RunPhases, Command, SkipToResumePoint, InputsMissing, Finish, SkipRole,
           AgentReturns, AgentRaises, NextRole, AtRole, WriteArtifact, PassPhase, Abort,
           Reroute, Approve, Reject, AgentsDone, Return, Quit, TakeFeedback, EndFeedback,
           Resume
  <2>2. idx \in 1..Len(Plan) /\ Unpassed(idx)
    <3>1. idx \in 1..Len(Plan)
      BY <2>1, PlanFacts DEF StartPhase, Reached, InPlan, AheadInv, TypeOK
    <3>2. CASE resumeFrom = Nothing
      BY <3>1, <3>2 DEF AheadInv, Ahead
    <3>3. CASE resumeFrom # Nothing
      <4>1. Plan[idx] = "live_test"
        BY <2>1, <3>3 DEF StartPhase, Reached, Phase, AheadInv, TypeOK
      <4> QED BY <3>1, <3>3, <4>1 DEF AheadInv, Ahead
    <3> QED BY <3>2, <3>3
  <2> QED BY <2>2 DEF Unpassed, Phase
<1> QED BY <1>1, <1>2, <1>3, PTL DEF Spec, PassedIsNotRepeated
=============================================================================
