----------------------------- MODULE RunService -----------------------------
(***************************************************************************)
(* Several runs in one process: POST /run of the API server                *)
(* (api/server.py, started by `swarm dashboard`), which builds a runtime   *)
(* for each request (cli/main.py:_build_runtime) and awaits its run        *)
(* (SwarmRuntime.run). The event loop interleaves the requests at their    *)
(* awaits; building a runtime has none. A runtime has its own ledger, but  *)
(* it is injected into the tools, whose modules all runtimes share: the    *)
(* factory that spawn_agent calls is that of the runtime built last.       *)
(* Costs are counted in metered replies.                                   *)
(***************************************************************************)
EXTENDS Naturals, Sequences

CONSTANTS Requests,
          MaxReplies,  \* bound: metered replies per request
          Nobody

\* What the constants are meant to be; the MC module assumes it.
RunServiceAssumption == Nobody \notin Requests /\ MaxReplies \in Nat

VARIABLES ready,       \* set_runtime_factory has been called
          factory,     \* tools.spawn_agent.handler._factory: the runtime it belongs to
          pc,          \* of each request
          path,        \* "single" or "graph": how its runtime runs the goal
          work,        \* the runtimes whose agents wait on one another, innermost first
          ledger,      \* of the request's runtime
          own,         \* replies to the root agent itself (TaskResult.cost of a single agent)
          spent,       \* replies the request has caused, whoever recorded them
          answer,      \* RunResponse.cost_usd
          overlapped   \* requests that were not alone in the process

vars == <<ready, factory, pc, path, work, ledger, own, spent, answer, overlapped>>

Init == /\ ready \in BOOLEAN
        /\ factory = Nobody
        /\ pc = [r \in Requests |-> "idle"]
        /\ path = [r \in Requests |-> "single"]
        /\ work = [r \in Requests |-> <<>>]
        /\ ledger = [r \in Requests |-> 0]
        /\ own = [r \in Requests |-> 0]
        /\ spent = [r \in Requests |-> 0]
        /\ answer = [r \in Requests |-> 0]
        /\ overlapped = {}

Busy == {r \in Requests : pc[r] \in {"built", "running"}}

(* A variant with a plausible mistake. *)

\* Variant: the tools keep the first factory.
_wire_tools_once(r) == IF factory = Nobody THEN r ELSE factory

-----------------------------------------------------------------------------

set_runtime_factory ==
    /\ ~ready
    /\ ready' = TRUE
    /\ UNCHANGED <<factory, pc, path, work, ledger, own, spent, answer, overlapped>>

\* 503: the registries have not been bootstrapped.
Refuse(r) ==
    /\ pc[r] = "idle"
    /\ ~ready
    /\ pc' = [pc EXCEPT ![r] = "refused"]
    /\ UNCHANGED <<ready, factory, path, work, ledger, own, spent, answer, overlapped>>

\* The factory spawn_agent and contractor use once runtime r is wired.
_wire_tools(r) == r

\* A new ledger, a new runtime, and the start of its run.
_build_runtime(r) ==
    /\ pc[r] = "idle"
    /\ ready
    /\ pc' = [pc EXCEPT ![r] = "built"]
    /\ factory' = _wire_tools(r)
    /\ overlapped' = overlapped \cup (IF Busy = {} THEN {} ELSE Busy \cup {r})
    /\ UNCHANGED <<ready, path, work, ledger, own, spent, answer>>

Charge(r, runtime) ==
    /\ spent[r] < MaxReplies
    /\ spent'  = [spent  EXCEPT ![r] = @ + 1]
    /\ ledger' = [ledger EXCEPT ![runtime] = @ + 1]

\* SwarmRuntime.run: one agent, for a topology of one role or when the call
\* that should decompose the goal fails.
RunSingle(r) ==
    /\ pc[r] = "built"
    /\ pc' = [pc EXCEPT ![r] = "running"]
    /\ work' = [work EXCEPT ![r] = <<r>>]
    /\ UNCHANGED <<ready, factory, path, ledger, own, spent, answer, overlapped>>

\* Several roles: the goal is decomposed by a metered reply. A reply that is
\* no plan raises after it was recorded, and one agent gets the whole goal.
Decompose(r, plan) ==
    /\ pc[r] = "built"
    /\ Charge(r, r)
    /\ pc' = [pc EXCEPT ![r] = "running"]
    /\ path' = [path EXCEPT ![r] = IF plan THEN "graph" ELSE "single"]
    /\ work' = [work EXCEPT ![r] = <<r>>]
    /\ UNCHANGED <<ready, factory, own, answer, overlapped>>

\* An agent of the innermost runtime gets a reply and records it there.
Reply(r) ==
    /\ work[r] # <<>>
    /\ Charge(r, Head(work[r]))
    /\ own' = IF Len(work[r]) = 1 THEN [own EXCEPT ![r] = @ + 1] ELSE own
    /\ UNCHANGED <<ready, factory, pc, path, work, answer, overlapped>>

\* spawn_agent, contractor: the agent is made by the injected factory.
spawn_agent(r) ==
    /\ Len(work[r]) = 1
    /\ work' = [work EXCEPT ![r] = <<factory>> \o @]
    /\ UNCHANGED <<ready, factory, pc, path, ledger, own, spent, answer, overlapped>>

SpawnedReturns(r) ==
    /\ Len(work[r]) = 2
    /\ work' = [work EXCEPT ![r] = Tail(@)]
    /\ UNCHANGED <<ready, factory, pc, path, ledger, own, spent, answer, overlapped>>

\* RunResponse: a graph's cost is its ledger's, a single agent's its own usage.
Respond(r) ==
    /\ Len(work[r]) = 1
    /\ work' = [work EXCEPT ![r] = <<>>]
    /\ pc' = [pc EXCEPT ![r] = "answered"]
    /\ answer' = [answer EXCEPT ![r] = IF path[r] = "graph" THEN ledger[r] ELSE own[r]]
    /\ UNCHANGED <<ready, factory, path, ledger, own, spent, overlapped>>

\* The run raises what its agent does (budget, iterations, provider) or its
\* executor: nothing catches it, and the server answers HTTP 500.
RunRaises(r) ==
    /\ Len(work[r]) = 1
    /\ work' = [work EXCEPT ![r] = <<>>]
    /\ pc' = [pc EXCEPT ![r] = "failed"]
    /\ UNCHANGED <<ready, factory, path, ledger, own, spent, answer, overlapped>>

Next == \/ set_runtime_factory
        \/ \E r \in Requests :
               \/ Refuse(r) \/ _build_runtime(r) \/ RunSingle(r)
               \/ \E plan \in BOOLEAN : Decompose(r, plan)
               \/ Reply(r) \/ spawn_agent(r) \/ SpawnedReturns(r)
               \/ Respond(r) \/ RunRaises(r)

Spec == Init /\ [][Next]_vars

-----------------------------------------------------------------------------
(* Properties. *)

Isolated(r) == /\ ledger[r] = spent[r]
               /\ pc[r] = "answered" /\ path[r] = "graph" => answer[r] = spent[r]

\* Consecutive requests do not bleed into one another (api/server.py:33): the
\* ledger of a request that was alone in the process holds what it caused, what
\* its agents' spawned agents caused included, and a graph's answer says so.
AloneIsIsolated == \A r \in Requests \ overlapped : Isolated(r)

\* "Build a fresh runtime per request - isolates state between runs"
\* (api/server.py:94): the same of every request, those that overlap included.
EveryRunIsIsolated == \A r \in Requests : Isolated(r)

=============================================================================
