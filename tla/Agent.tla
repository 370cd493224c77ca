-------------------------------- MODULE Agent --------------------------------
(***************************************************************************)
(* Agent.run_task of core/agent.py: agents that run concurrently, each on  *)
(* a task of its own, and share one CostLedger.  A step is what an agent   *)
(* does between two awaits.  The model's answers, the tools' results and   *)
(* what raises are choices.                                                *)
(***************************************************************************)
EXTENDS Scratchpad, Providers, FiniteSets

CONSTANTS Agents,
          MaxIterations,  \* spec.termination.max_iterations
          Budget,         \* task.constraints.budget, 0 for none
          MaxCost,        \* bound on the cost of one completion
          MaxCalls,       \* bound on the tool calls of a completion of each agent
          EarlierSpend,   \* what the ledger may hold before these tasks
          Remembering,    \* agents with memory_policy.longterm and a memory
          Adapter         \* the provider of the runtime, get_or_default()

ASSUME AgentAssumption == /\ IsFiniteSet(Agents)
                          /\ MaxIterations \in Nat
                          /\ Budget \in Nat
                          /\ MaxCost \in Nat
                          /\ MaxCalls \in [Agents -> Nat]
                          /\ EarlierSpend \subseteq Nat
                          /\ Remembering \subseteq Agents
                          /\ Adapter \in Adapters

VARIABLES pc,        \* pc[a]: the await at which run_task(a) is, or its end
          iteration, \* turns of the loop begun
          attempt,   \* attempts of the retried complete() begun
          status,    \* task.status
          conv,      \* messages: what the model is sent
          pad,       \* the messages of _scratchpad
          calls,     \* tool calls of the last answer not executed yet
          ledger,    \* ledger.total_cost
          before,    \* ledger.total_cost before these tasks
          spent      \* spent[a]: what the task of a has cost

vars == <<pc, iteration, attempt, status, conv, pad, calls, ledger, before, spent>>

Ended == {"answered", "raised", "overBudget", "outOfTurns"}
Awaiting == {"assigning", "seeding", "completing", "acting", "writing",
             "reporting"}

Message(role, n) == [role |-> role, id |-> n, size |-> 1]

Init == /\ pc = [a \in Agents |-> "idle"]
        /\ iteration = [a \in Agents |-> 0]
        /\ attempt = [a \in Agents |-> 0]
        /\ status = [a \in Agents |-> "pending"]
        /\ conv = [a \in Agents |-> <<>>]
        /\ pad = [a \in Agents |-> <<>>]
        /\ calls = [a \in Agents |-> 0]
        /\ ledger \in EarlierSpend
        /\ before = ledger
        /\ spent = [a \in Agents |-> 0]

Goto(a, place) == pc' = [pc EXCEPT ![a] = place]

\* Variant: errors are not put on the scratchpad.
Say_padForgets(a, m) ==
  /\ conv' = [conv EXCEPT ![a] = Append(@, m)]
  /\ pad' = [pad EXCEPT ![a] = IF m.role = "error" THEN @ ELSE append_message(@, m)]

\* messages.append and _scratchpad.append_message of the same message
Say(a, m) == /\ conv' = [conv EXCEPT ![a] = Append(@, m)]
             /\ pad' = [pad EXCEPT ![a] = append_message(@, m)]

\* Variant with a plausible mistake: the budget is not looked at.
Exhausted_never == FALSE

Exhausted == Budget # 0 /\ ledger >= Budget

\* Variant with a plausible mistake: who has no budget left waits for some.
NextTurn_waits(a) ==
  \/ /\ iteration[a] < MaxIterations /\ ~Exhausted
     /\ iteration' = [iteration EXCEPT ![a] = @ + 1]
     /\ attempt' = [attempt EXCEPT ![a] = 1]
     /\ status' = [status EXCEPT ![a] = "running"]
     /\ Goto(a, "completing")
  \/ /\ iteration[a] < MaxIterations /\ Exhausted
     /\ status' = [status EXCEPT ![a] = "running"]
     /\ Goto(a, "seeding")
     /\ UNCHANGED <<iteration, attempt>>
  \/ /\ iteration[a] = MaxIterations
     /\ status' = [status EXCEPT ![a] = "completed"]
     /\ Goto(a, "outOfTurns")
     /\ UNCHANGED <<iteration, attempt>>

\* The head of the loop: the iteration limit, the budget check, and then
\* the call of the provider, without an await in between.
\* Its task is "running" from the first turn on.
NextTurn(a) ==
  \/ /\ iteration[a] < MaxIterations
     /\ iteration' = [iteration EXCEPT ![a] = @ + 1]
     /\ attempt' = [attempt EXCEPT ![a] = 1]
     /\ status' = [status EXCEPT ![a] = "running"]
     /\ Goto(a, IF Exhausted THEN "overBudget" ELSE "completing")
  \/ /\ iteration[a] = MaxIterations
     /\ status' = [status EXCEPT ![a] = "completed"]
     /\ Goto(a, "outOfTurns")
     /\ UNCHANGED <<iteration, attempt>>

-----------------------------------------------------------------------------
\* run_task() begins with the hook on_task_assigned.
Assign(a) ==
  /\ pc[a] = "idle"
  /\ Goto(a, "assigning")
  /\ UNCHANGED <<iteration, attempt, status, conv, pad, calls, ledger, before, spent>>

\* mark_running() and the initial messages; prior knowledge is searched for.
Begin(a) ==
  /\ pc[a] = "assigning"
  /\ conv' = [conv EXCEPT ![a] = <<Message("system", 0), Message("user", 0)>>]
  /\ \/ /\ a \in Remembering
        /\ status' = [status EXCEPT ![a] = "running"]
        /\ Goto(a, "seeding")
        /\ UNCHANGED <<iteration, attempt>>
     \/ a \notin Remembering /\ NextTurn(a)
  /\ UNCHANGED <<pad, calls, ledger, before, spent>>

\* LocalChromaMemory.search returned, with memories or without.
Seed(a) ==
  /\ pc[a] = "seeding"
  /\ NextTurn(a)
  /\ UNCHANGED <<conv, pad, calls, ledger, before, spent>>

\* ledger.record() of the completion's usage
Charge(a, cost) == /\ ledger' = ledger + cost
                   /\ spent' = [spent EXCEPT ![a] = @ + cost]

\* complete() returned: its usage is recorded, an absent one as nothing.
Answered(a, reply, cost) ==
  /\ pc[a] = "completing"
  /\ complete(Adapter, reply) \in {"charged", "free"}
  /\ complete(Adapter, reply) = "free" => cost = 0
  /\ Charge(a, cost)
  /\ UNCHANGED <<iteration, attempt, before>>

\* A completion without tool calls is the final answer.
FinalAnswer(a, reply, cost) ==
  /\ Answered(a, reply, cost)
  /\ status' = [status EXCEPT ![a] = "completed"]
  /\ Goto(a, IF a \in Remembering THEN "writing" ELSE "reporting")
  /\ UNCHANGED <<conv, pad, calls>>

\* A completion with n tool calls becomes the assistant's message.
CallTools(a, reply, cost, n) ==
  /\ Answered(a, reply, cost)
  /\ Say(a, Message("assistant", n))
  /\ calls' = [calls EXCEPT ![a] = n]
  /\ Goto(a, "acting")
  /\ UNCHANGED status

\* The service limits the rate: after a pause the same request is sent again.
Retry(a) ==
  /\ pc[a] = "completing"
  /\ \E reply \in Replies : Retries(complete(Adapter, reply), attempt[a])
  /\ attempt' = [attempt EXCEPT ![a] = @ + 1]
  /\ UNCHANGED <<pc, iteration, status, conv, pad, calls, ledger, before, spent>>

\* Variant: an error is not reported to the model.
ToolAnswers_dropsErrors(a, outcome) ==
  /\ pc[a] = "acting"
  /\ calls' = [calls EXCEPT ![a] = @ - 1]
  /\ IF outcome = "result" THEN Say(a, Message(outcome, calls[a]))
                           ELSE UNCHANGED <<conv, pad>>
  /\ \/ calls[a] > 1 /\ UNCHANGED <<pc, iteration, attempt, status>>
     \/ calls[a] = 1 /\ NextTurn(a)
  /\ UNCHANGED <<ledger, before, spent>>

\* _execute_tool always answers: with a result, or with an error when the
\* tool is not permitted, not registered, raises, or its hook raises.
ToolAnswers(a, outcome) ==
  /\ pc[a] = "acting"
  /\ calls' = [calls EXCEPT ![a] = @ - 1]
  /\ Say(a, Message(outcome, calls[a]))
  /\ \/ calls[a] > 1 /\ UNCHANGED <<pc, iteration, attempt, status>>
     \/ calls[a] = 1 /\ NextTurn(a)
  /\ UNCHANGED <<ledger, before, spent>>

\* The memory write, which logs its own errors, and then the hook on_complete.
Remember(a) ==
  /\ pc[a] = "writing"
  /\ Goto(a, "reporting")
  /\ UNCHANGED <<iteration, attempt, status, conv, pad, calls, ledger, before, spent>>

Report(a) ==
  /\ pc[a] = "reporting"
  /\ Goto(a, "answered")
  /\ UNCHANGED <<iteration, attempt, status, conv, pad, calls, ledger, before, spent>>

\* complete() raises what is not retried, or its last attempt was limited.
Unanswered(a) ==
  \E reply \in Replies :
    /\ complete(Adapter, reply) \notin {"charged", "free"}
    /\ ~Retries(complete(Adapter, reply), attempt[a])

\* A hook, the provider, or the serialisation of a tool's result raises, and
\* so does run_task(); the task keeps the status it has.
Raise(a) ==
  /\ \/ pc[a] \in {"assigning", "acting", "reporting"}
     \/ pc[a] = "completing" /\ Unanswered(a)
  /\ Goto(a, "raised")
  /\ UNCHANGED <<iteration, attempt, status, conv, pad, calls, ledger, before, spent>>

Step(a) == \/ Assign(a) \/ Begin(a) \/ Seed(a)
           \/ \E reply \in Replies, cost \in 0..MaxCost :
                \/ FinalAnswer(a, reply, cost)
                \/ \E n \in 1..MaxCalls[a] : CallTools(a, reply, cost, n)
           \/ Retry(a)
           \/ \E outcome \in {"result", "error"} : ToolAnswers(a, outcome)
           \/ Remember(a) \/ Report(a) \/ Raise(a)

Next == \E a \in Agents : Step(a)

Spec == Init /\ [][Next]_vars

FairSpec == Spec /\ \A a \in Agents : WF_vars(Step(a))

-----------------------------------------------------------------------------
TypeOK ==
  /\ pc \in [Agents -> {"idle"} \cup Awaiting \cup Ended]
  /\ iteration \in [Agents -> 0..MaxIterations]
  /\ attempt \in [Agents -> 0..MaxAttempts]
  /\ status \in [Agents -> {"pending", "running", "completed"}]
  /\ calls \in [Agents -> Nat] /\ \A a \in Agents : calls[a] \in 0..MaxCalls[a]
  /\ ledger \in Nat /\ before \in Nat
  /\ spent \in [Agents -> Nat]

(* However many agents share the ledger, they overshoot the budget by less  *)
(* than one completion each: every check precedes one completion (the check *)
(* of agent.py:107 comes before, the record of agent.py:129 after it).      *)
OvershootBounded ==
  Budget # 0 /\ before < Budget
    => ledger < Budget + MaxCost * Cardinality(Agents)

\* The messages answer every tool call of an assistant's message, in order,
\* before anything else is said.
WellFormed(msgs) ==
  \A i \in DOMAIN msgs : msgs[i].role = "assistant" =>
    /\ i + msgs[i].id <= Len(msgs)
    /\ \A k \in 1..msgs[i].id : msgs[i + k].role \in {"result", "error"}
    /\ i + msgs[i].id + 1 <= Len(msgs) => msgs[i + msgs[i].id + 1].role = "assistant"

(* Whatever tools do, refuse or raise, the model is never sent a            *)
(* conversation in which a tool call is unanswered (agent.py:182).          *)
EveryCallIsAnswered ==
  \A a \in Agents : pc[a] = "completing" => WellFormed(conv[a])

(* The scratchpad is a recent part of the conversation: compacted and       *)
(* reduced, but in step with it (agent.py:179 and 191).                     *)
PadFollowsConversation ==
  \A a \in Agents :
    LET left == Rest(pad[a])
    IN /\ left = SubSeq(conv[a], Len(conv[a]) - Len(left) + 1, Len(conv[a]))
       /\ Len(conv[a]) > 2 => left # <<>>

(* The iteration limit ends every agent, whatever its model and its tools   *)
(* answer (agent.py:103).                                                   *)
AgentEnds == \A a \in Agents : <>(pc[a] \in Ended)

=============================================================================
