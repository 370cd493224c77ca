------------------------------ MODULE Tracing ------------------------------
(***************************************************************************)
(* The span tracer (observability/tracing.py) and the readers of its files *)
(* (observability/replay.py), as the runtime uses them.                    *)
(*                                                                         *)
(* The current trace and the current span are context variables: a flow    *)
(* of control (an asyncio task) has its own, copied from its creator's     *)
(* when asyncio.gather or asyncio.wait_for makes a task of a coroutine.    *)
(* Span.__exit__ writes the span; it does not restore the current span.    *)
(* A crash leaves the files as they are, so an invariant of the files is   *)
(* also one of what a crash leaves behind.                                 *)
(***************************************************************************)
EXTENDS Naturals, Sequences, FiniteSets

CONSTANTS MaxSpans,   \* bound: spans started
          MaxFlows    \* bound: flows of control

\* What the constants are meant to be; the MC module assumes it.
TracingAssumption == MaxSpans \in Nat \ {0} /\ MaxFlows \in Nat \ {0}

VARIABLES flow,     \* the flows, in order of creation
          spans,    \* the spans, in order of start; a span's id is its index
          written,  \* the ids of the written spans
          metered   \* metered replies the ledger has recorded

vars == <<flow, spans, written, metered>>

NoId     == 0
RunTrace == MaxSpans + 1   \* SwarmRuntime.trace_id; a minted trace has its first span's number

SpanIds == 1..Len(spans)

NewFlow(kind, caller, trace, span) ==
    [kind |-> kind, caller |-> caller, trace |-> trace, span |-> span,
     open |-> <<>>, done |-> FALSE]

Init == /\ flow = <<NewFlow("run", NoId, NoId, NoId)>>
        /\ spans = <<>>
        /\ written = {}
        /\ metered = 0

\* A flow runs unless it has ended or awaits the flows it made.
Runs(f) == /\ ~flow[f].done
           /\ \A g \in DOMAIN flow : flow[g].caller = f => flow[g].done

Top(f) == IF flow[f].open = <<>> THEN "nothing"
          ELSE spans[Head(flow[f].open)].kind

(* A variant with a plausible mistake. *)

\* Variant: the current span is a global.
get_span_id_global(f) == Len(spans)

-----------------------------------------------------------------------------
(* Spans. *)

get_span_id(f) == flow[f].span

\* start_span in flow f whose current trace is `trace`: the span's record.
start_span(f, trace, kind) ==
    [trace  |-> IF trace = NoId THEN Len(spans) + 1 ELSE trace,
     parent |-> get_span_id(f),
     kind   |-> kind,
     flow   |-> f,
     metered |-> FALSE]

\* `with Span(...)`: the span becomes current and goes on top of the open ones.
Enter(f, trace, kind) ==
    LET s == start_span(f, trace, kind)
    IN  /\ Len(spans) < MaxSpans
        /\ spans' = Append(spans, s)
        /\ flow' = [flow EXCEPT ![f].trace = s.trace,
                                ![f].span  = Len(spans) + 1,
                                ![f].open  = <<Len(spans) + 1>> \o @]

\* The innermost n open spans are closed. A batch's task, a member and a tool's
\* body end with their agent; the run and a subswarm go on.
Close(f, n) ==
    LET rest == SubSeq(flow[f].open, n + 1, Len(flow[f].open))
    IN  flow' = [flow EXCEPT ![f].open = rest,
                             ![f].done = rest = <<>> /\ flow[f].kind \notin {"run", "subswarm"}]

\* A span without an await in its body: started and written in one step.
Mark(f, kind) ==
    /\ Runs(f)
    /\ \/ kind = "phase" /\ flow[f].kind = "run"  /\ Top(f) = "nothing"
       \/ kind = "task"  /\ flow[f].kind = "task" /\ Top(f) = "nothing"
    /\ LET s == start_span(f, flow[f].trace, kind)
       IN  /\ Len(spans) < MaxSpans
           /\ spans' = Append(spans, s)
           /\ flow' = [flow EXCEPT ![f].trace = s.trace, ![f].span = Len(spans) + 1,
                                   ![f].done = kind = "task"]
           /\ written' = written \cup {Len(spans) + 1}
    /\ UNCHANGED metered

\* Span.__exit__ of the innermost open span, however its body ended.
Leave(f) ==
    /\ Runs(f)
    /\ flow[f].open # <<>>
    /\ written' = written \cup {Head(flow[f].open)}
    /\ Close(f, 1)
    /\ UNCHANGED <<spans, metered>>

-----------------------------------------------------------------------------
(* What opens spans. *)

\* Agent.run_task: the caller's trace, or a new one when the caller gave none.
\* Members, debaters and referees of a subswarm are called without a trace.
run_task(f) ==
    /\ Runs(f)
    /\ Top(f) \in {"nothing", "tool"}
    /\ Enter(f, IF flow[f].kind \in {"subswarm", "member"} /\ Top(f) = "nothing"
                THEN Len(spans) + 1 ELSE RunTrace, "agent")
    /\ UNCHANGED <<written, metered>>

\* The agent's span of a completion and, inside it, the adapter's own. The
\* decomposition of the goal asks the provider without a span around it.
complete(f) ==
    /\ Runs(f)
    /\ \/ Top(f) = "agent"
       \/ Top(f) = "llm" /\ Len(flow[f].open) > 1 /\ spans[flow[f].open[2]].kind = "agent"
       \/ spans = <<>>
    /\ Enter(f, flow[f].trace, "llm")
    /\ UNCHANGED <<written, metered>>

\* A metered reply: the adapter puts the cost on its span, the spans of the
\* completion are written and the ledger records it, with no await in between.
Reply(f) ==
    LET llm == {i \in DOMAIN flow[f].open : spans[flow[f].open[i]].kind = "llm"}
    IN  /\ Runs(f)
        /\ llm = {1, 2} \/ (llm = {1} /\ Len(flow[f].open) = 1)
        /\ spans' = [spans EXCEPT ![flow[f].open[1]].metered = TRUE]
        /\ written' = written \cup {flow[f].open[i] : i \in llm}
        /\ Close(f, Cardinality(llm))
        /\ metered' = metered + 1

\* The final answer: agent_span.set(cost=...) before the span is written.
Answer(f) ==
    /\ Runs(f)
    /\ Top(f) = "agent"
    /\ spans' = [spans EXCEPT ![Head(flow[f].open)].metered = TRUE]
    /\ written' = written \cup {Head(flow[f].open)}
    /\ Close(f, 1)
    /\ UNCHANGED metered

\* ToolHandler.run.
CallTool(f) ==
    /\ Runs(f)
    /\ Top(f) = "agent"
    /\ Enter(f, flow[f].trace, "tool")
    /\ UNCHANGED <<written, metered>>

\* The flows made of coroutines, all with their creator's context: the executor's
\* batch, the members of a vote, and a tool's body (asyncio.wait_for makes a
\* task of it before Python 3.12, and runs it in the caller's own flow later).
Batches == {<<"task">>, <<"subswarm">>, <<"task", "task">>, <<"task", "subswarm">>}

Gather(f, kinds) ==
    /\ Runs(f)
    /\ Len(flow) + Len(kinds) <= MaxFlows
    /\ \/ kinds \in Batches               /\ flow[f].kind = "run"      /\ Top(f) = "nothing"
       \/ kinds = <<"member", "member">>  /\ flow[f].kind = "subswarm" /\ Top(f) = "nothing"
       \/ kinds = <<"tool">>              /\ Top(f) = "tool"
    /\ flow' = flow \o [i \in DOMAIN kinds |->
                           NewFlow(kinds[i], f, flow[f].trace, flow[f].span)]
    /\ UNCHANGED <<spans, written, metered>>

\* A subswarm has its result.
Resolved(f) ==
    /\ Runs(f)
    /\ flow[f].kind = "subswarm"
    /\ flow[f].open = <<>>
    /\ flow' = [flow EXCEPT ![f].done = TRUE]
    /\ UNCHANGED <<spans, written, metered>>

Next == \E f \in DOMAIN flow :
            \/ \E kind \in {"phase", "task"} : Mark(f, kind)
            \/ Leave(f) \/ run_task(f) \/ complete(f) \/ Reply(f)
            \/ Answer(f) \/ CallTool(f) \/ Resolved(f)
            \/ \E kinds \in Batches \cup {<<"member", "member">>, <<"tool">>} : Gather(f, kinds)

Spec == Init /\ [][Next]_vars

-----------------------------------------------------------------------------
(* The readers. *)

\* Tracer.load_trace: the spans of one file.
load_trace(t) == {s \in written : spans[s].trace = t}

\* pretty_print_trace: the roots, then the children of what is
\* shown already.
pretty_print_trace(t) ==
    LET loaded == load_trace(t)
        roots  == {s \in loaded : spans[s].parent \notin loaded}
        Added[d \in 0..MaxSpans] ==
            IF d = 0 THEN roots
            ELSE LET above == Added[d - 1]
                 IN  above \cup {s \in loaded : spans[s].parent \in above}
    IN  Added[MaxSpans]

\* Variant: spans of every kind are counted.
cost_summary_allKinds(t) == Cardinality({s \in load_trace(t) : spans[s].metered})

\* cost_summary counts what carries a cost among the "llm" spans of the file.
cost_summary(t) ==
    Cardinality({s \in load_trace(t) : spans[s].kind = "llm" /\ spans[s].metered})

Traces == 1..RunTrace

-----------------------------------------------------------------------------
(* Properties. *)

\* Whatever has been written when the program stops, `swarm trace` shows every
\* span of the file: what is printed is what hangs off a root, and no span is
\* its own ancestor.
EverySpanIsShown ==
    \A t \in Traces : pretty_print_trace(t) = load_trace(t)

\* A flow and the flows that await it.
Ancestry == [f \in DOMAIN flow |->
                LET Upto[g \in 0..f] == IF g = NoId THEN {} ELSE {g} \cup Upto[flow[g].caller]
                IN  Upto[f]]

\* Agents of a batch run concurrently in one process, and none of them files a
\* span under a span of another: a span's parent was started in the span's own
\* flow or in a flow that awaits it.
UnderItsCaller ==
    \A s \in SpanIds : spans[s].parent # NoId
        => spans[spans[s].parent].flow \in Ancestry[spans[s].flow]

\* Over all files, the cost summaries count each metered reply of the ledger
\* exactly once, although the agent's own span carries the same cost.
CostCountedOnce ==
    LET Upto[t \in 0..RunTrace] ==
            IF t = 0 THEN 0 ELSE Upto[t - 1] + cost_summary(t)
    IN  Upto[RunTrace] = metered

\* Both readers of the files: nothing is left out and nothing counted twice.
TraceIsReadWhole == EverySpanIsShown /\ CostCountedOnce

=============================================================================
