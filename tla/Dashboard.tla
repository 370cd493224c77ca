------------------------------ MODULE Dashboard ------------------------------
(***************************************************************************)
(* The Streamlit observer (obs/app.py): each browser session starts runs   *)
(* in background threads and drains their spans from a queue. Streamlit    *)
(* executes the script anew for each event of a page, with globals of its  *)
(* own, which a run's thread goes on using: every run has its own          *)
(* _active_queue, while the wrapped Tracer._write, once for the process,   *)
(* feeds that of the run which wrapped it. A reload of the page is a new   *)
(* session state; the thread of its run goes on.                           *)
(***************************************************************************)
EXTENDS Naturals, Sequences, FiniteSets

CONSTANTS Sessions,
          MaxRuns,    \* bound: runs started
          MaxWrites   \* bound: spans written per run

\* What the constants are meant to be; the MC module assumes it.
DashboardAssumption == MaxRuns \in Nat /\ MaxWrites \in Nat

VARIABLES page,       \* st.session_state of each session
          run,        \* the runs, in order of start: the thread, its queue, its result
          active,     \* the runs whose _active_queue is their queue
          patched,    \* the runs whose wrapper a call of Tracer._write goes through
          overlapped  \* runs that were not alone in the process

vars == <<page, run, active, patched, overlapped>>

NoRun == 0
End   == <<>>      \* the None that ends a queue; a span is <<run, number>>

NoPage == [running |-> FALSE, event_queue |-> NoRun, spans |-> <<>>]
NewRun == [pc |-> "started", queue |-> <<>>, writes |-> 0, result |-> "none"]

Init == /\ page = [s \in Sessions |-> NoPage]
        /\ run = <<>>
        /\ active = {}
        /\ patched = {}
        /\ overlapped = {}

\* Runs whose thread has not come to its end.
Alive == {r \in DOMAIN run : run[r].pc # "ended"}

Move(r, pc) == run' = [run EXCEPT ![r].pc = pc]

(* A variant with a plausible mistake. *)

\* Variant: the end goes to the global queue, not to the run's own.
PutNone_active(r) ==
    /\ r \in DOMAIN run
    /\ run[r].pc = "cleared"
    /\ run' = [i \in DOMAIN run |->
                  [run[i] EXCEPT !.pc = IF i = r THEN "ended" ELSE @,
                                 !.queue = IF i \in active THEN Append(@, End) ELSE @]]
    /\ UNCHANGED <<page, active, patched, overlapped>>

-----------------------------------------------------------------------------
(* The page. *)

\* Run, enabled while the session does not run.
RunClicked(s) ==
    /\ ~page[s].running
    /\ Len(run) < MaxRuns
    /\ run' = Append(run, NewRun)
    /\ page' = [page EXCEPT ![s] =
                   [running |-> TRUE, event_queue |-> Len(run) + 1, spans |-> <<>>]]
    /\ overlapped' = overlapped \cup (IF Alive = {} THEN {} ELSE Alive \cup {Len(run) + 1})
    /\ UNCHANGED <<active, patched>>

\* Clear, enabled while the session does not run; or a reload, whenever.
ClearClicked(s) ==
    /\ page[s] # NoPage
    /\ page' = [page EXCEPT ![s] = NoPage]
    /\ UNCHANGED <<run, active, patched, overlapped>>

\* The items up to the first None; nothing past it is taken.
Drained(s, queue) ==
    LET ends == {i \in DOMAIN queue : queue[i] = End}
        upto == IF ends = {} THEN Len(queue)
                ELSE (CHOOSE i \in ends : \A j \in ends : i <= j) - 1
    IN  [page[s] EXCEPT !.spans = @ \o SubSeq(queue, 1, upto),
                        !.running = ends = {}]

Drain(s) ==
    /\ page[s].running
    /\ run[page[s].event_queue].queue # <<>>
    /\ page' = [page EXCEPT ![s] = Drained(s, run[page[s].event_queue].queue)]
    /\ run' = [run EXCEPT ![page[s].event_queue].queue =
                  IF page'[s].running THEN <<>>
                  ELSE SubSeq(@, 2 + Len(page'[s].spans) - Len(page[s].spans), Len(@))]
    /\ UNCHANGED <<active, patched, overlapped>>

-----------------------------------------------------------------------------
(* The thread of a run: _run_swarm. *)

TakeQueue(r) ==
    /\ run[r].pc = "started"
    /\ active' = active \cup {r}
    /\ Move(r, "configuring")
    /\ UNCHANGED <<page, patched, overlapped>>

\* _patch_tracer_once tests the flag and, in a later step, sets it; of two
\* threads that came to wrap, the second wraps the first's wrapper or drops it.
CheckPatch(r) ==
    /\ run[r].pc = "configuring"
    /\ Move(r, IF patched = {} THEN "patching" ELSE "running")
    /\ UNCHANGED <<page, active, patched, overlapped>>

Patch(r) ==
    /\ run[r].pc = "patching"
    /\ \E kept \in SUBSET patched : patched' = kept \cup {r}
    /\ Move(r, "running")
    /\ UNCHANGED <<page, active, overlapped>>

\* Tracer._write in a thread of run r: into the file, then through the wrappers.
Span(r) ==
    /\ run[r].pc = "running"
    /\ run[r].writes < MaxWrites
    /\ LET n == run[r].writes + 1
       IN  run' = [i \in DOMAIN run |->
                      [run[i] EXCEPT !.writes = IF i = r THEN n ELSE @,
                                     !.queue  = IF i \in patched \cap active
                                                THEN Append(@, <<r, n>>) ELSE @]]
    /\ UNCHANGED <<page, active, patched, overlapped>>

\* The result is set and the finally clause entered; before the runtime runs,
\* only an exception leads here.
Finish(r, result) ==
    /\ run[r].pc \in {"configuring", "running"}
    /\ result = "error" \/ run[r].pc = "running"
    /\ run' = [run EXCEPT ![r].pc = "finishing", ![r].result = result]
    /\ UNCHANGED <<page, active, patched, overlapped>>

ClearActive(r) ==
    /\ run[r].pc = "finishing"
    /\ active' = active \ {r}
    /\ Move(r, "cleared")
    /\ UNCHANGED <<page, patched, overlapped>>

PutNone(r) ==
    /\ run[r].pc = "cleared"
    /\ run' = [run EXCEPT ![r].pc = "ended", ![r].queue = Append(@, End)]
    /\ UNCHANGED <<page, active, patched, overlapped>>

_run_swarm(r) ==
    \/ TakeQueue(r) \/ CheckPatch(r) \/ Patch(r) \/ Span(r)
    \/ \E result \in {"done", "error"} : Finish(r, result)
    \/ ClearActive(r) \/ PutNone(r)

Next == \/ \E s \in Sessions : RunClicked(s) \/ ClearClicked(s) \/ Drain(s)
        \/ \E r \in DOMAIN run : _run_swarm(r)

Spec == Init /\ [][Next]_vars

-----------------------------------------------------------------------------
(* Properties. *)

\* However runs of several sessions overlap, a page that shows its run as
\* running will learn that it ended: the run's thread is still at work, or its
\* own queue holds the None, and a page that no longer runs has a run whose
\* result is known.
EndIsAnnounced ==
    \A s \in Sessions : page[s].event_queue # NoRun =>
        LET r == page[s].event_queue
        IN  IF page[s].running
            THEN r \in Alive \/ \E i \in DOMAIN run[r].queue : run[r].queue[i] = End
            ELSE run[r].result # "none"

\* A page shows spans of its own run, and of another one only if both overlapped
\* some run; whatever overlaps, the spans of a run stand in the order they were
\* written, and none twice. If the run wrapped the tracer and no other run's
\* wrapper replaced its own, its page has, once it ended, every span it wrote.
SpansAreItsOwn ==
    \A s \in Sessions : page[s].event_queue # NoRun =>
        LET r == page[s].event_queue
            spans == page[s].spans
        IN  /\ \A i \in DOMAIN spans : spans[i][1] = r \/ {spans[i][1], r} \subseteq overlapped
            /\ \A i, j \in DOMAIN spans :
                   i < j /\ spans[i][1] = spans[j][1] => spans[i][2] < spans[j][2]
            /\ ~page[s].running /\ r \in patched =>
                   \A n \in 1..run[r].writes : \E i \in DOMAIN spans : spans[i] = <<r, n>>

\* What a session sees of its run: its end always, and its spans.
RunIsShown == EndIsAnnounced /\ SpansAreItsOwn

=============================================================================
