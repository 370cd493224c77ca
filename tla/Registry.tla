------------------------------ MODULE Registry ------------------------------
(***************************************************************************)
(* The registries (core/registry.py): discovery of the tools on disk, the  *)
(* modules it leaves in sys.modules, and the runtimes that take a snapshot *)
(* of the registered handlers. Bootstraps run one after another, and in    *)
(* threads at once in the observer (obs/app.py). A module object is named  *)
(* by the order of its creation.                                           *)
(***************************************************************************)
EXTENDS Naturals, FiniteSets

CONSTANTS Tools, Providers,
          Bootstraps,  \* the calls of bootstrap_registries
          MaxEdits,    \* bound: changes of the files on disk
          Nothing

\* What the constants are meant to be; the MC module assumes it.
RegistryAssumption == Nothing \notin Nat /\ MaxEdits \in Nat

VARIABLES disk,       \* tool |-> [spec: "good", "bad" or "none"; raises: its handler.py does]
          module,     \* sys.modules: tool |-> the object under its name, or Nothing
          objects,    \* module objects made so far
          usable,     \* the objects that have the attribute `handler`
          entry,      \* ToolRegistry: tool |-> the object its handler is from, or Nothing
          todo,       \* bootstrap |-> the tools it has still to look at
          loading,    \* bootstrap |-> the tool it loads and its object, or Nothing
          raced,      \* tools that two bootstraps began to load at once (history)
          providers,  \* ProviderRegistry
          runtimes,   \* snapshots: [Tools -> object or Nothing]
          edits

vars == <<disk, module, objects, usable, entry, todo, loading, raced, providers,
          runtimes, edits>>

Absent == "none"

Init == /\ disk \in [Tools -> [spec : {"good"}, raises : BOOLEAN]]
        /\ module = [t \in Tools |-> Nothing]
        /\ objects = 0
        /\ usable = {}
        /\ entry = [t \in Tools |-> Nothing]
        /\ todo = [b \in Bootstraps |-> Tools]
        /\ loading = [b \in Bootstraps |-> Nothing]
        /\ raced = {}
        /\ providers = {}
        /\ runtimes = {}
        /\ edits = 0

\* Someone edits the files of a tool.
Edit(t) ==
    /\ edits < MaxEdits
    /\ edits' = edits + 1
    /\ \E spec \in {"good", "bad", Absent}, raises \in BOOLEAN :
           disk' = [disk EXCEPT ![t] = [spec |-> spec, raises |-> raises]]
    /\ UNCHANGED <<module, objects, usable, entry, todo, loading, raced, providers, runtimes>>

(* A variant with a plausible mistake. *)

\* Variant: a handler is loaded anew by each discovery.
IsLoaded_never(t) == FALSE

-----------------------------------------------------------------------------

\* `canonical_name in sys.modules`
IsLoaded(t) == module[t] # Nothing

Loads(b, t) == loading[b] # Nothing /\ loading[b].tool = t

\* autodiscover, for the spec.yaml of one tool: a bad one is logged, and an entry
\* is overwritten. A module that is loaded is not loaded again; while another
\* thread executes it, the attribute `handler` may be there or not.
Discover(b, t) ==
    /\ t \in todo[b] /\ loading[b] = Nothing
    /\ todo' = [todo EXCEPT ![b] = @ \ {t}]
    /\ \/ /\ disk[t].spec # "good"
          /\ UNCHANGED <<entry, loading, raced>>
       \/ /\ disk[t].spec = "good" /\ IsLoaded(t)
          /\ entry' \in {[entry EXCEPT ![t] = module[t]]}
                         \cup IF module[t] \in usable THEN {} ELSE {entry}
          /\ \/ module[t] \in usable \/ entry' = entry
             \/ \E c \in Bootstraps : Loads(c, t) /\ loading[c].object = module[t]
          /\ UNCHANGED <<loading, raced>>
       \/ /\ disk[t].spec = "good" /\ ~IsLoaded(t)
          /\ loading' = [loading EXCEPT ![b] = [tool |-> t, object |-> Nothing]]
          /\ raced' = raced \cup {u \in {t} : \E c \in Bootstraps : Loads(c, u)}
          /\ UNCHANGED entry
    /\ UNCHANGED <<disk, module, objects, usable, providers, runtimes, edits>>

\* The package and then the module object, which takes the name in sys.modules
\* before its code is executed.
NewModule(b, t) ==
    /\ Loads(b, t) /\ loading[b].object = Nothing
    /\ objects' = objects + 1
    /\ module' = [module EXCEPT ![t] = objects + 1]
    /\ loading' = [loading EXCEPT ![b].object = objects + 1]
    /\ UNCHANGED <<disk, usable, entry, todo, raced, providers, runtimes, edits>>

\* exec_module ends. If it raises, that is logged; the module stays, with or
\* without the attribute `handler`, depending on the line that raised.
Load(b, t) ==
    /\ Loads(b, t) /\ loading[b].object # Nothing
    /\ loading' = [loading EXCEPT ![b] = Nothing]
    /\ \/ usable' = usable \cup {loading[b].object}
       \/ disk[t].raises /\ UNCHANGED usable
    /\ entry' = IF disk[t].raises THEN entry ELSE [entry EXCEPT ![t] = loading[b].object]
    /\ UNCHANGED <<disk, module, objects, todo, raced, providers, runtimes, edits>>

\* The end of bootstrap_registries: the providers with a key are registered,
\* none is removed.
RegisterProviders(b) ==
    /\ todo[b] = {} /\ loading[b] = Nothing
    /\ \E keys \in SUBSET Providers : providers' = providers \cup keys
    /\ UNCHANGED <<disk, module, objects, usable, entry, todo, loading, raced, runtimes, edits>>

\* A runtime after a bootstrap: get_or_default raises for a provider that is not
\* registered; otherwise the runtime gets all handlers registered by now.
BuildRuntime(b) ==
    /\ todo[b] = {} /\ loading[b] = Nothing
    /\ \E name \in Providers :
           runtimes' = IF name \in providers THEN runtimes \cup {entry} ELSE runtimes
    /\ UNCHANGED <<disk, module, objects, usable, entry, todo, loading, raced, providers, edits>>

Next == \/ \E t \in Tools : Edit(t)
        \/ \E b \in Bootstraps :
               \/ \E t \in Tools : Discover(b, t) \/ NewModule(b, t) \/ Load(b, t)
               \/ RegisterProviders(b) \/ BuildRuntime(b)

Spec == Init /\ [][Next]_vars

-----------------------------------------------------------------------------
(* Properties. *)

\* What a runtime injects (set_factory, set_memory, set_bus) goes through
\* `import tools.<name>.handler`: in every runtime, also one built before a
\* later discovery, each handler is from the module that import finds, so the
\* injection reaches it. Only of a tool that two bootstraps have begun to load
\* at once may there be two modules.
InjectionReachesTools ==
    \A snapshot \in runtimes, t \in Tools \ raced :
        snapshot[t] # Nothing => IsLoaded(t) /\ snapshot[t] = module[t]

=============================================================================
