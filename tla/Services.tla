------------------------------ MODULE Services ------------------------------
(***************************************************************************)
(* The parts around the runtime that share no state with one another: the  *)
(* artifact store, tracing, the safety gate, the API server's runs, the    *)
(* observer's page, the registries, the cloned repositories, the           *)
(* credentials, the tools that run commands and the filesystem tool.  A    *)
(* behaviour is of one of them; the others rest.                           *)
(***************************************************************************)
EXTENDS Naturals, Sequences

\* What each part is about; its module says more of each.
CONSTANTS
  Ids, Types, Lineages, Depth, Writers, MaxAudit, MaxFailures,
  MaxSpans, MaxFlows,
  GateTools, Confirmed, GateAgents, ToolLimit, AgentLimit, Threshold,
  Requests, MaxReplies,
  Sessions, MaxRuns, MaxWrites,
  Tools, Providers, Bootstraps, MaxEdits,
  TemplateCalls, GithubCalls, Specs,
  Commands, AuthServices, Adc, Tested, Required, Environment, Selections,
  ToolCalls, Tokens, MaxCalls,
  Rels, Texts, Kept, Siblings, Scaffolds, Templates, MaxText,
  Nothing

VARIABLES
  part,
  backend, store, audit, clock, failures, report, contract,
  flow, spans, written, metered,
  errors, breaker, perTool, perAgent, gateCall, ran,
  ready, factory, runPc, path, work, ledger, own, spent, answer, together,
  page, run, active, patched, overlapped,
  disk, module, objects, usable, entry, todo, loading, raced, providers, runtimes, edits,
  clonePc, result, spec, hashes, target, nested, built,
  file, tmp, pc, at, data, summary, only, stored, concurrent,
  calls,
  files, dirs, last

storeVars == <<backend, store, audit, clock, failures, report, contract>>
traceVars == <<flow, spans, written, metered>>
gateVars == <<errors, breaker, perTool, perAgent, gateCall, ran>>
serverVars == <<ready, factory, runPc, path, work, ledger, own, spent, answer, together>>
pageVars == <<page, run, active, patched, overlapped>>
registryVars == <<disk, module, objects, usable, entry, todo, loading, raced, providers,
                  runtimes, edits>>
cloneVars == <<clonePc, result, spec, hashes, target, nested, built>>
authVars == <<file, tmp, pc, at, data, summary, only, stored, concurrent>>
commandVars == <<calls>>
fileVars == <<files, dirs, last>>
vars == <<part, storeVars, traceVars, gateVars, serverVars, pageVars, registryVars,
          cloneVars, authVars, commandVars, fileVars>>

-----------------------------------------------------------------------------
(* The parts *)

Store == INSTANCE ArtifactStore
Trace == INSTANCE Tracing
Gate == INSTANCE SafetyGate WITH
          Tools <- GateTools, Agents <- GateAgents, Allowlist <- GateTools, call <- gateCall
Server == INSTANCE RunService WITH
            Nobody <- Nothing, pc <- runPc, overlapped <- together
Page == INSTANCE Dashboard
Plugins == INSTANCE Registry
Clones == INSTANCE Workspace WITH pc <- clonePc
Auth == INSTANCE Credentials WITH Services <- AuthServices, overlapped <- concurrent
Shell == INSTANCE CommandTools WITH Inputs <- ToolCalls
Tree == INSTANCE Filesystem

ASSUME ServicesAssumption ==
  /\ Store!StoreAssumption /\ Trace!TracingAssumption /\ Gate!GateAssumption
  /\ Server!RunServiceAssumption /\ Page!DashboardAssumption
  /\ Plugins!RegistryAssumption /\ Clones!WorkspaceAssumption
  /\ Auth!CredentialsAssumption /\ Shell!CommandAssumption /\ Tree!FilesystemAssumption

Parts == {"store", "trace", "gate", "server", "page", "registry", "clones", "auth", "commands",
          "files"}

\* A part that rests begins in one of its initial states.
Init ==
  /\ part \in Parts
  /\ Store!Init /\ Trace!Init /\ Gate!Init /\ Server!Init /\ Page!Init /\ Plugins!Init
  /\ Clones!Init /\ Auth!Init /\ Shell!Init /\ Tree!Init
  /\ part # "store" => backend = "chroma"
  /\ part # "server" => ready
  /\ part # "registry" => \A t \in Tools : ~disk[t].raises
  /\ part # "auth" => file = {}

StoreStep == /\ part = "store" /\ Store!Next
             /\ UNCHANGED <<part, traceVars, gateVars, serverVars, pageVars, registryVars,
                            cloneVars, authVars, commandVars, fileVars>>
TraceStep == /\ part = "trace" /\ Trace!Next
             /\ UNCHANGED <<part, storeVars, gateVars, serverVars, pageVars, registryVars,
                            cloneVars, authVars, commandVars, fileVars>>
GateStep == /\ part = "gate" /\ Gate!Next
            /\ UNCHANGED <<part, storeVars, traceVars, serverVars, pageVars, registryVars,
                           cloneVars, authVars, commandVars, fileVars>>
ServerStep == /\ part = "server" /\ Server!Next
              /\ UNCHANGED <<part, storeVars, traceVars, gateVars, pageVars, registryVars,
                             cloneVars, authVars, commandVars, fileVars>>
PageStep == /\ part = "page" /\ Page!Next
            /\ UNCHANGED <<part, storeVars, traceVars, gateVars, serverVars, registryVars,
                           cloneVars, authVars, commandVars, fileVars>>
RegistryStep == /\ part = "registry" /\ Plugins!Next
                /\ UNCHANGED <<part, storeVars, traceVars, gateVars, serverVars, pageVars,
                               cloneVars, authVars, commandVars, fileVars>>
CloneStep == /\ part = "clones" /\ Clones!Next
             /\ UNCHANGED <<part, storeVars, traceVars, gateVars, serverVars, pageVars,
                            registryVars, authVars, commandVars, fileVars>>
AuthStep == /\ part = "auth" /\ Auth!Next
            /\ UNCHANGED <<part, storeVars, traceVars, gateVars, serverVars, pageVars,
                           registryVars, cloneVars, commandVars, fileVars>>
CommandStep == /\ part = "commands" /\ Shell!Next
               /\ UNCHANGED <<part, storeVars, traceVars, gateVars, serverVars, pageVars,
                              registryVars, cloneVars, authVars, fileVars>>
FileStep == /\ part = "files" /\ Tree!Next
            /\ UNCHANGED <<part, storeVars, traceVars, gateVars, serverVars, pageVars,
                           registryVars, cloneVars, authVars, commandVars>>

Next == \/ StoreStep \/ TraceStep \/ GateStep \/ ServerStep \/ PageStep
        \/ RegistryStep \/ CloneStep \/ AuthStep \/ CommandStep \/ FileStep

Spec == Init /\ [][Next]_vars

-----------------------------------------------------------------------------
(* ArtifactStore: no approved artifact is reported that was not stored.     *)
ApprovedWasStored == Store!ApprovedWasStored

(* ArtifactStore: the audit log is the history of every artifact.           *)
AuditTellsStatus == Store!AuditTellsStatus

(* ArtifactStore: a lineage is a path, a reader finds what it asks for.     *)
ReadersFollowTheStore == Store!ReadersFollowTheStore

(* Tracing: the readers show every span and count every cost once.          *)
TraceIsReadWhole == Trace!TraceIsReadWhole

(* Tracing: concurrent agents never file a span under another's.            *)
UnderItsCaller == Trace!UnderItsCaller

(* SafetyGate: quotas and breaker hold over all overlaps of calls.          *)
GateHolds == Gate!GateHolds

(* RunService: consecutive requests do not bleed into one another.          *)
AloneIsIsolated == Server!AloneIsIsolated

(* Dashboard: a page shows its run's end, and the spans that are its own.   *)
RunIsShown == Page!RunIsShown

(* Registry: what a runtime injects reaches the tools it has.               *)
InjectionReachesTools == Plugins!InjectionReachesTools

(* Workspace: verification accepts what was cloned and nothing else.        *)
VerificationIsExact == Clones!VerificationIsExact

(* Credentials: what was stored stays stored until it is cleared.           *)
StoredIsKept == Auth!StoredIsKept

(* CommandTools: answers stay true while abandoned commands go on.          *)
AnswersStayTrue == Shell!AnswersStayTrue

(* Filesystem: what was written is read under the path that was reported.   *)
ReportedIsRead == Tree!ReportedIsRead

(* CommandTools: a dry run changes nothing. Violated.                       *)
DryRunChangesNothing == Shell!DryRunChangesNothing

(* Filesystem: what was written to a path is read from it. Violated.        *)
WrittenIsRead == Tree!WrittenIsRead

=============================================================================
