# General-Swarm in TLA+

This directory models and verifies General-Swarm: how a decomposed goal is
executed as a graph of tasks, in one process or by worker processes behind a Redis
stream; how the lifecycle mode takes a product goal through its phases; the
loop of an agent; how agents collaborate over bus and blackboard; and the services
around the runtime (artifact store, tracing, safety gate, API server, observer,
registries, credentials, and the tools that change files, repositories and
deployments). The modules follow the Python sources; `PROJECT.json` names, for
every definition, the lines it stands for.

Run a model with `tlc -workers 2 -config Worker.cfg Worker.tla`, check proofs
with `tlapm WorkerProofs.tla`.

## 1. The system

| Part | State | Operations | Talks to |
|---|---|---|---|
| `TaskGraph`, `TaskGraphExecutor` (`coordination/task_graph.py`) | edges, the status of each `Task`, total cost, results | `add_dependency`, `run`, `_run_one` | agents by call, or the task queue |
| `Task` (`core/task.py`) | status, result | `mark_running/completed/failed`, `fork` | one object, written by the executor and by the agent |
| `Agent` (`core/agent.py`) | messages, scratchpad, iteration count | `run_task`: budget check, completion, tools, hooks | provider, tools, ledger, memory |
| Providers (`providers/*/adapter.py`) | - | `complete()` with its retries | services over HTTP |
| `CostLedger` (`observability/cost.py`) | usage records | `record`, `total_cost` | agents |
| `RedisStreamTaskQueue` (`coordination/task_queue.py`) | stream and consumer group per role, nack counters, dead-letter stream, result keys | `enqueue`, `dequeue`, `acknowledge`, `nack`, `depth`, `wait_for_result`, `store_result` | orchestrator and workers |
| Worker (`coordination/worker.py`) | stop event, semaphore, background jobs | dequeue loop, `_process_one`, SIGTERM, drain | the queue, an agent per message |
| `SwarmRuntime` (`coordination/orchestrator.py`) | topology, ledger, stop-after and resume-from phases | `run`, `_decompose`, `_run_lifecycle`, gates | all of the above |
| `swarm workforce` (`cli/main.py`) | the runtime it configures | run, feedback, resume | `SwarmRuntime`, the user |
| `MessageBus` (`coordination/bus.py`) | a queue per agent, lists per channel; or Redis topics | `send`, `broadcast`, `subscribe`, `close` | agents |
| `SubswarmCoordinator`, `Blackboard` | votes, versioned entries | majority, weighted vote, debate | agents, `write_blackboard` |
| `ArtifactRegistry` (`memory/artifacts.py`) | artifacts with type, status, lineage; audit log | `create`, `approve`, `supersede`, queries | artifact tools, lifecycle checks |
| Tracer (`observability/tracing.py`, `replay.py`) | context variables, a file per trace | spans, `pretty_print_trace`, `cost_summary` | everything that runs |
| `SafetyGate` (`coordination/safety.py`) | error and call counts | breaker, quotas, confirmation | not wired into the runtime |
| API server (`api/server.py`) | the runtime factory | `POST /run` | a runtime per request |
| Observer (`obs/app.py`) | a page per session, a thread per run | run, clear, drain | a runtime in a thread, the tracer |
| Registries (`core/registry.py`) | tools, providers, `sys.modules` | discovery, bootstrap | runtimes |
| `swarm auth` (`cli/auth.py`) | a credentials file and its temporary file | setup, add, clear, check | the user, gcloud |
| Tools (`tools/*`) | files, repositories, deployments | `ToolHandler.run`, then one handler each | commands and services |

What makes it hard:

* **Two writers of a status.** An agent marks its task completed and then
  awaits a memory write and a hook that may raise, after which the executor
  marks the same task failed. What keeps dependents from starting in between is
  only that `ready_tasks()` waits for `gather()`.
* **Three parties and no transaction.** Orchestrator, Redis and worker: every
  call may fail after having taken effect; workers crash, are restarted and
  are told to stop; results arrive after the timeout.
* **Checked before, charged after.** Agents, quotas and batches look at a shared
  sum, wait, and add to it.
* **Pause and resume by name.** `--deploy` pauses after `"build"` and resumes
  at `"live_test"`: two constants in one file that must fit a list in another.
* **Module globals.** Tools, the tracer and the observer keep what belongs to one
  runtime, subswarm or run in globals that the next one overwrites.
* **Swallowed errors.** A failing store, query or audit looks like an empty one.
* **Commands outlive their calls.** A tool's time limit cancels the coroutine, not
  the command it started.

`PROJECT.json` lists each hazard at its line with the properties that guard
it, and every component, those that are not modelled included.

## 2. The modules

```
TaskGraph ── DagSchedule (abstract)          RedisTaskQueue
    └─────── TaskGraphExecutor                     └── Worker
                   │   └── TaskGraphExecutorProofs      │  └── WorkerProofs
                   └───────── DistributedRun ───────────┘
                                   ├── MCDistributedRun
                                   └── DistributedRunProofs
Lifecycle ── MCLifecycle, LifecycleProofs
Scratchpad, Providers ── Agent ── MCAgent, AgentProofs
MessageBus ─────────────┐
Blackboard ── Subswarm ─┴─ Collaboration ── MCCollaboration, CollaborationProofs
ArtifactStore, Tracing, SafetyGate, RunService, Dashboard, Registry,
Workspace, Credentials, CommandTools, Filesystem
    └── Services ── MCServices
            └── ServicesProofs ── RecordsProofs
```

`MC...` modules give the constants their values for TLC, `...Proofs` modules hold the
theorems; both extend the same module, so that what is checked on a small instance
and what is proved for all are one formula.

**`TaskGraph`** holds the queries of class `TaskGraph` as operators on `deps`
(the edges) and `status`. `WithDependency` is `add_dependency` together with the
planner that swallows `CyclicTaskGraphError`: an edge that closes a cycle is
dropped.

**`DagSchedule`** is the abstract specification of running a graph: it is fixed
and acyclic before anything begins, a task begins once, when all predecessors are
completed, and settles once.

**`TaskGraphExecutor`** is `run()` and one `_run_one()` per task. A step is what
the event loop runs between two awaits. `call[t]` is where the coroutine of `t`
is: awaiting the executor function (`executing`), its agent's hooks (`hooks`),
XADD (`enqueueing`), a GET (`polling`, `missed`), or returned (`ok`, `bad`).
`phase` is where `run()` is, and why it returned. `DispatchMode` chooses the path;
`Costs` and `GlobalBudget` (0 for none) bound the money; the two clocks (`timeUp`,
`expired`) may pass at any time. The pass that sleeps when nothing is ready
changes nothing, and `NeverSpins` says that it never happens. It implements
`DagSchedule` under the mapping `Observed`: a task counts as running until its
coroutine has returned.

**`RedisTaskQueue`** is what each method of `RedisStreamTaskQueue` does on the
server for one role; roles share no state that anybody reads. `stream` keeps its
entries for ever, `delivered` is the group's last-delivered position, `pel` its
pending entries. A message is named by its task.

**`Worker`** is the processes of one role. `loop[w]` is `up` (in `dequeue`),
`drain` (in the `finally`) or `down`; `job[w][t]` is the await at which
`_process_one` of that message is, from `queued` (before the semaphore) to
`metric`. Faults are actions: `Crash` at any point, `SigTerm`, `DequeueRaises` and
`CallRaises`, whose call may or may not have taken effect. `runs`, `faults` and
`stops` are counters of the model.

**`DistributedRun`** has `TaskGraphExecutor` and `Worker` as instances and identifies
what they share: `Enqueue` is
the executor's step and XADD at once, `PollHit` needs a stored result, and
`EnqueueRaises` leaves it open whether the entry is in the stream.

**`Lifecycle`** is `_run_lifecycle` and the command that calls it once or twice.
`Plan` is the list of phases after `--deploy` was taken into account, `idx` the loop
index plus one, `at` the place the command is at. The lifecycle file, the topology
and what earlier commands left in the registry are constants. An agent may write
any artifact its phase asks for, and those of `Unasked`. A check of artifacts may
miss one that is there, since a failed query returns nothing. `diverted` records
that a failed phase was rerouted, after which the order promises nothing.

**`Agent`** is `run_task` of several agents on one ledger, a task each. `pc[a]` is the
await an agent is at; what it does up to the next one is one step, so the budget
check and the call that follows are together, the charge is a later step.
`Providers` says what each adapter makes of a kind of reply and when it repeats the
request; `Scratchpad` is `append_message` with the compaction behind it. A message
is its role, a number and a size.

**`MessageBus`** has both transports. A queue of the in-process bus belongs to an
agent and an *epoch*: `close()` forgets the queues, and whoever was reading goes on
with the old one. On Redis a message reaches who is subscribed at that moment.

**`Collaboration`** has bus and subswarms as instances; they share no state in the
code, and a behaviour is of one of them (`part`). **`Subswarm`** with **`Blackboard`**:
`votes[s]` is filled in any order by the agents that `gather` runs, `board[s]` by the
debaters in turn, and `active` is the swarm whose board the tool `write_blackboard`
holds. Agents give the tool any key, round keys included, and any value, the one
that `latest()` takes for a deletion included. `said[s]` is what was written for the
debate of `s`, and by whom.

**`ArtifactStore`** is the registry together with `artifact_write`, `artifact_read` and
`contractor`. The registry's coroutines never wait, so what a tool does between
its own awaits is a step; `f` names the calls of Chroma that fail in it, and `report[id]`
is what a tool told last of an artifact, with the failures it did not see. **`Tracing`**
has a `flow` per asyncio task with its own copy of the context variables. **`SafetyGate`**
has a call per agent, which may wait for the operator. **`RunService`** has requests
that overlap at their awaits, each with its ledger, and the one `factory` that
`spawn_agent` calls; a run that raises is answered with HTTP 500. **`Dashboard`** has pages, and runs in threads whose steps are
interleaved one assignment of a global at a time. **`Registry`** has bootstraps
that run in threads, the module objects they make and the handlers each runtime
took. **`Workspace`** has calls that clone into one directory; **`Credentials`** has
processes that walk through the services `--only` selects and may be killed after
every write; **`CommandTools`** has the calls of thirteen tools in their order
(`calls`), each with the commands that are still to run, the answer it was given
and what it changed: a command abandoned by a time limit goes on there, while later
calls are made; **`Filesystem`** has the tree (relative and absolute paths, and the jail
that compares texts) with what was last given to each path. **`Services`** has an instance of each.

**Definitions named `..._xyz`** next to another (`Join_firstCompleted` before `Join`)
are variants with a plausible mistake. No specification uses them; replacing the
original by a variant shows that the property named with it in `PROJECT.json` notices.

## 3. What the runs check

| Run | Bounds | Question |
|---|---|---|
| `executor` | 3 tasks (all 25 acyclic graphs), costs 0 and 1, budget 2, both dispatch modes | Is every task started after its predecessors and accounted for once; is what is left behind a failure; is it a `DagSchedule`? |
| `worker` | 2 tasks, 2 workers, 1 slot, 2 faults, 1 SIGTERM | At-most-once delivery, result before acknowledgement, graceful shutdown, and that every message is handled. |
| `distributed` | 2 tasks, a worker with 2 slots, 1 fault | Do orchestrator and workers agree through lost calls, crashes and late results; does the run return; is a clean run acknowledged? |
| `lifecycle` | the shipped file and two that reroute, with an empty or partly filled registry | Order of phases and approvals through pause and resume, completeness of success, an end to every command. |
| `agent` | 2 agents, 2 iterations, up to 2 tool calls, 2 attempts, budget 1 | How far is a shared budget overshot; is every tool call answered; does the scratchpad follow; does every agent end? |
| `collaboration` | bus: 2 agents, a channel, 2 messages, 1 close; subswarms: 3 and 2 agents, 2 rounds, a write of the tool under any key | Are direct messages kept and all in order; does a referee read the whole debate and nothing of another? |
| `services` | see `Services.cfg` | One question or two of each service, below. |

The parts of `services` share no state. They are checked in one run whose
behaviours are each of one part (`part`); the others rest in an initial state.

* artifact store: what is reported as approved was stored by that call and approved,
  unless one of these two writes failed in the store, which swallows it; the audit
  log joins up and ends in the stored status; a reader gets the newest of the status
  it asks for, a draft only for want of one or after a failed query, and a lineage
  without repetition.
* tracing: readers show every span of a file and count each reply once; no span is
  filed under another agent's.
* safety gate: quotas and breaker hold over all overlaps.
* API server: requests that do not overlap are isolated.
* observer: a page learns that its run has ended; it shows another run's spans only if
  both overlapped, those of a run in order and once, and in the end all of its own if
  its run's wrapper of the tracer stands. Nothing is claimed of the live spans of a
  run that found the tracer wrapped by an earlier one: there are none (section 5).
* registries: what a runtime injects reaches the handlers it has.
* repositories: verification accepts what was cloned and rejects what was edited.
* credentials: what was stored stays, wherever a command is killed.
* command tools: what a call was answered stays true while abandoned commands go on
  behind it; a call with `dry_run` changes nothing, and `kubectl` applies only what its
  dry run accepted in the same call.
* files: what was written is read under the path that was reported, by any spelling.

Why these bounds are enough to see something: three tasks contain the chain,
the fork, the join and a task unrelated to a failure; a budget of two is met in the
middle of a graph; two tasks on one slot make one job wait for the semaphore; two
workers are what a redelivery needs; two faults allow a lost call followed by a
crash. Two agents on a budget of one overshoot it, and two tool calls let one fail
while the other succeeds; a scratchpad of three units is compacted, notices
included. One write of the tool may meet any round key of either debate. Two messages show an order, one close() two epochs. In the services two
overlapping actors are what each hazard needs (a third clone or artifact
makes a chain), and one store error or one killed command can fall on any step. Two
calls of command tools are enough for a command that outlives the first to go on
behind the second, two runs with two spans each for their order to be mixed up.
Every action of every next-state relation fires. Deadlock is not checked: every one of
these systems ends.

Five runs expect a violation. Each checks one claim of a comment, document or test,
and its counterexample is what the code does:

* `worker_nack`: a nacked message is neither retried nor dead-lettered.
  `dequeue()` reads `>` and nothing claims pending entries; the third nack that
  leads to the dead-letter stream cannot happen. The orchestrator learns of a
  failing agent only by its 300 s timeout.
* `lifecycle_blocked`: a security report that blocks progression does not keep
  `deployment` from starting; the file's transition table is never read.
* `api_isolation`: "Build a fresh runtime per request — isolates state between
  runs" (`api/server.py:94`). Of two overlapping requests the earlier spawns agents with the
  later one's runtime and at the cost of its ledger.
* `tools_dry_run`: `db_migrate` with action `dry_run` on Prisma deploys, unless the
  argument `dry_run` is set as well.
* `filesystem_read`: `hello.txt` is written to `built/hello.txt` and read from
  `hello.txt`, which a test and the tool's own self-test expect to be one file.

### Fairness

* Executor: weak fairness of the coroutines (the event loop is fair), of the call
  that an agent awaits (it has an iteration limit, and its calls return or raise), and
  of the per-task clock. No fairness for the planner's dependencies or for the global
  clock: returning does not rest on the global timeout.
* Worker: weak fairness of the loop, of each job and of restarts, which are the
  deployment's. None for SIGTERM, crashes or errors.
* Lifecycle: agents end, and the human answers at gates and ends the feedback.
  Artifacts need not be written.
* Agent: weak fairness of each agent's next step: providers have time limits, tools
  run under `wait_for`, and hooks are assumed to return.

## 4. What is proved

TLAPS checks the theorems of eight modules for every value of the constants, under
the named assumptions of the components. Every safety and action property that a
passing run checks is stated by a theorem, under the same definition.

### The assumptions

Sets of tasks, workers, agents and tools are finite, `Concurrency` and `Threshold` at
least 1, costs and bounds natural numbers (`RunAssumption`, `GateAssumption`, and so
on; every passing run evaluates those of its parts). Some say more:

* `LifecycleAssumption`: a lifecycle file lists each phase once, and `live_test` right
  after `build`. The hypothesis `ReroutesAreForward` of `NoPhaseIsRepeated` says that
  no phase after `iteration` reroutes to it. `MCLifecycle` evaluates both on its three
  files, one of which is the shipped one.
* `WorkspaceAssumption`, `CommandAssumption`, `CredentialsAssumption`,
  `StoreAssumption`: contents and names that the code tells apart are different, a
  service is listed once, a required one is among them.
* `BusAssumption`, `SubswarmAssumption`: no agent is called `None`; a subswarm has
  members, and they have roles.
* `FilesystemAssumption`: no agent names the working directory itself, by `built/..`,
  say: neither its deletion nor a file in its place is guarded against. A `/` stands
  only at the start of a path, as the model writes absolute ones. The paths of
  scaffolds and templates have neither `/` nor `..`, and no file of a template lies below
  another.

### The arguments

* **`TaskGraphExecutorProofs`**. `ExecutorInv` is inductive. `DependentsWait` is not by
  itself: a task completed by its agent may be failed by its hooks, so one must know
  that no dependent has been started, which is `Barrier` (while a coroutine has not
  been joined its dependents are pending) and needs in turn what `call` says of
  `status`. From it follow `DependentsWait`, `NeverSpins` (a minimal pending task of an
  acyclic graph), `SkippedOnlyBehindFailure`, `VerdictIsFinal` (only an agent's hooks
  revise a status), `OneResultPerStartedTask`, and that the executor implements
  `DagSchedule`.
* **`WorkerProofs`**. `WorkerInv` says that an entry is in the stream once, a task has at
  most one job, what each state of a job implies (a queued job has not run, a job that
  acknowledges has stored), and what holds of a task nobody works on. At-most-once
  execution, the unreachable dead-letter stream, stored before acknowledged, nothing
  abandoned without faults, `LostStaysLost` and the concurrency bound follow.
* **`DistributedRunProofs`** instantiates both proof modules and uses their theorems: a
  step of the run is a step of the executor or a stutter for it, and the same of the
  workers. What neither knows alone is `Meeting`: a task that was not dispatched is
  not in the stream, and one that is completed has its result stored. `RunInv` is the
  three together. From it follow `ExecutedAfterPredecessors` (what a worker runs was
  dispatched, and a dispatched task's predecessors are completed), `CompletedWasExecuted`
  and `LateResultIgnored`. `RunImplementsExecutor` is the refinement: queue and workers
  are one way to run a task; with it `RunImplementsSchedule`.
* **`LifecycleProofs`**. `PhasesInOrder` is not inductive since a resumed run starts at
  the head with nothing done in its own call. `Pause` carries what the pause
  implied (everything up to `build` has passed) to the moment `live_test` is reached.
  `SuccessIsComplete` follows with `Artifacts`: what passed has left its outputs, and
  nothing removes them. `PassedIsNotRepeated` needs the opposite of order, `AheadInv`:
  nothing from the loop's position on has passed, which a pause keeps for `live_test`
  and a forward reroute for its target; it holds also after a reroute, of which
  `PhasesInOrder` says nothing.
* **`AgentProofs`**. `OvershootBounded` is not inductive: the ledger says nothing of what
  is still to be charged. `AgentInv` bounds `Committed`, the ledger together with
  `MaxCost` for each completion under way. A completion that ends turns part of
  what was committed into a charge of at most that; a new one begins only while the
  ledger itself is below the budget, and then at most `Cardinality(Agents)` are under
  way. `ConversationInv` is about the messages: every call but those of the last
  assistant has its answers right behind it (`Sound`), the last one waits for as many
  as `calls` says (`Open`), and the scratchpad is a notice or none, and then a suffix of
  the conversation (`Follows`). The suffix must not be empty while the conversation
  goes on, or a second compaction would leave a notice among the rest.
* **`ServicesProofs`**, an invariant for each service.
  *Gate*: the calls that passed and those that wait for the operator are together at
  most what the quota has counted. *Server*: while a request is under way the injected
  factory is its own, unless it was not alone. *Registries*: the entry, every snapshot
  and every load under way of a tool agree with `sys.modules`, unless two bootstraps
  raced for it. *Repositories*: the target is what the call named in it has made,
  with the manifest that the call answered. *Command tools*: a change is still to run or was made only in a call whose
  inputs have one and no `dry_run`, of `kubectl` only after a look that succeeded, and an
  answer that ends the matter leaves nothing running (`CallFits`, which each command that
  goes on keeps for every earlier call as well).
  *Credentials*: as long as commands do not overlap the file is what was stored, and the
  command under way knows it. *Observer*: what is in a run's queue or on its page was written, by it or by
  one that overlapped with another as it did (`Known`); what is shown comes before what
  is queued, in the order of writing (`Ordered`), with nothing missing while the run's
  wrapper stands, and the end is the last item (`PageFits`, `Announced`). *Files*: every path that should hold a text resolves to a file with it
  whose parents are directories; what makes a reported path lead back is that
  resolving a resolved path changes nothing.
* **`RecordsProofs`**. *Artifacts*: a report of approval is true of the store, and only
  a call that names the same artifact can make it untrue, which then reports anew
  (`Backed`); each entry of the audit log goes on where the last of
  its artifact ended (`History`), and a lineage is a path by which the depth bounds its
  length. *Tracing*: what a flow has as its current span was started in a flow that awaits
  it (`Awaits`); an open span is open in one flow and not yet written; the ledger's
  replies are the written ones that were metered (`Counted`).
* **`CollaborationProofs`**. *Bus*: a queue has messages of its own epoch, a channel's
  members read the queue they are entered with and are entered once, and what an
  agent has received with what it can still receive is in order, with no message more
  than twice (`Tidy`: directly and by a channel). *Debate*: until the referee is called the board of a swarm holds what was
  said for it, entry by entry (`Records`), whoever wrote it, and those before the
  speaker whose turn it is have spoken (`SpokeInTurn`); so the log that is read off the
  board has what was said last under each key and nothing else (`Logged`).

Recursive definitions are functions, not operators. What they compute (the resolved
path, a lineage, the ancestry of flows) is reasoned about with `Induction` and
`Recursion`, which `ServicesProofs` derives from the library's well-founded minimum: the property of every number is given as a set, the
step of the definition as a function.

### Only model-checked

Liveness under fairness, and `ENABLED`, are beyond this prover: `EveryMessageIsHandled`,
`AnsweredOrNacked`, `DrainEnds`, `RunReturns`, `CompletedRunIsAcked`, `CommandEnds` and
`AgentEnds` are checked on the runs' instances only. So are the five claims that the
code does not keep. The contents of constants, such as the shipped lifecycle file, are
what the MC modules give. No module uses `RECURSIVE`: acyclicity and "behind a
failure" are stated with sets closed under predecessors. `:>`, `@@`, `SelectSeq` and
folds with a `LAMBDA` are opaque to the provers, so modules that are reasoned about
write the function (`With` of `Filesystem`, for one).

## 5. Not modelled

* The language model, web services and the contents of texts: an answer is a
  nondeterministic choice, a failure an action.
* About 40 tools that are one request to a service or a pure computation: they keep no
  state and share none. Streaming and message translation in the providers.
* The loss of Redis data, the TTL of result keys (longer than any poller waits),
  `drain_dlq` (a read without a caller) and `InProcessTaskQueue` (only a test uses it).
* Exceptions that leave `run()` in the lifecycle mode, and phase budgets, which the
  code computes and never uses.
* A crash of the orchestrator: nothing of a run is persisted, and what workers do then is
  what they do after its timeouts.
* `list`, `search` and `exists` of the filesystem tool, and the queries `by_id`,
  `by_stage` and `list_all` of `artifact_read`, which read directly and keep nothing.
* What pages draw, logging, parsing of configuration and specs, generated files
  (see `components`).

Seen while modelling, and not the subject of a run:

* Queue and runs: `depth()` is the length of the stream and never decreases; with
  the shipped topology the phase `live_test` has no agent and aborts the run;
  `post_launch` requires `MonitoringConfig`, which no phase is asked to produce;
  artifacts left by an earlier command pass for outputs of this one; with `--json` a
  paused run is never resumed.
* Agents: the scratchpad's compaction keeps the last messages whatever their size, so
  `scratchpad.py:3` ("never exceeds") is not guaranteed; a raising `on_complete` makes
  a completed task fail; the ledger prices the spec's model while an adapter may have
  answered with a fallback; an answer without usage is free or raises, depending on
  the adapter; the single-agent path omits spawned agents' cost from `result.cost`.
* Collaboration: two debaters of one role overwrite each other's round key, and so does
  the tool, which takes any key: what a debater said is then hidden from the referee, in
  its own debate or, through the tool, in that of the swarm that began last; an error
  text may win a vote with `success=True`; `write_blackboard` and `send_message` use what
  the last subswarm or agent left in a global; `latest()` and `search()` bring back older
  values of deleted keys; readers that wait when `close()` is called wait for ever; a
  message with recipient and channel reaches, on Redis, only the recipient.
* Artifacts: without `auto_approve` a failed write is reported as a success; a failed
  query for approved artifacts makes `artifact_read` hand out a draft; a write with an
  existing id turns an approved artifact into a draft, and if the store fails to take it,
  `approve()` finds the older artifact, approves that and reports the new one as
  approved; `artifact_read/handler.py:51` says "Fall back to any status" and falls back to
  drafts only.
* Tracing: `cost_summary` files all cost under "unknown"; phases and decomposition of a
  lifecycle are in a trace of their own.
* Gate: half-open lets every call through, not one.
* Server and observer: `budget` and `topology` of a request are ignored; runs after the
  first show no live spans, though `obs/app.py:2` calls the page a live UI, and while two
  overlap the later one's go to the first's page.
* Registries: a handler that failed to execute stays in `sys.modules`; concurrent
  bootstraps may take a half-executed module or load it twice, and then `set_factory()`
  reaches only one of the two.
* Credentials: two commands at once lose an update; services that gcloud
  authenticates are reported as missing for ever; `run_auth_flow` strips the names of
  `--only` (`cli/auth.py:146`), the exit status compares them as they are (line 254).
* Tools: commands go on after their call's time limit, so a retry overlaps them and a
  change may be made twice; only a push that names `main` asks for a confirmation, not
  one without a branch that pushes it as the current one, nor any other, though `git_ops/spec.yaml:2` requires one for push and PR;
  `gcloud` updates run at once, though `gcloud_cli/spec.yaml:5` says that writes are
  gated and line 8 that the tool only reads (the model does what the handlers do);
  `pr_create` runs `git gh`, which does not exist; a sibling of the working
  directory whose name begins like it passes the jail, and a write there takes effect
  although an error is reported; two template clones
  may nest one in the other while both report success; a timed-out `github_clone` leaves a
  directory that makes every retry fail; an `npm audit` that did not run reports zero
  findings; `delete` of `built/..` removes the working directory.

## 6. Plan

Done: the executor and its abstract schedule, the queue and the workers, their
composition, the lifecycle, agents, bus and subswarms, the services; proofs of every
safety and action property of the passing runs. What would come next:

1. The loss of Redis data (a group that is remembered and gone), with the worker's
   `NOGROUP` exit.
2. An abstract specification of the queue (a task is handed out at most once and
   answered or lost) that `Worker` implements, so that `DistributedRun` need not look
   into it.
