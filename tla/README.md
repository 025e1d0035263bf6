# A verification project for Vespawd

Vespawd orchestrates software projects: a Python runtime (`vedaws`) keeps a
project's workflows, tasks and state in a directory `.vedaws/`, a bridge calls
it from agent sessions, and an executor turns a master prompt into work. This
directory holds TLA+ models of that code, TLC configurations that check them on
small instances, and TLAPS proofs. Paths below are relative to the repository;
`rt/` abbreviates `vedaws/runtime/vedaws/`.

To run a check: `tlc -config MCWorkflowEngine.cfg MCWorkflowEngine.tla`, and
likewise for the other configurations. To run the proofs: `tlapm M.tla` for each
module `M` whose name ends in `Proofs`.

## The system

| Component | State it keeps | Operations | Works with |
|---|---|---|---|
| Project state machine, `rt/project/state/` | current state (`state.toml`), history (`transitions.jsonl`) | `transition`, bridge through an intermediate state, eligibility tests | everything that changes a state |
| Workflow engine, `rt/workflow/` | status of every task and workflow (`workflow-progress.json`) | `load`, `activate`, `complete_task`, `fail_task`, `mark_dispatched`, `mark_running`, `record_worker_outcome`, `ensure_executing`, `sync_project_state` | state machine, event bus |
| Worker dispatcher, `rt/dispatch/dispatcher.py`, `matcher.py` | none of its own | `dispatch_and_execute` | engine, workers |
| Run loop, `rt/dispatch/runner.py` | counters of one run | `run_until_idle` | dispatcher |
| Command line, `rt/cli/`, `rt/runtime/`, `rt/project/detector.py` | none: each command is a process that loads and saves files | `init`, `workflow activate`, `tasks complete/fail`, `run`, `workers run`, `state transition` | all of the above |
| Event bus, `rt/events/` | subscriptions | `publish` (synchronous), `subscribe`, `unsubscribe` | engine, automation |
| Automation, `rt/automation/` | rules, active rules, depth | `_on_event`, `run_rule`, actions that call the engine and publish again | bus, engine, dispatcher |
| Workers, `rt/workers/` | registry, status of each worker | `register`, lookup by capability, `execute` | dispatcher, plugins, AI |
| Plugins, `rt/plugins/` | lifecycle of each plugin | discover, validate, activate, unload | workers, AI, automation |
| AI service, `rt/ai/` | registered providers | request along a fallback chain | AI workers |
| Bridge, `main/bridge/lib/` | projection files; a retry tracker in memory | `bootstrap`, `ingest_master_prompt`, `pre_implement_check`, `post_implement`, `pre_documenter`, `post_phase_complete`, `sync_status` | runtime commands as subprocesses, with timeouts and retries |
| Executor, `main/executor/lib/` | current task, progress log, backlog, completed log | startup, ingest, gate, implement, complete, close-out, resume | bridge as a subprocess |
| Plugins of the repository, scripts, doctor, reporters | none that the protocol depends on | | |

What is hard about it:

- every command loads files, works on a copy and writes the files back one by
  one, without locks and without atomic replacement: kills (an operator, or the
  bridge's timeout) and concurrent commands can come between any two writes;
- a dispatch persists progress at each step and runs a worker in the middle;
- statuses are derived and stored beside what they are derived from, and the
  project state is reconciled with them through a table that refuses silently;
- one outcome asks for several transitions, and persists progress, in a fixed
  order;
- the run loop has four counters and six ways to end, two of which its summary
  does not tell apart;
- events are handled synchronously inside the operations that publish them, and
  automation rules call the engine again from there;
- bridge and executor repeat calls whose first attempt may have had its effect.

What makes each component correct: the state machine moves only along its
table, with every transition recorded; the engine releases a task only after
its dependencies, never takes one back, and keeps derived statuses true; gates
and failures hold until somebody decides; the run loop ends, does all it can,
and can account for what it reports; the files are consistent after a kill; rules end; a
bridge call repeated has the effect of one; a session that is resumed finishes
what it recorded. `PROJECT.json` lists the hazards line by line.

## The modules

Four groups, each a composition of its own. They meet in `ProjectState` and
`WorkflowProgress`, the operators all of them compute with.

| Module | What it is |
|---|---|
| `ProjectState` | states, transition table, bridge and eligibility as operators |
| `WorkflowProgress` | what the engine computes from tasks and workflows: readiness, derived statuses, reconciliation, effects of activation and outcomes |
| **The core** | |
| `TaskLifecycle` | abstract specification: what the engine promises about tasks |
| `WorkflowEngine` | engine, dispatcher and project state, one command at a time, kills inside a dispatch |
| `RunUntilIdle` | the run loop over `WorkflowEngine`, other commands between runs |
| `CliProcesses` | commands as processes over the three files, write by write |
| **Automation** | |
| `AutomationRules` | rules as data: which ones a project has, which answer an event, which the doctor calls circular |
| `Automation` | event bus, automation engine, its actions, and the engine and dispatcher again, cut at every event they publish |
| **Bridge and executor** | |
| `BridgeManifest` | the manifest every bridge operation reads, and its validation |
| `MasterPrompt` | how a Master Prompt is accepted and which phase it is for |
| `PawsFiles` | what the writers make of the files kept for people |
| `BridgeSession` | the bridge's operations over the runtime's commands, with time-outs, failing spawns and retries |
| `PhaseProtocol` | abstract specification: what runtime and files promise together about a phase |
| `ExecutorSession` | the executor's orchestrations over `BridgeSession`, write by write, with kills |
| **Plugins and AI** | |
| `PluginRules` | manifests, activation files, dependencies and configuration layers as operators |
| `DependencySearch` | the depth-first search for the order of loading, call by call |
| `PluginPlatform` | the life of a runtime's plugins from bootstrap to shutdown |
| `AIRouting` | provider chains and what validation says of them |
| `PlatformRuntime` | `PluginPlatform` with AI workers at work |
| **Checks and proofs** | |
| `MC...` | instances for TLC, one per group and two more in the core |
| `WorkflowProgressProofs` | lemmas about the operators of `WorkflowProgress`, used by the core, automation and the session |
| `WorkflowEngineProofs`, `RunUntilIdleProofs`, `CliProcessesProofs` | theorems about the core |
| `AutomationProofs` | theorems about automation |
| `ExecutorSessionProofs` | theorems about bridge and executor |
| `PluginPlatformProofs`, `PlatformRuntimeProofs` | theorems about the plugins |

Definitions carry the names of the functions they stand for. Operators marked
"Mutant" are the deliberately wrong variants against which each property is
tried: with the variant in the place of the definition, TLC finds the property
violated.

### The core

**State.** `taskStatus` and `workflowStatus` are the task and workflow
instances (`rt/workflow/models.py`), `projectState` is the state engine's
current state, `dispatch` is the point in `_execute_with_worker` at which the
process stands. `run` holds the local variables of `run_until_idle` and what
the last run reported: its task limit leaves no trace there, so a run cut off by it
is `idle` like one that found nothing to do. In `CliProcesses`, `disk` is the content of the files
(with the files that are torn, the target of the last record and whether the
records form a chain) and `proc` is the copy and the outstanding writes of
every process.

**Actions.** `Activate`, `CompleteTask`, `FailTask` and `HumanTransition` are
the commands, with every call they make: refresh, the transitions asked for, and
reconciliation. `PrepareDispatch`, `MarkDispatched`, `MarkRunning` and
`RecordWorkerOutcome` are the stretches of a dispatch between its persisting
steps; an exception of the worker is a failed outcome. `Crash` ends the process
there. In `RunUntilIdle`, `BeginCycle`, `StopAtBound`, `SkipTask`, `MissWorker`,
`DispatchOffered`, `HandOver`, `FinishDispatch` and `EndCycle` follow the lines
of the loop. In `CliProcesses`, a command computes its writes when it begins
(nothing it reads afterwards could change them) and `OpenFile` and `FinishWrite`
make them: `write_text` truncates when it opens, an append does not.

**Abstractions.** Messages, reasons, timestamps and worker ids are left out.
The status `completed` of a task exists only inside an outcome, before
`recorded`, where only event handlers could see it (`Automation` has it);
`cancelled` is set nowhere; both stay in the type because the code tests for
them. Failing file operations (a full disk, missing rights) are not modelled,
kills are. A dependency id that names no task is allowed, as in the loader, and
so are cycles. The copy of the state in `project.toml`, read only when
`state.toml` is missing, is left out here. Two processes are not in the middle of
writing the same file at the same time, and a process reads its three files in
one step. Workflow ids contain no dot (the registry finds a workflow's tasks by
the prefix `id.`, so `a` would own the tasks of `a.b`).

### Automation

Publishing is a function call: the rules that match an event execute inside it,
and their actions call the engine again before the operation that published has
finished. `todo` is that call stack, flattened: the steps still to be taken, the
innermost call first. A step takes the head of `todo` and puts what it calls in
its place, so each stretch of code between two publications is an action:
`PublishEvent`, `ExecuteRule`, the actions of a rule, the transition with its
write to the manifest and its event, the stretches of an outcome and of a
dispatch. Exceptions unwind `todo` to the handler that catches them. `chain` is
`_active_rule_chain`, `config` the automation file, `progressFile` and
`manifest` the files the operations leave behind, `workerStatus` the status of
the worker objects. Kills are left to the core: between two commands of this
module the process has always ended by itself.

Events carry their type and the one or two values conditions compare. Actions
outside the project (commands, notifications) are one step that changes nothing.

### Bridge and executor

`runtime` is the vedaws project as its commands see it, with the effects of
`WorkflowProgress`; a command is one step here, because `CliProcesses` shows what
it leaves when it is cut off in the middle. `paws` are the files kept for
people: every write of theirs replaces the file, so a write is a step. `todo`
holds the steps of the operation and the orchestration around it, `result` the
bridge's answer, `session` what the executor has made of the answers so far.
The fault model is that of `cli/adapter.py`: a command is killed at its
time-out, before or after it had its effect, and started again once; a spawn
fails, and is tried three times; a command fails for reasons of its own. A
time-out in the middle of `vedaws run` leaves a task running, one in the middle
of `init` a partial project. The executor is killed between any two of its
writes, and loses what it had gathered. A person moves the project between two
orchestrations (`OperatorStates`).

An operation's manifest is looked at by the dispatcher (`Refusals`: layout and
version; without a Mode in the context nothing is asked of the layout), and again
by the handlers of `bootstrap` and `pre_implement_check`, which add the codes of
its integrity. What validates the text of `vedaws workflow show` never objects: it
looks for words that only `workflow list` prints. A `vedaws run` answers with an error
when a task is ready still, whether nobody can do it or the project's state forbids
it. The goal of a close-out is a parameter of the code that its callers fill from
`current_task.md`; here it is that one, and nothing in the code compares the two.

`Manifest`, prompt and context are records of what the code distinguishes: the
order of headings, not their text. Notes, warnings and recovery hints are left
out, as is the real time behind the freshness of the handoff (it may become stale
at any time).

### Plugins and AI

`installation` is the machine (manifests by place on the search path,
configuration layers, routes of the AI) and `files` the two activation files; the
rest is one runtime: `status`, `live` and `loads` of each plugin, the turns that
are `pending`, what was `merged` into the registries, who listens on the `bus`,
and who `heard` the event published last. Each hook of a plugin is an action
that may raise: import, `on_load`, `register`. An import that raises crashes the
start, as it does in the code; a failing activation keeps what had been merged
by then. `Unload` takes the plugins one by one and publishes for each. `EnableCommand`
and `DisableCommand` edit a file between two runtimes. `Ask` is one call of one
provider, which answers or raises.

Identifiers are numbers in the order `sorted()` puts them. The order of loading is
found by the search of the code: `stack` holds the calls of `visit` that have not
returned, `looked` how far the loop of each has come, `visiting`, `visited` and
`order` are the code's own, and `VisitRoot`, `LookAtNeed` and `FinishVisit` the
stretches of the two loops between two calls. `RefuseRing` is a ring met on the way,
`AcceptOrder` the end of the outer loop, after which `Load` takes the plugins in
the order found. What a plugin does in its hooks, beyond what it contributes, is
external; a subscription does not fail (`rt/events/bus.py:66-91` raises for an
event type that is no text only).

## What the runs check

| Run | Instance | Shows |
|---|---|---|
| `engine_core` | two workflows of three tasks: a join, two approvals, a dependency that names no task | tasks keep the abstract life cycle, dependencies are recorded first, stored statuses are true, loading changes nothing, gates are opened and failures left by decisions |
| `run_loop` | four tasks, one of them without a worker, one with approval; 2 tasks and 5 cycles at most | a run ends, leaves nothing it could have done, and accounts for what it reports |
| `file_writes` | three tasks in two workflows, one process at a time, kills anywhere | the progress file is always consistent and shows the life cycle; the state file follows the table; halts are on disk before the progress that caused them |
| `automation` | a join of two tasks, one worker, seven rules in six combinations: circles of publications, a pair that moves the project back and forth, rules that dispatch, complete or fail a task inside the dispatch or outcome of another | chains of rules end, nesting is bounded by the rules, whatever was interrupted leaves statuses, files and workers settled, tasks keep the life cycle, no unnamed worker is shared, the doctor misses no circle |
| `session` | a workflow of two tasks, one of them automated; four prompts, four manifests, four reports | the files close a phase only after the runtime recorded it, and nothing recorded or logged is lost; a task that is over was logged; an untroubled synchronisation is true; orchestrations end |
| `platform` | three plugins on five machines: a line of dependencies, a ring, an unmet version, doubles and invalid manifests, configuration layers; three pairs of activation files | the search refuses rings and nothing else and puts dependencies first, events reach plugins in service, every load unloaded, fallback asks everyone, a validated route is taken, a toggle changes one plugin, starts and shutdowns come to an end |
| `approval`, `completed_early` | two workflows of one task | violated, see below |
| `transition_record`, `two_commands` | one workflow of one task; one and two processes | violated, see below |
| `implement_gate`, `completion_resumable` | the instance of `session` | violated, see below |

**Bounds.** The state of the engine is finite for finite sets of tasks, so
`engine_core` and `file_writes` explore everything, with any number of kills and
decisions; there is no counter to bound. The instances contain each case the
code distinguishes: independent tasks, a join, a chain, an approval in the
middle and at the end of a workflow, a dangling dependency, and a second
workflow that is defined, active, failed or complete while the first moves. In
`run_loop`, `MaxTasks = 2` is below the number of tasks that can be done in a
run, so the limit is reached, and `MaxCycles = 5` is above the cycles that make
progress plus the repeated ones, so the cycle bound is only met by the runs that
spin because the state forbids dispatch. With a bound no larger than the longest
chain of tasks, `NoServedTaskLeft` would not hold: the command allows 10000
tasks and 1000 cycles, so that a chain of more than 1000 tasks is cut off.

In `automation`, `MaxDepth` is 2 (5 in the code): publications of rules nest
deep enough to be cut by the depth as well as by the active chain. `RuleFiles` are the combinations of the seven rules a
project's file may hold, beside the two of plugins; all seven at once only
multiply orders that the combinations already contain. `Toggled` names the rule
whose switch is used. There is no bound on the length of `todo`: that it is
bounded is what `ChainsEnd` and `NestingBounded` say.

In `session`, `RunIterations` is 1 (the manifest allows up to 3): more rounds of
`run` repeat the same command on a project in which it finds nothing ready.
`Prompts`, `Manifests`, `Reports`, `ChangedRoots` and `ForcedPhases` hold one
member for each way the code takes; `InitialContexts` is the project without
`project_context.md`, since a context with the default application code does not
resolve and stops every startup; `OperatorStates` is the one state that
reopens the dispatch; of the failures of reading commands (`ReadFailures`,
`PingFailures`) one of each kind is enough, since the handlers treat the others
alike. Retries have the code's own bounds.

In `platform`, `Installations` and `Activations` list machines and files in which
each branch of discovery, validation, selection, resolution and layering is
taken; `Toggled` is the plugin that is switched on and off, any number of times,
and `Requests` are the ways a task comes by a capability: its own for AI, its
general one, and that of the worker.

**Fairness.** Liveness is stated for what the process does by itself, and for
nothing anybody decides. `RunTerminates` assumes weak fairness of `RunStep`,
`ChainsEnd` and `FlowsEnd` of `Proceed`, `StartsSettle` of `Start`, of
`Unloading`, and of a provider's answer. All are justified by the code being
straight-line in one thread: a step is enabled until it is taken, and nothing
else of the process runs meanwhile; of workers, providers and plugins it is
assumed that they return or raise, of a command that it ends or is killed at its
time-out. Starting, cancelling, killing, decisions and edits are under no
fairness. No deadlock is possible except in `file_writes`, where a kill can leave
a torn file which no command can load; there deadlock is not checked.

## Where documents and code disagree

Shown by a run:

- `approval`: `design/006_STATE_MACHINE.md:312` allows no transition to
  executing without recorded approval. A task left in flight by a kill makes the
  next reconciliation go there.
- `transition_record`: 006:221 calls a transition atomic and 006:321 recorded. A
  kill between the two writes leaves one without a record.
- `two_commands`: 006:214 requires the project to occupy the source state. A
  command checks the copy it loaded.
- `completed_early`: 006:47 calls a project completed whose objectives are met, and
  `docs/SPRINT_4_SUMMARY.md:128` one with all tasks done. One completed workflow is
  enough, and the ready tasks of the others then wait for a human.
- `implement_gate`: `main/docs/VESPAWD_BRIDGE_SPEC.md:627` forbids to implement
  while the project awaits approval. The pattern that reads the state never
  matches, so the gate does not know it.
- `completion_resumable`: VESPAWD_BRIDGE_SPEC.md:39 promises operations
  idempotent enough to resume. A completion whose first attempt had its effect
  is refused, and its close-out never happens.

Met while modelling, and not given a run of their own:

- 006:349 has the runtime promote a project from planning to executing before it
  assigns a task. The table refuses that transition and the dispatcher goes on,
  so the approval or failure of such a task cannot reach its state either.
- `rt/dispatch/runner.py:21` has a run go on "until idle, blocked, or cancelled". Its
  task limit ends it as well, which the summary does not record: the reporter prints
  idle, with tasks ready.
- `design/005_AUTOMATION.md:115` has `automation enable` write an override. It also
  writes the project's own rules out of the file.
- `design/010_PLUGINS.md:60` gives the status failed for errors of loading. An
  import that raises is not caught and crashes every command, that of `plugins
  disable` too.
- `design/003_RUNTIME.md:467` says that automation never bypasses gates; a
  `transition_state` action may take awaiting_approval to executing. The depth
  limit of automation starts again at zero with every event the engine
  publishes, so that only the active chain ends a chain of rules. A worker a rule
  names is taken even while it works.
- 010:196 says that affected plugins fail when a resolution does; all selected ones
  do. Disabling the last plugin of an allow-list empties it,
  which selects all others. `shutdown()`, which 010:58 has unload the plugins, is
  called by no command.
- `design/018_AI_WORKERS.md:237` has what a provider raises go on to the dispatcher;
  018:111 and 018:249 have the worker try the next provider, which is what the code
  does (`rt/workers/ai_worker.py:170`) and `FallbackExhaustive` states.
- A section of the project's configuration that is present resets the keys it
  does not mention to the defaults.
- A `vedaws run` killed by the bridge's time-out leaves its task running; the
  second attempt finds nothing ready and exits 0. `pre_documenter` drops the
  codes of the synchronisation it makes. A synchronisation erases the blockers
  in the notes that a gate wrote.
- Two phases with the same goal on the same day share one log; the handoff keeps
  the sections and the date of the first close-out, and is stale 48 hours later.
- BRIDGE_IMPLEMENTATION_SPEC.md:795 forbids to retry `post_phase_complete`
  automatically; the adapter retries its command.
- The default project context names `main/src/` as application code, resolved
  below another root, so that a startup after a prompt that wrote the context is
  refused.

The passing properties are stated around these: `GateNeedsDecision` excepts
stranded tasks, `FailureHalts` the states from which `failed` is out of reach,
`EndingTruthful` runs with their task limit used up,
`WorkersNotShared` rules that name workers, `SettledStatus` the documenter's gate,
`ToggleScoped` an allow-list that appears or disappears: disabling a plugin where
there is no allow-list says nothing about the others.

## What is proved

Everything below holds for all values of the constants that satisfy the named
assumptions. Those are: a task belongs to a workflow, a dependency is looked up
in the task's own workflow, approvals concern tasks (`WorkflowProgress`); `NoTask`
is none (`WorkflowEngine`); the limits of a run are numbers, of which the loop
makes at least one cycle (`RunUntilIdle`); plugins are finitely many numbers, and
the manifests of a machine are of these plugins, have a place each and list what
they need, and an activation file is missing or two lists (`PluginPlatform`); AI providers are
finitely many numbers with a priority each, and a route lists identifiers
(`AIRouting`, `PlatformRuntime`); rules are listed in an order, a rule has a list
of actions, each of which names a task and a worker of the project or is one that fails
before it changes anything, the file's rules are not those of plugins, the depth
limit is a number, workers are listed in an order and support tasks, and tasks
are finitely many (`AutomationRules`, `Automation`); the workflow of an ingested
prompt is one of the project's, commands that only read fail with a blocking
code, and a manifest file is missing, unreadable or read (`BridgeSession`). Two
groups of theorems say in their own hypothesis what else they need: `OneAtATime`
and `EnoughCycles`, below.

`WorkflowProgressProofs` has the lemmas about the pure operators, around one
notion: `Consistent(ts, ws)`, progress the engine may hold. `ActivationConsistent`,
`OutcomeConsistent` and `HandoverConsistent` say that activation, an outcome and
the marks of a dispatch keep it, `ReleasedMeansRecorded`, `StatusAgrees` and
`RefreshStable` what it implies. `CliProcesses` and the core share them.

`WorkflowEngineProofs` proves the seven properties of `engine_core`:

- `TypeCorrect`, `DependenciesRespected`, `StatusTruthful`, `LoadIsHarmless`;
- `Refinement`: `WorkflowEngine` implements `TaskLifecycle`;
- `GateHolds` and `FailureHaltsProject`, two action properties;

and `SyncIdempotent`, the reason why the dispatcher's second reconciliation
needs no action of its own. They rest on one inductive invariant, `IInv`. None of
the properties is inductive alone. That a released task keeps its dependencies
needs that readiness is settled after every command (`Settled`) and that
activation rewrites only tasks of a workflow nobody has started (`Fresh`,
`Derived`). That a worker's outcome is recorded for a task whose dependencies are
recorded needs that a dispatch still owns the task it prepared (`Owned`). That a
failure reaches `failed` needs that a running dispatch stands in planning or
executing (`Promoted`). `Empty` covers workflows without tasks, for which no
status is ever derived.

`RunUntilIdleProofs` proves `RunImplementsEngine`: a run, with the commands
between runs and the kills, makes only steps of `WorkflowEngine`, so that all of
the above holds of it; then `RunTypeCorrect` and `RunEndingTruthful`. The
invariant adds to `IInv` that the counters stay within the limits, which is
checked in four places of the loop (`Within`), and how a dispatch in hand goes
with the list of tasks still on offer (`Waiting`).

`NoWorkLeft` is `NoServedTaskLeft`, for finitely many tasks and at least as many
cycles (`EnoughCycles`; the loop allows 1000 unless its caller says otherwise). It
rests on `CyclesProgress`: as long as a cycle has recorded nothing, every ready task
is on offer still, has no worker, or was refused by the project state
(`Accounted`), and then everything is refused until the run ends; otherwise each
cycle has recorded a task (`Counted`, `Backed`). Without the hypothesis the property
is false: the run may be cut off by its bound, which TLC shows with `MaxCycles = 1`.

`CliProcessesProofs` proves `CliTypeCorrect` and `ProgressAlwaysConsistent` for any
number of processes that overlap and are killed anywhere. TLC checks one process
at a time; the theorem shows that what concurrent commands lose are updates, not
the consistency of the progress file. The invariant (`CliIInv`) says that every
copy and every write outstanding is consistent by itself, so it does not matter
which comes last.

The other three properties are false of commands that overlap, and are proved for
one at a time, under `OneAtATime`: all processes are the same one. They are
`StatesByTheTable`, `HaltsComeFirst` and `FilesImplementLifecycle`. The invariant
(`Alone`) says that what a command still has to write takes the files, one write
after the other, to the copy in its memory (`Leads`), where every write is one the
table and the life cycle allow (`Shown`); lemmas show this of the writes of each
kind of command, so that it does not matter where one is killed. A human may
complete a project without a completed workflow, so the last two writes, those of a
decision, are excepted from this (`Ends`).

`AutomationProofs` proves the six safety properties of `automation`, and that it
implements `TaskLifecycle`:

- `AutomationTyped`, `RulesNestBounded`, `CommandsSettle`, `WorkersKeptApart`,
  `CyclesAreReported`;
- `AutomationImplementsLifecycle`.

Any number of rules may interrupt a command in the middle, each with commands of
its own, so the call stack has no fixed forms that an invariant could list. `AInv`
therefore says how the steps on it stand to each other and to the state. What is
out of order in the state is a duty (`Due`): a workflow whose derived status is
behind its tasks, a file behind memory, an outcome not recorded, a task or a
worker somebody has taken, a rule on the chain. For every duty there is a step on
the stack that sees to it (`Pays`), and a step that is going to bring disorder
(`Needs`) has such a step behind it before it does (`Ordered`). Since what
interrupts is put in front of what it interrupts, and brings its own payers, this
survives every interruption; with an empty stack there is no duty left, which is
`SettledTruthful`. The other half says that interruptions leave alone what the
interrupted steps rely on: every step finds its task and its worker as it was
left for it (`Fits`, `Holds`), and no two steps are about to work on the same
(`Apart`, `WorkApart`) or end rules in the wrong order (`EndsApart`). That a task
overtaken during `ensure_executing` is not run twice needs that `mark_dispatched`
asks for its status again (`Assign`): lemma `AssignKeeps` uses it.
`CycleReported` is about rules alone: the walk of the doctor counts visited
events, and what a rule on a circle publishes is visited twice.

`ExecutorSessionProofs` proves `SessionTyped`, `IdleIsLogged`, `StatusSettles` and
`SessionImplementsPhases`, the refinement of `PhaseProtocol`, for every project,
manifest, prompt and report, and with commands failing, timing out and being
repeated, and kills, at every point. The invariant `SInv` is again about the steps
outstanding. `Layered`: the steps of a bridge operation are in front, its answer
last of them, and those of the orchestration follow, so that an operation that
gives up or is killed takes only its own steps with it. `Promised`: a close-out
still to come is of a phase that is recorded already, or whose completion is
still outstanding, or has failed, and then the session knows. `Checked`: what
reads the record follows the command at once. `Closes`: a close-out is of the
goal in the file and logs it before the task is set idle. `Synced`, `Projected`:
the status is written right before the answer, with nothing in between that could
make it false. `Executes`: only the step in front runs a task.

`PluginPlatformProofs` proves `TypeCorrect`, `DependenciesOrdered`,
`RingsAreRefused`, `HandlersServe`, `LoadsAndUnloadsPaired` and `TogglesScoped`.
The order of loading rests on what the search keeps at each of its steps
(`SearchInv`): the calls of `visit` that have not returned are of different plugins
and each is for a dependency of the one before (`Nested`); the marks say where a
plugin stands, and none is forgotten (`Marked`); what a call has taken up is
done, but for the dependency it waits for (`TakenUp`); the order so far holds each
plugin once, after all it needs (`Ordered`). Hence a plugin met while it is visited
closes a ring of calls (`RingIsCircular`), and an order that is complete has none: of
the plugins of a ring the first in the order would come after another one
(`ExhaustedInTurn`, by the least-number principle). That the search ends
is left to `StartsSettle`. The rest of the strengthening says which statuses go with
an instance (`Living`), that plugins outside the registry never get a status
(`Absent`), and that the plugins still to be loaded are in turn (`Queued`). `TogglesScoped` follows from the types alone, for every pair of
activation files and every installation: which of the two files decides the
allow-list, before and after, is the whole case distinction.
`PlatformRuntimeProofs` carries them over to the runtime with its
AI work (`RuntimeImplementsPlatform`, `RuntimeSafe`), and proves `FallbackAsksAll`
and `ValidatedFirst` of the tasks at work, for all providers, priorities and
routes. That needs what `ResolveChain` returns for every configuration
(`ChainResolved`): each capable provider once, the configured ones first, a fitting
preferred one at the head. The chain is defined by positions (`InOrder`, `Usable`),
and that an order of the providers exists is shown by the least-number principle
(`LeastNumber`, `Sortable`), which follows from the well-foundedness of the natural
numbers in the library. The invariant (`Working`) is that what a task has asked and
what it has left make up the chain of the registry as it was when the task began,
and is now.

Only model-checked: the liveness properties (`RunTerminates`, `ChainsEnd`,
`FlowsEnd`, `StartsSettle`), which with fairness are out of the prover's reach, and
the runs that expect a violation. Every safety invariant and action property that
a passing run checks is proved.

## Not modelled

- The doctor, the status command and the reporters: read-only. To the bridge the
  doctor passes or fails; the validators behind it for automation and AI are
  modelled.
- Parsing of Markdown, TOML and command output beyond what a parser finds or
  misses; the allow-list of command lines, which every command the bridge builds
  is on; wording of warnings, notes and hints.
- Logging, the console, the template scripts (`scripts/`): run once by a person,
  no state is shared.
- The plugins of the repository (git, software, unity): to the core a worker is
  its outcome.
- Failing file operations, and two processes in the middle of writing one file.
- Automation inside a run loop, and a session whose runtime has automation rules:
  each is checked on its own, against the core.
