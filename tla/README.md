# Verification of valyria

TLA+ models of the parts of valyria that move under concurrency, failure and restart,
TLC runs over small instances of them, and TLAPS proofs of the properties that matter
most for every instance. Everything is translated from the sources under `src/`; line
numbers below are lines of those files (`state.rs:82` is
`src/crates/valyria-types/src/state.rs`, line 82, and so on).

1. [The system](#1-the-system)
2. [Modules](#2-modules)
3. [Runs](#3-runs)
4. [Proofs](#4-proofs)
5. [Divergences between the code and what it says](#5-divergences-between-the-code-and-what-it-says)
6. [What is not modelled](#6-what-is-not-modelled)
7. [Plan](#7-plan)

## 1. The system

valyria is a local coding agent. A client starts a *task* with a goal; a *driver* takes
the task through a state machine, one model completion and one tool call at a time, until
it completes, fails, is cancelled or waits for the user. Everything a task does is kept in
one SQLite database per workspace, so that another process can carry on after a kill. The
models it talks to are local servers the runtime installs, starts and stops; what it tells
them comes from an index of the repository, fitted into the model's window.

### 1.1 Inventory

| component (crate) | state | operations | who touches it | what is hard | what makes it correct |
|---|---|---|---|---|---|
| agent states (`valyria-types`) | none: a table | `can_transition_to`, `is_terminal` | every transition | universal and dynamic edges on top of the domain table; resume only to `paused_from` | terminal states are final, a resume is exact |
| tasks (`valyria-task`) | `tasks` row: state, `paused_from`, `pending_signal`; `task_journal` | create, transition, request pause/cancel/redirect/compact, recover, journal lookups | drivers, clients, the daemon at start, several processes at once | read and UPDATE in two store calls; signals cleared by every move; the journal is all a new process knows | legal moves only, requests survive, the journal says what to do next |
| driver (`valyria-agent/driver.rs`) | `verify_states`, the live tokens | run, step per state, observe tool result, resolve permission, respond, rebuild the conversation | runtime, task manager, tools, models, verify | effects before journal entries; guesses from caches; recovery from the journal | no step after cancel, an approval acts once, nothing that happened goes untold |
| verify-diagnose-repair (`driver.rs`, `repair.rs`, `loop_detect.rs`, `valyria-verify`) | plan, position, ledger of attempts, detector; rebuilt from the journal | verify one check, diagnose, repair, decide | driver, edit tools | termination; what survives a kill; a stale plan in a second process | bounded attempts, completion only on verified contents |
| plan execution (`plan_exec.rs`, `valyria-plan`) | plan revision, journaled step marks, children of a wave | submit, validate, start a step, run a wave, fold it, roll back | driver, ledger | replay after a kill in the middle of a step; waves folded entry by entry | steps run after their dependencies, once, within their budgets |
| event bus (`valyria-events`) | `events` table, broadcast channel, cursors | append, subscribe since, replay, receive | every component appends, clients read | insert and send are two steps; bounded channel; several processes | no gap, no duplicate, durability first |
| ledger (`valyria-ledger`) and checkpoints (`checkpoint.rs`) | baselines and change records in memory; blobs and checkpoints on disk | record a baseline, a write or a deletion; classify; take a checkpoint; roll back to one | file tools, driver, user edits from outside | external edits between two agent edits; hash read and file replaced in two steps; a restart empties the ledger | a rollback restores exactly or reports; it never overwrites the user |
| edits (`valyria-edit`, `valyria-vfs`) | files | apply one or several strategies atomically | tools | a failure in the middle of a set | all or nothing |
| permissions and tools (`valyria-permissions`, `valyria-tools`) | mode of the process, modes pinned to tasks, grants; journaled prompts | evaluate, approve once or for the task, deny, invoke | driver, several clients answering | answers that race each other and the next prompt; a restart forgets modes and grants | nothing runs unasked without a right to; an answer runs the call it names |
| model pool and routing (`valyria-orchestrator`, `valyria-app`) | residents and their sizes; the registry of servers; role bindings, routes | admit, evict, boot, activate, remove, point at an endpoint | boots at start side by side, clients | four structures with a lock each; room made before it is known to suffice | budget kept, a role routed to its own server, removed means gone |
| model store (`valyria-model-store`) | `.part`, weights and manifest files; bindings | install, resume, verify, probe, remove | several processes of one user | kill at any file operation; a server that lies; a shared part file | an installed model is whole |
| index (`valyria-index`, `-graph`, `-embed`, `-search`) | rows with the generation that wrote and that retired them; graphs and vectors per generation | scan, publish, prune, build, retrieve | pipelines in several processes, the agent's retrieval | many calls against one generation; the disk moves on | a generation never changes; what is derived fits it |
| context (`valyria-context`) | none | allocate, assemble | driver | rounding, floors and caps that share one window | the prompt fits, nothing is dropped needlessly |
| commands (`valyria-process`, `valyria-verify/run.rs`) | a process group, two pipes, a capped buffer each | spawn, drain, time out, cancel, kill, reap | verify, process tools | exit against deadline, full pipes, processes that escape | nothing of the group survives a kill, a pass is earned, `run` ends |
| language servers (`valyria-lsp`) | slots of the pool; per session a table of pending requests and two tasks | open, query, start, restart, shut down | no other crate yet | servers that hang, ask back, break off or die; a mutex held through a start | every call returns, an answer goes to its request, no process is leaked |
| memory, config, instructions, registry | rows and layers | rank, decay, resolve | driver, runtime | arithmetic at limits | not modelled, section 6 |
| store (`valyria-store`) | one connection, one thread | call | everything with a row | every call is atomic, a sequence of calls is not | see the callers |
| runtime, daemon, client, cli (`valyria-app`, `-protocol`, `-cli`) | live drivers, sockets | task.*, permission.*, model.*, events.* | users | several clients and a daemon over one workspace | see tasks, models and driver |

### 1.2 How the components interact

* Everything durable goes through `valyria_store::StoreHandle::call`: one writer thread per
  process, one closure per call, SQLite's own locking between processes. **A store call is
  the unit of atomicity of the models**: what one closure does is one action, what two calls
  do is two actions and anything may happen in between. Where files are the state
  (`ModelInstall`), a call of the file system is that unit.
* A driver is one tokio task (`runtime.rs:1825-1863`). It calls the task manager, the model
  router, the tool runtime and `valyria-verify`, and appends to the journal and the bus.
* Clients call the runtime from other tokio tasks, and, with the command line and the daemon
  over the same workspace, from other processes (`manager.rs:575-580` and
  `runtime.rs:699-701` describe exactly that).
* What a process keeps in memory (`verify_states`, permission modes and grants, the pool and
  the servers, the live channel) dies with it; rows, journal, events and files stay.

### 1.3 Hazards

PROJECT.json lists them with their lines. They fall into these groups: read-then-write over
two store calls (tasks, bindings); effects and their journal entries in two steps (approvals,
tool calls, decisions of the model); caches and answers that outlive what they describe
(`verify_states`, prompts, generations); requests that arrive while something is under way
(cancel, pause, append, activate); loops that must stop (repair, driver, a command's end);
files that change, or whose writer dies, between two steps (tools, rollback, installs); and
arithmetic at a limit (the output cap, the prompt's window, the pool's budget).

## 2. Modules

| module | models | lines of code it stands for |
|---|---|---|
| `AgentStates` | the state table | `state.rs` 13-123, `manager.rs` 19-31 |
| `TaskLifecycle` | one task's row, its last prompt, and every thread that may change them | `manager.rs`, `driver.rs`, `runtime.rs` |
| `RepairLoop` | the loop detector and the repair ledger, as pure operators | `loop_detect.rs`, `repair.rs` |
| `VerifyRepair` | the Verifying - Diagnosing - Repairing loop with journal replay | `driver.rs` 636-1460, `strategy.rs` |
| `PlanRules` | validation, dependency waves, schedule, conflict-free batches, as pure operators | `validate.rs`, `schedule.rs`, `plan_exec.rs` 943-958 and 1197-1223 |
| `TaskJournal` | what the driver reads back from a journal | `manager.rs` 444-564, `plan_exec.rs` 598-862, `driver.rs` 443-553 |
| `PlanSteps` | a task that works turn by turn or along a plan: planning, steps, waves of children, questions, prompts, kills | `plan_exec.rs`, `driver.rs` 282-622 and 1117-1381 |
| `ChangeLedger` | file tools, the ledger, checkpoints and rollback | `ledger.rs`, `checkpoint.rs`, `fs.rs`, `transaction.rs`, `plan_exec.rs` 643-664 and 879-914 |
| `Permissions` | the decision about one call, as pure operators | `policy.rs`, `rules.rs`, `grants.rs`, `engine.rs`, the tools' preflights |
| `ToolGate` | calls, prompts, answers, grants and modes of several tasks | `engine.rs`, `driver.rs` 1117-1342, `client.rs` 547-585, `runtime.rs` |
| `EventFeed`, `EventBus` | what a subscription promises (abstract), and append, broadcast, subscriptions | `bus.rs`, `client.rs` 977-999 |
| `ModelCatalog`, `ModelPool` | the models' ids; admission and eviction as pure operators | `pool.rs` 51-191 |
| `ModelInstall` | the files of a model and those who install it | `valyria-model-store/store.rs` 155-432, `runtime.rs` 1267-2088 |
| `ModelServing` | boots, activations, removals, endpoints over pool, registry, router and bindings | `runtime.rs`, `router.rs`, `model_runtimes.rs`, `db.rs` |
| `IndexStore` | the tables of the index, one transaction per publish or prune | `valyria-index/store.rs` |
| `KnowledgeIndex` | the pipelines, the graph, the vectors and a retrieval over them | `pipeline.rs`, `scan.rs`, `search.rs`, `runtime.rs` |
| `ContextAssembly` | budget allocation and prompt assembly | `budget.rs`, `compress.rs`, `assemble.rs` |
| `CommandRun` | one command run to its end | `runner.rs`, `output_cap.rs`, `valyria-verify/run.rs` 208-213 |
| `LanguageServers` | the pool of language servers and the sessions with them | `pool.rs`, `client.rs`, `server.rs` of `valyria-lsp` |
| `*_proofs` | theorems about the module they are named for; `PlanDecisions_proofs`, on top of `PlanSteps_proofs`, about the decisions of `PlanSteps`; `Processes_proofs` about `CommandRun` and `ModelServing`; `Services_proofs` about `EventBus`, `KnowledgeIndex`, `ContextAssembly` and `ToolGate` | |
| `MC*` | the instances TLC checks | |

`TaskLifecycle`, `VerifyRepair`, `PlanSteps` and `ToolGate` are four views of one driver, each
with what it needs of the others. `TaskLifecycle` has the row writes split into store calls and
every thread that contends for them, and keeps of a step only the state it asks for, its effect
on the prompt and on `verify_states` (`StepTargets`, `AskAfter`, `CacheAfter`). `VerifyRepair`
and `PlanSteps` have the steps themselves, on either side of Verifying, with kills between any
two journal entries and transitions in one piece. `ToolGate` has what stands between a step and
its tool. `ModelServing` composes `ModelPool` and `ModelInstall` over one set of models
(`ModelCatalog`), so a model can be removed while it is installed and activated.
`KnowledgeIndex` EXTENDS `IndexStore`, `PlanSteps` EXTENDS `PlanRules` and `TaskJournal`.

### 2.1 TaskLifecycle

A *thread* is a driver or a client call; `th[t].pc` is its place between two store calls.
`TaskManager::transition` is a subroutine of three actions, `TransitionRead` (get the row,
test the move), `TransitionWrite` (the UPDATE, keyed by id alone, which also clears
`pending_signal`) and `TransitionJournal` (append `StateChanged`); `Call(t, to, then)`
enters it and `then` is where it returns. A driver goes round `DriverTop` (one read; signal
before state), `DriverStep`/`DriverStay`/`DriverFault` (the outcome of one step) and ends in
`DriverError` and `DriverDone` (the tail of `spawn_driver`). A client call starts with one
of `RequestPause`, `RequestCancel`, `ResumeBegin`, `ResolveBegin`, `Respond` and runs on by
itself. `Crash(p)` kills a process: its threads and its map (`cached`) are gone, the row and
the prompt stay. `owed` is a history variable: a cancel was accepted and nothing has carried
it out.

Abstracted: the model's words, the tool calls (except that a prompt exists and how often its
call ran), the journal's entries, the bus, child tasks.

### 2.2 RepairLoop and VerifyRepair

`RepairLoop` is `LoopDetector` and `RepairLedger` as functions from a record and an
observation to a record and a finding, with the default thresholds of the code. In
`VerifyRepair` the journal is represented by `replay`, the value `reconstruct_verify_state`
folds it to: appending an entry applies that entry's arm of the fold, so "what a restarted
process knows" is `Fresh(replay)` and can be compared with what a process that never died
has in `vs[p]`. `disk` is the contents of the workspace, one of a set `Disks`; a check of
these contents passes or fails as it likes (flaky tests exist), and `verified` is a history
variable with the tiers that passed on the contents now on disk. The handlers are split at
their journal entries (`Diagnose`, `DecideRepair`, `ActOnDecision`; `RepairEdit`, `ToolRuns`,
`ToolResult`, `RecordAttempt`, `RepairDone`): a kill fits between any two.

Abstracted: commands and their output (a failing run is a fingerprint and a number of
failures; how a command ends is `CommandRun`), one command per tier, the text of prompts.
External (modelled from their use): the tool runtime and the model.

### 2.3 PlanRules, TaskJournal and PlanSteps

`PlanRules` computes what `validate.rs` and `schedule.rs` compute: the errors of a plan (cycles,
unknown dependencies, scope, roots, verification), its topological waves, the order of its steps
and the parallel group of each, and how `run_parallel_group` cuts a group into batches whose
targets do not overlap.

`TaskJournal` has one operator per journal lookup. An entry keeps its kind, the step it names,
the stored decision, the turn index and, for an outcome, the position of the call it ends (which
stands for the effect id). `Conversation` is `build_conversation`: which calls and questions the
model is told of, each with its outcome or its answer.

`PlanSteps` then is the driver as a machine with nothing but the journal and the plan store to
remember by; `at[t]` holds the locals of the handler that runs. With `--plan` a task asks for a
plan (`Propose`, `PlanAnswered`), judges it (`SavePlan`, `AcceptPlan`, `RejectPlan`) and walks it
step by step (`BeginStep` ... `FinishStep`) or wave by wave (`BeginWave`, `SpawnChild`,
`JoinChunk`, `Fold...`): the children of a wave are tasks of their own, with journals of their
own, and run the same actions. Without, it goes from turn to turn (`RequestTurn`,
`TurnAnswered`, `FinishTurns`) with the conversation the journal gives. Tool calls, prompts,
questions and faults are shared. `settings` is what a process is started with (`--plan`, the
permission mode) and may be other after a `Kill`.

Abstracted: a path is a file with its directory; what a plan's prose says; signals (they are
`TaskLifecycle`'s); what Verifying does (it is `VerifyRepair`'s).

### 2.4 EventBus and EventFeed

`Insert(a)` and `Send(a)` are the two halves of `append`; inserts are serialised by the store
actor (the rowid is the seq), sends are not ordered by anything. `InsertElsewhere` is another
process over the same database. A subscription goes through `SubscribeLive` (the receiver is
created first), `ReadBacklog`, `DeliverBacklog`, then `DeliverLive`/`SkipLive` (the filter on
`last_delivered`) and `Resubscribe` when the channel says it lagged; it may `Disconnect` and
come back with its cursor, and the process may `Restart`.

`EventFeed` is the promise: one sequence, each subscriber walks it in order from its cursor,
never back, and misses at most the *loose* events. `loose` is a history variable of the bus:
what another process appended, and what a later insert overtook between its own insert and
its send (`Insert`). Nothing else can be missed.

### 2.5 ChangeLedger

A tool call is three actions: `StartCall` or `StartMove` (baseline, read, precondition,
strategy), `Apply` (the atomic write, removal or rename; `ApplyFails` when the file is gone)
and `Record` (blob, entry, agent state; `RecordFails` when the blob store fails). The root task
and its children interleave as `run_parallel_group` lets them (`MayCall`). `TakeCheckpoint`
saves the hashes of the files changed so far and the length of the task's entries.
`StartRollback(k)`, then `ReadCurrent` and `RevertEntry` or `RefuseRollback` for each entry, then
`FinishRollback`: a client may ask for it whatever the task is doing, so the user and the tools
may come between hash and replacement. `UserEdit` is anybody else; `Restart` empties the ledger
and ends calls and rollback, but keeps files, blobs and checkpoints.

The history variables say what ought to be the case. `given` is, per checkpoint, the tree with
everything since that is no recorded change of the root task, and a restart changes nothing about it;
`older` is the number of checkpoints taken before the last restart, whose watermarks count in a
ledger that is gone; `own` what the user last put into
a file; `last` what the agent last left or found there. Three more name the exceptions: `loose`
(a file changed between somebody's read and the write that relies on it: the code has no guard
there), `unrecorded` (changed by a call whose record failed or was cut off) and `again` (set by
others to contents the task had itself produced: no hash can tell).

Abstracted: a hash is its contents (and `hash_cache` is never stale); the entries of a task are
a sequence of its own, not a filter of one vector; within one `rollback_entry` the write, the
entry and the state are one action, and so are the two records of a move.

### 2.6 Permissions and ToolGate

`Permissions` decides about one request (tool, category, action, risk, the input it is bound
to) given a mode and the grants: grants first, then the table of defaults. In `ToolGate` the
driver of a task issues a call (journaled, `issued`), the engine lets it run, refuses it or opens
a `prompt`; a client answers in the stages the code has - read the prompt, decide, run,
journal, move - with or without naming the prompt, once or "for the task" (a grant), and two
clients may be at it together. `mode`, `taskMode` and `grants` are in memory: `ProcessEnds` forgets the
last two, and the next process may run in another mode; prompts and calls are in the journal
and stay. History: `born` (the mode and process a task was created with), `allowed` (what the
user granted), `runs` (what ran, and why), `raced` (tasks two clients answered at once, or a kill
cut off).

Abstracted: path rules and the authorization value, which cannot outlive its call, are
represented by the decision they lead to; plan scope enters by `targets_in_plan_scope` being
always true, as every tool sets it.

### 2.7 ModelPool, ModelInstall and ModelServing

`ModelPool` is `admit`: residents in order of last use, victims picked from roles no more
important than the new one until there is room. `ModelServing` runs it inside boots of
`Runtime::open` (`Roles` are threads) and client requests (`Clients`): bind the row, admit, look
up the roles of each victim, take each down, boot, register, swap - one action per lock taken.
`BindSingle` overwrites the runtime of an *id*, as the router does. Activating the endpoint stops
the role's server first (`StopForEndpoint`) and points the role at the endpoint after
(`PointAtEndpoint`), unless `endpoint_runtime` fails in between (`EndpointFails`). A removal
unlinks the files of a model one by one in any order (`DeleteFiles`, by `UnlinkFile` and
`RemoveDir`), may fail at each (`DeleteFails`), and clears the rows only when the directory is
gone. `raced`, `shared` and `unaccounted` are the exceptions of its properties, each the name of a
way the code really goes wrong (section 5). The six openings of the run are what `Runtime::open`
finds: boots side by side, boots that do not all fit, a coder elsewhere, and an endpoint or less
with models still to be installed.

`ModelInstall` has the files of a model by name and by content: create or append to `.part`,
request the rest (the server may refuse ranges, lie about the length, send wrong chunks or stop),
hash, rename, probe, write the manifest. An installer that was killed leaves its files; an open
file follows its directory entry (`Moved`). A model that does not load is unlinked in the same
way. `contested` are models two installers, or an installer and a removal, worked on at once;
`cut` are those whose last removal broke off.

### 2.8 IndexStore and KnowledgeIndex

A row says which generation wrote it and which retired it. `Publish` is `apply_generation`, one
transaction: add, modify, retire, record the generation with its stage; `Kept` is what a prune
leaves: rows that did not end before a generation. A pipeline of `KnowledgeIndex` reads the files
one at a time while they are edited, publishes, and then builds the graph and the vectors by
several reads of one generation. A retrieval takes the current generation and reads file, facts
and the bytes on disk one after the other. Kills fall between any two.

Abstracted: symbols, imports, calls and tests are one table of facts, a fact is a function of
the content it was extracted from; ranking, fusion and vectors themselves are numeric.

### 2.9 ContextAssembly

`Allocate` is `allocate` (floors, ideals, maxima by priority), `PlaceNext`, `DropNext` and
`PolicyDoesNotFit` are the loop of `assemble`, one candidate at a time, each at the highest
fidelity that fits. A text is the sequence of its lines' token counts; a source file has the
counts of its symbols at each fidelity, each a token at least, as each ends its line, and that of
its reference, the line of all its symbols' names, which may be longer than its symbols.
`AssemblyConstants` says what a budget and a candidate are: a section's maximum is not below its
ideal, as in every budget the code makes, and two candidates of a section differ in relevance or
label. Abstracted: counts add up, where `TokenCounter` rounds a joined text up once.

### 2.10 CommandRun

`run` is `Spawn`, the supervisor's poll (cancel, exit, deadline, idle deadline, in the order of
the code), `Kill` of the group, `Reap` under its grace period, and the two joins. Beside it run
two drains, one per pipe, each with its `CappedOutput`; the child and what it forks write, block
on a full pipe, close it, leave the group and exit as they like. A byte is its position in its
stream, so a captured output says which bytes were kept.

### 2.11 LanguageServers

A caller holds the pool's mutex (`lock`) from `UsesRunning`, `DoesWithout` or `Spawn` to the end
of what it does there: `Spawn` keeps it until `Ready` (the slot is filled) or `Reap` (the failed
start is remembered). A request is `Request` (an id and a sender in the table), `Send`, and then
`Receive` or `TimesOut`; `Writes` is the writer task, `Dispatch` and `ReaderEnds` the reader
task, and the three share the table and the queue. The server is external: it reads what was
written, answers in any order or never, asks and waits, breaks the framing, or exits. `faults`
counts how often servers did the last three, for the bound.

Abstracted: positions, documents, cached diagnostics, the parsing of answers.

## 3. Runs

| run | module | asks | bounds |
|---|---|---|---|
| `LifecycleSafety` | `MCTaskLifecycle` | paused tasks can be resumed; prompts, approvals; cancels survive recovery and resume and are carried out | 1 process, 1 driver, 2 clients, 8 requests, 2 kills, fairness |
| `RepairLoop` | `MCVerifyRepair` | the budget is kept, conclusions are about the contents on disk, the loop stops | 1 process, 2 contents, 1 fingerprint, budget 3, 1 answer, 1 hand-over, 1 kill, fairness |
| `BusDelivery` | `MCEventBus` | the bus implements `EventFeed`; delivery | 2 appenders, 1 foreign, 1 subscriber, capacity 2, 4 events, 2 disconnects or restarts, fairness |
| `LedgerSafety` | `MCChangeLedger` | rollback by the process that took the checkpoint undoes what the task recorded and nothing else; no work of the user is lost; files are classified truly | 2 files, 2 contents, a task and two children, 2 calls, 1 checkpoint, 2 rollbacks, 1 edit, 1 failing record, 1 restart |
| `PlanExecution` | `MCPlanSteps` | dependencies, no repeated work, budgets, decisions, conversation | 4 plans, 2 children, 3 turns without a plan, 2 turns a step, 2 rejections, 2 answers, 1 kill |
| `ToolGate` | `MCToolGate` | nothing unasked; answers fit their prompts | 2 tasks, 2 clients, 4 requests, 2 calls, 2 answers, 1 kill |
| `ModelServing` | `MCModelServing` | routing, pool, removals file by file, whole installs | 3 roles, 4 models, 1 endpoint, 2 clients, 2 installers, 6 ways a process opens |
| `KnowledgeIndex` | `MCKnowledgeIndex` | stable generations, exact syncs, graphs and bodies | 2 pipelines, 2 files, 2 contents, 3 workloads of up to 3 jobs |
| `ContextAssembly` | `MCContextAssembly` | allocation, budget, no needless drop | every subset of 9 candidates, 3 budgets, 3 overheads |
| `CommandRun` | `MCCommandRun` | kill, verdict, output, end | 1 forked process, 3 commands, cap and pipe 2, 4 bytes a stream, fairness |
| `LanguageServers` | `MCLanguageServers` | table and answers, cap, orphans, questions of the server; every call returns | 2 callers, 2 languages, 1 slot, 2 calls, 2 sessions, 1 fault of a server, fairness |
| `QuestionRepeats` | `MCPlanSteps` | does an answer reach the model? Refuted | 2 answers, no kill |

Five more configurations belong to no run; each states one sentence of the repository, and TLC
answers with a trace of the code breaking it (section 5):

| cfg | module | property | bounds |
|---|---|---|---|
| `TerminalOverwritten` | `MCTaskLifecycle` | `TerminalIsFinal`: a terminal state is final | 1 driver, 1 request (a resume, while the driver works), no kill |
| `EventOvertaken` | `MCEventBus` | `NoEventMissed`: a subscription has no gaps | 2 appenders of one process, 2 events, no restart |
| `RollbackAfterRestart` | `MCChangeLedger` | `RestoredExactly`: a rollback restores exactly | 1 task, 1 call, 1 checkpoint, 1 restart, nobody else |
| `RefusedHalfWay` | `MCChangeLedger` | `RefusalLeavesTree`: a refused rollback changes nothing | 1 task, 2 calls, 1 edit, no restart |
| `RemovalBrokenOff` | `MCModelServing` | `ManifestIsTruth`: a manifest stands for whole weights | those of `ModelServing` |

**Bounds.** The lifecycle needs two requests beyond those that build up a situation (pause or
fail, recover, then the contested call); eight reach every combination of three full
request-and-answer rounds, and two kills reach a kill during the recovery from a kill.
`Contended` says which requests may be made while another thread works on the task: in
`LifecycleSafety` pause and cancel, which only set a column. `TerminalOverwritten` has
a resume instead, and finds the table broken. `PausedCanResume` is proved for any `Contended`.
The repair loop's thresholds are 3 (repeats, failures, stalls), so a budget of three attempts
reaches every decision, escalation, switch and give-up; two contents allow an edit that changes
something, one that does not and an oscillation; a second fingerprint would only put off what
the detectors find. The bus needs three sent events to lag behind a channel of two and a fourth
to arrive while the subscriber comes back; two restarts allow one during a re-subscription. The
ledger needs two calls for an edit between two of the agent's (or one each by the task and its
child), two files for a move and for an untouched neighbour, two rollbacks for one that walks
over the entries of another. The four plans are a chain that leaves its scope, a parallel pair,
a pair on one file and a cycle: every arm of the validation that depends on more than one step,
and every kind of group; three turns allow a call cut off by a kill between two model calls, two
answers a question answered twice. Two tasks and two clients are what it takes for an answer to
meet another task's grant or another client's answer. Of the three sized models any two but the
largest pair fit the pool, so admissions that evict, that fail and that just fit all occur; two
chunks allow a part file that is empty, half and whole. Two pipelines can publish over each
other, and one kill can fall between the two stages of a bootstrap. The nine candidates have
every section, trust and kind, and a budget at which floors bite; their sizes are those of real
items. Four bytes over a cap of two fill head and tail and elide; a pipe of two blocks a writer
of three. Files, contents, tasks, clients and paths are symmetric where a cfg says so: nothing
but equality is asked of them.

**Deadlock** is not checked: in all of them a task, a log, a ledger or a command may rest for
good (a completed task, a drained feed), and a bounded number of requests runs out.

**Fairness.** All of it is weak. `LifecycleSafety`: a spawned driver and a begun runtime call are
tokio tasks and are polled; the store actor answers every call. Nobody owes a request, and no
kill is owed. `RepairLoop`: the driver's step, whose checks and models end by timeout; no pause,
answer or resume is assumed (`FairSpec` spells the weak fairness out, because a step is possible
exactly while a process drives). `BusDelivery`: an append runs to its end once inserted (the future
is not dropped in between by its callers), and a connected stream is polled; no client owes a
connection. `CommandRun`: the supervisor and the drains are polled, the clock goes on, a process
that was sent SIGKILL dies, and the command writes what it has to write and then exits unless
it hangs; what it forked owes nothing. `LanguageServers`: callers are polled
and deadlines pass; servers owe nothing, and even the two tasks of a session may be late.

**What the properties say.**

* `PausedCanResume`: though `transition` tests a row it read before and overwrites what is there by
  then, a paused row always remembers a state a resume may go to. That the row moves only along
  the table is not true of the code (`TerminalOverwritten`).
* `ApprovedCallRunsOnce`, `OnlyStaleCacheBlocks`: each relates two things kept in two places, and
  has one exception the code really has, stated in the property (kills between execution and
  TOOL_RESULT; a cache that outlives its phase).
* `NoStepAfterCancel`, `ResumeHonoursCancel`: a cancel is never lost by the two transitions
  recovery and resume make, both of which clear `pending_signal`.
* `AttemptsBounded`: the budget survives kills (up to one attempt each). Its proof goes through
  `LedgerIsDurable`: the ledger in force is the one the journal holds.
* `VerifiedCompletion`, `DiagnosisIsCurrent`: what the task concludes is about the contents on
  disk.
* `ComesToRest`: verify, diagnose, repair does not go round for ever.
* `GapFree` (the refinement of `EventFeed`), `EventuallyDelivered`: section 2.4.
* `RestoredInProcess`: after a rollback that reports success the tree is the one of the checkpoint
  with everybody else's changes since, also when the user edited between two changes of the
  task and when an earlier rollback was refused half-way, if the checkpoint is one of the process
  that rolls back. Of older ones the same is claimed (`RestoredExactly`) and refuted.
  `RevertsOwnWork`, `UserWorkSurvives`: the user's work is never what a rollback replaces, and
  whatever calls replace of it is in the blob store. `ClassifiesTruly`: "changed by somebody
  else" is said exactly of files somebody else changed.
* `WorkInOrder`, `BudgetsSurviveKills`: waves, parallel children,
  kills and resumes keep the order the plan was validated for, never redo a finished step, and
  never ask the model more often than the budgets and the kills allow.
* `DecisionsTakeEffect`: what the model decided is done before anything else is asked of it, and
  once; the exceptions are the three ways in which a kill really drops a decision.
* `NothingUntold`: the conversation a turn is built from leaves no call without its outcome and no
  question without its answer. `driver.rs:412-419` argues for it; the property has the one
  case the argument misses (a prompt whose task was killed before it waited).
* `UnaskedByRight`, `AnswersFitPrompts`: section 2.6.
* `RoutedToItsServer`, `PoolAccounts`, `RemovedIsGone`, `InstalledIsWhole`: what
  the structures of section 2.7 say of each other whenever nothing is under way. A removal that
  broke off half-way is an exception of the last two (`cut`), until the model is installed or
  removed again: `ManifestIsTruth` is without it, and refuted.
* `SnapshotStable`, `SyncMatchesScan`, `ReadsAreExact`: a generation
  answers the same as long as it is known; a full sync equals its scan over whatever was
  published meanwhile; a graph is that of its generation; an offered body is exact while the
  file is still the indexed one.
* `AllocationByPriority` compares `allocate` with the definition its doc gives;
  `PromptFillsBudget` is the two promises of `assemble`: nothing over the budget, nothing dropped
  that would fit in what is left at the end. A source cut between two symbols is excepted: the note
  about those left out is not counted while `render_source` chooses, so a file that overran the
  room it was given may keep fewer symbols, and fit, in the smaller room left later. The sixth
  candidate of `MCContextAssembly` is such a file.
* `NoGroupSurvives`, `PassIsEarned`, `OutputIsFaithful`, `RunEnds`: section 2.10; `Held` is the
  exception of the last, a process out of the kill's reach that has a pipe open.
* `AnswersFindTheirWaiters`, `CapHolds`, `NoOrphans`, `AskIsAnswered`: what table, queue, slots
  and processes say of each other at every step of a start, a timeout, a crash and a shutdown.
  `EveryCallReturns`: no server, dead, hanging or blocked, holds a caller, nor, through the
  mutex, those of other languages.

Each property has a mutant in PROJECT.json: a plausible slip in the code (a "faulty variant"
next to the definition it stands for) that TLC finds out by this very property. Type
invariants are not among the runs' properties: they are proved.

## 4. Proofs

For every value of the constants, with TLAPS:

| theorem | says | argument |
|---|---|---|
| `TaskLifecycle_proofs!TypeCorrect` | `Spec => []TypeOK` | inductive as it stands |
| `TaskLifecycle_proofs!PausedCanAlwaysResume` | `Spec => []PausedCanResume`, with any number of processes, drivers, clients, all of them contending | strengthened by `WriteIsLegal`: a thread about to UPDATE holds a legal move of the row *as it read it*; so `paused_from` is legal whatever the row has become |
| `TaskLifecycle_proofs!ApprovalsRunOnce` | `Spec => []ApprovedCallRunsOnce`, when `Contended` holds only pause and cancel | `AtMostOne` thread is at work on the task. `CallsCounted`: whoever is about to run the call, or has run it and not recorded it, finds the prompt open; an open prompt outside that interval means that every run so far died with its process |
| `TaskLifecycle_proofs!OnlyStaleCachesBlock` | `Spec => []OnlyStaleCacheBlocks`, same hypothesis | `ReadIsCurrent`: what the one thread read is what is there. `AnswerInv`: a step sees the state the row has (`StepsInState`), an answer in hand finds its task waiting (`AnswersAWaiting`), nobody but a resume moves a task into its wait without a prompt (`PromptFirst`), and a wait without one is being ended or some map is stale (`WaitsForSomething`) |
| `TaskLifecycle_proofs!NoStepFollowsCancel` | `Spec => NoStepAfterCancel`, same hypothesis | `CancelCarried`: an accepted cancel is `pending_signal` of the row whenever nobody works, and otherwise in the row, in the hands of the thread that will write it back after its transition has cleared it, or about to be obeyed |
| `VerifyRepair_proofs!TypeCorrect` | `Spec => []TypeOK` | inductive, with typing lemmas for the operators of `RepairLoop` |
| `VerifyRepair_proofs!RepairBounded` | `AttemptsBounded` and `LedgerIsDurable` for one process, any budget and any number of kills, answers and pauses | `LedgerAgrees`: cached and replayed ledger are equal at the loop head and differ by exactly the pending mark elsewhere; `Budget`: in Repairing there is room for one more attempt, or a kill has been paid for it |
| `VerifyRepair_proofs!CompletionIsVerified` | `Spec => VerifiedCompletion` for one process | `StepsOfStates`: which loop positions belong to which state; `PlanIsCurrent`: a plan none of whose checks failed is one in progress, covers every tier of the contents on disk but the gates (`PlanCovers`), and its executed checks passed on them (`PassedSoFar`) |
| `VerifyRepair_proofs!DiagnosesAreCurrent` | `Spec => DiagnosisIsCurrent` for one process | `FailedPlanIsDropped`: a repair that has changed the disk leaves no plan behind, so without an answer a failed plan is never verified again |
| `PlanSteps_proofs!RecordsAreWellFormed` | `Spec => []Shaped`, with any plans, decisions, children, answers and kills | `Shaped`: every variable has its type, and per task the state, the position, the locals, the journal and the stored plan fit (`ShapeOf`): a handler works on a step of the stored plan, a wave's rest is non-empty chunks of one wave of it, its children are created in order and are its own. Every action is first shown to be one task's step or a step with the birth of a child (`Becomes`, `Spawns`) |
| `PlanSteps_proofs!WorkIsDoneInOrder` | `Spec => []WorkInOrder` | `Ordered`: what is journaled stands for completed dependencies, the step in hand is ready and incomplete, and the rest of a wave is ready, incomplete and without repetition (`Apart`). It rests on what the functions of `PlanRules` return for every plan, proved by `Counting`: waves place a step after its dependencies and once (`RootWaves`), `next_incomplete` is then ready (`NextStepReady`), the rest of a parallel group is ready and, cut into conflict-free batches and chunks, still has every step once (`TodoIs`) |
| `PlanSteps_proofs!BudgetsAreKept` | `Spec => []BudgetsSurviveKills` | `Budgeted`: a call for a plan is paid for by the rejection it led to or by the kill that cut it off, and one may be on its way (`PlanningBudget`); a step has one worker and one more per kill, and has had one less while it waits for its next (`WorkBudget`), which needs that a step the task itself asked for has its group to itself (`Alone`), so no wave takes it later; a task's calls for a step all follow its start and fit in one budget (`CallsOf`). The property counts pairs of task and call: workers times turns (`PairsCounted`) |
| `PlanDecisions_proofs!DecisionsAreKept` | `Spec => []DecisionsTakeEffect`, with any decisions, plans, children, answers and kills | `Faithful`, in two halves. `Recorded`: what a journal says by itself, whoever wrote it: a prompt, or a decision of a turn, is followed by what was made of it or by the note of a resume (`Seamless`); every call but the last has an outcome, was issued again, or was cut off at its prompt (`CallsSettled`); at most one decision is open, and what was called since is its call, once more for every note (`Pursued`). And where a task stands: whose last entry asks for a reaction (`Poised`), with no call under way (`Calm`), with a decision open (`Minded`). A decision is then superseded only from positions at which it has taken effect (`Closed`) |
| `PlanDecisions_proofs!ConversationsAreComplete` | `Spec => []NothingUntold` | the same invariant, with `AllTold`: when a turn is asked for (`RequestTurn`) no call is under way and the open decision, if any, was acted on or cut off by a kill (`TurnActedOn`), so `CallsSettled` and `Seamless` give each call its outcome and each question its answer, and a later entry takes none of it back |
| `Services_proofs!TypeCorrect` | `BusSpec => []TypeOK` | inductive |
| `Services_proofs!DurableAndInOrder` | only durable events are delivered, and no cursor goes back (`OnlyDurable`, `NeverBackwards`) | `Durable`, `Ahead`: everything on its way has been inserted, a backlog lies ahead of the cursor |
| `Services_proofs!Implements` | the bus implements `EventFeed` (`GapFree`) | `SendsInOrder`: two sends are out of order only where the overtaken event is loose; `NothingLost`: an event a connected subscriber lacks is loose, in its backlog, in the channel at or after its position, or about to be sent |
| `Services_proofs!SnapshotsAreStable` | `Spec => SnapshotStable`, with any paths, contents, pipelines and workloads | `SnapInv`: generations are numbered and one is the newest, no row begins or ends beyond it, and a prune under way keeps it; so retiring and adding at the next generation, and dropping what ended before the oldest one kept, change no answer at a known one |
| `Services_proofs!SyncsMatch` | `Spec => SyncMatchesScan` | `TablesInv`: among the rows that are not retired a path has one content (`OneContent`), facts are those of an indexed file (`OfFiles`), and a file without facts was written by a stage that writes none (`FactsWritten`). `FullRows`: what a full publish keeps and inserts is then the scan |
| `Services_proofs!ReadsMatch` | `Spec => []ReadsAreExact` | `TablesInv` at every known generation, and `ReadsInv`: what a pipeline, a build or a retrieval has read at a generation is what that generation answers, for as long as it is known. `GenerationsGrow`: one that was pruned is never published again, or a reader could take the second for the first |
| `Services_proofs!SharesByPriority` | `AssemblySpec => []AllocationByPriority`, with any budgets, requests and token counts | a section is given its share once (`ByPriorityLists`: the order by priority is one of all sections). `PassedTo` says what is true after k sections of a pass: nothing is lost, nobody is given more than it wants or more than there was, and a section still short has left nothing to those after it; two passes in a row then give the doc's definition (`CapsAreGiven`). The caps stand because a candidate that leaves the queue stays one of the request's (`Candidates`) |
| `Services_proofs!NothingIsWasted` | `AssemblySpec => []PromptFillsBudget` | `AssemblyInv`: what was dropped is too big for what is left *now*, in every phase. It was when it was dropped (`TooBigNow`), what is left shrinks, and what does not fit in a room does not fit in a smaller one (`StillTooBig`), of a text because fewer lines fit (`TextRendered`), of a source because one that fits is rendered whole (`SourceRendered`) |
| `Services_proofs!NothingUnasked` | `GateSpec => []UnaskedByRight`, with any tasks, clients, requests, modes, answers and kills | `Pinned`: until its driver has ended a task has, in the process it was created in, the mode it was created with; `Working`: a call without an outcome belongs to a task at work; `Unborn`: a task that has not begun has no mode, no answer and no run; `GrantsGiven`: every grant held was given in this process |
| `Services_proofs!AnswersFit` | `GateSpec => []AnswersFitPrompts`, with any tasks, clients, requests, answers and kills | of a task no two clients answer at once and no kill cut off: `OneAnswer`: what is approved is the prompt that is open; `Fresh`, `Unrun`: the call about to run, and the one asked about, has not run, as an open question and a call without an outcome exclude each other; `Named`: an approval that names a prompt is of it |
| `ChangeLedger_proofs!TypeCorrect` | `Spec => []TypeOK` | inductive, one typing lemma per operator on records |
| `ChangeLedger_proofs!RollbackSparesOthers` | `Spec => RevertsOwnWork`, with any files, contents, tasks, edits and kills | `OwnWork`: a path whose contents the task itself made (by an entry or by the call it is recording) holds what the agent last left there, unless loose or again; `SeenIsCurrent`: what a rollback has read of a path is still there, unless loose |
| `ChangeLedger_proofs!NoUserWorkLost` | `Spec => []UserWorkSurvives` | `ReadIsCurrent`: a call that has not written yet finds what it read, or its paths are loose; `Survives`: the user's contents are kept by the store, in the hands of a call, or still in the file and nothing a rollback would take for the task's own |
| `ChangeLedger_proofs!ClassifiedTruly` | `Spec => []ClassifiesTruly` | `WrittenIsLast`: what a call is about to record is what it left; `KnownIsLast`: a baseline stands for what the agent last left or found, except while a call has yet to record |
| `ChangeLedger_proofs!RestoresExactly` | `Spec => RestoredInProcess`: for checkpoints of the process that rolls back, with any number of them, of rollbacks, edits, tasks and restarts before | `Undoes(q, p, lo, hi, v, u)`: reverting the entries of p between two positions, each only over what it left, takes contents v to u or is refused; stated by the newest, the oldest and the links between neighbours, so that pushing or reverting one entry keeps it without an induction. `AllRestorable`: it holds from every watermark to the end of the ledger; `TodoIsRest`, `RestIsRestorable`: a rollback under way holds exactly the positions it still has to undo, and undoing them ends at the checkpoint |
| `Processes_proofs!GroupIsKilled` | `RunSpec => []NoGroupSurvives`, for any command, forks and deadlines | `Undecided`: before `run` knows why it ends nothing is killed; `GroupBorn`: only what was forked is in the group, so a fork cannot outrun the kill |
| `Processes_proofs!PassesByItself` | `RunSpec => []PassIsEarned` | `EndsOnce`: the child ends once; `ByItself`: a run whose reason is the child's exit has killed nothing, and its status is the child's |
| `Processes_proofs!CapturesFaithfully` | `RunSpec => []OutputIsFaithful`, for any cap, pipe size and streams of any length | `Captures`: a `CappedOutput` that was given n bytes holds all of them, or exactly the first `HeadCap` and the last `TailCap`; `NothingBetween`: the pipe holds the bytes between what is captured and what is written; `Drained`: a drain task that returned has left nobody who could write. `Push` keeps `Captures` for a chunk of any size, the one that crosses the cap included |
| `Processes_proofs!InstalledModelsAreWhole` | `Spec => []InstalledIsWhole`, with any models, installers, lengths, answers of the server, kills and removals that go file by file and fail anywhere | `Alone`: who works on the files of a model that is not contested is the only one; `FilesInv`, by `Phase`: it then holds a `.part` that it has hashed until it has renamed it, and there is no manifest before; and by `SoundOrCut`: a manifest stands over missing weights only while a removal is `Erasing` them, or after it broke off. An open file is followed through renames and removals (`Moved`) |
| `Processes_proofs!RolesReachTheirServers` | `Spec => []RoutedToItsServer`, with any models, roles, clients and sizes | `NumbersInv`: every server started has a number of its own, the registered, the stopped and the ones about to be registered; `RouteInv`: of a role that nobody raced for one thread works at a time (`OneWorker`), and what it is routed to is what is registered, except while that thread is between the two (`Routed`): swapping, or `Rewiring` the role to the endpoint after its server was stopped (`RewiresStay`). Every step is one of a few kinds as far as the router goes (`StepKinds`) |
| `Processes_proofs!ThePoolKnowsItsServers` | `Spec => []PoolAccounts` | `PoolInv`: the server of a model the pool no longer knows is owed a stop by the thread that evicted it (`Owing`), victim by victim, role by role. The budget needs what `Used`, a fold, and `admit`, a loop, compute: `UsedIsSum`, `RoundKeeps`, `AdmitIs` |
| `Processes_proofs!RemovedModelsAreGone` | `Spec => []RemovedIsGone`, if the rows a process finds name installed models, the endpoint or none | `GoneInv`: of a model that is not shared one thread speaks at a time (`OneNames`); while it removes the model, the servers left are those it still has to stop (`Stripping`), and none comes back; a row of a model without manifest is one the removal is about to clear, or it broke off (`Left`). Without the hypothesis a removal that was killed between its files and its rows leaves a row for good |
| `LanguageServers_proofs!NothingLeaks` | `Spec => []NoOrphans`, with any callers, languages, cap and number of servers | `Held`: a server that runs is in a slot, with the call that brings it up or with a shutdown; it passes from one to the next in one step each. `PutsDownInTurn`: a shutdown is done with one server before it takes the next |
| `LanguageServers_proofs!CapIsKept` | `Spec => []CapHolds` | `LockIsStart`: the mutex is held exactly through a start, so at most one server is outside the slots; `Room`: while it is held a slot is free. Both are needed: the count is checked before the server is spawned and the slot filled after |
| `LanguageServers_proofs!AsksAreAnswered` | `Spec => []AskIsAnswered` | a server that waits is up and a server that is up has its writer task (`Asks`), so the answer that `dispatch` queues is not thrown away; only the writer takes it off the queue, and that unblocks the server |
| `LanguageServers_proofs!AnswersArrive` | `Spec => []AnswersFindTheirWaiters` | `InOnePlace`: the request of an id is with its caller, queued, with the server or answered, in one place and once; `NotYet`: ids above `next_id` are nowhere; `Tabled`: one caller waits for an id and the table knows. A late answer then meets no other caller |

The proofs use the assumptions the modules state (`LifecycleAssumption`, `RepairAssumption`,
`EntryAssumption`, `LoopAssumption`, `PathsAssumption`, `PlanStepsAssumption`, `BusAssumption`,
`LedgerAssumption`, `ToolGateAssumption`, `MaxGenAssumption`, `CommandAssumption`,
`ServingAssumption`, `LanguageServersAssumption`, `AssemblyConstants`, ...) and the ones a theorem
names. `ApprovalsRunOnce`, `OnlyStaleCachesBlock` and `NoStepFollowsCancel` need "only pause and
cancel contend": two clients who answer one prompt at once both find it open and both run its
call, and a resume beside a driver moves the task under it (section 5). Nothing in the code
enforces it; the three say what holds as long as a task is moved by one thread at a time. The
theorems on the repair loop beyond its types need one process: `take_verify_state` prefers the map
to the journal, so two processes that take turns each spend a budget of their own, and each goes
on with the plan and the passes it had for contents the other has changed since.

Only model-checked: the liveness properties (`ResumeHonoursCancel`, `ComesToRest`,
`EventuallyDelivered`, `RunEnds`, `EveryCallReturns`: fairness and ENABLED are out of the prover's
reach). Every safety invariant and action property of the passing runs is stated by a theorem.

Induction. The induction theorems of the library take an operator, which no prover here can
instantiate. What a fold or a loop computes is proved without them: a set of numbers has a least
element (`LeastNumber`, from `WFMin` and `NatLessThanWellFounded`), so what holds at 0 and passes
to the next number holds of all (`Counting`); a function defined by steps exists (`Iteration`);
and the function `FoldSet` chooses is that one (`FoldedExists`, `FoldedIsSum`, `SumIsWeight`).
`PlanRules` filters with `Keep`, a function defined by steps, for the same reason: of `SelectSeq`
the provers know nothing.

## 5. Divergences between the code and what it says

Refuted by TLC, with a trace: by the run `QuestionRepeats` (PROJECT.json "findings" quotes the
sentence) and by the five configurations of section 3 that are no runs:

* `TerminalOverwritten`: `manager.rs:350`. "Once reached, a task's state never changes again"
  (`state.rs:51-52`); `transition` reads the row in one store call and overwrites it in another, so a
  resume that has read the active state puts Paused over the Failed of a driver that ended in
  between, and starts a driver on the finished task.
* `EventOvertaken`: `bus.rs:90`. The subscription is called gap-free (`bus.rs:113-116`,
  `envelope.rs:9-12`); when two appends of one process send in the other order than they inserted,
  the earlier event is dropped as one already delivered.
* `RollbackAfterRestart`: `checkpoint.rs:112`. A rollback "restores the tree exactly"
  (`checkpoint.rs:1-3`, `plan_exec.rs:640-642`); the checkpoint outlives the process and the ledger does
  not, so what the task changed before a restart stays, and success is reported.
* `RefusedHalfWay`: `checkpoint.rs:116`. A refusal "leaves the tree exactly as it was" (11-12); the
  entries newer than the conflict are reverted by then, and stay so.
* `QuestionRepeats`: `plan_exec.rs:618`. `driver.rs:1356-1357` says an answer takes the task back
  "so the next model call sees both the question and the answer"; within a plan step the stored
  question is found again and asked again, for every answer, without a model call.
* `RemovalBrokenOff`: `store.rs:432`. The manifest is "the source of truth for what is installed on
  disk" (`manifest.rs:1-3`); `remove_dir_all` unlinks name by name, and when it fails, or the process
  dies, between weights and manifest, the model still counts as installed.

Met while modelling, visible in the models, and kept as the stated exceptions of properties:

*Tasks and driver*
* a resume racing a driver that has read first may skip any arrow of the table, not only those out
  of terminal states (`manager.rs:338`), hence `Contended` in the theorems of section 4;
* a cancel accepted while the task waits for permission is dropped by the transition the answer
  makes (`driver.rs:1339`, `runtime.rs:672-676`), and one accepted while the driver is inside a
  step by that step's own transition (`manager.rs:348`; `runtime.rs:699-701` says the driver
  observes it);
* an approval resumes into "whichever loop phase asked"; the phase is guessed from a map that
  outlives it, the move may then be illegal, and the task waits with no prompt left
  (`driver.rs:1335`);
* a kill between the UPDATE and `StateChanged` leaves a state the journal never names
  (`manager.rs:357`; `docs/ARCHITECTURE.md:161` says journal before effects);
* a kill between an approved call and its TOOL_RESULT lets the call be approved and run again
  (`driver.rs:1326`);
* a repair edit that asks for permission journals a prompt and then makes a move the table
  forbids, so the task fails with an open prompt (`driver.rs:1213`, `state.rs:82`).

*Repair loop*
* a process that paused in the middle of its plan and resumes after another one repaired the
  workspace completes the task on checks that ran on other contents (`driver.rs:695`, 116-117);
  two processes that take turns have a budget each (`driver.rs:1441`);
* the detector rebuilt from the journal misses the observation made after each repair edit
  (`driver.rs:1091`; 1831-1840 says the rebuilt state is the same);
* `broaden` and the primary repair role are not rebuilt: an escalation is paid for and not in
  force after a kill (`driver.rs:1446`);
* a kill in Diagnosing leaves nothing to diagnose (`driver.rs:801`); after a question is answered
  the old failed check is diagnosed against new contents (`driver.rs:687`); a kill between
  REPAIR_ATTEMPT and the transition gives an attempt nobody decided (`driver.rs:1084`).

*Plans and turns*
* the journal always ends in a recovery note and a `StateChanged` after a real kill, so the "very
  last entry" exception of `count_model_calls` (`manager.rs:460-467`) never applies: the decision
  it was written for is skipped, not redone;
* a scope expansion is journaled before the TOOL entry and counts as acting: a kill between the
  two loses the stored call (`plan_exec.rs:622`, 481); a kill after the last turn's completion
  loses its decision (`plan_exec.rs:460` against 470-474); without a plan a kill after any
  MODEL_COMPLETION does;
* a kill between PERMISSION_ASK and the transition drops the prompt, and the next turn is asked
  with that call untold, which `driver.rs:412-419` says cannot happen;
* a kill between USER_RESPONSE and the transition lets the question be answered twice; the second
  answer is told without its question (`driver.rs:1350-1381`, 526-546);
* `--plan` belongs to an invocation (`main.rs:140`, 560): a resume without it runs a stored plan
  nobody accepted, or none (`driver.rs:337-342`, `plan_exec.rs:706-713`);
* a wave looks at no signal until it has ended (`plan_exec.rs:1075-1081`); its checkpoint is taken
  after its child's edits (983); a kill before it is folded runs finished child steps again; a
  child's prompt can be approved after its wave gave it up; a plan is validated under the mode of
  the process, not of the task (`plan_exec.rs:715-721` against `engine.rs:105`);
* `wire.rs:33` says the system and context messages are rebuilt identically for every turn;
  `system_and_task_messages` retrieves anew.

*Ledger*
* a rollback to a step boundary (`plan_exec.rs:16-18`) leaves what a parallel child recorded under its
  own id as it is, and reports success (`checkpoint.rs:112`);
* after a refused rollback a second one to the same checkpoint may delete a file the first restored
  before it is refused in turn, as reverting entries keep no contents (`ledger.rs:331`);
* a write goes by contents read before, so an edit in between is lost without a copy
  (`transaction.rs:112`, `fs.rs:360`); a kill or a failing blob store between write and record
  leaves a change nobody can roll back (`fs.rs:273`);
* `rehydrate_write` is "used by `valyria-task`'s crash-recovery path" (`ledger.rs:144-145`);
  nothing calls it.

*Permissions*
* modes pinned to a task and grants are in memory: after a restart a task created Manual runs in
  the process's mode (`engine.rs:92`); a child does not inherit its parent's mode; denying a prompt
  fails the task without a driver, so its mode stays (`driver.rs:1309`, `runtime.rs:638`, 1857);
* a grant for the task covers tool, category and action, whatever the risk (`grants.rs:36-57`);
* two clients that approve one prompt at the same time run its call twice, and the later one may
  move the task on while a newer prompt is open (`driver.rs:1333`).

*Models*
* an admission that fails has evicted all the same and says nothing of it (`pool.rs:123-138`,
  `runtime.rs:2100-2101`); eviction does not stop a boot under way; a failed boot, a removal and a
  re-pointed role never leave the pool, and the pool counts a model once though each role boots a
  server of its own; an engine that fetches its models itself has footprint 0;
* binding a role and swapping its server are two steps: two activations of one role may leave it
  on a stopped server (`runtime.rs:2686`, 2691; 1534, 1540); runtimes are kept by model id, so two
  roles on one model share the last handle; a failed activation leaves the old server running
  and unreachable;
* activating an endpoint stops the role's server before `endpoint_runtime(row)` may fail: the role is
  then left on the stopped server (`runtime.rs:1727-1732`);
* a removal that broke off after the manifest and before the rest leaves weights and rows of a model
  `remove` then refuses to remove (`store.rs:426-428`, 432): `cut` in `RemovedIsGone`;
* two processes share a part file: between hash and rename one may truncate what the other has
  verified, and a manifest then stands over damaged weights (`store.rs:294-361`; 5-9 says never
  partial on success); without an engine the probe passes anything (`runtime.rs:1917`, 2030); a
  probe that errs leaves weights `remove` refuses to remove.

*Index and context*
* a retrieval slices the bytes on disk at the offsets of the index (`search.rs:78`, 90-92; 3-7 says
  otherwise), and the embedding pipeline reads from disk what it stores for a generation; nothing
  publishes a generation after an edit of the agent;
* a kill between the two stages of a bootstrap leaves files without facts until they change
  (`pipeline.rs:79-121`); a file that cannot be read is taken for deleted by a full scan
  (`scan.rs:66-72`); an older scan may be published over a newer one;
* `assemble.rs:190-198` says the whole prompt stays under budget; a task's objective larger than the
  window is returned as Ok, and its caller does not look (`driver.rs:404-411`): the proviso
  `fixed <= available` of `FitsBudget`.

*Commands*
* the drains are joined without a deadline (`runner.rs:120-125`): a process that left the group, or
  a background one after a normal exit, keeps `run` waiting as long as it has a pipe open, and is
  not killed (1-4 says nothing outlives the run): `Held`;
* nobody holds a driver's cancellation token (`runtime.rs:1830`), so a running command ends by its
  own exit or by its deadline.

*Language servers*
* `client.rs:160-161` calls `is_alive` "whether the session is still usable"; it looks at the
  writer's queue (`client.rs:162`), so a session whose reader ended (for good after a malformed
  frame, after an exit until the next failing write) is handed out, each request on it waits
  out its deadline (19-21 promises an immediate failure) and the server is not restarted;
* a slot whose server died counts against the cap until its own language is asked for
  (`pool.rs:114-118`); documents opened before a restart are unknown to the new server
  (`pool.rs:206`).

## 6. What is not modelled

PROJECT.json lists every crate with its status. Left out:

* *parsing and text*: output parsers and check discovery of `valyria-verify`, `valyria-lang`,
  `valyria-instructions`, edit strategies, rendering (`-cli`, `-protocol`); their results enter the
  models as arbitrary members of small sets;
* *numeric ranking*: `-search` scores and fusion, `-embed` vectors and HNSW, memory decay;
* *I/O wrappers*: `-git`, `-hardware`, `-vfs`, HTTP clients, the server subprocess's health polling,
  the OS sandbox;
* *pure selections over static data*: `-config` layers, `-model-registry` role assignment;
* *what nothing uses*: the role pipeline (`role_pipeline.rs`: called by its tests only),
  `gc` and `verify_integrity` of the model store, the
  token budget of a task (stored, enforced by nothing), `rehydrate_*`;
* *the cascade of pause and cancel to children* (`manager.rs:706-738`): it writes the children's
  rows, but no driver of a wave's child reads them before the wave ends, so there is no
  behaviour of a child for it to change;
* *`valyria-engine-store`*: the protocol of `ModelInstall` again, without the guard against two
  installs in one process;
* *the daemon's transport*: framing, retries of the client and the socket file (a second daemon
  removes the first one's, `daemon.rs:161`, 192);
* the benchmark, the scripted model and the test fixtures.

Smaller things, inside the modelled components: `ReadFacts` is one step for the reads of a
generation's four tables of facts, which go call by call (a prune between two of them makes the
later one fail, as one before makes all), and `EndPrune` is one for the prunes of index, graphs
and vectors, each a transaction of its own; `PromptFillsBudget` is about what `assemble` charges,
and the warning line of an item with many injection signals (`snapshot.rs:134-143`) may cost more
than the `WARN_SLACK` it is charged (`assemble.rs:43`); an error while a drain reads its pipe
(`runner.rs:193`) does not occur; a language server asks the client something only while it
starts. A process is not killed while it serves or removes models: what a kill in the middle of a
removal leaves of the files is what an error there leaves, but a kill between the files and the
rows is not in the runs.

Inside the modelled components: the model's words, prompts and file contents are abstract
values; time appears only as an event that may happen.

## 7. Plan

What would come next, in the order in which a failure would hurt a user most:

1. A composition of `TaskLifecycle` and `PlanSteps`: signals and row writes in two calls under a
   wave of children, once the code has a reader for the cascade.
2. The recovery ladder and the fallback chains of `valyria-orchestrator/structured.rs`, once the app
   builds chains longer than one.
3. `valyria-memory` and `valyria-model-registry` as pure modules beside `ContextAssembly`.
4. Theorems: the lifecycle and repair theorems without their hypotheses on contention and on one
   process, where the code comes to allow it.
