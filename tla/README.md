# A TLA+ model of Ennoia

Ennoia is a local server (Rust, axum, SQLite) on which AI agents act through
extensions. The server keeps the state and the rules: it decides whether an agent
may act, runs the action as an *operation*, publishes events to the hooks of
extensions, runs schedules, and starts the WASM and process workers extensions
live in. These modules model the parts of it where several actors share state:
TLC checks small instances, and TLAPS proves the most important properties for
every value of the constants. All paths below are relative to `src/`.

Run a model with `tlc -config X.cfg M` and a proof module with `tlapm M.tla`.

## 1. Inventory

### The parts that keep shared state

| Part | Code | State | Operations |
|---|---|---|---|
| Permission store | `crates/server/src/agent_permissions/` | tables `permission_approvals`, `permission_grants`, `permission_events`, policy files | evaluate a request, consume a grant, list, resolve (allow once / reply action / conversation, deny), expire, revoke |
| Operation runtime | `crates/server/src/operations/`, `runtime_bridge.rs`, `routes/permissions.rs` | tables `operations`, `operation_approvals` | perform, supersede, start, authorize, run, settle, link to an approval, resume, cancel, startup sweep |
| Event bus | `crates/server/src/event_bus/`, `app.rs` | tables `hook_events`, `hook_deliveries`; the batch of the running drain | publish, list pending, call the hook, mark succeeded, mark retry |
| Scheduler | `crates/server/src/routes/schedules.rs`, `middleware/timeout.rs` | `schedules.json` behind `schedule_lock` | create, update, pause, resume, delete, list, run, tick |
| Worker runtime | `crates/extension-host/src/worker.rs` | pools of process slots, WASM module cache | acquire or spawn a slot, invoke with nested host calls, terminate, invalidate |
| Extension registry | `crates/extension-host/src/registry.rs`, `routes/extensions.rs` | the published snapshot, attached directories, generation | scan, attach, detach, enable, reload, refresh |
| Action router and pipeline | `crates/server/src/routes/actions.rs`, `crates/server/src/pipeline/mod.rs` | none persisted: the rules and handlers a request listed | dispatch an action to its rules, authorize, call, publish its event, offer a message to the handlers of its slot |
| Host capabilities | `crates/server/src/host_capabilities.rs`, `crates/server/src/extension_runtime.rs` | tables of extension state entries and records | put, append, update, list, for workers and over HTTP |
| Realtime and streams | `crates/server/src/realtime.rs`, `crates/server/src/routes/streams.rs` | a bounded broadcast channel, the watermarks of each connection | publish, subscribe, poll, send a snapshot |
| Configuration and resources | `crates/server/src/routes/runtime.rs`, `routes/resources.rs`, `app.rs` | `server.toml`, profile, preferences, a file per agent and model endpoint | set up, save, delete, migrate, start |
| Skills | `crates/server/src/skills.rs`, `app.rs`, `crates/cli/src/main.rs` | a directory per skill, the skill registry, settings and verdict files | save, delete, synchronise, check, prepare, call |
| Workflow extension | `assets/extensions/workflow/` | its own SQLite: receipts, parked loops, drafts, plans, runs | conversation hooks, planning, runs, the agent loop |
| Conversation extension | `assets/extensions/conversation/` | its own SQLite: conversations, branches, lanes, messages | append, branch, rewind, switch, delete |
| Memory extension | `assets/extensions/memory/` | its own SQLite and a graph sidecar | remember, review, recall, assemble a context |
| Development supervisor | `crates/cli/src/main.rs` | the API process, its port, the copies of its binary | watch, rebuild, restart, roll back |

The rest (the artifact runner, the OpenAI provider, access to the files of an
agent, logs and traces, middleware, the web client) is listed with its reason in
`PROJECT.json`: it is I/O, a view, or a filter of single requests.

### How they interact

* A *workflow* or a client asks for an operation with the host call
  `operation.perform`. `perform_operation` records it, supersedes the others
  of its slot, and asks the *permission store*. The answer is: run; denied; or
  "approval required", which blocks the operation and links it to a pending
  approval.
* A user answers the approval through the *approval route*, which resolves it in
  the permission store (perhaps inserting a grant) and spawns the task that
  resumes the blocked operation, or cancels it.
* Request handlers *publish* events: one row per subscribed hook. One background
  loop of `app.rs` *drains* the rows, calls the extension's worker with a
  timeout, terminates the worker when it expires, and marks the row.
* Another background loop is the *tick* of the scheduler; it and the routes share
  `schedules.json` and one tokio mutex.
* Nothing spans two SQL statements: each opens a connection of its own and commits
  by itself. So every handler is a sequence of atomic steps, and any two
  handlers, tasks or loops interleave between them. A restart can come between any
  two as well.

### What is hard, and what has to hold

* *Permission store*: matching and consuming a grant are two statements, and so
  are reading and updating an approval. Grants come only from decisions; asked
  requests run only under a decision that covers them; a single-use grant is used
  up before the run; concurrent use of one grant is bounded; decisions,
  consumptions and revocations are final.
* *Operation runtime*: statuses are overwritten by id, without a look at what is
  there. No operation is shown as active with nobody working on it, a blocked one
  can be answered, only an answer resumes one, every running one ends.
* *Event bus*: timeouts that race late answers, a second attempt inside the worker
  runtime, retries counted from a snapshot, lost updates, restarts. Delivery is at
  least once or given up; repetition is bounded; first attempts are in order.
* *Scheduler*: a run releases the mutex while it executes; handlers can be dropped
  by the timeout middleware at any await; the file can be torn by a crash. Nothing
  a client edited is undone, no record is lost, nothing is removed unasked.
* *Worker runtime*: workers are acquired by a compare-and-swap next to a list
  that is copied out of its mutex, invocations hold a lock that terminating waits
  for, nested host calls come back into the pools, a timeout leaves its thread
  behind, the binary may be rebuilt at any moment. A worker serves one call at a
  time, never from a binary older than the call, and every call ends.
* *Extension registry*: the registry file is read, edited and written with
  nothing held, and snapshots are built and published by requests, a loop and the
  command line at once. What is shown of an extension is what was asked for, logged,
  told and running; what its manifest declares can be called.
* *Action router and pipeline*: the registry, the grants and the mode of a
  conversation change between the steps of a request. The event tells of what ran,
  agents run what they were allowed, a message has one owner.
* *Conversation turns*: several workers resume, retry and recover the same loops,
  each of which is a row that is read and written back. A message is answered once
  by each agent it is addressed to, or starts a run if it confirms a plan.
* *Drafts and runs*: a draft, a plan, a run and its events are four statements; two
  workers may hear the same confirmation, and a worker that starts takes up messages
  whose handler may be dead or may not. A run has the plan of its draft, and a message
  makes no more runs than the times it was taken.
* *Branches*: a call reads and then writes whole rows, one by one. The branches stay
  a tree, the active one exists, what was rewritten is hidden, and what was deleted
  does not come back unless calls overlap.
* *Memory*: policies, reviews and budgets, over failing statements.
* *State of extensions*: versions tell values apart, closed records stay closed and
  are not listed as open.
* *Streams*: a change may fall between a subscription, a poll and a snapshot. A
  reader that has received all there is has missed nothing.
* *Configuration, resources, skills*: files are truncated and then written, handlers
  overlap and the server may die between two files. What was saved is what is found,
  the server can start again, a setup is final, a skill is shown as ready only when
  the package that was looked at had all it required and passed the check it had.
* *Development supervisor*: edits come in during builds and before anybody watches,
  builds and ports fail. One API runs, made of the files as they are now, but for what
  was edited since the last build with no watcher to tell of it: before the watchers
  began, or in a package that the host embeds.

`PROJECT.json` lists every hazard with its line and the properties that cover it.

## 2. Modules

| Module | Models | Composes |
|---|---|---|
| `PermissionGate` | the permission store, its callers and its management routes | |
| `AgentOperations` | operations, their tasks, the approval route, restarts | extends `PermissionGate` and conjoins its steps |
| `HookDelivery` | the abstract promise of one delivery | |
| `EventBus` | publishers, drain loop, workers as the bus sees them | instantiates `HookDelivery` as its refinement |
| `Scheduler` | routes, tick, runs, file, mutex | |
| `WorkerPool` | calls of process workers, their pools, leases, timeouts and refreshes | |
| `ExtensionRegistry` | registry file, directories, snapshots, the log of events, viewers | |
| `Contributions` | what manifests declare, orders, authorized methods, settings | |
| `ActionPipeline` | the dispatch of an action and the drive of the response slot | |
| `ConversationTurns` | receipts, reply loops, hooks, recovery of the workflow extension | |
| `WorkflowRuns` | drafts, confirmations, runs and their stages | |
| `PlanRules` | parsing, normalisation and validation of a plan, its tasks | |
| `Conversations` | one conversation: branches, lanes, messages | |
| `MemoryStore` | memories, policies, reviews, recall, contexts | |
| `ExtensionStore` | a state entry and the records of extensions | |
| `ConversationStream` | the stream of a conversation | extends `ExtensionStore` |
| `TopicStreams` | the broadcast channel, the streams of topics and workflows | |
| `InstanceConfig` | setup, profile, preferences, `server.toml` | |
| `ResourceFiles` | agents and model endpoints, their migration | |
| `SkillPackages` | the packages and the registry of skills | |
| `SkillRuns` | settings, checks and actions of a skill | |
| `DevSupervisor` | `ennoia dev` | |
| `Listings` | the order in which rows are listed | used by `Conversations` and `ActionPipeline` |
| `...Proofs` | theorems | each extends what it is about: `ConversationsProofs` is also about `ConversationTurns`, `ExtensionStoreProofs` about `ConversationStream` and `MemoryStore`, `ServerProofs` about the suite `MCServer` and its components, the scheduler among them, and `ExtensionsProofs` about the suite `MCExtensions` and its components |
| `MCServer`, `MCExtensions` | suites: small instances of nine components each | extend those components |
| `MC...` | small instances of one component | extend it |

### PermissionGate

`approvals` and `grants` are the two tables by `seq`. A *caller* is one execution
that authorises itself: `Evaluate` (`evaluate_request`: a usable matching grant,
newest first, else the policy, else a new pending approval), `Consume`
(`consume_grant`), `Execute`. An *admin* is one handler of the routes:
`StartResolve` (expire what is due, read, return early unless pending),
`UpdateApproval`, `InsertGrant`, `Answer`; `StartRevoke`, `UpdateRevoked`;
`ListApprovals`. `FallDue` is the clock. Each action is one SQL statement with the
code that precedes the next one. A denial by policy changes nothing here; it is a
`Refuse` in `AgentOperations`. `spent` is a history variable: runs charged to
each grant.

A request is a record of agent, action, target, place (path, host and extension),
conversation and message, the fields `grant_matches_request` compares. The policy
is the constant set `AskRequests`.

### AgentOperations

A *task* is one call of `perform_operation` or of
`resume_operation_after_approval`, and is the permission store's caller at the same
time, so `Authorize`, `ConsumeGrant`, `Run` and `Ask` are conjunctions of a
`PermissionGate` action with what the task does. `Perform`, `Supersede`, `CancelFound`,
`Start`, `Refuse`, `Settle`, `Link` are the statements between: `Supersede` lists the
active operations of the slot, and `CancelFound` cancels one of those it found, whatever
has become of it. `SpawnResume` and `CancelBlocked` are the end of the approval route;
`Resume` picks the linked operation up. `Restart` forgets all tasks and runs
`cancel_abandoned_operations`; that sweep is one step, because nothing is served
before it ends. The sweep of a second process that starts beside the server lists
(`OtherBootstraps`) and then cancels one by one (`OtherCancels`).
A task cannot be dropped by a closed connection: `operation.perform` is served with
`block_on` on a thread of its own and a resumption is spawned.

### HookDelivery and EventBus

`HookDelivery` is what the bus promises of a delivery: posted once, succeeded only
after its handler was reached, settled for good, perhaps reached more than once
and even after it settled.

`EventBus` has the table (`deliveries`), what each publisher still has to insert
(`toPost`), the snapshot the drain works through (`batch`), the delivery under way
(`drain`) and the invocations nobody waits for (`orphans`). `drain.step` follows
one RPC: `call`, then `late` if the timeout dropped it and `terminate_worker` waits
for the slot, then `done` or `error`, then the mark. `Break` is a worker that dies:
`dispatch_process` starts another and asks again, once. A WASM invocation is not
interrupted by the timeout; it becomes an orphan that may still reach its handler.
`PostFails` and `MarkFails` are failing statements, `Restart` a stop.
`ImplementsDelivery` is the refinement.

### Scheduler

`file` is `schedules.json`, `torn` says that a write was cut short, `lock` is
`schedule_lock` when it is held over an await (which only the tick does), `proc`
is where each handler and the tick stand. A handler that takes the mutex, reads,
edits and writes without an await is one step (`Serve`). `Copy`, `Execute`,
`Record` are `run_schedule_by_id`; `StartTick`, `RunDue`, `EndTick` are
`run_due_schedules_once`. `Drop` is the timeout middleware. A time is past,
ahead or absent, and `TimePasses` moves one ahead into the past.

### WorkerPool

A *call* (`Rpcs`) is one `dispatch_extension_rpc` and consists of two actors: the
blocking thread (`rpc`) and the task that waits for it (`waiter`). `Call` starts
both. The task gets the answer (`Answer`), or times out and terminates the pool
of the extension (`Timeout`, `Terminate`, then the kills, `Terminated`), or is
dropped by its client (`Abandon`); in no case does it stop the thread. The thread goes
through `process_pool` (`Lookup`, `Create`, `Recheck`, `Replace`, `Replaced`,
`Insert`), `acquire_or_spawn` (`Scan`, `Skip`, `Acquire`, `Bury`, `Spawn`,
`Sleep`) and `invoke_process` (`Invoke`, `Respond`, `Fail`, `Discard` and a second
attempt, `Release`). `Inspect` and `RemoveStale` are the refresh of the registry,
`Rebuild` and `Die` the world outside.

`cache` is the map of pools, `lock` its mutex where a thread keeps it from one
step to the next, `pools` each pool's fingerprint and list, `worker` each process and
its busy flag, `closing` what each `shutdown_all` has still to kill. A call makes at
most one pool and starts at most two workers, so a pool is named for its call and a
worker for its call and attempt: this bounds nothing and makes "a new one" a
name nobody uses yet, which the proofs establish (`NewPoolsAreNew`,
`NewWorkersAreNew`). A list of slots is a set, since no property depends on which of
the free workers is taken first. That a pool is removed from the map and that its
slots are listed is one step: the pool is out of reach of new lookups by then, and
what threads still using it do to the list commutes with the removal.

`Calls` says who may call whom, which gives the instances their shape: clients only,
calls nested through a second extension, or re-entrant calls.

### ExtensionRegistry and Contributions

`regFile` is the registry file, `sources` the directories, `graph` the published
snapshot, `extLog` the events, `admins` where each call stands, `workerOf` the worker of
an extension, `viewer` a connected client. A call of the routes reads the file,
writes it (truncated first, and an empty file reads as a registry without entries),
scans, and publishes; the refresh loop scans and publishes as well; a directory may
change and the server restart between any two of these. `Contributions` is what a
snapshot holds of a manifest: operations, hooks, handlers and providers in their
order, the methods a worker may be called with, and settings that are stored,
merged with their defaults, and redeclared.

### ActionPipeline

`pipes` are the requests, each with the rules it listed and those that ran,
`slotDrives` the background drives of a message. `Ensure`, `List`, `Get`,
`AuthorizeDispatch`, `ConsumeOnce`, `Call` and `After` are the steps of
`dispatch_action_pipeline`, with the snapshot read anew in each; `ListHandlers`,
`ResolveMode`, `HandlerAnswers`, `HandlerIsLost` those of the drive. `Approve`, `Flip`,
`Swapped` and `PipelineRestarts` happen between them.

### ConversationTurns, WorkflowRuns and PlanRules

`ConversationTurns` has the workers (`workers`, one invocation at a time, `booted` once
recovery was done), the `receipts` that claim a message for an agent, the `rows` in
which loops are parked, the operations they wait for (`turnOps`) and the hooks that
bring them back. Each access to the database is a step, and a worker may die at any.
`confirming` are the messages that confirm a plan. A handler that finds a session
for one (`Prepare`, then `Confirm`) makes a run, whose loop has an id of its own
(`LoopIds`, `turnRuns`; the direct reply of a turn is its loop 0), and goes on to ask the
provider or tells the outcome of a run that cannot go on (`TellOutcome`). The receipt
of such a message is completed as soon as the run is parked, before anything is said. That
is why the promise of completed receipts (`CompletedReceiptsWereAnswered`) is: answered, or
a message that confirmed and had a run set to work.

`WorkflowRuns` has the session the server keeps, the `drafts`, the runs with their
plans (`wfRuns`) and their order by last update (`recent`), the messages with
what each asks for, its receipt and how often it was taken (`heard`), and the workers
that handle a message (`handlers`). `Hear` is the drive of a message; `HearAgain` the
default handler after the managed one failed; `RecoverMessage` a worker that has just
started and finds the receipt running, whether the handler that began has died
(`HandlerDies`) or not; `MarkDone` completes the receipt. An access may fail (`errors`). A
recovered confirmation that finds the session still active makes a second run: nothing in
the code refuses it, and what is left to promise is `EachTakeMakesOneRun`. `PlanRules`
is the pure part: what a model writes becomes a normalised and validated draft and then
tasks, over all plans of a bounded length.

### Conversations

`conv`, `branches`, `lanes` and `messages` are the tables. A call reads what it needs
and leaves its statements in `calls[w].todo`; `UpsertConversation`, `UpsertLane`,
`UpsertBranch`, `InsertMessage` and `DeleteRows` execute the first of them, `CallFails`
loses the rest, and `Backfill` is a worker that starts. `append` searches the branches it
read before it made a missing root branch: a first message (`AppendRoot`) goes, with the
new lane, to the oldest live branch of that list, whose old row it writes again and makes
active, and fails after the root branch was made if there is none; `AppendRootRewrite`
is the same for a message that rewrites another. `Visible` and `Subtree`, the recursive reads of the code, are recursive
functions over the branches. `calls[w].alone` remembers whether other calls ran
meanwhile, `history.purged` that the conversation was deleted.

### MemoryStore

`memories` and `reviews` are tables, `memJobs` the invocation of each worker,
`touched` the memories in the order of their last update. `remember` checks the policy of the owner against
namespaces, which are sequences; a review supersedes; recall filters, orders and
cuts; a context is filled up to its budget.

### ExtensionStore, ConversationStream and TopicStreams

`ExtensionStore` has a state `entry` with its version and the `records` of a
conversation; `callerJobs` are the calls in progress and `clock` gives the times.
`ConversationStream` adds what the server polls: four numbers and the whole snapshot.
`TopicStreams` has the channel as a bounded queue for each receiver (`receivers`),
with a lag that is told; `stale` says that a change came since the last signal.

### InstanceConfig, ResourceFiles, SkillPackages, SkillRuns

Each has its files, the requests in progress (`desk`, `resDesk`, `pkDesk`, `skWork`) and
what was asked for last (`resAsked`, `pkAsked`, `skSaved`). A write is two steps,
truncating and writing; the server may stop between them and starts again with
what it finds. What is excluded from a promise, two requests for one file at once
or one that was cut, is kept in `resMixed`, `pkMixed` and `skLost`.

In `SkillPackages` a command of the program, a start or one that is run beside the server, is
as many steps as its accesses (`BeginCommand`, `CommandReads`, `CommandOpens`,
`CommandWrites`, `CommandLooks`, `CommandRemoves`, `CommandOpensFile`,
`CommandWritesFile`, `CommandIsDone`, or `CommandIsCut` anywhere): it reads and writes the
registry, reads it again, and removes and writes the packages that were not blocked in
that reading. A deletion or a save that meets it may be undone; such requests count as mixed,
and no property is about them.

In `SkillRuns` the package may be saved in any form at any moment (`ChangePackage`), with a
check or without and with other required settings. A request goes on with the package it
began with and its verdict says of which one it is; a verdict made for an earlier package is still
shown afterwards, as it is by the code. Two forms that differ in the check's command
alone are one.

### DevSupervisor

`devTree` has the versions of the code: of what the host's watcher reloads, of the
workers, and of the packages, which are the files of builtin extensions and skills that
`crates/assets/build.rs` embeds in the host binary and no change of which rebuilds it.
`devTask` is what the supervisor does, from the first build of the workers and the host on;
`devWatching` are the watchers that have started, `devUnseen` what was edited with no watcher
to tell of it and was not built since: anything before its watcher started, a package at any
time, for `is_host_reload_path` passes over all files of an extension and all but `SKILL.md` and
`config.toml` of a skill. Such a package stays old in the API until something else has the host
built; a restart for the workers' sake uses the copy there is. `devApi` and `devPort` are the process, with the versions its binary was made of,
`devBuilt` the workers that were built and installed. Edits, crashes and failing
builds happen meanwhile.

### The suites

`MCServer` and `MCExtensions` put nine small instances each into one run. `part` names
the component that moves in a behavior; the others hold a constant, or stay where
they begin where a property speaks of every state or every step. The components of a
suite share no variable, so this explores each of them completely and none of their
products, which would show nothing more. `SnapshotsAreTruthful` and the like say of a
component's property that it holds while that component moves.

## 3. What the runs check

| Run | Expected | Distinct states | Shows |
|---|---|---|---|
| `operations` | pass | 1 177 325 | active operations have a live task, blocked ones an approval, and only a decision resumes |
| `operations_live` | pass | 164 579 | running operations end or block, answered approvals move their operation on |
| `operations_slot` | violation | 185 | `OneActivePerSlot`: a superseded operation becomes active again |
| `gate_once` | violation | 971 | `OnceGrantRunsOnce`: two executions run on one single-use grant |
| `event_bus` | pass | 313 521 | the bus implements `HookDelivery` (liveness included), first attempts are in order, repetition is bounded |
| `scheduler_due` | violation | 680 | `DueSchedulesRun`: the tick waits for the mutex it holds |
| `pool` | pass | 1 450 207 | a worker serves one call at a time, from a binary no older than the call, over rebuilds, refreshes, deaths and re-entrant calls |
| `pool_live` | pass | 145 246 | every call comes to an end, and its thread does, with a timeout and an extension terminated at any moment |
| `pool_rebuild` | violation | 113 978 | `RebuiltWorkersServe`: the first call after a rebuild locks one mutex twice |
| `pool_reentry` | violation | 99 090 | `HostCallsEnd`: a termination waits for the invocation that waits for it |
| `server` | pass | 1 462 856 | the suite `MCServer` |
| `extensions` | pass | 2 815 928 | the suite `MCExtensions` |

The suite `server` checks of each component:

| Component | Properties | Shows |
|---|---|---|
| permission store | `GrantsComeFromDecisions`, `OnceIsConsumedBeforeTheRun`, `OnceOveruseIsBounded`, `AskedRunsAreApproved`, `HistoryIsFinal` | what grants come from, what they cover, what concurrent use of a single-use grant can amount to, and that history is final |
| scheduler | `ScheduleRecordsAreSound`, `ScheduleFileIsKept`, `EditsOutliveRuns` | no lost or resurrected edit, no lost record of a run, no removal but by request, and nothing but times changes while the tick has the mutex |
| registry | `SnapshotsAreTruthful` | answers are shown, the log ends with the snapshot, viewers are told, a worker that leaks was started late |
| contributions | `MergedContributionsAreLawful` | what is contributed can be called, handlers have one order, required settings are set |
| configuration | `InstanceStaysSetUp` | an instance is set up once, its server starts again, preferences can be told apart |
| resources, packages, skills | `FilesKeepWhatWasSaved` | documents, packages, flags and settings are kept; what was deleted stays away; a migration loses nothing |
| skills | `ShownReadyWasVerified` | who was judged ready had every required setting, and a command of the package, if it had a check, was run for it |
| supervisor | `OneCurrentApiRuns` | what was edited is in what runs unless no watcher told of it, the API is not forgotten, there is one |

The suite `extensions`:

| Component | Properties | Shows |
|---|---|---|
| turns | `MessagesAreAnsweredOnce` | one answer from each agent addressed, completed receipts were answered or had their run set to work, parked rows wait for their own operation |
| runs | `RunsFollowTheirPlans` | executed runs have plans, stages are logged, a message makes no more runs than the times it was taken |
| plans | `PlansStaySound` | normalisation is idempotent, changes come after a baseline, tasks can be resumed |
| conversations | `BranchTreeIsSound`, `RevivedOnlyByOverlap` | parents are older, the active branch exists, rewritten messages are hidden, deleted branches stay deleted |
| memory | `MemoryRecallsWhatCounts` | policies, grounded long-term memories, reviews in a chain, complete recall, budgets |
| pipeline | `DispatchedWorkIsAccountedFor` | events describe what ran, agents were allowed, a slot has one owner, handlers are asked in turn and know their mode |
| store | `RecordsTellTheirState`, `ClosedStaysClosed` | versions tell values apart, closed records are not listed and stay closed, payloads are kept |
| stream, topics | `ReadersSeeWhatHappened` | who is up to date has every message, operation, record and signal |

`ServerTypesOK` and `ExtensionTypesOK` are the type invariants of all of them.

### Bounds, and why they are enough

* Permission store: two callers and two admins are the least that race on one row,
  on either side and across. One approval and two grants: two grants of one approval
  are only possible when resolvers race. Three asked requests that differ in one
  field each, so that what a grant covers decides evaluations, and one that is never
  asked about. The resolutions are those that insert different grants and `deny`.
* `operations`: three tasks are the least for a performer, a superseding one and a
  resumption at once; one restart, or one sweep by another process. `Room` starts new
  work only when there is a row for all that it may insert, so that no work under way
  is stopped by a bound.
* `operations_live` has no symmetry (it would be unsound for liveness) and no
  crash: a restart is covered by `operations`.
* `event_bus`: two publishers, one handler of each kind of worker, two deliveries,
  two attempts, one fault. Two deliveries are the least for an order, two attempts
  the least for a retry, and one fault may fall between any two steps.
* Scheduler: one schedule, two clients, the tick, two drafts (a paused one-time
  trigger and a due cron), two attempts, a history of two with up to three recorded
  runs (so that the cut happens), one restart. Schedules share only the file and the
  mutex, and one is enough for every race on a record.
* `pool`: two calls are the least for every race on the map, a list or a flag,
  and for a call inside a call; one extension lets them share a pool; `MaxSize` is 1
  where the code has 4, so that a full list, a wait for a free worker and an
  over-full pool (two threads that copied a short list) all happen; one rebuild;
  the refresh runs any number of times. It states safety only, so the two calls are
  symmetric. No extension is removable here: a pool leaves the map at any moment
  through a termination as it would through the refresh of an extension that is
  gone, and the theorems hold for every `Removable`. (With a removable extension the
  instance has 2.4 million states and holds as well.)
* `pool_live`: `workflow` is called by clients and calls `provider`; no rebuild,
  because of disagreement 4 below, and no re-entrant call, because of 5. The two
  violations have instances of their own with just that.
* The suites: two actors of every kind, the least for a race, and the least counts
  with which each action of each component happens. Two extensions (`x`, `y`) where an
  order matters; two agents to migrate, so that a start may stop between them; three
  branches, so that a branch has a grandchild; two messages; plans of up to three
  steps, so that a baseline, a change and a search occur in every order; the forms of a skill's
  package are without a check, with one, and with one and another required setting. Two runs of a
  command of the program (`MaxStarts`) are a start of the server and a command beside it, or two
  starts. `TurnBound`
  limits operations and deaths of turns together to two and `StreamTimes` the times drawn beside
  a stream to two. Of the turns (`TurnsAreFew`), two messages share one worker and one run, and
  one message is served by two workers and may make two runs: messages meet in what a
  worker does one after the other, and workers meet in what they do to one message. Of the
  runs, two messages, each taken twice (`MaxHeard`, `MaxTaken`), and two errors or deaths
  (`MaxErrors`), so that a message may fail, its worker die, and the next one find its receipt.
  The suites state safety only, so the actors are symmetric.
* Counters that grow for ever in the code (`MaxApprovals`, `MaxGrants`,
  `MaxOperations`, `MaxCrashes`, `MaxDeliveries`, `MaxFaults`, `MaxRecorded`,
  `MaxRestarts`, `MaxVersion`, and in the suites the bounds on calls, changes,
  edits, starts, takings, mishaps and news) are constants named in the guards. Because of them a model
  may stop where the server would not, so the configurations do not check deadlock.

### Fairness, and why the code justifies it

* `AgentOperations`: weak fairness of each task and handler that has begun. They
  run on tokio's threads; a command, a skill and a provider call each have a
  timeout, so `Run` happens in the end.
* `EventBus`: weak fairness of the drain loop (one task, alive as long as the
  server) and of the end of a backoff. This assumes that a worker that is asked
  answers or dies sooner or later. For a process worker the host does not enforce
  it: terminating waits for the lock the invocation holds. That is listed as a
  hazard, and `WorkerPool` assumes the same.
* `WorkerPool`: weak fairness of each thread, each waiting task and the refresh's
  kills. Threads are the operating system's and the tasks are tokio's; every call
  has a timer, which fires in the end. A worker's answer is part of its
  thread's step, which is the assumption above. A mutex held over a step is a
  disabled action, so a wait for ever is a violation and not hidden by fairness.
* `Scheduler`, for `scheduler_due` only: strong fairness of a handler and of the
  tick, because the mutex is enabled and disabled as others take it and tokio's mutex
  is first come, first served. The violation does not depend on a lack of fairness:
  what the tick waits for is held by itself.
* The suites state no liveness and assume no fairness.

## 4. What is proved

The proofs are for every value of the constants: any number of callers, handlers,
requests, rows, publishers, deliveries, batch sizes and faults; any number of
calls, extensions, workers and rebuilds; any payloads, schedules, clients, records,
branches, messages, memories and agents; any rules and handlers, plans, drafts, runs and readers; any
manifests, settings, requests, skills, edits and mishaps. They use only the named assumptions of the modules
(`GateAssumption`, `RequestFields`, `CallersAreFinite`, `OperationAssumption`,
`BusAssumption`, `PoolAssumption`, `SchedulerAssumption`, `DraftFields`,
`StoreAssumption`, `StreamAssumption`, `ConvAssumption`, `TurnAssumption`, `PipelineAssumption`,
`PlanAssumption`, `RunsAssumption`, `TopicAssumption`, `MemoryAssumption`,
`RegistryAssumption`, `ContributionsAssumption`, `ConfAssumption`, `ResourcesAssumption`,
`PackagesAssumption`, `SkillRunsAssumption`, `DevAssumption`): what constants are numbers, sets of records or not
empty, that there are finitely many callers, extensions and configuration requests at a
time, that a delivery is tried at least once (the code tries twenty times), that agents
and endpoints have ids of their own, and that names have an order. In each component the
argument is one inductive invariant, whose conjuncts TLC checked on the instances
first, and a step lemma with one case per action.

**`PermissionGateProofs`** proves `GateSpec => []GateInv`. `GateInv` is the
conjunction of

* `GateTypeOK`;
* `AdminRefs`: a handler about to insert a grant names an approval that is decided,
  and a handler past its read names one that exists (without it
  `GrantsComeFromDecisions` is not kept by `InsertGrant`);
* `CallRefs`: the grant a caller holds exists and matches the request it was
  matched for (without it `AskedRunsAreApproved` is not kept by `Consume`);
* `SpentRefs`: runs are charged to grants that exist (a new grant starts with none);
* `GrantsComeFromDecisions`, `OnceIsConsumedBeforeTheRun` and `OnceOveruseIsBounded`.
  The last is a count, and is kept because a grant that is not consumed was charged
  nothing, and because of one that is consumed no caller gets hold any more: those who
  hold it only leave, each with at most one run. It needs `CallersAreFinite`.

The step is one lemma per conjunct, and two lemmas say what every statement keeps
of either table (`ApprovalsKept`, `GrantsKept`), which also gives
`HistoryNeverReverts`. Theorems: `GateTypeCorrect`, `GrantsAreDecided`,
`OnceIsConsumed`,
`OveruseIsBounded`, `AskedIsApproved`, `HistoryNeverReverts`.

**`EventBusProofs`** proves `Safety => []BusInv`. `BusInv` is the conjunction of
`BusTypeOK`, `GivenUpWhenExhausted`, `FirstTriesInOrder` and

* `SnapshotIsCurrent`: what the snapshot says of a delivery, pending and so many
  attempts, is still so: only the drain marks (without it the count of
  `mark_delivery_retry` could be stale);
* `InvokedIsPosted`: only rows have invocations;
* `DoneWasHandled`: a delivery about to be marked as succeeded was handled;
* `UntriedWaits`: what was never tried is pending and due, so the oldest due rows
  include it (without it `FirstTriesInOrder` is not kept by `Scan`).

`RunsAreBounded` has an invariant of its own on top of it, `RunsAreCharged`: every run
of a handler, past or still to come from an orphan or the delivery under way, is
charged to an attempt, to a fault, or to the attempt that is not counted yet, at
most two to each.

Theorems: `BusTypeCorrect`, `GivenUpOnlyWhenExhausted`, `FirstTriesAreInOrder`,
`HandlerRunsAreBounded`, and `BusImplementsDelivery`: the initial state maps to the initial state of
`HookDelivery`, and every step to one of its steps or a stutter.

**`WorkerPoolProofs`** proves `Safety => []PoolInv`. `PoolInv` has two halves.
`LeaseInv` is the conjunction of

* `StoreOK` and `ThreadsOK`: the types, which give `PoolTypeOK`;
* `CallersStand`: while a host call is waited for, the call that made it stays in
  that wait and makes no other (without it an answer could set a finished thread
  back to serving);
* `LeasedAreBusy`: a leased worker's flag is set (without it `Acquire` could lease
  it again);
* `NewWorkersAreNew`: the name of a worker that was not started yet is in no list,
  slot or copied list (without it `Spawn` could reuse one);
* `LeasesAreExclusive`.

`VersionInv` adds

* `NewPoolsAreNew`: the name of a pool that was not made yet is in use nowhere;
* `DiskIsNewest`: no call and no pool is newer than the binary on disk;
* `UsedAreCurrent`: a call uses a pool no older than itself, and the workers in a
  list or a copied list are no older than their pool (without it
  `NoStaleBinary` is not kept by `Acquire`);
* `NoStaleBinary`.

A lemma for each way a thread moves says what it leaves alone (`StepIs`, `GoByIs`,
...). `QuietStep` and `VersionsKept` then do the many steps that neither take a
worker nor make one, and `LeaseNext` and `VersionNext` have one step per action.
Theorems: `PoolTypeCorrect`, `LeasesExclusive`, `NoBinaryIsStale`.

**`AgentOperationsProofs`** extends the proofs of the permission store and shows
first that a task's step is a step of the store or leaves it alone, and that a
restart keeps `GateInv` (callers and handlers become idle), so that its promises hold
under the tasks and over restarts. `OperationsInv` is the conjunction of `GateInv`,
`OperationsTypeOK`, and

* `TaskRefs`, `CallsBelong`, `OutcomeRefs`, `LinkRefs`: what tasks, the store's calls and
  the links refer to exists, and an approval was asked for the operation it is
  linked to (without it `Resume` could start another's operation);
* `AnsweredRefs`: what a handler or a resumption takes for approved was decided;
* `FreshOps`: an operation that was not started yet, while its performer lists and cancels
  those it supersedes, belongs to that performer alone and has no link (without it
  superseding could leave it active with no task);
* `ActiveHasATask` and `BlockedHasApproval`, which are `UnfinishedOperationsAreHeld`.

Theorems: `OperationsTypeCorrect`, `UnfinishedAreHeld`, `OnlyDecisionsResume`
(`ResumedByDecision`), `GateHoldsOverRestarts`.

**`ServerProofs`** is about the scheduler, and about the other components of the suite
`MCServer` and the suite itself.

* `SchedulerSpec => []SchedulerInv`: `SchedulerTypeOK`, `AttemptsLeft` (a run that
  executes has attempts left), `UnbornNeverRan`, and `HistoryCountsRuns`. The two action
  properties follow from it step by step.
* `RegistrySpec => []RegistryInv`: the types; what calls and viewers name exists
  (`CallsName`); the log ends with the published snapshot, and a viewer that does not have
  it has an event to come (`LogEndsWithGraph`, `ViewersAreTold`); `LeakedWorkersStartedLate`
  and `ClosedBeforeSwap`, about the workers a swap of the snapshot closes; and `CleanCalls`,
  what a call that was alone has reached between its steps (without it the last step of a
  change could publish what is not on the disk).
* `ContribInv`: the types, and what is stored, or is about to be, has a value for each required
  setting unless the settings were declared again meanwhile. That a merge is in order rests
  on counting, for an extension, those that come before it in a strict total order
  (`PrecedesIsAnOrder`, `SortGoesDown`).
* `ConfInv`: what a request under way has still to write (`DesksAreSound`), every setup is a request
  (`SetupsAreCalls`), a file nothing disrupted is at one request and torn only while that
  one writes it (`FilesAreOneRequests`), an initialized instance has its other files and stays so (`InitializedIsFounded`,
  `SetupStays`), and `VersionsAscend`.
* `ResInv`, `PkInv` and `SkInv`: what a request under way has read and has still to write
  (`ResDesksAreSound`, `PkDesksAreSound`, `VerdictsAreEarned`, `SavesReadTheSaved`), which
  agents are still to be moved (`MovingIsSound`), and that files and registry hold what was
  asked for unless requests overlapped or were cut (`FilesHoldWhatWasAsked`, `RegistryHonours`,
  `PackagesHonour`). `CommandIsSound` says of the packages a command has still to write that
  none was deleted or saved as blocked, and that requests it meets are mixed (without it
  `PackagesHonour` is not kept by `CommandOpensFile`); `VerdictsAreEarned` is about the
  package that a request began with, since the one there is may have changed.
* `DevInv`: what the supervisor is doing agrees with its phase (`TaskIsSound`), the processes
  are those of the builds it knows (`HostIsCurrent`, `WorkersAreCurrent`, `ApiIsKept`,
  `OneApiProcess`), the packages in it are those of the last build of the host, which are the
  present ones unless a package was edited since that build read them (`PackagesAreCurrent`: it
  follows the copy of the binary through build, installation, launch and roll-back), no build is
  of code still to come (`BuildsFromThePast`), and the watchers run from the end of the start on
  (`WatchersRun`: without it an edit of a crate during a rebuild could go unseen).

`ServerMoving` puts the last seven together over `ServerSpec`. The suite runs the gate and the
scheduler as well, and there the argument is another: every behavior of the suite is a
behavior of each (`ServerRunsGateAndScheduler`, for the scheduler without its fairness), so
what is proved of them holds in it. Theorems: `RecordsAreSound`, `FileIsKeptAlways`,
`EditsAlwaysOutliveRuns`, `RegistryShowsWhatIs`, and over the suite `ServerTypes`,
`SnapshotsTell`, `ContributionsLawful`, `StaysSetUp`, `FilesKept`, `ReadyVerified`, `OneApi`.

**`ExtensionStoreProofs`** proves `StoreSpec => []StoreInv`: `StoreTypeOK`, versions do
not run ahead of the clock, and

* `JobRefs`: a call names a record that is there and a time that was drawn;
* `VersionsGrow`: unless puts overlapped, the only one under way is about to give the
  version after the highest so far (without it two values could share a version);
* `ReadsAreCurrent`: unless updates of a record overlapped, the only one under way has
  read the payload it still has;
* `RecordsTellTheirState`.

It also proves `StreamSpec => []StreamInv` about `ConversationStream`, with the store it
reads moving underneath. `StreamInv` is `StoreInv`, the types of the rows and the counts, and

* `FreshTimes`: the time a call has drawn and not written yet is its own, and no row has
  it (without it a write could leave the latest time, which the poll reads, as it was);
* `NothingAhead`: the numbers a reader noted are not ahead of the tables, unless a write
  came with an older time than one before it;
* `ShownAsNoted`: while a number is as the reader noted it, what it counts is as the reader
  was shown it last (without it equal numbers would say nothing of the view).

`StreamKinds` adds what is missing for `StreamTypeOK`: the ids of operations are apart,
because an id is the number of operations there were and a change only moves a row, and
what a reader noted and was shown has the types of what is there.

Last it proves `MemSpec => []MemInv` about `MemoryStore`. `MemInv` is

* `RowsAre`, `TouchedOnce`, `ReceiptsAre`, `JobsAre`: rows, receipts and jobs have their types
  and name memories that exist, and every memory is once in the order of the updates;
* `Accounted`: unless reviews overlapped or one was cut short, the receipts of a memory account
  for its status together with the review of it that is still running, of which there is
  one at most, and which read the status the receipts led to (without it the receipt that
  is written after the status could break the chain).

Recall lists the memories by their last touch, and then cuts. The sum of the lengths,
the assembly of a context and the match of a namespace are recursive functions, unfolded
by one lemma (`Iterates`); that a match is a cut of the namespace into segments goes by
induction over the last segments (`CutsAre`), and that an assembly is a prefix, within the budget
but for its last memory, by induction over the memories taken. Theorems: `StateIsTold`, `ClosedRecordsLast`, `ReaderIsUpToDate`,
`StreamKeepsTypes`, `MemoryAccounts`.

**`ConversationsProofs`** proves `ConvSpec => []ConvInv`: `ConvTypeOK`, `CallsTyped`,
`IdsAreDrawn`, and

* `RowsAreSound` and `WritesAreSound`: every row, and every row a call has still to
  write, has an older parent and hides a message of another branch; and a call that
  makes a branch active writes its row before, if there is none (without the half
  about writes the properties are kept by no statement);
* `DeletionsAreWhole`: the statements that remove rows are only in the calls that
  delete the conversation;
* `ActiveIsKnown`;
* `AloneWritesLive`: while a call has overlapped with no other, all others are idle,
  and no row it has still to write as active was deleted (without it a branch could be
  revived by a call that was alone).

`Visible` and `Subtree` recur along the branches. They are recursive functions,
unfolded one level at a time, and what is needed of them at every depth is shown by
taking a least branch without it (`LeastOf`, `UpTo`). `Visible` is shown to hide the
source of an exclusive rewrite whatever the inherited view is (`Trim`), and `Subtree`
to contain a branch and its children. Theorems: `TreeIsSound`, `RevivalNeedsOverlap`.

It also proves `TurnsSpec => []TurnInv` about `ConversationTurns`. `TurnInv` is
`TurnsTypeOK` and

* `TurnWorkersSound`: where an invocation can stand (`SoundTurn`): the drive claims turns,
  hooks resume them, recovery runs the first steps of a turn only, and a loop that is
  parked or resumed has its operation and the calls it still has to make;
* `TurnsWereSent`: what is claimed, parked, waited for or recovered belongs to a message
  that was sent (without it a recovery could touch a message before its drive);
* `RunsAreConfirmed`: who works for a run belongs to a message that confirmed a plan (without it
  a receipt could be completed with nothing said for any message);
* `CompletedWereSaid`: a turn that is completed, or whose worker is about to say so, was
  answered, or it confirmed a plan and a run of it was set to work;
* `HooksAreTaken`: a hook is that of an operation that ended, one worker at most has it,
  and one that can still come has attempts left;
* `ParkedAreOwn` and `ResumedAreOwn`: a row, and a loop about to be parked, waits for its own
  operation, which nobody else parks; who resumes has the turn of its operation, and took
  the row away before it replies (without it two hooks could answer one loop);
* `AddressedAreClaimed`: who is addressed has a receipt or is still in the list of a
  drive that comes to it;
* `StartsAreSpentOnce`: the workers that may still come to say something of a loop, a direct
  reply or a run (`Acting`), and the row that a hook will still resume (`ToCome`), are at most the starts
  that were not answered yet and the workers that died. This is the balance the property
  rests on: each step moves one of them to the other side or spends a start, and a death
  in the middle of a statement adds one.

What a step does to its worker is one lemma per handler (`AnswersIs`, `GoIs`, `TakesLoop`,
...), and each conjunct has a step lemma over the few ways a worker moves: it advances its
turn, leaves it, starts one, or answers. Theorem: `TurnsSettled`.

**`ExtensionsProofs`** is about components of the suite `MCExtensions`, and about the suite
itself.

* `PipeSpec => []PipeInv`. `PipeInv` is `PipelineTypeOK` and `RequestsAreSound` (what a
  request listed is what ran and what is left; an agent is allowed what it is about to
  call; without it `Call` could run a rule out of turn or one never allowed),
  `DrivesAreSound` (a drive asked what it listed, in turn, and while it goes on every
  owner but those whose answers were lost is still to come), `DrivesFollow`,
  `FlipsAreCounted` and `BreaksAreRare` (a drive follows an event, knows no switch that
  did not happen, and ends early without an owner only after something outside
  broke), `HandlersKnowTheirMode`. Lists are sequences, so lemmas about prefixes and
  about one element that moves from one list to the next come first (`PrefixOf`, `OneMoves`,
  `PresentAreListed`).
* `PlanSpec => []PlanInv`: a draft is the normal form of what was written, and is ready,
  and the tasks are its steps. That the normal form is a fixed point (`NormalForm`) then
  gives `AcceptedPlansAreSound`.
* `TopicSpec => []TopicInv`: a reader that was not told of a change has a first signal, a
  lag, a relevant event in its queue, or a relevant event nobody published yet still to come
  (without the queue and the lag, `NoChangeIsMissed` is not kept when the channel drops the
  oldest event).

* `RunsSpec => []RunsInv` about `WorkflowRuns`. `RunsInv` has two parts of
  `RunsKeepToTheirPlans` (`ExecutedRunsHavePlans`, `RunningDraftsHaveRuns`), and
  * `RunTables`: the types, and every run is in the order of the updates (which gives
    `RunsTypeOK`, and that the run that `WriteStage` moves up was in that order);
  * `HandlersSound`: the draft and the run a handler works on are there, and a run that is
    executed, or will be once the session is cleared, has its plan (without it
    `ExecutedRunsHavePlans` is not kept by `SaveStage`);
  * `TakesAreSpentOnce`: the runs of a message and the handlers that may still make one of it
    are together no more than the times it was taken (without the handlers `EachTakeMakesOneRun`
    is not kept by `CreateRun`, since a recovery may meet a handler at work);
  * `SavedStagesAreLogged`: `StagesAreLogged` with the stage that is about to be logged: without
    it another worker that saved a later stage could leave the first one without an event.

  A row that is written keeps its draft, its message and its plan (`RowChanges`), so what a
  handler knows stays so (`SoundStays`); the steps then only have to say where one handler
  goes (`Lands`, `WorkerMoves`).

`MovingInv` puts these, `TurnInv`, `StreamInv`, `MemInv` and the types of topics and streams
together over `ExtensionsSpec`: `PartsStay` says that each component moves by its own steps or
not at all. `StoreInv` holds whichever component moves, because a step of the stream moves the
records as a call does, and `NothingIsStreamed` says that until then nobody polls them. The
conversations are in the suite as the gate is in the other: `SuiteRunsConversations`. Theorems:
`PipelineInvariant`, `DispatchesAccountedFor`, `PlansSound`, `TopicsMissNothing`, and over the suite
`DispatchedWork`, `PlansAreSound`, `ReadersAreShown`, `MessagesAnswered`, `RunsFollow`,
`MemoryRecalls`, `StateTells`, `ClosedStays`, `ExtensionTypes`, of which `RunsFollow` rests on
`RunsSettled`.

**Only model-checked**: what needs fairness (`RunningEnds`, `AnswerMovesOn`, `CallsEnd`, and
the liveness half of `ImplementsDelivery`), which is out of the prover's reach. Every safety
property of the passing runs is a theorem. The properties of the runs that expect a
violation are false of the code, and section 5 says in what way.

## 5. Where the code and its texts disagree

1. *A single-use grant may be used twice* (`gate_once`). `evaluate_request` reads
   the grant, `consume_grant` updates it later and nobody looks at the number of
   rows. `OnceOveruseIsBounded` says how far this goes: one run per concurrent
   execution.
2. *A superseded operation comes back* (`operations_slot`). `update_operation`
   overwrites by id, so the task of a cancelled operation marks it running, or
   blocked, next to the one that took its slot.
3. *The scheduler stops at the first due schedule* (`scheduler_due`).
   `run_due_schedules_once` keeps the guard of `try_lock` while it awaits
   `run_schedule_by_id`, which locks the same tokio mutex.
4. *A rebuilt worker blocks its extension* (`pool_rebuild`). `process_pool` locks
   the map of pools in the scrutinee of an `if let`, whose guard lives to the
   end of the body, where `remove_process_if_current` locks the map again. The first
   call that finds a pool of another version stops there with the mutex, and
   every later call, refresh and termination of any extension waits for it. A
   refresh could remove the pool before that, but it is triggered by a change of the
   registry's snapshot, in which a worker's binary has no fingerprint.
5. *A re-entrant host call may never end* (`pool_reentry`). When a worker calls the
   host and the host calls the same extension, the timeout of the inner call
   terminates the pool and waits for the worker that made it, which waits for the
   inner call.

## 6. What is not modelled, and the plan

Modelled with an abstraction: the outcome of a command, skill, provider call or
hook stands for the call; policies are the set of requests they ask about; the
fields of a row that no decision reads are left out; SQLite errors are modelled
only where the code goes on after one (`PostFails`, `MarkFails`, `CallFails` and the
failing accesses of `WorkflowRuns` and `MemoryStore`), so not those of the operations
database; of the files that the host embeds, templates without a watched ending are left out, and
so are worker binaries that are installed already; the memory order of threads is not
modelled, since the shared state is in SQLite, a file, behind a mutex or, for a
worker's busy flag, an atomic set by compare-and-swap.

Modelled in part: of the worker runtime the cache of compiled WASM modules (a map
behind one mutex, held for one step) and the threads that pump a worker's logs are
left out; of the workflow extension prompts, artifacts and queries; of the
conversation extension checkpoints, participants, handoffs and listings; of the
memory extension the graph sidecar and the configuration; of the resources
listings and validation; of the command line templates and the commands that call
the HTTP API. None of these decides anything about the state that is modelled.

Not modelled: the artifact runner and the OpenAI provider (adapters whose outcome is
an input of the operations and the turns), access to the files of an agent (path
resolution, sequential), logs and traces (append-only, nothing decides by them),
middleware (filters of single requests; the timeout is part of `Scheduler`), the web
client.

Some of what the code does is in the model and excepted by the properties, because no
requirement in the repository speaks of it: a completed deletion or save of a skill that a
command of the program undoes, a verdict on a skill that outlives the package it was made
for, an edit that is lost before the watchers start, and a builtin package that is edited
under `ennoia dev`. Of the last, `.helloagents/modules/extension-runtime.md` says that a change
below `assets/extensions` restarts the host: a change of a worker's sources restarts the
process, from a binary that embeds the files as they were, and any other is not sent at all.

What is left: the five hazards that `PROJECT.json` lists without a property, each with its
reason; the parts named above that are modelled in part; and a liveness argument for all
values of the constants, which these provers do not reach.
