# NexusOS verification project

TLA+ specifications of the core of NexusOS, TLC configurations that check them on small instances, and TLAPS proofs of
the properties that matter most. Every definition is translated from the source under `src/`; `PROJECT.json` names the
lines behind it (`map`), the runs, the mutants that show each property can fail, the hazards the properties answer to,
and the theorems.

    tlc -workers 2 -config <cfg> <module>      # one run, see "Runs"
    tlapm <module>Proofs.tla                   # the proofs: Backend, Orchestrator, Workflow, Stream, Memory,
                                               # Service, Runtime and SeqSelection, see "Proofs"

## 1. The system

NexusOS runs tasks that an AI plans and a human supervises. A **control-plane backend** (`services/backend`) owns the
tasks: it asks the policy service, issues a lease for each task, dispatches it and settles the receipt that comes back.
A **desktop agent** (`apps/desktop-agent`) executes: a scheduler queues requests, a workflow engine runs graphs of them,
an orchestrator executes one step under a lease, asks a human when one has to approve, and routes to a runtime
(terminal, file system, browser, local AI, plugins, devices). A **web dashboard** (`apps/web-dashboard`) follows what
happens over a server-sent event stream. Everything is TypeScript on one event loop per process, so concurrency is the
interleaving of handlers at their `await`s, of timers and of processes; the agent can crash and restart on what it
persisted; connections drop.

| Component | State | Operations | Interacts with | What is hard | What makes it correct |
|---|---|---|---|---|---|
| Task controller (`tasks/controller.ts`) | map of task records | createTask, createTaskGraph, cancelTask, settleReceipt | policy, lease issuer, dispatch bridge | a local copy of the record is stored again after each await | no lease without full approval, completion only on verified evidence, one settlement, terminal records final |
| Delegation coordinator, lease issuer (`agents/`, `leases/`) | leases, sessions, four indexes, revoked tasks | delegateSubTask, settleChildReceipt, handleChildFailure, cancelDelegation | agent directory, stream bus | chains of leases, late receipts, reused identifiers, the cancel cascade | authority shrinks, nothing runs or settles under a revoked task, retries start nothing |
| Agent directory (`agents/agent-directory.ts`) | agent records | register, heartbeat, discovery, retire, prune | delegation | ages of heartbeats, limit per tenant | well-formed records under composite keys |
| Telemetry bus and SSE connections (`events/`) | sequence, replay buffer, subscriptions, frame queues | publish, evaluateReplay, subscribe, drain, close | dashboard client | slow consumers, eviction, restart with a new epoch | no silent gap, subscriptions counted exactly |
| Dashboard stream client (`telemetry-stream-client.ts`) | connection state, cursor, three timers, attempts | connect, disconnect, read loop, reconnect, probe, watchdog | bus | aborts, timers and restarts of the page racing | one stream at a time, never stranded |
| Orchestrator (`orchestrator/`) | status map, replay table, slots, abort controllers, mutex | executeTask, cancelTask, shutdown | approval host, runtimes, state manager | many awaits and exits in one call | slots exact, a key runs once while it is remembered, an aborted call never succeeds, the mutex is given back, calls end |
| Approval host (`ui/approval-host.ts`) | prompts, timers, waiters, submissions | presentPrompt, waitForDecision, submitDecision, cancel, expire | orchestrator, users | decision, expiry, cancellation and abort racing across an await | one accepted decision, which backs what the executor is told; no prompt pending for ever |
| Execution queue (`scheduler/execution-queue.ts`) | five lanes, rotation per lane | enqueue, dequeue, remove, prune, aging, backoff | scheduler | limits checked at entry only; rotation over a changing set | limits always hold, bounded overtaking |
| Task scheduler (`scheduler/task-scheduler.ts`) | queue, loop, durable index and records | scheduleTask, processNextItem, cancelScheduledTask, initialize | queue, orchestrator, state manager | two takers of one item, index read and written around awaits, crash | one owner per item, what is queued is stored, listed and gets taken |
| Workflow engine (`workflow/`) | workflows, node states, checkpoints | executeWorkflow, cancelWorkflow, maintenance, initialize | scheduler, state manager | nodes of a tier side by side, compensation, restart | one executor, dependency order, complete compensation, no tier after a cancellation but the one it had come to, no workflow running for ever |
| Encrypted state store (`state/`) | records, primary, LKG and temporary files | load, set, delete, flush, restoreLKG | everything durable | crash between two file operations, damaged files, shared flush | acknowledged writes survive, one damaged file costs one flush |
| Memory store and graph evolution (`services/backend/src/memory/`) | records with versions, graph nodes and edges, outbox of evolutions | createMemory, updateMemory, tombstoneMemory, processRecord, drainPending, evolveCandidates | SQLite, extractor | rows read before an await and written after it, retries, leases, crash between application and completion | a write and its delivery are one, each delivery ends once, evolutions do not undo one another |
| Agent lifecycle (`agent.ts`, `lifecycle/`) | state, heartbeat timer, IPC state | start, stop, heartbeat | every service | start and stop calls overlapping at their awaits | no half-finished transition without a call that finishes it |
| IPC (`ipc/`, the handlers of `agent.ts`) | sockets, map of clients, rate windows, requests | connect, request pipeline, handler against its timer, stop | lifecycle, all runtimes | a gate passed before an await is stale after it; a handler goes on behind its timeout | a component is reached only through all gates of its method; sockets tracked |
| File system runtime (`runtimes/filesystem/`) | files, snapshots, jails | seven operations, restore, sweep | leases | a snapshot taken, another call in between, a directory with its backups deleted, a crash | what is destroyed of a file can be had back |
| Terminal runtime (`runtimes/terminal/`) | table of children, timers, buffers | executeCommand, killProcess, shutdown | operating system | deadline, exit, close, kill and a refused kill in any order | no unsupervised child, exact truncation |
| Browser runtime (`runtimes/browser/`) | sessions, profiles on disk | create, navigate and the others, clear, shutdown | leases | limit checked around an await | limit, ownership and profiles |
| Plugin runtime (`runtimes/plugin/`) | catalog, quarantine store, host count | verify, install, activate, invoke, suspend, quarantine | leases | operations asked for before a quarantine and run after it | a quarantine holds |
| Device and clipboard runtimes (`runtimes/device/`, `runtimes/clipboard/`) | operation count, clipboard, auto-clear timer | device operations, stop and restart; read, write, clear | adapters | a stop under running operations; two timers and texts that are equal | nothing is left after a stop, a sensitive text is watched |
| Local AI (`runtimes/local-ai/`) | catalog, files, active models, reservations | acquire, evict, infer, shutdown | files, engines | several awaits between choosing a victim and unlinking it; resets under running inferences | what is listed can be loaded, totals exact |
| Updater (`updater/`) | update state, manifests, package and snapshot files | check, download and stage, activate, roll back, shutdown | files | every file operation is an await; calls share temporary files; crash or shutdown in between | an activation can be undone; no half-written package is activated unless downloads or activations overlap |
| Vault client (`vault/`) | secret leases, revoked references, fingerprints | resolve, inject, revoke, shutdown | leases, runners | a resolution suspended while its reference is revoked or the vault shut down; references that share a secret; payloads the agent makes up | a secret that ended is never injected, an injected one is redacted unless another reference's end unmasked it |
| Configuration (`config/`) | active configuration, last known good, observers | signed and plain updates, roll back | everything | the active configuration is read before the signature is verified and replaced after | updates take effect one after the other |
| Notifications, telemetry spool (`notifications/`, `telemetry/`) | bounded queues and their files | notify, read, act, lock; track, flush, clear | users, backend | limits, eviction, coalescing, writes that fail, restart | what is urgent is kept |
| Memory cache (`memory/` of the agent) | entries, total size, four indexes, cleanup timer | put, get, remove, clear by task, workspace, lease or policy, sweep | control-plane client, runtimes | removals are awaited one by one, some are not awaited at all | ceilings hold, a clear finds what it should |
| Control-plane client (`communication/`) | connection state, timers, spool, durable copies of events, processed identifiers | start, register, relay, drain, disconnect, incoming frames | transport, state manager, leases | overlapping starts, a transport that closes under one, retries, redelivery | a link that is down is retried, no event is lost, no command runs twice |

Not modelled, with the reason or the plan for each (`PROJECT.json`, `components`), are the planner, health and crash
recovery, the agent's client of the memory routes, the HTTP server, identity and policy, and the dashboard's views and
projection. The map covers a little over a third of the implementation's lines.

## 2. Modules

A step of a module is the code between two awaits, or a whole call when it has none. `pc` variables say at which await a
call is suspended; history variables are marked as such where they are declared. Requests that the code refuses before
it changes anything are stuttering steps and have no action.

| Module | Models | State and actions |
|---|---|---|
| `TaskController` | createTask and createTaskGraph, cancelTask, settleReceipt | `tasks` the map, `local` the copy a suspended createTask holds, `receipts` in flight (duplicated, damaged, late) |
| `AgentDirectory` | the directory | `agents`; the age of a heartbeat is the outcome of the two comparisons made with it |
| `Delegation` (EXTENDS `AgentDirectory`) | coordinator, lease issuer, attenuation | `leases`, `sessions` and the three indexes as partial functions; the breadth-first walk of cancelDelegation is the least closed set |
| `BackendProofs` | proofs about `TaskController` and `Delegation` | |
| `StreamBus` | bus, replay buffer, SSE connections | events are their numbers; one tenant (every map is keyed by tenant); a replay is the set of numbers it shows, in their only increasing order (`InOrder`) |
| `StreamClient` (EXTENDS `StreamBus`) | the client on top of the bus | attempts from the request to the end of the read loop; timers as enabled actions |
| `StreamProofs` | proofs about both | |
| `ApprovalHost` | prompts and decisions | `submission` is the suspended submitDecision of each user |
| `Orchestrator` (INSTANCE `ApprovalHost`) | executeTask with its approvals | `pc` per call, `lock` the mutex across an await; the replay map is `admitted`, the calls in their order, of which it has lost the oldest `forgotten` |
| `OrchestratorProofs` | proofs about both | |
| `SeqSelection` | Array filter and splice | `ItemsAt` and `Without`, in closed form |
| `SeqSelectionProofs` | lemmas about them | |
| `ExecutionQueue` | lanes, admission, rotation, aging, retries | `served` counts how often each tenant overtook a waiting item (history): in the lanes CRITICAL, INTERACTIVE and BACKGROUND, since NORMAL's items leave by aging too and RETRY has no rotation, and until an item is canceled or expires (`disturbed`) |
| `TaskScheduler` | scheduler with its persistence | `held` is what handlers have read of the durable index; reads share the stored array; `boot` is how far initialize has come; `lost` are entries another handler's write took out, `enqueued` the calls that queued an item (history) |
| `WorkflowEngine` | DAG tiers, nodes, compensation, checkpoints | the scheduler is seen through its answers |
| `WorkflowProofs` | proofs about it | |
| `StateStore` | state manager and encrypted store | files hold the number of the write they contain, or are damaged |
| `MemoryStore` | tables of one tenant and workspace | each store operation is one transaction, so a function from tables to tables; a content is what the extractor finds in it; a listing of pending rows is a list of them in increasing order of creation |
| `MemoryEvolution` (EXTENDS `MemoryStore`) | the service's calls, the outbox processor and the evolution engine | `call` is what each suspended call has in hand; leases and backoffs are running or over |
| `MemoryProofs` | proofs about both | |
| `AgentLifecycle` | start, stop and heartbeat of `agent.ts` | `boot` and `halt` say at which await each call is; every awaited service may fail where its failure reaches the caller |
| `AgentIpc` (EXTENDS `AgentLifecycle`) | endpoint, request pipeline, the gates of every registered method | `req` is each request and the gates it has passed (`vetted`, history) |
| `FileRuntime` | operations, snapshots, jails, crash | a content is named by the call that wrote it; `CanonicalPath` says what a path resolves to, `Under` what a directory holds and `StoredIn` where backups are; `fsRaced`, `fsSwept`, `fsRazed` are history |
| `TerminalRuntime` | commands and their children | `child` is what the operating system knows, `activeProcesses` what the supervisor knows; output is counted; `unkillable` are children the operating system refused to kill (history) |
| `BrowserRuntime` | sessions | a session is named by the call that created it |
| `PluginRuntime` | catalog and quarantine store | a package is what the verifier and the gateway tell apart |
| `DeviceRuntime` | device operations, stop and restart | `outlived` are the operations the last stop found at their adapter (history) |
| `ClipboardRuntime` (EXTENDS `DeviceRuntime`) | leased writes, the auto-clear timer | `clipTurns` is what follows the provider's awaits, in the order of the event loop |
| `LocalAi` | model cache (acquisition, verification, promotion, eviction), governor, placement of layers, inference, shutdown | `acq` is each acquisition with the victims it chose; a file is good or bad, and its removal may fail; memory in units; hardware sampled anew for each inference |
| `UpdateManager` | updater and staging store | a package is named by the release whose hash it has; `updCall` is the await each call is at; a copy or a write is a step that starts and one that ends, with the file torn in between; `contended` and `overlapped` are the activations and downloads that shared a temporary file (history) |
| `VaultClient` | secret leases | a payload is named by the call that resolved it; `unmasked` are secrets that another reference's end, or a revocation with another's payload, took out of the registry (history) |
| `ConfigManager` | the layered configuration | `configCall` is what a suspended signed update has read |
| `Notifications` | queue and its file | each call runs to its end; every write may fail |
| `TelemetrySpool` | spool, back-pressure and its file | as above; an item counts one byte |
| `MemoryCache` | cache manager and store of the agent | an entry is named by the call that put it; the four indexes are one, over tags; which entries are least recently used is left open |
| `ControlPlane` | control-plane client, connection states, relay, commands | `startCall` is the await each start is at, `relay` where each relayEvent is; `released`, `cutOff`, `relayed`, `received` are history |
| `ServiceProofs` | proofs about `AgentLifecycle`, `AgentIpc`, `VaultClient`, `ConfigManager`, `ControlPlane`, `UpdateManager`, `StateStore`, `TelemetrySpool`, `Notifications`, `MemoryCache` and `ExecutionQueue` | |
| `RuntimeProofs` | proofs about `PluginRuntime`, `TerminalRuntime`, `BrowserRuntime`, `DeviceRuntime`, `ClipboardRuntime`, `FileRuntime`, `TaskScheduler` and `LocalAi` | |
| `MC*` | instances for TLC | constants, symmetry, views; `MCAgentServices` puts the services of the agent into one run |

Five compositions are checked as wholes: memory service with store (racing calls on the same tables), orchestrator with
approval host (the executor's wait and the users' decisions), stream client with bus (cursor and replay), IPC with the
agent's lifecycle (requests across a stop and a restart), and inferences with the model cache (generation and eviction).
`TaskScheduler` sees the orchestrator through its status map, replay table and slots, and `WorkflowEngine` sees the
scheduler through its answers.

Data left out everywhere: payloads, formatting, hashes and signatures (a signature verifies exactly when the signer wrote
what it covers), wall-clock values except in `Delegation`, logging and redaction.

## 3. Runs

Sizes are distinct states. Each property of a passing run has a mutant in `PROJECT.json`: a plausible slip in the code,
defined in the module before the definition it replaces, under which TLC finds the property violated.

| Run | Instance | Shows |
|---|---|---|
| `task_controller` | one single task, one graph of two nodes | `FailClosed`, `CompletedOnEvidence`, `SettledOnce`, `TerminalIsFinal`, and `ReportSettles` (a reported outcome ends the task) |
| `task_lost_cancel` | the same; expects a violation | a cancellation accepted while createTask awaits is overwritten and the task completes |
| `orchestrator` | two or three overlapping calls of one task (asking a human, plain, redelivered), two users, two slots, a replay map of two records that loses one when it is full; 170 k | `ResourcesExact` (slots and mutex), `RunsOnceTruthfully` (a key runs once while it is remembered, an aborted call never succeeds), `DecisionsAreSound` (one accepted decision, which backs the answer; no prompt pending without a way to end), `ExecutionEnds` |
| `task_scheduler` | two calls with a task each, one slot, one retry, one crash; 966 k | `OwnedAndStored` (one owner; record and index entry of what waits), `QueuedIsTaken` |
| `scheduler_duplicate` | the same without retry; expects a violation | an item taken while its call still persists it is restored after a crash and runs again |
| `workflow_engine` | two calls, two workflows, three nodes as a chain, a fork, a join, a cycle and a loop, one crash; 913 k | `OneExecutor`, `TiersInOrder` (dependencies first, no tier after a cancellation but the one it had come to, complete compensation), `RunningEnds` |
| `telemetry_stream` | two responses, replay of two, queue of one, three events, two epochs, two starts, one stop; 3.5 M | `StreamsBounded` (subscriptions counted exactly, one stream), `NoSilentGap`, `NeverStranded` |
| `delegation` | one root, two children, two identifiers, keys and scopes, lifetimes 1 and 2 on a clock to 2, depth 2, fan-out 1; 167 k | `AuthorityShrinks`, `RetryMintsOnce`, `NothingRunsUnderRevoked`, `NoLateReceipt` |
| `memory_evolution` | two calls at a time, three requests of clients for one record with two versions, any number of drains, two attempts, one crash; 387 k | `DeliveriesExact`, `NothingIsUndone` (a delivery ends once, graph versions only grow), `OutboxDrains` |
| `memory_lost_refinement` | two records, no crash; expects a violation | a plan made before a node was revoked and created anew passes the version check |
| `agent_services` | the twenty-one instances below, one per behaviour; 1.3 M | see the next table |
| `model_evicted_in_use` | two models of which the cache holds one, two acquisitions, two inferences; expects a violation | the first of two inferences to end marks their model inactive, and an acquisition picks it as its victim while the other still generates |

The initial state of `agent_services` picks the service that moves (`focus`). The services share no state but the
lifecycle, so moving several in one behaviour would only multiply their states; a view leaves out the variables of the
others, which never change. All invariants are checked in every state.

| Service | Instance | Invariant |
|---|---|---|
| lifecycle | two starts, two stops, two heartbeats | `TransitionsOwned` |
| IPC with lifecycle | two requests, two connections, limits of one and two, starts and stops with a total effort of five | `EndpointIsGuarded` (sockets tracked, every effect behind all its gates) |
| execution queue | three tenants, four tasks, capacity 3, quota 2, reserve 1; 26 k | `QueueIsFair` (limits hold, overtaking is bounded) |
| state store | two keys, three writes, two crashes, one damaged file, four of these together | `StoreIsDurable` (acknowledged writes survive, one damaged file costs one flush) |
| file system | two calls; a file in the workspace, an existing one behind a link, a secret, the root directory with the file and the backups, a directory it can be moved to; a crash | `ReplacedIsKept` |
| terminal | two commands, a buffer of one | `ChildrenSupervised` |
| browser | three calls, two callers, session limits 1 and 2 | `SessionsContained` |
| plugins | one plugin, three calls, one host | `QuarantineHolds` |
| device | three operations, limit one, two stops | `ClipboardsContained` (a stop leaves nothing) |
| clipboard | four writes, two of the same text | `ClipboardsContained` (a sensitive text is watched) |
| model cache, inferences | two models that each fill the cache, two acquisitions with one inference, three inferences after one acquisition | `ModelsAccounted` (what is listed can be loaded, the governor's totals are exact) |
| updater | three calls, and a fourth that is an activation overlapping with another; two releases, any number of shutdowns and crashes | `UpdatesCanBeUndone` |
| vault | three resolutions, three references of which two have the same secret, limit one | `SecretsEnd` |
| configuration | three updates, two settings, envelopes with one of two revisions or none | `ConfigIsSerial` |
| notifications | four notices of which one is not urgent, capacity 1, at most 2 | `UrgentIsKept` |
| telemetry spool | five events of which three are critical, capacity 1, at most 2 | `UrgentIsKept` |
| memory cache | four puts of two keys, two tags, two clears; at most 3 bytes and 2 entries | `CacheIsBounded` |
| link to the gateway | two overlapping starts; one start that drains an event and a rejected frame; two commands in three deliveries, identifiers kept above one | `LinkHolds` |

The modules of the backend, the orchestrator, the scheduler, the workflow engine and the store state a type invariant,
which documents their variables and which their proofs start from. Types are proved as
part of every inductive invariant of section 4; the runs list only the properties that say something about the code.

**Bounds.** Every bound is a constant of its module. They are chosen so that each limit in the code is reached: the
queue fills and uses its reserve, the slots run out, the replay buffer evicts, a response saturates in the middle of a
replay, the retries are spent, a second crash hits the state the first one left, a lease expires with a receipt in
flight, a reused delegation identifier takes a session over. Counts of two or three are enough for these properties because each is about
a pair (two takers, two writers, two submitters, parent and child) and what a third one does in between. In `delegation`
the directory moves freely until the first delegation (`DirectoryHorizon`, `DirectoryBound`): the coordinator reads an
agent's presence and workspaces, never its health. `telemetry_stream` uses a view that leaves out what cannot
matter again (a response that ended and that no attempt waits for, what was written to one nobody reads, the history of
an earlier epoch), and symmetry over the responses; both are used with safety properties only. In `orchestrator`
nobody cancels or decides when all three calls come, and a record lapses when the message comes twice and no other does. In `agent_services`, calls
that differ only in their name start in the order of their names (`InOrder`), the first write of the store is to one of
two keys that are alike, one of the two commands writes output, and a request for a method other than `filesystem.writeFile`,
which has every gate, comes alone; two acquisitions race with one inference, or three inferences run after one
acquisition (`Working`, `Acquiring`); a call of the file system that only reads
runs alone, beside one on a directory the other writes or deletes the file in it, and the jail changes until a call has got past its
lease; the third operation on the device writes the clipboard; the third call of the browser comes when the first has its lease; the third
of the updater comes after the first unless downloads have overlapped, the fourth is an activation that overlaps with another of the same
release, and each downloads the package of the release checked last; the first of the vault's calls is not for the
second of the two references that share a secret, and the third is for one of the two; two of the entries of the memory cache expire; while the screen is locked no notice is read or becomes due. Which of several equivalent
states TLC meets first depends on its scheduling, so the number of states varies a little from run to run.

**Deadlock** is not checked where the instance really comes to rest (all calls returned, all bounds used). It is checked
in `delegation`.

**Fairness.** Only what the program or its environment is bound to do is fair; users, cancellations, crashes, lost
connections and faults never are.

- `TaskController`: each suspended createTask segment goes on (policy and publisher promises settle), and a receipt that
  arrived is handled.
- `Orchestrator`: strong fairness for the next segment of each call, because the mutex is granted first come, first
  served while the model grants it in any order (this includes that the calls of the instance are made and that runtimes
  end); weak fairness for the timeout timer and the return of cancelTask. Users need not answer, and prompts need not expire: `ExecutionEnds` holds
  because the task timeout aborts the wait.
- `TaskScheduler`: each suspended call, the loop and a cancellation go on, and the orchestrator ends what it executes; the maintenance interval starts the loop again.
- `MemoryEvolution`: calls go on (the store answers), leases and backoffs run out, and drains are run again and again
  ("upon system startup, scheduled intervals, or maintenance tasks", `memory-service.ts`; nothing under `src/` calls them
  yet, so `OutboxDrains` is about a deployment that does). A lease or backoff does not run out while a call has the
  delivery in hand: every await of a call is on the store, which is synchronous, the shortest backoff is two seconds and
  the lease is five minutes.
- `WorkflowEngine`: the maintenance interval runs and time passes (a workflow becomes overdue). Nodes need
  not answer: `RunningEnds` holds because maintenance expires what hangs.

## 4. Proofs

TLAPS proves for every value of the constants what the runs check on an instance. `Typing`, `DelegationTyping` and
`FanOutIsBounded` are proved without a run that lists their invariant.

Every invariant that a passing run checks has its theorem, and so have the action properties.

`BackendProofs`, the task controller: `Typing`, `PolicyFailsClosed`, `CompletionNeedsEvidence`, `AtMostOneSettlement` and
`TerminalRecordsAreFinal`, for every set of tasks and every number of policy checks. The inductive invariant is `TypeOK`,
`CreationOrder`, `CompletedOnEvidence` and `SettledOnce` together. `CreationOrder` is what carries it: it says what the
stored and the held record may be at each await of createTask, including that a cancellation or a settlement may have
changed the stored one; without it the store after an await could overwrite anything. One proof step per action; the
action property follows from the same lemma. Assumption: `Checks` gives each task a positive number of evaluations.

`BackendProofs`, the delegation: `DelegationTyping`, `DelegationAttenuates`, `RetryIsIdempotent`, `CancellationHolds`,
`LateReceiptsAreRefused` and `FanOutIsBounded`, for every set of tasks, tenants, agents, scopes and lifetimes, every
depth and fan-out limit and every clock. The inductive invariant adds two facts to the properties: `Indexed` (a session
is filed under its own parent, and the lease of its child names that parent) and `Keyed` (each minted child has its key in the
idempotency cache). Attenuation goes by the root of a chain: a new lease is cut from the presented one, which verifies
only if it is the stored one, which is within its root by induction. The cancellation rests on `CascadeIsClosed`: the
walk visits the child of every session it cancels, so whatever is filed under a task it revokes has been cancelled or
was over. `LateReceiptsAreRefused` needs `Indexed` to show that a session found through a reused identifier cannot take
another child's receipt. Assumptions: root and child identifiers are disjoint, the limits and lifetimes are natural numbers,
there are finitely many delegation identifiers.

`OrchestratorProofs`: `ResourcesAlwaysExact`, `RunsAlwaysOnceTruthfully` and `DecisionsAreAlwaysSound`, for every set of
users, every finite set of calls, any tasks and any concurrency limit. Each has an inductive invariant of its own.
`SlotIInv` is the property with types; the count of slots goes by adding or removing one holder. `KeyIInv` says of the records the
replay map has lost that they had lapsed, or that as many calls followed as the map keeps when it evicts (`PruneForgetsOld`). `TruthIInv` adds that an abort controller is filed under the task of its call, and that a call with a
successful outcome is out of reach of its timer and of cancelTask. `HostIInv` adds that what is undecided, or has a
submission under way across its await, has no accepted decision yet, and that a pending prompt has its timer exactly when
no submission cleared it.

`WorkflowProofs`: `AlwaysOneExecutor` and `TiersAlwaysInOrder`, for every finite set of calls, workflows and nodes, every graph,
limit and number of restarts. `ExecutorIInv` says that a call executes an admitted graph and that a restart leaves no call
running. The capacity half of `OneExecutor` counts executing calls: the map `activeWorkflows` itself can grow past the
limit when a restart restores checkpoints, which came up when the proof of the stronger statement failed. `OrderIInv` says of each
executing call that the tiers before its own have succeeded and the later ones are untouched, that a cancelled workflow
has at most started the tier it had come to, and, while it compensates, which nodes have been undone and in which
order (`Undoing`). `TiersAlwaysInOrder` has the hypothesis `ParserIsSound`: what parseAndValidate accepts it orders so that each node
comes after all it depends on. That is a fact about a loop over data; TLC checks it for every graph of three nodes spread
over dependencies and edges (`ParserChecked` in `MCWorkflowEngine`).

`StreamProofs`: `StreamsAlwaysBounded`, `ClientIsNeverStranded` and `NeverASilentGap`, for every finite set of responses, any number of events,
restarts and calls of the page, and any capacity of the replay buffer and the queues. `BusIInv` says that the replay
buffer is in order and misses nothing from its oldest event on, and that a response that accepts data has nothing queued.
`ClientIInv` says which timer carries the client on in each state, an aborted attempt whose handler is still to run
included. `GapIInv` is about the frames between server and client: what an attempt has still to read is either left over
from an earlier epoch, on a stream that is closed, or follows on the cursor without a hole (`Knows`); for a subscribed
response it reaches to the last event. Assumption: the workspace markers and the marker of a refused envelope are distinct.

`MemoryProofs`: `DeliveriesAreAlwaysExact` and `NothingIsEverUndone` (an action property), for any records, contents, calls, attempts, list limits
and crashes. `DeliveryIInv` says what a suspended call still knows of the delivery it listed or claimed: a listed attempt
count is right if the row can still be claimed (`Listed`), a claimed row is the claimer's alone (`Owns`), and a write whose
version check would pass has the delivery of the version it makes (`WriteFits`). `GraphIInv` adds that the row a plan was
made from is unchanged or has a later version, as long as nothing was forgotten; the run `memory_lost_refinement` shows
that it is not so afterwards. Both were checked with TLC on two records (8.9 M states) before they were proved.

`ServiceProofs`: one theorem for each service.

| Theorem | What the inductive invariant adds |
|---|---|
| `TransitionsAlwaysOwned` | types only |
| `EndpointAlwaysGuarded` | which gates a request at each phase has passed; nothing is open while stop() closes the endpoint |
| `SecretsAlwaysEnd` | a payload that is out has a revoked reference, or a leased one that is redacted or known to be unmasked; while resolutions do not overlap there is room for the one under way |
| `ConfigAlwaysSerial` | the layer of the configuration is that of the last update |
| `LinkAlwaysHolds` | a start past its connection has a transport unless it was cut off; a command awaiting its lease is the only one of its identifier |
| `UpdatesCanAlwaysBeUndone` | the temporary snapshot a call may rename belongs to a call that still waits to; which file each suspended write or copy goes to, after the renames of others; without overlapping downloads, or activations, the temporary file is whole when it is renamed |
| `StoreIsAlwaysDurable` | what flushInternal has done at each of its steps, and that memory and files each hold the acknowledged writes and the write about to be acknowledged |
| `UrgentIsAlwaysKept` (from `SpoolAlwaysKeepsCritical`) | the file is within the bounds the queue is within and lags behind it only when the queue reports itself full; the bytes counted are never fewer than the items |
| `CacheAlwaysBounded` | an entry belongs to a put that has stored it, and is filed under its tags unless a clear dropped that since; a clear under way still has before it what it has to remove; as long as no two puts collided the total is exact |
| `QueueAlwaysFair` | whose turn it is, see below |

References may share fingerprints, and a revocation may come with any payload. The store's bounds on writes, crashes and damage may be any natural numbers.

`QueueAlwaysFair` holds for every finite set of tenants and any natural capacity, quota and reserve. Its first half, that the
limits always hold, is a count of the items in each lane and of those of each tenant: an aging item moves from one
lane's count to another's. Its second half, bounded overtaking, rests on `TurnsKept`. Only the place of each
tenant's oldest item matters (`Fronts`), since the rotation goes over tenants in that order. Of a waiting item w with b tenants
behind it, another tenant is served at most b times before w, once more if that tenant is ahead of w and this round has come
to it, and once less if it is behind w and this round has not come to it (`Due`); while w waits, the tenants ahead of it only get fewer.
The invariant was checked with TLC first, with three tenants, capacity 6 and quota 3.

`RuntimeProofs`: `QuarantineAlwaysHolds`, `ChildrenAlwaysSupervised`, `SessionsAlwaysContained`, `ReplacedIsAlwaysKept`, `ClipboardsAlwaysContained` (from
`StopAlwaysLeavesNothing` and `SensitiveIsAlwaysWatched`), `ItemsOwnedAndStored` and `ModelsAlwaysAccounted`. The first two need little beyond types. For the sessions the limit has to be stated of every
subset of the sessions, because clearing any of them must keep it. For the children: one that lives is waited for, or could not be killed and its call
has ended with the error. For the files a backup matches the file until its call has changed it, unless another call was faster, a shutdown swept it, or a
directory around it was deleted or moved. The clipboard's invariant is about the order of the
provider's turns: behind the turn of the write whose text is on the clipboard nothing waits that would disarm its timer.

`ItemsOwnedAndStored` is about the task scheduler, for any set of calls and any limits, retries and crashes. Calls may share tasks; the statement is about the items of
a task that one call has queued (`Alone`), since queue, records and index go by the task. `SchedulerIInv` says where items come from (`AreEnqueued`),
what there can be of a task that initialize has not looked at yet (`Booting`), and of each call with a task of its own that one of the queues, the loop or
the call holds its item (`OneToken`), that an item waiting in a queue has its record once its call has persisted it (`Persisted`) and its entry in the
index unless another handler's write took it out (`Entered`), and that nobody has an item that a cancellation under way took out (`CancelAlone`).

`ModelsAlwaysAccounted` has one invariant for each half. `ModelCacheIInv` follows a file from its download to the catalog
(`OnItsWay`; what failed may stay in staging for ever) and says what the catalog lists can be loaded (`Loadable`), overlapping acquisitions of one model included; the one way out
is a file unlinked between its rename and its entry in the catalog (`raced`). `GovernorIInv` says what the plan of each
running inference takes and that it fits, and that the governor's totals are the sums of its reservations. The sums are
cardinalities (`Total`), so that adding and removing a reservation is a fact about finite sets.

`SeqSelectionProofs` holds the lemmas these proofs share. The queues, the spool, the notices and the model cache filter arrays and cut elements out
of them. A loop that does so would need induction over data, so both are written in closed form, and the lemmas
say that the selected items, and no others, are kept, each once and in their order.

Only model-checked:

- liveness (`ReportSettles`, `ExecutionEnds`, `QueuedIsTaken`, `RunningEnds`, `OutboxDrains`), which is beyond this prover;
- that parseAndValidate orders what it accepts (`ParserIsSound`): a loop over data, which needs induction over data.

## 5. Where code and description disagree

Four disagreements are runs that TLC refutes, listed as `findings`: a cancelled task that completes
(`tasks/controller.ts:858`), a task executed twice after a crash (`task-scheduler.ts:207`; the design says "never
duplicate"), a model evicted while an inference generates with it (`model-cache-manager.ts:781`; the comment at 728 says
"Protects active models."), and a graph node overwritten although its version is checked (`graph-evolution-engine.ts:642`; it takes a
long list of candidates, since the awaits on this store are answered in turn). The others were met while modelling and are recorded in the modules as they are in the code, or left to
the reader:

- *Task controller*: a verified receipt of a cancelled execution never settles its task: settleReceipt goes from
  RECEIPT_VERIFIED to CANCELLED (`controller.ts:1482`), which the state machine forbids (`state-machine.ts:51`;
  `task_047_discovery_report.md:212` lists the transition), so it throws each time the receipt comes.
- *Delegation*: "Cascade cancellation of parent task and all descendants" stops at COMPLETED children, whose own active
  children go on (`delegation-coordinator.ts:509`); handleChildFailure overwrites COMPLETED and CANCELLED (561); a
  settled session can be settled again, and times out when its second receipt is late (351-356); the delegation identifier
  of a request is not checked for uniqueness (260); "Target Agent Discovery & Health Check" looks at neither status nor heartbeat
  (207); a composite receipt is SUCCESS while children are active (449); a session whose child never reports holds its
  fan-out slot for ever, since TIMED_OUT is set by a late receipt only. *Directory*: a heartbeat takes a retired agent
  back, and registering again does not.
- *Approval host*: submitDecision stores the decision again after its await (386); a refused decision never answers the
  waiter (375).
- *Orchestrator*: a cancellation before the abort controller exists is lost (403); two calls of one task both execute
  when they come close together, since the check for a RUNNING record (193, "Collision Protection") and the record itself
  are awaits apart; a full replay map loses its 2000 oldest keys, also of calls that still run (789-796); some exits
  leave RUNNING behind (390).
- *Execution queue*: when items leave by cancellation or expiry between turns, the rotation can pass the oldest tenant
  over again and again (219).
- *Task scheduler*: two handlers read the index and the later write drops the other's entry (202-205), so that a task is
  queued and stored and a restart does not find it (`lost`); a cancelled task restored after a crash (105), retries refused as replays
  (412), the duplicate check looks at one item (77), so that a task can be queued twice behind another, and then a call
  takes the other's item out of the queue (318), results of enqueue ignored (429), a throw in the loop unhandled
  (360); `initialize()` is not called by `agent.ts`. Calls that share a task are covered by the theorem; an instance of three of
  them is past 17 M states.
- *Workflow engine*: the cancellation flag is read before the lease is validated again (437), so the tier reached starts
  all the same; an `expiresAt` that does not parse would never lapse (278): the contracts ask for a date-time
  (`contracts/src/tasks/index.ts:209`), which the engine does not check and the model takes for granted; a cancellation accepted during the last tier is overwritten (490, 474); the abort signal has no
  listener; "queued" counts as completed; finished workflows count against the limit (225); restored workflows are never
  resumed.
- *State store*: a write before the load overwrites the files (`state-manager.ts:181`); a failed load leaves
  `isLoaded` set although the comment says it fails closed (284); with the primary missing and the LKG damaged it loads as
  empty.
- *Telemetry*: without a cursor (before the first event, after a reset) a reconnect skips what was published meanwhile
  and the dashboard does not reload; no timeout while connecting; a missing token goes OFFLINE with no retry (196);
  publish takes a sequence number before it validates (286).
- *Memory*: a delivery is evolved with the current version of its parent, so the fence "incoming version < applied
  version" does not stop a late delivery of an older version (`memory-evolution-processor.ts:185`,
  `graph-evolution-engine.ts:282`), and it compares versions of different records; a replay after a crash is not "without
  version bump": it refines again, or supersedes again, and since the canonical row is looked up each time, several
  replacements of one fact stay current; a refined node stays with the record that created it, so forgetting another
  record that was merged into it leaves its properties, and an evolution in flight brings the graph of a forgotten
  record back; records tombstoned by the cascade keep their graph; `ignoreLeaseTimeout` lists records whose claim is then
  refused and counts them as completed; the backoff is capped at 30 seconds.
- *Lifecycle and IPC*: a DEGRADED agent recovers only through a heartbeat that was sent before, since the next one is
  sent in READY only (`agent.ts:3077`).
- *File system*: deleting a directory is a recursive removal without a backup (`runtime.ts:584`, `snapshot.ts:32`; the
  agent's README has "backup copies ... for overwrites, moves, and deletes"), also of the root of the workspace with the
  backups in it; moving one renames it and then fails; a copy overwrites its target without a snapshot; a copy is not atomic, so a crash leaves half a file; a snapshot is taken before an await and is stale
  when another call changes the file in between.
- *Terminal*: a kill the operating system refuses ends the call with an error and drops the child from the table, although
  it lives (`process-supervisor.ts:157-161`); a shutdown while a command awaits its lease does not stop it from starting its child afterwards.
- *Browser*: each request names the session limit that applies to it (`agent.ts:1824`).
- *Device*: a stop sets the operation count to zero under running operations, each of which takes one off later, so the
  count is too low until the next stop.
- *Configuration*: an envelope without a revision skips the replay check (`configuration-manager.ts:96`); every configuration that is applied becomes the last known good at once, so a rollback changes
  nothing (`configuration-manager.ts:133`); the active configuration is read before the signature is verified (66, 86), so
  an update applied meanwhile is lost and its revision used again; an update of a lower layer is not merged but still
  lowers the layer.
- *Vault*: the limit of secrets is checked before the await and can be overrun by overlapping resolutions; a resolution
  in flight at a shutdown or a revocation still registers its lease and returns a payload; expired leases keep their
  place; two references with the same secret share one fingerprint, so revoking one ends the redaction for both, and so does a
  revocation that is passed the payload of another reference (`vault-client.ts:260-275`); the agent's own handler injects an
  empty payload it makes up, with a fingerprint and an expiry of its own, never the one that was resolved (`agent.ts:988-995`).
- *Updater*: downloads share one temporary file, and so do the snapshots and the package copies of activations
  (`staging-store.ts:27, 62, 73`), so that a rename can put another call's half-written file in place; downloadAndVerifyUpdate trusts the hash in the manifest of the request,
  of which only the identifier has been verified; a health check or a snapshot that throws leaves ACTIVATING behind.
- *Notifications and spool*: behind a lock screen the message is hidden, the title and the actions are not
  (`notification-policy-gate.ts:27-46`); popBatch never reduces the bytes in use, so back-pressure stays on once reached; refusing a
  new item that is not critical takes one off the count of such items; a coalesced notice takes over the expiry of the
  new one; both persist only with a storage directory, which `agent.ts` does not give.
- *Local AI*: a staged file that failed verification stays when its removal fails, which the code ignores
  (`model-cache-manager.ts:391-396`); when loadModel throws, the reservation and the active mark stay (`model-runtime-manager.ts:228-231`);
  reserve does not look whether the placement FAILED; the victims of an eviction are chosen before its awaits and not
  looked at again (`model-cache-manager.ts:747`).
- *Memory cache*: of two overlapping puts of one key the size of the entry that is overwritten stays in the total for
  ever, so that later puts may be refused with an empty cache, and its index entry stays (`memory-cache-store.ts:33`);
  the `delete` at the end of a clear drops what was filed meanwhile (132), which no later clear finds; evictExpired is not
  awaited (222) and may remove a fresh entry under an old key; any call marks the manager started, so a later start()
  sets no cleanup timer (`memory-cache-manager.ts:232`).
- *Control plane*: registerAgent, called by the agent itself, leaves REGISTERING and no start follows (`agent.ts:2978`);
  disconnect cancels the reconnect timer and then closes the transport, whose callback sets it again, so
  the client reconnects after a shutdown (`control-plane-client.ts:327-330`); a transport that closes under a suspended
  start ends in CONNECTED_ACTIVE without a connection and without a retry (189); relayEvent spools again what the drain
  popped, so events are sent again at each reconnect (285), and a failed write of the state during a drain loses the rest
  of the batch (524); the stored `event_spool` records are never read back; a command refused while the agent stops is
  remembered as processed (401).
- Read, not modelled: the recovery manifest is kept in memory, so no startup recovery finds one after a crash
  (`recovery-manifest-store.ts:6`), and a checkpoint recorded while the recovery reconciles is cleared with the manifest
  (`crash-recovery-manager.ts:135`); `PersistentMemoryClient.getMemory` may cache a record it fetched before a tombstone; `resolveProposal` does not look whether the proposal is still pending; purging stops at
  a record the cascade has already tombstoned; the dashboard projects a frame's history before its state events
  (`main.ts:516`).

## 6. Plan

1. *Memory*, the rest: proposals and playbooks, retention and purging, direct upserts of graph rows; an abstract outbox
   (a delivery is owed, then done or given up) that `MemoryEvolution` implements.
2. *Agent services*, what is left, added to `MCAgentServices`: the client of the memory routes; the planner's
   replanning.
3. *Dashboard projection* on top of `StreamClient`.
4. *Proofs*: the limit of agents per tenant in the directory, and the refinement of step 1. The modules have no recursive
   operators, and their invariants are conjunctions of named parts.

## 7. Not modelled, and why

Text processing and scoring (graph extraction, compression, ranking, goal normalisation) has no state and no order to
get wrong. HTTP routing, schemas, logging, redaction and rendering are input and output. Path canonicalisation depends on
the operating system and is a constant of `FileRuntime`. Inference engines, prompt isolation, page contents, device
adapters and what a command does are behind the runtimes' interfaces and appear as their outcomes. Identity and policy are stateless decisions about one request; the models take either outcome.
Crash recovery keeps its manifest in memory and only counts steps, so it has nothing to carry across a crash.

Details left out of modelled parts: planNode's further lookups, of a row the candidate names in
`properties.supersedes` or `supersedesNodeId` (`graph-evolution-engine.ts:259-272`): the model's candidates name none; the colon-joined payload of
a lease signature, which is taken to determine what it covers (`lease-issuer.ts:17-27`); the two places a request can carry
its lease (`params.lease`, `params.leaseHeader`), for which one lease stands; requests that name a backup file as their
path. The browser's ownership check skips an empty task (`session-manager.ts:84`), which no validated lease has: its header
requires a UUID (`lease-boundary.ts:28`).
