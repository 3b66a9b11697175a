# TLA+ models of the clash-nyanpasu backend

Clash Nyanpasu is a desktop client for clash-family proxy cores. Its backend
(`src/backend`, Rust, tokio, actors) keeps several configuration documents,
derives from them the configuration file of the running core, and keeps files,
memory, a legacy configuration, an external process and the operating system's
settings in agreement while users, timers, file watchers and failing calls
interfere. This project models the parts in which that agreement is decided, checks
them with TLC on small instances and proves what the central ones promise, for every
value of their constants, with TLAPS.

## 1. The system: inventory

`components` in `PROJECT.json` is the same list with a status and a note for each.

### 1.1 State core — `nyanpasu-core/src/state`

| part | state | operations | correct when |
|---|---|---|---|
| `StateCoordinator`, `StateTransaction`, `RollbackGuard`, `NotifyExecutor` | the store (`ArcSwap` of version and state), `next_change_id`, the subscriber list, a semaphore of one permit, per transaction a guard | `add/remove_subscriber`, `upsert`, `upsert_state`, `with_pending_state`, `..._timeout`, `..._if_version`; per subscriber `on_prepare`, `on_committed`, `on_rolled_back` | all subscribers of a change hear one outcome; nobody keeps what it prepared for a change that was rolled back; the permit always returns; versions advance one by one |
| `PersistentStateManager`, `PersistentBuiltStateManager` | the same plus a file | the file is written inside the effect, before the swap | file and memory agree after every outcome, and after a crash |
| `WeakPersistentStateManager` | the same plus a recovery file | commit first, best-effort write afterwards | the file is some earlier commit, never garbage |

Hard here: a subscriber may refuse, time out, panic or shut down; the caller may
drop the future at every await, and the guard then reports a rollback from
`Drop`; parallel callbacks run in tasks that an abort does not stop at once; the
file is written by a blocking thread that a dropped future does not stop.

### 1.2 Configuration domains and the legacy bridge — `tauri/src/{state,bridge,client}`

| part | state | operations | correct when |
|---|---|---|---|
| domain actors `application`, `session_state`, `clash_config` | a versioned typed document each, persisted | `Get`, `Patch`, `Replace`, `ReplacePreparedIfVersion` | a commit and its legacy mirror are one step for the actor's other clients |
| `Config::verge()` (`Draft<IVerge>`) | committed image, draft, legacy file | `draft`, `apply`, `discard`, `apply_update`, save | shows what the typed documents hold |
| `LegacyVergeBridge` | `verge_update_lock` | pure patch, side-effect mutation, replacement | an error leaves nothing behind or says what it leaves; Ok means done |
| the saga in `client/mod.rs` | what it has committed so far | commit up to three domains under version fences, compensate in reverse | direct writers are never overwritten |

Hard here: typed writers do not take the bridge's lock; three actors are read
and written one by one; the legacy writer runs operating-system effects between
its draft and its apply; a crash may fall between any two of these.

### 1.3 Runtime lifecycle — `tauri/src/client/{mod,rebuild,runtime,core_bridge,ports}.rs`, `core/clash/core.rs`, `nyanpasu-config/src/runtime`

| part | state | operations | correct when |
|---|---|---|---|
| runtime build and publication | revision counter, product file, `promoted`, `applied` | rebuild, legacy regeneration, boot fallbacks | `promoted` describes the product, `applied` what the core runs |
| core switch (`change_core`) | captured product and snapshots | draft, build, restart, commit or roll back | binary, configuration and selection change together or not at all |
| running-core patch | captured `applied` | API call, build, apply, commit, compensate | a failed patch is undone in the core |
| `RebuildCoordinator` | a channel of capacity one, `active`, the worker | `request_rebuild`, coalescing window, `shutdown` | no signal is lost; nothing runs after `shutdown` returned |
| `CoreManager` | the core process, lifecycle lease | run, stop, `recover_core` | the core always runs the product |
| session ports | picks and the strategies they were made for | resolve, fence, write-back into legacy images | a running core keeps its ports |
| runtime pipeline | a snapshot tree of keyframes, deltas and grafted branches | one build; invalidation | the guard has the last word; the stored tree is what was computed; every input is a reason to rebuild |

Hard here: three locks, several callers, a background worker, a process that may
die, an API that may have done what it reports as failed, a rollback whose own
steps may fail, and ports probed while our own core holds them.

### 1.4 Profiles — `tauri/src/state/profiles`, `service/profile_file.rs`, `client/profiles.rs`

| part | state | operations | correct when |
|---|---|---|---|
| `ProfilesActor` | `profiles.yaml` with its revision, refreshes and imports in flight | about thirty messages; state-first and file-first commits | a late answer of a fetch never overwrites a newer definition; an effective change is followed by a rebuild |
| `ProfileFileService` | managed files, staged and backup files, journals in seven locations, cleanup journals in two phases | prepare, promote, complete, compensate, prepare/activate/cancel cleanup, reconcile | after recovery every file is what the document says; a user's edit is not destroyed, unless it falls between a comparison and what relies on it |
| scheduler, watchers | a timer or watch per profile | reconcile with each commit | one timer per remote profile, with its current interval; an external file is followed |

Hard here: document and file are two durable objects; the journal decides by a
revision number which of them wins after a crash; a person may edit the file
between any two steps; downloads answer late.

### 1.5 Services and desktop — `tauri/src/{core,utils,logging,window.rs,widget.rs,lib.rs,ipc.rs,feat.rs}`

| part | state and operations | hard |
|---|---|---|
| websocket connector (`core/clash/ws.rs`) | a stream handler per kind; start, stop, restart, `StreamClosed`, `Reconnect` | messages about an old stream arrive after a new one was opened |
| system proxy, PAC (`core/sysopt.rs`, `core/pac.rs`) | current and original proxy, guard flag, PAC task | the flag is checked and cleared in different critical sections |
| migrations (`core/migration`) | a store of step states; nine steps rewriting the user's files | a crash between a step and its mark, or between two writes of one step |
| updater (`core/updater`) | a state per update; stop core, replace binary, restart | overlapping updates, a copy that fails half way |
| tasks (`core/tasks`) | task list, events; one hourly job | overlapping runs |
| hotkeys, key-value storage (`core/hotkey.rs`, `core/storage.rs`) | list stored, list in force, what the system registered; a change event per commit | an update that fails halfway, events out of order |
| proxies and tray (`core/clash/proxies.rs`, `core/tray`) | cache, menu | menu items change on the main thread only, and their setters wait for it holding locks |
| service control (`core/service`) | connection flag, kill flag, health check thread | threads spawned by a change of the flag cross commands |
| windows (`window.rs`, `utils/resolve.rs`) | record per window, saved geometry | creation in three critical sections from two threads |
| processes (`lib.rs`, `setup.rs`, `utils/{init,help}.rs`, deep links, shutdown hook) | single-instance lock, socket, pending link, clean-up | two starts at once, exit from several sides, clean-up steps that fail |
| widget (`widget.rs`) | the one widget process | start, stop, listener and clean-up cross |
| log index (`logging/{indexer,manager}.rs`) | lines indexed by level, target, time | a line read while it is written |
| IPC commands, REST wrappers, local server, script engines, helper crates, frontend | forwards, I/O, interpreters | nothing a small model would add to |

### 1.6 How the parts interact

A command of the frontend calls the client facade. A typed change goes to its
domain actor, which commits through a persistent manager, that is through a
`StateCoordinator`; subscribers of the coordinator and the mirror inform the rest.
A legacy change goes through the bridge to up to three actors. A profile change
goes through the profiles actor, which brackets its commit with calls of the file
service. After a commit the facade rebuilds inline, or a background change sets
the dirty channel; either way the rebuild gate and the lifecycle lease lead
through the pipeline and the port picks to the product file and the core, which
runs as a child or in the service. Legacy effects (`feat.rs`) then reach the
system proxy, hotkeys, tray and widget; the shutdown path stops all of them.

## 2. Plan

| order | module | about | status |
|---|---|---|---|
| 1 | `CommitLog`, `StateCoordinator` | 1.1, the coordinator | checked and proved |
| 2 | `LegacyVerge` | 1.2 | checked and proved |
| 3 | `RuntimeLifecycle`, `SessionPorts`, `RuntimePipeline` | 1.3 | checked; snapshots, locks and ports proved |
| 4 | `ProfileMaterialization`, `ProfilesActor` | 1.4 | checked; the actor proved, of the file service that edits are kept |
| 5 | `PersistentState` | the durable file under 1.1 | checked and proved |
| 6 | `ClashConnections`, `SystemProxy`, `MigrationRunner`, `CoreUpdater`, `AppLifecycle`, `WidgetManager` | 1.5 | checked and proved |
| 7 | `MigrationModules`, `TaskScheduler`, `Hotkeys`, `KeyValueStorage`, `TrayProxies`, `ServiceControl`, `AppWindows`, `LogIndexer` | 1.5 | checked; all but migrations and tasks proved |
| 8 | compositions | `ProfilesActor` over `ProfileMaterialization` (an abstract "document and file agree" specification that the second implements once no journal is left); `ServiceControl` with the lease of `RuntimeLifecycle` | open |

## 3. Modules

`map` in `PROJECT.json` gives the lines of every definition. Definitions marked
"(Mutant)" are plausible bugs used to confirm that each property can fail. Every
module has a type invariant (`TypeOK`, or `XxTypeOK` in the modules whose names
carry a prefix; that of `Hotkeys` is for the storage too). The coordinator's is in a run.
The others are not listed by the runs: those of the proved modules are theorems or parts of
an inductive invariant (section 5), the rest document the shape of the state and hold with
the constants of the runs.

### CommitLog, StateCoordinator

`CommitLog` is the abstract specification: a log of committed values that only
grows, a store that holds its last entry, observers that are told only of newer
entries of it.

In `StateCoordinator` one operation is in progress at a time (`&mut self`); `pc`
is its phase: `build`, `prepare`, `effect`, `commit`, `recover`, then `committed`
or `rolledback`, and `dropped` while the guard's `Drop` is notifying. A
notification round has `todo`, `running` and `acks`; `StartCallback` and the
`Finish...` actions are `notify_one` for one subscriber, so all interleavings of
parallel callbacks occur. `Cancel` is the drop of the future at any await,
`SequentialPanic` and `ParallelPreparePanic` are panicking callbacks, `LateFinish`
is an aborted task that still ends its poll, `ForeignStore` is the concurrent store
the compare-and-swap guards against. Abstracted: the reasons and texts of acks
(three classes), the identity of the stored `Arc` (its version), the order of
Sequential registration (any). Dropping `build_initialized` and a panic inside the
guard's own `Drop` are left out: the first drops the coordinator, the second aborts
the process.

### PersistentState

The three managers that keep a file beside that store; a round is prepare, effect,
commit, notify. `psWriter[w]` is the value a blocking thread is about to write: a
dropped operation leaves the thread behind, and its write lands at any later time.
A crash keeps the file only.

### LegacyVerge

`typed[d]` is a domain's version and fields, `mirror[d]` the mirror its handler
has yet to apply: between `Replace` and `ApplyMirror` the actor answers nobody. The
bridge's operation is a sequence of phases, one action per call: read the base,
plan, (legacy-first routes: draft, effects, apply, restore, reproject until no
version moved), take snapshots, prepare, commit domain by domain, finalize or
compensate. A value is the number of the write that produced it. The conversions between
`IVerge` and the typed records keep every field except for coupled ones
(`Coupled`: several legacy fields form one typed field). `Crash` keeps what is on
disk and runs `sync_legacy_mirrors`.

### RuntimeLifecycle, SessionPorts, RuntimePipeline

`RuntimeLifecycle`: a configuration is the core it was checked for, the profiles'
version and one clash override. Each caller, the worker and boot is a process in
`proc` with a program counter; gate and lease are held across the steps that the
code holds them over. `Inputs` says what each kind of build reads (typed snapshots,
legacy drafts, the product, the default). `OnError` is the error path of each
operation: `change_core` rebuilds for the old core and, failing that, restores the
captured product; a patch is compensated from the captured `applied`.
`RestartCore`, `CoreDies` and `RecoverCore` act under the lease alone.

`SessionPorts`: what the lifecycle takes for granted of ports. `Resolve` is the
resolver with its per-field fingerprints; actions are writes of a strategy, rebuilds
that fail before or after the pick, the boot write-back, the typed write that puts
start ports into the legacy images, and the patch that reaches the core before it is
checked. Whose port it is decides a probe.

`RuntimePipeline`: one build as a list of steps (`plTodo`) over a configuration of a
few top-level fields; the two builders hold the snapshot tree as stored (keyframes,
deltas, grafted branches), and `Materialize` reads it back. `Invalidation` is a pure
operator compared with what the build really read.

### ProfileMaterialization, ProfilesActor

`ProfileMaterialization`: a call of the file service is the set of its outcomes:
how the disk may look when it returned, refused, met an I/O error at any of its
filesystem steps, or was cut short there by the end of the process. Where a call has compared
a file with its journal and is about to replace or remove it, it stops at a fence (`fence`),
and the rest is another step that does not look again: `restore_backup` (978 and 997-1015),
`retry_cleanup` (1794 and 1805), `reconcile` (1857 and 1918). Users edit in between. The actor's
commit protocols (`state first`, `file first`, cleanup, rollback) are the steps
between calls; startup and periodic reconciliation are the same operators run over
the journals in the order of the directory scan. Seven journal locations, two cleanup phases,
the Windows and the Unix replacement, contents as hashes, a user who edits at any time.

`ProfilesActor`: every handler that has a caller, as one action (two where it
awaits an external file: `busy`). The document, the dependency closure and the
validation are operators; refresh and import fetches are members of `fetches` that may
answer at any time, refuse or panic; timers and watchers are what the last
commit reconciled. A commit and its file are one step here: the other module says
when that is so.

### ClashConnections, SystemProxy, MigrationRunner, MigrationModules, TaskScheduler, CoreUpdater

Each is the actor, loop or task of one source directory with the steps between two
lock sections as actions. `MigrationRunner` has the store and its marks with a step
as one unit; `MigrationModules` has the nine steps as plans of atomic writes on the
documents themselves, with a fault or a kill between any two and a user who repairs
what an error names. In `CoreUpdater` a copy over the installed binary is two steps
with the lease held; starts, switches and recovery go on meanwhile as far as the
lease lets them.

### Hotkeys, KeyValueStorage, TrayProxies

`Hotkeys` extends `KeyValueStorage`: its list is one of the storage's keys.
Registration is one call of the operating system at a time, other applications take
and release shortcuts between them. A commit's notification is a thread, a
channel of bounded length and a listener that ends when it lags. `TrayProxies` has
the main thread, the threads that fetch and select, and the two locks they meet at; a
tray is an `IndexMap` of groups, in which a name that comes again keeps its place.

### ServiceControl, AppWindows, AppLifecycle, WidgetManager, LogIndexer

`ServiceControl`: commands with their elevated call, the health check thread with its
two flags, threads spawned per change of the connection, `run_core` under the lease in
two steps (choose, start). `AppWindows`: creation in its critical sections, on two
threads. `AppLifecycle`: a process per start, with lock, socket, pending link and page; what is
up in it (`up`), what proxy and widget hold for their one stop (`held`), and what stayed up with
a cause (`left`, a history). Each step of the clean-up may fail, and goes on as the code does, which logs
the error of `reset_sysproxy`, `stop_core` and the widget's stop and drops that of the last
`stop_core`. The clean-up runs on the main thread, from the exit event or a synchronous command,
so two never overlap; one after another they do: the page's, ahead of an update of the
application, then that of the exit. Meanwhile the worker, commands, the guard loop and the end
of the session go on. `WidgetManager`: manager's lock, processes with bounded channels.
`LogIndexer`: one file, its index, the runner's commands and events.

### MC modules

`MCStateCoordinator`, `MCLegacyVerge`, `MCProfilesActor` and `MCRuntimeLifecycle` give
constants, the last of two explorations: by the number of outside restarts a behaviour
starts with (a constant of it in that run), a sequence of core switches with many failures,
or two callers of everything with fewer. The others
explore several modules in one run: the modules share no variable and no step, `focus` is
chosen at the start and names the one that moves while the others stay in an initial state,
so the run visits the union of the modules' own state spaces, not their product.

| MC module | modules |
|---|---|
| `MCSettings` | `LegacyVerge` (through `MCLegacyVerge`), `ServiceControl`, `SessionPorts`, `AppWindows` |
| `MCDesktop` | `ProfileMaterialization`, `MigrationModules`, `Hotkeys` over `KeyValueStorage`, `TrayProxies`, `LogIndexer`, `AppLifecycle` |
| `MCServices` | `PersistentState`, `SystemProxy`, `ClashConnections`, `MigrationRunner`, `TaskScheduler`, `CoreUpdater`, `RuntimePipeline`, `WidgetManager` |

State constraints cut single modules only; the one with a liveness property, `ProfileMaterialization`, is not cut.

## 4. Runs

All passing runs set `CHECK_DEADLOCK FALSE`: bounded writers, operations and
versions stop for good, and an application that has exited does nothing.

| run | bounds | shows |
|---|---|---|
| `coordinator_parallel` | one Required and one Advisory subscriber, two values, one commit, one cancellation | with parallel callbacks: permit, outcome agreement, prepared resources, acks before the swap |
| `coordinator_rounds` | Sequential, one subscriber, two commits of every kind of write, two cancellations, one foreign store | ids in step over several operations; refinement of `CommitLog`; the timed write returns with the permit |
| `verge` | three domains of two fields, one coupled; one operation of any route, two direct writes, two failures, one crash. Service: two operations or failures. Ports: two fields, three operations. Windows: three kinds, four requests, failures or moves | mirrors agree, answers are honest, nobody else's write is lost, the legacy file is current; `ScCoreFollowsService`, `SpPortsStay`, `AwOpens` |
| `runtime_mix` | two cores. Switches: three, four failures, one crash. Mix: two callers, two operations of any kind, the worker, boot, two failures. | every branch of the switch's rollback; `promoted` and `applied` are true under contention for the locks |
| `runtime_liveness` | one patch, two background commits, one restart or death of the core, one failure, shutdown | lost signals, shutdown, termination |
| `profiles` | two configs and a transform, two starting documents, one import, a refresh per profile, two changes of the external file, two commits | document, files, timers, watchers, refreshes, rebuild requests |
| `services` | managers: two writers; proxy: two ports, two tasks; streams: two kinds, three streams; migrations: three steps; tasks: two runs; updater: two updates, two releases; pipeline: five documents; widget: two variants, three processes | one property per service |
| `desktop` | materialization: two paths, three operations, one fault, or two crashes, or a crash and an edit; migrations: fourteen disks, two faults, one kill, three starts; hotkeys and storage: five lists, three commits; tray: two answers, two changes; logs: three lines; processes: two, one set up at a time (the other is on its way there, or gone), a page that at a clean-up has its link or has not asked for it, one failure of a lock, a set-up or a step of the clean-up, or one late command, followed further with a link only while nothing is up | one property per module, and `JournalsDrain` |
| `verge_lost_write`, `profiles_late_save`, `sysproxy_original`, `tasks_events` | the least that shows it | **violations**, see Findings |

### What the properties say

| property | in words |
|---|---|
| `MirrorsAgree`, `AnswerIsHonest`, `SagaKeepsOthers`, `LegacyFileCurrent` | outside a mutation the legacy image shows the typed domains; an error leaves none of the caller's values, a partial commit names the domains it left, Ok is complete; no commit or compensation of the saga overwrites a direct write made after the saga read or wrote that domain; a restart keeps the legacy-only fields last reported saved |
| `SwitchAlone`, `SnapshotsTrue` | binary, configuration and both selections agree after every branch of a switch; `promoted` is the product, `applied` is what runs |
| `EveryoneReturns`, `ProfilesReach` | every operation and `shutdown()` end; a committed profile reaches the promoted configuration |
| `DocumentValid`, `FilesBelong`, `SchedulesMatch`, `ExternalFresh`, `RefreshOwned`, `RebuildAsked` | the committed document passes its validation; a file holds what its present definition put there; timers are those of the document; a watched file is followed; each pending refresh has one task; a commit that changes what a build reads asks for a rebuild or tells its caller |
| `Settled`, `EditsKept`, `JournalsDrain` | a path without a journal holds what was last committed; an edit is replaced only by a promotion or a cleanup prepared for it, or when it came between the comparison and the replacement or removal; journals end |
| `PsDurable`, `MgNoneSkipped`, `MmUserDataKept` | file and memory agree at rest; no step is skipped that has work; no write, fault, kill or rollback loses what the user's files meant |
| `SoGuarded`, `CcStreamKept`, `CuUpdatesSound`, `PlBuildSound` | the guard runs exactly while wanted; a wanted stream is live or on its way back, and never two; a running core is the installed binary and an update can be followed; a build is stored as computed, the guard wins, every input invalidates |
| `HkSettled`, `TpTraySound` | shortcuts do what the list in force says and the storage has it, last event is last commit; the menu shows the cache and the mode, and the only wait between threads is the standoff below |
| `ScCoreFollowsService`, `AwOpens`, `AlNothingLost`, `WdNoneLeftOver`, `LiQueryFaithful`, `SpPortsStay` | one core at rest, where the connection says; a window asked for is there, recorded, visible; a deep link arrives or ends in a named way, and leaving leaves nothing running that did not fail to stop, start too late or miss the clean-up; no widget is left over; queries answer for a prefix of the file; ports of unchanged fields stay |

### Why the bounds are enough

A coordinator operation interacts with another only through the store,
`next_change_id`, the permit and what a dropped one leaves at its subscribers, so two
operations cover every pair; one subscriber of each policy covers the
decision, which only asks whether some Required one failed. The saga's fences
compare one domain's version with the one it read; a second write to the same
domain and a first write to another are the two cases, and the third domain gives
the compensation a middle. In the runtime the operations meet only at the two locks:
two callers and the worker give the orders of two operations around a third;
four failures let the forward start, the rollback build, the restore and the old
core's start all fail in one switch.

A profile interacts with another through a reference or the selection: two configs
and a transform have a composition, its member and a member's transform. Of the file
service, two operations meet at a path and a third at another (a stale journal meets a later
commit); two crashes are one inside an operation and one inside its recovery. The smaller services
have two of whatever may overlap (writers, tasks, updates, fetches, threads, processes) and
one failure at each place, or two where the handling of the first has a failure of
its own (migrations, service).

### Fairness

The coordinator's rounds are weakly fair because each callback is bounded by its
ack timeout and a crashed task is reported by `join_next`; an effect is fair only
under `with_pending_state_timeout`. Callers, cancellations and foreign stores are
never fair. In the runtime every step of a task is weakly fair (a call returns or
fails), taking a lock is strongly fair because `tokio::sync::Mutex` queues its
waiters, and recovery is strongly fair because it retries every five seconds for as
long as it takes. Calls, commits, failures, deaths of the core and the decision
to shut down are not fair. In the materialization the actor finishes the operation
it began, its reconciliation ticker fires and the application is started again;
requests, edits, faults and crashes are not fair.

### Findings

1. `profiles_late_save`: `save_profile_file` checks the definition in a snapshot and
   writes later without the actor; a profile that became a subscription meanwhile has
   its file overwritten with editor bytes (`client/mod.rs:1153`, against "remote
   profiles are updater-owned" at 1158).
2. `sysproxy_original`: `init_sysproxy` runs again on a change of the mixed port and
   records the app's own proxy as the original one; exit puts that back
   (`core/sysopt.rs:113`, against `core/sysopt.rs:21-22`). It also runs before the patch is
   applied, so it may set the old port again (`feat.rs:313` and 323).
3. `verge_lost_write`: `run_legacy_verge_mutation` takes its patch as the difference of
   two legacy images (`bridge/verge.rs:265` and 275). A direct write mirrored in between
   is part of the difference; the saga then reads its snapshots afresh, so its fence
   holds, and it commits that older value over a later direct write of the same field.
   The design (`docs/superpowers/specs/2026-07-13-pr4s-actor-migration-stabilization/design.md:377`)
   says that version checks keep the saga from overwriting later typed commits.
   `SagaKeepsOthers`, what the fences do guarantee, holds and is proved.
4. `tasks_events`: `remove_event` stores the shortened list under a key made from the
   event id; the task's list keeps ids of removed events, which `get_events` unwraps
   (`core/tasks/storage.rs:172`, against the comment at 103).

### Windows the passing runs leave out

The passing runs hold with these schedules excepted on purpose, by a history variable,
by a scope or by a bound named in the property's comment. Paths are relative to
`src/backend/tauri/src` unless they start with `nyanpasu-`.

State core and legacy bridge
- A strong manager whose operation is dropped leaves its blocking write behind: it may
  overwrite a later commit's file, and leaves a built manager's builder stale
  (`nyanpasu-core/src/state/manager/persistent_state.rs:203`). A weak state is committed
  before it is written (`weak_persistent_state.rs:213`).
- `ImplementsCommitLog` holds for the Sequential strategy. In the Parallel one an
  aborted `on_committed` may still take effect after a later commit was reported; the
  comment in `ack.rs:131` speaks of sequential notification although the default is Parallel.
- A mirror applied while the effects of a legacy mutation run resets the mutation's
  field in the pending draft; the caller gets Ok without its change
  (`bridge/verge.rs:495`, `config/draft.rs:57-63`). `AnswerIsHonest` excepts the effects route.
- A patch of one part of a coupled field carries the rest of the base image along.

Runtime
- `check_and_promote` replaces the product before it reads it back; a failing read is
  reported as a promotion that did not happen (`client/core_bridge.rs:181-186`).
- `change_core` has returned and released the gate before the typed selection is
  committed; a rebuild in between configures the new core for the old one
  (`bridge/verge.rs:276-304`). `SwitchAlone` has no other operation there.
- A running-core patch is committed to the legacy clash configuration only, so the next
  typed rebuild reverts it (`client/mod.rs:1372`); a patch committed to one of the two
  stores builds read from is reverted while the other wins (`feat.rs:323`).
- A core recovered between another operation's promotion and its failed apply runs the
  product while `applied` keeps the older snapshot.
- A crash in the middle of a switch: the boot's fallback may start from a product that was
  checked for the other core (`utils/resolve.rs:182`).
- Ports: a strategy changed, rebuilt with a failure and changed back is probed
  against the port our own core holds (`client/ports.rs`); a typed write puts start ports, not
  picks, into the legacy images (`utils/resolve.rs:154-156` says they keep observing
  the real ones); a patch with a new mixed port reaches the core and is then refused as "in use"
  (`feat.rs:273`); two fields may pick one port.
- Pipeline: in bare mode `stale_node_keys` misses nodes after a changed global transform. A
  snapshot tree deeper than 1024 is refused (`nyanpasu-config/src/runtime/snapshot.rs:28`), which no build of the model reaches.

Profiles
- An fsync or chmod error after a journal was already visible makes prepare remove the backup
  (`service/profile_file.rs:1103`); a later compensation then deletes the active file
  (`LateFaults = TRUE` shows it). A fault and a crash together let a stale journal meet a
  reused revision, and two faults let a commit's reconciliation complete another's deferred journal; reconcile compensates a deferred journal before it looks at revisions (1858).
- A compensation, a cleanup and the reconciliation of a superseded operation compare the file's
  hash with the journal and replace or remove the file later, without another look
  (`service/profile_file.rs:978` and 997-1015, 1794 and 1805, 1857 and 1918): what a user saves in
  between is lost, although `compensate` calls itself fenced (1707). The last disjunct of
  `EditsKept` is this exception; without it TLC finds the property violated.
- A mirror that changes between its read and its watch, changes while the application is
  down, and a read or commit that fails are only logged; a panicking fetch keeps its
  `pending_refresh` entry; a manual refresh whose caller left commits without a rebuild;
  an interval large enough overflows (`scheduler.rs:182, 195`).

Services
- System proxy: the guard's flag is cleared in a later section than it is decided upon
  (`core/sysopt.rs:404`), it may set the proxy once more after a disable (379-401), and it ignores PAC; a failing set
  forgets `cur`; a failing start skips the guard.
- Websocket: a `StreamClosed` or `Reconnect` queued across a Stop, Start or Restart
  belongs to the old stream; a kind that fails in the one Start is not retried
  (`core/clash/ws.rs:583`); the forward loop ends when the broadcast lags.
- Migrations: after a transient write failure the rollback of the null step turns
  lists the user had into null (`profiles.rs:89-111`), or restores an older `.bak` (268); the
  typed split still runs after a failed conversion of the legacy file (`runner.rs:89-103`);
  a crash between two of the three typed files leaves a state the user must clear.
- Tasks: each run copies the id generator, state is read and set in two sections, a panic
  on a failed write leaves the task Running.
- Updater: when both copies fail the core stays down and a retry fails ("already
  stopped"); of two updates of a kind the older may finish last; an update nobody inspects keeps
  its directory; inspection waits while the manager's lock is held over requests.

Desktop
- Hotkeys: a failed update leaves half of its list registered while the list in force is
  the old one; a failing write after it leaves the storage behind; a bad entry from storage makes
  each later update that drops it fail. `storage.rs:92-98` deletes an old-format database,
  hotkeys included, though its comment names only history and frontend state.
- Tray: the standoff. `update_part` and `update_selected_proxies` hold the handle's or
  the menu's lock while they wait for the main thread, which may be waiting for that lock. A
  change of the mode alone gives no signal; crossing updates, a fetch faster than the
  receiver and overlapping fetches may leave an older picture; the group "global" is
  selected under a name the core spells "GLOBAL".
- Service: stop and start within the health check's five seconds leave no health check;
  the status read between `run_core`'s choice and its start; a service down and up between
  two checks leaves no core. Not modelled: `enable_service_mode` switched at run time
  (`feat.rs:357-366`, a rebuild and restart); a health check that finds the status it found last, and one that then
  gets no answer or whose weak exchange fails by chance (`core/service/ipc.rs:115-127`).
- Windows: two threads creating one label; a maximized window saved with size zero is
  restored at its minimum; the tray menu stays open after a blur within the grace period.
- Processes: `is_window_opened` is always true, so a link to an application whose page does
  not listen yet is lost (`utils/resolve.rs:41`); a second process that starts before the first
  listens gives up after five seconds; a stale socket makes the late one panic at bind.
  `AlCleanExit` excepts what the code leaves up: a proxy, core or widget whose stop failed, which
  is logged (`utils/resolve.rs:287-288`, `utils/help.rs:265`) or dropped (268); a proxy, core or widget a
  command or the guard loop puts up after its own step of the clean-up; everything, when the
  process ends by an error after `resolve_setup` (`lib.rs:286-287`), when the clean-up panics for
  want of the widget manager, or when the session ends later than a clean-up the page asked for,
  which the shutdown hook takes for the last. A panic of the main thread itself is not modelled.
- Widget: one that hangs before it connects keeps the manager's lock, and `stop` at exit
  waits for it; a failed send drops the instance without a kill.
- Log index: `handle_line` keeps milliseconds where the comment at `indexer.rs:77`
  speaks of nanoseconds, so a range query loses lines of its first millisecond; a line
  completed after it was read makes that read fail; a file that cannot be indexed, or a query of an unknown path, panics the runner.

## 5. Proofs

Eight modules `*_proofs.tla` prove what the runs check on small instances for every value of
the constants: any number of subscribers, domains, callers, profiles, tasks, streams,
processes, and every bound. Each property of the middle column of the tables is one a
run checks, except those in brackets. The invariants were tried with TLC before
they were proved. The assumptions about constants are the named `ASSUME`s of the
modules, which TLC evaluates on every run; they say that bounds are naturals, that the
values a step names are among the constants', and that what stands for "none" is none of the
real ones. No other hypothesis is used but where a table says so.

### State coordinator, persistent managers — `StateCoordinator_proofs`, `PersistentState_proofs`

| theorem | states | invariant and argument |
|---|---|---|
| `TypeCorrect` | `TypeOK` | `TypeInv`: a change exists in every phase after `build`, no callback runs outside a transaction, the guard is armed exactly from the first prepare to the swap or the end of a rollback |
| `PermitSafe` | `PermitTracksWriter` | `PermitInv`: who holds the permit, phase by phase; the property alone says nothing of `committed`, `rolledback` and `dropped`, from which the operation returns |
| `ChangeIdSafe` | `ChangeIdInStep` | `IdInv`: from the moment the change has an id, `next_change_id` is that id; `pending_change_id` establishes it at the start, which is why a stale id left by a dropped operation is harmless |
| `OutcomeSafe` | `OutcomeAgreement` | `ToldInv`: the guard is disarmed in the step that swaps, so no round of one kind follows one of the other |
| `CommitsAreAcked` | `CommitNeedsRequiredAcks`, an action property | `AckInv`: in a prepare round everybody is to be asked, being asked, or answered; after it, every Required one said ok |
| `NobodyStranded` | `NoStrandedPrepare` | `Owed`: whoever waits does so for the current change, was asked for it and is still to hear how it ends; it rests on `Recorded` (a change succeeds the version it was built on) and `Covered` (the guard covers the audience until the outcome is known) |
| `SequentialImplementsCommitLog` | refinement of `CommitLog`; hypothesis: the Sequential strategy | `LogInv`: those still to be told know only older versions; each step is a commit, one observer's learning, or a stutter |
| `PsTypeCorrect` | (`PsTypeOK`) | with the next |
| `PsDurability` | `PsDurable` | `PsInOrder` (where an operation may be, and whether a thread writes for it), `PsThreads` (a thread writes for the operation that waits for it or for one that was dropped), `PsFileKept` (the file and the builder at every point, not only at rest) |

In `StateCoordinator_proofs`, `NextCases` groups the actions into bystanders, callbacks and the
operation's own steps, and `CallbackFrame` says what the first two leave alone.

### Legacy bridge — `LegacyVerge_proofs`

| theorem | states |
|---|---|
| `TypeCorrect` | (`TypeOK`) |
| `ImageFollowsDomains` | `MirrorsAgree` |
| `DiskKeepsOwnFields` | `LegacyFileCurrent` |
| `AnswerTrue` | `AnswerIsHonest` |
| `SagaFenced` | `SagaKeepsOthers`, an action property |

One invariant, `Inv`. `MirrorsCurrent` and `Reprojected` explain the image: a mirror still to
be applied is that of the committed state, and in the reprojection of a mutation every domain
has not moved since it was read, or will be read again. `OwnSaved` explains the file.
`Fenced` says what a version fence is worth: what was read or written at a version is still there
as long as the version is (`Seen`). `Planned` and `TokenPlaced` follow the caller's value from
the plan to the domains that hold it, from which the honesty of an answer follows. Domains
are visited in any order without repetition (`OrderAssumption`).

### Runtime — `RuntimeLifecycle_proofs`

| theorem | states | hypotheses |
|---|---|---|
| `RlTypeCorrect` | (`TypeOK`) | |
| `GuardsExclusive` | (`Locked`: gate and lease are held exactly by the operation whose program counter is inside them) | |
| `PromotedIsTheProduct` | (`ProductIsPromoted`, the first half of `SnapshotsTrue`) | no product that cannot be read back |
| `SnapshotsAreTrue` | `SnapshotsTrue` | none of that, no failing save of a patch, no core started without the gate |

`Control` reads off a process's program counter what it holds and what it has captured
(`Locked`, `Shaped`, `Written`). `ProductTrue` and `CoreTrue` say what the holder of the
lease knows of product and core between two writes that belong together (`KnowsProduct`,
`KnowsCore`); everybody else knows nothing, so only the holder's steps need an argument. The
hypotheses are the code's own ways of losing track, which `SnapshotsTrue` excepts by
history where they occur: an unreadable product is reported as a promotion that did not happen, a
patch whose save fails is in the core already, and `CoreManager` starts the core on the
product under the lease alone. Without a hypothesis `SnapshotsTrue` is only model-checked.

### Profiles actor — `ProfilesActor_proofs`

| theorem | states | invariant and argument |
|---|---|---|
| `CommittedIsValid`, `SchedulesFollow`, `FilesAreOwned` | `DocumentValid`, `SchedulesMatch`, `FilesBelong` | `Sound`, the three with `Typed`: what a validation accepts of a document edited in one profile, per edit; `FilesBelong` needs that paths differ between profiles (`AllBelong`) |
| `ExternalIsFollowed` | `ExternalFresh` | `Following`: while a handler waits for an external file, a version it has not read has left its event behind |
| `RefreshHasItsTask` | `RefreshOwned` | `Owned`: the same without counting, so that no cardinality is computed |
| `RebuildIsAsked` | `RebuildAsked`, an action property | no state invariant but `Sound`; `EffectiveKept`: documents that agree on the closure of names (`Reads`) give a build the same; each commit that does not ask leaves the closure alone |

`Typed` is the part of `TypeOK` these need; the order of the list, computed with `SelectSeq`, is not.

### Services — `Services_proofs`

| theorem | states | invariant and argument |
|---|---|---|
| `CuTypeCorrect`, `CuSound` | (`CuTypeOK`), `CuUpdatesSound` | `CuLeased`: only the holder of the lease is past its wait; `CuQuiet`: while a binary is written no core of that kind runs |
| `SoTypeCorrect`, `GuardIsKept` | (`SoTypeOK`), `SoGuarded` | `SoOneLoop`: the flag is set exactly while one task loops, counting the one that has decided to leave; `SoGuardLives`: while wanted, one goes on or is about to start, not counting that one |
| `MgTypeCorrect`, `NoneIsSkipped` | (`MgTypeOK`), `MgNoneSkipped` | `MgTrue` of the store on disk and in memory: a revision above the baseline counts as applied only for steps that were run; `MgMarked`: a step being run is marked on disk. Where the run goes on from is the least step not done, by a least counterexample |
| `StreamsAreKept` | `CcStreamKept` | `CcHeld` (the only live stream of a kind is the one held) and `CcRemembered` (wanted: live, or a timer, or a message that reopens it) |

### Operating system — `Platform_proofs`

| theorem | states | invariant and argument |
|---|---|---|
| `PortsStay` | `SpPortsStay` | `SpAgreed` (product and running core have the pick of a field nobody touched), `SpTold` (what legacy readers were told) |
| `NoneIsLeftOver` | `WdNoneLeftOver` | `WdOwned` (a shown widget with a sender is the instance's, or an operation's that stops it), `WdTaken`, `WdComes`, `WdKept`, `WdGone`: what each of manager, configuration and exit holds at each of their steps |
| `NothingIsLost` | `AlNothingLost` | `AlTidy`: what is up is still before the clean-up (`AlKeeps`, step by step) or has a cause in `left`, and proxy and widget, put down once, are held for it or have one; `AlOrdered` (a process that has not handed on its link has no other; none is past its clean-up before it runs), `AlHeard` (a socket listens in a running process); a link moves between processes, so its argument is about the set of those that carry it (`AlTogether`) |
| `CoreFollowsService` | `ScCoreFollowsService` | `ScInv`: the run type fits, or whoever changed it last is still to act on it (`ScTypeFits`); `ScServiceHeld` and `ScOneCore` say where a core may be at each step of `run_core`; `ScChecked`, that the connection flag is the last answer of a health check that lives. Needs a first health check thread (`ScCheckersAssumption`) |
| `WindowsOpen` | `AwOpens` | `AwInv`: labels are numbered below the counter and named by their kind (`AwNumbered`, `AwNamed`); `AwFits`, the geometry a window opened with; `AwTidy`, what of records, windows and handlers may be missing at each step of a creation, while two creations of one label have not crossed |

### Files of profiles, hotkeys, log index, tray — `Desktop_proofs`

| theorem | states | invariant and argument |
|---|---|---|
| `PmTypeCorrect` | (`TypeOK`) | `PmSound`: the disk is well formed (`PmGood`), the actor's commit is at one of its calls (`PmRuns`), and what a fence saw is the hash in its journal (`PmFence`) |
| `EditsAreKept` | `EditsKept`, an action property | one lemma per call of the file service about every disk it may leave, whole or cut short, up to a fence: it leaves the path's file alone (`PmStill`) or promotes (`PmPromoted`), and stops only at a fence whose comparison held (`PmStops`); `PmPassed`: past a fence it touches that path alone, whose file the comparison saw (`PmSpared`) |
| `HotkeysSettle` | `HkSettled` | `HkUnderWay`: while an update runs, a shortcut it has still to come to does what the old list says and any other what the new one says; `KvInTurn`: the thread of a key's last commit goes last, unless the key was overtaken; `KvTold`: the event of that commit is in its thread, the last of its key in the channel, or shown |
| `QueriesFaithful` | `LiQueryFaithful` | `LiMixed`: an index of the first lines of which some were read again from the start; `LiKnows`, with all of them read; `LiPlaced`: where the next read begins, after them or at the start; `LiCaughtUp`: a change the index lacks has an event or a command; `LiOnce`: a `Create` comes first and before there is an indexer |
| `TrayIsSound` | `TpTraySound` | `TpModeComes`: the checked mode is the one in force, or a task will read it, or holds it, or the main thread does; `TpLocked`: the handle before the menu, and whoever asks the main thread has both; `TpOwed`: the receiver's actions lead to the tray it holds from one of the same groups; `TpInForce`: without an excuse or a queued rebuild, the menu to come, with those actions done, shows what the receiver holds, and that is the cache unless a signal is to be taken |

Of the constants `HotkeysSettle` needs that the hotkeys' key is not one the web storage may write
(`HkAssumption`) and that the channel holds an event (`KvAssumption`); `QueriesFaithful`, that
queries ask for levels and targets there are and for a range of timestamps, as the code's
query does (`LiAssumption`); `TrayIsSound`, that the names of tasks are not the receiver's nor
the free lock's (`TpAssumption`). `HandleLines` is a recursive function: that it is defined, and what it
leaves after each line, are least counterexamples (`LiReads`, `LiHandles`).

The run of the file service has one fault or two crashes and no late ones; the theorems hold
for any number of either, in any mixture, with `LateFaults` as well. A call is a composition of filesystem steps
with a failure or the end of the process after each, so the argument is about the composition
operator `Then` once and about each call through it; the step after a fence begins from any
disk the users may have made of the one the call left there.

### Only model-checked

- Liveness: `TimedWritesEnd`, `EveryoneReturns`, `ProfilesReach`, `JournalsDrain`; `ENABLED` and
  fairness are out of this prover's reach.
- `SwitchAlone` and `SnapshotsTrue` without its hypotheses: both speak of what a whole run of
  a switch left, with histories of what failed.
- `Settled`: true with one fault, with two crashes, and with a crash and an edit, the bounds of the
  run, and not a theorem for every constant: with a second fault, a deferred journal can be
  completed as superseded by a reconciliation that serves another commit, and the path keeps
  bytes the document does not name.
- `MmUserDataKept` (`MigrationModules`), `PlBuildSound` (`RuntimePipeline`): a step is a fold over
  plans or snapshot nodes, and what a fold computes for every input is an induction over data: the
  library's induction theorems take an operator as a parameter, which none of the provers can
  instantiate. (An induction that can be put as a least counterexample in a set of numbers can
  be proved, and is used above.)
- Type invariants of the modules without a proof, the order of the profile list, and the identities of
  streams in `CcTypeOK`.

## 6. Not modelled

- IPC commands, REST request wrappers, local server, logging set-up, system
  information, directory names: forwards and I/O without state of their own.
- Script engines: interpreters; a transform is any function of the configuration's
  fields in `RuntimePipeline`.
- Serialization, path syntax, generated patch types, wording, icons, URL parameters: data
  no property tells apart.
- Helper crates: the core's test double, generated code, consoles and modules of the script engine, and the macOS deep-link callback.
- `process_core_bridge.rs` (tests only), `core/state.rs`, `ProfilesActor`'s `Replace`,
  the scheduler's `remove_task`, `advance_task`, `restore` and `dump`, the snapshot archive:
  no caller in the application.
- DNS on macOS, crash reports, the registration of the URL scheme, the ranges and retries of a
  download: calls of the system or of a library.
- Frontend and build scripts.

## 7. Running

    tlc -workers 2 -config runtime_mix.cfg MCRuntimeLifecycle
    tlapm LegacyVerge_proofs.tla

Each run takes between a few seconds and under three minutes; so do the modules
`*_proofs.tla`, except `Desktop_proofs`, which takes seven, and `Platform_proofs`, nine.
