-------------------------- MODULE RuntimeLifecycle --------------------------
(***************************************************************************)
(* From desired state to the running core, in backend/tauri/src:           *)
(* client/mod.rs (build, publish, apply, running-core patch),              *)
(* client/rebuild.rs (dirty worker, legacy regeneration, change_core, boot *)
(* fallback), client/core_bridge.rs and core/clash/core.rs (the lifecycle  *)
(* lease and the core process), feat.rs (patch_clash_with_rebuild).        *)
(*                                                                         *)
(* Every operation is a process that takes the rebuild gate, then the      *)
(* lifecycle lease, builds a configuration from the desired state, checks  *)
(* it, promotes it to the product file, publishes Promoted, has the core   *)
(* apply it or restart, and publishes Applied. CoreManager restarts and    *)
(* recovers the core under the lease alone. Any call may fail, the process *)
(* may die anywhere; the product file and the desired state survive.       *)
(*                                                                         *)
(* Abstractions. A configuration is the core it was checked for, the       *)
(* version of the profiles it was built from and the value of one clash    *)
(* override ("mode"). The candidate file is private to its operation and   *)
(* is not a variable. clash_patch_gate is held exactly while a patch runs, *)
(* verge_update_lock while a core change runs.                             *)
(***************************************************************************)
EXTENDS Integers, FiniteSets

CONSTANTS
    Clients,     \* callers of the client facade
    Worker,      \* the dirty-rebuild worker
    Boot,        \* resolve_setup
    Cores,       \* selectable cores
    FirstCore,   \* the core selected at first
    Ops,         \* operations clients may call
    Outside,     \* core restarts without the gate: "restart", "recover"
    Faults,      \* which calls may fail
    MaxProf, MaxMode, MaxOps, MaxFailures, MaxCrashes, MaxOutside

AllOps == {"rebuild", "apply_legacy", "restart_legacy", "change_core", "patch"}

\* build: build, check or write of the product; readback: reading the product
\* back once it is written; api: the core's REST API; start: stopping or
\* starting the core; restore: the old product; save: the legacy clash file.
AllFaults == {"build", "readback", "api", "start", "restore", "save"}

ASSUME OpsAssumption ==
    /\ Ops \subseteq AllOps
    /\ Outside \subseteq {"restart", "recover"}
    /\ Faults \subseteq AllFaults
ASSUME CoresAssumption == FirstCore \in Cores /\ "none" \notin Cores
ASSUME ProcsAssumption ==
    Worker # Boot /\ Worker \notin Clients /\ Boot \notin Clients
ASSUME BoundsAssumption ==
    {MaxProf, MaxMode, MaxOps, MaxFailures, MaxCrashes, MaxOutside} \subseteq Nat

VARIABLES
    typed,     \* committed typed state: [core, prof, mode]
    legacy,    \* committed Config::verge() / Config::clash(): [core, mode]
    latest,    \* the same with the pending drafts
    rev,       \* RuntimeRevisionAllocator
    product,   \* the product file, or NoCfg
    promoted,  \* lifecycle.promoted, or NoSnap
    applied,   \* lifecycle.applied, or NoSnap
    core,      \* the core process: [up, cfg, bin]
    doubt,     \* a failed call has left the core's configuration unknown
    gate,      \* holder of rebuild_gate
    lease,     \* holder of the lifecycle lease
    proc,      \* proc[p]: operation, program counter, stage, snapshot, capture
    boot,      \* what resolve_setup does next
    dirty,     \* the capacity-1 channel holds a signal
    owed,      \* a commit has yet to call request_rebuild
    active,    \* RebuildCoordinator::active
    worker,    \* where the dirty worker is
    stopping,  \* shutdown(): "no", "signalled", "done"
    recovering,\* recover_core has been spawned
    ops, failures, crashes, outside

desiredVars  == <<typed, legacy, latest>>
runtimeVars  == <<rev, product, promoted, applied>>
coreVars     == <<core, doubt>>
lockVars     == <<gate, lease>>
workerVars   == <<dirty, owed, active, worker, stopping>>
boundVars    == <<ops, failures, crashes, outside>>
vars == <<desiredVars, runtimeVars, coreVars, lockVars, proc, boot, workerVars,
          recovering, boundVars>>

Procs == Clients \cup {Worker, Boot}
Free  == "free"

Cfg    == [core : Cores, prof : 0 .. MaxProf, mode : 0 .. MaxMode]
Legacy == [core : Cores, mode : 0 .. MaxMode]
NoCfg  == [core |-> "none", prof |-> 0, mode |-> 0]
Snap   == [rev : Nat \ {0}, cfg : Cfg]
NoSnap == [rev |-> 0, cfg |-> NoCfg]
Core   == [up : BOOLEAN, cfg : Cfg \cup {NoCfg}, bin : Cores]
Saved  == [product : Cfg \cup {NoCfg}, promoted : Snap \cup {NoSnap},
           applied : Snap \cup {NoSnap}]
NoSaved == [product |-> NoCfg, promoted |-> NoSnap, applied |-> NoSnap]

Steps == {"idle", "gate", "lease", "read", "promote", "publish", "apply",
          "restart", "applied", "restore", "unpublish", "compensate",
          "reseed", "commit"}
Local == [op : AllOps \cup {"none", "regenerate", "existing", "default", "start"},
          pc : Steps, stage : {"forward", "rollback", "restored"},
          want : Cores \cup (0 .. MaxMode), snap : Snap \cup {NoSnap}, saved : Saved]
Resting == [op |-> "none", pc |-> "idle", stage |-> "forward", want |-> 0,
            snap |-> NoSnap, saved |-> NoSaved]

ASSUME FreeAssumption == Free \notin Procs

\* Every variable has its type.
TypeOK ==
    /\ typed \in Cfg
    /\ legacy \in Legacy /\ latest \in Legacy
    /\ rev \in Nat
    /\ product \in Cfg \cup {NoCfg}
    /\ promoted \in Snap \cup {NoSnap} /\ applied \in Snap \cup {NoSnap}
    /\ core \in Core
    /\ doubt \in BOOLEAN
    /\ gate \in Procs \cup {Free} /\ lease \in Procs \cup {Free}
    /\ proc \in [Procs -> Local]
    /\ boot \in {"regen", "fallback", "start", "done"}
    /\ dirty \in BOOLEAN /\ owed \in BOOLEAN /\ active \in BOOLEAN
    /\ worker \in {"recv", "coalesce", "drain", "rebuild", "stopped"}
    /\ stopping \in {"no", "signalled", "done"}
    /\ recovering \in BOOLEAN
    /\ ops \in 0 .. MaxOps /\ failures \in 0 .. MaxFailures
    /\ crashes \in 0 .. MaxCrashes /\ outside \in 0 .. MaxOutside

-----------------------------------------------------------------------------
\* A first start, or a start over the product of an earlier run.
Init ==
    /\ typed = [core |-> FirstCore, prof |-> 0, mode |-> 0]
    /\ legacy = [core |-> FirstCore, mode |-> 0] /\ latest = legacy
    /\ rev = 0
    /\ product \in {NoCfg, typed}
    /\ promoted = NoSnap /\ applied = NoSnap
    /\ core = [up |-> FALSE, cfg |-> NoCfg, bin |-> FirstCore]
    /\ doubt = FALSE
    /\ gate = Free /\ lease = Free
    /\ proc = [p \in Procs |-> Resting]
    /\ boot = "regen"
    /\ dirty = FALSE /\ owed = FALSE /\ active = TRUE
    /\ worker = "recv" /\ stopping = "no"
    /\ recovering = FALSE
    /\ ops = 0 /\ failures = 0 /\ crashes = 0
    /\ outside \in {0, MaxOutside}   \* with or without restarts from outside

-----------------------------------------------------------------------------
(* The operations.                                                         *)

At(p, step)    == proc[p].pc = step
Goto(p, step)  == proc' = [proc EXCEPT ![p].pc = step]
Fail(fault)    == /\ fault \in Faults
                  /\ failures < MaxFailures
                  /\ failures' = failures + 1

\* runtime_lifecycle_state and the bytes of the product.
Captured == [product |-> product, promoted |-> promoted, applied |-> applied]

\* (Mutant) the gate stays taken.
UnlockLeaks(p) ==
    /\ gate' = gate
    /\ lease' = IF lease = p THEN Free ELSE lease

\* Dropping the guards at the end of an operation.
Unlock(p) ==
    /\ gate' = IF gate = p THEN Free ELSE gate
    /\ lease' = IF lease = p THEN Free ELSE lease

Finish(p) == Unlock(p) /\ proc' = [proc EXCEPT ![p] = Resting]

Start(p, o, want) ==
    proc' = [proc EXCEPT ![p] = [Resting EXCEPT !.op = o, !.pc = "gate", !.want = want]]

\* resolve_setup has returned.
Booted == boot = "done" /\ At(Boot, "idle")

\* Commands reach the facade after setup. A facade mutation commits the
\* profiles first and then rebuilds inline (collect_post_commit_degradations).
Call(p, o, want) ==
    /\ Booted
    /\ At(p, "idle")
    /\ ops < MaxOps
    /\ ops' = ops + 1
    /\ o \in {"change_core", "patch"} => \A q \in Procs : proc[q].op # o
    /\ \/ o = "rebuild" /\ typed' = typed
       \/ /\ o = "rebuild" /\ typed.prof < MaxProf
          /\ typed' = [typed EXCEPT !.prof = @ + 1]
       \/ o # "rebuild" /\ typed' = typed
    /\ Start(p, o, want)
    /\ UNCHANGED <<legacy, latest, runtimeVars, coreVars, lockVars, boot, workerVars,
                   recovering, failures, crashes, outside>>

\* resolve_setup: build, fall back when nothing was promoted, start the core.
BootStep ==
    /\ At(Boot, "idle")
    /\ \/ /\ boot = "regen"
          /\ boot' = "fallback"
          /\ Start(Boot, "regenerate", 0)
       \/ /\ boot = "fallback"
          /\ boot' = "start"
          /\ IF promoted # NoSnap THEN UNCHANGED proc
             ELSE Start(Boot, IF product # NoCfg THEN "existing" ELSE "default", 0)
       \/ /\ boot = "start"
          /\ boot' = "done"
          /\ Start(Boot, "start", 0)
    /\ UNCHANGED <<desiredVars, runtimeVars, coreVars, lockVars, workerVars,
                   recovering, boundVars>>

\* The boot fallbacks read their inputs before they ask for the lease.
Fallbacks    == {"existing", "default"}
AfterGate(p) == IF proc[p].op \in Fallbacks THEN "read" ELSE "lease"

AcquireGate(p) ==
    /\ At(p, "gate")
    /\ gate = Free
    /\ gate' = p
    /\ Goto(p, AfterGate(p))
    /\ UNCHANGED <<desiredVars, runtimeVars, coreVars, lease, boot, workerVars,
                   recovering, boundVars>>

\* CoreLifecyclePort::begin. change_core captures its rollback material and
\* drafts the new core.
AcquireLease(p) ==
    /\ At(p, "lease")
    /\ proc[p].op \notin {"patch", "start"}
    /\ lease = Free
    /\ lease' = p
    /\ latest' = IF proc[p].op = "change_core"
                 THEN [latest EXCEPT !.core = proc[p].want] ELSE latest
    /\ proc' = [proc EXCEPT ![p] = [@ EXCEPT
          !.pc = IF proc[p].op \in Fallbacks THEN "promote" ELSE "read",
          !.saved = Captured]]
    /\ UNCHANGED <<typed, legacy, runtimeVars, coreVars, gate, boot, workerVars,
                   recovering, boundVars>>

\* start_promoted_runtime: nothing to start while nothing is promoted.
StartPromoted(p) ==
    /\ At(p, "lease")
    /\ proc[p].op = "start"
    /\ \/ /\ promoted = NoSnap
          /\ Finish(p)
       \/ /\ promoted # NoSnap
          /\ lease = Free
          /\ lease' = p
          /\ proc' = [proc EXCEPT ![p] = [@ EXCEPT !.pc = "restart", !.snap = promoted]]
          /\ UNCHANGED gate
    /\ UNCHANGED <<desiredVars, runtimeVars, coreVars, boot, workerVars, recovering,
                   boundVars>>

\* compensation_for: what a patch replaces can be put back once Applied is known
\* (the patch command carries at least one key).
CompensationFor == applied # NoSnap

\* patch_running_config: refused while Applied is unknown; otherwise the
\* running core is patched through its API before anything is committed.
PatchCore(p) ==
    /\ At(p, "lease")
    /\ proc[p].op = "patch"
    /\ lease = Free
    /\ \/ /\ ~ CompensationFor \/ ~ core.up     \* the API does not answer
          /\ Finish(p)
          /\ UNCHANGED <<latest, coreVars, failures>>
       \/ /\ CompensationFor /\ core.up
          /\ lease' = p
          /\ core' = [core EXCEPT !.cfg.mode = proc[p].want]
          /\ latest' = [latest EXCEPT !.mode = proc[p].want]
          /\ proc' = [proc EXCEPT ![p] = [@ EXCEPT !.pc = "read", !.saved = Captured]]
          /\ UNCHANGED <<gate, doubt, failures>>
       \/ /\ CompensationFor /\ core.up     \* the API call fails
          /\ Fail("api")
          /\ doubt' = TRUE
          /\ \/ UNCHANGED core
             \/ core' = [core EXCEPT !.cfg.mode = proc[p].want]
          /\ Finish(p)
          /\ UNCHANGED latest
    /\ UNCHANGED <<typed, legacy, runtimeVars, boot, workerVars, recovering,
                   ops, crashes, outside>>

-----------------------------------------------------------------------------
(* Build, check, promote, publish.                                         *)

\* The inputs: typed snapshots, or the legacy drafts for legacy callers
\* (legacy_regen_inputs), or the product itself, or the bare default.
Inputs(p) ==
    CASE proc[p].op \in {"rebuild", "regenerate"} -> typed
      [] proc[p].op = "existing" -> [product EXCEPT !.core = typed.core]
      [] proc[p].op = "default" ->
            [core |-> latest.core, prof |-> 0, mode |-> latest.mode]
      [] OTHER -> [core |-> latest.core, prof |-> typed.prof, mode |-> latest.mode]

\* RuntimeRevisionAllocator::allocate, the snapshots, RuntimeBuilder::build.
ReadInputs(p) ==
    /\ At(p, "read")
    /\ rev' = rev + 1
    /\ proc' = [proc EXCEPT ![p] = [@ EXCEPT
          !.pc = IF lease = p THEN "promote" ELSE "lease",
          !.snap = [rev |-> rev + 1, cfg |-> Inputs(p)]]]
    /\ UNCHANGED <<desiredVars, product, promoted, applied, coreVars, lockVars, boot,
                   workerVars, recovering, boundVars>>

\* check_and_promote: the exact bytes that were checked reach the product.
Promote(p) ==
    /\ At(p, "promote")
    /\ product' = proc[p].snap.cfg
    /\ Goto(p, "publish")
    /\ UNCHANGED <<desiredVars, rev, promoted, applied, coreVars, lockVars, boot,
                   workerVars, recovering, boundVars>>

\* (The patch command carries no port or secret, so a patch never restarts.)
AfterPublish(p) ==
    CASE proc[p].op \in {"rebuild", "apply_legacy", "patch"} -> "apply"
      [] proc[p].op \in {"restart_legacy", "change_core"} -> "restart"
      [] OTHER -> "idle"

\* publish_promoted refuses a revision that does not advance.
Publish(p) ==
    /\ At(p, "publish")
    /\ promoted.rev < proc[p].snap.rev
    /\ promoted' = proc[p].snap
    /\ IF AfterPublish(p) = "idle" THEN Finish(p)
       ELSE Goto(p, AfterPublish(p)) /\ UNCHANGED lockVars
    /\ UNCHANGED <<desiredVars, rev, product, applied, coreVars, boot, workerVars,
                   recovering, boundVars>>

-----------------------------------------------------------------------------
(* The core.                                                               *)

\* What an operation commits to the legacy configuration once the core has
\* taken the product: change_core its core, patch_clash_with_rebuild its patch,
\* having given the lease back.
CommitLegacy(p) ==
    /\ legacy' = CASE proc[p].op = "patch" -> [legacy EXCEPT !.mode = latest.mode]
                   [] proc[p].op = "change_core" /\ proc[p].stage = "forward" ->
                        [legacy EXCEPT !.core = latest.core]
                   [] OTHER -> legacy
    /\ lease' = IF proc[p].op = "patch" THEN Free ELSE lease

\* apply_config_from: PUT /configs.
Apply(p) ==
    /\ At(p, "apply")
    /\ core.up
    /\ core' = [core EXCEPT !.cfg = product]
    /\ doubt' = FALSE
    /\ Goto(p, "applied")
    /\ CommitLegacy(p)
    /\ UNCHANGED <<typed, latest, runtimeVars, gate, boot, workerVars, recovering,
                   boundVars>>

\* run_core_from: the binary is the one Config::verge().latest() names.
Running == [up |-> TRUE, cfg |-> product, bin |-> latest.core]

\* A rollback to a product nothing was known of publishes nothing.
Restart(p) ==
    /\ At(p, "restart")
    /\ product # NoCfg
    /\ core' = Running
    /\ doubt' = FALSE
    /\ IF proc[p].stage = "restored" /\ proc[p].saved.promoted = NoSnap
       THEN Finish(p) /\ UNCHANGED legacy
       ELSE Goto(p, "applied") /\ CommitLegacy(p) /\ UNCHANGED gate
    /\ UNCHANGED <<typed, latest, runtimeVars, boot, workerVars, recovering, boundVars>>

\* publish_applied: only the snapshot that is promoted now.
PublishApplied(p) ==
    /\ At(p, "applied")
    /\ applied' = IF promoted = proc[p].snap THEN proc[p].snap ELSE applied
    /\ IF proc[p].op = "change_core" /\ proc[p].stage = "forward"
       THEN Unlock(p) /\ Goto(p, "reseed")
       ELSE Finish(p)
    /\ UNCHANGED <<desiredVars, rev, product, promoted, coreVars, boot, workerVars,
                   recovering, boundVars>>

\* Config::clash().save_config() fails after the core has taken the patch.
SaveFails(p) ==
    /\ At(p, "applied")
    /\ proc[p].op = "patch"
    /\ Fail("save")
    /\ Finish(p)
    /\ UNCHANGED <<desiredVars, runtimeVars, coreVars, boot, workerVars, recovering,
                   ops, crashes, outside>>

\* run_legacy_verge_mutation after change_core has returned: the previous legacy
\* image is restored, then the typed application state is committed and mirrored.
ReseedRestore(p) ==
    /\ At(p, "reseed")
    /\ legacy' = [legacy EXCEPT !.core = typed.core]
    /\ latest' = [latest EXCEPT !.core = typed.core]
    /\ Goto(p, "commit")
    /\ UNCHANGED <<typed, runtimeVars, coreVars, lockVars, boot, workerVars,
                   recovering, boundVars>>

ReseedCommit(p) ==
    /\ At(p, "commit")
    /\ typed' = [typed EXCEPT !.core = proc[p].want]
    /\ legacy' = [legacy EXCEPT !.core = proc[p].want]
    /\ latest' = [latest EXCEPT !.core = proc[p].want]
    /\ Finish(p)
    /\ UNCHANGED <<runtimeVars, coreVars, boot, workerVars, recovering, boundVars>>

-----------------------------------------------------------------------------
(* Errors.                                                                 *)

\* (Mutant) the draft survives the failed switch.
DiscardForgotten(p) == UNCHANGED latest

\* Config::clash().discard() of a patch, Config::verge().discard() of a switch.
Discard(p) ==
    latest' = IF proc[p].op = "patch" THEN [latest EXCEPT !.mode = legacy.mode]
                                      ELSE [latest EXCEPT !.core = legacy.core]

\* Where an operation goes when a step of its build or start fails.
OnError(p) ==
    CASE proc[p].op = "change_core" /\ proc[p].stage = "forward" /\ At(p, "restart") ->
            /\ proc' = [proc EXCEPT ![p] = [@ EXCEPT !.stage = "rollback", !.pc = "read"]]
            /\ Discard(p)
            /\ UNCHANGED lockVars
      [] /\ proc[p].op = "change_core" /\ proc[p].stage = "rollback"
         /\ ~ At(p, "restart") ->
            Goto(p, "restore") /\ UNCHANGED <<latest, lockVars>>
      [] proc[p].op = "patch" ->
            Goto(p, "compensate") /\ UNCHANGED <<latest, lockVars>>
      [] proc[p].op = "change_core" /\ proc[p].stage = "forward" /\ ~ At(p, "restart") ->
            Finish(p) /\ Discard(p)
      [] OTHER -> Finish(p) /\ UNCHANGED latest

\* The build fails, the check rejects the candidate, promotion fails.
BuildFails(p) ==
    /\ proc[p].pc \in {"read", "promote"}
    /\ \/ Fail("build") /\ UNCHANGED product
       \/ Fail("readback") /\ At(p, "promote") /\ product' = proc[p].snap.cfg
    /\ rev' = IF At(p, "read") THEN rev + 1 ELSE rev
    /\ OnError(p)
    /\ UNCHANGED <<typed, legacy, promoted, applied, coreVars, boot, workerVars,
                   recovering, ops, crashes, outside>>

\* The five PUTs fail; the core may have taken one of them all the same.
ApplyFails(p) ==
    /\ At(p, "apply")
    /\ core.up => Fail("api")
    /\ ~ core.up => UNCHANGED failures
    /\ \/ UNCHANGED coreVars
       \/ core.up /\ core' = [core EXCEPT !.cfg = product] /\ doubt' = TRUE
    /\ OnError(p)
    /\ UNCHANGED <<typed, legacy, runtimeVars, boot, workerVars, recovering,
                   ops, crashes, outside>>

\* run_core_from stops the old core first; stopping it may fail as well.
RestartFails(p) ==
    /\ At(p, "restart")
    /\ product # NoCfg => Fail("start")
    /\ product = NoCfg => UNCHANGED failures
    /\ \/ core' = [core EXCEPT !.up = FALSE]
       \/ UNCHANGED core
    /\ UNCHANGED doubt
    /\ OnError(p)
    /\ UNCHANGED <<typed, legacy, runtimeVars, boot, workerVars, recovering,
                   ops, crashes, outside>>

\* change_core: restore_product, or removal of a product that was not there.
RestoreProduct(p) ==
    /\ At(p, "restore")
    /\ product' = proc[p].saved.product
    /\ Goto(p, "unpublish")
    /\ UNCHANGED <<desiredVars, rev, promoted, applied, coreVars, lockVars, boot,
                   workerVars, recovering, boundVars>>

RestoreFails(p) ==
    /\ At(p, "restore")
    /\ Fail("restore")
    /\ Finish(p)
    /\ UNCHANGED <<desiredVars, runtimeVars, coreVars, boot, workerVars, recovering,
                   ops, crashes, outside>>

\* restore_promoted, then the old core is started on the restored product.
RestorePromoted(p) ==
    /\ At(p, "unpublish")
    /\ promoted' = proc[p].saved.promoted
    /\ proc' = [proc EXCEPT ![p] = [@ EXCEPT
          !.stage = "restored", !.pc = "restart", !.snap = proc[p].saved.promoted]]
    /\ UNCHANGED <<desiredVars, rev, product, applied, coreVars, lockVars, boot,
                   workerVars, recovering, boundVars>>

\* (Mutant) a failed patch is not undone in the running core.
CompensateSkipped(p) ==
    /\ At(p, "compensate")
    /\ Discard(p)
    /\ Finish(p)
    /\ UNCHANGED <<typed, legacy, runtimeVars, coreVars, boot, workerVars, recovering,
                   boundVars>>

\* PatchCompensationPlan::fence_matches.
FenceMatches(p) == applied.rev = proc[p].saved.applied.rev

\* restore_applied_after_patch_failure: the bytes of the captured Applied are
\* applied directly, unless Applied has moved on; the product stays.
Compensate(p) ==
    /\ At(p, "compensate")
    /\ Discard(p)
    /\ Finish(p)
    /\ IF FenceMatches(p) /\ core.up
       THEN /\ core' = [core EXCEPT !.cfg = proc[p].saved.applied.cfg]
            /\ doubt' = FALSE
            /\ applied' = IF product = promoted.cfg THEN proc[p].saved.applied
                                                    ELSE applied
       ELSE doubt' = TRUE /\ UNCHANGED <<core, applied>>
    /\ UNCHANGED <<typed, legacy, rev, product, promoted, boot, workerVars,
                   recovering, boundVars>>

CompensateFails(p) ==
    /\ At(p, "compensate")
    /\ Fail("api")
    /\ doubt' = TRUE
    /\ Discard(p)
    /\ Finish(p)
    /\ UNCHANGED <<typed, legacy, runtimeVars, core, boot, workerVars, recovering,
                   ops, crashes, outside>>

-----------------------------------------------------------------------------
(* CoreManager outside the client: lifecycle lease only.                   *)

\* restart_sidecar, the service connection, the updater: run_core.
RestartCore ==
    /\ "restart" \in Outside
    /\ outside < MaxOutside
    /\ Booted
    /\ lease = Free
    /\ outside' = outside + 1
    /\ \/ /\ product # NoCfg
          /\ core' = Running
          /\ doubt' = FALSE
          /\ UNCHANGED failures
       \/ /\ Fail("start")
          /\ core' = [core EXCEPT !.up = FALSE]
          /\ UNCHANGED doubt
    /\ UNCHANGED <<desiredVars, runtimeVars, lockVars, proc, boot, workerVars,
                   recovering, ops, crashes>>

\* The core exits with an error; recover_core is spawned ...
CoreDies ==
    /\ "recover" \in Outside
    /\ outside < MaxOutside
    /\ core.up
    /\ outside' = outside + 1
    /\ core' = [core EXCEPT !.up = FALSE]
    /\ recovering' = TRUE
    /\ UNCHANGED <<desiredVars, runtimeVars, doubt, lockVars, proc, boot, workerVars,
                   ops, failures, crashes>>

\* ... and runs the product again (every five seconds until it works).
RecoverCore ==
    /\ recovering
    /\ lease = Free
    /\ product # NoCfg
    /\ core' = Running
    /\ doubt' = FALSE
    /\ recovering' = FALSE
    /\ UNCHANGED <<desiredVars, runtimeVars, lockVars, proc, boot, workerVars,
                   boundVars>>

-----------------------------------------------------------------------------
(* RebuildCoordinator.                                                     *)

\* A background commit (a refreshed profile, a changed file) ...
CommitProfile ==
    /\ typed.prof < MaxProf
    /\ ~ owed
    /\ typed' = [typed EXCEPT !.prof = @ + 1]
    /\ owed' = TRUE
    /\ UNCHANGED <<legacy, latest, runtimeVars, coreVars, lockVars, proc, boot, dirty,
                   active, worker, stopping, recovering, boundVars>>

\* ... and request_rebuild: try_send on the channel of capacity one.
RequestRebuild ==
    /\ owed
    /\ owed' = FALSE
    /\ dirty' = (dirty \/ active)
    /\ UNCHANGED <<desiredVars, runtimeVars, coreVars, lockVars, proc, boot, active,
                   worker, stopping, recovering, boundVars>>

\* recv; the loop leaves at the shutdown signal instead (biased select).
WorkerReceive ==
    /\ worker = "recv"
    /\ stopping = "no"
    /\ dirty
    /\ dirty' = FALSE
    /\ worker' = "coalesce"
    /\ UNCHANGED <<desiredVars, runtimeVars, coreVars, lockVars, proc, boot, owed,
                   active, stopping, recovering, boundVars>>

\* The window has passed and the coordinator is still active.
WorkerWake ==
    /\ worker = "coalesce"
    /\ worker' = IF active THEN "drain" ELSE "stopped"
    /\ UNCHANGED <<desiredVars, runtimeVars, coreVars, lockVars, proc, boot, dirty,
                   owed, active, stopping, recovering, boundVars>>

\* Signals of the window are folded into this rebuild.
WorkerDrain ==
    /\ worker = "drain"
    /\ dirty' = FALSE
    /\ worker' = "rebuild"
    /\ Start(Worker, "rebuild", 0)
    /\ UNCHANGED <<desiredVars, runtimeVars, coreVars, lockVars, boot, owed, active,
                   stopping, recovering, boundVars>>

\* (Mutant) signals that arrived during the rebuild are dropped with it.
WorkerDoneDrains ==
    /\ worker = "rebuild"
    /\ At(Worker, "idle")
    /\ worker' = "recv"
    /\ dirty' = FALSE
    /\ UNCHANGED <<desiredVars, runtimeVars, coreVars, lockVars, proc, boot, owed,
                   active, stopping, recovering, boundVars>>

WorkerDone ==
    /\ worker = "rebuild"
    /\ At(Worker, "idle")
    /\ worker' = "recv"
    /\ UNCHANGED <<desiredVars, runtimeVars, coreVars, lockVars, proc, boot, dirty,
                   owed, active, stopping, recovering, boundVars>>

\* The select sees the shutdown signal in recv or in the window.
WorkerStop ==
    /\ stopping = "signalled"
    /\ worker \in {"recv", "coalesce"}
    /\ worker' = "stopped"
    /\ UNCHANGED <<desiredVars, runtimeVars, coreVars, lockVars, proc, boot, dirty,
                   owed, active, stopping, recovering, boundVars>>

\* shutdown(): active is cleared before the signal is sent ...
Deactivate ==
    /\ Booted
    /\ active
    /\ active' = FALSE
    /\ UNCHANGED <<desiredVars, runtimeVars, coreVars, lockVars, proc, boot, dirty,
                   owed, worker, stopping, recovering, boundVars>>

Signal ==
    /\ ~ active
    /\ stopping = "no"
    /\ stopping' = "signalled"
    /\ UNCHANGED <<desiredVars, runtimeVars, coreVars, lockVars, proc, boot, dirty,
                   owed, active, worker, recovering, boundVars>>

\* ... and the call returns when the worker has gone.
ShutdownDone ==
    /\ stopping = "signalled"
    /\ worker = "stopped"
    /\ stopping' = "done"
    /\ UNCHANGED <<desiredVars, runtimeVars, coreVars, lockVars, proc, boot, dirty,
                   owed, active, worker, recovering, boundVars>>

\* The process dies and starts again; sync_legacy_mirrors projects the typed
\* application state, the clash overrides come from the typed state too.
Crash ==
    /\ crashes < MaxCrashes
    /\ crashes' = crashes + 1
    /\ legacy' = [core |-> typed.core, mode |-> typed.mode]
    /\ latest' = legacy'
    /\ rev' = 0 /\ promoted' = NoSnap /\ applied' = NoSnap
    /\ core' = [core EXCEPT !.up = FALSE]
    /\ doubt' = FALSE
    /\ gate' = Free /\ lease' = Free
    /\ proc' = [p \in Procs |-> Resting]
    /\ boot' = "regen"
    /\ dirty' = FALSE /\ owed' = FALSE /\ active' = TRUE
    /\ worker' = "recv" /\ stopping' = "no" /\ recovering' = FALSE
    /\ UNCHANGED <<typed, product, ops, failures, outside>>

-----------------------------------------------------------------------------
Step(p) ==
    \/ AcquireGate(p) \/ AcquireLease(p) \/ StartPromoted(p) \/ PatchCore(p)
    \/ ReadInputs(p) \/ Promote(p) \/ Publish(p)
    \/ Apply(p) \/ Restart(p) \/ PublishApplied(p)
    \/ ReseedRestore(p) \/ ReseedCommit(p)
    \/ RestoreProduct(p) \/ RestorePromoted(p) \/ Compensate(p)

Trouble(p) ==
    \/ BuildFails(p) \/ ApplyFails(p) \/ RestartFails(p)
    \/ RestoreFails(p) \/ CompensateFails(p) \/ SaveFails(p)

Calls ==
    \E p \in Clients, o \in Ops :
       \/ o = "change_core" /\ \E c \in Cores : Call(p, o, c)
       \/ o = "patch" /\ \E m \in 1 .. MaxMode : Call(p, o, m)
       \/ o \notin {"change_core", "patch"} /\ Call(p, o, 0)

WorkerLoop == WorkerReceive \/ WorkerWake \/ WorkerDrain \/ WorkerDone \/ WorkerStop

Next ==
    \/ \E p \in Procs : Step(p) \/ Trouble(p)
    \/ Calls \/ BootStep
    \/ RestartCore \/ CoreDies \/ RecoverCore
    \/ CommitProfile \/ RequestRebuild \/ WorkerLoop
    \/ Deactivate \/ Signal \/ ShutdownDone
    \/ Crash

Spec == Init /\ [][Next]_vars

\* tokio tasks and threads are scheduled; a call returns, one way or the other;
\* tokio::sync::Mutex queues its waiters, so nobody waits for a lock forever.
Acquire(p) == AcquireGate(p) \/ AcquireLease(p) \/ StartPromoted(p) \/ PatchCore(p)

Fairness ==
    /\ \A p \in Procs : WF_vars(Step(p) \/ Trouble(p)) /\ SF_vars(Acquire(p))
    /\ WF_vars(BootStep) /\ WF_vars(RequestRebuild) /\ SF_vars(RecoverCore)
    /\ WF_vars(WorkerReceive \/ WorkerWake \/ WorkerDrain \/ WorkerDone)
    /\ WF_vars(WorkerStop) /\ WF_vars(Signal) /\ WF_vars(ShutdownDone)

FairSpec == Spec /\ Fairness

-----------------------------------------------------------------------------
(* Properties.                                                             *)

\* While nobody holds the lifecycle lease, the snapshot the read IPCs show
\* (promoted) is what the product file holds: through failed checks, the core
\* switch's rollbacks and its restored products.
ProductIsPromoted ==
    lease = Free /\ promoted # NoSnap => product = promoted.cfg

\* Between operations, the core that runs was last given the configuration of
\* the Applied snapshot, on which running-core patches base their compensation
\* (unless a failed API call has left the answer open).
RunningIsApplied ==
    gate = Free /\ lease = Free /\ core.up /\ ~ doubt /\ applied # NoSnap
       => core.cfg = applied.cfg

\* The two snapshots the application keeps are true of the file and of the core
\* they are named for.
SnapshotsTrue == ProductIsPromoted /\ RunningIsApplied

\* When no core switch is under way, the binary that runs, the configuration it
\* was checked for and both stores' selected core are the same, whichever
\* branch of change_core and of its rollback was taken. (With nothing promoted
\* the product may be what an earlier run left, checked for the other core.)
SwitchIsAtomic ==
    core.up /\ promoted # NoSnap /\ (\A p \in Procs : proc[p].op # "change_core")
       => /\ core.bin = typed.core
          /\ core.cfg.core = typed.core
          /\ latest.core = typed.core /\ legacy.core = typed.core

\* Every operation of every caller ends: nobody is left holding or waiting for
\* the rebuild gate or the lifecycle lease, whichever call fails.
OpsEnd == \A p \in Procs : []<>(At(p, "idle"))

\* A committed profile change reaches the promoted configuration unless the
\* application shuts down first or a call has failed (the worker only logs a
\* failed rebuild, it does not try again).
ProfilesReach ==
    \A v \in 1 .. MaxProf :
       (typed.prof = v /\ active)
          ~> (promoted.cfg.prof >= v \/ ~ active \/ failures > 0)

\* shutdown() returns.
ShutdownEnds == (~ active) ~> (stopping = "done")

\* Nobody waits for ever: neither a caller nor shutdown().
EveryoneReturns == OpsEnd /\ ShutdownEnds
=============================================================================
