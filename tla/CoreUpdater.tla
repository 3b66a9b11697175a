----------------------------- MODULE CoreUpdater -----------------------------
(***************************************************************************)
(* The core updater of backend/tauri/src/core/updater: each accepted update  *)
(* runs in a task of its own (download, decompress, replace) while the rest   *)
(* of the application keeps starting, stopping and switching the core.  The   *)
(* replacement holds CoreManager's lifecycle lease from before it reads the   *)
(* current core until its end; the copy over the installed binary is not      *)
(* atomic and is retried once with elevated permission.                       *)
(*                                                                          *)
(* Before that UpdaterManager chooses a mirror for an hour, gets the manifest  *)
(* of releases from it and accepts updates of the releases it lists; an update *)
(* can be inspected until five seconds after it was seen to have ended.        *)
(*                                                                          *)
(* A binary is named by what wrote it: "shipped", the updater that installed  *)
(* it, or "torn" while (or after) a copy stopped half way.                    *)
(***************************************************************************)
EXTENDS Naturals

CONSTANTS CuCores,      \* kinds of core (ClashCore)
          CuFirst,      \* the kind configured at start
          CuUpdaters,   \* updates the user may ask for
          CuReleases    \* bound: manifests there will be, numbered from 1

ASSUME CuAssumption == CuFirst \in CuCores /\ CuReleases \in Nat
\* The holder of a free lease is none of the updates.
ASSUME CuLeaseAssumption == "no updater" \notin CuUpdaters

VARIABLES cuMirror,   \* the mirror: not chosen yet, chosen, or chosen over an hour ago
          cuManifest, \* the manifest of the manager, 0 before the first
          cuUpd,     \* update -> its UpdaterState, core kind, release, session and progress
          cuLease,   \* the update that holds the lifecycle lease, or NoUpdater
          cuCurrent, \* clash_core of the verge configuration
          cuProc,    \* the process: the kind and the binary it was started from
          cuBin      \* kind -> the binary installed for it

cuNews == <<cuMirror, cuManifest>>
cuVars == <<cuMirror, cuManifest, cuUpd, cuLease, cuCurrent, cuProc, cuBin>>

NoUpdater == "no updater"
\* No instance was ever made / the instance there is has ended.
NoInstance == [core |-> CuFirst, bin |-> "no instance"]
CuStopped == [core |-> CuFirst, bin |-> "stopped"]
Binaries == {"shipped", "torn"} \cup CuUpdaters
CuRunning == cuProc \notin {NoInstance, CuStopped}

CuStates == {"Unused", "Idle", "Downloading", "Decompressing", "Replacing",
             "Restarting", "Done", "Failed"}
\* DownloaderState.
SessionStates == {"Idle", "Downloading", "Failed", "Finished"}
CuPcs == {"wait", "stop", "copy", "copying", "elevate", "elevating", "restart"}

CuUpdate == [state : CuStates, core : CuCores, pc : CuPcs, stopped : BOOLEAN,
             release : 0..CuReleases, session : SessionStates,
             kept : {"no", "yes", "removing"}]

CuTypeOK ==
  /\ cuMirror \in {"none", "fresh", "old"} /\ cuManifest \in 0..CuReleases
  /\ cuUpd \in [CuUpdaters -> CuUpdate]
  /\ cuLease \in CuUpdaters \cup {NoUpdater}
  /\ cuCurrent \in CuCores
  /\ cuProc \in [core : CuCores, bin : Binaries \cup {"no instance", "stopped"}]
  /\ cuBin \in [CuCores -> Binaries]

CuInit ==
  /\ cuMirror = "none" /\ cuManifest = 0
  /\ cuUpd = [u \in CuUpdaters |->
                [state |-> "Unused", core |-> CuFirst, pc |-> "wait", stopped |-> FALSE,
                 release |-> 0, session |-> "Idle", kept |-> "no"]]
  /\ cuLease = NoUpdater
  /\ cuCurrent = CuFirst
  /\ cuProc = NoInstance
  /\ cuBin = [c \in CuCores |-> "shipped"]

-----------------------------------------------------------------------------
(* The rest of the application, each operation under the lease *)

\* Instance::start of a new instance of kind c: a binary that is not whole
\* never comes up, and any other may fail to.
CuRun(c) ==
  \/ cuBin[c] # "torn" /\ cuProc' = [core |-> c, bin |-> cuBin[c]]
  \/ cuProc' = CuStopped

\* run_core, recover_core: any running instance is stopped first.
CuRunCore ==
  /\ cuLease = NoUpdater
  /\ CuRun(cuCurrent)
  /\ UNCHANGED <<cuNews, cuUpd, cuLease, cuCurrent, cuBin>>

CuStopCore ==
  /\ cuLease = NoUpdater /\ CuRunning
  /\ cuProc' = CuStopped
  /\ UNCHANGED <<cuNews, cuUpd, cuLease, cuCurrent, cuBin>>

\* A core switch drafts clash_core and restarts inside one lease; a failure
\* discards the draft and starts the previous core again.
CuChangeCore(c) ==
  /\ cuLease = NoUpdater /\ c # cuCurrent
  /\ \/ cuBin[c] # "torn" /\ cuProc' = [core |-> c, bin |-> cuBin[c]] /\ cuCurrent' = c
     \/ CuRun(cuCurrent) /\ UNCHANGED cuCurrent
  /\ UNCHANGED <<cuNews, cuUpd, cuLease, cuBin>>

\* The process ends by itself; its recovery is a CuRunCore.
CuCrash ==
  /\ CuRunning
  /\ cuProc' = CuStopped
  /\ UNCHANGED <<cuNews, cuUpd, cuLease, cuCurrent, cuBin>>

-----------------------------------------------------------------------------
(* UpdaterManager, behind one lock for all its requests *)

\* mirror_speed_test: for an hour nothing is tested again; a test may find no mirror.
MirrorSpeedTest == cuMirror' = "fresh"
CuHourPasses ==
  /\ cuMirror = "fresh" /\ cuMirror' = "old"
  /\ UNCHANGED <<cuManifest, cuUpd, cuLease, cuCurrent, cuProc, cuBin>>

\* fetch_latest: the manifest may be the next one, the same, or not to be had.
FetchLatest ==
  /\ MirrorSpeedTest
  /\ cuManifest' \in {cuManifest, cuManifest + 1} \cap 0..CuReleases
  /\ UNCHANGED <<cuUpd, cuLease, cuCurrent, cuProc, cuBin>>

\* get_matches: the empty manifest at the start has no template for anything.
GetMatches(c) == cuManifest > 0

-----------------------------------------------------------------------------
(* One update *)

\* dispatch_state together with where replace_core goes on.
Dispatch(u, state, pc) == cuUpd' = [cuUpd EXCEPT ![u] = [@ EXCEPT !.state = state, !.pc = pc]]
Fail(u) == Dispatch(u, "Failed", "wait")

\* UpdaterManager::update_core: nothing stops a second update of the same kind.  A
\* session that cannot be built leaves at most a mirror.
CuUpdateCore(u, c) ==
  /\ cuUpd[u].state = "Unused" /\ MirrorSpeedTest
  /\ \/ GetMatches(c) /\ cuUpd' = [cuUpd EXCEPT ![u] =
              [@ EXCEPT !.state = "Idle", !.core = c, !.release = cuManifest, !.kept = "yes"]]
     \/ UNCHANGED cuUpd
  /\ UNCHANGED <<cuManifest, cuLease, cuCurrent, cuProc, cuBin>>

\* inspect_updater: each look at an update that has ended has it removed later.
InspectUpdater(u) ==
  /\ cuUpd[u].kept # "no"
  /\ \/ cuUpd[u].state \in {"Done", "Failed"} /\ cuUpd' = [cuUpd EXCEPT ![u].kept = "removing"]
     \/ cuUpd[u].kept = "removing" /\ cuUpd' = [cuUpd EXCEPT ![u].kept = "no"]
  /\ UNCHANGED <<cuNews, cuLease, cuCurrent, cuProc, cuBin>>

\* on_event: what the download engine tells the session.
OnEvent(u) ==
  /\ cuUpd[u].state = "Downloading"
  /\ \/ cuUpd[u].session = "Idle" /\ cuUpd' = [cuUpd EXCEPT ![u].session = "Downloading"]
     \/ /\ cuUpd[u].session = "Downloading"
        /\ \E end \in {"Failed", "Finished"} : cuUpd' = [cuUpd EXCEPT ![u].session = end]
  /\ UNCHANGED <<cuNews, cuLease, cuCurrent, cuProc, cuBin>>

\* Updater::start up to replace_core: the download and the unpacking touch
\* nothing but the updater's own temporary directory, and either may fail.
CuFetch(u) ==
  /\ \/ cuUpd[u].state = "Idle" /\ Dispatch(u, "Downloading", "wait")
     \/ /\ cuUpd[u].state = "Downloading" /\ cuUpd[u].session = "Finished"
        /\ Dispatch(u, "Decompressing", "wait")
     \/ /\ cuUpd[u].state = "Downloading" /\ cuUpd[u].session # "Finished"
        /\ cuUpd' = [cuUpd EXCEPT ![u] = [@ EXCEPT !.state = "Failed", !.session = "Failed"]]
     \/ cuUpd[u].state = "Decompressing" /\ Dispatch(u, "Replacing", "wait")
     \/ cuUpd[u].state = "Decompressing" /\ Fail(u)
  /\ UNCHANGED <<cuNews, cuLease, cuCurrent, cuProc, cuBin>>

\* begin_lifecycle.
CuAcquire(u) ==
  /\ cuUpd[u].state = "Replacing" /\ cuUpd[u].pc = "wait" /\ cuLease = NoUpdater
  /\ cuLease' = u
  /\ cuUpd' = [cuUpd EXCEPT ![u].pc = "stop"]
  /\ UNCHANGED <<cuNews, cuCurrent, cuProc, cuBin>>

MutCuMustStop(u) == FALSE

\* The core is stopped, and started again at the end, only when the update is
\* for the configured kind.
CuMustStop(u) == cuCurrent = cuUpd[u].core

\* stop_core: fine without an instance, an error on an instance that has ended
\* ("core is already stopped") or when the kill fails.
CuStop(u) ==
  /\ cuUpd[u].pc = "stop"
  /\ IF ~CuMustStop(u)
     THEN /\ cuUpd' = [cuUpd EXCEPT ![u].pc = "copy"]
          /\ UNCHANGED <<cuLease, cuProc>>
     ELSE \/ /\ cuProc # CuStopped
             /\ cuUpd' = [cuUpd EXCEPT ![u] = [@ EXCEPT !.pc = "copy", !.stopped = TRUE]]
             /\ cuProc' = IF CuRunning THEN CuStopped ELSE cuProc
             /\ UNCHANGED cuLease
          \/ /\ cuProc # NoInstance
             /\ Fail(u)
             /\ cuLease' = NoUpdater
             /\ UNCHANGED cuProc
  /\ UNCHANGED <<cuNews, cuCurrent, cuBin>>

\* tokio::fs::copy fails before it touches the target, or truncates it and
\* writes; the elevated copy does the same in another process.
CuCopyStart(u) ==
  /\ \/ cuUpd[u].pc = "copy" /\ cuUpd' = [cuUpd EXCEPT ![u].pc = "copying"]
     \/ cuUpd[u].pc = "elevate" /\ cuUpd' = [cuUpd EXCEPT ![u].pc = "elevating"]
  /\ cuBin' = [cuBin EXCEPT ![cuUpd[u].core] = "torn"]
  /\ UNCHANGED <<cuNews, cuLease, cuCurrent, cuProc>>

\* The copy is complete: the core comes back if it was stopped for it.
CuCopyDone(u) ==
  /\ cuUpd[u].pc \in {"copying", "elevating"}
  /\ cuBin' = [cuBin EXCEPT ![cuUpd[u].core] = u]
  /\ IF cuUpd[u].stopped
     THEN Dispatch(u, "Restarting", "restart") /\ UNCHANGED cuLease
     ELSE Dispatch(u, "Done", "wait") /\ cuLease' = NoUpdater
  /\ UNCHANGED <<cuNews, cuCurrent, cuProc>>

\* The first copy failed, at once or half way: try with elevated permission.
CuElevate(u) ==
  /\ cuUpd[u].pc \in {"copy", "copying"}
  /\ cuUpd' = [cuUpd EXCEPT ![u].pc = "elevate"]
  /\ UNCHANGED <<cuNews, cuLease, cuCurrent, cuProc, cuBin>>

\* The elevated copy was refused or failed: the update ends there, and a core
\* that was stopped for it stays down.
CuGiveUp(u) ==
  /\ cuUpd[u].pc \in {"elevate", "elevating"}
  /\ Fail(u)
  /\ cuLease' = NoUpdater
  /\ UNCHANGED <<cuNews, cuCurrent, cuProc, cuBin>>

\* run_core_from, still under the lease.
CuRestart(u) ==
  /\ cuUpd[u].pc = "restart"
  /\ CuRun(cuCurrent)
  /\ IF cuProc' = CuStopped THEN Fail(u) ELSE Dispatch(u, "Done", "wait")
  /\ cuLease' = NoUpdater
  /\ UNCHANGED <<cuNews, cuCurrent, cuBin>>

CuNext ==
  \/ CuRunCore \/ CuStopCore \/ CuCrash \/ CuHourPasses \/ FetchLatest
  \/ \E c \in CuCores : CuChangeCore(c)
  \/ \E u \in CuUpdaters :
       \/ \E c \in CuCores : CuUpdateCore(u, c)
       \/ InspectUpdater(u) \/ OnEvent(u) \/ CuFetch(u) \/ CuAcquire(u) \/ CuStop(u) \/ CuCopyStart(u) \/ CuCopyDone(u)
       \/ CuElevate(u) \/ CuGiveUp(u) \/ CuRestart(u)

CuSpec == CuInit /\ [][CuNext]_cuVars

-----------------------------------------------------------------------------
(* Properties *)

\* A running core always runs the binary that is installed for its kind: no
\* update, whatever it overlaps with (another update, a core switch, a crash
\* recovery), writes over a binary in use or leaves the old core running after
\* its replacement (instance.rs replace_core).
CuRunsInstalled == CuRunning => cuProc.bin = cuBin[cuProc.core]

\* An update can be followed from the moment it was accepted, for a release the manager
\* knew of, until it has ended, and unpacks nothing that was not downloaded to its end
\* (mod.rs update_core, inspect_updater, instance.rs start).
CuFollowed ==
  \A u \in CuUpdaters :
    /\ cuUpd[u].state # "Unused" => cuUpd[u].release \in 1..cuManifest
    /\ cuUpd[u].state \notin {"Unused", "Done", "Failed"} => cuUpd[u].kept = "yes"
    /\ cuUpd[u].state \in CuStates \ {"Unused", "Idle", "Downloading", "Failed"} =>
          cuUpd[u].session = "Finished"

\* The two promises of the updater, to the core and to its user.
CuUpdatesSound == CuRunsInstalled /\ CuFollowed
=============================================================================
