---------------------------- MODULE PersistentState ----------------------------
(***************************************************************************)
(* The three state managers that keep a file beside the coordinator's      *)
(* store (nyanpasu-core/src/state/manager):                                *)
(*   "file"   PersistentStateManager: the file is replaced inside the      *)
(*            effect, between prepare and commit;                          *)
(*   "built"  PersistentBuiltStateManager: the same, but what is written   *)
(*            is a builder and the state is what it builds;                *)
(*   "weak"   WeakPersistentStateManager: commit first, write afterwards,  *)
(*            best effort.                                                 *)
(* StateCoordinator models the rounds themselves; here a round is prepare, *)
(* (effect), commit, notify.  Replacing the file runs on a blocking thread *)
(* which a dropped operation leaves behind: psWriter[w] is the value that  *)
(* thread w is about to write.  AtomicFile makes each replacement atomic.  *)
(* A built state is named by the builder that builds it.                   *)
(***************************************************************************)
EXTENDS Naturals, FiniteSets

CONSTANTS PsValues,       \* documents (states, or builders)
          PsDefault,      \* State::default()
          PsUnbuildable,  \* builders whose build() fails
          PsWriters       \* blocking threads that may be writing at once

ASSUME PsAssumption == /\ PsDefault \in PsValues
                       /\ PsUnbuildable \subseteq PsValues \ {PsDefault}
\* What stands for no value, no thread, no file and a garbled one is none of these.
ASSUME PsMarkersAssumption == /\ {"none", "absent", "garbled"} \cap PsValues = {}
                              /\ "none" \notin PsWriters

VARIABLES psKind,      \* which manager
          psUp,        \* the manager exists in this process
          psMem,       \* the committed state
          psBuilder,   \* current_builder of the built manager
          psFile,      \* what the file holds
          psOp,        \* the operation in progress
          psWriter,    \* what each blocking thread is about to write
          psCommitted, \* history: every state committed or loaded
          psStray,     \* history: values of writes whose operation was dropped
          psSynced,    \* history: this process loaded or wrote the file
          psSkipped    \* history: dropped after the commit, builder not kept

psVars == <<psKind, psUp, psMem, psBuilder, psFile, psOp, psWriter,
            psCommitted, psStray, psSynced, psSkipped>>

NoValue == "none"
PsKinds == {"file", "built", "weak"}
Absent == "absent"
Garbled == "garbled"
PsIdle == [pc |-> "idle", val |-> NoValue, writer |-> NoValue]
PsPcs == {"prepare", "effect", "written", "failed", "notify", "persist"}

PsTypeOK ==
  /\ psKind \in PsKinds
  /\ psUp \in BOOLEAN /\ psSynced \in BOOLEAN /\ psSkipped \in BOOLEAN
  /\ psMem \in PsValues /\ psBuilder \in PsValues
  /\ psFile \in PsValues \cup {Absent, Garbled}
  /\ \/ psOp = PsIdle
     \/ psOp \in [pc : PsPcs, val : PsValues, writer : PsWriters \cup {NoValue}]
  /\ psWriter \in [PsWriters -> PsValues \cup {NoValue}]
  /\ psCommitted \subseteq PsValues /\ psStray \subseteq PsValues

Buildable(v) == psKind = "built" => v \notin PsUnbuildable

\* The app has not been started; the file is whatever an earlier version left.
PsInit ==
  /\ psKind \in PsKinds
  /\ psUp = FALSE /\ psMem = PsDefault /\ psBuilder = PsDefault
  /\ psFile \in {PsDefault, Absent, Garbled}
  /\ psOp = PsIdle /\ psWriter = [w \in PsWriters |-> NoValue]
  /\ psCommitted = {} /\ psStray = {}
  /\ psSynced = FALSE /\ psSkipped = FALSE
-------------------------------------------------------------------------------
(* Construction.  build_manager initialises the coordinator with the state; *)
(* a rejection of the initial state yields the manager with force_build and *)
(* an error otherwise.                                                      *)
PsBuildManager(v, synced) ==
  \E accepted, force \in BOOLEAN :
     IF accepted \/ force
     THEN /\ psUp' = TRUE /\ psMem' = v /\ psBuilder' = v
          /\ psCommitted' = {v} /\ psStray' = {}
          /\ psSynced' = synced /\ psSkipped' = FALSE
          /\ UNCHANGED <<psKind, psFile, psOp, psWriter>>
     ELSE UNCHANGED psVars

PsLoadError == UNCHANGED psVars

\* load: an absent file is an error.
PsLoad ==
  /\ ~psUp /\ psKind # "weak"
  /\ IF psFile \in PsValues /\ Buildable(psFile)
     THEN PsBuildManager(psFile, TRUE)
     ELSE PsLoadError

\* load_or_default of the strong managers: only an absent file means default.
PsLoadOrDefault ==
  /\ ~psUp /\ psKind # "weak"
  /\ CASE psFile = Absent -> PsBuildManager(PsDefault, FALSE)
       [] psFile = Garbled -> PsLoadError
       [] OTHER -> IF Buildable(psFile) THEN PsBuildManager(psFile, TRUE)
                                        ELSE PsLoadError

\* load_weak_snapshot: an absent, unreadable or garbled file is no snapshot.
LoadWeakSnapshot == IF psFile \in PsValues THEN psFile ELSE NoValue

PsLoadWeak ==
  /\ ~psUp /\ psKind = "weak"
  /\ LET s == LoadWeakSnapshot
     IN  IF s = NoValue THEN PsBuildManager(PsDefault, FALSE)
                        ELSE PsBuildManager(s, TRUE)

\* from_state, from_builder: the given state, and nothing is written.
PsFromState(v) ==
  /\ ~psUp
  /\ IF Buildable(v) THEN PsBuildManager(v, FALSE) ELSE PsLoadError
-------------------------------------------------------------------------------
(* Operations.  Every operation takes &mut self: one at a time. *)
PsBegin(v) ==
  /\ psUp /\ psOp = PsIdle /\ Buildable(v)
  /\ psOp' = [pc |-> "prepare", val |-> v, writer |-> NoValue]
  /\ UNCHANGED <<psKind, psUp, psMem, psBuilder, psFile, psWriter,
                 psCommitted, psStray, psSynced, psSkipped>>

PsReturn ==
  /\ psOp' = PsIdle
  /\ UNCHANGED <<psKind, psUp, psFile, psWriter, psStray>>

PsAbort == PsReturn /\ UNCHANGED <<psMem, psBuilder, psCommitted, psSynced, psSkipped>>

\* A required subscriber rejects the prepared state.
PsRejected == psOp.pc = "prepare" /\ PsAbort

PsSpawnWriter(next) ==
  \E w \in PsWriters :
     /\ psWriter[w] = NoValue
     /\ psWriter' = [psWriter EXCEPT ![w] = psOp.val]
     /\ psOp' = [psOp EXCEPT !.pc = next, !.writer = w]
     /\ UNCHANGED <<psKind, psUp, psMem, psBuilder, psFile, psCommitted,
                    psStray, psSynced, psSkipped>>

\* upsert of the strong managers: all accepted, the effect starts the writer.
PsUpsert == psOp.pc = "prepare" /\ psKind # "weak" /\ PsSpawnWriter("effect")

\* A blocking thread replaces the file, or fails; it tells the operation that
\* waits for it, if that operation still exists.
PsWriteDone(w, ok) ==
  /\ psWriter[w] # NoValue
  /\ psFile' = IF ok THEN psWriter[w] ELSE psFile
  /\ psWriter' = [psWriter EXCEPT ![w] = NoValue]
  /\ psOp' = IF psOp.writer # w THEN psOp
             ELSE CASE psOp.pc = "effect" /\ ok -> [psOp EXCEPT !.pc = "written", !.writer = NoValue]
                    [] psOp.pc = "effect" /\ ~ok -> [psOp EXCEPT !.pc = "failed", !.writer = NoValue]
                    [] psOp.pc = "persist" -> PsIdle      \* a failure is only logged
  /\ psSynced' = (psSynced \/ (ok /\ psOp.writer = w /\ psOp.pc = "persist"))
  /\ UNCHANGED <<psKind, psUp, psMem, psBuilder, psCommitted, psStray, psSkipped>>

PsWrite == \E w \in PsWriters, ok \in BOOLEAN : PsWriteDone(w, ok)

PsSwapIn(v) ==
  /\ psMem' = v /\ psCommitted' = psCommitted \cup {v}
  /\ psOp' = [psOp EXCEPT !.pc = "notify"]

\* Mutant: the error of the effect is ignored and the state committed.
MutPsRollback ==
  /\ psOp.pc = "failed" /\ PsSwapIn(psOp.val)
  /\ UNCHANGED <<psKind, psUp, psBuilder, psFile, psWriter, psStray, psSynced, psSkipped>>

\* The effect failed: rollback, and the error is returned.
PsRollback == psOp.pc = "failed" /\ PsAbort

PsCommit ==
  /\ psOp.pc = "written"
  /\ PsSwapIn(psOp.val)
  /\ psSynced' = TRUE
  /\ UNCHANGED <<psKind, psUp, psBuilder, psFile, psWriter, psStray, psSkipped>>

\* replace_if_version: the version has not moved since the caller read it (only
\* this manager writes), the file is written and the state swapped in one poll.
PsReplaceIfVersion ==
  /\ psOp.pc = "prepare" /\ psKind = "file"
  /\ \/ PsAbort                        \* persist_state_sync failed
     \/ /\ psFile' = psOp.val
        /\ PsSwapIn(psOp.val)
        /\ psSynced' = TRUE
        /\ UNCHANGED <<psKind, psUp, psBuilder, psWriter, psStray, psSkipped>>

\* A stale expected version: Conflict, before anything is prepared.
PsConflict == psUp /\ psOp = PsIdle /\ psKind = "file" /\ UNCHANGED psVars

\* upsert of the weak manager: the swap comes first.
PsUpsertWeak ==
  /\ psOp.pc = "prepare" /\ psKind = "weak"
  /\ PsSwapIn(psOp.val)
  /\ UNCHANGED <<psKind, psUp, psBuilder, psFile, psWriter, psStray, psSynced, psSkipped>>

\* The commit notification returned; the built manager keeps the builder.
PsFinish ==
  /\ psOp.pc = "notify" /\ psKind # "weak"
  /\ psBuilder' = psOp.val
  /\ psSkipped' = FALSE
  /\ PsReturn
  /\ UNCHANGED <<psMem, psCommitted, psSynced>>

TryPersist == psOp.pc = "notify" /\ psKind = "weak" /\ PsSpawnWriter("persist")

\* The caller drops the operation.  Nothing stops a writer that was spawned.
PsDrop ==
  /\ psOp # PsIdle
  /\ psOp' = PsIdle
  /\ psStray' = IF psOp.pc \in {"effect", "written", "persist"}
                THEN psStray \cup {psOp.val} ELSE psStray
  /\ psSkipped' = (psSkipped \/ psOp.pc = "notify")
  /\ UNCHANGED <<psKind, psUp, psMem, psBuilder, psFile, psWriter, psCommitted, psSynced>>

PsCrash ==
  /\ psUp /\ psUp' = FALSE
  /\ psOp' = PsIdle /\ psWriter' = [w \in PsWriters |-> NoValue]
  /\ UNCHANGED <<psKind, psMem, psBuilder, psFile, psCommitted, psStray, psSynced, psSkipped>>

PsNext ==
  \/ PsLoad \/ PsLoadOrDefault \/ PsLoadWeak
  \/ \E v \in PsValues : PsFromState(v) \/ PsBegin(v)
  \/ PsRejected \/ PsUpsert \/ PsWrite \/ PsRollback \/ PsCommit
  \/ PsReplaceIfVersion \/ PsConflict \/ PsUpsertWeak \/ PsFinish \/ TryPersist
  \/ PsDrop \/ PsCrash

PsSpec == PsInit /\ [][PsNext]_psVars
-------------------------------------------------------------------------------
(* What the next start would find, against what was acknowledged: between   *)
(* operations a strong manager's file holds the committed state, or the     *)
(* value of a write whose operation was dropped; a weak manager's file is a *)
(* state that was once committed, never one that was only prepared; and the *)
(* builder kept in memory is the one behind the committed state unless an   *)
(* operation was dropped during its commit notification.                    *)
PsDurable ==
  psUp /\ psOp = PsIdle =>
     /\ psSynced /\ psKind # "weak" => psFile \in {psMem} \cup psStray
     /\ psSynced /\ psKind = "weak" => psFile \in psCommitted
     /\ psKind = "built" /\ ~psSkipped => psBuilder = psMem
================================================================================
