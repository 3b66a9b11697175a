---------------------- MODULE ProfileMaterialization ----------------------
(* How a profile document and the managed profile files are changed        *)
(* together: the journalled file service (service/profile_file.rs) driven   *)
(* by the commit helpers of the profiles actor (state/profiles/actor.rs).   *)
(*                                                                          *)
(* A call of the service is a sequence of filesystem steps.  The operators  *)
(* below give the set of its outcomes: how the disk may look when the call  *)
(* returned Ok ("ok"), refused ("bail"), met an I/O error ("fault"), or was *)
(* cut short by the end of the process ("cut").  A call that found a file   *)
(* as it expected it and is about to replace or remove it is at a fence     *)
(* ("restore", "cleanup", "superseded"): the rest of the call is another    *)
(* step, and does not look again.  A content stands for the tagged hash of  *)
(* a file or of a symbolic link; the members of Links are links.  One actor *)
(* runs the operations; users edit managed files at any time.               *)
EXTENDS Integers, Sequences, FiniteSets

CONSTANTS
    Paths,          \* managed paths (a profile's path changes with its kind)
    Contents,       \* contents operations materialize
    Links,          \* those that are symbolic links
    First,          \* the content the first path starts with
    Start,          \* the path that is active at the start
    Mine,           \* what a user types into a managed file
    Absent,         \* no file
    Ids,            \* operation ids (nanoid), reused only when free
    Platforms,      \* {TRUE}: Windows, {FALSE}: Unix
    Troubles,       \* kinds of trouble: a behaviour has "fault"s or "crash"es
    LateFaults,     \* an I/O error may be reported after the effect (fsync)
    MaxRev, MaxFaults, MaxEdits,    \* bounds
    MaxCrashes      \* bound: crashes and edits together

ASSUME MaterialAssumption ==
    /\ Start \in Paths /\ First \in Contents /\ Links \subseteq Contents
    /\ Absent \notin Contents \cup {Mine} /\ Mine \notin Contents
    /\ 0 \notin Ids /\ Platforms \subseteq BOOLEAN /\ MaxRev \in Nat

VARIABLES
    disk,       \* managed files, journals, private artifacts, cleanup journals
    doc,        \* the committed profiles document: revision and active paths
    want,       \* ghost: the content last committed for each active path
    op,         \* the operation the actor is running
    pc,         \* where it is
    recon,      \* the pass and the ids a reconciliation still has to visit
    fence,      \* the fence the call is at, its operation and what the file held
    windows,    \* the platform
    trouble,    \* the kind of trouble this behaviour meets
    faults, crashes, edits

vars == <<disk, doc, want, op, pc, recon, fence, windows, trouble, faults, crashes, edits>>

----------------------------------------------------------------------------
(* Journal locations, in the order reconciliation visits them.              *)
Locations == <<"StatePrepared", "StatePromoting", "StateCompensating",
               "FilePrepared", "FilePromoting", "FilePromoted",
               "FileCompensating">>

Rank(l) ==
    CASE l \in {"StatePrepared", "FilePrepared"} -> 0
      [] l \in {"StatePromoting", "FilePromoting"} -> 1
      [] l \in {"StateCompensating", "FilePromoted"} -> 2
      [] l = "FileCompensating" -> 3

Promoting(l) ==
    CASE l = "StatePrepared" -> "StatePromoting"
      [] l = "FilePrepared" -> "FilePromoting"
      [] OTHER -> l

StateFamily == {"StatePrepared", "StatePromoting", "StateCompensating"}

Compensating(l) ==
    IF l \in StateFamily THEN "StateCompensating" ELSE "FileCompensating"

Resource == Contents \cup {Mine, Absent}

NoJournal == [locs |-> {}, path |-> Start, rev |-> 0, hash |-> Absent,
              staged |-> Absent, backup |-> Absent]

NoCleanup == [phases |-> {}, path |-> Start, hash |-> Absent, tomb |-> FALSE]

----------------------------------------------------------------------------
(* Outcomes of filesystem steps and their sequencing.                       *)
Out(kind, d) == [kind |-> kind, disk |-> d]
Ok(d) == {Out("ok", d)}
Bail(d) == {Out("bail", d)}

\* One filesystem call followed by the fsync of its directory.
Step(d, e) ==
    Ok(e) \cup {Out("fault", d), Out("cut", e)}
          \cup (IF LateFaults THEN {Out("fault", e)} ELSE {})

\* The comparison allowed what Passed says.
Fence(at, d) == {Out(at, d)}

Then(outs, Next_(_)) ==
    UNION {IF o.kind = "ok" THEN Next_(o.disk) ELSE {o} : o \in outs}

----------------------------------------------------------------------------
(* The file service.                                                        *)
HasJournal(d, i) == d.mat[i].locs # {}
HasCleanup(d, i) == d.cl[i].phases # {}

InUse(d, i) ==
    \/ HasJournal(d, i) \/ HasCleanup(d, i)
    \/ d.mat[i].staged # Absent \/ d.mat[i].backup # Absent

Location(d, i) ==
    CHOOSE l \in d.mat[i].locs : \A m \in d.mat[i].locs : Rank(m) <= Rank(l)

\* Duplicate phases of one operation converge to the latest.
Locate(d, i) ==
    IF d.mat[i].locs = {Location(d, i)} THEN Ok(d)
    ELSE Step(d, [d EXCEPT !.mat[i].locs = {Location(d, i)}])

\* Unix renames the journal; Windows writes the later phase, then removes
\* the earlier one.
Transition(d, i, to) ==
    LET moved(e) == [e EXCEPT !.mat[i].locs = {to}]
    IN  IF windows
        THEN Then(Step(d, [d EXCEPT !.mat[i].locs = @ \cup {to}]),
                  LAMBDA e : Step(e, moved(e)))
        ELSE Step(d, moved(d))

RemoveArtifacts(d, i) ==
    Then(Step(d, [d EXCEPT !.mat[i].staged = Absent]),
         LAMBDA e : Step(e, [e EXCEPT !.mat[i].backup = Absent]))

\* The journal is retired before the artifacts it refers to.
RemoveOperation(d, i) ==
    LET retired == [NoJournal EXCEPT !.staged = d.mat[i].staged,
                                     !.backup = d.mat[i].backup]
    IN  Then(Step(d, [d EXCEPT !.mat[i] = retired]),
             LAMBDA e : RemoveArtifacts(e, i))

Target(d, i) == d.file[d.mat[i].path]
TargetMatches(d, i) == Target(d, i) = d.mat[i].hash
TargetIsPrePromote(d, i) == Target(d, i) = d.mat[i].backup

Stage(d, i, c) == Step(d, [d EXCEPT !.mat[i].staged = c])

\* Nothing is captured where there is no file.
CaptureBackup(d, i, p) == Step(d, [d EXCEPT !.mat[i].backup = d.file[p]])

WriteJournalNew(d, i, p, c, rev, loc) ==
    Step(d, [d EXCEPT !.mat[i].locs = {loc}, !.mat[i].path = p,
                      !.mat[i].rev = rev, !.mat[i].hash = c])

\* When a step of the preparation fails, what was staged and backed up is
\* removed again (best effort); the journal is not.
Prepare(d, i, p, c, rev, loc) ==
    LET undone(o) == IF o.kind # "fault" THEN {o}
                     ELSE {o, Out("fault", [o.disk EXCEPT !.mat[i].staged = Absent,
                                                          !.mat[i].backup = Absent])}
    IN  UNION {undone(o) : o \in
               Then(Then(Stage(d, i, c), LAMBDA e : CaptureBackup(e, i, p)),
                    LAMBDA e : WriteJournalNew(e, i, p, c, rev, loc))}

StagedResource(d, i) == d.mat[i].staged
BackupResource(d, i) == d.mat[i].backup

\* The staged file is moved over the target; the description of a staged
\* link stays.
PromoteResource(d, i) ==
    LET m == d.mat[i]
    IN  IF StagedResource(d, i) = Absent THEN Bail(d)
        ELSE Step(d, [d EXCEPT !.file[m.path] = m.hash,
                               !.mat[i].staged = IF m.hash \in Links THEN @ ELSE Absent])

PromoteLocated(d, i) ==
    LET at == Location(d, i)
        to == Promoting(at)
        journal == IF to # at THEN Transition(d, i, to) ELSE Ok(d)
        placed(e) == IF TargetMatches(e, i) THEN Ok(e) ELSE PromoteResource(e, i)
        marked(e) == IF to = "FilePromoting" THEN Transition(e, i, "FilePromoted")
                                             ELSE Ok(e)
    IN  IF to \in {"StateCompensating", "FileCompensating"} THEN Bail(d)
        ELSE Then(Then(journal, placed), marked)

Promote(d, i) ==
    IF ~HasJournal(d, i) THEN Bail(d)
    ELSE Then(Locate(d, i), LAMBDA e : PromoteLocated(e, i))

CompleteLocated(d, i) ==
    LET at == Location(d, i)
        marked == IF at = "FilePromoting" THEN Transition(d, i, "FilePromoted") ELSE Ok(d)
    IN  IF ~TargetMatches(d, i) THEN Bail(d)
        ELSE Then(marked, LAMBDA e :
                 IF Location(e, i) \notin {"StatePromoting", "FilePromoted"} THEN Bail(e)
                 ELSE RemoveOperation(e, i))

Complete(d, i) ==
    IF ~HasJournal(d, i) THEN Ok(d)
    ELSE Then(Locate(d, i), LAMBDA e : CompleteLocated(e, i))

\* Mutant: restores over whatever is there.
RestoreBackupUnfenced(d, i) ==
    IF TargetIsPrePromote(d, i) THEN Ok(d) ELSE Fence("restore", d)

\* A target that is neither the backup nor what was promoted is left alone.
RestoreBackup(d, i) ==
    IF TargetIsPrePromote(d, i) THEN Ok(d)
    ELSE IF ~TargetMatches(d, i) THEN Bail(d)
    ELSE Fence("restore", d)

\* The backup is copied and put in the place of the target, whatever it is by now.
PassRestore(d, i) ==
    Then(Step(d, [d EXCEPT !.file[d.mat[i].path] = BackupResource(d, i)]),
         LAMBDA e : RemoveOperation(e, i))

CompensateLocated(d, i) ==
    LET to == Compensating(Location(d, i))
        journal == IF Location(d, i) # to THEN Transition(d, i, to) ELSE Ok(d)
    IN  Then(Then(journal, LAMBDA e : RestoreBackup(e, i)),
             LAMBDA e : RemoveOperation(e, i))

Compensate(d, i) ==
    IF ~HasJournal(d, i) THEN Ok(d)
    ELSE Then(Locate(d, i), LAMBDA e : CompensateLocated(e, i))

PrepareCleanup(d, i, p) ==
    Step(d, [d EXCEPT !.cl[i] = [phases |-> {"Pending"}, path |-> p,
                                 hash |-> d.file[p], tomb |-> FALSE]])

LocateCleanup(d, i) ==
    IF d.cl[i].phases = {"Pending", "Ready"}
    THEN Step(d, [d EXCEPT !.cl[i].phases = {"Ready"}])
    ELSE Ok(d)

TransitionCleanup(d, i) ==
    LET ready(e) == [e EXCEPT !.cl[i].phases = {"Ready"}]
    IN  IF windows
        THEN Then(Step(d, [d EXCEPT !.cl[i].phases = {"Pending", "Ready"}]),
                  LAMBDA e : Step(e, ready(e)))
        ELSE Step(d, ready(d))

ActivateCleanup(d, i) ==
    Then(LocateCleanup(d, i), LAMBDA e :
         IF e.cl[i].phases = {"Pending"} THEN TransitionCleanup(e, i) ELSE Ok(e))

CancelCleanup(d, i) ==
    Then(LocateCleanup(d, i), LAMBDA e :
         CASE e.cl[i].phases = {} -> Ok(e)
           [] e.cl[i].phases = {"Pending"} -> Step(e, [e EXCEPT !.cl[i] = NoCleanup])
           [] OTHER -> Bail(e))

\* A cleanup journal that is gone keeps only the tombstone it may have left.
RemoveCleanupJournal(d, i) ==
    Step(d, [d EXCEPT !.cl[i] = [NoCleanup EXCEPT !.tomb = d.cl[i].tomb]])

RemoveTombstone(d, i) ==
    IF d.cl[i].tomb THEN Step(d, [d EXCEPT !.cl[i].tomb = FALSE]) ELSE Ok(d)

\* Windows moves the target to a tombstone instead of unlinking it.
RemoveCleanupTarget(d, i) ==
    IF windows /\ d.cl[i].tomb THEN Bail(d)
    ELSE Step(d, [d EXCEPT !.file[d.cl[i].path] = Absent, !.cl[i].tomb = windows])

RetryLocated(d, i, active) ==
    LET c == d.cl[i]
        now == d.file[c.path]
    IN  IF c.phases = {} THEN Ok(d)
        ELSE
        CASE c.path \in active -> RemoveCleanupJournal(d, i)
          [] c.path \notin active /\ now = Absent ->
                Then(RemoveTombstone(d, i), LAMBDA e : RemoveCleanupJournal(e, i))
          [] c.path \notin active /\ now # Absent /\ now # c.hash ->
                RemoveCleanupJournal(d, i)
          [] OTHER -> Fence("cleanup", d)

PassCleanup(d, i) ==
    Then(Then(RemoveCleanupTarget(d, i), LAMBDA e : RemoveCleanupJournal(e, i)),
         LAMBDA e : RemoveTombstone(e, i))

RetryCleanup(d, i, active) ==
    Then(ActivateCleanup(d, i), LAMBDA e : RetryLocated(e, i, active))

SweepArtifacts(d) ==
    Step(d, [d EXCEPT !.mat = [i \in Ids |-> IF HasJournal(d, i) THEN d.mat[i]
                                                                 ELSE NoJournal]])

SweepTombstones(d) ==
    Step(d, [d EXCEPT !.cl = [i \in Ids |-> IF HasCleanup(d, i) THEN d.cl[i]
                                                                ELSE NoCleanup]])

----------------------------------------------------------------------------
(* What reconciliation does with one journal, given the loaded document.    *)
Superseded(d, i, active) ==
    LET at == Location(d, i)
        matches == TargetMatches(d, i)
    IN  CASE d.mat[i].path \notin active ->
                IF matches THEN Fence("superseded", d) ELSE RemoveOperation(d, i)
          [] d.mat[i].path \in active /\ at \in StateFamily ->
                IF matches
                THEN IF at = "StatePromoting" THEN Complete(d, i) ELSE RemoveOperation(d, i)
                ELSE IF TargetIsPrePromote(d, i) THEN Compensate(d, i) ELSE Bail(d)
          [] OTHER ->
                IF ~matches THEN Compensate(d, i)
                ELSE IF at = "FilePrepared"
                     THEN Then(Promote(d, i), LAMBDA e : Complete(e, i))
                     ELSE Complete(d, i)

PassSuperseded(d, i) ==
    Then(Step(d, [d EXCEPT !.file[d.mat[i].path] = Absent]),
         LAMBDA e : RemoveOperation(e, i))

Current(d, i) ==
    IF Location(d, i) = "FilePrepared" /\ ~TargetMatches(d, i) THEN Compensate(d, i)
    ELSE Then(Promote(d, i), LAMBDA e : Complete(e, i))

\* Mutant: takes a journal of the next revision for a committed one.
RecoverUncommitted(d, i, at, rev, active) ==
    CASE Location(d, i) # at -> Ok(d)
      [] Location(d, i) = at /\ at = Compensating(at) -> Compensate(d, i)
      [] OTHER -> IF rev > d.mat[i].rev THEN Superseded(d, i, active) ELSE Current(d, i)

RecoverLocated(d, i, at, rev, active) ==
    CASE Location(d, i) # at -> Ok(d)
      [] Location(d, i) = at /\ at = Compensating(at) -> Compensate(d, i)
      [] Location(d, i) = at /\ at # Compensating(at) /\ rev > d.mat[i].rev ->
            Superseded(d, i, active)
      [] Location(d, i) = at /\ at # Compensating(at) /\ rev = d.mat[i].rev
                             /\ d.mat[i].path \in active -> Current(d, i)
      [] OTHER -> Compensate(d, i)

Recover(d, i, at, rev, active) ==
    IF ~HasJournal(d, i) THEN Ok(d)
    ELSE Then(Locate(d, i), LAMBDA e : RecoverLocated(e, i, at, rev, active))

PendingCleanup(d, i, active) ==
    Then(LocateCleanup(d, i), LAMBDA e :
         IF ~HasCleanup(e, i) THEN Ok(e)
         ELSE IF e.cl[i].path \in active THEN CancelCleanup(e, i)
         ELSE ActivateCleanup(e, i))

----------------------------------------------------------------------------
(* The actor: one operation at a time, one call of the service per step.    *)
NoOp == [kind |-> "none", path |-> Start, content |-> Absent, drop |-> Absent,
         mat |-> 0, cl |-> 0, next |-> {}, was |-> {}, wanted |-> <<>>]

NoRecon == [pass |-> 0, ids |-> {}]

NoFence == [at |-> "none", id |-> 0, saw |-> Absent]

\* The path whose file the call is about to replace or remove.
FencePath == IF fence.at = "cleanup" THEN disk.cl[fence.id].path ELSE disk.mat[fence.id].path

\* The operation i of a call that came to a fence, and what the file held there.
AtFence(o, i) ==
    IF o.kind \notin {"restore", "cleanup", "superseded"} THEN NoFence
    ELSE [at |-> o.kind, id |-> i,
          saw |-> o.disk.file[IF o.kind = "cleanup" THEN o.disk.cl[i].path
                                                    ELSE o.disk.mat[i].path]]

Init ==
    /\ disk = [file |-> [p \in Paths |-> IF p = Start THEN First ELSE Absent],
               mat |-> [i \in Ids |-> NoJournal], cl |-> [i \in Ids |-> NoCleanup]]
    /\ doc = [rev |-> 0, active |-> {Start}]
    /\ want = [p \in Paths |-> IF p = Start THEN First ELSE Absent]
    /\ op = NoOp /\ pc = "idle" /\ recon = NoRecon /\ fence = NoFence
    /\ windows \in Platforms /\ trouble \in Troubles
    /\ faults = 0 /\ crashes = 0 /\ edits = 0

MayFail == trouble = "fault" /\ faults < MaxFaults

FreeIds == {i \in Ids : ~InUse(disk, i) /\ ~disk.cl[i].tomb}

Begin(kind, p, c, drop, next) ==
    /\ pc = "idle" /\ doc.rev < MaxRev
    /\ Cardinality(FreeIds) >= 2
    /\ LET m == CHOOSE i \in FreeIds : TRUE
           k == CHOOSE i \in FreeIds \ {m} : TRUE
       IN  op' = [kind |-> kind, path |-> p, content |-> c, drop |-> drop,
                  mat |-> IF c = Absent THEN 0 ELSE m,
                  cl |-> IF drop = Absent THEN 0 ELSE k,
                  next |-> next, was |-> doc.active, wanted |-> want]
    /\ pc' = CASE c # Absent -> "prepare"
               [] c = Absent /\ drop # Absent -> "prepareCleanup"
               [] OTHER -> "commit"
    /\ UNCHANGED <<disk, doc, want, recon, fence, windows, trouble, faults, crashes, edits>>

\* A new profile has a fresh uid, so its path was never used.
Add ==
    \E p \in Paths \ doc.active, c \in Contents :
        /\ disk.file[p] = Absent /\ \A i \in Ids : ~InUse(disk, i)
        /\ Begin("state", p, c, Absent, doc.active \cup {p})

\* The new definition takes another source in the same slot (q = p), or
\* another kind and with it another path (the old file is cleaned up).
ReplaceDefinition ==
    \E p \in doc.active, c \in Contents :
    \E q \in (Paths \ doc.active) \cup {p} :
        Begin("state", q, c, IF q = p THEN Absent ELSE p,
              (doc.active \ {p}) \cup {q})

Delete ==
    \E p \in doc.active : Begin("state", p, Absent, p, doc.active \ {p})

\* Remote refresh and external mirror synchronisation.
Refresh ==
    \E p \in doc.active, c \in Contents \ Links :
        Begin("file", p, c, Absent, doc.active)

\* Every other document write (run_state_write).
StateWrite == Begin("state", Start, Absent, Absent, doc.active)

----------------------------------------------------------------------------
\* What is left of a call that is at a fence.
Passed ==
    CASE fence.at = "restore" -> PassRestore(disk, fence.id)
      [] fence.at = "cleanup" -> PassCleanup(disk, fence.id)
      [] fence.at = "superseded" -> PassSuperseded(disk, fence.id)

\* The outcomes of the call the actor is in.
Outcomes ==
    CASE fence # NoFence -> Passed
      [] fence = NoFence /\ pc = "prepare" ->
            Prepare(disk, op.mat, op.path, op.content, doc.rev + 1,
                    IF op.kind = "state" THEN "StatePrepared" ELSE "FilePrepared")
      [] fence = NoFence /\ pc = "prepareCleanup" -> PrepareCleanup(disk, op.cl, op.drop)
      [] fence = NoFence /\ pc = "promote" -> Promote(disk, op.mat)
      [] fence = NoFence /\ pc = "complete" -> Complete(disk, op.mat)
      [] fence = NoFence /\ pc = "cancel" -> CancelCleanup(disk, op.cl)
      [] fence = NoFence /\ pc = "compensate" -> Compensate(disk, op.mat)
      [] fence = NoFence /\ pc = "activate" -> ActivateCleanup(disk, op.cl)
      [] fence = NoFence /\ pc = "retry" -> RetryCleanup(disk, op.cl, doc.active)
      [] OTHER -> {}

Go(next) ==
    /\ pc' = next
    /\ op' = IF next = "idle" THEN NoOp ELSE op

Return(o) ==
    /\ o.kind # "cut" /\ (o.kind = "fault" => MayFail)
    /\ disk' = o.disk
    /\ faults' = IF o.kind = "fault" THEN faults + 1 ELSE faults

Call(at, onOk, onError) ==
    /\ pc = at
    /\ \E o \in Outcomes :
         /\ Return(o)
         /\ fence' = AtFence(o, IF at = "retry" THEN op.cl ELSE op.mat)
         /\ IF fence' # NoFence THEN UNCHANGED <<pc, op>>
            ELSE Go(IF o.kind = "ok" THEN onOk ELSE onError)
    /\ UNCHANGED <<doc, want, recon, windows, trouble, crashes, edits>>

Undo == IF op.mat # 0 THEN "compensate" ELSE "idle"
UndoBoth == IF op.cl # 0 THEN "cancel" ELSE Undo
Finish == IF op.cl # 0 THEN "activate" ELSE "idle"

CallPrepare ==
    Call("prepare", CASE op.kind = "file" -> "promote"
                      [] op.kind = "state" /\ op.cl # 0 -> "prepareCleanup"
                      [] OTHER -> "commit", "idle")
CallPrepareCleanup == Call("prepareCleanup", "commit", Undo)
CallPromote ==
    IF op.kind = "file" THEN Call("promote", "commit", "compensate")
                        ELSE Call("promote", "complete", "rollback")
CallComplete == Call("complete", Finish, Finish)
CallCancel == Call("cancel", Undo, Undo)
CallCompensate == Call("compensate", "idle", "idle")
CallActivate == Call("activate", "retry", "idle")
CallRetry == Call("retry", "idle", "idle")

\* persist_candidate: the bumped document becomes durable, or nothing does.
CommitDoc(active, wanted, onOk, onError) ==
    \/ /\ doc' = [rev |-> doc.rev + 1, active |-> active]
       /\ want' = wanted
       /\ Go(onOk)
       /\ UNCHANGED <<disk, recon, fence, windows, trouble, faults, crashes, edits>>
    \/ /\ MayFail /\ faults' = faults + 1
       /\ Go(onError)
       /\ UNCHANGED <<disk, doc, want, recon, fence, windows, trouble, crashes, edits>>

Wanted ==
    [p \in Paths |-> CASE p \notin op.next -> Absent
                       [] p \in op.next /\ p = op.path /\ op.content # Absent -> op.content
                       [] OTHER -> want[p]]

Commit ==
    /\ pc = "commit"
    /\ IF op.kind = "file" THEN CommitDoc(op.next, Wanted, "complete", "compensate")
       ELSE CommitDoc(op.next, Wanted, IF op.mat # 0 THEN "promote" ELSE Finish, UndoBoth)

\* Promotion failed after the state commit: a compensating commit, or the
\* forward state is retained and the journals are left to reconciliation.
Rollback ==
    /\ pc = "rollback"
    /\ CommitDoc(op.was, op.wanted, UndoBoth, "idle")

----------------------------------------------------------------------------
(* Reconciliation: passes over the private directories, one operation id at *)
(* a time, in the order of the random ids.                                  *)
Listed(d, pass) ==
    CASE pass <= 2 -> {}
      [] pass \in 3..9 -> {i \in Ids : Locations[pass - 2] \in d.mat[i].locs}
      [] pass = 10 -> {i \in Ids : "Pending" \in d.cl[i].phases}
      [] pass = 11 -> {i \in Ids : "Ready" \in d.cl[i].phases}

Visit(d, i) ==
    CASE fence # NoFence -> Passed
      [] fence = NoFence /\ recon.pass \in 3..9 ->
            Recover(d, i, Locations[recon.pass - 2], doc.rev, doc.active)
      [] fence = NoFence /\ recon.pass = 10 -> PendingCleanup(d, i, doc.active)
      [] fence = NoFence /\ recon.pass = 11 -> RetryCleanup(d, i, doc.active)
      [] OTHER -> {}

Swept == IF recon.pass = 1 THEN SweepArtifacts(disk) ELSE SweepTombstones(disk)

\* Mutant: a tick looks only for journals, not for cleanups left to retry.
StartReconcileJournals ==
    /\ pc = "idle"
    /\ \E i \in Ids : HasJournal(disk, i)
    /\ pc' = "reconcile" /\ recon' = [pass |-> 1, ids |-> {}]
    /\ UNCHANGED <<disk, doc, want, op, fence, windows, trouble, faults, crashes, edits>>

\* A tick with nothing on disk to look at does nothing.
StartReconcile ==
    /\ pc = "idle"
    /\ \E i \in Ids : InUse(disk, i) \/ disk.cl[i].tomb
    /\ pc' = "reconcile" /\ recon' = [pass |-> 1, ids |-> {}]
    /\ UNCHANGED <<disk, doc, want, op, fence, windows, trouble, faults, crashes, edits>>

ReconcileSweep ==
    /\ pc = "reconcile" /\ recon.pass \in {1, 2}
    /\ \E o \in Swept : Return(o)
    /\ recon' = [pass |-> recon.pass + 1, ids |-> Listed(disk, recon.pass + 1)]
    /\ UNCHANGED <<doc, want, op, pc, fence, windows, trouble, crashes, edits>>

ReconcileVisit ==
    /\ pc = "reconcile" /\ recon.pass > 2
    /\ \E i \in IF fence = NoFence THEN recon.ids ELSE {fence.id} :
       \E o \in Visit(disk, i) :
         /\ Return(o)
         /\ fence' = AtFence(o, i)
         /\ recon' = IF fence' # NoFence THEN recon ELSE [recon EXCEPT !.ids = @ \ {i}]
    /\ UNCHANGED <<doc, want, op, pc, windows, trouble, crashes, edits>>

ReconcileNext ==
    /\ pc = "reconcile" /\ recon.pass > 2 /\ recon.ids = {}
    /\ IF recon.pass < 11
       THEN /\ recon' = [pass |-> recon.pass + 1, ids |-> Listed(disk, recon.pass + 1)]
            /\ pc' = pc
       ELSE recon' = NoRecon /\ pc' = "idle"
    /\ UNCHANGED <<disk, doc, want, op, fence, windows, trouble, faults, crashes, edits>>

----------------------------------------------------------------------------
\* A user saves a managed file: from the application or any editor.
Edit ==
    /\ edits < MaxEdits /\ edits + crashes < MaxCrashes
    /\ \E p \in Paths :
         /\ disk.file[p] \notin Links \cup {Absent, Mine}
         /\ disk' = [disk EXCEPT !.file[p] = Mine]
    /\ edits' = edits + 1
    /\ UNCHANGED <<doc, want, op, pc, recon, fence, windows, trouble, faults, crashes>>

InFlight ==
    CASE pc = "reconcile" /\ recon.pass \in {1, 2} -> Swept
      [] pc = "reconcile" /\ recon.pass > 2 -> UNION {Visit(disk, i) : i \in recon.ids}
      [] OTHER -> Outcomes

Crash ==
    /\ pc # "down" /\ trouble = "crash" /\ crashes + edits < MaxCrashes
    /\ crashes' = crashes + 1
    /\ disk' \in {disk} \cup {o.disk : o \in {x \in InFlight : x.kind \in {"fault", "cut"}}}
    /\ pc' = "down" /\ op' = NoOp /\ recon' = NoRecon /\ fence' = NoFence
    /\ UNCHANGED <<doc, want, windows, trouble, faults, edits>>

\* Startup reconciles before anything else is armed.
Restart ==
    /\ pc = "down"
    /\ pc' = "reconcile" /\ recon' = [pass |-> 1, ids |-> {}]
    /\ UNCHANGED <<disk, doc, want, op, fence, windows, trouble, faults, crashes, edits>>

Requests == Add \/ ReplaceDefinition \/ Delete \/ Refresh \/ StateWrite

Working ==
    \/ CallPrepare \/ CallPrepareCleanup \/ CallPromote \/ CallComplete
    \/ CallCancel \/ CallCompensate \/ CallActivate \/ CallRetry
    \/ Commit \/ Rollback
    \/ ReconcileSweep \/ ReconcileVisit \/ ReconcileNext

Next ==
    \/ Requests \/ Working \/ StartReconcile \/ Edit \/ Crash \/ Restart

\* The actor finishes what it began, its ticker fires, and the application
\* is started again after it stopped.
Fairness == WF_vars(Working) /\ WF_vars(StartReconcile) /\ WF_vars(Restart)

Spec == Init /\ [][Next]_vars /\ Fairness

----------------------------------------------------------------------------
(* Properties.                                                              *)

\* Shape of the state of the file service and of the actor that drives it.
TypeOK ==
    /\ disk.file \in [Paths -> Resource]
    /\ \A i \in Ids :
         /\ disk.mat[i].locs \subseteq {Locations[k] : k \in 1..7}
         /\ Cardinality(disk.mat[i].locs) <= IF windows THEN 2 ELSE 1
         /\ disk.mat[i].locs \subseteq StateFamily \/ disk.mat[i].locs \cap StateFamily = {}
         /\ disk.mat[i].path \in Paths
         /\ {disk.mat[i].hash, disk.mat[i].staged, disk.mat[i].backup} \subseteq Resource
         /\ disk.cl[i].phases \subseteq {"Pending", "Ready"} /\ disk.cl[i].path \in Paths
         /\ disk.cl[i].hash \in Resource /\ disk.cl[i].tomb \in BOOLEAN
    /\ doc.rev \in 0..(MaxRev + 1) /\ doc.active \subseteq Paths
    /\ want \in [Paths -> Resource]
    /\ recon.pass \in 0..11 /\ recon.ids \subseteq Ids
    /\ fence # NoFence => /\ fence.at \in {"restore", "cleanup", "superseded"}
                          /\ fence.id \in Ids /\ fence.saw \in Resource

Journalled(p) ==
    \E i \in Ids :
        \/ HasJournal(disk, i) /\ disk.mat[i].path = p
        \/ HasCleanup(disk, i) /\ disk.cl[i].path = p

\* Whenever the actor is idle, a path no journal speaks of holds what the
\* document last committed for it, and nothing if no profile uses it: a failed
\* operation leaves the old bytes and a committed one the new, whatever call
\* failed or crashed (commit_state_first, commit_file_first, reconcile).
Settled ==
    pc = "idle" /\ edits = 0 => \A p \in Paths :
        Journalled(p) \/ disk.file[p] = IF p \in doc.active THEN want[p] ELSE Absent

\* What a user typed is replaced only by the promotion of an operation on
\* that path or removed by a cleanup that was prepared for those very bytes:
\* compensation, cleanup and reconciliation compare the hash of what they undo
\* (restore_backup, retry_cleanup, reconcile) before they replace or remove it.
\* They do not look again: bytes typed after that comparison, when the file
\* still held something else (saw), may be lost.
EditsKept ==
    [][\A p \in Paths : disk.file[p] = Mine =>
         \/ disk'.file[p] = Mine
         \/ \E i \in Ids : /\ HasJournal(disk, i) /\ disk.mat[i].path = p
                           /\ disk'.file[p] = disk.mat[i].hash
         \/ \E i \in Ids : /\ HasCleanup(disk, i) /\ disk.cl[i].path = p
                           /\ disk.cl[i].hash = Mine /\ disk'.file[p] = Absent
         \/ fence # NoFence /\ FencePath = p /\ fence.saw # Mine]_vars

\* No journal outlives recovery: in the end every cleanup is done or given up,
\* and every operation was completed or compensated, unless its target was
\* changed behind its journal, by a user or by a later operation after a
\* deferred completion (reconcile leaves such a target alone).
JournalsDrain ==
    <>[](\A i \in Ids : /\ ~HasCleanup(disk, i)
                        /\ edits = 0 /\ faults = 0 => ~HasJournal(disk, i))
=============================================================================
