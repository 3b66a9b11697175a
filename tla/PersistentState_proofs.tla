------------------------ MODULE PersistentState_proofs ------------------------
(***************************************************************************)
(* Proofs about PersistentState for all three managers, every set of        *)
(* documents and any number of blocking threads.                            *)
(***************************************************************************)
EXTENDS PersistentState, TLAPS

PsOps == [pc : PsPcs \cup {"idle"}, val : PsValues \cup {NoValue},
          writer : PsWriters \cup {NoValue}]

\* Where an operation may be, and what it has behind it there.
PsInOrder ==
  /\ psOp \in PsOps
  /\ psOp.pc = "idle" <=> psOp = PsIdle
  /\ psOp.pc # "idle" => psOp.val \in PsValues
  /\ ~psUp => psOp = PsIdle /\ \A w \in PsWriters : psWriter[w] = NoValue
  /\ psOp.writer # NoValue <=> psOp.pc \in {"effect", "persist"}
  /\ psOp.pc \in {"effect", "written", "failed"} => psKind # "weak"
  /\ psOp.pc = "persist" => psKind = "weak"
  /\ psOp.pc \in {"notify", "persist"} => psMem = psOp.val /\ psOp.val \in psCommitted

\* A thread writes for the operation that waits for it, or for one that was dropped; the
\* weak manager's threads write only what was committed.
PsThreads ==
  \A w \in PsWriters : psWriter[w] # NoValue =>
     /\ IF psOp.writer = w THEN psWriter[w] = psOp.val ELSE psWriter[w] \in psStray
     /\ psKind = "weak" => psWriter[w] \in psCommitted

\* The file and the builder at every point of an operation.
PsFileKept ==
  psUp =>
    /\ psOp.pc = "written" => psFile \in {psOp.val} \cup psStray
    /\ psSynced /\ psKind # "weak" /\ psOp.pc # "written" => psFile \in {psMem} \cup psStray
    /\ psSynced /\ psKind = "weak" => psFile \in psCommitted
    /\ psKind = "built" /\ ~psSkipped /\ psOp.pc # "notify" => psBuilder = psMem

PsInv == PsTypeOK /\ PsInOrder /\ PsThreads /\ PsFileKept

\* Before the start there is no operation and no thread.
LEMMA PsInvInit == PsInit => PsInv
<1> SUFFICES ASSUME PsInit PROVE PsInv
  OBVIOUS
<1> USE PsAssumption, PsMarkersAssumption DEF PsInit, NoValue, PsIdle
<1>1. PsTypeOK
  BY DEF PsTypeOK, PsKinds
<1>2. PsInOrder
  BY DEF PsInOrder, PsOps
<1>3. PsThreads /\ PsFileKept
  BY DEF PsThreads, PsFileKept
<1> QED
  BY <1>1, <1>2, <1>3 DEF PsInv

\* What no operation in progress means.
LEMMA PsIdleFields == PsIdle.pc = "idle" /\ PsIdle.writer = NoValue /\ PsIdle.val = NoValue
                      /\ PsIdle \in PsOps /\ NoValue \notin PsWriters /\ NoValue \notin PsValues
  BY PsMarkersAssumption DEF PsIdle, PsOps, NoValue

\* Construction: the manager starts in step with the file it was loaded from.
LEMMA PsBuildKeeps ==
  ASSUME PsInv, ~psUp, NEW v \in PsValues, NEW synced \in BOOLEAN, PsBuildManager(v, synced),
         synced => psFile = v
  PROVE  PsInv'
<1> USE PsMarkersAssumption DEF PsInv
<1>1. CASE UNCHANGED psVars
  BY <1>1 DEF PsTypeOK, PsInOrder, PsThreads, PsFileKept, psVars
<1>2. CASE /\ psUp' = TRUE /\ psMem' = v /\ psBuilder' = v
           /\ psCommitted' = {v} /\ psStray' = {}
           /\ psSynced' = synced /\ psSkipped' = FALSE
           /\ UNCHANGED <<psKind, psFile, psOp, psWriter>>
  <2>1. psOp = PsIdle /\ psOp' = PsIdle /\ \A w \in PsWriters : psWriter'[w] = NoValue
    BY <1>2 DEF PsInOrder
  <2>2. PsTypeOK'
    BY <1>2 DEF PsTypeOK
  <2>3. PsInOrder'
    BY <1>2, <2>1, PsIdleFields DEF PsInOrder
  <2>4. PsThreads' /\ PsFileKept'
    BY <1>2, <2>1, PsIdleFields DEF PsThreads, PsFileKept
  <2> QED
    BY <2>2, <2>3, <2>4
<1> QED
  BY <1>1, <1>2 DEF PsBuildManager

\* Starting the application, in every way it can.
LEMMA PsStartKeeps ==
  ASSUME PsInv, PsLoad \/ PsLoadOrDefault \/ PsLoadWeak \/ (\E v \in PsValues : PsFromState(v))
  PROVE  PsInv'
<1>0. UNCHANGED psVars => PsInv'
  BY DEF PsInv, PsTypeOK, PsInOrder, PsThreads, PsFileKept, psVars
<1>1. PsDefault \in PsValues /\ Absent \notin PsValues
  BY PsAssumption, PsMarkersAssumption DEF Absent
<1>2. CASE PsLoad
  BY <1>0, <1>2, PsBuildKeeps DEF PsLoad, PsLoadError
<1>3. CASE PsLoadOrDefault
  <2>1. psFile \in PsValues \cup {Absent, Garbled}
    BY DEF PsInv, PsTypeOK
  <2> QED
    BY <1>0, <1>1, <1>3, <2>1, PsBuildKeeps DEF PsLoadOrDefault, PsLoadError
<1>4. CASE PsLoadWeak
  BY <1>1, <1>4, PsBuildKeeps, PsMarkersAssumption DEF PsLoadWeak, LoadWeakSnapshot, NoValue
<1>5. ASSUME NEW v \in PsValues, PsFromState(v) PROVE PsInv'
  BY <1>0, <1>5, PsBuildKeeps DEF PsFromState, PsLoadError
<1> QED
  BY <1>2, <1>3, <1>4, <1>5

\* An operation that returns, is rejected or is dropped leaves the file in step with the
\* committed state, or with a write nothing waits for any more.
LEMMA PsEndKeeps ==
  ASSUME PsInv, PsRejected \/ PsRollback \/ PsFinish \/ PsDrop \/ PsCrash
  PROVE  PsInv'
<1> USE PsMarkersAssumption DEF PsInv
<1>1. psOp' = PsIdle /\ UNCHANGED <<psKind, psMem, psFile, psCommitted, psSynced>>
  BY DEF PsRejected, PsRollback, PsFinish, PsDrop, PsCrash, PsAbort, PsReturn
<1>2. psOp \in PsOps /\ (psOp # PsIdle => psOp.val \in PsValues)
  BY DEF PsInOrder
<1>3. CASE PsRejected \/ PsRollback
  <2>1. UNCHANGED <<psUp, psBuilder, psWriter, psStray, psSkipped>>
        /\ psOp.pc \in {"prepare", "failed"}
    BY <1>3 DEF PsRejected, PsRollback, PsAbort, PsReturn
  <2>2. PsTypeOK'
    BY <1>1, <2>1 DEF PsTypeOK
  <2>3. PsInOrder'
    BY <1>1, <2>1, PsIdleFields DEF PsInOrder
  <2>4. PsThreads'
    BY <1>1, <2>1, PsIdleFields DEF PsThreads, PsInOrder
  <2>5. PsFileKept'
    BY <1>1, <2>1, PsIdleFields DEF PsFileKept
  <2> QED
    BY <2>2, <2>3, <2>4, <2>5
<1>4. CASE PsFinish
  <2>1. UNCHANGED <<psUp, psWriter, psStray>> /\ psOp.pc = "notify" /\ psKind # "weak"
        /\ psBuilder' = psOp.val /\ psSkipped' = FALSE
    BY <1>4 DEF PsFinish, PsReturn
  <2>2. psMem = psOp.val
    BY <2>1 DEF PsInOrder
  <2>3. PsTypeOK'
    BY <1>1, <2>1, <2>2 DEF PsTypeOK
  <2>4. PsInOrder'
    BY <1>1, <2>1, PsIdleFields DEF PsInOrder
  <2>5. PsThreads'
    BY <1>1, <2>1, PsIdleFields DEF PsThreads, PsInOrder
  <2>6. PsFileKept'
    BY <1>1, <2>1, <2>2, PsIdleFields DEF PsFileKept
  <2> QED
    BY <2>3, <2>4, <2>5, <2>6
<1>5. CASE PsDrop
  <2>1. UNCHANGED <<psUp, psBuilder, psWriter>> /\ psOp # PsIdle
        /\ psStray' = (IF psOp.pc \in {"effect", "written", "persist"}
                       THEN psStray \cup {psOp.val} ELSE psStray)
        /\ psSkipped' = (psSkipped \/ psOp.pc = "notify")
    BY <1>5 DEF PsDrop
  <2>2. PsTypeOK'
    BY <1>1, <1>2, <2>1 DEF PsTypeOK
  <2>3. PsInOrder'
    BY <1>1, <2>1, PsIdleFields DEF PsInOrder
  <2>4. PsThreads'
    BY <1>1, <2>1, PsIdleFields DEF PsThreads, PsInOrder
  <2>5. PsFileKept'
    BY <1>1, <2>1, PsIdleFields DEF PsFileKept
  <2> QED
    BY <2>2, <2>3, <2>4, <2>5
<1>6. CASE PsCrash
  <2>1. ~psUp' /\ psWriter' = [w \in PsWriters |-> NoValue]
        /\ UNCHANGED <<psBuilder, psStray, psSkipped>>
    BY <1>6 DEF PsCrash
  <2>2. PsTypeOK'
    BY <1>1, <1>6, <2>1 DEF PsTypeOK, PsCrash
  <2>3. PsInOrder' /\ PsThreads' /\ PsFileKept'
    BY <1>1, <2>1, PsIdleFields DEF PsInOrder, PsThreads, PsFileKept
  <2> QED
    BY <2>2, <2>3
<1> QED
  BY <1>3, <1>4, <1>5, <1>6

\* Starting a thread that replaces the file.
LEMMA PsSpawnKeeps ==
  ASSUME PsInv, PsUpsert \/ TryPersist
  PROVE  PsInv'
<1> USE PsIdleFields DEF PsInv
<1>1. PICK next \in {"effect", "persist"}, w \in PsWriters :
         /\ psWriter[w] = NoValue /\ psWriter' = [psWriter EXCEPT ![w] = psOp.val]
         /\ psOp' = [psOp EXCEPT !.pc = next, !.writer = w]
         /\ next = "effect" => psOp.pc = "prepare" /\ psKind # "weak"
         /\ next = "persist" => psOp.pc = "notify" /\ psKind = "weak"
         /\ UNCHANGED <<psKind, psUp, psMem, psBuilder, psFile, psCommitted,
                        psStray, psSynced, psSkipped>>
  BY DEF PsUpsert, TryPersist, PsSpawnWriter
<1>2. psOp \in PsOps /\ psOp.val \in PsValues /\ psOp.writer = NoValue /\ psUp /\ psOp # PsIdle
  BY <1>1 DEF PsInOrder
<1>3. /\ psOp' \in PsOps /\ psOp'.pc = next /\ psOp'.writer = w /\ psOp'.val = psOp.val
      /\ psOp' \in [pc : PsPcs, val : PsValues, writer : PsWriters \cup {NoValue}]
  BY <1>1, <1>2 DEF PsOps, PsPcs
<1>4. PsTypeOK'
  BY <1>1, <1>2, <1>3 DEF PsTypeOK
<1>5. PsInOrder'
  BY <1>1, <1>2, <1>3 DEF PsInOrder
<1>6. PsThreads'
  <2>1. psWriter'[w] = psOp.val /\ \A x \in PsWriters \ {w} : psWriter'[x] = psWriter[x]
    BY <1>1 DEF PsTypeOK
  <2>2. psKind = "weak" => psOp.val \in psCommitted
    BY <1>1 DEF PsInOrder
  <2> QED
    BY <1>1, <1>2, <1>3, <2>1, <2>2 DEF PsThreads
<1>7. PsFileKept'
  BY <1>1, <1>3 DEF PsFileKept, PsInOrder
<1> QED
  BY <1>4, <1>5, <1>6, <1>7

\* A thread that replaces the file, or fails to.
LEMMA PsWriteKeeps ==
  ASSUME PsInv, PsWrite
  PROVE  PsInv'
<1> USE PsIdleFields DEF PsInv
<1>1. PICK w \in PsWriters, ok \in BOOLEAN : PsWriteDone(w, ok)
  BY DEF PsWrite
<1>2. /\ psWriter[w] # NoValue /\ psWriter' = [psWriter EXCEPT ![w] = NoValue]
      /\ psFile' = (IF ok THEN psWriter[w] ELSE psFile)
      /\ UNCHANGED <<psKind, psUp, psMem, psBuilder, psCommitted, psStray, psSkipped>>
      /\ psSynced' = (psSynced \/ (ok /\ psOp.writer = w /\ psOp.pc = "persist"))
  BY <1>1 DEF PsWriteDone
<1>3. /\ psOp \in PsOps /\ psUp /\ psWriter[w] \in PsValues
      /\ psWriter'[w] = NoValue /\ \A x \in PsWriters \ {w} : psWriter'[x] = psWriter[x]
      /\ psWriter' \in [PsWriters -> PsValues \cup {NoValue}]
  BY <1>2 DEF PsInOrder, PsTypeOK
<1>4. CASE psOp.writer # w
  <2>1. psOp' = psOp /\ psWriter[w] \in psStray /\ (psKind = "weak" => psWriter[w] \in psCommitted)
    BY <1>1, <1>2, <1>4 DEF PsWriteDone, PsThreads
  <2>2. PsTypeOK'
    BY <1>2, <1>3, <1>4, <2>1 DEF PsTypeOK
  <2>3. PsInOrder'
    BY <1>2, <1>3, <2>1 DEF PsInOrder
  <2>4. PsThreads'
    BY <1>2, <1>3, <2>1 DEF PsThreads
  <2>5. PsFileKept'
    BY <1>2, <1>4, <2>1 DEF PsFileKept
  <2> QED
    BY <2>2, <2>3, <2>4, <2>5
<1>5. CASE psOp.writer = w
  <2>1. /\ psOp.pc \in {"effect", "persist"} /\ psWriter[w] = psOp.val /\ psOp.val \in PsValues
        /\ psOp.pc = "effect" => psKind # "weak"
        /\ psOp.pc = "persist" => psKind = "weak" /\ psOp.val \in psCommitted
    BY <1>2, <1>5 DEF PsInOrder, PsThreads
  <2>2. /\ psOp' \in PsOps /\ psOp'.writer = NoValue
        /\ psOp.pc = "effect" => /\ psOp'.pc = (IF ok THEN "written" ELSE "failed")
                                 /\ psOp'.val = psOp.val /\ psOp' # PsIdle
                                 /\ psOp' \in [pc : PsPcs, val : PsValues, writer : PsWriters \cup {NoValue}]
        /\ psOp.pc = "persist" => psOp' = PsIdle
    <3>1. CASE psOp.pc = "effect" /\ ok
      BY <1>1, <1>3, <1>5, <2>1, <3>1 DEF PsWriteDone, PsOps, PsPcs
    <3>2. CASE psOp.pc = "effect" /\ ~ok
      BY <1>1, <1>3, <1>5, <2>1, <3>2 DEF PsWriteDone, PsOps, PsPcs
    <3>3. CASE psOp.pc = "persist"
      BY <1>1, <1>5, <3>3 DEF PsWriteDone
    <3> QED
      BY <2>1, <3>1, <3>2, <3>3
  <2>3. PsTypeOK'
    BY <1>2, <1>3, <2>1, <2>2 DEF PsTypeOK
  <2>4. PsInOrder'
    BY <1>2, <1>3, <2>1, <2>2 DEF PsInOrder
  <2>5. PsThreads'
    BY <1>2, <1>3, <1>5, <2>1, <2>2 DEF PsThreads
  <2>6. PsFileKept'
    BY <1>2, <1>5, <2>1, <2>2 DEF PsFileKept
  <2> QED
    BY <2>3, <2>4, <2>5, <2>6
<1> QED
  BY <1>4, <1>5

\* The commit, in the order each manager does it in.
LEMMA PsCommitKeeps ==
  ASSUME PsInv, PsCommit \/ PsReplaceIfVersion \/ PsUpsertWeak
  PROVE  PsInv'
<1> USE PsIdleFields DEF PsInv
<1>1. CASE PsReplaceIfVersion /\ PsAbort
  <2>1. PsRejected
    BY <1>1 DEF PsReplaceIfVersion, PsRejected
  <2> QED
    BY <2>1, PsEndKeeps
<1>2. CASE PsCommit \/ PsUpsertWeak \/ (PsReplaceIfVersion /\ ~PsAbort)
  <2>1. /\ PsSwapIn(psOp.val) /\ psOp.writer = NoValue /\ psUp /\ psOp # PsIdle
        /\ psOp \in PsOps /\ psOp.val \in PsValues
        /\ UNCHANGED <<psKind, psUp, psBuilder, psWriter, psStray, psSkipped>>
        /\ \/ psOp.pc = "written" /\ psSynced' = TRUE /\ psFile' = psFile /\ psKind # "weak"
           \/ psOp.pc = "prepare" /\ psSynced' = TRUE /\ psFile' = psOp.val /\ psKind = "file"
           \/ psOp.pc = "prepare" /\ psSynced' = psSynced /\ psFile' = psFile /\ psKind = "weak"
    BY <1>2 DEF PsCommit, PsReplaceIfVersion, PsUpsertWeak, PsInOrder
  <2>2. /\ psMem' = psOp.val /\ psCommitted' = psCommitted \cup {psOp.val}
        /\ psOp' \in PsOps /\ psOp'.pc = "notify" /\ psOp'.val = psOp.val
        /\ psOp'.writer = psOp.writer /\ psOp' # PsIdle
        /\ psOp' \in [pc : PsPcs, val : PsValues, writer : PsWriters \cup {NoValue}]
    BY <2>1 DEF PsSwapIn, PsOps, PsPcs
  <2>3. PsTypeOK'
    BY <2>1, <2>2 DEF PsTypeOK
  <2>4. PsInOrder'
    BY <2>1, <2>2 DEF PsInOrder
  <2>5. PsThreads'
    BY <2>1, <2>2 DEF PsThreads
  <2>6. PsFileKept'
    BY <2>1, <2>2 DEF PsFileKept
  <2> QED
    BY <2>3, <2>4, <2>5, <2>6
<1> QED
  BY <1>1, <1>2

\* Every step keeps the invariant.
LEMMA PsInvNext == PsInv /\ [PsNext]_psVars => PsInv'
<1> SUFFICES ASSUME PsInv, [PsNext]_psVars PROVE PsInv'
  OBVIOUS
<1>1. CASE UNCHANGED psVars \/ PsConflict
  BY <1>1 DEF PsConflict, PsInv, PsTypeOK, PsInOrder, PsThreads, PsFileKept, psVars
<1>2. ASSUME NEW v \in PsValues, PsBegin(v) PROVE PsInv'
  <2> USE PsIdleFields DEF PsInv
  <2>1. /\ psUp /\ psOp = PsIdle /\ psOp' = [pc |-> "prepare", val |-> v, writer |-> NoValue]
        /\ UNCHANGED <<psKind, psUp, psMem, psBuilder, psFile, psWriter,
                       psCommitted, psStray, psSynced, psSkipped>>
    BY <1>2 DEF PsBegin
  <2>2. /\ psOp' \in PsOps /\ psOp'.pc = "prepare" /\ psOp'.writer = NoValue /\ psOp'.val = v
        /\ psOp' # PsIdle
        /\ psOp' \in [pc : PsPcs, val : PsValues, writer : PsWriters \cup {NoValue}]
    BY <2>1 DEF PsOps, PsPcs
  <2>3. PsTypeOK'
    BY <2>1, <2>2 DEF PsTypeOK
  <2>4. PsInOrder' /\ PsThreads' /\ PsFileKept'
    BY <2>1, <2>2 DEF PsInOrder, PsThreads, PsFileKept
  <2> QED
    BY <2>3, <2>4
<1> QED
  BY <1>1, <1>2, PsStartKeeps, PsEndKeeps, PsSpawnKeeps, PsWriteKeeps, PsCommitKeeps DEF PsNext

\* The managers' variables keep their types (nyanpasu-core/src/state/manager).
THEOREM PsTypeCorrect == PsSpec => []PsTypeOK
<1>1. PsInv => PsTypeOK
  BY DEF PsInv
<1> QED
  BY <1>1, PsInvInit, PsInvNext, PTL DEF PsSpec

\* Between operations the file is the committed state or a write that was dropped (the
\* weak manager's: a state that was committed), and the builder in memory is the committed
\* one (persistent.rs upsert and replace_if_version, weak.rs try_persist, built.rs upsert).
THEOREM PsDurability == PsSpec => []PsDurable
<1>1. PsInv => PsDurable
  BY PsIdleFields DEF PsInv, PsFileKept, PsDurable
<1> QED
  BY <1>1, PsInvInit, PsInvNext, PTL DEF PsSpec
===============================================================================
