---------------------- MODULE StateCoordinator_proofs ----------------------
(***************************************************************************)
(* Proofs about StateCoordinator for every set of subscribers, every set   *)
(* of states, both strategies and all bounds.                              *)
(***************************************************************************)
EXTENDS StateCoordinator, TLAPS

\* Inside a transaction there is a change; outside, no callback runs. The
\* guard is armed from the first prepare callback until the swap or the end
\* of the rollback.
InTransaction ==
    /\ pc \notin {"idle", "build"} => change \in Change
    /\ pc \in {"idle", "build"} => running = {}
    /\ pc \in {"idle", "build", "committed"} => guard = "disarmed"
    /\ pc \in {"prepare", "effect", "commit", "recover", "rolledback", "dropped"}
           => guard = "armed"

TypeInv == TypeOK /\ InTransaction

\* The initial states are well typed.
LEMMA TypeInit == Init => TypeInv
<1> SUFFICES ASSUME Init PROVE TypeInv
    OBVIOUS
<1> USE BoundAssumption DEF Init
<1>1. PICK v \in Values : /\ store = [version |-> 0, state |-> v]
                          /\ log = <<v>>
                          /\ \/ pc = "idle" /\ op = "none" /\ change = NoChange
                                /\ permit = 1 /\ guard = "disarmed"
                             \/ pc = "prepare" /\ op = "init"
                                /\ change = [id |-> 0, prev |-> -1, value |-> v]
                                /\ permit = 0 /\ guard = "armed"
    OBVIOUS
<1>2. InTransaction
    BY <1>1 DEF InTransaction, Change, Versions
<1>3. CoordTypeOK /\ TxTypeOK
    BY <1>1 DEF CoordTypeOK, TxTypeOK, Versions, Phases, Rounds, Ops, Change
<1>4. RoundTypeOK /\ SubTypeOK /\ AuxTypeOK
    BY <1>1 DEF RoundTypeOK, SubTypeOK, AuxTypeOK
<1> QED
    BY <1>2, <1>3, <1>4 DEF TypeInv, TypeOK

\* A function with another value of its range stays in its set.
LEMMA PutKeepsType ==
    ASSUME NEW S, NEW T, NEW f \in [S -> T], NEW s \in S, NEW v \in T
    PROVE  [f EXCEPT ![s] = v] \in [S -> T]
OBVIOUS

\* Every step keeps the types.
LEMMA TypeNext == TypeInv /\ [Next]_vars => TypeInv'
<1> SUFFICES ASSUME TypeInv, [Next]_vars PROVE TypeInv'
    OBVIOUS
<1> USE BoundAssumption, KindsAssumption DEF TypeInv, TypeOK, CoordTypeOK, TxTypeOK,
        RoundTypeOK, SubTypeOK, AuxTypeOK, InTransaction, Versions, Phases, Rounds,
        Ops, coordVars, txVars, roundVars, subVars, auxVars
<1>1. ASSUME NEW s \in Subs, StartCallback(s) PROVE TypeInv'
    BY <1>1 DEF StartCallback
<1>2. ASSUME NEW s \in Subs, NEW status \in {"ok", "fail"},
             FinishPrepare(s, status)
      PROVE  TypeInv'
    <2>1. change \in Change
        BY <1>2 DEF FinishPrepare
    <2>2. pend' = [pend EXCEPT ![s] = change] \/ pend' = pend
        BY <1>2, Zenon DEF FinishPrepare
    <2> HIDE DEF Change
    <2>3. pend \in [Subs -> Change \cup {NoChange}]
        OBVIOUS
    <2>4. [pend EXCEPT ![s] = change] \in [Subs -> Change \cup {NoChange}]
        BY <2>1, <2>3, PutKeepsType, Zenon
    <2>5. pend' \in [Subs -> Change \cup {NoChange}]
        BY <2>2, <2>3, <2>4, Zenon
    <2>6. acks' \in [Subs -> {"none", "ok", "fail", "skipped"}]
        BY <1>2 DEF FinishPrepare
    <2> QED
        BY <1>2, <2>5, <2>6 DEF FinishPrepare
<1>3. ASSUME NEW s \in Subs, ParallelPreparePanic(s) PROVE TypeInv'
    BY <1>3 DEF ParallelPreparePanic
<1>4. ASSUME NEW s \in Subs, SequentialPanic(s) PROVE TypeInv'
    BY <1>4 DEF SequentialPanic, DropOperation, EndOperation, StartRound,
       ReleasePermit
<1>5. ASSUME NEW s \in Subs, NEW outcome \in {"delivered", "lost"},
             FinishCommitted(s, outcome)
      PROVE  TypeInv'
    <2>1. change \in Change
        BY <1>5 DEF FinishCommitted
    <2>2. change.id \in -1 .. MaxVersion
        BY <2>1 DEF Change
    <2>3. /\ pend' \in [Subs -> Change \cup {NoChange}]
          /\ known' \in [Subs -> -1 .. MaxVersion]
          /\ faulty' \subseteq Subs
        BY <1>5, <2>2 DEF FinishCommitted
    <2> QED
        BY <1>5, <2>3 DEF FinishCommitted
<1>6. ASSUME NEW s \in Subs, NEW outcome \in {"delivered", "lost"},
             FinishRolledBack(s, outcome)
      PROVE  TypeInv'
    <2>1. /\ pend' \in [Subs -> Change \cup {NoChange}]
          /\ faulty' \subseteq Subs
        BY <1>6 DEF FinishRolledBack
    <2> QED
        BY <1>6, <2>1 DEF FinishRolledBack
<1>7. CASE PrepareRejected
    BY <1>7 DEF PrepareRejected, UpdateGuard, EnterRollback, ReleasePermit,
       StartRound, RollbackAudience, PrepareAudience
<1>8. CASE PrepareAccepted
    BY <1>8 DEF PrepareAccepted, UpdateGuard, PrepareAudience
<1>9. CASE CommitOk
    <2>1. change \in Change
        BY <1>9 DEF CommitOk
    <2>2. store' \in [version : Versions, state : Values]
        BY <1>9, <2>1 DEF CommitOk, Change
    <2>3. log' \in Seq(Values)
        BY <1>9, <2>1 DEF CommitOk, Change
    <2> QED
        BY <1>9, <2>1, <2>2, <2>3 DEF CommitOk, Disarm, ReleasePermit, StartRound
<1>10. CASE CommitMismatch
    BY <1>10 DEF CommitMismatch, EnterRollback, ReleasePermit, StartRound,
       SyncNextId, PendingChangeId
<1>11. CASE CommittedDone
    <2>1. change \in Change
        BY <1>11 DEF CommittedDone
    <2>2. nextId' \in 0 .. (MaxVersion + 1)
        BY <1>11, <2>1 DEF CommittedDone, Change
    <2> QED
        BY <1>11, <2>2 DEF CommittedDone, EndOperation, StartRound
<1>12. CASE RolledBackDone
    BY <1>12 DEF RolledBackDone, Disarm, EndOperation, StartRound, SyncNextId,
       PendingChangeId
<1>13. CASE DroppedDone
    BY <1>13 DEF DroppedDone, Disarm, EndOperation, ReleasePermit, StartRound
<1>14. ASSUME NEW s \in Subs, AddSubscriber(s) PROVE TypeInv'
    BY <1>14 DEF AddSubscriber
<1>15. ASSUME NEW s \in Subs, RemoveSubscriber(s) PROVE TypeInv'
    BY <1>15 DEF RemoveSubscriber
<1>16. ASSUME NEW s \in Subs, Shutdown(s) PROVE TypeInv'
    BY <1>16 DEF Shutdown
<1>17. ASSUME NEW v \in Values, NEW kind \in Kinds, Begin(kind, v) PROVE TypeInv'
    <2>1. change' \in Change
        BY <1>17 DEF Begin, EnterPrepare, PendingChangeId, Change
    <2>2. nextId' \in 0 .. (MaxVersion + 1)
        BY <1>17 DEF Begin, EnterPrepare, SyncNextId, PendingChangeId
    <2> QED
        BY <1>17, <2>1, <2>2 DEF Begin, EnterPrepare, StartRound
<1>18. ASSUME NEW expected \in Versions, BeginConflict(expected) PROVE TypeInv'
    BY <1>18 DEF BeginConflict, SyncNextId, PendingChangeId
<1>19. CASE BeginBuild
    BY <1>19 DEF BeginBuild
<1>20. CASE BuildFail
    BY <1>20 DEF BuildFail, EndOperation, StartRound, ReleasePermit
<1>21. ASSUME NEW v \in Values, BuildOk(v) PROVE TypeInv'
    <2>1. change' \in Change
        BY <1>21 DEF BuildOk, EnterPrepare, PendingChangeId, Change
    <2>2. nextId' \in 0 .. (MaxVersion + 1)
        BY <1>21 DEF BuildOk, EnterPrepare, SyncNextId, PendingChangeId
    <2> QED
        BY <1>21, <2>1, <2>2 DEF BuildOk, EnterPrepare, StartRound
<1>22. ASSUME NEW v \in Values, ForeignStore(v) PROVE TypeInv'
    BY <1>22 DEF ForeignStore
<1>23. CASE EffectOk
    BY <1>23 DEF EffectOk
<1>24. CASE EffectFail
    BY <1>24 DEF EffectFail, EnterRollback, StartRound, ReleasePermit
<1>25. CASE RecoveryDone
    BY <1>25 DEF RecoveryDone, EnterRollback, StartRound, ReleasePermit
<1>26. CASE Cancel
    <2>1. late' \subseteq (Subs \X Callback \X Change)
        <3>1. running # {} => change \in Change
            BY <1>26 DEF Cancel
        <3> QED
            BY <1>26, <3>1 DEF Cancel, AbortRunning, Callback
    <2>2. cancels' \in 0 .. MaxCancels
        BY <1>26 DEF Cancel
    <2>3. CASE guard = "armed"
        <3>1. change' \in Change /\ pc' = "dropped" /\ running' = {}
            BY <1>26, <2>3 DEF Cancel, DropOperation, StartRound
        <3>2. CoordTypeOK' /\ TxTypeOK' /\ InTransaction'
            BY <1>26, <2>3, <3>1 DEF Cancel, DropOperation, StartRound
        <3>3. RoundTypeOK' /\ SubTypeOK' /\ AuxTypeOK'
            BY <1>26, <2>1, <2>2, <2>3 DEF Cancel, DropOperation, StartRound
        <3> QED
            BY <3>2, <3>3
    <2>4. CASE guard # "armed"
        <3>1. CoordTypeOK' /\ TxTypeOK' /\ InTransaction'
            BY <1>26, <2>4 DEF Cancel, DropOperation, EndOperation, StartRound,
               ReleasePermit
        <3>2. RoundTypeOK' /\ SubTypeOK' /\ AuxTypeOK'
            BY <1>26, <2>1, <2>2, <2>4 DEF Cancel, DropOperation, EndOperation,
               StartRound, ReleasePermit
        <3> QED
            BY <3>1, <3>2
    <2> QED
        BY <2>3, <2>4
<1>27. ASSUME NEW n \in late, LateFinish(n) PROVE TypeInv'
    <2>1. n[1] \in Subs /\ n[3] \in Change /\ n[3].id \in -1 .. MaxVersion
        BY <1>27 DEF Change
    <2>2. /\ pend' \in [Subs -> Change \cup {NoChange}]
          /\ known' \in [Subs -> -1 .. MaxVersion]
        BY <1>27, <2>1 DEF LateFinish
    <2> QED
        BY <1>27, <2>1, <2>2 DEF LateFinish
<1>28. ASSUME NEW n \in late, LateVanish(n) PROVE TypeInv'
    BY <1>28 DEF LateVanish
<1>29. CASE UNCHANGED vars
    BY <1>29 DEF vars
<1> QED
    BY <1>1, <1>2, <1>3, <1>4, <1>5, <1>6, <1>7, <1>8, <1>9, <1>10, <1>11, <1>12,
       <1>13, <1>14, <1>15, <1>16, <1>17, <1>18, <1>19, <1>20, <1>21, <1>22,
       <1>23, <1>24, <1>25, <1>26, <1>27, <1>28, <1>29 DEF Next, RoundStep,
       Finish

-----------------------------------------------------------------------------
\* One subscriber's callback moves along.
CallbackStep ==
    \E s \in Subs :
        \/ StartCallback(s)
        \/ \E status \in {"ok", "fail"} : FinishPrepare(s, status)
        \/ ParallelPreparePanic(s)
        \/ \E outcome \in {"delivered", "lost"} :
               FinishCommitted(s, outcome) \/ FinishRolledBack(s, outcome)

\* An aborted task ends.
LateStep == \E n \in late : LateFinish(n) \/ LateVanish(n)

\* What all of these leave alone: the phase, the change and the writer's
\* bookkeeping.
WriterIdle == UNCHANGED <<store, nextId, permit, txVars, log>>

\* What registrations, shutdowns and stuttering leave alone.
Quiet ==
    /\ WriterIdle
    /\ UNCHANGED <<roundVars, known, toldCommit, toldRollback, late>>

\* Every step is a bystander's or one of the operation's own.
LEMMA NextCases ==
    ASSUME [Next]_vars
    PROVE  \/ Quiet \/ CallbackStep \/ LateStep
           \/ \E s \in Subs : SequentialPanic(s)
           \/ PrepareRejected \/ PrepareAccepted \/ CommitOk \/ CommitMismatch
           \/ CommittedDone \/ RolledBackDone \/ DroppedDone
           \/ \E v \in Values : \E kind \in Kinds : Begin(kind, v)
           \/ \E expected \in Versions : BeginConflict(expected)
           \/ BeginBuild \/ BuildFail
           \/ \E v \in Values : BuildOk(v) \/ ForeignStore(v)
           \/ EffectOk \/ EffectFail \/ RecoveryDone
           \/ Cancel
<1> USE DEF Quiet, WriterIdle, coordVars, txVars, roundVars, subVars, auxVars
<1>1. ASSUME NEW s \in Subs, AddSubscriber(s) \/ RemoveSubscriber(s) \/ Shutdown(s)
      PROVE  Quiet
    BY <1>1 DEF AddSubscriber, RemoveSubscriber, Shutdown
<1>2. CASE UNCHANGED vars
    BY <1>2 DEF vars
<1> QED
    BY <1>1, <1>2 DEF Next, RoundStep, Finish, CallbackStep, LateStep

\* Callbacks, late answers and quiet steps leave the writer idle.
LEMMA CallbackFrame == CallbackStep \/ LateStep \/ Quiet => WriterIdle
<1> USE DEF Quiet, WriterIdle, coordVars, txVars, roundVars, subVars, auxVars
<1>1. ASSUME NEW s \in Subs, StartCallback(s) PROVE WriterIdle
    BY <1>1 DEF StartCallback
<1>2. ASSUME NEW s \in Subs, NEW status \in {"ok", "fail"},
             FinishPrepare(s, status)
      PROVE  WriterIdle
    BY <1>2 DEF FinishPrepare
<1>3. ASSUME NEW s \in Subs, ParallelPreparePanic(s) PROVE WriterIdle
    BY <1>3 DEF ParallelPreparePanic
<1>4. ASSUME NEW s \in Subs, NEW outcome \in {"delivered", "lost"},
             FinishCommitted(s, outcome) \/ FinishRolledBack(s, outcome)
      PROVE  WriterIdle
    BY <1>4 DEF FinishCommitted, FinishRolledBack
<1>5. ASSUME NEW n \in late, LateFinish(n) \/ LateVanish(n) PROVE WriterIdle
    BY <1>5 DEF LateFinish, LateVanish
<1> QED
    BY <1>1, <1>2, <1>3, <1>4, <1>5 DEF CallbackStep, LateStep

-----------------------------------------------------------------------------
\* Who holds the permit, phase by phase. After an explicit rollback it is
\* already back; a dropped operation still holds it, or has given it back.
PermitInv ==
    /\ pc \in {"idle", "committed", "rolledback"} => permit = 1
    /\ pc \in {"build", "prepare", "effect", "commit", "recover"} => permit = 0

\* Every step keeps the permit with its writer.
LEMMA PermitNext == TypeInv /\ PermitInv /\ [Next]_vars => PermitInv'
<1> SUFFICES ASSUME TypeInv, PermitInv, [Next]_vars PROVE PermitInv'
    OBVIOUS
<1> USE DEF PermitInv, TypeInv, InTransaction
<1>1. CASE Quiet \/ CallbackStep \/ LateStep
    BY <1>1, CallbackFrame DEF WriterIdle, txVars
<1>2. ASSUME NEW s \in Subs, SequentialPanic(s) PROVE PermitInv'
    BY <1>2 DEF SequentialPanic, DropOperation, ReleasePermit, EndOperation
<1>3. CASE Cancel
    BY <1>3 DEF Cancel, DropOperation, ReleasePermit, EndOperation
<1>4. CASE PrepareRejected \/ EffectFail \/ RecoveryDone \/ CommitMismatch
    BY <1>4 DEF PrepareRejected, EffectFail, RecoveryDone, CommitMismatch,
                EnterRollback, ReleasePermit
<1>5. CASE PrepareAccepted \/ EffectOk \/ CommitOk
    BY <1>5 DEF PrepareAccepted, EffectOk, CommitOk, ReleasePermit, coordVars
<1>6. CASE CommittedDone \/ RolledBackDone \/ DroppedDone \/ BuildFail
    BY <1>6 DEF CommittedDone, RolledBackDone, DroppedDone, BuildFail,
                EndOperation, ReleasePermit
<1>7. ASSUME NEW v \in Values, NEW kind \in Kinds, Begin(kind, v) PROVE PermitInv'
    BY <1>7 DEF Begin, EnterPrepare
<1>8. ASSUME NEW v \in Values, BuildOk(v) \/ ForeignStore(v) PROVE PermitInv'
    BY <1>8 DEF BuildOk, ForeignStore, EnterPrepare, txVars
<1>9. ASSUME NEW expected \in Versions, BeginConflict(expected) PROVE PermitInv'
    BY <1>9 DEF BeginConflict, txVars
<1>10. CASE BeginBuild
    BY <1>10 DEF BeginBuild
<1> QED
    BY <1>1, <1>2, <1>3, <1>4, <1>5, <1>6, <1>7, <1>8, <1>9, <1>10, NextCases

\* Types hold in every reachable state: in particular the semaphore never
\* holds two permits and every id stays within one of the store's version.
THEOREM TypeCorrect == Spec => []TypeOK
<1>1. TypeInv => TypeOK
    BY DEF TypeInv
<1> QED
    BY <1>1, TypeInit, TypeNext, PTL DEF Spec

\* Whatever way an operation ends, the permit is back and no guard is armed;
\* an operation that may still write holds the permit.
THEOREM PermitSafe == Spec => []PermitTracksWriter
<1>1. Init => PermitInv
    BY DEF Init, PermitInv
<1>2. TypeInv /\ PermitInv => PermitTracksWriter
    BY DEF TypeInv, InTransaction, PermitInv, PermitTracksWriter
<1> QED
    BY <1>1, <1>2, TypeInit, TypeNext, PermitNext, PTL DEF Spec

-----------------------------------------------------------------------------
\* From the moment the change has its id until it is stored and reported,
\* next_change_id is that id.
IdInv == pc \in {"prepare", "effect", "commit", "committed"} /\ op # "init"
             => nextId = change.id

\* Every step keeps change ids in step with the stored version.
LEMMA IdNext == TypeInv /\ IdInv /\ [Next]_vars => IdInv'
<1> SUFFICES ASSUME TypeInv, IdInv, [Next]_vars PROVE IdInv'
    OBVIOUS
<1> USE DEF IdInv
<1>1. CASE Quiet \/ CallbackStep \/ LateStep
    BY <1>1, CallbackFrame DEF WriterIdle, txVars
<1>2. ASSUME NEW s \in Subs, SequentialPanic(s) PROVE IdInv'
    BY <1>2 DEF SequentialPanic, DropOperation, EndOperation
<1>3. CASE Cancel
    BY <1>3 DEF Cancel, DropOperation, EndOperation
<1>4. CASE PrepareRejected \/ EffectFail \/ RecoveryDone \/ CommitMismatch
    BY <1>4 DEF PrepareRejected, EffectFail, RecoveryDone, CommitMismatch,
       EnterRollback
<1>5. CASE PrepareAccepted \/ EffectOk \/ CommitOk
    BY <1>5 DEF PrepareAccepted, EffectOk, CommitOk, coordVars
<1>6. CASE CommittedDone \/ RolledBackDone \/ DroppedDone \/ BuildFail
    BY <1>6 DEF CommittedDone, RolledBackDone, DroppedDone, BuildFail, EndOperation
<1>7. ASSUME NEW v \in Values, NEW kind \in Kinds, Begin(kind, v) PROVE IdInv'
    BY <1>7 DEF Begin, EnterPrepare, SyncNextId
<1>8. ASSUME NEW v \in Values, BuildOk(v) PROVE IdInv'
    BY <1>8 DEF BuildOk, EnterPrepare, SyncNextId
<1>9. ASSUME NEW v \in Values, ForeignStore(v) PROVE IdInv'
    BY <1>9 DEF ForeignStore, txVars
<1>10. ASSUME NEW expected \in Versions, BeginConflict(expected) PROVE IdInv'
    BY <1>10 DEF BeginConflict, txVars
<1>11. CASE BeginBuild
    BY <1>11 DEF BeginBuild
<1> QED
    BY <1>1, <1>2, <1>3, <1>4, <1>5, <1>6, <1>7, <1>8, <1>9, <1>10, <1>11, NextCases

\* mark_change_id_committed's debug assertion never fails.
THEOREM ChangeIdSafe == Spec => []ChangeIdInStep
<1>1. Init => IdInv
    BY DEF Init, IdInv
<1>2. IdInv => ChangeIdInStep
    BY DEF IdInv, ChangeIdInStep
<1> QED
    BY <1>1, <1>2, TypeInit, TypeNext, IdNext, PTL DEF Spec

-----------------------------------------------------------------------------
\* Commits are reported only in a commit round, rollbacks only in the rounds of
\* a rollback; the two are never rounds of the same change.
ToldInv ==
    /\ toldCommit # {} => pc = "committed"
    /\ toldRollback # {} => pc \in {"rolledback", "dropped"}

\* Every step keeps what subscribers were told true of the store.
LEMMA ToldNext == TypeInv /\ ToldInv /\ [Next]_vars => ToldInv'
<1> SUFFICES ASSUME TypeInv, ToldInv, [Next]_vars PROVE ToldInv'
    OBVIOUS
<1> USE DEF ToldInv, TypeInv, InTransaction, txVars, subVars
<1>1. CASE Quiet
    BY <1>1 DEF Quiet, WriterIdle
<1>2. CASE CallbackStep
    <2>1. ASSUME NEW s \in Subs, StartCallback(s) PROVE ToldInv'
        BY <2>1 DEF StartCallback
    <2>2. ASSUME NEW s \in Subs, NEW status \in {"ok", "fail"},
                 FinishPrepare(s, status)
          PROVE  ToldInv'
        BY <2>2 DEF FinishPrepare
    <2>3. ASSUME NEW s \in Subs, ParallelPreparePanic(s) PROVE ToldInv'
        BY <2>3 DEF ParallelPreparePanic
    <2>4. ASSUME NEW s \in Subs, NEW outcome \in {"delivered", "lost"},
                 FinishCommitted(s, outcome)
          PROVE  ToldInv'
        BY <2>4 DEF FinishCommitted
    <2>5. ASSUME NEW s \in Subs, NEW outcome \in {"delivered", "lost"},
                 FinishRolledBack(s, outcome)
          PROVE  ToldInv'
        BY <2>5 DEF FinishRolledBack
    <2> QED
        BY <1>2, <2>1, <2>2, <2>3, <2>4, <2>5 DEF CallbackStep
<1>3. CASE LateStep
    BY <1>3 DEF LateStep, LateFinish, LateVanish
<1>4. ASSUME NEW s \in Subs, SequentialPanic(s) PROVE ToldInv'
    BY <1>4 DEF SequentialPanic, DropOperation, EndOperation
<1>5. CASE Cancel
    BY <1>5 DEF Cancel, DropOperation, EndOperation
<1>6. CASE PrepareRejected \/ EffectFail \/ RecoveryDone \/ CommitMismatch
    BY <1>6 DEF PrepareRejected, EffectFail, RecoveryDone, CommitMismatch,
       EnterRollback
<1>7. CASE PrepareAccepted \/ EffectOk \/ CommitOk
    BY <1>7 DEF PrepareAccepted, EffectOk, CommitOk
<1>8. CASE CommittedDone \/ RolledBackDone \/ DroppedDone \/ BuildFail
    BY <1>8 DEF CommittedDone, RolledBackDone, DroppedDone, BuildFail, EndOperation
<1>9. ASSUME NEW v \in Values, NEW kind \in Kinds, Begin(kind, v) PROVE ToldInv'
    BY <1>9 DEF Begin, EnterPrepare
<1>10. ASSUME NEW v \in Values, BuildOk(v) \/ ForeignStore(v) PROVE ToldInv'
    BY <1>10 DEF BuildOk, ForeignStore, EnterPrepare
<1>11. ASSUME NEW expected \in Versions, BeginConflict(expected) PROVE ToldInv'
    BY <1>11 DEF BeginConflict
<1>12. CASE BeginBuild
    BY <1>12 DEF BeginBuild
<1> QED
    BY <1>1, <1>2, <1>3, <1>4, <1>5, <1>6, <1>7, <1>8, <1>9, <1>10, <1>11, <1>12,
       NextCases

\* No change is reported as committed to one subscriber and as rolled back to
\* another, in either strategy and wherever the operation is dropped.
THEOREM OutcomeSafe == Spec => []OutcomeAgreement
<1>1. Init => ToldInv
    BY DEF Init, ToldInv
<1>2. ToldInv => OutcomeAgreement
    BY DEF ToldInv, OutcomeAgreement
<1> QED
    BY <1>1, <1>2, TypeInit, TypeNext, ToldNext, PTL DEF Spec

-----------------------------------------------------------------------------
\* While the prepare round runs, a subscriber that was not reached has no ack
\* and everybody else has one (or the round is already lost); once it is
\* over, every Required subscriber that stayed said "ok".
AckInv ==
    /\ pc = "prepare" =>
           \A s \in txSubs :
               s \in todo \cup running \/ acks[s] # "none" \/ crashed # {}
    /\ pc \in {"effect", "commit"} =>
           \A s \in txSubs \cap Required : acks[s] = "ok"

\* Every step keeps the acknowledgements a commit counts.
LEMMA AckNext == TypeInv /\ AckInv /\ [Next]_vars => AckInv'
<1> SUFFICES ASSUME TypeInv, AckInv, [Next]_vars PROVE AckInv'
    OBVIOUS
<1> USE DEF AckInv, TypeInv, TypeOK, TxTypeOK, RoundTypeOK, txVars, roundVars
<1>1. CASE Quiet
    BY <1>1 DEF Quiet, WriterIdle
<1>2. CASE CallbackStep
    <2>1. ASSUME NEW s \in Subs, StartCallback(s) PROVE AckInv'
        BY <2>1 DEF StartCallback, Rounds
    <2>2. ASSUME NEW s \in Subs, NEW status \in {"ok", "fail"},
                 FinishPrepare(s, status)
          PROVE  AckInv'
        BY <2>2 DEF FinishPrepare
    <2>3. ASSUME NEW s \in Subs, ParallelPreparePanic(s) PROVE AckInv'
        BY <2>3 DEF ParallelPreparePanic
    <2>4. ASSUME NEW s \in Subs, NEW outcome \in {"delivered", "lost"},
                 FinishCommitted(s, outcome)
          PROVE  AckInv'
        BY <2>4 DEF FinishCommitted
    <2>5. ASSUME NEW s \in Subs, NEW outcome \in {"delivered", "lost"},
                 FinishRolledBack(s, outcome)
          PROVE  AckInv'
        BY <2>5 DEF FinishRolledBack
    <2> QED
        BY <1>2, <2>1, <2>2, <2>3, <2>4, <2>5 DEF CallbackStep
<1>3. CASE LateStep
    BY <1>3 DEF LateStep, LateFinish, LateVanish
<1>4. ASSUME NEW s \in Subs, SequentialPanic(s) PROVE AckInv'
    BY <1>4 DEF SequentialPanic, DropOperation, EndOperation
<1>5. CASE Cancel
    BY <1>5 DEF Cancel, DropOperation, EndOperation
<1>6. CASE PrepareRejected \/ EffectFail \/ RecoveryDone \/ CommitMismatch
    BY <1>6 DEF PrepareRejected, EffectFail, RecoveryDone, CommitMismatch,
       EnterRollback
<1>7. CASE PrepareAccepted
    <2>1. todo = {} /\ running = {} /\ crashed = {}
        BY <1>7 DEF PrepareAccepted, RoundOver, RequiredFailure
    <2>2. \A s \in txSubs' \cap Required : acks[s] = "ok"
        BY <1>7, <2>1 DEF PrepareAccepted, RequiredFailure, PrepareAudience
    <2> QED
        BY <1>7, <2>2 DEF PrepareAccepted
<1>8. CASE EffectOk \/ CommitOk
    BY <1>8 DEF EffectOk, CommitOk
<1>9. CASE CommittedDone \/ RolledBackDone \/ DroppedDone \/ BuildFail
    BY <1>9 DEF CommittedDone, RolledBackDone, DroppedDone, BuildFail, EndOperation
<1>10. ASSUME NEW v \in Values, NEW kind \in Kinds, Begin(kind, v) PROVE AckInv'
    BY <1>10 DEF Begin, EnterPrepare, StartRound
<1>11. ASSUME NEW v \in Values, BuildOk(v) \/ ForeignStore(v) PROVE AckInv'
    BY <1>11 DEF BuildOk, ForeignStore, EnterPrepare, StartRound
<1>12. ASSUME NEW expected \in Versions, BeginConflict(expected) PROVE AckInv'
    BY <1>12 DEF BeginConflict
<1>13. CASE BeginBuild
    BY <1>13 DEF BeginBuild
<1> QED
    BY <1>1, <1>2, <1>3, <1>4, <1>5, <1>6, <1>7, <1>8, <1>9, <1>10, <1>11, <1>12,
       <1>13, NextCases

\* The store is swapped only after every Required subscriber that is not shut
\* down has agreed.
THEOREM CommitsAreAcked == Spec => CommitNeedsRequiredAcks
<1>1. Init => AckInv
    BY DEF Init, AckInv
<1>2. AckInv /\ [Next]_vars =>
          [pc = "commit" /\ pc' = "committed" =>
              \A s \in txSubs \cap Required : acks[s] = "ok"]_vars
    BY DEF AckInv
<1> QED
    BY <1>1, <1>2, TypeInit, TypeNext, AckNext, PTL DEF Spec, CommitNeedsRequiredAcks

-----------------------------------------------------------------------------
\* Why the Sequential coordinator implements the commit log. The log has one
\* entry per version; a change is the successor of the version it was built
\* on; in a commit round those still to be told know only older versions. No
\* aborted callback survives in this strategy.
LogInv ==
    /\ Strategy = "Sequential"
    /\ late = {}
    /\ todo \cap running = {}
    /\ Len(log) = store.version + 1
    /\ \A s \in Subs : known[s] <= store.version
    /\ pc = "build" => op = "upsert"
    /\ pc = "effect" => op \in Effectful
    /\ pc \notin {"idle", "build", "committed"} /\ op # "init" =>
           change.id = change.prev + 1 /\ change.prev >= 0
    /\ pc \notin {"idle", "build", "committed"} /\ op = "init" =>
           /\ change.id = 0 /\ store.version = 0 /\ change.value = store.state
           /\ \A s \in Subs : known[s] = -1
    /\ pc = "committed" =>
           /\ change.id = store.version
           /\ \A s \in todo \cup running : known[s] < change.id

\* The initial states map to those of the commit log.
LEMMA LogInit == Init /\ Strategy = "Sequential" => LogInv
BY DEF Init, LogInv

\* A step that leaves the store, the change and the subscribers' knowledge
\* alone and starts a round of a rollback, or ends the operation.
LEMMA LogFrame ==
    ASSUME LogInv, UNCHANGED <<store, log, known, late>>,
           \/ pc' = "idle" /\ todo' = {} /\ running' = {}
           \/ /\ pc' \in {"rolledback", "dropped", "recover"}
              /\ pc \notin {"idle", "build", "committed"}
              /\ UNCHANGED <<op, change>>
              /\ running' = {} \/ UNCHANGED <<todo, running>>
    PROVE  LogInv'
BY DEF LogInv

\* Every step keeps what the mapping to the commit log needs.
LEMMA LogNext == TypeInv /\ LogInv /\ [Next]_vars => LogInv'
<1> SUFFICES ASSUME TypeInv, LogInv, [Next]_vars PROVE LogInv'
    OBVIOUS
<1> USE DEF TypeInv, InTransaction, coordVars, txVars, roundVars, subVars, auxVars
<1>1. CASE Quiet
    BY <1>1 DEF Quiet, WriterIdle, LogInv
<1>2. CASE CallbackStep
    <2>1. ASSUME NEW s \in Subs, StartCallback(s) PROVE LogInv'
        BY <2>1 DEF StartCallback, CanStart, LogInv
    <2>2. ASSUME NEW s \in Subs, NEW status \in {"ok", "fail"},
                 FinishPrepare(s, status)
          PROVE  LogInv'
        BY <2>2 DEF FinishPrepare, LogInv
    <2>3. ASSUME NEW s \in Subs, ParallelPreparePanic(s) PROVE LogInv'
        BY <2>3 DEF ParallelPreparePanic, LogInv
    <2>4. ASSUME NEW s \in Subs, NEW outcome \in {"delivered", "lost"},
                 FinishCommitted(s, outcome)
          PROVE  LogInv'
        <3>1. /\ change.id = store.version /\ store.version \in Int
              /\ known \in [Subs -> -1 .. MaxVersion]
              /\ s \notin todo /\ todo \subseteq Subs /\ running \subseteq Subs
            BY <2>4, BoundAssumption
            DEF FinishCommitted, LogInv, TypeOK, CoordTypeOK, RoundTypeOK,
                SubTypeOK, Versions
        <3>2. /\ UNCHANGED <<pc, op, change, store, log, late, todo>>
              /\ running' = running \ {s}
            BY <2>4 DEF FinishCommitted
        <3>3. \/ known' = [known EXCEPT ![s] = change.id]
              \/ UNCHANGED known
            BY <2>4 DEF FinishCommitted
        <3>4. \A u \in Subs : known'[u] <= store.version
            BY <3>1, <3>3 DEF LogInv
        <3>5. \A u \in todo \cup running' : known'[u] < change.id
            BY <2>4, <3>1, <3>2, <3>3 DEF FinishCommitted, LogInv
        <3> QED
            BY <2>4, <3>2, <3>4, <3>5 DEF FinishCommitted, LogInv
    <2>5. ASSUME NEW s \in Subs, NEW outcome \in {"delivered", "lost"},
                 FinishRolledBack(s, outcome)
          PROVE  LogInv'
        BY <2>5 DEF FinishRolledBack, LogInv
    <2> QED
        BY <1>2, <2>1, <2>2, <2>3, <2>4, <2>5 DEF CallbackStep
<1>3. CASE LateStep
    BY <1>3 DEF LateStep, LogInv
<1>4. ASSUME NEW s \in Subs, SequentialPanic(s) PROVE LogInv'
    BY <1>4, LogFrame DEF SequentialPanic, DropOperation, EndOperation, StartRound
<1>5. CASE Cancel
    <2>1. UNCHANGED late
        BY <1>5 DEF Cancel, AbortRunning, LogInv
    <2> QED
        BY <1>5, <2>1, LogFrame DEF Cancel, DropOperation, EndOperation, StartRound
<1>6. CASE PrepareRejected \/ EffectFail \/ RecoveryDone \/ CommitMismatch
    BY <1>6, LogFrame DEF PrepareRejected, EffectFail, RecoveryDone, CommitMismatch,
                          EnterRollback, StartRound
<1>7. CASE CommittedDone \/ RolledBackDone \/ DroppedDone \/ BuildFail
    BY <1>7, LogFrame DEF CommittedDone, RolledBackDone, DroppedDone, BuildFail,
                          EndOperation, StartRound
<1>8. CASE PrepareAccepted
    BY <1>8 DEF PrepareAccepted, LogInv
<1>9. CASE EffectOk
    BY <1>9 DEF EffectOk, LogInv
<1>10. CASE CommitOk
    <2>1. /\ change.id \in Versions /\ change.prev \in Int
          /\ store.version \in Versions /\ log \in Seq(Values)
          /\ change.value \in Values
          /\ known \in [Subs -> -1 .. MaxVersion] /\ txSubs \subseteq Subs
        BY <1>10, BoundAssumption
        DEF CommitOk, Change, TypeOK, CoordTypeOK, TxTypeOK, AuxTypeOK,
           SubTypeOK, Versions
    <2>2. store'.version = change.id /\ todo' = txSubs /\ running' = {}
        BY <1>10 DEF CommitOk, StartRound
    <2>3. change.id = IF op = "init" THEN store.version ELSE store.version + 1
        BY <1>10, <2>1 DEF CommitOk, CasMatches, LogInv, Versions
    <2>4. Len(log') = change.id + 1
        BY <1>10, <2>1, <2>3 DEF CommitOk, LogInv, Versions
    <2>5. \A s \in Subs : known[s] < change.id /\ known'[s] <= change.id
        BY <1>10, <2>1, <2>3 DEF CommitOk, LogInv, Versions
    <2> QED
        BY <1>10, <2>1, <2>2, <2>4, <2>5 DEF CommitOk, LogInv
<1>11. ASSUME NEW v \in Values, NEW kind \in Kinds, Begin(kind, v) PROVE LogInv'
    BY <1>11, KindsAssumption
    DEF Begin, EnterPrepare, StartRound, PendingChangeId, LogInv, TypeOK,
        CoordTypeOK, Versions
<1>12. ASSUME NEW v \in Values, BuildOk(v) PROVE LogInv'
    BY <1>12
    DEF BuildOk, EnterPrepare, StartRound, PendingChangeId, LogInv, TypeOK,
        CoordTypeOK, Versions
<1>13. ASSUME NEW v \in Values, ForeignStore(v) PROVE LogInv'
    <2>1. /\ store.version \in Int /\ log \in Seq(Values)
          /\ known \in [Subs -> -1 .. MaxVersion]
        BY BoundAssumption DEF TypeOK, CoordTypeOK, AuxTypeOK, SubTypeOK, Versions
    <2>2. store'.version = store.version + 1 /\ Len(log') = store.version + 2
        BY <1>13, <2>1 DEF ForeignStore, LogInv
    <2>3. op # "init"
        BY <1>13 DEF ForeignStore, LogInv, Effectful
    <2> QED
        BY <1>13, <2>1, <2>2, <2>3, BoundAssumption DEF ForeignStore, LogInv
<1>14. ASSUME NEW expected \in Versions, BeginConflict(expected) PROVE LogInv'
    BY <1>14 DEF BeginConflict, LogInv
<1>15. CASE BeginBuild
    BY <1>15 DEF BeginBuild, LogInv
<1> QED
    BY <1>1, <1>2, <1>3, <1>4, <1>5, <1>6, <1>7, <1>8, <1>9, <1>10, <1>11, <1>12,
       <1>13, <1>14, <1>15, NextCases

\* Every step commits the next version, tells one subscriber of a newer
\* committed version, or is invisible to the commit log.
LEMMA LogStep == TypeInv /\ LogInv /\ [Next]_vars => [CL!clNext]_(CL!clVars)
<1> SUFFICES ASSUME TypeInv, LogInv, [Next]_vars PROVE [CL!clNext]_(CL!clVars)
    OBVIOUS
<1> USE DEF TypeInv, InTransaction, CL!clVars, coordVars, txVars, roundVars,
   subVars, auxVars
<1>1. CASE Quiet
    BY <1>1 DEF Quiet, WriterIdle
<1>2. CASE CallbackStep
    <2>1. ASSUME NEW s \in Subs, StartCallback(s) PROVE UNCHANGED CL!clVars
        BY <2>1 DEF StartCallback
    <2>2. ASSUME NEW s \in Subs, NEW status \in {"ok", "fail"},
                 FinishPrepare(s, status)
          PROVE  UNCHANGED CL!clVars
        BY <2>2 DEF FinishPrepare
    <2>3. ASSUME NEW s \in Subs, ParallelPreparePanic(s) PROVE UNCHANGED CL!clVars
        BY <2>3 DEF ParallelPreparePanic
    <2>4. ASSUME NEW s \in Subs, NEW outcome \in {"delivered", "lost"},
                 FinishCommitted(s, outcome)
          PROVE  [CL!clNext]_(CL!clVars)
        <3>1. CASE outcome # "delivered"
            BY <2>4, <3>1 DEF FinishCommitted
        <3>2. CASE outcome = "delivered"
            <4>1. known' = [known EXCEPT ![s] = change.id] /\ UNCHANGED <<store,
               log>>
                BY <2>4, <3>2 DEF FinishCommitted
            <4>2. change.id = store.version /\ known[s] < change.id
                BY <2>4 DEF FinishCommitted, LogInv
            <4>3. store.version \in Int /\ known[s] \in Int
                BY BoundAssumption DEF TypeOK, CoordTypeOK, SubTypeOK, Versions
            <4>4. Len(log) - 1 = store.version
                BY <4>3 DEF LogInv
            <4>5. change.id \in (known[s] + 1) .. (Len(log) - 1)
                BY <4>2, <4>3, <4>4
            <4>6. CL!clLearn(s)
                BY <4>1, <4>5 DEF CL!clLearn
            <4> QED
                BY <4>6 DEF CL!clNext
        <3> QED
            BY <3>1, <3>2
    <2>5. ASSUME NEW s \in Subs, NEW outcome \in {"delivered", "lost"},
                 FinishRolledBack(s, outcome)
          PROVE  UNCHANGED CL!clVars
        BY <2>5 DEF FinishRolledBack
    <2> QED
        BY <1>2, <2>1, <2>2, <2>3, <2>4, <2>5 DEF CallbackStep
<1>3. CASE LateStep
    BY <1>3 DEF LateStep, LogInv
<1>4. CASE CommitOk
    <2>1. change.value \in Values
        BY <1>4 DEF CommitOk, Change
    <2>2. CASE op = "init"
        <3>1. store' = store
            BY <1>4, <2>2 DEF CommitOk, LogInv, TypeOK, CoordTypeOK
        <3> QED
            BY <1>4, <2>2, <3>1 DEF CommitOk
    <2>3. CASE op # "init"
        <3>1. store.version \in Int /\ change.prev \in Int
            BY <1>4, BoundAssumption DEF CommitOk, Change, TypeOK, CoordTypeOK,
               Versions
        <3>2. change.id = Len(log)
            BY <1>4, <2>3, <3>1 DEF CommitOk, CasMatches, LogInv
        <3> QED
            BY <1>4, <2>1, <2>3, <3>2 DEF CommitOk, CL!clNext, CL!clCommit
    <2> QED
        BY <2>2, <2>3
<1>5. ASSUME NEW v \in Values, ForeignStore(v) PROVE CL!clNext
    <2>1. Len(log) = store.version + 1
        BY DEF LogInv
    <2> QED
        BY <1>5, <2>1 DEF ForeignStore, CL!clNext, CL!clCommit
<1>6. CASE PrepareRejected \/ PrepareAccepted \/ CommitMismatch \/ CommittedDone
           \/ RolledBackDone \/ DroppedDone
    BY <1>6 DEF PrepareRejected, PrepareAccepted, CommitMismatch, CommittedDone,
                RolledBackDone, DroppedDone
<1>7. CASE BeginBuild \/ BuildFail \/ EffectOk \/ EffectFail \/ RecoveryDone \/
   Cancel
    BY <1>7 DEF BeginBuild, BuildFail, EffectOk, EffectFail, RecoveryDone, Cancel,
                DropOperation
<1>8. ASSUME NEW s \in Subs, SequentialPanic(s) PROVE UNCHANGED CL!clVars
    BY <1>8 DEF SequentialPanic, DropOperation
<1>9. ASSUME NEW v \in Values, NEW kind \in Kinds, Begin(kind, v)
      PROVE  UNCHANGED CL!clVars
    BY <1>9 DEF Begin
<1>10. ASSUME NEW v \in Values, BuildOk(v) PROVE UNCHANGED CL!clVars
    BY <1>10 DEF BuildOk
<1>11. ASSUME NEW expected \in Versions, BeginConflict(expected)
       PROVE  UNCHANGED CL!clVars
    BY <1>11 DEF BeginConflict
<1> QED
    BY <1>1, <1>2, <1>3, <1>4, <1>5, <1>6, <1>7, <1>8, <1>9, <1>10, <1>11, NextCases

\* Under the Sequential strategy the coordinator implements the commit log:
\* versions advance one by one and subscribers are told only of newer
\* versions that were really stored. (Under the Parallel strategy an aborted
\* on_committed may still take effect later, out of order.)
THEOREM SequentialImplementsCommitLog ==
    ASSUME Strategy = "Sequential"
    PROVE  Spec => ImplementsCommitLog
<1>1. Init => CL!clInit
    BY DEF Init, CL!clInit
<1>2. Init => LogInv
    BY LogInit
<1> QED
    BY <1>1, <1>2, TypeInit, TypeNext, LogNext, LogStep, PTL
    DEF Spec, ImplementsCommitLog, CL!clSpec
-----------------------------------------------------------------------------
\* Why nobody is left stranded. The log has one entry per version, and a
\* change is the successor of the version it was built on (the initial one is
\* the version already installed).
Recorded ==
    /\ log \in Seq(Values) /\ Len(log) = store.version + 1
    /\ pc = "build" => op = "upsert"
    /\ pc = "effect" => op \in Effectful
    /\ pc \in {"prepare", "effect", "commit"} =>
           IF op = "init"
           THEN change.prev = -1 /\ change.id = 0 /\ log = <<change.value>>
           ELSE change.prev >= 0 /\ change.id = change.prev + 1

\* Until the outcome is known the guard covers the audience of the
\* transaction, and only a subscriber of it is called. A subscriber leaves
\* the audience by a skipped callback, for which it had to be shut down.
Covered ==
    /\ pc \in {"prepare", "effect", "commit", "recover", "rolledback"}
           => guardSubs = txSubs
    /\ pc = "prepare" => /\ todo \cup running \subseteq txSubs
                         /\ \A s \in Subs : acks[s] = "skipped" => s \in shut

Stored(c) == c.id <= store.version /\ log[c.id + 1] = c.value

\* s prepared for a change that is not (or not yet) a committed one.
Waiting(s) ==
    s \notin faulty \cup shut /\ pend[s] # NoChange /\ ~ Stored(pend[s])

\* Whoever waits does so for the current change, was asked for it, and is
\* still to hear how it ends.
Owed ==
    \A s \in Subs : Waiting(s) =>
        /\ pc \notin {"idle", "build", "committed"}
        /\ pend[s] = change
        /\ pc = "prepare" => acks[s] # "none" \/ Strategy = "Parallel"
        /\ pc \in {"prepare", "effect", "commit", "recover", "rolledback"}
               => s \in txSubs
        /\ pc \in {"rolledback", "dropped"} => s \in todo \cup running

\* Every step records the degradations it causes.
LEMMA RecordedNext == TypeInv /\ Recorded /\ [Next]_vars => Recorded'
<1> SUFFICES ASSUME TypeInv, Recorded, [Next]_vars PROVE Recorded'
    OBVIOUS
<1> USE DEF Recorded
<1>1. CASE Quiet \/ CallbackStep \/ LateStep
    BY <1>1, CallbackFrame DEF WriterIdle, txVars
<1>2. ASSUME NEW s \in Subs, SequentialPanic(s) PROVE Recorded'
    BY <1>2 DEF SequentialPanic, DropOperation, EndOperation, auxVars
<1>3. CASE Cancel
    BY <1>3 DEF Cancel, DropOperation, EndOperation
<1>4. CASE PrepareRejected \/ EffectFail \/ RecoveryDone \/ CommitMismatch
    BY <1>4 DEF PrepareRejected, EffectFail, RecoveryDone, CommitMismatch,
                EnterRollback, auxVars
<1>5. CASE PrepareAccepted \/ EffectOk
    BY <1>5 DEF PrepareAccepted, EffectOk, coordVars, auxVars
<1>6. CASE CommitOk
    <2>1. change \in Change /\ store.version \in Int
        BY <1>6, BoundAssumption
        DEF CommitOk, TypeInv, InTransaction, TypeOK, CoordTypeOK, Versions
    <2>2. change.value \in Values /\ change.prev \in Int
        BY <2>1, BoundAssumption DEF Change
    <2>3. log' \in Seq(Values) /\ pc' = "committed" /\ store'.version = change.id
        BY <1>6, <2>2 DEF CommitOk
    <2>4. CASE op = "init"
        BY <1>6, <2>3, <2>4 DEF CommitOk
    <2>5. CASE op # "init"
        <3>1. change.id = store.version + 1
            BY <1>6, <2>1, <2>2, <2>5 DEF CommitOk, CasMatches
        <3>2. Len(log') = Len(log) + 1
            BY <1>6, <2>2, <2>5 DEF CommitOk
        <3> QED
            BY <2>3, <3>1, <3>2
    <2> QED
        BY <2>4, <2>5
<1>7. CASE CommittedDone \/ RolledBackDone \/ DroppedDone \/ BuildFail
    BY <1>7 DEF CommittedDone, RolledBackDone, DroppedDone, BuildFail,
                EndOperation, auxVars
<1>8. ASSUME NEW v \in Values, NEW kind \in Kinds, Begin(kind, v) PROVE Recorded'
    BY <1>8, KindsAssumption, BoundAssumption
    DEF Begin, EnterPrepare, PendingChangeId, TypeInv, TypeOK, CoordTypeOK, Versions,
        auxVars
<1>9. ASSUME NEW v \in Values, BuildOk(v) PROVE Recorded'
    BY <1>9, BoundAssumption
    DEF BuildOk, EnterPrepare, PendingChangeId, TypeInv, TypeOK, CoordTypeOK,
        Versions, auxVars
<1>10. ASSUME NEW v \in Values, ForeignStore(v) PROVE Recorded'
    <2>1. store.version \in Int /\ op # "init"
        BY <1>10, BoundAssumption
        DEF ForeignStore, Effectful, TypeInv, TypeOK, CoordTypeOK, Versions
    <2>2. /\ log' \in Seq(Values) /\ Len(log') = Len(log) + 1
          /\ store'.version = store.version + 1
        BY <1>10 DEF ForeignStore
    <2> QED
        BY <1>10, <2>1, <2>2 DEF ForeignStore, txVars
<1>11. ASSUME NEW expected \in Versions, BeginConflict(expected) PROVE Recorded'
    BY <1>11 DEF BeginConflict, txVars, auxVars
<1>12. CASE BeginBuild
    BY <1>12 DEF BeginBuild, auxVars
<1> QED
    BY <1>1, <1>2, <1>3, <1>4, <1>5, <1>6, <1>7, <1>8, <1>9, <1>10, <1>11, <1>12,
       NextCases

\* Every step keeps each prepared change behind a guard, a message or a record.
LEMMA CoveredNext == TypeInv /\ Covered /\ [Next]_vars => Covered'
<1> SUFFICES ASSUME TypeInv, Covered, [Next]_vars PROVE Covered'
    OBVIOUS
<1> USE DEF Covered, TypeInv, TypeOK, RoundTypeOK, txVars, roundVars
<1>1. ASSUME NEW s \in Subs, AddSubscriber(s) \/ RemoveSubscriber(s) \/ Shutdown(s)
      PROVE  Covered'
    BY <1>1 DEF AddSubscriber, RemoveSubscriber, Shutdown, subVars
<1>2. CASE UNCHANGED vars
    BY <1>2 DEF vars, subVars
<1>3. CASE CallbackStep
    <2>1. ASSUME NEW s \in Subs, StartCallback(s) PROVE Covered'
        BY <2>1 DEF StartCallback, CanStart, subVars
    <2>2. ASSUME NEW s \in Subs, NEW status \in {"ok", "fail"},
                 FinishPrepare(s, status)
          PROVE  Covered'
        BY <2>2 DEF FinishPrepare
    <2>3. ASSUME NEW s \in Subs, ParallelPreparePanic(s) PROVE Covered'
        BY <2>3 DEF ParallelPreparePanic
    <2>4. ASSUME NEW s \in Subs, NEW outcome \in {"delivered", "lost"},
                 FinishCommitted(s, outcome) \/ FinishRolledBack(s, outcome)
          PROVE  Covered'
        BY <2>4 DEF FinishCommitted, FinishRolledBack
    <2> QED
        BY <1>3, <2>1, <2>2, <2>3, <2>4 DEF CallbackStep
<1>4. CASE LateStep
    BY <1>4 DEF LateStep, LateFinish, LateVanish
<1>5. ASSUME NEW s \in Subs, SequentialPanic(s) PROVE Covered'
    BY <1>5 DEF SequentialPanic, DropOperation, EndOperation
<1>6. CASE Cancel
    BY <1>6 DEF Cancel, DropOperation, EndOperation
<1>7. CASE PrepareRejected \/ EffectFail \/ RecoveryDone \/ CommitMismatch
    BY <1>7 DEF PrepareRejected, EffectFail, RecoveryDone, CommitMismatch,
                EnterRollback, UpdateGuard, subVars
<1>8. CASE PrepareAccepted \/ EffectOk \/ CommitOk
    BY <1>8 DEF PrepareAccepted, EffectOk, CommitOk, UpdateGuard, subVars
<1>9. CASE CommittedDone \/ RolledBackDone \/ DroppedDone \/ BuildFail
    BY <1>9 DEF CommittedDone, RolledBackDone, DroppedDone, BuildFail, EndOperation
<1>10. ASSUME NEW v \in Values, NEW kind \in Kinds, Begin(kind, v) PROVE Covered'
    BY <1>10 DEF Begin, EnterPrepare, StartRound
<1>11. ASSUME NEW v \in Values, BuildOk(v) PROVE Covered'
    BY <1>11 DEF BuildOk, EnterPrepare, StartRound
<1>12. ASSUME NEW v \in Values, ForeignStore(v) PROVE Covered'
    BY <1>12 DEF ForeignStore, subVars
<1>13. ASSUME NEW expected \in Versions, BeginConflict(expected) PROVE Covered'
    BY <1>13 DEF BeginConflict, subVars
<1>14. CASE BeginBuild
    BY <1>14 DEF BeginBuild, subVars
<1> QED
    BY <1>1, <1>2, <1>3, <1>4, <1>5, <1>6, <1>7, <1>8, <1>9, <1>10, <1>11, <1>12,
       <1>13, <1>14 DEF Next, RoundStep, Finish, CallbackStep, LateStep

\* A stored change stays stored: the log only grows.
LEMMA StoredKept ==
    ASSUME TypeInv, Recorded,
           \/ log' = log /\ store'.version = store.version
           \/ \E v \in Values : /\ log' = Append(log, v)
                                /\ store'.version = store.version + 1
    PROVE  \A c \in Change : Stored(c) =>
               c.id <= store'.version /\ log'[c.id + 1] = c.value
<1> SUFFICES ASSUME NEW c \in Change, Stored(c)
             PROVE  c.id <= store'.version /\ log'[c.id + 1] = c.value
    OBVIOUS
<1>1. /\ c.id \in Nat /\ c.id <= store.version /\ log[c.id + 1] = c.value
      /\ store.version \in Nat
    BY BoundAssumption DEF Stored, Change, Versions, TypeInv, TypeOK, CoordTypeOK
<1>2. log \in Seq(Values) /\ Len(log) = store.version + 1
    BY DEF Recorded
<1>3. CASE log' = log /\ store'.version = store.version
    BY <1>1, <1>3
<1>4. ASSUME NEW v \in Values, log' = Append(log, v),
             store'.version = store.version + 1
      PROVE  c.id <= store'.version /\ log'[c.id + 1] = c.value
    <2>1. c.id + 1 \in 1 .. Len(log)
        BY <1>1, <1>2
    <2>2. log'[c.id + 1] = log[c.id + 1]
        BY <1>2, <1>4, <2>1
    <2> QED
        BY <1>1, <1>4, <2>2
<1> QED
    BY <1>3, <1>4

\* A step that leaves the answers alone lets nobody start to wait.
LEMMA NobodyStarts ==
    ASSUME TypeInv, Recorded, UNCHANGED pend,
           faulty \subseteq faulty', shut \subseteq shut',
           \/ log' = log /\ store'.version = store.version
           \/ \E v \in Values : /\ log' = Append(log, v)
                                /\ store'.version = store.version + 1
    PROVE  \A s \in Subs : Waiting(s)' => Waiting(s)
<1> SUFFICES ASSUME NEW s \in Subs, Waiting(s)' PROVE Waiting(s)
    OBVIOUS
<1>1. s \notin faulty \cup shut /\ pend[s] # NoChange
    BY DEF Waiting
<1>2. pend[s] \in Change
    BY <1>1 DEF TypeInv, TypeOK, SubTypeOK
<1>3. ~ Stored(pend[s])
    BY <1>2, StoredKept DEF Waiting, Stored
<1> QED
    BY <1>1, <1>3 DEF Waiting

\* What the answer of a single callback does to the others.
LEMMA OthersUnmoved ==
    ASSUME TypeInv, Recorded, NEW s \in Subs, UNCHANGED <<store, log, shut>>,
           faulty \subseteq faulty',
           \A u \in Subs \ {s} : pend'[u] = pend[u]
    PROVE  \A u \in Subs \ {s} : Waiting(u)' => Waiting(u) /\ pend'[u] = pend[u]
BY DEF Waiting, Stored

\* Every step keeps the resolutions that are still owed.
LEMMA OwedNext ==
    TypeInv /\ Recorded /\ Covered /\ Owed /\ [Next]_vars => Owed'
<1> SUFFICES ASSUME TypeInv, Recorded, Covered, Owed, [Next]_vars PROVE Owed'
    OBVIOUS
<1> DEFINE Frame == \A s \in Subs : Waiting(s)' => Waiting(s) /\ pend'[s] = pend[s]
<1> USE DEF Owed
<1>1. ASSUME NEW s \in Subs, AddSubscriber(s) \/ RemoveSubscriber(s) \/ Shutdown(s)
      PROVE  Owed'
    <2>1. Frame
        BY <1>1, NobodyStarts
        DEF AddSubscriber, RemoveSubscriber, Shutdown, coordVars, subVars, auxVars
    <2> QED
        BY <1>1, <2>1
        DEF AddSubscriber, RemoveSubscriber, Shutdown, txVars, roundVars
<1>2. CASE UNCHANGED vars
    <2>1. Frame
        BY <1>2, NobodyStarts DEF vars, coordVars, subVars, auxVars
    <2> QED
        BY <1>2, <2>1 DEF vars, txVars, roundVars
<1>3. ASSUME NEW s \in Subs, StartCallback(s) PROVE Owed'
    <2>1. Frame /\ UNCHANGED <<pc, change, txSubs, shut>>
        BY <1>3, NobodyStarts DEF StartCallback, coordVars, txVars, subVars, auxVars
    <2>2. ASSUME NEW u \in Subs, Waiting(u)
          PROVE  /\ acks[u] # "none" => acks'[u] # "none"
                 /\ u \in todo \cup running => u \in todo' \cup running'
        BY <1>3, <2>2 DEF StartCallback, Waiting, TypeInv, TypeOK, RoundTypeOK
    <2> QED
        BY <2>1, <2>2
<1>4. ASSUME NEW s \in Subs, NEW status \in {"ok", "fail"},
             FinishPrepare(s, status)
      PROVE  Owed'
    <2>1. /\ UNCHANGED <<pc, change, txSubs, shut, faulty, store, log, todo>>
          /\ pc = "prepare" /\ s \in txSubs
        BY <1>4 DEF FinishPrepare, coordVars, txVars, auxVars, Covered
    <2>2. /\ acks'[s] # "none"
          /\ \A u \in Subs \ {s} : acks'[u] = acks[u] /\ pend'[u] = pend[u]
          /\ pend'[s] = change \/ pend'[s] = pend[s]
        BY <1>4 DEF FinishPrepare, TypeInv, TypeOK, RoundTypeOK, SubTypeOK
    <2>3. \A u \in Subs \ {s} : Waiting(u)' => Waiting(u) /\ pend'[u] = pend[u]
        BY <2>1, <2>2, OthersUnmoved
    <2>4. Waiting(s)' => pend'[s] = change
        BY <2>1, <2>2 DEF Waiting, Stored
    <2> QED
        BY <2>1, <2>2, <2>3, <2>4
<1>5. ASSUME NEW s \in Subs, ParallelPreparePanic(s) PROVE Owed'
    <2>1. /\ UNCHANGED <<pc, change, txSubs, shut, faulty, store, log, todo, acks>>
          /\ pc = "prepare" /\ Strategy = "Parallel" /\ s \in txSubs
        BY <1>5 DEF ParallelPreparePanic, coordVars, txVars, auxVars, Covered
    <2>2. /\ \A u \in Subs \ {s} : pend'[u] = pend[u]
          /\ pend'[s] = change \/ pend'[s] = pend[s]
        BY <1>5 DEF ParallelPreparePanic, TypeInv, TypeOK, SubTypeOK
    <2>3. \A u \in Subs \ {s} : Waiting(u)' => Waiting(u) /\ pend'[u] = pend[u]
        BY <2>1, <2>2, OthersUnmoved
    <2>4. Waiting(s)' => pend'[s] = change
        BY <2>1, <2>2 DEF Waiting, Stored
    <2> QED
        BY <2>1, <2>2, <2>3, <2>4
<1>6. ASSUME NEW s \in Subs, NEW outcome \in {"delivered", "lost"},
             FinishCommitted(s, outcome) \/ FinishRolledBack(s, outcome)
      PROVE  Owed'
    <2>1. /\ UNCHANGED <<pc, change, txSubs, shut, store, log, todo, acks>>
          /\ faulty \subseteq faulty' /\ running' = running \ {s}
          /\ pc # "prepare"
        BY <1>6 DEF FinishCommitted, FinishRolledBack, coordVars, txVars, auxVars
    <2>2. /\ \A u \in Subs \ {s} : pend'[u] = pend[u]
          /\ s \in faulty' \/ pend'[s] = NoChange
        BY <1>6 DEF FinishCommitted, FinishRolledBack, TypeInv, TypeOK, SubTypeOK
    <2>3. \A u \in Subs \ {s} : Waiting(u)' => Waiting(u) /\ pend'[u] = pend[u]
        BY <2>1, <2>2, OthersUnmoved
    <2>4. ~ Waiting(s)'
        BY <2>2 DEF Waiting
    <2> QED
        BY <2>1, <2>3, <2>4
<1>7. ASSUME NEW n \in late, LateFinish(n) \/ LateVanish(n) PROVE Owed'
    <2>1. /\ UNCHANGED <<pc, change, txSubs, shut, store, log, todo, running, acks>>
          /\ faulty \subseteq faulty' /\ n[1] \in Subs
        BY <1>7 DEF LateFinish, LateVanish, coordVars, txVars, roundVars, auxVars,
                    TypeInv, TypeOK, SubTypeOK
    <2>2. /\ \A u \in Subs \ {n[1]} : pend'[u] = pend[u]
          /\ n[1] \in faulty' \/ pend'[n[1]] = pend[n[1]]
        BY <1>7 DEF LateFinish, LateVanish, TypeInv, TypeOK, SubTypeOK
    <2>3. \A u \in Subs : Waiting(u)' => Waiting(u) /\ pend'[u] = pend[u]
        BY <2>1, <2>2 DEF Waiting, Stored
    <2> QED
        BY <2>1, <2>3
<1>8. ASSUME Cancel \/ \E s \in Subs : SequentialPanic(s) PROVE Owed'
    <2>1. Frame
        BY <1>8, NobodyStarts
        DEF Cancel, SequentialPanic, DropOperation, auxVars
    <2>2. DropOperation /\ pc \in {"build", "prepare", "effect", "recover",
                                   "committed", "rolledback"}
        BY <1>8 DEF Cancel, SequentialPanic
    <2>3. CASE guard = "armed"
        BY <2>1, <2>2, <2>3 DEF DropOperation, StartRound, Covered
    <2>4. CASE guard # "armed"
        <3>1. pc \in {"build", "committed"}
            BY <2>2, <2>4 DEF TypeInv, InTransaction
        <3> QED
            BY <2>1, <3>1
    <2> QED
        BY <2>3, <2>4
<1>9. CASE PrepareRejected
    <2>1. Frame /\ UNCHANGED change
        BY <1>9, NobodyStarts DEF PrepareRejected, subVars, auxVars, EnterRollback
    <2>2. \A s \in Subs : Waiting(s) => s \in RollbackAudience
        BY <1>9 DEF PrepareRejected, RollbackAudience, PrepareAudience, Covered,
                    Waiting, StrategyAssumption
    <2> QED
        BY <1>9, <2>1, <2>2 DEF PrepareRejected, EnterRollback, StartRound
<1>10. CASE PrepareAccepted
    <2>1. Frame /\ UNCHANGED change
        BY <1>10, NobodyStarts DEF PrepareAccepted, subVars, auxVars
    <2>2. \A s \in Subs : Waiting(s) => s \in PrepareAudience
        BY <1>10 DEF PrepareAccepted, PrepareAudience, Covered, Waiting
    <2> QED
        BY <1>10, <2>1, <2>2 DEF PrepareAccepted
<1>11. CASE EffectOk
    <2>1. Frame
        BY <1>11, NobodyStarts DEF EffectOk, coordVars, subVars, auxVars
    <2> QED
        BY <1>11, <2>1 DEF EffectOk, roundVars
<1>12. CASE EffectFail \/ RecoveryDone \/ CommitMismatch
    <2>1. Frame /\ UNCHANGED <<change, txSubs>>
        BY <1>12, NobodyStarts
        DEF EffectFail, RecoveryDone, CommitMismatch, subVars, auxVars
    <2>2. \/ pc' = "recover"
          \/ pc' = "rolledback" /\ todo' = txSubs
        BY <1>12 DEF EffectFail, RecoveryDone, CommitMismatch, EnterRollback,
                     StartRound
    <2>3. pc \in {"effect", "recover", "commit"}
        BY <1>12 DEF EffectFail, RecoveryDone, CommitMismatch
    <2> QED
        BY <2>1, <2>2, <2>3
<1>13. CASE CommitOk
    <2>1. /\ change \in Change /\ store.version \in Nat
          /\ UNCHANGED <<pend, faulty, shut, change>>
        BY <1>13, BoundAssumption
        DEF CommitOk, subVars, TypeInv, InTransaction, TypeOK, CoordTypeOK, Versions
    <2>2. /\ change.value \in Values /\ change.prev \in Int /\ change.id \in Nat
          /\ store'.version = change.id
        BY <1>13, <2>1, BoundAssumption DEF CommitOk, Change, Versions
    <2>3. log \in Seq(Values) /\ Len(log) = store.version + 1
        BY DEF Recorded
    <2>4. \/ log' = log /\ store'.version = store.version
          \/ log' = Append(log, change.value) /\ store'.version = store.version + 1
        <3>1. CASE op = "init"
            <4>1. store.version = 0 /\ change.id = 0
                BY <1>13, <2>1, <2>3, <3>1 DEF CommitOk, Recorded
            <4> QED
                BY <1>13, <2>2, <3>1, <4>1 DEF CommitOk
        <3>2. CASE op # "init"
            BY <1>13, <2>1, <2>2, <3>2 DEF CommitOk, CasMatches, Recorded
        <3> QED
            BY <3>1, <3>2
    <2>5. log'[change.id + 1] = change.value
        BY <1>13, <2>1, <2>2, <2>3 DEF CommitOk, CasMatches, Recorded
    <2>6. ASSUME NEW s \in Subs PROVE ~ Waiting(s)'
        <3>1. Waiting(s)' => Waiting(s)
            BY <2>1, <2>2, <2>4, NobodyStarts
        <3>2. Waiting(s) => pend'[s] = change
            BY <2>1
        <3> QED
            BY <2>1, <2>2, <2>5, <3>1, <3>2 DEF Waiting, Stored
    <2> QED
        BY <2>6
<1>14. CASE CommittedDone \/ BuildFail
    <2>1. Frame
        BY <1>14, NobodyStarts DEF CommittedDone, BuildFail, auxVars
    <2>2. pc \in {"committed", "build"}
        BY <1>14 DEF CommittedDone, BuildFail
    <2> QED
        BY <2>1, <2>2
<1>15. CASE RolledBackDone \/ DroppedDone
    <2>1. Frame
        BY <1>15, NobodyStarts DEF RolledBackDone, DroppedDone, auxVars
    <2>2. pc \in {"rolledback", "dropped"} /\ todo = {} /\ running = {}
        BY <1>15 DEF RolledBackDone, DroppedDone, RoundOver
    <2> QED
        BY <2>1, <2>2
<1>16. ASSUME NEW v \in Values, BuildOk(v) \/ \E kind \in Kinds : Begin(kind, v)
       PROVE  Owed'
    <2>1. Frame /\ pc \in {"idle", "build"}
        BY <1>16, NobodyStarts DEF BuildOk, Begin, auxVars
    <2> QED
        BY <2>1
<1>17. ASSUME NEW v \in Values, ForeignStore(v) PROVE Owed'
    <2>1. store'.version = store.version + 1 /\ log' = Append(log, v)
        BY <1>17 DEF ForeignStore
    <2>2. UNCHANGED <<pc, change, txSubs, todo, running, acks, pend, faulty, shut>>
        BY <1>17 DEF ForeignStore, txVars, roundVars, subVars
    <2>3. Frame
        BY <2>1, <2>2, NobodyStarts
    <2> QED
        BY <2>2, <2>3
<1>18. CASE BeginBuild \/ \E expected \in Versions : BeginConflict(expected)
    <2>1. Frame /\ pc = "idle"
        BY <1>18, NobodyStarts DEF BeginBuild, BeginConflict, subVars, auxVars
    <2> QED
        BY <2>1
<1> QED
    BY <1>1, <1>2, <1>3, <1>4, <1>5, <1>6, <1>7, <1>8, <1>9, <1>10, <1>11, <1>12,
       <1>13, <1>14, <1>15, <1>16, <1>17, <1>18 DEF Next, RoundStep, Finish

\* Nobody keeps what it provisioned for a change that was rolled back: in both
\* strategies, whatever fails, crashes or is dropped, between operations an
\* unanswered prepare is the prepare of a change that was stored.
THEOREM NobodyStranded == Spec => []NoStrandedPrepare
<1>1. Init => Recorded /\ Covered /\ Owed
    <2>1. Init => Recorded
        BY DEF Init, Recorded
    <2>2. Init => Covered
        BY DEF Init, Covered
    <2>3. Init => Owed
        BY DEF Init, Owed, Waiting
    <2> QED
        BY <2>1, <2>2, <2>3
<1>2. Owed => NoStrandedPrepare
    BY DEF Owed, Waiting, Stored, NoStrandedPrepare
<1> QED
    BY <1>1, <1>2, TypeInit, TypeNext, RecordedNext, CoveredNext, OwedNext, PTL
    DEF Spec
=============================================================================
