-------------------------- MODULE StateCoordinator --------------------------
(***************************************************************************)
(* The two-phase state transaction of backend/nyanpasu-core/src/state:     *)
(* StateCoordinator (coordinator.rs), StateTransaction and RollbackGuard   *)
(* (transaction.rs), NotifyExecutor (transaction/notify.rs).               *)
(*                                                                         *)
(* A writer takes the single permit, asks every subscriber to prepare,     *)
(* optionally runs an external effect, swaps the store by compare-and-swap *)
(* and then tells the subscribers the outcome. Subscribers may fail, time  *)
(* out, panic or shut down; the caller may drop (cancel) the operation at  *)
(* any await, in which case the armed RollbackGuard reports a rollback.    *)
(*                                                                         *)
(* Abstractions. AckStatus keeps three classes: "ok" (Acked, Degraded),    *)
(* "fail" (Rejected, Failed, TimedOut) and "skipped" (SkippedShutdown).    *)
(* The address of the stored Arc, which the compare-and-swap compares, is  *)
(* represented by the version: every store installs a fresh one. In the    *)
(* Sequential strategy subscribers are visited in any order; the code      *)
(* visits them in registration order, which no property depends on.        *)
(***************************************************************************)
EXTENDS Integers, Sequences, FiniteSets

CONSTANTS
    Subs,         \* subscriber names
    Required,     \* those whose AckPolicy is Required; the others are Advisory
    Strategy,     \* NotifyStrategy: "Parallel" or "Sequential"
    Values,       \* states
    Kinds,        \* which write operations callers use, besides upsert
    MaxVersion,   \* bound on the versions a run reaches
    MaxCancels,   \* bound on the operations the caller drops
    MaxForeign    \* bound on stores made behind the coordinator's back

ASSUME RequiredAssumption == Required \subseteq Subs
ASSUME StrategyAssumption == Strategy \in {"Parallel", "Sequential"}
ASSUME KindsAssumption ==
    Kinds \subseteq {"upsert_state", "effect", "effect_timeout", "if_version"}
ASSUME BoundAssumption ==
    MaxVersion \in Nat /\ MaxCancels \in Nat /\ MaxForeign \in Nat

VARIABLES
    store,        \* current_state: [version, state]
    nextId,       \* next_change_id
    registered,   \* the names in `subscribers`
    permit,       \* permits left in the semaphore: 1 or 0
    pc,           \* where the operation in progress is
    op,           \* which operation it is
    change,       \* its StateChange: [id, prev, value]; prev = -1 for None
    txSubs,       \* StateTransaction.subscribers
    guard,        \* RollbackGuard: "armed" when it holds data
    guardSubs,    \* the subscribers in that data
    reason,       \* RollbackReason of an explicit rollback
    todo,         \* subscribers the current notification round has not reached
    running,      \* subscribers whose callback is executing
    acks,         \* acks collected by the prepare round
    crashed,      \* subscribers whose prepare task ended in a join failure
    shut,         \* subscribers whose is_shutdown() is true
    pend,         \* pend[s]: the change s prepared for and was not told about
    known,        \* known[s]: version of the last on_committed s completed
    toldCommit,   \* subscribers told that the current change was committed
    toldRollback, \* subscribers told that it was rolled back
    faulty,       \* subscribers that lost or misordered a callback themselves
    late,         \* aborted callback tasks that may still finish their poll
    log,          \* history: the values stored, by version
    cancels,      \* number of operations dropped so far
    foreign       \* number of foreign stores so far

coordVars == <<store, nextId, registered, permit>>
txVars    == <<pc, op, change, txSubs, guard, guardSubs, reason>>
roundVars == <<todo, running, acks, crashed>>
subVars   == <<shut, pend, known, toldCommit, toldRollback, faulty, late>>
auxVars   == <<log, cancels, foreign>>
vars      == <<coordVars, txVars, roundVars, subVars, auxVars>>

Ops        == {"none", "init", "upsert", "upsert_state", "effect",
               "effect_timeout", "if_version"}
Effectful  == {"effect", "effect_timeout", "if_version"}
Rounds     == {"prepare", "committed", "rolledback", "dropped"}
Phases     == Rounds \cup {"idle", "build", "effect", "commit", "recover"}
Versions   == 0 .. MaxVersion
Change     == [id : Versions, prev : -1 .. MaxVersion, value : Values]
NoChange   == [id |-> -1, prev |-> -1, value |-> "none"]
Callback   == {"on_prepare", "on_committed", "on_rolled_back"}

CoordTypeOK ==
    /\ store \in [version : Versions, state : Values]
    /\ nextId \in 0 .. (MaxVersion + 1)
    /\ registered \subseteq Subs
    /\ permit \in {0, 1}

TxTypeOK ==
    /\ pc \in Phases
    /\ op \in Ops
    /\ change \in Change \cup {NoChange}
    /\ txSubs \subseteq Subs
    /\ guard \in {"armed", "disarmed"}
    /\ guardSubs \subseteq Subs
    /\ reason \in {"none", "SubscriberFailed", "CoordinatorError", "CasMismatch"}

RoundTypeOK ==
    /\ todo \subseteq Subs
    /\ running \subseteq Subs
    /\ acks \in [Subs -> {"none", "ok", "fail", "skipped"}]
    /\ crashed \subseteq Subs

SubTypeOK ==
    /\ shut \subseteq Subs
    /\ pend \in [Subs -> Change \cup {NoChange}]
    /\ known \in [Subs -> -1 .. MaxVersion]
    /\ toldCommit \subseteq Subs
    /\ toldRollback \subseteq Subs
    /\ faulty \subseteq Subs
    /\ late \subseteq (Subs \X Callback \X Change)

AuxTypeOK ==
    /\ log \in Seq(Values)
    /\ cancels \in 0 .. MaxCancels
    /\ foreign \in 0 .. MaxForeign

\* Every variable has its type; in particular the semaphore never holds more
\* than its one permit.
TypeOK == CoordTypeOK /\ TxTypeOK /\ RoundTypeOK /\ SubTypeOK /\ AuxTypeOK

-----------------------------------------------------------------------------
(* Construction.                                                           *)

\* StateCoordinatorBuilder::build stores the initial state without telling
\* anybody; build_initialized runs a transaction for version 0 first.
Init ==
    /\ \E v \in Values :
           /\ store = [version |-> 0, state |-> v]
           /\ log = <<v>>
           /\ \/ /\ pc = "idle" /\ op = "none" /\ change = NoChange
                 /\ permit = 1 /\ guard = "disarmed"
              \/ /\ pc = "prepare" /\ op = "init"
                 /\ change = [id |-> 0, prev |-> -1, value |-> v]
                 /\ permit = 0 /\ guard = "armed"
    /\ registered \in SUBSET Subs
    /\ txSubs = IF pc = "idle" THEN {} ELSE registered
    /\ guardSubs = txSubs
    /\ todo = txSubs
    /\ nextId = 1
    /\ reason = "none"
    /\ running = {}
    /\ acks = [s \in Subs |-> "none"]
    /\ crashed = {}
    /\ shut = {}
    /\ pend = [s \in Subs |-> NoChange]
    /\ known = [s \in Subs |-> -1]
    /\ toldCommit = {}
    /\ toldRollback = {}
    /\ faulty = {}
    /\ late = {}
    /\ cancels = 0
    /\ foreign = 0

-----------------------------------------------------------------------------
(* Building blocks of a transaction.                                       *)

\* (Mutant) the guard is left armed.
DisarmForgotten == UNCHANGED <<guard, guardSubs>>

\* RollbackGuard::disarm.
Disarm ==
    /\ guard' = "disarmed"
    /\ guardSubs' = {}

\* RollbackGuard::update_subscribers.
UpdateGuard(subs) ==
    /\ guard' = guard
    /\ guardSubs' = subs

\* (Mutants) the permit is not given back; it is given back twice.
ReleasePermitForgotten == UNCHANGED permit
ReleasePermitTwice == permit' = permit + 1

\* `drop(self.permit.take())`, and the drop of a transaction's permit field.
ReleasePermit == permit' = 1

\* Begin notifying `subs`: nobody has been reached yet.
StartRound(subs) ==
    /\ todo' = subs
    /\ running' = {}

\* The operation returns or is gone: its transaction and report are dropped.
EndOperation ==
    /\ pc' = "idle"
    /\ op' = "none"
    /\ change' = NoChange
    /\ txSubs' = {}
    /\ reason' = "none"
    /\ StartRound({})
    /\ acks' = [s \in Subs |-> "none"]
    /\ crashed' = {}
    /\ toldCommit' = {}
    /\ toldRollback' = {}

\* (Mutant) the id kept from the last operation is trusted.
PendingChangeIdStale == nextId

\* pending_change_id: always the store's version plus one, whatever a
\* dropped operation left in next_change_id.
PendingChangeId == store.version + 1

\* (Mutant) the id is computed but not kept.
SyncNextIdForgotten == UNCHANGED nextId

\* pending_change_id and sync_change_id_after_cas_mismatch keep that id.
SyncNextId == nextId' = PendingChangeId

\* Entering StateTransaction::prepare with a fresh change: the guard is armed
\* for every subscriber before the first callback runs.
EnterPrepare(v, subs) ==
    /\ SyncNextId
    /\ change' = [id |-> PendingChangeId, prev |-> store.version, value |-> v]
    /\ guard' = "armed"
    /\ guardSubs' = subs
    /\ txSubs' = subs
    /\ StartRound(subs)
    /\ acks' = [s \in Subs |-> "none"]
    /\ crashed' = {}
    /\ toldCommit' = {}
    /\ toldRollback' = {}
    /\ pc' = "prepare"

\* StateTransaction::_rollback: the permit is released before the
\* notifications; the guard stays armed until they are done.
EnterRollback(why, subs) ==
    /\ ReleasePermit
    /\ reason' = why
    /\ StartRound(subs)
    /\ pc' = "rolledback"

\* (Mutant) refusals are only logged.
RequiredFailureIgnored == crashed # {}

\* SubscriberAck::is_required_failure over the acks so far. A crashed
\* prepare task is reported as a failed Required ack of its own.
RequiredFailure ==
    \/ \E s \in Required : acks[s] = "fail"
    \/ crashed # {}

\* Which subscriber the executor may call next: all of them at once in the
\* Parallel strategy; one at a time in the Sequential one, which stops after
\* the first required failure of a prepare round.
CanStart(s) ==
    /\ s \in todo
    /\ \/ Strategy = "Parallel"
       \/ /\ running = {}
          /\ ~ (pc = "prepare" /\ RequiredFailure)

\* notify_all returns.
RoundOver ==
    /\ running = {}
    /\ \/ todo = {}
       \/ Strategy = "Sequential" /\ pc = "prepare" /\ RequiredFailure

-----------------------------------------------------------------------------
(* The operations of StateCoordinator (all take &mut self).                *)

\* add_subscriber; replacing one of the same name keeps the set of names.
AddSubscriber(s) ==
    /\ pc = "idle"
    /\ s \notin registered
    /\ registered' = registered \cup {s}
    /\ UNCHANGED <<store, nextId, permit, txVars, roundVars, subVars, auxVars>>

RemoveSubscriber(s) ==
    /\ pc = "idle"
    /\ s \in registered
    /\ registered' = registered \ {s}
    /\ UNCHANGED <<store, nextId, permit, txVars, roundVars, subVars, auxVars>>

\* upsert(builder): the permit is held and the subscribers are cloned while
\* the builder runs.
BeginBuild ==
    /\ pc = "idle"
    /\ permit = 1
    /\ store.version < MaxVersion
    /\ permit' = 0
    /\ op' = "upsert"
    /\ txSubs' = registered
    /\ pc' = "build"
    /\ UNCHANGED <<store, nextId, registered, change, guard, guardSubs, reason,
                   roundVars, subVars, auxVars>>

\* builder.build() returned a state: the change id is taken only now.
BuildOk(v) ==
    /\ pc = "build"
    /\ store.version < MaxVersion
    /\ EnterPrepare(v, txSubs)
    /\ UNCHANGED <<store, registered, permit, op, reason, shut, pend, known,
                   faulty, late, auxVars>>

\* builder.build() failed: StateChangedError::Validation.
BuildFail ==
    /\ pc = "build"
    /\ ReleasePermit
    /\ EndOperation
    /\ UNCHANGED <<store, nextId, registered, guard, guardSubs, shut, pend,
                   known, faulty, late, auxVars>>

\* upsert_state, with_pending_state, with_pending_state_timeout, and
\* with_pending_state_if_version when the expected version matches.
Begin(kind, v) ==
    /\ pc = "idle"
    /\ permit = 1
    /\ store.version < MaxVersion
    /\ permit' = 0
    /\ op' = kind
    /\ EnterPrepare(v, registered)
    /\ UNCHANGED <<store, registered, reason, shut, pend, known, faulty, late,
                   auxVars>>

\* with_pending_state_if_version whose expected version is stale: Conflict is
\* returned before anybody is notified; only next_change_id was refreshed.
BeginConflict(expected) ==
    /\ pc = "idle"
    /\ permit = 1
    /\ expected # store.version
    /\ SyncNextId
    /\ UNCHANGED <<store, registered, permit, txVars, roundVars, subVars, auxVars>>

\* Both strategies: prepare() after the round. Subscribers that were shut
\* down leave the transaction; a required failure rolls back, and in the
\* Sequential strategy only those who were asked hear of it.
PrepareAudience == {s \in txSubs : acks[s] # "skipped"}

\* (Mutant) only those who agreed hear of the rollback.
RollbackAudienceAgreed == {s \in PrepareAudience : acks[s] = "ok"}

RollbackAudience ==
    IF Strategy = "Sequential"
    THEN {s \in PrepareAudience : acks[s] # "none"}
    ELSE PrepareAudience

PrepareRejected ==
    /\ pc = "prepare"
    /\ RoundOver
    /\ RequiredFailure
    /\ txSubs' = RollbackAudience
    /\ UpdateGuard(RollbackAudience)
    /\ EnterRollback("SubscriberFailed", RollbackAudience)
    /\ UNCHANGED <<store, nextId, registered, op, change, acks, crashed,
                   subVars, auxVars>>

PrepareAccepted ==
    /\ pc = "prepare"
    /\ RoundOver
    /\ ~ RequiredFailure
    /\ txSubs' = PrepareAudience
    /\ UpdateGuard(PrepareAudience)
    /\ pc' = IF op \in Effectful THEN "effect" ELSE "commit"
    /\ UNCHANGED <<store, nextId, registered, permit, op, change, reason,
                   roundVars, subVars, auxVars>>

\* effect_fn completed.
EffectOk ==
    /\ pc = "effect"
    /\ pc' = "commit"
    /\ UNCHANGED <<coordVars, op, change, txSubs, guard, guardSubs, reason,
                   roundVars, subVars, auxVars>>

\* effect_fn returned an error, or its timeout elapsed.
EffectFail ==
    /\ pc = "effect"
    /\ EnterRollback("CoordinatorError", txSubs)
    /\ UNCHANGED <<store, nextId, registered, op, change, txSubs, guard,
                   guardSubs, acks, crashed, subVars, auxVars>>

\* try_commit's compare_and_swap: the previous Arc must still be installed;
\* the initial transaction has no previous state and stores unconditionally.
CasMatches == change.prev \in {-1, store.version}

\* try_commit succeeded: store, then disarm, then release the permit, with no
\* await in between.
CommitOk ==
    /\ pc = "commit"
    /\ CasMatches
    /\ store' = [version |-> change.id, state |-> change.value]
    /\ log' = IF op = "init" THEN log ELSE Append(log, change.value)
    /\ Disarm
    /\ ReleasePermit
    /\ StartRound(txSubs)
    /\ pc' = "committed"
    /\ UNCHANGED <<nextId, registered, op, change, txSubs, reason, acks,
                   crashed, subVars, cancels, foreign>>

\* The swap failed: with_pending_state_if_version resynchronises the id and
\* runs its recovery function before it notifies; the others roll back now.
CommitMismatch ==
    /\ pc = "commit"
    /\ ~ CasMatches
    /\ IF op = "if_version"
       THEN /\ SyncNextId
            /\ pc' = "recover"
            /\ UNCHANGED <<permit, reason, todo, running>>
       ELSE /\ EnterRollback("CasMismatch", txSubs)
            /\ UNCHANGED nextId
    /\ UNCHANGED <<store, registered, op, change, txSubs, guard, guardSubs,
                   acks, crashed, subVars, auxVars>>

RecoveryDone ==
    /\ pc = "recover"
    /\ EnterRollback("CasMismatch", txSubs)
    /\ UNCHANGED <<store, nextId, registered, op, change, txSubs, guard,
                   guardSubs, acks, crashed, subVars, auxVars>>

\* notify_committed is over: mark_change_id_committed (build_initialized does
\* not call it: its coordinator already points past version 0).
CommittedDone ==
    /\ pc = "committed"
    /\ RoundOver
    /\ nextId' = IF op = "init" THEN nextId ELSE change.id + 1
    /\ EndOperation
    /\ UNCHANGED <<store, registered, permit, guard, guardSubs, shut, pend,
                   known, faulty, late, auxVars>>

\* _rollback is over: the guard is disarmed, and after a failed swap the id
\* is resynchronised (sync_change_id_after_cas_mismatch).
RolledBackDone ==
    /\ pc = "rolledback"
    /\ RoundOver
    /\ Disarm
    /\ IF reason = "CasMismatch" /\ op # "if_version"
       THEN SyncNextId ELSE UNCHANGED nextId
    /\ EndOperation
    /\ UNCHANGED <<store, registered, permit, shut, pend, known, faulty, late,
                   auxVars>>

-----------------------------------------------------------------------------
(* Dropping the operation's future.                                        *)

\* Dropping a JoinSet aborts its tasks, but one that is being polled on
\* another thread runs on to its next await; a Sequential callback is part of
\* the dropped future and stops at once.
AbortRunning(cb) ==
    late' = IF Strategy = "Parallel"
            THEN late \cup {<<s, cb, change>> : s \in running}
            ELSE late

\* The operation's future is gone. An armed RollbackGuard blocks in its Drop
\* until every subscriber it covers was told of a rollback; a transaction's
\* fields drop in order, so a permit it still holds is released only after
\* that. A disarmed guard does nothing and the permit goes at once.
DropOperation ==
    /\ IF guard = "armed"
       THEN /\ StartRound(guardSubs)
            /\ pc' = "dropped"
            /\ UNCHANGED <<permit, op, change, txSubs, reason, acks, crashed,
                           toldCommit, toldRollback>>
       ELSE /\ ReleasePermit
            /\ EndOperation
    /\ UNCHANGED <<store, nextId, registered, guard, guardSubs>>

\* The caller drops the future at one of its awaits. Dropping
\* build_initialized is left out: it drops the coordinator as well.
Cancel ==
    /\ cancels < MaxCancels
    /\ op # "init"
    /\ pc \in {"build", "prepare", "effect", "recover", "committed", "rolledback"}
    /\ cancels' = cancels + 1
    /\ AbortRunning(CASE pc = "prepare" -> "on_prepare"
                      [] pc = "committed" -> "on_committed"
                      [] OTHER -> "on_rolled_back")
    /\ DropOperation
    /\ UNCHANGED <<shut, pend, known, faulty, log, foreign>>

\* A panic in a Sequential callback unwinds through the operation and drops
\* it the same way. (The guard's own round is Drop code: a panic there while
\* unwinding aborts the process and is not modelled.)
SequentialPanic(s) ==
    /\ Strategy = "Sequential"
    /\ op # "init"
    /\ pc \in {"prepare", "committed", "rolledback"}
    /\ s \in running
    /\ faulty' = faulty \cup {s}
    /\ DropOperation
    /\ UNCHANGED <<shut, pend, known, late, auxVars>>

DroppedDone ==
    /\ pc = "dropped"
    /\ RoundOver
    /\ Disarm
    /\ ReleasePermit
    /\ EndOperation
    /\ UNCHANGED <<store, nextId, registered, shut, pend, known, faulty, late,
                   auxVars>>

-----------------------------------------------------------------------------
(* One subscriber's callback: NotifyExecutor::notify_one.                  *)

\* notify_one begins: a subscriber that was shut down is skipped.
StartCallback(s) ==
    /\ pc \in Rounds
    /\ CanStart(s)
    /\ todo' = todo \ {s}
    /\ IF s \in shut
       THEN /\ acks' = IF pc = "prepare" THEN [acks EXCEPT ![s] = "skipped"]
                       ELSE acks
            /\ UNCHANGED running
       ELSE /\ running' = running \cup {s}
            /\ UNCHANGED acks
    /\ UNCHANGED <<coordVars, txVars, crashed, subVars, auxVars>>

\* on_prepare answered or timed out. A subscriber that did not answer "ok"
\* may or may not have provisioned something for the change.
FinishPrepare(s, status) ==
    /\ pc = "prepare"
    /\ s \in running
    /\ running' = running \ {s}
    /\ acks' = [acks EXCEPT ![s] = status]
    /\ \/ pend' = [pend EXCEPT ![s] = change]
       \/ status = "fail" /\ UNCHANGED pend
    /\ UNCHANGED <<coordVars, txVars, todo, crashed, shut, known, toldCommit,
                   toldRollback, faulty, late, auxVars>>

\* A Parallel prepare task crashed: join_next reports a failed Required ack.
ParallelPreparePanic(s) ==
    /\ pc = "prepare"
    /\ Strategy = "Parallel"
    /\ s \in running
    /\ running' = running \ {s}
    /\ crashed' = crashed \cup {s}
    /\ \/ pend' = [pend EXCEPT ![s] = change]
       \/ UNCHANGED pend
    /\ UNCHANGED <<coordVars, txVars, todo, acks, shut, known, toldCommit,
                   toldRollback, faulty, late, auxVars>>

\* on_committed completed, or timed out or crashed in its own task (its
\* answer is only logged).
FinishCommitted(s, outcome) ==
    /\ pc = "committed"
    /\ s \in running
    /\ running' = running \ {s}
    /\ IF outcome = "delivered"
       THEN /\ pend' = [pend EXCEPT ![s] = NoChange]
            /\ known' = [known EXCEPT ![s] = change.id]
            /\ toldCommit' = toldCommit \cup {s}
            /\ UNCHANGED faulty
       ELSE /\ faulty' = faulty \cup {s}
            /\ UNCHANGED <<pend, known, toldCommit>>
    /\ UNCHANGED <<coordVars, txVars, todo, acks, crashed, shut, toldRollback,
                   late, auxVars>>

\* on_rolled_back completed, or timed out or crashed in its own task.
FinishRolledBack(s, outcome) ==
    /\ pc \in {"rolledback", "dropped"}
    /\ s \in running
    /\ running' = running \ {s}
    /\ IF outcome = "delivered"
       THEN /\ pend' = [pend EXCEPT ![s] = NoChange]
            /\ toldRollback' = toldRollback \cup {s}
            /\ UNCHANGED faulty
       ELSE /\ faulty' = faulty \cup {s}
            /\ UNCHANGED <<pend, toldRollback>>
    /\ UNCHANGED <<coordVars, txVars, todo, acks, crashed, shut, known,
                   toldCommit, late, auxVars>>

\* An aborted task finishes the poll it was in, at any later moment. Its
\* subscriber sees callbacks out of order from here on.
LateFinish(n) ==
    /\ n \in late
    /\ late' = late \ {n}
    /\ faulty' = faulty \cup {n[1]}
    /\ pend' = [pend EXCEPT ![n[1]] =
                   IF n[2] = "on_prepare" THEN n[3] ELSE NoChange]
    /\ known' = IF n[2] = "on_committed"
                THEN [known EXCEPT ![n[1]] = n[3].id] ELSE known
    /\ UNCHANGED <<coordVars, txVars, roundVars, shut, toldCommit, toldRollback,
                   auxVars>>

\* The abort took hold before the task did anything more.
LateVanish(n) ==
    /\ n \in late
    /\ late' = late \ {n}
    /\ UNCHANGED <<coordVars, txVars, roundVars, shut, pend, known, toldCommit,
                   toldRollback, faulty, auxVars>>

\* A subscriber's service shuts down, at any time and for good.
Shutdown(s) ==
    /\ s \notin shut
    /\ shut' = shut \cup {s}
    /\ UNCHANGED <<coordVars, txVars, roundVars, pend, known, toldCommit,
                   toldRollback, faulty, late, auxVars>>

\* Another holder of the store Arc replaces its content while an effect runs:
\* the case the compare-and-swap is there for.
ForeignStore(v) ==
    /\ pc = "effect"
    /\ foreign < MaxForeign
    /\ store.version < MaxVersion
    /\ foreign' = foreign + 1
    /\ store' = [version |-> store.version + 1, state |-> v]
    /\ log' = Append(log, v)
    /\ UNCHANGED <<nextId, registered, permit, txVars, roundVars, subVars, cancels>>

-----------------------------------------------------------------------------
Finish(s) ==
    \/ \E status \in {"ok", "fail"} : FinishPrepare(s, status)
    \/ ParallelPreparePanic(s)
    \/ SequentialPanic(s)
    \/ \E outcome \in {"delivered", "lost"} :
           FinishCommitted(s, outcome) \/ FinishRolledBack(s, outcome)

\* Steps the runtime takes by itself once an operation is under way: every
\* callback is bounded by its ack timeout.
RoundStep ==
    \/ \E s \in Subs : StartCallback(s) \/ Finish(s)
    \/ PrepareRejected \/ PrepareAccepted
    \/ CommitOk \/ CommitMismatch
    \/ CommittedDone \/ RolledBackDone \/ DroppedDone

\* An effect under with_pending_state_timeout is bounded as well.
TimedEffect == op = "effect_timeout" /\ (EffectOk \/ EffectFail)

Next ==
    \/ RoundStep
    \/ \E s \in Subs : AddSubscriber(s) \/ RemoveSubscriber(s) \/ Shutdown(s)
    \/ \E v \in Values : \E kind \in Kinds : Begin(kind, v)
    \/ \E expected \in Versions : BeginConflict(expected)
    \/ BeginBuild \/ BuildFail
    \/ \E v \in Values : BuildOk(v) \/ ForeignStore(v)
    \/ EffectOk \/ EffectFail \/ RecoveryDone
    \/ Cancel
    \/ \E n \in late : LateFinish(n) \/ LateVanish(n)

Fairness == WF_vars(RoundStep) /\ WF_vars(TimedEffect)

Spec == Init /\ [][Next]_vars
FairSpec == Spec /\ Fairness

-----------------------------------------------------------------------------
(* Properties.                                                             *)

\* Whatever way an operation ends (commit, rollback, failed build, conflict,
\* cancellation, panic), the writer permit is back and no guard is armed; and
\* nobody builds, prepares, runs an effect or swaps without the permit.
PermitTracksWriter ==
    /\ pc = "idle" => permit = 1 /\ guard = "disarmed"
    /\ pc \in {"build", "prepare", "effect", "commit", "recover"} => permit = 0

\* mark_change_id_committed's debug assertion: when a commit's notifications
\* are over, next_change_id is still the id of that commit, although earlier
\* operations may have been dropped before they updated it.
ChangeIdInStep == pc = "committed" /\ op # "init" => nextId = change.id

\* The subscribers of one change never hear different outcomes, even when the
\* operation is dropped between two notifications or its guard fires after
\* an explicit rollback had begun.
OutcomeAgreement == toldCommit = {} \/ toldRollback = {}

\* Between operations, a subscriber that has prepared for a change and heard
\* nothing more can only be waiting for a change that was committed (the
\* operation was dropped during notify_committed); it never keeps resources
\* for a change that was rolled back. Subscribers that shut down, or whose
\* own callback was lost, are excepted.
NoStrandedPrepare ==
    pc = "idle" =>
        \A s \in Subs \ (faulty \cup shut) :
            pend[s] # NoChange =>
                /\ pend[s].id <= store.version
                /\ log[pend[s].id + 1] = pend[s].value

\* The store is swapped only when every Required subscriber of the
\* transaction that is not shut down has answered its on_prepare.
CommitNeedsRequiredAcks ==
    [][pc = "commit" /\ pc' = "committed" =>
          \A s \in txSubs \cap Required : acks[s] = "ok"]_vars

\* The coordinator implements the commit log: versions advance one by one and
\* a subscriber is only ever told of newer versions that were really stored.
CL == INSTANCE CommitLog WITH Observers <- Subs
ImplementsCommitLog == CL!clSpec

\* with_pending_state_timeout always returns, the permit released.
TimedWritesEnd == (op = "effect_timeout" /\ pc # "idle") ~> (pc = "idle" /\ permit = 1)
=============================================================================
