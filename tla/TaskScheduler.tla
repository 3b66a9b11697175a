---------------------------- MODULE TaskScheduler ----------------------------
(***************************************************************************)
(* The task scheduler of backend/tauri/src/core/tasks: one registered job   *)
(* (jobs/mod.rs registers only the hourly events rotation) whose runs may    *)
(* overlap, the task list's state field, and the events the runs leave in    *)
(* the database.  A run is the wrap_job! macro cut where it releases a lock: *)
(* the list and the database are locked separately, and once per call.       *)
(*                                                                          *)
(* The state of the task is the id of the event it is Running, or NoEvent.   *)
(* The shortened list of ids that remove_event writes under the key of an    *)
(* event id is read by nobody, so it is no variable here.                    *)
(***************************************************************************)
EXTENDS Naturals, Sequences, FiniteSets, SequencesExt

CONSTANTS TsSlots,    \* the runs the timer lets overlap (maximum_parallel_runnable_num)
          TsKeep,     \* events a rotation keeps (10 in the code)
          TsMaxIds,   \* bound: event ids handed out
          TsMaxList   \* bound: length of the task's list of event ids

VARIABLES tsState,   \* TaskState of the task in the manager's list
          tsRun,     \* slot -> the run in it: where it is and its event id
          tsEvents,  \* the ids stored under task:event:id:*, oldest update first
          tsIds,     \* the ids stored under task:events:task_id:1
          tsGen,     \* the id a copy of this session's generator yields first
          tsLast     \* the highest id handed out

tsVars == <<tsState, tsRun, tsEvents, tsIds, tsGen, tsLast>>

NoEvent == 0
TsFree == [pc |-> "free", id |-> NoEvent]
TsPcs == {"free", "add", "dispatch", "execute", "check", "idle", "finish"}

TsTypeOK ==
  /\ tsState \in 0..TsMaxIds
  /\ tsRun \in [TsSlots -> [pc : TsPcs, id : 0..TsMaxIds]]
  /\ tsEvents \in Seq(1..TsMaxIds) /\ IsInjective(tsEvents)
  /\ tsIds \in Seq(1..TsMaxIds) /\ Len(tsIds) <= TsMaxList
  /\ tsGen \in 1..TsMaxIds /\ tsLast \in tsGen..TsMaxIds

\* TaskManager::new, setup and add_task of the rotation job on an empty database.
TsInit ==
  /\ tsState = NoEvent
  /\ tsRun = [r \in TsSlots |-> TsFree]
  /\ tsEvents = <<>>
  /\ tsIds = <<>>
  /\ tsGen = 1 /\ tsLast = 1

-----------------------------------------------------------------------------
(* Database operations *)

\* update_event: the event is stored (again), as the most recently updated.
Touch(id) == tsEvents' = Append(SelectSeq(tsEvents, LAMBDA e : e # id), id)

\* Every listed id whose event is stored, counted with its repetitions, that
\* sorts at or before the last copy of e when sorted by updated_at descending.
TsRank(e) ==
  Cardinality({k \in DOMAIN tsIds :
                 /\ Contains(tsEvents, tsIds[k])
                 /\ IndexFirstSubSeq(<<e>>, tsEvents)
                      <= IndexFirstSubSeq(<<tsIds[k]>>, tsEvents)})

\* EventsRotateJob::execute, under the storage lock: the events of the listed
\* ids beyond the TsKeep newest are removed.
TsRotate ==
  tsEvents' = SelectSeq(tsEvents, LAMBDA e : ~(Contains(tsIds, e) /\ TsRank(e) > TsKeep))

\* remove_event rewrites the list of ids under task:events:task_id:{event_id},
\* so the list of the task keeps its removed ids.
TsShorten == UNCHANGED tsIds

-----------------------------------------------------------------------------
(* One run of the job *)

Move(r, pc) == tsRun' = [tsRun EXCEPT ![r].pc = pc]

\* The timer starts a run.  Every run copies the manager's generator before it
\* calls generate: the id is the session's, or a later one when the clock part
\* of the copy moved.
TsStart(r) ==
  /\ tsRun[r] = TsFree
  /\ \E id \in {tsGen, tsLast + 1} \cap 1..TsMaxIds :
       /\ tsRun' = [tsRun EXCEPT ![r] = [pc |-> "add", id |-> id]]
       /\ tsState' = id
       /\ tsLast' = IF id > tsLast THEN id ELSE tsLast
  /\ UNCHANGED <<tsEvents, tsIds, tsGen>>

\* TaskEvents::new_event: add_event and, in a second transaction, Pending.
TsAdd(r) ==
  /\ tsRun[r].pc = "add" /\ Len(tsIds) < TsMaxList
  /\ tsIds' = Append(tsIds, tsRun[r].id)
  /\ Touch(tsRun[r].id)
  /\ Move(r, "dispatch")
  /\ UNCHANGED <<tsState, tsGen, tsLast>>

\* dispatch(Running): update_event stores the event whatever happened to it.
TsDispatch(r) ==
  /\ tsRun[r].pc = "dispatch"
  /\ Touch(tsRun[r].id)
  /\ Move(r, "execute")
  /\ UNCHANGED <<tsState, tsIds, tsGen, tsLast>>

TsExecute(r) ==
  /\ tsRun[r].pc = "execute"
  /\ TsRotate
  /\ TsShorten
  /\ Move(r, "check")
  /\ UNCHANGED <<tsState, tsGen, tsLast>>

\* get_task_state: only the run the task shows as its latest goes on to reset it.
TsCheck(r) ==
  /\ tsRun[r].pc = "check"
  /\ Move(r, IF tsState = tsRun[r].id THEN "idle" ELSE "finish")
  /\ UNCHANGED <<tsState, tsEvents, tsIds, tsGen, tsLast>>

\* set_task_state(Idle): takes the lock again and resets whatever it finds.
TsIdle(r) ==
  /\ tsRun[r].pc = "idle"
  /\ tsState' = NoEvent
  /\ Move(r, "finish")
  /\ UNCHANGED <<tsEvents, tsIds, tsGen, tsLast>>

\* dispatch(Finished).
TsFinish(r) ==
  /\ tsRun[r].pc = "finish"
  /\ Touch(tsRun[r].id)
  /\ tsRun' = [tsRun EXCEPT ![r] = TsFree]
  /\ UNCHANGED <<tsState, tsIds, tsGen, tsLast>>

\* A failed database write of add_event or dispatch is unwrapped: the run is gone.
TsPanic(r) ==
  /\ tsRun[r].pc \in {"add", "dispatch", "finish"}
  /\ tsRun' = [tsRun EXCEPT ![r] = TsFree]
  /\ UNCHANGED <<tsState, tsEvents, tsIds, tsGen, tsLast>>

\* The application ends and starts again: the list and the generator are new,
\* the database is what it was.
TsRestart ==
  /\ tsLast < TsMaxIds
  /\ tsState' = NoEvent
  /\ tsRun' = [r \in TsSlots |-> TsFree]
  /\ tsGen' = tsLast + 1 /\ tsLast' = tsLast + 1
  /\ UNCHANGED <<tsEvents, tsIds>>

TsNext ==
  \/ \E r \in TsSlots :
       \/ TsStart(r) \/ TsAdd(r) \/ TsDispatch(r) \/ TsExecute(r)
       \/ TsCheck(r) \/ TsIdle(r) \/ TsFinish(r) \/ TsPanic(r)
  \/ TsRestart

TsSpec == TsInit /\ [][TsNext]_tsVars

-----------------------------------------------------------------------------
(* Properties *)

\* Every event id in a task's list has its event in the database, as get_events
\* takes for granted when it unwraps the lookup (storage.rs).
TsListed == \A k \in DOMAIN tsIds : Contains(tsEvents, tsIds[k])
=============================================================================
