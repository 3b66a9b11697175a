---------------------------- MODULE MigrationRunner ----------------------------
(***************************************************************************)
(* The migration runner and its store (core/migration): a store on disk     *)
(* says which steps of which module were started, completed or failed; the  *)
(* runner works through the modules' steps in order, marks a step before    *)
(* and after it runs, and may be killed at any point.  mgDoc says whether   *)
(* the documents a step converts are old, converted, or half converted (a   *)
(* step may rewrite several files).  Modules are numbered in registry       *)
(* order; the steps of a module by revision.  Versions are numbers.         *)
(***************************************************************************)
EXTENDS Naturals, Sequences, FiniteSets

CONSTANTS MgSteps,      \* how many steps each module has
          MgIntroduced, \* introduced_in of each module's steps
          MgTargets     \* versions a run may be for

ASSUME MgAssumption ==
  /\ MgSteps \in Seq(Nat \ {0}) /\ MgTargets \subseteq Nat \ {0} /\ MgTargets # {}
  /\ Len(MgIntroduced) = Len(MgSteps)
  /\ \A m \in 1..Len(MgSteps) : MgIntroduced[m] \in [1..MgSteps[m] -> Nat]

MgModules == 1..Len(MgSteps)
Revisions(m) == 1..MgSteps[m]
MgStep == UNION {{m} \X Revisions(m) : m \in MgModules}

VARIABLES mgDoc,   \* the documents of each step: "old", "new" or "half"
          mgDisk,  \* migration-state.yaml
          mgStore, \* the runner's MigrationStore
          mgRun    \* the process: where it is and its options

mgVars == <<mgDoc, mgDisk, mgStore, mgRun>>

\* A store: per module whether it is known, its baseline and applied revision;
\* per step its task record.  The last version that succeeded is recorded and
\* never read, so it is left out.
TaskStates == {"none", "InProgress", "Completed", "Failed"}
Stores == [base : [MgModules -> Nat], applied : [MgModules -> Nat],
           known : SUBSET MgModules, task : [MgStep -> TaskStates]]
EmptyStore == [base |-> [m \in MgModules |-> 0], applied |-> [m \in MgModules |-> 0],
               known |-> {}, task |-> [s \in MgStep |-> "none"]]

NoStep == <<0, 0>>
Down == [pc |-> "down", force |-> FALSE, target |-> 0, only |-> NoStep, at |-> <<1, 1>>, failed |-> FALSE]

MgTypeOK ==
  /\ mgDoc \in [MgStep -> {"old", "new", "half"}]
  /\ \A s \in {mgDisk, mgStore} :
       /\ s \in Stores
       /\ \A m \in MgModules : s.base[m] <= s.applied[m] /\ s.applied[m] <= MgSteps[m]
  /\ mgRun \in [pc : {"down", "loop", "run", "ran", "undo"}, force : BOOLEAN,
                target : MgTargets \cup {0}, only : MgStep \cup {NoStep},
                at : Nat \X Nat, failed : BOOLEAN]

\* Either every step of a module has already been applied to the documents that
\* exist, or none is known to have been.
MgInit ==
  /\ mgDoc \in {[s \in MgStep |-> IF s[1] \in clean THEN "new" ELSE "old"] : clean \in SUBSET MgModules}
  /\ mgDisk = EmptyStore /\ mgStore = EmptyStore /\ mgRun = Down
-------------------------------------------------------------------------------
\* detect_baseline: the current revision if nothing is left to convert, else 0.
DetectBaseline(m) ==
  IF \A r \in Revisions(m) : mgDoc[<<m, r>>] = "new" THEN MgSteps[m] ELSE 0

\* ensure_module for every module the store does not know.
EnsureBaselines(s) ==
  LET base == [m \in MgModules |-> IF m \in s.known THEN s.base[m] ELSE DetectBaseline(m)]
  IN  [s EXCEPT !.base = base, !.known = MgModules,
                !.applied = [m \in MgModules |-> IF m \in s.known THEN s.applied[m] ELSE base[m]]]

IntroducedInReached(step, target) == MgIntroduced[step[1]][step[2]] <= target

\* advice_step: the step's own record first, then the module's revision.
Advice(s, force, target, step) ==
  IF force THEN "Pending"
  ELSE IF s.task[step] = "Completed" THEN "Done"
  ELSE IF s.task[step] # "none" THEN "Pending"
  ELSE IF step[2] > s.applied[step[1]] /\ IntroducedInReached(step, target)
  THEN "Pending" ELSE "Ignored"

MarkInProgress(s, step) == [s EXCEPT !.task[step] = "InProgress"]
MarkCompleted(s, step) == [s EXCEPT !.task[step] = "Completed"]
MarkFailed(s, step) == [s EXCEPT !.task[step] = "Failed"]

\* bump_module: the highest revision up to which every step is completed.
BumpModule(s, m) ==
  LET whole == {n \in s.base[m]..MgSteps[m] :
                  \A r \in (s.base[m] + 1)..n : s.task[<<m, r>>] = "Completed"}
  IN  [s EXCEPT !.applied[m] = CHOOSE n \in whole : \A k \in whole : k <= n]

\* flush_atomic: the whole store replaces the file, or an error leaves it.
Flush(ok, s) == mgDisk' = IF ok THEN s ELSE mgDisk
-------------------------------------------------------------------------------
(* A process: the migrate command, the child the app starts, or the app's    *)
(* own runner.  with_context loads the store and records the baselines.      *)
MgLaunch(force, target, only) ==
  /\ mgRun = Down
  /\ LET s == EnsureBaselines(mgDisk)
     IN  \/ /\ mgStore' = s
            /\ Flush(TRUE, s)
            /\ mgRun' = [Down EXCEPT !.pc = "loop", !.force = force, !.target = target,
                                     !.only = only,
                                     !.at = IF only = NoStep THEN <<1, 1>> ELSE only]
            /\ UNCHANGED mgDoc
         \/ s # mgDisk /\ UNCHANGED mgVars   \* the flush failed: no runner

At == mgRun.at
Past == IF mgRun.only # NoStep THEN At # mgRun.only ELSE At[1] > Len(MgSteps)

\* The position after a step: the next of its module, or the next module.
NextModule(at) == <<at[1] + 1, 1>>
After(at) == IF at[2] < MgSteps[at[1]] THEN <<at[1], at[2] + 1>> ELSE NextModule(at)

MgSkip ==
  /\ mgRun.pc = "loop" /\ ~Past
  /\ Advice(mgStore, mgRun.force, mgRun.target, At) # "Pending"
  /\ mgRun' = [mgRun EXCEPT !.at = After(At)]
  /\ UNCHANGED <<mgDoc, mgDisk, mgStore>>

\* An error of run_step ends its module; run_pending goes on with the next one.
StopModule == mgRun' = [mgRun EXCEPT !.pc = "loop", !.at = NextModule(At), !.failed = TRUE]

\* Mutant: the mark is not written before the step runs.
MutMgMark ==
  /\ mgRun.pc = "loop" /\ ~Past
  /\ Advice(mgStore, mgRun.force, mgRun.target, At) = "Pending"
  /\ mgStore' = MarkInProgress(mgStore, At)
  /\ mgRun' = [mgRun EXCEPT !.pc = "run"]
  /\ UNCHANGED <<mgDoc, mgDisk>>

\* run_step: mark the step in progress, on disk, before it touches a document.
MgMark ==
  /\ mgRun.pc = "loop" /\ ~Past
  /\ Advice(mgStore, mgRun.force, mgRun.target, At) = "Pending"
  /\ mgStore' = MarkInProgress(mgStore, At)
  /\ \E ok \in BOOLEAN :
       /\ Flush(ok, mgStore')
       /\ IF ok THEN mgRun' = [mgRun EXCEPT !.pc = "run"] ELSE StopModule
  /\ UNCHANGED mgDoc

\* step.run: every step recognises documents that are already converted.
MgRunStep ==
  /\ mgRun.pc = "run"
  /\ \/ /\ mgDoc' = [mgDoc EXCEPT ![At] = "new"]
        /\ mgRun' = [mgRun EXCEPT !.pc = "ran"]
     \/ /\ mgDoc' \in {mgDoc, [mgDoc EXCEPT ![At] = "half"]}
        /\ mgRun' = [mgRun EXCEPT !.pc = "undo"]
  /\ UNCHANGED <<mgDisk, mgStore>>

MgComplete ==
  /\ mgRun.pc = "ran"
  /\ mgStore' = BumpModule(MarkCompleted(mgStore, At), At[1])
  /\ \E ok \in BOOLEAN :
       /\ Flush(ok, mgStore')
       /\ IF ok THEN mgRun' = [mgRun EXCEPT !.pc = "loop", !.at = After(At)] ELSE StopModule
  /\ UNCHANGED mgDoc

\* rollback puts the old documents back, does nothing, or fails; then the mark.
MgFail ==
  /\ mgRun.pc = "undo"
  /\ mgDoc' \in {mgDoc, [mgDoc EXCEPT ![At] = "old"]}
  /\ mgStore' = MarkFailed(mgStore, At)
  /\ \E ok \in BOOLEAN : Flush(ok, mgStore')
  /\ StopModule

MgFinish ==
  /\ mgRun.pc = "loop" /\ Past
  /\ mgRun' = Down /\ mgStore' = EmptyStore
  /\ IF mgRun.failed \/ mgRun.only # NoStep
     THEN UNCHANGED mgDisk
     ELSE \E ok \in BOOLEAN : Flush(ok, mgStore)
  /\ UNCHANGED mgDoc

\* The process is killed: only what is on disk is left.
MgCrash ==
  /\ mgRun.pc # "down"
  /\ mgRun' = Down /\ mgStore' = EmptyStore
  /\ UNCHANGED <<mgDoc, mgDisk>>

MgNext ==
  \/ \E force \in BOOLEAN, target \in MgTargets, only \in MgStep \cup {NoStep} :
        MgLaunch(force, target, only)
  \/ MgSkip \/ MgMark \/ MgRunStep \/ MgComplete \/ MgFail \/ MgFinish \/ MgCrash

MgSpec == MgInit /\ [][MgNext]_mgVars
-------------------------------------------------------------------------------
(* Whatever was killed, failed or forced again: a step that the store on disk *)
(* tells the next start not to run (completed, or covered by the module's     *)
(* revision) has all of its documents converted.                              *)
MgNoneSkipped ==
  \A step \in MgStep :
     /\ step[1] \in mgDisk.known
     /\ \A target \in MgTargets : IntroducedInReached(step, target)
            => Advice(mgDisk, FALSE, target, step) # "Pending"
     /\ \E target \in MgTargets : IntroducedInReached(step, target)
     => mgDoc[step] = "new"
================================================================================
