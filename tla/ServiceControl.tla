----------------------------- MODULE ServiceControl -----------------------------
(***************************************************************************)
(* Running the core in the system service: the commands that install, start  *)
(* and stop the service (core/service/control.rs, ipc.rs), the health check   *)
(* thread that keeps IPC_STATE, KILL_FLAG and HEALTH_CHECK_RUNNING            *)
(* (core/service/ipc.rs), the threads a change of IPC_STATE spawns, and        *)
(* CoreManager::run_core, which picks child process or service by that state   *)
(* (core/clash/core.rs).  The service itself is external: it is absent,        *)
(* stopped or running, and the core it runs ends with it.                      *)
(***************************************************************************)
EXTENDS Naturals, Sequences, FiniteSets

CONSTANTS ScSlots,     \* control commands that may be under way together
          ScCheckers,  \* health check threads there can be
          ScMaxOps,    \* bound: commands, and the service ending by itself
          ScMaxFails   \* bound: failing commands, status queries, stops and starts

\* init_service spawns the first of them.
ASSUME ScCheckersAssumption == 1 \in ScCheckers

VARIABLES scOs,       \* the service
          scMode,     \* enable_service_mode; switching it at run time is left out
          scCore,     \* the cores that run: as a child, in the service
          scInstance, \* CoreManager.instance: none, or how it runs
          scIpc,      \* IPC_STATE is Connected
          scKill,     \* KILL_FLAG
          scRunning,  \* HEALTH_CHECK_RUNNING
          scChecker,  \* each health check thread, with the last status it got
          scCmd,      \* each control command, where it is
          scWatch,    \* threads of on_ipc_state_changed: the state they are about, where they are
          scRun,      \* run_core in the lifecycle lease: whose, where, the type it chose
          scOps, scFails, \* bounds
          scWanted,   \* history: the last command that succeeded wants a health check
          scWindow    \* history: what may have left core and service apart

scVars == <<scOs, scMode, scCore, scInstance, scIpc, scKill, scRunning, scChecker, scCmd,
            scWatch, scRun, scOps, scFails, scWanted, scWindow>>

ScKinds == {"install", "uninstall", "start", "stop", "restart"}
ScIdle == [kind |-> "none", pc |-> "idle"]
ScNobody == [by |-> "none", pc |-> "free", type |-> "none"]
ScBoot == "boot"

\* init_service: a running service is checked from the start when it is enabled, and
\* the core is launched once the check runs.
ScInit ==
  /\ scOs \in {"absent", "stopped", "running"} /\ scMode \in BOOLEAN
  /\ scCore = [child |-> FALSE, service |-> FALSE] /\ scInstance = "none"
  /\ scIpc = FALSE /\ scKill = FALSE /\ scRunning = FALSE
  /\ scChecker = [c \in ScCheckers |->
                    [pc |-> IF c = 1 /\ scMode /\ scOs = "running" THEN "spawned" ELSE "off", answer |-> FALSE]]
  /\ scCmd = [s \in ScSlots \cup {ScBoot} |-> IF s = ScBoot THEN [kind |-> "boot", pc |-> "flags"] ELSE ScIdle]
  /\ scWatch = <<>> /\ scRun = ScNobody /\ scOps = 0 /\ scFails = 0
  /\ scWanted = (scMode /\ scOs = "running") /\ scWindow = FALSE

\* RunType::default
RunType == IF scMode /\ scIpc THEN "Service" ELSE "Normal"

\* The state of the instance; a service that does not answer counts as stopped.
CoreRuns == \/ scInstance = "Normal" /\ scCore.child
            \/ scInstance = "Service" /\ scOs = "running" /\ scCore.service
-------------------------------------------------------------------------------
(* Control commands.                                                          *)

ScAsks ==
  /\ scOps < ScMaxOps /\ scOps' = scOps + 1
  /\ \E s \in ScSlots, k \in ScKinds :
       /\ scCmd[s].pc = "idle"
       /\ scCmd' = [scCmd EXCEPT ![s] = [kind |-> k, pc |-> "run"]]
  /\ UNCHANGED <<scOs, scMode, scCore, scInstance, scIpc, scKill, scRunning, scChecker,
                 scWatch, scRun, scFails, scWindow, scWanted>>

\* What the service program makes of a command; it may come up by itself when installed.
ScOutcomes(kind) ==
  CASE kind = "install" -> {"running", "stopped"}
    [] kind = "uninstall" -> {"absent"}
    [] kind = "stop" -> {"stopped"}
    [] OTHER -> {"running"}

\* start, stop and restart run the core again when the service is enabled, even after a failure.
ScAfter(kind) ==
  IF scMode /\ kind \in {"start", "stop", "restart"} THEN [kind |-> "run_core", pc |-> "core"] ELSE ScIdle

ScElevated ==
  /\ \E s \in ScSlots :
       LET kind == scCmd[s].kind
           possible == scOs # "absent" \/ kind = "install"
       IN  /\ scCmd[s].pc = "run"
           /\ \/ /\ possible /\ scOs' \in ScOutcomes(kind)
                 /\ scCore' = [scCore EXCEPT !.service = @ /\ scOs' = "running" /\ kind # "restart"]
                 /\ scCmd' = [scCmd EXCEPT ![s].pc = "flags"] /\ UNCHANGED scFails
                 /\ scWindow' = (scWindow \/ (kind = "install" /\ scIpc /\ scOs # "running"))
              \/ /\ possible => scFails < ScMaxFails
                 /\ scFails' = IF possible THEN scFails + 1 ELSE scFails
                 /\ scCmd' = [scCmd EXCEPT ![s] = ScAfter(kind)] /\ UNCHANGED <<scOs, scCore, scWindow>>
  /\ UNCHANGED <<scMode, scInstance, scIpc, scKill, scRunning, scChecker, scWatch, scRun, scOps, scWanted>>

\* Mutant: the flag a stop left behind is not taken back.
SpawnHealthCheckKilled ==
  \E c \in ScCheckers :
    /\ scChecker[c].pc = "off" /\ scChecker' = [scChecker EXCEPT ![c] = [pc |-> "spawned", answer |-> FALSE]]
    /\ UNCHANGED scKill

SpawnHealthCheck ==
  \E c \in ScCheckers :
    /\ scChecker[c].pc = "off" /\ scChecker' = [scChecker EXCEPT ![c] = [pc |-> "spawned", answer |-> FALSE]]
    /\ scKill' = FALSE

\* install, start and restart see to a health check: one that is about to end counts.
ScStarts(s) ==
  /\ scCmd[s].kind \in {"install", "start", "restart"}
  /\ IF scRunning THEN UNCHANGED <<scChecker, scKill>> ELSE SpawnHealthCheck
  /\ scWindow' = (scWindow \/ (scRunning /\ scKill))

\* uninstall and stop ask the health check to end; stop's exchange is the weak one.
ScStops(s) ==
  /\ scCmd[s].kind \in {"uninstall", "stop"}
  /\ scKill' = TRUE \/ (scCmd[s].kind = "stop" /\ scKill' = scKill)
  /\ UNCHANGED <<scChecker, scWindow>>

ScFlags ==
  /\ \E s \in ScSlots :
       /\ scCmd[s].pc = "flags" /\ (ScStarts(s) \/ ScStops(s))
       /\ scWanted' = (scCmd[s].kind \in {"install", "start", "restart"})
       /\ scCmd' = [scCmd EXCEPT ![s] = ScAfter(scCmd[s].kind)]
  /\ UNCHANGED <<scOs, scMode, scCore, scInstance, scIpc, scRunning, scWatch, scRun, scOps, scFails>>

\* Launching the core waits for the health check to be running, if there is one.
ScBoots ==
  /\ scCmd[ScBoot].pc = "flags" /\ (scChecker[1].pc = "spawned" => scRunning)
  /\ scCmd' = [scCmd EXCEPT ![ScBoot] = [kind |-> "run_core", pc |-> "core"]]
  /\ UNCHANGED <<scOs, scMode, scCore, scInstance, scIpc, scKill, scRunning, scChecker,
                 scWatch, scRun, scOps, scFails, scWindow, scWanted>>

\* The service ends by itself, and its core with it.
ScDies ==
  /\ scOps < ScMaxOps /\ scOps' = scOps + 1
  /\ scOs = "running" /\ scOs' = "stopped" /\ scCore' = [scCore EXCEPT !.service = FALSE]
  /\ UNCHANGED <<scMode, scInstance, scIpc, scKill, scRunning, scChecker, scCmd, scWatch,
                 scRun, scFails, scWindow, scWanted>>
-------------------------------------------------------------------------------
(* The health check.                                                          *)

\* on_ipc_state_changed spawns a thread, that has something to do when the service is enabled.
OnIpcStateChanged(connected) ==
  scWatch' = IF scMode THEN Append(scWatch, [connected |-> connected, pc |-> "ask"]) ELSE scWatch

HealthCheckStarts ==
  /\ \E c \in ScCheckers : /\ scChecker[c].pc = "spawned"
                           /\ scChecker' = [scChecker EXCEPT ![c].pc = "loop"]
  /\ scRunning' = TRUE
  /\ UNCHANGED <<scOs, scMode, scCore, scInstance, scIpc, scKill, scCmd, scWatch, scRun,
                 scOps, scFails, scWindow, scWanted>>

\* The loop ends at the flag, or asks for the status; a failed query counts as not running.
HealthCheckLoops ==
  /\ \E c \in ScCheckers :
       /\ scChecker[c].pc = "loop"
       /\ IF scKill
          THEN /\ scChecker' = [scChecker EXCEPT ![c].pc = "off"]
               /\ scIpc' = FALSE /\ OnIpcStateChanged(FALSE) /\ scRunning' = FALSE
               /\ UNCHANGED scFails
          ELSE /\ \/ scChecker' = [scChecker EXCEPT ![c] = [pc |-> "answered", answer |-> scOs = "running"]]
                     /\ UNCHANGED scFails
                  \/ scFails < ScMaxFails /\ scFails' = scFails + 1
                     /\ scChecker' = [scChecker EXCEPT ![c] = [pc |-> "answered", answer |-> FALSE]]
               /\ UNCHANGED <<scIpc, scWatch, scRunning>>
  /\ UNCHANGED <<scOs, scMode, scCore, scInstance, scKill, scCmd, scRun, scOps, scWindow, scWanted>>

\* dispatch_connected, dispatch_disconnected: an exchange, and a notice if it changed something.
Dispatch(answer) ==
  /\ scIpc' = answer
  /\ IF answer # scIpc THEN OnIpcStateChanged(answer) ELSE UNCHANGED scWatch

HealthCheckDispatches ==
  /\ \E c \in ScCheckers :
       /\ scChecker[c].pc = "answered" /\ scChecker' = [scChecker EXCEPT ![c].pc = "asleep"]
       /\ Dispatch(scChecker[c].answer)
  /\ UNCHANGED <<scOs, scMode, scCore, scInstance, scKill, scRunning, scCmd, scRun, scOps,
                 scFails, scWindow, scWanted>>

\* Five seconds later. (Not modelled: a check that finds everything as it left it, and one that
\* then gets no answer.)
HealthCheckWakes ==
  /\ \E c \in ScCheckers :
       /\ scChecker[c].pc = "asleep" /\ (scKill \/ scChecker[c].answer # (scOs = "running"))
       /\ scChecker' = [scChecker EXCEPT ![c].pc = "loop"]
  /\ UNCHANGED <<scOs, scMode, scCore, scInstance, scIpc, scKill, scRunning, scCmd, scWatch,
                 scRun, scOps, scFails, scWindow, scWanted>>

\* The thread asks how the core runs, and restarts it if that no longer fits.
ScRunTypeNow == IF scInstance = "none" THEN RunType ELSE scInstance
WatchAsks ==
  /\ \E i \in DOMAIN scWatch :
       LET w == scWatch[i]
           others == [j \in 1..(Len(scWatch) - 1) |-> IF j < i THEN scWatch[j] ELSE scWatch[j + 1]]
       IN  /\ w.pc = "ask"
           /\ scWatch' = IF (w.connected /\ ScRunTypeNow = "Normal") \/ (~w.connected /\ ScRunTypeNow = "Service")
                         THEN [scWatch EXCEPT ![i].pc = "core"] ELSE others
  /\ scWindow' = (scWindow \/ scRun.pc \in {"chosen", "start"})
  /\ UNCHANGED <<scOs, scMode, scCore, scInstance, scIpc, scKill, scRunning, scChecker, scCmd,
                 scRun, scOps, scFails, scWanted>>
-------------------------------------------------------------------------------
(* run_core: one at a time, in the lifecycle lease.                             *)

RunCoreBegins ==
  /\ scRun.pc = "free"
  /\ \/ \E s \in DOMAIN scCmd :
          /\ scCmd[s].pc = "core" /\ scCmd' = [scCmd EXCEPT ![s] = ScIdle]
          /\ UNCHANGED scWatch
     \/ \E i \in DOMAIN scWatch :
          /\ scWatch[i].pc = "core" /\ UNCHANGED scCmd
          /\ scWatch' = [j \in 1..(Len(scWatch) - 1) |-> IF j < i THEN scWatch[j] ELSE scWatch[j + 1]]
  /\ scRun' = [by |-> "caller", pc |-> "stop", type |-> "none"]
  /\ UNCHANGED <<scOs, scMode, scCore, scInstance, scIpc, scKill, scRunning, scChecker, scOps,
                 scFails, scWindow, scWanted>>

\* A core that runs is stopped first; if that fails, so does run_core.
RunCoreStops ==
  /\ scRun.pc = "stop"
  /\ \/ /\ scRun' = [scRun EXCEPT !.pc = "choose"]
        /\ scCore' = IF ~CoreRuns THEN scCore
                     ELSE IF scInstance = "Normal" THEN [scCore EXCEPT !.child = FALSE]
                     ELSE [scCore EXCEPT !.service = FALSE]
        /\ UNCHANGED <<scFails, scWindow>>
     \/ /\ CoreRuns /\ scFails < ScMaxFails /\ scFails' = scFails + 1
        /\ scRun' = ScNobody /\ scWindow' = TRUE /\ UNCHANGED scCore
  /\ UNCHANGED <<scOs, scMode, scInstance, scIpc, scKill, scRunning, scChecker, scCmd, scWatch, scOps, scWanted>>

\* The type is chosen when the old core is down, and the instance stored before it starts.
RunCoreChooses ==
  /\ scRun.pc = "choose" /\ scRun' = [scRun EXCEPT !.pc = "chosen", !.type = RunType]
  /\ UNCHANGED <<scOs, scMode, scCore, scInstance, scIpc, scKill, scRunning, scChecker, scCmd,
                 scWatch, scOps, scFails, scWindow, scWanted>>

RunCoreStores ==
  /\ scRun.pc = "chosen" /\ scRun' = [scRun EXCEPT !.pc = "start"] /\ scInstance' = scRun.type
  /\ UNCHANGED <<scOs, scMode, scCore, scIpc, scKill, scRunning, scChecker, scCmd, scWatch,
                 scOps, scFails, scWindow, scWanted>>

RunCoreStarts ==
  /\ scRun.pc = "start" /\ scRun' = ScNobody
  /\ \/ /\ scInstance = "Normal" \/ scOs = "running"
        /\ scCore' = IF scInstance = "Normal" THEN [scCore EXCEPT !.child = TRUE]
                     ELSE [scCore EXCEPT !.service = TRUE]
        /\ UNCHANGED <<scFails, scWindow>>
     \/ /\ scInstance = "Service" /\ scOs # "running" /\ UNCHANGED <<scCore, scFails, scWindow>>
     \/ /\ scFails < ScMaxFails /\ scFails' = scFails + 1 /\ scWindow' = TRUE /\ UNCHANGED scCore
  /\ UNCHANGED <<scOs, scMode, scInstance, scIpc, scKill, scRunning, scChecker, scCmd, scWatch, scOps, scWanted>>

ScNext == \/ ScAsks \/ ScElevated \/ ScFlags \/ ScBoots \/ ScDies
          \/ HealthCheckStarts \/ HealthCheckLoops \/ HealthCheckDispatches \/ HealthCheckWakes
          \/ WatchAsks \/ RunCoreBegins \/ RunCoreStops \/ RunCoreChooses \/ RunCoreStores \/ RunCoreStarts

ScSpec == ScInit /\ [][ScNext]_scVars

ScTypeOK ==
  /\ scOs \in {"absent", "stopped", "running"} /\ scInstance \in {"none", "Normal", "Service"}
  /\ scCore \in [child : BOOLEAN, service : BOOLEAN] /\ scIpc \in BOOLEAN
  /\ \A c \in ScCheckers : scChecker[c].pc \in {"off", "spawned", "loop", "answered", "asleep"}
  /\ \A i \in DOMAIN scWatch : scWatch[i].pc \in {"ask", "core"}
-------------------------------------------------------------------------------
\* Nothing is under way and no health check has anything new to see.
ScAtRest ==
  /\ scRun.pc = "free" /\ scWatch = <<>> /\ \A s \in DOMAIN scCmd : scCmd[s].pc = "idle"
  /\ \A c \in ScCheckers : \/ scChecker[c].pc = "off"
                           \/ scChecker[c].pc = "asleep" /\ ~scKill /\ scChecker[c].answer = (scOs = "running")

\* Whatever the order of commands, health checks and the threads they spawn: at rest one
\* core runs, in the service exactly when it is enabled and IPC_STATE says connected; a
\* health check lives if the last command started the service, and then that state is the
\* service's.  The exceptions are a
\* failed start or stop, a status read while run_core was between choosing and starting,
\* a start that relied on a health check a stop had already told to end, and a service
\* that was down and up again between two health checks.
ScCoreFollowsService ==
  ScAtRest /\ ~scWindow =>
    /\ scInstance = RunType /\ CoreRuns /\ scCore.child # scCore.service
    /\ scWanted => scRunning /\ scIpc = (scOs = "running")
================================================================================
