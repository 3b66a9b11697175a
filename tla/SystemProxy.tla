------------------------------ MODULE SystemProxy ------------------------------
(***************************************************************************)
(* Sysopt (core/sysopt.rs) with PacManager (core/pac.rs): the operating     *)
(* system's proxy setting, the record of what it was before, the guard loop *)
(* that puts it back, the PAC tasks and auto-launch.  A proxy setting is    *)
(* [enable, port]; the host, the bypass list and the PAC script's text are  *)
(* left out.  The calls of feat.rs and resolve.rs are one action each: they  *)
(* are synchronous.  The guard loops and the PAC tasks are spawned and      *)
(* interleave with the calls and with each other.                           *)
(***************************************************************************)
EXTENDS Naturals, FiniteSets

CONSTANTS SoPorts,     \* ports the app may be given
          SoUserPort,  \* port of the proxy the user had set before
          SoTasks      \* spawned guard and PAC tasks

ASSUME SoAssumption == SoUserPort \notin SoPorts /\ SoPorts # {}

VARIABLES soPhase,     \* "down", "up", "reset" (between reset_sysproxy and exit), "over"
          soCfg,       \* Config::verge().latest()
          soOs,        \* the operating system's proxy
          soAuto,      \* the operating system's automatic (PAC) proxy is on
          soLaunch,    \* auto_launch built, and the system's auto-launch entry
          soCur, soOld,\* cur_sysproxy, old_sysproxy
          soGuard,     \* guard_state
          soTask,      \* what each spawned task does next
          soOriginal,  \* history: the system's proxy before the app's first set
          soMissed     \* history: guard_proxy found a flag that was about to be
                       \* cleared, or the start failed before it was called

soVars == <<soPhase, soCfg, soOs, soAuto, soLaunch, soCur, soOld, soGuard,
            soTask, soOriginal, soMissed>>

NoProxy == [enable |-> FALSE, port |-> "none"]
Proxy == [enable : BOOLEAN, port : SoPorts \cup {SoUserPort}]
SoConfig == [enable : BOOLEAN, guard : BOOLEAN, pac : BOOLEAN, launch : BOOLEAN,
             port : SoPorts]
Gone == [pc |-> "none", port |-> SoUserPort]
SoTaskPcs == {"none", "enter", "sleep", "set", "leave", "pac"}

SoTypeOK ==
  /\ soPhase \in {"down", "up", "reset", "over"}
  /\ soCfg \in SoConfig /\ soOs \in Proxy /\ soOriginal \in Proxy
  /\ soAuto \in BOOLEAN /\ soGuard \in BOOLEAN /\ soMissed \in BOOLEAN
  /\ soLaunch \in [built : BOOLEAN, on : BOOLEAN]
  /\ soCur \in Proxy \cup {NoProxy} /\ soOld \in Proxy \cup {NoProxy}
  /\ soTask \in [SoTasks -> [pc : SoTaskPcs, port : SoPorts \cup {SoUserPort}]]

SoInit ==
  /\ soPhase = "down"
  /\ soCfg \in [enable : BOOLEAN, guard : BOOLEAN, pac : {FALSE}, launch : {FALSE},
                port : {CHOOSE p \in SoPorts : TRUE}]
  /\ soOs \in [enable : BOOLEAN, port : {SoUserPort}]
  /\ soOriginal = soOs
  /\ soAuto = FALSE /\ soLaunch = [built |-> FALSE, on |-> FALSE]
  /\ soCur = NoProxy /\ soOld = NoProxy
  /\ soGuard = FALSE /\ soTask = [t \in SoTasks |-> Gone] /\ soMissed = FALSE
-------------------------------------------------------------------------------
(* Spawning.  guard_proxy and the PAC calls only start a task.              *)
GuardProxy ==
  \E t \in SoTasks :
     /\ soTask[t].pc = "none"
     /\ soTask' = [soTask EXCEPT ![t] = [Gone EXCEPT !.pc = "enter"]]

\* Two tasks from one call: the PAC update and the guard.
SpawnPacAndGuard ==
  \E t, u \in SoTasks :
     /\ t # u /\ soTask[t].pc = "none" /\ soTask[u].pc = "none"
     /\ soTask' = [soTask EXCEPT ![t] = [Gone EXCEPT !.pc = "pac"],
                                 ![u] = [Gone EXCEPT !.pc = "enter"]]

\* init_sysproxy with configuration c.  The system's setting is read and
\* recorded every time, also when it is the one this app has set.
InitSysproxy(c) ==
  IF c.pac
  THEN SpawnPacAndGuard /\ UNCHANGED <<soOs, soCur, soOld>>
  ELSE IF ~c.enable
  THEN GuardProxy /\ UNCHANGED <<soOs, soCur, soOld>>
  ELSE \/ \E readable \in BOOLEAN :
            /\ soOld' = IF readable THEN soOs ELSE NoProxy
            /\ soOs' = [enable |-> TRUE, port |-> c.port]
            /\ soCur' = soOs'
            /\ GuardProxy
       \/ UNCHANGED <<soOs, soCur, soOld, soTask>>     \* set_system_proxy failed

InitFails == soTask' = soTask
-------------------------------------------------------------------------------
(* auto_launch: an error of enabling is returned, one of disabling is not.  *)
UpdateLaunch(c, ok) ==
  soLaunch' = [built |-> soLaunch.built \/ (c.launch => ok),
               on |-> IF ok THEN c.launch ELSE soLaunch.on]

\* resolve_setup: init_launch and init_sysproxy, errors logged.
SoStart ==
  /\ soPhase = "down" /\ soPhase' = "up"
  /\ \E ok \in BOOLEAN : UpdateLaunch(soCfg, ok)
  /\ InitSysproxy(soCfg)
  /\ soMissed' = InitFails
  /\ UNCHANGED <<soCfg, soAuto, soGuard, soOriginal>>

\* patch_verge with enable_auto_launch.
SoPatchLaunch(on) ==
  /\ soPhase = "up" /\ soCfg.launch # on
  /\ \E ok \in BOOLEAN :
       /\ UpdateLaunch([soCfg EXCEPT !.launch = on], ok)
       /\ soCfg' = IF ok \/ ~on THEN [soCfg EXCEPT !.launch = on] ELSE soCfg
  /\ UNCHANGED <<soPhase, soOs, soAuto, soCur, soOld, soGuard, soTask, soOriginal, soMissed>>

\* update_sysproxy with configuration c, then guard_proxy; on an error the
\* draft is discarded.  The port kept is the one of cur_sysproxy.  After
\* init_sysproxy this is a second guard_proxy in the same call: one task stands
\* for both.
UpdateSysproxy(c) ==
  CASE c.pac -> /\ SpawnPacAndGuard
                /\ soCfg' = c
                /\ UNCHANGED <<soOs, soCur, soOld>>
    [] ~c.pac /\ (soCur = NoProxy \/ soOld = NoProxy) ->
         /\ InitSysproxy(c)
         /\ soCfg' = IF InitFails THEN soCfg ELSE c
    [] OTHER ->
         \/ /\ soOs' = [soCur EXCEPT !.enable = c.enable]
            /\ soCur' = soOs' /\ soOld' = soOld
            /\ soCfg' = c
            /\ GuardProxy
         \/ /\ soCur' = NoProxy             \* taken, and the set failed
            /\ UNCHANGED <<soOs, soOld, soCfg, soTask>>

SoPatchProxy(on) ==
  /\ soPhase = "up" /\ soCfg.enable # on
  /\ UpdateSysproxy([soCfg EXCEPT !.enable = on])
  /\ UNCHANGED <<soPhase, soAuto, soLaunch, soGuard, soOriginal, soMissed>>

\* Mutant: enabling the guard does not start it.
MutSoPatchGuard(on) ==
  /\ soPhase = "up" /\ soCfg.guard # on
  /\ soCfg' = [soCfg EXCEPT !.guard = on]
  /\ UNCHANGED <<soPhase, soOs, soAuto, soLaunch, soCur, soOld, soGuard, soTask, soOriginal, soMissed>>

\* patch_verge with enable_proxy_guard.
SoPatchGuard(on) ==
  /\ soPhase = "up" /\ soCfg.guard # on
  /\ soCfg' = [soCfg EXCEPT !.guard = on]
  /\ IF on THEN GuardProxy ELSE UNCHANGED soTask
  /\ UNCHANGED <<soPhase, soOs, soAuto, soLaunch, soCur, soOld, soGuard, soOriginal, soMissed>>

\* patch_verge with pac_url: nothing else happens until the next proxy patch.
SoPatchPac(on) ==
  /\ soPhase = "up" /\ soCfg.pac # on
  /\ soCfg' = [soCfg EXCEPT !.pac = on]
  /\ UNCHANGED <<soPhase, soOs, soAuto, soLaunch, soCur, soOld, soGuard, soTask, soOriginal, soMissed>>

\* patch_clash with a mixed port: init_sysproxy again, its error logged, before the patch is
\* applied.  It knows the new port if verge_mixed_port was patched first; one that was not
\* hides the new port from everyone afterwards, unless there is none.
SoPatchPort(p) ==
  /\ soPhase = "up" /\ soCfg.port # p
  /\ \E c \in {soCfg, [soCfg EXCEPT !.port = p]} :
       InitSysproxy(c) /\ soCfg' \in {c, [soCfg EXCEPT !.port = p]}
  /\ UNCHANGED <<soPhase, soAuto, soLaunch, soGuard, soOriginal, soMissed>>
-------------------------------------------------------------------------------
(* The guard loop.  The configuration is read after the sleep; the proxy is *)
(* set with what was read, whatever has been called in between.             *)
SoGuardEnter(t) ==
  /\ soTask[t].pc = "enter"
  /\ IF soGuard
     THEN /\ soTask' = [soTask EXCEPT ![t] = Gone]
          /\ soMissed' = (soMissed \/ \E u \in SoTasks : soTask[u].pc = "leave")
          /\ soGuard' = soGuard
     ELSE /\ soTask' = [soTask EXCEPT ![t].pc = "sleep"]
          /\ soGuard' = TRUE /\ soMissed' = soMissed
  /\ UNCHANGED <<soPhase, soCfg, soOs, soAuto, soLaunch, soCur, soOld, soOriginal>>

SoGuardWake(t) ==
  /\ soTask[t].pc = "sleep"
  /\ soTask' = [soTask EXCEPT ![t] =
                  IF soCfg.enable /\ soCfg.guard
                  THEN [pc |-> "set", port |-> soCfg.port]
                  ELSE [Gone EXCEPT !.pc = "leave"]]
  /\ UNCHANGED <<soPhase, soCfg, soOs, soAuto, soLaunch, soCur, soOld, soGuard, soOriginal, soMissed>>

SoGuardSet(t) ==
  /\ soTask[t].pc = "set"
  /\ \/ soOs' = [enable |-> TRUE, port |-> soTask[t].port]
     \/ soOs' = soOs                             \* the error is logged
  /\ soTask' = [soTask EXCEPT ![t] = [Gone EXCEPT !.pc = "sleep"]]
  /\ UNCHANGED <<soPhase, soCfg, soAuto, soLaunch, soCur, soOld, soGuard, soOriginal, soMissed>>

SoGuardLeave(t) ==
  /\ soTask[t].pc = "leave"
  /\ soGuard' = FALSE
  /\ soTask' = [soTask EXCEPT ![t] = Gone]
  /\ UNCHANGED <<soPhase, soCfg, soOs, soAuto, soLaunch, soCur, soOld, soOriginal, soMissed>>

\* fallback_to_direct_proxy with the configuration of that moment.
FallbackToDirectProxy ==
  /\ soOs' \in {soOs, [enable |-> soCfg.enable, port |-> soCfg.port]}
  /\ soAuto' = soAuto

SetPacProxy == soAuto' = TRUE /\ soOs' = soOs

\* disable_pac_proxy; its error is logged.
DisablePacProxy == soAuto' \in {FALSE, soAuto}

\* update_pac: download with retries, validate, cache, set; any failure but the
\* cache's falls back.  The PAC url may have been removed meanwhile.
SoUpdatePac(t) ==
  /\ soTask[t].pc = "pac"
  /\ \/ ~soCfg.pac /\ UNCHANGED <<soOs, soAuto>>
     \/ soCfg.pac /\ SetPacProxy
     \/ soCfg.pac /\ FallbackToDirectProxy
  /\ soTask' = [soTask EXCEPT ![t] = Gone]
  /\ UNCHANGED <<soPhase, soCfg, soLaunch, soCur, soOld, soGuard, soOriginal, soMissed>>
-------------------------------------------------------------------------------
\* reset_sysproxy at exit: the recorded proxy, off if it has the app's port; or
\* the app's own proxy switched off.
ResetProxy ==
  IF soOld # NoProxy
  THEN LET portSame == soCur = NoProxy \/ soCur.port = soOld.port
       IN  [soOld EXCEPT !.enable = soOld.enable /\ ~portSame]
  ELSE IF soCur # NoProxy /\ soCur.enable
  THEN [soCur EXCEPT !.enable = FALSE]
  ELSE soOs

SoReset ==
  /\ soPhase = "up" /\ soPhase' = "reset"
  /\ IF soCfg.pac THEN DisablePacProxy ELSE UNCHANGED soAuto
  /\ soOs' \in {ResetProxy, soOs}
  /\ soCur' = NoProxy /\ soOld' = NoProxy
  /\ UNCHANGED <<soCfg, soLaunch, soGuard, soTask, soOriginal, soMissed>>

\* The process ends; its tasks end with it.
SoExit ==
  /\ soPhase = "reset" /\ soPhase' = "over"
  /\ soTask' = [t \in SoTasks |-> Gone] /\ soGuard' = FALSE
  /\ UNCHANGED <<soCfg, soOs, soAuto, soLaunch, soCur, soOld, soOriginal, soMissed>>

SoNext ==
  \/ SoStart \/ SoReset \/ SoExit
  \/ \E on \in BOOLEAN : SoPatchLaunch(on) \/ SoPatchProxy(on) \/ SoPatchGuard(on)
                         \/ SoPatchPac(on)
  \/ \E p \in SoPorts : SoPatchPort(p)
  \/ \E t \in SoTasks : SoGuardEnter(t) \/ SoGuardWake(t) \/ SoGuardSet(t)
                        \/ SoGuardLeave(t) \/ SoUpdatePac(t)
  \/ soPhase = "over" /\ UNCHANGED soVars

SoSpec == SoInit /\ [][SoNext]_soVars
-------------------------------------------------------------------------------
(* guard_proxy is called on every path that switches the guard on, and the   *)
(* flag lets exactly one loop run: with the proxy and the guard enabled, a    *)
(* loop runs or is about to start, unless a call met a loop that had already  *)
(* decided to stop; and never two loops run.                                  *)
SoGuarded ==
  LET loops == {t \in SoTasks : soTask[t].pc \in {"sleep", "set", "leave"}}
  IN  /\ Cardinality(loops) = IF soGuard THEN 1 ELSE 0
      /\ soPhase = "up" /\ soCfg.enable /\ soCfg.guard /\ ~soMissed
            => \E t \in SoTasks : soTask[t].pc \in {"enter", "sleep", "set", "leave"}

(* "record the original system proxy": while a record is kept, it is the     *)
(* setting the system had before the app first set its own.                   *)
SoOriginalRecorded == soOld # NoProxy => soOld = soOriginal
================================================================================
