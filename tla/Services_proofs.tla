--------------------------- MODULE Services_proofs ---------------------------
(***************************************************************************)
(* Proofs about the smaller services: the guard of the system proxy, the    *)
(* migration runner, the websocket connector and the core updater, each for *)
(* every value of its constants.  The components share no variable; each    *)
(* has its own specification and its own inductive invariant.               *)
(***************************************************************************)
EXTENDS SystemProxy, MigrationRunner, ClashConnections, CoreUpdater,
        FiniteSetTheorems, WellFoundedInduction, TLAPS

-------------------------------------------------------------------------------
(* The guard of the system proxy (core/sysopt.rs).                           *)

SoLooping == {"sleep", "set", "leave"}

\* At most one task loops, and guard_state says whether one does.
SoOneLoop ==
  /\ \A t, u \in SoTasks : soTask[t].pc \in SoLooping /\ soTask[u].pc \in SoLooping => t = u
  /\ soGuard <=> \E t \in SoTasks : soTask[t].pc \in SoLooping

\* While the guard is wanted a loop goes on or is about to start; one that has
\* decided to leave does not count, for nothing keeps it.
SoGuardLives ==
  soPhase = "up" /\ soCfg.enable /\ soCfg.guard /\ ~soMissed
     => \E t \in SoTasks : soTask[t].pc \in {"enter", "sleep", "set"}

\* What every step keeps.
SoInv == SoTypeOK /\ SoOneLoop /\ SoGuardLives

\* Calls spawn tasks: those under way stay what they are.
SoUndisturbed ==
  \A t \in SoTasks : \/ soTask'[t] = soTask[t]
                     \/ soTask[t].pc = "none" /\ soTask'[t].pc \in {"enter", "pac"}

SoTasksOK == soTask \in [SoTasks -> [pc : SoTaskPcs, port : SoPorts \cup {SoUserPort}]]

\* The records a task can be given.
LEMMA SoRecords ==
  /\ Gone \in [pc : SoTaskPcs, port : SoPorts \cup {SoUserPort}] /\ Gone.pc = "none"
  /\ \A pc \in SoTaskPcs : /\ [Gone EXCEPT !.pc = pc] \in [pc : SoTaskPcs, port : SoPorts \cup {SoUserPort}]
                           /\ [Gone EXCEPT !.pc = pc].pc = pc
  BY DEF Gone, SoTaskPcs

\* guard_proxy starts one task that will look at guard_state.
LEMMA SoSpawnGuard ==
  ASSUME SoTasksOK, GuardProxy
  PROVE  /\ SoTasksOK' /\ SoUndisturbed /\ soTask' # soTask
         /\ \E t \in SoTasks : soTask'[t].pc = "enter"
<1> DEFINE r == [Gone EXCEPT !.pc = "enter"]
<1>1. PICK t \in SoTasks : /\ soTask[t].pc = "none"
                           /\ soTask' = [soTask EXCEPT ![t] = r]
  BY DEF GuardProxy
<1>2. r \in [pc : SoTaskPcs, port : SoPorts \cup {SoUserPort}] /\ r.pc = "enter"
  BY SoRecords DEF SoTaskPcs
<1> HIDE DEF r
<1>3. /\ soTask'[t] = r
      /\ \A u \in SoTasks \ {t} : soTask'[u] = soTask[u]
  BY <1>1 DEF SoTasksOK
<1>4. SoTasksOK'
  BY <1>1, <1>2 DEF SoTasksOK
<1>5. SoUndisturbed
  BY <1>1, <1>2, <1>3 DEF SoUndisturbed
<1> QED
  BY <1>1, <1>2, <1>3, <1>4, <1>5

\* A call with a PAC url starts the PAC task beside it.
LEMMA SoSpawnBoth ==
  ASSUME SoTasksOK, SpawnPacAndGuard
  PROVE  /\ SoTasksOK' /\ SoUndisturbed /\ soTask' # soTask
         /\ \E t \in SoTasks : soTask'[t].pc = "enter"
<1> DEFINE r == [Gone EXCEPT !.pc = "enter"]
           q == [Gone EXCEPT !.pc = "pac"]
<1>1. PICK t \in SoTasks, u \in SoTasks :
        /\ t # u /\ soTask[t].pc = "none" /\ soTask[u].pc = "none"
        /\ soTask' = [soTask EXCEPT ![t] = q, ![u] = r]
  BY DEF SpawnPacAndGuard
<1>2. /\ r \in [pc : SoTaskPcs, port : SoPorts \cup {SoUserPort}] /\ r.pc = "enter"
      /\ q \in [pc : SoTaskPcs, port : SoPorts \cup {SoUserPort}] /\ q.pc = "pac"
  BY SoRecords DEF SoTaskPcs
<1> HIDE DEF r, q
<1>3. /\ soTask'[t] = q /\ soTask'[u] = r
      /\ \A v \in SoTasks \ {t, u} : soTask'[v] = soTask[v]
  BY <1>1 DEF SoTasksOK
<1>4. SoTasksOK'
  BY <1>1, <1>2 DEF SoTasksOK
<1>5. SoUndisturbed
  BY <1>1, <1>2, <1>3 DEF SoUndisturbed
<1> QED
  BY <1>1, <1>2, <1>3, <1>4, <1>5

\* init_sysproxy either fails, and starts nothing, or starts the guard.
LEMMA SoInitsProxy ==
  ASSUME SoTypeOK, NEW c \in SoConfig, InitSysproxy(c)
  PROVE  /\ SoTasksOK' /\ SoUndisturbed
         /\ soOs' \in Proxy /\ soCur' \in Proxy \cup {NoProxy} /\ soOld' \in Proxy \cup {NoProxy}
         /\ ~InitFails => \E t \in SoTasks : soTask'[t].pc = "enter"
<1>1. SoTasksOK /\ soOs \in Proxy /\ soCur \in Proxy \cup {NoProxy} /\ soOld \in Proxy \cup {NoProxy}
  BY DEF SoTypeOK, SoTasksOK
<1>2. CASE c.pac
  BY <1>1, <1>2, SoSpawnBoth DEF InitSysproxy, InitFails
<1>3. CASE ~c.pac /\ ~c.enable
  BY <1>1, <1>3, SoSpawnGuard DEF InitSysproxy, InitFails
<1>4. CASE ~c.pac /\ c.enable
  <2>1. CASE UNCHANGED <<soOs, soCur, soOld, soTask>>
    BY <1>1, <2>1 DEF InitFails, SoUndisturbed, SoTasksOK
  <2>2. CASE \E readable \in BOOLEAN :
               /\ soOld' = IF readable THEN soOs ELSE NoProxy
               /\ soOs' = [enable |-> TRUE, port |-> c.port]
               /\ soCur' = soOs'
               /\ GuardProxy
    <3>1. GuardProxy /\ soOs' = [enable |-> TRUE, port |-> c.port] /\ soCur' = soOs'
          /\ soOld' \in {soOs, NoProxy}
      BY <2>2
    <3>2. soOs' \in Proxy
      BY <3>1 DEF Proxy, SoConfig
    <3> QED
      BY <1>1, <3>1, <3>2, SoSpawnGuard
  <2> QED
    BY <1>4, <2>1, <2>2 DEF InitSysproxy
<1> QED
  BY <1>2, <1>3, <1>4

\* A call that spawns, or does not, keeps the loops as they are.
LEMMA SoLoopsStay ==
  ASSUME SoOneLoop, SoUndisturbed, UNCHANGED soGuard
  PROVE  SoOneLoop'
  BY DEF SoOneLoop, SoUndisturbed, SoLooping

\* ... and what kept the guard alive.
LEMMA SoGuardStays ==
  ASSUME SoGuardLives, SoUndisturbed, UNCHANGED soMissed,
         soPhase' = "up" => soPhase = "up",
         soCfg'.enable /\ soCfg'.guard => \/ (soCfg.enable /\ soCfg.guard)
                                          \/ \E t \in SoTasks : soTask'[t].pc = "enter"
  PROVE  SoGuardLives'
<1> SUFFICES ASSUME soPhase' = "up" /\ soCfg'.enable /\ soCfg'.guard /\ ~soMissed'
             PROVE  \E t \in SoTasks : soTask'[t].pc \in {"enter", "sleep", "set"}
  BY DEF SoGuardLives
<1>1. CASE soCfg.enable /\ soCfg.guard
  <2>1. PICK t \in SoTasks : soTask[t].pc \in {"enter", "sleep", "set"}
    BY <1>1 DEF SoGuardLives
  <2> QED
    BY <2>1 DEF SoUndisturbed
<1> QED
  BY <1>1

\* Tasks that are all at rest, or done.
LEMMA SoNoneLoops ==
  ASSUME NEW f, f = [t \in SoTasks |-> Gone]
  PROVE  /\ f \in [SoTasks -> [pc : SoTaskPcs, port : SoPorts \cup {SoUserPort}]]
         /\ \A t \in SoTasks : f[t].pc = "none"
  BY SoRecords

\* Nothing has been started.
LEMMA SoStartsInv == SoInit => SoInv
<1> SUFFICES ASSUME SoInit PROVE SoInv
  OBVIOUS
<1>1. (CHOOSE p \in SoPorts : TRUE) \in SoPorts
  BY SoAssumption
<1>2. /\ soTask \in [SoTasks -> [pc : SoTaskPcs, port : SoPorts \cup {SoUserPort}]]
      /\ \A t \in SoTasks : soTask[t].pc = "none"
  BY SoNoneLoops DEF SoInit
<1>3. soCfg \in SoConfig
  BY <1>1 DEF SoInit, SoConfig
<1>4. soOs \in Proxy
  BY DEF SoInit, Proxy
<1>5. SoTypeOK
  BY <1>2, <1>3, <1>4 DEF SoInit, SoTypeOK
<1>6. SoOneLoop
  BY <1>2 DEF SoInit, SoOneLoop, SoLooping
<1>7. SoGuardLives
  BY DEF SoInit, SoGuardLives
<1> QED
  BY <1>5, <1>6, <1>7 DEF SoInv

\* auto_launch leaves a typed entry.
LEMMA SoLaunchTyped ==
  ASSUME soLaunch \in [built : BOOLEAN, on : BOOLEAN], NEW c \in SoConfig, NEW ok \in BOOLEAN,
         UpdateLaunch(c, ok)
  PROVE  soLaunch' \in [built : BOOLEAN, on : BOOLEAN]
  BY DEF UpdateLaunch, SoConfig

\* A configuration with one field changed.
LEMMA SoConfigs ==
  ASSUME soCfg \in SoConfig
  PROVE  /\ \A on \in BOOLEAN :
              /\ [soCfg EXCEPT !.launch = on] \in SoConfig
              /\ [soCfg EXCEPT !.launch = on].enable = soCfg.enable
              /\ [soCfg EXCEPT !.launch = on].guard = soCfg.guard
              /\ [soCfg EXCEPT !.enable = on] \in SoConfig
              /\ [soCfg EXCEPT !.guard = on] \in SoConfig
              /\ [soCfg EXCEPT !.guard = on].guard = on
              /\ [soCfg EXCEPT !.pac = on] \in SoConfig
              /\ [soCfg EXCEPT !.pac = on].enable = soCfg.enable
              /\ [soCfg EXCEPT !.pac = on].guard = soCfg.guard
         /\ \A p \in SoPorts :
              /\ [soCfg EXCEPT !.port = p] \in SoConfig
              /\ [soCfg EXCEPT !.port = p].enable = soCfg.enable
              /\ [soCfg EXCEPT !.port = p].guard = soCfg.guard
  BY DEF SoConfig

\* resolve_setup.
LEMMA SoStartKeeps == ASSUME SoInv, SoStart PROVE SoInv'
<1>1. SoTypeOK /\ SoOneLoop
  BY DEF SoInv
<1>2. soCfg \in SoConfig /\ InitSysproxy(soCfg) /\ UNCHANGED <<soCfg, soAuto, soGuard, soOriginal>>
      /\ soMissed' = InitFails /\ soPhase' = "up" /\ \E ok \in BOOLEAN : UpdateLaunch(soCfg, ok)
  BY <1>1 DEF SoStart, SoTypeOK
<1>3. /\ SoTasksOK' /\ SoUndisturbed
      /\ soOs' \in Proxy /\ soCur' \in Proxy \cup {NoProxy} /\ soOld' \in Proxy \cup {NoProxy}
      /\ ~InitFails => \E t \in SoTasks : soTask'[t].pc = "enter"
  BY <1>1, <1>2, SoInitsProxy
<1>4. soLaunch' \in [built : BOOLEAN, on : BOOLEAN]
  BY <1>1, <1>2, SoLaunchTyped DEF SoTypeOK
<1>5. SoTypeOK'
  BY <1>1, <1>2, <1>3, <1>4 DEF SoTypeOK, SoTasksOK, InitFails
<1>6. SoOneLoop'
  BY <1>1, <1>2, <1>3, SoLoopsStay
<1>7. SoGuardLives'
  BY <1>2, <1>3 DEF SoGuardLives
<1> QED
  BY <1>5, <1>6, <1>7 DEF SoInv

\* enable_auto_launch.
LEMMA SoPatchLaunchKeeps ==
  ASSUME SoInv, NEW on \in BOOLEAN, SoPatchLaunch(on) PROVE SoInv'
<1>1. SoTypeOK /\ SoOneLoop /\ SoGuardLives
  BY DEF SoInv
<1>2. soCfg \in SoConfig /\ soLaunch \in [built : BOOLEAN, on : BOOLEAN]
  BY <1>1 DEF SoTypeOK
<1> DEFINE c == [soCfg EXCEPT !.launch = on]
<1>3. c \in SoConfig /\ c.enable = soCfg.enable /\ c.guard = soCfg.guard
  BY <1>2, SoConfigs
<1>4. PICK ok \in BOOLEAN : UpdateLaunch(c, ok) /\ soCfg' = IF ok \/ ~on THEN c ELSE soCfg
  BY DEF SoPatchLaunch
<1>5. UNCHANGED <<soPhase, soOs, soAuto, soCur, soOld, soGuard, soTask, soOriginal, soMissed>>
  BY DEF SoPatchLaunch
<1> HIDE DEF c
<1>6. soLaunch' \in [built : BOOLEAN, on : BOOLEAN]
  BY <1>2, <1>3, <1>4, SoLaunchTyped
<1>7. soCfg' \in SoConfig /\ soCfg'.enable = soCfg.enable /\ soCfg'.guard = soCfg.guard
  BY <1>2, <1>3, <1>4
<1>8. SoTypeOK'
  BY <1>1, <1>5, <1>6, <1>7 DEF SoTypeOK
<1>9. SoUndisturbed
  BY <1>5 DEF SoUndisturbed
<1>10. SoOneLoop'
  BY <1>1, <1>5, <1>9, SoLoopsStay
<1>11. SoGuardLives'
  BY <1>1, <1>5, <1>7 DEF SoGuardLives
<1> QED
  BY <1>8, <1>10, <1>11 DEF SoInv

\* update_sysproxy: where it changes the configuration, it starts the guard.
LEMMA SoUpdates ==
  ASSUME SoTypeOK, NEW c \in SoConfig, UpdateSysproxy(c)
  PROVE  /\ SoTasksOK' /\ SoUndisturbed /\ soCfg' \in SoConfig
         /\ soOs' \in Proxy /\ soCur' \in Proxy \cup {NoProxy} /\ soOld' \in Proxy \cup {NoProxy}
         /\ soCfg' = soCfg \/ \E t \in SoTasks : soTask'[t].pc = "enter"
<1>1. /\ SoTasksOK /\ soOs \in Proxy /\ soCur \in Proxy \cup {NoProxy}
      /\ soOld \in Proxy \cup {NoProxy} /\ soCfg \in SoConfig
  BY DEF SoTypeOK, SoTasksOK
<1>2. CASE c.pac
  <2>1. SpawnPacAndGuard /\ soCfg' = c /\ UNCHANGED <<soOs, soCur, soOld>>
    BY <1>2 DEF UpdateSysproxy
  <2> QED
    BY <1>1, <2>1, SoSpawnBoth
<1>3. CASE ~c.pac /\ (soCur = NoProxy \/ soOld = NoProxy)
  <2>1. InitSysproxy(c) /\ soCfg' = IF InitFails THEN soCfg ELSE c
    BY <1>3 DEF UpdateSysproxy
  <2>2. /\ SoTasksOK' /\ SoUndisturbed
        /\ soOs' \in Proxy /\ soCur' \in Proxy \cup {NoProxy} /\ soOld' \in Proxy \cup {NoProxy}
        /\ ~InitFails => \E t \in SoTasks : soTask'[t].pc = "enter"
    BY <2>1, SoInitsProxy
  <2> QED
    BY <1>1, <2>1, <2>2
<1>4. CASE ~c.pac /\ soCur # NoProxy /\ soOld # NoProxy
  <2>1. \/ /\ soOs' = [soCur EXCEPT !.enable = c.enable]
           /\ soCur' = soOs' /\ soOld' = soOld /\ soCfg' = c /\ GuardProxy
        \/ soCur' = NoProxy /\ UNCHANGED <<soOs, soOld, soCfg, soTask>>
    BY <1>4 DEF UpdateSysproxy
  <2>2. CASE soCur' = NoProxy /\ UNCHANGED <<soOs, soOld, soCfg, soTask>>
    BY <1>1, <2>2 DEF SoUndisturbed, SoTasksOK
  <2>3. CASE /\ soOs' = [soCur EXCEPT !.enable = c.enable]
             /\ soCur' = soOs' /\ soOld' = soOld /\ soCfg' = c /\ GuardProxy
    <3>1. soOs' \in Proxy
      BY <1>1, <1>4, <2>3 DEF Proxy, SoConfig
    <3> QED
      BY <1>1, <2>3, <3>1, SoSpawnGuard
  <2> QED
    BY <2>1, <2>2, <2>3
<1> QED
  BY <1>2, <1>3, <1>4

\* enable_system_proxy.
LEMMA SoPatchProxyKeeps ==
  ASSUME SoInv, NEW on \in BOOLEAN, SoPatchProxy(on) PROVE SoInv'
<1>1. SoTypeOK /\ SoOneLoop /\ SoGuardLives
  BY DEF SoInv
<1> DEFINE c == [soCfg EXCEPT !.enable = on]
<1>2. c \in SoConfig
  BY <1>1, SoConfigs DEF SoTypeOK
<1>3. UpdateSysproxy(c) /\ UNCHANGED <<soPhase, soAuto, soLaunch, soGuard, soOriginal, soMissed>>
  BY DEF SoPatchProxy
<1> HIDE DEF c
<1>4. /\ SoTasksOK' /\ SoUndisturbed /\ soCfg' \in SoConfig
      /\ soOs' \in Proxy /\ soCur' \in Proxy \cup {NoProxy} /\ soOld' \in Proxy \cup {NoProxy}
      /\ soCfg' = soCfg \/ \E t \in SoTasks : soTask'[t].pc = "enter"
  BY <1>1, <1>2, <1>3, SoUpdates
<1>5. SoTypeOK'
  BY <1>1, <1>3, <1>4 DEF SoTypeOK, SoTasksOK
<1>6. SoOneLoop'
  BY <1>1, <1>3, <1>4, SoLoopsStay
<1>7. SoGuardLives'
  BY <1>1, <1>3, <1>4, SoGuardStays
<1> QED
  BY <1>5, <1>6, <1>7 DEF SoInv

\* enable_proxy_guard.
LEMMA SoPatchGuardKeeps ==
  ASSUME SoInv, NEW on \in BOOLEAN, SoPatchGuard(on) PROVE SoInv'
<1>1. SoTypeOK /\ SoOneLoop /\ SoGuardLives
  BY DEF SoInv
<1>2. soCfg' \in SoConfig /\ soCfg'.guard = on
  BY <1>1, SoConfigs DEF SoTypeOK, SoPatchGuard
<1>3. /\ UNCHANGED <<soPhase, soOs, soAuto, soLaunch, soCur, soOld, soGuard, soOriginal, soMissed>>
      /\ IF on THEN GuardProxy ELSE UNCHANGED soTask
  BY DEF SoPatchGuard
<1>4. /\ SoTasksOK' /\ SoUndisturbed
      /\ on => \E t \in SoTasks : soTask'[t].pc = "enter"
  <2>1. SoTasksOK
    BY <1>1 DEF SoTypeOK, SoTasksOK
  <2>2. CASE on
    BY <1>3, <2>1, <2>2, SoSpawnGuard
  <2>3. CASE ~on
    BY <1>3, <2>1, <2>3 DEF SoUndisturbed, SoTasksOK
  <2> QED
    BY <2>2, <2>3
<1>5. SoTypeOK'
  BY <1>1, <1>2, <1>3, <1>4 DEF SoTypeOK, SoTasksOK
<1>6. SoOneLoop'
  BY <1>1, <1>3, <1>4, SoLoopsStay
<1>7. SoGuardLives'
  BY <1>1, <1>2, <1>3, <1>4, SoGuardStays
<1> QED
  BY <1>5, <1>6, <1>7 DEF SoInv

\* A PAC url, which nothing looks at yet, and a mixed port, which init_sysproxy does.
LEMMA SoPatchPacKeeps ==
  ASSUME SoInv, NEW on \in BOOLEAN, SoPatchPac(on) PROVE SoInv'
<1>1. SoTypeOK /\ SoOneLoop /\ SoGuardLives
  BY DEF SoInv
<1>2. /\ soCfg' \in SoConfig /\ soCfg'.enable = soCfg.enable /\ soCfg'.guard = soCfg.guard
      /\ UNCHANGED <<soPhase, soOs, soAuto, soLaunch, soCur, soOld, soGuard, soTask, soOriginal, soMissed>>
  BY <1>1, SoConfigs DEF SoTypeOK, SoPatchPac
<1>3. SoTypeOK'
  BY <1>1, <1>2 DEF SoTypeOK
<1>4. SoOneLoop' /\ SoGuardLives'
  BY <1>1, <1>2 DEF SoOneLoop, SoGuardLives
<1> QED
  BY <1>3, <1>4 DEF SoInv

\* A patch of the port while the proxy is on.
LEMMA SoPatchPortKeeps ==
  ASSUME SoInv, NEW p \in SoPorts, SoPatchPort(p) PROVE SoInv'
<1>1. SoTypeOK /\ SoOneLoop /\ SoGuardLives
  BY DEF SoInv
<1>2. PICK c \in {soCfg, [soCfg EXCEPT !.port = p]} :
        InitSysproxy(c) /\ soCfg' \in {c, [soCfg EXCEPT !.port = p]}
  BY DEF SoPatchPort
<1>3. /\ UNCHANGED <<soPhase, soAuto, soLaunch, soGuard, soOriginal, soMissed>>
      /\ c \in SoConfig /\ soCfg' \in SoConfig
      /\ soCfg'.enable = soCfg.enable /\ soCfg'.guard = soCfg.guard
  <2>1. soCfg \in SoConfig /\ [soCfg EXCEPT !.port = p] \in SoConfig
    BY <1>1, SoConfigs DEF SoTypeOK
  <2> QED
    BY <1>2, <2>1 DEF SoPatchPort, SoConfig
<1>4. /\ SoTasksOK' /\ SoUndisturbed
      /\ soOs' \in Proxy /\ soCur' \in Proxy \cup {NoProxy} /\ soOld' \in Proxy \cup {NoProxy}
  BY <1>1, <1>2, <1>3, SoInitsProxy
<1>5. SoTypeOK'
  BY <1>1, <1>3, <1>4 DEF SoTypeOK, SoTasksOK
<1>6. SoOneLoop'
  BY <1>1, <1>3, <1>4, SoLoopsStay
<1>7. SoGuardLives'
  BY <1>1, <1>3, <1>4, SoGuardStays
<1> QED
  BY <1>5, <1>6, <1>7 DEF SoInv

\* The record a step gives its task.
LEMMA SoTaskSet ==
  ASSUME SoTasksOK, NEW t \in SoTasks,
         NEW r \in [pc : SoTaskPcs, port : SoPorts \cup {SoUserPort}],
         soTask' = [soTask EXCEPT ![t] = r]
  PROVE  /\ SoTasksOK' /\ soTask'[t] = r
         /\ \A u \in SoTasks \ {t} : soTask'[u] = soTask[u]
  BY DEF SoTasksOK

\* guard_proxy's task finds the flag set and is done, or sets it and loops.
LEMMA SoGuardEnterKeeps ==
  ASSUME SoInv, NEW t \in SoTasks, SoGuardEnter(t) PROVE SoInv'
<1>1. SoTypeOK /\ SoOneLoop /\ SoGuardLives /\ SoTasksOK
  BY DEF SoInv, SoTypeOK, SoTasksOK
<1>2. soTask[t].pc = "enter" /\ UNCHANGED <<soPhase, soCfg, soOs, soAuto, soLaunch, soCur, soOld, soOriginal>>
  BY DEF SoGuardEnter
<1>3. CASE soGuard
  <2>1. /\ soTask' = [soTask EXCEPT ![t] = Gone] /\ soGuard' = soGuard
        /\ soMissed' = (soMissed \/ \E u \in SoTasks : soTask[u].pc = "leave")
    BY <1>3 DEF SoGuardEnter
  <2>2. /\ SoTasksOK' /\ soTask'[t].pc = "none"
        /\ \A u \in SoTasks \ {t} : soTask'[u] = soTask[u]
    BY <1>1, <2>1, SoRecords, SoTaskSet
  <2>3. SoTypeOK'
    BY <1>1, <1>2, <2>1, <2>2 DEF SoTypeOK, SoTasksOK
  <2>4. SoOneLoop'
    BY <1>1, <1>2, <2>1, <2>2 DEF SoOneLoop, SoLooping
  <2>5. SoGuardLives'
    <3> SUFFICES ASSUME ~soMissed' PROVE \E u \in SoTasks : soTask'[u].pc \in {"enter", "sleep", "set"}
      BY DEF SoGuardLives
    <3>1. PICK u \in SoTasks : soTask[u].pc \in SoLooping
      BY <1>1, <1>3 DEF SoOneLoop
    <3>2. u # t /\ soTask[u].pc # "leave"
      BY <1>2, <2>1, <3>1 DEF SoLooping
    <3> QED
      BY <2>2, <3>1, <3>2 DEF SoLooping
  <2> QED
    BY <2>3, <2>4, <2>5 DEF SoInv
<1>4. CASE ~soGuard
  <2> DEFINE r == [soTask[t] EXCEPT !.pc = "sleep"]
  <2>1. /\ soTask' = [soTask EXCEPT ![t] = r] /\ soGuard' = TRUE /\ soMissed' = soMissed
    BY <1>4 DEF SoGuardEnter
  <2>2. r \in [pc : SoTaskPcs, port : SoPorts \cup {SoUserPort}] /\ r.pc = "sleep"
    BY <1>1 DEF SoTasksOK, SoTaskPcs
  <2> HIDE DEF r
  <2>3. /\ SoTasksOK' /\ soTask'[t].pc = "sleep"
        /\ \A u \in SoTasks \ {t} : soTask'[u] = soTask[u]
    BY <1>1, <2>1, <2>2, SoTaskSet
  <2>4. SoTypeOK'
    BY <1>1, <1>2, <2>1, <2>3 DEF SoTypeOK, SoTasksOK
  <2>5. SoOneLoop'
    BY <1>1, <1>2, <1>4, <2>1, <2>3 DEF SoOneLoop, SoLooping
  <2>6. SoGuardLives'
    BY <2>3 DEF SoGuardLives
  <2> QED
    BY <2>4, <2>5, <2>6 DEF SoInv
<1> QED
  BY <1>3, <1>4

\* The loop wakes and goes on or decides to leave, sets the proxy, and leaves.
LEMMA SoGuardWakeKeeps ==
  ASSUME SoInv, NEW t \in SoTasks, SoGuardWake(t) PROVE SoInv'
<1>1. SoTypeOK /\ SoOneLoop /\ SoGuardLives /\ SoTasksOK /\ soCfg \in SoConfig
  BY DEF SoInv, SoTypeOK, SoTasksOK
<1> DEFINE r == IF soCfg.enable /\ soCfg.guard THEN [pc |-> "set", port |-> soCfg.port]
                ELSE [Gone EXCEPT !.pc = "leave"]
<1>2. /\ soTask[t].pc = "sleep" /\ soTask' = [soTask EXCEPT ![t] = r]
      /\ UNCHANGED <<soPhase, soCfg, soOs, soAuto, soLaunch, soCur, soOld, soGuard, soOriginal, soMissed>>
  BY DEF SoGuardWake
<1>3. /\ r \in [pc : SoTaskPcs, port : SoPorts \cup {SoUserPort}] /\ r.pc \in {"set", "leave"}
      /\ soCfg.enable /\ soCfg.guard => r.pc = "set"
  BY <1>1, SoRecords DEF SoConfig, SoTaskPcs
<1> HIDE DEF r
<1>4. /\ SoTasksOK' /\ soTask'[t] = r
      /\ \A u \in SoTasks \ {t} : soTask'[u] = soTask[u]
  BY <1>1, <1>2, <1>3, SoTaskSet
<1>5. SoTypeOK'
  BY <1>1, <1>2, <1>4 DEF SoTypeOK, SoTasksOK
<1>6. SoOneLoop'
  BY <1>1, <1>2, <1>3, <1>4 DEF SoOneLoop, SoLooping
<1>7. SoGuardLives'
  BY <1>2, <1>3, <1>4 DEF SoGuardLives
<1> QED
  BY <1>5, <1>6, <1>7 DEF SoInv

\* The guard loop sets the proxy again.
LEMMA SoGuardSetKeeps ==
  ASSUME SoInv, NEW t \in SoTasks, SoGuardSet(t) PROVE SoInv'
<1>1. SoTypeOK /\ SoOneLoop /\ SoGuardLives /\ SoTasksOK
  BY DEF SoInv, SoTypeOK, SoTasksOK
<1> DEFINE r == [Gone EXCEPT !.pc = "sleep"]
<1>2. /\ soTask[t].pc = "set" /\ soTask' = [soTask EXCEPT ![t] = r]
      /\ soOs' = [enable |-> TRUE, port |-> soTask[t].port] \/ soOs' = soOs
      /\ UNCHANGED <<soPhase, soCfg, soAuto, soLaunch, soCur, soOld, soGuard, soOriginal, soMissed>>
  BY DEF SoGuardSet
<1>3. r \in [pc : SoTaskPcs, port : SoPorts \cup {SoUserPort}] /\ r.pc = "sleep"
  BY SoRecords DEF SoTaskPcs
<1> HIDE DEF r
<1>4. /\ SoTasksOK' /\ soTask'[t] = r
      /\ \A u \in SoTasks \ {t} : soTask'[u] = soTask[u]
  BY <1>1, <1>2, <1>3, SoTaskSet
<1>5. soOs' \in Proxy
  <2>1. soOs \in Proxy /\ soTask[t].port \in SoPorts \cup {SoUserPort}
    BY <1>1 DEF SoTypeOK, SoTasksOK
  <2>2. [enable |-> TRUE, port |-> soTask[t].port] \in Proxy
    BY <2>1 DEF Proxy
  <2> QED
    BY <1>2, <2>1, <2>2
<1>6. SoTypeOK'
  BY <1>1, <1>2, <1>4, <1>5 DEF SoTypeOK, SoTasksOK
<1>7. SoOneLoop'
  BY <1>1, <1>2, <1>3, <1>4 DEF SoOneLoop, SoLooping
<1>8. SoGuardLives'
  BY <1>2, <1>3, <1>4 DEF SoGuardLives
<1> QED
  BY <1>6, <1>7, <1>8 DEF SoInv

\* A guard loop that was told to stop ends.
LEMMA SoGuardLeaveKeeps ==
  ASSUME SoInv, NEW t \in SoTasks, SoGuardLeave(t) PROVE SoInv'
<1>1. SoTypeOK /\ SoOneLoop /\ SoGuardLives /\ SoTasksOK
  BY DEF SoInv, SoTypeOK, SoTasksOK
<1>2. /\ soTask[t].pc = "leave" /\ soTask' = [soTask EXCEPT ![t] = Gone] /\ soGuard' = FALSE
      /\ UNCHANGED <<soPhase, soCfg, soOs, soAuto, soLaunch, soCur, soOld, soOriginal, soMissed>>
  BY DEF SoGuardLeave
<1>3. /\ SoTasksOK' /\ soTask'[t].pc = "none"
      /\ \A u \in SoTasks \ {t} : soTask'[u] = soTask[u]
  BY <1>1, <1>2, SoRecords, SoTaskSet
<1>4. SoTypeOK'
  BY <1>1, <1>2, <1>3 DEF SoTypeOK, SoTasksOK
<1>5. SoOneLoop'
  BY <1>1, <1>2, <1>3 DEF SoOneLoop, SoLooping
<1>6. SoGuardLives'
  BY <1>1, <1>2, <1>3 DEF SoGuardLives
<1> QED
  BY <1>4, <1>5, <1>6 DEF SoInv

\* A PAC task is no part of the guard.
LEMMA SoUpdatePacKeeps ==
  ASSUME SoInv, NEW t \in SoTasks, SoUpdatePac(t) PROVE SoInv'
<1>1. SoTypeOK /\ SoOneLoop /\ SoGuardLives /\ SoTasksOK
  BY DEF SoInv, SoTypeOK, SoTasksOK
<1>2. /\ soTask[t].pc = "pac" /\ soTask' = [soTask EXCEPT ![t] = Gone]
      /\ UNCHANGED <<soPhase, soCfg, soLaunch, soCur, soOld, soGuard, soOriginal, soMissed>>
  BY DEF SoUpdatePac
<1>3. soOs' \in Proxy /\ soAuto' \in BOOLEAN
  <2>1. soOs \in Proxy /\ soAuto \in BOOLEAN
    BY <1>1 DEF SoTypeOK
  <2>2. [enable |-> soCfg.enable, port |-> soCfg.port] \in Proxy
    BY <1>1 DEF SoTypeOK, SoConfig, Proxy
  <2>3. /\ soOs' = soOs \/ soOs' = [enable |-> soCfg.enable, port |-> soCfg.port]
        /\ soAuto' = soAuto \/ soAuto' = TRUE
    BY DEF SoUpdatePac, SetPacProxy, FallbackToDirectProxy
  <2> QED
    BY <2>1, <2>2, <2>3
<1>4. /\ SoTasksOK' /\ soTask'[t].pc = "none"
      /\ \A u \in SoTasks \ {t} : soTask'[u] = soTask[u]
  BY <1>1, <1>2, SoRecords, SoTaskSet
<1>5. SoTypeOK'
  BY <1>1, <1>2, <1>3, <1>4 DEF SoTypeOK, SoTasksOK
<1>6. SoOneLoop'
  BY <1>1, <1>2, <1>4 DEF SoOneLoop, SoLooping
<1>7. SoGuardLives'
  BY <1>1, <1>2, <1>4 DEF SoGuardLives
<1> QED
  BY <1>5, <1>6, <1>7 DEF SoInv

\* reset_sysproxy and the end of the process.
LEMMA SoResetKeeps == ASSUME SoInv, SoReset PROVE SoInv'
<1>1. SoTypeOK /\ SoOneLoop /\ SoGuardLives
  BY DEF SoInv
<1>2. ResetProxy \in Proxy
  <2>1. soOs \in Proxy /\ soCur \in Proxy \cup {NoProxy} /\ soOld \in Proxy \cup {NoProxy}
    BY <1>1 DEF SoTypeOK
  <2>2. ASSUME soOld # NoProxy
        PROVE  \A b \in BOOLEAN : [soOld EXCEPT !.enable = soOld.enable /\ b] \in Proxy
    BY <2>1, <2>2 DEF Proxy
  <2>3. ASSUME soCur # NoProxy PROVE [soCur EXCEPT !.enable = FALSE] \in Proxy
    BY <2>1, <2>3 DEF Proxy
  <2> QED
    BY <2>1, <2>2, <2>3 DEF ResetProxy
<1>3. /\ soPhase' = "reset" /\ soOs' \in Proxy /\ soAuto' \in BOOLEAN
      /\ soCur' = NoProxy /\ soOld' = NoProxy
      /\ UNCHANGED <<soCfg, soLaunch, soGuard, soTask, soOriginal, soMissed>>
  <2>1. soOs \in Proxy /\ soAuto \in BOOLEAN
    BY <1>1 DEF SoTypeOK
  <2>2. soOs' \in {ResetProxy, soOs} /\ soAuto' \in {FALSE, soAuto}
    BY DEF SoReset, DisablePacProxy
  <2> QED
    BY <1>2, <2>1, <2>2 DEF SoReset
<1>4. SoTypeOK'
  BY <1>1, <1>3 DEF SoTypeOK
<1>5. SoOneLoop' /\ SoGuardLives'
  BY <1>1, <1>3 DEF SoOneLoop, SoGuardLives
<1> QED
  BY <1>4, <1>5 DEF SoInv

\* The application exits and restores what it recorded.
LEMMA SoExitKeeps == ASSUME SoInv, SoExit PROVE SoInv'
<1>1. SoTypeOK
  BY DEF SoInv
<1>2. /\ soPhase' = "over" /\ soTask' = [t \in SoTasks |-> Gone] /\ soGuard' = FALSE
      /\ UNCHANGED <<soCfg, soOs, soAuto, soLaunch, soCur, soOld, soOriginal, soMissed>>
  BY DEF SoExit
<1>3. /\ soTask' \in [SoTasks -> [pc : SoTaskPcs, port : SoPorts \cup {SoUserPort}]]
      /\ \A t \in SoTasks : soTask'[t].pc = "none"
  BY <1>2, SoNoneLoops
<1>4. SoTypeOK'
  BY <1>1, <1>2, <1>3 DEF SoTypeOK
<1>5. SoOneLoop' /\ SoGuardLives'
  BY <1>2, <1>3 DEF SoOneLoop, SoGuardLives, SoLooping
<1> QED
  BY <1>4, <1>5 DEF SoInv

\* Every step, and a step that changes nothing, keeps the invariant.
LEMMA SoStep == SoInv /\ [SoNext]_soVars => SoInv'
<1> SUFFICES ASSUME SoInv, [SoNext]_soVars PROVE SoInv'
  OBVIOUS
<1>1. CASE SoStart \/ SoReset \/ SoExit
  BY <1>1, SoStartKeeps, SoResetKeeps, SoExitKeeps
<1>2. ASSUME NEW on \in BOOLEAN,
             SoPatchLaunch(on) \/ SoPatchProxy(on) \/ SoPatchGuard(on) \/ SoPatchPac(on)
      PROVE  SoInv'
  BY <1>2, SoPatchLaunchKeeps, SoPatchProxyKeeps, SoPatchGuardKeeps, SoPatchPacKeeps
<1>3. ASSUME NEW p \in SoPorts, SoPatchPort(p) PROVE SoInv'
  BY <1>3, SoPatchPortKeeps
<1>4. ASSUME NEW t \in SoTasks,
             SoGuardEnter(t) \/ SoGuardWake(t) \/ SoGuardSet(t) \/ SoGuardLeave(t) \/ SoUpdatePac(t)
      PROVE  SoInv'
  BY <1>4, SoGuardEnterKeeps, SoGuardWakeKeeps, SoGuardSetKeeps, SoGuardLeaveKeeps, SoUpdatePacKeeps
<1>5. CASE UNCHANGED soVars
  BY <1>5 DEF soVars, SoInv, SoTypeOK, SoOneLoop, SoGuardLives
<1> QED
  BY <1>1, <1>2, <1>3, <1>4, <1>5 DEF SoNext

\* The invariant in the words of SoGuarded: one loop is a set of one.
LEMMA SoCounted == ASSUME SoInv PROVE SoGuarded
<1> DEFINE loops == {t \in SoTasks : soTask[t].pc \in {"sleep", "set", "leave"}}
<1>1. Cardinality(loops) = IF soGuard THEN 1 ELSE 0
  <2>1. CASE soGuard
    <3>1. PICK t \in SoTasks : loops = {t}
      BY <2>1 DEF SoInv, SoOneLoop, SoLooping
    <3> QED
      BY <2>1, <3>1, FS_Singleton
  <2>2. CASE ~soGuard
    <3>1. loops = {}
      BY <2>2 DEF SoInv, SoOneLoop, SoLooping
    <3> QED
      BY <2>2, <3>1, FS_EmptySet
  <2> QED
    BY <2>1, <2>2
<1>2. soPhase = "up" /\ soCfg.enable /\ soCfg.guard /\ ~soMissed
        => \E t \in SoTasks : soTask[t].pc \in {"enter", "sleep", "set", "leave"}
  BY DEF SoInv, SoGuardLives
<1> QED
  BY <1>1, <1>2 DEF SoGuarded

\* The variables keep their types, whatever calls and tasks interleave.
THEOREM SoTypeCorrect == SoSpec => []SoTypeOK
<1>1. SoInv => SoTypeOK
  BY DEF SoInv
<1> QED
  BY <1>1, SoStartsInv, SoStep, PTL DEF SoSpec

\* guard_proxy, called on every path that switches the guard on, and guard_state
\* between them keep exactly one guard loop where one is wanted: never two, for any
\* number of tasks spawned, and none missing unless a call met a loop that had
\* already decided to stop.
THEOREM GuardIsKept == SoSpec => []SoGuarded
<1>1. SoInv => SoGuarded
  BY SoCounted
<1> QED
  BY <1>1, SoStartsInv, SoStep, PTL DEF SoSpec

-------------------------------------------------------------------------------
(* The migration runner (core/migration).                                     *)

\* What a store says of the documents is true of them: a completed step's are
\* converted; so are those of a step its module's baseline covers and nobody has run;
\* and a revision above the baseline counts as applied only for steps that were run.
MgTrue(s) ==
  \A x \in MgStep :
    /\ s.task[x] = "Completed" => mgDoc[x] = "new"
    /\ x[1] \in s.known /\ x[2] <= s.base[x[1]] /\ s.task[x] = "none" => mgDoc[x] = "new"
    /\ x[1] \in s.known /\ s.base[x[1]] < x[2] /\ x[2] <= s.applied[x[1]] => s.task[x] # "none"

\* The step a process is at exists, and while it is being run the store, on disk too,
\* says that it is in progress.
MgMarked ==
  /\ mgRun.only = NoStep /\ mgRun.at[1] \in MgModules => mgRun.at \in MgStep
  /\ mgRun.at[1] > 0
  /\ mgRun.pc \in {"run", "ran", "undo"} =>
       /\ mgRun.at \in MgStep
       /\ mgDisk.task[mgRun.at] = "InProgress" /\ mgStore.task[mgRun.at] = "InProgress"
  /\ mgRun.pc = "ran" => mgDoc[mgRun.at] = "new"

\* What every step keeps.
MgInv == MgTypeOK /\ MgTrue(mgDisk) /\ MgTrue(mgStore) /\ MgMarked

MgStoreOK(s) ==
  s \in Stores /\ \A m \in MgModules : s.base[m] <= s.applied[m] /\ s.applied[m] <= MgSteps[m]

\* A step is a module and one of its revisions.
LEMMA MgStepIs ==
  /\ \A x \in MgStep : x = <<x[1], x[2]>> /\ x[1] \in MgModules /\ x[2] \in Revisions(x[1])
  /\ \A m \in MgModules : \A r \in Revisions(m) : <<m, r>> \in MgStep
  /\ MgModules \subseteq Nat /\ \A m \in MgModules : m > 0 /\ MgSteps[m] \in Nat /\ MgSteps[m] > 0
<1>1. Len(MgSteps) \in Nat /\ \A m \in 1..Len(MgSteps) : MgSteps[m] \in Nat \ {0}
  BY MgAssumption
<1>2. MgModules \subseteq Nat /\ \A m \in MgModules : m > 0 /\ MgSteps[m] \in Nat /\ MgSteps[m] > 0
  BY <1>1 DEF MgModules
<1>3. ASSUME NEW x \in MgStep
      PROVE  x = <<x[1], x[2]>> /\ x[1] \in MgModules /\ x[2] \in Revisions(x[1])
  <2>1. PICK m \in MgModules : x \in {m} \X Revisions(m)
    BY DEF MgStep
  <2> QED
    BY <2>1
<1>4. ASSUME NEW m \in MgModules, NEW r, r \in Revisions(m) PROVE <<m, r>> \in MgStep
  BY <1>4 DEF MgStep
<1> QED
  BY <1>2, <1>3, <1>4

\* Of finitely many numbers there is a greatest.
LEMMA MgGreatest ==
  ASSUME NEW N \in Nat, NEW S, S \subseteq 0..N, S # {}
  PROVE  \E n \in S : \A k \in S : k <= n
<1> DEFINE R == {p \in Nat \X Nat : p[1] < p[2]}
           T == {N - n : n \in S}
<1>1. T \subseteq Nat
  OBVIOUS
<1>2. T # {}
  <2>1. PICK n : n \in S
    OBVIOUS
  <2>2. N - n \in T
    BY <2>1
  <2> QED
    BY <2>2
<1>3. IsWellFoundedOn(R, Nat)
  BY NatLessThanWellFounded DEF OpToRel
<1> HIDE DEF R, T
<1>4. PICK x \in T : \A y \in T : ~ (<<y, x>> \in R)
  BY <1>1, <1>2, <1>3, WFMin
<1>5. PICK n \in S : x = N - n
  BY DEF T
<1>6. ASSUME NEW k \in S PROVE k <= n
  <2>1. N - k \in T /\ N - k \in Nat /\ x \in Nat
    BY <1>1 DEF T
  <2>2. ~(<<N - k, x>> \in R)
    BY <2>1, <1>4
  <2>3. ~(N - k < x)
    BY <2>1, <2>2 DEF R
  <2> QED
    BY <2>1, <2>3, <1>5
<1> QED
  BY <1>6

\* A process that has not begun, or is over, has an empty store.
LEMMA MgEmpty ==
  /\ MgStoreOK(EmptyStore) /\ MgTrue(EmptyStore)
  /\ Down \in [pc : {"down", "loop", "run", "ran", "undo"}, force : BOOLEAN,
               target : MgTargets \cup {0}, only : MgStep \cup {NoStep},
               at : Nat \X Nat, failed : BOOLEAN]
  /\ Down.pc = "down" /\ Down.at = <<1, 1>>
<1>1. MgStoreOK(EmptyStore)
  BY MgStepIs DEF MgStoreOK, EmptyStore, Stores, TaskStates
<1>2. MgTrue(EmptyStore)
  BY DEF MgTrue, EmptyStore
<1> QED
  BY <1>1, <1>2 DEF Down, NoStep

\* Its place is a step.
LEMMA MgFirst ==
  /\ <<1, 1>>[1] \in MgModules => <<1, 1>> \in MgStep
  /\ \A m \in Nat : <<m + 1, 1>>[1] \in MgModules => <<m + 1, 1>> \in MgStep
  BY MgStepIs DEF Revisions

\* The next place after a step, and after its module.
LEMMA MgNextPlace ==
  ASSUME NEW x \in MgStep
  PROVE  /\ After(x) \in Nat \X Nat /\ After(x)[1] > 0
         /\ After(x)[1] \in MgModules => After(x) \in MgStep
         /\ NextModule(x) \in Nat \X Nat /\ NextModule(x)[1] > 0
         /\ NextModule(x)[1] \in MgModules => NextModule(x) \in MgStep
<1>1. x[1] \in Nat /\ x[1] > 0 /\ x[2] \in Nat /\ x[2] > 0
  BY MgStepIs DEF Revisions
<1>2. /\ NextModule(x) \in Nat \X Nat /\ NextModule(x)[1] > 0
      /\ NextModule(x)[1] \in MgModules => NextModule(x) \in MgStep
  BY <1>1, MgFirst DEF NextModule
<1>3. CASE x[2] < MgSteps[x[1]]
  <2>1. x[1] \in MgModules /\ x[2] + 1 \in Revisions(x[1])
    BY <1>1, <1>3, MgStepIs DEF Revisions
  <2>2. <<x[1], x[2] + 1>> \in MgStep
    BY <2>1, MgStepIs
  <2> QED
    BY <1>1, <1>2, <1>3, <2>2 DEF After
<1>4. CASE ~(x[2] < MgSteps[x[1]])
  BY <1>2, <1>4 DEF After
<1> QED
  BY <1>2, <1>3, <1>4

\* A record of a step that is not complete.
LEMMA MgRecords ==
  ASSUME NEW s, MgStoreOK(s), MgTrue(s), NEW x \in MgStep,
         NEW state \in {"InProgress", "Failed"}
  PROVE  LET t == [s EXCEPT !.task[x] = state]
         IN  /\ MgStoreOK(t) /\ MgTrue(t) /\ t.task[x] = state
<1> DEFINE t == [s EXCEPT !.task[x] = state]
<1>1. /\ t \in Stores /\ t.base = s.base /\ t.applied = s.applied /\ t.known = s.known
      /\ t.task[x] = state /\ \A y \in MgStep \ {x} : t.task[y] = s.task[y]
  BY DEF MgStoreOK, Stores, TaskStates
<1> HIDE DEF t
<1>2. MgStoreOK(t)
  BY <1>1 DEF MgStoreOK
<1>3. MgTrue(t)
  BY <1>1 DEF MgTrue
<1> QED
  BY <1>1, <1>2, <1>3 DEF t

\* A completed step: its module's revision moves over steps that were all completed.
LEMMA MgBumps ==
  ASSUME NEW s, MgStoreOK(s), MgTrue(s), NEW x \in MgStep, mgDoc[x] = "new"
  PROVE  LET t == BumpModule(MarkCompleted(s, x), x[1]) IN MgStoreOK(t) /\ MgTrue(t)
<1> DEFINE u == MarkCompleted(s, x)
           m == x[1]
           whole == {n \in u.base[m]..MgSteps[m] :
                       \A r \in (u.base[m] + 1)..n : u.task[<<m, r>>] = "Completed"}
           top == CHOOSE n \in whole : \A k \in whole : k <= n
           t == BumpModule(u, m)
<1>1. /\ u \in Stores /\ u.base = s.base /\ u.applied = s.applied /\ u.known = s.known
      /\ u.task[x] = "Completed" /\ \A y \in MgStep \ {x} : u.task[y] = s.task[y]
  BY DEF MgStoreOK, Stores, TaskStates, MarkCompleted
<1>2. MgTrue(u)
  BY <1>1 DEF MgTrue
<1>3. t = [u EXCEPT !.applied[m] = top]
  BY DEF BumpModule
<1>4. m \in MgModules /\ MgSteps[m] \in Nat /\ u.base[m] \in Nat /\ u.base[m] <= MgSteps[m]
  <2>1. m \in MgModules /\ MgSteps[m] \in Nat
    BY MgStepIs
  <2>2. s.base[m] \in Nat /\ s.applied[m] \in Nat /\ s.base[m] <= s.applied[m] /\ s.applied[m] <= MgSteps[m]
    BY <2>1 DEF MgStoreOK, Stores
  <2> QED
    BY <1>1, <2>1, <2>2
<1> HIDE DEF u, m, t
<1>5. top \in whole
  <2>1. whole \subseteq 0..MgSteps[m]
    BY <1>4
  <2>2. whole # {}
    BY <1>4
  <2> HIDE DEF whole
  <2>3. \E n \in whole : \A k \in whole : k <= n
    BY <1>4, <2>1, <2>2, MgGreatest
  <2> QED
    BY <2>3
<1> HIDE DEF top
<1>6. /\ top \in Nat /\ u.base[m] <= top /\ top <= MgSteps[m]
      /\ \A r \in (u.base[m] + 1)..top : u.task[<<m, r>>] = "Completed"
  BY <1>4, <1>5
<1>7. /\ t \in Stores /\ t.base = u.base /\ t.known = u.known /\ t.task = u.task
      /\ t.applied[m] = top /\ \A k \in MgModules \ {m} : t.applied[k] = u.applied[k]
  BY <1>1, <1>3, <1>4, <1>6 DEF Stores
<1>8. MgStoreOK(t)
  <2> SUFFICES ASSUME NEW k \in MgModules
               PROVE  t.base[k] <= t.applied[k] /\ t.applied[k] <= MgSteps[k]
    BY <1>7 DEF MgStoreOK
  <2>1. CASE k = m
    BY <1>6, <1>7, <2>1
  <2>2. CASE k # m
    BY <1>1, <1>7, <2>2 DEF MgStoreOK
  <2> QED
    BY <2>1, <2>2
<1>9. MgTrue(t)
  <2> SUFFICES ASSUME NEW y \in MgStep, y[1] \in t.known, t.base[y[1]] < y[2], y[2] <= t.applied[y[1]]
               PROVE  t.task[y] # "none"
    BY <1>2, <1>7 DEF MgTrue
  <2>1. y = <<y[1], y[2]>> /\ y[1] \in MgModules /\ y[2] \in Nat
    BY MgStepIs DEF Revisions
  <2>2. CASE y[1] = m
    <3>1. y[2] \in (u.base[m] + 1)..top
      BY <1>4, <1>6, <1>7, <2>1, <2>2
    <3> QED
      BY <1>6, <1>7, <2>1, <2>2, <3>1
  <2>3. CASE y[1] # m
    BY <1>2, <1>7, <2>1, <2>3 DEF MgTrue
  <2> QED
    BY <2>2, <2>3
<1> QED
  BY <1>8, <1>9 DEF t, u, m

\* The baseline of a module the store does not know is what its documents say.
LEMMA MgBaselines ==
  ASSUME NEW s, MgStoreOK(s), MgTrue(s)
  PROVE  MgStoreOK(EnsureBaselines(s)) /\ MgTrue(EnsureBaselines(s))
<1> DEFINE base == [m \in MgModules |-> IF m \in s.known THEN s.base[m] ELSE DetectBaseline(m)]
           applied == [m \in MgModules |-> IF m \in s.known THEN s.applied[m] ELSE base[m]]
           t == EnsureBaselines(s)
<1>1. t = [s EXCEPT !.base = base, !.known = MgModules, !.applied = applied]
  BY DEF EnsureBaselines
<1>2. ASSUME NEW m \in MgModules
      PROVE  /\ DetectBaseline(m) \in Nat /\ DetectBaseline(m) <= MgSteps[m]
             /\ \A r \in Revisions(m) : r <= DetectBaseline(m) => mgDoc[<<m, r>>] = "new"
             /\ s.base[m] \in Nat /\ s.applied[m] \in Nat /\ MgSteps[m] \in Nat
             /\ s.base[m] <= s.applied[m] /\ s.applied[m] <= MgSteps[m]
  <2>1. MgSteps[m] \in Nat
    BY MgStepIs
  <2>2. \A r \in Revisions(m) : r \in Nat /\ r > 0
    BY DEF Revisions
  <2>3. s.base[m] \in Nat /\ s.applied[m] \in Nat /\ s.base[m] <= s.applied[m] /\ s.applied[m] <= MgSteps[m]
    BY DEF MgStoreOK, Stores
  <2>4. CASE \A r \in Revisions(m) : mgDoc[<<m, r>>] = "new"
    BY <2>1, <2>2, <2>3, <2>4 DEF DetectBaseline
  <2>5. CASE ~ \A r \in Revisions(m) : mgDoc[<<m, r>>] = "new"
    <3>1. DetectBaseline(m) = 0
      BY <2>5 DEF DetectBaseline
    <3> QED
      BY <2>1, <2>2, <2>3, <3>1
  <2> QED
    BY <2>4, <2>5
<1>3. ASSUME NEW m \in MgModules
      PROVE  /\ base[m] \in Nat /\ applied[m] \in Nat
             /\ base[m] <= applied[m] /\ applied[m] <= MgSteps[m]
             /\ m \in s.known => base[m] = s.base[m] /\ applied[m] = s.applied[m]
             /\ m \notin s.known => base[m] = DetectBaseline(m) /\ applied[m] = base[m]
  BY <1>2
<1>4. base \in [MgModules -> Nat] /\ applied \in [MgModules -> Nat]
  BY <1>3
<1> HIDE DEF base, applied, t
<1>5. /\ t \in Stores /\ t.base = base /\ t.applied = applied /\ t.known = MgModules
      /\ t.task = s.task
  BY <1>1, <1>4 DEF MgStoreOK, Stores
<1>6. MgStoreOK(t)
  BY <1>3, <1>5 DEF MgStoreOK
<1>7. MgTrue(t)
  <2> SUFFICES ASSUME NEW x \in MgStep
               PROVE  /\ x[2] <= base[x[1]] /\ s.task[x] = "none" => mgDoc[x] = "new"
                      /\ base[x[1]] < x[2] /\ x[2] <= applied[x[1]] => s.task[x] # "none"
    BY <1>5 DEF MgTrue
  <2>1. x = <<x[1], x[2]>> /\ x[1] \in MgModules /\ x[2] \in Revisions(x[1]) /\ x[2] \in Nat
    BY MgStepIs DEF Revisions
  <2>2. CASE x[1] \in s.known
    BY <1>3, <2>1, <2>2 DEF MgTrue
  <2>3. CASE x[1] \notin s.known
    <3>1. base[x[1]] = DetectBaseline(x[1]) /\ applied[x[1]] = base[x[1]] /\ base[x[1]] \in Nat
      BY <1>3, <2>1, <2>3
    <3>2. x[2] <= base[x[1]] => mgDoc[<<x[1], x[2]>>] = "new"
      BY <1>2, <2>1, <3>1
    <3> QED
      BY <2>1, <3>1, <3>2
  <2> QED
    BY <2>2, <2>3
<1> QED
  BY <1>6, <1>7 DEF t

MgRuns == [pc : {"down", "loop", "run", "ran", "undo"}, force : BOOLEAN,
           target : MgTargets \cup {0}, only : MgStep \cup {NoStep},
           at : Nat \X Nat, failed : BOOLEAN]

\* The parts of the invariant.
LEMMA MgParts ==
  MgInv <=> /\ mgDoc \in [MgStep -> {"old", "new", "half"}]
            /\ MgStoreOK(mgDisk) /\ MgStoreOK(mgStore) /\ mgRun \in MgRuns
            /\ MgTrue(mgDisk) /\ MgTrue(mgStore) /\ MgMarked
  BY DEF MgInv, MgTypeOK, MgStoreOK, MgRuns

\* Where a process that is down, or in its loop, may be.
LEMMA MgPlaced ==
  ASSUME NEW r \in MgRuns, r.pc \in {"down", "loop"}, mgRun' = r,
         r.at[1] > 0, r.at[1] \in MgModules => r.at \in MgStep
  PROVE  MgMarked'
  BY DEF MgMarked

\* The first start.
LEMMA MgStartsInv == MgInit => MgInv
<1> SUFFICES ASSUME MgInit PROVE MgInv
  OBVIOUS
<1>1. mgDoc \in [MgStep -> {"old", "new", "half"}]
  BY DEF MgInit
<1>2. mgDisk = EmptyStore /\ mgStore = EmptyStore /\ mgRun = Down
  BY DEF MgInit
<1>3. Down \in MgRuns
  BY MgEmpty DEF MgRuns
<1>4. MgMarked
  BY <1>2, MgEmpty, MgFirst DEF MgMarked
<1> QED
  BY <1>1, <1>2, <1>3, <1>4, MgEmpty, MgParts

\* A process starts with the baselines recorded, or not at all.
LEMMA MgLaunchKeeps ==
  ASSUME MgInv, NEW force \in BOOLEAN, NEW target \in MgTargets, NEW only \in MgStep \cup {NoStep},
         MgLaunch(force, target, only)
  PROVE  MgInv'
<1> DEFINE s == EnsureBaselines(mgDisk)
           at == IF only = NoStep THEN <<1, 1>> ELSE only
           run == [Down EXCEPT !.pc = "loop", !.force = force, !.target = target,
                               !.only = only, !.at = at]
<1>1. /\ MgStoreOK(mgDisk) /\ MgTrue(mgDisk)
      /\ mgDoc \in [MgStep -> {"old", "new", "half"}]
  BY MgParts
<1>2. MgStoreOK(s) /\ MgTrue(s)
  BY <1>1, MgBaselines
<1>3. \/ mgStore' = s /\ mgDisk' = s /\ mgRun' = run /\ UNCHANGED mgDoc
      \/ UNCHANGED mgVars
  BY DEF MgLaunch, Flush
<1>4. at \in Nat \X Nat /\ at[1] > 0 /\ (at[1] \in MgModules => at \in MgStep)
  <2>1. \A x \in MgStep : x \in Nat \X Nat /\ x[1] > 0
    BY MgStepIs DEF Revisions
  <2> QED
    BY <2>1, MgFirst
<1>5. run \in MgRuns /\ run.pc = "loop" /\ run.at = at
  BY <1>4, MgEmpty DEF MgRuns
<1> HIDE DEF s, at, run
<1>6. CASE UNCHANGED mgVars
  BY <1>6 DEF mgVars, MgInv, MgTypeOK, MgTrue, MgMarked
<1>7. CASE mgStore' = s /\ mgDisk' = s /\ mgRun' = run /\ UNCHANGED mgDoc
  <2>1. MgMarked'
    BY <1>4, <1>5, <1>7, MgPlaced
  <2>2. MgStoreOK(mgDisk)' /\ MgStoreOK(mgStore)' /\ MgTrue(mgDisk)' /\ MgTrue(mgStore)'
    BY <1>2, <1>7 DEF MgStoreOK, MgTrue
  <2> QED
    BY <1>1, <1>5, <1>7, <2>1, <2>2, MgParts DEF MgInv, MgTypeOK, MgStoreOK, MgRuns
<1> QED
  BY <1>3, <1>6, <1>7

\* A process in its loop is at a step unless it is past the last one.
LEMMA MgAtStep ==
  ASSUME MgInv, mgRun.pc = "loop", ~Past
  PROVE  At \in MgStep
<1>1. mgRun.only \in MgStep \cup {NoStep} /\ mgRun.at \in Nat \X Nat /\ mgRun.at[1] > 0
      /\ (mgRun.only = NoStep /\ mgRun.at[1] \in MgModules => mgRun.at \in MgStep)
  BY MgParts DEF MgRuns, MgMarked
<1>2. CASE mgRun.only # NoStep
  BY <1>1, <1>2 DEF Past, At
<1>3. CASE mgRun.only = NoStep
  <2>1. ~(mgRun.at[1] > Len(MgSteps)) /\ Len(MgSteps) \in Nat
    BY <1>3, MgAssumption DEF Past, At
  <2>2. mgRun.at[1] \in 1..Len(MgSteps)
    BY <1>1, <2>1
  <2> QED
    BY <1>1, <1>3, <2>2 DEF MgModules, At
<1> QED
  BY <1>2, <1>3

\* Going on with the next step, and with the next module.
LEMMA MgGoesOn ==
  ASSUME mgRun \in MgRuns, NEW x \in MgStep
  PROVE  /\ LET r == [mgRun EXCEPT !.pc = "loop", !.at = After(x)]
            IN  /\ r \in MgRuns /\ r.pc = "loop" /\ r.at[1] > 0
                /\ r.at[1] \in MgModules => r.at \in MgStep
         /\ LET r == [mgRun EXCEPT !.pc = "loop", !.at = NextModule(x), !.failed = TRUE]
            IN  /\ r \in MgRuns /\ r.pc = "loop" /\ r.at[1] > 0
                /\ r.at[1] \in MgModules => r.at \in MgStep
  BY MgNextPlace DEF MgRuns

\* A step that is not due.
LEMMA MgSkipKeeps == ASSUME MgInv, MgSkip PROVE MgInv'
<1>1. At \in MgStep /\ mgRun.pc = "loop"
  BY MgAtStep DEF MgSkip
<1>2. /\ mgRun' = [mgRun EXCEPT !.at = After(At)] /\ UNCHANGED <<mgDoc, mgDisk, mgStore>>
      /\ mgRun \in MgRuns
  BY MgParts DEF MgSkip
<1>3. After(At) \in Nat \X Nat /\ After(At)[1] > 0 /\ (After(At)[1] \in MgModules => After(At) \in MgStep)
  BY <1>1, MgNextPlace
<1>4. mgRun' \in MgRuns /\ mgRun'.pc = "loop" /\ mgRun'.at = After(At)
  BY <1>1, <1>2, <1>3 DEF MgRuns
<1>5. MgMarked'
  BY <1>3, <1>4, MgPlaced
<1>6. MgTrue(mgDisk)' /\ MgTrue(mgStore)'
  BY <1>2 DEF MgInv, MgTrue
<1> QED
  BY <1>2, <1>4, <1>5, <1>6 DEF MgInv, MgTypeOK, MgRuns

\* run_step marks the step, and stops the module when the mark cannot be written.
LEMMA MgMarkKeeps == ASSUME MgInv, MgMark PROVE MgInv'
<1> DEFINE x == At
           s == MarkInProgress(mgStore, At)
<1>1. x \in MgStep /\ x = mgRun.at /\ mgRun.pc = "loop"
  BY MgAtStep DEF MgMark, At
<1>2. PICK ok \in BOOLEAN :
        /\ Flush(ok, s) /\ mgStore' = s /\ UNCHANGED mgDoc
        /\ IF ok THEN mgRun' = [mgRun EXCEPT !.pc = "run"]
           ELSE mgRun' = [mgRun EXCEPT !.pc = "loop", !.at = NextModule(x), !.failed = TRUE]
  BY DEF MgMark, StopModule
<1>3. /\ MgStoreOK(mgStore) /\ MgTrue(mgStore) /\ MgStoreOK(mgDisk) /\ MgTrue(mgDisk)
      /\ mgRun \in MgRuns /\ mgDoc \in [MgStep -> {"old", "new", "half"}] /\ MgMarked
  BY MgParts
<1>4. MgStoreOK(s) /\ MgTrue(s) /\ s.task[x] = "InProgress"
  BY <1>1, <1>3, MgRecords DEF MarkInProgress
<1> HIDE DEF x, s
<1>5. MgTrue(mgStore)' /\ MgStoreOK(mgStore)' /\ mgDisk' \in {s, mgDisk} /\ (ok => mgDisk' = s)
  BY <1>2, <1>4 DEF MgTrue, MgStoreOK, Flush
<1>6. MgTrue(mgDisk)' /\ MgStoreOK(mgDisk)'
  BY <1>2, <1>3, <1>4, <1>5 DEF MgTrue, MgStoreOK
<1>7. mgRun' \in MgRuns /\ MgMarked'
  <2>1. CASE ok
    <3>1. mgRun' \in MgRuns /\ mgRun'.pc = "run" /\ mgRun'.at = x /\ mgRun'.only = mgRun.only
      BY <1>1, <1>2, <1>3, <2>1 DEF MgRuns
    <3>2. x[1] > 0
      BY <1>1, <1>3 DEF MgMarked
    <3>3. mgDisk'.task[x] = "InProgress" /\ mgStore'.task[x] = "InProgress"
      BY <1>2, <1>4, <1>5, <2>1
    <3> QED
      BY <1>1, <3>1, <3>2, <3>3 DEF MgMarked
  <2>2. CASE ~ok
    <3> DEFINE r == [mgRun EXCEPT !.pc = "loop", !.at = NextModule(x), !.failed = TRUE]
    <3>1. r \in MgRuns /\ r.pc = "loop" /\ r.at[1] > 0 /\ (r.at[1] \in MgModules => r.at \in MgStep)
      BY <1>1, <1>3, MgGoesOn
    <3>2. mgRun' = r
      BY <1>2, <2>2
    <3> HIDE DEF r
    <3> QED
      BY <3>1, <3>2, MgPlaced
  <2> QED
    BY <2>1, <2>2
<1> QED
  BY <1>2, <1>3, <1>5, <1>6, <1>7 DEF MgInv, MgTypeOK, MgStoreOK, MgRuns

\* The step touches its documents while both stores say it is in progress.
LEMMA MgRunStepKeeps == ASSUME MgInv, MgRunStep PROVE MgInv'
<1>1. /\ MgStoreOK(mgStore) /\ MgTrue(mgStore) /\ MgStoreOK(mgDisk) /\ MgTrue(mgDisk)
      /\ mgRun \in MgRuns /\ mgDoc \in [MgStep -> {"old", "new", "half"}] /\ MgMarked
  BY MgParts
<1> DEFINE x == mgRun.at
<1>2. /\ x \in MgStep /\ mgDisk.task[x] = "InProgress" /\ mgStore.task[x] = "InProgress" /\ x[1] > 0
      /\ mgRun.pc = "run"
  BY <1>1 DEF MgMarked, MgRunStep
<1>3. \E doc \in {"old", "new", "half"} : mgDoc' = [mgDoc EXCEPT ![x] = doc] \/ mgDoc' = mgDoc
  BY DEF MgRunStep, At
<1>4. /\ mgDoc' \in [MgStep -> {"old", "new", "half"}]
      /\ \A y \in MgStep \ {x} : mgDoc'[y] = mgDoc[y]
  BY <1>1, <1>3
<1>5. /\ UNCHANGED <<mgDisk, mgStore>>
      /\ \/ mgRun' = [mgRun EXCEPT !.pc = "ran"] /\ mgDoc' = [mgDoc EXCEPT ![x] = "new"]
         \/ mgRun' = [mgRun EXCEPT !.pc = "undo"]
  BY DEF MgRunStep, At
<1>6. /\ mgRun' \in MgRuns /\ mgRun'.at = x /\ mgRun'.only = mgRun.only
      /\ mgRun'.pc \in {"ran", "undo"} /\ (mgRun'.pc = "ran" => mgDoc'[x] = "new")
  BY <1>1, <1>2, <1>5 DEF MgRuns
<1> HIDE DEF x
<1>7. MgMarked'
  BY <1>2, <1>5, <1>6 DEF MgMarked
<1>8. MgTrue(mgDisk)' /\ MgTrue(mgStore)'
  BY <1>1, <1>2, <1>4, <1>5 DEF MgTrue
<1> QED
  BY <1>1, <1>4, <1>5, <1>6, <1>7, <1>8 DEF MgInv, MgTypeOK, MgStoreOK, MgRuns

\* A step that ran is recorded, and the module's revision moves on.
LEMMA MgCompleteKeeps == ASSUME MgInv, MgComplete PROVE MgInv'
<1>1. /\ MgStoreOK(mgStore) /\ MgTrue(mgStore) /\ MgStoreOK(mgDisk) /\ MgTrue(mgDisk)
      /\ mgRun \in MgRuns /\ mgDoc \in [MgStep -> {"old", "new", "half"}] /\ MgMarked
  BY MgParts
<1> DEFINE x == mgRun.at
           s == BumpModule(MarkCompleted(mgStore, x), x[1])
           on == [mgRun EXCEPT !.pc = "loop", !.at = After(x)]
           stop == [mgRun EXCEPT !.pc = "loop", !.at = NextModule(x), !.failed = TRUE]
<1>2. x \in MgStep /\ mgDoc[x] = "new"
  BY <1>1 DEF MgMarked, MgComplete
<1>3. /\ mgStore' = s /\ mgDisk' \in {s, mgDisk} /\ UNCHANGED mgDoc
      /\ mgRun' = on \/ mgRun' = stop
  BY DEF MgComplete, StopModule, Flush, At
<1>4. MgStoreOK(s) /\ MgTrue(s)
  BY <1>1, <1>2, MgBumps
<1>5. /\ on \in MgRuns /\ on.pc = "loop" /\ on.at[1] > 0 /\ (on.at[1] \in MgModules => on.at \in MgStep)
      /\ stop \in MgRuns /\ stop.pc = "loop" /\ stop.at[1] > 0
      /\ stop.at[1] \in MgModules => stop.at \in MgStep
  BY <1>1, <1>2, MgGoesOn
<1> HIDE DEF s, on, stop
<1>6. MgMarked' /\ mgRun' \in MgRuns
  BY <1>3, <1>5, MgPlaced
<1>7. MgTrue(mgDisk)' /\ MgTrue(mgStore)' /\ MgStoreOK(mgDisk)' /\ MgStoreOK(mgStore)'
  BY <1>1, <1>3, <1>4 DEF MgTrue, MgStoreOK
<1> QED
  BY <1>1, <1>3, <1>6, <1>7 DEF MgInv, MgTypeOK, MgStoreOK, MgRuns

\* A step that failed is rolled back, or not, and recorded as failed.
LEMMA MgFailKeeps == ASSUME MgInv, MgFail PROVE MgInv'
<1>1. /\ MgStoreOK(mgStore) /\ MgTrue(mgStore) /\ MgStoreOK(mgDisk) /\ MgTrue(mgDisk)
      /\ mgRun \in MgRuns /\ mgDoc \in [MgStep -> {"old", "new", "half"}] /\ MgMarked
  BY MgParts
<1> DEFINE x == mgRun.at
           s == MarkFailed(mgStore, x)
           stop == [mgRun EXCEPT !.pc = "loop", !.at = NextModule(x), !.failed = TRUE]
<1>2. x \in MgStep /\ mgDisk.task[x] = "InProgress"
  BY <1>1 DEF MgMarked, MgFail
<1>3. /\ mgStore' = s /\ mgDisk' \in {s, mgDisk} /\ mgRun' = stop
      /\ mgDoc' \in {mgDoc, [mgDoc EXCEPT ![x] = "old"]}
  BY DEF MgFail, StopModule, Flush, At
<1>4. MgStoreOK(s) /\ MgTrue(s) /\ s.task[x] = "Failed"
  BY <1>1, <1>2, MgRecords DEF MarkFailed
<1>5. stop \in MgRuns /\ stop.pc = "loop" /\ stop.at[1] > 0 /\ (stop.at[1] \in MgModules => stop.at \in MgStep)
  BY <1>1, <1>2, MgGoesOn
<1> HIDE DEF s, stop
<1>6. MgMarked' /\ mgRun' \in MgRuns
  BY <1>3, <1>5, MgPlaced
<1>7. mgDoc' \in [MgStep -> {"old", "new", "half"}] /\ \A y \in MgStep \ {x} : mgDoc'[y] = mgDoc[y]
  BY <1>1, <1>3
<1>8. MgTrue(mgStore)' /\ MgStoreOK(mgDisk)' /\ MgStoreOK(mgStore)'
  BY <1>1, <1>3, <1>4, <1>7 DEF MgTrue, MgStoreOK
<1>9. MgTrue(mgDisk)'
  BY <1>1, <1>2, <1>3, <1>4, <1>7 DEF MgTrue
<1> QED
  BY <1>6, <1>7, <1>8, <1>9 DEF MgInv, MgTypeOK, MgStoreOK, MgRuns

\* The process ends, or is killed: what it had in memory is gone.
LEMMA MgEndKeeps == ASSUME MgInv, MgFinish \/ MgCrash PROVE MgInv'
<1>1. /\ MgStoreOK(mgStore) /\ MgTrue(mgStore) /\ MgStoreOK(mgDisk) /\ MgTrue(mgDisk)
      /\ mgDoc \in [MgStep -> {"old", "new", "half"}]
  BY MgParts
<1>2. mgRun' = Down /\ mgStore' = EmptyStore /\ mgDisk' \in {mgStore, mgDisk} /\ UNCHANGED mgDoc
  BY DEF MgFinish, MgCrash, Flush
<1>3. Down \in MgRuns /\ Down.at[1] > 0 /\ (Down.at[1] \in MgModules => Down.at \in MgStep)
  BY MgEmpty, MgFirst DEF MgRuns
<1>4. MgMarked' /\ mgRun' \in MgRuns
  BY <1>2, <1>3, MgEmpty, MgPlaced
<1>5. MgTrue(mgStore)' /\ MgStoreOK(mgStore)'
  BY <1>2, MgEmpty DEF MgTrue, MgStoreOK, EmptyStore
<1>6. MgTrue(mgDisk)' /\ MgStoreOK(mgDisk)'
  BY <1>1, <1>2 DEF MgTrue, MgStoreOK
<1> QED
  BY <1>1, <1>2, <1>4, <1>5, <1>6 DEF MgInv, MgTypeOK, MgStoreOK, MgRuns

\* Every step, and a step that changes nothing, keeps the invariant.
LEMMA MgKeeps == MgInv /\ [MgNext]_mgVars => MgInv'
<1> SUFFICES ASSUME MgInv, [MgNext]_mgVars PROVE MgInv'
  OBVIOUS
<1>1. CASE UNCHANGED mgVars
  BY <1>1 DEF mgVars, MgInv, MgTypeOK, MgTrue, MgMarked
<1> QED
  BY <1>1, MgLaunchKeeps, MgSkipKeeps, MgMarkKeeps, MgRunStepKeeps, MgCompleteKeeps, MgFailKeeps,
     MgEndKeeps DEF MgNext

\* What the disk tells the next start to leave alone is converted.
LEMMA MgAdvised == ASSUME MgInv PROVE MgNoneSkipped
<1> SUFFICES ASSUME NEW x \in MgStep, x[1] \in mgDisk.known, NEW target \in MgTargets,
                    IntroducedInReached(x, target), Advice(mgDisk, FALSE, target, x) # "Pending"
             PROVE  mgDoc[x] = "new"
  BY DEF MgNoneSkipped
<1>1. /\ mgDisk.base[x[1]] \in Nat /\ mgDisk.applied[x[1]] \in Nat /\ x[2] \in Nat
  <2>1. x[1] \in MgModules /\ x[2] \in Nat
    BY MgStepIs DEF Revisions
  <2>2. mgDisk \in Stores
    BY DEF MgInv, MgTypeOK
  <2> QED
    BY <2>1, <2>2 DEF Stores
<1>2. MgTrue(mgDisk)
  BY DEF MgInv
<1>3. CASE mgDisk.task[x] = "Completed"
  BY <1>2, <1>3 DEF MgTrue
<1>4. CASE mgDisk.task[x] # "Completed"
  <2>1. mgDisk.task[x] = "none" /\ ~(x[2] > mgDisk.applied[x[1]])
    BY <1>4 DEF Advice
  <2> QED
    BY <1>1, <1>2, <2>1 DEF MgTrue
<1> QED
  BY <1>3, <1>4

\* Whatever was killed, failed or forced: the stores and the process keep their types.
THEOREM MgTypeCorrect == MgSpec => []MgTypeOK
<1>1. MgInv => MgTypeOK
  BY DEF MgInv
<1> QED
  BY <1>1, MgStartsInv, MgKeeps, PTL DEF MgSpec

\* For any registry of modules and steps: a step that the store on disk tells the next
\* start not to run has its documents converted, whatever was killed, failed to be
\* written, or forced to run again before.
THEOREM NoneIsSkipped == MgSpec => []MgNoneSkipped
<1>1. MgInv => MgNoneSkipped
  BY MgAdvised
<1> QED
  BY <1>1, MgStartsInv, MgKeeps, PTL DEF MgSpec

-------------------------------------------------------------------------------
(* The websocket connector (core/clash/ws.rs).                                *)

\* A message that will have the stream of kind k opened again.
CcReopens(m, k) == m.msg \in {"StreamClosed", "Reconnect"} /\ m.kind = k
CcAwaited(box, k) == \E i \in 1..Len(box) : CcReopens(box[i], k)

\* The types the properties need; the identities of streams are not among them.
CcShape ==
  /\ ccBox \in Seq(CcMessages) /\ ccTimers \in [CcKinds -> Nat] /\ ccHist \in [CcKinds -> Nat]
  /\ DOMAIN ccHandler = CcKinds /\ ccHandler = [k \in CcKinds |-> ccHandler[k]]
  /\ \A k \in CcKinds : ccHandler[k].kind \in {k, "none"}
  /\ \A s \in ccLive : s.kind \in CcKinds
  /\ ccWanted \in [CcKinds -> BOOLEAN] /\ ccStale \in [CcKinds -> BOOLEAN]

\* The actor holds the handle of the only stream of a kind.
CcHeld(k) == {s \in ccLive : s.kind = k} \subseteq {ccHandler[k]}

\* A stream that was opened runs, or something will open it again.
CcRemembered(k) ==
  ccWanted[k] => \/ \E s \in ccLive : s.kind = k
                 \/ ccTimers[k] > 0
                 \/ CcAwaited(ccBox, k)

\* What every step keeps.
CcInv ==
  /\ CcShape
  /\ \A k \in CcKinds : ccUp /\ ~ccStale[k] => CcHeld(k) /\ CcRemembered(k)
  /\ \A k \in CcKinds : ccHist[k] <= CcLimit

\* Messages behind another, and before it.
LEMMA CcQueue ==
  ASSUME NEW box \in Seq(CcMessages), NEW k \in CcKinds
  PROVE  /\ \A m \in CcMessages :
              /\ Append(box, m) \in Seq(CcMessages)
              /\ CcAwaited(box, k) => CcAwaited(Append(box, m), k)
              /\ CcReopens(m, k) => CcAwaited(Append(box, m), k)
         /\ box # <<>> =>
              /\ Tail(box) \in Seq(CcMessages) /\ Head(box) \in CcMessages
              /\ CcAwaited(box, k) /\ ~CcReopens(Head(box), k) => CcAwaited(Tail(box), k)
<1>1. ASSUME NEW m \in CcMessages
      PROVE  /\ Append(box, m) \in Seq(CcMessages)
             /\ CcAwaited(box, k) => CcAwaited(Append(box, m), k)
             /\ CcReopens(m, k) => CcAwaited(Append(box, m), k)
  <2>1. /\ Append(box, m) \in Seq(CcMessages) /\ Len(Append(box, m)) = Len(box) + 1
        /\ Append(box, m)[Len(box) + 1] = m /\ Len(box) \in Nat
        /\ \A i \in 1..Len(box) : Append(box, m)[i] = box[i]
    OBVIOUS
  <2>2. CcAwaited(box, k) => CcAwaited(Append(box, m), k)
    BY <2>1 DEF CcAwaited
  <2>3. CcReopens(m, k) => CcAwaited(Append(box, m), k)
    <3>1. Len(box) + 1 \in 1..Len(Append(box, m))
      BY <2>1
    <3> QED
      BY <2>1, <3>1 DEF CcAwaited
  <2> QED
    BY <2>1, <2>2, <2>3
<1>2. ASSUME box # <<>>
      PROVE  /\ Tail(box) \in Seq(CcMessages) /\ Head(box) \in CcMessages
             /\ CcAwaited(box, k) /\ ~CcReopens(Head(box), k) => CcAwaited(Tail(box), k)
  <2>1. /\ Tail(box) \in Seq(CcMessages) /\ Head(box) = box[1] /\ Len(box) \in Nat /\ Len(box) > 0
        /\ Len(Tail(box)) = Len(box) - 1 /\ \A i \in 1..Len(Tail(box)) : Tail(box)[i] = box[i + 1]
    BY <1>2
  <2>2. Head(box) \in CcMessages
    BY <2>1
  <2>3. ASSUME CcAwaited(box, k), ~CcReopens(Head(box), k) PROVE CcAwaited(Tail(box), k)
    <3>1. PICK i \in 1..Len(box) : CcReopens(box[i], k)
      BY <2>3 DEF CcAwaited
    <3>2. i # 1
      BY <2>1, <2>3, <3>1
    <3>3. i - 1 \in 1..Len(Tail(box)) /\ (i - 1) + 1 = i
      BY <2>1, <3>2
    <3> QED
      BY <2>1, <3>1, <3>3 DEF CcAwaited
  <2> QED
    BY <2>1, <2>2, <2>3
<1> QED
  BY <1>1, <1>2

\* A message's kind.
LEMMA CcKindOf ==
  /\ \A m \in CcMessages : m.msg \in {"Reconnect", "StreamClosed", "Update"} => m.kind \in CcKinds
  /\ \A k \in CcKinds : /\ [msg |-> "Reconnect", kind |-> k] \in CcMessages
                        /\ [msg |-> "StreamClosed", kind |-> k] \in CcMessages
                        /\ [msg |-> "Update", kind |-> k] \in CcMessages
                        /\ CcReopens([msg |-> "Reconnect", kind |-> k], k)
                        /\ CcReopens([msg |-> "StreamClosed", kind |-> k], k)
  /\ \A type \in {"Start", "Stop", "Restart"} : [msg |-> type] \in CcMessages
  BY DEF CcMessages, CcReopens

\* Opening streams: each kind that connects has one, whose handle is held; a kind that
\* does not has none; the others' streams and handles stay.
LEMMA CcStarts ==
  ASSUME CcShape, NEW kinds \in SUBSET CcKinds, NEW opened \in SUBSET kinds,
         StartStreams(kinds, opened)
  PROVE  /\ DOMAIN ccHandler' = CcKinds /\ ccHandler' = [k \in CcKinds |-> ccHandler'[k]]
         /\ \A k \in CcKinds : ccHandler'[k].kind \in {k, "none"}
         /\ \A s \in ccLive' : s.kind \in CcKinds
         /\ \A k \in kinds : CcHeld(k) => CcHeld(k)'
         /\ \A k \in opened : \E s \in ccLive' : s.kind = k
         /\ \A k \in CcKinds \ kinds : /\ ccHandler'[k] = ccHandler[k]
                                       /\ {s \in ccLive' : s.kind = k} = {s \in ccLive : s.kind = k}
<1> DEFINE live == Stopped(kinds)
           assign == CHOOSE f \in [opened -> CcStreams] :
                        /\ \A j, k \in opened : j # k => f[j] # f[k]
                        /\ \A k \in opened, l \in live : l.id # f[k]
           new(k) == [id |-> assign[k], kind |-> k]
<1>1. /\ ccHandler' = [k \in CcKinds |-> IF k \in opened THEN new(k)
                                         ELSE IF k \in kinds THEN NoStream ELSE ccHandler[k]]
      /\ ccLive' = live \cup {new(k) : k \in opened}
  BY DEF StartStreams
<1>2. \A k : new(k).kind = k
  OBVIOUS
<1>3. live = ccLive \ {ccHandler[k] : k \in kinds}
  BY DEF Stopped
<1> HIDE DEF new, live, assign
<1>4. /\ \A k \in opened : ccHandler'[k] = new(k)
      /\ \A k \in kinds \ opened : ccHandler'[k] = NoStream
      /\ \A k \in CcKinds \ kinds : ccHandler'[k] = ccHandler[k]
      /\ DOMAIN ccHandler' = CcKinds /\ ccHandler' = [k \in CcKinds |-> ccHandler'[k]]
  BY <1>1
<1>5. \A k \in CcKinds : ccHandler'[k].kind \in {k, "none"}
  <2> SUFFICES ASSUME NEW k \in CcKinds PROVE ccHandler'[k].kind \in {k, "none"}
    OBVIOUS
  <2>1. CASE k \in opened
    BY <1>2, <1>4, <2>1
  <2>2. CASE k \in kinds \ opened
    <3>1. ccHandler'[k] = NoStream
      BY <1>4, <2>2
    <3> QED
      BY <3>1 DEF NoStream
  <2>3. CASE k \in CcKinds \ kinds
    BY <1>4, <2>3 DEF CcShape
  <2> QED
    BY <2>1, <2>2, <2>3
<1>6. ASSUME NEW k \in kinds, CcHeld(k) PROVE CcHeld(k)'
  <2>1. ASSUME NEW s \in ccLive', s.kind = k PROVE s = ccHandler'[k]
    <3>1. CASE s \in live
      BY <1>3, <1>6, <2>1, <3>1 DEF CcHeld
    <3>2. CASE s \notin live
      <4>1. PICK j \in opened : s = new(j)
        BY <1>1, <2>1, <3>2
      <4> QED
        BY <1>2, <1>4, <2>1, <4>1
    <3> QED
      BY <3>1, <3>2
  <2> QED
    BY <2>1 DEF CcHeld
<1>7. ASSUME NEW k \in opened PROVE \E s \in ccLive' : s.kind = k
  BY <1>1, <1>2
<1>8. ASSUME NEW k \in CcKinds \ kinds
      PROVE  {s \in ccLive' : s.kind = k} = {s \in ccLive : s.kind = k}
  <2>1. ASSUME NEW s, s.kind = k PROVE s \in ccLive' <=> s \in ccLive
    <3>1. \A j \in opened : s # new(j)
      BY <1>2, <1>8, <2>1
    <3>2. \A j \in kinds : s # ccHandler[j]
      BY <1>8, <2>1, CcAssumption DEF CcShape
    <3> QED
      BY <1>1, <1>3, <3>1, <3>2
  <2> QED
    BY <2>1
<1>9. \A s \in ccLive' : s.kind \in CcKinds
  BY <1>1, <1>2, <1>3 DEF CcShape
<1> QED
  BY <1>4, <1>5, <1>6, <1>7, <1>8, <1>9

\* Nothing runs yet.
LEMMA CcStartsInv == CcInit => CcInv
<1> SUFFICES ASSUME CcInit PROVE CcInv
  OBVIOUS
<1>1. CcShape
  BY DEF CcInit, CcShape, NoStream
<1>2. \A k \in CcKinds : CcHeld(k) /\ CcRemembered(k) /\ ccHist[k] <= CcLimit
  BY CcAssumption DEF CcInit, CcHeld, CcRemembered
<1> QED
  BY <1>1, <1>2 DEF CcInv

\* A message is put behind the others.
LEMMA CcPosted ==
  ASSUME CcShape, NEW m \in CcMessages, Post(m)
  PROVE  /\ ccBox' \in Seq(CcMessages)
         /\ \A k \in CcKinds : /\ CcAwaited(ccBox, k) => CcAwaited(ccBox', k)
                               /\ CcReopens(m, k) => CcAwaited(ccBox', k)
<1>1. ccBox \in Seq(CcMessages) /\ ccBox' = Append(ccBox, m)
  BY DEF CcShape, Post
<1>2. Append(ccBox, m) \in Seq(CcMessages)
  BY <1>1
<1> QED
  BY <1>1, <1>2, CcQueue

\* The actor takes the first message.
LEMMA CcTaken ==
  ASSUME CcShape, NEW type, Received(type)
  PROVE  /\ Tail(ccBox) \in Seq(CcMessages) /\ Head(ccBox) \in CcMessages /\ Head(ccBox).msg = type
         /\ \A k \in CcKinds : CcAwaited(ccBox, k) /\ ~CcReopens(Head(ccBox), k) => CcAwaited(Tail(ccBox), k)
<1>1. ccBox \in Seq(CcMessages) /\ ccBox # <<>> /\ Head(ccBox).msg = type
  BY DEF CcShape, Received
<1>2. Tail(ccBox) \in Seq(CcMessages) /\ Head(ccBox) \in CcMessages
  BY <1>1
<1> QED
  BY <1>1, <1>2, CcQueue

\* Calls and recordings, which no stream depends on.
LEMMA CcCallsKeep ==
  ASSUME CcInv,
         \/ \E type \in {"Start", "Stop", "Restart"} : CcCall(type)
         \/ \E k \in CcKinds : ClearHistory(k) \/ \E on \in BOOLEAN : SetRecording(k, on)
         \/ \E s \in ccLive : CcForward(s)
  PROVE  CcInv'
<1>1. CcShape
  BY DEF CcInv
<1>2. UNCHANGED <<ccHandler, ccLive, ccTimers, ccWanted, ccStale, ccUp>>
  BY DEF CcCall, ClearHistory, SetRecording, CcForward, ccLink
<1>3. /\ ccBox' \in Seq(CcMessages)
      /\ \A k \in CcKinds : CcAwaited(ccBox, k) => CcAwaited(ccBox', k)
  <2>1. ASSUME NEW m \in CcMessages, Post(m)
        PROVE  /\ ccBox' \in Seq(CcMessages)
               /\ \A k \in CcKinds : CcAwaited(ccBox, k) => CcAwaited(ccBox', k)
    BY <1>1, <2>1, CcPosted
  <2>2. \/ \E m \in CcMessages : Post(m)
        \/ UNCHANGED ccBox
    BY <1>1, CcKindOf DEF CcShape, CcCall, ClearHistory, SetRecording, CcForward
  <2> QED
    BY <1>1, <2>1, <2>2 DEF CcShape
<1>4. /\ ccHist' \in [CcKinds -> Nat]
      /\ \A k \in CcKinds : ccHist'[k] <= CcLimit
  <2>1. ccHist' = ccHist \/ \E k \in CcKinds : ccHist' = [ccHist EXCEPT ![k] = 0]
    BY DEF CcCall, ClearHistory, SetRecording, CcForward, ccData
  <2>2. ccHist \in [CcKinds -> Nat] /\ \A k \in CcKinds : ccHist[k] <= CcLimit
    BY DEF CcInv, CcShape
  <2> QED
    BY <2>1, <2>2, CcAssumption
<1> QED
  BY <1>1, <1>2, <1>3, <1>4 DEF CcInv, CcShape, CcHeld, CcRemembered

\* A stream ends by itself and says so.
LEMMA CcStreamEndsKeeps ==
  ASSUME CcInv, NEW s \in ccLive, CcStreamEnds(s) PROVE CcInv'
<1>1. CcShape /\ s.kind \in CcKinds /\ [msg |-> "StreamClosed", kind |-> s.kind] \in CcMessages
  BY CcKindOf DEF CcInv, CcShape
<1>2. /\ ccLive' = ccLive \ {s}
      /\ UNCHANGED <<ccHandler, ccTimers, ccWanted, ccStale, ccHist, ccUp>>
  BY DEF CcStreamEnds, ccData
<1>3. CASE ~ccUp
  BY <1>1, <1>2, <1>3 DEF CcInv, CcShape, CcStreamEnds
<1>4. CASE ccUp
  <2>1. /\ ccBox' \in Seq(CcMessages)
        /\ \A k \in CcKinds : /\ CcAwaited(ccBox, k) => CcAwaited(ccBox', k)
                              /\ k = s.kind => CcAwaited(ccBox', k)
    BY <1>1, <1>4, CcPosted, CcKindOf DEF CcStreamEnds
  <2>2. ASSUME NEW k \in CcKinds, CcHeld(k) PROVE CcHeld(k)'
    BY <1>2, <2>2 DEF CcHeld
  <2>3. ASSUME NEW k \in CcKinds, CcRemembered(k) PROVE CcRemembered(k)'
    BY <1>2, <2>1, <2>3 DEF CcRemembered
  <2>4. CcShape'
    BY <1>1, <1>2, <2>1 DEF CcShape
  <2> QED
    BY <1>2, <2>2, <2>3, <2>4 DEF CcInv
<1> QED
  BY <1>3, <1>4

\* Start and Restart: every kind once.
LEMMA CcStartKeeps == ASSUME CcInv, CcStart \/ CcRestart PROVE CcInv'
<1>1. PICK opened \in SUBSET CcKinds : StartAll(opened)
  BY DEF CcStart, CcRestart
<1>2. /\ CcShape /\ ccBox' = Tail(ccBox) /\ Tail(ccBox) \in Seq(CcMessages)
      /\ UNCHANGED <<ccTimers, ccStale, ccHist, ccUp>>
  BY CcTaken DEF CcInv, CcStart, CcRestart, ccData
<1>3. StartStreams(CcKinds, opened) /\ ccWanted' = [k \in CcKinds |-> k \in opened]
  BY <1>1 DEF StartAll
<1>4. /\ DOMAIN ccHandler' = CcKinds /\ ccHandler' = [k \in CcKinds |-> ccHandler'[k]]
      /\ \A k \in CcKinds : ccHandler'[k].kind \in {k, "none"}
      /\ \A s \in ccLive' : s.kind \in CcKinds
      /\ \A k \in CcKinds : CcHeld(k) => CcHeld(k)'
      /\ \A k \in opened : \E s \in ccLive' : s.kind = k
  BY <1>2, <1>3, CcStarts
<1>5. CcShape'
  BY <1>2, <1>3, <1>4 DEF CcShape
<1>6. \A k \in CcKinds : CcRemembered(k)'
  BY <1>3, <1>4 DEF CcRemembered
<1> QED
  BY <1>2, <1>4, <1>5, <1>6 DEF CcInv

\* Stop, and the end of the actor.
LEMMA CcStopKeeps == ASSUME CcInv, CcStop \/ CcPostStop PROVE CcInv'
<1>1. /\ CcShape /\ ccWanted' = [k \in CcKinds |-> FALSE]
      /\ ccLive' = ccLive \ {ccHandler[k] : k \in CcKinds}
      /\ ccHandler' = [k \in CcKinds |-> NoStream] /\ UNCHANGED <<ccTimers, ccHist>>
      /\ (ccUp' => ccUp)
  BY DEF CcInv, CcStop, CcPostStop, StopAll, Stopped, ccData
<1>2. ccBox' \in Seq(CcMessages)
  <2>1. CASE CcStop
    BY <1>1, <2>1, CcTaken DEF CcStop
  <2>2. CASE CcPostStop
    BY <2>2 DEF CcPostStop
  <2> QED
    BY <2>1, <2>2
<1>3. ccStale' \in [CcKinds -> BOOLEAN] /\ \A k \in CcKinds : ccStale[k] => ccStale'[k]
  <2>1. ccStale \in [CcKinds -> BOOLEAN]
    BY <1>1 DEF CcShape
  <2>2. ccStale' = ccStale \/ ccStale' = [k \in CcKinds |-> ccStale[k] \/ Pending(k)]
    BY DEF CcStop, CcPostStop
  <2>3. \A k \in CcKinds : Pending(k) \in BOOLEAN
    BY DEF Pending
  <2> QED
    BY <2>1, <2>2, <2>3
<1>4. CcShape'
  BY <1>1, <1>2, <1>3 DEF CcShape, NoStream
<1>5. ASSUME NEW k \in CcKinds, ccUp' /\ ~ccStale'[k] PROVE CcHeld(k)' /\ CcRemembered(k)'
  <2>1. CcHeld(k)
    BY <1>1, <1>3, <1>5 DEF CcInv
  <2> QED
    BY <1>1, <2>1 DEF CcHeld, CcRemembered
<1> QED
  BY <1>1, <1>4, <1>5 DEF CcInv

\* The end of a stream is noticed: its handle goes, and a Reconnect is on the way.
LEMMA CcStreamClosedKeeps == ASSUME CcInv, CcStreamClosed PROVE CcInv'
<1> DEFINE k == Head(ccBox).kind
           m == [msg |-> "Reconnect", kind |-> k]
<1>1. /\ CcShape /\ Tail(ccBox) \in Seq(CcMessages) /\ k \in CcKinds /\ m \in CcMessages
      /\ \A j \in CcKinds : CcAwaited(ccBox, j) /\ ~CcReopens(Head(ccBox), j) => CcAwaited(Tail(ccBox), j)
  BY CcTaken, CcKindOf DEF CcInv, CcStreamClosed
<1>2. /\ ccHandler' = [ccHandler EXCEPT ![k] = NoStream]
      /\ ccStale' = [ccStale EXCEPT ![k] = ccStale[k] \/ ccHandler[k] \in ccLive]
      /\ ccBox' = Append(Tail(ccBox), m)
      /\ UNCHANGED <<ccLive, ccTimers, ccWanted, ccHist, ccUp>>
  BY DEF CcStreamClosed, ccData
<1>3. \A j \in CcKinds \ {k} : ~CcReopens(Head(ccBox), j)
  BY DEF CcReopens
<1>4. CcReopens(m, k)
  BY DEF CcReopens
<1> HIDE DEF k, m
<1>5. /\ ccBox' \in Seq(CcMessages) /\ CcAwaited(ccBox', k)
      /\ \A j \in CcKinds \ {k} : CcAwaited(ccBox, j) => CcAwaited(ccBox', j)
  BY <1>1, <1>2, <1>3, <1>4, CcQueue
<1>6. /\ ccHandler'[k] = NoStream /\ \A j \in CcKinds \ {k} : ccHandler'[j] = ccHandler[j]
      /\ DOMAIN ccHandler' = CcKinds /\ ccHandler' = [j \in CcKinds |-> ccHandler'[j]]
  BY <1>1, <1>2 DEF CcShape
<1>7. /\ ccStale' \in [CcKinds -> BOOLEAN] /\ \A j \in CcKinds \ {k} : ccStale'[j] = ccStale[j]
      /\ ~ccStale'[k] => ~ccStale[k] /\ ccHandler[k] \notin ccLive
  BY <1>1, <1>2 DEF CcShape
<1>8. CcShape'
  BY <1>1, <1>2, <1>5, <1>6, <1>7 DEF CcShape, NoStream
<1>9. ASSUME NEW j \in CcKinds, ccUp' /\ ~ccStale'[j] PROVE CcHeld(j)' /\ CcRemembered(j)'
  <2>1. CASE j = k
    <3>1. CcHeld(k) /\ ccHandler[k] \notin ccLive
      BY <1>2, <1>7, <1>9, <2>1 DEF CcInv
    <3> QED
      BY <1>2, <1>5, <2>1, <3>1 DEF CcHeld, CcRemembered
  <2>2. CASE j # k
    <3>1. CcHeld(j) /\ CcRemembered(j)
      BY <1>2, <1>7, <1>9, <2>2 DEF CcInv
    <3> QED
      BY <1>2, <1>5, <1>6, <2>2, <3>1 DEF CcHeld, CcRemembered
  <2> QED
    BY <2>1, <2>2
<1> QED
  BY <1>2, <1>8, <1>9 DEF CcInv

\* A stream is opened again, or another attempt is due in a second.
LEMMA CcReconnectKeeps == ASSUME CcInv, CcReconnect PROVE CcInv'
<1> DEFINE k == Head(ccBox).kind
<1>1. /\ CcShape /\ Tail(ccBox) \in Seq(CcMessages) /\ k \in CcKinds
      /\ \A j \in CcKinds : CcAwaited(ccBox, j) /\ ~CcReopens(Head(ccBox), j) => CcAwaited(Tail(ccBox), j)
  BY CcTaken, CcKindOf DEF CcInv, CcReconnect
<1>2. PICK opened \in SUBSET {k} :
        /\ StartStreams({k}, opened)
        /\ \/ opened = {k} /\ ccWanted' = [ccWanted EXCEPT ![k] = TRUE] /\ UNCHANGED ccTimers
           \/ opened = {} /\ ccTimers' = [ccTimers EXCEPT ![k] = ccTimers[k] + 1] /\ UNCHANGED ccWanted
  BY DEF CcReconnect, RetryLater
<1>3. ccBox' = Tail(ccBox) /\ UNCHANGED <<ccStale, ccHist, ccUp>>
  BY DEF CcReconnect, ccData
<1>4. \A j \in CcKinds \ {k} : ~CcReopens(Head(ccBox), j)
  BY DEF CcReopens
<1> HIDE DEF k
<1>5. /\ DOMAIN ccHandler' = CcKinds /\ ccHandler' = [j \in CcKinds |-> ccHandler'[j]]
      /\ \A j \in CcKinds : ccHandler'[j].kind \in {j, "none"}
      /\ \A s \in ccLive' : s.kind \in CcKinds
      /\ \A j \in {k} : CcHeld(j) => CcHeld(j)'
      /\ \A j \in opened : \E s \in ccLive' : s.kind = j
      /\ \A j \in CcKinds \ {k} : /\ ccHandler'[j] = ccHandler[j]
                                  /\ {s \in ccLive' : s.kind = j} = {s \in ccLive : s.kind = j}
  <2>1. {k} \in SUBSET CcKinds
    BY <1>1
  <2> QED
    BY <1>1, <1>2, <2>1, CcStarts
<1>6. /\ ccTimers' \in [CcKinds -> Nat] /\ ccWanted' \in [CcKinds -> BOOLEAN]
      /\ \A j \in CcKinds \ {k} : ccTimers'[j] = ccTimers[j] /\ ccWanted'[j] = ccWanted[j]
      /\ opened = {k} \/ ccTimers'[k] > 0
  <2>1. /\ ccTimers \in [CcKinds -> Nat] /\ ccWanted \in [CcKinds -> BOOLEAN] /\ k \in CcKinds
    BY <1>1 DEF CcShape
  <2>2. CASE opened = {k} /\ ccWanted' = [ccWanted EXCEPT ![k] = TRUE] /\ UNCHANGED ccTimers
    BY <2>1, <2>2
  <2>3. CASE opened = {} /\ ccTimers' = [ccTimers EXCEPT ![k] = ccTimers[k] + 1] /\ UNCHANGED ccWanted
    <3>1. ccTimers[k] \in Nat /\ ccTimers'[k] = ccTimers[k] + 1
      BY <2>1, <2>3
    <3> QED
      BY <2>1, <2>3, <3>1
  <2> QED
    BY <1>2, <2>2, <2>3
<1>7. CcShape'
  BY <1>1, <1>3, <1>5, <1>6 DEF CcShape
<1>8. ASSUME NEW j \in CcKinds, ccUp' /\ ~ccStale'[j] PROVE CcHeld(j)' /\ CcRemembered(j)'
  <2>1. CcHeld(j) /\ CcRemembered(j)
    BY <1>3, <1>8 DEF CcInv
  <2>2. CASE j = k
    BY <1>5, <1>6, <2>1, <2>2 DEF CcRemembered
  <2>3. CASE j # k
    <3>1. CcHeld(j)'
      BY <1>5, <2>1, <2>3 DEF CcHeld
    <3>2. CcAwaited(ccBox, j) => CcAwaited(ccBox', j)
      BY <1>1, <1>3, <1>4, <2>3
    <3>3. (\E s \in ccLive : s.kind = j) => \E s \in ccLive' : s.kind = j
      BY <1>5, <2>3
    <3> QED
      BY <1>6, <2>1, <2>3, <3>1, <3>2, <3>3 DEF CcRemembered
  <2> QED
    BY <2>2, <2>3
<1> QED
  BY <1>3, <1>7, <1>8 DEF CcInv

\* A second later the attempt is in the mailbox.
LEMMA CcRetryKeeps == ASSUME CcInv, NEW k \in CcKinds, CcRetry(k) PROVE CcInv'
<1>1. CcShape /\ [msg |-> "Reconnect", kind |-> k] \in CcMessages
  BY CcKindOf DEF CcInv
<1>2. /\ ccTimers' = [ccTimers EXCEPT ![k] = ccTimers[k] - 1] /\ ccTimers[k] > 0
      /\ UNCHANGED <<ccHandler, ccLive, ccWanted, ccStale, ccHist, ccUp>>
  BY DEF CcRetry, ccData
<1>3. ccTimers' \in [CcKinds -> Nat] /\ \A j \in CcKinds \ {k} : ccTimers'[j] = ccTimers[j]
  BY <1>1, <1>2 DEF CcShape
<1>4. CASE ~ccUp
  BY <1>1, <1>2, <1>3, <1>4 DEF CcInv, CcShape, CcRetry
<1>5. CASE ccUp
  <2>1. /\ ccBox' \in Seq(CcMessages)
        /\ \A j \in CcKinds : /\ CcAwaited(ccBox, j) => CcAwaited(ccBox', j)
                              /\ j = k => CcAwaited(ccBox', j)
    BY <1>1, <1>5, CcPosted, CcKindOf DEF CcRetry
  <2>2. CcShape'
    BY <1>1, <1>2, <1>3, <2>1 DEF CcShape
  <2>3. ASSUME NEW j \in CcKinds, CcRemembered(j) PROVE CcRemembered(j)'
    BY <1>2, <1>3, <2>1, <2>3 DEF CcRemembered
  <2> QED
    BY <1>2, <2>2, <2>3 DEF CcInv, CcHeld
<1> QED
  BY <1>4, <1>5

\* A report is recorded, within the limit.
LEMMA CcUpdateKeeps == ASSUME CcInv, CcUpdate PROVE CcInv'
<1> DEFINE k == Head(ccBox).kind
<1>1. /\ CcShape /\ Tail(ccBox) \in Seq(CcMessages) /\ Head(ccBox).msg = "Update" /\ k \in CcKinds
      /\ \A j \in CcKinds : CcAwaited(ccBox, j) /\ ~CcReopens(Head(ccBox), j) => CcAwaited(Tail(ccBox), j)
  BY CcTaken, CcKindOf DEF CcInv, CcUpdate
<1>2. /\ ccBox' = Tail(ccBox) /\ UNCHANGED <<ccHandler, ccLive, ccTimers, ccWanted, ccStale, ccUp>>
      /\ ccHist' = ccHist \/ ccHist' = [ccHist EXCEPT ![k] = PushLimited(ccHist[k])]
  BY DEF CcUpdate, ccLink
<1>3. \A j \in CcKinds : CcAwaited(ccBox, j) => CcAwaited(ccBox', j)
  BY <1>1, <1>2 DEF CcReopens
<1> HIDE DEF k
<1>4. ccHist \in [CcKinds -> Nat] /\ \A j \in CcKinds : ccHist[j] <= CcLimit
  BY DEF CcInv, CcShape
<1>5. PushLimited(ccHist[k]) \in Nat /\ PushLimited(ccHist[k]) <= CcLimit
  BY <1>1, <1>4, CcAssumption DEF PushLimited
<1>6. ccHist' \in [CcKinds -> Nat] /\ \A j \in CcKinds : ccHist'[j] <= CcLimit
  BY <1>2, <1>4, <1>5
<1>7. CcShape'
  BY <1>1, <1>2, <1>6 DEF CcShape
<1> QED
  BY <1>2, <1>3, <1>6, <1>7 DEF CcInv, CcHeld, CcRemembered

\* Every step, and a step that changes nothing, keeps the invariant.
LEMMA CcKeeps == CcInv /\ [CcNext]_ccVars => CcInv'
<1> SUFFICES ASSUME CcInv, [CcNext]_ccVars PROVE CcInv'
  OBVIOUS
<1>1. CASE UNCHANGED ccVars
  BY <1>1 DEF ccVars, CcInv, CcShape, CcHeld, CcRemembered
<1> QED
  BY <1>1, CcCallsKeep, CcStreamEndsKeeps, CcStartKeeps, CcStopKeeps, CcStreamClosedKeeps,
     CcReconnectKeeps, CcRetryKeeps, CcUpdateKeeps DEF CcNext

\* A report is scaled to what the system has, clamped to it, or dropped.
LEMMA CcReported ==
  ASSUME NEW r \in CcReports
  PROVE  LET m == NormalizeMemory(r)
         IN  m.inuse <= IF m.oslimit > 0 THEN 2 * m.oslimit ELSE CcMaxReport
<1>1. r \in [inuse : Nat, oslimit : Nat] /\ CcMaxReport \in Nat
  BY CcAssumption
<1> DEFINE bits == IF r.inuse \div 8 <= 2 * r.oslimit THEN r.inuse \div 8 ELSE r.inuse
           scaled == Scale[bits, 2 * r.oslimit]
           kept == IF scaled <= 2 * r.oslimit THEN scaled ELSE r.oslimit
<1>2. NormalizeMemory(r) = IF r.oslimit > 0 /\ r.inuse > 2 * r.oslimit THEN [r EXCEPT !.inuse = kept]
                           ELSE IF r.oslimit = 0 /\ r.inuse > CcMaxReport THEN NoReport ELSE r
  BY DEF NormalizeMemory
<1> HIDE DEF scaled
<1>3. kept <= 2 * r.oslimit
  BY <1>1
<1> HIDE DEF kept
<1>4. CASE r.oslimit > 0 /\ r.inuse > 2 * r.oslimit
  <2>1. NormalizeMemory(r).inuse = kept /\ NormalizeMemory(r).oslimit = r.oslimit
    BY <1>1, <1>2, <1>4
  <2> QED
    BY <1>3, <1>4, <2>1
<1>5. CASE r.oslimit = 0 /\ r.inuse > CcMaxReport
  BY <1>1, <1>2, <1>5 DEF NoReport
<1>6. CASE ~(r.oslimit > 0 /\ r.inuse > 2 * r.oslimit) /\ ~(r.oslimit = 0 /\ r.inuse > CcMaxReport)
  BY <1>1, <1>2, <1>6
<1> QED
  BY <1>4, <1>5, <1>6

\* For any kinds of streams, streams, reports and limit, in whatever order streams end,
\* attempts come due and callers start, stop and restart: the actor holds the handle of
\* the only stream of a kind, no stream that was opened is forgotten, no history grows
\* past its limit and no report shows more memory than the system can have.
THEOREM StreamsAreKept == CcSpec => []CcStreamKept
<1>1. CcInv => CcStreamKept
  <2> SUFFICES ASSUME CcInv PROVE CcStreamKept
    OBVIOUS
  <2>1. ASSUME NEW k \in CcKinds, ccUp /\ ~ccStale[k]
        PROVE  LET live == {s \in ccLive : s.kind = k}
               IN  /\ live \subseteq {ccHandler[k]}
                   /\ ccWanted[k] => \/ live # {} \/ ccTimers[k] > 0
                                     \/ \E i \in 1..Len(ccBox) :
                                           /\ ccBox[i].msg \in {"StreamClosed", "Reconnect"}
                                           /\ ccBox[i].kind = k
    BY <2>1 DEF CcInv, CcHeld, CcRemembered, CcAwaited, CcReopens
  <2>2. \A k \in CcKinds : ccHist[k] <= CcLimit
    BY DEF CcInv
  <2> QED
    BY <2>1, <2>2, CcReported DEF CcStreamKept
<1> QED
  BY <1>1, CcStartsInv, CcKeeps, PTL DEF CcSpec

-------------------------------------------------------------------------------
(* Updates of the core (core/updater).                                        *)

\* The state an update shows while it replaces a core.
CuPhased(q) ==
  /\ q.pc \in CuPcs \ {"wait", "restart"} => q.state = "Replacing"
  /\ q.pc = "restart" => q.state = "Restarting"

\* Only the update that holds the lifecycle lease is past its wait for it.
CuLeased ==
  \A u \in CuUpdaters : /\ cuUpd[u].pc # "wait" => cuLease = u
                       /\ CuPhased(cuUpd[u])

\* The core that runs is of the configured kind; while the binary of that very
\* kind is being written there is none.
CuQuiet ==
  /\ CuRunning => cuProc.core = cuCurrent
  /\ \A u \in CuUpdaters :
       cuUpd[u].pc \in CuPcs \ {"wait", "stop"} /\ cuUpd[u].core = cuCurrent => ~CuRunning

\* What every step keeps.
CuInv == CuTypeOK /\ CuLeased /\ CuQuiet /\ CuUpdatesSound

\* The states, phases and progress that the handlers name.
LEMMA CuNames ==
  /\ "Unused" \in CuStates /\ "Idle" \in CuStates /\ "Downloading" \in CuStates
  /\ "Decompressing" \in CuStates /\ "Replacing" \in CuStates /\ "Restarting" \in CuStates
  /\ "Done" \in CuStates /\ "Failed" \in CuStates
  /\ "wait" \in CuPcs /\ "stop" \in CuPcs /\ "copy" \in CuPcs /\ "copying" \in CuPcs
  /\ "elevate" \in CuPcs /\ "elevating" \in CuPcs /\ "restart" \in CuPcs
  /\ "Idle" \in SessionStates /\ "Downloading" \in SessionStates
  /\ "Failed" \in SessionStates /\ "Finished" \in SessionStates
  BY DEF CuStates, CuPcs, SessionStates

\* A handler that gives one update the record r.
LEMMA CuChanged ==
  ASSUME CuTypeOK, NEW u \in CuUpdaters, NEW r \in CuUpdate, cuUpd' = [cuUpd EXCEPT ![u] = r]
  PROVE  /\ cuUpd' \in [CuUpdaters -> CuUpdate] /\ cuUpd'[u] = r
         /\ \A v \in CuUpdaters \ {u} : cuUpd'[v] = cuUpd[v]
  BY DEF CuTypeOK

\* Where replace_core goes on is what the handler says.
LEMMA CuGoesOn ==
  ASSUME CuTypeOK, NEW u \in CuUpdaters
  PROVE  /\ \A t, p : Dispatch(u, t, p) => cuUpd'[u].pc = p
         /\ \A p : cuUpd' = [cuUpd EXCEPT ![u].pc = p] => cuUpd'[u].pc = p
<1>1. ASSUME NEW t, NEW p, Dispatch(u, t, p) PROVE cuUpd'[u].pc = p
  BY <1>1 DEF CuTypeOK, CuUpdate, Dispatch
<1>2. ASSUME NEW p, cuUpd' = [cuUpd EXCEPT ![u].pc = p] PROVE cuUpd'[u].pc = p
  BY <1>2 DEF CuTypeOK, CuUpdate
<1> QED
  BY <1>1, <1>2

\* A core that was stopped.
LEMMA CuStoppedTyped == CuStopped \in [core : CuCores, bin : Binaries \cup {"no instance", "stopped"}]
  BY CuAssumption DEF CuStopped

\* The application starts with every update unused, the lease free and no process.
LEMMA CuInvInit == CuInit => CuInv
<1> SUFFICES ASSUME CuInit PROVE CuInv
  OBVIOUS
<1> USE CuAssumption DEF CuInit
<1>1. CuTypeOK
  <2>1. cuUpd \in [CuUpdaters -> CuUpdate]
    BY CuNames DEF CuUpdate
  <2>2. cuProc \in [core : CuCores, bin : Binaries \cup {"no instance", "stopped"}]
    BY DEF NoInstance
  <2>3. cuManifest \in 0..CuReleases /\ cuBin \in [CuCores -> Binaries]
    BY DEF Binaries
  <2> QED
    BY <2>1, <2>2, <2>3 DEF CuTypeOK
<1>2. ~CuRunning
  BY DEF CuRunning
<1>3. CuLeased /\ CuQuiet
  BY <1>2 DEF CuLeased, CuPhased, CuQuiet
<1>4. CuUpdatesSound
  BY <1>2 DEF CuUpdatesSound, CuRunsInstalled, CuFollowed
<1> QED
  BY <1>1, <1>3, <1>4 DEF CuInv

\* run_core, recover_core, stop_core, change_core and a process that ends keep it: none
\* of them can happen beside an update that is past its wait.
LEMMA CuApplicationKeeps ==
  ASSUME CuInv, CuRunCore \/ CuStopCore \/ CuCrash \/ (\E c \in CuCores : CuChangeCore(c))
  PROVE  CuInv'
<1> USE CuAssumption, CuLeaseAssumption DEF CuInv
<1>1. /\ cuUpd' = cuUpd /\ cuLease' = cuLease /\ cuBin' = cuBin
      /\ cuMirror' = cuMirror /\ cuManifest' = cuManifest
  BY DEF CuRunCore, CuStopCore, CuCrash, CuChangeCore, cuNews
<1>2. CuLeased' /\ CuFollowed'
  BY <1>1 DEF CuLeased, CuFollowed, CuUpdatesSound
<1>3. ASSUME cuProc' = CuStopped, cuCurrent' \in CuCores
      PROVE  CuInv'
  <2>1. cuProc' \in [core : CuCores, bin : Binaries \cup {"no instance", "stopped"}]
    BY <1>3 DEF CuStopped
  <2>2. ~CuRunning'
    BY <1>3 DEF CuRunning
  <2> QED
    BY <1>1, <1>2, <1>3, <2>1, <2>2 DEF CuTypeOK, CuQuiet, CuUpdatesSound, CuRunsInstalled
<1>4. ASSUME cuProc' = [core |-> cuCurrent', bin |-> cuBin[cuCurrent']], cuCurrent' \in CuCores,
             cuLease = NoUpdater
      PROVE  CuInv'
  <2>1. \A u \in CuUpdaters : cuUpd'[u].pc = "wait"
    BY <1>1, <1>4 DEF CuLeased, NoUpdater
  <2>2. cuProc' \in [core : CuCores, bin : Binaries \cup {"no instance", "stopped"}]
    BY <1>4 DEF CuTypeOK
  <2>3. CuTypeOK'
    BY <1>1, <1>4, <2>2 DEF CuTypeOK
  <2>4. CuQuiet' /\ CuRunsInstalled'
    BY <1>1, <1>4, <2>1 DEF CuQuiet, CuRunsInstalled
  <2> QED
    BY <1>2, <2>3, <2>4 DEF CuUpdatesSound
<1>5. CASE CuCrash \/ CuStopCore
  BY <1>3, <1>5 DEF CuCrash, CuStopCore, CuTypeOK
<1>6. CASE CuRunCore
  BY <1>3, <1>4, <1>6 DEF CuRunCore, CuRun, CuTypeOK
<1>7. ASSUME NEW c \in CuCores, CuChangeCore(c) PROVE CuInv'
  BY <1>3, <1>4, <1>7 DEF CuChangeCore, CuRun, CuTypeOK
<1> QED
  BY <1>5, <1>6, <1>7

\* How an update changes outside replace_core: not its phase, its core only when it is
\* accepted, and what CuFollowed says of one update stays true.
CuProgress(q, r) ==
  /\ r.pc = q.pc
  /\ r.core = q.core \/ q.state = "Unused"
  /\ q.state \in {"Replacing", "Restarting"} => r.state = q.state
  /\ r.state # "Unused" => r.release \in 1..cuManifest
  /\ r.state \notin {"Unused", "Done", "Failed"} => r.kept = "yes"
  /\ r.state \in CuStates \ {"Unused", "Idle", "Downloading", "Failed"} => r.session = "Finished"

\* The manager's own requests (a speed test, a manifest, an update accepted or inspected)
\* and the download keep it: they touch no core and no lease.
LEMMA CuRequestsKeep ==
  ASSUME CuInv,
         \/ CuHourPasses \/ FetchLatest
         \/ \E u \in CuUpdaters : \/ \E c \in CuCores : CuUpdateCore(u, c)
                                  \/ InspectUpdater(u) \/ OnEvent(u) \/ CuFetch(u)
  PROVE  CuInv'
<1> USE CuAssumption DEF CuInv
<1>1. CASE CuHourPasses \/ FetchLatest
  <2>1. /\ UNCHANGED <<cuUpd, cuLease, cuCurrent, cuProc, cuBin>>
        /\ cuMirror' \in {"none", "fresh", "old"}
    BY <1>1 DEF CuHourPasses, FetchLatest, MirrorSpeedTest
  <2>2. cuManifest' \in 0..CuReleases /\ cuManifest \in 0..CuReleases /\ cuManifest' >= cuManifest
    <3>1. cuManifest \in 0..CuReleases
      BY DEF CuTypeOK
    <3> QED
      BY <1>1, <3>1 DEF CuHourPasses, FetchLatest
  <2>3. CuTypeOK' /\ CuLeased'
    BY <2>1, <2>2 DEF CuTypeOK, CuLeased
  <2>4. CuFollowed'
    <3> SUFFICES ASSUME NEW u \in CuUpdaters, cuUpd[u].state # "Unused"
                 PROVE  cuUpd[u].release \in 1..cuManifest'
      BY <2>1 DEF CuFollowed, CuUpdatesSound
    <3>1. cuUpd[u].release \in 1..cuManifest
      BY DEF CuFollowed, CuUpdatesSound
    <3> QED
      BY <2>2, <3>1
  <2>5. CuQuiet' /\ CuRunsInstalled'
    BY <2>1 DEF CuQuiet, CuRunsInstalled, CuRunning, CuUpdatesSound
  <2> QED
    BY <2>3, <2>4, <2>5 DEF CuUpdatesSound
<1>2. ASSUME NEW u \in CuUpdaters,
             \/ \E c \in CuCores : CuUpdateCore(u, c)
             \/ InspectUpdater(u) \/ OnEvent(u) \/ CuFetch(u)
      PROVE  CuInv'
  <2>0. cuUpd[u] \in CuUpdate /\ cuUpd[u].pc \in CuPcs
    BY DEF CuTypeOK, CuUpdate
  <2>1. /\ UNCHANGED <<cuLease, cuCurrent, cuProc, cuBin, cuManifest>>
        /\ cuMirror' \in {"none", "fresh", "old"}
    BY <1>2 DEF CuUpdateCore, InspectUpdater, OnEvent, CuFetch, MirrorSpeedTest, CuTypeOK, cuNews
  <2> DEFINE q == cuUpd[u]
             Progress(r) == r \in CuUpdate /\ cuUpd' = [cuUpd EXCEPT ![u] = r] /\ CuProgress(q, r)
  <2>2. CuProgress(q, q)
    BY DEF CuProgress, CuFollowed, CuUpdatesSound
  <2>3. q.pc # "wait" => q.state \in {"Replacing", "Restarting"}
    BY <2>0 DEF CuLeased, CuPhased
  <2>4. \E r : Progress(r)
    <3>0. CASE UNCHANGED cuUpd
      <4>1. cuUpd' = [cuUpd EXCEPT ![u] = q]
        BY <3>0 DEF CuTypeOK
      <4> QED
        BY <2>0, <2>2, <4>1
    <3>1. ASSUME NEW c \in CuCores, CuUpdateCore(u, c), GetMatches(c),
                 cuUpd' = [cuUpd EXCEPT ![u] = [@ EXCEPT !.state = "Idle", !.core = c,
                                                !.release = cuManifest, !.kept = "yes"]]
          PROVE  \E r : Progress(r)
      <4> DEFINE r == [q EXCEPT !.state = "Idle", !.core = c, !.release = cuManifest,
                                !.kept = "yes"]
      <4>0. cuManifest \in 0..CuReleases /\ cuManifest \in 1..cuManifest
        <5>1. cuManifest \in 0..CuReleases
          BY DEF CuTypeOK
        <5>2. cuManifest > 0
          BY <3>1 DEF GetMatches
        <5> QED
          BY <5>1, <5>2
      <4>1. r \in CuUpdate /\ r.state = "Idle" /\ r.release = cuManifest /\ r.kept = "yes"
            /\ r.pc = q.pc
        BY <2>0, <4>0, CuNames DEF CuUpdate
      <4>2. q.state = "Unused"
        BY <3>1 DEF CuUpdateCore
      <4>3. CuProgress(q, r)
        BY <4>0, <4>1, <4>2 DEF CuProgress
      <4> QED
        BY <3>1, <4>1, <4>3
    <3>2. ASSUME NEW k \in {"removing", "no"}, cuUpd' = [cuUpd EXCEPT ![u].kept = k],
                 q.state \in {"Done", "Failed"} \/ q.kept = "removing"
          PROVE  \E r : Progress(r)
      <4> DEFINE r == [q EXCEPT !.kept = k]
      <4>1. r \in CuUpdate /\ r.state = q.state /\ r.pc = q.pc /\ r.core = q.core
            /\ r.release = q.release /\ r.session = q.session
        BY <2>0 DEF CuUpdate
      <4>2. CuProgress(q, r)
        BY <2>2, <3>2, <4>1 DEF CuProgress
      <4> QED
        BY <3>2, <4>1, <4>2
    <3>3. ASSUME NEW e \in SessionStates, NEW t \in {"Downloading", "Failed"},
                 q.state = "Downloading",
                 \/ cuUpd' = [cuUpd EXCEPT ![u].session = e] /\ t = "Downloading"
                 \/ cuUpd' = [cuUpd EXCEPT ![u] = [@ EXCEPT !.state = t, !.session = e]]
          PROVE  \E r : Progress(r)
      <4>1. PICK r : /\ cuUpd' = [cuUpd EXCEPT ![u] = r]
                     /\ \/ r = [q EXCEPT !.session = e] /\ t = "Downloading"
                        \/ r = [q EXCEPT !.state = t, !.session = e]
        BY <3>3
      <4>2. r \in CuUpdate /\ r.state = t /\ r.pc = q.pc /\ r.core = q.core
            /\ r.release = q.release /\ r.kept = q.kept
        BY <2>0, <3>3, <4>1, CuNames DEF CuUpdate
      <4>3. CuProgress(q, r)
        BY <2>2, <3>3, <4>2 DEF CuProgress
      <4> QED
        BY <4>1, <4>2, <4>3
    <3>4. ASSUME NEW t \in CuStates, Dispatch(u, t, "wait"),
                 \/ q.state = "Idle" /\ t = "Downloading"
                 \/ /\ q.state = "Downloading" /\ q.session = "Finished"
                    /\ t = "Decompressing"
                 \/ q.state = "Decompressing" /\ t \in {"Replacing", "Failed"}
          PROVE  \E r : Progress(r)
      <4> DEFINE r == [q EXCEPT !.state = t, !.pc = "wait"]
      <4>1. cuUpd' = [cuUpd EXCEPT ![u] = r]
        BY <3>4 DEF Dispatch
      <4>2. r \in CuUpdate /\ r.state = t /\ r.pc = "wait" /\ r.core = q.core
            /\ r.release = q.release /\ r.session = q.session /\ r.kept = q.kept
        BY <2>0, CuNames DEF CuUpdate
      <4>3. CuProgress(q, r)
        BY <2>2, <2>3, <3>4, <4>2, CuNames DEF CuProgress
      <4> QED
        BY <4>1, <4>2, <4>3
    <3>5. CASE \E c \in CuCores : CuUpdateCore(u, c)
      BY <3>0, <3>1, <3>5 DEF CuUpdateCore
    <3>6. CASE InspectUpdater(u)
      BY <3>2, <3>6 DEF InspectUpdater
    <3>7. CASE OnEvent(u)
      BY <3>3, <3>7, CuNames DEF OnEvent
    <3>8. CASE CuFetch(u)
      BY <3>3, <3>4, <3>8, CuNames DEF CuFetch, Fail
    <3> QED
      BY <1>2, <3>5, <3>6, <3>7, <3>8
  <2> HIDE DEF q
  <2>10. PICK r : Progress(r)
    BY <2>4
  <2>11. /\ cuUpd' \in [CuUpdaters -> CuUpdate] /\ cuUpd'[u] = r
         /\ \A v \in CuUpdaters \ {u} : cuUpd'[v] = cuUpd[v]
    BY <2>10, CuChanged
  <2>12. CuTypeOK'
    BY <2>1, <2>11 DEF CuTypeOK
  <2>13. CuLeased'
    BY <2>1, <2>3, <2>10, <2>11 DEF CuLeased, CuPhased, CuProgress, q
  <2>14. CuFollowed'
    BY <2>1, <2>10, <2>11 DEF CuFollowed, CuUpdatesSound, CuProgress
  <2>15. CuRunning' = CuRunning /\ CuRunsInstalled'
    BY <2>1 DEF CuRunsInstalled, CuRunning, CuUpdatesSound
  <2>16. CuQuiet'
    BY <2>1, <2>3, <2>10, <2>11, <2>15 DEF CuQuiet, CuProgress, q
  <2> QED
    BY <2>12, <2>13, <2>14, <2>15, <2>16 DEF CuUpdatesSound
<1> QED
  BY <1>1, <1>2

\* replace_core keeps it, from taking the lease to giving it back.
LEMMA CuReplacementKeeps ==
  ASSUME CuInv, NEW u \in CuUpdaters,
         \/ CuAcquire(u) \/ CuStop(u) \/ CuCopyStart(u) \/ CuCopyDone(u) \/ CuElevate(u)
         \/ CuGiveUp(u) \/ CuRestart(u)
  PROVE  CuInv'
<1> USE CuAssumption, CuLeaseAssumption DEF CuInv
<1> DEFINE q == cuUpd[u]
           Turns(r) == /\ cuUpd' = [cuUpd EXCEPT ![u] = r] /\ r \in CuUpdate
                       /\ r.core = q.core /\ r.release = q.release /\ r.session = q.session
                       /\ r.kept = q.kept /\ CuPhased(r) /\ (r.pc # "wait" => cuLease' = u)
<1>0. q \in CuUpdate /\ q.pc \in CuPcs /\ q.state \in CuStates
  BY DEF CuTypeOK, CuUpdate
<1>1. UNCHANGED <<cuMirror, cuManifest, cuCurrent>> /\ cuLease' \in {cuLease, u, NoUpdater}
  BY DEF CuAcquire, CuStop, CuCopyStart, CuCopyDone, CuElevate, CuGiveUp, CuRestart, cuNews
<1>2. \A v \in CuUpdaters \ {u} : cuUpd[v].pc = "wait"
  BY DEF CuAcquire, CuStop, CuCopyStart, CuCopyDone, CuElevate, CuGiveUp, CuRestart, CuLeased,
     NoUpdater
<1>3. CuPhased(q) /\ (q.pc # "wait" => cuLease = u)
  BY <1>0 DEF CuLeased
<1>4. q.session = "Finished" /\ q.kept = "yes" /\ q.release \in 1..cuManifest
  <2>1. q.state \in {"Replacing", "Restarting"}
    BY <1>0, <1>3 DEF CuPhased, CuPcs, CuAcquire, CuStop, CuCopyStart, CuCopyDone, CuElevate, CuGiveUp,
       CuRestart
  <2> QED
    BY <1>0, <2>1 DEF CuFollowed, CuUpdatesSound
\* Each handler gives the update a new phase and, when it ends, a last state.
<1>5. \E r : Turns(r)
  <2>1. ASSUME NEW p \in CuPcs \ {"wait", "restart"}, NEW r, q.state = "Replacing", cuLease' = u,
               cuUpd' = [cuUpd EXCEPT ![u] = r],
               r = [q EXCEPT !.pc = p] \/ r = [q EXCEPT !.pc = p, !.stopped = TRUE]
        PROVE  Turns(r)
    <3>1. /\ r \in CuUpdate /\ r.state = q.state /\ r.pc = p /\ r.core = q.core
          /\ r.release = q.release /\ r.session = q.session /\ r.kept = q.kept
      <4>1. CASE r = [q EXCEPT !.pc = p]
        BY <1>0, <4>1 DEF CuUpdate
      <4>2. CASE r = [q EXCEPT !.pc = p, !.stopped = TRUE]
        BY <1>0, <4>2 DEF CuUpdate
      <4> QED
        BY <2>1, <4>1, <4>2
    <3> QED
      BY <2>1, <3>1 DEF CuPhased
  <2>2. ASSUME NEW t \in CuStates, NEW p \in CuPcs, Dispatch(u, t, p),
               p = "wait" \/ (t = "Restarting" /\ p = "restart" /\ cuLease' = u)
        PROVE  \E r : Turns(r)
    <3> DEFINE r == [q EXCEPT !.state = t, !.pc = p]
    <3>1. /\ r \in CuUpdate /\ r.state = t /\ r.pc = p /\ r.core = q.core
          /\ r.release = q.release /\ r.session = q.session /\ r.kept = q.kept
      BY <1>0 DEF CuUpdate
    <3>2. Turns(r)
      BY <2>2, <3>1 DEF CuPhased, Dispatch
    <3> QED
      BY <3>2
  <2>3. CASE CuAcquire(u)
    BY <2>1, <2>3, CuNames DEF CuAcquire
  <2>4. CASE CuStop(u)
    BY <1>0, <1>3, <2>1, <2>2, <2>4, CuNames DEF CuStop, Fail, CuPhased
  <2>5. CASE CuCopyStart(u) \/ CuElevate(u)
    BY <1>0, <1>3, <2>1, <2>5, CuNames DEF CuCopyStart, CuElevate, CuPhased
  <2>6. CASE CuCopyDone(u)
    BY <1>3, <2>2, <2>6, CuNames DEF CuCopyDone
  <2>7. CASE CuGiveUp(u) \/ CuRestart(u)
    BY <2>2, <2>7, CuNames DEF CuGiveUp, CuRestart, Fail
  <2> QED
    BY <2>3, <2>4, <2>5, <2>6, <2>7
<1>6. PICK r : Turns(r)
  BY <1>5
<1>7. /\ cuUpd' \in [CuUpdaters -> CuUpdate] /\ cuUpd'[u] = r
      /\ \A v \in CuUpdaters \ {u} : cuUpd'[v] = cuUpd[v]
  BY <1>6, CuChanged
<1>8. CuLeased'
  BY <1>1, <1>2, <1>6, <1>7 DEF CuLeased, CuPhased
<1>9. CuFollowed'
  <2>1. /\ cuUpd'[u].release \in 1..cuManifest' /\ cuUpd'[u].session = "Finished"
        /\ cuUpd'[u].kept = "yes"
    BY <1>1, <1>4, <1>6, <1>7
  <2>2. \A v \in CuUpdaters \ {u} :
          /\ cuUpd'[v].state # "Unused" => cuUpd'[v].release \in 1..cuManifest'
          /\ cuUpd'[v].state \notin {"Unused", "Done", "Failed"} => cuUpd'[v].kept = "yes"
          /\ cuUpd'[v].state \in CuStates \ {"Unused", "Idle", "Downloading", "Failed"} =>
                cuUpd'[v].session = "Finished"
    BY <1>1, <1>7 DEF CuFollowed, CuUpdatesSound
  <2> QED
    BY <2>1, <2>2 DEF CuFollowed
\* The process and the binaries: what is written is the binary of a kind that does not run.
<1>10. CASE CuAcquire(u) \/ CuElevate(u) \/ CuGiveUp(u)
  <2>1. UNCHANGED <<cuProc, cuBin, cuCurrent>>
    BY <1>10 DEF CuAcquire, CuElevate, CuGiveUp
  <2>2. CuTypeOK' /\ CuRunsInstalled' /\ CuRunning' = CuRunning
    BY <1>1, <1>7, <2>1 DEF CuTypeOK, CuRunsInstalled, CuRunning, CuUpdatesSound
  <2>3. r.pc \in CuPcs \ {"wait", "stop"} => q.pc \in CuPcs \ {"wait", "stop"}
    <3>1. CASE CuAcquire(u)
      BY <1>7, <3>1, CuGoesOn DEF CuAcquire
    <3>2. CASE CuElevate(u)
      BY <3>2, CuNames DEF CuElevate
    <3>3. CASE CuGiveUp(u)
      BY <3>3, CuNames DEF CuGiveUp
    <3> QED
      BY <1>10, <3>1, <3>2, <3>3
  <2>4. CuQuiet'
    BY <1>2, <1>6, <1>7, <2>1, <2>2, <2>3 DEF CuQuiet
  <2> QED
    BY <1>8, <1>9, <2>2, <2>4 DEF CuUpdatesSound
<1>11. CASE CuStop(u)
  <2>0. cuBin' = cuBin /\ (cuProc' = cuProc \/ cuProc' = CuStopped)
    BY <1>11 DEF CuStop
  <2>1. CuMustStop(u) /\ r.pc # "wait" => ~CuRunning'
    <3>1. Fail(u) => r.pc = "wait"
      BY <1>7, CuGoesOn DEF Fail
    <3> QED
      BY <1>11, <3>1 DEF CuStop, CuRunning
  <2>2. CuTypeOK'
    <3>1. cuProc' \in [core : CuCores, bin : Binaries \cup {"no instance", "stopped"}]
      BY <2>0, CuStoppedTyped DEF CuTypeOK
    <3> QED
      BY <1>1, <1>7, <2>0, <3>1 DEF CuTypeOK
  <2>3. CuRunning' => CuRunning /\ cuProc' = cuProc
    BY <2>0 DEF CuRunning
  <2>4. CuRunsInstalled'
    BY <2>0, <2>3 DEF CuRunsInstalled, CuUpdatesSound
  <2>5. CuQuiet'
    BY <1>1, <1>2, <1>6, <1>7, <2>1, <2>3 DEF CuQuiet, CuMustStop
  <2> QED
    BY <1>8, <1>9, <2>2, <2>4, <2>5 DEF CuUpdatesSound
<1>12. CASE CuCopyStart(u) \/ CuCopyDone(u)
  <2>1. PICK b \in Binaries : cuProc' = cuProc /\ cuBin' = [cuBin EXCEPT ![q.core] = b]
    BY <1>12 DEF CuCopyStart, CuCopyDone, Binaries
  <2>2. q.core = cuCurrent => ~CuRunning
    BY <1>0, <1>12, CuNames DEF CuQuiet, CuCopyStart, CuCopyDone
  <2>3. CuRunning' = CuRunning /\ (CuRunning => cuProc.core = cuCurrent)
    BY <2>1 DEF CuRunning, CuQuiet
  <2>4. cuBin' \in [CuCores -> Binaries] /\ \A c \in CuCores \ {q.core} : cuBin'[c] = cuBin[c]
    BY <2>1 DEF CuTypeOK
  <2>5. CuTypeOK'
    BY <1>1, <1>7, <2>1, <2>4 DEF CuTypeOK
  <2>6. CuRunsInstalled'
    BY <2>1, <2>2, <2>3, <2>4 DEF CuRunsInstalled, CuTypeOK, CuUpdatesSound
  <2>7. CuQuiet'
    BY <1>1, <1>2, <1>6, <1>7, <2>1, <2>2, <2>3 DEF CuQuiet
  <2> QED
    BY <1>8, <1>9, <2>5, <2>6, <2>7 DEF CuUpdatesSound
<1>13. CASE CuRestart(u)
  <2>1. /\ cuBin' = cuBin
        /\ \/ cuProc' = CuStopped
           \/ cuProc' = [core |-> cuCurrent, bin |-> cuBin[cuCurrent]]
    BY <1>13 DEF CuRestart, CuRun
  <2>2. r.pc = "wait"
    BY <1>7, <1>13, CuGoesOn DEF CuRestart, Fail
  <2>3. CuTypeOK'
    <3>1. CASE cuProc' = CuStopped
      BY <1>1, <1>7, <2>1, <3>1, CuStoppedTyped DEF CuTypeOK
    <3>2. CASE cuProc' = [core |-> cuCurrent, bin |-> cuBin[cuCurrent]]
      <4>1. cuCurrent \in CuCores /\ cuBin[cuCurrent] \in Binaries
        BY DEF CuTypeOK
      <4>2. cuProc' \in [core : CuCores, bin : Binaries \cup {"no instance", "stopped"}]
        BY <3>2, <4>1
      <4> QED
        BY <1>1, <1>7, <2>1, <4>2 DEF CuTypeOK
    <3> QED
      BY <2>1, <3>1, <3>2
  <2>4. CASE cuProc' = CuStopped
    <3>1. ~CuRunning'
      BY <2>4 DEF CuRunning
    <3> QED
      BY <1>8, <1>9, <2>3, <3>1 DEF CuUpdatesSound, CuQuiet, CuRunsInstalled
  <2>5. CASE cuProc' = [core |-> cuCurrent, bin |-> cuBin[cuCurrent]]
    <3>1. CuQuiet'
      BY <1>1, <1>2, <1>7, <2>2, <2>5 DEF CuQuiet
    <3>2. CuRunsInstalled'
      BY <2>1, <2>5 DEF CuRunsInstalled
    <3> QED
      BY <1>8, <1>9, <2>3, <3>1, <3>2 DEF CuUpdatesSound
  <2> QED
    BY <2>1, <2>4, <2>5
<1> QED
  BY <1>10, <1>11, <1>12, <1>13

\* Every step of the application and of the updates keeps the invariant.
LEMMA CuInvNext == CuInv /\ [CuNext]_cuVars => CuInv'
<1> SUFFICES ASSUME CuInv, [CuNext]_cuVars PROVE CuInv'
  OBVIOUS
<1>1. CASE UNCHANGED cuVars
  BY <1>1 DEF CuInv, CuTypeOK, CuLeased, CuQuiet, CuUpdatesSound, CuRunsInstalled, CuFollowed,
     CuRunning, cuVars
<1>2. CASE CuNext
  BY <1>2, CuApplicationKeeps, CuRequestsKeep, CuReplacementKeeps DEF CuNext
<1> QED
  BY <1>1, <1>2

\* The updater's variables keep their types (mod.rs, instance.rs, session.rs of the
\* updater), whatever the application does meanwhile.
THEOREM CuTypeCorrect == CuSpec => []CuTypeOK
<1>1. CuInv => CuTypeOK
  BY DEF CuInv
<1> QED
  BY <1>1, CuInvInit, CuInvNext, PTL DEF CuSpec

\* No update writes over a binary in use or leaves the replaced core running, and every
\* accepted update can be followed to its end and unpacks only a finished download
\* (instance.rs replace_core, mod.rs update_core and inspect_updater).
THEOREM CuSound == CuSpec => []CuUpdatesSound
<1>1. CuInv => CuUpdatesSound
  BY DEF CuInv
<1> QED
  BY <1>1, CuInvInit, CuInvNext, PTL DEF CuSpec
===============================================================================
