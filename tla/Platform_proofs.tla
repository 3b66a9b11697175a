--------------------------- MODULE Platform_proofs ---------------------------
(***************************************************************************)
(* Proofs about the parts of the application that talk to the operating     *)
(* system: the ports of the core, the statistic widget, the processes of    *)
(* the application, the system service and the windows, each for every      *)
(* value of its constants.  They share no variable; each has its own        *)
(* specification and inductive invariant.                                   *)
(***************************************************************************)
EXTENDS SessionPorts, WidgetManager, AppLifecycle, ServiceControl, AppWindows, FiniteSetTheorems,
        WellFoundedInduction, TLAPS

-------------------------------------------------------------------------------
(* Ports of the core (client/ports.rs).                                       *)

\* The types the property needs.
SpShape ==
  /\ spConf \in Configs /\ spCache \in [fingerprint : Configs, ports : [SpFields -> SpPorts]]
  /\ spProduct \in [SpFields -> SpPorts] /\ spCore \in [on : BOOLEAN, ports : [SpFields -> SpPorts]]
  /\ spMirrored \in BOOLEAN /\ spPatched \in BOOLEAN

\* A field that was not picked again has its pick in the product, and a running core,
\* unless it was moved, holds it.
SpAgreed ==
  \A f \in SpFields \ spTouched :
    /\ spProduct[f] = spCache.ports[f]
    /\ spCore.on /\ ~spPatched => spCore.ports[f] = spCache.ports[f]

\* The legacy images hold the start ports of the configuration once one was written,
\* and until then the picks of boot, that nothing has changed.
SpTold ==
  IF spMirrored THEN spLegacy = PrepareClashOverrides(spConf)
  ELSE spCache.fingerprint = spConf /\ spLegacy = spCache.ports

\* What every step keeps.
SpInv == SpShape /\ SpAgreed /\ SpTold

\* Resolving keeps the pick of a field whose strategy is the one it was made for.
LEMMA SpResolved ==
  ASSUME SpShape, NEW ports \in Resolve(spConf)
  PROVE  /\ \A f \in SpFields : Unchanged(f, spConf) => ports[f] = spCache.ports[f]
         /\ ~Failed(ports) => ports \in [SpFields -> SpPorts]
         /\ spCache.fingerprint = spConf => ports = spCache.ports
<1> DEFINE picks(f) == IF Unchanged(f, spConf) THEN {spCache.ports[f]}
                       ELSE PickAndTryPort(spConf[f], Open(spOthers, CoreHolds))
<1>1. ports \in [SpFields -> SpPorts \cup {NoPort}] /\ \A f \in SpFields : ports[f] \in picks(f)
  BY DEF Resolve
<1>2. \A f \in SpFields : Unchanged(f, spConf) => ports[f] = spCache.ports[f]
  BY <1>1
<1>3. ~Failed(ports) => ports \in [SpFields -> SpPorts]
  BY <1>1 DEF Failed
<1>4. ASSUME spCache.fingerprint = spConf PROVE ports = spCache.ports
  <2>1. \A f \in SpFields : ports[f] = spCache.ports[f]
    BY <1>2, <1>4 DEF Unchanged
  <2>2. spCache.ports \in [SpFields -> SpPorts]
    BY DEF SpShape
  <2> QED
    BY <1>1, <2>1, <2>2
<1> QED
  BY <1>2, <1>3, <1>4

\* Boot.
LEMMA SpStartsInv == SpInit => SpInv
<1> SUFFICES ASSUME SpInit PROVE SpInv
  OBVIOUS
<1>1. PICK ports \in [SpFields -> SpPorts] :
        /\ spCache = [fingerprint |-> spConf, ports |-> ports]
        /\ spProduct = ports /\ spLegacy = ports /\ spCore = [on |-> FALSE, ports |-> ports]
  BY DEF SpInit
<1>2. spConf \in Configs /\ spTouched = {} /\ spMirrored = FALSE /\ spPatched = FALSE
  BY DEF SpInit
<1> QED
  BY <1>1, <1>2 DEF SpInv, SpShape, SpAgreed, SpTold

\* A typed write, and what is asked for, starts, stops and moves beside it.
LEMMA SpSmallSteps ==
  ASSUME SpInv, SpWrites \/ SpAsks \/ SpCoreStarts \/ SpCoreStops \/ SpOthersMove
  PROVE  SpInv'
<1>1. SpShape /\ SpAgreed /\ SpTold
  BY DEF SpInv
<1>2. CASE SpWrites
  <2>1. spConf' \in Configs
    <3>1. PICK f \in SpFields, s \in SpStrategies : spConf' = [spConf EXCEPT ![f] = s]
      BY <1>2 DEF SpWrites
    <3> QED
      BY <1>1, <3>1 DEF SpShape, Configs
  <2>2. /\ spLegacy' = PrepareClashOverrides(spConf') /\ spMirrored' = TRUE
        /\ UNCHANGED <<spCache, spProduct, spCore, spTouched, spPatched>>
    BY <1>2 DEF SpWrites
  <2> QED
    BY <1>1, <2>1, <2>2 DEF SpInv, SpShape, SpAgreed, SpTold, PrepareClashOverrides
<1>3. CASE SpAsks \/ SpOthersMove
  BY <1>1, <1>3 DEF SpAsks, SpOthersMove, SpInv, SpShape, SpAgreed, SpTold, PrepareClashOverrides
<1>4. CASE SpCoreStarts
  <2>1. /\ spCore' = [on |-> TRUE, ports |-> spProduct] /\ spPatched' = FALSE
        /\ spTouched' = IF spProduct = spCache.ports THEN {} ELSE spTouched
        /\ UNCHANGED <<spConf, spCache, spProduct, spLegacy, spMirrored>>
    BY <1>4 DEF SpCoreStarts, SpTakes
  <2>2. SpShape'
    BY <1>1, <2>1 DEF SpShape
  <2>3. SpAgreed'
    BY <1>1, <2>1 DEF SpAgreed
  <2> QED
    BY <1>1, <2>1, <2>2, <2>3 DEF SpInv, SpTold, PrepareClashOverrides
<1>5. CASE SpCoreStops
  <2>1. /\ spCore' = [spCore EXCEPT !.on = FALSE]
        /\ UNCHANGED <<spConf, spCache, spProduct, spLegacy, spTouched, spMirrored, spPatched>>
    BY <1>5 DEF SpCoreStops
  <2>2. SpShape' /\ ~spCore'.on
    BY <1>1, <2>1 DEF SpShape
  <2> QED
    BY <1>1, <2>1, <2>2 DEF SpInv, SpAgreed, SpTold, PrepareClashOverrides
<1> QED
  BY <1>2, <1>3, <1>4, <1>5

\* A rebuild: what it picked again counts as touched until the core has it.
LEMMA SpRebuildKeeps == ASSUME SpInv, SpRebuilds PROVE SpInv'
<1>1. SpShape /\ SpAgreed /\ SpTold
  BY DEF SpInv
<1>2. UNCHANGED <<spConf, spLegacy, spMirrored>>
  BY DEF SpRebuilds
<1>3. PICK ports \in Resolve(spConf) :
        \/ Failed(ports) /\ UNCHANGED <<spCache, spProduct, spCore, spTouched, spPatched>>
        \/ /\ ~Failed(ports) /\ spCache' = [fingerprint |-> spConf, ports |-> ports]
           /\ LET touched == spTouched \cup {f \in SpFields : ~Unchanged(f, spConf)}
              IN  \/ spTouched' = touched /\ UNCHANGED <<spProduct, spCore, spPatched>>
                  \/ spProduct' = ports /\ spTouched' = touched /\ UNCHANGED <<spCore, spPatched>>
                  \/ spCore.on /\ spProduct' = ports /\ SpTakes(ports, ports)
  BY DEF SpRebuilds
<1>4. CASE UNCHANGED <<spCache, spProduct, spCore, spTouched, spPatched>>
  BY <1>1, <1>2, <1>4 DEF SpInv, SpShape, SpAgreed, SpTold, PrepareClashOverrides
<1>5. CASE ~Failed(ports) /\ spCache' = [fingerprint |-> spConf, ports |-> ports]
  <2>1. /\ ports \in [SpFields -> SpPorts] /\ spCache'.fingerprint = spConf /\ spCache'.ports = ports
        /\ spCache' \in [fingerprint : Configs, ports : [SpFields -> SpPorts]]
        /\ \A f \in SpFields : Unchanged(f, spConf) => ports[f] = spCache.ports[f]
        /\ spCache.fingerprint = spConf => ports = spCache.ports
    <3>1. ports \in [SpFields -> SpPorts]
      BY <1>1, <1>5, SpResolved
    <3> QED
      BY <1>1, <1>5, <3>1, SpResolved DEF SpShape
  <2>2. SpTold'
    BY <1>1, <1>2, <2>1 DEF SpTold, PrepareClashOverrides
  <2>3. CASE /\ spTouched' = spTouched \cup {f \in SpFields : ~Unchanged(f, spConf)}
             /\ spProduct' = spProduct \/ spProduct' = ports
             /\ UNCHANGED <<spCore, spPatched>>
    <3>1. SpShape'
      BY <1>1, <1>2, <2>1, <2>3 DEF SpShape
    <3>2. SpAgreed'
      <4> SUFFICES ASSUME NEW f \in SpFields \ spTouched'
                   PROVE  /\ spProduct'[f] = ports[f]
                          /\ spCore.on /\ ~spPatched => spCore.ports[f] = ports[f]
        BY <2>1, <2>3 DEF SpAgreed
      <4>1. f \in SpFields \ spTouched /\ ports[f] = spCache.ports[f]
        BY <2>1, <2>3
      <4> QED
        BY <1>1, <2>3, <4>1 DEF SpAgreed
    <3> QED
      BY <2>2, <3>1, <3>2 DEF SpInv
  <2>4. CASE spProduct' = ports /\ SpTakes(ports, ports)
    <3>1. /\ spCore' = [on |-> TRUE, ports |-> ports] /\ spPatched' = FALSE
          /\ spProduct' = ports
      BY <2>4 DEF SpTakes
    <3>2. SpShape' /\ SpAgreed'
      BY <1>1, <1>2, <2>1, <3>1 DEF SpShape, SpAgreed
    <3> QED
      BY <2>2, <3>2 DEF SpInv
  <2> QED
    BY <1>3, <1>5, <1>4, <2>3, <2>4
<1> QED
  BY <1>3, <1>4, <1>5

\* A patch of the running core moves it, or has it picked and taken again.
LEMMA SpPatchKeeps == ASSUME SpInv, SpPatchesRunning PROVE SpInv'
<1>1. SpShape /\ SpAgreed /\ SpTold
  BY DEF SpInv
<1>2. UNCHANGED <<spConf, spLegacy, spMirrored>>
  BY DEF SpPatchesRunning
<1>3. PICK p \in Open(spOthers, CoreHolds) \cup {spCore.ports["mixed"]} :
        \/ /\ spCore' = [spCore EXCEPT !.ports["mixed"] = p]
           /\ spPatched' = TRUE /\ UNCHANGED <<spCache, spProduct, spTouched>>
        \/ \E ports \in Resolve(spConf) :
             /\ ~Failed(ports) /\ spCache' = [fingerprint |-> spConf, ports |-> ports]
             /\ spProduct' = ports /\ SpTakes(ports, ports)
        \/ UNCHANGED <<spCore, spCache, spProduct, spTouched, spPatched>>
  BY DEF SpPatchesRunning
<1>4. CASE UNCHANGED <<spCore, spCache, spProduct, spTouched, spPatched>>
  BY <1>1, <1>2, <1>4 DEF SpInv, SpShape, SpAgreed, SpTold, PrepareClashOverrides
<1>5. CASE /\ spCore' = [spCore EXCEPT !.ports["mixed"] = p]
           /\ spPatched' = TRUE /\ UNCHANGED <<spCache, spProduct, spTouched>>
  <2>1. "mixed" \in SpFields /\ p \in SpPorts
    BY <1>1 DEF SpPatchesRunning, SpShape, Open
  <2>2. spCore' \in [on : BOOLEAN, ports : [SpFields -> SpPorts]]
    BY <1>1, <1>5, <2>1 DEF SpShape
  <2> QED
    BY <1>1, <1>2, <1>5, <2>2 DEF SpInv, SpShape, SpAgreed, SpTold, PrepareClashOverrides
<1>6. ASSUME NEW ports \in Resolve(spConf), ~Failed(ports),
             spCache' = [fingerprint |-> spConf, ports |-> ports],
             spProduct' = ports, SpTakes(ports, ports)
      PROVE  SpInv'
  <2>1. /\ ports \in [SpFields -> SpPorts]
        /\ spCache.fingerprint = spConf => ports = spCache.ports
    BY <1>1, <1>6, SpResolved
  <2>2. spCore' = [on |-> TRUE, ports |-> ports] /\ spPatched' = FALSE
    BY <1>6 DEF SpTakes
  <2>3. SpShape' /\ SpAgreed'
    BY <1>1, <1>2, <1>6, <2>1, <2>2 DEF SpShape, SpAgreed
  <2>4. SpTold'
    BY <1>1, <1>2, <1>6, <2>1 DEF SpTold, PrepareClashOverrides
  <2> QED
    BY <2>3, <2>4 DEF SpInv
<1> QED
  BY <1>3, <1>4, <1>5, <1>6

\* Every step, and a step that changes nothing, keeps the invariant.
LEMMA SpKeeps == SpInv /\ [SpNext]_spVars => SpInv'
<1> SUFFICES ASSUME SpInv, [SpNext]_spVars PROVE SpInv'
  OBVIOUS
<1>1. CASE UNCHANGED spVars
  BY <1>1 DEF spVars, SpInv, SpShape, SpAgreed, SpTold, PrepareClashOverrides
<1> QED
  BY <1>1, SpSmallSteps, SpRebuildKeeps, SpPatchKeeps DEF SpNext

\* The invariant in the words of SpPortsStay.
LEMMA SpStayed == ASSUME SpInv PROVE SpPortsStay
<1>1. SpShape /\ SpAgreed /\ SpTold
  BY DEF SpInv
<1> SUFFICES ASSUME spCore.on, ~spPatched, NEW f \in SpFields \ spTouched
             PROVE  /\ spCache.ports[f] = spCore.ports[f]
                    /\ spConf[f] = spCache.fingerprint[f]
                         => \A ports \in Resolve(spConf) : ports[f] = spCore.ports[f]
                    /\ spConf[f] = spCache.fingerprint[f]
                         /\ (spMirrored => spCore.ports[f] = spConf[f].start)
                         => GuardMixedPort(spLegacy[f]) = spCore.ports[f]
  BY DEF SpPortsStay
<1>2. spCache.ports[f] = spCore.ports[f]
  BY <1>1 DEF SpAgreed
<1>3. ASSUME spConf[f] = spCache.fingerprint[f], NEW ports \in Resolve(spConf)
      PROVE  ports[f] = spCore.ports[f]
  BY <1>1, <1>2, <1>3, SpResolved DEF Unchanged
<1>4. ASSUME spMirrored => spCore.ports[f] = spConf[f].start
      PROVE  GuardMixedPort(spLegacy[f]) = spCore.ports[f]
  <2>1. spLegacy[f] = spCore.ports[f]
    BY <1>1, <1>2, <1>4 DEF SpTold, PrepareClashOverrides
  <2>2. spCore.ports[f] # 0
    BY <1>1, SpAssumption DEF SpShape
  <2> QED
    BY <2>1, <2>2 DEF GuardMixedPort
<1> QED
  BY <1>2, <1>3, <1>4

\* For any fields, ports and strategies, whatever is written, rebuilt, patched, started
\* or taken by other applications: a running core keeps the port of every field whose
\* strategy was not changed, and legacy readers find it there.
THEOREM PortsStay == SpSpec => []SpPortsStay
<1>1. SpInv => SpPortsStay
  BY SpStayed
<1> QED
  BY <1>1, SpStartsInv, SpKeeps, PTL DEF SpSpec

-------------------------------------------------------------------------------
(* The statistic widget (widget.rs).                                          *)

WdProcess == [pc : {"none", "spawned", "shown", "ending", "gone"}, variant : WdVariants \cup {Off},
              box : Seq({"Stop", "Update"}), sender : BOOLEAN, hung : BOOLEAN]
WdTask == [pc : WdPcs, want : WdVariants \cup {Off}, proc : WdProcs \cup {0}]

\* A widget that has been seen, and may be gone since.
WdSeen(p) == p \in WdProcs /\ wdProc[p].pc \notin {"none", "spawned"}

\* An operation has taken the widget p and is stopping it.
WdStopping(a, p) == wdDo[a].pc \in {"tell", "wait"} /\ wdDo[a].proc = p

\* A widget that is shown and has its sender is the instance, or being stopped.
WdOwned ==
  \A p \in WdProcs : wdProc[p].pc = "shown" /\ wdProc[p].sender
    => p = wdInst \/ WdStopping("user", p) \/ WdStopping("exit", p)

\* What is the instance, or was taken, had connected; while the configuration is
\* past taking there is no instance.
WdTaken ==
  /\ wdInst # 0 => WdSeen(wdInst)
  /\ wdDo["user"].pc \in {"tell", "wait"} => WdSeen(wdDo["user"].proc)
  /\ wdDo["exit"].pc \in {"tell", "wait"} => WdSeen(wdDo["exit"].proc)
  /\ wdDo["user"].pc \in {"tell", "wait", "spawn", "connect"} => wdInst = 0

\* The widget that is about to connect is the one asked for, and nobody has told it anything.
WdComes ==
  /\ wdDo["user"].pc \in {"check", "spawn", "connect"} => wdDo["user"].want # Off
  /\ wdDo["user"].pc = "connect" =>
       /\ wdDo["user"].proc \in WdProcs /\ wdProc[wdDo["user"].proc].pc \in {"spawned", "gone"}
       /\ wdProc[wdDo["user"].proc].variant = wdDo["user"].want
       /\ wdProc[wdDo["user"].proc].pc = "spawned"
            => wdProc[wdDo["user"].proc].box = <<>> /\ wdProc[wdDo["user"].proc].sender

\* A widget that goes on: it is shown, and only updates are on their way to it.
WdGoesOn(w) == w.pc = "shown" /\ ~w.hung /\ w.sender /\ w.box \in Seq({"Update"})

\* Between operations the instance is what the last one asked for.
WdKept ==
  wdDo["exit"].pc = "idle" /\ wdDo["user"].pc = "idle" /\ ~wdLeft =>
    IF wdWant = Off THEN ~IsAlive(wdInst)
    ELSE wdInst # 0 /\ WdGoesOn(wdProc[wdInst]) /\ wdProc[wdInst].variant = wdWant

\* Once the application has ended nobody holds a sender.
WdGone ==
  wdDo["exit"].pc = "gone" =>
    wdInst = 0 /\ wdDo["user"].pc = "idle" /\ \A p \in WdProcs : ~wdProc[p].sender

\* What every step keeps.
WdInv == WdTypeOK /\ WdOwned /\ WdTaken /\ WdComes /\ WdKept /\ WdGone

\* The types, named.
LEMMA WdTypes ==
  WdTypeOK <=> /\ wdInst \in WdProcs \cup {0} /\ wdLock \in {WdNobody, "user", "listener"}
               /\ wdProc \in [WdProcs -> WdProcess] /\ wdDo \in [WdActors -> WdTask]
  BY DEF WdTypeOK, WdProcess, WdTask

\* The records an operation or a widget starts from.
LEMMA WdRecords ==
  /\ WdIdle \in WdTask /\ WdIdle.pc = "idle" /\ WdIdle.want = Off /\ NoWidget \in WdProcess
  /\ [WdIdle EXCEPT !.pc = "leave"] \in WdTask /\ [WdIdle EXCEPT !.pc = "leave"].pc = "leave"
  /\ [WdIdle EXCEPT !.pc = "gone"] \in WdTask /\ [WdIdle EXCEPT !.pc = "gone"].pc = "gone"
  /\ \A want \in WdVariants \cup {Off}, pc \in {"check", "take"} :
       LET t == [WdIdle EXCEPT !.pc = pc, !.want = want]
       IN  t \in WdTask /\ t.pc = pc /\ t.want = want
  /\ "user" \in WdActors /\ "exit" \in WdActors /\ "listener" \in WdActors
  /\ 0 \notin WdProcs /\ NoWidget.sender = TRUE /\ NoWidget.box = <<>> /\ NoWidget.pc = "none"
<1>1. <<>> \in Seq({"Stop", "Update"})
  OBVIOUS
<1> QED
  BY <1>1, WdAssumption DEF WdIdle, WdTask, WdPcs, NoWidget, WdProcess, WdActors

\* An operation's record, changed for one that is given.
LEMMA WdDoes ==
  ASSUME WdTypeOK, NEW a \in WdActors, NEW t \in WdTask, wdDo' = [wdDo EXCEPT ![a] = t]
  PROVE  /\ wdDo' \in [WdActors -> WdTask] /\ wdDo'[a] = t
         /\ \A b \in WdActors \ {a} : wdDo'[b] = wdDo[b]
  BY WdTypes

\* A widget's record, changed for one that is given.
LEMMA WdBecomes ==
  ASSUME WdTypeOK, NEW p \in WdProcs, NEW w \in WdProcess, wdProc' = [wdProc EXCEPT ![p] = w]
  PROVE  /\ wdProc' \in [WdProcs -> WdProcess] /\ wdProc'[p] = w
         /\ \A q \in WdProcs \ {p} : wdProc'[q] = wdProc[q]
  BY WdTypes

\* One widget moves while no operation does.
LEMMA WdOneMoves ==
  ASSUME WdInv, NEW p \in WdProcs, NEW w \in WdProcess, wdProc' = [wdProc EXCEPT ![p] = w],
         wdDo' \in [WdActors -> WdTask], wdDo'["user"] = wdDo["user"], wdDo'["exit"] = wdDo["exit"],
         wdLock' \in {WdNobody, "user", "listener"},
         UNCHANGED <<wdInst, wdWant>>, wdLeft => wdLeft',
         w.sender = wdProc[p].sender, w.variant = wdProc[p].variant,
         w.pc = "shown" => wdProc[p].pc = "shown",
         wdProc[p].pc \notin {"none", "spawned"} => w.pc \notin {"none", "spawned"},
         wdProc[p].pc = "spawned" => w.pc \in {"spawned", "gone"},
         w.pc = "spawned" => wdProc[p].pc = "spawned" /\ w.box = wdProc[p].box,
         wdProc[p].pc = "gone" => w.pc = "gone",
         wdLeft' \/ (WdGoesOn(wdProc[p]) => WdGoesOn(w))
  PROVE  WdInv'
<1>1. WdTypeOK /\ WdOwned /\ WdTaken /\ WdComes /\ WdKept /\ WdGone
  BY DEF WdInv
<1>2. /\ wdProc' \in [WdProcs -> WdProcess] /\ wdProc'[p] = w
      /\ \A q \in WdProcs \ {p} : wdProc'[q] = wdProc[q]
  BY <1>1, WdBecomes
<1>3. WdTypeOK'
  BY <1>1, <1>2, WdTypes DEF WdTypeOK, WdProcess, WdTask
<1>4. WdOwned'
  BY <1>1, <1>2 DEF WdOwned, WdStopping
<1>5. WdTaken'
  BY <1>1, <1>2 DEF WdTaken, WdSeen
<1>6. WdComes'
  BY <1>1, <1>2 DEF WdComes
<1>7. WdGone'
  BY <1>1, <1>2 DEF WdGone
<1>8. WdKept'
  <2> SUFFICES ASSUME wdDo["exit"].pc = "idle", wdDo["user"].pc = "idle", ~wdLeft'
               PROVE  IF wdWant = Off THEN ~IsAlive(wdInst)'
                      ELSE wdInst # 0 /\ WdGoesOn(wdProc'[wdInst]) /\ wdProc'[wdInst].variant = wdWant
    BY DEF WdKept, IsAlive
  <2>1. IF wdWant = Off THEN ~IsAlive(wdInst)
        ELSE wdInst # 0 /\ WdGoesOn(wdProc[wdInst]) /\ wdProc[wdInst].variant = wdWant
    BY <1>1 DEF WdKept
  <2>2. wdInst # 0 => wdInst \in WdProcs /\ wdProc[wdInst].pc \notin {"none", "spawned"}
    BY <1>1 DEF WdTaken, WdSeen
  <2>3. CASE wdInst = p
    <3>1. CASE wdWant = Off
      <4>1. wdInst # 0 => wdProc[p].pc = "gone"
        BY <1>1, <2>1, <2>2, <2>3, <3>1, WdTypes DEF IsAlive, WdProcess
      <4> QED
        BY <1>2, <2>3, <3>1, <4>1 DEF IsAlive
    <3>2. CASE wdWant # Off
      BY <1>2, <2>1, <2>3, <3>2
    <3> QED
      BY <3>1, <3>2
  <2>4. CASE wdInst # p
    <3>1. wdInst # 0 => wdProc'[wdInst] = wdProc[wdInst]
      BY <1>2, <2>2, <2>4
    <3> QED
      BY <2>1, <3>1 DEF IsAlive
  <2> QED
    BY <2>3, <2>4
<1> QED
  BY <1>3, <1>4, <1>5, <1>6, <1>7, <1>8 DEF WdInv

\* The widget's own steps.
LEMMA WdWidgetSteps ==
  ASSUME WdInv, HandleMessage \/ WidgetEnds \/ WidgetFails
  PROVE  WdInv'
<1>1. WdTypeOK /\ wdProc \in [WdProcs -> WdProcess] /\ wdDo \in [WdActors -> WdTask]
      /\ wdLock \in {WdNobody, "user", "listener"}
  BY WdTypes DEF WdInv
<1>2. UNCHANGED <<wdInst, wdLock, wdDo, wdWant>>
  BY DEF HandleMessage, WidgetEnds, WidgetFails
<1>3. ASSUME HandleMessage PROVE WdInv'
  <2>1. PICK p \in WdProcs :
          /\ wdProc[p].pc = "shown" /\ ~wdProc[p].hung
          /\ \/ /\ wdProc[p].box # <<>>
                /\ wdProc' = [wdProc EXCEPT ![p] = [wdProc[p] EXCEPT !.box = Tail(wdProc[p].box),
                                                      !.pc = IF Head(wdProc[p].box) = "Stop" THEN "ending" ELSE wdProc[p].pc]]
             \/ /\ Disconnected(p) /\ wdProc' = [wdProc EXCEPT ![p] = [wdProc[p] EXCEPT !.pc = "ending"]]
    BY <1>1, <1>3 DEF HandleMessage
  <2>2. wdProc[p] \in WdProcess /\ UNCHANGED wdLeft
    BY <1>1, <1>3 DEF HandleMessage
  <2>3. CASE /\ wdProc[p].box # <<>>
             /\ wdProc' = [wdProc EXCEPT ![p] = [wdProc[p] EXCEPT !.box = Tail(wdProc[p].box),
                                                   !.pc = IF Head(wdProc[p].box) = "Stop" THEN "ending" ELSE wdProc[p].pc]]
    <3> DEFINE w == [wdProc[p] EXCEPT !.box = Tail(wdProc[p].box),
                                      !.pc = IF Head(wdProc[p].box) = "Stop" THEN "ending" ELSE wdProc[p].pc]
    <3>1. Tail(wdProc[p].box) \in Seq({"Stop", "Update"})
      BY <2>2, <2>3 DEF WdProcess
    <3>2. /\ w \in WdProcess /\ w.sender = wdProc[p].sender /\ w.variant = wdProc[p].variant
          /\ w.hung = wdProc[p].hung /\ w.box = Tail(wdProc[p].box)
          /\ w.pc = IF Head(wdProc[p].box) = "Stop" THEN "ending" ELSE wdProc[p].pc
      BY <2>2, <3>1 DEF WdProcess
    <3>3. wdProc[p].box \in Seq({"Update"}) => /\ Tail(wdProc[p].box) \in Seq({"Update"})
                                               /\ Head(wdProc[p].box) = "Update"
      BY <2>3
    <3>4. WdGoesOn(wdProc[p]) => WdGoesOn(w)
      BY <3>2, <3>3 DEF WdGoesOn
    <3>5. w.pc \in {"shown", "ending"}
      BY <2>1, <3>2
    <3>6. wdProc' = [wdProc EXCEPT ![p] = w]
      BY <2>3
    <3> HIDE DEF w
    <3> QED
      BY <1>1, <1>2, <2>1, <2>2, <3>2, <3>4, <3>5, <3>6, WdOneMoves
  <2>4. CASE Disconnected(p) /\ wdProc' = [wdProc EXCEPT ![p] = [wdProc[p] EXCEPT !.pc = "ending"]]
    <3> DEFINE w == [wdProc[p] EXCEPT !.pc = "ending"]
    <3>1. w \in WdProcess /\ w.sender = wdProc[p].sender /\ w.variant = wdProc[p].variant /\ w.pc = "ending"
      BY <2>2 DEF WdProcess
    <3>2. ~WdGoesOn(wdProc[p])
      BY <2>4 DEF WdGoesOn, Disconnected
    <3>3. wdProc' = [wdProc EXCEPT ![p] = w]
      BY <2>4
    <3> HIDE DEF w
    <3> QED
      BY <1>1, <1>2, <2>1, <2>2, <3>1, <3>2, <3>3, WdOneMoves
  <2> QED
    BY <2>1, <2>3, <2>4
<1>4. ASSUME WidgetEnds PROVE WdInv'
  <2>1. PICK p \in WdProcs : /\ wdProc[p].pc \in {"ending", "spawned"}
                             /\ wdProc' = [wdProc EXCEPT ![p] = [wdProc[p] EXCEPT !.pc = "gone"]]
    BY <1>1, <1>4 DEF WidgetEnds
  <2> DEFINE w == [wdProc[p] EXCEPT !.pc = "gone"]
  <2>2. w \in WdProcess /\ w.sender = wdProc[p].sender /\ w.variant = wdProc[p].variant /\ w.pc = "gone"
    BY <1>1 DEF WdProcess
  <2>3. ~WdGoesOn(wdProc[p]) /\ UNCHANGED wdLeft
    BY <1>4, <2>1 DEF WdGoesOn, WidgetEnds
  <2>4. wdProc' = [wdProc EXCEPT ![p] = w]
    BY <2>1
  <2> HIDE DEF w
  <2> QED
    BY <1>1, <1>2, <2>1, <2>2, <2>3, <2>4, WdOneMoves
<1>5. ASSUME WidgetFails PROVE WdInv'
  <2>1. PICK p \in WdProcs : /\ wdProc[p].pc \in {"spawned", "shown"}
                             /\ \/ wdProc' = [wdProc EXCEPT ![p] = [wdProc[p] EXCEPT !.pc = "gone"]]
                                \/ wdProc' = [wdProc EXCEPT ![p] = [wdProc[p] EXCEPT !.hung = TRUE]]
    BY <1>1, <1>5 DEF WidgetFails
  <2>2. PICK w \in WdProcess : /\ w.sender = wdProc[p].sender /\ w.variant = wdProc[p].variant
                               /\ w.box = wdProc[p].box /\ w.pc \in {wdProc[p].pc, "gone"}
                               /\ wdProc' = [wdProc EXCEPT ![p] = w]
    <3>1. wdProc[p] \in WdProcess
      BY <1>1
    <3>2. /\ [wdProc[p] EXCEPT !.pc = "gone"] \in WdProcess
          /\ [wdProc[p] EXCEPT !.hung = TRUE] \in WdProcess
      BY <3>1 DEF WdProcess
    <3> QED
      BY <2>1, <3>1, <3>2 DEF WdProcess
  <2>3. wdLeft'
    BY <1>5 DEF WidgetFails
  <2> QED
    BY <1>1, <1>2, <2>1, <2>2, <2>3, WdOneMoves
<1> QED
  BY <1>3, <1>4, <1>5

\* The widget of the configuration is started by setup, or nothing is under way.
LEMMA WdStarts == WdInit => WdInv
<1> SUFFICES ASSUME WdInit PROVE WdInv
  OBVIOUS
<1>1. PICK want \in WdVariants \cup {Off} :
        wdDo = [a \in WdActors |-> IF a = "user" /\ want # Off
                                   THEN [WdIdle EXCEPT !.pc = "check", !.want = want] ELSE WdIdle]
  BY DEF WdInit
<1> DEFINE t == [WdIdle EXCEPT !.pc = "check", !.want = want]
<1>2. t \in WdTask /\ t.pc = "check" /\ t.want = want
  BY WdRecords
<1>3. wdDo = [a \in WdActors |-> IF a = "user" /\ want # Off THEN t ELSE WdIdle]
  BY <1>1
<1> HIDE DEF t
<1>4. /\ wdDo \in [WdActors -> WdTask] /\ wdDo["exit"].pc = "idle"
      /\ wdDo["user"].pc \in {"idle", "check"} /\ (wdDo["user"].pc = "check" => wdDo["user"].want # Off)
  BY <1>2, <1>3, WdRecords
<1>5. /\ wdInst = 0 /\ wdLock = WdNobody /\ wdProc \in [WdProcs -> WdProcess] /\ wdWant = Off
      /\ \A p \in WdProcs : wdProc[p].pc = "none"
  BY WdRecords DEF WdInit
<1>6. WdTypeOK
  BY <1>4, <1>5, WdTypes
<1> QED
  BY <1>4, <1>5, <1>6 DEF WdInv, WdOwned, WdTaken, WdComes, WdKept, WdGone, IsAlive

\* A patch finds nothing to stop, or begins.
LEMMA WdPatchKeeps ==
  ASSUME WdInv, WdPatch
  PROVE  WdInv'
<1>1. /\ WdTypeOK /\ WdOwned /\ WdTaken /\ WdComes /\ WdKept /\ WdGone
      /\ wdProc \in [WdProcs -> WdProcess] /\ wdDo \in [WdActors -> WdTask]
      /\ UNCHANGED <<wdInst, wdLock, wdProc>> /\ wdDo["user"].pc = "idle" /\ wdDo["exit"].pc = "idle"
  BY WdTypes DEF WdInv, WdPatch, WdAt
<1>2. PICK want \in WdVariants \cup {Off} :
       IF want = Off /\ ~IsAlive(wdInst)
       THEN wdWant' = Off /\ UNCHANGED wdDo
       ELSE /\ wdDo' = [wdDo EXCEPT !["user"] = [WdIdle EXCEPT !.pc = IF want = Off THEN "take" ELSE "check", !.want = want]]
            /\ UNCHANGED <<wdWant, wdLeft>>
  BY DEF WdPatch
<1>3. CASE want = Off /\ ~IsAlive(wdInst)
  <2>1. wdWant' = Off /\ UNCHANGED wdDo
    BY <1>2, <1>3
  <2>2. WdTypeOK'
    BY <1>1, <2>1 DEF WdTypeOK
  <2>3. WdOwned' /\ WdTaken' /\ WdComes' /\ WdGone'
    BY <1>1, <2>1 DEF WdOwned, WdTaken, WdComes, WdGone, WdStopping, WdSeen
  <2>4. WdKept'
    BY <1>1, <1>3, <2>1 DEF WdKept, IsAlive
  <2> QED
    BY <2>2, <2>3, <2>4 DEF WdInv
<1>4. CASE ~(want = Off /\ ~IsAlive(wdInst))
  <2> DEFINE t == [WdIdle EXCEPT !.pc = IF want = Off THEN "take" ELSE "check", !.want = want]
  <2>1. t \in WdTask /\ t.pc = (IF want = Off THEN "take" ELSE "check") /\ t.want = want
    BY WdAssumption DEF WdIdle, WdTask, WdPcs
  <2>2. wdDo' = [wdDo EXCEPT !["user"] = t]
    BY <1>2, <1>4
  <2> HIDE DEF t
  <2>3. /\ wdDo' \in [WdActors -> WdTask] /\ wdDo'["user"] = t
        /\ \A b \in WdActors \ {"user"} : wdDo'[b] = wdDo[b]
    BY <1>1, <2>1, <2>2, WdDoes, WdRecords
  <2>4. wdDo'["exit"] = wdDo["exit"]
    BY <2>3 DEF WdActors
  <2>5. WdTypeOK'
    BY <1>1, <2>3, WdTypes DEF WdTypeOK, WdTask
  <2>6. WdOwned' /\ WdTaken' /\ WdGone' /\ WdKept' /\ WdComes'
    BY <1>1, <2>1, <2>3, <2>4 DEF WdOwned, WdTaken, WdComes, WdGone, WdKept, WdStopping, WdSeen
  <2> QED
    BY <2>5, <2>6 DEF WdInv
<1> QED
  BY <1>3, <1>4

\* start looks for an instance.
LEMMA WdChecksKeeps ==
  ASSUME WdInv, WdChecks
  PROVE  WdInv'
<1>1. /\ WdTypeOK /\ WdOwned /\ WdTaken /\ WdComes /\ WdKept /\ WdGone
      /\ wdProc \in [WdProcs -> WdProcess] /\ wdDo \in [WdActors -> WdTask]
      /\ UNCHANGED <<wdInst, wdLock, wdProc, wdWant, wdLeft>> /\ wdDo["user"].pc = "check"
  BY WdTypes DEF WdInv, WdChecks, WdAt
<1> DEFINE t == [wdDo["user"] EXCEPT !.pc = IF wdInst = 0 THEN "spawn" ELSE "take"]
<1>2. wdDo["user"] \in WdTask
  BY <1>1, WdRecords
<1>3. t \in WdTask /\ t.pc = (IF wdInst = 0 THEN "spawn" ELSE "take") /\ t.want = wdDo["user"].want
  BY <1>2 DEF WdTask, WdPcs
<1>4. wdDo' = [wdDo EXCEPT !["user"] = t]
  BY <1>1 DEF WdChecks, WdGoto
<1> HIDE DEF t
<1>5. /\ wdDo' \in [WdActors -> WdTask] /\ wdDo'["user"] = t
      /\ \A b \in WdActors \ {"user"} : wdDo'[b] = wdDo[b]
  BY <1>1, <1>3, <1>4, WdDoes, WdRecords
<1>6. wdDo'["exit"] = wdDo["exit"]
  BY <1>5 DEF WdActors
<1>7. WdTypeOK'
  BY <1>1, <1>5, WdTypes DEF WdTypeOK, WdTask
<1>8. WdOwned' /\ WdTaken' /\ WdGone' /\ WdKept' /\ WdComes'
  BY <1>1, <1>3, <1>5, <1>6 DEF WdOwned, WdTaken, WdComes, WdGone, WdKept, WdStopping, WdSeen
<1> QED
  BY <1>7, <1>8 DEF WdInv

\* What an operation that ends leaves.
LEMMA WdEnds ==
  ASSUME WdTypeOK, NEW a \in {"user", "exit"}, NEW ok \in BOOLEAN, WdDone(a, ok)
  PROVE  /\ wdDo' \in [WdActors -> WdTask] /\ wdDo'[a].pc = (IF a = "exit" THEN "leave" ELSE "idle")
         /\ \A b \in WdActors \ {a} : wdDo'[b] = wdDo[b]
         /\ wdWant' = (IF ok THEN wdDo[a].want ELSE wdWant) /\ wdLeft' = (a = "user" /\ ~ok)
<1> DEFINE t == IF a = "exit" THEN [WdIdle EXCEPT !.pc = "leave"] ELSE WdIdle
<1>1. t \in WdTask /\ t.pc = (IF a = "exit" THEN "leave" ELSE "idle") /\ a \in WdActors
  BY WdAssumption DEF WdIdle, WdTask, WdPcs, WdActors
<1>2. wdDo' = [wdDo EXCEPT ![a] = t]
  BY DEF WdDone
<1>3. wdWant' = (IF ok THEN wdDo[a].want ELSE wdWant) /\ wdLeft' = (a = "user" /\ ~ok)
  BY DEF WdDone
<1> HIDE DEF t
<1> QED
  BY <1>1, <1>2, <1>3, WdDoes

\* stop has nothing more to do: the widget it was about has lost its sender or ended.
LEMMA WdStoppedKeeps ==
  ASSUME WdInv, NEW a \in {"user", "exit"}, wdDo[a].pc \in {"take", "wait"}, WdStopped(a),
         UNCHANGED wdLock, wdInst' \in {0, wdInst}, a = "user" => wdInst' = 0,
         wdProc' \in [WdProcs -> WdProcess],
         \A q \in WdProcs : /\ wdProc'[q].pc \in {wdProc[q].pc, "gone"}
                            /\ wdProc[q].pc = "spawned" => wdProc'[q] = wdProc[q]
                            /\ wdProc'[q].variant = wdProc[q].variant
                            /\ wdProc'[q].sender => wdProc[q].sender,
         \A q \in WdProcs : wdProc'[q].pc = "shown" /\ wdProc'[q].sender
           => ~(q = wdInst /\ wdInst' # wdInst) /\ ~WdStopping(a, q)
  PROVE  WdInv'
<1>1. /\ WdTypeOK /\ WdOwned /\ WdTaken /\ WdComes /\ WdKept /\ WdGone
      /\ wdProc \in [WdProcs -> WdProcess] /\ wdDo \in [WdActors -> WdTask]
      /\ wdInst \in WdProcs \cup {0} /\ wdLock \in {WdNobody, "user", "listener"}
  BY WdTypes DEF WdInv
<1>2. /\ wdDo' \in [WdActors -> WdTask] /\ \A b \in WdActors \ {a} : wdDo'[b] = wdDo[b]
      /\ \/ a = "user" /\ wdDo'[a].pc = "spawn" /\ wdDo'[a].want # Off
         \/ a = "user" /\ wdDo'[a].pc = "idle" /\ wdWant' = Off
         \/ a = "exit" /\ wdDo'[a].pc = "leave"
  <2>1. CASE a = "user" /\ wdDo[a].want # Off
    <3> DEFINE t == [wdDo[a] EXCEPT !.pc = "spawn", !.proc = 0]
    <3>1. wdDo[a] \in WdTask /\ a \in WdActors
      BY <1>1, WdRecords
    <3>2. t \in WdTask /\ t.pc = "spawn" /\ t.want = wdDo[a].want
      BY <3>1 DEF WdTask, WdPcs
    <3>3. wdDo' = [wdDo EXCEPT ![a] = t]
      BY <2>1 DEF WdStopped
    <3> HIDE DEF t
    <3> QED
      BY <1>1, <2>1, <3>1, <3>2, <3>3, WdDoes
  <2>2. CASE ~(a = "user" /\ wdDo[a].want # Off)
    <3>1. WdDone(a, TRUE)
      BY <2>2 DEF WdStopped
    <3> QED
      BY <1>1, <2>2, <3>1, WdEnds
  <2> QED
    BY <2>1, <2>2
<1>3. WdTypeOK'
  BY <1>1, <1>2, WdTypes DEF WdTypeOK, WdProcess, WdTask
<1>4. a = "user" => wdDo'["exit"] = wdDo["exit"]
  BY <1>2 DEF WdActors
<1>5. a = "exit" => wdDo'["user"] = wdDo["user"]
  BY <1>2 DEF WdActors
<1>6. WdOwned'
  <2> SUFFICES ASSUME NEW q \in WdProcs, wdProc'[q].pc = "shown", wdProc'[q].sender
               PROVE  q = wdInst' \/ WdStopping("user", q)' \/ WdStopping("exit", q)'
    BY DEF WdOwned
  <2>1. q = wdInst \/ WdStopping("user", q) \/ WdStopping("exit", q)
    BY <1>1 DEF WdOwned
  <2> QED
    BY <1>4, <1>5, <2>1 DEF WdStopping
<1>7. WdTaken'
  <2>1. \A q \in WdProcs : WdSeen(q) => WdSeen(q)'
    BY DEF WdSeen
  <2>2. wdInst' # 0 => WdSeen(wdInst)'
    BY <1>1, <2>1 DEF WdTaken, WdSeen
  <2>3. CASE a = "user"
    BY <1>1, <1>2, <1>4, <2>1, <2>2, <2>3 DEF WdTaken, WdSeen
  <2>4. CASE a = "exit"
    BY <1>1, <1>2, <1>5, <2>1, <2>2, <2>4 DEF WdTaken, WdSeen
  <2> QED
    BY <2>3, <2>4
<1>8. WdComes'
  <2>1. CASE a = "user"
    BY <1>2, <2>1 DEF WdComes
  <2>2. CASE a = "exit"
    BY <1>1, <1>5, <2>2 DEF WdComes
  <2> QED
    BY <2>1, <2>2
<1>9. WdKept'
  BY <1>2, <1>4, WdRecords DEF WdKept, IsAlive
<1>10. WdGone'
  BY <1>1, <1>2, <1>4 DEF WdGone
<1> QED
  BY <1>3, <1>6, <1>7, <1>8, <1>9, <1>10 DEF WdInv

\* The sender of a widget is dropped.
LEMMA WdDrops ==
  ASSUME WdTypeOK, NEW p \in WdProcs \cup {0}
  PROVE  /\ Dropped(p) \in [WdProcs -> WdProcess]
         /\ \A q \in WdProcs : /\ q # p => Dropped(p)[q] = wdProc[q]
                               /\ Dropped(p)[q].pc = wdProc[q].pc /\ Dropped(p)[q].variant = wdProc[q].variant
                               /\ Dropped(p)[q].sender => wdProc[q].sender /\ q # p
<1>1. wdProc \in [WdProcs -> WdProcess] /\ 0 \notin WdProcs
  BY WdTypes, WdRecords
<1>2. CASE p = 0
  BY <1>1, <1>2 DEF Dropped
<1>3. CASE p # 0
  <2> DEFINE w == [wdProc[p] EXCEPT !.sender = FALSE]
  <2>1. w \in WdProcess /\ w.pc = wdProc[p].pc /\ w.variant = wdProc[p].variant /\ w.sender = FALSE
    BY <1>1, <1>3 DEF WdProcess
  <2>2. Dropped(p) = [wdProc EXCEPT ![p] = w]
    BY <1>3 DEF Dropped
  <2> HIDE DEF w
  <2> QED
    BY <1>1, <1>3, <2>1, <2>2
<1> QED
  BY <1>2, <1>3

\* stop takes the instance.
LEMMA WdTakesKeeps ==
  ASSUME WdInv, NEW a \in {"user", "exit"}, WdTakes(a)
  PROVE  WdInv'
<1>1. /\ WdTypeOK /\ WdOwned /\ WdTaken /\ WdComes /\ WdKept /\ WdGone
      /\ wdProc \in [WdProcs -> WdProcess] /\ wdDo \in [WdActors -> WdTask]
      /\ wdInst \in WdProcs \cup {0} /\ wdLock \in {WdNobody, "user", "listener"}
  BY WdTypes DEF WdInv
<1>2. wdDo[a].pc = "take" /\ wdInst' = 0 /\ UNCHANGED wdLock
  BY DEF WdTakes, WdAt
<1>3. CASE IsAlive(wdInst)
  <2> DEFINE t == [wdDo[a] EXCEPT !.pc = "tell", !.proc = wdInst]
  <2>1. wdDo[a] \in WdTask /\ a \in WdActors
    BY <1>1, WdRecords
  <2>2. t \in WdTask /\ t.pc = "tell" /\ t.proc = wdInst
    BY <1>1, <2>1 DEF WdTask, WdPcs
  <2>3. wdDo' = [wdDo EXCEPT ![a] = t] /\ UNCHANGED <<wdProc, wdWant, wdLeft>>
    BY <1>3 DEF WdTakes
  <2> HIDE DEF t
  <2>4. /\ wdDo' \in [WdActors -> WdTask] /\ wdDo'[a] = t
        /\ \A b \in WdActors \ {a} : wdDo'[b] = wdDo[b]
    BY <1>1, <2>1, <2>2, <2>3, WdDoes
  <2>5. WdTypeOK'
    BY <1>1, <1>2, <2>3, <2>4, WdTypes DEF WdTypeOK, WdProcess, WdTask
  <2>6. wdInst # 0 /\ WdSeen(wdInst)
    BY <1>1, <1>3 DEF IsAlive, WdTaken
  <2>7. CASE a = "user"
    <3>1. wdDo'["exit"] = wdDo["exit"]
      BY <2>4, <2>7 DEF WdActors
    <3>2. WdOwned' /\ WdGone' /\ WdKept' /\ WdComes'
      BY <1>1, <1>2, <2>2, <2>3, <2>4, <2>7, <3>1
         DEF WdOwned, WdComes, WdGone, WdKept, WdStopping
    <3>3. WdTaken'
      BY <1>1, <1>2, <2>2, <2>3, <2>4, <2>6, <2>7, <3>1 DEF WdTaken, WdSeen
    <3> QED
      BY <2>5, <3>2, <3>3 DEF WdInv
  <2>8. CASE a = "exit"
    <3>1. wdDo'["user"] = wdDo["user"]
      BY <2>4, <2>8 DEF WdActors
    <3>2. WdOwned' /\ WdGone' /\ WdKept' /\ WdComes'
      BY <1>1, <1>2, <2>2, <2>3, <2>4, <2>8, <3>1
         DEF WdOwned, WdComes, WdGone, WdKept, WdStopping
    <3>3. WdTaken'
      BY <1>1, <1>2, <2>2, <2>3, <2>4, <2>6, <2>8, <3>1 DEF WdTaken, WdSeen
    <3> QED
      BY <2>5, <3>2, <3>3 DEF WdInv
  <2> QED
    BY <2>7, <2>8
<1>4. CASE ~IsAlive(wdInst)
  <2>1. wdProc' = Dropped(wdInst) /\ WdStopped(a)
    BY <1>4 DEF WdTakes
  <2>2. /\ wdProc' \in [WdProcs -> WdProcess]
        /\ \A q \in WdProcs : /\ q # wdInst => wdProc'[q] = wdProc[q]
                              /\ wdProc'[q].pc = wdProc[q].pc /\ wdProc'[q].variant = wdProc[q].variant
                              /\ wdProc'[q].sender => wdProc[q].sender /\ q # wdInst
    BY <1>1, <2>1, WdDrops
  <2>3. \A q \in WdProcs : wdProc[q].pc = "spawned" => wdProc'[q] = wdProc[q]
    BY <1>1, <2>2, WdAssumption DEF WdTaken, WdSeen
  <2>4. \A q \in WdProcs : wdProc'[q].pc = "shown" /\ wdProc'[q].sender
          => ~(q = wdInst /\ wdInst' # wdInst) /\ ~WdStopping(a, q)
    BY <1>2, <2>2 DEF WdStopping
  <2> QED
    BY <1>2, <2>1, <2>2, <2>3, <2>4, WdStoppedKeeps
<1> QED
  BY <1>3, <1>4

\* The widget has ended, or is killed.
LEMMA WdWaitsKeeps ==
  ASSUME WdInv, NEW a \in {"user", "exit"}, WdWaits(a)
  PROVE  WdInv'
<1>1. /\ WdTypeOK /\ WdTaken /\ wdProc \in [WdProcs -> WdProcess]
  BY WdTypes DEF WdInv
<1> DEFINE p == wdDo[a].proc
           w == [wdProc[p] EXCEPT !.pc = "gone", !.sender = FALSE]
<1>2. wdDo[a].pc = "wait" /\ UNCHANGED <<wdInst, wdLock>> /\ WdStopped(a) /\ wdProc' = [wdProc EXCEPT ![p] = w]
  BY DEF WdWaits, WdAt
<1>3. p \in WdProcs /\ wdProc[p].pc \notin {"none", "spawned"} /\ (a = "user" => wdInst = 0)
  BY <1>1, <1>2 DEF WdTaken, WdSeen
<1>4. w \in WdProcess /\ w.pc = "gone" /\ w.variant = wdProc[p].variant /\ w.sender = FALSE
  BY <1>1, <1>3 DEF WdProcess
<1> HIDE DEF w
<1>5. /\ wdProc' \in [WdProcs -> WdProcess] /\ wdProc'[p] = w
      /\ \A q \in WdProcs \ {p} : wdProc'[q] = wdProc[q]
  BY <1>1, <1>2, <1>3, <1>4, WdBecomes
<1>6. \A q \in WdProcs : /\ wdProc'[q].pc \in {wdProc[q].pc, "gone"}
                         /\ wdProc[q].pc = "spawned" => wdProc'[q] = wdProc[q]
                         /\ wdProc'[q].variant = wdProc[q].variant
                         /\ wdProc'[q].sender => wdProc[q].sender
  BY <1>3, <1>4, <1>5
<1>7. \A q \in WdProcs : wdProc'[q].pc = "shown" /\ wdProc'[q].sender
        => ~(q = wdInst /\ wdInst' # wdInst) /\ ~WdStopping(a, q)
  BY <1>2, <1>4, <1>5 DEF WdStopping
<1>8. wdDo[a].pc \in {"take", "wait"} /\ UNCHANGED wdLock /\ wdInst' \in {0, wdInst} /\ (a = "user" => wdInst' = 0)
  BY <1>2, <1>3
<1> QED
  BY <1>2, <1>5, <1>6, <1>7, <1>8, WdStoppedKeeps

\* Stop is sent to the widget that was taken, or it is gone.
LEMMA WdTellsKeeps ==
  ASSUME WdInv, NEW a \in {"user", "exit"}, WdTells(a)
  PROVE  WdInv'
<1>1. /\ WdTypeOK /\ WdOwned /\ WdTaken /\ WdComes /\ WdKept /\ WdGone
      /\ wdProc \in [WdProcs -> WdProcess] /\ wdDo \in [WdActors -> WdTask] /\ a \in WdActors
      /\ wdInst \in WdProcs \cup {0} /\ wdLock \in {WdNobody, "user", "listener"}
  BY WdTypes DEF WdInv, WdActors
<1> DEFINE p == wdDo[a].proc
<1>2. wdDo[a].pc = "tell" /\ UNCHANGED <<wdInst, wdLock>>
  BY DEF WdTells, WdAt
<1>3. p \in WdProcs /\ wdProc[p].pc \notin {"none", "spawned"}
  BY <1>1, <1>2 DEF WdTaken, WdSeen
<1>4. CASE IsAlive(p)
  <2> DEFINE t == [wdDo[a] EXCEPT !.pc = "wait"]
             w == [wdProc[p] EXCEPT !.box = Append(wdProc[p].box, "Stop")]
  <2>1. wdDo[a] \in WdTask /\ wdProc[p] \in WdProcess
    BY <1>1, <1>3
  <2>2. t \in WdTask /\ t.pc = "wait" /\ t.proc = p
    BY <2>1 DEF WdTask, WdPcs
  <2>3. Append(wdProc[p].box, "Stop") \in Seq({"Stop", "Update"})
    BY <2>1 DEF WdProcess
  <2>4. w \in WdProcess /\ w.pc = wdProc[p].pc /\ w.variant = wdProc[p].variant /\ w.sender = wdProc[p].sender
    BY <2>1, <2>3 DEF WdProcess
  <2>5. /\ wdDo' = [wdDo EXCEPT ![a] = t] /\ wdProc' = [wdProc EXCEPT ![p] = w]
        /\ UNCHANGED <<wdWant, wdLeft>>
    BY <1>4 DEF WdTells, WdGoto, Sent
  <2>6. wdProc[p].pc # "gone"
    BY <1>4 DEF IsAlive
  <2> HIDE DEF t, w
  <2>7. /\ wdDo' \in [WdActors -> WdTask] /\ wdDo'[a] = t
        /\ \A b \in WdActors \ {a} : wdDo'[b] = wdDo[b]
    BY <1>1, <2>2, <2>5, WdDoes
  <2>8. /\ wdProc' \in [WdProcs -> WdProcess] /\ wdProc'[p] = w
        /\ \A q \in WdProcs \ {p} : wdProc'[q] = wdProc[q]
    BY <1>1, <1>3, <2>4, <2>5, WdBecomes
  <2>9. /\ \A b \in {"user", "exit"} : /\ \A q \in WdProcs : WdStopping(b, q) => WdStopping(b, q)'
                                       /\ b # a => wdDo'[b] = wdDo[b]
        /\ \A q \in WdProcs : WdSeen(q) => WdSeen(q)'
    BY <1>2, <2>2, <2>4, <2>7, <2>8 DEF WdActors, WdStopping, WdSeen
  <2>10. WdTypeOK'
    BY <1>1, <1>2, <2>7, <2>8, WdTypes DEF WdTypeOK, WdProcess, WdTask
  <2>11. WdOwned'
    BY <1>1, <1>2, <2>4, <2>8, <2>9 DEF WdOwned
  <2>12. WdTaken'
    <3>1. wdInst' # 0 => WdSeen(wdInst)'
      BY <1>1, <1>2, <2>9 DEF WdTaken, WdSeen
    <3>2. CASE a = "user"
      BY <1>1, <1>2, <1>3, <2>2, <2>7, <2>9, <3>1, <3>2 DEF WdTaken, WdSeen
    <3>3. CASE a = "exit"
      BY <1>1, <1>2, <1>3, <2>2, <2>7, <2>9, <3>1, <3>3 DEF WdTaken, WdSeen
    <3> QED
      BY <3>2, <3>3
  <2>13. WdComes'
    <3>1. CASE a = "user"
      BY <2>2, <2>7, <3>1 DEF WdComes
    <3>2. CASE a = "exit"
      BY <1>1, <1>3, <2>6, <2>8, <2>9, <3>2 DEF WdComes
    <3> QED
      BY <3>1, <3>2
  <2>14. WdKept'
    BY <2>2, <2>7 DEF WdKept
  <2>15. WdGone'
    <3>1. CASE a = "user"
      BY <1>1, <1>2, <2>9, <3>1 DEF WdGone
    <3>2. CASE a = "exit"
      BY <2>2, <2>7, <3>2 DEF WdGone
    <3> QED
      BY <3>1, <3>2
  <2> QED
    BY <2>10, <2>11, <2>12, <2>13, <2>14, <2>15 DEF WdInv
<1>5. CASE ~IsAlive(p)
  <2>1. wdProc' = Dropped(p) /\ WdDone(a, FALSE)
    BY <1>5 DEF WdTells
  <2>2. /\ wdProc' \in [WdProcs -> WdProcess]
        /\ \A q \in WdProcs : /\ q # p => wdProc'[q] = wdProc[q]
                              /\ wdProc'[q].pc = wdProc[q].pc /\ wdProc'[q].variant = wdProc[q].variant
                              /\ wdProc'[q].sender => wdProc[q].sender /\ q # p
    BY <1>1, <1>3, <2>1, WdDrops
  <2>3. /\ wdDo' \in [WdActors -> WdTask] /\ wdDo'[a].pc = (IF a = "exit" THEN "leave" ELSE "idle")
        /\ \A b \in WdActors \ {a} : wdDo'[b] = wdDo[b]
        /\ wdLeft' = (a = "user")
    BY <1>1, <2>1, WdEnds
  <2>4. /\ \A b \in {"user", "exit"} : b # a => wdDo'[b] = wdDo[b]
        /\ \A q \in WdProcs : WdSeen(q) => WdSeen(q)'
    BY <2>2, <2>3 DEF WdActors, WdSeen
  <2>5. WdTypeOK'
    BY <1>1, <1>2, <2>2, <2>3, WdTypes DEF WdTypeOK, WdProcess, WdTask
  <2>6. wdInst' # 0 => WdSeen(wdInst)'
    BY <1>1, <1>2, <2>4 DEF WdTaken, WdSeen
  <2>7. CASE a = "user"
    <3>1. wdDo'["exit"] = wdDo["exit"] /\ wdDo'["user"].pc = "idle" /\ wdLeft'
      BY <2>3, <2>4, <2>7
    <3>2. WdOwned'
      BY <1>1, <1>2, <2>2, <3>1, <2>7 DEF WdOwned, WdStopping
    <3>3. WdTaken' /\ WdComes' /\ WdKept'
      BY <1>1, <1>2, <2>4, <2>6, <3>1 DEF WdTaken, WdComes, WdKept, WdSeen
    <3>4. WdGone'
      BY <1>1, <1>2, <2>7, <3>1 DEF WdGone
    <3> QED
      BY <2>5, <3>2, <3>3, <3>4 DEF WdInv
  <2>8. CASE a = "exit"
    <3>1. wdDo'["user"] = wdDo["user"] /\ wdDo'["exit"].pc = "leave"
      BY <2>3, <2>4, <2>8
    <3>2. WdOwned'
      BY <1>1, <1>2, <2>2, <3>1, <2>8 DEF WdOwned, WdStopping
    <3>3. WdTaken' /\ WdKept' /\ WdGone'
      BY <1>1, <1>2, <2>4, <2>6, <3>1 DEF WdTaken, WdKept, WdGone, WdSeen
    <3>4. WdComes'
      <4> DEFINE c == wdDo["user"].proc
      <4>1. wdDo["user"].pc = "connect" /\ wdProc[c].pc = "spawned" => wdProc'[c] = wdProc[c]
        BY <1>1, <1>3, <2>2 DEF WdComes
      <4> QED
        BY <1>1, <2>2, <3>1, <4>1 DEF WdComes
    <3> QED
      BY <2>5, <3>2, <3>3, <3>4 DEF WdInv
  <2> QED
    BY <2>7, <2>8
<1> QED
  BY <1>4, <1>5

\* start spawns the widget asked for, or fails to.
LEMMA WdSpawnsKeeps ==
  ASSUME WdInv, WdSpawns
  PROVE  WdInv'
<1>1. /\ WdTypeOK /\ WdOwned /\ WdTaken /\ WdComes /\ WdKept /\ WdGone
      /\ wdProc \in [WdProcs -> WdProcess] /\ wdDo \in [WdActors -> WdTask]
      /\ wdInst \in WdProcs \cup {0}
  BY WdTypes DEF WdInv
<1>2. /\ wdDo["user"].pc = "spawn" /\ wdLock = WdNobody /\ UNCHANGED wdInst /\ wdInst = 0
      /\ wdDo["user"] \in WdTask /\ wdDo["user"].want # Off
  BY <1>1 DEF WdSpawns, WdAt, WdTaken, WdComes, WdActors
<1>3. CASE \E p \in WdProcs :
             /\ wdProc[p].pc = "none"
             /\ wdProc' = [wdProc EXCEPT ![p] = [NoWidget EXCEPT !.pc = "spawned", !.variant = wdDo["user"].want]]
             /\ wdDo' = [wdDo EXCEPT !["user"] = [wdDo["user"] EXCEPT !.pc = "connect", !.proc = p]]
             /\ wdLock' = "user" /\ UNCHANGED <<wdWant, wdLeft>>
  <2>1. PICK p \in WdProcs :
             /\ wdProc[p].pc = "none"
             /\ wdProc' = [wdProc EXCEPT ![p] = [NoWidget EXCEPT !.pc = "spawned", !.variant = wdDo["user"].want]]
             /\ wdDo' = [wdDo EXCEPT !["user"] = [wdDo["user"] EXCEPT !.pc = "connect", !.proc = p]]
             /\ wdLock' = "user" /\ UNCHANGED <<wdWant, wdLeft>>
    BY <1>3
  <2> DEFINE w == [NoWidget EXCEPT !.pc = "spawned", !.variant = wdDo["user"].want]
             t == [wdDo["user"] EXCEPT !.pc = "connect", !.proc = p]
  <2>2. <<>> \in Seq({"Stop", "Update"})
    OBVIOUS
  <2>3. w \in WdProcess /\ w.pc = "spawned" /\ w.variant = wdDo["user"].want /\ w.box = <<>> /\ w.sender = TRUE
    BY <1>2, <2>2 DEF NoWidget, WdProcess, WdTask
  <2>4. t \in WdTask /\ t.pc = "connect" /\ t.proc = p /\ t.want = wdDo["user"].want
    BY <1>2 DEF WdTask, WdPcs
  <2>5. wdProc' = [wdProc EXCEPT ![p] = w] /\ wdDo' = [wdDo EXCEPT !["user"] = t]
    BY <2>1
  <2> HIDE DEF w, t
  <2>6. /\ wdDo' \in [WdActors -> WdTask] /\ wdDo'["user"] = t /\ wdDo'["exit"] = wdDo["exit"]
    BY <1>1, <2>4, <2>5, WdDoes DEF WdActors
  <2>7. /\ wdProc' \in [WdProcs -> WdProcess] /\ wdProc'[p] = w
        /\ \A q \in WdProcs \ {p} : wdProc'[q] = wdProc[q]
    BY <1>1, <2>3, <2>5, WdBecomes
  <2>8. WdTypeOK'
    BY <1>1, <1>2, <2>1, <2>6, <2>7, WdTypes DEF WdTypeOK, WdProcess, WdTask
  <2>9. WdOwned'
    BY <1>1, <1>2, <2>3, <2>6, <2>7 DEF WdOwned, WdStopping
  <2>10. WdTaken'
    BY <1>1, <1>2, <2>1, <2>4, <2>6, <2>7 DEF WdTaken, WdSeen
  <2>11. WdComes'
    BY <1>2, <2>3, <2>4, <2>6, <2>7 DEF WdComes
  <2>12. WdKept' /\ WdGone'
    BY <1>1, <1>2, <2>4, <2>6 DEF WdKept, WdGone
  <2> QED
    BY <2>8, <2>9, <2>10, <2>11, <2>12 DEF WdInv
<1>4. CASE WdDone("user", FALSE) /\ UNCHANGED <<wdProc, wdLock>>
  <2>1. /\ wdDo' \in [WdActors -> WdTask] /\ wdDo'["user"].pc = "idle" /\ wdDo'["exit"] = wdDo["exit"] /\ wdLeft'
    BY <1>1, <1>4, WdEnds DEF WdActors
  <2>2. WdTypeOK'
    BY <1>1, <1>2, <1>4, <2>1, WdTypes DEF WdTypeOK, WdTask
  <2>3. WdOwned' /\ WdTaken' /\ WdComes' /\ WdKept' /\ WdGone'
    BY <1>1, <1>2, <1>4, <2>1 DEF WdOwned, WdStopping, WdTaken, WdSeen, WdComes, WdKept, WdGone
  <2> QED
    BY <2>2, <2>3 DEF WdInv
<1> QED
  BY <1>1, <1>3, <1>4 DEF WdSpawns, WdActors

\* The widget connects and is the instance, or it has exited.
LEMMA WdConnectsKeeps ==
  ASSUME WdInv, WdConnects
  PROVE  WdInv'
<1>1. /\ WdTypeOK /\ WdOwned /\ WdTaken /\ WdComes /\ WdKept /\ WdGone
      /\ wdProc \in [WdProcs -> WdProcess] /\ wdDo \in [WdActors -> WdTask]
      /\ wdInst \in WdProcs \cup {0} /\ 0 \notin WdProcs
  BY WdTypes, WdAssumption DEF WdInv
<1> DEFINE p == wdDo["user"].proc
<1>2. /\ wdDo["user"].pc = "connect" /\ wdLock' = WdNobody /\ wdInst = 0 /\ wdDo["user"].want # Off
      /\ p \in WdProcs /\ wdProc[p].variant = wdDo["user"].want /\ wdProc[p] \in WdProcess
      /\ wdProc[p].pc = "spawned" => wdProc[p].box = <<>> /\ wdProc[p].sender
  BY <1>1 DEF WdConnects, WdAt, WdTaken, WdComes
<1>3. CASE /\ wdProc[p].pc = "spawned" /\ ~wdProc[p].hung
           /\ wdProc' = [Dropped(wdInst) EXCEPT ![p].pc = "shown"] /\ wdInst' = p
           /\ WdDone("user", TRUE)
  <2> DEFINE w == [wdProc[p] EXCEPT !.pc = "shown"]
  <2>1. /\ w \in WdProcess /\ w.pc = "shown" /\ w.variant = wdDo["user"].want
        /\ w.sender /\ ~w.hung /\ w.box = <<>>
    BY <1>2, <1>3 DEF WdProcess
  <2>2. wdProc' = [wdProc EXCEPT ![p] = w]
    BY <1>2, <1>3 DEF Dropped
  <2> HIDE DEF w
  <2>3. /\ wdProc' \in [WdProcs -> WdProcess] /\ wdProc'[p] = w
        /\ \A q \in WdProcs \ {p} : wdProc'[q] = wdProc[q]
    BY <1>1, <1>2, <2>1, <2>2, WdBecomes
  <2>4. /\ wdDo' \in [WdActors -> WdTask] /\ wdDo'["user"].pc = "idle" /\ wdDo'["exit"] = wdDo["exit"]
        /\ wdWant' = wdDo["user"].want
    BY <1>1, <1>3, WdEnds DEF WdActors
  <2>5. WdGoesOn(wdProc'[p])
    <3>1. <<>> \in Seq({"Update"})
      OBVIOUS
    <3>2. WdGoesOn(w)
      BY <2>1, <3>1 DEF WdGoesOn
    <3> QED
      BY <2>3, <3>2
  <2>6. WdTypeOK'
    BY <1>1, <1>2, <1>3, <2>3, <2>4, WdTypes DEF WdTypeOK, WdProcess, WdTask
  <2>7. WdOwned'
    BY <1>1, <1>2, <1>3, <2>3, <2>4 DEF WdOwned, WdStopping
  <2>8. WdTaken'
    BY <1>1, <1>2, <1>3, <2>1, <2>3, <2>4 DEF WdTaken, WdSeen
  <2>9. WdComes' /\ WdGone'
    BY <1>1, <1>2, <2>4 DEF WdComes, WdGone
  <2>10. WdKept'
    BY <1>1, <1>2, <1>3, <2>1, <2>3, <2>4, <2>5 DEF WdKept
  <2> QED
    BY <2>6, <2>7, <2>8, <2>9, <2>10 DEF WdInv
<1>4. CASE WdDone("user", FALSE) /\ UNCHANGED <<wdProc, wdInst>>
  <2>1. /\ wdDo' \in [WdActors -> WdTask] /\ wdDo'["user"].pc = "idle" /\ wdDo'["exit"] = wdDo["exit"] /\ wdLeft'
    BY <1>1, <1>4, WdEnds DEF WdActors
  <2>2. WdTypeOK'
    BY <1>1, <1>2, <1>4, <2>1, WdTypes DEF WdTypeOK, WdTask
  <2>3. WdOwned' /\ WdTaken' /\ WdComes' /\ WdKept' /\ WdGone'
    BY <1>1, <1>2, <1>4, <2>1 DEF WdOwned, WdStopping, WdTaken, WdSeen, WdComes, WdKept, WdGone
  <2> QED
    BY <2>2, <2>3 DEF WdInv
<1> QED
  BY <1>3, <1>4 DEF WdConnects

\* A statistic is sent to the instance.
LEMMA WdEventKeeps ==
  ASSUME WdInv, HandleEvent
  PROVE  WdInv'
<1>1. /\ WdTypeOK /\ WdOwned /\ WdTaken /\ WdComes /\ WdKept /\ WdGone
      /\ wdProc \in [WdProcs -> WdProcess] /\ wdDo \in [WdActors -> WdTask]
      /\ wdInst \in WdProcs \cup {0} /\ 0 \notin WdProcs
  BY WdTypes, WdAssumption DEF WdInv
<1>2. PICK pc \in WdPcs : wdDo' = [wdDo EXCEPT !["listener"] = [wdDo["listener"] EXCEPT !.pc = pc]]
  BY <1>1 DEF HandleEvent, WdGoto, WdActors, WdPcs
<1> DEFINE t == [wdDo["listener"] EXCEPT !.pc = pc]
<1>3. wdDo["listener"] \in WdTask
  BY <1>1 DEF WdActors
<1>4. t \in WdTask
  BY <1>3 DEF WdTask
<1>5. wdDo' = [wdDo EXCEPT !["listener"] = t]
  BY <1>2
<1> HIDE DEF t
<1>6. /\ wdDo' \in [WdActors -> WdTask] /\ wdDo'["user"] = wdDo["user"] /\ wdDo'["exit"] = wdDo["exit"]
  BY <1>1, <1>4, <1>5, WdDoes DEF WdActors
<1>7. UNCHANGED <<wdInst, wdWant, wdLeft>> /\ wdLock' \in {WdNobody, "user", "listener"}
  BY DEF HandleEvent
<1>8. CASE UNCHANGED wdProc
  <2>1. WdTypeOK'
    BY <1>1, <1>6, <1>7, <1>8, WdTypes DEF WdTypeOK, WdTask
  <2>2. WdOwned' /\ WdTaken' /\ WdComes' /\ WdGone'
    BY <1>1, <1>6, <1>7, <1>8 DEF WdOwned, WdStopping, WdTaken, WdSeen, WdComes, WdGone
  <2>3. WdKept'
    BY <1>1, <1>6, <1>7, <1>8 DEF WdKept, IsAlive
  <2> QED
    BY <2>1, <2>2, <2>3 DEF WdInv
<1>9. CASE IsAlive(wdInst) /\ wdProc' = Sent(wdInst, "Update")
  <2> DEFINE w == [wdProc[wdInst] EXCEPT !.box = Append(wdProc[wdInst].box, "Update")]
  <2>1. /\ wdInst \in WdProcs /\ wdProc[wdInst] \in WdProcess
        /\ wdProc[wdInst].pc \notin {"none", "spawned", "gone"}
    BY <1>1, <1>9 DEF IsAlive, WdTaken, WdSeen
  <2>2. /\ Append(wdProc[wdInst].box, "Update") \in Seq({"Stop", "Update"})
        /\ wdProc[wdInst].box \in Seq({"Update"}) => Append(wdProc[wdInst].box, "Update") \in Seq({"Update"})
    BY <2>1 DEF WdProcess
  <2>3. /\ w \in WdProcess /\ w.pc = wdProc[wdInst].pc /\ w.sender = wdProc[wdInst].sender
        /\ w.variant = wdProc[wdInst].variant /\ w.hung = wdProc[wdInst].hung
        /\ w.box = Append(wdProc[wdInst].box, "Update")
    BY <2>1, <2>2 DEF WdProcess
  <2>4. WdGoesOn(wdProc[wdInst]) => WdGoesOn(w)
    BY <2>2, <2>3 DEF WdGoesOn
  <2>5. wdProc' = [wdProc EXCEPT ![wdInst] = w]
    BY <1>9 DEF Sent
  <2> HIDE DEF w
  <2> QED
    BY <1>6, <1>7, <2>1, <2>3, <2>4, <2>5, WdOneMoves
<1> QED
  BY <1>8, <1>9 DEF HandleEvent

\* The clean-up begins, or has no manager to go by.
LEMMA WdCleansUpKeeps ==
  ASSUME WdInv, WdCleansUp
  PROVE  WdInv'
<1>1. /\ WdTypeOK /\ WdOwned /\ WdTaken /\ WdComes /\ WdKept /\ WdGone
      /\ wdProc \in [WdProcs -> WdProcess] /\ wdDo \in [WdActors -> WdTask]
      /\ UNCHANGED <<wdInst, wdLock, wdProc, wdWant, wdLeft>> /\ wdDo["exit"].pc = "idle"
  BY WdTypes DEF WdInv, WdCleansUp, WdAt
<1> DEFINE t == [wdDo["exit"] EXCEPT !.pc = IF wdManaged THEN "take" ELSE "leave"]
<1>2. wdDo["exit"] \in WdTask
  BY <1>1 DEF WdActors
<1>3. t \in WdTask /\ t.pc \in {"take", "leave"}
  BY <1>2 DEF WdTask, WdPcs
<1>4. wdDo' = [wdDo EXCEPT !["exit"] = t]
  BY DEF WdCleansUp
<1> HIDE DEF t
<1>5. wdDo' \in [WdActors -> WdTask] /\ wdDo'["exit"] = t /\ wdDo'["user"] = wdDo["user"]
  BY <1>1, <1>3, <1>4, WdDoes DEF WdActors
<1>6. WdTypeOK'
  BY <1>1, <1>5, WdTypes DEF WdTypeOK, WdTask
<1>7. WdOwned' /\ WdTaken' /\ WdComes' /\ WdKept' /\ WdGone'
  BY <1>1, <1>3, <1>5 DEF WdOwned, WdStopping, WdTaken, WdSeen, WdComes, WdKept, WdGone
<1> QED
  BY <1>6, <1>7 DEF WdInv

\* The application ends.
LEMMA WdExitsKeeps ==
  ASSUME WdInv, WdExits
  PROVE  WdInv'
<1>1. wdProc \in [WdProcs -> WdProcess] /\ 0 \notin WdProcs
  BY WdTypes, WdAssumption DEF WdInv
<1>2. wdInst' = 0 /\ wdLock' = WdNobody /\ wdProc' = [p \in WdProcs |-> [wdProc[p] EXCEPT !.sender = FALSE]]
  BY DEF WdExits
<1>3. \A w \in WdProcess : [w EXCEPT !.sender = FALSE] \in WdProcess /\ [w EXCEPT !.sender = FALSE].sender = FALSE
  BY DEF WdProcess
<1>4. wdProc' \in [WdProcs -> WdProcess] /\ \A p \in WdProcs : ~wdProc'[p].sender
  BY <1>1, <1>2, <1>3
<1> DEFINE t == [WdIdle EXCEPT !.pc = "gone"]
<1>5. t \in WdTask /\ t.pc = "gone" /\ WdIdle \in WdTask /\ WdIdle.pc = "idle"
  BY WdAssumption DEF WdIdle, WdTask, WdPcs
<1>6. wdDo' = [a \in WdActors |-> IF a = "exit" THEN t ELSE WdIdle]
  BY DEF WdExits
<1> HIDE DEF t
<1>7. wdDo' \in [WdActors -> WdTask] /\ wdDo'["exit"].pc = "gone" /\ wdDo'["user"].pc = "idle"
  BY <1>5, <1>6 DEF WdActors
<1>8. WdTypeOK'
  BY <1>2, <1>4, <1>7, WdTypes DEF WdTypeOK, WdTask, WdProcess
<1>9. WdOwned' /\ WdTaken' /\ WdComes' /\ WdKept' /\ WdGone'
  BY <1>2, <1>4, <1>7 DEF WdOwned, WdTaken, WdComes, WdKept, WdGone
<1> QED
  BY <1>8, <1>9 DEF WdInv

\* Every step keeps the invariant.
LEMMA WdKeeps == WdInv /\ [WdNext]_wdVars => WdInv'
<1> SUFFICES ASSUME WdInv, [WdNext]_wdVars PROVE WdInv'
  OBVIOUS
<1>1. CASE UNCHANGED wdVars
  <2>1. WdTypeOK /\ WdOwned /\ WdTaken /\ WdComes /\ WdKept /\ WdGone
    BY DEF WdInv
  <2>2. WdTypeOK' /\ WdOwned' /\ WdTaken' /\ WdComes' /\ WdGone'
    BY <1>1, <2>1 DEF wdVars, WdTypeOK, WdOwned, WdStopping, WdTaken, WdSeen, WdComes, WdGone
  <2>3. WdKept'
    BY <1>1, <2>1 DEF wdVars, WdKept, IsAlive
  <2> QED
    BY <2>2, <2>3 DEF WdInv
<1>2. CASE WdPatch
  BY <1>2, WdPatchKeeps
<1>3. CASE WdChecks
  BY <1>3, WdChecksKeeps
<1>4. CASE WdSpawns
  BY <1>4, WdSpawnsKeeps
<1>5. CASE WdConnects
  BY <1>5, WdConnectsKeeps
<1>6. CASE HandleEvent
  BY <1>6, WdEventKeeps
<1>7. CASE WdCleansUp
  BY <1>7, WdCleansUpKeeps
<1>8. CASE WdExits
  BY <1>8, WdExitsKeeps
<1>9. ASSUME NEW a \in {"user", "exit"}, WdTakes(a) PROVE WdInv'
  BY <1>9, WdTakesKeeps
<1>10. ASSUME NEW a \in {"user", "exit"}, WdTells(a) PROVE WdInv'
  BY <1>10, WdTellsKeeps
<1>11. ASSUME NEW a \in {"user", "exit"}, WdWaits(a) PROVE WdInv'
  BY <1>11, WdWaitsKeeps
<1>12. CASE HandleMessage \/ WidgetEnds \/ WidgetFails
  BY <1>12, WdWidgetSteps
<1> QED
  BY <1>1, <1>2, <1>3, <1>4, <1>5, <1>6, <1>7, <1>8, <1>9, <1>10, <1>11, <1>12 DEF WdNext

\* At rest the widget that is shown and has its sender is the instance; one without its
\* sender has a Stop of its own to handle, so it is not at rest.
LEMMA WdNobodyElse == WdInv => WdNoneLeftOver
<1> DEFINE shown == {p \in WdProcs : wdProc[p].pc = "shown" /\ ~wdProc[p].hung}
<1> SUFFICES ASSUME WdInv, WdAtRest
             PROVE  IF WdAt("exit", "gone") THEN shown = {}
                    ELSE /\ shown \subseteq {wdInst}
                         /\ ~wdLeft => {wdProc[p].variant : p \in shown} = {wdWant} \ {Off}
  BY DEF WdNoneLeftOver
<1>1. /\ WdOwned /\ WdTaken /\ WdKept /\ WdGone /\ wdDo["user"].pc = "idle" /\ wdDo["exit"].pc \in {"idle", "gone"}
      /\ wdInst \in WdProcs \cup {0} /\ 0 \notin WdProcs
  BY WdAssumption DEF WdInv, WdTypeOK, WdAtRest, WdAt
<1>2. \A p \in shown : wdProc[p].sender
  BY DEF WdAtRest, Disconnected
<1>3. CASE WdAt("exit", "gone")
  BY <1>1, <1>2, <1>3 DEF WdGone, WdAt
<1>4. CASE ~WdAt("exit", "gone")
  <2>1. wdDo["exit"].pc = "idle"
    BY <1>1, <1>4 DEF WdAt
  <2>2. shown \subseteq {wdInst}
    BY <1>1, <1>2, <2>1 DEF WdOwned, WdStopping
  <2>3. ASSUME ~wdLeft PROVE {wdProc[p].variant : p \in shown} = {wdWant} \ {Off}
    <3>1. IF wdWant = Off THEN ~IsAlive(wdInst)
          ELSE wdInst # 0 /\ WdGoesOn(wdProc[wdInst]) /\ wdProc[wdInst].variant = wdWant
      BY <1>1, <2>1, <2>3 DEF WdKept
    <3>2. CASE wdWant = Off
      <4>1. shown = {}
        BY <1>1, <2>2, <3>1, <3>2 DEF IsAlive
      <4> QED
        BY <3>2, <4>1
    <3>3. CASE wdWant # Off
      <4>1. shown = {wdInst}
        BY <1>1, <2>2, <3>1, <3>3 DEF WdGoesOn
      <4> QED
        BY <3>1, <3>3, <4>1
    <3> QED
      BY <3>2, <3>3
  <2> QED
    BY <1>4, <2>2, <2>3
<1> QED
  BY <1>3, <1>4

\* However start, stop, the listener of statistics and the clean-up cross, at rest no widget
\* is shown but the instance of the manager, which is the one the last operation asked for,
\* and none once the application has ended (WidgetManager::start and stop, the receive loop).
THEOREM NoneIsLeftOver == WdSpec => []WdNoneLeftOver
<1>1. WdInv /\ [WdNext]_wdVars => WdInv'
  BY WdKeeps
<1> QED
  BY <1>1, WdStarts, WdNobodyElse, PTL DEF WdSpec
-------------------------------------------------------------------------------
(* Processes of the application (lib.rs, setup.rs, utils/help.rs, deep links). *)

AlProcess == [pc : AlPcs, link : AlProcs \cup {NoLink},
              page : {"closed", "loading", "listening", "drained", "ready"},
              pending : AlProcs \cup {NoLink}, inbox : Seq(AlProcs \cup {NoLink}),
              emit : AlProcs \cup {NoLink}, up : SUBSET AlParts,
              held : SUBSET AlParts, left : SUBSET AlParts, listens : BOOLEAN,
              managed : BOOLEAN, exit : {"quit", "restart", "cleanup"},
              session : {"idle", "told", "blocked"}, ready : BOOLEAN]

\* Where the link a process was started with is not handed on yet.
AlCarrying == {"prepare", "refused", "lock", "setup", "resolve", "scheme", "launch"}
AlRunning == {"run", "leave"} \cup AlLeaving

\* A process that has the link x, wherever in it.
AlCarries(r, x) ==
  \/ r.link = x /\ r.pc \in AlCarrying
  \/ r.pc # "gone" /\ (x \in {r.pending, r.emit} \/ \E i \in DOMAIN r.inbox : r.inbox[i] = x)

\* What the clean-up still has before it at a step, and what is up before there is one.
AlKeeps(pc) ==
  IF pc \in {"scheme", "run", "reset"} THEN AlParts
  ELSE IF pc \in {"halt", "shutdown"} THEN {"core", "worker", "widget"}
  ELSE IF pc = "widget" THEN {"core", "widget"}
  ELSE IF pc = "stop" THEN {"core"} ELSE {}

\* What is up is still to be stopped, or stays with an excuse; and what is put down only
\* once is held for that, or stays with an excuse.
AlTidy(r) ==
  /\ r.up \subseteq AlKeeps(r.pc) \cup r.left
  /\ r.up \cap {"proxy", "widget"} \subseteq r.held \cup r.left

\* What the place of a process says of it.
AlOrdered(r) ==
  /\ r.pc = "none" => r = AlNone
  /\ r.pc \in AlCarrying => r.inbox = <<>> /\ r.pending = NoLink /\ r.emit = NoLink
  /\ r.ready => r.pc \in AlRunning

\* A step that touches no part.
AlUpSame(q, r) == r.up = q.up /\ r.held = q.held /\ r.left = q.left /\ r.ready = q.ready

AlStopped == \A p \in AlProcs : AlTidy(alProc[p])
AlHeard == alSocket \in AlProcs => alProc[alSocket].pc \in AlRunning

\* What every step keeps.
AlInv == /\ AlTypeOK /\ AlStopped /\ AlHeard /\ AlLinkArrives
         /\ \A p \in AlProcs : AlOrdered(alProc[p])

\* The numbers of processes, and what is none.
LEMMA AlNumbers == 0 \notin AlProcs /\ StaleSocket \notin AlProcs /\ NoLink = 0 /\ NoSocket = 0
<1>1. Cardinality(AlProcs) \in Nat
  BY AlAssumption, FS_CardinalityType
<1> DEFINE n == Cardinality(AlProcs)
<1>2. AlProcs = 1..n /\ n \in Nat
  BY <1>1, AlAssumption
<1> HIDE DEF n
<1>3. 0 \notin AlProcs /\ n + 1 \notin AlProcs
  BY <1>2
<1> QED
  BY <1>3 DEF StaleSocket, NoLink, NoSocket, n

\* The type invariant, with the set of processes named.
LEMMA AlTypes ==
  AlTypeOK <=> /\ alLock \in AlProcs \cup {0} /\ alSocket \in AlProcs \cup {NoSocket, StaleSocket}
               /\ alProc \in [AlProcs -> AlProcess]
  BY DEF AlTypeOK, AlProcess

\* What a process is before its start.
LEMMA AlNoneIs ==
  /\ AlNone \in AlProcess /\ AlNone.pc = "none" /\ AlNone.link = NoLink /\ AlNone.page = "closed"
  /\ AlNone.pending = NoLink /\ AlNone.inbox = <<>> /\ AlNone.emit = NoLink /\ AlNone.up = {}
  /\ AlNone.held = {} /\ AlNone.left = {} /\ AlNone.ready = FALSE /\ AlNone.session = "idle"
  /\ AlNone.managed = TRUE /\ AlNone.exit = "quit" /\ AlNone.listens = FALSE
<1>1. <<>> \in Seq(AlProcs \cup {NoLink})
  OBVIOUS
<1> QED
  BY <1>1 DEF AlNone, AlProcess, AlPcs

\* A link is on its way where a process has it.
LEMMA AlOnTheWayIs == \A x : AlOnTheWay(x) <=> \E p \in AlProcs : AlCarries(alProc[p], x)
  BY DEF AlOnTheWay, AlCarries, AlCarrying

\* A step is fine when every process is in order after it, and no link is dropped.
LEMMA AlTogether ==
  ASSUME AlInv, alProc' \in [AlProcs -> AlProcess],
         alLock' \in AlProcs \cup {0}, alSocket' \in AlProcs \cup {NoSocket, StaleSocket},
         alDone \subseteq alDone', alLost \subseteq alLost', AlStopped', AlHeard',
         \A p \in AlProcs : AlOrdered(alProc'[p]),
         \A p \in AlProcs : \/ alProc'[p].link \in {alProc[p].link, NoLink}
                            \/ AlCarries(alProc'[p], alProc'[p].link),
         \A p, x \in AlProcs : AlCarries(alProc[p], x) =>
            (\E o \in AlProcs : AlCarries(alProc'[o], x)) \/ x \in alDone' \/ x \in alLost'
  PROVE  AlInv'
<1>1. AlTypeOK'
  BY DEF AlTypeOK, AlProcess
<1>2. AlLinkArrives'
  <2> SUFFICES ASSUME NEW p \in AlProcs, alProc'[p].link = p
               PROVE  AlOnTheWay(p)' \/ p \in alDone' \/ p \in alLost'
    BY DEF AlLinkArrives
  <2>1. AlOnTheWay(p)' <=> \E o \in AlProcs : AlCarries(alProc'[o], p)
    BY DEF AlOnTheWay, AlCarries, AlCarrying
  <2>2. CASE AlCarries(alProc'[p], p)
    BY <2>1, <2>2
  <2>3. CASE alProc[p].link = p
    <3>1. AlOnTheWay(p) \/ p \in alDone \/ p \in alLost
      BY <2>3 DEF AlInv, AlLinkArrives
    <3>2. CASE AlOnTheWay(p)
      <4>1. PICK o \in AlProcs : AlCarries(alProc[o], p)
        BY <3>2, AlOnTheWayIs
      <4> QED
        BY <2>1, <4>1
    <3> QED
      BY <3>1, <3>2
  <2> QED
    BY <2>2, <2>3, AlNumbers
<1>3. (\A p \in AlProcs : AlOrdered(alProc[p]))'
  BY DEF AlOrdered
<1> QED
  BY <1>1, <1>2, <1>3 DEF AlInv

\* The same for a step of one process.
LEMMA AlOneMoves ==
  ASSUME AlInv, NEW p \in AlProcs, NEW r \in AlProcess, AlMoves(p, r),
         alLock' \in AlProcs \cup {0}, alSocket' \in AlProcs \cup {NoSocket, StaleSocket},
         alDone \subseteq alDone', alLost \subseteq alLost', AlOrdered(r),
         AlTidy(r),
         alSocket' = p => r.pc \in AlRunning, alSocket' \in AlProcs => alSocket' \in {alSocket, p},
         r.link \in {alProc[p].link, NoLink} \/ AlCarries(r, r.link),
         \A x \in AlProcs : AlCarries(alProc[p], x) => AlCarries(r, x) \/ x \in alDone' \/ x \in alLost'
  PROVE  AlInv'
<1>1. alProc \in [AlProcs -> AlProcess] /\ AlStopped /\ AlHeard /\ \A q \in AlProcs : AlOrdered(alProc[q])
  BY AlTypes DEF AlInv
<1>2. alProc' \in [AlProcs -> AlProcess] /\ alProc'[p] = r /\ \A q \in AlProcs \ {p} : alProc'[q] = alProc[q]
  BY <1>1 DEF AlMoves
<1>3. AlStopped' /\ AlHeard'
  BY <1>1, <1>2 DEF AlStopped, AlHeard
<1>4. \A q \in AlProcs : AlOrdered(alProc'[q])
  BY <1>1, <1>2
<1>5. \A q \in AlProcs : \/ alProc'[q].link \in {alProc[q].link, NoLink}
                         \/ AlCarries(alProc'[q], alProc'[q].link)
  BY <1>2
<1>6. \A q, x \in AlProcs : AlCarries(alProc[q], x) =>
         (\E o \in AlProcs : AlCarries(alProc'[o], x)) \/ x \in alDone' \/ x \in alLost'
  BY <1>2
<1> QED
  BY <1>2, <1>3, <1>4, <1>5, <1>6, AlTogether

\* What is left of a process that ended.
LEMMA AlGoneIs ==
  ASSUME NEW q \in AlProcess
  PROVE  /\ AlGone(q) \in AlProcess /\ AlGone(q).pc = "gone" /\ AlGone(q).link = q.link
         /\ AlGone(q).up = q.up /\ AlGone(q).left = q.left /\ AlGone(q).ready = FALSE
<1> DEFINE n == AlNone
           link == q.link
           up == q.up
           left == q.left
           r == AlGone(q)
<1>1. link \in AlProcs \cup {NoLink} /\ up \in SUBSET AlParts /\ left \in SUBSET AlParts
  BY DEF AlProcess
<1>2. n \in AlProcess /\ n.ready = FALSE /\ r = [n EXCEPT !.pc = "gone", !.link = link, !.up = up, !.left = left]
  BY AlNoneIs DEF AlGone
<1> HIDE DEF n, link, up, left, r
<1>3. r \in AlProcess /\ r.pc = "gone" /\ r.link = link /\ r.up = up /\ r.left = left /\ r.ready = FALSE
  BY <1>1, <1>2 DEF AlProcess, AlPcs
<1> QED
  BY <1>3 DEF r, link, up, left

\* What stays up because no clean-up has been done has its excuse.
LEMMA AlDroppedIs ==
  ASSUME NEW q \in AlProcess
  PROVE  /\ AlDropped(q) \in AlProcess /\ AlDropped(q).link = q.link
         /\ AlDropped(q).up \subseteq AlDropped(q).left
<1> DEFINE up == q.up
           r == [q EXCEPT !.left = up]
<1>1. up \in SUBSET AlParts
  BY DEF AlProcess
<1>2. r \in AlProcess /\ r.link = q.link /\ r.up = q.up /\ r.left = up
  BY <1>1 DEF AlProcess
<1> QED
  BY <1>2 DEF AlDropped

\* A process that ends loses what it had not handed on, and says so.
LEMMA AlEndsKeeps ==
  ASSUME AlInv, NEW p \in AlProcs, NEW q \in AlProcess, NEW also, AlEnds(p, q, also), UNCHANGED alDone,
         q.link = alProc[p].link, q.up \subseteq q.left,
         alProc[p].pc \in AlCarrying => alProc[p].link \in also
  PROVE  AlInv'
<1>1. /\ alProc[p] \in AlProcess /\ alLock \in AlProcs \cup {0}
      /\ alSocket \in AlProcs \cup {NoSocket, StaleSocket} /\ AlOrdered(alProc[p])
  BY AlTypes DEF AlInv
<1> DEFINE r == AlGone(q)
<1>2. /\ r \in AlProcess /\ r.pc = "gone" /\ r.link = alProc[p].link /\ r.up = q.up /\ r.left = q.left
      /\ r.ready = FALSE
  BY AlGoneIs
<1>3. AlMoves(p, r) /\ alLock' \in {0, alLock} /\ alSocket' \in {alSocket, NoSocket, StaleSocket} /\ alSocket' # p
  BY AlNumbers DEF AlEnds
<1>4. alLost' = alLost \cup also \cup {alProc[p].inbox[i] : i \in DOMAIN alProc[p].inbox}
                       \cup {alProc[p].pending, alProc[p].emit}
  BY DEF AlEnds
<1> HIDE DEF r
<1>5. AlOrdered(r)
  BY <1>2 DEF AlOrdered, AlCarrying
<1>6. \A x \in AlProcs : AlCarries(alProc[p], x) => x \in alLost'
  BY <1>4 DEF AlCarries
<1>7. AlTidy(r)
  BY <1>2 DEF AlTidy
<1>8. alSocket' \in AlProcs => alSocket' \in {alSocket, p}
  BY <1>3, AlNumbers
<1>9. alSocket' \in AlProcs \cup {NoSocket, StaleSocket} /\ alLock' \in AlProcs \cup {0}
  BY <1>1, <1>3
<1>10. alLost \subseteq alLost' /\ r.link \in {alProc[p].link, NoLink}
  BY <1>2, <1>4
<1>11. \A x \in AlProcs : AlCarries(alProc[p], x) => AlCarries(r, x) \/ x \in alDone' \/ x \in alLost'
  BY <1>6
<1> QED
  BY <1>2, <1>3, <1>5, <1>7, <1>8, <1>9, <1>10, <1>11, AlOneMoves

\* The state of a process, for a step of it.
LEMMA AlStands ==
  ASSUME AlInv, NEW p \in AlProcs
  PROVE  /\ alProc[p] \in AlProcess /\ AlOrdered(alProc[p])
         /\ AlTidy(alProc[p])
         /\ alSocket = p => alProc[p].pc \in AlRunning
         /\ alLock \in AlProcs \cup {0} /\ alSocket \in AlProcs \cup {NoSocket, StaleSocket}
         /\ alProc \in [AlProcs -> AlProcess]
  BY AlTypes DEF AlInv, AlStopped, AlHeard

\* A step of one process that touches neither lock nor socket nor histories.
LEMMA AlQuietly ==
  ASSUME AlInv, NEW p \in AlProcs, NEW r \in AlProcess, AlMoves(p, r),
         UNCHANGED <<alLock, alSocket, alDone, alLost>>, AlOrdered(r),
         AlTidy(r), alProc[p].pc \in AlRunning => r.pc \in AlRunning,
         r.link \in {alProc[p].link, NoLink} \/ AlCarries(r, r.link),
         \A x \in AlProcs : AlCarries(alProc[p], x) => AlCarries(r, x)
  PROVE  AlInv'
  BY AlStands, AlOneMoves

\* The user starts the application.
LEMMA AlStartsKeeps == ASSUME AlInv, AlStarts PROVE AlInv'
<1>1. PICK p \in AlProcs, link \in BOOLEAN :
        AlAt(p, "none") /\ AlMoves(p, [AlNone EXCEPT !.pc = "prepare", !.link = IF link THEN p ELSE NoLink])
  BY DEF AlStarts
<1> DEFINE r == [AlNone EXCEPT !.pc = "prepare", !.link = IF link THEN p ELSE NoLink]
<1>2. <<>> \in Seq(AlProcs \cup {NoLink})
  OBVIOUS
<1>3. /\ r \in AlProcess /\ r.pc = "prepare" /\ r.link \in {p, NoLink} /\ r.inbox = <<>> /\ r.pending = NoLink
      /\ r.emit = NoLink /\ r.ready = FALSE /\ r.up = {}
  BY <1>2 DEF AlNone, AlProcess, AlPcs
<1>4. AlMoves(p, r) /\ alProc[p].pc = "none" /\ UNCHANGED <<alLock, alSocket, alDone, alLost>>
  BY <1>1 DEF AlStarts, AlAt
<1> HIDE DEF r
<1>5. alProc[p] = AlNone
  BY <1>4, AlStands DEF AlOrdered
<1>6. \A x \in AlProcs : ~AlCarries(alProc[p], x)
  BY <1>5, AlNoneIs, AlNumbers DEF AlCarries, AlCarrying
<1>7. AlOrdered(r) /\ AlTidy(r) /\ (r.link = NoLink \/ AlCarries(r, r.link))
  BY <1>3 DEF AlOrdered, AlCarries, AlCarrying, AlTidy
<1>8. alProc[p].pc \in AlRunning => r.pc \in AlRunning
  BY <1>4 DEF AlRunning, AlLeaving
<1> QED
  BY <1>3, <1>4, <1>6, <1>7, <1>8, AlQuietly

\* A second start hands what it was given to the process that listens.
LEMMA AlPreparesKeeps == ASSUME AlInv, AlPrepares PROVE AlInv'
<1>1. PICK p \in AlProcs : AlAt(p, "prepare") /\ (PrepareUnix(p) \/ PrepareWindows(p))
  BY DEF AlPrepares
<1>2. /\ alProc[p].pc = "prepare" /\ UNCHANGED <<alLock, alSocket, alDone, alLost>>
      /\ alProc[p] \in AlProcess /\ AlOrdered(alProc[p]) /\ alProc \in [AlProcs -> AlProcess]
      /\ AlTidy(alProc[p])
  BY <1>1, AlStands DEF AlPrepares, AlAt
<1>3. ASSUME NEW pc \in {"refused", "lock"}, AlMoves(p, [alProc[p] EXCEPT !.pc = pc]) PROVE AlInv'
  <2> DEFINE r == [alProc[p] EXCEPT !.pc = pc]
  <2>1. /\ r \in AlProcess /\ r.pc = pc /\ r.link = alProc[p].link /\ r.inbox = alProc[p].inbox /\ AlUpSame(alProc[p], r)
        /\ r.pending = alProc[p].pending /\ r.emit = alProc[p].emit
    BY <1>2 DEF AlProcess, AlPcs, AlUpSame
  <2>2. AlMoves(p, r)
    BY <1>3
  <2> HIDE DEF r
  <2>3. AlOrdered(r) /\ AlTidy(r)
    BY <1>2, <2>1 DEF AlOrdered, AlCarrying, AlKeeps, AlRunning, AlLeaving, AlUpSame, AlTidy
  <2>4. \A x \in AlProcs : AlCarries(alProc[p], x) => AlCarries(r, x)
    BY <1>2, <2>1 DEF AlCarries, AlCarrying
  <2>5. alProc[p].pc \in AlRunning => r.pc \in AlRunning
    BY <1>2 DEF AlRunning, AlLeaving
  <2>6. r.link \in {alProc[p].link, NoLink}
    BY <2>1
  <2> QED
    BY <1>2, <2>1, <2>2, <2>3, <2>4, <2>5, <2>6, AlQuietly
<1>4. ASSUME alProc' = [alProc EXCEPT ![p].pc = "gone"], alProc[p].link = NoLink PROVE AlInv'
  <2> DEFINE r == [alProc[p] EXCEPT !.pc = "gone"]
  <2>1. /\ r \in AlProcess /\ r.pc = "gone" /\ r.link = alProc[p].link /\ AlUpSame(alProc[p], r)
    BY <1>2 DEF AlProcess, AlPcs, AlUpSame
  <2>2. AlMoves(p, r)
    BY <1>4 DEF AlMoves
  <2> HIDE DEF r
  <2>3. AlOrdered(r) /\ AlTidy(r)
    BY <1>2, <2>1 DEF AlOrdered, AlCarrying, AlKeeps, AlRunning, AlLeaving, AlUpSame, AlTidy
  <2>4. \A x \in AlProcs : AlCarries(alProc[p], x) => AlCarries(r, x)
    BY <1>2, <1>4, AlNumbers DEF AlCarries, AlOrdered, AlCarrying
  <2>5. alProc[p].pc \in AlRunning => r.pc \in AlRunning
    BY <1>2 DEF AlRunning, AlLeaving
  <2>6. r.link \in {alProc[p].link, NoLink}
    BY <2>1
  <2> QED
    BY <1>2, <2>1, <2>2, <2>3, <2>4, <2>5, <2>6, AlQuietly
<1>5. ASSUME alSocket \in AlProcs,
             alProc' = [alProc EXCEPT ![alSocket].inbox = Append(@, alProc[p].link), ![p].pc = "gone"]
      PROVE  AlInv'
  <2> DEFINE s == alSocket
             w == [alProc[s] EXCEPT !.inbox = Append(alProc[s].inbox, alProc[p].link)]
             r == [alProc[p] EXCEPT !.pc = "gone"]
  <2>1. s # p /\ alProc[s] \in AlProcess /\ alProc[s].pc \in AlRunning /\ AlOrdered(alProc[s])
    BY <1>2, <1>5, AlStands DEF AlRunning, AlLeaving
  <2>2. Append(alProc[s].inbox, alProc[p].link) \in Seq(AlProcs \cup {NoLink})
    BY <1>2, <2>1 DEF AlProcess
  <2>3. /\ w \in AlProcess /\ w.inbox = Append(alProc[s].inbox, alProc[p].link) /\ w.link = alProc[s].link
        /\ w.pc = alProc[s].pc /\ w.pending = alProc[s].pending /\ w.emit = alProc[s].emit
        /\ AlUpSame(alProc[s], w)
    BY <2>1, <2>2 DEF AlProcess, AlUpSame
  <2>4. r \in AlProcess /\ r.pc = "gone" /\ r.link = alProc[p].link /\ AlUpSame(alProc[p], r)
    BY <1>2 DEF AlProcess, AlPcs, AlUpSame
  <2>5. alProc' = [alProc EXCEPT ![s] = w, ![p] = r]
    BY <1>2, <1>5, <2>1
  <2> HIDE DEF w, r
  <2>6. /\ alProc' \in [AlProcs -> AlProcess] /\ alProc'[s] = w /\ alProc'[p] = r
        /\ \A q \in AlProcs \ {s, p} : alProc'[q] = alProc[q]
    BY <1>2, <1>5, <2>1, <2>3, <2>4, <2>5
  <2>7. AlStopped' /\ AlHeard'
    <3>1. AlStopped /\ AlHeard
      BY DEF AlInv
    <3> QED
      <4>1. AlHeard'
        BY <1>2, <1>5, <2>1, <2>3, <2>6 DEF AlHeard
      <4>2. ASSUME NEW q \in AlProcs PROVE AlTidy(alProc'[q])
        <5>1. AlTidy(alProc[q])
          BY <3>1 DEF AlStopped
        <5>2. CASE q = p
          BY <1>2, <2>4, <2>6, <5>1, <5>2 DEF AlTidy, AlKeeps, AlUpSame
        <5>3. CASE q = s
          BY <2>3, <2>6, <5>1, <5>3 DEF AlTidy, AlUpSame
        <5>4. CASE q \notin {p, s}
          BY <2>6, <5>1, <5>4
        <5> QED
          BY <5>2, <5>3, <5>4
      <4> QED
        BY <1>2, <4>1, <4>2 DEF AlStopped
  <2>8. \A q \in AlProcs : AlOrdered(alProc'[q])
    <3>1. AlOrdered(w)
      BY <2>1, <2>3 DEF AlOrdered, AlRunning, AlLeaving, AlCarrying
    <3>2. AlOrdered(r)
      BY <1>2, <2>4 DEF AlOrdered, AlCarrying, AlRunning, AlLeaving, AlUpSame
    <3> QED
      BY <2>6, <3>1, <3>2 DEF AlInv
  <2>9. \A q \in AlProcs : alProc'[q].link \in {alProc[q].link, NoLink}
    BY <2>3, <2>4, <2>6
  <2>10. ASSUME NEW q \in AlProcs, NEW x \in AlProcs, AlCarries(alProc[q], x)
         PROVE  \E o \in AlProcs : AlCarries(alProc'[o], x)
    <3>1. CASE q = p
      <4>1. x = alProc[p].link
        BY <1>2, <2>10, <3>1, AlNumbers DEF AlCarries, AlOrdered, AlCarrying
      <4>2. alProc[s].inbox \in Seq(AlProcs \cup {NoLink})
        BY <2>1 DEF AlProcess
      <4>3. \E i \in DOMAIN w.inbox : w.inbox[i] = x
        BY <2>3, <4>1, <4>2
      <4>4. AlCarries(w, x)
        BY <2>1, <2>3, <4>3 DEF AlCarries, AlRunning, AlLeaving
      <4> QED
        BY <1>5, <2>6, <4>4
    <3>2. CASE q = s
      <4>1. alProc[s].inbox \in Seq(AlProcs \cup {NoLink})
        BY <2>1 DEF AlProcess
      <4>2. \A i \in DOMAIN alProc[s].inbox : i \in DOMAIN w.inbox /\ w.inbox[i] = alProc[s].inbox[i]
        BY <2>3, <4>1
      <4>3. AlCarries(w, x)
        BY <2>3, <2>10, <3>2, <4>2 DEF AlCarries
      <4> QED
        BY <1>5, <2>6, <4>3
    <3>3. CASE q \notin {p, s}
      BY <2>6, <2>10, <3>3
    <3> QED
      BY <3>1, <3>2, <3>3
  <2>11. alLock' \in AlProcs \cup {0} /\ alSocket' \in AlProcs \cup {NoSocket, StaleSocket}
    BY <1>2, <1>5, AlStands
  <2> QED
    BY <1>2, <2>6, <2>7, <2>8, <2>9, <2>10, <2>11, AlTogether
<1> QED
  BY <1>1, <1>3, <1>4, <1>5 DEF PrepareUnix, PrepareWindows

\* What most steps do to a process: it keeps its links, and does not start or end.
AlWalksTo(q, r) ==
  /\ r \in AlProcess /\ r.link = q.link /\ r.inbox = q.inbox /\ r.pending = q.pending /\ r.emit = q.emit
  /\ q.pc # "none" /\ r.pc # "none" /\ (q.pc = "gone" <=> r.pc = "gone")
  /\ (q.pc \in AlCarrying <=> r.pc \in AlCarrying) /\ (q.pc \in AlRunning => r.pc \in AlRunning)
  /\ (r.ready => r.pc \in AlRunning)

\* Such a step is fine when the process may keep up what it does.
LEMMA AlWalks ==
  ASSUME AlInv, NEW p \in AlProcs, NEW r, AlMoves(p, r), AlWalksTo(alProc[p], r),
         alLock' \in {0, alLock, p}, alSocket' \in {alSocket, NoSocket, p}, alSocket' = p => r.pc \in AlRunning,
         UNCHANGED <<alDone, alLost>>, AlTidy(r)
  PROVE  AlInv'
<1>1. /\ alLock' \in AlProcs \cup {0} /\ alSocket' \in AlProcs \cup {NoSocket, StaleSocket}
      /\ alSocket' \in AlProcs => alSocket' \in {alSocket, p}
  BY AlStands, AlNumbers
<1>2. AlOrdered(r)
  BY AlStands DEF AlWalksTo, AlOrdered
<1>3. \A x \in AlProcs : AlCarries(alProc[p], x) => AlCarries(r, x)
  BY DEF AlWalksTo, AlCarries
<1>4. r \in AlProcess /\ r.link \in {alProc[p].link, NoLink}
  BY DEF AlWalksTo
<1> QED
  BY <1>1, <1>2, <1>3, <1>4, AlOneMoves

\* The stale file is removed.
LEMMA AlRemovesKeeps == ASSUME AlInv, AlRemoves PROVE AlInv'
<1>1. PICK p \in AlProcs : AlAt(p, "refused") /\ AlMoves(p, [alProc[p] EXCEPT !.pc = "lock"])
  BY DEF AlRemoves
<1> DEFINE r == [alProc[p] EXCEPT !.pc = "lock"]
<1>2. alProc[p].pc = "refused" /\ alProc[p] \in AlProcess /\ AlOrdered(alProc[p])
  BY <1>1, AlStands DEF AlAt
<1>3. AlWalksTo(alProc[p], r) /\ r.pc = "lock" /\ AlUpSame(alProc[p], r)
  BY <1>2 DEF AlWalksTo, AlProcess, AlPcs, AlOrdered, AlCarrying, AlRunning, AlLeaving, AlUpSame
<1>4. AlMoves(p, r)
  BY <1>1
<1> HIDE DEF r
<1>5. AlTidy(r)
  BY <1>2, <1>3, AlStands DEF AlKeeps, AlTidy, AlUpSame
<1>6. alSocket' = NoSocket /\ UNCHANGED <<alLock, alDone, alLost>> /\ NoSocket # p
  BY AlNumbers DEF AlRemoves
<1> QED
  BY <1>3, <1>4, <1>5, <1>6, AlWalks

\* The lock is taken, given up or not to be had.
LEMMA AlLocksKeeps == ASSUME AlInv, AlLocks PROVE AlInv'
<1>1. PICK p \in AlProcs, result \in CheckSingleton :
        /\ AlAt(p, "lock")
        /\ IF result = "none" THEN AlEnds(p, alProc[p], {alProc[p].link})
           ELSE /\ alLock' = IF result = "acquired" THEN p ELSE alLock
                /\ AlMoves(p, [alProc[p] EXCEPT !.pc = "setup"]) /\ UNCHANGED <<alSocket, alLost>>
  BY DEF AlLocks
<1>2. alProc[p].pc = "lock" /\ alProc[p] \in AlProcess /\ AlOrdered(alProc[p])
  BY <1>1, AlStands DEF AlAt
<1>3. UNCHANGED alDone /\ AlTidy(alProc[p])
  BY <1>2, AlStands DEF AlLocks
<1>4. CASE result = "none"
  <2>1. AlEnds(p, alProc[p], {alProc[p].link})
    BY <1>1, <1>4
  <2>2. alProc[p].up \subseteq alProc[p].left
    BY <1>2, <1>3 DEF AlTidy, AlKeeps
  <2> DEFINE also == {alProc[p].link}
  <2>3. AlEnds(p, alProc[p], also) /\ alProc[p].link \in also
    BY <2>1
  <2> HIDE DEF also
  <2> QED
    BY <1>2, <1>3, <2>2, <2>3, AlEndsKeeps
<1>5. CASE result # "none"
  <2> DEFINE r == [alProc[p] EXCEPT !.pc = "setup"]
  <2>1. AlWalksTo(alProc[p], r) /\ r.pc = "setup" /\ AlUpSame(alProc[p], r)
    BY <1>2 DEF AlWalksTo, AlProcess, AlPcs, AlOrdered, AlCarrying, AlRunning, AlLeaving, AlUpSame
  <2>2. AlMoves(p, r) /\ alLock' \in {0, alLock, p} /\ UNCHANGED <<alSocket, alLost>>
    BY <1>1, <1>5
  <2> HIDE DEF r
  <2>3. AlTidy(r)
    BY <1>2, <1>3, <2>1 DEF AlKeeps, AlTidy, AlUpSame
  <2>4. alSocket' # p
    BY <1>2, <2>2, AlStands DEF AlRunning, AlLeaving
  <2> QED
    BY <1>3, <2>1, <2>2, <2>3, <2>4, AlWalks
<1> QED
  BY <1>4, <1>5

\* The launcher starts the application.
LEMMA AlLaunchKeeps == ASSUME AlInv, CmdLaunch PROVE AlInv'
<1>1. PICK p \in AlProcs : AlAt(p, "launch") /\ AlMoves(p, [alProc[p] EXCEPT !.pc = "prepare"])
  BY DEF CmdLaunch
<1> DEFINE r == [alProc[p] EXCEPT !.pc = "prepare"]
<1>2. alProc[p].pc = "launch" /\ alProc[p] \in AlProcess /\ AlOrdered(alProc[p])
  BY <1>1, AlStands DEF AlAt
<1>3. AlWalksTo(alProc[p], r) /\ r.pc = "prepare" /\ AlUpSame(alProc[p], r)
  BY <1>2 DEF AlWalksTo, AlProcess, AlPcs, AlOrdered, AlCarrying, AlRunning, AlLeaving, AlUpSame
<1>4. AlMoves(p, r)
  BY <1>1
<1> HIDE DEF r
<1>5. AlTidy(r)
  BY <1>2, <1>3, AlStands DEF AlKeeps, AlTidy, AlUpSame
<1>6. UNCHANGED <<alLock, alSocket, alDone, alLost>> /\ alSocket # p
  BY <1>2, AlStands DEF CmdLaunch, AlRunning, AlLeaving
<1> QED
  BY <1>3, <1>4, <1>5, <1>6, AlWalks

\* Migrations and set-up, or the end of the process.
LEMMA AlSetsUpKeeps == ASSUME AlInv, AlSetsUp PROVE AlInv'
<1>1. PICK p \in AlProcs :
        /\ AlAt(p, "setup")
        /\ \/ AlMoves(p, [alProc[p] EXCEPT !.pc = "resolve"]) /\ UNCHANGED <<alLock, alSocket, alLost>>
           \/ AlEnds(p, alProc[p], {alProc[p].link})
  BY DEF AlSetsUp
<1>2. alProc[p].pc = "setup" /\ alProc[p] \in AlProcess /\ AlOrdered(alProc[p])
  BY <1>1, AlStands DEF AlAt
<1>3. UNCHANGED alDone /\ AlTidy(alProc[p])
  BY <1>2, AlStands DEF AlSetsUp
<1>4. CASE AlEnds(p, alProc[p], {alProc[p].link})
  <2> DEFINE also == {alProc[p].link}
  <2>1. AlEnds(p, alProc[p], also) /\ alProc[p].link \in also
    BY <1>4
  <2> HIDE DEF also
  <2>2. alProc[p].up \subseteq alProc[p].left
    BY <1>2, <1>3 DEF AlTidy, AlKeeps
  <2> QED
    BY <1>2, <1>3, <2>1, <2>2, AlEndsKeeps
<1>5. CASE AlMoves(p, [alProc[p] EXCEPT !.pc = "resolve"]) /\ UNCHANGED <<alLock, alSocket, alLost>>
  <2> DEFINE r == [alProc[p] EXCEPT !.pc = "resolve"]
  <2>1. AlWalksTo(alProc[p], r) /\ r.pc = "resolve" /\ AlUpSame(alProc[p], r)
    BY <1>2 DEF AlWalksTo, AlProcess, AlPcs, AlOrdered, AlCarrying, AlRunning, AlLeaving, AlUpSame
  <2>2. AlMoves(p, r) /\ UNCHANGED <<alLock, alSocket, alLost>>
    BY <1>5
  <2> HIDE DEF r
  <2>3. AlTidy(r)
    BY <1>2, <1>3, <2>1 DEF AlKeeps, AlTidy, AlUpSame
  <2>4. alSocket' # p
    BY <1>2, <2>2, AlStands DEF AlRunning, AlLeaving
  <2> QED
    BY <1>3, <2>1, <2>2, <2>3, <2>4, AlWalks
<1> QED
  BY <1>1, <1>4, <1>5

\* Everything goes up, and the window may open.
LEMMA AlResolvesKeeps == ASSUME AlInv, ResolveSetup PROVE AlInv'
<1>1. PICK p \in AlProcs, silent \in BOOLEAN, widget \in BOOLEAN :
        /\ AlAt(p, "resolve")
        /\ AlMoves(p, [alProc[p] EXCEPT !.pc = "scheme", !.managed = widget,
                         !.up = AlParts \ (IF widget THEN {} ELSE {"widget"}),
                         !.held = {"proxy"} \cup (IF widget THEN {"widget"} ELSE {}),
                         !.page = IF silent THEN "closed" ELSE "loading"])
  BY DEF ResolveSetup
<1> DEFINE up == AlParts \ (IF widget THEN {} ELSE {"widget"})
           held == {"proxy"} \cup (IF widget THEN {"widget"} ELSE {})
           page == IF silent THEN "closed" ELSE "loading"
           r == [alProc[p] EXCEPT !.pc = "scheme", !.managed = widget, !.up = up, !.held = held,
                                    !.page = page]
<1>2. alProc[p].pc = "resolve" /\ alProc[p] \in AlProcess /\ AlOrdered(alProc[p])
  BY <1>1, AlStands DEF AlAt
<1>3. /\ AlMoves(p, r) /\ up \in SUBSET AlParts /\ page \in {"closed", "loading"}
      /\ held \in SUBSET AlParts /\ up \cap {"proxy", "widget"} \subseteq held
  BY <1>1 DEF AlParts
<1> HIDE DEF up, held, page
<1>4. AlWalksTo(alProc[p], r) /\ r.pc = "scheme" /\ r.up = up /\ r.held = held
  BY <1>2, <1>3 DEF AlWalksTo, AlProcess, AlPcs, AlOrdered, AlCarrying, AlRunning, AlLeaving
<1> HIDE DEF r
<1>5. AlTidy(r)
  BY <1>3, <1>4 DEF AlKeeps, AlTidy
<1>6. UNCHANGED <<alLock, alSocket, alDone, alLost>> /\ alSocket # p
  BY <1>2, AlStands DEF ResolveSetup, AlRunning, AlLeaving
<1> QED
  BY <1>3, <1>4, <1>5, <1>6, AlWalks

\* The link the process was started with waits for the page.
LEMMA AlRunsKeeps == ASSUME AlInv, AlRuns PROVE AlInv'
<1>1. PICK p \in AlProcs :
        /\ AlAt(p, "scheme")
        /\ \/ AlMoves(p, [SchemePending(alProc[p]) EXCEPT !.pc = "run"]) /\ UNCHANGED <<alLock, alSocket, alLost>>
           \/ AlEnds(p, AlDropped(alProc[p]), {alProc[p].link})
  BY DEF AlRuns
<1> SUFFICES ASSUME AlMoves(p, [SchemePending(alProc[p]) EXCEPT !.pc = "run"]), UNCHANGED <<alLock, alSocket, alLost>>
             PROVE  AlInv'
  <2>1. CASE AlEnds(p, AlDropped(alProc[p]), {alProc[p].link})
    <3> DEFINE also == {alProc[p].link}
               q == AlDropped(alProc[p])
    <3>1. AlEnds(p, q, also) /\ alProc[p].link \in also /\ UNCHANGED alDone
      BY <2>1 DEF AlRuns
    <3>2. q \in AlProcess /\ q.link = alProc[p].link /\ q.up \subseteq q.left
      BY AlStands, AlDroppedIs
    <3> HIDE DEF also, q
    <3> QED
      BY <3>1, <3>2, AlEndsKeeps
  <2> QED
    BY <1>1, <2>1
<1> DEFINE q == alProc[p]
           s == SchemePending(q)
           r == [s EXCEPT !.pc = "run"]
<1>2. q.pc = "scheme" /\ q \in AlProcess /\ AlOrdered(q) /\ AlTidy(q)
  BY <1>1, AlStands DEF AlAt
<1>3. AlMoves(p, r) /\ UNCHANGED <<alLock, alSocket, alDone, alLost>>
  BY <1>1 DEF AlRuns
<1> HIDE DEF q
<1>4. /\ s \in AlProcess /\ s.link = q.link /\ s.pending \in {q.link, q.pending} /\ s.inbox = q.inbox
      /\ s.emit = q.emit /\ AlUpSame(q, s)
      /\ q.link # NoLink => s.pending = q.link
  <2>1. CASE q.link = NoLink
    BY <1>2, <2>1 DEF SchemePending, AlProcess, AlUpSame
  <2>2. CASE q.link # NoLink
    <3> DEFINE page == IF q.page = "closed" THEN "loading" ELSE q.page
    <3>1. s = [q EXCEPT !.pending = q.link, !.page = page]
      BY <2>2 DEF SchemePending
    <3>2. page \in {"loading", q.page}
      OBVIOUS
    <3> HIDE DEF s, page
    <3> QED
      BY <1>2, <3>1, <3>2 DEF AlProcess, AlUpSame
  <2> QED
    BY <2>1, <2>2
<1> HIDE DEF s
<1>5. /\ r \in AlProcess /\ r.pc = "run" /\ r.link = s.link /\ r.pending = s.pending /\ r.inbox = s.inbox
      /\ r.emit = s.emit /\ AlUpSame(s, r)
  BY <1>4 DEF AlProcess, AlPcs, AlUpSame
<1> HIDE DEF r
<1>6. AlOrdered(r)
  BY <1>2, <1>4, <1>5 DEF AlOrdered, AlCarrying, AlRunning, AlLeaving
<1>7. \A x \in AlProcs : AlCarries(q, x) => AlCarries(r, x)
  BY <1>2, <1>4, <1>5, AlNumbers DEF AlCarries, AlOrdered, AlCarrying
<1>8. AlTidy(r)
  BY <1>2, <1>4, <1>5 DEF AlKeeps, AlTidy, AlUpSame
<1>9. r.pc \in AlRunning
  BY <1>5 DEF AlRunning
<1> QED
  BY <1>3, <1>4, <1>5, <1>6, <1>7, <1>8, <1>9, AlQuietly DEF q

\* The listener is there, or its panic ends the application.
LEMMA AlListensKeeps == ASSUME AlInv, DeepLinkListens PROVE AlInv'
<1>1. PICK p \in AlProcs :
       /\ AlAt(p, "run") /\ ~alProc[p].listens
       /\ IF alSocket = NoSocket
          THEN /\ AlMoves(p, [alProc[p] EXCEPT !.listens = TRUE]) /\ alSocket' = p
          ELSE /\ AlMoves(p, [PanicHook(alProc[p]) EXCEPT !.listens = TRUE]) /\ UNCHANGED alSocket
  BY DEF DeepLinkListens
<1>2. alProc[p].pc = "run" /\ alProc[p] \in AlProcess /\ AlOrdered(alProc[p])
  BY <1>1, AlStands DEF AlAt
<1>3. UNCHANGED <<alLock, alDone, alLost>> /\ AlTidy(alProc[p])
  BY <1>2, AlStands DEF DeepLinkListens
<1>4. CASE alSocket = NoSocket
  <2> DEFINE r == [alProc[p] EXCEPT !.listens = TRUE]
  <2>1. AlMoves(p, r) /\ alSocket' = p
    BY <1>1, <1>4
  <2>2. AlWalksTo(alProc[p], r) /\ r.pc = "run" /\ AlUpSame(alProc[p], r)
    BY <1>2 DEF AlWalksTo, AlProcess, AlPcs, AlOrdered, AlCarrying, AlUpSame
  <2> HIDE DEF r
  <2>3. AlTidy(r) /\ r.pc \in AlRunning
    BY <1>2, <1>3, <2>2 DEF AlKeeps, AlRunning, AlTidy, AlUpSame
  <2> QED
    BY <1>3, <2>1, <2>2, <2>3, AlWalks
<1>5. CASE alSocket # NoSocket
  <2> DEFINE s == PanicHook(alProc[p])
             r == [s EXCEPT !.listens = TRUE]
  <2>1. AlMoves(p, r) /\ UNCHANGED alSocket
    BY <1>1, <1>5
  <2>2. /\ s \in AlProcess /\ s.pc = "reset" /\ s.link = alProc[p].link /\ s.pending = alProc[p].pending
        /\ s.inbox = alProc[p].inbox /\ s.emit = alProc[p].emit /\ AlUpSame(alProc[p], s)
    BY <1>2 DEF PanicHook, AlProcess, AlPcs, AlUpSame
  <2> HIDE DEF s
  <2>3. /\ r \in AlProcess /\ r.pc = s.pc /\ r.link = s.link /\ r.pending = s.pending
        /\ r.inbox = s.inbox /\ r.emit = s.emit /\ AlUpSame(s, r)
    BY <2>2 DEF AlProcess, AlUpSame
  <2> HIDE DEF r
  <2>4. AlWalksTo(alProc[p], r)
    BY <1>2, <2>2, <2>3 DEF AlWalksTo, AlOrdered, AlCarrying, AlRunning, AlLeaving
  <2>5. AlTidy(r) /\ r.pc \in AlRunning
    BY <1>2, <1>3, <2>2, <2>3 DEF AlKeeps, AlRunning, AlLeaving, AlTidy, AlUpSame
  <2> QED
    BY <1>3, <2>1, <2>4, <2>5, AlWalks
<1> QED
  BY <1>4, <1>5

\* The window is closed or opened.
LEMMA AlTogglesKeeps == ASSUME AlInv, AlPageToggles PROVE AlInv'
<1>1. PICK p \in AlProcs : AlAt(p, "run") /\
        AlMoves(p, [alProc[p] EXCEPT !.page = IF @ = "closed" THEN "loading" ELSE "closed"])
  BY DEF AlPageToggles
<1> DEFINE page == IF alProc[p].page = "closed" THEN "loading" ELSE "closed"
           r == [alProc[p] EXCEPT !.page = page]
<1>2. alProc[p].pc = "run" /\ alProc[p] \in AlProcess /\ AlOrdered(alProc[p])
  BY <1>1, AlStands DEF AlAt
<1>3. AlMoves(p, r) /\ page \in {"closed", "loading"}
  BY <1>1
<1> HIDE DEF page
<1>4. AlWalksTo(alProc[p], r) /\ r.pc = "run" /\ AlUpSame(alProc[p], r)
  BY <1>2, <1>3 DEF AlWalksTo, AlProcess, AlPcs, AlOrdered, AlCarrying, AlUpSame
<1> HIDE DEF r
<1>5. AlTidy(r) /\ r.pc \in AlRunning
  BY <1>2, <1>4, AlStands DEF AlKeeps, AlRunning, AlTidy, AlUpSame
<1>6. UNCHANGED <<alLock, alSocket, alDone, alLost>>
  BY DEF AlPageToggles
<1> QED
  BY <1>3, <1>4, <1>5, <1>6, AlWalks

\* The application is asked to quit or to restart.
LEMMA AlQuitsKeeps == ASSUME AlInv, AlQuits PROVE AlInv'
<1>1. PICK p \in AlProcs, exit \in {"quit", "restart", "cleanup"} :
        AlAt(p, "run") /\ AlMoves(p, [alProc[p] EXCEPT !.pc = "reset", !.exit = exit])
  BY DEF AlQuits
<1> DEFINE r == [alProc[p] EXCEPT !.pc = "reset", !.exit = exit]
<1>2. alProc[p].pc = "run" /\ alProc[p] \in AlProcess /\ AlOrdered(alProc[p])
  BY <1>1, AlStands DEF AlAt
<1>3. AlMoves(p, r)
  BY <1>1
<1>4. AlWalksTo(alProc[p], r) /\ r.pc = "reset" /\ AlUpSame(alProc[p], r)
  BY <1>1, <1>2 DEF AlWalksTo, AlProcess, AlPcs, AlOrdered, AlCarrying, AlRunning, AlLeaving, AlUpSame
<1> HIDE DEF r
<1>5. AlTidy(r) /\ r.pc \in AlRunning
  BY <1>2, <1>4, AlStands DEF AlKeeps, AlRunning, AlLeaving, AlTidy, AlUpSame
<1>6. UNCHANGED <<alLock, alSocket, alDone, alLost>>
  BY DEF AlQuits
<1> QED
  BY <1>3, <1>4, <1>5, <1>6, AlWalks

\* The hook holds the session.
LEMMA AlBlocksKeeps == ASSUME AlInv, HookBlocks PROVE AlInv'
<1>1. PICK p \in AlProcs :
        alProc[p].pc \in {"run"} \cup AlLeaving /\ AlMoves(p, [alProc[p] EXCEPT !.session = "told"])
  BY DEF HookBlocks
<1> DEFINE r == [alProc[p] EXCEPT !.session = "told"]
<1>2. /\ UNCHANGED <<alLock, alSocket, alDone, alLost>> /\ alProc[p] \in AlProcess /\ AlOrdered(alProc[p])
      /\ AlTidy(alProc[p]) /\ alProc[p].pc \in AlRunning
  BY <1>1, AlStands DEF HookBlocks, AlRunning
<1>3. AlMoves(p, r)
  BY <1>1
<1>4. AlWalksTo(alProc[p], r) /\ r.pc = alProc[p].pc /\ AlUpSame(alProc[p], r)
  BY <1>2 DEF AlWalksTo, AlProcess, AlOrdered, AlCarrying, AlRunning, AlLeaving, AlUpSame
<1> HIDE DEF r
<1>5. AlTidy(r)
  BY <1>2, <1>4 DEF AlTidy, AlUpSame
<1> QED
  BY <1>2, <1>3, <1>4, <1>5, AlWalks

\* The thread that was told asks for the exit.
LEMMA AlAsksKeeps == ASSUME AlInv, HookAsks PROVE AlInv'
<1>1. PICK p \in AlProcs : /\ AlAt(p, "run")
        /\ AlMoves(p, [alProc[p] EXCEPT !.session = "blocked", !.pc = "reset", !.exit = "quit"])
  BY DEF HookAsks
<1> DEFINE r == [alProc[p] EXCEPT !.session = "blocked", !.pc = "reset", !.exit = "quit"]
<1>2. alProc[p].pc = "run" /\ alProc[p] \in AlProcess /\ AlOrdered(alProc[p])
  BY <1>1, AlStands DEF AlAt
<1>3. AlMoves(p, r)
  BY <1>1
<1>4. AlWalksTo(alProc[p], r) /\ r.pc = "reset" /\ AlUpSame(alProc[p], r)
  BY <1>2 DEF AlWalksTo, AlProcess, AlPcs, AlOrdered, AlCarrying, AlRunning, AlLeaving, AlUpSame
<1> HIDE DEF r
<1>5. AlTidy(r) /\ r.pc \in AlRunning
  BY <1>2, <1>4, AlStands DEF AlKeeps, AlRunning, AlLeaving, AlTidy, AlUpSame
<1>6. UNCHANGED <<alLock, alSocket, alDone, alLost>>
  BY DEF HookAsks
<1> QED
  BY <1>3, <1>4, <1>5, <1>6, AlWalks

\* Once a clean-up has been done, the session may end with the process where it is.
LEMMA AlLetsGoKeeps == ASSUME AlInv, HookLetsGo PROVE AlInv'
<1>1. PICK p \in AlProcs :
        /\ alProc[p].ready
        /\ AlEnds(p, IF alProc[p].pc = "leave" THEN alProc[p] ELSE AlDropped(alProc[p]), {})
  BY DEF HookLetsGo
<1> DEFINE q == IF alProc[p].pc = "leave" THEN alProc[p] ELSE AlDropped(alProc[p])
           also == {}
<1>2. alProc[p] \in AlProcess /\ AlOrdered(alProc[p]) /\ AlTidy(alProc[p]) /\ UNCHANGED alDone
  BY AlStands DEF HookLetsGo
<1>3. q \in AlProcess /\ q.link = alProc[p].link /\ q.up \subseteq q.left
  <2>1. CASE alProc[p].pc = "leave"
    BY <1>2, <2>1 DEF AlTidy, AlKeeps
  <2>2. CASE alProc[p].pc # "leave"
    BY <1>2, <2>2, AlDroppedIs
  <2> QED
    BY <2>1, <2>2
<1>4. AlEnds(p, q, also)
  BY <1>1
<1> HIDE DEF q, also
<1>5. alProc[p].pc \notin AlCarrying
  BY <1>1, <1>2 DEF AlOrdered, AlRunning, AlLeaving, AlCarrying
<1> QED
  BY <1>2, <1>3, <1>4, <1>5, AlEndsKeeps

\* A step of the clean-up moves no link.
AlCleansTo(q, r) ==
  /\ r \in AlProcess /\ q.pc \in AlRunning /\ r.pc \in AlRunning
  /\ r.link = q.link /\ r.inbox = q.inbox /\ r.pending = q.pending /\ r.emit = q.emit

\* Such a step is fine when all it leaves up is to come or has an excuse.
LEMMA AlCleans ==
  ASSUME AlInv, NEW p \in AlProcs, NEW r, AlMoves(p, r), AlCleansTo(alProc[p], r),
         UNCHANGED <<alLock, alSocket, alDone, alLost>>, AlTidy(r)
  PROVE  AlInv'
<1>1. AlWalksTo(alProc[p], r) /\ r.pc \in AlRunning
  BY DEF AlCleansTo, AlWalksTo, AlCarrying, AlRunning, AlLeaving
<1> QED
  BY <1>1, AlWalks

\* A part that is put down goes, or has an excuse to stay; at the next step it is not expected.
LEMMA AlPutsDown ==
  ASSUME NEW q \in AlProcess, NEW part \in {"proxy", "widget"}, NEW ok \in BOOLEAN, NEW pc \in AlRunning,
         q.pc \in AlRunning, AlTidy(q), AlKeeps(q.pc) \ {part} \subseteq AlKeeps(pc), NEW r,
         r = [PutDown(q, part, ok) EXCEPT !.pc = pc]
  PROVE  AlCleansTo(q, r) /\ AlTidy(r)
<1> DEFINE s == PutDown(q, part, ok)
<1>1. /\ s \in AlProcess /\ s.link = q.link /\ s.inbox = q.inbox /\ s.pending = q.pending /\ s.emit = q.emit
      /\ s.up \subseteq q.up
      /\ IF part \notin q.held THEN s.up = q.up /\ s.held = q.held /\ s.left = q.left
         ELSE /\ s.held = q.held \ {part}
              /\ \/ s.up = q.up \ {part} /\ s.left = q.left \ {part}
                 \/ s.up = q.up /\ s.left = q.left \cup {part}
  <2>1. CASE part \notin q.held
    BY <2>1 DEF PutDown
  <2>2. CASE part \in q.held
    <3> DEFINE held == q.held \ {part}
               up == IF ok THEN q.up \ {part} ELSE q.up
               left == IF ok THEN q.left \ {part} ELSE q.left \cup {part}
    <3>1. s = [q EXCEPT !.held = held, !.up = up, !.left = left]
      BY <2>2 DEF PutDown
    <3>2. held \in SUBSET AlParts /\ up \in SUBSET AlParts /\ left \in SUBSET AlParts
      BY DEF AlProcess, AlParts
    <3>3. \/ up = q.up \ {part} /\ left = q.left \ {part}
          \/ up = q.up /\ left = q.left \cup {part}
      OBVIOUS
    <3>4. held = q.held \ {part}
      OBVIOUS
    <3> HIDE DEF s, held, up, left
    <3>5. /\ s \in AlProcess /\ s.link = q.link /\ s.inbox = q.inbox /\ s.pending = q.pending
          /\ s.emit = q.emit /\ s.up = up /\ s.held = held /\ s.left = left
      BY <3>1, <3>2 DEF AlProcess
    <3> QED
      BY <2>2, <3>3, <3>4, <3>5
  <2> QED
    BY <2>1, <2>2
<1>2. r = [s EXCEPT !.pc = pc]
  OBVIOUS
<1> HIDE DEF s
<1>3. pc \in AlPcs
  BY DEF AlPcs, AlRunning, AlLeaving
<1>4. /\ r \in AlProcess /\ r.pc = pc /\ r.link = q.link /\ r.inbox = q.inbox /\ r.pending = q.pending
      /\ r.emit = q.emit /\ r.up = s.up /\ r.held = s.held /\ r.left = s.left
  BY <1>1, <1>2, <1>3 DEF AlProcess
<1>5. q.up \subseteq AlKeeps(q.pc) \cup q.left /\ q.up \cap {"proxy", "widget"} \subseteq q.held \cup q.left
  BY DEF AlTidy
<1>6. r.up \subseteq AlKeeps(pc) \cup r.left
  BY <1>1, <1>4, <1>5
<1>7. r.up \cap {"proxy", "widget"} \subseteq r.held \cup r.left
  BY <1>1, <1>4, <1>5
<1> QED
  BY <1>4, <1>6, <1>7 DEF AlCleansTo, AlTidy

\* The proxy goes, or the error is logged.
LEMMA AlResetsKeeps == ASSUME AlInv, CleanupResets PROVE AlInv'
<1>1. PICK p \in AlProcs, ok \in BOOLEAN :
        AlAt(p, "reset") /\ AlMoves(p, [PutDown(alProc[p], "proxy", ok) EXCEPT !.pc = "halt"])
  BY DEF CleanupResets
<1> DEFINE r == [PutDown(alProc[p], "proxy", ok) EXCEPT !.pc = "halt"]
<1>2. /\ alProc[p].pc = "reset" /\ alProc[p] \in AlProcess /\ AlTidy(alProc[p])
      /\ UNCHANGED <<alLock, alSocket, alDone, alLost>>
  BY <1>1, AlStands DEF AlAt, CleanupResets
<1>3. alProc[p].pc \in AlRunning /\ "halt" \in AlRunning /\ AlKeeps("reset") \ {"proxy"} \subseteq AlKeeps("halt")
  BY <1>2 DEF AlRunning, AlLeaving, AlKeeps, AlParts
<1>4. AlCleansTo(alProc[p], r) /\ AlTidy(r)
  BY <1>2, <1>3, AlPutsDown
<1>5. AlMoves(p, r)
  BY <1>1
<1> HIDE DEF r
<1> QED
  BY <1>2, <1>4, <1>5, AlCleans

\* The core goes, or the error is logged; without a widget manager the process ends so.
LEMMA AlHaltsKeeps == ASSUME AlInv, CleanupHalts PROVE AlInv'
<1>1. PICK p \in AlProcs, ok \in BOOLEAN :
       LET r == IF ok THEN [alProc[p] EXCEPT !.up = @ \ {"core"}, !.left = @ \ {"core"}] ELSE alProc[p]
       IN  /\ AlAt(p, "halt")
           /\ \/ AlMoves(p, [r EXCEPT !.pc = "shutdown"]) /\ UNCHANGED <<alLock, alSocket, alLost>>
              \/ AlEnds(p, AlDropped(r), {})
  BY DEF CleanupHalts
<1> DEFINE up == alProc[p].up \ {"core"}
           left == alProc[p].left \ {"core"}
           s == IF ok THEN [alProc[p] EXCEPT !.up = up, !.left = left] ELSE alProc[p]
<1>2. /\ alProc[p].pc = "halt" /\ alProc[p] \in AlProcess /\ AlTidy(alProc[p]) /\ UNCHANGED alDone
  BY <1>1, AlStands DEF AlAt, CleanupHalts
<1>3. \/ AlMoves(p, [s EXCEPT !.pc = "shutdown"]) /\ UNCHANGED <<alLock, alSocket, alLost>>
      \/ AlEnds(p, AlDropped(s), {})
  BY <1>1
<1>4. /\ s \in AlProcess /\ s.link = alProc[p].link /\ s.inbox = alProc[p].inbox /\ s.emit = alProc[p].emit
      /\ s.pending = alProc[p].pending /\ s.pc = "halt" /\ AlTidy(s)
  <2>1. CASE ~ok
    BY <1>2, <2>1
  <2>2. CASE ok
    <3>1. /\ s = [alProc[p] EXCEPT !.up = up, !.left = left]
          /\ up \in SUBSET AlParts /\ left \in SUBSET AlParts
      BY <1>2, <2>2 DEF AlProcess
    <3>2. up = alProc[p].up \ {"core"} /\ left = alProc[p].left \ {"core"}
      OBVIOUS
    <3> HIDE DEF s, up, left
    <3>3. /\ s \in AlProcess /\ s.link = alProc[p].link /\ s.inbox = alProc[p].inbox /\ s.emit = alProc[p].emit
          /\ s.pending = alProc[p].pending /\ s.pc = "halt" /\ s.up = up /\ s.left = left
          /\ s.held = alProc[p].held
      BY <1>2, <3>1 DEF AlProcess
    <3> QED
      BY <1>2, <3>2, <3>3 DEF AlTidy
  <2> QED
    BY <2>1, <2>2
<1> HIDE DEF s
<1>5. CASE AlMoves(p, [s EXCEPT !.pc = "shutdown"]) /\ UNCHANGED <<alLock, alSocket, alLost>>
  <2> DEFINE r == [s EXCEPT !.pc = "shutdown"]
  <2>1. /\ r \in AlProcess /\ r.link = s.link /\ r.inbox = s.inbox /\ r.emit = s.emit
        /\ r.pending = s.pending /\ r.pc = "shutdown" /\ AlUpSame(s, r)
    BY <1>4 DEF AlProcess, AlPcs, AlUpSame
  <2>2. AlMoves(p, r)
    BY <1>5
  <2> HIDE DEF r
  <2>3. AlCleansTo(alProc[p], r) /\ AlTidy(r)
    BY <1>2, <1>4, <2>1 DEF AlCleansTo, AlTidy, AlUpSame, AlKeeps, AlRunning, AlLeaving
  <2> QED
    BY <1>2, <1>5, <2>2, <2>3, AlCleans
<1>6. CASE AlEnds(p, AlDropped(s), {})
  <2> DEFINE also == {}
             q == AlDropped(s)
  <2>1. AlEnds(p, q, also) /\ q \in AlProcess /\ q.link = alProc[p].link /\ q.up \subseteq q.left
    BY <1>4, <1>6, AlDroppedIs
  <2>2. alProc[p].pc \notin AlCarrying
    BY <1>2 DEF AlCarrying
  <2> HIDE DEF also, q
  <2> QED
    BY <1>2, <2>1, <2>2, AlEndsKeeps
<1> QED
  BY <1>3, <1>5, <1>6

\* The worker goes, and the widget, or its error is logged.
LEMMA AlShutsDownKeeps == ASSUME AlInv, CleanupShutsDown PROVE AlInv'
<1>1. PICK p \in AlProcs, ok \in BOOLEAN :
        \/ AlAt(p, "shutdown") /\ AlMoves(p, [alProc[p] EXCEPT !.up = @ \ {"worker"}, !.pc = "widget"])
        \/ AlAt(p, "widget") /\ AlMoves(p, [PutDown(alProc[p], "widget", ok) EXCEPT !.pc = "stop"])
  BY DEF CleanupShutsDown
<1>2. /\ alProc[p] \in AlProcess /\ AlTidy(alProc[p]) /\ UNCHANGED <<alLock, alSocket, alDone, alLost>>
  BY AlStands DEF CleanupShutsDown
<1>3. CASE AlAt(p, "shutdown") /\ AlMoves(p, [alProc[p] EXCEPT !.up = @ \ {"worker"}, !.pc = "widget"])
  <2> DEFINE up == alProc[p].up \ {"worker"}
             r == [alProc[p] EXCEPT !.up = up, !.pc = "widget"]
  <2>1. AlMoves(p, r) /\ up \in SUBSET AlParts /\ alProc[p].pc = "shutdown"
    BY <1>2, <1>3 DEF AlProcess, AlAt
  <2>2. up = alProc[p].up \ {"worker"}
    OBVIOUS
  <2> HIDE DEF up
  <2>3. /\ r \in AlProcess /\ r.pc = "widget" /\ r.link = alProc[p].link /\ r.inbox = alProc[p].inbox
        /\ r.pending = alProc[p].pending /\ r.emit = alProc[p].emit /\ r.up = up
        /\ r.held = alProc[p].held /\ r.left = alProc[p].left
    BY <1>2, <2>1 DEF AlProcess, AlPcs
  <2> HIDE DEF r
  <2>4. AlCleansTo(alProc[p], r) /\ AlTidy(r)
    BY <1>2, <2>1, <2>2, <2>3 DEF AlCleansTo, AlTidy, AlKeeps, AlRunning, AlLeaving
  <2> QED
    BY <1>2, <2>1, <2>4, AlCleans
<1>4. CASE AlAt(p, "widget") /\ AlMoves(p, [PutDown(alProc[p], "widget", ok) EXCEPT !.pc = "stop"])
  <2> DEFINE r == [PutDown(alProc[p], "widget", ok) EXCEPT !.pc = "stop"]
  <2>1. /\ alProc[p].pc \in AlRunning /\ "stop" \in AlRunning
        /\ AlKeeps(alProc[p].pc) \ {"widget"} \subseteq AlKeeps("stop")
    BY <1>4 DEF AlRunning, AlLeaving, AlKeeps, AlAt
  <2>2. AlCleansTo(alProc[p], r) /\ AlTidy(r)
    BY <1>2, <2>1, AlPutsDown
  <2>3. AlMoves(p, r)
    BY <1>4
  <2> HIDE DEF r
  <2> QED
    BY <1>2, <2>2, <2>3, AlCleans
<1> QED
  BY <1>1, <1>3, <1>4

\* The core goes again, whoever started it meanwhile, or its error is dropped.
LEMMA AlStopsKeeps == ASSUME AlInv, CleanupStops PROVE AlInv'
<1>1. PICK p \in AlProcs, ok \in BOOLEAN :
        /\ AlAt(p, "stop")
        /\ AlMoves(p, [alProc[p] EXCEPT !.up = IF ok THEN FinalStop(@) ELSE @, !.pc = "leave",
                          !.left = IF ok THEN @ \ {"core"} ELSE @ \cup (alProc[p].up \cap {"core"}),
                          !.ready = alPlatform = "windows"])
  BY DEF CleanupStops
<1> DEFINE up == IF ok THEN alProc[p].up \ {"core"} ELSE alProc[p].up
           left == IF ok THEN alProc[p].left \ {"core"} ELSE alProc[p].left \cup (alProc[p].up \cap {"core"})
           ready == alPlatform = "windows"
           r == [alProc[p] EXCEPT !.up = up, !.pc = "leave", !.left = left, !.ready = ready]
<1>2. /\ alProc[p] \in AlProcess /\ AlTidy(alProc[p]) /\ alProc[p].pc = "stop"
      /\ UNCHANGED <<alLock, alSocket, alDone, alLost>>
  BY <1>1, AlStands DEF CleanupStops, AlAt
<1>3. AlMoves(p, r)
  BY <1>1 DEF FinalStop
<1>4. up \in SUBSET AlParts /\ left \in SUBSET AlParts /\ ready \in BOOLEAN
  BY <1>2 DEF AlProcess
<1>5. \/ up = alProc[p].up \ {"core"} /\ left = alProc[p].left \ {"core"}
      \/ up = alProc[p].up /\ left = alProc[p].left \cup (alProc[p].up \cap {"core"})
  OBVIOUS
<1> HIDE DEF up, left, ready
<1>6. /\ r \in AlProcess /\ r.pc = "leave" /\ r.link = alProc[p].link /\ r.inbox = alProc[p].inbox
      /\ r.pending = alProc[p].pending /\ r.emit = alProc[p].emit /\ r.up = up /\ r.left = left
      /\ r.held = alProc[p].held
  BY <1>2, <1>4 DEF AlProcess, AlPcs
<1> HIDE DEF r
<1>7. AlTidy(r)
  <2>1. /\ alProc[p].up \subseteq {"core"} \cup alProc[p].left
        /\ alProc[p].up \cap {"proxy", "widget"} \subseteq alProc[p].held \cup alProc[p].left
    BY <1>2 DEF AlTidy, AlKeeps
  <2> QED
    BY <1>5, <1>6, <2>1 DEF AlTidy
<1>8. AlCleansTo(alProc[p], r)
  BY <1>2, <1>6 DEF AlCleansTo, AlRunning, AlLeaving
<1> QED
  BY <1>2, <1>3, <1>7, <1>8, AlCleans

\* The core may be started by the worker as long as that is there: a stop of it is to come.
LEMMA AlWorkerKeeps == ASSUME AlInv, WorkerStartsCore PROVE AlInv'
<1>1. PICK p \in AlProcs :
        alProc[p].pc \in AlLeaving /\ AlMoves(p, [alProc[p] EXCEPT !.up = @ \cup {"core"}])
  BY DEF WorkerStartsCore
<1> DEFINE up == alProc[p].up \cup {"core"}
           r == [alProc[p] EXCEPT !.up = up]
<1>2. /\ alProc[p] \in AlProcess /\ AlTidy(alProc[p]) /\ UNCHANGED <<alLock, alSocket, alDone, alLost>>
  BY AlStands DEF WorkerStartsCore
<1>3. up \in SUBSET AlParts /\ up = alProc[p].up \cup {"core"}
  BY <1>2 DEF AlProcess, AlParts
<1>4. AlMoves(p, r)
  BY <1>1
<1> HIDE DEF up
<1>5. /\ r \in AlProcess /\ r.pc = alProc[p].pc /\ r.link = alProc[p].link /\ r.inbox = alProc[p].inbox
      /\ r.pending = alProc[p].pending /\ r.emit = alProc[p].emit /\ r.up = up
      /\ r.held = alProc[p].held /\ r.left = alProc[p].left
  BY <1>2, <1>3 DEF AlProcess
<1> HIDE DEF r
<1>6. "core" \in AlKeeps(alProc[p].pc)
  BY <1>1 DEF AlKeeps, AlLeaving, AlParts
<1>7. AlTidy(r) /\ AlCleansTo(alProc[p], r)
  BY <1>1, <1>2, <1>3, <1>5, <1>6 DEF AlTidy, AlCleansTo, AlRunning
<1> QED
  BY <1>2, <1>4, <1>7, AlCleans

\* What a command starts is held for the clean-up, or its turn there has passed.
LEMMA AlCommandKeeps == ASSUME AlInv, CommandStarts PROVE AlInv'
<1>1. PICK p \in AlProcs, part \in {"proxy", "core", "widget"} :
        /\ alProc[p].pc \in {"run", "leave"} \cup AlLeaving
        /\ AlMoves(p, [alProc[p] EXCEPT !.up = @ \cup {part}, !.held = @ \cup ({part} \ {"core"}),
                                        !.left = @ \cup ({part} \cap AlPast(alProc[p].pc))])
  BY DEF CommandStarts
<1> DEFINE up == alProc[p].up \cup {part}
           held == alProc[p].held \cup ({part} \ {"core"})
           left == alProc[p].left \cup ({part} \cap AlPast(alProc[p].pc))
           r == [alProc[p] EXCEPT !.up = up, !.held = held, !.left = left]
<1>2. /\ alProc[p] \in AlProcess /\ AlTidy(alProc[p]) /\ UNCHANGED <<alLock, alSocket, alDone, alLost>>
  BY AlStands DEF CommandStarts
<1>3. /\ up \in SUBSET AlParts /\ held \in SUBSET AlParts /\ left \in SUBSET AlParts
      /\ up = alProc[p].up \cup {part} /\ held = alProc[p].held \cup ({part} \ {"core"})
      /\ left = alProc[p].left \cup ({part} \cap AlPast(alProc[p].pc))
  BY <1>2 DEF AlProcess, AlParts
<1>4. AlMoves(p, r)
  BY <1>1
<1> HIDE DEF up, held, left
<1>5. /\ r \in AlProcess /\ r.pc = alProc[p].pc /\ r.link = alProc[p].link /\ r.inbox = alProc[p].inbox
      /\ r.pending = alProc[p].pending /\ r.emit = alProc[p].emit /\ r.up = up
      /\ r.held = held /\ r.left = left
  BY <1>2, <1>3 DEF AlProcess
<1> HIDE DEF r
<1>6. part \in AlKeeps(alProc[p].pc) \cup AlPast(alProc[p].pc)
  BY <1>1 DEF AlKeeps, AlPast, AlLeaving, AlParts
<1>7. AlTidy(r)
  <2>1. r.up \subseteq AlKeeps(r.pc) \cup r.left
    BY <1>2, <1>3, <1>5, <1>6 DEF AlTidy
  <2>2. r.up \cap {"proxy", "widget"} \subseteq r.held \cup r.left
    BY <1>2, <1>3, <1>5 DEF AlTidy
  <2> QED
    BY <2>1, <2>2 DEF AlTidy
<1>8. AlCleansTo(alProc[p], r)
  BY <1>1, <1>5 DEF AlCleansTo, AlRunning
<1> QED
  BY <1>2, <1>4, <1>7, <1>8, AlCleans

\* What the guard loop sets, no one puts down.
LEMMA AlGuardKeeps == ASSUME AlInv, GuardSetsProxy PROVE AlInv'
<1>1. PICK p \in AlProcs :
        /\ alProc[p].pc \in {"run", "leave"} \cup AlLeaving
        /\ AlMoves(p, [alProc[p] EXCEPT !.up = @ \cup {"proxy"}, !.left = @ \cup {"proxy"}])
  BY DEF GuardSetsProxy
<1> DEFINE up == alProc[p].up \cup {"proxy"}
           left == alProc[p].left \cup {"proxy"}
           r == [alProc[p] EXCEPT !.up = up, !.left = left]
<1>2. /\ alProc[p] \in AlProcess /\ AlTidy(alProc[p]) /\ UNCHANGED <<alLock, alSocket, alDone, alLost>>
  BY AlStands DEF GuardSetsProxy
<1>3. /\ up \in SUBSET AlParts /\ left \in SUBSET AlParts
      /\ up = alProc[p].up \cup {"proxy"} /\ left = alProc[p].left \cup {"proxy"}
  BY <1>2 DEF AlProcess, AlParts
<1>4. AlMoves(p, r)
  BY <1>1
<1> HIDE DEF up, left
<1>5. /\ r \in AlProcess /\ r.pc = alProc[p].pc /\ r.link = alProc[p].link /\ r.inbox = alProc[p].inbox
      /\ r.pending = alProc[p].pending /\ r.emit = alProc[p].emit /\ r.up = up
      /\ r.held = alProc[p].held /\ r.left = left
  BY <1>2, <1>3 DEF AlProcess
<1> HIDE DEF r
<1>6. AlTidy(r) /\ AlCleansTo(alProc[p], r)
  BY <1>1, <1>2, <1>3, <1>5 DEF AlTidy, AlCleansTo, AlRunning
<1> QED
  BY <1>2, <1>4, <1>6, AlCleans

\* The handler of a connection takes the link out of the inbox and opens the window.
LEMMA AlOpensKeeps == ASSUME AlInv, SchemeRequestOpens PROVE AlInv'
<1>1. PICK p \in AlProcs :
        /\ AlAt(p, "run") /\ alProc[p].emit = NoLink /\ alProc[p].inbox # <<>>
        /\ AlMoves(p, [alProc[p] EXCEPT !.inbox = Tail(@), !.emit = Head(alProc[p].inbox),
                                        !.page = IF @ = "closed" THEN "loading" ELSE @])
  BY DEF SchemeRequestOpens
<1> DEFINE q == alProc[p]
           inbox == Tail(q.inbox)
           emit == Head(q.inbox)
           page == IF q.page = "closed" THEN "loading" ELSE q.page
           r == [q EXCEPT !.inbox = inbox, !.emit = emit, !.page = page]
<1>2. /\ q.pc = "run" /\ q \in AlProcess /\ AlOrdered(q) /\ q.emit = NoLink /\ q.inbox # <<>>
      /\ q.inbox \in Seq(AlProcs \cup {NoLink}) /\ AlTidy(q)
      /\ UNCHANGED <<alLock, alSocket, alDone, alLost>>
  BY <1>1, AlStands DEF AlAt, AlProcess, SchemeRequestOpens
<1>3. /\ inbox \in Seq(AlProcs \cup {NoLink}) /\ emit \in AlProcs \cup {NoLink}
      /\ \A i \in DOMAIN q.inbox : q.inbox[i] = emit \/ \E j \in DOMAIN inbox : inbox[j] = q.inbox[i]
  <2>1. inbox \in Seq(AlProcs \cup {NoLink}) /\ emit \in AlProcs \cup {NoLink} /\ emit = q.inbox[1]
    BY <1>2
  <2>2. ASSUME NEW i \in DOMAIN q.inbox, i # 1 PROVE i - 1 \in DOMAIN inbox /\ inbox[i - 1] = q.inbox[i]
    BY <1>2, <2>2
  <2> HIDE DEF inbox, emit
  <2> QED
    BY <2>1, <2>2
<1>4. AlMoves(p, r) /\ page \in {"loading", q.page}
  BY <1>1
<1> HIDE DEF q, inbox, emit, page
<1>5. /\ r \in AlProcess /\ r.pc = q.pc /\ r.link = q.link /\ r.pending = q.pending /\ r.inbox = inbox
      /\ r.emit = emit /\ AlUpSame(q, r)
  BY <1>2, <1>3, <1>4 DEF AlProcess, AlUpSame
<1> HIDE DEF r
<1>6. AlOrdered(r)
  BY <1>2, <1>5 DEF AlOrdered, AlCarrying, AlUpSame
<1>7. \A x \in AlProcs : AlCarries(q, x) => AlCarries(r, x)
  BY <1>2, <1>3, <1>5, AlNumbers DEF AlCarries
<1>8. AlTidy(r)
  BY <1>2, <1>5 DEF AlTidy, AlUpSame
<1> QED
  BY <1>2, <1>4, <1>5, <1>6, <1>7, <1>8, AlQuietly DEF q

\* The link it opened the window for is imported, or lost.
LEMMA AlEmitsKeeps == ASSUME AlInv, SchemeRequestEmits PROVE AlInv'
<1>1. PICK p \in AlProcs :
        /\ AlAt(p, "run") /\ AlMoves(p, [alProc[p] EXCEPT !.emit = NoLink])
        /\ \/ alDone' = alDone \cup {alProc[p].emit} /\ alLost' = alLost
           \/ alDone' = alDone /\ alLost' = alLost \cup {alProc[p].emit}
  BY DEF SchemeRequestEmits
<1> DEFINE q == alProc[p]
           r == [q EXCEPT !.emit = NoLink]
<1>2. /\ q.pc = "run" /\ q \in AlProcess /\ AlOrdered(q) /\ AlTidy(q)
      /\ UNCHANGED <<alLock, alSocket>>
      /\ alLock \in AlProcs \cup {0} /\ alSocket \in AlProcs \cup {NoSocket, StaleSocket}
  BY <1>1, AlStands DEF AlAt, SchemeRequestEmits
<1>3. AlMoves(p, r)
  BY <1>1
<1>4. alDone \subseteq alDone' /\ alLost \subseteq alLost' /\ (q.emit \in alDone' \/ q.emit \in alLost')
  BY <1>1
<1> HIDE DEF q
<1>5. /\ r \in AlProcess /\ r.pc = q.pc /\ r.link = q.link /\ r.pending = q.pending /\ r.inbox = q.inbox
      /\ AlUpSame(q, r)
  BY <1>2 DEF AlProcess, AlUpSame
<1> HIDE DEF r
<1>6. AlOrdered(r) /\ r.pc \in AlRunning
  BY <1>2, <1>5 DEF AlOrdered, AlCarrying, AlRunning, AlLeaving
<1>7. \A x \in AlProcs : AlCarries(q, x) => AlCarries(r, x) \/ x \in alDone' \/ x \in alLost'
  BY <1>2, <1>4, <1>5 DEF AlCarries
<1>8. AlTidy(r)
  BY <1>2, <1>5 DEF AlTidy, AlUpSame
<1> QED
  BY <1>2, <1>3, <1>4, <1>5, <1>6, <1>7, <1>8, AlOneMoves DEF q

\* The page moves on; the pending link is imported when it asks for it.
LEMMA AlLoadsKeeps == ASSUME AlInv, AlPageLoads PROVE AlInv'
<1>1. PICK p \in AlProcs :
        /\ AlAt(p, "run")
        /\ \/ AlDrains(p, "drained")
           \/ AlDrains(p, "ready")
           \/ AlMoves(p, [alProc[p] EXCEPT !.page = "listening"]) /\ UNCHANGED alDone
           \/ AlMoves(p, [alProc[p] EXCEPT !.page = "ready"]) /\ UNCHANGED alDone
  BY DEF AlPageLoads
<1>2. /\ alProc[p].pc = "run" /\ alProc[p] \in AlProcess /\ AlOrdered(alProc[p])
      /\ AlTidy(alProc[p]) /\ UNCHANGED <<alLock, alSocket, alLost>>
      /\ alLock \in AlProcs \cup {0} /\ alSocket \in AlProcs \cup {NoSocket, StaleSocket}
  BY <1>1, AlStands DEF AlAt, AlPageLoads
<1>3. ASSUME NEW page \in {"drained", "ready"}, AlDrains(p, page) PROVE AlInv'
  <2> DEFINE q == alProc[p]
             r == [q EXCEPT !.page = page, !.pending = NoLink]
  <2>1. AlMoves(p, r) /\ alDone' = alDone \cup ({q.pending} \ {NoLink})
    BY <1>3 DEF AlDrains
  <2>2. q \in AlProcess /\ AlOrdered(q) /\ q.pc = "run"
    BY <1>2
  <2>3. AlTidy(q)
    BY <1>2
  <2> HIDE DEF q
  <2>4. /\ r \in AlProcess /\ r.pc = q.pc /\ r.link = q.link /\ r.emit = q.emit /\ r.inbox = q.inbox
        /\ AlUpSame(q, r)
    BY <2>2 DEF AlProcess, AlUpSame
  <2> HIDE DEF r
  <2>5. AlOrdered(r) /\ r.pc \in AlRunning
    BY <2>2, <2>4 DEF AlOrdered, AlCarrying, AlRunning, AlLeaving
  <2>6. \A x \in AlProcs : AlCarries(q, x) => AlCarries(r, x) \/ x \in alDone' \/ x \in alLost'
    BY <2>1, <2>2, <2>4, AlNumbers DEF AlCarries
  <2>7. alDone \subseteq alDone' /\ AlTidy(r)
    BY <1>2, <2>1, <2>3, <2>4 DEF AlTidy, AlUpSame
  <2> QED
    BY <1>2, <2>1, <2>4, <2>5, <2>6, <2>7, AlOneMoves DEF q
<1>4. ASSUME NEW page \in {"listening", "ready"}, AlMoves(p, [alProc[p] EXCEPT !.page = page]), UNCHANGED alDone
      PROVE  AlInv'
  <2> DEFINE r == [alProc[p] EXCEPT !.page = page]
  <2>1. AlMoves(p, r)
    BY <1>4
  <2>2. AlWalksTo(alProc[p], r) /\ r.pc = "run" /\ AlUpSame(alProc[p], r)
    BY <1>2 DEF AlWalksTo, AlProcess, AlPcs, AlOrdered, AlCarrying, AlUpSame
  <2> HIDE DEF r
  <2>3. r.pc \in AlRunning /\ AlTidy(r)
    BY <1>2, <2>2 DEF AlRunning, AlTidy, AlUpSame
  <2> QED
    BY <1>2, <1>4, <2>1, <2>2, <2>3, AlWalks
<1> QED
  BY <1>1, <1>3, <1>4

\* The process ends, and a restart passes what it was started with to its launcher.
LEMMA AlLeavesKeeps == ASSUME AlInv, AlLeaves PROVE AlInv'
<1>1. PICK p \in AlProcs :
       /\ AlAt(p, "leave")
       /\ \/ AlEnds(p, alProc[p], {})
          \/ /\ AlMoves(p, [alProc[p] EXCEPT !.pc = "run", !.exit = "quit"])
             /\ UNCHANGED <<alLock, alSocket, alLost>>
          \/ \E q \in AlProcs :
               /\ AlAt(q, "none")
               /\ alProc' = [[alProc EXCEPT ![p] = AlGone(alProc[p])] EXCEPT
                              ![q] = [AlNone EXCEPT !.pc = "launch", !.link = alProc[p].link]]
               /\ alLock' = IF alLock = p THEN 0 ELSE alLock
               /\ alSocket' = IF alSocket # p THEN alSocket
                              ELSE IF alPlatform = "unix" THEN StaleSocket ELSE NoSocket
               /\ alLost' = alLost \cup {alProc[p].inbox[i] : i \in DOMAIN alProc[p].inbox}
                                   \cup {alProc[p].pending, alProc[p].emit}
  BY DEF AlLeaves
<1>2. /\ alProc[p].pc = "leave" /\ alProc[p] \in AlProcess /\ AlTidy(alProc[p])
      /\ UNCHANGED alDone /\ alProc \in [AlProcs -> AlProcess]
      /\ alLock \in AlProcs \cup {0} /\ alSocket \in AlProcs \cup {NoSocket, StaleSocket}
  BY <1>1, AlStands DEF AlAt, AlLeaves
<1>3. CASE AlEnds(p, alProc[p], {})
  <2> DEFINE also == {}
  <2>1. AlEnds(p, alProc[p], also)
    BY <1>3
  <2>2. alProc[p].pc \notin AlCarrying /\ alProc[p].up \subseteq alProc[p].left
    BY <1>2 DEF AlCarrying, AlTidy, AlKeeps
  <2> HIDE DEF also
  <2> QED
    BY <1>2, <2>1, <2>2, AlEndsKeeps
<1>4. ASSUME NEW q \in AlProcs, AlAt(q, "none"),
             alProc' = [[alProc EXCEPT ![p] = AlGone(alProc[p])] EXCEPT
                              ![q] = [AlNone EXCEPT !.pc = "launch", !.link = alProc[p].link]],
             alLock' = IF alLock = p THEN 0 ELSE alLock,
             alSocket' = IF alSocket # p THEN alSocket ELSE IF alPlatform = "unix" THEN StaleSocket ELSE NoSocket,
             alLost' = alLost \cup {alProc[p].inbox[i] : i \in DOMAIN alProc[p].inbox}
                              \cup {alProc[p].pending, alProc[p].emit}
      PROVE  AlInv'
  <2> DEFINE r == AlGone(alProc[p])
             w == [AlNone EXCEPT !.pc = "launch", !.link = alProc[p].link]
  <2>1. /\ r \in AlProcess /\ r.pc = "gone" /\ r.link = alProc[p].link /\ r.up = alProc[p].up
        /\ r.left = alProc[p].left /\ r.ready = FALSE
    BY <1>2, AlGoneIs
  <2>2. alProc[p].link \in AlProcs \cup {NoLink}
    BY <1>2 DEF AlProcess
  <2>3. /\ w \in AlProcess /\ w.pc = "launch" /\ w.link = alProc[p].link /\ w.inbox = <<>> /\ w.pending = NoLink
        /\ w.emit = NoLink /\ w.up = {} /\ w.ready = FALSE
    BY <2>2, AlNoneIs DEF AlProcess, AlPcs
  <2>4. alProc' = [[alProc EXCEPT ![p] = r] EXCEPT ![q] = w]
    BY <1>4
  <2> HIDE DEF r, w
  <2>5. q # p /\ alProc[q] = AlNone
    BY <1>2, <1>4, AlStands DEF AlOrdered, AlAt
  <2>6. /\ alProc' \in [AlProcs -> AlProcess] /\ alProc'[p] = r /\ alProc'[q] = w
        /\ \A o \in AlProcs \ {p, q} : alProc'[o] = alProc[o]
    BY <1>2, <2>1, <2>3, <2>4, <2>5
  <2>7. alSocket' \in {alSocket, NoSocket, StaleSocket} /\ alSocket' # p /\ alSocket' # q
    BY <1>4, <2>5, AlNumbers, AlStands, AlNoneIs DEF AlRunning, AlLeaving
  <2>8. AlStopped /\ AlHeard /\ \A o \in AlProcs : AlOrdered(alProc[o])
    BY DEF AlInv
  <2>9. AlStopped'
    <3>1. ASSUME NEW o \in AlProcs PROVE AlTidy(alProc'[o])
      <4>1. AlTidy(alProc[o])
        BY <2>8 DEF AlStopped
      <4>2. CASE o = p
        BY <1>2, <2>1, <2>6, <4>1, <4>2 DEF AlTidy, AlKeeps
      <4>3. CASE o = q
        BY <2>3, <2>6, <4>3 DEF AlTidy
      <4>4. CASE o \notin {p, q}
        BY <2>6, <4>1, <4>4
      <4> QED
        BY <4>2, <4>3, <4>4
    <3> QED
      BY <1>2, <3>1 DEF AlStopped
  <2>10. AlHeard'
    BY <2>6, <2>7, <2>8, AlNumbers DEF AlHeard
  <2>11. \A o \in AlProcs : AlOrdered(alProc'[o])
    <3>1. AlOrdered(r) /\ AlOrdered(w)
      BY <2>1, <2>3 DEF AlOrdered, AlCarrying
    <3> QED
      BY <2>6, <2>8, <3>1
  <2>12. \A o \in AlProcs : \/ alProc'[o].link \in {alProc[o].link, NoLink}
                             \/ AlCarries(alProc'[o], alProc'[o].link)
    <3>1. AlCarries(w, w.link)
      BY <2>3 DEF AlCarries, AlCarrying
    <3> QED
      BY <2>1, <2>6, <3>1
  <2>13. ASSUME NEW o \in AlProcs, NEW x \in AlProcs, AlCarries(alProc[o], x)
         PROVE  (\E o1 \in AlProcs : AlCarries(alProc'[o1], x)) \/ x \in alLost'
    <3>1. CASE o = p
      BY <1>2, <1>4, <2>13, <3>1 DEF AlCarries, AlCarrying
    <3>2. CASE o = q
      BY <2>5, <2>13, <3>2, AlNoneIs, AlNumbers DEF AlCarries, AlCarrying
    <3>3. CASE o \notin {p, q}
      BY <2>6, <2>13, <3>3
    <3> QED
      BY <3>1, <3>2, <3>3
  <2>14. alLock' \in AlProcs \cup {0} /\ alSocket' \in AlProcs \cup {NoSocket, StaleSocket} /\ alLost \subseteq alLost'
    BY <1>2, <1>4, <2>7
  <2> QED
    BY <1>2, <2>6, <2>9, <2>10, <2>11, <2>12, <2>13, <2>14, AlTogether
<1>5. CASE /\ AlMoves(p, [alProc[p] EXCEPT !.pc = "run", !.exit = "quit"])
           /\ UNCHANGED <<alLock, alSocket, alLost>>
  <2> DEFINE r == [alProc[p] EXCEPT !.pc = "run", !.exit = "quit"]
  <2>1. /\ r \in AlProcess /\ r.pc = "run" /\ r.link = alProc[p].link /\ r.inbox = alProc[p].inbox
        /\ r.pending = alProc[p].pending /\ r.emit = alProc[p].emit /\ AlUpSame(alProc[p], r)
    BY <1>2 DEF AlProcess, AlPcs, AlUpSame
  <2>2. AlMoves(p, r)
    BY <1>5
  <2> HIDE DEF r
  <2>3. AlTidy(r) /\ AlCleansTo(alProc[p], r)
    BY <1>2, <2>1 DEF AlTidy, AlKeeps, AlUpSame, AlProcess, AlCleansTo, AlRunning
  <2> QED
    BY <1>2, <1>5, <2>2, <2>3, AlCleans
<1> QED
  BY <1>1, <1>3, <1>4, <1>5

\* Before any process is started.
LEMMA AlStartsWell == AlInit => AlInv
<1> SUFFICES ASSUME AlInit PROVE AlInv
  OBVIOUS
<1>1. /\ alProc \in [AlProcs -> AlProcess] /\ \A p \in AlProcs : alProc[p] = AlNone
  BY AlNoneIs DEF AlInit
<1>2. AlTypeOK
  BY <1>1, AlTypes DEF AlInit
<1>3. AlStopped /\ AlHeard
  BY <1>1, AlNoneIs, AlNumbers DEF AlInit, AlStopped, AlHeard, AlTidy
<1>4. AlLinkArrives
  BY <1>1, AlNoneIs, AlNumbers DEF AlLinkArrives
<1>5. \A p \in AlProcs : AlOrdered(alProc[p])
  BY <1>1, AlNoneIs DEF AlOrdered, AlCarrying
<1> QED
  BY <1>2, <1>3, <1>4, <1>5 DEF AlInv

\* Every step keeps the processes in order.
LEMMA AlKeepsInv == ASSUME AlInv, [AlNext]_alVars PROVE AlInv'
<1>1. CASE AlNext
  BY <1>1, AlStartsKeeps, AlPreparesKeeps, AlRemovesKeeps, AlLocksKeeps, AlLaunchKeeps, AlSetsUpKeeps,
     AlResolvesKeeps, AlRunsKeeps, AlListensKeeps, AlOpensKeeps, AlEmitsKeeps, AlLoadsKeeps, AlTogglesKeeps,
     AlQuitsKeeps, AlBlocksKeeps, AlAsksKeeps, AlLetsGoKeeps, AlResetsKeeps, AlHaltsKeeps, AlShutsDownKeeps,
     AlStopsKeeps, AlLeavesKeeps, AlWorkerKeeps, AlCommandKeeps, AlGuardKeeps DEF AlNext
<1>2. CASE UNCHANGED alVars
  BY <1>2 DEF alVars, AlInv, AlTypeOK, AlStopped, AlHeard, AlLinkArrives, AlOnTheWay, AlOrdered
<1> QED
  BY <1>1, <1>2

\* No link that started a process is dropped silently, and no process leaves proxy, core,
\* worker or widget behind without cause: whoever else starts, restarts or ends meanwhile,
\* whichever steps of the clean-up fail, however late the page, the worker, a command, the
\* guard loop or the end of the session comes.  The causes are those AlCleanExit names.
THEOREM NothingIsLost == AlSpec => []AlNothingLost
<1>1. AlInv => AlNothingLost
  <2> SUFFICES ASSUME AlInv PROVE AlCleanExit
    BY DEF AlNothingLost, AlInv
  <2> SUFFICES ASSUME NEW p \in AlProcs, alProc[p].pc = "gone" PROVE alProc[p].up \subseteq alProc[p].left
    BY DEF AlCleanExit, AlAt
  <2> QED
    BY AlStands DEF AlTidy, AlKeeps
<1> QED
  BY <1>1, AlStartsWell, AlKeepsInv, PTL DEF AlSpec

-------------------------------------------------------------------------------
(* Service control (core/service, core/clash/core.rs).                          *)

ScSlotsAll == ScSlots \cup {ScBoot}
ScCmds == [kind : ScKinds \cup {"none", "boot", "run_core"}, pc : {"idle", "run", "flags", "core"}]
ScThreads == [pc : {"off", "spawned", "loop", "answered", "asleep"}, answer : BOOLEAN]
ScNotices == [connected : BOOLEAN, pc : {"ask", "core"}]

\* Only a command of the user is run.
ScAsked == \A s \in ScSlots : scCmd[s].pc = "run" => scCmd[s].kind \in ScKinds

\* The types the steps need.
ScShape ==
  /\ scOs \in {"absent", "stopped", "running"} /\ scMode \in BOOLEAN
  /\ scCore \in [child : BOOLEAN, service : BOOLEAN] /\ scInstance \in {"none", "Normal", "Service"}
  /\ scIpc \in BOOLEAN /\ scKill \in BOOLEAN /\ scRunning \in BOOLEAN /\ scWanted \in BOOLEAN
  /\ scChecker \in [ScCheckers -> ScThreads]
  /\ scCmd \in [ScSlotsAll -> ScCmds]
  /\ ScAsked
  /\ scWatch \in Seq(ScNotices)
  /\ scRun \in [by : {"none", "caller"}, pc : {"free", "stop", "choose", "chosen", "start"},
               type : {"none", "Normal", "Service"}]

\* A command that will have the core run again.
ScBound(cmd) ==
  \/ cmd.pc = "core"
  \/ cmd.pc = "flags" /\ (cmd.kind = "boot" \/ (scMode /\ cmd.kind \in {"start", "stop", "restart"}))

\* A run of the core that has still to choose the type is on its way.
ScRerun == scRun.pc \in {"stop", "choose"} \/ \E s \in DOMAIN scCmd : ScBound(scCmd[s])

\* The type the core was last given.
ScType == IF scRun.pc \in {"chosen", "start"} THEN scRun.type ELSE scInstance

\* A thread will see that a core of this type does not fit the state it is about.
ScNoticed(connected) ==
  \E i \in DOMAIN scWatch : scWatch[i].pc = "core" \/ scWatch[i].connected = connected

\* The run type fits, or who changed it last is still to act on it.
ScTypeFits == ScType = RunType \/ ScRerun \/ ScNoticed(scIpc)

\* A core the instance asks of the service runs there, or the service is down, or it is
\* about to be taken out of it.
ScServiceHeld ==
  scInstance = "Service" /\ scRun.pc = "free" => scCore.service \/ scOs # "running" \/ ScRerun \/ ScNoticed(FALSE)

\* One core at a time, of the instance's type, and down while a new one is chosen.
ScOneCore ==
  /\ scInstance = "none" /\ scRun.pc = "free" => ScRerun
  /\ scInstance = "Normal" /\ scRun.pc \in {"free", "stop"} => scCore.child
  /\ scCore.child => scInstance = "Normal" /\ scRun.pc \in {"free", "stop"}
  /\ scCore.service => scInstance = "Service" /\ scRun.pc \in {"free", "stop"} /\ scOs = "running"
  /\ scRun.pc = "start" => scInstance = scRun.type
  /\ scInstance = "Service" \/ scRun.type = "Service" => scMode
  /\ scRun.pc \in {"chosen", "start"} => scRun.type # "none"

\* The check of this thread is not over, or its last answer was a.
ScSees(c, a) == scChecker[c].pc \in {"loop", "answered"} \/ (scChecker[c].pc = "asleep" /\ scChecker[c].answer = a)

\* IPC_STATE is the last answer of a thread that lives; a wanted check lives or is spawned.
ScChecked ==
  /\ scIpc => \E c \in ScCheckers : ScSees(c, TRUE)
  /\ scRunning => \E c \in ScCheckers : ScSees(c, scIpc)
  /\ scWanted => ~scKill /\ (scRunning \/ \E c \in ScCheckers : scChecker[c].pc = "spawned")

\* What every step keeps, outside the schedules the property excepts.
ScSound == ScTypeFits /\ ScServiceHeld /\ ScOneCore /\ ScChecked
ScInv == ScShape /\ (scWindow \in BOOLEAN) /\ (~scWindow => ScSound)


\* A thread that is gone leaves the others in their order.
LEMMA ScWithout ==
  ASSUME NEW S, NEW w \in Seq(S), NEW i \in DOMAIN w
  PROVE  LET v == [j \in 1..(Len(w) - 1) |-> IF j < i THEN w[j] ELSE w[j + 1]]
         IN  v \in Seq(S) /\ \A j \in DOMAIN w \ {i} : \E k \in DOMAIN v : v[k] = w[j]
<1> DEFINE v == [j \in 1..(Len(w) - 1) |-> IF j < i THEN w[j] ELSE w[j + 1]]
<1>1. Len(w) \in Nat /\ i \in 1..Len(w) /\ Len(w) - 1 \in Nat /\ \A j \in 1..Len(w) : w[j] \in S
  OBVIOUS
<1>2. \A j \in 1..(Len(w) - 1) : v[j] \in S
  BY <1>1
<1>3. v \in Seq(S) /\ DOMAIN v = 1..(Len(w) - 1)
  BY <1>1, <1>2
<1>4. ASSUME NEW j \in DOMAIN w \ {i} PROVE \E k \in DOMAIN v : v[k] = w[j]
  <2>1. CASE j < i
    <3>1. j \in 1..(Len(w) - 1) /\ v[j] = w[j]
      BY <1>1, <2>1
    <3> QED
      BY <1>3, <3>1
  <2>2. CASE i < j
    <3>1. j - 1 \in 1..(Len(w) - 1) /\ ~(j - 1 < i) /\ (j - 1) + 1 = j
      BY <1>1, <2>2
    <3>2. v[j - 1] = w[j]
      BY <3>1
    <3> QED
      BY <1>3, <3>1, <3>2
  <2> QED
    BY <1>1, <2>1, <2>2
<1> QED
  BY <1>3, <1>4

\* What is left alone keeps what it stands for: the commands that will have the core run ...
LEMMA ScRerunStays ==
  ASSUME ScShape, ScShape', scMode' = scMode, scRun.pc \in {"stop", "choose"} => scRun'.pc \in {"stop", "choose"},
         \A s \in ScSlotsAll : ScBound(scCmd[s]) => ScBound(scCmd'[s]) \/ scRun'.pc \in {"stop", "choose"}
  PROVE  ScRerun => ScRerun'
<1> USE DEF ScSlotsAll
<1>1. DOMAIN scCmd = ScSlotsAll /\ DOMAIN scCmd' = ScSlotsAll
  BY DEF ScShape
<1>2. \A s : ScBound(scCmd'[s]) => ScBound(scCmd[s])'
  BY DEF ScBound
<1> QED
  BY <1>1, <1>2 DEF ScRerun

\* ... and the threads that will see to it.
LEMMA ScNoticeStays ==
  ASSUME \A i \in DOMAIN scWatch : \E k \in DOMAIN scWatch' : scWatch'[k] = scWatch[i], NEW c
  PROVE  ScNoticed(c) => ScNoticed(c)'
  BY DEF ScNoticed

\* One command moves.
LEMMA ScCmdMoves ==
  ASSUME ScShape, NEW s \in ScSlotsAll, NEW c \in ScCmds, c.pc = "run" => c.kind \in ScKinds,
         scCmd' = [scCmd EXCEPT ![s] = c]
  PROVE  /\ scCmd' \in [ScSlotsAll -> ScCmds] /\ ScAsked' /\ scCmd'[s] = c
         /\ \A o \in ScSlotsAll \ {s} : scCmd'[o] = scCmd[o]
         /\ (ScBound(scCmd[s]) => ScBound(c)) => \A o \in ScSlotsAll : ScBound(scCmd[o]) => ScBound(scCmd'[o])
<1>1. scCmd \in [ScSlotsAll -> ScCmds] /\ ScAsked
  BY DEF ScShape
<1>2. /\ scCmd' \in [ScSlotsAll -> ScCmds] /\ scCmd'[s] = c
      /\ \A o \in ScSlotsAll \ {s} : scCmd'[o] = scCmd[o]
  BY <1>1
<1>3. ScAsked'
  BY <1>1, <1>2 DEF ScAsked, ScSlotsAll
<1> QED
  BY <1>2, <1>3

\* At the start the core is still to be launched, and a check that is wanted is spawned.
LEMMA ScStartsWell == ASSUME ScInit PROVE ScInv
<1>1. ScShape
  <2>1. scChecker \in [ScCheckers -> ScThreads]
    BY DEF ScInit, ScThreads
  <2>2. scCmd \in [ScSlotsAll -> ScCmds] /\ ScAsked
    BY DEF ScInit, ScSlotsAll, ScCmds, ScIdle, ScAsked, ScBoot
  <2>3. scWatch \in Seq(ScNotices)
    BY DEF ScInit
  <2> QED
    BY <2>1, <2>2, <2>3 DEF ScInit, ScShape, ScNobody
<1>2. ScRerun
  <2>1. ScBoot \in DOMAIN scCmd /\ ScBound(scCmd[ScBoot])
    BY DEF ScInit, ScBound, ScBoot
  <2> QED
    BY <2>1 DEF ScRerun
<1>3. ScTypeFits /\ ScServiceHeld
  BY <1>2 DEF ScTypeFits, ScServiceHeld
<1>4. ScOneCore
  BY <1>2 DEF ScOneCore, ScInit, ScNobody
<1>5. ScChecked
  <2>1. scWanted => scChecker[1].pc = "spawned"
    BY ScCheckersAssumption DEF ScInit
  <2> QED
    BY <2>1, ScCheckersAssumption DEF ScChecked, ScInit
<1> QED
  BY <1>1, <1>3, <1>4, <1>5 DEF ScInv, ScSound, ScInit

\* A step of a command that runs no core and tells no checker leaves the run type alone.
LEMMA ScCommandSteps ==
  ASSUME ScShape, ScShape', ScSound, UNCHANGED <<scMode, scInstance, scIpc, scWatch, scRun>>,
         \A s \in ScSlotsAll : ScBound(scCmd[s]) => ScBound(scCmd'[s])
  PROVE  /\ ScTypeFits' /\ (ScRerun => ScRerun')
         /\ \A c : ScNoticed(c) => ScNoticed(c)'
<1>1. ScRerun => ScRerun'
  BY ScRerunStays
<1>2. ASSUME NEW c PROVE ScNoticed(c) => ScNoticed(c)'
  BY DEF ScNoticed
<1>3. ScType' = ScType /\ RunType' = RunType /\ ScNoticed(scIpc)' = ScNoticed(scIpc)
  BY DEF ScType, RunType, ScNoticed
<1> QED
  BY <1>1, <1>2, <1>3 DEF ScTypeFits, ScSound

\* Asking and launching: commands move, nothing else.
LEMMA ScCommandsKeep == ASSUME ScInv, ScAsks \/ ScBoots PROVE ScInv'
<1>1. UNCHANGED <<scOs, scMode, scCore, scInstance, scIpc, scKill, scRunning, scChecker, scWatch, scRun, scWindow, scWanted>>
  BY DEF ScAsks, ScBoots
<1>2. /\ scCmd' \in [ScSlotsAll -> ScCmds] /\ ScAsked'
      /\ \A s \in ScSlotsAll : ScBound(scCmd[s]) => ScBound(scCmd'[s])
  <2>1. CASE ScAsks
    <3>1. PICK s \in ScSlots, k \in ScKinds : scCmd[s].pc = "idle" /\ scCmd' = [scCmd EXCEPT ![s] = [kind |-> k, pc |-> "run"]]
      BY <2>1 DEF ScAsks
    <3> DEFINE c == [kind |-> k, pc |-> "run"]
    <3>2. c \in ScCmds /\ c.pc = "run" /\ c.kind \in ScKinds /\ ~ScBound(scCmd[s]) /\ s \in ScSlotsAll
      BY <3>1 DEF ScCmds, ScBound, ScSlotsAll
    <3>3. scCmd' = [scCmd EXCEPT ![s] = c]
      BY <3>1
    <3> HIDE DEF c
    <3> QED
      BY <3>2, <3>3, ScCmdMoves DEF ScInv
  <2>2. CASE ScBoots
    <3> DEFINE c == [kind |-> "run_core", pc |-> "core"]
    <3>1. scCmd' = [scCmd EXCEPT ![ScBoot] = c]
      BY <2>2 DEF ScBoots
    <3>2. c \in ScCmds /\ c.pc # "run" /\ ScBound(c) /\ ScBoot \in ScSlotsAll
      BY DEF ScCmds, ScBound, ScSlotsAll
    <3> HIDE DEF c
    <3> QED
      BY <3>1, <3>2, ScCmdMoves DEF ScInv
  <2> QED
    BY <2>1, <2>2
<1>3. ScShape'
  BY <1>1, <1>2 DEF ScInv, ScShape
<1>4. ASSUME ScSound PROVE ScSound'
  <2>1. ScTypeFits' /\ (ScRerun => ScRerun') /\ \A c : ScNoticed(c) => ScNoticed(c)'
    BY <1>1, <1>2, <1>3, <1>4, ScCommandSteps DEF ScInv
  <2>2. ScServiceHeld' /\ ScOneCore'
    BY <1>1, <1>4, <2>1 DEF ScSound, ScServiceHeld, ScOneCore
  <2>3. ScChecked'
    BY <1>1, <1>4 DEF ScSound, ScChecked, ScSees
  <2> QED
    BY <2>1, <2>2, <2>3 DEF ScSound
<1> QED
  BY <1>1, <1>3, <1>4 DEF ScInv

\* A command through the service program: what takes the core away asks for another.
LEMMA ScElevatedKeeps == ASSUME ScInv, ScElevated PROVE ScInv'
<1>1. PICK s \in ScSlots :
        LET kind == scCmd[s].kind
            possible == scOs # "absent" \/ kind = "install"
        IN  /\ scCmd[s].pc = "run"
            /\ \/ /\ possible /\ scOs' \in ScOutcomes(kind)
                  /\ scCore' = [scCore EXCEPT !.service = @ /\ scOs' = "running" /\ kind # "restart"]
                  /\ scCmd' = [scCmd EXCEPT ![s].pc = "flags"] /\ UNCHANGED scFails
                  /\ scWindow' = (scWindow \/ (kind = "install" /\ scIpc /\ scOs # "running"))
               \/ /\ possible => scFails < ScMaxFails
                  /\ scFails' = IF possible THEN scFails + 1 ELSE scFails
                  /\ scCmd' = [scCmd EXCEPT ![s] = ScAfter(kind)] /\ UNCHANGED <<scOs, scCore, scWindow>>
  BY DEF ScElevated
<1> DEFINE kind == scCmd[s].kind
<1>2. UNCHANGED <<scMode, scInstance, scIpc, scKill, scRunning, scChecker, scWatch, scRun, scWanted>>
  BY DEF ScElevated
<1>3. /\ scCmd \in [ScSlotsAll -> ScCmds] /\ scCmd[s] \in ScCmds /\ kind \in ScKinds /\ s \in ScSlotsAll
      /\ scCore \in [child : BOOLEAN, service : BOOLEAN] /\ scOs \in {"absent", "stopped", "running"}
      /\ scMode \in BOOLEAN /\ scWindow \in BOOLEAN /\ scIpc \in BOOLEAN /\ ~ScBound(scCmd[s])
  BY <1>1 DEF ScInv, ScShape, ScAsked, ScSlotsAll, ScBound
<1>4. CASE /\ scOs' \in ScOutcomes(kind)
           /\ scCore' = [scCore EXCEPT !.service = @ /\ scOs' = "running" /\ kind # "restart"]
           /\ scCmd' = [scCmd EXCEPT ![s].pc = "flags"]
           /\ scWindow' = (scWindow \/ (kind = "install" /\ scIpc /\ scOs # "running"))
  <2> DEFINE c == [scCmd[s] EXCEPT !.pc = "flags"]
  <2>1. scOs' \in {"absent", "stopped", "running"}
    BY <1>4 DEF ScOutcomes
  <2>2. /\ scCore' \in [child : BOOLEAN, service : BOOLEAN] /\ scCore'.child = scCore.child
        /\ scCore'.service = (scCore.service /\ scOs' = "running" /\ kind # "restart")
    BY <1>3, <1>4
  <2>3. c \in ScCmds /\ c.pc = "flags" /\ c.kind = kind /\ scCmd' = [scCmd EXCEPT ![s] = c]
    BY <1>3, <1>4 DEF ScCmds
  <2> HIDE DEF c
  <2>4. /\ scCmd' \in [ScSlotsAll -> ScCmds] /\ ScAsked' /\ scCmd'[s] = c
        /\ \A o \in ScSlotsAll : ScBound(scCmd[o]) => ScBound(scCmd'[o])
    BY <1>3, <2>3, ScCmdMoves DEF ScInv
  <2>5. ScShape' /\ scWindow' \in BOOLEAN
    BY <1>2, <1>3, <1>4, <2>1, <2>2, <2>4 DEF ScInv, ScShape
  <2>6. ASSUME ~scWindow' PROVE ScSound'
    <3>1. ScSound /\ ~(kind = "install" /\ scIpc /\ scOs # "running")
      BY <1>3, <1>4, <2>6 DEF ScInv
    <3>2. ScTypeFits' /\ (ScRerun => ScRerun') /\ \A o : ScNoticed(o) => ScNoticed(o)'
      BY <1>2, <2>4, <2>5, <3>1, ScCommandSteps DEF ScInv
    <3>3. kind \in {"start", "stop", "restart"} /\ scMode => ScRerun'
      <4> SUFFICES ASSUME kind \in {"start", "stop", "restart"}, scMode PROVE ScRerun'
        OBVIOUS
      <4>1. s \in DOMAIN scCmd' /\ ScBound(scCmd[s])'
        BY <1>2, <1>3, <2>3, <2>4 DEF ScBound
      <4> QED
        BY <4>1 DEF ScRerun
    <3>4. ScOneCore'
      BY <1>2, <2>2, <3>1, <3>2 DEF ScSound, ScOneCore
    <3>5. ScServiceHeld'
      <4> SUFFICES ASSUME scInstance = "Service", scRun.pc = "free", ~scCore'.service, scOs' = "running", ~ScRerun'
                   PROVE  ScNoticed(FALSE)'
        BY <1>2 DEF ScServiceHeld
      <4>1. (scCore.service \/ scOs # "running" \/ ScNoticed(FALSE)) /\ ~ScRerun /\ ScTypeFits
        BY <3>1, <3>2 DEF ScSound, ScServiceHeld
      <4>2. CASE ScNoticed(FALSE)
        BY <3>2, <4>2
      <4>3. CASE ~ScNoticed(FALSE)
        <5>1. ScType = "Service" /\ (scIpc \/ RunType # "Service")
          BY DEF ScType, RunType
        <5>2. scMode
          BY <3>1 DEF ScSound, ScOneCore
        <5>3. ASSUME ~scIpc PROVE FALSE
          <6>1. scIpc = FALSE
            BY <1>3, <5>3
          <6>2. ~ScNoticed(scIpc)
            BY <4>3, <6>1
          <6> QED
            BY <4>1, <5>1, <5>3, <6>2 DEF ScTypeFits
        <5>4. kind \notin {"start", "stop", "restart"}
          BY <3>3, <5>2
        <5>5. kind = "install"
          BY <1>3, <1>4, <5>4 DEF ScOutcomes, ScKinds
        <5>6. scOs = "running" /\ scCore.service
          BY <3>1, <4>1, <4>3, <5>3, <5>5
        <5> QED
          BY <2>2, <5>5, <5>6
      <4> QED
        BY <4>2, <4>3
    <3>6. ScChecked'
      BY <1>2, <3>1 DEF ScSound, ScChecked, ScSees
    <3> QED
      BY <3>2, <3>4, <3>5, <3>6 DEF ScSound
  <2> QED
    BY <2>5, <2>6 DEF ScInv
<1>5. CASE scCmd' = [scCmd EXCEPT ![s] = ScAfter(kind)] /\ UNCHANGED <<scOs, scCore, scWindow>>
  <2> DEFINE c == ScAfter(kind)
  <2>1. c \in ScCmds /\ c.pc # "run" /\ scCmd' = [scCmd EXCEPT ![s] = c]
    BY <1>5 DEF ScAfter, ScCmds, ScIdle
  <2> HIDE DEF c
  <2>2. /\ scCmd' \in [ScSlotsAll -> ScCmds] /\ ScAsked'
        /\ \A o \in ScSlotsAll : ScBound(scCmd[o]) => ScBound(scCmd'[o])
    BY <1>3, <2>1, ScCmdMoves DEF ScInv
  <2>3. ScShape'
    BY <1>2, <1>5, <2>2 DEF ScInv, ScShape
  <2>4. ASSUME ScSound PROVE ScSound'
    <3>1. ScTypeFits' /\ (ScRerun => ScRerun') /\ \A o : ScNoticed(o) => ScNoticed(o)'
      BY <1>2, <2>2, <2>3, <2>4, ScCommandSteps DEF ScInv
    <3>2. UNCHANGED <<scOs, scCore>>
      BY <1>5
    <3>3. ScServiceHeld' /\ ScOneCore'
      BY <1>2, <2>4, <3>1, <3>2 DEF ScSound, ScServiceHeld, ScOneCore
    <3>4. ScChecked'
      BY <1>2, <2>4 DEF ScSound, ScChecked, ScSees
    <3> QED
      BY <3>1, <3>3, <3>4 DEF ScSound
  <2> QED
    BY <1>5, <2>3, <2>4 DEF ScInv
<1> QED
  BY <1>1, <1>4, <1>5

\* The flags of the health check: what starts one takes the kill flag back.
LEMMA ScFlagsKeep == ASSUME ScInv, ScFlags PROVE ScInv'
<1>1. PICK s \in ScSlots :
        /\ scCmd[s].pc = "flags" /\ (ScStarts(s) \/ ScStops(s))
        /\ scWanted' = (scCmd[s].kind \in {"install", "start", "restart"})
        /\ scCmd' = [scCmd EXCEPT ![s] = ScAfter(scCmd[s].kind)]
  BY DEF ScFlags
<1> DEFINE kind == scCmd[s].kind
           c == ScAfter(kind)
<1>2. UNCHANGED <<scOs, scMode, scCore, scInstance, scIpc, scRunning, scWatch, scRun>>
  BY DEF ScFlags
<1>3. ScShape /\ scWindow \in BOOLEAN /\ s \in ScSlotsAll
  BY DEF ScInv, ScSlotsAll
<1>4. /\ c \in ScCmds /\ c.pc # "run" /\ scCmd' = [scCmd EXCEPT ![s] = c]
      /\ kind # "boot" => (ScBound(scCmd[s]) => ScBound(c))
  BY <1>1 DEF ScAfter, ScCmds, ScIdle, ScBound
<1>5. kind # "boot" /\ scWanted' = (kind \in {"install", "start", "restart"})
  BY <1>1 DEF ScStarts, ScStops
<1> HIDE DEF c
<1>6. /\ scCmd' \in [ScSlotsAll -> ScCmds] /\ ScAsked'
      /\ \A o \in ScSlotsAll : ScBound(scCmd[o]) => ScBound(scCmd'[o])
  BY <1>3, <1>4, <1>5, ScCmdMoves
\* Either no check is touched, or one that was off is spawned.
<1>7. /\ scChecker' \in [ScCheckers -> ScThreads] /\ scKill' \in BOOLEAN /\ scWindow' \in BOOLEAN
      /\ \A o \in ScCheckers : scChecker[o].pc # "off" => scChecker'[o] = scChecker[o]
      /\ ~scWindow' => ~scWindow
      /\ ~scWindow' /\ scWanted' => ~scKill' /\ (scRunning \/ \E o \in ScCheckers : scChecker'[o].pc = "spawned")
  <2>1. scChecker \in [ScCheckers -> ScThreads] /\ scKill \in BOOLEAN
    BY <1>3 DEF ScShape
  <2>2. CASE ScStops(s)
    BY <1>3, <1>5, <2>1, <2>2 DEF ScStops
  <2>3. CASE ScStarts(s) /\ scRunning
    BY <1>3, <1>5, <2>1, <2>3 DEF ScStarts
  <2>4. CASE ScStarts(s) /\ ~scRunning
    <3>1. SpawnHealthCheck /\ scWindow' = scWindow
      BY <1>3, <2>4 DEF ScStarts
    <3>2. PICK o \in ScCheckers : scChecker[o].pc = "off" /\ scChecker' = [scChecker EXCEPT ![o] = [pc |-> "spawned", answer |-> FALSE]]
      BY <3>1 DEF SpawnHealthCheck
    <3>3. scKill' = FALSE
      BY <3>1 DEF SpawnHealthCheck
    <3>4. [pc |-> "spawned", answer |-> FALSE] \in ScThreads
      BY DEF ScThreads
    <3>5. scChecker' \in [ScCheckers -> ScThreads] /\ scChecker'[o].pc = "spawned"
      BY <2>1, <3>2, <3>4
    <3> QED
      BY <1>3, <2>1, <3>1, <3>2, <3>3, <3>5
  <2> QED
    BY <1>1, <2>2, <2>3, <2>4
<1>8. ScShape'
  BY <1>2, <1>3, <1>5, <1>6, <1>7 DEF ScShape
<1>9. ASSUME ~scWindow' PROVE ScSound'
  <2>1. ScSound
    BY <1>7, <1>9 DEF ScInv
  <2>2. ScTypeFits' /\ (ScRerun => ScRerun') /\ \A o : ScNoticed(o) => ScNoticed(o)'
    BY <1>2, <1>3, <1>6, <1>8, <2>1, ScCommandSteps
  <2>3. ScServiceHeld' /\ ScOneCore'
    BY <1>2, <2>1, <2>2 DEF ScSound, ScServiceHeld, ScOneCore
  <2>4. \A o \in ScCheckers : \A a : ScSees(o, a) => ScSees(o, a)'
    BY <1>7 DEF ScSees
  <2>5. ScChecked'
    BY <1>2, <1>7, <1>9, <2>1, <2>4 DEF ScSound, ScChecked
  <2> QED
    BY <2>2, <2>3, <2>5 DEF ScSound
<1> QED
  BY <1>7, <1>8, <1>9 DEF ScInv

\* The service ends, and its core with it.
LEMMA ScDiesKeeps == ASSUME ScInv, ScDies PROVE ScInv'
<1>1. UNCHANGED <<scMode, scInstance, scIpc, scKill, scRunning, scChecker, scCmd, scWatch, scRun, scWindow, scWanted>>
  BY DEF ScDies
<1>2. /\ scOs' = "stopped" /\ scCore' \in [child : BOOLEAN, service : BOOLEAN]
      /\ scCore'.child = scCore.child /\ ~scCore'.service
  BY DEF ScDies, ScInv, ScShape
<1>3. ScShape'
  BY <1>1, <1>2 DEF ScInv, ScShape, ScAsked
<1>4. ASSUME ScSound PROVE ScSound'
  <2>1. ScTypeFits' /\ (ScRerun => ScRerun')
    BY <1>1, <1>3, <1>4, ScCommandSteps DEF ScInv
  <2>2. ScServiceHeld' /\ ScOneCore'
    BY <1>1, <1>2, <1>4, <2>1 DEF ScSound, ScServiceHeld, ScOneCore
  <2>3. ScChecked'
    BY <1>1, <1>4 DEF ScSound, ScChecked, ScSees
  <2> QED
    BY <2>1, <2>2, <2>3 DEF ScSound
<1> QED
  BY <1>1, <1>3, <1>4 DEF ScInv

\* What a thread appends is read later, and nothing read earlier is lost.
LEMMA ScAppended ==
  ASSUME ScShape, NEW n \in ScNotices, scWatch' = Append(scWatch, n)
  PROVE  /\ scWatch' \in Seq(ScNotices) /\ ScNoticed(n.connected)'
         /\ \A o : ScNoticed(o) => ScNoticed(o)'
<1>1. scWatch \in Seq(ScNotices)
  BY DEF ScShape
<1>2. /\ scWatch' \in Seq(ScNotices) /\ DOMAIN scWatch \subseteq DOMAIN scWatch'
      /\ \A i \in DOMAIN scWatch : scWatch'[i] = scWatch[i]
      /\ Len(scWatch) + 1 \in DOMAIN scWatch' /\ scWatch'[Len(scWatch) + 1] = n
  BY <1>1
<1>3. ScNoticed(n.connected)'
  BY <1>2 DEF ScNoticed
<1>4. ASSUME NEW o PROVE ScNoticed(o) => ScNoticed(o)'
  BY <1>2 DEF ScNoticed
<1> QED
  BY <1>2, <1>3, <1>4

\* A change of IPC_STATE leaves a thread that is about it, if the service is enabled.
LEMMA ScTold ==
  ASSUME ScShape, ScSound, NEW connected \in BOOLEAN, UNCHANGED <<scOs, scMode, scCore, scInstance, scRun, scCmd>>,
         scIpc' = connected, OnIpcStateChanged(connected) \/ (connected = scIpc /\ scWatch' = scWatch)
  PROVE  scWatch' \in Seq(ScNotices) /\ ScTypeFits' /\ ScServiceHeld' /\ ScOneCore'
<1>1. ScRerun' = ScRerun
  BY DEF ScRerun, ScBound
<1>2. /\ scWatch' \in Seq(ScNotices) /\ \A o : ScNoticed(o) => ScNoticed(o)'
      /\ connected = scIpc \/ ~scMode \/ ScNoticed(connected)'
  <2>1. CASE scWatch' = scWatch
    BY <2>1 DEF ScShape, ScNoticed, OnIpcStateChanged
  <2>2. CASE OnIpcStateChanged(connected) /\ scMode
    <3> DEFINE n == [connected |-> connected, pc |-> "ask"]
    <3>1. n \in ScNotices /\ n.connected = connected /\ scWatch' = Append(scWatch, n)
      BY <2>2 DEF OnIpcStateChanged, ScNotices
    <3> HIDE DEF n
    <3> QED
      BY <3>1, ScAppended
  <2> QED
    BY <2>1, <2>2 DEF OnIpcStateChanged
<1>3. ScServiceHeld' /\ ScOneCore'
  BY <1>1, <1>2 DEF ScSound, ScServiceHeld, ScOneCore
<1>4. ScTypeFits'
  <2>1. CASE connected = scIpc
    <3>1. ScType' = ScType /\ RunType' = RunType /\ (ScNoticed(scIpc) => ScNoticed(scIpc)')
      BY <1>2, <2>1 DEF ScType, RunType
    <3> QED
      BY <1>1, <3>1 DEF ScSound, ScTypeFits
  <2>2. CASE ~scMode
    <3>1. scInstance # "Service" /\ scRun.type # "Service" /\ scInstance \in {"none", "Normal", "Service"}
          /\ scRun.type \in {"none", "Normal", "Service"} /\ scRun.pc \in {"free", "stop", "choose", "chosen", "start"}
      BY <2>2 DEF ScSound, ScOneCore, ScShape
    <3>2. ScType = "Normal" \/ ScRerun
      BY <3>1 DEF ScType, ScSound, ScOneCore, ScRerun
    <3>3. ScType' = ScType /\ RunType' = "Normal"
      BY <2>2 DEF ScType, RunType
    <3> QED
      BY <1>1, <3>2, <3>3 DEF ScTypeFits
  <2>3. CASE ScNoticed(connected)'
    BY <2>3 DEF ScTypeFits
  <2> QED
    BY <1>2, <2>1, <2>2, <2>3
<1> QED
  BY <1>2, <1>3, <1>4

\* One health check thread moves.
LEMMA ScCheckerMoves ==
  ASSUME ScShape, NEW c \in ScCheckers, NEW r \in ScThreads, scChecker' = [scChecker EXCEPT ![c] = r]
  PROVE  /\ scChecker' \in [ScCheckers -> ScThreads] /\ scChecker'[c] = r
         /\ \A o \in ScCheckers \ {c} : scChecker'[o] = scChecker[o]
  BY DEF ScShape

\* A spawned check is running and about to look.
LEMMA ScCheckStartsKeeps == ASSUME ScInv, HealthCheckStarts PROVE ScInv'
<1>1. PICK c \in ScCheckers : scChecker[c].pc = "spawned" /\ scChecker' = [scChecker EXCEPT ![c].pc = "loop"]
  BY DEF HealthCheckStarts
<1> DEFINE r == [scChecker[c] EXCEPT !.pc = "loop"]
<1>2. /\ scRunning' = TRUE
      /\ UNCHANGED <<scOs, scMode, scCore, scInstance, scIpc, scKill, scCmd, scWatch, scRun, scWindow, scWanted>>
  BY DEF HealthCheckStarts
<1>3. r \in ScThreads /\ r.pc = "loop" /\ scChecker' = [scChecker EXCEPT ![c] = r]
  BY <1>1 DEF ScInv, ScShape, ScThreads
<1> HIDE DEF r
<1>4. /\ scChecker' \in [ScCheckers -> ScThreads] /\ scChecker'[c] = r
      /\ \A o \in ScCheckers \ {c} : scChecker'[o] = scChecker[o]
  BY <1>3, ScCheckerMoves DEF ScInv
<1>5. ScShape'
  BY <1>2, <1>4 DEF ScInv, ScShape, ScAsked
<1>6. ASSUME ScSound PROVE ScSound'
  <2>1. ScTypeFits' /\ (ScRerun => ScRerun') /\ \A o : ScNoticed(o) => ScNoticed(o)'
    BY <1>2, <1>5, <1>6, ScCommandSteps DEF ScInv
  <2>2. ScServiceHeld' /\ ScOneCore'
    BY <1>2, <1>6, <2>1 DEF ScSound, ScServiceHeld, ScOneCore
  <2>3. ScChecked'
    BY <1>2, <1>3, <1>4, <1>6 DEF ScSound, ScChecked, ScSees
  <2> QED
    BY <2>1, <2>2, <2>3 DEF ScSound
<1> QED
  BY <1>2, <1>5, <1>6 DEF ScInv

\* A check that ends leaves IPC_STATE disconnected and says so; another asks for the status.
LEMMA ScLoopsKeep == ASSUME ScInv, HealthCheckLoops PROVE ScInv'
<1>1. PICK c \in ScCheckers :
        /\ scChecker[c].pc = "loop"
        /\ IF scKill
           THEN /\ scChecker' = [scChecker EXCEPT ![c].pc = "off"]
                /\ scIpc' = FALSE /\ OnIpcStateChanged(FALSE) /\ scRunning' = FALSE
           ELSE /\ \/ scChecker' = [scChecker EXCEPT ![c] = [pc |-> "answered", answer |-> scOs = "running"]]
                   \/ scChecker' = [scChecker EXCEPT ![c] = [pc |-> "answered", answer |-> FALSE]]
                /\ UNCHANGED <<scIpc, scWatch, scRunning>>
  BY DEF HealthCheckLoops
<1>2. UNCHANGED <<scOs, scMode, scCore, scInstance, scKill, scCmd, scRun, scWindow, scWanted>>
  BY DEF HealthCheckLoops
<1>3. CASE scKill
  <2> DEFINE r == [scChecker[c] EXCEPT !.pc = "off"]
  <2>1. r \in ScThreads /\ r.pc = "off" /\ scChecker' = [scChecker EXCEPT ![c] = r]
    BY <1>1, <1>3 DEF ScInv, ScShape, ScThreads
  <2> HIDE DEF r
  <2>2. /\ scChecker' \in [ScCheckers -> ScThreads] /\ scChecker'[c] = r
        /\ \A o \in ScCheckers \ {c} : scChecker'[o] = scChecker[o]
    BY <2>1, ScCheckerMoves DEF ScInv
  <2>3. scIpc' = FALSE /\ OnIpcStateChanged(FALSE) /\ scRunning' = FALSE
    BY <1>1, <1>3
  <2>4. scWatch' \in Seq(ScNotices)
    <3> DEFINE n == [connected |-> FALSE, pc |-> "ask"]
    <3>1. n \in ScNotices /\ (scWatch' = Append(scWatch, n) \/ scWatch' = scWatch)
      BY <2>3 DEF OnIpcStateChanged, ScNotices
    <3> HIDE DEF n
    <3>2. scWatch \in Seq(ScNotices)
      BY DEF ScInv, ScShape
    <3> QED
      BY <3>1, <3>2
  <2>5. ScShape'
    <3>1. scIpc' \in BOOLEAN /\ scRunning' \in BOOLEAN
      BY <2>3
    <3> QED
      BY <1>2, <2>2, <2>4, <3>1 DEF ScInv, ScShape, ScAsked
  <2>6. ASSUME ScSound PROVE ScSound'
    <3>1. ScTypeFits' /\ ScServiceHeld' /\ ScOneCore'
      BY <1>2, <2>3, <2>6, ScTold DEF ScInv
    <3>2. ScChecked'
      BY <1>2, <1>3, <2>3, <2>6 DEF ScSound, ScChecked
    <3> QED
      BY <3>1, <3>2 DEF ScSound
  <2> QED
    BY <1>2, <2>5, <2>6 DEF ScInv
<1>4. CASE ~scKill
  <2>1. PICK a \in BOOLEAN : scChecker' = [scChecker EXCEPT ![c] = [pc |-> "answered", answer |-> a]]
    BY <1>1, <1>4
  <2> DEFINE r == [pc |-> "answered", answer |-> a]
  <2>2. r \in ScThreads /\ r.pc = "answered" /\ scChecker' = [scChecker EXCEPT ![c] = r]
    BY <2>1 DEF ScThreads
  <2> HIDE DEF r
  <2>3. /\ scChecker' \in [ScCheckers -> ScThreads] /\ scChecker'[c] = r
        /\ \A o \in ScCheckers \ {c} : scChecker'[o] = scChecker[o]
    BY <2>2, ScCheckerMoves DEF ScInv
  <2>4. UNCHANGED <<scIpc, scWatch, scRunning>>
    BY <1>1, <1>4
  <2>5. ScShape'
    BY <1>2, <2>3, <2>4 DEF ScInv, ScShape, ScAsked
  <2>6. ASSUME ScSound PROVE ScSound'
    <3>1. ScTypeFits' /\ (ScRerun => ScRerun') /\ \A o : ScNoticed(o) => ScNoticed(o)'
      BY <1>2, <2>4, <2>5, <2>6, ScCommandSteps DEF ScInv
    <3>2. ScServiceHeld' /\ ScOneCore'
      BY <1>2, <2>4, <2>6, <3>1 DEF ScSound, ScServiceHeld, ScOneCore
    <3>3. ScChecked'
      BY <1>1, <1>2, <2>2, <2>3, <2>4, <2>6 DEF ScSound, ScChecked, ScSees
    <3> QED
      BY <3>1, <3>2, <3>3 DEF ScSound
  <2> QED
    BY <1>2, <2>5, <2>6 DEF ScInv
<1> QED
  BY <1>3, <1>4

\* IPC_STATE is now what this check was answered.
LEMMA ScDispatchKeeps == ASSUME ScInv, HealthCheckDispatches PROVE ScInv'
<1>1. PICK c \in ScCheckers :
        /\ scChecker[c].pc = "answered" /\ scChecker' = [scChecker EXCEPT ![c].pc = "asleep"]
        /\ Dispatch(scChecker[c].answer)
  BY DEF HealthCheckDispatches
<1>2. UNCHANGED <<scOs, scMode, scCore, scInstance, scKill, scRunning, scCmd, scRun, scWindow, scWanted>>
  BY DEF HealthCheckDispatches
<1> DEFINE a == scChecker[c].answer
           r == [scChecker[c] EXCEPT !.pc = "asleep"]
<1>3. a \in BOOLEAN /\ r \in ScThreads /\ r.pc = "asleep" /\ r.answer = a /\ scChecker' = [scChecker EXCEPT ![c] = r]
  BY <1>1 DEF ScInv, ScShape, ScThreads
<1>4. scIpc' = a /\ (OnIpcStateChanged(a) \/ (a = scIpc /\ scWatch' = scWatch))
  BY <1>1 DEF Dispatch
<1> HIDE DEF a, r
<1>5. /\ scChecker' \in [ScCheckers -> ScThreads] /\ scChecker'[c] = r
      /\ \A o \in ScCheckers \ {c} : scChecker'[o] = scChecker[o]
  BY <1>3, ScCheckerMoves DEF ScInv
<1>6. scWatch' \in Seq(ScNotices)
  <2> DEFINE n == [connected |-> a, pc |-> "ask"]
  <2>1. n \in ScNotices /\ (scWatch' = Append(scWatch, n) \/ scWatch' = scWatch)
    BY <1>3, <1>4 DEF OnIpcStateChanged, ScNotices
  <2> HIDE DEF n
  <2>2. scWatch \in Seq(ScNotices)
    BY DEF ScInv, ScShape
  <2> QED
    BY <2>1, <2>2
<1>7. ScShape'
  BY <1>2, <1>3, <1>4, <1>5, <1>6 DEF ScInv, ScShape, ScAsked
<1>8. ASSUME ScSound PROVE ScSound'
  <2>1. ScTypeFits' /\ ScServiceHeld' /\ ScOneCore'
    BY <1>2, <1>3, <1>4, <1>8, ScTold DEF ScInv
  <2>2. ScSees(c, scIpc)'
    BY <1>3, <1>4, <1>5 DEF ScSees
  <2>3. scIpc' => ScSees(c, TRUE)'
    BY <1>3, <1>4, <1>5 DEF ScSees
  <2>4. \A o \in ScCheckers : scChecker[o].pc = "spawned" => scChecker'[o].pc = "spawned"
    BY <1>1, <1>5
  <2>5. ScChecked'
    BY <1>2, <1>8, <2>2, <2>3, <2>4 DEF ScSound, ScChecked
  <2> QED
    BY <2>1, <2>5 DEF ScSound
<1> QED
  BY <1>2, <1>7, <1>8 DEF ScInv

\* The next check of a thread that lives.
LEMMA ScWakesKeeps == ASSUME ScInv, HealthCheckWakes PROVE ScInv'
<1>1. PICK c \in ScCheckers : scChecker[c].pc = "asleep" /\ scChecker' = [scChecker EXCEPT ![c].pc = "loop"]
  BY DEF HealthCheckWakes
<1> DEFINE r == [scChecker[c] EXCEPT !.pc = "loop"]
<1>2. UNCHANGED <<scOs, scMode, scCore, scInstance, scIpc, scKill, scRunning, scCmd, scWatch, scRun, scWindow, scWanted>>
  BY DEF HealthCheckWakes
<1>3. r \in ScThreads /\ r.pc = "loop" /\ scChecker' = [scChecker EXCEPT ![c] = r]
  BY <1>1 DEF ScInv, ScShape, ScThreads
<1> HIDE DEF r
<1>4. /\ scChecker' \in [ScCheckers -> ScThreads] /\ scChecker'[c] = r
      /\ \A o \in ScCheckers \ {c} : scChecker'[o] = scChecker[o]
  BY <1>3, ScCheckerMoves DEF ScInv
<1>5. ScShape'
  BY <1>2, <1>4 DEF ScInv, ScShape, ScAsked
<1>6. ASSUME ScSound PROVE ScSound'
  <2>1. ScTypeFits' /\ (ScRerun => ScRerun') /\ \A o : ScNoticed(o) => ScNoticed(o)'
    BY <1>2, <1>5, <1>6, ScCommandSteps DEF ScInv
  <2>2. ScServiceHeld' /\ ScOneCore'
    BY <1>2, <1>6, <2>1 DEF ScSound, ScServiceHeld, ScOneCore
  <2>3. \A o \in ScCheckers : \A a : ScSees(o, a) => ScSees(o, a)'
    BY <1>3, <1>4 DEF ScSees
  <2>4. \A o \in ScCheckers : scChecker[o].pc = "spawned" => scChecker'[o].pc = "spawned"
    BY <1>1, <1>4
  <2>5. ScChecked'
    BY <1>2, <1>6, <2>3, <2>4 DEF ScSound, ScChecked
  <2> QED
    BY <2>1, <2>2, <2>5 DEF ScSound
<1> QED
  BY <1>2, <1>5, <1>6 DEF ScInv

\* A thread that finds the core as it should be drops out; one that does not will run it.
LEMMA ScWatchKeeps == ASSUME ScInv, WatchAsks PROVE ScInv'
<1>1. PICK i \in DOMAIN scWatch :
        /\ scWatch[i].pc = "ask"
        /\ scWatch' = IF \/ scWatch[i].connected /\ ScRunTypeNow = "Normal"
                         \/ ~scWatch[i].connected /\ ScRunTypeNow = "Service"
                      THEN [scWatch EXCEPT ![i].pc = "core"]
                      ELSE [j \in 1..(Len(scWatch) - 1) |-> IF j < i THEN scWatch[j] ELSE scWatch[j + 1]]
  BY DEF WatchAsks
<1>2. /\ UNCHANGED <<scOs, scMode, scCore, scInstance, scIpc, scKill, scRunning, scChecker, scCmd, scRun, scWanted>>
      /\ scWindow' = (scWindow \/ scRun.pc \in {"chosen", "start"})
  BY DEF WatchAsks
<1>3. scWatch \in Seq(ScNotices) /\ scWatch[i] \in ScNotices /\ ScShape /\ scWindow \in BOOLEAN
  BY DEF ScInv, ScShape
<1> DEFINE w == scWatch[i]
           turns == (w.connected /\ ScRunTypeNow = "Normal") \/ (~w.connected /\ ScRunTypeNow = "Service")
<1>4. CASE turns
  <2> DEFINE n == [scWatch[i] EXCEPT !.pc = "core"]
  <2>1. n \in ScNotices /\ n.pc = "core" /\ scWatch' = [scWatch EXCEPT ![i] = n]
    BY <1>1, <1>3, <1>4 DEF ScNotices
  <2> HIDE DEF n
  <2>2. scWatch' \in Seq(ScNotices) /\ \A o : ScNoticed(o)'
    BY <1>3, <2>1 DEF ScNoticed
  <2>3. ScShape'
    BY <1>2, <1>3, <2>2 DEF ScShape, ScAsked
  <2>4. ASSUME ScSound PROVE ScSound'
    <3>1. ScTypeFits' /\ ScServiceHeld'
      BY <2>2 DEF ScTypeFits, ScServiceHeld
    <3>2. ScRerun' = ScRerun
      BY <1>2 DEF ScRerun, ScBound
    <3>3. ScOneCore' /\ ScChecked'
      BY <1>2, <2>4, <3>2 DEF ScSound, ScOneCore, ScChecked, ScSees
    <3> QED
      BY <3>1, <3>3 DEF ScSound
  <2> QED
    BY <1>2, <1>3, <2>3, <2>4 DEF ScInv
<1>5. CASE ~turns
  <2>1. scWatch' = [j \in 1..(Len(scWatch) - 1) |-> IF j < i THEN scWatch[j] ELSE scWatch[j + 1]]
    BY <1>1, <1>5
  <2>2. scWatch' \in Seq(ScNotices) /\ \A j \in DOMAIN scWatch \ {i} : \E k \in DOMAIN scWatch' : scWatch'[k] = scWatch[j]
    BY <1>3, <2>1, ScWithout
  <2>3. ScShape'
    BY <1>2, <1>3, <2>2 DEF ScShape, ScAsked
  <2>4. ASSUME ~scWindow' PROVE ScSound'
    <3>1. ScSound /\ scRun.pc \notin {"chosen", "start"}
      BY <1>2, <1>3, <2>4 DEF ScInv
    <3>2. ScRerun' = ScRerun
      BY <1>2 DEF ScRerun, ScBound
    <3>3. ASSUME NEW o, ScNoticed(o) PROVE ScNoticed(o)' \/ o = w.connected
      BY <1>1, <2>2, <3>3 DEF ScNoticed
    <3>4. scRun.pc \in {"free", "stop", "choose"} /\ scInstance \in {"none", "Normal", "Service"}
      BY <1>3, <3>1 DEF ScShape
    <3>5. ScRerun \/ (scRun.pc = "free" /\ scInstance \in {"Normal", "Service"} /\ ScRunTypeNow = scInstance)
      BY <3>1, <3>4 DEF ScSound, ScOneCore, ScRerun, ScRunTypeNow
    <3>6. ScTypeFits'
      <4>1. ScType' = ScType /\ RunType' = RunType
        BY <1>2 DEF ScType, RunType
      <4>2. CASE ScRerun
        BY <3>2, <4>2 DEF ScTypeFits
      <4>3. CASE ~ScRerun /\ scIpc = w.connected
        <5>1. scInstance = IF w.connected THEN "Service" ELSE "Normal"
          BY <1>3, <1>5, <3>5, <4>3 DEF ScNotices
        <5>2. scMode \/ ~w.connected
          BY <3>1, <5>1 DEF ScSound, ScOneCore
        <5>3. ScType = RunType
          BY <3>5, <4>3, <5>1, <5>2 DEF ScType, RunType
        <5> QED
          BY <4>1, <5>3 DEF ScTypeFits
      <4>4. CASE ~ScRerun /\ scIpc # w.connected
        <5>1. ScType = RunType \/ ScNoticed(scIpc)
          BY <3>1, <4>4 DEF ScSound, ScTypeFits
        <5>2. ScType = RunType \/ ScNoticed(scIpc)'
          BY <1>2, <3>3, <4>4, <5>1
        <5> QED
          BY <4>1, <5>2 DEF ScTypeFits
      <4> QED
        BY <4>2, <4>3, <4>4
    <3>7. ScServiceHeld'
      <4> SUFFICES ASSUME scInstance = "Service", scRun.pc = "free", ~scCore.service, scOs = "running", ~ScRerun
                   PROVE  ScNoticed(FALSE)'
        BY <1>2, <3>2 DEF ScServiceHeld
      <4>1. ScNoticed(FALSE)
        BY <3>1 DEF ScSound, ScServiceHeld
      <4>2. w.connected # FALSE
        BY <1>5, <3>5
      <4> QED
        BY <3>3, <4>1, <4>2
    <3>8. ScOneCore' /\ ScChecked'
      BY <1>2, <3>1, <3>2 DEF ScSound, ScOneCore, ScChecked, ScSees
    <3> QED
      BY <3>6, <3>7, <3>8 DEF ScSound
  <2> QED
    BY <1>2, <1>3, <2>3, <2>4 DEF ScInv
<1> QED
  BY <1>4, <1>5

\* A run of the core is taken up: its command or thread is done with.
LEMMA ScBeginsKeeps == ASSUME ScInv, RunCoreBegins PROVE ScInv'
<1>1. /\ scRun.pc = "free" /\ scRun' = [by |-> "caller", pc |-> "stop", type |-> "none"]
      /\ UNCHANGED <<scOs, scMode, scCore, scInstance, scIpc, scKill, scRunning, scChecker, scWindow, scWanted>>
  BY DEF RunCoreBegins
<1>2. scCmd' \in [ScSlotsAll -> ScCmds] /\ ScAsked' /\ scWatch' \in Seq(ScNotices)
  <2>1. CASE \E s \in DOMAIN scCmd : scCmd' = [scCmd EXCEPT ![s] = ScIdle] /\ scWatch' = scWatch
    <3>1. PICK s \in DOMAIN scCmd : scCmd' = [scCmd EXCEPT ![s] = ScIdle] /\ scWatch' = scWatch
      BY <2>1
    <3>2. s \in ScSlotsAll /\ scWatch' \in Seq(ScNotices)
      BY <3>1 DEF ScInv, ScShape
    <3>3. ScIdle \in ScCmds /\ ScIdle.pc # "run"
      BY DEF ScIdle, ScCmds
    <3> QED
      BY <3>1, <3>2, <3>3, ScCmdMoves DEF ScInv
  <2>2. CASE /\ scCmd' = scCmd
             /\ \E i \in DOMAIN scWatch : scWatch' = [j \in 1..(Len(scWatch) - 1) |-> IF j < i THEN scWatch[j] ELSE scWatch[j + 1]]
    <3>1. scWatch \in Seq(ScNotices)
      BY DEF ScInv, ScShape
    <3>2. scWatch' \in Seq(ScNotices)
      BY <2>2, <3>1, ScWithout
    <3> QED
      BY <2>2, <3>2 DEF ScInv, ScShape, ScAsked
  <2> QED
    BY <2>1, <2>2 DEF RunCoreBegins
<1>3. ScShape'
  BY <1>1, <1>2 DEF ScInv, ScShape
<1>4. ASSUME ScSound PROVE ScSound'
  <2>1. ScRerun'
    BY <1>1 DEF ScRerun
  <2>2. ScTypeFits' /\ ScServiceHeld'
    BY <2>1 DEF ScTypeFits, ScServiceHeld
  <2>3. ScOneCore' /\ ScChecked'
    BY <1>1, <1>4 DEF ScSound, ScOneCore, ScChecked, ScSees
  <2> QED
    BY <2>2, <2>3 DEF ScSound
<1> QED
  BY <1>1, <1>3, <1>4 DEF ScInv

\* The old core is down before the type is chosen, or the run fails.
LEMMA ScStopsKeeps == ASSUME ScInv, RunCoreStops PROVE ScInv'
<1>1. /\ scRun.pc = "stop"
      /\ UNCHANGED <<scOs, scMode, scInstance, scIpc, scKill, scRunning, scChecker, scCmd, scWatch, scWanted>>
  BY DEF RunCoreStops
<1>2. CASE scWindow' = TRUE /\ scRun' = ScNobody /\ scCore' = scCore
  BY <1>1, <1>2 DEF ScInv, ScShape, ScAsked, ScNobody
<1>3. CASE /\ scRun' = [scRun EXCEPT !.pc = "choose"] /\ scWindow' = scWindow
           /\ scCore' = IF ~CoreRuns THEN scCore
                        ELSE IF scInstance = "Normal" THEN [scCore EXCEPT !.child = FALSE]
                        ELSE [scCore EXCEPT !.service = FALSE]
  <2>1. scRun' \in [by : {"none", "caller"}, pc : {"free", "stop", "choose", "chosen", "start"}, type : {"none", "Normal", "Service"}]
        /\ scRun'.pc = "choose" /\ scRun'.type = scRun.type
    BY <1>3 DEF ScInv, ScShape
  <2>2. scCore \in [child : BOOLEAN, service : BOOLEAN] /\ scInstance \in {"none", "Normal", "Service"}
    BY DEF ScInv, ScShape
  <2>3. scCore' \in [child : BOOLEAN, service : BOOLEAN]
    BY <1>3, <2>2
  <2>4. ScShape'
    BY <1>1, <2>1, <2>3 DEF ScInv, ScShape, ScAsked
  <2>5. ASSUME ScSound PROVE ScSound'
    <3>1. ScRerun'
      BY <2>1 DEF ScRerun
    <3>2. ScTypeFits' /\ ScServiceHeld'
      BY <3>1 DEF ScTypeFits, ScServiceHeld
    <3>3. ~scCore'.child /\ ~scCore'.service
      BY <1>1, <1>3, <2>2, <2>5 DEF ScSound, ScOneCore, CoreRuns
    <3>4. ScOneCore' /\ ScChecked'
      BY <1>1, <2>1, <2>5, <3>3 DEF ScSound, ScOneCore, ScChecked, ScSees
    <3> QED
      BY <3>2, <3>4 DEF ScSound
  <2> QED
    BY <1>3, <2>4, <2>5 DEF ScInv
<1> QED
  BY <1>2, <1>3 DEF RunCoreStops

\* The type is the run type of this moment, and is stored before the core is started.
LEMMA ScChoosesKeep == ASSUME ScInv, RunCoreChooses \/ RunCoreStores PROVE ScInv'
<1>1. UNCHANGED <<scOs, scMode, scCore, scIpc, scKill, scRunning, scChecker, scCmd, scWatch, scWindow, scWanted>>
  BY DEF RunCoreChooses, RunCoreStores
<1>2. /\ scRun \in [by : {"none", "caller"}, pc : {"free", "stop", "choose", "chosen", "start"}, type : {"none", "Normal", "Service"}]
      /\ scInstance \in {"none", "Normal", "Service"}
  BY DEF ScInv, ScShape
<1>3. RunType \in {"Normal", "Service"} /\ (RunType = "Service" => scMode)
  BY DEF RunType
<1>4. CASE RunCoreChooses
  <2>1. /\ scRun.pc = "choose" /\ scInstance' = scInstance /\ scRun'.pc = "chosen" /\ scRun'.type = RunType
        /\ scRun' \in [by : {"none", "caller"}, pc : {"free", "stop", "choose", "chosen", "start"}, type : {"none", "Normal", "Service"}]
    BY <1>2, <1>3, <1>4 DEF RunCoreChooses
  <2>2. ScShape'
    BY <1>1, <2>1 DEF ScInv, ScShape, ScAsked
  <2>3. ASSUME ScSound PROVE ScSound'
    <3>1. ScType' = RunType /\ RunType' = RunType
      BY <1>1, <2>1 DEF ScType, RunType
    <3>2. ScTypeFits' /\ ScServiceHeld'
      BY <2>1, <3>1 DEF ScTypeFits, ScServiceHeld
    <3>3. ScOneCore' /\ ScChecked'
      BY <1>1, <1>3, <2>1, <2>3 DEF ScSound, ScOneCore, ScChecked, ScSees
    <3> QED
      BY <3>2, <3>3 DEF ScSound
  <2> QED
    BY <1>1, <2>2, <2>3 DEF ScInv
<1>5. CASE RunCoreStores
  <2>1. /\ scRun.pc = "chosen" /\ scInstance' = scRun.type /\ scRun'.pc = "start" /\ scRun'.type = scRun.type
        /\ scRun' \in [by : {"none", "caller"}, pc : {"free", "stop", "choose", "chosen", "start"}, type : {"none", "Normal", "Service"}]
    BY <1>2, <1>5 DEF RunCoreStores
  <2>2. ScShape'
    BY <1>1, <1>2, <2>1 DEF ScInv, ScShape, ScAsked
  <2>3. ASSUME ScSound PROVE ScSound'
    <3>1. ScType' = ScType /\ RunType' = RunType /\ ScRerun' = ScRerun /\ ScNoticed(scIpc)' = ScNoticed(scIpc)
      BY <1>1, <2>1 DEF ScType, RunType, ScRerun, ScBound, ScNoticed
    <3>2. ScTypeFits' /\ ScServiceHeld'
      BY <2>1, <2>3, <3>1 DEF ScSound, ScTypeFits, ScServiceHeld
    <3>3. ScOneCore' /\ ScChecked'
      BY <1>1, <2>1, <2>3 DEF ScSound, ScOneCore, ScChecked, ScSees
    <3> QED
      BY <3>2, <3>3 DEF ScSound
  <2> QED
    BY <1>1, <2>2, <2>3 DEF ScInv
<1> QED
  BY <1>4, <1>5

\* The core starts, cannot because the service is down, or fails.
LEMMA ScRunStartsKeeps == ASSUME ScInv, RunCoreStarts PROVE ScInv'
<1>1. /\ scRun.pc = "start" /\ scRun' = ScNobody
      /\ UNCHANGED <<scOs, scMode, scInstance, scIpc, scKill, scRunning, scChecker, scCmd, scWatch, scWanted>>
  BY DEF RunCoreStarts
<1>2. ScShape /\ scCore \in [child : BOOLEAN, service : BOOLEAN] /\ scInstance \in {"none", "Normal", "Service"} /\ scWindow \in BOOLEAN
  BY DEF ScInv, ScShape
<1>3. scCore' \in [child : BOOLEAN, service : BOOLEAN] /\ scWindow' \in BOOLEAN
  BY <1>2 DEF RunCoreStarts
<1>4. ScShape'
  BY <1>1, <1>2, <1>3 DEF ScShape, ScAsked, ScNobody
<1>5. ASSUME ~scWindow' PROVE ScSound'
  <2>1. /\ scWindow' = scWindow
        /\ \/ /\ scInstance = "Normal" \/ scOs = "running"
              /\ scCore' = IF scInstance = "Normal" THEN [scCore EXCEPT !.child = TRUE] ELSE [scCore EXCEPT !.service = TRUE]
           \/ scInstance = "Service" /\ scOs # "running" /\ scCore' = scCore
    BY <1>5 DEF RunCoreStarts
  <2>2. ScSound
    BY <1>5, <2>1 DEF ScInv
  <2>3. ~scCore.child /\ ~scCore.service /\ scInstance = scRun.type /\ scInstance \in {"Normal", "Service"}
    BY <1>1, <1>2, <2>2 DEF ScSound, ScOneCore
  <2>4. /\ scCore'.child = (scInstance = "Normal")
        /\ scCore'.service = (scInstance = "Service" /\ scOs = "running")
    BY <1>2, <2>1, <2>3
  <2>5. scRun'.pc = "free" /\ scRun'.type = "none"
    BY <1>1 DEF ScNobody
  <2>6. ScServiceHeld'
    BY <1>1, <2>4 DEF ScServiceHeld
  <2>7. ScOneCore'
    BY <1>1, <2>2, <2>3, <2>4, <2>5 DEF ScSound, ScOneCore
  <2>8. ScTypeFits'
    <3>1. ScType' = ScType /\ RunType' = RunType /\ ScNoticed(scIpc)' = ScNoticed(scIpc)
      BY <1>1, <2>3, <2>5 DEF ScType, RunType, ScNoticed
    <3>2. ScRerun => ScRerun'
      BY <1>1 DEF ScRerun, ScBound
    <3> QED
      BY <2>2, <3>1, <3>2 DEF ScSound, ScTypeFits
  <2>9. ScChecked'
    BY <1>1, <2>2 DEF ScSound, ScChecked, ScSees
  <2> QED
    BY <2>6, <2>7, <2>8, <2>9 DEF ScSound
<1> QED
  BY <1>3, <1>4, <1>5 DEF ScInv

\* Every step keeps the core with the service, or falls under what the property excepts.
LEMMA ScKeeps == ScInv /\ [ScNext]_scVars => ScInv'
<1>1. ASSUME ScInv, ScNext PROVE ScInv'
  BY <1>1, ScCommandsKeep, ScElevatedKeeps, ScFlagsKeep, ScDiesKeeps, ScCheckStartsKeeps, ScLoopsKeep, ScDispatchKeeps,
     ScWakesKeeps, ScWatchKeeps, ScBeginsKeeps, ScStopsKeeps, ScChoosesKeep, ScRunStartsKeeps DEF ScNext
<1>2. ASSUME ScInv, UNCHANGED scVars PROVE ScInv'
  BY <1>2 DEF scVars, ScInv, ScShape, ScAsked, ScSound, ScTypeFits, ScServiceHeld, ScOneCore, ScChecked, ScSees,
              ScType, RunType, ScRerun, ScBound, ScNoticed
<1> QED
  BY <1>1, <1>2

\* At rest nobody is left to act on the run type, so it fits, and the checks have seen
\* the service as it is.
LEMMA ScRests == ASSUME ScInv PROVE ScCoreFollowsService
<1> SUFFICES ASSUME ScAtRest, ~scWindow
             PROVE  /\ scInstance = RunType /\ CoreRuns /\ scCore.child # scCore.service
                    /\ scWanted => scRunning /\ scIpc = (scOs = "running")
  BY DEF ScCoreFollowsService
<1>1. ScSound /\ ScShape /\ scCore \in [child : BOOLEAN, service : BOOLEAN] /\ scIpc \in BOOLEAN
  BY DEF ScInv, ScShape
<1>2. ~ScRerun /\ \A o : ~ScNoticed(o)
  BY DEF ScAtRest, ScRerun, ScBound, ScNoticed
<1>3. scInstance = RunType /\ scRun.pc = "free"
  BY <1>1, <1>2 DEF ScSound, ScTypeFits, ScType, ScAtRest
<1>4. \A c \in ScCheckers : \A a : ScSees(c, a) => a = (scOs = "running")
  BY DEF ScAtRest, ScSees
<1>5. scIpc => scOs = "running"
  BY <1>1, <1>4 DEF ScSound, ScChecked
<1>6. CoreRuns /\ scCore.child # scCore.service
  <2>1. CASE scInstance = "Normal"
    BY <1>1, <1>3, <2>1 DEF ScSound, ScOneCore, CoreRuns
  <2>2. CASE scInstance = "Service"
    <3>1. scIpc /\ scOs = "running"
      BY <1>3, <1>5, <2>2 DEF RunType
    <3>2. scCore.service
      BY <1>1, <1>2, <1>3, <2>2, <3>1 DEF ScSound, ScServiceHeld
    <3> QED
      BY <1>1, <2>2, <3>1, <3>2 DEF ScSound, ScOneCore, CoreRuns
  <2> QED
    BY <1>3, <2>1, <2>2 DEF RunType
<1>7. scWanted => scRunning
  BY <1>1 DEF ScSound, ScChecked, ScAtRest
<1>8. scWanted => scIpc = (scOs = "running")
  BY <1>1, <1>4, <1>7 DEF ScSound, ScChecked
<1> QED
  BY <1>3, <1>6, <1>7, <1>8

\* At rest one core runs, in the service exactly when it is enabled and connected: in
\* whatever order commands, health checks, the threads they spawn and runs of the core
\* take their steps, and however often the service goes down meanwhile.
THEOREM CoreFollowsService == ScSpec => []ScCoreFollowsService
<1> QED
  BY ScStartsWell, ScKeeps, ScRests, PTL DEF ScSpec

-------------------------------------------------------------------------------
(* Windows of the application (window.rs, utils/resolve.rs).                    *)

AwPcs == {"idle", "clean", "generate", "build", "register", "failed", "destroy"}
AwGeometries == [size : {"none", "ok", "zero", "min"}, mode : {"normal", "maximized", "fullscreen"},
                 pos : {"near", "far"}, minimized : BOOLEAN]
AwRoles == [pc : AwPcs, base : AwBases \cup {"main"}, label : AwLabels \cup {NoLabel}]
AwWindows == [visible : BOOLEAN, handler : BOOLEAN, opened : AwGeometries, now : AwGeometries]

\* The types the steps need.
AwShape ==
  /\ awThread \in [AwThreads -> AwRoles] /\ awWins \in [DOMAIN awWins -> AwWindows]
  /\ awRecords \subseteq AwLabels /\ DOMAIN awWins \subseteq AwLabels /\ awWanted \subseteq AwBases
  /\ awSaved \in AwGeometries /\ awFar \in BOOLEAN /\ awAsks \in 0..AwMaxAsks /\ awCrossed \in BOOLEAN

\* A creation under way that has no label yet.
AwAhead(t) == IF awThread[t].pc \in {"clean", "generate"} THEN 1 ELSE 0

\* Labels are numbered no higher than there were requests that got one.
AwNumbered ==
  /\ AwAhead("main") + AwAhead("link") <= awAsks
  /\ \A l \in awRecords : l[2] < awAsks - AwAhead("main") - AwAhead("link")

\* The label of a creation is of its kind, the only one of a singleton.
AwNamed ==
  \A t \in AwThreads :
    /\ awThread[t].pc # "idle" => awThread[t].base \in AwBases /\ (t = "link" => awThread[t].base = "main")
    /\ awThread[t].pc \in {"build", "register", "failed", "destroy"} =>
         /\ awThread[t].label \in AwLabels /\ awThread[t].label[1] = awThread[t].base
         /\ AwConfig[awThread[t].base].singleton => awThread[t].label[2] = 0

\* Every window opened no smaller than its minimum and on a monitor that exists.
AwFits ==
  \A l \in DOMAIN awWins :
    /\ AwConfig[l[1]].singleton => l[2] = 0
    /\ awWins[l].opened.size # "zero" /\ (awWins[l].opened.pos = "far" => awFar)

\* A creation that holds the label l.
AwHolds(t, pcs, l) == awThread[t].pc \in pcs /\ awThread[t].label = l

\* Windows are recorded, except one that is being cleared away.
AwRecorded == \A l \in DOMAIN awWins : l \in awRecords \/ \E t \in AwThreads : AwHolds(t, {"destroy"}, l)

\* A window without a handler belongs to a creation that is not over.
AwHandled ==
  \A l \in DOMAIN awWins : awWins[l].handler \/ \E t \in AwThreads : AwHolds(t, {"register", "failed", "destroy"}, l)

\* What a creation has of its label: the record until it gave it up, no window before it
\* built one, and what it failed with has no handler that would take the record along.
AwOwns ==
  /\ \A t \in AwThreads : LET l == awThread[t].label
                          IN  /\ awThread[t].pc \in {"build", "failed"} => l \in awRecords
                              /\ awThread[t].pc = "build" => l \notin DOMAIN awWins
                              /\ awThread[t].pc = "destroy" => l \notin awRecords
  /\ awThread["main"].pc = "register" => awThread["main"].label \in DOMAIN awWins \cap awRecords
  /\ awThread["link"].pc = "failed" /\ awThread["link"].label \in DOMAIN awWins => ~awWins[awThread["link"].label].handler

\* Two creations have two labels. (A deep link's may be over but for its handler.)
AwApart ==
  awThread["main"].pc \in {"build", "failed", "destroy", "register"} /\ awThread["link"].pc \in {"build", "failed", "destroy"}
    => awThread["main"].label # awThread["link"].label

\* What a creation that is about to take a label finds recorded of its kind has a window,
\* or another creation is at it.
AwFound ==
  \A t \in AwThreads : awThread[t].pc = "generate" =>
    \A l \in awRecords : l[1] = awThread[t].base =>
      l \in DOMAIN awWins \/ \E o \in AwThreads : AwHolds(o, {"build", "failed"}, l)

\* A kind that is wanted has a window, or a creation is at it.
AwServed ==
  \A b \in awWanted : \/ \E l \in DOMAIN awWins : l[1] = b
                      \/ \E t \in AwThreads : awThread[t].pc \in {"build", "failed", "destroy"} /\ awThread[t].base = b

\* What every step keeps; the second part unless two creations crossed.
AwTidy == AwRecorded /\ AwHandled /\ AwOwns /\ AwApart /\ AwFound /\ AwServed
AwInv == AwShape /\ AwNumbered /\ AwNamed /\ AwFits /\ (~awCrossed => AwTidy)

\* The kinds have their configuration; the threads are two.
LEMMA AwKinds ==
  /\ \A b \in AwBases : AwConfig[b].visible \in BOOLEAN
  /\ AwThreads = {"main", "link"}
<1>1. ASSUME NEW b \in AwBases PROVE AwConfig[b].visible \in BOOLEAN
  <2>1. b \in {"main", "tray", "css", "profile"}
    BY AwBasesAssumption DEF AwConfig
  <2>2. \A s, v, r : WindowConfig(s, v, r).visible = v
    BY DEF WindowConfig
  <2>3. AwConfig["main"].visible = FALSE /\ AwConfig["tray"].visible = FALSE
    BY <2>2 DEF AwConfig, MainWindow, TrayMenuWindow
  <2>4. AwConfig["css"].visible = TRUE /\ AwConfig["profile"].visible = TRUE
    BY <2>2 DEF AwConfig, EditorWindow
  <2> QED
    BY <2>1, <2>3, <2>4
<1> QED
  BY <1>1 DEF AwThreads

\* One creation moves.
LEMMA AwRoleMoves ==
  ASSUME AwShape, NEW t \in AwThreads, NEW r \in AwRoles, awThread' = [awThread EXCEPT ![t] = r]
  PROVE  /\ awThread' \in [AwThreads -> AwRoles] /\ awThread'[t] = r
         /\ \A o \in AwThreads \ {t} : awThread'[o] = awThread[o]
  BY DEF AwShape

\* At the start there is no window and no request.
LEMMA AwStartsWell == AwInit => AwInv
<1> SUFFICES ASSUME AwInit PROVE AwInv
  OBVIOUS
<1>1. AwIdle \in AwRoles /\ AwIdle.pc = "idle"
  BY DEF AwIdle, AwRoles, AwPcs
<1> HIDE DEF AwIdle
<1>2. awThread \in [AwThreads -> AwRoles] /\ \A t \in AwThreads : awThread[t].pc = "idle"
  BY <1>1 DEF AwInit
<1>3. DOMAIN awWins = {} /\ awWins \in [DOMAIN awWins -> AwWindows] /\ awRecords = {} /\ awWanted = {}
  BY DEF AwInit
<1>4. awSaved \in AwGeometries /\ awFar \in BOOLEAN /\ awAsks = 0 /\ awCrossed \in BOOLEAN
  BY DEF AwInit, NoGeometry, AwGeometries
<1>5. AwShape
  BY <1>2, <1>3, <1>4, AwMaxAsksAssumption DEF AwShape
<1>6. AwNumbered /\ AwNamed /\ AwFits
  BY <1>2, <1>3, <1>4, AwKinds DEF AwNumbered, AwNamed, AwFits, AwAhead
<1>7. AwTidy
  BY <1>2, <1>3, AwKinds DEF AwTidy, AwRecorded, AwHandled, AwOwns, AwApart, AwFound, AwServed
<1> QED
  BY <1>5, <1>6, <1>7 DEF AwInv

\* A request: one more creation, that has no label yet.
LEMMA AwAskKeeps ==
  ASSUME AwInv, NEW t \in AwThreads, NEW b \in AwBases, awThread[t].pc = "idle", t = "link" => b = "main",
         awThread' = [awThread EXCEPT ![t] = [pc |-> "clean", base |-> b, label |-> NoLabel]],
         awAsks < AwMaxAsks, awAsks' = awAsks + 1,
         UNCHANGED <<awRecords, awWins, awSaved, awFar, awWanted, awCrossed>>
  PROVE  AwInv'
<1> DEFINE r == [pc |-> "clean", base |-> b, label |-> NoLabel]
<1>1. r \in AwRoles /\ r.pc = "clean" /\ r.base = b /\ awThread' = [awThread EXCEPT ![t] = r]
  BY DEF AwRoles, AwPcs
<1> HIDE DEF r
<1>2. /\ awThread' \in [AwThreads -> AwRoles] /\ awThread'[t] = r
      /\ \A o \in AwThreads \ {t} : awThread'[o] = awThread[o]
  BY <1>1, AwRoleMoves DEF AwInv
<1>3. AwShape'
  BY <1>2, AwMaxAsksAssumption DEF AwInv, AwShape
<1>4. AwNumbered'
  <2>1. AwAhead(t)' = AwAhead(t) + 1 /\ AwAhead(t) = 0
    BY <1>1, <1>2 DEF AwAhead
  <2>2. \A o \in AwThreads \ {t} : AwAhead(o)' = AwAhead(o)
    BY <1>2 DEF AwAhead
  <2>3. \A o \in AwThreads : AwAhead(o) \in 0..1
    BY DEF AwAhead
  <2>4. awAsks \in Nat /\ \A l \in awRecords : l[2] \in Nat
    BY AwMaxAsksAssumption DEF AwInv, AwShape, AwLabels, AwNumbers
  <2>5. /\ "main" \in AwThreads /\ "link" \in AwThreads /\ t \in {"main", "link"}
        /\ awAsks' - AwAhead("main")' - AwAhead("link")' = awAsks - AwAhead("main") - AwAhead("link")
    BY <2>1, <2>2, <2>3, <2>4, AwKinds
  <2>6. AwAhead("main")' + AwAhead("link")' <= awAsks'
    BY <2>1, <2>2, <2>3, <2>4, <2>5, AwKinds DEF AwInv, AwNumbered
  <2> QED
    BY <2>5, <2>6 DEF AwInv, AwNumbered
<1>5. AwNamed' /\ AwFits'
  BY <1>1, <1>2 DEF AwInv, AwNamed, AwFits
<1>6. ASSUME AwTidy PROVE AwTidy'
  <2>1. \A o \in AwThreads, pcs \in SUBSET {"build", "register", "failed", "destroy"}, l \in AwLabels :
          AwHolds(o, pcs, l) <=> AwHolds(o, pcs, l)'
    BY <1>1, <1>2 DEF AwHolds
  <2>2. AwRecorded' /\ AwHandled'
    BY <1>6, <2>1 DEF AwTidy, AwRecorded, AwHandled, AwInv, AwShape
  <2>3. AwOwns' /\ AwApart'
    BY <1>1, <1>2, <1>6, AwKinds DEF AwTidy, AwOwns, AwApart
  <2>4. AwFound'
    BY <1>1, <1>2, <1>6, <2>1 DEF AwTidy, AwFound, AwInv, AwShape
  <2>5. AwServed'
    BY <1>1, <1>2, <1>6 DEF AwTidy, AwServed
  <2> QED
    BY <2>2, <2>3, <2>4, <2>5 DEF AwTidy
<1> QED
  BY <1>3, <1>4, <1>5, <1>6 DEF AwInv

\* What happens on the main thread while no creation runs there: windows change or go,
\* the records of those with a handler with them, and kinds are no longer wanted.
LEMMA AwEventKeeps ==
  ASSUME AwInv, MainFree, UNCHANGED <<awThread, awCrossed>>,
         awAsks' \in awAsks..AwMaxAsks, awSaved' \in AwGeometries, awFar' \in BOOLEAN, awWanted' \subseteq AwBases,
         DOMAIN awWins' \subseteq DOMAIN awWins, awWins' \in [DOMAIN awWins' -> AwWindows],
         \A l \in DOMAIN awWins' : /\ awWins'[l].handler = awWins[l].handler
                                   /\ awWins'[l].opened.size = awWins[l].opened.size
                                   /\ awWins'[l].opened.pos = "far" => awFar',
         awRecords' = awRecords \ {l \in DOMAIN awWins \ DOMAIN awWins' : awWins[l].handler},
         \A l \in DOMAIN awWins \ DOMAIN awWins' : l[1] \in awWanted' => \E m \in DOMAIN awWins' : m[1] = l[1],
         \A b \in awWanted' : b \in awWanted \/ \E m \in DOMAIN awWins' : m[1] = b
  PROVE  AwInv'
<1>1. awThread["main"].pc = "idle" /\ awThread' = awThread /\ awCrossed' = awCrossed
  BY DEF MainFree
<1>2. AwShape'
  BY <1>1 DEF AwInv, AwShape
<1>3. AwNumbered'
  <2>1. \A t : AwAhead(t)' = AwAhead(t) /\ AwAhead(t) \in 0..1
    BY <1>1 DEF AwAhead
  <2>2. awAsks \in Nat /\ awAsks' \in Nat /\ awAsks <= awAsks' /\ \A l \in awRecords : l[2] \in Nat
    BY AwMaxAsksAssumption DEF AwInv, AwShape, AwLabels, AwNumbers
  <2>3. \A l \in awRecords' : l \in awRecords /\ l[2] < awAsks - AwAhead("main") - AwAhead("link")
    BY DEF AwInv, AwNumbered
  <2>4. \A l \in awRecords' : l[2] < awAsks' - AwAhead("main")' - AwAhead("link")'
    BY <2>1, <2>2, <2>3
  <2>5. AwAhead("main")' + AwAhead("link")' <= awAsks'
    BY <2>1, <2>2 DEF AwInv, AwNumbered
  <2> QED
    BY <2>4, <2>5 DEF AwNumbered
<1>4. AwNamed'
  BY <1>1 DEF AwInv, AwNamed
<1>5. AwFits'
  BY <1>1 DEF AwInv, AwFits
<1>6. ASSUME AwTidy PROVE AwTidy'
  <2>1. \A t, pcs, l : AwHolds(t, pcs, l)' <=> AwHolds(t, pcs, l)
    BY <1>1 DEF AwHolds
  <2>2. AwRecorded' /\ AwHandled'
    BY <1>6, <2>1 DEF AwTidy, AwRecorded, AwHandled
  <2>3. \A t \in AwThreads : awThread[t].pc # "idle" => t = "link"
    BY <1>1, AwKinds
  \* Only a deep link is under way: what it holds has no handler.
  <2>4. AwOwns'
    <3>1. ASSUME NEW t \in AwThreads, awThread[t].pc \in {"build", "failed"} PROVE awThread[t].label \in awRecords'
      <4>1. awThread[t].label \in awRecords /\ t = "link"
        BY <1>6, <2>3, <3>1 DEF AwTidy, AwOwns
      <4>2. awThread[t].label \in DOMAIN awWins => ~awWins[awThread[t].label].handler
        BY <1>6, <3>1, <4>1 DEF AwTidy, AwOwns
      <4> QED
        BY <4>1, <4>2
    <3>2. ASSUME NEW t \in AwThreads, awThread[t].pc = "build" PROVE awThread[t].label \notin DOMAIN awWins'
      BY <1>6, <3>2 DEF AwTidy, AwOwns
    <3>3. ASSUME NEW t \in AwThreads, awThread[t].pc = "destroy" PROVE awThread[t].label \notin awRecords'
      BY <1>6, <3>3 DEF AwTidy, AwOwns
    <3>4. awThread["link"].pc = "failed" /\ awThread["link"].label \in DOMAIN awWins' => ~awWins'[awThread["link"].label].handler
      BY <1>6 DEF AwTidy, AwOwns
    <3> QED
      BY <1>1, <3>1, <3>2, <3>3, <3>4 DEF AwOwns
  <2>5. AwApart'
    BY <1>1 DEF AwApart
  <2>6. AwFound'
    <3> SUFFICES ASSUME NEW t \in AwThreads, awThread[t].pc = "generate", NEW l \in awRecords', l[1] = awThread[t].base
                 PROVE  l \in DOMAIN awWins' \/ \E o \in AwThreads : AwHolds(o, {"build", "failed"}, l)'
      BY <1>1 DEF AwFound
    <3>1. l \in DOMAIN awWins
      <4>1. l \in DOMAIN awWins \/ \E o \in AwThreads : AwHolds(o, {"build", "failed"}, l)
        BY <1>6 DEF AwTidy, AwFound
      <4> QED
        BY <2>3, <4>1 DEF AwHolds
    <3>2. awWins[l].handler
      BY <1>6, <2>3, <3>1 DEF AwTidy, AwHandled, AwHolds
    <3> QED
      BY <3>1, <3>2
  <2>7. AwServed'
    <3> SUFFICES ASSUME NEW b \in awWanted', b \in awWanted
                 PROVE  \/ \E l \in DOMAIN awWins' : l[1] = b
                        \/ \E t \in AwThreads : awThread[t].pc \in {"build", "failed", "destroy"} /\ awThread[t].base = b
      BY <1>1 DEF AwServed
    <3>1. CASE \E l \in DOMAIN awWins : l[1] = b
      BY <3>1
    <3> QED
      BY <1>6, <3>1 DEF AwTidy, AwServed
  <2> QED
    BY <2>2, <2>4, <2>5, <2>6, <2>7 DEF AwTidy
<1> QED
  BY <1>1, <1>2, <1>3, <1>4, <1>5, <1>6 DEF AwInv

\* The windows destroyed go, and nothing happens to the others.
LEMMA AwGone ==
  ASSUME AwShape, NEW labels, AwDestroyed(labels)
  PROVE  /\ DOMAIN awWins' = DOMAIN awWins \ labels /\ awWins' \in [DOMAIN awWins' -> AwWindows]
         /\ \A l \in DOMAIN awWins' : awWins'[l] = awWins[l]
         /\ awRecords' = awRecords \ {l \in DOMAIN awWins \ DOMAIN awWins' : awWins[l].handler}
<1>1. DOMAIN awWins' = DOMAIN awWins \ labels /\ \A l \in DOMAIN awWins' : awWins'[l] = awWins[l]
  BY DEF AwDestroyed
<1>2. awWins' \in [DOMAIN awWins' -> AwWindows]
  BY DEF AwDestroyed, AwShape
<1>3. awRecords' = awRecords \ {l \in DOMAIN awWins \ DOMAIN awWins' : awWins[l].handler}
  BY <1>1 DEF AwDestroyed
<1> QED
  BY <1>1, <1>2, <1>3

\* Showing a window, or moving one, changes nothing else of it.
LEMMA AwChanged ==
  ASSUME AwShape, NEW l \in DOMAIN awWins, NEW g \in AwGeometries, NEW v \in BOOLEAN,
         awWins' \in {[awWins EXCEPT ![l].visible = v], [awWins EXCEPT ![l].now = g]}
  PROVE  /\ DOMAIN awWins' = DOMAIN awWins /\ awWins' \in [DOMAIN awWins -> AwWindows]
         /\ \A m \in DOMAIN awWins : awWins'[m].handler = awWins[m].handler /\ awWins'[m].opened = awWins[m].opened
<1>1. awWins \in [DOMAIN awWins -> AwWindows] /\ awWins[l] \in AwWindows
  BY DEF AwShape
<1>2. PICK w \in AwWindows : awWins' = [awWins EXCEPT ![l] = w] /\ w.handler = awWins[l].handler /\ w.opened = awWins[l].opened
  <2>1. CASE awWins' = [awWins EXCEPT ![l].visible = v]
    <3> DEFINE w == [awWins[l] EXCEPT !.visible = v]
    <3>1. w \in AwWindows /\ w.handler = awWins[l].handler /\ w.opened = awWins[l].opened
      BY <1>1 DEF AwWindows
    <3> QED
      BY <2>1, <3>1
  <2>2. CASE awWins' = [awWins EXCEPT ![l].now = g]
    <3> DEFINE w == [awWins[l] EXCEPT !.now = g]
    <3>1. w \in AwWindows /\ w.handler = awWins[l].handler /\ w.opened = awWins[l].opened
      BY <1>1 DEF AwWindows
    <3> QED
      BY <2>2, <3>1
  <2> QED
    BY <2>1, <2>2
<1> QED
  BY <1>1, <1>2

\* An event that changes no window but in what the user sees of it, and no record.
LEMMA AwShowKeeps ==
  ASSUME AwInv, MainFree, UNCHANGED <<awThread, awCrossed, awRecords, awFar>>,
         awAsks' \in awAsks..AwMaxAsks, awSaved' \in AwGeometries, awWanted' \subseteq AwBases,
         DOMAIN awWins' = DOMAIN awWins, awWins' \in [DOMAIN awWins -> AwWindows],
         \A m \in DOMAIN awWins : awWins'[m].handler = awWins[m].handler /\ awWins'[m].opened = awWins[m].opened,
         \A b \in awWanted' : b \in awWanted \/ \E m \in DOMAIN awWins : m[1] = b
  PROVE  AwInv'
<1>1. \A l \in DOMAIN awWins' : /\ awWins'[l].handler = awWins[l].handler
                                /\ awWins'[l].opened.size = awWins[l].opened.size
                                /\ awWins'[l].opened.pos = "far" => awFar'
  BY DEF AwInv, AwFits
<1>2. awRecords' = awRecords \ {l \in DOMAIN awWins \ DOMAIN awWins' : awWins[l].handler}
  OBVIOUS
<1>3. awFar' \in BOOLEAN /\ DOMAIN awWins' \subseteq DOMAIN awWins /\ awWins' \in [DOMAIN awWins' -> AwWindows]
  BY DEF AwInv, AwShape
<1> QED
  BY <1>1, <1>2, <1>3, AwEventKeeps

\* What a window has of its geometry when it is saved is a geometry.
LEMMA AwSavedIs == ASSUME AwShape, NEW g \in AwGeometries PROVE SavedState(g) \in AwGeometries
<1>1. [size |-> "zero", mode |-> g.mode, pos |-> "near", minimized |-> FALSE] \in AwGeometries
  BY DEF AwGeometries
<1> QED
  BY <1>1 DEF SavedState, AwShape

\* Requests: a window is created, or the tray menu that exists is shown.
LEMMA AwRequests == ASSUME AwInv, CreateWindow \/ ShowTrayMenuWindow \/ CreateDebugTrayMenuWindow PROVE AwInv'
<1>1. awAsks < AwMaxAsks /\ awAsks' = awAsks + 1 /\ UNCHANGED <<awRecords, awSaved, awFar, awCrossed>>
  BY DEF CreateWindow, ShowTrayMenuWindow, CreateDebugTrayMenuWindow
<1>2. CASE CreateWindow
  <2>1. UNCHANGED <<awWins, awWanted>>
    BY <1>2 DEF CreateWindow
  <2>2. PICK t \in AwThreads, b \in AwBases \ {"tray"} :
          /\ awThread[t].pc = "idle" /\ (t = "link" => b = "main")
          /\ awThread' = [awThread EXCEPT ![t] = [pc |-> "clean", base |-> b, label |-> NoLabel]]
    BY <1>2 DEF CreateWindow
  <2> QED
    BY <1>1, <2>1, <2>2, AwAskKeeps
<1>3. ASSUME "tray" \in AwBases, MainFree, UNCHANGED <<awWins, awWanted>>,
             awThread' = [awThread EXCEPT !["main"] = [pc |-> "clean", base |-> "tray", label |-> NoLabel]]
      PROVE  AwInv'
  <2>1. awThread["main"].pc = "idle" /\ "main" \in AwThreads
    BY <1>3, AwKinds DEF MainFree
  <2> QED
    BY <1>1, <1>3, <2>1, AwAskKeeps
<1>4. ASSUME "tray" \in AwBases, MainFree, <<"tray", 0>> \in DOMAIN awWins, awWins' = AwShown(<<"tray", 0>>),
             awWanted' = awWanted \cup {"tray"}, awThread' = awThread
      PROVE  AwInv'
  <2> DEFINE l == <<"tray", 0>>
  <2>1. awWins' = [awWins EXCEPT ![l].visible = TRUE] /\ l \in DOMAIN awWins /\ l[1] = "tray"
    BY <1>4 DEF AwShown
  <2>2. AwShape /\ awSaved \in AwGeometries
    BY DEF AwInv, AwShape
  <2> HIDE DEF l
  <2>3. /\ DOMAIN awWins' = DOMAIN awWins /\ awWins' \in [DOMAIN awWins -> AwWindows]
        /\ \A m \in DOMAIN awWins : awWins'[m].handler = awWins[m].handler /\ awWins'[m].opened = awWins[m].opened
    BY <2>1, <2>2, AwChanged
  <2>4. awAsks' \in awAsks..AwMaxAsks
    BY <1>1, <2>2, AwMaxAsksAssumption DEF AwShape
  <2>5. awWanted' \subseteq AwBases /\ \A b \in awWanted' : b \in awWanted \/ \E m \in DOMAIN awWins : m[1] = b
    BY <1>4, <2>1, <2>2 DEF AwShape
  <2>6. awSaved' \in AwGeometries
    BY <1>1, <2>2
  <2> QED
    BY <1>1, <1>4, <2>3, <2>4, <2>5, <2>6, AwShowKeeps
<1>5. CASE ShowTrayMenuWindow
  BY <1>3, <1>4, <1>5 DEF ShowTrayMenuWindow
<1>6. CASE CreateDebugTrayMenuWindow
  BY <1>3, <1>6 DEF CreateDebugTrayMenuWindow
<1> QED
  BY <1>2, <1>5, <1>6

\* A window closed or destroyed goes, with its record if it has its handler, and with
\* what was wanted of its kind unless another is open.
LEMMA AwCloseKeeps ==
  ASSUME AwInv, MainFree, NEW l \in DOMAIN awWins, AwDestroyed({l}),
         awWanted' = AwStillOpen(l) \/ awWanted' = awWanted \ {l[1]},
         awSaved' \in AwGeometries, UNCHANGED <<awThread, awFar, awAsks, awCrossed>>
  PROVE  AwInv'
<1>1. /\ DOMAIN awWins' = DOMAIN awWins \ {l} /\ awWins' \in [DOMAIN awWins' -> AwWindows]
      /\ \A m \in DOMAIN awWins' : awWins'[m] = awWins[m]
      /\ awRecords' = awRecords \ {m \in DOMAIN awWins \ DOMAIN awWins' : awWins[m].handler}
  BY AwGone DEF AwInv
<1>2. \A m \in DOMAIN awWins' : /\ awWins'[m].handler = awWins[m].handler
                                /\ awWins'[m].opened.size = awWins[m].opened.size
                                /\ awWins'[m].opened.pos = "far" => awFar'
  BY <1>1 DEF AwInv, AwFits
<1>3. awWanted' \subseteq awWanted /\ (l[1] \in awWanted' => \E m \in DOMAIN awWins' : m[1] = l[1])
  BY <1>1 DEF AwStillOpen
<1>4. \A m \in DOMAIN awWins \ DOMAIN awWins' : m[1] \in awWanted' => \E k \in DOMAIN awWins' : k[1] = m[1]
  BY <1>1, <1>3
<1>5. awAsks' \in awAsks..AwMaxAsks /\ awWanted' \subseteq AwBases /\ awFar' \in BOOLEAN
  BY <1>3, AwMaxAsksAssumption DEF AwInv, AwShape
<1>6. DOMAIN awWins' \subseteq DOMAIN awWins /\ \A b \in awWanted' : b \in awWanted \/ \E m \in DOMAIN awWins' : m[1] = b
  BY <1>1, <1>3
<1> QED
  BY <1>1, <1>2, <1>4, <1>5, <1>6, AwEventKeeps

\* Events of the windows.
LEMMA AwEvents == ASSUME AwInv, AwCloses \/ AwMoves \/ AwUnplugs \/ AwReady \/ TrayMenuFocused PROVE AwInv'
<1>1. /\ MainFree /\ UNCHANGED <<awThread, awAsks, awCrossed>>
  BY DEF AwCloses, AwMoves, AwUnplugs, AwReady, TrayMenuFocused
<1>2. AwShape /\ awAsks' \in awAsks..AwMaxAsks /\ awSaved \in AwGeometries /\ awWanted \subseteq AwBases
  BY <1>1, AwMaxAsksAssumption DEF AwInv, AwShape
<1>3. CASE AwCloses
  <2>1. PICK l \in DOMAIN awWins :
          /\ AwDestroyed({l}) /\ awWanted' = AwStillOpen(l)
          /\ awSaved' = IF l = <<"main", 0>> THEN SavedState(awWins[l].now) ELSE awSaved
    BY <1>3 DEF AwCloses
  <2>2. awWins[l].now \in AwGeometries
    BY <1>2 DEF AwShape, AwWindows
  <2>3. awSaved' \in AwGeometries
    BY <1>2, <2>1, <2>2, AwSavedIs
  <2>4. awFar' = awFar
    BY <1>3 DEF AwCloses
  <2> QED
    BY <1>1, <2>1, <2>3, <2>4, AwCloseKeeps
<1>4. CASE AwMoves
  <2>1. PICK size \in {"ok", "zero"}, mode \in {"normal", "maximized", "fullscreen"},
             pos \in IF awFar THEN {"near", "far"} ELSE {"near"}, minimized \in BOOLEAN :
          LET g == [size |-> size, mode |-> mode, pos |-> pos, minimized |-> minimized]
          IN  awWins' = [awWins EXCEPT ![<<"main", 0>>].now = g] /\ awSaved' = SavedState(g)
    BY <1>4 DEF AwMoves
  <2> DEFINE g == [size |-> size, mode |-> mode, pos |-> pos, minimized |-> minimized]
             l == <<"main", 0>>
  <2>2. /\ l \in DOMAIN awWins /\ UNCHANGED <<awRecords, awFar, awWanted>>
        /\ g \in AwGeometries /\ awWins' = [awWins EXCEPT ![l].now = g] /\ awSaved' = SavedState(g)
    BY <1>4, <2>1 DEF AwMoves, AwGeometries
  <2> HIDE DEF g, l
  <2>3. /\ DOMAIN awWins' = DOMAIN awWins /\ awWins' \in [DOMAIN awWins -> AwWindows]
        /\ \A m \in DOMAIN awWins : awWins'[m].handler = awWins[m].handler /\ awWins'[m].opened = awWins[m].opened
    BY <1>2, <2>2, AwChanged
  <2>4. awSaved' \in AwGeometries /\ awWanted' \subseteq AwBases
    BY <1>2, <2>2, AwSavedIs
  <2> QED
    BY <1>1, <1>2, <2>2, <2>3, <2>4, AwShowKeeps
<1>5. CASE AwUnplugs
  <2>1. /\ awFar' = FALSE /\ UNCHANGED <<awRecords, awSaved, awWanted>>
        /\ awWins' = [l \in DOMAIN awWins |-> [awWins[l] EXCEPT !.now.pos = "near", !.opened.pos = "near"]]
    BY <1>5 DEF AwUnplugs
  <2>2. ASSUME NEW l \in DOMAIN awWins
        PROVE  /\ awWins'[l] \in AwWindows /\ awWins'[l].handler = awWins[l].handler
               /\ awWins'[l].opened.size = awWins[l].opened.size /\ awWins'[l].opened.pos = "near"
    <3> DEFINE w == awWins[l]
               n == [w.now EXCEPT !.pos = "near"]
               p == [w.opened EXCEPT !.pos = "near"]
    <3>1. w \in AwWindows /\ awWins'[l] = [w EXCEPT !.now.pos = "near", !.opened.pos = "near"]
      BY <1>2, <2>1, <2>2 DEF AwShape
    <3>2. w.now \in AwGeometries /\ w.opened \in AwGeometries
      BY <3>1 DEF AwWindows
    <3>3. n \in AwGeometries /\ p \in AwGeometries /\ p.size = w.opened.size /\ p.pos = "near"
      BY <3>2 DEF AwGeometries
    <3>4. awWins'[l] = [w EXCEPT !.now = n, !.opened = p]
      BY <3>1, <3>2 DEF AwWindows, AwGeometries
    <3> HIDE DEF w, n, p
    <3>5. awWins'[l] \in AwWindows /\ awWins'[l].handler = w.handler /\ awWins'[l].opened = p
      BY <3>1, <3>3, <3>4 DEF AwWindows
    <3> QED
      BY <3>3, <3>5 DEF w
  <2>3. DOMAIN awWins' = DOMAIN awWins /\ awWins' \in [DOMAIN awWins -> AwWindows]
    BY <2>1, <2>2
  <2>4. \A l \in DOMAIN awWins' : /\ awWins'[l].handler = awWins[l].handler
                                  /\ awWins'[l].opened.size = awWins[l].opened.size
                                  /\ awWins'[l].opened.pos = "far" => awFar'
    BY <2>2, <2>3
  <2>5. awRecords' = awRecords \ {l \in DOMAIN awWins \ DOMAIN awWins' : awWins[l].handler}
    BY <2>1, <2>3
  <2>6. awSaved' \in AwGeometries /\ awWanted' \subseteq AwBases /\ awFar' \in BOOLEAN /\ DOMAIN awWins' \subseteq DOMAIN awWins
        /\ awWins' \in [DOMAIN awWins' -> AwWindows]
    BY <1>2, <2>1, <2>3
  <2> QED
    BY <1>1, <1>2, <2>1, <2>3, <2>4, <2>5, <2>6, AwEventKeeps
\* The main window is shown, or was closed before the timeout.
<1>6. CASE AwReady
  <2>1. UNCHANGED <<awRecords, awFar, awSaved, awWanted>>
    BY <1>6 DEF AwReady
  <2>2. CASE awWins' = awWins
    BY <1>1, <1>2, <2>1, <2>2, AwShowKeeps DEF AwShape
  <2>3. CASE <<"main", 0>> \in DOMAIN awWins /\ awWins' = AwShown(<<"main", 0>>)
    <3> DEFINE l == <<"main", 0>>
    <3>1. l \in DOMAIN awWins /\ awWins' = [awWins EXCEPT ![l].visible = TRUE]
      BY <2>3 DEF AwShown
    <3> HIDE DEF l
    <3>2. /\ DOMAIN awWins' = DOMAIN awWins /\ awWins' \in [DOMAIN awWins -> AwWindows]
          /\ \A m \in DOMAIN awWins : awWins'[m].handler = awWins[m].handler /\ awWins'[m].opened = awWins[m].opened
      BY <1>2, <3>1, AwChanged
    <3> QED
      BY <1>1, <1>2, <2>1, <3>2, AwShowKeeps
  <2> QED
    BY <1>6, <2>2, <2>3 DEF AwReady
<1>7. CASE TrayMenuFocused
  <2>1. UNCHANGED <<awFar, awSaved>> /\ <<"tray", 0>> \in DOMAIN awWins
    BY <1>7 DEF TrayMenuFocused
  <2>2. CASE UNCHANGED <<awWins, awRecords, awWanted>>
    BY <1>1, <1>2, <2>1, <2>2, AwShowKeeps DEF AwShape
  <2>3. CASE awWanted' = awWanted \ {"tray"} /\ AwDestroyed({<<"tray", 0>>})
    <3> DEFINE l == <<"tray", 0>>
    <3>1. l \in DOMAIN awWins /\ AwDestroyed({l}) /\ awWanted' = awWanted \ {l[1]}
      BY <2>1, <2>3
    <3> HIDE DEF l
    <3> QED
      BY <1>1, <1>2, <2>1, <3>1, AwCloseKeeps
  <2>4. CASE awWanted' = awWanted \ {"tray"} /\ awWins' = [awWins EXCEPT ![<<"tray", 0>>].visible = FALSE] /\ awRecords' = awRecords
    <3> DEFINE l == <<"tray", 0>>
    <3>1. l \in DOMAIN awWins /\ awWins' = [awWins EXCEPT ![l].visible = FALSE]
      BY <2>1, <2>4
    <3> HIDE DEF l
    <3>2. /\ DOMAIN awWins' = DOMAIN awWins /\ awWins' \in [DOMAIN awWins -> AwWindows]
          /\ \A m \in DOMAIN awWins : awWins'[m].handler = awWins[m].handler /\ awWins'[m].opened = awWins[m].opened
      BY <1>2, <3>1, AwChanged
    <3>3. awWanted' \subseteq AwBases /\ \A b \in awWanted' : b \in awWanted
      BY <1>2, <2>4
    <3> QED
      BY <1>1, <1>2, <2>1, <2>4, <3>2, <3>3, AwShowKeeps
  <2> QED
    BY <1>7, <2>2, <2>3, <2>4 DEF TrayMenuFocused
<1> QED
  BY <1>3, <1>4, <1>5, <1>6, <1>7

\* Records without a window are dropped: of a creation under way only if the two cross.
LEMMA AwCleansKeeps == ASSUME AwInv, AwCleans PROVE AwInv'
<1>1. PICK t \in AwThreads :
        /\ awThread[t].pc = "clean" /\ awThread' = [awThread EXCEPT ![t].pc = "generate"]
        /\ awRecords' = awRecords \ StaleLabels(awThread[t].base)
        /\ awCrossed' = (awCrossed \/ AwCrosses(t, StaleLabels(awThread[t].base)))
  BY DEF AwCleans
<1>2. UNCHANGED <<awWins, awSaved, awFar, awAsks, awWanted>>
  BY DEF AwCleans
<1> DEFINE stale == StaleLabels(awThread[t].base)
           r == [awThread[t] EXCEPT !.pc = "generate"]
<1>3. /\ r \in AwRoles /\ r.pc = "generate" /\ r.base = awThread[t].base /\ r.label = awThread[t].label
      /\ awThread' = [awThread EXCEPT ![t] = r]
  BY <1>1 DEF AwInv, AwShape, AwRoles, AwPcs
<1>4. /\ awRecords' = awRecords \ stale
      /\ \A l : l \in stale <=> l \in awRecords /\ l[1] = awThread[t].base /\ l \notin DOMAIN awWins
  BY <1>1 DEF StaleLabels
<1>5. awCrossed' \in BOOLEAN /\ (~awCrossed' => ~awCrossed /\ ~AwCrosses(t, stale))
  BY <1>1 DEF AwInv, AwShape
<1> HIDE DEF r, stale
<1>6. /\ awThread' \in [AwThreads -> AwRoles] /\ awThread'[t] = r
      /\ \A o \in AwThreads \ {t} : awThread'[o] = awThread[o]
  BY <1>3, AwRoleMoves DEF AwInv
<1>7. AwShape'
  BY <1>2, <1>4, <1>5, <1>6 DEF AwInv, AwShape
<1>8. AwNumbered'
  <2>1. \A o \in AwThreads : AwAhead(o)' = AwAhead(o)
    BY <1>1, <1>3, <1>6 DEF AwAhead
  <2>2. AwAhead("main")' = AwAhead("main") /\ AwAhead("link")' = AwAhead("link")
    BY <2>1, AwKinds
  <2> QED
    BY <1>2, <1>4, <2>2 DEF AwInv, AwNumbered
<1>9. AwNamed' /\ AwFits'
  BY <1>1, <1>2, <1>3, <1>6 DEF AwInv, AwNamed, AwFits
<1>10. ASSUME ~awCrossed' PROVE AwTidy'
  <2>1. AwTidy /\ ~AwCrosses(t, stale)
    BY <1>5, <1>10 DEF AwInv
  <2>2. \A o \in AwThreads, pcs \in SUBSET {"build", "register", "failed", "destroy"} : \A l :
          AwHolds(o, pcs, l) <=> AwHolds(o, pcs, l)'
    BY <1>1, <1>3, <1>6 DEF AwHolds
  <2>3. AwRecorded' /\ AwHandled'
    BY <1>2, <1>4, <2>1, <2>2 DEF AwTidy, AwRecorded, AwHandled
  <2>4. \A o \in AwThreads : awThread[o].pc \in {"build", "failed"} => awThread[o].label \notin stale
    BY <1>1, <2>1 DEF AwCrosses
  <2>5. AwOwns'
    <3>1. \A o \in AwThreads : LET l == awThread'[o].label
                               IN  /\ awThread'[o].pc \in {"build", "failed"} => l \in awRecords'
                                   /\ awThread'[o].pc = "build" => l \notin DOMAIN awWins'
                                   /\ awThread'[o].pc = "destroy" => l \notin awRecords'
      BY <1>2, <1>3, <1>4, <1>6, <2>1, <2>4 DEF AwTidy, AwOwns
    <3>2. awThread'["main"].pc = "register" => awThread'["main"].label \in DOMAIN awWins' \cap awRecords'
      BY <1>2, <1>3, <1>4, <1>6, <2>1, AwKinds DEF AwTidy, AwOwns
    <3>3. awThread'["link"].pc = "failed" /\ awThread'["link"].label \in DOMAIN awWins' => ~awWins'[awThread'["link"].label].handler
      BY <1>2, <1>3, <1>6, <2>1, AwKinds DEF AwTidy, AwOwns
    <3> QED
      BY <3>1, <3>2, <3>3 DEF AwOwns
  <2>6. AwApart'
    BY <1>1, <1>3, <1>6, <2>1, AwKinds DEF AwTidy, AwApart
  <2>7. AwFound'
    <3> SUFFICES ASSUME NEW o \in AwThreads, awThread'[o].pc = "generate", NEW l \in awRecords', l[1] = awThread'[o].base
                 PROVE  l \in DOMAIN awWins' \/ \E q \in AwThreads : AwHolds(q, {"build", "failed"}, l)'
      BY DEF AwFound
    <3>1. CASE o = t
      BY <1>2, <1>3, <1>4, <1>6, <3>1
    <3>2. CASE o # t
      <4>1. l \in DOMAIN awWins \/ \E q \in AwThreads : AwHolds(q, {"build", "failed"}, l)
        BY <1>4, <1>6, <2>1, <3>2 DEF AwTidy, AwFound
      <4> QED
        BY <1>2, <2>2, <4>1
    <3> QED
      BY <3>1, <3>2
  <2>8. AwServed'
    BY <1>1, <1>2, <1>3, <1>6, <2>1 DEF AwTidy, AwServed
  <2> QED
    BY <2>3, <2>5, <2>6, <2>7, <2>8 DEF AwTidy
<1> QED
  BY <1>5, <1>7, <1>8, <1>9, <1>10 DEF AwInv

\* The free label of a creation is one: within the bound, not recorded, and the first of
\* its kind when nothing of the kind is recorded.
LEMMA AwFreeIs ==
  ASSUME AwInv, NEW t \in AwThreads, awThread[t].pc = "generate"
  PROVE  LET b == awThread[t].base
             l == FreeLabel(b)
         IN  /\ l \in AwLabels \ awRecords /\ l[1] = b
             /\ l[2] <= awAsks - AwAhead("main") - AwAhead("link")
             /\ (\A m \in awRecords : m[1] # b) => l[2] = 0
<1> DEFINE b == awThread[t].base
           free == {n \in AwNumbers : <<b, n>> \notin awRecords}
           g == awAsks - AwAhead("main") - AwAhead("link")
           R == {p \in Nat \X Nat : p[1] < p[2]}
<1>1. b \in AwBases
  BY DEF AwInv, AwNamed
<1>2. \A o : AwAhead(o) \in 0..1
  BY DEF AwAhead
<1>3. AwAhead(t) = 1 /\ t \in {"main", "link"}
  BY AwKinds DEF AwAhead
<1>4. awAsks \in Nat /\ awAsks <= AwMaxAsks /\ AwMaxAsks \in Nat
  BY AwMaxAsksAssumption DEF AwInv, AwShape
<1>5. g \in Nat /\ g < AwMaxAsks
  BY <1>2, <1>3, <1>4 DEF AwInv, AwNumbered
<1>6. g \in AwNumbers /\ AwNumbers \subseteq Nat
  BY <1>4, <1>5 DEF AwNumbers
<1>7. g \in free
  <2>1. ASSUME <<b, g>> \in awRecords PROVE FALSE
    <3>1. <<b, g>>[2] < g
      BY <2>1 DEF AwInv, AwNumbered
    <3> QED
      BY <1>5, <3>1
  <2> QED
    BY <1>6, <2>1
<1>8. IsWellFoundedOn(R, Nat)
  BY NatLessThanWellFounded DEF OpToRel
<1>9. free \subseteq Nat /\ free # {}
  BY <1>6, <1>7
<1> HIDE DEF R, free
<1>10. PICK x \in free : \A y \in free : ~ (<<y, x>> \in R)
  BY <1>8, <1>9, WFMin
<1>11. \A y \in free : x <= y
  <2>1. ASSUME NEW y \in free PROVE x <= y
    <3>1. x \in Nat /\ y \in Nat /\ ~(y < x)
      BY <1>9, <1>10, <2>1 DEF R
    <3> QED
      BY <3>1
  <2> QED
    BY <2>1
<1> DEFINE n == CHOOSE k \in free : \A m \in free : k <= m
<1>12. n \in free /\ \A m \in free : n <= m
  BY <1>10, <1>11
<1>13. FreeLabel(b) = <<b, n>>
  BY DEF FreeLabel, free
<1> HIDE DEF n
<1>14. n \in AwNumbers /\ <<b, n>> \notin awRecords /\ n <= g
  BY <1>7, <1>12 DEF free
<1>15. (\A m \in awRecords : m[1] # b) => n = 0
  <2> SUFFICES ASSUME \A m \in awRecords : m[1] # b PROVE n = 0
    OBVIOUS
  <2>1. <<b, 0>> \notin awRecords
    <3>1. <<b, 0>>[1] = b
      OBVIOUS
    <3> QED
      BY <3>1
  <2>2. 0 \in free
    BY <1>4, <1>5, <2>1 DEF free, AwNumbers
  <2> QED
    BY <1>6, <1>12, <1>14, <2>2
<1> QED
  BY <1>1, <1>13, <1>14, <1>15 DEF AwLabels

\* A singleton that is recorded is shown: it has a window, or another creation is at it.
LEMMA AwShowsKeep ==
  ASSUME AwInv, NEW t \in AwThreads, awThread[t].pc = "generate",
         \E l \in awRecords : l[1] = awThread[t].base,
         LET b == awThread[t].base
         IN  awWins' = IF <<b, 0>> \in DOMAIN awWins THEN AwShown(<<b, 0>>) ELSE awWins,
         awThread' = [awThread EXCEPT ![t] = AwIdle], awWanted' = awWanted \cup {awThread[t].base},
         UNCHANGED <<awRecords, awCrossed, awSaved, awFar, awAsks>>
  PROVE  AwInv'
<1> DEFINE b == awThread[t].base
           r == AwIdle
<1>1. r \in AwRoles /\ r.pc = "idle" /\ awThread' = [awThread EXCEPT ![t] = r]
  BY DEF AwIdle, AwRoles, AwPcs
<1> HIDE DEF r
<1>2. /\ awThread' \in [AwThreads -> AwRoles] /\ awThread'[t] = r
      /\ \A o \in AwThreads \ {t} : awThread'[o] = awThread[o]
  BY <1>1, AwRoleMoves DEF AwInv
<1>3. b \in AwBases /\ awWanted' = awWanted \cup {b}
  BY DEF AwInv, AwNamed
<1>4. /\ DOMAIN awWins' = DOMAIN awWins /\ awWins' \in [DOMAIN awWins -> AwWindows]
      /\ \A m \in DOMAIN awWins : awWins'[m].handler = awWins[m].handler /\ awWins'[m].opened = awWins[m].opened
  <2>1. CASE <<b, 0>> \in DOMAIN awWins
    <3> DEFINE l == <<b, 0>>
    <3>1. l \in DOMAIN awWins /\ awWins' = [awWins EXCEPT ![l].visible = TRUE]
      BY <2>1 DEF AwShown
    <3>2. AwShape /\ awSaved \in AwGeometries
      BY DEF AwInv, AwShape
    <3> HIDE DEF l
    <3> QED
      BY <3>1, <3>2, AwChanged
  <2>2. CASE <<b, 0>> \notin DOMAIN awWins
    BY <2>2 DEF AwInv, AwShape
  <2> QED
    BY <2>1, <2>2
<1>5. AwShape'
  BY <1>2, <1>3, <1>4 DEF AwInv, AwShape
<1>6. AwNumbered'
  <2>1. \A o \in AwThreads : AwAhead(o)' \in 0..1 /\ AwAhead(o)' <= AwAhead(o) /\ AwAhead(o) \in 0..1
    BY <1>1, <1>2 DEF AwAhead
  <2>2. awAsks \in Nat /\ awAsks' = awAsks /\ \A l \in awRecords : l[2] \in Nat
    BY AwMaxAsksAssumption DEF AwInv, AwShape, AwLabels, AwNumbers
  <2>3. \A l \in awRecords' : l[2] < awAsks - AwAhead("main") - AwAhead("link") /\ l[2] \in Nat
    BY <2>2 DEF AwInv, AwNumbered
  <2>4. AwAhead("main") + AwAhead("link") <= awAsks
    BY DEF AwInv, AwNumbered
  <2>5. \A o \in {"main", "link"} : AwAhead(o)' \in 0..1 /\ AwAhead(o)' <= AwAhead(o) /\ AwAhead(o) \in 0..1
    BY <2>1, AwKinds
  <2>6. AwAhead("main")' + AwAhead("link")' <= awAsks'
    BY <2>2, <2>4, <2>5
  <2>7. \A l \in awRecords' : l[2] < awAsks' - AwAhead("main")' - AwAhead("link")'
    BY <2>2, <2>3, <2>5
  <2> QED
    BY <2>6, <2>7 DEF AwNumbered
<1>7. AwNamed' /\ AwFits'
  BY <1>1, <1>2, <1>4 DEF AwInv, AwNamed, AwFits
<1>8. ASSUME AwTidy PROVE AwTidy'
  <2>1. \A o \in AwThreads, pcs \in SUBSET {"build", "register", "failed", "destroy"} : \A l :
          AwHolds(o, pcs, l) <=> AwHolds(o, pcs, l)'
    BY <1>1, <1>2 DEF AwHolds
  <2>2. AwRecorded' /\ AwHandled'
    BY <1>4, <1>8, <2>1 DEF AwTidy, AwRecorded, AwHandled
  <2>3. AwOwns' /\ AwApart'
    BY <1>1, <1>2, <1>4, <1>8, AwKinds DEF AwTidy, AwOwns, AwApart
  <2>4. AwFound'
    BY <1>1, <1>2, <1>4, <1>8, <2>1 DEF AwTidy, AwFound
  <2>5. AwServed'
    <3>1. ASSUME NEW k \in awWanted
          PROVE  \/ \E l \in DOMAIN awWins' : l[1] = k
                 \/ \E o \in AwThreads : awThread'[o].pc \in {"build", "failed", "destroy"} /\ awThread'[o].base = k
      BY <1>1, <1>2, <1>4, <1>8, <3>1 DEF AwTidy, AwServed
    <3>2. \/ \E l \in DOMAIN awWins' : l[1] = b
          \/ \E o \in AwThreads : awThread'[o].pc \in {"build", "failed", "destroy"} /\ awThread'[o].base = b
      <4>1. PICK l \in awRecords : l[1] = b
        OBVIOUS
      <4>2. l \in DOMAIN awWins \/ \E o \in AwThreads : AwHolds(o, {"build", "failed"}, l)
        BY <1>8, <4>1 DEF AwTidy, AwFound
      <4>3. CASE l \in DOMAIN awWins
        BY <1>4, <4>1, <4>3
      <4>4. ASSUME NEW o \in AwThreads, AwHolds(o, {"build", "failed"}, l)
            PROVE  awThread'[o].pc \in {"build", "failed", "destroy"} /\ awThread'[o].base = b
        BY <1>1, <1>2, <4>1, <4>4 DEF AwHolds, AwInv, AwNamed
      <4> QED
        BY <4>2, <4>3, <4>4
    <3> QED
      BY <1>3, <3>1, <3>2 DEF AwServed
  <2> QED
    BY <2>2, <2>3, <2>4, <2>5 DEF AwTidy
<1> QED
  BY <1>5, <1>6, <1>7, <1>8 DEF AwInv

\* Otherwise the creation records a label of its own.
LEMMA AwTakesKeep ==
  ASSUME AwInv, NEW t \in AwThreads, awThread[t].pc = "generate",
         AwConfig[awThread[t].base].singleton => \A m \in awRecords : m[1] # awThread[t].base,
         awRecords' = awRecords \cup {FreeLabel(awThread[t].base)},
         awThread' = [awThread EXCEPT ![t].pc = "build", ![t].label = FreeLabel(awThread[t].base)],
         awCrossed' = (awCrossed \/ AwCrosses(t, {FreeLabel(awThread[t].base)})),
         UNCHANGED <<awWins, awWanted, awSaved, awFar, awAsks>>
  PROVE  AwInv'
<1> DEFINE b == awThread[t].base
           f == FreeLabel(b)
           r == [awThread[t] EXCEPT !.pc = "build", !.label = f]
<1>1. /\ f \in AwLabels \ awRecords /\ f[1] = b /\ f[2] <= awAsks - AwAhead("main") - AwAhead("link")
      /\ AwConfig[b].singleton => f[2] = 0
  BY AwFreeIs
<1>2. awRecords' = awRecords \cup {f} /\ b \in AwBases /\ (t = "link" => b = "main")
  BY DEF AwInv, AwNamed
<1>3. awCrossed' \in BOOLEAN /\ (~awCrossed' => ~awCrossed /\ ~AwCrosses(t, {f}))
  BY DEF AwInv, AwShape
<1>4. awThread' = [awThread EXCEPT ![t] = r] /\ awThread[t] \in AwRoles
  BY DEF AwInv, AwShape
<1> HIDE DEF f
<1>5. r \in AwRoles /\ r.pc = "build" /\ r.base = b /\ r.label = f
  BY <1>1, <1>4 DEF AwRoles, AwPcs
<1> HIDE DEF r
<1>6. /\ awThread' \in [AwThreads -> AwRoles] /\ awThread'[t] = r
      /\ \A o \in AwThreads \ {t} : awThread'[o] = awThread[o]
  BY <1>4, <1>5, AwRoleMoves DEF AwInv
<1>7. AwShape'
  BY <1>1, <1>2, <1>3, <1>6 DEF AwInv, AwShape
<1>8. AwNumbered'
  <2>1. AwAhead(t) = 1 /\ AwAhead(t)' = 0 /\ \A o \in AwThreads \ {t} : AwAhead(o)' = AwAhead(o)
    BY <1>5, <1>6 DEF AwAhead
  <2>2. \A o : AwAhead(o) \in 0..1
    BY DEF AwAhead
  <2>3. awAsks \in Nat /\ awAsks' = awAsks /\ f[2] \in Nat /\ \A l \in awRecords : l[2] \in Nat
    BY <1>1, AwMaxAsksAssumption DEF AwInv, AwShape, AwLabels, AwNumbers
  <2>4. AwAhead("main")' + AwAhead("link")' = AwAhead("main") + AwAhead("link") - 1
    BY <2>1, <2>2, AwKinds
  <2>5. AwAhead("main")' \in 0..1 /\ AwAhead("link")' \in 0..1
    BY <2>1, <2>2, AwKinds
  <2>6. AwAhead("main")' + AwAhead("link")' <= awAsks'
    BY <2>2, <2>3, <2>4, <2>5 DEF AwInv, AwNumbered
  <2>7. \A l \in awRecords : l[2] < awAsks - AwAhead("main") - AwAhead("link")
    BY DEF AwInv, AwNumbered
  <2>8. \A l \in awRecords' : l[2] < awAsks' - AwAhead("main")' - AwAhead("link")'
    BY <1>1, <1>2, <2>2, <2>3, <2>4, <2>5, <2>7
  <2> QED
    BY <2>6, <2>8 DEF AwNumbered
<1>9. AwNamed' /\ AwFits'
  BY <1>1, <1>2, <1>5, <1>6 DEF AwInv, AwNamed, AwFits
<1>10. ASSUME ~awCrossed' PROVE AwTidy'
  <2>1. AwTidy
    BY <1>3, <1>10 DEF AwInv
  <2>2. \A o \in AwThreads \ {t} : awThread[o].pc \in {"build", "failed", "destroy"} => awThread[o].label # f
    BY <1>3, <1>10 DEF AwCrosses
  <2>3. f \notin DOMAIN awWins
    BY <1>1, <2>1, <2>2 DEF AwTidy, AwRecorded, AwHolds
  <2>4. \A o \in AwThreads, pcs \in SUBSET {"build", "register", "failed", "destroy"} : \A l :
          AwHolds(o, pcs, l) => AwHolds(o, pcs, l)'
    BY <1>6 DEF AwHolds
  <2>5. AwRecorded' /\ AwHandled'
    BY <1>2, <2>1, <2>4 DEF AwTidy, AwRecorded, AwHandled
  <2>6. AwOwns'
    <3>1. \A o \in AwThreads : LET l == awThread'[o].label
                               IN  /\ awThread'[o].pc \in {"build", "failed"} => l \in awRecords'
                                   /\ awThread'[o].pc = "build" => l \notin DOMAIN awWins'
                                   /\ awThread'[o].pc = "destroy" => l \notin awRecords'
      <4> SUFFICES ASSUME NEW o \in AwThreads, NEW l, l = awThread'[o].label
                   PROVE  /\ awThread'[o].pc \in {"build", "failed"} => l \in awRecords'
                          /\ awThread'[o].pc = "build" => l \notin DOMAIN awWins'
                          /\ awThread'[o].pc = "destroy" => l \notin awRecords'
        OBVIOUS
      <4>1. CASE o = t
        BY <1>2, <1>5, <1>6, <2>3, <4>1
      <4>2. CASE o # t
        <5>1. awThread'[o] = awThread[o]
          BY <1>6, <4>2
        <5>2. /\ awThread[o].pc \in {"build", "failed"} => l \in awRecords
              /\ awThread[o].pc = "build" => l \notin DOMAIN awWins
              /\ awThread[o].pc = "destroy" => l \notin awRecords
          BY <2>1, <5>1 DEF AwTidy, AwOwns
        <5> QED
          BY <1>2, <2>2, <4>2, <5>1, <5>2
      <4> QED
        BY <4>1, <4>2
    <3>2. awThread'["main"].pc = "register" => awThread'["main"].label \in DOMAIN awWins' \cap awRecords'
      BY <1>2, <1>5, <1>6, <2>1, AwKinds DEF AwTidy, AwOwns
    <3>3. awThread'["link"].pc = "failed" /\ awThread'["link"].label \in DOMAIN awWins' => ~awWins'[awThread'["link"].label].handler
      BY <1>5, <1>6, <2>1, AwKinds DEF AwTidy, AwOwns
    <3> QED
      BY <3>1, <3>2, <3>3 DEF AwOwns
  <2>7. AwApart'
    <3>1. awThread["main"].pc = "register" => awThread["main"].label # f
      BY <1>1, <2>1 DEF AwTidy, AwOwns
    <3>2. "main" \in AwThreads /\ "link" \in AwThreads /\ t \in {"main", "link"}
      BY AwKinds
    <3>3. CASE t = "main"
      <4>1. awThread'["main"].label = f /\ awThread'["link"] = awThread["link"]
        BY <1>5, <1>6, <3>2, <3>3
      <4> QED
        BY <2>2, <3>2, <3>3, <4>1 DEF AwApart
    <3>4. CASE t = "link"
      <4>1. awThread'["link"].label = f /\ awThread'["main"] = awThread["main"]
        BY <1>5, <1>6, <3>2, <3>4
      <4>2. awThread["main"].pc \in {"build", "failed", "destroy", "register"} => awThread["main"].label # f
        BY <2>2, <3>1, <3>2, <3>4
      <4> QED
        BY <4>1, <4>2 DEF AwApart
    <3> QED
      BY <3>2, <3>3, <3>4
  <2>8. AwFound'
    <3> SUFFICES ASSUME NEW o \in AwThreads, awThread'[o].pc = "generate", NEW l \in awRecords', l[1] = awThread'[o].base
                 PROVE  l \in DOMAIN awWins' \/ \E q \in AwThreads : AwHolds(q, {"build", "failed"}, l)'
      BY DEF AwFound
    <3>1. CASE l = f
      BY <1>5, <1>6, <3>1 DEF AwHolds
    <3>2. CASE l # f
      <4>1. o # t /\ l \in awRecords
        BY <1>2, <1>5, <1>6, <3>2
      <4>2. l \in DOMAIN awWins \/ \E q \in AwThreads : AwHolds(q, {"build", "failed"}, l)
        BY <1>6, <2>1, <4>1 DEF AwTidy, AwFound
      <4> QED
        BY <2>4, <4>2
    <3> QED
      BY <3>1, <3>2
  <2>9. AwServed'
    BY <1>5, <1>6, <2>1 DEF AwTidy, AwServed
  <2> QED
    BY <2>5, <2>6, <2>7, <2>8, <2>9 DEF AwTidy
<1> QED
  BY <1>3, <1>7, <1>8, <1>9, <1>10 DEF AwInv

\* A creation takes a label, or shows the singleton there is.
LEMMA AwGeneratesKeeps == ASSUME AwInv, AwGenerates PROVE AwInv'
<1>1. PICK t \in AwThreads :
       LET b == awThread[t].base
           recorded == \E l \in awRecords : l[1] = b
       IN  /\ awThread[t].pc = "generate"
           /\ IF AwConfig[b].singleton /\ recorded
              THEN /\ awWins' = IF <<b, 0>> \in DOMAIN awWins THEN AwShown(<<b, 0>>) ELSE awWins
                   /\ awThread' = [awThread EXCEPT ![t] = AwIdle]
                   /\ awWanted' = awWanted \cup {b} /\ UNCHANGED <<awRecords, awCrossed>>
              ELSE /\ awRecords' = awRecords \cup {FreeLabel(b)}
                   /\ awThread' = [awThread EXCEPT ![t].pc = "build", ![t].label = FreeLabel(b)]
                   /\ awCrossed' = (awCrossed \/ AwCrosses(t, {FreeLabel(b)}))
                   /\ UNCHANGED <<awWins, awWanted>>
  BY DEF AwGenerates
<1>2. UNCHANGED <<awSaved, awFar, awAsks>>
  BY DEF AwGenerates
<1> DEFINE recorded == \E l \in awRecords : l[1] = awThread[t].base
<1>3. CASE AwConfig[awThread[t].base].singleton /\ recorded
  BY <1>1, <1>2, <1>3, AwShowsKeep
<1>4. CASE ~(AwConfig[awThread[t].base].singleton /\ recorded)
  BY <1>1, <1>2, <1>4, AwTakesKeep
<1> QED
  BY <1>3, <1>4

\* A window is built, or fails to, with or without leaving one.
LEMMA AwBuildsKeeps == ASSUME AwInv, AwBuilds PROVE AwInv'
<1>1. PICK t \in AwThreads :
       LET b == awThread[t].base
           l == awThread[t].label
           geometry == RestoredGeometry(b)
           win == [visible |-> AwConfig[b].visible, handler |-> FALSE, opened |-> geometry, now |-> geometry]
           built == [m \in DOMAIN awWins \cup {l} |-> IF m = l THEN win ELSE awWins[m]]
       IN  /\ awThread[t].pc = "build" /\ (t = "main" \/ MainFree)
           /\ \/ /\ l \notin DOMAIN awWins /\ awWins' = built /\ awWanted' = awWanted \cup {b}
                 /\ awThread' = [awThread EXCEPT ![t].pc = "register"]
              \/ /\ awWins' \in IF l \in DOMAIN awWins THEN {awWins} ELSE {awWins, built}
                 /\ awThread' = [awThread EXCEPT ![t].pc = "failed"] /\ UNCHANGED awWanted
  BY DEF AwBuilds
<1>2. UNCHANGED <<awRecords, awSaved, awFar, awAsks, awCrossed>>
  BY DEF AwBuilds
<1> DEFINE b == awThread[t].base
           l == awThread[t].label
           g == RestoredGeometry(b)
           win == [visible |-> AwConfig[b].visible, handler |-> FALSE, opened |-> g, now |-> g]
           built == [m \in DOMAIN awWins \cup {l} |-> IF m = l THEN win ELSE awWins[m]]
<1>3. /\ b \in AwBases /\ l \in AwLabels /\ l[1] = b /\ (AwConfig[b].singleton => l[2] = 0)
      /\ awThread[t] \in AwRoles /\ awWins \in [DOMAIN awWins -> AwWindows] /\ DOMAIN awWins \subseteq AwLabels
      /\ awSaved \in AwGeometries /\ awFar \in BOOLEAN /\ awThread[t].pc = "build"
  BY <1>1 DEF AwInv, AwNamed, AwShape
<1>4. g \in AwGeometries /\ g.size # "zero" /\ (g.pos = "far" => awFar)
  BY <1>3 DEF RestoredGeometry, AwDefault, NoGeometry, AwGeometries
<1> HIDE DEF g
<1>5. win \in AwWindows /\ win.opened = g /\ ~win.handler
  BY <1>3, <1>4, AwKinds DEF AwWindows
<1>6. /\ awWins' \in {awWins, built} /\ (l \in DOMAIN awWins => awWins' = awWins \/ awWins' = built)
      /\ \E pc \in {"register", "failed"} :
           /\ awThread' = [awThread EXCEPT ![t].pc = pc]
           /\ pc = "register" => l \notin DOMAIN awWins /\ awWins' = built /\ awWanted' = awWanted \cup {b}
           /\ pc = "failed" => awWanted' = awWanted /\ (l \in DOMAIN awWins => awWins' = awWins)
  BY <1>1 DEF g
<1>7. PICK pc \in {"register", "failed"} :
        /\ awThread' = [awThread EXCEPT ![t].pc = pc]
        /\ pc = "register" => l \notin DOMAIN awWins /\ awWins' = built /\ awWanted' = awWanted \cup {b}
        /\ pc = "failed" => awWanted' = awWanted /\ (l \in DOMAIN awWins => awWins' = awWins)
  BY <1>6
<1> HIDE DEF win
\* The windows are those there were, and perhaps the one of the label, that had none.
<1>8. /\ awWins' \in [DOMAIN awWins' -> AwWindows] /\ DOMAIN awWins \subseteq DOMAIN awWins'
      /\ DOMAIN awWins' \subseteq DOMAIN awWins \cup {l}
      /\ \A m \in DOMAIN awWins : awWins'[m] = awWins[m]
      /\ l \in DOMAIN awWins' /\ l \notin DOMAIN awWins => awWins'[l] = win
      /\ pc = "register" => l \in DOMAIN awWins' /\ l \notin DOMAIN awWins
  <2>1. CASE awWins' = awWins
    <3>1. pc # "register"
      BY <1>7, <2>1
    <3> QED
      BY <1>3, <2>1, <3>1
  <2>2. CASE awWins' = built /\ l \notin DOMAIN awWins
    BY <1>3, <1>5, <2>2
  <2> QED
    BY <1>6, <1>7, <2>1, <2>2
<1> HIDE DEF built
<1> DEFINE r == [awThread[t] EXCEPT !.pc = pc]
<1>9. r \in AwRoles /\ r.pc = pc /\ r.base = b /\ r.label = l /\ awThread' = [awThread EXCEPT ![t] = r]
  BY <1>3, <1>7 DEF AwRoles, AwPcs
<1> HIDE DEF r
<1>10. /\ awThread' \in [AwThreads -> AwRoles] /\ awThread'[t] = r
       /\ \A o \in AwThreads \ {t} : awThread'[o] = awThread[o]
  BY <1>9, AwRoleMoves DEF AwInv
<1>11. awWanted \subseteq awWanted' /\ awWanted' \subseteq awWanted \cup {b} /\ awWanted' \subseteq AwBases
  BY <1>3, <1>7 DEF AwInv, AwShape
<1>12. AwShape'
  BY <1>2, <1>3, <1>8, <1>10, <1>11 DEF AwInv, AwShape
<1>13. AwNumbered'
  <2>1. \A o \in AwThreads : AwAhead(o)' = AwAhead(o)
    BY <1>3, <1>9, <1>10 DEF AwAhead
  <2>2. AwAhead("main")' = AwAhead("main") /\ AwAhead("link")' = AwAhead("link")
    BY <2>1, AwKinds
  <2> QED
    BY <1>2, <2>2 DEF AwInv, AwNumbered
<1>14. AwNamed'
  BY <1>3, <1>9, <1>10 DEF AwInv, AwNamed
<1>15. AwFits'
  <2> SUFFICES ASSUME NEW m \in DOMAIN awWins'
               PROVE  /\ AwConfig[m[1]].singleton => m[2] = 0
                      /\ awWins'[m].opened.size # "zero" /\ (awWins'[m].opened.pos = "far" => awFar)
    BY <1>2 DEF AwFits
  <2>1. CASE m \in DOMAIN awWins
    BY <1>8, <2>1 DEF AwInv, AwFits
  <2>2. CASE m \notin DOMAIN awWins
    <3>1. m = l /\ awWins'[m].opened = g
      BY <1>5, <1>8, <2>2
    <3> QED
      BY <1>3, <1>4, <3>1
  <2> QED
    BY <2>1, <2>2
<1>16. ASSUME AwTidy PROVE AwTidy'
  <2>1. l \in awRecords /\ l \notin DOMAIN awWins
    BY <1>3, <1>16 DEF AwTidy, AwOwns
  <2>2. \A o \in AwThreads \ {t} : \A pcs, m : AwHolds(o, pcs, m)' <=> AwHolds(o, pcs, m)
    BY <1>10 DEF AwHolds
  <2>3. \A o \in AwThreads \ {t} : awThread[o].pc \in {"build", "failed", "destroy"} \/ (o = "main" /\ awThread[o].pc = "register")
                                   => awThread[o].label # l
    BY <1>3, <1>16, AwKinds DEF AwTidy, AwApart
  <2>4. AwRecorded'
    <3> SUFFICES ASSUME NEW m \in DOMAIN awWins' PROVE m \in awRecords \/ \E o \in AwThreads : AwHolds(o, {"destroy"}, m)'
      BY <1>2 DEF AwRecorded
    <3>1. m = l \/ m \in awRecords \/ \E o \in AwThreads : AwHolds(o, {"destroy"}, m)
      BY <1>8, <1>16 DEF AwTidy, AwRecorded
    <3>2. \A o \in AwThreads : AwHolds(o, {"destroy"}, m) => o # t
      BY <1>3 DEF AwHolds
    <3> QED
      BY <2>1, <2>2, <3>1, <3>2
  <2>5. AwHandled'
    <3> SUFFICES ASSUME NEW m \in DOMAIN awWins'
                 PROVE  awWins'[m].handler \/ \E o \in AwThreads : AwHolds(o, {"register", "failed", "destroy"}, m)'
      BY DEF AwHandled
    <3>1. CASE m = l
      BY <1>9, <1>10, <3>1 DEF AwHolds
    <3>2. CASE m # l
      <4>1. m \in DOMAIN awWins /\ awWins'[m] = awWins[m]
        BY <1>8, <3>2
      <4>2. awWins[m].handler \/ \E o \in AwThreads : AwHolds(o, {"register", "failed", "destroy"}, m)
        BY <1>16, <4>1 DEF AwTidy, AwHandled
      <4>3. \A o \in AwThreads : AwHolds(o, {"register", "failed", "destroy"}, m) => o # t
        BY <1>3 DEF AwHolds
      <4> QED
        BY <2>2, <4>1, <4>2, <4>3
    <3> QED
      BY <3>1, <3>2
  <2>6. AwOwns'
    <3>1. ASSUME NEW o \in AwThreads, NEW m, m = awThread'[o].label
          PROVE  /\ awThread'[o].pc \in {"build", "failed"} => m \in awRecords
                 /\ awThread'[o].pc = "build" => m \notin DOMAIN awWins'
                 /\ awThread'[o].pc = "destroy" => m \notin awRecords
      <4>1. CASE o = t
        BY <1>9, <1>10, <2>1, <3>1, <4>1
      <4>2. CASE o # t
        <5>1. awThread'[o] = awThread[o]
          BY <1>10, <4>2
        <5>2. /\ awThread[o].pc \in {"build", "failed"} => m \in awRecords
              /\ awThread[o].pc = "build" => m \notin DOMAIN awWins
              /\ awThread[o].pc = "destroy" => m \notin awRecords
          BY <1>16, <3>1, <5>1 DEF AwTidy, AwOwns
        <5>3. awThread[o].pc = "build" => m # l
          BY <2>3, <3>1, <4>2, <5>1
        <5> QED
          BY <1>8, <5>1, <5>2, <5>3
      <4> QED
        BY <4>1, <4>2
    <3>2. awThread'["main"].pc = "register" => awThread'["main"].label \in DOMAIN awWins' \cap awRecords
      <4>1. CASE t = "main"
        BY <1>8, <1>9, <1>10, <2>1, <4>1
      <4>2. CASE t # "main"
        BY <1>8, <1>10, <1>16, <4>2, AwKinds DEF AwTidy, AwOwns
      <4> QED
        BY <4>1, <4>2
    <3>3. awThread'["link"].pc = "failed" /\ awThread'["link"].label \in DOMAIN awWins' => ~awWins'[awThread'["link"].label].handler
      <4>1. CASE t = "link"
        BY <1>5, <1>8, <1>9, <1>10, <2>1, <4>1
      <4>2. CASE t # "link"
        <5>1. awThread'["link"] = awThread["link"]
          BY <1>10, <4>2, AwKinds
        <5>2. awThread["link"].pc = "failed" => awThread["link"].label # l
          BY <2>3, <4>2, AwKinds
        <5> QED
          BY <1>8, <1>16, <5>1, <5>2 DEF AwTidy, AwOwns
      <4> QED
        BY <4>1, <4>2
    <3> QED
      BY <1>2, <3>1, <3>2, <3>3 DEF AwOwns
  <2>7. AwApart'
    BY <1>3, <1>9, <1>10, <1>16, AwKinds DEF AwTidy, AwApart
  <2>8. AwFound'
    <3> SUFFICES ASSUME NEW o \in AwThreads, awThread'[o].pc = "generate", NEW m \in awRecords, m[1] = awThread'[o].base
                 PROVE  m \in DOMAIN awWins' \/ \E q \in AwThreads : AwHolds(q, {"build", "failed"}, m)'
      BY <1>2 DEF AwFound
    <3>1. o # t /\ awThread'[o] = awThread[o]
      BY <1>9, <1>10
    <3>2. m \in DOMAIN awWins \/ \E q \in AwThreads : AwHolds(q, {"build", "failed"}, m)
      BY <1>16, <3>1 DEF AwTidy, AwFound
    <3>3. AwHolds(t, {"build", "failed"}, m) => m \in DOMAIN awWins' \/ AwHolds(t, {"build", "failed"}, m)'
      BY <1>8, <1>9, <1>10 DEF AwHolds
    <3> QED
      BY <1>8, <2>2, <3>2, <3>3
  <2>9. AwServed'
    <3> SUFFICES ASSUME NEW k \in awWanted'
                 PROVE  \/ \E m \in DOMAIN awWins' : m[1] = k
                        \/ \E o \in AwThreads : awThread'[o].pc \in {"build", "failed", "destroy"} /\ awThread'[o].base = k
      BY DEF AwServed
    <3>1. CASE k = b
      BY <1>3, <1>8, <1>9, <1>10, <3>1
    <3>2. CASE k # b
      <4>1. \/ \E m \in DOMAIN awWins : m[1] = k
            \/ \E o \in AwThreads : awThread[o].pc \in {"build", "failed", "destroy"} /\ awThread[o].base = k
        BY <1>11, <1>16, <3>2 DEF AwTidy, AwServed
      <4> QED
        BY <1>8, <1>10, <3>2, <4>1
    <3> QED
      BY <3>1, <3>2
  <2> QED
    BY <2>4, <2>5, <2>6, <2>7, <2>8, <2>9 DEF AwTidy
<1>17. awCrossed' = awCrossed /\ (~awCrossed => AwTidy)
  BY <1>2 DEF AwInv
<1> QED
  BY <1>12, <1>13, <1>14, <1>15, <1>16, <1>17 DEF AwInv

\* The handler that will take the record along is set.
LEMMA AwRegistersKeeps == ASSUME AwInv, AwRegisters PROVE AwInv'
<1>1. PICK t \in AwThreads :
       LET l == awThread[t].label
       IN  /\ awThread[t].pc = "register" /\ awThread' = [awThread EXCEPT ![t] = AwIdle]
           /\ awWins' = IF l \notin DOMAIN awWins THEN awWins
                        ELSE [awWins EXCEPT ![l].handler = TRUE, ![l].visible = @ \/ l[1] = "tray"]
  BY DEF AwRegisters
<1>2. UNCHANGED <<awRecords, awSaved, awFar, awAsks, awWanted, awCrossed>>
  BY DEF AwRegisters
<1> DEFINE l == awThread[t].label
           r == AwIdle
<1>3. r \in AwRoles /\ r.pc = "idle" /\ awThread' = [awThread EXCEPT ![t] = r]
  BY <1>1 DEF AwIdle, AwRoles, AwPcs
<1> HIDE DEF r
<1>4. /\ awThread' \in [AwThreads -> AwRoles] /\ awThread'[t] = r
      /\ \A o \in AwThreads \ {t} : awThread'[o] = awThread[o]
  BY <1>3, AwRoleMoves DEF AwInv
<1>5. /\ DOMAIN awWins' = DOMAIN awWins /\ awWins' \in [DOMAIN awWins -> AwWindows]
      /\ \A m \in DOMAIN awWins : /\ awWins'[m].opened = awWins[m].opened
                                  /\ awWins'[m].handler = (awWins[m].handler \/ m = l)
  <2>1. awWins \in [DOMAIN awWins -> AwWindows]
    BY DEF AwInv, AwShape
  <2>2. CASE l \notin DOMAIN awWins
    <3>1. awWins' = awWins
      BY <1>1, <2>2
    <3> QED
      BY <2>1, <2>2, <3>1 DEF AwWindows
  <2>3. CASE l \in DOMAIN awWins
    <3> DEFINE w == [awWins[l] EXCEPT !.handler = TRUE, !.visible = @ \/ l[1] = "tray"]
    <3>1. awWins[l] \in AwWindows
      BY <2>1, <2>3
    <3>2. w \in AwWindows /\ w.handler = TRUE /\ w.opened = awWins[l].opened
      BY <3>1 DEF AwWindows
    <3>3. awWins' = [awWins EXCEPT ![l] = w]
      BY <1>1, <2>3
    <3> HIDE DEF w
    <3>4. \A m \in DOMAIN awWins : awWins[m].handler \in BOOLEAN
      BY <2>1 DEF AwWindows
    <3>5. ASSUME NEW m \in DOMAIN awWins
          PROVE  awWins'[m] \in AwWindows /\ awWins'[m].opened = awWins[m].opened /\ awWins'[m].handler = (awWins[m].handler \/ m = l)
      <4>1. CASE m = l
        BY <2>1, <3>2, <3>3, <4>1
      <4>2. CASE m # l
        BY <2>1, <3>3, <3>4, <4>2
      <4> QED
        BY <4>1, <4>2
    <3> QED
      BY <2>1, <3>3, <3>5
  <2> QED
    BY <2>2, <2>3
<1>6. AwShape'
  BY <1>2, <1>4, <1>5 DEF AwInv, AwShape
<1>7. AwNumbered'
  <2>1. \A o \in AwThreads : AwAhead(o)' = AwAhead(o)
    BY <1>1, <1>3, <1>4 DEF AwAhead
  <2>2. AwAhead("main")' = AwAhead("main") /\ AwAhead("link")' = AwAhead("link")
    BY <2>1, AwKinds
  <2> QED
    BY <1>2, <2>2 DEF AwInv, AwNumbered
<1>8. AwNamed' /\ AwFits'
  BY <1>2, <1>3, <1>4, <1>5 DEF AwInv, AwNamed, AwFits
<1>9. ASSUME AwTidy PROVE AwTidy'
  <2>1. \A o \in AwThreads, pcs \in SUBSET {"build", "failed", "destroy"} : \A m : AwHolds(o, pcs, m)' <=> AwHolds(o, pcs, m)
    BY <1>1, <1>3, <1>4 DEF AwHolds
  <2>2. \A o \in AwThreads \ {t} : \A pcs, m : AwHolds(o, pcs, m)' <=> AwHolds(o, pcs, m)
    BY <1>4 DEF AwHolds
  <2>3. AwRecorded'
    BY <1>2, <1>5, <1>9, <2>1 DEF AwTidy, AwRecorded
  <2>4. AwHandled'
    <3> SUFFICES ASSUME NEW m \in DOMAIN awWins, m # l, ~awWins[m].handler
                 PROVE  \E o \in AwThreads : AwHolds(o, {"register", "failed", "destroy"}, m)'
      BY <1>5 DEF AwHandled
    <3>1. PICK o \in AwThreads : AwHolds(o, {"register", "failed", "destroy"}, m)
      BY <1>9 DEF AwTidy, AwHandled
    <3>2. o # t
      BY <3>1 DEF AwHolds
    <3> QED
      BY <2>2, <3>1, <3>2
  \* Only the deep link may register a window another creation has failed with.
  <2>5. AwOwns'
    <3>1. \A o \in AwThreads : /\ awThread'[o].pc \in {"build", "failed"} => awThread'[o].label \in awRecords'
                               /\ awThread'[o].pc = "build" => awThread'[o].label \notin DOMAIN awWins'
                               /\ awThread'[o].pc = "destroy" => awThread'[o].label \notin awRecords'
      BY <1>2, <1>3, <1>4, <1>5, <1>9 DEF AwTidy, AwOwns
    <3>2. awThread'["main"].pc = "register" => awThread'["main"].label \in DOMAIN awWins' \cap awRecords'
      BY <1>2, <1>3, <1>4, <1>5, <1>9, AwKinds DEF AwTidy, AwOwns
    <3>3. ASSUME awThread'["link"].pc = "failed", awThread'["link"].label \in DOMAIN awWins'
          PROVE  ~awWins'[awThread'["link"].label].handler
      <4>1. t = "main" /\ awThread'["link"] = awThread["link"]
        BY <1>3, <1>4, <3>3, AwKinds
      <4>2. awThread["link"].label # l
        BY <1>1, <1>9, <3>3, <4>1 DEF AwTidy, AwApart
      <4>3. ~awWins[awThread["link"].label].handler
        BY <1>5, <1>9, <3>3, <4>1 DEF AwTidy, AwOwns
      <4> QED
        BY <1>5, <3>3, <4>1, <4>2, <4>3
    <3> QED
      BY <3>1, <3>2, <3>3 DEF AwOwns
  <2>6. AwApart'
    BY <1>3, <1>4, <1>9, AwKinds DEF AwTidy, AwApart
  <2>7. AwFound'
    BY <1>2, <1>3, <1>4, <1>5, <1>9, <2>1 DEF AwTidy, AwFound
  <2>8. AwServed'
    BY <1>1, <1>2, <1>4, <1>5, <1>9 DEF AwTidy, AwServed
  <2> QED
    BY <2>3, <2>4, <2>5, <2>6, <2>7, <2>8 DEF AwTidy
<1> QED
  BY <1>2, <1>6, <1>7, <1>8, <1>9 DEF AwInv

\* A creation that failed gives up its record.
LEMMA AwGivesUp ==
  ASSUME AwInv, NEW t \in AwThreads, awThread[t].pc = "failed",
         awThread' = [awThread EXCEPT ![t].pc = "destroy"], awRecords' = awRecords \ {awThread[t].label},
         UNCHANGED <<awWins, awWanted, awSaved, awFar, awAsks, awCrossed>>
  PROVE  AwInv'
<1> DEFINE l == awThread[t].label
           r == [awThread[t] EXCEPT !.pc = "destroy"]
<1>1. /\ r \in AwRoles /\ r.pc = "destroy" /\ r.base = awThread[t].base /\ r.label = l
      /\ awThread' = [awThread EXCEPT ![t] = r] /\ awRecords' = awRecords \ {l}
  BY DEF AwInv, AwShape, AwRoles, AwPcs
<1> HIDE DEF r
<1>2. /\ awThread' \in [AwThreads -> AwRoles] /\ awThread'[t] = r
      /\ \A o \in AwThreads \ {t} : awThread'[o] = awThread[o]
  BY <1>1, AwRoleMoves DEF AwInv
<1>3. AwShape'
  BY <1>1, <1>2 DEF AwInv, AwShape
<1>4. AwNumbered'
  <2>1. \A o \in AwThreads : AwAhead(o)' = AwAhead(o)
    BY <1>1, <1>2 DEF AwAhead
  <2>2. AwAhead("main")' = AwAhead("main") /\ AwAhead("link")' = AwAhead("link")
    BY <2>1, AwKinds
  <2> QED
    BY <1>1, <2>2 DEF AwInv, AwNumbered
<1>5. AwNamed' /\ AwFits'
  BY <1>1, <1>2 DEF AwInv, AwNamed, AwFits
<1>6. ASSUME AwTidy PROVE AwTidy'
  <2>1. \A o \in AwThreads \ {t} : \A pcs, m : AwHolds(o, pcs, m)' <=> AwHolds(o, pcs, m)
    BY <1>2 DEF AwHolds
  <2>2. \A m : AwHolds(t, {"register", "failed", "destroy"}, m) => AwHolds(t, {"register", "failed", "destroy"}, m)'
    BY <1>1, <1>2 DEF AwHolds
  <2>3. AwHolds(t, {"destroy"}, l)' /\ \A m : ~AwHolds(t, {"destroy"}, m)
    BY <1>1, <1>2 DEF AwHolds
  <2>4. AwRecorded'
    BY <1>1, <1>6, <2>1, <2>3 DEF AwTidy, AwRecorded
  <2>5. AwHandled'
    BY <1>6, <2>1, <2>2 DEF AwTidy, AwHandled
  <2>6. \A o \in AwThreads \ {t} : awThread[o].pc \in {"build", "failed"} \/ (o = "main" /\ awThread[o].pc = "register")
                                   => awThread[o].label # l
    BY <1>6, AwKinds DEF AwTidy, AwApart
  <2>7. AwOwns'
    <3>1. ASSUME NEW o \in AwThreads
          PROVE  /\ awThread'[o].pc \in {"build", "failed"} => awThread'[o].label \in awRecords'
                 /\ awThread'[o].pc = "build" => awThread'[o].label \notin DOMAIN awWins'
                 /\ awThread'[o].pc = "destroy" => awThread'[o].label \notin awRecords'
      <4>1. CASE o = t
        BY <1>1, <1>2, <4>1
      <4>2. CASE o # t
        BY <1>1, <1>2, <1>6, <2>6, <4>2 DEF AwTidy, AwOwns
      <4> QED
        BY <4>1, <4>2
    <3>2. awThread'["main"].pc = "register" => awThread'["main"].label \in DOMAIN awWins' \cap awRecords'
      BY <1>1, <1>2, <1>6, <2>6, AwKinds DEF AwTidy, AwOwns
    <3>3. awThread'["link"].pc = "failed" /\ awThread'["link"].label \in DOMAIN awWins' => ~awWins'[awThread'["link"].label].handler
      BY <1>1, <1>2, <1>6, AwKinds DEF AwTidy, AwOwns
    <3> QED
      BY <3>1, <3>2, <3>3 DEF AwOwns
  <2>8. AwApart'
    BY <1>1, <1>2, <1>6, AwKinds DEF AwTidy, AwApart
  <2>9. AwFound'
    <3> SUFFICES ASSUME NEW o \in AwThreads, awThread'[o].pc = "generate", NEW m \in awRecords', m[1] = awThread'[o].base
                 PROVE  m \in DOMAIN awWins' \/ \E q \in AwThreads : AwHolds(q, {"build", "failed"}, m)'
      BY DEF AwFound
    <3>1. awThread'[o] = awThread[o] /\ m \in awRecords /\ m # l
      BY <1>1, <1>2
    <3>2. m \in DOMAIN awWins \/ \E q \in AwThreads : AwHolds(q, {"build", "failed"}, m)
      BY <1>6, <3>1 DEF AwTidy, AwFound
    <3>3. ~AwHolds(t, {"build", "failed"}, m)
      BY <3>1 DEF AwHolds
    <3> QED
      BY <2>1, <3>2, <3>3
  <2>10. AwServed'
    BY <1>1, <1>2, <1>6 DEF AwTidy, AwServed
  <2> QED
    BY <2>4, <2>5, <2>7, <2>8, <2>9, <2>10 DEF AwTidy
<1> QED
  BY <1>3, <1>4, <1>5, <1>6 DEF AwInv

\* What it left of a window is destroyed.
LEMMA AwClearsAway ==
  ASSUME AwInv, NEW t \in AwThreads, awThread[t].pc = "destroy",
         awThread' = [awThread EXCEPT ![t] = AwIdle], AwDestroyed({awThread[t].label}),
         awWanted' = AwStillOpen(awThread[t].label), UNCHANGED <<awSaved, awFar, awAsks, awCrossed>>
  PROVE  AwInv'
<1> DEFINE l == awThread[t].label
           r == AwIdle
<1>1. r \in AwRoles /\ r.pc = "idle" /\ awThread' = [awThread EXCEPT ![t] = r]
  BY DEF AwIdle, AwRoles, AwPcs
<1> HIDE DEF r
<1>2. /\ awThread' \in [AwThreads -> AwRoles] /\ awThread'[t] = r
      /\ \A o \in AwThreads \ {t} : awThread'[o] = awThread[o]
  BY <1>1, AwRoleMoves DEF AwInv
<1>3. /\ DOMAIN awWins' = DOMAIN awWins \ {l} /\ awWins' \in [DOMAIN awWins' -> AwWindows]
      /\ \A m \in DOMAIN awWins' : awWins'[m] = awWins[m]
      /\ awRecords' \subseteq awRecords /\ awRecords \ {l} \subseteq awRecords'
  BY AwGone DEF AwInv
<1>4. awWanted' \subseteq awWanted /\ \A b \in awWanted' : b = l[1] => \E m \in DOMAIN awWins' : m[1] = b
  BY <1>3 DEF AwStillOpen
<1>5. AwShape'
  BY <1>2, <1>3, <1>4 DEF AwInv, AwShape
<1>6. AwNumbered'
  <2>1. \A o \in AwThreads : AwAhead(o)' = AwAhead(o)
    BY <1>1, <1>2 DEF AwAhead
  <2>2. AwAhead("main")' = AwAhead("main") /\ AwAhead("link")' = AwAhead("link")
    BY <2>1, AwKinds
  <2> QED
    BY <1>3, <2>2 DEF AwInv, AwNumbered
<1>7. AwNamed' /\ AwFits'
  BY <1>1, <1>2, <1>3 DEF AwInv, AwNamed, AwFits
<1>8. ASSUME AwTidy PROVE AwTidy'
  <2>1. \A o \in AwThreads \ {t} : \A pcs, m : AwHolds(o, pcs, m)' <=> AwHolds(o, pcs, m)
    BY <1>2 DEF AwHolds
  <2>2. \A pcs, m : AwHolds(t, pcs, m) => m = l
    BY DEF AwHolds
  <2>3. AwRecorded' /\ AwHandled'
    BY <1>3, <1>8, <2>1, <2>2 DEF AwTidy, AwRecorded, AwHandled
  <2>4. \A o \in AwThreads \ {t} : awThread[o].pc \in {"build", "failed"} \/ (o = "main" /\ awThread[o].pc = "register")
                                   => awThread[o].label # l
    BY <1>8, AwKinds DEF AwTidy, AwApart
  <2>5. AwOwns'
    <3>1. ASSUME NEW o \in AwThreads
          PROVE  /\ awThread'[o].pc \in {"build", "failed"} => awThread'[o].label \in awRecords'
                 /\ awThread'[o].pc = "build" => awThread'[o].label \notin DOMAIN awWins'
                 /\ awThread'[o].pc = "destroy" => awThread'[o].label \notin awRecords'
      <4>1. CASE o = t
        BY <1>1, <1>2, <4>1
      <4>2. CASE o # t
        BY <1>2, <1>3, <1>8, <2>4, <4>2 DEF AwTidy, AwOwns
      <4> QED
        BY <4>1, <4>2
    <3>2. awThread'["main"].pc = "register" => awThread'["main"].label \in DOMAIN awWins' \cap awRecords'
      BY <1>1, <1>2, <1>3, <1>8, <2>4, AwKinds DEF AwTidy, AwOwns
    <3>3. awThread'["link"].pc = "failed" /\ awThread'["link"].label \in DOMAIN awWins' => ~awWins'[awThread'["link"].label].handler
      BY <1>1, <1>2, <1>3, <1>8, AwKinds DEF AwTidy, AwOwns
    <3> QED
      BY <3>1, <3>2, <3>3 DEF AwOwns
  <2>6. AwApart'
    BY <1>1, <1>2, <1>8, AwKinds DEF AwTidy, AwApart
  <2>7. AwFound'
    <3> SUFFICES ASSUME NEW o \in AwThreads, awThread'[o].pc = "generate", NEW m \in awRecords', m[1] = awThread'[o].base
                 PROVE  m \in DOMAIN awWins' \/ \E q \in AwThreads : AwHolds(q, {"build", "failed"}, m)'
      BY DEF AwFound
    <3>1. o # t /\ awThread'[o] = awThread[o] /\ m \in awRecords
      BY <1>1, <1>2, <1>3
    <3>2. m \in DOMAIN awWins \/ \E q \in AwThreads : AwHolds(q, {"build", "failed"}, m)
      BY <1>8, <3>1 DEF AwTidy, AwFound
    <3>3. ~AwHolds(t, {"build", "failed"}, m)
      BY DEF AwHolds
    <3>4. l \notin awRecords
      BY <1>8 DEF AwTidy, AwOwns
    <3> QED
      BY <1>3, <2>1, <3>1, <3>2, <3>3, <3>4
  <2>8. AwServed'
    <3> SUFFICES ASSUME NEW k \in awWanted', k # l[1]
                 PROVE  \/ \E m \in DOMAIN awWins' : m[1] = k
                        \/ \E o \in AwThreads : awThread'[o].pc \in {"build", "failed", "destroy"} /\ awThread'[o].base = k
      BY <1>4 DEF AwServed
    <3>1. \/ \E m \in DOMAIN awWins : m[1] = k
          \/ \E o \in AwThreads : awThread[o].pc \in {"build", "failed", "destroy"} /\ awThread[o].base = k
      BY <1>4, <1>8 DEF AwTidy, AwServed
    <3>2. awThread[t].base = l[1]
      BY DEF AwInv, AwNamed
    <3> QED
      BY <1>2, <1>3, <3>1, <3>2
  <2> QED
    BY <2>3, <2>5, <2>6, <2>7, <2>8 DEF AwTidy
<1> QED
  BY <1>5, <1>6, <1>7, <1>8 DEF AwInv

\* A creation that failed clears away after itself, in two steps.
LEMMA AwFailsKeeps == ASSUME AwInv, AwFailsToCreate PROVE AwInv'
<1>1. PICK t \in AwThreads :
       LET l == awThread[t].label
       IN  /\ awThread' = [awThread EXCEPT ![t] = IF @.pc = "failed" THEN [@ EXCEPT !.pc = "destroy"] ELSE AwIdle]
           /\ \/ /\ awThread[t].pc = "failed" /\ awRecords' = awRecords \ {l}
                 /\ UNCHANGED <<awWins, awWanted>>
              \/ /\ awThread[t].pc = "destroy" /\ AwDestroyed({l})
                 /\ awWanted' = AwStillOpen(l)
  BY DEF AwFailsToCreate
<1>2. UNCHANGED <<awSaved, awFar, awAsks, awCrossed>> /\ awThread \in [AwThreads -> AwRoles]
  BY DEF AwFailsToCreate, AwInv, AwShape
<1>3. CASE awThread[t].pc = "failed"
  <2>1. awThread' = [awThread EXCEPT ![t].pc = "destroy"]
    BY <1>1, <1>2, <1>3
  <2> QED
    BY <1>1, <1>2, <1>3, <2>1, AwGivesUp
<1>4. CASE awThread[t].pc = "destroy"
  <2>1. awThread' = [awThread EXCEPT ![t] = AwIdle]
    BY <1>1, <1>2, <1>4
  <2> QED
    BY <1>1, <1>2, <1>4, <2>1, AwClearsAway
<1> QED
  BY <1>1, <1>3, <1>4

\* Every step keeps the windows in order.
LEMMA AwKeepsInv == AwInv /\ [AwNext]_awVars => AwInv'
<1>1. ASSUME AwInv, AwNext PROVE AwInv'
  BY <1>1, AwRequests, AwEvents, AwCleansKeeps, AwGeneratesKeeps, AwBuildsKeeps, AwRegistersKeeps, AwFailsKeeps DEF AwNext
<1>2. ASSUME AwInv, UNCHANGED awVars PROVE AwInv'
  BY <1>2 DEF awVars, AwInv, AwShape, AwNumbered, AwAhead, AwNamed, AwFits, AwTidy, AwRecorded, AwHandled, AwOwns,
              AwApart, AwFound, AwServed, AwHolds
<1> QED
  BY <1>1, <1>2

\* Asking for a window opens it: with any kinds, and however creations, deep links,
\* failures and closing cross, unless one takes another's record for stale.
THEOREM WindowsOpen == AwSpec => []AwOpens
<1>1. AwInv => AwOpens
  <2> SUFFICES ASSUME AwInv, ~awCrossed, \A t \in AwThreads : awThread[t].pc = "idle" PROVE AwOpens
    BY DEF AwOpens
  <2>1. AwTidy /\ AwFits
    BY DEF AwInv
  <2>2. \A b \in awWanted : \E l \in DOMAIN awWins : l[1] = b
    BY <2>1 DEF AwTidy, AwServed
  <2>3. DOMAIN awWins \subseteq awRecords
    BY <2>1 DEF AwTidy, AwRecorded, AwHolds
  <2> QED
    BY <2>1, <2>2, <2>3 DEF AwOpens, AwFits
<1> QED
  BY <1>1, AwStartsWell, AwKeepsInv, PTL DEF AwSpec
===============================================================================
