----------------------------- MODULE WidgetManager -----------------------------
(***************************************************************************)
(* The statistic widget: WidgetManager (widget.rs) starts and stops a process *)
(* of its own for it and forwards statistics; the widget (nyanpasu-egui)      *)
(* connects back and ends when told to, or when its channel is disconnected.  *)
(* Patches of the configuration come one at a time (verge_update_lock); the   *)
(* clean-up at exit and the listener of statistics cross them.                *)
(***************************************************************************)
EXTENDS Naturals, Sequences, FiniteSets

CONSTANTS WdVariants,  \* variants of the widget
          WdProcs,     \* widget processes there can be: numbers from 1
          WdMaxFails,  \* bound: widgets that end or hang by themselves, failing spawns
          WdBuffer     \* messages the channel of a widget holds

ASSUME WdAssumption == WdProcs \subseteq Nat \ {0}

VARIABLES wdInst,    \* WidgetManager.instance: the process, or 0
          wdLock,    \* who holds its lock
          wdProc,    \* each process: its state, variant, unread messages, whether its sender lives
          wdDo,      \* what the configuration ("user") and the clean-up ("exit") are doing
          wdManaged, \* setup has returned the manager to tauri
          wdFails,   \* bound
          wdWant,    \* history: what the last operation that succeeded asked for
          wdLeft     \* history: a widget ended or hung by itself, or an operation failed since

wdVars == <<wdInst, wdLock, wdProc, wdDo, wdManaged, wdFails, wdWant, wdLeft>>

Off == "off"
WdNobody == "nobody"
NoWidget == [pc |-> "none", variant |-> Off, box |-> <<>>, sender |-> TRUE, hung |-> FALSE]
WdIdle == [pc |-> "idle", want |-> Off, proc |-> 0]
WdActors == {"user", "exit", "listener"}

\* setup starts the widget of the configuration.
WdInit ==
  /\ wdInst = 0 /\ wdLock = WdNobody /\ wdProc = [p \in WdProcs |-> NoWidget]
  /\ \E want \in WdVariants \cup {Off} :
       wdDo = [a \in WdActors |-> IF a = "user" /\ want # Off
                                  THEN [WdIdle EXCEPT !.pc = "check", !.want = want] ELSE WdIdle]
  /\ wdManaged = (wdDo["user"] = WdIdle) /\ wdFails = 0 /\ wdWant = Off /\ wdLeft = FALSE

WdAt(a, pc) == wdDo[a].pc = pc
WdGoto(a, pc) == wdDo' = [wdDo EXCEPT ![a].pc = pc]
IsAlive(p) == p # 0 /\ wdProc[p].pc \in {"spawned", "shown", "ending"}

\* An operation ends; one that fails is reported, and a failed setup loses the manager.
WdDone(a, ok) ==
  /\ wdDo' = [wdDo EXCEPT ![a] = IF a = "exit" THEN [WdIdle EXCEPT !.pc = "leave"] ELSE WdIdle]
  /\ wdManaged' = (wdManaged \/ (a = "user" /\ ok))
  /\ wdWant' = IF ok THEN wdDo[a].want ELSE wdWant
  /\ wdLeft' = (a = "user" /\ ~ok)

\* The sender of a process is dropped.
Dropped(p) == IF p = 0 THEN wdProc ELSE [wdProc EXCEPT ![p].sender = FALSE]
-------------------------------------------------------------------------------
(* patch_verge, stop and start.                                                *)

\* A patch with a widget: nothing is to be stopped when none runs.
WdPatch ==
  /\ WdAt("user", "idle") /\ WdAt("exit", "idle") /\ wdManaged /\ wdLock = WdNobody
  /\ \E want \in WdVariants \cup {Off} :
       IF want = Off /\ ~IsAlive(wdInst)
       THEN /\ wdWant # Off /\ wdWant' = Off /\ wdLeft' = FALSE /\ UNCHANGED wdDo
       ELSE /\ wdDo' = [wdDo EXCEPT !["user"] = [WdIdle EXCEPT !.pc = IF want = Off THEN "take" ELSE "check", !.want = want]]
            /\ UNCHANGED <<wdWant, wdLeft>>
  /\ UNCHANGED <<wdInst, wdLock, wdProc, wdManaged, wdFails>>

\* start stops an instance first, which is looked for again by stop.
WdChecks ==
  /\ WdAt("user", "check") /\ wdLock = WdNobody
  /\ WdGoto("user", IF wdInst = 0 THEN "spawn" ELSE "take")
  /\ UNCHANGED <<wdInst, wdLock, wdProc, wdManaged, wdFails, wdWant, wdLeft>>

\* stop has nothing more to do: start goes on, for the others that is all.
WdStopped(a) ==
  IF a = "user" /\ wdDo[a].want # Off
  THEN /\ wdDo' = [wdDo EXCEPT ![a] = [@ EXCEPT !.pc = "spawn", !.proc = 0]] /\ UNCHANGED <<wdManaged, wdWant, wdLeft>>
  ELSE WdDone(a, TRUE)

\* The instance is taken; one that is not alive is dropped.
WdTakes(a) ==
  /\ WdAt(a, "take") /\ wdLock = WdNobody /\ wdInst' = 0
  /\ IF IsAlive(wdInst)
     THEN /\ wdDo' = [wdDo EXCEPT ![a] = [@ EXCEPT !.pc = "tell", !.proc = wdInst]]
          /\ UNCHANGED <<wdProc, wdManaged, wdWant, wdLeft>>
     ELSE wdProc' = Dropped(wdInst) /\ WdStopped(a)
  /\ UNCHANGED <<wdLock, wdFails>>

\* send blocks while the channel is full, and fails when the widget is gone.
CanSend(p) == Len(wdProc[p].box) < WdBuffer
Sent(p, message) == [wdProc EXCEPT ![p].box = Append(@, message)]
WdTells(a) ==
  LET p == wdDo[a].proc
  IN  /\ WdAt(a, "tell")
      /\ IF IsAlive(p) THEN /\ CanSend(p) /\ wdProc' = Sent(p, "Stop") /\ WdGoto(a, "wait")
                            /\ UNCHANGED <<wdManaged, wdWant, wdLeft>>
         ELSE wdProc' = Dropped(p) /\ WdDone(a, FALSE)
      /\ UNCHANGED <<wdInst, wdLock, wdFails>>

\* The widget has ended within half a second, or is killed.
WdWaits(a) ==
  LET p == wdDo[a].proc
  IN  /\ WdAt(a, "wait") /\ wdProc' = [wdProc EXCEPT ![p] = [@ EXCEPT !.pc = "gone", !.sender = FALSE]]
      /\ WdStopped(a) /\ UNCHANGED <<wdInst, wdLock, wdFails>>

\* start takes the lock, spawns the process and waits for it to connect.
WdSpawns ==
  /\ WdAt("user", "spawn") /\ wdLock = WdNobody
  /\ \/ \E p \in WdProcs :
          /\ wdProc[p].pc = "none" /\ \A q \in WdProcs : q < p => wdProc[q].pc # "none"
          /\ wdProc' = [wdProc EXCEPT ![p] = [NoWidget EXCEPT !.pc = "spawned", !.variant = wdDo["user"].want]]
          /\ wdDo' = [wdDo EXCEPT !["user"] = [@ EXCEPT !.pc = "connect", !.proc = p]] /\ wdLock' = "user"
          /\ UNCHANGED <<wdFails, wdManaged, wdWant, wdLeft>>
     \/ /\ wdFails < WdMaxFails /\ wdFails' = wdFails + 1 /\ WdDone("user", FALSE)
        /\ UNCHANGED <<wdProc, wdLock>>
  /\ UNCHANGED wdInst

\* It connects and is the instance now, or it has exited.
WdConnects ==
  LET p == wdDo["user"].proc
  IN  /\ WdAt("user", "connect") /\ wdLock' = WdNobody
      /\ \/ /\ wdProc[p].pc = "spawned" /\ ~wdProc[p].hung
            /\ wdProc' = [Dropped(wdInst) EXCEPT ![p].pc = "shown"] /\ wdInst' = p
            /\ WdDone("user", TRUE)
         \/ /\ wdProc[p].pc = "gone" /\ WdDone("user", FALSE) /\ UNCHANGED <<wdProc, wdInst>>
      /\ UNCHANGED wdFails

\* The listener of statistics sends to an instance that is alive, holding the lock.
HandleEvent ==
  /\ \/ /\ WdAt("listener", "idle") /\ wdLock = WdNobody /\ IsAlive(wdInst)
        /\ wdLock' = "listener" /\ WdGoto("listener", "tell") /\ UNCHANGED wdProc
     \/ /\ WdAt("listener", "tell") /\ wdLock' = WdNobody /\ WdGoto("listener", "idle")
        /\ IF IsAlive(wdInst) THEN CanSend(wdInst) /\ wdProc' = Sent(wdInst, "Update") ELSE UNCHANGED wdProc
  /\ UNCHANGED <<wdInst, wdManaged, wdFails, wdWant, wdLeft>>

\* cleanup_processes stops the widget; without a manager it panics.
WdCleansUp ==
  /\ WdAt("exit", "idle")
  /\ wdDo' = [wdDo EXCEPT !["exit"].pc = IF wdManaged THEN "take" ELSE "leave"]
  /\ UNCHANGED <<wdInst, wdLock, wdProc, wdManaged, wdFails, wdWant, wdLeft>>

\* The application ends, and all senders with it, whatever else was under way.
WdExits ==
  /\ WdAt("exit", "leave")
  /\ wdDo' = [a \in WdActors |-> IF a = "exit" THEN [WdIdle EXCEPT !.pc = "gone"] ELSE WdIdle]
  /\ wdProc' = [p \in WdProcs |-> [wdProc[p] EXCEPT !.sender = FALSE]]
  /\ wdInst' = 0 /\ wdLock' = WdNobody
  /\ UNCHANGED <<wdManaged, wdFails, wdWant, wdLeft>>
-------------------------------------------------------------------------------
(* The widget processes.                                                       *)

\* Mutant: a widget whose channel is disconnected stays.
DisconnectedStays(p) == FALSE

\* A widget whose sender is gone handles a Stop of its own.
Disconnected(p) == wdProc[p].box = <<>> /\ ~wdProc[p].sender

\* The receive loop: an update is shown, Stop closes the window (or exits in five seconds).
HandleMessage ==
  /\ \E p \in WdProcs :
       LET w == wdProc[p]
       IN  /\ w.pc = "shown" /\ ~w.hung
           /\ \/ /\ w.box # <<>>
                 /\ wdProc' = [wdProc EXCEPT ![p] = [w EXCEPT !.box = Tail(w.box), !.pc = IF Head(w.box) = "Stop" THEN "ending" ELSE w.pc]]
              \/ /\ Disconnected(p) /\ wdProc' = [wdProc EXCEPT ![p].pc = "ending"]
  /\ UNCHANGED <<wdInst, wdLock, wdDo, wdManaged, wdFails, wdWant, wdLeft>>

\* It ends; one that was never accepted cannot hand over its sender and panics.
WidgetEnds ==
  /\ \E p \in WdProcs :
       /\ \/ wdProc[p].pc = "ending"
          \/ wdProc[p].pc = "spawned" /\ ~wdProc[p].hung /\ (WdAt("user", "connect") => wdDo["user"].proc # p)
       /\ wdProc' = [wdProc EXCEPT ![p].pc = "gone"]
  /\ UNCHANGED <<wdInst, wdLock, wdDo, wdManaged, wdFails, wdWant, wdLeft>>

\* The user closes the widget, it crashes, or it hangs.
WidgetFails ==
  /\ wdFails < WdMaxFails /\ wdFails' = wdFails + 1 /\ wdLeft' = TRUE
  /\ \E p \in WdProcs :
       /\ wdProc[p].pc \in {"spawned", "shown"} /\ ~wdProc[p].hung
       /\ \/ wdProc' = [wdProc EXCEPT ![p].pc = "gone"]
          \/ wdProc' = [wdProc EXCEPT ![p].hung = TRUE]
  /\ UNCHANGED <<wdInst, wdLock, wdDo, wdManaged, wdWant>>

WdNext == \/ WdPatch \/ WdChecks \/ WdSpawns \/ WdConnects \/ HandleEvent \/ WdCleansUp \/ WdExits
          \/ \E a \in {"user", "exit"} : WdTakes(a) \/ WdTells(a) \/ WdWaits(a)
          \/ HandleMessage \/ WidgetEnds \/ WidgetFails

WdSpec == WdInit /\ [][WdNext]_wdVars

WdPcs == {"idle", "check", "take", "tell", "wait", "spawn", "connect", "leave", "gone"}
WdTypeOK ==
  /\ wdInst \in WdProcs \cup {0} /\ wdLock \in {WdNobody, "user", "listener"}
  /\ wdProc \in [WdProcs -> [pc : {"none", "spawned", "shown", "ending", "gone"},
                             variant : WdVariants \cup {Off}, box : Seq({"Stop", "Update"}),
                             sender : BOOLEAN, hung : BOOLEAN]]
  /\ wdDo \in [WdActors -> [pc : WdPcs, want : WdVariants \cup {Off}, proc : WdProcs \cup {0}]]
-------------------------------------------------------------------------------
\* Nothing is under way: no operation, and no widget with something left to do.
WdAtRest ==
  /\ WdAt("user", "idle") /\ WdAt("listener", "idle") /\ wdDo["exit"].pc \in {"idle", "gone"}
  /\ \A p \in WdProcs : /\ wdProc[p].pc \notin {"spawned", "ending"} \/ wdProc[p].hung
                        /\ wdProc[p].pc = "shown" /\ ~wdProc[p].hung => wdProc[p].box = <<>> /\ ~Disconnected(p)

\* No widget is left over: at rest the widgets there are, hung ones apart, are the one of
\* the configuration the last operation asked for (none if the user closed it or the
\* operation failed), known to the manager, and none once the application has ended,
\* whatever start, stop, listener and clean-up crossed.
WdNoneLeftOver ==
  LET shown == {p \in WdProcs : wdProc[p].pc = "shown" /\ ~wdProc[p].hung}
  IN  WdAtRest =>
        IF WdAt("exit", "gone") THEN shown = {}
        ELSE /\ shown \subseteq {wdInst}
             /\ ~wdLeft => {wdProc[p].variant : p \in shown} = {wdWant} \ {Off}
===============================================================================
