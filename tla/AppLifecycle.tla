------------------------------ MODULE AppLifecycle ------------------------------
(***************************************************************************)
(* Processes of the application: the deep link socket and the single         *)
(* instance lock a starting process meets (tauri-plugin-deep-link,           *)
(* utils/init, cmds), set-up (lib.rs, setup.rs, resolve_setup), the deep     *)
(* links handed to the page of the running one (lib.rs, ipc.rs), and the way *)
(* out: quit, restart, session end (utils/help.rs, shutdown_hook.rs).        *)
(* A process is a number; the link it was started with has the same one.     *)
(* The page is the frontend's use-deep-link-import.ts.  What a running        *)
(* application keeps up is named, not modelled: system proxy, core, rebuild   *)
(* worker, widget.                                                            *)
(***************************************************************************)
EXTENDS Naturals, Sequences, FiniteSets

CONSTANTS AlProcs,     \* bound: processes there can be, 1..n
          AlPlatforms, \* some of {"unix", "windows"}
          AlMaxFails   \* bound: locks, set-ups, widgets and clean-ups that fail; commands

ASSUME AlAssumption == IsFiniteSet(AlProcs) /\ AlProcs = 1..Cardinality(AlProcs)

VARIABLES alPlatform,
          alProc,   \* each process
          alLock,   \* the single instance lock: its holder, or 0
          alSocket, \* the deep link socket: the process that listens there, none, or left behind
          alFails,  \* bound
          alDone,   \* history: links the page imported
          alLost    \* history: links known to be lost

alVars == <<alPlatform, alProc, alLock, alSocket, alFails, alDone, alLost>>

NoLink == 0
NoSocket == 0
StaleSocket == Cardinality(AlProcs) + 1
AlParts == {"proxy", "core", "worker", "widget"}
\* pc: where it is; page: of the main window; pending: PendingDeepLink; inbox: connections
\* of the listener; emit: the link it has opened the window for; up: what is up; held: of
\* proxy and widget, what the application still has to put down (old_sysproxy, the widget
\* instance); left: history, parts that are up because their last stop failed or had passed;
\* ready: SHUTDOWN_STATE, set by the first clean-up.
AlNone == [pc |-> "none", link |-> NoLink, page |-> "closed", pending |-> NoLink, inbox |-> <<>>,
           emit |-> NoLink, up |-> {}, held |-> {}, left |-> {}, listens |-> FALSE,
           managed |-> TRUE, exit |-> "quit", session |-> "idle", ready |-> FALSE]

AlInit ==
  /\ alPlatform \in AlPlatforms /\ alProc = [p \in AlProcs |-> AlNone]
  /\ alLock = 0 /\ alSocket \in (IF alPlatform = "unix" THEN {NoSocket, StaleSocket} ELSE {NoSocket})
  /\ alFails = 0 /\ alDone = {} /\ alLost = {}

\* The process moves on, and nothing else changes but what the action says.
AlMoves(p, rec) == alProc' = [alProc EXCEPT ![p] = rec]
AlAt(p, pc) == alProc[p].pc = pc

\* What may fail does, within the bound, or does not.
AlTries(ok) == /\ ok \/ alFails < AlMaxFails
               /\ alFails' = IF ok THEN alFails ELSE alFails + 1

\* A process ends: its lock is free, its socket dead; links it had not handed on are lost.
AlGone(r) == [AlNone EXCEPT !.pc = "gone", !.link = r.link, !.up = r.up, !.left = r.left]
AlEnds(p, r, also) ==
  /\ AlMoves(p, AlGone(r))
  /\ alLock' = IF alLock = p THEN 0 ELSE alLock
  /\ alSocket' = IF alSocket # p THEN alSocket ELSE IF alPlatform = "unix" THEN StaleSocket ELSE NoSocket
  /\ alLost' = alLost \cup also \cup {alProc[p].inbox[i] : i \in DOMAIN alProc[p].inbox}
                      \cup {alProc[p].pending, alProc[p].emit}
\* What is up when no clean-up has been done stays.
AlDropped(r) == [r EXCEPT !.left = r.up]
-------------------------------------------------------------------------------
(* Starting.                                                                  *)

\* The user starts the application, or opens a link.
AlStarts ==
  /\ \E p \in AlProcs, link \in BOOLEAN :
       /\ AlAt(p, "none") /\ \A q \in AlProcs : q < p => ~AlAt(q, "none")
       /\ AlMoves(p, [AlNone EXCEPT !.pc = "prepare", !.link = IF link THEN p ELSE NoLink])
  /\ UNCHANGED <<alPlatform, alLock, alSocket, alFails, alDone, alLost>>

\* prepare on unix: what was passed goes to the one who listens (nothing, too); a socket
\* that refuses is to be removed.
PrepareUnix(p) ==
  /\ alPlatform = "unix"
  /\ \/ /\ alSocket \in AlProcs
        /\ alProc' = [alProc EXCEPT ![alSocket].inbox = Append(@, alProc[p].link), ![p].pc = "gone"]
     \/ /\ alSocket \notin AlProcs
        /\ AlMoves(p, [alProc[p] EXCEPT !.pc = IF alSocket = StaleSocket THEN "refused" ELSE "lock"])

\* prepare on Windows: a second start without a link panics.
PrepareWindows(p) ==
  /\ alPlatform = "windows"
  /\ IF alSocket \in AlProcs
     THEN alProc' = IF alProc[p].link = NoLink THEN [alProc EXCEPT ![p].pc = "gone"]
                    ELSE [alProc EXCEPT ![alSocket].inbox = Append(@, alProc[p].link), ![p].pc = "gone"]
     ELSE AlMoves(p, [alProc[p] EXCEPT !.pc = "lock"])

AlPrepares ==
  /\ \E p \in AlProcs : AlAt(p, "prepare") /\ (PrepareUnix(p) \/ PrepareWindows(p))
  /\ UNCHANGED <<alPlatform, alLock, alSocket, alFails, alDone, alLost>>

\* The file is removed, whoever listens there by now.
AlRemoves ==
  /\ \E p \in AlProcs : AlAt(p, "refused") /\ AlMoves(p, [alProc[p] EXCEPT !.pc = "lock"])
  /\ alSocket' = NoSocket
  /\ UNCHANGED <<alPlatform, alLock, alFails, alDone, alLost>>

\* check_singleton: taken, given up after five tries, or failed.
CheckSingleton ==
  (IF alLock = 0 THEN {"acquired"} ELSE {"none"}) \cup (IF alFails < AlMaxFails THEN {"error"} ELSE {})

\* Another instance running ends the process; a failed check does not.
AlLocks ==
  /\ \E p \in AlProcs, result \in CheckSingleton :
       /\ AlAt(p, "lock")
       /\ IF result = "none" THEN AlEnds(p, alProc[p], {alProc[p].link})
          ELSE /\ alLock' = IF result = "acquired" THEN p ELSE alLock
               /\ AlMoves(p, [alProc[p] EXCEPT !.pc = "setup"]) /\ UNCHANGED <<alSocket, alLost>>
       /\ alFails' = IF result = "error" THEN alFails + 1 ELSE alFails
  /\ UNCHANGED <<alPlatform, alDone>>

\* The launcher of a restart waits for the lock, or gives up waiting, and starts the application.
CmdLaunch ==
  /\ \E p \in AlProcs : AlAt(p, "launch") /\ AlMoves(p, [alProc[p] EXCEPT !.pc = "prepare"])
  /\ UNCHANGED <<alPlatform, alLock, alSocket, alFails, alDone, alLost>>

\* Pending migrations, if the lock is held, and the rest of setup; an error ends the process.
AlSetsUp ==
  /\ \E p \in AlProcs, ok \in BOOLEAN :
       /\ AlAt(p, "setup") /\ AlTries(ok)
       /\ IF ok THEN AlMoves(p, [alProc[p] EXCEPT !.pc = "resolve"]) /\ UNCHANGED <<alLock, alSocket, alLost>>
                ELSE AlEnds(p, alProc[p], {alProc[p].link})
  /\ UNCHANGED <<alPlatform, alDone>>

\* resolve_setup: everything goes up, errors are logged; a widget manager whose setup
\* fails is not managed. The window opens unless the start is silent.
ResolveSetup ==
  /\ \E p \in AlProcs, silent \in BOOLEAN, widget \in BOOLEAN :
       /\ AlAt(p, "resolve") /\ AlTries(widget)
       /\ AlMoves(p, [alProc[p] EXCEPT !.pc = "scheme", !.managed = widget,
                        !.up = AlParts \ (IF widget THEN {} ELSE {"widget"}),
                        !.held = {"proxy"} \cup (IF widget THEN {"widget"} ELSE {}),
                        !.page = IF silent THEN "closed" ELSE "loading"])
  /\ UNCHANGED <<alPlatform, alLock, alSocket, alDone, alLost>>

\* A link it was started with is kept for the page; the event emitted right after the
\* window was created meets no listener: pages talk to the main thread, which is here.
SchemePending(r) ==
  IF r.link = NoLink THEN r
  ELSE [r EXCEPT !.pending = r.link, !.page = IF @ = "closed" THEN "loading" ELSE @]

\* The end of setup: the typed state takes over what resolve_setup saved; if that fails the
\* process ends as it is.  Then the listener thread is started, and the event loop.
AlRuns ==
  /\ \E p \in AlProcs, ok \in BOOLEAN :
       /\ AlAt(p, "scheme") /\ AlTries(ok)
       /\ IF ok THEN /\ AlMoves(p, [SchemePending(alProc[p]) EXCEPT !.pc = "run"])
                     /\ UNCHANGED <<alLock, alSocket, alLost>>
                ELSE AlEnds(p, AlDropped(alProc[p]), {alProc[p].link})
  /\ UNCHANGED <<alPlatform, alDone>>

\* The panic hook has the application exit.
PanicHook(r) == [r EXCEPT !.pc = "reset", !.exit = "quit"]

\* listen: the thread that cannot bind panics.
DeepLinkListens ==
  /\ \E p \in AlProcs :
       /\ AlAt(p, "run") /\ ~alProc[p].listens
       /\ IF alSocket = NoSocket
          THEN /\ AlMoves(p, [alProc[p] EXCEPT !.listens = TRUE]) /\ alSocket' = p
          ELSE /\ AlMoves(p, [PanicHook(alProc[p]) EXCEPT !.listens = TRUE]) /\ UNCHANGED alSocket
  /\ UNCHANGED <<alPlatform, alLock, alFails, alDone, alLost>>
-------------------------------------------------------------------------------
(* Deep links of a running application.                                        *)

\* The handler of a connection opens the window, then emits: is_window_opened holds always.
\* (The empty message of a second start without a link is not imported.)
SchemeRequestOpens ==
  /\ \E p \in AlProcs :
       LET r == alProc[p]
       IN  /\ AlAt(p, "run") /\ r.emit = NoLink /\ r.inbox # <<>>
           /\ AlMoves(p, [r EXCEPT !.inbox = Tail(@), !.emit = Head(r.inbox),
                                   !.page = IF @ = "closed" THEN "loading" ELSE @])
  /\ UNCHANGED <<alPlatform, alLock, alSocket, alFails, alDone, alLost>>

SchemeRequestEmits ==
  /\ \E p \in AlProcs :
       LET r == alProc[p]
           heard == r.page \in {"listening", "ready"}
       IN  /\ AlAt(p, "run") /\ r.emit # NoLink /\ AlMoves(p, [r EXCEPT !.emit = NoLink])
           /\ alDone' = IF heard THEN alDone \cup {r.emit} ELSE alDone
           /\ alLost' = IF heard THEN alLost ELSE alLost \cup {r.emit}
  /\ UNCHANGED <<alPlatform, alLock, alSocket, alFails>>

\* get_pending_deep_link takes the pending link; the page imports what it is given.
AlDrains(p, page) ==
  /\ AlMoves(p, [alProc[p] EXCEPT !.page = page, !.pending = NoLink])
  /\ alDone' = alDone \cup ({alProc[p].pending} \ {NoLink})

\* The page asks for its listener and for the pending link at once; they come in any order.
AlPageLoads ==
  /\ \E p \in AlProcs :
       LET r == alProc[p]
       IN  /\ AlAt(p, "run")
           /\ \/ r.page = "loading" /\ AlDrains(p, "drained")
              \/ r.page = "listening" /\ AlDrains(p, "ready")
              \/ r.page = "loading" /\ AlMoves(p, [r EXCEPT !.page = "listening"]) /\ UNCHANGED alDone
              \/ r.page = "drained" /\ AlMoves(p, [r EXCEPT !.page = "ready"]) /\ UNCHANGED alDone
  /\ UNCHANGED <<alPlatform, alLock, alSocket, alFails, alLost>>

\* The window is closed, which does not end the application, or opened from the tray.
AlPageToggles ==
  /\ \E p \in AlProcs :
       /\ AlAt(p, "run")
       /\ AlMoves(p, [alProc[p] EXCEPT !.page = IF @ = "closed" THEN "loading" ELSE "closed"])
  /\ UNCHANGED <<alPlatform, alLock, alSocket, alFails, alDone, alLost>>
-------------------------------------------------------------------------------
(* Leaving.                                                                    *)

AlLeaving == {"reset", "halt", "shutdown", "widget", "stop"}

\* quit_application and the panic hook: exit with a code; restart_application cleans up first;
\* the page has an update of the application preceded by a clean-up.
AlQuits ==
  /\ \E p \in AlProcs, exit \in {"quit", "restart", "cleanup"} :
       /\ AlAt(p, "run") /\ AlMoves(p, [alProc[p] EXCEPT !.pc = "reset", !.exit = exit])
  /\ UNCHANGED <<alPlatform, alLock, alSocket, alFails, alDone, alLost>>

\* The session ends: the hook holds it until a clean-up has been done ...
HookBlocks ==
  /\ alPlatform = "windows"
  /\ \E p \in AlProcs :
       /\ alProc[p].pc \in {"run"} \cup AlLeaving /\ alProc[p].session = "idle" /\ ~alProc[p].ready
       /\ AlMoves(p, [alProc[p] EXCEPT !.session = "told"])
  /\ UNCHANGED <<alPlatform, alLock, alSocket, alFails, alDone, alLost>>

\* ... the thread it told asks for the exit ...
HookAsks ==
  /\ \E p \in AlProcs :
       /\ AlAt(p, "run") /\ alProc[p].session = "told"
       /\ AlMoves(p, [alProc[p] EXCEPT !.session = "blocked", !.pc = "reset", !.exit = "quit"])
  /\ UNCHANGED <<alPlatform, alLock, alSocket, alFails, alDone, alLost>>

\* ... and once one has been done no end is held any more, whatever the application does.
HookLetsGo ==
  /\ \E p \in AlProcs :
       LET r == alProc[p]
       IN  r.ready /\ r.pc # "gone" /\ AlEnds(p, IF r.pc = "leave" THEN r ELSE AlDropped(r), {})
  /\ UNCHANGED <<alPlatform, alFails, alDone>>

\* A part that is put down once, whether that works or not (reset_sysproxy, WidgetManager.stop).
PutDown(r, part, ok) ==
  IF part \notin r.held THEN r
  ELSE [r EXCEPT !.held = @ \ {part}, !.up = IF ok THEN @ \ {part} ELSE @,
                 !.left = IF ok THEN @ \ {part} ELSE @ \cup {part}]

\* resolve_reset: the proxy goes, or the error is logged, ...
CleanupResets ==
  /\ \E p \in AlProcs, ok \in BOOLEAN :
       /\ AlAt(p, "reset") /\ AlTries(ok)
       /\ AlMoves(p, [PutDown(alProc[p], "proxy", ok) EXCEPT !.pc = "halt"])
  /\ UNCHANGED <<alPlatform, alLock, alSocket, alDone, alLost>>

\* ... and so does the core.  Without a widget manager the clean-up panics then.
CleanupHalts ==
  /\ \E p \in AlProcs, ok \in BOOLEAN :
       LET r == IF ok THEN [alProc[p] EXCEPT !.up = @ \ {"core"}, !.left = @ \ {"core"}] ELSE alProc[p]
       IN  /\ AlAt(p, "halt") /\ AlTries(ok)
           /\ IF r.managed THEN /\ AlMoves(p, [r EXCEPT !.pc = "shutdown"])
                                /\ UNCHANGED <<alLock, alSocket, alLost>>
              ELSE AlEnds(p, AlDropped(r), {})
  /\ UNCHANGED <<alPlatform, alDone>>

\* client.shutdown waits for the worker, then the widget is stopped, or the error is logged.
CleanupShutsDown ==
  /\ \E p \in AlProcs, ok \in BOOLEAN :
       LET r == alProc[p]
       IN  /\ AlTries(ok)
           /\ \/ AlAt(p, "shutdown") /\ ok /\ AlMoves(p, [r EXCEPT !.up = @ \ {"worker"}, !.pc = "widget"])
              \/ AlAt(p, "widget") /\ AlMoves(p, [PutDown(r, "widget", ok) EXCEPT !.pc = "stop"])
  /\ UNCHANGED <<alPlatform, alLock, alSocket, alDone, alLost>>

\* Mutant: the core stopped at first counts as stopped.
FinalStopNone(up) == up

\* stop_core, again: the worker may have started it.
FinalStop(up) == up \ {"core"}

\* Its error is dropped.  From now on the end of the session is not held.
CleanupStops ==
  /\ \E p \in AlProcs, ok \in BOOLEAN :
       LET r == alProc[p]
       IN  /\ AlAt(p, "stop") /\ AlTries(ok)
           /\ AlMoves(p, [r EXCEPT !.up = IF ok THEN FinalStop(@) ELSE @, !.pc = "leave",
                                   !.left = IF ok THEN @ \ {"core"} ELSE @ \cup (r.up \cap {"core"}),
                                   !.ready = alPlatform = "windows"])
  /\ UNCHANGED <<alPlatform, alLock, alSocket, alDone, alLost>>

\* The process ends; a restart has started the launcher, with the arguments it was given.
\* After a mere clean-up the application goes on, without its worker.
AlLeaves ==
  /\ \E p \in AlProcs :
       LET r == alProc[p]
       IN  /\ AlAt(p, "leave")
           /\ \/ r.exit = "quit" /\ AlEnds(p, r, {})
              \/ /\ r.exit = "restart" /\ AlEnds(p, r, {})
                 /\ \A q \in AlProcs : q > p => ~AlAt(q, "none")
              \/ \E q \in AlProcs :
                   LET ended == [alProc EXCEPT ![p] = AlGone(r)]
                   IN  /\ r.exit = "restart" /\ AlAt(q, "none")
                       /\ \A o \in AlProcs : o < q => ~AlAt(o, "none")
                       /\ alProc' = [ended EXCEPT ![q] = [AlNone EXCEPT !.pc = "launch", !.link = r.link]]
                       /\ alLock' = IF alLock = p THEN 0 ELSE alLock
                       /\ alSocket' = IF alSocket # p THEN alSocket
                                      ELSE IF alPlatform = "unix" THEN StaleSocket ELSE NoSocket
                       /\ alLost' = alLost \cup {r.inbox[i] : i \in DOMAIN r.inbox} \cup {r.pending, r.emit}
              \/ /\ r.exit = "cleanup" /\ AlMoves(p, [r EXCEPT !.pc = "run", !.exit = "quit"])
                 /\ UNCHANGED <<alLock, alSocket, alLost>>
  /\ UNCHANGED <<alPlatform, alFails, alDone>>
-------------------------------------------------------------------------------
(* What starts during the clean-up, or after a mere one.                       *)

\* The worker rebuilds and starts the core as long as it is there.
WorkerStartsCore ==
  /\ \E p \in AlProcs :
       /\ alProc[p].pc \in AlLeaving /\ "worker" \in alProc[p].up /\ "core" \notin alProc[p].up
       /\ AlMoves(p, [alProc[p] EXCEPT !.up = @ \cup {"core"}])
  /\ UNCHANGED <<alPlatform, alLock, alSocket, alFails, alDone, alLost>>

\* The parts the clean-up in progress does not stop any more.
AlPast(pc) ==
  (IF pc \in {"halt", "shutdown", "widget", "stop", "leave"} THEN {"proxy"} ELSE {})
    \cup (IF pc \in {"stop", "leave"} THEN {"widget"} ELSE {})
    \cup (IF pc = "leave" THEN {"core"} ELSE {})

\* So may a command that is still being handled, and set the proxy or start the widget.
CommandStarts ==
  /\ AlTries(FALSE)
  /\ \E p \in AlProcs, part \in {"proxy", "core", "widget"} :
       LET r == alProc[p]
       IN  /\ r.pc \in {"run", "leave"} \cup AlLeaving /\ part \notin r.up
           /\ part = "widget" => r.managed
           /\ AlMoves(p, [r EXCEPT !.up = @ \cup {part}, !.held = @ \cup ({part} \ {"core"}),
                                   !.left = @ \cup ({part} \cap AlPast(r.pc))])
  /\ UNCHANGED <<alPlatform, alLock, alSocket, alDone, alLost>>

\* The guard loop is not stopped: it sets the proxy after the reset, and no one will reset it.
GuardSetsProxy ==
  /\ \E p \in AlProcs :
       LET r == alProc[p]
       IN  /\ r.pc \in {"run", "leave"} \cup AlLeaving /\ "proxy" \notin r.up
           /\ AlMoves(p, [r EXCEPT !.up = @ \cup {"proxy"}, !.left = @ \cup {"proxy"}])
  /\ UNCHANGED <<alPlatform, alLock, alSocket, alFails, alDone, alLost>>

AlNext == \/ AlStarts \/ AlPrepares \/ AlRemoves \/ AlLocks \/ CmdLaunch \/ AlSetsUp
          \/ ResolveSetup \/ AlRuns \/ DeepLinkListens \/ SchemeRequestOpens \/ SchemeRequestEmits
          \/ AlPageLoads \/ AlPageToggles \/ AlQuits \/ HookBlocks \/ HookAsks \/ HookLetsGo
          \/ CleanupResets \/ CleanupHalts \/ CleanupShutsDown \/ CleanupStops \/ AlLeaves
          \/ WorkerStartsCore \/ CommandStarts \/ GuardSetsProxy

AlSpec == AlInit /\ [][AlNext]_alVars

AlPcs == {"none", "prepare", "refused", "lock", "setup", "resolve", "scheme", "run", "launch",
          "reset", "halt", "shutdown", "widget", "stop", "leave", "gone"}
AlTypeOK ==
  /\ alLock \in AlProcs \cup {0} /\ alSocket \in AlProcs \cup {NoSocket, StaleSocket}
  /\ alProc \in [AlProcs -> [pc : AlPcs, link : AlProcs \cup {NoLink},
                             page : {"closed", "loading", "listening", "drained", "ready"},
                             pending : AlProcs \cup {NoLink}, inbox : Seq(AlProcs \cup {NoLink}),
                             emit : AlProcs \cup {NoLink}, up : SUBSET AlParts,
                             held : SUBSET AlParts, left : SUBSET AlParts, listens : BOOLEAN,
                             managed : BOOLEAN, exit : {"quit", "restart", "cleanup"},
                             session : {"idle", "told", "blocked"}, ready : BOOLEAN]]
-------------------------------------------------------------------------------
\* Where a link still is on its way.
AlOnTheWay(link) ==
  \E p \in AlProcs :
    LET r == alProc[p]
    IN  \/ r.link = link /\ r.pc \in {"prepare", "refused", "lock", "setup", "resolve", "scheme", "launch"}
        \/ r.pc # "gone" /\ (link \in {r.pending, r.emit} \/ \E i \in DOMAIN r.inbox : r.inbox[i] = link)

\* No link gets lost silently: one the user opened is on its way, was imported, or met one
\* of the ends there are: the process that carried it gave up waiting for an application
\* that was not listening yet, or failed to start; it was emitted to a running
\* application whose page was not listening; or that application was left first.  In
\* particular a link that starts the application reaches the page however late it loads.
AlLinkArrives ==
  \A p \in AlProcs :
    alProc[p].link = p => AlOnTheWay(p) \/ p \in alDone \/ p \in alLost

\* Leaving leaves nothing behind without cause: when the process is gone, by itself or with
\* the session the hook held for its clean-up, proxy, core, worker and widget are down,
\* though the worker or a command may have started some again during the clean-up.  What
\* may stay up is a part whose last stop failed, which is logged or dropped; one a command
\* or the guard loop started after it; and all of it when no clean-up came to its end: set-up
\* failed after resolve_setup, the clean-up panicked for want of the widget manager, or the
\* session ended after a clean-up the page had asked for.
AlCleanExit == \A p \in AlProcs : AlAt(p, "gone") => alProc[p].up \subseteq alProc[p].left

\* Nothing is lost at either end of a process: no link at its start, no part at its end.
AlNothingLost == AlLinkArrives /\ AlCleanExit
================================================================================
