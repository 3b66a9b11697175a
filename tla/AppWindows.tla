------------------------------- MODULE AppWindows -------------------------------
(***************************************************************************)
(* The windows of the application: WindowManager and AppWindow               *)
(* (window.rs), the main, editor and tray menu windows (utils/resolve.rs)    *)
(* and the events of the main window (lib.rs).  Windows are asked for on the *)
(* main thread, except by the deep link listener, which has a thread of its  *)
(* own and needs the main thread only to build; while a creation runs on the *)
(* main thread no event is handled there.                                    *)
(***************************************************************************)
EXTENDS Naturals, FiniteSets

CONSTANTS AwBases,    \* kinds of windows: some of DOMAIN AwConfig
          AwMaxAsks,  \* bound: windows asked for
          AwMaxFails, \* bound: windows that fail to build
          AwMaxMoves  \* bound: changes of geometry and of monitors

VARIABLES awRecords,  \* WindowManager.instances: the labels recorded
          awWins,     \* the webview windows that exist, by label
          awThread,   \* each creation: where it is, the kind and label it creates
          awSaved,    \* window_size_state of the main window
          awFar,      \* the second monitor is there
          awMenu,     \* TRAY_MENU_PERSISTENT, _READY and whether blur is ignored still
          awTimer,    \* the timeout that shows the first main window is pending
          awAsks, awFails, awMoves, \* bounds
          awWanted,   \* history: kinds that were opened and not closed since
          awCrossed   \* history: two creations under way have the same label

awVars == <<awRecords, awWins, awThread, awSaved, awFar, awMenu, awTimer, awAsks, awFails,
            awMoves, awWanted, awCrossed>>

\* WindowConfig: what the kinds of windows differ in, and whether geometry is remembered.
WindowConfig(singleton, visible, remembers) ==
  [singleton |-> singleton, visible |-> visible, remembers |-> remembers]
MainWindow == WindowConfig(TRUE, FALSE, TRUE)
\* A profile editor is not a singleton: its label is that of the profile, and further
\* ones are numbered.
EditorWindow(type) == WindowConfig(type = "css", TRUE, FALSE)
TrayMenuWindow == WindowConfig(TRUE, FALSE, FALSE)
AwConfig == [main |-> MainWindow, tray |-> TrayMenuWindow,
             css |-> EditorWindow("css"), profile |-> EditorWindow("profile")]

\* There are no other kinds of windows; the bound is a number.
ASSUME AwBasesAssumption == AwBases \subseteq DOMAIN AwConfig
ASSUME AwMaxAsksAssumption == AwMaxAsks \in Nat

AwNumbers == 0..(AwMaxAsks - 1)
AwLabels == AwBases \X AwNumbers
NoLabel == <<>>
NoGeometry == [size |-> "none", mode |-> "normal", pos |-> "near", minimized |-> FALSE]
AwDefault == [NoGeometry EXCEPT !.size = "ok"]
AwIdle == [pc |-> "idle", base |-> "main", label |-> NoLabel]
AwThreads == {"main", "link"}
MainFree == awThread["main"].pc = "idle"

AwInit ==
  /\ awRecords = {} /\ awWins = [l \in {} |-> AwDefault]
  /\ awThread = [t \in AwThreads |-> AwIdle]
  /\ awSaved = NoGeometry /\ awFar = TRUE
  /\ awMenu = [persistent |-> FALSE, ready |-> FALSE, grace |-> FALSE]
  /\ awTimer = FALSE /\ awAsks = 0 /\ awFails = 0 /\ awMoves = 0
  /\ awWanted = {} /\ awCrossed = FALSE
-------------------------------------------------------------------------------
(* create_with_params.                                                        *)

AwShown(l) == [awWins EXCEPT ![l].visible = TRUE]

\* create_window and create_editor_window: setup, tray, hotkeys and commands on the main
\* thread, a deep link on its own. (The first main window has a timer.)
CreateWindow ==
  /\ awAsks < AwMaxAsks /\ awAsks' = awAsks + 1
  /\ \E t \in AwThreads, b \in AwBases \ {"tray"} :
       /\ awThread[t].pc = "idle" /\ (t = "link" => b = "main")
       /\ awThread' = [awThread EXCEPT ![t] = [pc |-> "clean", base |-> b, label |-> NoLabel]]
       /\ awTimer' = (awTimer \/ (awAsks = 0 /\ t = "main" /\ b = "main"))
  /\ UNCHANGED <<awRecords, awWins, awSaved, awFar, awMenu, awFails, awMoves, awWanted, awCrossed>>

\* show_tray_menu_window: an existing one is shown, otherwise it is created first.
ShowTrayMenuWindow ==
  /\ "tray" \in AwBases /\ MainFree /\ awAsks < AwMaxAsks /\ awAsks' = awAsks + 1
  /\ awMenu' = [persistent |-> FALSE, ready |-> FALSE, grace |-> TRUE]
  /\ IF <<"tray", 0>> \in DOMAIN awWins
     THEN /\ awWins' = AwShown(<<"tray", 0>>) /\ awWanted' = awWanted \cup {"tray"} /\ UNCHANGED awThread
     ELSE /\ awThread' = [awThread EXCEPT !["main"] = [pc |-> "clean", base |-> "tray", label |-> NoLabel]]
          /\ UNCHANGED <<awWins, awWanted>>
  /\ UNCHANGED <<awRecords, awSaved, awFar, awTimer, awFails, awMoves, awCrossed>>

\* create_debug_tray_menu_window
CreateDebugTrayMenuWindow ==
  /\ "tray" \in AwBases /\ MainFree /\ awAsks < AwMaxAsks /\ awAsks' = awAsks + 1
  /\ awMenu' = [awMenu EXCEPT !.persistent = TRUE, !.grace = TRUE]
  /\ awThread' = [awThread EXCEPT !["main"] = [pc |-> "clean", base |-> "tray", label |-> NoLabel]]
  /\ UNCHANGED <<awRecords, awWins, awSaved, awFar, awTimer, awFails, awMoves, awWanted, awCrossed>>

\* Mutant: records of windows that are gone stay.
StaleLabelsNone(b) == {}

\* Records of this kind without a window; one whose window is being built looks the same.
StaleLabels(b) == {l \in awRecords : l[1] = b /\ l \notin DOMAIN awWins}

\* History: another thread is still creating, or clearing away, a window of these labels.
AwCrosses(t, labels) ==
  \E o \in AwThreads \ {t} : awThread[o].pc \in {"build", "failed", "destroy"} /\ awThread[o].label \in labels

AwCleans ==
  /\ \E t \in AwThreads :
       LET stale == StaleLabels(awThread[t].base)
       IN  /\ awThread[t].pc = "clean"
           /\ awThread' = [awThread EXCEPT ![t].pc = "generate"]
           /\ awRecords' = awRecords \ stale
           /\ awCrossed' = (awCrossed \/ AwCrosses(t, stale))
  /\ UNCHANGED <<awWins, awSaved, awFar, awMenu, awTimer, awAsks, awFails, awMoves, awWanted>>

\* generate_label: the first number that is free, none for a singleton that is recorded.
FreeLabel(b) ==
  LET free == {n \in AwNumbers : <<b, n>> \notin awRecords}
  IN  <<b, CHOOSE n \in free : \A m \in free : n <= m>>
AwGenerates ==
  /\ \E t \in AwThreads :
       LET b == awThread[t].base
           recorded == \E l \in awRecords : l[1] = b
       IN  /\ awThread[t].pc = "generate"
           /\ IF AwConfig[b].singleton /\ recorded
              THEN /\ awWins' = IF <<b, 0>> \in DOMAIN awWins THEN AwShown(<<b, 0>>) ELSE awWins
                   /\ awThread' = [awThread EXCEPT ![t] = AwIdle]
                   /\ awWanted' = awWanted \cup {b} /\ UNCHANGED <<awRecords, awCrossed>>
              ELSE /\ awRecords' = awRecords \cup {FreeLabel(b)}
                   /\ awThread' = [awThread EXCEPT ![t].pc = "build", ![t].label = FreeLabel(b)]
                   /\ awCrossed' = (awCrossed \/ AwCrosses(t, {FreeLabel(b)}))
                   /\ UNCHANGED <<awWins, awWanted>>
  /\ UNCHANGED <<awSaved, awFar, awMenu, awTimer, awAsks, awFails, awMoves>>

\* The geometry of a new window: what was saved, no smaller than the minimum, and in the
\* centre when it would not be on the monitor.
RestoredGeometry(b) ==
  IF ~AwConfig[b].remembers \/ awSaved = NoGeometry THEN AwDefault
  ELSE [awSaved EXCEPT !.size = IF @ = "zero" THEN "min" ELSE @,
                       !.pos = IF @ = "far" /\ ~awFar THEN "near" ELSE @]

\* build fails for a label that has a window, and otherwise may, with or without leaving one.
AwBuilds ==
  /\ \E t \in AwThreads :
       LET b == awThread[t].base
           l == awThread[t].label
           geometry == RestoredGeometry(b)
           win == [visible |-> AwConfig[b].visible, handler |-> FALSE, opened |-> geometry, now |-> geometry]
           built == [m \in DOMAIN awWins \cup {l} |-> IF m = l THEN win ELSE awWins[m]]
       IN  /\ awThread[t].pc = "build" /\ (t = "main" \/ MainFree)
           /\ \/ /\ l \notin DOMAIN awWins /\ awWins' = built /\ awWanted' = awWanted \cup {b}
                 /\ awThread' = [awThread EXCEPT ![t].pc = "register"] /\ UNCHANGED awFails
              \/ /\ l \in DOMAIN awWins \/ awFails < AwMaxFails
                 /\ awFails' = IF l \in DOMAIN awWins THEN awFails ELSE awFails + 1
                 /\ awWins' \in IF l \in DOMAIN awWins THEN {awWins} ELSE {awWins, built}
                 /\ awThread' = [awThread EXCEPT ![t].pc = "failed"] /\ UNCHANGED awWanted
  /\ UNCHANGED <<awRecords, awSaved, awFar, awMenu, awTimer, awAsks, awMoves, awCrossed>>

\* The handler that removes the record with the window; the tray menu is shown now.
AwRegisters ==
  /\ \E t \in AwThreads :
       LET l == awThread[t].label
       IN  /\ awThread[t].pc = "register" /\ awThread' = [awThread EXCEPT ![t] = AwIdle]
           /\ awWins' = IF l \notin DOMAIN awWins THEN awWins
                        ELSE [awWins EXCEPT ![l].handler = TRUE, ![l].visible = @ \/ l[1] = "tray"]
  /\ UNCHANGED <<awRecords, awSaved, awFar, awMenu, awTimer, awAsks, awFails, awMoves, awWanted, awCrossed>>

\* What is left when windows are destroyed: their records go with those that have a handler.
AwDestroyed(labels) ==
  /\ awWins' = [l \in DOMAIN awWins \ labels |-> awWins[l]]
  /\ awRecords' = awRecords \ {l \in labels \cap DOMAIN awWins : awWins[l].handler}

\* History: the kinds wanted once this window is closed or failed.
AwStillOpen(l) == IF \E m \in DOMAIN awWins \ {l} : m[1] = l[1] THEN awWanted ELSE awWanted \ {l[1]}

\* The record of a window that failed goes, and a window of that label with it.
AwFailsToCreate ==
  /\ \E t \in AwThreads :
       LET l == awThread[t].label
       IN  /\ awThread' = [awThread EXCEPT ![t] = IF @.pc = "failed" THEN [@ EXCEPT !.pc = "destroy"] ELSE AwIdle]
           /\ \/ /\ awThread[t].pc = "failed" /\ awRecords' = awRecords \ {l}
                 /\ UNCHANGED <<awWins, awWanted>>
              \/ /\ awThread[t].pc = "destroy" /\ AwDestroyed({l})
                 /\ awWanted' = AwStillOpen(l)
  /\ UNCHANGED <<awSaved, awFar, awMenu, awTimer, awAsks, awFails, awMoves, awCrossed>>
-------------------------------------------------------------------------------
(* Events of the windows, on the main thread.                                  *)

\* save_state: not for a minimized window, nor for a normal one that has no size; what
\* is saved of a maximized window is only that it is.
SavedState(g) ==
  IF g.minimized \/ (g.size = "zero" /\ g.mode = "normal") THEN awSaved
  ELSE IF g.mode = "maximized" THEN [size |-> "zero", mode |-> g.mode, pos |-> "near", minimized |-> FALSE]
  ELSE g

\* CloseRequested saves the state of the main window; close_by_label, close_all.
AwCloses ==
  /\ MainFree
  /\ \E l \in DOMAIN awWins :
       /\ AwDestroyed({l})
       /\ awSaved' = IF l = <<"main", 0>> THEN SavedState(awWins[l].now) ELSE awSaved
       /\ awWanted' = AwStillOpen(l)
  /\ UNCHANGED <<awThread, awFar, awMenu, awTimer, awAsks, awFails, awMoves, awCrossed>>

\* The user, or the system while it shuts down, changes the geometry of the main window:
\* Moved and Resized save it.
AwMoves ==
  /\ MainFree /\ awMoves < AwMaxMoves /\ awMoves' = awMoves + 1
  /\ <<"main", 0>> \in DOMAIN awWins
  /\ \E size \in {"ok", "zero"}, mode \in {"normal", "maximized", "fullscreen"},
        pos \in IF awFar THEN {"near", "far"} ELSE {"near"}, minimized \in BOOLEAN :
       LET g == [size |-> size, mode |-> mode, pos |-> pos, minimized |-> minimized]
       IN  /\ awWins' = [awWins EXCEPT ![<<"main", 0>>].now = g]
           /\ awSaved' = SavedState(g)
  /\ UNCHANGED <<awRecords, awThread, awFar, awMenu, awTimer, awAsks, awFails, awWanted, awCrossed>>

\* The second monitor is taken away; its windows move to the first.
AwUnplugs ==
  /\ MainFree /\ awFar /\ awFar' = FALSE
  /\ awMoves < AwMaxMoves /\ awMoves' = awMoves + 1
  /\ awWins' = [l \in DOMAIN awWins |-> [awWins[l] EXCEPT !.now.pos = "near", !.opened.pos = "near"]]
  /\ UNCHANGED <<awRecords, awThread, awSaved, awMenu, awTimer, awAsks, awFails, awWanted, awCrossed>>

\* The frontend of the main window is ready and shows it, or the timeout does.
AwReady ==
  /\ MainFree
  /\ \/ /\ <<"main", 0>> \in DOMAIN awWins /\ ~awWins[<<"main", 0>>].visible
        /\ awWins' = AwShown(<<"main", 0>>) /\ UNCHANGED awTimer
     \/ /\ awTimer /\ awTimer' = FALSE
        /\ awWins' = IF <<"main", 0>> \in DOMAIN awWins THEN AwShown(<<"main", 0>>) ELSE awWins
  /\ UNCHANGED <<awRecords, awThread, awSaved, awFar, awMenu, awAsks, awFails, awMoves, awWanted, awCrossed>>

\* Focused events of the tray menu: blur is ignored for a while after it is shown or
\* focused and until it was focused once; then the menu is hidden or closed.
TrayMenuFocused ==
  /\ MainFree /\ <<"tray", 0>> \in DOMAIN awWins /\ awWins[<<"tray", 0>>].visible
  /\ \/ /\ awMenu' = [awMenu EXCEPT !.ready = TRUE, !.grace = TRUE]
        /\ UNCHANGED <<awWins, awRecords, awWanted>>
     \/ /\ awMenu.grace /\ awMenu' = [awMenu EXCEPT !.grace = FALSE]
        /\ UNCHANGED <<awWins, awRecords, awWanted>>
     \/ /\ ~awMenu.grace /\ ~awMenu.persistent /\ awMenu.ready
        /\ awMenu' = [awMenu EXCEPT !.ready = FALSE] /\ awWanted' = awWanted \ {"tray"}
        /\ \/ AwDestroyed({<<"tray", 0>>})
           \/ awWins' = [awWins EXCEPT ![<<"tray", 0>>].visible = FALSE] /\ UNCHANGED awRecords
  /\ UNCHANGED <<awThread, awSaved, awFar, awTimer, awAsks, awFails, awMoves, awCrossed>>

AwNext == \/ CreateWindow \/ ShowTrayMenuWindow \/ CreateDebugTrayMenuWindow
          \/ AwCleans \/ AwGenerates \/ AwBuilds \/ AwRegisters \/ AwFailsToCreate
          \/ AwCloses \/ AwMoves \/ AwUnplugs \/ AwReady \/ TrayMenuFocused

AwSpec == AwInit /\ [][AwNext]_awVars

AwTypeOK ==
  /\ awRecords \subseteq AwLabels /\ DOMAIN awWins \subseteq AwLabels /\ awWanted \subseteq AwBases
  /\ \A t \in AwThreads : awThread[t].pc \in {"idle", "clean", "generate", "build", "register", "failed", "destroy"}
-------------------------------------------------------------------------------
\* Asking for a window opens it: once no creation is under way, every kind asked for and not
\* closed since has a window, recorded so that the next request finds it, and one only
\* of a singleton; it opened no smaller than its minimum and on a monitor that exists,
\* whatever was saved last.  The exception is a request that takes the record of a
\* window another thread is still creating for stale, and the same label for its own.
AwOpens ==
  ~awCrossed /\ (\A t \in AwThreads : awThread[t].pc = "idle") =>
    /\ \A b \in awWanted : \E l \in DOMAIN awWins : l[1] = b
    /\ DOMAIN awWins \subseteq awRecords
    /\ \A l \in DOMAIN awWins : /\ AwConfig[l[1]].singleton => l[2] = 0
                                /\ awWins[l].opened.size # "zero"
                                /\ awWins[l].opened.pos = "far" => awFar
================================================================================
