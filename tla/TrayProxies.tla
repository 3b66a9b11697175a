------------------------------ MODULE TrayProxies ------------------------------
(***************************************************************************)
(* The proxies of the core as the application shows them: the cache that     *)
(* fetches replace (core/clash/proxies.rs), the task that turns a change of   *)
(* it into a full or a partial update of the tray menu (core/tray/proxies.rs), *)
(* and the menu (core/tray/mod.rs).  The menu is built on the main thread; the *)
(* other threads change its items by asking the main thread, and wait for it   *)
(* with the lock of the application handle and that of the menu held.         *)
(***************************************************************************)
EXTENDS Naturals, Sequences, FiniteSets

CONSTANTS TpAnswers,    \* what the core may answer: its proxies, and those of providers
          TpModes,      \* clash modes
          TpCallers,    \* who fetches: the loop of ten seconds, a command
          TpTasks,      \* tasks that change the mode
          TpMaxChanges  \* bound: changes of the core, the mode and the selector

\* A proxy of the core's answer is a group of names with one selected, or a node.
\* A group of a picture lists its nodes, as they were resolved.
Group(name, all, now) == [name |-> name, all |-> all, now |-> now]
NoNode == "no node"
TpDefault == [fetched |-> FALSE, global |-> Group("GLOBAL", <<>>, NoNode), groups |-> <<>>]
NoAnswer == [pending |-> FALSE, picture |-> TpDefault]

\* Nodes of providers of type Http or File; a later provider wins.
ProviderProxyMap(providers) ==
  LET of(name) == {i \in DOMAIN providers : providers[i].vehicle \in {"Http", "File"} /\ name \in providers[i].nodes}
      names == {n \in UNION {providers[i].nodes : i \in DOMAIN providers} : of(n) # {}}
  IN  [n \in names |-> providers[CHOOSE i \in of(n) : \A j \in of(n) : j <= i].name]

\* The core stopped to list what providers own, and a name may be nobody's.
ResolveProxy(name, inner, provided) ==
  [name |-> name, from |-> IF name \in DOMAIN inner THEN "core"
                           ELSE IF name \in DOMAIN provided THEN provided[name] ELSE "Unknown"]

\* Proxies::fetch: the groups that GLOBAL lists, in its order; DIRECT and REJECT must exist.
TpFetched(answer) ==
  LET inner == answer.inner
      provided == ProviderProxyMap(answer.providers)
      group(name) == Group(name, [i \in DOMAIN inner[name].all |->
                                    ResolveProxy(inner[name].all[i], inner, provided)], inner[name].now)
      groups == IF "GLOBAL" \in DOMAIN inner /\ inner["GLOBAL"].group
                THEN SelectSeq(inner["GLOBAL"].all, LAMBDA n : n \in DOMAIN inner /\ inner[n].group)
                ELSE <<>>
  IN  [fetched |-> TRUE, groups |-> [i \in DOMAIN groups |-> group(groups[i])],
       global |-> IF "GLOBAL" \in DOMAIN inner THEN group("GLOBAL") ELSE TpDefault.global]
TpFetchable(answer) == {"DIRECT", "REJECT"} \subseteq DOMAIN answer.inner

VARIABLES tpCore,    \* what the core answers
          tpMode,    \* Config::clash()
          tpShown,   \* the selector of the tray is not hidden
          tpCache,   \* ProxiesGuard
          tpFetch,   \* answers on their way to each caller
          tpSignal,  \* the receiver has a signal to take
          tpRecv,    \* proxies_updated_receiver: its holder and the actions it has to do
          tpThread,  \* where the receiver and the tasks of change_clash_mode are
          tpRead,    \* the mode each task read
          tpMain,    \* the main thread: where it is, the tree it built, the mode it read
          tpRebuild, \* update_systray is queued for the main thread
          tpLock,    \* who holds the application handle and the menu
          tpMenu,    \* the menu: its groups, its checked nodes, its checked mode
          tpChanges, \* bound
          tpWindow   \* history: the menu may lag behind, and why

tpVars == <<tpCore, tpMode, tpShown, tpCache, tpFetch, tpSignal, tpRecv, tpThread, tpRead,
            tpMain, tpRebuild, tpLock, tpMenu, tpChanges, tpWindow>>

TpThreads == {"receiver"} \cup TpTasks
Free == "free"
ASSUME TpAssumption == TpTasks \cap {"receiver", Free} = {}
-------------------------------------------------------------------------------
\* A tray is an IndexMap: a name that comes again keeps its place and gets the new item.
IndexMapOf(items) ==
  LET of(n) == {i \in DOMAIN items : items[i].name = n}
      first(n) == CHOOSE i \in of(n) : \A j \in of(n) : i <= j
      last(n) == CHOOSE i \in of(n) : \A j \in of(n) : j <= i
  IN  [n \in {items[i].name : i \in DOMAIN items} |->
         [at |-> Cardinality({items[i].name : i \in 1..(first(n) - 1)}),
          all |-> [j \in DOMAIN items[last(n)].all |-> items[last(n)].all[j].name], now |-> items[last(n)].now]]
NoTray == IndexMapOf(<<>>)

\* In direct mode no group is shown, in global mode the global one comes first.
ToTrayProxies(mode, picture) ==
  IF mode \notin {"global", "rule", "script"} THEN NoTray
  ELSE IndexMapOf((IF mode = "global" \/ ~picture.fetched
                   THEN <<[picture.global EXCEPT !.name = "global"]>> ELSE <<>>) \o picture.groups)

TpTree(tray) == [n \in DOMAIN tray |-> <<tray[n].at, tray[n].all>>]

\* Full when the groups or their nodes differ, else one action per other selection.
DiffProxies(old, new) ==
  IF TpTree(old) # TpTree(new) THEN [is |-> "full", actions |-> {}]
  ELSE [is |-> "part",
        actions |-> {<<n, old[n].now, new[n].now>> : n \in {m \in DOMAIN new : new[m].now # old[m].now}}]

MenuHas(tree, group, node) ==
  group \in DOMAIN tree /\ \E j \in DOMAIN tree[group][2] : tree[group][2][j] = node

\* Menu items of a tray, with what is selected checked.
MenuOf(tray, mode) ==
  [tree |-> TpTree(tray), mode |-> mode,
   marks |-> {m \in {<<n, tray[n].now>> : n \in DOMAIN tray} : MenuHas(TpTree(tray), m[1], m[2])}]

\* update_selected_proxies: items that are not found are logged.
Selected(menu, actions) ==
  [menu EXCEPT !.marks = {m \in @ : \A a \in actions : m # <<a[1], a[2]>>}
                           \cup {<<a[1], a[3]>> : a \in {x \in actions : MenuHas(menu.tree, x[1], x[3])}}]

ShownTray == IF tpShown THEN ToTrayProxies(tpMode, tpCache) ELSE NoTray

TpInit ==
  /\ tpCore \in TpAnswers /\ tpMode \in TpModes /\ tpShown = TRUE
  /\ tpCache = TpDefault /\ tpFetch = [c \in TpCallers |-> NoAnswer] /\ tpSignal = FALSE
  /\ tpRecv = [holder |-> NoTray, actions |-> {}]
  /\ tpThread = [t \in TpThreads |-> IF t = "receiver" THEN "off" ELSE "idle"]
  /\ tpRead = [t \in TpTasks |-> tpMode]
  /\ tpMain = [pc |-> "idle", tray |-> NoTray, mode |-> tpMode]
  /\ tpRebuild = FALSE /\ tpLock = [app |-> Free, menu |-> Free]
  \* resolve_setup has built the menu before it starts the tasks.
  /\ tpMenu = MenuOf(ToTrayProxies(tpMode, TpDefault), tpMode)
  /\ tpChanges = 0 /\ tpWindow = {}
-------------------------------------------------------------------------------
\* The core: a selection, a reload, another configuration.
TpCoreChanges ==
  /\ tpChanges < TpMaxChanges /\ tpChanges' = tpChanges + 1
  /\ tpCore' \in TpAnswers \ {tpCore}
  /\ UNCHANGED <<tpMode, tpShown, tpCache, tpFetch, tpSignal, tpRecv, tpThread, tpRead, tpMain,
                 tpRebuild, tpLock, tpMenu, tpWindow>>

\* ProxiesGuardExt::update: the core answers, the answer arrives later or never.
TpFetches ==
  /\ \E c \in TpCallers :
       /\ ~tpFetch[c].pending /\ TpFetchable(tpCore)
       /\ tpFetch' = [tpFetch EXCEPT ![c] = [pending |-> TRUE, picture |-> TpFetched(tpCore)]]
  /\ UNCHANGED <<tpCore, tpMode, tpShown, tpCache, tpSignal, tpRecv, tpThread, tpRead, tpMain,
                 tpRebuild, tpLock, tpMenu, tpChanges, tpWindow>>

\* select_proxy changes the core and then updates like the others.
SelectProxy ==
  /\ tpChanges < TpMaxChanges /\ tpChanges' = tpChanges + 1
  /\ \E c \in TpCallers :
       /\ ~tpFetch[c].pending
       /\ \E g \in DOMAIN tpCore.inner :
            /\ tpCore.inner[g].group
            /\ \E i \in DOMAIN tpCore.inner[g].all :
                 /\ tpCore.inner[g].all[i] # tpCore.inner[g].now
                 /\ tpCore' = [tpCore EXCEPT !.inner[g].now = tpCore.inner[g].all[i]]
       /\ TpFetchable(tpCore')
       /\ tpFetch' = [tpFetch EXCEPT ![c] = [pending |-> TRUE, picture |-> TpFetched(tpCore')]]
  /\ UNCHANGED <<tpMode, tpShown, tpCache, tpSignal, tpRecv, tpThread, tpRead, tpMain,
                 tpRebuild, tpLock, tpMenu, tpWindow>>

\* An answer whose checksum is that of the cache changes nothing.
TpAnswer ==
  /\ \E c \in TpCallers :
       /\ tpFetch[c].pending /\ tpFetch' = [tpFetch EXCEPT ![c] = NoAnswer]
       /\ \/ UNCHANGED <<tpCache, tpSignal>>      \* the request failed
          \/ /\ tpFetch[c].picture # tpCache
             /\ tpCache' = tpFetch[c].picture
             /\ tpSignal' = (tpThread["receiver"] # "off")
  /\ UNCHANGED <<tpCore, tpMode, tpShown, tpRecv, tpThread, tpRead, tpMain, tpRebuild, tpLock,
                 tpMenu, tpChanges, tpWindow>>

\* The receiver subscribes and reads the cache at once, after the menu was built.
TpReceiverStarts ==
  /\ tpThread["receiver"] = "off" /\ tpThread' = [tpThread EXCEPT !["receiver"] = "idle"]
  /\ tpRecv' = [tpRecv EXCEPT !.holder = ToTrayProxies(tpMode, tpCache)]
  /\ tpWindow' = IF tpCache # TpDefault THEN tpWindow \cup {"late"} ELSE tpWindow
  /\ UNCHANGED <<tpCore, tpMode, tpShown, tpCache, tpFetch, tpSignal, tpRead, tpMain,
                 tpRebuild, tpLock, tpMenu, tpChanges>>

\* It takes a signal when it can have the handle.  With the selector hidden it leaves
\* its holder alone; a full update is queued, a partial one has to take the locks.
TpReceive ==
  /\ tpThread["receiver"] = "idle" /\ tpSignal /\ tpLock.app = Free
  /\ tpSignal' = FALSE
  /\ LET tray == ToTrayProxies(tpMode, tpCache)
         diff == DiffProxies(tpRecv.holder, tray)
         same == diff.is = "part" /\ diff.actions = {}
     IN  IF ~tpShown \/ same THEN UNCHANGED <<tpRecv, tpThread, tpRebuild>>
         ELSE /\ tpRecv' = [holder |-> tray, actions |-> diff.actions]
              /\ tpThread' = [tpThread EXCEPT !["receiver"] = IF diff.is = "part" THEN "lock" ELSE @]
              /\ tpRebuild' = (tpRebuild \/ diff.is = "full")
  /\ UNCHANGED <<tpCore, tpMode, tpShown, tpCache, tpFetch, tpRead, tpMain, tpLock,
                 tpMenu, tpChanges, tpWindow>>

\* change_clash_mode, after the core took the mode; the fetch it asks for is any other.
ChangeClashMode ==
  /\ tpChanges < TpMaxChanges /\ tpChanges' = tpChanges + 1
  /\ \E t \in TpTasks, m \in TpModes \ {tpMode} :
       /\ tpThread[t] = "idle" /\ tpThread' = [tpThread EXCEPT ![t] = "lock"]
       /\ tpMode' = m
  \* No signal comes of a mode: the groups of the menu wait for the next one.
  /\ tpWindow' = tpWindow \cup {"mode"}
  /\ UNCHANGED <<tpCore, tpShown, tpCache, tpFetch, tpSignal, tpRecv, tpRead, tpMain,
                 tpRebuild, tpLock, tpMenu>>

\* A patch that shows or hides the selector has the menu rebuilt.
ChangeSelector ==
  /\ tpChanges < TpMaxChanges /\ tpChanges' = tpChanges + 1
  /\ tpShown' = ~tpShown /\ tpRebuild' = TRUE
  /\ UNCHANGED <<tpCore, tpMode, tpCache, tpFetch, tpSignal, tpRecv, tpThread, tpRead,
                 tpMain, tpLock, tpMenu, tpWindow>>

\* Mutant: a task locks the menu before it has the handle.
TpMenuFirst(t) == IF t = "receiver" THEN IF tpLock.app = t THEN "menu" ELSE "app"
                  ELSE IF tpLock.menu = t THEN "app" ELSE "menu"

\* A thread takes the handle, then the menu; a task reads the mode in between.
TpNextLock(t) == IF tpLock.app = t THEN "menu" ELSE "app"

TpTakeLock ==
  /\ \E t \in TpThreads :
       /\ tpThread[t] = "lock" /\ tpLock[TpNextLock(t)] = Free
       /\ tpLock' = [tpLock EXCEPT ![TpNextLock(t)] = t]
       /\ tpThread' = [tpThread EXCEPT ![t] = IF t \in {tpLock.app, tpLock.menu} THEN "ask" ELSE @]
       /\ tpRead' = IF t \in TpTasks /\ TpNextLock(t) = "app" THEN [tpRead EXCEPT ![t] = tpMode] ELSE tpRead
  /\ UNCHANGED <<tpCore, tpMode, tpShown, tpCache, tpFetch, tpSignal, tpRecv, tpMain,
                 tpRebuild, tpMenu, tpChanges, tpWindow>>

\* The main thread changes the items a thread asks for; the thread lets go of the locks.
TpMainServes ==
  /\ tpMain.pc = "idle"
  /\ \E t \in TpThreads :
       /\ tpThread[t] = "ask" /\ tpThread' = [tpThread EXCEPT ![t] = "idle"]
       /\ tpMenu' = IF t = "receiver" THEN Selected(tpMenu, tpRecv.actions)
                    ELSE [tpMenu EXCEPT !.mode = tpRead[t]]
       /\ tpLock' = [l \in DOMAIN tpLock |-> IF tpLock[l] = t THEN Free ELSE tpLock[l]]
  /\ UNCHANGED <<tpCore, tpMode, tpShown, tpCache, tpFetch, tpSignal, tpRecv, tpRead,
                 tpMain, tpRebuild, tpChanges, tpWindow>>

\* update_systray builds a menu from the cache, sets it, and updates its checks:
\* the menu is locked for either and not in between.
TpMainBuilds ==
  /\ tpMain.pc = "idle" /\ tpRebuild /\ tpRebuild' = FALSE
  /\ tpMain' = [pc |-> "built", tray |-> ShownTray, mode |-> tpMode]
  \* The next partial update starts from a holder that is not what this menu has.
  /\ tpWindow' = IF tpShown /\ tpThread["receiver"] # "off" /\ ShownTray # tpRecv.holder
                 THEN tpWindow \cup {"overlap"} ELSE tpWindow
  /\ UNCHANGED <<tpCore, tpMode, tpShown, tpCache, tpFetch, tpSignal, tpRecv, tpThread,
                 tpRead, tpLock, tpMenu, tpChanges>>

TpMainSets ==
  /\ tpMain.pc = "built" /\ tpLock.menu = Free
  /\ tpMenu' = MenuOf(tpMain.tray, tpMenu.mode)
  /\ tpMain' = [tpMain EXCEPT !.pc = "part", !.mode = tpMode]
  /\ tpWindow' = IF tpMain.tray = ShownTray /\ (tpShown => ShownTray = tpRecv.holder) /\ ~tpRebuild
                 THEN {} ELSE tpWindow
  /\ UNCHANGED <<tpCore, tpMode, tpShown, tpCache, tpFetch, tpSignal, tpRecv, tpThread,
                 tpRead, tpRebuild, tpLock, tpChanges>>

TpMainUpdatesPart ==
  /\ tpMain.pc = "part" /\ tpLock.menu = Free
  /\ tpMenu' = [tpMenu EXCEPT !.mode = tpMain.mode]
  /\ tpMain' = [tpMain EXCEPT !.pc = "idle", !.tray = NoTray]
  /\ UNCHANGED <<tpCore, tpMode, tpShown, tpCache, tpFetch, tpSignal, tpRecv, tpThread,
                 tpRead, tpRebuild, tpLock, tpChanges, tpWindow>>

\* A hotkey, a deep link or a path of resources: the main thread wants the handle.
TpMainUsesHandle ==
  /\ tpMain' = [tpMain EXCEPT !.pc = IF @ = "idle" THEN "handle" ELSE "idle"]
  /\ tpMain.pc \in {"idle", "handle"} /\ (tpMain.pc = "handle" => tpLock.app = Free)
  /\ UNCHANGED <<tpCore, tpMode, tpShown, tpCache, tpFetch, tpSignal, tpRecv, tpThread,
                 tpRead, tpRebuild, tpLock, tpMenu, tpChanges, tpWindow>>

TpNext ==
  \/ TpCoreChanges \/ TpFetches \/ SelectProxy \/ TpAnswer \/ TpReceiverStarts \/ TpReceive
  \/ ChangeClashMode \/ ChangeSelector \/ TpTakeLock
  \/ TpMainServes \/ TpMainBuilds \/ TpMainSets \/ TpMainUpdatesPart \/ TpMainUsesHandle
-------------------------------------------------------------------------------
\* Types of the cache, the threads, the locks and the menu.
TpTypeOK ==
  /\ DOMAIN tpCache = DOMAIN TpDefault /\ tpMode \in TpModes
  /\ tpThread \in [TpThreads -> {"off", "idle", "lock", "ask"}]
  /\ tpMain.pc \in {"idle", "built", "part", "handle"}
  /\ tpLock \in [{"app", "menu"} -> TpThreads \cup {Free}]

TpQuiet ==
  /\ \A t \in TpThreads : tpThread[t] = "idle"
  /\ tpMain.pc = "idle" /\ ~tpRebuild /\ ~tpSignal

(* When nothing is left to be done, the menu shows the groups of the mode in force  *)
(* with the selections of the cache and no others, and the mode in force is checked, *)
(* whatever fetches, selections, reloads, rebuilds and partial updates overlapped.    *)
(* The groups may be those of before after a change of the mode alone, when a rebuild *)
(* and a partial update crossed, and when the first fetch was faster than the receiver. *)
TpMenuShows ==
  TpQuiet => /\ tpMenu.mode = tpMode
             /\ tpWindow = {} => tpMenu = MenuOf(ShownTray, tpMode)

\* A thread asks the main thread for an item while that waits for its locks.
TpStandoff ==
  \E t \in TpThreads :
    /\ tpThread[t] = "ask"
    /\ \/ tpMain.pc \in {"built", "part"} /\ tpLock.menu = t
       \/ tpMain.pc = "handle" /\ tpLock.app = t

(* The threads that change the tray wait for each other only in one way: the main    *)
(* thread for a lock of a thread that waits for the main thread.                    *)
TpOnlyStandoff ==
  \/ \A t \in TpThreads : tpThread[t] \in {"off", "idle"}
  \/ \E t \in TpThreads : tpThread[t] = "lock" /\ tpLock[TpNextLock(t)] = Free
  \/ tpMain.pc = "idle" /\ \E t \in TpThreads : tpThread[t] = "ask"
  \/ tpMain.pc \in {"built", "part"} /\ tpLock.menu = Free
  \/ tpMain.pc = "handle" /\ tpLock.app = Free
  \/ TpStandoff

(* The tray ends up showing what it should, and whatever keeps its threads from that  *)
(* is the one standoff with the main thread.                                        *)
TpTraySound == TpMenuShows /\ TpOnlyStandoff
================================================================================
