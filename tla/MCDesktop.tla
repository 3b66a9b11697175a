------------------------------ MODULE MCDesktop ------------------------------
(***************************************************************************)
(* One model-checking instance for the files of a user and the desktop side *)
(* of the application: its processes, hotkeys, tray and log.                 *)
(* The modules share no variable and no step: focus names the one that       *)
(* moves, chosen at the start (see MCServices).                              *)
(***************************************************************************)
EXTENDS ProfileMaterialization, MigrationModules, Hotkeys, TrayProxies,
        AppLifecycle, LogIndexer

CONSTANTS p1, p2, old, new, other, mine, absent

VARIABLE focus

-------------------------------------------------------------------------------
(* The files a user may have before the migrations.                           *)

\* A legacy item: a subscription, a local file, scripts, a merge.
MCItem(uid, type, chain, file, link, interval) ==
  [uid |-> uid, type |-> type, chain |-> chain, file |-> file, link |-> link, interval |-> interval]
MCDoc(current, chain, items) ==
  [form |-> "doc", current |-> current, chain |-> chain, globals |-> <<>>, items |-> items]
MCUids(uids) == Entry("list", uids)
MCItemsA == <<MCItem("r", "remote", MCUids(<<"s", "gone">>), "path", "none", "zero"),
              MCItem("l", "local", AbsentEntry, "path", "absolute", "none"),
              MCItem("s", "tagged", AbsentEntry, "path", "none", "none")>>
MCItemsB == <<MCItem("combined-profile", "local", Entry("null", <<>>), "url", "none", "none"),
              MCItem("l", "local", MCUids(<<"m">>), "path", "none", "none"),
              MCItem("m", "merge", AbsentEntry, "path", "none", "none")>>
MCDocs ==
  {NoFile,
   MCDoc(Entry("string", <<"r">>), MCUids(<<"s">>), MCItemsA),
   MCDoc(MCUids(<<"combined-profile", "l">>), Entry("null", <<>>), MCItemsB),
   MCDoc(MCUids(<<"gone">>), MCUids(<<"m", "gone">>), MCItemsB)}

MCVerge(language, setting, color, widget, hotkeys) ==
  [form |-> "verge", language |-> language, theme_setting |-> setting, theme_color |-> color,
   widget |-> widget, hotkeys |-> hotkeys]
MCVerges ==
  {MCVerge("zh", "red", "absent", "nested", "some"), MCVerge("en", "absent", "blue", "flat", "absent"),
   MCVerge("zh", "bare", "blue", "absent", "some")}

MCClash(mode) == [form |-> "runtime", mode |-> mode]
MCFiles(profiles, verge, clash, overrides, previous, typed) ==
  [profiles |-> profiles, bak |-> NoFile, verge |-> verge, kv |-> NoFile,
   application |-> IF typed THEN TypedApplication(verge) ELSE NoFile,
   session |-> IF typed THEN TypedSession ELSE NoFile,
   clash |-> clash, overrides |-> overrides, previous |-> previous]
\* Legacy files only, and the state the repair step is for: all typed files, with the
\* clash runtime file under the name of the typed one.
MCDisks ==
  {MCFiles(p, v, IF v.theme_setting = "bare" THEN NoFile ELSE MCClash("global"), NoFile, NoFile, FALSE) :
     p \in MCDocs, v \in MCVerges}
    \cup {MCFiles(NoFile, MCVerge("en", "absent", "blue", "flat", "absent"), MCClash("global"),
                  MCClash("script"), previous, TRUE) : previous \in {NoFile, TypedClash("direct")}}
-------------------------------------------------------------------------------
\* Hotkeys: lists that move functions, repeat a shortcut, name none or a bad one.
MCHotkey(key, func) == [key |-> key, func |-> func]
MCHotkeyLists ==
  {<<>>, <<MCHotkey("k1", "f")>>, <<MCHotkey("k1", "g"), MCHotkey("k2", "f")>>,
   <<MCHotkey("k2", "g"), MCHotkey("k2", "f"), MCHotkey("bad", "f")>>,
   <<MCHotkey("k1", "odd"), MCHotkey("k2", "g")>>}
MCLegacyHotkeys ==
  <<MCHotkey("bad", "f"), MCHotkey("k1", "f"), MCHotkey("k1", "odd"), MCHotkey("k2", "g")>>

\* Answers of the core: a group with a node that only a provider knows, and one unknown.
MCLeaf == [group |-> FALSE, all |-> <<>>, now |-> NoNode]
MCGroup(all, now) == [group |-> TRUE, all |-> all, now |-> now]
MCAnswer(all, now) ==
  [inner |-> [n \in {"GLOBAL", "DIRECT", "REJECT", "a", "g"} |->
                CASE n = "GLOBAL" -> MCGroup(<<"DIRECT", "g">>, "g")
                  [] n = "g" -> MCGroup(all, now) [] OTHER -> MCLeaf],
   providers |-> <<[name |-> "sub", vehicle |-> "Http", nodes |-> {"b"}],
                   [name |-> "default", vehicle |-> "Compatible", nodes |-> {"b", "c"}]>>]
MCAnswers == {MCAnswer(<<"a", "b">>, "a"), MCAnswer(<<"a", "c">>, "c")}

\* Queries of the log by time, level and target, and pages of their answers.
MCQueries ==
  {[stamps |-> stamps, levels |-> levels, targets |-> targets, offset |-> page[1], limit |-> page[2]] :
     stamps \in {{}, {1}, {2}, {1, 2}}, levels \in {{}, {"info"}}, targets \in {{}, {"a"}},
     page \in {<<0, 9>>, <<1, 1>>}}
-------------------------------------------------------------------------------
hotkeyVars == <<kvVars, hkVars>>
desktopVars == <<focus, vars, mmVars, hotkeyVars, tpVars, liVars, alVars>>

\* The modules that stay at rest do so in one of their initial states.
DesktopInit ==
  /\ focus \in {"materialization", "migration", "hotkeys", "storage", "tray", "logs", "processes"}
  /\ Init /\ MmInit /\ HkInit /\ TpInit /\ LiInit /\ AlInit
  /\ focus # "materialization" => ~windows /\ trouble = "fault"
  /\ focus # "migration" => mmDisk = MCFiles(NoFile, MCVerge("en", "absent", "blue", "flat", "absent"),
                                             MCClash("global"), MCClash("script"), NoFile, TRUE)
  /\ tpMode = "rule" /\ tpCore = MCAnswer(<<"a", "b">>, "a")
  /\ focus # "logs" => ~liFile.on
  /\ focus # "processes" => alPlatform = "unix" /\ alSocket = NoSocket

Materializing == focus = "materialization" /\ UNCHANGED <<focus, mmVars, hotkeyVars, tpVars, liVars, alVars>>
Migrating == focus = "migration" /\ MmNext /\ UNCHANGED <<focus, vars, hotkeyVars, tpVars, liVars, alVars>>
Registering == focus \in {"hotkeys", "storage"} /\ HkNext /\ UNCHANGED <<focus, vars, mmVars, tpVars, liVars, alVars>>
Showing == focus = "tray" /\ TpNext /\ UNCHANGED <<focus, vars, mmVars, hotkeyVars, liVars, alVars>>
Indexing == focus = "logs" /\ LiNext /\ UNCHANGED <<focus, vars, mmVars, hotkeyVars, tpVars, alVars>>
Running == focus = "processes" /\ AlNext /\ UNCHANGED <<focus, vars, mmVars, hotkeyVars, tpVars, liVars>>

DesktopNext ==
  \/ (Materializing /\ Next) \/ Migrating \/ Registering \/ Showing \/ Indexing \/ Running

DesktopSpec ==
  /\ DesktopInit /\ [][DesktopNext]_desktopVars
  /\ WF_desktopVars(Materializing /\ Working)
  /\ WF_desktopVars(Materializing /\ StartReconcile)
  /\ WF_desktopVars(Materializing /\ Restart)

\* Bound: one process is set up at a time; the other may be on its way to it, or gone.
MCOneSetUp ==
  Cardinality({p \in AlProcs :
                 alProc[p].pc \in {"resolve", "scheme", "run", "leave"} \cup AlLeaving}) <= 1

\* Bound: a clean-up meets a page that has its link, or has not asked for it yet.
MCPages ==
  \A p \in AlProcs : alProc[p].pc \in AlLeaving => alProc[p].page \in {"loading", "ready"}

\* Bound: links and failures are followed together until parts of the application are up.
MCLinksApart ==
  alFails > 0 => \/ \A p \in AlProcs : alProc[p].link = NoLink
                 \/ \A p \in AlProcs : alProc[p].up = {}

\* Bounds: hotkeys are registered, refused and restarted with no one listening; events
\* are sent, reordered and lost with one list of hotkeys and no other application;
\* a line of the log misses the level or the target a query may name, not both.
MCDesktopBounds ==
  /\ focus = "hotkeys" => kvListener = "off" /\ \A k \in KvWebKeys : kvTable[k] = NoValue
  /\ focus = "storage" => hkTaken = {} /\ hkUp.starts <= 1 /\ Len(hkOps.list) < 2
  /\ \A i \in DOMAIN liFile.lines : liFile.lines[i].level = "info" \/ liFile.lines[i].target = "a"
  /\ MCOneSetUp /\ MCPages /\ MCLinksApart

=============================================================================
