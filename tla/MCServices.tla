----------------------------- MODULE MCServices ------------------------------
(***************************************************************************)
(* One model-checking instance for the smaller services.  They share no      *)
(* variable and no step, so exploring each with the others at rest visits    *)
(* every state of each: focus names the one that moves, chosen at the start. *)
(***************************************************************************)
EXTENDS PersistentState, SystemProxy, ClashConnections, MigrationRunner,
        TaskScheduler, CoreUpdater, RuntimePipeline, WidgetManager

VARIABLE focus

serviceVars == <<psVars, soVars, ccVars, mgVars, tsVars, cuVars, plVars, wdVars>>

\* Two migration modules: two steps and one, introduced in versions 1, 2 and 1.
MCSteps == <<2, 1>>
MCIntroduced == <<<<1, 2>>, <<1>>>>

\* Memory reports: implausible without a limit, in bits, in KiB, and one that is fine.
MCReports == {[inuse |-> 90, oslimit |-> 0], [inuse |-> 9000, oslimit |-> 4],
              [inuse |-> 5 * 1024 * 1024, oslimit |-> 10], [inuse |-> 72, oslimit |-> 5]}

\* Profile documents: nothing selected; a file with a transform; compositions with
\* and without a base, with a transformed member, and with transforms only.
MCProfile(current, file, globals, valid, base, members, transforms) ==
  [current |-> current, files |-> [f \in PlFiles |-> IF f = "f1" THEN file ELSE <<>>],
   globals |-> globals, valid |-> valid,
   composition |-> [base |-> base, members |-> members, transforms |-> transforms]]
MCProfiles ==
  {MCProfile(NoProfile, <<>>, <<"t1", "t2">>, {"mode"}, NoProfile, <<"f1">>, <<>>),
   MCProfile("f1", <<"t1", "t1">>, <<>>, {"dns", "mode"}, "f2", <<"f1">>, <<>>),
   MCProfile("comp", <<"t1">>, <<>>, {}, "f1", <<"f2">>, <<>>),
   MCProfile("comp", <<"t1">>, <<>>, {"tun"}, NoProfile, <<"f1", "f2">>, <<>>),
   MCProfile("comp", <<>>, <<"t2">>, {"dns"}, "f2", <<>>, <<"t1">>)}

MCConfig(mode, proxies, extra) ==
  Mapping([f \in {"mode", "proxies", extra} |->
             CASE f = "mode" -> Scalar(mode) [] f = "proxies" -> proxies [] OTHER -> Scalar("user")])
MCRaw == {NotMapping, MCConfig("user", List(<<"a">>), "extra"),
          MCConfig("script", Scalar("odd"), "tun")}
MCOverlays ==
  {<<[op |-> "append", field |-> "proxies", value |-> List(<<"b">>)],
     [op |-> "bare", field |-> "port", value |-> Scalar("user")]>>,
   <<[op |-> "prepend", field |-> "proxies", value |-> List(<<"c">>)],
     [op |-> "filter", field |-> "proxies", value |-> List(<<"a">>)],
     [op |-> "override", field |-> "dns", value |-> Scalar("user")]>>}

Init ==
  /\ focus \in {"state", "proxy", "pac", "launch", "streams", "history",
              "migration", "tasks", "updater", "pipeline", "widget"}
  \* The services that stay at rest do so in one of their initial states.
  /\ PsInit /\ (focus # "state" => psKind = "file" /\ psFile = PsDefault)
  /\ SoInit /\ (focus \notin {"proxy", "pac", "launch"} => ~(soCfg.enable \/ soCfg.guard \/ soOs.enable))
  /\ CcInit /\ TsInit /\ CuInit
  /\ MgInit /\ (focus # "migration" => mgDoc = [s \in MgStep |-> "new"])
  /\ WdInit /\ (focus # "widget" => wdDo["user"] = WdIdle)
  /\ PlInit /\ (focus # "pipeline" => /\ plIn.profiles.current = NoProfile
                                     /\ ~(plIn.whitelist \/ plIn.tun \/ plIn.port))

Next ==
  /\ UNCHANGED focus
  /\ \/ focus = "state" /\ PsNext /\ UNCHANGED <<soVars, ccVars, mgVars, tsVars, cuVars, plVars, wdVars>>
     \/ focus \in {"proxy", "pac", "launch"} /\ SoNext /\ UNCHANGED <<psVars, ccVars, mgVars, tsVars, cuVars, plVars, wdVars>>
     \/ focus \in {"streams", "history"} /\ CcNext /\ UNCHANGED <<psVars, soVars, mgVars, tsVars, cuVars, plVars, wdVars>>
     \/ focus = "migration" /\ MgNext /\ UNCHANGED <<psVars, soVars, ccVars, tsVars, cuVars, plVars, wdVars>>
     \/ focus = "tasks" /\ TsNext /\ UNCHANGED <<psVars, soVars, ccVars, mgVars, cuVars, plVars, wdVars>>
     \/ focus = "updater" /\ CuNext /\ UNCHANGED <<psVars, soVars, ccVars, mgVars, tsVars, plVars, wdVars>>
     \/ focus = "pipeline" /\ PlNext /\ UNCHANGED <<psVars, soVars, ccVars, mgVars, tsVars, cuVars, wdVars>>
     \/ focus = "widget" /\ WdNext /\ UNCHANGED <<psVars, soVars, ccVars, mgVars, tsVars, cuVars, plVars>>

\* Bounds: auto-launch, PAC and the guard's ports are varied apart from each other,
\* reports and their recording apart from a mailbox with several messages, and a
\* forced migration only for the last version; a single step is the second of a module.
MCBounds ==
  /\ focus = "proxy" => ~soCfg.launch /\ ~soCfg.pac
  /\ focus = "pac" => ~soCfg.launch /\ soCfg.port = CHOOSE p \in SoPorts : TRUE
  /\ focus = "launch" => ~soCfg.guard /\ ~soCfg.pac
  /\ focus = "streams" => \A i \in 1..Len(ccBox) : ccBox[i].msg # "Update"
  /\ focus = "streams" => \A k \in CcKinds : ccRecord[k]
  /\ focus = "history" => Len(ccBox) <= 1
  /\ focus = "migration" => /\ mgRun.force => mgRun.target = 2
                          /\ mgRun.only \in {NoStep, <<1, 2>>}

Spec == Init /\ [][Next]_<<focus, serviceVars>>

=============================================================================
