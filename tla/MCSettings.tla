------------------------------ MODULE MCSettings -----------------------------
(***************************************************************************)
(* One model-checking instance for the settings and what follows them: the    *)
(* legacy image with the typed domains, the service a setting hands the core  *)
(* to, the ports the settings ask for, and the windows whose places they      *)
(* keep.  The modules share no variable and no step: focus names the one that *)
(* moves, chosen at the start (see MCServices).                               *)
(***************************************************************************)
EXTENDS MCLegacyVerge, ServiceControl, SessionPorts, AppWindows

VARIABLE focus

\* Strategies of ports: the two fields may ask for one port, or for any.
MCStrategies ==
  {[kind |-> "Fixed", start |-> 1], [kind |-> "Fixed", start |-> 2],
   [kind |-> "AllowFallback", start |-> 1], [kind |-> "Random", start |-> 0]}

settingVars == <<focus, vars, scVars, spVars, awVars>>

\* The modules that stay at rest do so in one of their initial states.
SettingsInit ==
  /\ focus \in {"verge", "service", "ports", "windows"}
  /\ Init /\ AwInit
  /\ ScInit /\ (focus # "service" => scOs = "absent" /\ ~scMode)
  /\ SpInit /\ (focus # "ports" => /\ spOthers = {}
                                  /\ \A f \in SpFields : spConf[f] = [kind |-> "AllowFallback", start |-> 1])

SettingsNext ==
  /\ UNCHANGED focus
  /\ \/ focus = "verge" /\ Next /\ UNCHANGED <<scVars, spVars, awVars>>
     \/ focus = "service" /\ ScNext /\ UNCHANGED <<vars, spVars, awVars>>
     \/ focus = "ports" /\ SpNext /\ UNCHANGED <<vars, scVars, awVars>>
     \/ focus = "windows" /\ AwNext /\ UNCHANGED <<vars, scVars, spVars>>

SettingsSpec == SettingsInit /\ [][SettingsNext]_settingVars

\* Bounds: of the service's troubles two together; service, ports and windows are
\* not followed after the schedules their modules except.
MCSettingsBounds ==
  /\ scOps + scFails <= 2 /\ ~scWindow /\ Len(scWatch) <= 2
  /\ ~spPatched
  /\ ~awCrossed /\ awAsks + awFails + awMoves <= 4
===============================================================================
