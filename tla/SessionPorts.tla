----------------------------- MODULE SessionPorts -----------------------------
(***************************************************************************)
(* Ports of the core: SessionPortResolver (client/ports.rs) picks a port for  *)
(* every field whose strategy changed (clash_strategy/port.rs) while a core   *)
(* of ours may be holding the ports; rebuilds carry the picks to the core;    *)
(* the legacy images that system proxy and API client read get the picks at   *)
(* boot (utils/resolve.rs) and the start ports with every typed write         *)
(* (bridge/clash.rs, config/clash/mod.rs).  A patch of the running core        *)
(* reaches it first and is checked after (feat.rs).  The two optional fields  *)
(* (http, socks) are treated as the mixed port is.                            *)
(***************************************************************************)
EXTENDS Naturals, FiniteSets

CONSTANTS SpFields,     \* some of {"mixed", "external"}
          SpPorts,      \* ports there are: numbers from 1
          SpStrategies, \* strategies of the instance, [kind, start]
          SpDefault,    \* what a legacy reader takes for port 0
          SpMaxOps      \* bound: writes, patches, other applications

ASSUME SpAssumption ==
  /\ SpPorts \subseteq Nat \ {0}
  /\ SpStrategies \subseteq [kind : {"Fixed", "Random", "AllowFallback"}, start : Nat]

VARIABLES spConf,    \* strategies of the typed configuration
          spCache,   \* the resolver's cache: fingerprint and picks
          spProduct, \* ports in the promoted product
          spCore,    \* the core: whether it runs, the ports it holds
          spOthers,  \* ports of other applications
          spLegacy,  \* mixed port and controller of the legacy images
          spRebuild, \* a rebuild is to be done
          spOps,     \* bound
          spTouched, \* history: fields resolved for another strategy since the core got its ports
          spMirrored, \* history: a typed write since boot
          spPatched  \* history: a patch moved the running core

spVars == <<spConf, spCache, spProduct, spCore, spOthers, spLegacy, spRebuild, spOps, spTouched,
            spMirrored, spPatched>>

NoPort == 0
Configs == [SpFields -> SpStrategies]
CoreHolds == IF spCore.on THEN {spCore.ports[f] : f \in SpFields} ELSE {}
-------------------------------------------------------------------------------
(* Picking.                                                                    *)

\* local_port_available, request_open_port: any port nobody listens on.
Open(others, held) == SpPorts \ (others \cup held)
\* pick_and_try_port: the ports it may return, NoPort for its errors.
PickAndTryPort(s, open) ==
  LET anyOpen == IF open = {} THEN {NoPort} ELSE open
  IN  CASE s.kind = "Fixed" -> {IF s.start \in open THEN s.start ELSE NoPort}
        [] s.kind = "Random" -> anyOpen
        [] s.kind = "AllowFallback" -> IF s.start \in open THEN {s.start} ELSE anyOpen

\* Mutant: one changed field has all of them picked again.
UnchangedAll(f, conf) == spCache.fingerprint = conf

\* A field keeps its pick while its strategy is the one it was made for.
Unchanged(f, conf) == spCache.fingerprint[f] = conf[f]

\* resolve: what it may return; NoPort for a field is its error.
Resolve(conf) ==
  LET picks(f) == IF Unchanged(f, conf) THEN {spCache.ports[f]}
                  ELSE PickAndTryPort(conf[f], Open(spOthers, CoreHolds))
  IN  {ports \in [SpFields -> SpPorts \cup {NoPort}] : \A f \in SpFields : ports[f] \in picks(f)}
Failed(ports) == \E f \in SpFields : ports[f] = NoPort

\* Boot resolves before there is a core, tells the legacy images, and has a product.
SpInit ==
  /\ spConf \in Configs /\ spOthers \in {{}, {1}}
  /\ \E ports \in [SpFields -> SpPorts] :
       /\ \A f \in SpFields : ports[f] \in PickAndTryPort(spConf[f], Open(spOthers, {}))
       /\ spCache = [fingerprint |-> spConf, ports |-> ports]
       /\ spProduct = ports /\ spLegacy = ports /\ spCore = [on |-> FALSE, ports |-> ports]
  /\ spRebuild = FALSE /\ spOps = 0 /\ spTouched = {} /\ spMirrored = FALSE /\ spPatched = FALSE
-------------------------------------------------------------------------------
\* The mirror of a typed write puts the start ports into the legacy images.
PrepareClashOverrides(conf) == [f \in SpFields |-> conf[f].start]

\* A typed write of the clash configuration, of ports or of something else, and its rebuild.
SpWrites ==
  /\ ~spRebuild /\ spOps < SpMaxOps /\ spOps' = spOps + 1
  /\ \E f \in SpFields, s \in SpStrategies : spConf' = [spConf EXCEPT ![f] = s]
  /\ spLegacy' = PrepareClashOverrides(spConf') /\ spMirrored' = TRUE /\ spRebuild' = TRUE
  /\ UNCHANGED <<spCache, spProduct, spCore, spOthers, spTouched, spPatched>>

\* The core gets the ports of the product: what was picked since, if anything, is apart.
SpTakes(ports, picked) ==
  /\ spCore' = [on |-> TRUE, ports |-> ports]
  /\ spTouched' = IF ports = picked THEN {} ELSE spTouched
  /\ spPatched' = FALSE

\* A rebuild resolves, then builds, promotes and applies, and may fail at each.
SpRebuilds ==
  /\ spRebuild /\ spRebuild' = FALSE
  /\ \E ports \in Resolve(spConf) :
       \/ Failed(ports) /\ UNCHANGED <<spCache, spProduct, spCore, spTouched, spPatched>>
       \/ /\ ~Failed(ports) /\ spCache' = [fingerprint |-> spConf, ports |-> ports]
          /\ LET touched == spTouched \cup {f \in SpFields : ~Unchanged(f, spConf)}
             IN  \/ spTouched' = touched /\ UNCHANGED <<spProduct, spCore, spPatched>>
                 \/ spProduct' = ports /\ spTouched' = touched /\ UNCHANGED <<spCore, spPatched>>
                 \/ spCore.on /\ spProduct' = ports /\ SpTakes(ports, ports)
  /\ UNCHANGED <<spConf, spOthers, spLegacy, spOps, spMirrored>>

\* A rebuild for another reason (profiles, a core switch) resolves the same configuration.
SpAsks ==
  /\ ~spRebuild /\ spOps < SpMaxOps /\ spOps' = spOps + 1 /\ spRebuild' = TRUE
  /\ UNCHANGED <<spConf, spCache, spProduct, spCore, spOthers, spLegacy, spTouched, spMirrored, spPatched>>

\* run_core starts from the product and picks nothing; stop_core.
SpCoreStarts ==
  /\ SpTakes(spProduct, spCache.ports) /\ spCore # spCore'
  /\ UNCHANGED <<spConf, spCache, spProduct, spOthers, spLegacy, spRebuild, spOps, spMirrored>>
SpCoreStops ==
  /\ spCore.on /\ spCore' = [spCore EXCEPT !.on = FALSE]
  /\ UNCHANGED <<spConf, spCache, spProduct, spOthers, spLegacy, spRebuild, spOps, spTouched, spMirrored, spPatched>>

\* patch_running_config with a mixed port: the core moves, then the port, if it is not the
\* one the legacy image names, counts as in use, for the core holds it, and the patch
\* fails; otherwise a rebuild and a restart follow.
SpPatchesRunning ==
  /\ spCore.on /\ ~spRebuild /\ "mixed" \in SpFields /\ spConf["mixed"].kind # "Random"
  /\ spOps < SpMaxOps /\ spOps' = spOps + 1
  /\ \E p \in Open(spOthers, CoreHolds) \cup {spCore.ports["mixed"]} :
       LET moved == [spCore EXCEPT !.ports["mixed"] = p]
       IN  IF p # spLegacy["mixed"]
           THEN spCore' = moved /\ spPatched' = TRUE /\ UNCHANGED <<spCache, spProduct, spTouched>>
           ELSE \/ /\ \E ports \in Resolve(spConf) :
                        /\ ~Failed(ports) /\ spCache' = [fingerprint |-> spConf, ports |-> ports]
                        /\ spProduct' = ports /\ SpTakes(ports, ports)
                \/ UNCHANGED <<spCore, spCache, spProduct, spTouched, spPatched>>
  /\ UNCHANGED <<spConf, spOthers, spLegacy, spRebuild, spMirrored>>

\* Other applications take and leave ports.
SpOthersMove ==
  /\ spOps < SpMaxOps /\ spOps' = spOps + 1
  /\ \E p \in SpPorts : \/ p \in Open(spOthers, CoreHolds) /\ spOthers' = {p}
                        \/ p \in spOthers /\ spOthers' = spOthers \ {p}
  /\ UNCHANGED <<spConf, spCache, spProduct, spCore, spLegacy, spRebuild, spTouched, spMirrored, spPatched>>

SpNext == \/ SpWrites \/ SpRebuilds \/ SpAsks \/ SpCoreStarts \/ SpCoreStops \/ SpPatchesRunning \/ SpOthersMove

SpSpec == SpInit /\ [][SpNext]_spVars

\* guard_mixed_port: port 0 is read as the default.
GuardMixedPort(p) == IF p = 0 THEN SpDefault ELSE p

SpTypeOK ==
  /\ spConf \in Configs /\ spCache.fingerprint \in Configs /\ spCache.ports \in [SpFields -> SpPorts]
  /\ spOthers \subseteq SpPorts /\ spProduct \in [SpFields -> SpPorts] /\ spTouched \subseteq SpFields
-------------------------------------------------------------------------------
\* A running core keeps its ports: whatever other fields were written, rebuilt or failed,
\* a field whose strategy was not changed since the core got its ports is cached as the
\* core holds it; resolving the configuration again leaves it there, never takes the core's
\* own port for somebody else's and fails only for a field that was changed; and legacy readers
\* find that port, unless a typed write has put a start port there that was not the one picked.
\* The exception is a core that a patch of the running configuration moved.
SpPortsStay ==
  spCore.on /\ ~spPatched =>
    \A f \in SpFields \ spTouched :
      /\ spCache.ports[f] = spCore.ports[f]
      /\ spConf[f] = spCache.fingerprint[f] => \A ports \in Resolve(spConf) : ports[f] = spCore.ports[f]
      /\ spConf[f] = spCache.fingerprint[f] /\ (spMirrored => spCore.ports[f] = spConf[f].start)
           => GuardMixedPort(spLegacy[f]) = spCore.ports[f]
===============================================================================
