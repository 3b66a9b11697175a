------------------------- MODULE MCRuntimeLifecycle -------------------------
(***************************************************************************)
(* The instance of RuntimeLifecycle for the safety run, which has no restarts *)
(* from outside (Outside = {}), so that outside keeps the value it starts     *)
(* with.  That value says what is explored: 0 is a sequence of core switches, *)
(* with many failures and a crash; otherwise two callers of every operation   *)
(* with fewer failures.  Callers are interchangeable; the cores are not (one  *)
(* is selected first).                                                        *)
(***************************************************************************)
EXTENDS RuntimeLifecycle, TLC

ClientSymmetry == Permutations(Clients)

SwitchesOnly == outside = 0

\* Bounds of the two explorations.
MCBounds ==
    IF SwitchesOnly
    THEN /\ typed.prof = 0 /\ latest.mode = 0
         /\ \A p \in Clients : proc[p].op \in {"none", "change_core"}
    ELSE ops <= 2 /\ failures <= 2 /\ crashes = 0

\* Where no other operation runs between the release of the gate and the commit of the
\* selection (verge.rs: change_core returns before the typed core is written), every
\* branch of change_core and of its rollback leaves binary, configuration and both
\* selections in agreement.
SwitchAlone == SwitchesOnly => SwitchIsAtomic
=============================================================================
