------------------------- MODULE MCStateCoordinator -------------------------
(* Small instances of StateCoordinator: a Required and an Advisory          *)
(* subscriber (or the Required one alone, for longer histories), two        *)
(* interchangeable states, a few versions.                                  *)
EXTENDS StateCoordinator, TLC

CONSTANTS req, adv, a, b

MCBoth == {req, adv}
MCOne == {req}
MCRequired == {req}
MCValues == {a, b}
MCSymmetry == Permutations(MCValues)
=============================================================================
