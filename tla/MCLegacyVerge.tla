--------------------------- MODULE MCLegacyVerge ---------------------------
(* Small instances of LegacyVerge: the domains in the saga's order.         *)
EXTENDS LegacyVerge

CONSTANTS app, session, clash, f1, f2

MCThree == <<app, session, clash>>
MCOne == <<app>>
=============================================================================
