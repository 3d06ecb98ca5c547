--------------------------- MODULE MCAdminPanels ----------------------------
(* Settings with one good and one bad limit and one expiry option, and two   *)
(* snapshot files.                                                           *)
EXTENDS AdminPanels

CONSTANTS t1, good, bad, hour, blank, snap1, snap2
=============================================================================
