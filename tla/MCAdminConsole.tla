--------------------------- MODULE MCAdminConsole ---------------------------
(* Three pastes on pages of two, one file, one search that finds the second   *)
(* paste, and one report about the first.                                     *)
EXTENDS AdminConsole

CONSTANTS everything, second, r1

HitsMC == [q \in Queries |-> IF q = everything THEN Slugs ELSE {2}]
TargetMC == [r \in Reports |-> 1]
=============================================================================
