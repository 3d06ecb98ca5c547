---------------------------- MODULE MCPastePages ----------------------------
(* Two slugs, one of them taken by a paste of somebody else, whose key is k0. *)
(* Nothing tells the two slugs apart but that paste.                          *)
EXTENDS PastePages, TLC

CONSTANTS s1, s2, k0, k1, theirs, mine, empty

AnySlug == Permutations(Slugs)
=============================================================================
