----------------------------- MODULE MCFilePages ----------------------------
(* Two files, and one too big, and three slugs to draw.                   *)
EXTENDS FilePages, TLC

CONSTANTS small, huge, other, s1, s2, s3

AnySlug == Permutations(Slugs)
=============================================================================
