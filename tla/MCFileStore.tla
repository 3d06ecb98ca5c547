----------------------------- MODULE MCFileStore -----------------------------
(* Small instances of FileStore: one or two keys, one or two providers.      *)
EXTENDS FileStore, TLC

CONSTANTS k1, k2, v1, v2, q1, q2, c1, c2

Symmetry == Permutations(Keys) \cup Permutations(Requests) \cup Permutations(Cleaners)
=============================================================================
