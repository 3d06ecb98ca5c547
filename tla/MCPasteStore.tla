----------------------------- MODULE MCPasteStore -----------------------------
(* Small instances of PasteStore: pastes that follow each other on one slug, *)
(* and two or three requests in one process.                                 *)
EXTENDS PasteStore, TLC

CONSTANTS s1, p1, p2, p3, r1, r2, r3, i1, i2

OneSlug == [p \in Pastes |-> s1]
OneHome == [r \in Requests |-> i1]
Symmetry == Permutations(Requests)
=============================================================================
