----------------------------- MODULE MCViewFlush -----------------------------
(* Small instances of ViewFlush: one or two processes and one or two slugs.  *)
EXTENDS ViewFlush

CONSTANTS s1, s2, i1, i2
=============================================================================
