----------------------------- MODULE MCMemoryCache -----------------------------
(* Finite instances of MemoryCache for TLC. *)
EXTENDS MemoryCache

CONSTANTS k1, k2, k3, p1, p2  \* model values
=============================================================================
