----------------------------- MODULE MCTieredCache -----------------------------
(* Finite instances of TieredCache for TLC. *)
EXTENDS TieredCache, TLC

CONSTANTS c1, c2, c3, k1, k2  \* model values

Symmetry == Permutations(Callers)
=============================================================================
