-------------------------- MODULE MCBootstrapService --------------------------
(* Finite instances of BootstrapService for TLC. *)
EXTENDS BootstrapService

CONSTANTS p1, p2  \* model values
=============================================================================
