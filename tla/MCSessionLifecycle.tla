------------------------- MODULE MCSessionLifecycle -------------------------
(***************************************************************************)
(* Model-checking instances of SessionLifecycle.                           *)
(***************************************************************************)
EXTENDS SessionLifecycle, TLC

\* Callers are only ever compared with each other.
Symmetry == Permutations(Callers)
=============================================================================
