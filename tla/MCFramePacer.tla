---------------------------- MODULE MCFramePacer ----------------------------
(***************************************************************************)
(* Model-checking instances of FramePacer.                                 *)
(***************************************************************************)
EXTENDS FramePacer, TLC

\* Buffers are only ever compared with each other.
Symmetry == Permutations(Buffers)
=============================================================================
