----------------------------- MODULE MCHlsOutput -----------------------------
(***************************************************************************)
(* Model-checking instances of HlsOutput.                                  *)
(***************************************************************************)
EXTENDS HlsOutput
=============================================================================
