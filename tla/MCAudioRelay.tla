---------------------------- MODULE MCAudioRelay ----------------------------
(***************************************************************************)
(* Model-checking instances of AudioRelay.                                 *)
(***************************************************************************)
EXTENDS AudioRelay
=============================================================================
