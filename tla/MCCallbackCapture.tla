------------------------- MODULE MCCallbackCapture -------------------------
(***************************************************************************)
(* Model-checking instances of CallbackCapture.                            *)
(***************************************************************************)
EXTENDS CallbackCapture
=============================================================================
