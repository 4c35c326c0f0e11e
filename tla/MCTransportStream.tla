-------------------------- MODULE MCTransportStream --------------------------
(***************************************************************************)
(* Model-checking instances of TransportStream.                            *)
(***************************************************************************)
EXTENDS TransportStream
=============================================================================
