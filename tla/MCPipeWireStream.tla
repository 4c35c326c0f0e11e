-------------------------- MODULE MCPipeWireStream --------------------------
(***************************************************************************)
(* Model-checking instances of PipeWireStream.                             *)
(***************************************************************************)
EXTENDS PipeWireStream
=============================================================================
