--------------------------- MODULE MCLinuxCapture ---------------------------
(***************************************************************************)
(* Model-checking instances of LinuxCapture.                               *)
(***************************************************************************)
EXTENDS LinuxCapture
=============================================================================
