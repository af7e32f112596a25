--------------------------- MODULE MCContextSwitch ---------------------------
(* Instances of the entries of the kernel for TLC. *)
EXTENDS ContextSwitch
=============================================================================
