------------------------------ MODULE MCMonitor ------------------------------
(* Instances of the interrupt-based monitor for TLC. *)
EXTENDS Monitor
=============================================================================
