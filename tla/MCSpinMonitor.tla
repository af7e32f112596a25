---------------------------- MODULE MCSpinMonitor ----------------------------
(* Instances of the spinlock-based monitor for TLC. *)
EXTENDS SpinMonitor
=============================================================================
