----------------------------- MODULE MCSemaphore -----------------------------
(* Instances of the semaphore for TLC. *)
EXTENDS Semaphore
=============================================================================
