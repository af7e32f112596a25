---------------------------- MODULE CountingQueue ----------------------------
(***************************************************************************)
(* What semaphore_t and barrier_t of sync/thread.h have in common: a       *)
(* counter and the queue of the threads that are blocked on it.            *)
(***************************************************************************)
EXTENDS Integers, Sequences, SequencesExt, FiniteSets

CONSTANT Threads    \* the threads that use the semaphore or the barrier

VARIABLES counter,  \* ->counter
          waiting,  \* ->waiting
          at        \* where each thread is
=============================================================================
