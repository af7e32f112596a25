------------------------------- MODULE Barrier -------------------------------
(***************************************************************************)
(* The barrier of sync/thread.c, used again and again by the same threads. *)
(* barrier_wait() runs with interrupts off, so it is one step; the threads *)
(* it unblocks leave it when they are scheduled, in any order, and may be  *)
(* back before others have left.                                           *)
(***************************************************************************)
EXTENDS CountingQueue

CONSTANTS reach,     \* b->reach, the argument n of barrier_init()
          MaxRounds  \* bound on the calls of barrier_wait() of each thread

ASSUME BarrierAssumption ==
  IsFiniteSet(Threads) /\ reach \in Nat \ {0} /\ MaxRounds \in Nat

\* at[t]: "out", "blocked" on b->waiting, "woken" but not yet run
VARIABLES arrived,  \* how often each thread has called barrier_wait()
          passed    \* how often each thread has returned from it

barvars == <<counter, waiting, at, arrived, passed>>

-----------------------------------------------------------------------------
\* barrier_init(b, n)
BarInit ==
  /\ counter = 0
  /\ waiting = <<>>
  /\ at = [t \in Threads |-> "out"]
  /\ arrived = [t \in Threads |-> 0]
  /\ passed = [t \in Threads |-> 0]

\* Mutant: the counter is not reset.
LastArrivesNoReset(t) ==
  /\ counter + 1 = reach
  /\ at' = [u \in Threads |-> IF u \in ToSet(waiting) THEN "woken" ELSE at[u]]
  /\ waiting' = <<>>
  /\ UNCHANGED counter
  /\ passed' = [passed EXCEPT ![t] = @ + 1]

\* Mutant: only the first waiter is unblocked.
LastWakesOne(t) ==
  /\ counter + 1 = reach
  /\ at' = IF waiting = <<>> THEN at ELSE [at EXCEPT ![Head(waiting)] = "woken"]
  /\ waiting' = IF waiting = <<>> THEN <<>> ELSE Tail(waiting)
  /\ counter' = 0
  /\ passed' = [passed EXCEPT ![t] = @ + 1]

\* The call that completes the count unblocks everybody, resets the counter
\* and returns at once.
LastArrives(t) ==
  /\ counter + 1 = reach
  /\ at' = [u \in Threads |-> IF u \in ToSet(waiting) THEN "woken" ELSE at[u]]
  /\ waiting' = <<>>
  /\ counter' = 0
  /\ passed' = [passed EXCEPT ![t] = @ + 1]

\* Any other call blocks.
Arrives(t) ==
  /\ counter + 1 # reach
  /\ at' = [at EXCEPT ![t] = "blocked"]
  /\ waiting' = Append(waiting, t)
  /\ counter' = counter + 1
  /\ UNCHANGED passed

\* barrier_wait(b)
BarrierWait(t) ==
  /\ at[t] = "out"
  /\ arrived[t] < MaxRounds
  /\ arrived' = [arrived EXCEPT ![t] = @ + 1]
  /\ LastArrives(t) \/ Arrives(t)

\* block() returns in a thread that has been unblocked, and barrier_wait() ends.
Return(t) ==
  /\ at[t] = "woken"
  /\ at' = [at EXCEPT ![t] = "out"]
  /\ passed' = [passed EXCEPT ![t] = @ + 1]
  /\ UNCHANGED <<counter, waiting, arrived>>

-----------------------------------------------------------------------------
BarNext == \E t \in Threads : BarrierWait(t) \/ Return(t)

BarSpec == BarInit /\ [][BarNext]_barvars

\* Every ready thread is scheduled and comes to the barrier again.
BarFairSpec ==
  BarSpec /\ \A t \in Threads : WF_barvars(BarrierWait(t)) /\ WF_barvars(Return(t))

-----------------------------------------------------------------------------
\* Every variable has its type.
BarTypeOK ==
  /\ counter \in Nat
  /\ waiting \in Seq(Threads)
  /\ at \in [Threads -> {"out", "blocked", "woken"}]
  /\ arrived \in [Threads -> 0..MaxRounds]
  /\ passed \in [Threads -> 0..MaxRounds]

\* b->counter counts the threads that are blocked at the barrier, and is reset
\* before it reaches n: nobody is left behind when the others go on.
CountMatches ==
  /\ counter = Len(waiting) /\ counter < reach
  /\ IsInjective(waiting)
  /\ ToSet(waiting) = {t \in Threads : at[t] = "blocked"}

\* With n threads, nobody returns from its k-th call of barrier_wait() before
\* every thread has made its k-th call, although fast threads call it again
\* while slow ones have yet to return.
NobodyPassesEarly ==
  Cardinality(Threads) = reach =>
    \A t, u \in Threads : passed[t] <= arrived[u]

\* With n threads everybody who waits at the barrier gets past it.
EverybodyPasses ==
  \A t \in Threads : at[t] = "blocked" ~> at[t] = "out"
=============================================================================
