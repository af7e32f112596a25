------------------------------ MODULE Semaphore ------------------------------
(***************************************************************************)
(* The counting semaphore of sync/thread.c, guarding Value units of a      *)
(* resource: a thread takes a unit with semaphore_down() and gives it back *)
(* with semaphore_up().  Both run with interrupts off, so each is a step.  *)
(***************************************************************************)
EXTENDS CountingQueue

CONSTANT Value  \* the units: the second argument of semaphore_init()

ASSUME SemaphoreAssumption == IsFiniteSet(Threads) /\ Value \in Nat

\* at[t]: "out", "blocked" in semaphore_down(), or "in" with a unit
semvars == <<counter, waiting, at>>

-----------------------------------------------------------------------------
\* semaphore_init(s, Value)
SemInit ==
  /\ counter = Value
  /\ waiting = <<>>
  /\ at = [t \in Threads |-> "out"]

\* Mutant: the comparison lets one thread too many pass.
DownOneTooMany(t) ==
  /\ at[t] = "out"
  /\ counter' = counter - 1
  /\ \/ counter' >= -1 /\ at' = [at EXCEPT ![t] = "in"] /\ UNCHANGED waiting
     \/ /\ counter' < -1
        /\ at' = [at EXCEPT ![t] = "blocked"]
        /\ waiting' = Append(waiting, t)

\* semaphore_down(s)
Down(t) ==
  /\ at[t] = "out"
  /\ counter' = counter - 1
  /\ \/ counter' >= 0 /\ at' = [at EXCEPT ![t] = "in"] /\ UNCHANGED waiting
     \/ /\ counter' < 0
        /\ at' = [at EXCEPT ![t] = "blocked"]
        /\ waiting' = Append(waiting, t)

\* Mutant: the unit is given back, but unblock() is not called.
UpSilent(t) ==
  /\ at[t] = "in"
  /\ counter' = counter + 1
  /\ at' = [at EXCEPT ![t] = "out"]
  /\ UNCHANGED waiting

\* semaphore_up(s)
Up(t) ==
  /\ at[t] = "in"
  /\ counter' = counter + 1
  /\ IF counter' >= 0 /\ waiting # <<>>
     THEN /\ at' = [at EXCEPT ![t] = "out", ![Head(waiting)] = "in"]
          /\ waiting' = Tail(waiting)
     ELSE at' = [at EXCEPT ![t] = "out"] /\ UNCHANGED waiting

-----------------------------------------------------------------------------
SemNext == \E t \in Threads : Down(t) \/ Up(t)

SemSpec == SemInit /\ [][SemNext]_semvars

\* A thread that has a unit gives it back.
SemFairSpec == SemSpec /\ \A t \in Threads : WF_semvars(Up(t))

-----------------------------------------------------------------------------
Inside == {t \in Threads : at[t] = "in"}

\* Every variable has its type.
SemTypeOK ==
  /\ counter \in Int
  /\ waiting \in Seq(Threads)
  /\ at \in [Threads -> {"out", "blocked", "in"}]

\* No more threads have a unit than there are units.
UnitsBound == Cardinality(Inside) <= Value

\* The counter always equals the units minus the threads that have one and the
\* threads queued for one, and those queued are exactly the blocked threads.
Accounting ==
  /\ counter = Value - Cardinality(Inside) - Len(waiting)
  /\ IsInjective(waiting)
  /\ ToSet(waiting) = {t \in Threads : at[t] = "blocked"}

\* A thread that waits alone is given the next unit.  More cannot be said:
\* semaphore_up() wakes a waiter only when the counter is back at zero, and with
\* two queued for one unit it gives the unit back, wakes nobody, and both wait
\* for ever.
LoneWaiterServed ==
  \A t \in Threads : at[t] = "blocked" ~> (at[t] = "in" \/ Len(waiting) >= 2)
=============================================================================
