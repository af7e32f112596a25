------------------------------- MODULE Monitor -------------------------------
(***************************************************************************)
(* One lock and its condition variables as sync/thread.c implements them:  *)
(* every function is a critical section (interrupts off), so each is one   *)
(* step, except condition_wait(), which releases the lock in one critical  *)
(* section and blocks in the next.  Waiting lists are the FIFO queues that *)
(* module RoundRobin promises and Scheduler implements.                    *)
(*                                                                         *)
(* at[t] says where thread t is:                                           *)
(*   "out"      outside the monitor                                        *)
(*   "blocked"  on l->waiting, in lock_acquire_helper()                    *)
(*   "in"       has acquired the lock (or has been handed it)              *)
(*   "unlocked" in condition_wait() after lock_release(), not yet blocked  *)
(*   "waiting"  on c->waiting                                              *)
(*   "woken"    unblocked from c->waiting, not yet in lock_acquire_helper() *)
(***************************************************************************)
EXTENDS Integers, Sequences, SequencesExt, FiniteSets

CONSTANTS Threads,  \* the threads that use the monitor
          Conds,    \* its condition variables
          NoCond,   \* not a condition variable
          Nobody    \* not a thread

ASSUME MonitorAssumption == NoCond \notin Conds /\ Nobody \notin Threads

VARIABLES status,    \* l->status
          waiting,   \* l->waiting
          cwaiting,  \* c->waiting, for each condition variable c
          at,        \* where each thread is
          on         \* the condition variable a thread passed to condition_wait()

monvars == <<status, waiting, cwaiting, at, on>>

Location == {"out", "blocked", "in", "unlocked", "waiting", "woken"}

-----------------------------------------------------------------------------
\* lock_init() and condition_init()
Init ==
  /\ status = "UNLOCKED"
  /\ waiting = <<>>
  /\ cwaiting = [c \in Conds |-> <<>>]
  /\ at = [t \in Threads |-> "out"]
  /\ on = [t \in Threads |-> NoCond]

\* Mutant: a thread that finds the lock taken and nobody waiting takes it too.
BargingHelper(t) ==
  \/ /\ status = "UNLOCKED" \/ waiting = <<>>
     /\ status' = "LOCKED"
     /\ at' = [at EXCEPT ![t] = "in"]
     /\ UNCHANGED waiting
  \/ /\ status = "LOCKED" /\ waiting # <<>>
     /\ waiting' = Append(waiting, t)
     /\ at' = [at EXCEPT ![t] = "blocked"]
     /\ UNCHANGED status

\* lock_acquire_helper(l), called by t
LockAcquireHelper(t) ==
  \/ /\ status = "UNLOCKED"
     /\ status' = "LOCKED"
     /\ at' = [at EXCEPT ![t] = "in"]
     /\ UNCHANGED waiting
  \/ /\ status # "UNLOCKED"
     /\ waiting' = Append(waiting, t)
     /\ at' = [at EXCEPT ![t] = "blocked"]
     /\ UNCHANGED status

\* lock_acquire(l)
Acquire(t) ==
  /\ at[t] = "out"
  /\ LockAcquireHelper(t)
  /\ UNCHANGED <<cwaiting, on>>

\* Mutant: the lock is opened although it has been handed on.
HandOffUnlocked(t, where) ==
  /\ status' = "UNLOCKED"
  /\ waiting' = IF waiting = <<>> THEN waiting ELSE Tail(waiting)
  /\ at' = IF waiting = <<>> THEN [at EXCEPT ![t] = where]
           ELSE [at EXCEPT ![t] = where, ![Head(waiting)] = "in"]

\* Mutant: the thread that came last gets the lock.
HandOffLast(t, where) ==
  \/ /\ waiting = <<>>
     /\ status' = "UNLOCKED"
     /\ at' = [at EXCEPT ![t] = where]
     /\ UNCHANGED waiting
  \/ /\ waiting # <<>>
     /\ waiting' = Front(waiting)
     /\ at' = [at EXCEPT ![t] = where, ![Last(waiting)] = "in"]
     /\ UNCHANGED status

\* The critical section of lock_release(l): with nobody waiting the lock is
\* opened, otherwise it stays LOCKED and the first waiter returns from block()
\* as its owner.  The caller t continues at `where'.
HandOff(t, where) ==
  \/ /\ waiting = <<>>
     /\ status' = "UNLOCKED"
     /\ at' = [at EXCEPT ![t] = where]
     /\ UNCHANGED waiting
  \/ /\ waiting # <<>>
     /\ waiting' = Tail(waiting)
     /\ at' = [at EXCEPT ![t] = where, ![Head(waiting)] = "in"]
     /\ UNCHANGED status

\* lock_release(l)
Release(t) ==
  /\ at[t] = "in"
  /\ HandOff(t, "out")
  /\ UNCHANGED <<cwaiting, on>>

-----------------------------------------------------------------------------
\* condition_wait(l, c) up to the end of its lock_release(m)
Wait(t, c) ==
  /\ at[t] = "in"
  /\ HandOff(t, "unlocked")
  /\ on' = [on EXCEPT ![t] = c]
  /\ UNCHANGED cwaiting

\* Mutant: the thread takes the place of those who wait already.
SleepAlone(t) ==
  /\ at[t] = "unlocked"
  /\ cwaiting' = [cwaiting EXCEPT ![on[t]] = <<t>>]
  /\ at' = [at EXCEPT ![t] = "waiting"]
  /\ UNCHANGED <<status, waiting, on>>

\* enter_critical(); block(&c->waiting)
Sleep(t) ==
  /\ at[t] = "unlocked"
  /\ cwaiting' = [cwaiting EXCEPT ![on[t]] = Append(@, t)]
  /\ at' = [at EXCEPT ![t] = "waiting"]
  /\ UNCHANGED <<status, waiting, on>>

\* block() has returned, still in the critical section
Reacquire(t) ==
  /\ at[t] = "woken"
  /\ LockAcquireHelper(t)
  /\ on' = [on EXCEPT ![t] = NoCond]
  /\ UNCHANGED cwaiting

\* A thread executes code of its own and may call condition_signal(c) or
\* condition_broadcast(c), with the lock or without.
MayCall(t) == at[t] \in {"out", "in"}

\* condition_signal(c); nothing happens when nobody waits
Signal(t, c) ==
  /\ MayCall(t)
  /\ cwaiting[c] # <<>>
  /\ cwaiting' = [cwaiting EXCEPT ![c] = Tail(@)]
  /\ at' = [at EXCEPT ![Head(cwaiting[c])] = "woken"]
  /\ UNCHANGED <<status, waiting, on>>

\* Mutant: the loop stops when one thread is left.
AllButLast(c) ==
  /\ cwaiting' = [cwaiting EXCEPT ![c] = <<Last(@)>>]
  /\ at' = [u \in Threads |->
              IF u \in ToSet(Front(cwaiting[c])) THEN "woken" ELSE at[u]]

\* The loop of condition_broadcast(c)
WakeAll(c) ==
  /\ cwaiting' = [cwaiting EXCEPT ![c] = <<>>]
  /\ at' = [u \in Threads |->
              IF u \in ToSet(cwaiting[c]) THEN "woken" ELSE at[u]]

\* condition_broadcast(c); nothing happens when nobody waits
Broadcast(t, c) ==
  /\ MayCall(t)
  /\ cwaiting[c] # <<>>
  /\ WakeAll(c)
  /\ UNCHANGED <<status, waiting, on>>

-----------------------------------------------------------------------------
Next ==
  \E t \in Threads :
    \/ Acquire(t)
    \/ Release(t)
    \/ Sleep(t)
    \/ Reacquire(t)
    \/ \E c \in Conds : Wait(t, c) \/ Signal(t, c) \/ Broadcast(t, c)

Spec == Init /\ [][Next]_monvars

(***************************************************************************)
(* The scheduler runs every ready thread, and a thread that has the lock   *)
(* eventually releases it or waits: the monitor's bodies are finite.       *)
(***************************************************************************)
Fairness ==
  \A t \in Threads :
    /\ WF_monvars(Sleep(t))
    /\ WF_monvars(Reacquire(t))
    /\ WF_monvars(Release(t) \/ \E c \in Conds : Wait(t, c))

FairSpec == Spec /\ Fairness

-----------------------------------------------------------------------------
\* Every variable has its type.
TypeOK ==
  /\ status \in {"UNLOCKED", "LOCKED"}
  /\ waiting \in Seq(Threads)
  /\ cwaiting \in [Conds -> Seq(Threads)]
  /\ at \in [Threads -> Location]
  /\ on \in [Threads -> Conds \cup {NoCond}]

Inside == {t \in Threads : at[t] = "in"}

\* At most one thread is between acquiring the lock and releasing it, however
\* the lock was obtained: by lock_acquire(), from lock_release() handing it
\* on, or again inside condition_wait().
MutualExclusion == \A t, u \in Inside : t = u

\* The lock is LOCKED exactly while a thread has it, so it is never lost when
\* it is handed on and never left open with a thread still queued behind it.
LockedIffHeld ==
  /\ status = "LOCKED" <=> Inside # {}
  /\ status = "UNLOCKED" => waiting = <<>>

\* A thread is on a waiting list exactly while it is blocked there, once: no
\* waiter is dropped and nobody is woken who is still queued.
QueuesMatch ==
  /\ IsInjective(waiting)
  /\ ToSet(waiting) = {t \in Threads : at[t] = "blocked"}
  /\ \A c \in Conds :
       /\ IsInjective(cwaiting[c])
       /\ ToSet(cwaiting[c]) = {t \in Threads : at[t] = "waiting" /\ on[t] = c}

\* The first one to queue for the lock gets it first: nobody waits for ever,
\* whatever signals, broadcasts and waits the others make.
LockNotStarved == \A t \in Threads : at[t] = "blocked" ~> at[t] = "in"

\* The refinement mapping: who has the lock, and who has given it up in
\* condition_wait() and is on no list yet.
Owner == IF Inside = {} THEN Nobody ELSE CHOOSE t \in Inside : TRUE

Dozing == {t \in Threads : at[t] = "unlocked"}

AM == INSTANCE AbstractMonitor
        WITH AtomicWait <- FALSE, owner <- Owner, entry <- waiting,
             dozing <- Dozing, sleep <- cwaiting

\* thread.c implements a monitor with FIFO hand-over whose wait is not atomic:
\* between lock_release() and block() the thread is on no list.
ImplementsMonitor == AM!Spec
=============================================================================
