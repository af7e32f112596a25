----------------------------- MODULE SpinMonitor -----------------------------
(***************************************************************************)
(* The lock and condition variables of sync/thread_spinlock.c, where each  *)
(* lock and each condition variable is guarded by a spinlock of its own.   *)
(* Spinlocks are all that keeps threads apart: a thread is preempted at    *)
(* every access to shared memory, except that a test of status or of a     *)
(* queue and the assignment it decides are one step (AcquireTest,          *)
(* ReleaseTest, SignalTest, BroadcastTest): both are made under the        *)
(* spinlock of the object, without which nobody else looks at it.          *)
(*                                                                         *)
(* pc[t] names the statement thread t executes next; arg[t] is the         *)
(* condition variable it works on and ret[t] where signal and broadcast    *)
(* return to:                                                              *)
(*   "out", "in"                     its own code, without and with lock   *)
(*   "acq", "acqtest", "acqrel", "blocked"                  lock_acquire   *)
(*   "rel", "reltest", "relrel"                             lock_release   *)
(*   "wait", (lock_release), "sleep", "asleep"            condition_wait   *)
(*   "sig", "sigtest", "sigrel"                         condition_signal   *)
(*   "bc", "bctest", "bcrel"                         condition_broadcast   *)
(***************************************************************************)
EXTENDS Integers, Sequences, SequencesExt

CONSTANTS Threads, Conds,
          NoCond,   \* not a condition variable; also the name of l->spinlock
          Nobody    \* not a thread

ASSUME SpinMonitorAssumption == NoCond \notin Conds /\ Nobody \notin Threads

UNLOCKED == 0

LOCKED == 1

Spinlocks == Conds \cup {NoCond}

VARIABLES spinlock,  \* l->spinlock is spinlock[NoCond], c->spinlock is spinlock[c]
          status,    \* l->status
          waiting,   \* l->waiting
          cwaiting,  \* c->waiting
          pc, arg, ret

spinvars == <<spinlock, status, waiting, cwaiting, pc, arg, ret>>

-----------------------------------------------------------------------------
\* lock_init(), condition_init() and spinlock_init()
Init ==
  /\ spinlock = [s \in Spinlocks |-> UNLOCKED]
  /\ status = UNLOCKED
  /\ waiting = <<>>
  /\ cwaiting = [c \in Conds |-> <<>>]
  /\ pc = [t \in Threads |-> "out"]
  /\ arg = [t \in Threads |-> NoCond]
  /\ ret = [t \in Threads |-> "out"]

Goto(t, l) == pc' = [pc EXCEPT ![t] = l]

\* Mutant: test and set are two steps, and the test has been made before.
SpinlockAcquireLate(s) == spinlock' = [spinlock EXCEPT ![s] = LOCKED]

\* The xchg of test_and_set() that ends the loop of spinlock_acquire(s); one
\* that fails writes LOCKED over LOCKED and yields.
SpinlockAcquire(s) ==
  /\ spinlock[s] = UNLOCKED
  /\ spinlock' = [spinlock EXCEPT ![s] = LOCKED]

SpinlockRelease(s) == spinlock' = [spinlock EXCEPT ![s] = UNLOCKED]

\* block(q, s), outside this repository: "Block() releases the spinlock".  It
\* queues the caller and opens s before another thread runs.
BlockOn(q, t) == Append(q, t)

-----------------------------------------------------------------------------
\* lock_acquire(l)
CallAcquire(t) ==
  /\ pc[t] = "out"
  /\ Goto(t, "acq")
  /\ UNCHANGED <<spinlock, status, waiting, cwaiting, arg, ret>>

AcquireSpin(t) ==
  /\ pc[t] = "acq"
  /\ SpinlockAcquire(NoCond)
  /\ Goto(t, "acqtest")
  /\ UNCHANGED <<status, waiting, cwaiting, arg, ret>>

AcquireTest(t) ==
  /\ pc[t] = "acqtest"
  /\ \/ /\ status = UNLOCKED
        /\ status' = LOCKED
        /\ Goto(t, "acqrel")
        /\ UNCHANGED <<waiting, spinlock>>
     \/ /\ status # UNLOCKED
        /\ waiting' = BlockOn(waiting, t)
        /\ SpinlockRelease(NoCond)
        /\ Goto(t, "blocked")
        /\ UNCHANGED status
  /\ UNCHANGED <<cwaiting, arg, ret>>

AcquireRelease(t) ==
  /\ pc[t] = "acqrel"
  /\ SpinlockRelease(NoCond)
  /\ Goto(t, "in")
  /\ UNCHANGED <<status, waiting, cwaiting, arg, ret>>

-----------------------------------------------------------------------------
\* lock_release(l), called for itself or (arg # NoCond) by condition_wait()
CallRelease(t) ==
  /\ pc[t] = "in"
  /\ Goto(t, "rel")
  /\ UNCHANGED <<spinlock, status, waiting, cwaiting, arg, ret>>

ReleaseSpin(t) ==
  /\ pc[t] = "rel"
  /\ SpinlockAcquire(NoCond)
  /\ Goto(t, "reltest")
  /\ UNCHANGED <<status, waiting, cwaiting, arg, ret>>

\* Mutant: the lock is opened although it has been handed on.
ReleaseTestOpens(t) ==
  /\ pc[t] = "reltest"
  /\ status' = UNLOCKED
  /\ waiting' = IF waiting = <<>> THEN waiting ELSE Tail(waiting)
  /\ pc' = IF waiting = <<>> THEN [pc EXCEPT ![t] = "relrel"]
           ELSE [pc EXCEPT ![t] = "relrel", ![Head(waiting)] = "in"]
  /\ UNCHANGED <<spinlock, cwaiting, arg, ret>>

ReleaseTest(t) ==
  /\ pc[t] = "reltest"
  /\ \/ /\ waiting = <<>>
        /\ status' = UNLOCKED
        /\ Goto(t, "relrel")
        /\ UNCHANGED waiting
     \/ /\ waiting # <<>>
        /\ waiting' = Tail(waiting)
        /\ pc' = [pc EXCEPT ![t] = "relrel", ![Head(waiting)] = "in"]
        /\ UNCHANGED status
  /\ UNCHANGED <<spinlock, cwaiting, arg, ret>>

ReleaseRelease(t) ==
  /\ pc[t] = "relrel"
  /\ SpinlockRelease(NoCond)
  /\ Goto(t, IF arg[t] = NoCond THEN "out" ELSE "sleep")
  /\ UNCHANGED <<status, waiting, cwaiting, arg, ret>>

-----------------------------------------------------------------------------
\* condition_wait(l, c): c's spinlock is held across lock_release(l)
CallWait(t, c) ==
  /\ pc[t] = "in"
  /\ arg' = [arg EXCEPT ![t] = c]
  /\ Goto(t, "wait")
  /\ UNCHANGED <<spinlock, status, waiting, cwaiting, ret>>

\* Mutant: the spinlock of c is not taken before the lock is released, only
\* when the thread blocks.
WaitSpinNot(t) ==
  /\ pc[t] = "wait"
  /\ Goto(t, "rel")
  /\ UNCHANGED <<spinlock, status, waiting, cwaiting, arg, ret>>

WaitSpin(t) ==
  /\ pc[t] = "wait"
  /\ SpinlockAcquire(arg[t])
  /\ Goto(t, "rel")
  /\ UNCHANGED <<status, waiting, cwaiting, arg, ret>>

Sleep(t) ==
  /\ pc[t] = "sleep"
  /\ cwaiting' = [cwaiting EXCEPT ![arg[t]] = BlockOn(@, t)]
  /\ SpinlockRelease(arg[t])
  /\ Goto(t, "asleep")
  /\ UNCHANGED <<status, waiting, arg, ret>>

-----------------------------------------------------------------------------
\* unblock(&c->waiting): the first thread returns from block() and calls
\* lock_acquire(l), the caller goes to l.
Unblock(t, l) ==
  LET c == arg[t] u == Head(cwaiting[c]) IN
  /\ cwaiting' = [cwaiting EXCEPT ![c] = Tail(@)]
  /\ pc' = [pc EXCEPT ![u] = "acq", ![t] = l]
  /\ arg' = [arg EXCEPT ![u] = NoCond]

\* condition_signal(c) and condition_broadcast(c)
CallWake(t, c, l) ==
  /\ pc[t] \in {"out", "in"}
  /\ Goto(t, l)
  /\ arg' = [arg EXCEPT ![t] = c]
  /\ ret' = [ret EXCEPT ![t] = pc[t]]
  /\ UNCHANGED <<spinlock, status, waiting, cwaiting>>

WakeSpin(t) ==
  /\ pc[t] \in {"sig", "bc"}
  /\ SpinlockAcquire(arg[t])
  /\ Goto(t, IF pc[t] = "sig" THEN "sigtest" ELSE "bctest")
  /\ UNCHANGED <<status, waiting, cwaiting, arg, ret>>

SignalTest(t) ==
  /\ pc[t] = "sigtest"
  /\ \/ /\ cwaiting[arg[t]] # <<>>
        /\ Unblock(t, "sigrel")
     \/ /\ cwaiting[arg[t]] = <<>>
        /\ Goto(t, "sigrel")
        /\ UNCHANGED <<cwaiting, arg>>
  /\ UNCHANGED <<spinlock, status, waiting, ret>>

BroadcastTest(t) ==
  /\ pc[t] = "bctest"
  /\ \/ /\ cwaiting[arg[t]] # <<>>
        /\ Unblock(t, "bctest")
     \/ /\ cwaiting[arg[t]] = <<>>
        /\ Goto(t, "bcrel")
        /\ UNCHANGED <<cwaiting, arg>>
  /\ UNCHANGED <<spinlock, status, waiting, ret>>

WakeRelease(t) ==
  /\ pc[t] \in {"sigrel", "bcrel"}
  /\ SpinlockRelease(arg[t])
  /\ Goto(t, ret[t])
  /\ arg' = [arg EXCEPT ![t] = NoCond]
  /\ UNCHANGED <<status, waiting, cwaiting, ret>>

-----------------------------------------------------------------------------
Next ==
  \E t \in Threads :
    \/ CallAcquire(t) \/ AcquireSpin(t) \/ AcquireTest(t) \/ AcquireRelease(t)
    \/ CallRelease(t) \/ ReleaseSpin(t) \/ ReleaseTest(t) \/ ReleaseRelease(t)
    \/ \E c \in Conds : \/ CallWait(t, c)
                        \/ CallWake(t, c, "sig")
                        \/ CallWake(t, c, "bc")
    \/ WaitSpin(t) \/ Sleep(t)
    \/ WakeSpin(t) \/ SignalTest(t) \/ BroadcastTest(t) \/ WakeRelease(t)

Spec == Init /\ [][Next]_spinvars

-----------------------------------------------------------------------------
Location ==
  {"out", "in", "acq", "acqtest", "acqrel", "blocked", "rel", "reltest",
   "relrel", "wait", "sleep", "asleep", "sig", "sigtest", "sigrel", "bc",
   "bctest", "bcrel"}

\* Every variable has its type.
TypeOK ==
  /\ spinlock \in [Spinlocks -> {UNLOCKED, LOCKED}]
  /\ status \in {UNLOCKED, LOCKED}
  /\ waiting \in Seq(Threads)
  /\ cwaiting \in [Conds -> Seq(Threads)]
  /\ pc \in [Threads -> Location]
  /\ arg \in [Threads -> Spinlocks]
  /\ ret \in [Threads -> {"out", "in"}]

Waking == {"sigtest", "sigrel", "bctest", "bcrel"}

\* t has acquired spinlock s and not released it.
Guards(t, s) ==
  \/ s = NoCond /\ pc[t] \in {"acqtest", "acqrel", "reltest", "relrel"}
  \/ s # NoCond /\ arg[t] = s
       /\ pc[t] \in Waking \cup {"rel", "reltest", "relrel", "sleep"}

\* A spinlock is LOCKED exactly while one thread is in the section it guards:
\* the assertion "spinlock should be locked" of spinlock_release() never
\* fails, and no release opens a spinlock that somebody else has taken.
SpinExclusion ==
  \A s \in Spinlocks :
    /\ spinlock[s] = LOCKED <=> \E t \in Threads : Guards(t, s)
    /\ \A t, u \in Threads : Guards(t, s) /\ Guards(u, s) => t = u

\* t has the lock.
Holds(t) ==
  \/ pc[t] \in {"in", "acqrel", "wait", "rel", "reltest"}
  \/ pc[t] \in Waking \cup {"sig", "bc"} /\ ret[t] = "in"

\* At most one thread has the lock, and the lock is LOCKED exactly then.
MutualExclusion ==
  /\ \A t, u \in Threads : Holds(t) /\ Holds(u) => t = u
  /\ status = LOCKED <=> \E t \in Threads : Holds(t)

\* condition_wait() holds the spinlock of c from before it releases the lock
\* until it is queued: a thread that looks for somebody to wake on c never
\* misses one that has already given up the lock to wait.
NoMissedWaiter ==
  \A t, u \in Threads :
    pc[t] \in {"sigtest", "bctest"} =>
      ~ (pc[u] \in {"relrel", "sleep"} /\ arg[u] = arg[t])

\* A thread past lock_release(l) in condition_wait(l, c) counts as asleep.
FallingAsleep(c) ==
  SetToSeq({t \in Threads : pc[t] \in {"relrel", "sleep"} /\ arg[t] = c})

Owner == IF \E t \in Threads : Holds(t)
         THEN CHOOSE t \in Threads : Holds(t) ELSE Nobody

Sleeping == [c \in Conds |-> cwaiting[c] \o FallingAsleep(c)]

AM == INSTANCE AbstractMonitor
        WITH AtomicWait <- TRUE, owner <- Owner, entry <- waiting,
             dozing <- {}, sleep <- Sleeping

\* The spinlock version implements a monitor whose wait is atomic.
ImplementsAtomicMonitor == AM!Spec
=============================================================================
