-------------------------- MODULE SpinMonitorProofs --------------------------
(***************************************************************************)
(* Exclusion in the spinlock version of the monitor, for any threads and   *)
(* condition variables.                                                    *)
(***************************************************************************)
EXTENDS SpinMonitor, QueueLemmas

NoArg == {"out", "in", "acq", "acqtest", "acqrel", "blocked"}

WithArg == Waking \cup {"wait", "sleep", "asleep", "sig", "bc"}

\* Which condition variable a thread works on, at each statement.
ArgInv ==
  \A t \in Threads : /\ pc[t] \in NoArg => arg[t] = NoCond
                     /\ pc[t] \in WithArg => arg[t] \in Conds

\* The queue of the lock; nobody is queued behind an open lock.
EntryInv ==
  /\ IsInjective(waiting)
  /\ ToSet(waiting) = {t \in Threads : pc[t] = "blocked"}
  /\ status = UNLOCKED => waiting = <<>>

\* The queues of the condition variables.
SleepInv ==
  \A c \in Conds :
    /\ IsInjective(cwaiting[c])
    /\ ToSet(cwaiting[c]) = {t \in Threads : pc[t] = "asleep" /\ arg[t] = c}

IInv == /\ TypeOK /\ ArgInv /\ SpinExclusion /\ MutualExclusion
        /\ EntryInv /\ SleepInv

-----------------------------------------------------------------------------
\* Initialised locks and condition variables satisfy the invariant.
LEMMA InitIInv == Init => IInv
  <1> SUFFICES ASSUME Init PROVE IInv
    OBVIOUS
  <1>1. TypeOK /\ ArgInv
    BY DEF Init, TypeOK, ArgInv, NoArg, WithArg, Waking, Location, Spinlocks
  <1>2. SpinExclusion /\ MutualExclusion
    BY DEF Init, SpinExclusion, MutualExclusion, Guards, Holds, Waking, UNLOCKED, LOCKED
  <1>3. EntryInv /\ SleepInv
    BY EmptyQueue DEF Init, EntryInv, SleepInv
  <1>4. QED
    BY <1>1, <1>2, <1>3 DEF IInv

\* A step that changes no queue, and nobody's being on one, keeps the invariants
\* of the queues.
LEMMA QueuesUntouched ==
  ASSUME EntryInv, SleepInv, UNCHANGED <<status, waiting, cwaiting>>,
         \A u \in Threads : pc'[u] = "blocked" <=> pc[u] = "blocked",
         \A u \in Threads : pc'[u] = "asleep" <=> pc[u] = "asleep",
         \A u \in Threads : pc[u] = "asleep" => arg'[u] = arg[u]
  PROVE  EntryInv' /\ SleepInv'
  <1>1. {u \in Threads : pc'[u] = "blocked"} = {u \in Threads : pc[u] = "blocked"}
    OBVIOUS
  <1>2. \A c \in Conds : {u \in Threads : pc'[u] = "asleep" /\ arg'[u] = c}
                           = {u \in Threads : pc[u] = "asleep" /\ arg[u] = c}
    OBVIOUS
  <1>3. QED
    BY <1>1, <1>2 DEF EntryInv, SleepInv

\* The steps of lock_acquire() other than its test keep the invariant.
LEMMA AcquireStepsIInv ==
  ASSUME IInv, NEW t \in Threads,
         CallAcquire(t) \/ AcquireSpin(t) \/ AcquireRelease(t)
  PROVE  IInv'
  <1> USE SpinMonitorAssumption
      DEF IInv, TypeOK, ArgInv, NoArg, WithArg, Waking, Spinlocks, Location, Goto,
          SpinlockAcquire, SpinlockRelease, UNLOCKED, LOCKED
  <1>1. CASE CallAcquire(t)
    <2>1. TypeOK' /\ ArgInv'
      BY <1>1 DEF CallAcquire
    <2>2. SpinExclusion'
      BY <1>1 DEF CallAcquire, SpinExclusion, Guards
    <2>3. MutualExclusion'
      BY <1>1 DEF CallAcquire, MutualExclusion, Holds
    <2>4. EntryInv' /\ SleepInv'
      BY <1>1, QueuesUntouched DEF CallAcquire
    <2>5. QED
      BY <2>1, <2>2, <2>3, <2>4
  <1>2. CASE AcquireSpin(t)
    <2>1. TypeOK' /\ ArgInv'
      BY <1>2 DEF AcquireSpin
    <2>2. SpinExclusion'
      BY <1>2 DEF AcquireSpin, SpinExclusion, Guards
    <2>3. MutualExclusion'
      BY <1>2 DEF AcquireSpin, MutualExclusion, Holds
    <2>4. EntryInv' /\ SleepInv'
      BY <1>2, QueuesUntouched DEF AcquireSpin
    <2>5. QED
      BY <2>1, <2>2, <2>3, <2>4
  <1>3. CASE AcquireRelease(t)
    <2>1. TypeOK' /\ ArgInv'
      BY <1>3 DEF AcquireRelease
    <2>2. SpinExclusion'
      BY <1>3 DEF AcquireRelease, SpinExclusion, Guards
    <2>3. MutualExclusion'
      BY <1>3 DEF AcquireRelease, MutualExclusion, Holds
    <2>4. EntryInv' /\ SleepInv'
      BY <1>3, QueuesUntouched DEF AcquireRelease
    <2>5. QED
      BY <2>1, <2>2, <2>3, <2>4
  <1>4. QED
    BY <1>1, <1>2, <1>3

\* The steps of lock_release() other than its test keep the invariant.
LEMMA ReleaseStepsIInv ==
  ASSUME IInv, NEW t \in Threads,
         CallRelease(t) \/ ReleaseSpin(t) \/ ReleaseRelease(t)
  PROVE  IInv'
  <1> USE SpinMonitorAssumption
      DEF IInv, TypeOK, ArgInv, NoArg, WithArg, Waking, Spinlocks, Location, Goto,
          SpinlockAcquire, SpinlockRelease, UNLOCKED, LOCKED
  <1>1. CASE CallRelease(t)
    <2>1. TypeOK' /\ ArgInv'
      BY <1>1 DEF CallRelease
    <2>2. SpinExclusion'
      BY <1>1 DEF CallRelease, SpinExclusion, Guards
    <2>3. MutualExclusion'
      BY <1>1 DEF CallRelease, MutualExclusion, Holds
    <2>4. EntryInv' /\ SleepInv'
      BY <1>1, QueuesUntouched DEF CallRelease
    <2>5. QED
      BY <2>1, <2>2, <2>3, <2>4
  <1>2. CASE ReleaseSpin(t)
    <2>1. TypeOK' /\ ArgInv'
      BY <1>2 DEF ReleaseSpin
    <2>2. SpinExclusion'
      BY <1>2 DEF ReleaseSpin, SpinExclusion, Guards
    <2>3. MutualExclusion'
      BY <1>2 DEF ReleaseSpin, MutualExclusion, Holds
    <2>4. EntryInv' /\ SleepInv'
      BY <1>2, QueuesUntouched DEF ReleaseSpin
    <2>5. QED
      BY <2>1, <2>2, <2>3, <2>4
  <1>3. CASE ReleaseRelease(t)
    <2>1. TypeOK' /\ ArgInv'
      BY <1>3 DEF ReleaseRelease
    <2>2. SpinExclusion'
      BY <1>3 DEF ReleaseRelease, SpinExclusion, Guards
    <2>3. MutualExclusion'
      BY <1>3 DEF ReleaseRelease, MutualExclusion, Holds
    <2>4. EntryInv' /\ SleepInv'
      BY <1>3, QueuesUntouched DEF ReleaseRelease
    <2>5. QED
      BY <2>1, <2>2, <2>3, <2>4
  <1>4. QED
    BY <1>1, <1>2, <1>3

\* condition_wait() up to its lock_release() keeps the invariant: it takes the
\* spinlock of the condition variable.
LEMMA WaitStepsIInv ==
  ASSUME IInv, NEW t \in Threads,
         (\E c \in Conds : CallWait(t, c)) \/ WaitSpin(t)
  PROVE  IInv'
  <1> USE SpinMonitorAssumption
      DEF IInv, TypeOK, ArgInv, NoArg, WithArg, Waking, Spinlocks, Location, Goto,
          SpinlockAcquire, SpinlockRelease, UNLOCKED, LOCKED
  <1>1. CASE \E c \in Conds : CallWait(t, c)
    <2>1. TypeOK' /\ ArgInv'
      BY <1>1 DEF CallWait
    <2>2. SpinExclusion'
      BY <1>1 DEF CallWait, SpinExclusion, Guards
    <2>3. MutualExclusion'
      BY <1>1 DEF CallWait, MutualExclusion, Holds
    <2>4. EntryInv' /\ SleepInv'
      BY <1>1, QueuesUntouched DEF CallWait
    <2>5. QED
      BY <2>1, <2>2, <2>3, <2>4
  <1>2. CASE WaitSpin(t)
    <2>1. TypeOK' /\ ArgInv'
      BY <1>2 DEF WaitSpin
    <2>2. SpinExclusion'
      BY <1>2 DEF WaitSpin, SpinExclusion, Guards
    <2>3. MutualExclusion'
      BY <1>2 DEF WaitSpin, MutualExclusion, Holds
    <2>4. EntryInv' /\ SleepInv'
      BY <1>2, QueuesUntouched DEF WaitSpin
    <2>5. QED
      BY <2>1, <2>2, <2>3, <2>4
  <1>3. QED
    BY <1>1, <1>2

\* condition_signal() and condition_broadcast() outside their tests keep the
\* invariant.
LEMMA WakeStepsIInv ==
  ASSUME IInv, NEW t \in Threads,
         \/ \E c \in Conds : CallWake(t, c, "sig") \/ CallWake(t, c, "bc")
         \/ WakeSpin(t) \/ WakeRelease(t)
  PROVE  IInv'
  <1> USE SpinMonitorAssumption
      DEF IInv, TypeOK, ArgInv, NoArg, WithArg, Waking, Spinlocks, Location, Goto,
          SpinlockAcquire, SpinlockRelease, UNLOCKED, LOCKED
  <1>1. CASE \E c \in Conds : CallWake(t, c, "sig") \/ CallWake(t, c, "bc")
    <2>1. PICK c \in Conds, l \in {"sig", "bc"} : CallWake(t, c, l)
      BY <1>1
    <2>2. /\ pc[t] \in {"out", "in"} /\ pc'[t] = l /\ arg'[t] = c /\ ret'[t] = pc[t]
          /\ \A u \in Threads : u # t => /\ pc'[u] = pc[u] /\ arg'[u] = arg[u]
                                         /\ ret'[u] = ret[u]
          /\ UNCHANGED <<spinlock, status, waiting, cwaiting>>
      BY <2>1 DEF CallWake
    <2>3. TypeOK'
      BY <2>1 DEF CallWake
    <2>4. ArgInv'
      BY <2>2
    <2>5. SpinExclusion'
      <3>1. \A u \in Threads, s \in Spinlocks : Guards(u, s)' <=> Guards(u, s)
        BY <2>1, <2>2 DEF Guards
      <3>2. QED
        BY <2>2, <3>1 DEF SpinExclusion
    <2>6. MutualExclusion'
      <3>1. \A u \in Threads : Holds(u)' <=> Holds(u)
        BY <2>1, <2>2 DEF Holds
      <3>2. QED
        BY <2>2, <3>1 DEF MutualExclusion
    <2>7. EntryInv' /\ SleepInv'
      BY <2>2, QueuesUntouched
    <2>8. QED
      BY <2>3, <2>4, <2>5, <2>6, <2>7
  <1>2. CASE WakeSpin(t)
    <2>1. TypeOK' /\ ArgInv'
      BY <1>2 DEF WakeSpin
    <2>2. SpinExclusion'
      BY <1>2 DEF WakeSpin, SpinExclusion, Guards
    <2>3. MutualExclusion'
      BY <1>2 DEF WakeSpin, MutualExclusion, Holds
    <2>4. EntryInv' /\ SleepInv'
      BY <1>2, QueuesUntouched DEF WakeSpin
    <2>5. QED
      BY <2>1, <2>2, <2>3, <2>4
  <1>3. CASE WakeRelease(t)
    <2>1. /\ pc[t] \in {"sigrel", "bcrel"} /\ arg[t] \in Conds
          /\ pc'[t] = ret[t] /\ arg'[t] = NoCond /\ ret' = ret
          /\ \A u \in Threads : u # t => pc'[u] = pc[u] /\ arg'[u] = arg[u]
          /\ spinlock' = [spinlock EXCEPT ![arg[t]] = UNLOCKED]
          /\ UNCHANGED <<status, waiting, cwaiting>>
      BY <1>3 DEF WakeRelease
    <2>2. TypeOK' /\ ArgInv'
      BY <1>3 DEF WakeRelease
    <2>3. SpinExclusion'
      <3>1. Guards(t, arg[t]) /\ \A s \in Spinlocks : ~Guards(t, s)'
        BY <2>1 DEF Guards
      <3>2. \A u \in Threads, s \in Spinlocks : u # t => (Guards(u, s)' <=> Guards(u, s))
        BY <2>1 DEF Guards
      <3>3. \A s \in Spinlocks : s # arg[t] => ~Guards(t, s)
        BY <2>1 DEF Guards
      <3>4. QED
        BY <2>1, <3>1, <3>2, <3>3 DEF SpinExclusion
    <2>4. MutualExclusion'
      <3>1. \A u \in Threads : Holds(u)' <=> Holds(u)
        BY <2>1 DEF Holds
      <3>2. QED
        BY <2>1, <3>1 DEF MutualExclusion
    <2>5. EntryInv' /\ SleepInv'
      BY <2>1, QueuesUntouched
    <2>6. QED
      BY <2>2, <2>3, <2>4, <2>5
  <1>4. QED
    BY <1>1, <1>2, <1>3

\* The test in lock_acquire() keeps the invariant: the thread gets an open lock, or
\* joins the queue of a closed one and opens the spinlock.
LEMMA AcquireTestIInv ==
  ASSUME IInv, NEW t \in Threads, AcquireTest(t)
  PROVE  IInv'
  <1> USE SpinMonitorAssumption
      DEF IInv, TypeOK, ArgInv, NoArg, WithArg, Waking, Spinlocks, Location, Goto,
          SpinlockAcquire, SpinlockRelease, UNLOCKED, LOCKED
  <1>1. /\ pc[t] = "acqtest" /\ arg[t] = NoCond /\ UNCHANGED <<cwaiting, arg, ret>>
        /\ \A u \in Threads : u # t => pc'[u] = pc[u]
    BY DEF AcquireTest
  <1>2. SleepInv'
    BY <1>1 DEF AcquireTest, SleepInv
  <1>3. CASE status = UNLOCKED
    <2>1. /\ status' = LOCKED /\ pc' = [pc EXCEPT ![t] = "acqrel"]
          /\ UNCHANGED <<waiting, spinlock>>
      BY <1>3 DEF AcquireTest
    <2>2. TypeOK' /\ ArgInv'
      BY <1>1, <2>1
    <2>3. SpinExclusion'
      BY <1>1, <2>1 DEF SpinExclusion, Guards
    <2>4. MutualExclusion'
      BY <1>1, <1>3, <2>1 DEF MutualExclusion, Holds
    <2>5. EntryInv'
      BY <1>1, <2>1 DEF EntryInv
    <2>6. QED
      BY <1>2, <2>2, <2>3, <2>4, <2>5
  <1>4. CASE status # UNLOCKED
    <2>1. /\ status' = status /\ waiting' = Append(waiting, t)
          /\ spinlock' = [spinlock EXCEPT ![NoCond] = UNLOCKED]
          /\ pc' = [pc EXCEPT ![t] = "blocked"]
      BY <1>4 DEF AcquireTest, BlockOn
    <2>2. t \notin ToSet(waiting)
      BY <1>1 DEF EntryInv
    <2>3. /\ waiting' \in Seq(Threads) /\ IsInjective(waiting')
          /\ ToSet(waiting') = ToSet(waiting) \cup {t}
      BY <2>1, <2>2, Joins DEF EntryInv
    <2>4. TypeOK' /\ ArgInv'
      BY <1>1, <2>1, <2>3
    <2>5. SpinExclusion'
      BY <1>1, <2>1 DEF SpinExclusion, Guards
    <2>6. MutualExclusion'
      BY <1>1, <2>1 DEF MutualExclusion, Holds
    <2>7. EntryInv'
      BY <1>1, <1>4, <2>1, <2>3 DEF EntryInv
    <2>8. QED
      BY <1>2, <2>4, <2>5, <2>6, <2>7
  <1>5. QED
    BY <1>3, <1>4

\* The test in lock_release() keeps the invariant: the lock is opened, or the
\* first in the queue has it.
LEMMA ReleaseTestIInv ==
  ASSUME IInv, NEW t \in Threads, ReleaseTest(t)
  PROVE  IInv'
  <1> USE SpinMonitorAssumption
      DEF IInv, TypeOK, ArgInv, NoArg, WithArg, Waking, Spinlocks, Location, Goto,
          SpinlockAcquire, SpinlockRelease, UNLOCKED, LOCKED
  <1>1. pc[t] = "reltest" /\ UNCHANGED <<spinlock, cwaiting, arg, ret>>
    BY DEF ReleaseTest
  <1>2. Holds(t) /\ status = LOCKED
    BY <1>1 DEF Holds, MutualExclusion
  <1>3. CASE waiting = <<>>
    <2>1. status' = UNLOCKED /\ pc' = [pc EXCEPT ![t] = "relrel"] /\ waiting' = waiting
      BY <1>3 DEF ReleaseTest
    <2>2. TypeOK' /\ ArgInv'
      BY <1>1, <2>1
    <2>3. SpinExclusion'
      BY <1>1, <2>1 DEF SpinExclusion, Guards
    <2>4. MutualExclusion'
      BY <1>1, <1>2, <2>1 DEF MutualExclusion, Holds
    <2>5. EntryInv' /\ SleepInv'
      BY <1>1, <1>3, <2>1 DEF EntryInv, SleepInv
    <2>6. QED
      BY <2>2, <2>3, <2>4, <2>5
  <1>4. CASE waiting # <<>>
    <2> DEFINE h == Head(waiting)
    <2>1. /\ status' = status /\ waiting' = Tail(waiting)
          /\ pc' = [pc EXCEPT ![t] = "relrel", ![h] = "in"]
      BY <1>4 DEF ReleaseTest
    <2>2. /\ h \in Threads /\ h \in ToSet(waiting)
          /\ waiting' \in Seq(Threads) /\ IsInjective(waiting')
          /\ ToSet(waiting') = ToSet(waiting) \ {h}
      BY <1>4, <2>1, LeavesFirst DEF EntryInv
    <2> HIDE DEF h
    <2>3. pc[h] = "blocked" /\ h # t /\ arg[h] = NoCond
      BY <1>1, <2>2 DEF EntryInv
    <2>4. /\ pc'[t] = "relrel" /\ pc'[h] = "in" /\ pc' \in [Threads -> Location]
          /\ \A u \in Threads : u # t /\ u # h => pc'[u] = pc[u]
      BY <2>1, <2>2, <2>3
    <2>5. TypeOK' /\ ArgInv'
      BY <1>1, <2>1, <2>2, <2>3, <2>4
    <2>6. SpinExclusion'
      <3>1. \A u \in Threads, s \in Spinlocks : Guards(u, s)' <=> Guards(u, s)
        BY <1>1, <2>2, <2>3, <2>4 DEF Guards
      <3>2. QED
        BY <1>1, <3>1 DEF SpinExclusion
    <2>7. MutualExclusion'
      <3>1. \A u \in Threads : Holds(u)' <=> u = h
        BY <1>1, <1>2, <2>2, <2>3, <2>4 DEF Holds, MutualExclusion
      <3>2. QED
        BY <1>2, <2>1, <2>2, <3>1 DEF MutualExclusion
    <2>8. EntryInv'
      <3>1. {u \in Threads : pc'[u] = "blocked"} = {u \in Threads : pc[u] = "blocked"} \ {h}
        BY <1>1, <2>3, <2>4
      <3>2. QED
        BY <1>2, <2>1, <2>2, <3>1 DEF EntryInv
    <2>9. SleepInv'
      <3>1. \A u \in Threads : pc'[u] = "asleep" <=> pc[u] = "asleep"
        BY <1>1, <2>3, <2>4
      <3>2. cwaiting' = cwaiting /\ arg' = arg
        BY <1>1, <2>1
      <3>3. QED
        BY <3>1, <3>2 DEF SleepInv
    <2>10. QED
      BY <2>5, <2>6, <2>7, <2>8, <2>9
  <1>5. QED
    BY <1>3, <1>4

\* block() in condition_wait() keeps the invariant: the thread is queued when the
\* spinlock of the condition variable is opened.
LEMMA SleepIInv ==
  ASSUME IInv, NEW t \in Threads, Sleep(t)
  PROVE  IInv'
  <1> USE SpinMonitorAssumption
      DEF IInv, TypeOK, ArgInv, NoArg, WithArg, Waking, Spinlocks, Location, Goto,
          SpinlockAcquire, SpinlockRelease, UNLOCKED, LOCKED
  <1> DEFINE c == arg[t]
  <1>1. /\ pc[t] = "sleep" /\ c \in Conds
        /\ cwaiting' = [cwaiting EXCEPT ![c] = Append(cwaiting[c], t)]
        /\ spinlock' = [spinlock EXCEPT ![c] = UNLOCKED]
        /\ pc' = [pc EXCEPT ![t] = "asleep"]
        /\ UNCHANGED <<status, waiting, arg, ret>>
    BY DEF Sleep, BlockOn
  <1>2. t \notin ToSet(cwaiting[c]) /\ cwaiting[c] \in Seq(Threads)
    BY <1>1 DEF SleepInv
  <1>3. /\ cwaiting'[c] = Append(cwaiting[c], t) /\ cwaiting'[c] \in Seq(Threads)
        /\ IsInjective(cwaiting'[c])
        /\ ToSet(cwaiting'[c]) = ToSet(cwaiting[c]) \cup {t}
        /\ \A d \in Conds : d # c => cwaiting'[d] = cwaiting[d]
    BY <1>1, <1>2, Joins DEF SleepInv
  <1>4. TypeOK' /\ ArgInv'
    BY <1>1, <1>2, <1>3
  <1>5. SpinExclusion'
    BY <1>1 DEF SpinExclusion, Guards
  <1>6. MutualExclusion'
    BY <1>1 DEF MutualExclusion, Holds
  <1>7. EntryInv'
    BY <1>1 DEF EntryInv
  <1>8. SleepInv'
    <2> SUFFICES ASSUME NEW d \in Conds
                 PROVE  /\ IsInjective(cwaiting'[d])
                        /\ ToSet(cwaiting'[d])
                             = {u \in Threads : pc'[u] = "asleep" /\ arg'[u] = d}
      BY DEF SleepInv
    <2>1. CASE d = c
      BY <1>1, <1>3, <2>1 DEF SleepInv
    <2>2. CASE d # c
      BY <1>1, <1>3, <2>2 DEF SleepInv
    <2>3. QED
      BY <2>1, <2>2
  <1>9. QED
    BY <1>4, <1>5, <1>6, <1>7, <1>8

\* unblock() in condition_signal() and condition_broadcast() keeps the invariant:
\* the first thread in the queue of the condition variable calls lock_acquire().
LEMMA UnblockIInv ==
  ASSUME IInv, NEW t \in Threads, NEW l \in {"sigrel", "bctest"},
         pc[t] \in {"sigtest", "bctest"}, cwaiting[arg[t]] # <<>>, Unblock(t, l),
         UNCHANGED <<spinlock, status, waiting, ret>>
  PROVE  IInv'
  <1> USE SpinMonitorAssumption
      DEF IInv, TypeOK, ArgInv, NoArg, WithArg, Waking, Spinlocks, Location, Goto,
          SpinlockAcquire, SpinlockRelease, UNLOCKED, LOCKED
  <1> DEFINE c == arg[t]
             h == Head(cwaiting[c])
  <1>1. /\ c \in Conds
        /\ cwaiting' = [cwaiting EXCEPT ![c] = Tail(cwaiting[c])]
        /\ pc' = [pc EXCEPT ![h] = "acq", ![t] = l]
        /\ arg' = [arg EXCEPT ![h] = NoCond]
    BY DEF Unblock
  <1>2. /\ h \in Threads /\ h \in ToSet(cwaiting[c])
        /\ Tail(cwaiting[c]) \in Seq(Threads) /\ IsInjective(Tail(cwaiting[c]))
        /\ ToSet(Tail(cwaiting[c])) = ToSet(cwaiting[c]) \ {h}
    BY <1>1, LeavesFirst DEF SleepInv
  <1>3. /\ cwaiting'[c] = Tail(cwaiting[c]) /\ cwaiting' \in [Conds -> Seq(Threads)]
        /\ \A d \in Conds : d # c => cwaiting'[d] = cwaiting[d]
    BY <1>1, <1>2
  <1> HIDE DEF h
  <1>4. pc[h] = "asleep" /\ arg[h] = c /\ h # t
    BY <1>1, <1>2 DEF SleepInv
  <1>5. /\ pc'[t] = l /\ pc'[h] = "acq" /\ pc' \in [Threads -> Location]
        /\ arg'[h] = NoCond /\ arg' \in [Threads -> Spinlocks]
        /\ \A u \in Threads : u # h => arg'[u] = arg[u]
        /\ \A u \in Threads : u # h /\ u # t => pc'[u] = pc[u]
    <2>1. pc \in [Threads -> Location] /\ arg \in [Threads -> Spinlocks] /\ l \in Location
      OBVIOUS
    <2>2. /\ arg'[h] = NoCond /\ arg' \in [Threads -> Spinlocks]
          /\ \A u \in Threads : u # h => arg'[u] = arg[u]
      BY <1>1, <1>2, <2>1
    <2>3. QED
      BY <1>1, <1>2, <1>4, <2>1, <2>2
  <1>6. TypeOK' /\ ArgInv'
    <2>1. TypeOK'
      BY <1>3, <1>5
    <2>2. ASSUME NEW u \in Threads
          PROVE  /\ pc'[u] \in NoArg => arg'[u] = NoCond
                 /\ pc'[u] \in WithArg => arg'[u] \in Conds
      <3>1. CASE u = h
        BY <1>4, <1>5, <3>1
      <3>2. CASE u = t
        BY <1>1, <1>4, <1>5, <3>2
      <3>3. CASE u # h /\ u # t
        BY <1>5, <3>3
      <3>4. QED
        BY <3>1, <3>2, <3>3
    <2>3. QED
      BY <2>1, <2>2
  <1>7. SpinExclusion'
    <2>1. \A u \in Threads, s \in Spinlocks : Guards(u, s)' <=> Guards(u, s)
      BY <1>2, <1>4, <1>5 DEF Guards
    <2>2. QED
      BY <2>1 DEF SpinExclusion
  <1>8. MutualExclusion'
    <2>1. \A u \in Threads : Holds(u)' <=> Holds(u)
      BY <1>2, <1>4, <1>5 DEF Holds
    <2>2. QED
      BY <2>1 DEF MutualExclusion
  <1>9. EntryInv'
    <2>1. \A u \in Threads : pc'[u] = "blocked" <=> pc[u] = "blocked"
      BY <1>2, <1>4, <1>5
    <2>2. {u \in Threads : pc'[u] = "blocked"} = {u \in Threads : pc[u] = "blocked"}
      BY <2>1
    <2>3. QED
      BY <2>2 DEF EntryInv
  <1>10. SleepInv'
    <2> SUFFICES ASSUME NEW d \in Conds
                 PROVE  /\ IsInjective(cwaiting'[d])
                        /\ ToSet(cwaiting'[d])
                             = {u \in Threads : pc'[u] = "asleep" /\ arg'[u] = d}
      BY DEF SleepInv
    <2>1. {u \in Threads : pc'[u] = "asleep" /\ arg'[u] = d}
            = {u \in Threads : pc[u] = "asleep" /\ arg[u] = d} \ {h}
      BY <1>2, <1>4, <1>5
    <2>2. CASE d = c
      BY <1>2, <1>3, <2>1, <2>2 DEF SleepInv
    <2>3. CASE d # c
      BY <1>3, <1>4, <2>1, <2>3 DEF SleepInv
    <2>4. QED
      BY <2>2, <2>3
  <1>11. QED
    BY <1>6, <1>7, <1>8, <1>9, <1>10

\* The tests of condition_signal() and condition_broadcast() keep the invariant.
LEMMA WakeTestIInv ==
  ASSUME IInv, NEW t \in Threads, SignalTest(t) \/ BroadcastTest(t)
  PROVE  IInv'
  <1> USE SpinMonitorAssumption
      DEF IInv, TypeOK, ArgInv, NoArg, WithArg, Waking, Spinlocks, Location, Goto,
          SpinlockAcquire, SpinlockRelease, UNLOCKED, LOCKED
  <1>1. /\ pc[t] \in {"sigtest", "bctest"}
        /\ UNCHANGED <<spinlock, status, waiting, ret>>
    BY DEF SignalTest, BroadcastTest
  <1>2. CASE cwaiting[arg[t]] # <<>>
    <2>1. \E l \in {"sigrel", "bctest"} : Unblock(t, l)
      BY <1>2 DEF SignalTest, BroadcastTest
    <2>2. QED
      BY <1>1, <1>2, <2>1, UnblockIInv
  <1>3. CASE cwaiting[arg[t]] = <<>>
    <2>1. PICK l \in {"sigrel", "bcrel"} :
            pc' = [pc EXCEPT ![t] = l] /\ UNCHANGED <<cwaiting, arg>>
      BY <1>3 DEF SignalTest, BroadcastTest
    <2>2. TypeOK' /\ ArgInv'
      BY <1>1, <2>1
    <2>3. SpinExclusion'
      BY <1>1, <2>1 DEF SpinExclusion, Guards
    <2>4. MutualExclusion'
      BY <1>1, <2>1 DEF MutualExclusion, Holds
    <2>5. EntryInv' /\ SleepInv'
      BY <1>1, <2>1, QueuesUntouched
    <2>6. QED
      BY <2>2, <2>3, <2>4, <2>5
  <1>4. QED
    BY <1>2, <1>3

-----------------------------------------------------------------------------
\* Every step keeps the invariant.
LEMMA NextIInv == IInv /\ [Next]_spinvars => IInv'
  <1> SUFFICES ASSUME IInv, [Next]_spinvars PROVE IInv'
    OBVIOUS
  <1>1. CASE Next
    <2>1. PICK t \in Threads :
            \/ CallAcquire(t) \/ AcquireSpin(t) \/ AcquireRelease(t)
            \/ CallRelease(t) \/ ReleaseSpin(t) \/ ReleaseRelease(t)
            \/ (\E c \in Conds : CallWait(t, c)) \/ WaitSpin(t)
            \/ (\E c \in Conds : CallWake(t, c, "sig") \/ CallWake(t, c, "bc"))
            \/ WakeSpin(t) \/ WakeRelease(t)
            \/ AcquireTest(t) \/ ReleaseTest(t) \/ Sleep(t)
            \/ SignalTest(t) \/ BroadcastTest(t)
      BY <1>1 DEF Next
    <2>2. QED
      BY <2>1, AcquireStepsIInv, ReleaseStepsIInv, WaitStepsIInv, WakeStepsIInv,
         AcquireTestIInv, ReleaseTestIInv, SleepIInv, WakeTestIInv
  <1>2. CASE UNCHANGED spinvars
    BY <1>2 DEF spinvars, IInv, TypeOK, ArgInv, SpinExclusion, MutualExclusion,
                EntryInv, SleepInv, Guards, Holds
  <1>3. QED
    BY <1>1, <1>2

\* The invariant holds in every reachable state.
LEMMA Invariance == Spec => []IInv
  BY InitIInv, NextIInv, PTL DEF Spec

\* For any threads and condition variables, a spinlock is LOCKED exactly while one
\* thread is in the section it guards.
THEOREM SpinlocksExclude == Spec => []SpinExclusion
  <1>1. IInv => SpinExclusion
    BY DEF IInv
  <1>2. QED
    BY <1>1, Invariance, PTL

\* For any threads, the lock built on spinlocks has at most one owner, and is
\* LOCKED exactly while it has one.
THEOREM LockExcludes == Spec => []MutualExclusion
  <1>1. IInv => MutualExclusion
    BY DEF IInv
  <1>2. QED
    BY <1>1, Invariance, PTL

\* For any threads and condition variables, a signal or broadcast never looks at
\* a queue while a thread that has given up the lock to wait is not yet on it.
THEOREM NoWaiterIsMissed == Spec => []NoMissedWaiter
  <1>1. IInv => NoMissedWaiter
    <2> SUFFICES ASSUME IInv, NEW t \in Threads, NEW u \in Threads,
                        pc[t] \in {"sigtest", "bctest"},
                        pc[u] \in {"relrel", "sleep"}, arg[u] = arg[t]
                 PROVE  FALSE
      BY DEF NoMissedWaiter
    <2>1. arg[t] \in Conds /\ arg[t] # NoCond
      BY SpinMonitorAssumption DEF IInv, ArgInv, WithArg, Waking
    <2>2. Guards(t, arg[t]) /\ Guards(u, arg[t])
      BY <2>1 DEF Guards, Waking
    <2>3. t = u
      BY <2>1, <2>2 DEF IInv, SpinExclusion, Spinlocks
    <2>4. QED
      BY <2>3
  <1>2. QED
    BY <1>1, Invariance, PTL

-----------------------------------------------------------------------------
\* The threads past lock_release(l) in condition_wait(l, c), not yet queued on c.
Falling(c) == {t \in Threads : pc[t] \in {"relrel", "sleep"} /\ arg[t] = c}

\* The abstract owner is the thread that has the lock.
OwnerFact ==
  /\ (\A t \in Threads : ~Holds(t)) => Owner = Nobody
  /\ \A t \in Threads : Holds(t) => Owner = t
  /\ status = UNLOCKED <=> Owner = Nobody

\* At most one thread at a time is about to sleep on c, and counts as the last of
\* those asleep.
SleepFact ==
  \A c \in Conds :
    /\ Falling(c) = {} => Sleeping[c] = cwaiting[c]
    /\ \A t \in Falling(c) : /\ Falling(c) = {t}
                             /\ Sleeping[c] = Append(cwaiting[c], t)

RInv == IInv /\ OwnerFact /\ SleepFact

\* The invariant determines the abstract state.
LEMMA MappedState == IInv => RInv
  <1> SUFFICES ASSUME IInv PROVE RInv
    OBVIOUS
  <1>1. OwnerFact
    <2>1. (\A t \in Threads : ~Holds(t)) => Owner = Nobody
      BY DEF Owner
    <2>2. (\E t \in Threads : Holds(t)) => Owner \in Threads /\ Holds(Owner)
      <3> SUFFICES ASSUME \E t \in Threads : Holds(t)
                   PROVE  Owner \in Threads /\ Holds(Owner)
        OBVIOUS
      <3> DEFINE o == CHOOSE t \in Threads : Holds(t)
      <3>1. o \in Threads /\ Holds(o)
        OBVIOUS
      <3>2. Owner = o
        BY DEF Owner
      <3> HIDE DEF o
      <3>3. QED
        BY <3>1, <3>2
    <2>3. \A t, u \in Threads : Holds(t) /\ Holds(u) => t = u
      BY DEF IInv, MutualExclusion
    <2>4. status = LOCKED <=> \E t \in Threads : Holds(t)
      BY DEF IInv, MutualExclusion
    <2>5. status \in {UNLOCKED, LOCKED} /\ UNLOCKED # LOCKED
      BY DEF IInv, TypeOK, UNLOCKED, LOCKED
    <2>6. QED
      BY <2>1, <2>2, <2>3, <2>4, <2>5, SpinMonitorAssumption DEF OwnerFact
  <1>2. SleepFact
    <2> SUFFICES ASSUME NEW c \in Conds
                 PROVE  /\ Falling(c) = {} => Sleeping[c] = cwaiting[c]
                        /\ \A t \in Falling(c) :
                             /\ Falling(c) = {t}
                             /\ Sleeping[c] = Append(cwaiting[c], t)
      BY DEF SleepFact
    <2>1. Sleeping[c] = cwaiting[c] \o SetToSeq(Falling(c)) /\ cwaiting[c] \in Seq(Threads)
      BY DEF Sleeping, FallingAsleep, Falling, IInv, TypeOK
    <2>2. Falling(c) = {} => Sleeping[c] = cwaiting[c]
      BY <2>1, ListOfOne, ConcatEmptySeq
    <2>3. ASSUME NEW t \in Falling(c)
          PROVE  Falling(c) = {t} /\ Sleeping[c] = Append(cwaiting[c], t)
      <3>1. \A u \in Falling(c) : u \in Threads /\ Guards(u, c)
        BY SpinMonitorAssumption DEF Falling, Guards, IInv
      <3>2. Falling(c) = {t}
        BY <2>3, <3>1 DEF IInv, SpinExclusion, Spinlocks
      <3>3. t \in Threads
        BY <2>3 DEF Falling
      <3>4. SetToSeq(Falling(c)) = <<t>>
        BY <3>2, ListOfOne
      <3>5. Append(cwaiting[c], t) = cwaiting[c] \o <<t>>
        BY <2>1, <3>3, AppendIsConcat
      <3>6. QED
        BY <2>1, <3>2, <3>4, <3>5
    <2>4. QED
      BY <2>2, <2>3
  <1>3. QED
    BY <1>1, <1>2 DEF RInv

\* The initialised monitor is the abstract monitor in its initial state.
LEMMA InitRefines == Init => AM!Init
  <1> SUFFICES ASSUME Init PROVE AM!Init
    OBVIOUS
  <1>1. RInv
    BY InitIInv, MappedState
  <1>2. \A c \in Conds : Falling(c) = {}
    BY DEF Init, Falling
  <1>3. Sleeping = [c \in Conds |-> <<>>]
    BY <1>1, <1>2 DEF RInv, SleepFact, Sleeping, Init
  <1>4. Owner = Nobody
    BY <1>1 DEF RInv, OwnerFact, Init
  <1>5. QED
    BY <1>3, <1>4 DEF Init, AM!Init

\* As long as the same thread has the lock, the abstract owner stays.
LEMMA OwnerKept ==
  ASSUME \A u \in Threads : Holds(u)' <=> Holds(u)
  PROVE  Owner' = Owner
  BY DEF Owner

\* As long as the same threads sleep, or fall asleep, the abstract sleepers stay.
LEMMA SleepersKept ==
  ASSUME cwaiting' = cwaiting,
         \A u \in Threads : /\ pc'[u] \in {"relrel", "sleep"}
                                <=> pc[u] \in {"relrel", "sleep"}
                            /\ pc[u] \in {"relrel", "sleep"} => arg'[u] = arg[u]
  PROVE  Sleeping' = Sleeping
  <1>1. \A c \in Conds :
          {u \in Threads : pc'[u] \in {"relrel", "sleep"} /\ arg'[u] = c}
            = {u \in Threads : pc[u] \in {"relrel", "sleep"} /\ arg[u] = c}
    OBVIOUS
  <1>2. QED
    BY <1>1 DEF Sleeping, FallingAsleep

\* The test in lock_acquire() is where a thread enters the abstract monitor.
LEMMA AcquireTestRefines ==
  ASSUME RInv, RInv', NEW t \in Threads, AcquireTest(t)
  PROVE  AM!Enter(t)
  <1> USE DEF Goto, UNLOCKED, LOCKED
  <1>1. /\ pc[t] = "acqtest" /\ pc \in [Threads -> Location]
        /\ UNCHANGED <<cwaiting, arg, ret>>
    BY DEF AcquireTest, RInv, IInv, TypeOK
  <1>2. /\ \A u \in Threads : u # t => pc'[u] = pc[u]
        /\ pc'[t] \in {"acqrel", "blocked"}
    BY <1>1 DEF AcquireTest
  <1>3. ~Holds(t)
    BY <1>1 DEF Holds, Waking
  <1>4. Sleeping' = Sleeping
    BY <1>1, <1>2, SleepersKept
  <1>5. AM!Absent(t)
    <2>1. t # Owner
      BY <1>3, SpinMonitorAssumption DEF Owner
    <2>2. t \notin ToSet(waiting)
      BY <1>1 DEF RInv, IInv, EntryInv
    <2>3. ASSUME NEW c \in Conds PROVE t \notin ToSet(Sleeping[c])
      <3>1. t \notin ToSet(cwaiting[c]) /\ cwaiting[c] \in Seq(Threads)
        BY <1>1 DEF RInv, IInv, SleepInv, TypeOK
      <3>2. t \notin Falling(c)
        BY <1>1 DEF Falling
      <3>3. CASE Falling(c) = {}
        BY <3>1, <3>3 DEF RInv, SleepFact
      <3>4. CASE Falling(c) # {}
        <4>1. PICK u \in Falling(c) : TRUE
          BY <3>4
        <4>2. u \in Threads /\ u # t /\ Sleeping[c] = Append(cwaiting[c], u)
          BY <3>2, <4>1 DEF RInv, SleepFact, Falling
        <4>3. ToSet(Sleeping[c]) = ToSet(cwaiting[c]) \cup {u}
          BY <3>1, <4>2, Joins
        <4>4. QED
          BY <3>1, <4>2, <4>3
      <3>5. QED
        BY <3>3, <3>4
    <2>4. QED
      BY <2>1, <2>2, <2>3 DEF AM!Absent, AM!ToSet, ToSet
  <1>6. CASE status = UNLOCKED
    <2>1. pc'[t] = "acqrel" /\ waiting' = waiting
      BY <1>1, <1>6 DEF AcquireTest
    <2>2. Holds(t)'
      BY <2>1 DEF Holds
    <2>3. Owner = Nobody /\ Owner' = t
      BY <1>6, <2>2 DEF RInv, OwnerFact
    <2>4. QED
      BY <1>4, <1>5, <2>1, <2>3 DEF AM!Enter
  <1>7. CASE status # UNLOCKED
    <2>1. pc'[t] = "blocked" /\ waiting' = Append(waiting, t)
      BY <1>1, <1>7 DEF AcquireTest, BlockOn
    <2>2. \A u \in Threads : Holds(u)' <=> Holds(u)
      BY <1>1, <1>2, <1>3, <2>1 DEF Holds, Waking
    <2>3. Owner # Nobody /\ Owner' = Owner
      BY <1>7, <2>2, OwnerKept DEF RInv, OwnerFact
    <2>4. QED
      BY <1>4, <1>5, <2>1, <2>3 DEF AM!Enter
  <1>8. QED
    BY <1>6, <1>7

\* The test in lock_release() passes the abstract lock on; called from
\* condition_wait(), it puts the thread to abstract sleep in the same step.
LEMMA ReleaseTestRefines ==
  ASSUME RInv, RInv', NEW t \in Threads, ReleaseTest(t)
  PROVE  AM!Leave \/ \E c \in Conds : AM!Wait(c)
  <1> USE DEF Goto, UNLOCKED, LOCKED
  <1>1. /\ pc[t] = "reltest" /\ pc \in [Threads -> Location]
        /\ arg \in [Threads -> Spinlocks] /\ waiting \in Seq(Threads)
        /\ UNCHANGED <<cwaiting, arg, ret>>
    BY DEF ReleaseTest, RInv, IInv, TypeOK
  <1>2. Owner = t /\ Owner # Nobody
    <2>1. Holds(t)
      BY <1>1 DEF Holds
    <2>2. QED
      BY <2>1, SpinMonitorAssumption DEF RInv, OwnerFact
  <1>3. /\ AM!PassOn
        /\ pc'[t] = "relrel"
        /\ \A u \in Threads : u # t => (pc'[u] \in {"relrel", "sleep"}
                                          <=> pc[u] \in {"relrel", "sleep"})
    <2>1. CASE waiting = <<>>
      <3>1. status' = UNLOCKED /\ waiting' = waiting /\ pc' = [pc EXCEPT ![t] = "relrel"]
        BY <2>1 DEF ReleaseTest
      <3>2. Owner' = Nobody
        BY <3>1 DEF RInv, OwnerFact
      <3>3. QED
        BY <1>1, <2>1, <3>1, <3>2 DEF AM!PassOn
    <2>2. CASE waiting # <<>>
      <3>1. /\ waiting' = Tail(waiting)
            /\ pc' = [pc EXCEPT ![t] = "relrel", ![Head(waiting)] = "in"]
        BY <2>2 DEF ReleaseTest
      <3>2. Head(waiting) \in Threads /\ Head(waiting) \in ToSet(waiting)
        BY <1>1, <2>2, LeavesFirst
      <3>3. pc[Head(waiting)] = "blocked" /\ Head(waiting) # t
        BY <1>1, <3>2 DEF RInv, IInv, EntryInv
      <3>4. /\ pc'[Head(waiting)] = "in" /\ pc'[t] = "relrel"
            /\ \A u \in Threads : u # t /\ u # Head(waiting) => pc'[u] = pc[u]
        BY <1>1, <3>1, <3>2, <3>3
      <3>5. Owner' = Head(waiting)
        <4>1. PICK h \in Threads : h = Head(waiting)
          BY <3>2
        <4>2. Holds(h)'
          BY <3>4, <4>1 DEF Holds
        <4>3. QED
          BY <4>1, <4>2 DEF RInv, OwnerFact
      <3>6. QED
        BY <2>2, <3>1, <3>2, <3>3, <3>4, <3>5 DEF AM!PassOn
    <2>3. QED
      BY <2>1, <2>2
  <1>4. \A c \in Conds : Falling(c)' = IF c = arg[t] THEN Falling(c) \cup {t} ELSE Falling(c)
    BY <1>1, <1>3 DEF Falling
  <1>5. \A c \in Conds : c # arg[t] => Sleeping'[c] = Sleeping[c]
    BY <1>1, <1>4 DEF Sleeping, FallingAsleep, Falling
  <1>6. CASE arg[t] = NoCond
    <2>1. Sleeping' = Sleeping
      BY <1>5, <1>6, SpinMonitorAssumption DEF Sleeping
    <2>2. QED
      BY <1>2, <1>3, <2>1 DEF AM!Leave
  <1>7. CASE arg[t] # NoCond
    <2>1. PICK c \in Conds : c = arg[t]
      BY <1>1, <1>7 DEF Spinlocks
    <2>2. t \in Falling(c)' /\ t \notin Falling(c)
      BY <1>1, <1>4, <2>1 DEF Falling
    <2>3. Falling(c)' = {t} /\ Sleeping'[c] = Append(cwaiting[c], t)
      BY <1>1, <2>1, <2>2 DEF RInv, SleepFact
    <2>4. Falling(c) = {}
      BY <1>4, <2>1, <2>2, <2>3
    <2>5. Sleeping[c] = cwaiting[c]
      BY <2>1, <2>4 DEF RInv, SleepFact
    <2>6. Sleeping' = [Sleeping EXCEPT ![c] = Append(@, Owner)]
      BY <1>2, <1>5, <2>1, <2>3, <2>5 DEF Sleeping
    <2>7. AM!Wait(c)
      BY <1>2, <1>3, <2>6 DEF AM!Wait
    <2>8. QED
      BY <2>7
  <1>8. QED
    BY <1>6, <1>7

\* block() in condition_wait() changes nothing in the abstract monitor: the thread
\* has been asleep since it gave up the lock.
LEMMA SleepRefines ==
  ASSUME RInv, RInv', NEW t \in Threads, Sleep(t)
  PROVE  UNCHANGED AM!amvars
  <1>1. PICK c \in Conds : c = arg[t]
    BY DEF Sleep, RInv, IInv, ArgInv, WithArg
  <1>2. /\ pc[t] = "sleep" /\ pc' = [pc EXCEPT ![t] = "asleep"]
        /\ cwaiting' = [cwaiting EXCEPT ![c] = Append(cwaiting[c], t)]
        /\ UNCHANGED <<status, waiting, arg, ret>>
    BY <1>1 DEF Sleep, Goto, BlockOn
  <1>3. pc \in [Threads -> Location] /\ cwaiting \in [Conds -> Seq(Threads)]
    BY DEF RInv, IInv, TypeOK
  <1>4. Owner' = Owner
    <2>1. \A u \in Threads : Holds(u)' <=> Holds(u)
      BY <1>2, <1>3 DEF Holds, Waking
    <2>2. QED
      BY <2>1, OwnerKept
  <1>5. t \in Falling(c)
    BY <1>1, <1>2 DEF Falling
  <1>6. Falling(c) = {t} /\ Sleeping[c] = Append(cwaiting[c], t)
    BY <1>5 DEF RInv, SleepFact
  <1>7. \A d \in Conds : Falling(d)' = Falling(d) \ {t}
    BY <1>2, <1>3 DEF Falling
  <1>8. Sleeping'[c] = Sleeping[c]
    <2>1. Falling(c)' = {}
      BY <1>6, <1>7
    <2>2. Sleeping'[c] = cwaiting'[c]
      BY <2>1 DEF RInv, SleepFact
    <2>3. QED
      BY <1>2, <1>3, <1>6, <2>2
  <1>9. ASSUME NEW d \in Conds, d # c PROVE Sleeping'[d] = Sleeping[d]
    <2>1. Falling(d)' = Falling(d)
      BY <1>1, <1>7, <1>9 DEF Falling
    <2>2. cwaiting'[d] = cwaiting[d]
      BY <1>2, <1>3, <1>9
    <2>3. QED
      BY <2>1, <2>2 DEF Sleeping, FallingAsleep, Falling
  <1>10. Sleeping' = Sleeping
    BY <1>8, <1>9 DEF Sleeping
  <1>11. QED
    BY <1>2, <1>4, <1>10 DEF AM!amvars

\* unblock() in condition_signal() and condition_broadcast() wakes the first
\* abstract sleeper.
LEMMA UnblockRefines ==
  ASSUME RInv, RInv', NEW t \in Threads, NEW l \in {"sigrel", "bctest"},
         pc[t] \in {"sigtest", "bctest"}, cwaiting[arg[t]] # <<>>, Unblock(t, l),
         UNCHANGED <<status, waiting, ret>>
  PROVE  \E c \in Conds : AM!Wake(c)
  <1>1. PICK c \in Conds : c = arg[t]
    BY DEF RInv, IInv, ArgInv, WithArg, Waking
  <1>2. pc \in [Threads -> Location] /\ arg \in [Threads -> Spinlocks]
        /\ cwaiting \in [Conds -> Seq(Threads)]
    BY DEF RInv, IInv, TypeOK
  <1>3. PICK h \in Threads : h = Head(cwaiting[c]) /\ h \in ToSet(cwaiting[c])
    BY <1>1, <1>2, LeavesFirst
  <1>4. pc[h] = "asleep" /\ h # t
    BY <1>3 DEF RInv, IInv, SleepInv
  <1>5. /\ cwaiting' = [cwaiting EXCEPT ![c] = Tail(cwaiting[c])]
        /\ pc' = [pc EXCEPT ![h] = "acq", ![t] = l]
        /\ arg' = [arg EXCEPT ![h] = NoCond]
    BY <1>1, <1>3 DEF Unblock
  <1>6. /\ pc'[h] = "acq" /\ pc'[t] = l
        /\ \A u \in Threads : u # h => arg'[u] = arg[u]
        /\ \A u \in Threads : u # h /\ u # t => pc'[u] = pc[u]
    BY <1>2, <1>4, <1>5
  <1>7. Owner' = Owner
    <2>1. \A u \in Threads : Holds(u)' <=> Holds(u)
      BY <1>4, <1>6 DEF Holds, Waking
    <2>2. QED
      BY <2>1, OwnerKept
  <1>8. \A d \in Conds : Falling(d)' = Falling(d)
    BY <1>4, <1>6 DEF Falling
  <1>9. Falling(c) = {}
    <2>1. ASSUME NEW u \in Falling(c) PROVE FALSE
      <3>1. u \in Threads /\ Guards(u, c) /\ Guards(t, c) /\ c \in Spinlocks
        BY <1>1, <2>1, SpinMonitorAssumption DEF Falling, Guards, Waking, Spinlocks
      <3>2. u = t
        BY <3>1 DEF RInv, IInv, SpinExclusion
      <3>3. QED
        BY <2>1, <3>2 DEF Falling
    <2>2. QED
      BY <2>1
  <1>10. Sleeping[c] = cwaiting[c] /\ Sleeping'[c] = cwaiting'[c]
    BY <1>8, <1>9 DEF RInv, SleepFact
  <1>11. \A d \in Conds : d # c => Sleeping'[d] = Sleeping[d]
    BY <1>2, <1>5, <1>8 DEF Sleeping, FallingAsleep, Falling
  <1>12. Sleeping' = [Sleeping EXCEPT ![c] = Tail(Sleeping[c])]
    BY <1>2, <1>5, <1>10, <1>11 DEF Sleeping
  <1>13. AM!Wake(c)
    BY <1>1, <1>7, <1>10, <1>12 DEF AM!Wake
  <1>14. QED
    BY <1>13

\* The tests of condition_signal() and condition_broadcast() wake the first
\* abstract sleeper, or find none.
LEMMA WakeTestRefines ==
  ASSUME RInv, RInv', NEW t \in Threads, SignalTest(t) \/ BroadcastTest(t)
  PROVE  (\E c \in Conds : AM!Wake(c)) \/ UNCHANGED AM!amvars
  <1>1. /\ pc[t] \in {"sigtest", "bctest"} /\ pc \in [Threads -> Location]
        /\ UNCHANGED <<status, waiting, ret>>
    BY DEF SignalTest, BroadcastTest, RInv, IInv, TypeOK
  <1>2. CASE cwaiting[arg[t]] # <<>>
    <2>1. \E l \in {"sigrel", "bctest"} : Unblock(t, l)
      BY <1>2 DEF SignalTest, BroadcastTest
    <2>2. QED
      BY <1>1, <1>2, <2>1, UnblockRefines
  <1>3. CASE cwaiting[arg[t]] = <<>>
    <2>1. PICK l \in {"sigrel", "bcrel"} :
            pc' = [pc EXCEPT ![t] = l] /\ UNCHANGED <<cwaiting, arg>>
      BY <1>3 DEF SignalTest, BroadcastTest, Goto
    <2>2. \A u \in Threads : Holds(u)' <=> Holds(u)
      BY <1>1, <2>1 DEF Holds, Waking
    <2>3. Sleeping' = Sleeping
      BY <1>1, <2>1, SleepersKept
    <2>4. QED
      BY <1>1, <2>2, <2>3, OwnerKept DEF AM!amvars
  <1>4. QED
    BY <1>2, <1>3

\* Calls, spinlock operations and returns change nothing in the abstract monitor.
LEMMA OtherStepsStutter ==
  ASSUME RInv, NEW t \in Threads,
         \/ CallAcquire(t) \/ AcquireSpin(t) \/ AcquireRelease(t)
         \/ CallRelease(t) \/ ReleaseSpin(t) \/ ReleaseRelease(t)
         \/ (\E c \in Conds : CallWait(t, c)) \/ WaitSpin(t)
         \/ (\E c \in Conds : CallWake(t, c, "sig") \/ CallWake(t, c, "bc"))
         \/ WakeSpin(t) \/ WakeRelease(t)
  PROVE  UNCHANGED AM!amvars
  <1>1. /\ pc \in [Threads -> Location] /\ arg \in [Threads -> Spinlocks]
        /\ ret \in [Threads -> {"out", "in"}]
    BY DEF RInv, IInv, TypeOK
  <1>2. /\ UNCHANGED <<waiting, cwaiting>>
        /\ \A u \in Threads : u # t => pc'[u] = pc[u] /\ arg'[u] = arg[u] /\ ret'[u] = ret[u]
    BY <1>1 DEF CallAcquire, AcquireSpin, AcquireRelease, CallRelease, ReleaseSpin,
                ReleaseRelease, CallWait, WaitSpin, CallWake, WakeSpin, WakeRelease, Goto
  <1>3. Holds(t)' <=> Holds(t)
    BY <1>1 DEF CallAcquire, AcquireSpin, AcquireRelease, CallRelease, ReleaseSpin,
                ReleaseRelease, CallWait, WaitSpin, CallWake, WakeSpin, WakeRelease, Goto,
                Holds, Waking
  <1>4. /\ pc'[t] \in {"relrel", "sleep"} <=> pc[t] \in {"relrel", "sleep"} /\ arg[t] # NoCond
        /\ pc[t] \in {"relrel", "sleep"} => arg'[t] = arg[t]
    BY <1>1 DEF CallAcquire, AcquireSpin, AcquireRelease, CallRelease, ReleaseSpin,
                ReleaseRelease, CallWait, WaitSpin, CallWake, WakeSpin, WakeRelease, Goto
  <1>5. Owner' = Owner
    <2>1. \A u \in Threads : Holds(u)' <=> Holds(u)
      BY <1>2, <1>3 DEF Holds
    <2>2. QED
      BY <2>1, OwnerKept
  <1>6. \A c \in Conds : Falling(c)' = Falling(c)
    BY <1>2, <1>4, SpinMonitorAssumption DEF Falling
  <1>7. Sleeping' = Sleeping
    BY <1>2, <1>6 DEF Sleeping, FallingAsleep, Falling
  <1>8. QED
    BY <1>2, <1>5, <1>7 DEF AM!amvars

-----------------------------------------------------------------------------
\* Every step of the spinlock version is a step of the abstract monitor, or none.
LEMMA StepRefines == RInv /\ RInv' /\ [Next]_spinvars => [AM!Next]_AM!amvars
  <1> SUFFICES ASSUME RInv, RInv', [Next]_spinvars PROVE [AM!Next]_AM!amvars
    OBVIOUS
  <1>1. CASE Next
    <2>1. PICK t \in Threads :
            \/ AcquireTest(t) \/ ReleaseTest(t) \/ Sleep(t)
            \/ SignalTest(t) \/ BroadcastTest(t)
            \/ CallAcquire(t) \/ AcquireSpin(t) \/ AcquireRelease(t)
            \/ CallRelease(t) \/ ReleaseSpin(t) \/ ReleaseRelease(t)
            \/ (\E c \in Conds : CallWait(t, c)) \/ WaitSpin(t)
            \/ (\E c \in Conds : CallWake(t, c, "sig") \/ CallWake(t, c, "bc"))
            \/ WakeSpin(t) \/ WakeRelease(t)
      BY <1>1 DEF Next
    <2>2. CASE AcquireTest(t)
      BY <2>2, AcquireTestRefines DEF AM!Next
    <2>3. CASE ReleaseTest(t)
      BY <2>3, ReleaseTestRefines DEF AM!Next
    <2>4. CASE Sleep(t)
      BY <2>4, SleepRefines
    <2>5. CASE SignalTest(t) \/ BroadcastTest(t)
      BY <2>5, WakeTestRefines DEF AM!Next
    <2>6. QED
      BY <2>1, <2>2, <2>3, <2>4, <2>5, OtherStepsStutter
  <1>2. CASE UNCHANGED spinvars
    BY <1>2 DEF spinvars, AM!amvars, Owner, Holds, Sleeping, FallingAsleep
  <1>3. QED
    BY <1>1, <1>2

\* For any threads and condition variables, the spinlock version implements the
\* monitor whose wait is atomic: whoever gets the lock after a thread has given it
\* up to wait can wake that thread.
THEOREM RefinesAtomicMonitor == Spec => ImplementsAtomicMonitor
  <1>1. Spec => []RInv
    BY Invariance, MappedState, PTL
  <1>2. Spec => AM!Init /\ [][AM!Next]_AM!amvars
    BY <1>1, InitRefines, StepRefines, PTL DEF Spec
  <1>3. QED
    BY <1>2 DEF ImplementsAtomicMonitor, AM!Spec
=============================================================================
