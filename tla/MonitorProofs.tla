---------------------------- MODULE MonitorProofs ----------------------------
(***************************************************************************)
(* The monitor of thread.c and what is built on it, for any threads,       *)
(* condition variables, messages, keys and sizes of buffer.                *)
(*                                                                         *)
(* Lock and conditions: the lock is handed from thread to thread without   *)
(* ever being opened, so exclusion rests on the waiting lists: a thread    *)
(* that lock_release() unblocks must have been blocked on the lock.  The   *)
(* invariant is therefore the conjunction of all the monitor's invariants, *)
(* split into what concerns the lock and what concerns the conditions.     *)
(*                                                                         *)
(* Mailbox: the use count, and exclusion although mbox_close() initialises *)
(* the lock it has, as long as mbox_open() and mbox_close() do not         *)
(* overlap; the circular buffer as a queue of whole messages.              *)
(*                                                                         *)
(* Keyboard: the interrupt handler that never waits, and the shift state.  *)
(***************************************************************************)
EXTENDS Keyboard, QueueLemmas

LockInv ==
  /\ status \in {"UNLOCKED", "LOCKED"}
  /\ waiting \in Seq(Threads)
  /\ at \in [Threads -> Location]
  /\ MutualExclusion
  /\ LockedIffHeld
  /\ IsInjective(waiting)
  /\ ToSet(waiting) = {t \in Threads : at[t] = "blocked"}

CondInv ==
  /\ cwaiting \in [Conds -> Seq(Threads)]
  /\ on \in [Threads -> Conds \cup {NoCond}]
  /\ \A t \in Threads : at[t] \in {"unlocked", "waiting"} => on[t] \in Conds
  /\ \A c \in Conds :
       /\ IsInjective(cwaiting[c])
       /\ ToSet(cwaiting[c]) = {t \in Threads : at[t] = "waiting" /\ on[t] = c}

IInv == LockInv /\ CondInv

-----------------------------------------------------------------------------
\* The initialised monitor satisfies the invariant.
LEMMA InitIInv == Init => IInv
  <1> SUFFICES ASSUME Init PROVE IInv
    OBVIOUS
  <1>1. LockInv
    BY EmptyQueue DEF Init, LockInv, MutualExclusion, LockedIffHeld, Inside, Location
  <1>2. CondInv
    BY EmptyQueue DEF Init, CondInv
  <1>3. QED
    BY <1>1, <1>2 DEF IInv

\* lock_acquire_helper() keeps the invariant of the lock: the caller gets an
\* open lock, or joins the queue of a closed one.
LEMMA HelperKeepsLock ==
  ASSUME LockInv, NEW t \in Threads, at[t] \in {"out", "woken"},
         LockAcquireHelper(t)
  PROVE  /\ LockInv'
         /\ \A u \in Threads : at'[u] \in {"unlocked", "waiting", "woken"}
                                 => u # t /\ at'[u] = at[u]
         /\ \A u \in Threads : at[u] \in {"unlocked", "waiting"} => at'[u] = at[u]
  <1> USE DEF LockInv
  <1>1. \A u \in Threads : u # t => at'[u] = at[u]
    BY DEF LockAcquireHelper
  <1>2. CASE status = "UNLOCKED"
    <2>1. /\ status' = "LOCKED" /\ waiting' = waiting /\ at' = [at EXCEPT ![t] = "in"]
      BY <1>2 DEF LockAcquireHelper
    <2>2. at'[t] = "in" /\ at' \in [Threads -> Location]
      BY <2>1 DEF Location
    <2>3. Inside = {} /\ Inside' = {t}
      BY <1>1, <1>2, <2>2 DEF LockedIffHeld, Inside
    <2>4. {u \in Threads : at'[u] = "blocked"} = {u \in Threads : at[u] = "blocked"}
      BY <1>1, <2>2
    <2>5. MutualExclusion' /\ LockedIffHeld'
      BY <2>1, <2>3 DEF MutualExclusion, LockedIffHeld
    <2>6. QED
      BY <1>1, <2>1, <2>2, <2>4, <2>5
  <1>3. CASE status # "UNLOCKED"
    <2>1. /\ status' = status /\ waiting' = Append(waiting, t)
          /\ at' = [at EXCEPT ![t] = "blocked"]
      BY <1>3 DEF LockAcquireHelper
    <2>2. at'[t] = "blocked" /\ at' \in [Threads -> Location]
      BY <2>1 DEF Location
    <2>3. Inside' = Inside
      BY <1>1, <2>2 DEF Inside
    <2>4. t \notin ToSet(waiting)
      OBVIOUS
    <2>5. /\ waiting' \in Seq(Threads) /\ IsInjective(waiting')
          /\ ToSet(waiting') = ToSet(waiting) \cup {t}
      BY <2>1, <2>4, Joins
    <2>6. ToSet(waiting') = {u \in Threads : at'[u] = "blocked"}
      BY <1>1, <2>2, <2>5
    <2>7. MutualExclusion' /\ LockedIffHeld'
      BY <1>3, <2>1, <2>3 DEF MutualExclusion, LockedIffHeld
    <2>8. QED
      BY <1>1, <2>1, <2>2, <2>5, <2>6, <2>7
  <1>4. QED
    BY <1>2, <1>3

\* lock_release() keeps the invariant of the lock: it is opened when nobody
\* waits, and otherwise the thread that was first in the queue has it.
LEMMA HandOffKeepsLock ==
  ASSUME LockInv, NEW t \in Threads, at[t] = "in",
         NEW where \in {"out", "unlocked"}, HandOff(t, where)
  PROVE  /\ LockInv'
         /\ at'[t] = where
         /\ \A u \in Threads : u # t /\ at[u] # "blocked" => at'[u] = at[u]
         /\ \A u \in Threads : at'[u] = "waiting" <=> at[u] = "waiting"
         /\ \A u \in Threads : u # t => (at'[u] = "unlocked" <=> at[u] = "unlocked")
  <1> USE DEF LockInv
  <1>0. Inside = {t} /\ status = "LOCKED"
    BY DEF Inside, MutualExclusion, LockedIffHeld
  <1>1. CASE waiting = <<>>
    <2>1. status' = "UNLOCKED" /\ waiting' = waiting /\ at' = [at EXCEPT ![t] = where]
      BY <1>1 DEF HandOff
    <2>2. /\ at' \in [Threads -> Location] /\ at'[t] = where
          /\ \A u \in Threads : u # t => at'[u] = at[u]
      BY <2>1 DEF Location
    <2>3. Inside' = {}
      BY <1>0, <2>2 DEF Inside
    <2>4. {u \in Threads : at'[u] = "blocked"} = {u \in Threads : at[u] = "blocked"}
      BY <2>2
    <2>5. MutualExclusion' /\ LockedIffHeld'
      BY <1>1, <2>1, <2>3 DEF MutualExclusion, LockedIffHeld
    <2>6. QED
      BY <2>1, <2>2, <2>4, <2>5
  <1>2. CASE waiting # <<>>
    <2> DEFINE h == Head(waiting)
    <2>1. /\ status' = status /\ waiting' = Tail(waiting)
          /\ at' = [at EXCEPT ![t] = where, ![h] = "in"]
      BY <1>2 DEF HandOff
    <2>2. /\ h \in Threads /\ h \in ToSet(waiting)
          /\ waiting' \in Seq(Threads) /\ IsInjective(waiting')
          /\ ToSet(waiting') = ToSet(waiting) \ {h}
      BY <1>2, <2>1, LeavesFirst
    <2> HIDE DEF h
    <2>3. at[h] = "blocked" /\ h # t
      BY <2>2
    <2>4. /\ at' \in [Threads -> Location] /\ at'[t] = where /\ at'[h] = "in"
          /\ \A u \in Threads : u # t /\ u # h => at'[u] = at[u]
      BY <2>1, <2>2, <2>3 DEF Location
    <2>5. Inside' = {h}
      BY <1>0, <2>2, <2>3, <2>4 DEF Inside
    <2>6. ToSet(waiting') = {u \in Threads : at'[u] = "blocked"}
      BY <2>2, <2>3, <2>4
    <2>7. MutualExclusion' /\ LockedIffHeld'
      BY <1>0, <2>1, <2>5 DEF MutualExclusion, LockedIffHeld
    <2>8. QED
      BY <1>0, <2>1, <2>2, <2>3, <2>4, <2>6, <2>7
  <1>3. QED
    BY <1>1, <1>2

\* A step that leaves the lock alone and moves nobody into or out of it, or
\* its queue, keeps the invariant of the lock.
LEMMA LockUntouched ==
  ASSUME LockInv, UNCHANGED <<status, waiting>>, at' \in [Threads -> Location],
         \A u \in Threads : at'[u] \in {"in", "blocked"} \/ at[u] \in {"in", "blocked"}
                              => at'[u] = at[u]
  PROVE  LockInv'
  <1>1. Inside' = Inside
    BY DEF Inside
  <1>2. {u \in Threads : at'[u] = "blocked"} = {u \in Threads : at[u] = "blocked"}
    OBVIOUS
  <1>3. QED
    BY <1>1, <1>2 DEF LockInv, MutualExclusion, LockedIffHeld

\* A step that changes no condition variable and moves nobody to or from one
\* keeps the invariant of the condition variables.
LEMMA CondUntouched ==
  ASSUME CondInv, cwaiting' = cwaiting, on' \in [Threads -> Conds \cup {NoCond}],
         \A u \in Threads : at'[u] = "waiting" <=> at[u] = "waiting",
         \A u \in Threads : at[u] = "waiting" => on'[u] = on[u],
         \A u \in Threads : at'[u] = "unlocked" => on'[u] \in Conds
  PROVE  CondInv'
  <1>1. \A c \in Conds : {u \in Threads : at'[u] = "waiting" /\ on'[u] = c}
                           = {u \in Threads : at[u] = "waiting" /\ on[u] = c}
    OBVIOUS
  <1>2. \A u \in Threads : at'[u] \in {"unlocked", "waiting"} => on'[u] \in Conds
    BY DEF CondInv
  <1>3. QED
    BY <1>1, <1>2 DEF CondInv

-----------------------------------------------------------------------------
\* lock_acquire(), and lock_acquire_helper() at the end of condition_wait(),
\* keep the invariant.
LEMMA AcquireIInv ==
  ASSUME IInv, NEW t \in Threads, Acquire(t) \/ Reacquire(t)
  PROVE  IInv'
  <1>1. /\ at[t] \in {"out", "woken"} /\ LockAcquireHelper(t) /\ cwaiting' = cwaiting
        /\ on' = on \/ on' = [on EXCEPT ![t] = NoCond]
    BY DEF Acquire, Reacquire
  <1>2. /\ LockInv'
        /\ \A u \in Threads : at'[u] \in {"unlocked", "waiting", "woken"}
                                => u # t /\ at'[u] = at[u]
        /\ \A u \in Threads : at[u] \in {"unlocked", "waiting"} => at'[u] = at[u]
    BY <1>1, HelperKeepsLock DEF IInv
  <1>3. /\ on' \in [Threads -> Conds \cup {NoCond}]
        /\ \A u \in Threads : u # t => on'[u] = on[u]
    BY <1>1 DEF IInv, CondInv
  <1>4. \A u \in Threads : at'[u] = "waiting" <=> at[u] = "waiting"
    BY <1>2
  <1>5. \A u \in Threads : at'[u] = "unlocked" => on'[u] \in Conds
    BY <1>2, <1>3 DEF IInv, CondInv
  <1>6. \A u \in Threads : at[u] = "waiting" => on'[u] = on[u]
    BY <1>1, <1>3
  <1>7. CondInv'
    BY <1>1, <1>3, <1>4, <1>5, <1>6, CondUntouched DEF IInv
  <1>8. QED
    BY <1>2, <1>7 DEF IInv

\* lock_release(), also as the first half of condition_wait(), keeps the
\* invariant.
LEMMA ReleaseIInv ==
  ASSUME IInv, NEW t \in Threads, Release(t) \/ \E c \in Conds : Wait(t, c)
  PROVE  IInv'
  <1>1. PICK where \in {"out", "unlocked"} :
          /\ at[t] = "in" /\ HandOff(t, where) /\ cwaiting' = cwaiting
          /\ \/ on' = on /\ where = "out"
             \/ \E c \in Conds : on' = [on EXCEPT ![t] = c]
    BY DEF Release, Wait
  <1>2. /\ LockInv' /\ at'[t] = where
        /\ \A u \in Threads : at'[u] = "waiting" <=> at[u] = "waiting"
        /\ \A u \in Threads : u # t => (at'[u] = "unlocked" <=> at[u] = "unlocked")
    BY <1>1, HandOffKeepsLock DEF IInv
  <1>3. /\ on' \in [Threads -> Conds \cup {NoCond}]
        /\ \A u \in Threads : u # t => on'[u] = on[u]
        /\ where = "unlocked" => on'[t] \in Conds
    BY <1>1 DEF IInv, CondInv
  <1>4. \A u \in Threads : at'[u] = "unlocked" => on'[u] \in Conds
    BY <1>1, <1>2, <1>3 DEF IInv, CondInv
  <1>5. \A u \in Threads : at[u] = "waiting" => on'[u] = on[u]
    BY <1>1, <1>3
  <1>6. CondInv'
    BY <1>1, <1>2, <1>3, <1>4, <1>5, CondUntouched DEF IInv
  <1>7. QED
    BY <1>2, <1>6 DEF IInv

\* block(&c->waiting) in condition_wait() keeps the invariant.
LEMMA SleepIInv ==
  ASSUME IInv, NEW t \in Threads, Sleep(t)
  PROVE  IInv'
  <1> DEFINE c == on[t]
  <1>1. /\ at[t] = "unlocked" /\ c \in Conds
        /\ cwaiting' = [cwaiting EXCEPT ![c] = Append(cwaiting[c], t)]
        /\ at' = [at EXCEPT ![t] = "waiting"]
        /\ UNCHANGED <<status, waiting, on>>
    BY DEF Sleep, IInv, CondInv
  <1>2. /\ at' \in [Threads -> Location] /\ at'[t] = "waiting"
        /\ \A u \in Threads : u # t => at'[u] = at[u]
    BY <1>1 DEF IInv, LockInv, Location
  <1>3. LockInv'
    BY <1>1, <1>2, LockUntouched DEF IInv
  <1>4. t \notin ToSet(cwaiting[c]) /\ cwaiting[c] \in Seq(Threads)
        /\ IsInjective(cwaiting[c])
    BY <1>1 DEF IInv, CondInv
  <1>5. /\ cwaiting'[c] = Append(cwaiting[c], t)
        /\ \A d \in Conds : d # c => cwaiting'[d] = cwaiting[d]
        /\ cwaiting' \in [Conds -> Seq(Threads)]
    BY <1>1, <1>4, Joins DEF IInv, CondInv
  <1>6. IsInjective(cwaiting'[c]) /\ ToSet(cwaiting'[c]) = ToSet(cwaiting[c]) \cup {t}
    BY <1>4, <1>5, Joins
  <1>7. ASSUME NEW d \in Conds
        PROVE  /\ IsInjective(cwaiting'[d])
               /\ ToSet(cwaiting'[d])
                    = {u \in Threads : at'[u] = "waiting" /\ on'[u] = d}
    <2>1. CASE d = c
      BY <1>1, <1>2, <1>6, <2>1 DEF IInv, CondInv
    <2>2. CASE d # c
      BY <1>1, <1>2, <1>5, <2>2 DEF IInv, CondInv
    <2>3. QED
      BY <2>1, <2>2
  <1>8. CondInv'
    BY <1>1, <1>2, <1>5, <1>7 DEF IInv, CondInv
  <1>9. QED
    BY <1>3, <1>8 DEF IInv

\* condition_signal() keeps the invariant: it wakes one that waits on c.
LEMMA SignalIInv ==
  ASSUME IInv, NEW t \in Threads, NEW c \in Conds, Signal(t, c)
  PROVE  IInv'
  <1> DEFINE h == Head(cwaiting[c])
  <1>1. /\ cwaiting[c] # <<>>
        /\ cwaiting' = [cwaiting EXCEPT ![c] = Tail(cwaiting[c])]
        /\ at' = [at EXCEPT ![h] = "woken"]
        /\ UNCHANGED <<status, waiting, on>>
    BY DEF Signal
  <1>2. /\ h \in Threads /\ h \in ToSet(cwaiting[c])
        /\ Tail(cwaiting[c]) \in Seq(Threads) /\ IsInjective(Tail(cwaiting[c]))
        /\ ToSet(Tail(cwaiting[c])) = ToSet(cwaiting[c]) \ {h}
    BY <1>1, LeavesFirst DEF IInv, CondInv
  <1> HIDE DEF h
  <1>3. at[h] = "waiting" /\ on[h] = c
    BY <1>2 DEF IInv, CondInv
  <1>4. /\ at' \in [Threads -> Location] /\ at'[h] = "woken"
        /\ \A u \in Threads : u # h => at'[u] = at[u]
    BY <1>1, <1>2 DEF IInv, LockInv, Location
  <1>5. LockInv'
    BY <1>1, <1>3, <1>4, LockUntouched DEF IInv
  <1>6. /\ cwaiting'[c] = Tail(cwaiting[c])
        /\ \A d \in Conds : d # c => cwaiting'[d] = cwaiting[d]
        /\ cwaiting' \in [Conds -> Seq(Threads)]
    BY <1>1, <1>2 DEF IInv, CondInv
  <1>7. ASSUME NEW d \in Conds
        PROVE  /\ IsInjective(cwaiting'[d])
               /\ ToSet(cwaiting'[d])
                    = {u \in Threads : at'[u] = "waiting" /\ on'[u] = d}
    <2>1. CASE d = c
      BY <1>1, <1>2, <1>4, <1>6, <2>1 DEF IInv, CondInv
    <2>2. CASE d # c
      BY <1>1, <1>3, <1>4, <1>6, <2>2 DEF IInv, CondInv
    <2>3. QED
      BY <2>1, <2>2
  <1>8. CondInv'
    BY <1>1, <1>4, <1>6, <1>7 DEF IInv, CondInv
  <1>9. QED
    BY <1>5, <1>8 DEF IInv

\* condition_broadcast() keeps the invariant: it wakes all that wait on c.
LEMMA BroadcastIInv ==
  ASSUME IInv, NEW t \in Threads, NEW c \in Conds, Broadcast(t, c)
  PROVE  IInv'
  <1>1. /\ cwaiting' = [cwaiting EXCEPT ![c] = <<>>]
        /\ at' = [u \in Threads |->
                    IF u \in ToSet(cwaiting[c]) THEN "woken" ELSE at[u]]
        /\ UNCHANGED <<status, waiting, on>>
    BY DEF Broadcast, WakeAll
  <1>2. \A u \in Threads : u \in ToSet(cwaiting[c]) <=> at[u] = "waiting" /\ on[u] = c
    BY DEF IInv, CondInv
  <1>3. /\ at' \in [Threads -> Location]
        /\ \A u \in Threads : at'[u] = IF at[u] = "waiting" /\ on[u] = c
                                       THEN "woken" ELSE at[u]
    BY <1>1, <1>2 DEF IInv, LockInv, Location
  <1>4. LockInv'
    BY <1>1, <1>3, LockUntouched DEF IInv
  <1>5. /\ cwaiting'[c] = <<>>
        /\ \A d \in Conds : d # c => cwaiting'[d] = cwaiting[d]
        /\ cwaiting' \in [Conds -> Seq(Threads)]
    BY <1>1 DEF IInv, CondInv
  <1>6. ASSUME NEW d \in Conds
        PROVE  /\ IsInjective(cwaiting'[d])
               /\ ToSet(cwaiting'[d])
                    = {u \in Threads : at'[u] = "waiting" /\ on'[u] = d}
    <2>1. CASE d = c
      BY <1>1, <1>3, <1>5, <2>1, EmptyQueue
    <2>2. CASE d # c
      BY <1>1, <1>3, <1>5, <2>2 DEF IInv, CondInv
    <2>3. QED
      BY <2>1, <2>2
  <1>7. CondInv'
    BY <1>1, <1>3, <1>5, <1>6 DEF IInv, CondInv
  <1>8. QED
    BY <1>4, <1>7 DEF IInv

-----------------------------------------------------------------------------
\* Every step of the monitor keeps the invariant.
LEMMA NextIInv == IInv /\ [Next]_monvars => IInv'
  <1> SUFFICES ASSUME IInv, [Next]_monvars PROVE IInv'
    OBVIOUS
  <1>1. CASE Next
    <2>1. PICK t \in Threads :
            \/ Acquire(t) \/ Reacquire(t)
            \/ Release(t) \/ (\E c \in Conds : Wait(t, c))
            \/ Sleep(t)
            \/ \E c \in Conds : Signal(t, c) \/ Broadcast(t, c)
      BY <1>1 DEF Next
    <2>2. QED
      BY <2>1, AcquireIInv, ReleaseIInv, SleepIInv, SignalIInv, BroadcastIInv
  <1>2. CASE UNCHANGED monvars
    BY <1>2 DEF monvars, IInv, LockInv, CondInv, MutualExclusion, LockedIffHeld, Inside
  <1>3. QED
    BY <1>1, <1>2

\* The inductive invariant holds in every reachable state.
LEMMA Invariance == Spec => []IInv
  BY InitIInv, NextIInv, PTL DEF Spec

\* For any threads and condition variables, every variable keeps its type.
THEOREM TypeCorrect == Spec => []TypeOK
  <1>1. IInv => TypeOK
    BY DEF IInv, LockInv, CondInv, TypeOK
  <1>2. QED
    BY <1>1, Invariance, PTL

\* For any number of threads, never two of them have the lock, although it is
\* handed from one to the next without being opened.
THEOREM LockExcludes == Spec => []MutualExclusion
  <1>1. IInv => MutualExclusion
    BY DEF IInv, LockInv
  <1>2. QED
    BY <1>1, Invariance, PTL

\* For any number of threads, the lock is LOCKED exactly while a thread has it
\* and nobody is queued behind an open lock.
THEOREM LockIsNotLost == Spec => []LockedIffHeld
  <1>1. IInv => LockedIffHeld
    BY DEF IInv, LockInv
  <1>2. QED
    BY <1>1, Invariance, PTL

\* For any number of threads and condition variables, the waiting lists hold
\* exactly the blocked threads, each once.
THEOREM NoWaiterIsDropped == Spec => []QueuesMatch
  <1>1. IInv => QueuesMatch
    BY DEF IInv, LockInv, CondInv, QueuesMatch
  <1>2. QED
    BY <1>1, Invariance, PTL

-----------------------------------------------------------------------------
(***************************************************************************)
(* The monitor implements AbstractMonitor.  Every step is one abstract     *)
(* step; what has to be shown is that the lock's owner changes as the      *)
(* abstract one does, for which there must be only one.                    *)
(***************************************************************************)

\* The owner is the thread inside, or nobody.
LEMMA OwnerIsInside ==
  ASSUME IInv
  PROVE  /\ Inside = {} => Owner = Nobody
         /\ \A t \in Inside : Owner = t /\ Owner # Nobody /\ Inside = {t}
         /\ status = "UNLOCKED" <=> Owner = Nobody
  <1>1. Inside # {} => Owner \in Inside
    BY DEF Owner
  <1>2. Inside = {} => Owner = Nobody
    BY DEF Owner
  <1>3. \A t \in Inside : t \in Threads
    BY DEF Inside
  <1>4. QED
    BY <1>1, <1>2, <1>3, MonitorAssumption
       DEF IInv, LockInv, MutualExclusion, LockedIffHeld

\* The same after a step.
LEMMA NextOwnerIsInside ==
  ASSUME IInv'
  PROVE  /\ Inside' = {} => Owner' = Nobody
         /\ \A t \in Inside' : Owner' = t
  <1>1. Inside' # {} => Owner' \in Inside'
    BY DEF Owner
  <1>2. Inside' = {} => Owner' = Nobody
    BY DEF Owner
  <1>3. QED
    BY <1>1, <1>2 DEF IInv, LockInv, MutualExclusion

\* The initialised monitor is the abstract monitor in its initial state.
LEMMA InitRefines == Init => AM!Init
  <1> SUFFICES ASSUME Init PROVE AM!Init
    OBVIOUS
  <1>1. Inside = {} /\ Dozing = {}
    BY DEF Init, Inside, Dozing
  <1>2. QED
    BY <1>1 DEF Init, AM!Init, Owner

\* lock_acquire() and the end of condition_wait() ask for the abstract lock.
LEMMA AcquireRefines ==
  ASSUME IInv, IInv', NEW t \in Threads, Acquire(t) \/ Reacquire(t)
  PROVE  AM!Enter(t)
  <1>1. at[t] \in {"out", "woken"} /\ LockAcquireHelper(t) /\ cwaiting' = cwaiting
    BY DEF Acquire, Reacquire
  <1>2. AM!Absent(t)
    <2>1. t # Owner
      <3>1. t \notin Inside /\ t # Nobody
        BY <1>1, MonitorAssumption DEF Inside
      <3>2. QED
        BY <3>1 DEF Owner
    <2>2. t \notin ToSet(waiting) \cup Dozing
      BY <1>1 DEF IInv, LockInv, Dozing
    <2>3. \A c \in Conds : t \notin ToSet(cwaiting[c])
      BY <1>1 DEF IInv, CondInv
    <2>4. QED
      BY <2>1, <2>2, <2>3 DEF AM!Absent, AM!ToSet, ToSet
  <1>3. Dozing' = Dozing
    BY <1>1 DEF LockAcquireHelper, Dozing, IInv, LockInv
  <1>4. CASE status = "UNLOCKED"
    <2>1. waiting' = waiting /\ at' = [at EXCEPT ![t] = "in"]
      BY <1>1, <1>4 DEF LockAcquireHelper
    <2>2. Owner = Nobody
      BY <1>4, OwnerIsInside
    <2>3. Owner' = t
      <3>1. t \in Inside'
        BY <2>1 DEF Inside, IInv, LockInv
      <3>2. QED
        BY <3>1, NextOwnerIsInside
    <2>4. QED
      BY <1>1, <1>2, <1>3, <2>1, <2>2, <2>3 DEF AM!Enter
  <1>5. CASE status # "UNLOCKED"
    <2>1. waiting' = Append(waiting, t) /\ at' = [at EXCEPT ![t] = "blocked"]
      BY <1>1, <1>5 DEF LockAcquireHelper
    <2>2. Owner # Nobody
      BY <1>5, OwnerIsInside
    <2>3. Inside' = Inside
      BY <1>1, <2>1 DEF Inside, IInv, LockInv
    <2>4. Owner' = Owner
      BY <2>3 DEF Owner
    <2>5. QED
      BY <1>1, <1>2, <1>3, <2>1, <2>2, <2>4 DEF AM!Enter
  <1>6. QED
    BY <1>4, <1>5

\* lock_release() passes the abstract lock on to the first in the queue.
LEMMA HandOffRefines ==
  ASSUME IInv, IInv', NEW t \in Threads, at[t] = "in",
         NEW where \in {"out", "unlocked"}, HandOff(t, where)
  PROVE  Owner = t /\ Owner # Nobody /\ AM!PassOn
  <1>1. t \in Inside
    BY DEF Inside
  <1>2. Owner = t /\ Owner # Nobody /\ Inside = {t}
    BY <1>1, OwnerIsInside
  <1>3. CASE waiting = <<>>
    <2>1. waiting' = waiting /\ at' = [at EXCEPT ![t] = where]
      BY <1>3 DEF HandOff
    <2>2. Inside' = {}
      BY <1>2, <2>1 DEF Inside, IInv, LockInv
    <2>3. QED
      BY <1>2, <1>3, <2>1, <2>2, NextOwnerIsInside DEF AM!PassOn
  <1>4. CASE waiting # <<>>
    <2>1. /\ waiting' = Tail(waiting)
          /\ at' = [at EXCEPT ![t] = where, ![Head(waiting)] = "in"]
      BY <1>4 DEF HandOff
    <2>2. Head(waiting) \in Threads
      BY <1>4, LeavesFirst DEF IInv, LockInv
    <2>3. Head(waiting) \in Inside'
      BY <2>1, <2>2 DEF Inside, IInv, LockInv
    <2>4. Owner' = Head(waiting)
      BY <2>3, NextOwnerIsInside
    <2>5. QED
      BY <1>2, <1>4, <2>1, <2>4 DEF AM!PassOn
  <1>5. QED
    BY <1>3, <1>4

\* lock_release() for itself is Leave, in condition_wait() it is Doze: the thread
\* has given up the lock and is on no list.
LEMMA ReleaseRefines ==
  ASSUME IInv, IInv', NEW t \in Threads
  PROVE  /\ Release(t) => AM!Leave
         /\ \A c \in Conds : Wait(t, c) => AM!Doze
  <1>1. ASSUME Release(t) PROVE AM!Leave
    <2>1. at[t] = "in" /\ HandOff(t, "out") /\ cwaiting' = cwaiting
      BY <1>1 DEF Release
    <2>2. Owner # Nobody /\ AM!PassOn
      BY <2>1, HandOffRefines
    <2>3. /\ at'[t] = "out"
          /\ \A u \in Threads : u # t => (at'[u] = "unlocked" <=> at[u] = "unlocked")
      BY <2>1, HandOffKeepsLock DEF IInv
    <2>4. Dozing' = Dozing
      BY <2>1, <2>3 DEF Dozing
    <2>5. QED
      BY <2>1, <2>2, <2>4 DEF AM!Leave
  <1>2. ASSUME NEW c \in Conds, Wait(t, c) PROVE AM!Doze
    <2>1. at[t] = "in" /\ HandOff(t, "unlocked") /\ cwaiting' = cwaiting
      BY <1>2 DEF Wait
    <2>2. Owner = t /\ Owner # Nobody /\ AM!PassOn
      BY <2>1, HandOffRefines
    <2>3. /\ at'[t] = "unlocked"
          /\ \A u \in Threads : u # t => (at'[u] = "unlocked" <=> at[u] = "unlocked")
      BY <2>1, HandOffKeepsLock DEF IInv
    <2>4. Dozing' = Dozing \cup {t}
      BY <2>3 DEF Dozing
    <2>5. QED
      BY <2>1, <2>2, <2>4 DEF AM!Doze
  <1>3. QED
    BY <1>1, <1>2

\* block() in condition_wait() puts the thread to sleep; signal and broadcast wake
\* the first or all.
LEMMA ConditionRefines ==
  ASSUME IInv, NEW t \in Threads
  PROVE  /\ Sleep(t) => AM!FallAsleep(t, on[t]) /\ on[t] \in Conds
         /\ \A c \in Conds : Signal(t, c) \/ Broadcast(t, c) => AM!Wake(c)
  <1>1. ASSUME Sleep(t) PROVE AM!FallAsleep(t, on[t]) /\ on[t] \in Conds
    <2>1. /\ at[t] = "unlocked" /\ on[t] \in Conds /\ waiting' = waiting
          /\ cwaiting' = [cwaiting EXCEPT ![on[t]] = Append(cwaiting[on[t]], t)]
          /\ at' = [at EXCEPT ![t] = "waiting"]
      BY <1>1 DEF Sleep, IInv, CondInv
    <2>2. Inside' = Inside /\ Dozing' = Dozing \ {t} /\ t \in Dozing
      BY <2>1 DEF Inside, Dozing, IInv, LockInv
    <2>3. Owner' = Owner
      BY <2>2 DEF Owner
    <2>4. QED
      BY <2>1, <2>2, <2>3 DEF AM!FallAsleep
  <1>2. ASSUME NEW c \in Conds, Signal(t, c) \/ Broadcast(t, c)
        PROVE  AM!Wake(c)
    <2>1. /\ cwaiting[c] # <<>> /\ waiting' = waiting
          /\ \/ cwaiting' = [cwaiting EXCEPT ![c] = Tail(cwaiting[c])]
             \/ cwaiting' = [cwaiting EXCEPT ![c] = <<>>]
      BY <1>2 DEF Signal, Broadcast, WakeAll
    <2>2. \A u \in ToSet(cwaiting[c]) : u \in Threads /\ at[u] = "waiting"
      BY DEF IInv, CondInv
    <2>3. Head(cwaiting[c]) \in ToSet(cwaiting[c])
      BY <2>1, LeavesFirst DEF IInv, CondInv
    <2>4. Inside' = Inside /\ Dozing' = Dozing
      BY <1>2, <2>2, <2>3 DEF Signal, Broadcast, WakeAll, Inside, Dozing, IInv, LockInv
    <2>5. Owner' = Owner
      BY <2>4 DEF Owner
    <2>6. QED
      BY <2>1, <2>4, <2>5 DEF AM!Wake
  <1>3. QED
    BY <1>1, <1>2

\* Every step of the monitor is a step of the abstract monitor.
LEMMA StepRefines == IInv /\ IInv' /\ [Next]_monvars => [AM!Next]_AM!amvars
  <1> SUFFICES ASSUME IInv, IInv', [Next]_monvars PROVE [AM!Next]_AM!amvars
    OBVIOUS
  <1>1. CASE Next
    <2>1. PICK t \in Threads :
            \/ Acquire(t) \/ Reacquire(t)
            \/ Release(t) \/ (\E c \in Conds : Wait(t, c))
            \/ Sleep(t)
            \/ \E c \in Conds : Signal(t, c) \/ Broadcast(t, c)
      BY <1>1 DEF Next
    <2>2. CASE Acquire(t) \/ Reacquire(t)
      BY <2>2, AcquireRefines DEF AM!Next
    <2>3. CASE Release(t) \/ \E c \in Conds : Wait(t, c)
      BY <2>3, ReleaseRefines DEF AM!Next
    <2>4. CASE Sleep(t)
      BY <2>4, ConditionRefines DEF AM!Next
    <2>5. CASE \E c \in Conds : Signal(t, c) \/ Broadcast(t, c)
      BY <2>5, ConditionRefines DEF AM!Next
    <2>6. QED
      BY <2>1, <2>2, <2>3, <2>4, <2>5
  <1>2. CASE UNCHANGED monvars
    BY <1>2 DEF monvars, AM!amvars, Owner, Dozing, Inside
  <1>3. QED
    BY <1>1, <1>2

\* For any threads and condition variables, the lock and conditions of thread.c
\* implement the monitor with first-come-first-served hand-over and a wait that
\* is not atomic.
THEOREM RefinesMonitor == Spec => ImplementsMonitor
  <1>1. Spec => AM!Init /\ [][AM!Next]_AM!amvars
    BY InitRefines, StepRefines, Invariance, PTL DEF Spec
  <1>2. QED
    BY <1>1 DEF ImplementsMonitor, AM!Spec

-----------------------------------------------------------------------------
(* The mailbox *)

Idle == {"none", "exited"}

WithHandle == {"close", "stat", "send", "recv"}

LocalsOK ==
  /\ op \in [Threads -> Idle \cup WithHandle \cup {"open"}]
  /\ stage \in [Threads -> {"body", "wake", "wake2", "init", "zero", "rel"}]
  /\ handle \in [Threads -> BOOLEAN]

\* Who is in which function: opening comes without a handle, everything else
\* with one, and the one that has closed the mailbox last leaves no user.
CallInv ==
  /\ \A t \in Threads : op[t] = "open" => ~handle[t] /\ stage[t] \in {"body", "rel"}
  /\ \A t \in Threads : op[t] \in WithHandle => handle[t]
  /\ \A t, u \in Threads : ~ (op[t] = "open" /\ op[u] = "close")
  /\ \A t \in Threads : op[t] = "close" /\ stage[t] \in {"wake", "wake2", "init", "zero"}
                          => Users = {}

\* A thread past the body of its function has had the lock since.
PlaceInv ==
  \A t \in Threads : /\ at[t] = "out" <=> op[t] \in Idle
                     /\ op[t] \notin Idle /\ stage[t] # "body" => at[t] = "in"

\* lock_init() has opened the lock that mbox_close() has: nobody else is there.
Resetting ==
  \E t \in Threads :
    /\ op[t] = "close" /\ stage[t] \in {"zero", "rel"} /\ at[t] = "in"
    /\ \A u \in Threads \ {t} : at[u] = "out"
    /\ at \in [Threads -> Location] /\ status = "UNLOCKED" /\ waiting = <<>>
    /\ Users = {}

CountInv == IsFiniteSet(Users) /\ used = Cardinality(Users)

UseInv == LocalsOK /\ CallInv /\ CountInv

MInv == /\ UseInv
        /\ PlaceInv /\ CondInv /\ (LockInv \/ Resetting)

-----------------------------------------------------------------------------
\* The mailbox that mbox_init() leaves satisfies the invariant.
LEMMA InitMInv == MInit => MInv
  <1> SUFFICES ASSUME MInit PROVE MInv
    OBVIOUS
  <1>1. IInv
    BY InitIInv DEF MInit
  <1>2. Users = {}
    BY DEF MInit, Users
  <1>3. LocalsOK /\ CallInv
    BY DEF MInit, LocalsOK, CallInv, Idle, WithHandle
  <1>4. CountInv
    BY <1>2, FS_EmptySet DEF MInit, CountInv
  <1>5. PlaceInv
    BY DEF MInit, Init, PlaceInv, Idle
  <1>6. QED
    BY <1>1, <1>3, <1>4, <1>5 DEF MInv, UseInv, IInv

\* A function is called: it makes nobody a user.
LEMMA CallUse ==
  ASSUME UseInv, ~OpenCloseRace, NEW t \in Threads,
         \/ CallOpen(t) \/ CallClose(t) \/ CallStat(t) \/ CallRecv(t)
         \/ \E m \in Messages : CallSend(t, m)
  PROVE  UseInv'
  <1> USE DEF UseInv, LocalsOK, Idle, WithHandle
  <1>1. PICK f \in WithHandle \cup {"open"} :
          /\ Call(t, f)
          /\ f = "open" => ~handle[t] /\ \A u \in Threads : op[u] # "close"
          /\ f \in WithHandle => handle[t]
          /\ f = "close" => \A u \in Threads : op[u] # "open"
    BY DEF CallOpen, CallClose, CallStat, CallSend, CallRecv
  <1>2. /\ op[t] = "none" /\ op' = [op EXCEPT ![t] = f]
        /\ stage' = [stage EXCEPT ![t] = "body"]
        /\ handle' = handle /\ used' = used
    BY <1>1 DEF Call, Goto, fields
  <1>3. Users' = Users
    BY <1>1, <1>2 DEF Users
  <1>4. LocalsOK'
    BY <1>2
  <1>5. CallInv'
    BY <1>1, <1>2, <1>3 DEF CallInv
  <1>6. CountInv'
    BY <1>2, <1>3 DEF CountInv
  <1>7. QED
    BY <1>4, <1>5, <1>6

\* mbox_open() makes its caller a user and counts it.
LEMMA OpenUse ==
  ASSUME UseInv, NEW t \in Threads, Open(t)
  PROVE  UseInv'
  <1> USE DEF UseInv, LocalsOK, Idle, WithHandle
  <1>1. /\ op[t] = "open" /\ stage[t] = "body" /\ used' = used + 1
        /\ stage' = [stage EXCEPT ![t] = "rel"]
        /\ op' = op /\ handle' = handle
    BY DEF Open, At, Goto
  <1>2. t \notin Users /\ Users' = Users \cup {t}
    BY <1>1 DEF Users, CallInv
  <1>3. LocalsOK'
    BY <1>1
  <1>4. CallInv'
    BY <1>1 DEF CallInv
  <1>5. CountInv'
    BY <1>1, <1>2, FS_AddElement DEF CountInv
  <1>6. QED
    BY <1>3, <1>4, <1>5

\* mbox_close() takes its caller from the users and counts it down; the count is
\* zero exactly when it was the last one.
LEMMA CloseUse ==
  ASSUME UseInv, NEW t \in Threads, Close(t)
  PROVE  UseInv'
  <1> USE DEF UseInv, LocalsOK, Idle, WithHandle
  <1>1. /\ op[t] = "close" /\ stage[t] = "body"
        /\ used' = IF used > 0 THEN used - 1 ELSE used
        /\ stage' = [stage EXCEPT ![t] = IF used' <= 0 THEN "wake" ELSE "rel"]
        /\ op' = op /\ handle' = handle
    BY DEF Close, At, Goto
  <1>2. t \in Users
    BY <1>1 DEF Users, CallInv
  <1>3. Users' = Users \ {t}
    BY <1>1 DEF Users
  <1>4. /\ IsFiniteSet(Users') /\ Cardinality(Users') = Cardinality(Users) - 1
        /\ Cardinality(Users) \in Nat /\ Cardinality(Users') \in Nat
    BY <1>2, <1>3, FS_RemoveElement, FS_CardinalityType DEF CountInv
  <1>5. used' = Cardinality(Users')
    BY <1>1, <1>4 DEF CountInv
  <1>6. LocalsOK'
    BY <1>1
  <1>7. stage'[t] = "wake" => Users' = {}
    <2>1. stage'[t] = "wake" => Cardinality(Users') = 0
      BY <1>1, <1>4, <1>5
    <2>2. QED
      BY <1>4, <2>1, FS_EmptySet
  <1>8. CallInv'
    BY <1>1, <1>2, <1>7 DEF CallInv
  <1>9. QED
    BY <1>4, <1>5, <1>6, <1>8 DEF CountInv

Late == {"wake", "wake2", "init", "zero"}

\* The other parts of the functions leave the users as they are.
LEMMA StageUse ==
  ASSUME UseInv, NEW t \in Threads,
         NEW s \in Late \cup {"rel"}, stage' = [stage EXCEPT ![t] = s],
         op[t] \in WithHandle, UNCHANGED <<op, handle, used>>,
         op[t] = "close" => stage[t] \in Late
  PROVE  UseInv'
  <1> USE DEF UseInv, LocalsOK, Idle, WithHandle, Late
  <1>1. Users' = Users
    BY DEF Users
  <1>2. LocalsOK'
    OBVIOUS
  <1>3. CallInv'
    BY <1>1 DEF CallInv
  <1>4. QED
    BY <1>1, <1>2, <1>3 DEF CountInv

\* Returning gives the thread its handle, or takes it away.
LEMMA ReturnUse ==
  ASSUME UseInv, NEW t \in Threads, Return(t), op[t] \notin Idle
  PROVE  UseInv'
  <1> USE DEF UseInv, LocalsOK, Idle, WithHandle
  <1>1. /\ stage[t] = "rel" /\ op' = [op EXCEPT ![t] = "none"]
        /\ handle' = [handle EXCEPT ![t] = (@ \/ op[t] = "open") /\ op[t] # "close"]
        /\ stage' = stage /\ used' = used
    BY DEF Return, fields
  <1>2. Users' = Users
    BY <1>1 DEF Users, CallInv
  <1>3. LocalsOK'
    BY <1>1
  <1>4. CallInv'
    BY <1>1, <1>2 DEF CallInv
  <1>5. QED
    BY <1>1, <1>2, <1>3, <1>4 DEF CountInv

-----------------------------------------------------------------------------
\* Whichever state the lock is in, at most one thread has it.
LEMMA OneInside == MInv => MutualExclusion
  <1> SUFFICES ASSUME MInv PROVE MutualExclusion
    OBVIOUS
  <1>1. Resetting => MutualExclusion
    BY DEF Resetting, MutualExclusion, Inside
  <1>2. QED
    BY <1>1 DEF MInv, LockInv

\* A thread that has closed the mailbox as the last one is alone in it.
LEMMA LastIsAlone ==
  ASSUME MInv, NEW t \in Threads, op[t] = "close", stage[t] \in Late, at[t] = "in"
  PROVE  Users = {} /\ \A u \in Threads \ {t} : at[u] = "out"
  <1> USE DEF MInv, UseInv, LocalsOK, Idle, WithHandle, Late
  <1>1. Users = {}
    BY DEF CallInv
  <1>2. ASSUME NEW u \in Threads \ {t}, at[u] # "out" PROVE FALSE
    <2>1. op[u] \in WithHandle
      BY <1>2 DEF PlaceInv, CallInv
    <2>2. handle[u]
      BY <2>1 DEF CallInv
    <2>3. op[u] = "close" /\ stage[u] # "body"
      BY <1>1, <2>2 DEF Users
    <2>4. at[u] = "in"
      BY <2>3 DEF PlaceInv
    <2>5. QED
      BY <1>2, <2>4, OneInside DEF MutualExclusion, Inside
  <1>3. QED
    BY <1>1, <1>2

\* While mbox_close() resets the mailbox no function can be called.
LEMMA NoCallWhileResetting ==
  ASSUME MInv, Resetting, ~OpenCloseRace, NEW t \in Threads, op[t] = "none"
  PROVE  /\ ~CallOpen(t) /\ ~CallClose(t) /\ ~CallStat(t) /\ ~CallRecv(t)
         /\ \A m \in Messages : ~CallSend(t, m)
  <1>1. ~handle[t]
    BY DEF Resetting, Users
  <1>2. \E u \in Threads : op[u] = "close"
    BY DEF Resetting
  <1>3. QED
    BY <1>1, <1>2 DEF CallOpen, CallClose, CallStat, CallSend, CallRecv

\* A call keeps the invariant.
LEMMA CallMInv ==
  ASSUME MInv, ~OpenCloseRace, NEW t \in Threads,
         \/ CallOpen(t) \/ CallClose(t) \/ CallStat(t) \/ CallRecv(t)
         \/ \E m \in Messages : CallSend(t, m)
  PROVE  MInv'
  <1>1. PICK f \in WithHandle \cup {"open"} : Call(t, f)
    BY DEF CallOpen, CallClose, CallStat, CallSend, CallRecv, WithHandle
  <1>2. /\ op[t] = "none" /\ Acquire(t) /\ op' = [op EXCEPT ![t] = f]
        /\ stage' = [stage EXCEPT ![t] = "body"]
    BY <1>1 DEF Call, Goto
  <1>3. UseInv'
    BY CallUse DEF MInv
  <1>4. IInv
    BY <1>2, NoCallWhileResetting DEF MInv, IInv
  <1>5. IInv'
    BY <1>2, <1>4, AcquireIInv
  <1>6. at'[t] \in {"in", "blocked"} /\ \A u \in Threads : u # t => at'[u] = at[u]
    BY <1>2, <1>4 DEF Acquire, LockAcquireHelper, IInv, LockInv
  <1>7. PlaceInv'
    BY <1>1, <1>2, <1>6 DEF PlaceInv, MInv, UseInv, LocalsOK, Idle, WithHandle
  <1>8. QED
    BY <1>3, <1>5, <1>7 DEF MInv, IInv

\* The parts of condition_wait() keep the invariant.
LEMMA WaitMInv ==
  ASSUME MInv, NEW t \in Threads, SendWaits(t) \/ RecvWaits(t) \/ WaitGoesOn(t)
  PROVE  MInv'
  <1> USE DEF MInv
  <1>1. /\ \/ Wait(t, moreSpace) /\ At(t, "send", "body")
           \/ Wait(t, moreData) /\ At(t, "recv", "body")
           \/ Sleep(t) \/ Reacquire(t)
        /\ UNCHANGED <<used, op, stage, handle>>
    BY DEF SendWaits, RecvWaits, WaitGoesOn, fields, locals
  <1>2. UseInv' /\ Users' = Users
    <2>1. Users' = Users
      BY <1>1 DEF Users
    <2>2. QED
      BY <1>1, <2>1 DEF UseInv, LocalsOK, CallInv, CountInv
  <1>3. moreSpace \in Conds /\ moreData \in Conds
    BY MailboxAssumption
  <1>4. ~Resetting
    BY <1>1 DEF Resetting, Wait, Sleep, Reacquire, At
  <1>5. IInv
    BY <1>4 DEF IInv
  <1>6. IInv'
    BY <1>1, <1>3, <1>5, ReleaseIInv, SleepIInv, AcquireIInv
  <1>7. PlaceInv'
    <2>1. CASE \/ Wait(t, moreSpace) /\ At(t, "send", "body")
               \/ Wait(t, moreData) /\ At(t, "recv", "body")
      <3>1. /\ at[t] = "in" /\ HandOff(t, "unlocked")
            /\ op[t] \in {"send", "recv"} /\ stage[t] = "body"
        BY <2>1 DEF Wait, At
      <3>2. /\ at'[t] = "unlocked"
            /\ \A u \in Threads : u # t /\ at[u] # "blocked" => at'[u] = at[u]
        BY <1>5, <3>1, HandOffKeepsLock DEF IInv
      <3>3. \A u \in Threads : u # t => at'[u] \in {at[u], "in"}
        BY <1>5, <3>1 DEF HandOff, IInv, LockInv
      <3>4. QED
        BY <1>1, <3>1, <3>2, <3>3 DEF PlaceInv, Idle
    <2>2. CASE Sleep(t)
      BY <1>1, <1>5, <2>2 DEF Sleep, PlaceInv, IInv, LockInv
    <2>3. CASE Reacquire(t)
      BY <1>1, <1>5, <2>3 DEF Reacquire, LockAcquireHelper, PlaceInv, IInv, LockInv
    <2>4. QED
      BY <1>1, <2>1, <2>2, <2>3
  <1>8. QED
    BY <1>2, <1>6, <1>7 DEF IInv

\* The parts of the functions that do not touch lock and conditions keep the
\* invariant.
LEMMA BodyMInv ==
  ASSUME MInv, NEW t \in Threads,
         BadKey(t) \/ Open(t) \/ Close(t) \/ Stat(t) \/ Send(t) \/ Recv(t)
  PROVE  MInv'
  <1> USE DEF MInv, Idle
  <1>1. UNCHANGED monvars
    BY DEF BadKey, Open, Close, Stat, Send, Recv
  <1>2. CondInv' /\ (LockInv => LockInv')
    BY <1>1 DEF monvars, LockInv, CondInv, MutualExclusion, LockedIffHeld, Inside
  <1>3. CASE BadKey(t)
    <2>1. /\ op[t] = "none" /\ op' = [op EXCEPT ![t] = "exited"]
          /\ UNCHANGED <<used, stage, handle, at>>
      BY <1>3 DEF BadKey, fields, monvars
    <2>2. Users' = Users
      BY <2>1 DEF Users, UseInv, LocalsOK
    <2>3. UseInv'
      BY <2>1, <2>2 DEF UseInv, LocalsOK, CallInv, CountInv, WithHandle
    <2>4. PlaceInv'
      BY <2>1 DEF PlaceInv, UseInv, LocalsOK
    <2>5. Resetting => Resetting'
      BY <1>1, <2>1, <2>2 DEF Resetting, UseInv, LocalsOK, monvars
    <2>6. QED
      BY <1>2, <2>3, <2>4, <2>5
  <1>4. CASE Open(t) \/ Close(t) \/ Stat(t) \/ Send(t) \/ Recv(t)
    <2>1. /\ at[t] = "in" /\ op[t] \in {"open", "close", "stat", "send", "recv"}
          /\ stage[t] = "body" /\ UNCHANGED <<op, at>>
      BY <1>4 DEF Open, Close, Stat, Send, Recv, At, monvars
    <2>2. ~Resetting
      BY <2>1 DEF Resetting
    <2>3. UseInv'
      <3>1. CASE Stat(t) \/ Send(t) \/ Recv(t)
        <4>1. PICK x \in Late \cup {"rel"} : stage' = [stage EXCEPT ![t] = x]
          BY <3>1 DEF Stat, Send, Recv, Goto, Late
        <4>2. op[t] \in WithHandle /\ op[t] # "close" /\ UNCHANGED <<op, handle, used>>
          BY <3>1 DEF Stat, Send, Recv, At, WithHandle, fields
        <4>3. QED
          BY <4>1, <4>2, StageUse
      <3>2. QED
        BY <1>4, <3>1, OpenUse, CloseUse
    <2>4. \A u \in Threads : u # t => stage'[u] = stage[u]
      BY <1>4 DEF Open, Close, Stat, Send, Recv, Goto, UseInv, LocalsOK
    <2>5. PlaceInv'
      BY <2>1, <2>4 DEF PlaceInv
    <2>6. QED
      BY <1>2, <2>2, <2>3, <2>5
  <1>5. QED
    BY <1>3, <1>4

\* The broadcast at the end of a function keeps the invariant of lock and
\* conditions, whether somebody waits or not.
LEMMA WakeAllIInv ==
  ASSUME IInv, NEW t \in Threads, at[t] = "in", NEW c \in Conds, WakeAll(c),
         UNCHANGED <<status, waiting, on>>
  PROVE  IInv'
  <1>1. CASE cwaiting[c] # <<>>
    <2>1. Broadcast(t, c)
      BY <1>1 DEF Broadcast, MayCall
    <2>2. QED
      BY <2>1, BroadcastIInv
  <1>2. CASE cwaiting[c] = <<>>
    <2>1. at' = at /\ cwaiting' = cwaiting
      BY <1>2, EmptyQueue DEF WakeAll, IInv, LockInv, CondInv
    <2>2. UNCHANGED monvars
      BY <2>1 DEF monvars
    <2>3. QED
      BY <2>2, NextIInv
  <1>3. QED
    BY <1>1, <1>2

\* Broadcasting keeps the invariant.
LEMMA WakeMInv ==
  ASSUME MInv, NEW t \in Threads,
         \/ WakeOthers(t, "send", moreData) \/ WakeOthers(t, "recv", moreSpace)
         \/ CloseWake(t)
  PROVE  MInv'
  <1> USE DEF MInv, Late
  <1>1. PICK c \in Conds, x \in Late \cup {"rel"} :
          /\ WakeAll(c) /\ stage' = [stage EXCEPT ![t] = x]
          /\ UNCHANGED <<status, waiting, on, used, op, handle>>
    BY MailboxAssumption DEF WakeOthers, CloseWake, Goto, fields
  <1>2. /\ at[t] = "in" /\ op[t] \in {"send", "recv", "close"}
        /\ stage[t] \in {"wake", "wake2"}
    BY DEF WakeOthers, CloseWake, At
  <1>3. UseInv'
    BY <1>1, <1>2, StageUse DEF WithHandle
  <1>4. ~Resetting
    BY <1>2 DEF Resetting
  <1>5. IInv
    BY <1>4 DEF IInv
  <1>6. IInv'
    BY <1>1, <1>2, <1>5, WakeAllIInv
  <1>7. PlaceInv'
    <2>1. \A u \in Threads : at'[u] # at[u] => at[u] = "waiting" /\ at'[u] = "woken"
      BY <1>1, <1>5 DEF WakeAll, IInv, CondInv
    <2>2. QED
      BY <1>1, <1>2, <2>1 DEF PlaceInv, UseInv, LocalsOK, Idle
  <1>8. QED
    BY <1>3, <1>6, <1>7 DEF IInv

\* lock_init() in mbox_close() opens the lock its caller has; nobody is there to
\* notice.  The rest of the reset keeps the invariant, too.
LEMMA ResetMInv ==
  ASSUME MInv, NEW t \in Threads, CloseInit(t) \/ CloseZero(t)
  PROVE  MInv'
  <1> USE DEF MInv, Late
  <1>1. /\ at[t] = "in" /\ op[t] = "close" /\ stage[t] \in {"init", "zero"}
        /\ UNCHANGED <<at, on, op, handle>>
    BY DEF CloseInit, CloseZero, At
  <1>2. Users = {} /\ \A u \in Threads \ {t} : at[u] = "out"
    BY <1>1, LastIsAlone
  <1>3. used = 0 /\ used' = 0
    <2>1. used = 0
      BY <1>2, FS_EmptySet DEF UseInv, CountInv
    <2>2. QED
      BY <2>1 DEF CloseInit, CloseZero
  <1>4. PICK x \in {"zero", "rel"} : stage' = [stage EXCEPT ![t] = x]
    BY DEF CloseInit, CloseZero, Goto
  <1>5. UseInv'
    BY <1>1, <1>3, <1>4, StageUse DEF WithHandle
  <1>6. Users' = {}
    BY <1>1, <1>2, <1>4 DEF Users, UseInv, LocalsOK
  <1>7. PlaceInv'
    BY <1>1, <1>4 DEF PlaceInv, UseInv, LocalsOK, Idle
  <1>8. at \in [Threads -> Location]
    BY DEF LockInv, Resetting
  <1>9. CASE CloseInit(t)
    <2>1. status' = "UNLOCKED" /\ waiting' = <<>> /\ cwaiting' = cwaiting
      BY <1>9 DEF CloseInit
    <2>2. CondInv'
      BY <1>1, <2>1 DEF CondInv
    <2>3. Resetting'
      BY <1>1, <1>2, <1>4, <1>6, <1>8, <2>1 DEF Resetting, UseInv, LocalsOK
    <2>4. QED
      BY <1>5, <1>7, <2>2, <2>3
  <1>10. CASE CloseZero(t)
    <2>1. cwaiting' = [c \in Conds |-> <<>>] /\ UNCHANGED <<status, waiting>>
      BY <1>10 DEF CloseZero
    <2>2. \A u \in Threads : at[u] # "waiting"
      BY <1>1, <1>2
    <2>3. CondInv'
      BY <1>1, <2>1, <2>2, EmptyQueue DEF CondInv
    <2>4. LockInv => LockInv'
      BY <1>1, <2>1 DEF LockInv, MutualExclusion, LockedIffHeld, Inside
    <2>5. Resetting => Resetting'
      BY <1>1, <1>2, <1>4, <1>6, <1>8, <2>1 DEF Resetting, UseInv, LocalsOK
    <2>6. QED
      BY <1>5, <1>7, <2>3, <2>4, <2>5
  <1>11. QED
    BY <1>9, <1>10

\* Returning keeps the invariant: after a reset the lock is as lock_init() left
\* it.
LEMMA ReturnMInv ==
  ASSUME MInv, NEW t \in Threads, Return(t)
  PROVE  MInv'
  <1> USE DEF MInv
  <1>1. /\ Release(t) /\ at[t] = "in" /\ HandOff(t, "out") /\ cwaiting' = cwaiting
        /\ on' = on /\ stage[t] = "rel" /\ stage' = stage
        /\ op' = [op EXCEPT ![t] = "none"]
    BY DEF Return, Release
  <1>2. op[t] \notin Idle
    BY <1>1 DEF PlaceInv
  <1>3. UseInv'
    BY <1>2, ReturnUse
  <1>4. CASE LockInv
    <2>1. IInv'
      BY <1>1, <1>4, ReleaseIInv DEF IInv
    <2>2. /\ at'[t] = "out"
          /\ \A u \in Threads : u # t /\ at[u] # "blocked" => at'[u] = at[u]
      BY <1>1, <1>4, HandOffKeepsLock
    <2>3. \A u \in Threads : u # t => at'[u] \in {at[u], "in"}
      BY <1>1, <1>4 DEF HandOff, LockInv
    <2>4. PlaceInv'
      BY <1>1, <2>2, <2>3 DEF PlaceInv, UseInv, LocalsOK, Idle
    <2>5. QED
      BY <1>3, <2>1, <2>4 DEF IInv
  <1>5. CASE Resetting
    <2>1. /\ \A u \in Threads \ {t} : at[u] = "out"
          /\ at \in [Threads -> Location] /\ waiting = <<>>
      BY <1>1, <1>5 DEF Resetting
    <2>2. /\ status' = "UNLOCKED" /\ waiting' = <<>> /\ at' = [at EXCEPT ![t] = "out"]
      BY <1>1, <2>1 DEF HandOff
    <2>3. at' \in [Threads -> Location] /\ \A u \in Threads : at'[u] = "out"
      BY <2>1, <2>2 DEF Location
    <2>4. LockInv'
      BY <2>2, <2>3, EmptyQueue DEF LockInv, MutualExclusion, LockedIffHeld, Inside
    <2>5. CondInv'
      BY <1>1, <2>1, <2>3 DEF CondInv
    <2>6. PlaceInv'
      BY <1>1, <2>1, <2>3 DEF PlaceInv, UseInv, LocalsOK, Idle
    <2>7. QED
      BY <1>3, <2>4, <2>5, <2>6
  <1>6. QED
    BY <1>4, <1>5

-----------------------------------------------------------------------------
\* Every step keeps the invariant.
LEMMA NextMInv == ~OpenCloseRace /\ MInv /\ [MNext]_mboxvars => MInv'
  <1> SUFFICES ASSUME ~OpenCloseRace, MInv, [MNext]_mboxvars PROVE MInv'
    OBVIOUS
  <1>1. CASE MNext
    <2>1. PICK t \in Threads :
            \/ CallOpen(t) \/ CallClose(t) \/ CallStat(t) \/ CallRecv(t)
            \/ (\E m \in Messages : CallSend(t, m))
            \/ BadKey(t) \/ Open(t) \/ Close(t) \/ Stat(t) \/ Send(t) \/ Recv(t)
            \/ WakeOthers(t, "send", moreData) \/ WakeOthers(t, "recv", moreSpace)
            \/ CloseWake(t)
            \/ CloseInit(t) \/ CloseZero(t)
            \/ SendWaits(t) \/ RecvWaits(t) \/ WaitGoesOn(t)
            \/ Return(t)
      BY <1>1 DEF MNext
    <2>2. QED
      BY <2>1, CallMInv, BodyMInv, WakeMInv, ResetMInv, WaitMInv, ReturnMInv
  <1>2. CASE UNCHANGED mboxvars
    <2>1. UNCHANGED <<status, waiting, cwaiting, at, on, used, op, stage, handle>>
      BY <1>2 DEF mboxvars, monvars, fields, locals
    <2>2. Users' = Users
      BY <2>1 DEF Users
    <2>3. UseInv'
      BY <2>1, <2>2 DEF MInv, UseInv, LocalsOK, CallInv, CountInv
    <2>4. PlaceInv' /\ CondInv' /\ (LockInv \/ Resetting)'
      BY <2>1, <2>2 DEF MInv, PlaceInv, CondInv, LockInv, Resetting, MutualExclusion,
                        LockedIffHeld, Inside
    <2>5. QED
      BY <2>3, <2>4 DEF MInv
  <1>3. QED
    BY <1>1, <1>2

\* The invariant holds in every reachable state.
LEMMA MInvariance == ~OpenCloseRace => (MSpec => []MInv)
  <1> SUFFICES ASSUME ~OpenCloseRace PROVE MSpec => []MInv
    OBVIOUS
  <1>1. MInv /\ [MNext]_mboxvars => MInv'
    BY NextMInv
  <1>2. QED
    BY <1>1, InitMInv, PTL DEF MSpec

\* For any threads, messages and buffer, the mailbox counts exactly its users, so
\* the last mbox_close() and no other resets it, as long as mbox_open() and
\* mbox_close() do not overlap.
THEOREM UsersAreCounted == ~OpenCloseRace => (MSpec => []UsedMatches)
  <1> SUFFICES ASSUME ~OpenCloseRace PROVE MSpec => []UsedMatches
    OBVIOUS
  <1>1. MInv => UsedMatches
    BY DEF MInv, UseInv, CountInv, Users, UsedMatches
  <1>2. QED
    BY <1>1, MInvariance, PTL

\* The lock of the mailbox has at most one owner in every state, although the last
\* mbox_close() calls lock_init() on the lock it has and then releases it.
THEOREM ResetKeepsExclusion == ~OpenCloseRace => (MSpec => []MutualExclusion)
  <1> SUFFICES ASSUME ~OpenCloseRace PROVE MSpec => []MutualExclusion
    OBVIOUS
  <1>1. QED
    BY OneInside, MInvariance, PTL

-----------------------------------------------------------------------------
(***************************************************************************)
(* The circular buffer.  There are messages, and there is a distance from  *)
(* the tail for each, such that the messages lie one behind the other in   *)
(* the buffer, none over another, and end at the head: this is kept by     *)
(* every step, and it determines what the recursive functions Offset,      *)
(* Contents and Stored compute.                                            *)
(***************************************************************************)
Wrap(a) == IF a < BUFFER_SIZE THEN a ELSE a - BUFFER_SIZE

\* For what is computed in mbox.c the remainder is a wrap around the end.
LEMMA ModWraps ==
  \A a \in 0..(2 * BUFFER_SIZE - 1) : a % BUFFER_SIZE = Wrap(a) /\ Wrap(a) \in Cells
  BY MailboxAssumption DEF Wrap, Cells

\* From a position at most a whole turn from x on: first a cells, then k more.
LEMMA WrapAdds ==
  ASSUME NEW x \in Cells, NEW a \in 0..BUFFER_SIZE, NEW k \in Nat, a < BUFFER_SIZE,
         a + k <= BUFFER_SIZE
  PROVE  /\ Wrap(x + a) \in Cells
         /\ Wrap(x + a) + k \in 0..(2 * BUFFER_SIZE - 1)
         /\ Wrap(Wrap(x + a) + k) = Wrap(x + a + k)
         /\ (Wrap(x + a) + k) % BUFFER_SIZE = Wrap(x + a + k)
  <1>1. /\ Wrap(x + a) \in Cells
        /\ Wrap(x + a) + k \in 0..(2 * BUFFER_SIZE - 1)
        /\ Wrap(Wrap(x + a) + k) = Wrap(x + a + k)
    BY MailboxAssumption DEF Wrap, Cells
  <1>2. QED
    BY <1>1, ModWraps

\* n messages ms lie one behind the other in the buffer, the i-th of them
\* d[i - 1] cells behind the tail.
Ring(n, tl, hd, buf, ms, d) ==
  /\ n \in Nat /\ tl \in Cells /\ buf \in [Cells -> Nat]
  /\ ms \in Seq(Seq(Nat)) /\ Len(ms) = n
  /\ d \in [0..n -> 0..BUFFER_SIZE] /\ d[0] = 0
  /\ \A i \in 1..n : d[i] = d[i - 1] + Size(ms[i])
  /\ \A i, j \in 0..n : i <= j => d[i] <= d[j]
  /\ hd = Wrap(tl + d[n])
  /\ \A i \in 1..n : /\ buf[Wrap(tl + d[i - 1])] = Len(ms[i])
                     /\ \A k \in 1..Len(ms[i]) : buf[Wrap(tl + d[i - 1] + k)] = ms[i][k]

RingInv == /\ \E ms, d : Ring(count, tail, head, buffer, ms, d)
           /\ msg \in [Threads -> Seq(Nat)]

OffsetOf(n, tl, buf) ==
  LET f[i \in 0..n] ==
        IF i = 0 THEN tl ELSE (f[i - 1] + HEADER + buf[f[i - 1]]) % BUFFER_SIZE
  IN  f

NextOffset(n, tl, buf, f) ==
  [i \in 0..n |-> IF i = 0 THEN tl
                  ELSE (f[i - 1] + HEADER + buf[f[i - 1]]) % BUFFER_SIZE]

\* The i-th message lies whole between d[i - 1] and d[i] cells behind the tail.
MessageIn(tl, buf, ms, d, i) ==
  /\ ms[i] \in Seq(Nat) /\ Len(ms[i]) \in Nat /\ Size(ms[i]) = 1 + Len(ms[i])
  /\ d[i - 1] \in 0..BUFFER_SIZE /\ d[i] \in 0..BUFFER_SIZE
  /\ d[i] = d[i - 1] + 1 + Len(ms[i]) /\ d[i - 1] < BUFFER_SIZE
  /\ buf[Wrap(tl + d[i - 1])] = Len(ms[i])
  /\ \A k \in 1..Len(ms[i]) : buf[Wrap(tl + d[i - 1] + k)] = ms[i][k]

\* So do all messages in the ring.
LEMMA OneMessage ==
  ASSUME NEW n, NEW tl, NEW hd, NEW buf, NEW ms, NEW d, Ring(n, tl, hd, buf, ms, d),
         NEW i \in 1..n
  PROVE  MessageIn(tl, buf, ms, d, i) /\ d[i] <= d[n]
  <1>1. /\ n \in Nat /\ tl \in Cells /\ ms \in Seq(Seq(Nat)) /\ Len(ms) = n
        /\ d \in [0..n -> 0..BUFFER_SIZE]
        /\ d[i] = d[i - 1] + Size(ms[i])
        /\ \A j, k \in 0..n : j <= k => d[j] <= d[k]
        /\ buf[Wrap(tl + d[i - 1])] = Len(ms[i])
        /\ \A k \in 1..Len(ms[i]) : buf[Wrap(tl + d[i - 1] + k)] = ms[i][k]
    BY DEF Ring
  <1>2. ms[i] \in Seq(Nat) /\ Len(ms[i]) \in Nat
    BY <1>1
  <1>3. i \in 0..n /\ i - 1 \in 0..n /\ n \in 0..n /\ i <= n
    BY <1>1
  <1>4. d[i - 1] \in 0..BUFFER_SIZE /\ d[i] \in 0..BUFFER_SIZE /\ d[i] <= d[n]
    BY <1>1, <1>3
  <1>5. Size(ms[i]) = 1 + Len(ms[i])
    BY DEF Size, HEADER
  <1> DEFINE a == d[i - 1]
             b == d[i]
             l == Len(ms[i])
  <1>6. b = a + (1 + l)
    BY <1>1, <1>5
  <1>7. a \in 0..BUFFER_SIZE /\ b \in 0..BUFFER_SIZE /\ l \in Nat
    BY <1>2, <1>4
  <1> HIDE DEF a, b, l
  <1>8. b = a + 1 + l /\ a < BUFFER_SIZE
    BY <1>6, <1>7, MailboxAssumption
  <1>9. QED
    BY <1>1, <1>2, <1>4, <1>5, <1>8 DEF a, b, l, MessageIn

\* Offset finds where each message begins.
LEMMA OffsetFinds ==
  ASSUME NEW n, NEW tl, NEW hd, NEW buf, NEW ms, NEW d, Ring(n, tl, hd, buf, ms, d)
  PROVE  OffsetOf(n, tl, buf) = [i \in 0..n |-> Wrap(tl + d[i])]
  <1> DEFINE g == [i \in 0..n |-> Wrap(tl + d[i])]
             o == OffsetOf(n, tl, buf)
  <1>0. n \in Nat /\ tl \in Cells /\ d[0] = 0
    BY DEF Ring
  <1>1. g = NextOffset(n, tl, buf, g)
    <2>1. g[0] = tl
      BY <1>0, MailboxAssumption DEF Wrap, Cells
    <2>2. ASSUME NEW i \in 1..n
          PROVE  g[i] = (g[i - 1] + HEADER + buf[g[i - 1]]) % BUFFER_SIZE
      <3>1. MessageIn(tl, buf, ms, d, i)
        BY OneMessage
      <3>2. i \in 0..n /\ i - 1 \in 0..n
        BY <1>0
      <3>3. g[i] = Wrap(tl + d[i]) /\ g[i - 1] = Wrap(tl + d[i - 1])
        BY <3>2
      <3> DEFINE a == d[i - 1]
                 b == d[i]
                 l == Len(ms[i])
      <3>4. /\ a \in 0..BUFFER_SIZE /\ b \in 0..BUFFER_SIZE /\ l \in Nat
            /\ b = a + 1 + l /\ a < BUFFER_SIZE /\ buf[Wrap(tl + a)] = l
        BY <3>1 DEF MessageIn
      <3> HIDE DEF a, b, l, g
      <3>5. 1 + l \in Nat /\ a + (1 + l) <= BUFFER_SIZE
        BY <3>4
      <3>6. (Wrap(tl + a) + (1 + l)) % BUFFER_SIZE = Wrap(tl + a + (1 + l))
        BY <1>0, <3>4, <3>5, WrapAdds
      <3>7. tl + a + (1 + l) = tl + b /\ Wrap(tl + a) + (1 + l) = Wrap(tl + a) + 1 + l
        BY <1>0, <3>4, WrapAdds, MailboxAssumption DEF Cells, Wrap
      <3>8. QED
        BY <3>3, <3>4, <3>6, <3>7 DEF a, b, HEADER
    <2>3. ASSUME NEW i \in 0..n
          PROVE  g[i] = IF i = 0 THEN tl
                        ELSE (g[i - 1] + HEADER + buf[g[i - 1]]) % BUFFER_SIZE
      <3>1. i = 0 \/ i \in 1..n
        BY <1>0
      <3> HIDE DEF g
      <3>2. QED
        BY <2>1, <2>2, <3>1
    <2>4. QED
      BY <2>3 DEF NextOffset
  <1> HIDE DEF g
  <1>2. o = NextOffset(n, tl, buf, o)
    BY <1>1 DEF OffsetOf, NextOffset
  <1> HIDE DEF o
  <1>3. ASSUME NEW i \in 0..n, o[i] # g[i] PROVE FALSE
    <2> DEFINE T == {j \in 0..n : o[j] # g[j]}
    <2>1. T \subseteq Nat /\ T # {}
      BY <1>0, <1>3
    <2>2. PICK m \in T : \A k \in T : m <= k
      BY <2>1, LeastElement
    <2>3. /\ o[m] = IF m = 0 THEN tl ELSE (o[m - 1] + HEADER + buf[o[m - 1]]) % BUFFER_SIZE
          /\ g[m] = IF m = 0 THEN tl ELSE (g[m - 1] + HEADER + buf[g[m - 1]]) % BUFFER_SIZE
      BY <1>1, <1>2 DEF NextOffset
    <2>4. m # 0
      BY <2>2, <2>3
    <2>5. m - 1 \in 0..n /\ ~ (m <= m - 1)
      BY <1>0, <2>4
    <2>6. o[m - 1] = g[m - 1]
      BY <2>2, <2>5
    <2>7. QED
      BY <2>2, <2>3, <2>4, <2>6
  <1>4. o = [i \in 0..n |-> o[i]] /\ g = [i \in 0..n |-> g[i]]
    <2>1. o = [i \in 0..n |-> o[i]]
      BY <1>2 DEF NextOffset
    <2>2. QED
      BY <2>1 DEF g
  <1>5. o = g
    BY <1>3, <1>4
  <1>6. QED
    BY <1>5 DEF g, o

ContentsOf(n, tl, buf) ==
  [i \in 1..n |-> [k \in 1..buf[OffsetOf(n, tl, buf)[i - 1]] |->
                     buf[(OffsetOf(n, tl, buf)[i - 1] + HEADER + k - 1) % BUFFER_SIZE]]]

\* Offset and Contents depend on three fields of the mailbox only.
LEMMA ContentsFromFields ==
  /\ Offset = OffsetOf(count, tail, buffer)
  /\ Contents = ContentsOf(count, tail, buffer)
  /\ Contents' = ContentsOf(count', tail', buffer')
  <1>1. /\ Offset = OffsetOf(count, tail, buffer)
        /\ Offset' = OffsetOf(count', tail', buffer')
    BY DEF Offset, OffsetOf
  <1>2. Contents = ContentsOf(count, tail, buffer)
    BY <1>1 DEF Contents, ContentsOf, MessageAt
  <1>3. Contents' = ContentsOf(count', tail', buffer')
    BY <1>1 DEF Contents, ContentsOf, MessageAt
  <1>4. QED
    BY <1>1, <1>2, <1>3

\* The messages read from the buffer are those in the ring.
LEMMA ContentsAreMessages ==
  ASSUME NEW n, NEW tl, NEW hd, NEW buf, NEW ms, NEW d, Ring(n, tl, hd, buf, ms, d)
  PROVE  ContentsOf(n, tl, buf) = ms
  <1> DEFINE o == OffsetOf(n, tl, buf)
  <1>0. n \in Nat /\ tl \in Cells /\ ms \in Seq(Seq(Nat)) /\ Len(ms) = n
    BY DEF Ring
  <1>1. o = [i \in 0..n |-> Wrap(tl + d[i])]
    BY OffsetFinds
  <1> HIDE DEF o
  <1>2. ASSUME NEW i \in 1..n
        PROVE  [k \in 1..buf[o[i - 1]] |-> buf[(o[i - 1] + HEADER + k - 1) % BUFFER_SIZE]]
                 = ms[i]
    <2>0. MessageIn(tl, buf, ms, d, i)
      BY OneMessage
    <2>1. /\ ms[i] \in Seq(Nat) /\ Len(ms[i]) \in Nat
          /\ d[i - 1] \in 0..BUFFER_SIZE /\ d[i] \in 0..BUFFER_SIZE
          /\ d[i] = d[i - 1] + 1 + Len(ms[i]) /\ d[i - 1] < BUFFER_SIZE
          /\ buf[Wrap(tl + d[i - 1])] = Len(ms[i])
          /\ \A k \in 1..Len(ms[i]) : buf[Wrap(tl + d[i - 1] + k)] = ms[i][k]
      BY <2>0 DEF MessageIn
    <2>2. o[i - 1] = Wrap(tl + d[i - 1])
      BY <1>0, <1>1
    <2> DEFINE a == d[i - 1]
               l == Len(ms[i])
    <2>3. a \in 0..BUFFER_SIZE /\ l \in Nat /\ a < BUFFER_SIZE /\ a + 1 + l <= BUFFER_SIZE
      BY <2>1
    <2> HIDE DEF a, l
    <2>4. ASSUME NEW k \in 1..l
          PROVE  (Wrap(tl + a) + HEADER + k - 1) % BUFFER_SIZE = Wrap(tl + a + k)
      <3>1. k \in Nat /\ a + k <= BUFFER_SIZE
        BY <2>3, MailboxAssumption
      <3>2. Wrap(tl + a) \in Cells /\ (Wrap(tl + a) + k) % BUFFER_SIZE = Wrap(tl + a + k)
        BY <1>0, <2>3, <3>1, WrapAdds
      <3> DEFINE w == Wrap(tl + a)
      <3>3. w \in Int
        BY <3>2, MailboxAssumption DEF Cells
      <3> HIDE DEF w
      <3>4. w + HEADER + k - 1 = w + k
        BY <3>1, <3>3 DEF HEADER
      <3>5. QED
        BY <3>2, <3>4 DEF w
    <2>5. \A k \in 1..l : buf[(o[i - 1] + HEADER + k - 1) % BUFFER_SIZE] = ms[i][k]
      BY <2>1, <2>2, <2>4 DEF a, l
    <2>6. ms[i] = [k \in 1..l |-> ms[i][k]]
      BY <2>1 DEF l
    <2>7. buf[o[i - 1]] = l
      BY <2>1, <2>2 DEF l
    <2>8. QED
      BY <2>5, <2>6, <2>7
  <1>3. ms = [i \in 1..n |-> ms[i]]
    BY <1>0
  <1>4. ContentsOf(n, tl, buf) =
          [i \in 1..n |-> [k \in 1..buf[o[i - 1]] |->
                             buf[(o[i - 1] + HEADER + k - 1) % BUFFER_SIZE]]]
    BY DEF ContentsOf, o
  <1>5. QED
    BY <1>2, <1>3, <1>4

\* The room that is left.
LEMMA SpaceLeft ==
  ASSUME NEW ms, NEW d, Ring(count, tail, head, buffer, ms, d)
  PROVE  SpaceAvailable = BUFFER_SIZE - d[count] /\ d[count] \in 0..BUFFER_SIZE
  <1> DEFINE e == d[count]
  <1>1. /\ count \in Nat /\ tail \in Cells /\ e \in 0..BUFFER_SIZE
        /\ head = Wrap(tail + e) /\ (count = 0 => e = 0)
    BY DEF Ring
  <1>2. count # 0 => e > 0
    <2> SUFFICES ASSUME count # 0 PROVE e > 0
      OBVIOUS
    <2>1. count \in 1..count
      BY <1>1
    <2>2. MessageIn(tail, buffer, ms, d, count)
      BY <2>1, OneMessage
    <2>3. QED
      BY <2>2 DEF MessageIn
  <1> HIDE DEF e
  <1>3. SpaceAvailable = BUFFER_SIZE - e
    BY <1>1, <1>2, MailboxAssumption DEF SpaceAvailable, Wrap, Cells
  <1>4. QED
    BY <1>1, <1>3 DEF e

\* What the invariant says about a mailbox.
LEMMA RingIsExact == RingInv => SpaceExact
  <1> SUFFICES ASSUME RingInv PROVE SpaceExact
    OBVIOUS
  <1>1. PICK ms, d : Ring(count, tail, head, buffer, ms, d)
    BY DEF RingInv
  <1>2. /\ count \in Nat /\ head = Wrap(tail + d[count]) /\ d[0] = 0
        /\ d \in [0..count -> 0..BUFFER_SIZE] /\ ms \in Seq(Seq(Nat))
        /\ \A i \in 1..count : d[i] = d[i - 1] + Size(ms[i])
    BY <1>1 DEF Ring
  <1>3. Offset[count] = head
    <2>1. Offset = [i \in 0..count |-> Wrap(tail + d[i])]
      BY <1>1, OffsetFinds, ContentsFromFields
    <2>2. QED
      BY <1>2, <2>1
  <1>4. Contents = ms
    BY <1>1, ContentsAreMessages, ContentsFromFields
  <1>5. Stored = d
    <2> DEFINE Nxt(f) == [i \in 0..count |-> IF i = 0 THEN 0
                                             ELSE f[i - 1] + Size(Contents[i])]
    <2>1. d = Nxt(d)
      BY <1>2, <1>4
    <2>2. Stored = Nxt(Stored)
      BY <2>1 DEF Stored
    <2>3. ASSUME NEW i \in 0..count, Stored[i] # d[i] PROVE FALSE
      <3> DEFINE T == {j \in 0..count : Stored[j] # d[j]}
      <3>0. i \in T
        BY <2>3
      <3>1. T \subseteq Nat /\ T # {}
        <4>1. T \subseteq 0..count /\ T # {}
          BY <3>0
        <4>2. 0..count \subseteq Nat
          OBVIOUS
        <4> HIDE DEF T
        <4>3. QED
          BY <4>1, <4>2
      <3>2. PICK m \in T : \A k \in T : m <= k
        BY <3>1, LeastElement
      <3>3. /\ Stored[m] = IF m = 0 THEN 0 ELSE Stored[m - 1] + Size(Contents[m])
            /\ d[m] = IF m = 0 THEN 0 ELSE d[m - 1] + Size(Contents[m])
        BY <2>1, <2>2
      <3>4. m # 0
        BY <3>2, <3>3
      <3>5. m - 1 \in 0..count /\ ~ (m <= m - 1)
        BY <1>2, <3>4
      <3>6. Stored[m - 1] = d[m - 1]
        BY <3>2, <3>5
      <3>7. QED
        BY <3>2, <3>3, <3>4, <3>6
    <2>4. Stored = [i \in 0..count |-> Stored[i]]
      BY <2>2
    <2>5. QED
      BY <1>2, <2>3, <2>4
  <1>6. QED
    BY <1>1, <1>3, <1>5, SpaceLeft DEF SpaceExact

-----------------------------------------------------------------------------
\* Where the loop of mbox_send() writes, with e cells in use behind the cell x:
\* the message and its header, and no cell in use.
LEMMA WritesBehind ==
  ASSUME NEW x \in Cells, NEW e \in 0..BUFFER_SIZE, NEW s \in Nat,
         e + 1 + s <= BUFFER_SIZE, NEW h, h = Wrap(x + e)
  PROVE  /\ \A k \in 0..s : /\ Wrap(x + e + k) \in Cells
                            /\ (Wrap(x + e + k) - h + BUFFER_SIZE) % BUFFER_SIZE = k
         /\ \A a \in 0..BUFFER_SIZE : a < e =>
              /\ Wrap(x + a) \in Cells
              /\ (Wrap(x + a) - h + BUFFER_SIZE) % BUFFER_SIZE \in Int
              /\ ~ ((Wrap(x + a) - h + BUFFER_SIZE) % BUFFER_SIZE < 1 + s)
  <1> USE MailboxAssumption
  <1>1. h \in Cells /\ \A p \in Cells : p - h + BUFFER_SIZE \in 0..(2 * BUFFER_SIZE - 1)
    BY DEF Wrap, Cells
  <1>2. ASSUME NEW k \in 0..s
        PROVE  /\ Wrap(x + e + k) \in Cells
               /\ (Wrap(x + e + k) - h + BUFFER_SIZE) % BUFFER_SIZE = k
    <2>1. Wrap(x + e + k) \in Cells /\ Wrap(Wrap(x + e + k) - h + BUFFER_SIZE) = k
      BY DEF Wrap, Cells
    <2>2. QED
      BY <1>1, <2>1, ModWraps
  <1>3. ASSUME NEW a \in 0..BUFFER_SIZE, a < e
        PROVE  /\ Wrap(x + a) \in Cells
               /\ (Wrap(x + a) - h + BUFFER_SIZE) % BUFFER_SIZE \in Int
               /\ ~ ((Wrap(x + a) - h + BUFFER_SIZE) % BUFFER_SIZE < 1 + s)
    <2>1. /\ Wrap(x + a) \in Cells
          /\ Wrap(Wrap(x + a) - h + BUFFER_SIZE) \in Int
          /\ ~ (Wrap(Wrap(x + a) - h + BUFFER_SIZE) < 1 + s)
      BY <1>3 DEF Wrap, Cells
    <2>2. QED
      BY <1>1, <2>1, ModWraps
  <1>4. QED
    BY <1>2, <1>3

\* A message with its header.
LEMMA HeaderFirst ==
  ASSUME NEW m \in Seq(Nat)
  PROVE  /\ Len(m) \in Nat /\ Size(m) = 1 + Len(m)
         /\ Bytes(m)[1] = Len(m)
         /\ \A k \in 1..Len(m) : Bytes(m)[k + 1] = m[k]
         /\ \A k \in 0..Len(m) : Bytes(m)[k + 1] \in Nat
  <1>1. Len(m) \in Nat /\ Size(m) = 1 + Len(m)
    BY DEF Size, HEADER
  <1>2. Bytes(m)[1] = Len(m)
    BY <1>1 DEF Bytes
  <1>3. \A k \in 1..Len(m) : Bytes(m)[k + 1] = m[k]
    BY <1>1 DEF Bytes
  <1>4. ASSUME NEW k \in 0..Len(m) PROVE Bytes(m)[k + 1] \in Nat
    <2>1. CASE k = 0
      BY <1>1, <1>2, <2>1
    <2>2. CASE k # 0
      <3>1. k \in 1..Len(m)
        BY <1>1, <2>2
      <3>2. QED
        BY <1>3, <3>1
    <2>3. QED
      BY <2>1, <2>2
  <1>5. QED
    BY <1>1, <1>2, <1>3, <1>4

\* What the loop of mbox_send() leaves in the buffer.
LEMMA WrittenHolds ==
  ASSUME NEW ms, NEW d, Ring(count, tail, head, buffer, ms, d), NEW m \in Seq(Nat),
         d[count] + 1 + Len(m) <= BUFFER_SIZE
  PROVE  /\ Written(m) \in [Cells -> Nat]
         /\ Written(m)[Wrap(tail + d[count])] = Len(m)
         /\ \A k \in 1..Len(m) : Written(m)[Wrap(tail + d[count] + k)] = m[k]
         /\ \A a \in 0..BUFFER_SIZE :
              a < d[count] => Written(m)[Wrap(tail + a)] = buffer[Wrap(tail + a)]
  <1> DEFINE e == d[count]
             s == Len(m)
             K(i) == (i - head + BUFFER_SIZE) % BUFFER_SIZE
  <1>1. /\ count \in Nat /\ tail \in Cells /\ buffer \in [Cells -> Nat]
        /\ e \in 0..BUFFER_SIZE /\ head = Wrap(tail + e)
    BY DEF Ring
  <1>2. /\ s \in Nat /\ Size(m) = 1 + s /\ Bytes(m)[1] = s
        /\ \A k \in 1..s : Bytes(m)[k + 1] = m[k]
        /\ \A k \in 0..s : Bytes(m)[k + 1] \in Nat
    BY HeaderFirst
  <1>3. \A i \in Cells : Written(m)[i] = IF K(i) < Size(m) THEN Bytes(m)[K(i) + 1]
                                         ELSE buffer[i]
    BY DEF Written
  <1>4. e + 1 + s <= BUFFER_SIZE
    OBVIOUS
  <1>5. DOMAIN Written(m) = Cells /\ Written(m) = [i \in Cells |-> Written(m)[i]]
    BY DEF Written
  <1> HIDE DEF e, s
  <1>6. /\ \A k \in 0..s : Wrap(tail + e + k) \in Cells /\ K(Wrap(tail + e + k)) = k
        /\ \A a \in 0..BUFFER_SIZE : a < e =>
              /\ Wrap(tail + a) \in Cells /\ K(Wrap(tail + a)) \in Int
              /\ ~ (K(Wrap(tail + a)) < 1 + s)
    BY <1>1, <1>2, <1>4, WritesBehind
  <1>7. \A i \in Cells : K(i) \in Nat
    <2>1. \A i \in Cells : i - head + BUFFER_SIZE \in 0..(2 * BUFFER_SIZE - 1)
      BY <1>1, MailboxAssumption DEF Wrap, Cells
    <2>2. \A i \in Cells : K(i) \in Cells
      BY <2>1, ModWraps
    <2>3. Cells \subseteq Nat
      BY MailboxAssumption DEF Cells
    <2>4. QED
      BY <2>2, <2>3
  <1> HIDE DEF K
  <1>8. ASSUME NEW i \in Cells PROVE Written(m)[i] \in Nat
    <2>1. K(i) < Size(m) => K(i) \in 0..s
      BY <1>2, <1>7
    <2>2. QED
      BY <1>1, <1>2, <1>3, <2>1
  <1>9. ASSUME NEW k \in 0..s PROVE Written(m)[Wrap(tail + e + k)] = Bytes(m)[k + 1]
    <2> DEFINE p == Wrap(tail + e + k)
    <2>1. k < Size(m)
      BY <1>2
    <2>2. p \in Cells /\ K(p) = k
      BY <1>6
    <2> HIDE DEF p
    <2>3. Written(m)[p] = Bytes(m)[k + 1]
      BY <1>3, <2>1, <2>2
    <2>4. QED
      BY <2>3 DEF p
  <1>10. Written(m)[Wrap(tail + e)] = s
    <2>1. 0 \in 0..s /\ tail + e + 0 = tail + e /\ 0 + 1 = 1
      BY <1>1, <1>2, MailboxAssumption DEF Cells
    <2>2. Written(m)[Wrap(tail + e + 0)] = Bytes(m)[0 + 1]
      BY <1>9, <2>1
    <2>3. QED
      BY <1>2, <2>1, <2>2
  <1>11. \A k \in 1..s : Written(m)[Wrap(tail + e + k)] = m[k]
    BY <1>2, <1>9
  <1>12. \A a \in 0..BUFFER_SIZE :
           a < e => Written(m)[Wrap(tail + a)] = buffer[Wrap(tail + a)]
    BY <1>2, <1>3, <1>6
  <1>13. QED
    BY <1>5, <1>8, <1>10, <1>11, <1>12 DEF e, s

\* mbox_send() puts its message behind the others.
LEMMA SendRing ==
  ASSUME RingInv, NEW t \in Threads, Send(t)
  PROVE  RingInv' /\ Contents' = Append(Contents, msg[t])
  <1> DEFINE n == count
             m == msg[t]
             s == Len(m)
  <1>1. PICK ms, d : Ring(n, tail, head, buffer, ms, d)
    BY DEF RingInv
  <1> DEFINE e == d[n]
             ms2 == Append(ms, m)
             d2 == [i \in 0..(n + 1) |-> IF i <= n THEN d[i] ELSE e + 1 + s]
  <1>2. /\ Size(m) <= SpaceAvailable /\ buffer' = Written(m)
        /\ head' = (head + Size(m)) % BUFFER_SIZE /\ count' = n + 1
        /\ tail' = tail /\ msg' = msg
    BY DEF Send, Fits
  <1>3. /\ n \in Nat /\ tail \in Cells /\ ms \in Seq(Seq(Nat)) /\ Len(ms) = n
        /\ d \in [0..n -> 0..BUFFER_SIZE] /\ d[0] = 0 /\ head = Wrap(tail + e)
        /\ \A i \in 1..n : d[i] = d[i - 1] + Size(ms[i])
        /\ \A i, j \in 0..n : i <= j => d[i] <= d[j]
    BY <1>1 DEF Ring
  <1>4. m \in Seq(Nat) /\ s \in Nat /\ Size(m) = 1 + s
    BY HeaderFirst DEF RingInv
  <1>5. e \in 0..BUFFER_SIZE /\ SpaceAvailable = BUFFER_SIZE - e
    BY <1>1, SpaceLeft
  <1>6. e + 1 + s <= BUFFER_SIZE /\ e < BUFFER_SIZE
    <2> HIDE DEF e, s, m
    <2>1. QED
      BY <1>2, <1>4, <1>5, MailboxAssumption
  <1>7. /\ buffer' \in [Cells -> Nat]
        /\ buffer'[Wrap(tail + e)] = s
        /\ \A k \in 1..s : buffer'[Wrap(tail + e + k)] = m[k]
        /\ \A a \in 0..BUFFER_SIZE :
             a < e => buffer'[Wrap(tail + a)] = buffer[Wrap(tail + a)]
    <2>1. d[count] + 1 + Len(m) <= BUFFER_SIZE
      BY <1>6
    <2> HIDE DEF m
    <2>2. QED
      BY <1>1, <1>2, <1>4, <2>1, WrittenHolds
  <1>8. head' = Wrap(tail + (e + 1 + s))
    <2> HIDE DEF e, s, m
    <2>1. 1 + s \in Nat /\ e + (1 + s) <= BUFFER_SIZE
      BY <1>4, <1>5, <1>6
    <2>2. (Wrap(tail + e) + (1 + s)) % BUFFER_SIZE = Wrap(tail + e + (1 + s))
      BY <1>3, <1>5, <1>6, <2>1, WrapAdds
    <2>3. tail + e + (1 + s) = tail + (e + 1 + s)
      BY <1>3, <1>4, <1>5, MailboxAssumption DEF Cells
    <2>4. QED
      BY <1>2, <1>3, <1>4, <2>2, <2>3
  <1>9. /\ ms2 \in Seq(Seq(Nat)) /\ Len(ms2) = n + 1 /\ ms2[n + 1] = m
        /\ \A i \in 1..n : ms2[i] = ms[i]
    <2> HIDE DEF m
    <2>1. QED
      BY <1>3, <1>4
  <1>10. /\ d2 \in [0..(n + 1) -> 0..BUFFER_SIZE]
         /\ \A i \in 0..n : d2[i] = d[i]
         /\ d2[n + 1] = e + 1 + s
    <2> HIDE DEF s, m
    <2>1. e + 1 + s \in 0..BUFFER_SIZE
      BY <1>4, <1>5, <1>6
    <2>2. QED
      BY <1>3, <2>1
  <1> HIDE DEF ms2, d2, m, s, e
  <1>11. \A i, j \in 0..(n + 1) : i <= j => d2[i] <= d2[j]
    <2>1. \A i \in 0..n : d[i] <= e /\ d[i] \in 0..BUFFER_SIZE
      BY <1>3 DEF e
    <2>2. ASSUME NEW i \in 0..(n + 1), NEW j \in 0..(n + 1), i <= j PROVE d2[i] <= d2[j]
      <3>1. CASE j \in 0..n
        <4>1. i \in 0..n
          BY <1>3, <2>2, <3>1
        <4>2. QED
          BY <1>3, <1>10, <2>2, <3>1, <4>1
      <3>2. CASE j = n + 1
        <4>1. CASE i = n + 1
          BY <1>4, <1>5, <1>10, <3>2, <4>1
        <4>2. CASE i \in 0..n
          BY <1>4, <1>5, <1>10, <2>1, <3>2, <4>2
        <4>3. QED
          BY <1>3, <4>1, <4>2
      <3>3. QED
        BY <1>3, <3>1, <3>2
    <2>3. QED
      BY <2>2
  <1>12. ASSUME NEW i \in 1..(n + 1)
         PROVE  /\ d2[i] = d2[i - 1] + Size(ms2[i])
                /\ buffer'[Wrap(tail + d2[i - 1])] = Len(ms2[i])
                /\ \A k \in 1..Len(ms2[i]) : buffer'[Wrap(tail + d2[i - 1] + k)] = ms2[i][k]
    <2>1. CASE i = n + 1
      <3>1. i - 1 = n /\ n \in 0..n
        BY <1>3, <2>1
      <3>2. d2[i - 1] = e /\ d2[i] = e + 1 + s /\ ms2[i] = m
        BY <1>9, <1>10, <2>1, <3>1 DEF e
      <3>3. e + 1 + s = e + (1 + s)
        BY <1>4, <1>5
      <3>4. QED
        BY <1>4, <1>7, <3>2, <3>3 DEF s
    <2>2. CASE i # n + 1
      <3>0. i \in 1..n
        BY <1>3, <2>2
      <3>1. i \in 1..n /\ i \in 0..n /\ i - 1 \in 0..n
        BY <1>3, <3>0
      <3>2. d2[i - 1] = d[i - 1] /\ d2[i] = d[i] /\ ms2[i] = ms[i]
        BY <1>9, <1>10, <3>1
      <3>3. MessageIn(tail, buffer, ms, d, i) /\ d[i] <= d[n]
        BY <1>1, <3>0, OneMessage
      <3> DEFINE a == d[i - 1]
                 b == d[i]
                 l == Len(ms[i])
      <3>4. /\ a \in 0..BUFFER_SIZE /\ b \in 0..BUFFER_SIZE /\ l \in Nat
            /\ b = a + 1 + l /\ b <= e
            /\ buffer[Wrap(tail + a)] = l
            /\ \A k \in 1..l : buffer[Wrap(tail + a + k)] = ms[i][k]
        BY <3>3 DEF e, MessageIn
      <3> HIDE DEF a, b, l
      <3>5. /\ a < e
            /\ \A k \in 1..l : /\ a + k \in 0..BUFFER_SIZE /\ a + k < e
                               /\ tail + a + k = tail + (a + k)
        BY <1>3, <1>5, <3>4, MailboxAssumption DEF Cells
      <3>6. buffer'[Wrap(tail + a)] = buffer[Wrap(tail + a)]
        BY <1>7, <3>4, <3>5
      <3>7. \A k \in 1..l : buffer'[Wrap(tail + a + k)] = buffer[Wrap(tail + a + k)]
        BY <1>7, <3>5
      <3>8. QED
        BY <1>3, <3>1, <3>2, <3>4, <3>6, <3>7 DEF a, l
    <2>3. QED
      BY <2>1, <2>2
  <1>13. n + 1 \in Nat /\ d2[0] = 0
    BY <1>3, <1>10
  <1>14. Ring(count', tail', head', buffer', ms2, d2)
    BY <1>2, <1>3, <1>7, <1>8, <1>9, <1>10, <1>11, <1>12, <1>13 DEF Ring
  <1>15. Contents = ms /\ Contents' = ms2
    BY <1>1, <1>14, ContentsAreMessages, ContentsFromFields
  <1>16. RingInv'
    BY <1>2, <1>14 DEF RingInv
  <1>17. QED
    BY <1>15, <1>16 DEF ms2, m

\* Where the cells behind the tail are when the tail has moved on.
LEMMA TailMoves ==
  ASSUME NEW x \in Cells, NEW a \in 0..BUFFER_SIZE, NEW b \in 0..BUFFER_SIZE, a <= b
  PROVE  /\ x + a \in 0..(2 * BUFFER_SIZE - 1) /\ Wrap(x + a) \in Cells
         /\ (x + a) % BUFFER_SIZE = Wrap(x + a)
         /\ Wrap(Wrap(x + a) + (b - a)) = Wrap(x + b)
  <1>1. /\ x + a \in 0..(2 * BUFFER_SIZE - 1) /\ Wrap(x + a) \in Cells
        /\ Wrap(Wrap(x + a) + (b - a)) = Wrap(x + b)
    BY MailboxAssumption DEF Wrap, Cells
  <1>2. QED
    BY <1>1, ModWraps

\* mbox_recv() takes the oldest message.
LEMMA RecvRing ==
  ASSUME RingInv, NEW t \in Threads, Recv(t)
  PROVE  /\ RingInv' /\ Contents # <<>>
         /\ msg' = [msg EXCEPT ![t] = Head(Contents)] /\ Contents' = Tail(Contents)
  <1> DEFINE n == count
  <1>1. PICK ms, d : Ring(n, tail, head, buffer, ms, d)
    BY DEF RingInv
  <1> DEFINE a == d[1]
             ms2 == Tail(ms)
             d2 == [i \in 0..(n - 1) |-> d[i + 1] - a]
  <1>2. /\ n > 0 /\ msg' = [msg EXCEPT ![t] = MessageAt(tail)]
        /\ tail' = (tail + Size(msg'[t])) % BUFFER_SIZE
        /\ count' = n - 1 /\ UNCHANGED <<head, buffer>>
    BY DEF Recv
  <1>3. /\ n \in Nat /\ tail \in Cells /\ ms \in Seq(Seq(Nat)) /\ Len(ms) = n
        /\ d \in [0..n -> 0..BUFFER_SIZE] /\ d[0] = 0 /\ head = Wrap(tail + d[n])
        /\ \A i \in 1..n : d[i] = d[i - 1] + Size(ms[i])
        /\ \A i, j \in 0..n : i <= j => d[i] <= d[j]
        /\ buffer \in [Cells -> Nat]
    BY <1>1 DEF Ring
  <1>4. Contents = ms
    BY <1>1, ContentsAreMessages, ContentsFromFields
  <1>5. 1 \in 1..n /\ n - 1 \in Nat
    BY <1>2, <1>3
  <1>6. MessageAt(tail) = ms[1]
    <2>1. Offset = [i \in 0..n |-> Wrap(tail + d[i])]
      BY <1>1, OffsetFinds, ContentsFromFields
    <2>2. Offset[0] = tail
      BY <1>3, <2>1, MailboxAssumption DEF Wrap, Cells
    <2>3. Contents[1] = MessageAt(Offset[1 - 1])
      BY <1>5 DEF Contents
    <2>4. QED
      BY <1>4, <2>2, <2>3
  <1>7. /\ ms[1] \in Seq(Nat) /\ Size(ms[1]) = 1 + Len(ms[1]) /\ Len(ms[1]) \in Nat
        /\ a = d[0] + 1 + Len(ms[1]) /\ a \in 0..BUFFER_SIZE
    <2>1. MessageIn(tail, buffer, ms, d, 1)
      BY <1>1, <1>5, OneMessage
    <2>2. QED
      BY <2>1 DEF MessageIn
  <1>8. a = Size(ms[1])
    BY <1>3, <1>7
  <1>9. msg' = [msg EXCEPT ![t] = ms[1]] /\ msg' \in [Threads -> Seq(Nat)]
        /\ tail' = (tail + a) % BUFFER_SIZE
    BY <1>2, <1>6, <1>7, <1>8 DEF RingInv
  <1> HIDE DEF a
  <1>10. tail' = Wrap(tail + a) /\ tail' \in Cells
    <2>1. tail \in Cells /\ a \in 0..BUFFER_SIZE /\ a <= a
      BY <1>3, <1>7
    <2>2. (tail + a) % BUFFER_SIZE = Wrap(tail + a) /\ Wrap(tail + a) \in Cells
      BY <2>1, TailMoves
    <2>3. QED
      BY <1>9, <2>2
  <1>11. \A b \in 0..BUFFER_SIZE : a <= b => Wrap(tail' + (b - a)) = Wrap(tail + b)
    BY <1>3, <1>7, <1>10, TailMoves
  <1>12. /\ ms2 \in Seq(Seq(Nat)) /\ Len(ms2) = n - 1
         /\ \A i \in 1..(n - 1) : ms2[i] = ms[i + 1]
    BY <1>3, <1>5
  <1>13. \A i \in 0..(n - 1) : d[i + 1] \in 0..BUFFER_SIZE /\ a <= d[i + 1]
    <2>1. ASSUME NEW i \in 0..(n - 1) PROVE i + 1 \in 0..n /\ 1 \in 0..n /\ 1 <= i + 1
      BY <1>3
    <2>2. QED
      BY <1>3, <2>1 DEF a
  <1>14. /\ d2 \in [0..(n - 1) -> 0..BUFFER_SIZE]
         /\ \A i \in 0..(n - 1) : d2[i] = d[i + 1] - a
    BY <1>7, <1>13, MailboxAssumption
  <1> HIDE DEF ms2, d2
  <1>15. d2[0] = 0
    <2>1. d2[0] = d[0 + 1] - a /\ d[0 + 1] = a
      BY <1>5, <1>14 DEF a
    <2>2. QED
      BY <1>7, <2>1
  <1>16. \A i, j \in 0..(n - 1) : i <= j => d2[i] <= d2[j]
    <2>1. ASSUME NEW i \in 0..(n - 1), NEW j \in 0..(n - 1), i <= j
          PROVE  d2[i] <= d2[j]
      <3>1. d[i + 1] <= d[j + 1]
        BY <1>3, <2>1
      <3>2. QED
        BY <1>7, <1>13, <1>14, <3>1
    <2>2. QED
      BY <2>1
  <1>17. head' = Wrap(tail' + d2[n - 1])
    <2>1. n - 1 \in 0..(n - 1) /\ d[n - 1 + 1] = d[n]
      BY <1>3, <1>5
    <2>2. d2[n - 1] = d[n] - a /\ d[n] \in 0..BUFFER_SIZE /\ a <= d[n]
      BY <1>13, <1>14, <2>1
    <2>3. QED
      BY <1>2, <1>3, <1>11, <2>2
  <1>18. ASSUME NEW i \in 1..(n - 1)
         PROVE  /\ d2[i] = d2[i - 1] + Size(ms2[i])
                /\ buffer[Wrap(tail' + d2[i - 1])] = Len(ms2[i])
                /\ \A k \in 1..Len(ms2[i]) : buffer[Wrap(tail' + d2[i - 1] + k)] = ms2[i][k]
    <2>1. /\ i \in 0..(n - 1) /\ i - 1 \in 0..(n - 1) /\ i - 1 + 1 = i
          /\ i + 1 \in 1..n /\ i + 1 - 1 = i
      BY <1>3
    <2>2. ms2[i] = ms[i + 1] /\ d2[i - 1] = d[i] - a /\ d2[i] = d[i + 1] - a /\ a <= d[i]
      BY <1>12, <1>13, <1>14, <2>1
    <2> DEFINE b == d[i]
               c == d[i + 1]
               l == Len(ms[i + 1])
               w == ms[i + 1]
    <2>3. /\ Len(w) \in Nat /\ Size(w) = 1 + Len(w)
          /\ b \in 0..BUFFER_SIZE /\ c \in 0..BUFFER_SIZE
          /\ c = b + 1 + Len(w)
          /\ buffer[Wrap(tail + b)] = Len(w)
          /\ \A k \in 1..Len(w) : buffer[Wrap(tail + b + k)] = w[k]
      <3>1. MessageIn(tail, buffer, ms, d, i + 1)
        BY <1>1, <2>1, OneMessage
      <3>2. QED
        BY <2>1, <3>1 DEF MessageIn
    <2>4. l = Len(w) /\ l \in Nat /\ a <= b
      BY <2>2, <2>3
    <2> HIDE DEF b, c, l, w
    <2>5. a \in Int /\ b \in Int /\ c \in Int /\ c = b + 1 + l /\ c <= BUFFER_SIZE /\ 0 <= b
      BY <1>7, <2>3, <2>4, MailboxAssumption
    <2>6. c - a = b - a + (1 + l)
      BY <2>4, <2>5
    <2>7. Wrap(tail' + (b - a)) = Wrap(tail + b)
      BY <1>11, <2>3, <2>4
    <2>8. ASSUME NEW k \in 1..l PROVE Wrap(tail' + (b - a) + k) = Wrap(tail + b + k)
      <3> DEFINE x == b + k
      <3>1. x \in 0..BUFFER_SIZE /\ a <= x
        BY <2>4, <2>5, MailboxAssumption
      <3>2. tail \in Int /\ tail' \in Int
        BY <1>3, <1>10, MailboxAssumption DEF Cells
      <3>3. tail' + (b - a) + k = tail' + (x - a) /\ tail + b + k = tail + x
        BY <2>5, <3>2
      <3> HIDE DEF x
      <3>4. Wrap(tail' + (x - a)) = Wrap(tail + x)
        BY <1>11, <3>1
      <3>5. QED
        BY <3>3, <3>4
    <2>9. d2[i - 1] = b - a /\ d2[i] = c - a /\ ms2[i] = w
      BY <2>2 DEF b, c, w
    <2>10. QED
      BY <2>3, <2>4, <2>6, <2>7, <2>8, <2>9
  <1>19. Ring(count', tail', head', buffer', ms2, d2)
    BY <1>2, <1>3, <1>5, <1>10, <1>12, <1>14, <1>15, <1>16, <1>17, <1>18 DEF Ring
  <1>20. Contents' = ms2
    BY <1>19, ContentsAreMessages, ContentsFromFields
  <1>21. ms # <<>> /\ Head(ms) = ms[1]
    BY <1>3, <1>5
  <1>22. RingInv'
    BY <1>9, <1>19 DEF RingInv
  <1>23. QED
    BY <1>4, <1>9, <1>20, <1>21, <1>22 DEF ms2

\* The empty mailbox, after mbox_init() and after the last mbox_close().
LEMMA EmptyRing ==
  ASSUME NEW buf \in [Cells -> Nat]
  PROVE  Ring(0, 0, 0, buf, <<>>, [i \in 0..0 |-> 0]) /\ ContentsOf(0, 0, buf) = <<>>
  <1>1. Ring(0, 0, 0, buf, <<>>, [i \in 0..0 |-> 0])
    BY MailboxAssumption DEF Ring, Cells, Wrap
  <1>2. QED
    BY <1>1, ContentsAreMessages

\* A step that touches neither buffer nor counters leaves the messages alone.
LEMMA RingUntouched ==
  ASSUME RingInv, UNCHANGED <<count, head, tail, buffer>>, msg' \in [Threads -> Seq(Nat)]
  PROVE  RingInv' /\ Contents' = Contents
  <1>1. Contents' = Contents
    BY ContentsFromFields
  <1>2. QED
    BY <1>1 DEF RingInv

\* What a call to function f has still to do.
LEMMA CallPending ==
  ASSUME UseInv, NEW t \in Threads, NEW f \in WithHandle \cup {"open"}, Call(t, f),
         f = "open" => ~handle[t], f \in WithHandle => handle[t]
  PROVE  /\ Users' = Users /\ (f \in WithHandle => t \in Users) /\ Pending[t] = "none"
         /\ Pending' = [Pending EXCEPT ![t] = IF f \in {"send", "recv"} THEN f ELSE "none"]
  <1> USE DEF UseInv, LocalsOK, Idle, WithHandle
  <1>1. /\ op[t] = "none" /\ op' = [op EXCEPT ![t] = f]
        /\ stage' = [stage EXCEPT ![t] = "body"] /\ handle' = handle
    BY DEF Call, Goto
  <1>2. Users' = Users /\ (f \in WithHandle => t \in Users)
    BY <1>1 DEF Users
  <1>3. /\ Pending[t] = "none"
        /\ Pending' = [Pending EXCEPT ![t] = IF f \in {"send", "recv"} THEN f ELSE "none"]
    BY <1>1 DEF Pending
  <1>4. QED
    BY <1>2, <1>3

\* Past the body of its function a thread has nothing more to do.
LEMMA StagePending ==
  ASSUME UseInv, NEW t \in Threads, NEW s \in Late \cup {"rel"},
         stage' = [stage EXCEPT ![t] = s], op' = op
  PROVE  /\ Pending' = [Pending EXCEPT ![t] = "none"]
         /\ op[t] \notin {"send", "recv"} \/ stage[t] # "body" => Pending' = Pending
  BY DEF UseInv, LocalsOK, Late, Pending

\* The steps in which nobody becomes or ceases to be a user, or begins or ends a call.
LEMMA QuietSteps ==
  ASSUME MInv, NEW t \in Threads,
         \/ BadKey(t) \/ Stat(t) \/ CloseWake(t) \/ CloseInit(t) \/ CloseZero(t)
         \/ SendWaits(t) \/ RecvWaits(t) \/ WaitGoesOn(t)
         \/ WakeOthers(t, "send", moreData) \/ WakeOthers(t, "recv", moreSpace)
         \/ Return(t)
  PROVE  Users' = Users /\ Pending' = Pending
  <1> USE DEF MInv, UseInv, LocalsOK
  <1>1. CASE \/ Stat(t) \/ CloseWake(t) \/ CloseInit(t) \/ CloseZero(t)
             \/ WakeOthers(t, "send", moreData) \/ WakeOthers(t, "recv", moreSpace)
    <2>1. PICK s \in Late \cup {"rel"} :
            /\ stage' = [stage EXCEPT ![t] = s] /\ op' = op /\ handle' = handle
            /\ op[t] \in WithHandle
            /\ op[t] = "close" => stage[t] # "body"
            /\ op[t] \notin {"send", "recv"} \/ stage[t] # "body"
      BY <1>1 DEF Stat, CloseWake, CloseInit, CloseZero, WakeOthers, At, Goto, Late, WithHandle
    <2>2. Users' = Users
      BY <2>1 DEF Users, Late, WithHandle
    <2>3. QED
      BY <2>1, <2>2, StagePending
  <1>2. CASE SendWaits(t) \/ RecvWaits(t) \/ WaitGoesOn(t)
    <2>1. UNCHANGED <<op, stage, handle>>
      BY <1>2 DEF SendWaits, RecvWaits, WaitGoesOn, locals
    <2>2. QED
      BY <2>1 DEF Users, Pending
  <1>3. CASE BadKey(t)
    <2>1. op[t] = "none" /\ op' = [op EXCEPT ![t] = "exited"] /\ UNCHANGED <<stage, handle>>
      BY <1>3 DEF BadKey
    <2>2. QED
      BY <2>1 DEF Users, Pending
  <1>4. CASE Return(t)
    <2>1. /\ stage[t] = "rel" /\ op' = [op EXCEPT ![t] = "none"]
          /\ handle' = [handle EXCEPT ![t] = (@ \/ op[t] = "open") /\ op[t] # "close"]
          /\ stage' = stage
      BY <1>4 DEF Return
    <2>2. Users' = Users
      BY <2>1 DEF Users, CallInv, WithHandle, Idle
    <2>3. Pending' = Pending
      BY <2>1 DEF Pending
    <2>4. QED
      BY <2>2, <2>3
  <1>5. QED
    BY <1>1, <1>2, <1>3, <1>4

\* mbox_open() and mbox_close() as the queue sees them.
LEMMA JoinLeave ==
  ASSUME MInv, NEW t \in Threads, UNCHANGED <<Contents, msg>>
  PROVE  /\ Open(t) => MQ!Join(t)
         /\ Close(t) => MQ!Leave(t)
  <1> USE DEF MInv, UseInv, LocalsOK
  <1>1. ASSUME Open(t) PROVE MQ!Join(t)
    <2>1. /\ op[t] = "open" /\ stage[t] = "body"
          /\ stage' = [stage EXCEPT ![t] = "rel"] /\ op' = op /\ handle' = handle
      BY <1>1 DEF Open, At, Goto
    <2>2. t \notin Users /\ Users' = Users \cup {t}
      BY <2>1 DEF Users, CallInv
    <2>3. Pending' = Pending
      BY <2>1, StagePending
    <2>4. QED
      BY <2>2, <2>3 DEF MQ!Join
  <1>2. ASSUME Close(t) PROVE MQ!Leave(t)
    <2>1. PICK s \in {"wake", "rel"} :
            /\ op[t] = "close" /\ stage[t] = "body"
            /\ stage' = [stage EXCEPT ![t] = s] /\ op' = op /\ handle' = handle
      BY <1>2 DEF Close, At, Goto
    <2>2. t \in Users /\ Users' = Users \ {t}
      BY <2>1 DEF Users, CallInv, WithHandle
    <2>3. Pending[t] = "none" /\ Pending' = Pending
      BY <2>1, StagePending DEF Pending, Late
    <2>4. QED
      BY <2>2, <2>3 DEF MQ!Leave
  <1>3. QED
    BY <1>1, <1>2

\* The calls that take or give up a message, as the queue sees them.
LEMMA CallsBegin ==
  ASSUME MInv, NEW t \in Threads, UNCHANGED Contents
  PROVE  /\ CallClose(t) => MQ!Forget(t)
         /\ CallRecv(t) => MQ!Begin(t, "recv", <<>>)
         /\ \A m \in Messages : CallSend(t, m) => MQ!Begin(t, "send", m)
         /\ CallOpen(t) \/ CallStat(t) => UNCHANGED <<Users, Pending, msg>>
  <1> USE DEF MInv
  <1> DEFINE Begun(f) ==
        /\ Users' = Users /\ (f \in WithHandle => t \in Users) /\ Pending[t] = "none"
        /\ Pending' = [Pending EXCEPT ![t] = IF f \in {"send", "recv"} THEN f ELSE "none"]
  <1>1. ASSUME NEW f \in WithHandle \cup {"open"}, Call(t, f),
               f = "open" => ~handle[t], f \in WithHandle => handle[t]
        PROVE  Begun(f)
    BY <1>1, CallPending
  <1>2. Pending = [Pending EXCEPT ![t] = "none"] <=> Pending[t] = "none"
    BY DEF Pending
  <1>3. ASSUME CallClose(t) PROVE MQ!Forget(t)
    <2>1. Begun("close") /\ msg' = [msg EXCEPT ![t] = <<>>]
      BY <1>1, <1>3 DEF CallClose, WithHandle
    <2>2. QED
      BY <1>2, <2>1 DEF MQ!Forget
  <1>4. ASSUME CallRecv(t) PROVE MQ!Begin(t, "recv", <<>>)
    <2>1. Begun("recv") /\ msg' = [msg EXCEPT ![t] = <<>>]
      BY <1>1, <1>4 DEF CallRecv, WithHandle
    <2>2. QED
      BY <2>1 DEF MQ!Begin, WithHandle
  <1>5. ASSUME NEW m \in Messages, CallSend(t, m) PROVE MQ!Begin(t, "send", m)
    <2>1. Begun("send") /\ msg' = [msg EXCEPT ![t] = m]
      BY <1>1, <1>5 DEF CallSend, WithHandle
    <2>2. QED
      BY <2>1 DEF MQ!Begin, WithHandle
  <1>6. ASSUME CallOpen(t) \/ CallStat(t) PROVE UNCHANGED <<Users, Pending, msg>>
    <2>1. (Begun("open") \/ Begun("stat")) /\ msg' = msg
      BY <1>1, <1>6 DEF CallOpen, CallStat, WithHandle
    <2>2. QED
      BY <1>2, <2>1
  <1>7. QED
    BY <1>3, <1>4, <1>5, <1>6

\* The steps that leave the buffer alone keep the messages, whatever they do else.
LEMMA BufferUntouched ==
  ASSUME RingInv, NEW t \in Threads,
         \/ CallOpen(t) \/ CallStat(t) \/ CallClose(t) \/ CallRecv(t)
         \/ (\E m \in Messages : CallSend(t, m))
         \/ BadKey(t) \/ Open(t) \/ Close(t) \/ Stat(t)
         \/ CloseWake(t) \/ CloseInit(t) \/ SendWaits(t) \/ RecvWaits(t)
         \/ WakeOthers(t, "send", moreData) \/ WakeOthers(t, "recv", moreSpace)
         \/ WaitGoesOn(t) \/ Return(t)
  PROVE  RingInv' /\ Contents' = Contents
  <1>1. CASE CallClose(t) \/ CallRecv(t) \/ \E m \in Messages : CallSend(t, m)
    <2>1. UNCHANGED <<count, head, tail, buffer>>
      BY <1>1 DEF CallClose, CallRecv, CallSend, Call, fields
    <2>2. PICK m \in Messages \cup {<<>>} : msg' = [msg EXCEPT ![t] = m]
      BY <1>1 DEF CallClose, CallRecv, CallSend
    <2>3. m \in Seq(Nat)
      <3>1. <<>> \in Seq(Nat) /\ Messages \subseteq Seq(Nat)
        BY MailboxAssumption
      <3>2. QED
        BY <3>1
    <2>4. msg' \in [Threads -> Seq(Nat)]
      BY <2>2, <2>3 DEF RingInv
    <2>5. QED
      BY <2>1, <2>4, RingUntouched
  <1>2. CASE \/ CallOpen(t) \/ CallStat(t) \/ BadKey(t) \/ Open(t) \/ Close(t) \/ Stat(t)
             \/ CloseWake(t) \/ CloseInit(t) \/ SendWaits(t) \/ RecvWaits(t)
             \/ WakeOthers(t, "send", moreData) \/ WakeOthers(t, "recv", moreSpace)
             \/ WaitGoesOn(t) \/ Return(t)
    <2>1. UNCHANGED <<count, head, tail, buffer, msg>>
      BY <1>2 DEF CallOpen, CallStat, Call, BadKey, Open, Close, Stat, CloseWake, CloseInit,
                  SendWaits, RecvWaits, WakeOthers, WaitGoesOn, Return, fields, locals
    <2>2. QED
      BY <2>1, RingUntouched DEF RingInv
  <1>3. QED
    BY <1>1, <1>2

\* Every step keeps the messages whole and in order, and is a step of the queue.
LEMMA RingStep ==
  ASSUME MInv, RingInv, [MNext]_mboxvars
  PROVE  RingInv' /\ [MQ!Next]_(MQ!mqvars)
  <1> USE DEF MQ!Next, MQ!mqvars
  <1>1. CASE UNCHANGED mboxvars
    <2>1. UNCHANGED <<count, head, tail, buffer, msg, op, stage, handle>>
      BY <1>1 DEF mboxvars, fields, locals
    <2>2. RingInv' /\ Contents' = Contents
      BY <2>1, RingUntouched DEF RingInv
    <2>3. Users' = Users /\ Pending' = Pending
      BY <2>1 DEF Users, Pending
    <2>4. QED
      BY <2>1, <2>2, <2>3
  <1>2. ASSUME NEW t \in Threads, Send(t)
        PROVE  RingInv' /\ [MQ!Next]_(MQ!mqvars)
    <2>1. /\ op[t] = "send" /\ stage[t] = "body" /\ stage' = [stage EXCEPT ![t] = "wake"]
          /\ UNCHANGED <<op, handle, msg>>
      BY <1>2 DEF Send, At, Goto
    <2>2. Users' = Users
      BY <2>1 DEF Users, MInv, UseInv, LocalsOK
    <2>3. Pending[t] = "send" /\ Pending' = [Pending EXCEPT ![t] = "none"]
      BY <2>1, StagePending DEF Pending, MInv, Late
    <2>4. MQ!Put(t)
      BY <1>2, <2>1, <2>2, <2>3, SendRing DEF MQ!Put
    <2>5. QED
      BY <1>2, <2>4, SendRing
  <1>3. ASSUME NEW t \in Threads, Recv(t)
        PROVE  RingInv' /\ [MQ!Next]_(MQ!mqvars)
    <2>1. /\ op[t] = "recv" /\ stage[t] = "body" /\ stage' = [stage EXCEPT ![t] = "wake"]
          /\ UNCHANGED <<op, handle>>
      BY <1>3 DEF Recv, At, Goto
    <2>2. Users' = Users
      BY <2>1 DEF Users, MInv, UseInv, LocalsOK
    <2>3. Pending[t] = "recv" /\ Pending' = [Pending EXCEPT ![t] = "none"]
      BY <2>1, StagePending DEF Pending, MInv, Late
    <2>4. MQ!Get(t)
      BY <1>3, <2>2, <2>3, RecvRing DEF MQ!Get
    <2>5. QED
      BY <1>3, <2>4, RecvRing
  <1>4. ASSUME NEW t \in Threads, CloseZero(t)
        PROVE  RingInv' /\ [MQ!Next]_(MQ!mqvars)
    <2>1. count' = 0 /\ head' = 0 /\ tail' = 0 /\ UNCHANGED <<buffer, msg>>
      BY <1>4 DEF CloseZero
    <2>2. buffer \in [Cells -> Nat]
      BY DEF RingInv, Ring
    <2>3. Ring(0, 0, 0, buffer, <<>>, [i \in 0..0 |-> 0]) /\ ContentsOf(0, 0, buffer) = <<>>
      BY <2>2, EmptyRing
    <2>4. RingInv'
      BY <2>1, <2>3 DEF RingInv
    <2>5. Contents' = <<>>
      BY <2>1, <2>3, ContentsFromFields
    <2>6. Users = {}
      BY <1>4 DEF CloseZero, At, MInv, UseInv, CallInv
    <2>7. Users' = Users /\ Pending' = Pending
      BY <1>4, QuietSteps
    <2>8. MQ!Discard
      BY <2>1, <2>5, <2>6, <2>7 DEF MQ!Discard
    <2>9. QED
      BY <2>4, <2>8
  <1>5. ASSUME NEW t \in Threads,
               \/ CallOpen(t) \/ CallStat(t) \/ CallClose(t) \/ CallRecv(t)
               \/ \E m \in Messages : CallSend(t, m)
        PROVE  RingInv' /\ [MQ!Next]_(MQ!mqvars)
    <2>1. RingInv' /\ Contents' = Contents
      BY <1>5, BufferUntouched
    <2>2. \/ MQ!Forget(t) \/ MQ!Begin(t, "recv", <<>>)
          \/ (\E m \in Messages : MQ!Begin(t, "send", m))
          \/ UNCHANGED <<Users, Pending, msg>>
      BY <1>5, <2>1, CallsBegin
    <2>3. QED
      BY <2>1, <2>2
  <1>6. ASSUME NEW t \in Threads, Open(t) \/ Close(t)
        PROVE  RingInv' /\ [MQ!Next]_(MQ!mqvars)
    <2>1. RingInv' /\ Contents' = Contents
      BY <1>6, BufferUntouched
    <2>2. msg' = msg
      BY <1>6 DEF Open, Close
    <2>3. MQ!Join(t) \/ MQ!Leave(t)
      BY <1>6, <2>1, <2>2, JoinLeave
    <2>4. QED
      BY <2>1, <2>3
  <1>7. ASSUME NEW t \in Threads,
               \/ BadKey(t) \/ Stat(t) \/ CloseWake(t) \/ CloseInit(t)
               \/ SendWaits(t) \/ RecvWaits(t)
               \/ WakeOthers(t, "send", moreData) \/ WakeOthers(t, "recv", moreSpace)
               \/ WaitGoesOn(t) \/ Return(t)
        PROVE  RingInv' /\ [MQ!Next]_(MQ!mqvars)
    <2>1. RingInv' /\ Contents' = Contents
      BY <1>7, BufferUntouched
    <2>2. msg' = msg
      BY <1>7 DEF BadKey, Stat, CloseWake, CloseInit, SendWaits, RecvWaits, WakeOthers,
                  WaitGoesOn, Return, locals
    <2>3. Users' = Users /\ Pending' = Pending
      BY <1>7, QuietSteps
    <2>4. QED
      BY <2>1, <2>2, <2>3
  <1>8. QED
    BY <1>1, <1>2, <1>3, <1>4, <1>5, <1>6, <1>7 DEF MNext

\* The mailbox that mbox_init() leaves is an empty ring.
LEMMA InitRing == MInit => RingInv /\ MQ!Init
  <1> SUFFICES ASSUME MInit PROVE RingInv /\ MQ!Init
    OBVIOUS
  <1>1. /\ count = 0 /\ head = 0 /\ tail = 0 /\ buffer = [i \in Cells |-> 0]
        /\ msg = [t \in Threads |-> <<>>]
    BY DEF MInit
  <1>2. buffer \in [Cells -> Nat] /\ msg \in [Threads -> Seq(Nat)]
    BY <1>1
  <1>3. Ring(0, 0, 0, buffer, <<>>, [i \in 0..0 |-> 0]) /\ ContentsOf(0, 0, buffer) = <<>>
    BY <1>2, EmptyRing
  <1>4. RingInv
    BY <1>1, <1>2, <1>3 DEF RingInv
  <1>5. Contents = <<>>
    BY <1>1, <1>3, ContentsFromFields
  <1>6. Users = {} /\ Pending = [t \in Threads |-> "none"]
    BY DEF MInit, Users, Pending
  <1>7. QED
    BY <1>1, <1>4, <1>5, <1>6 DEF MQ!Init

\* For any buffer size, messages and threads, if nobody opens the mailbox while it is
\* being closed (so that the lock excludes and a copy is one step), space_available() is
\* exactly the room that the messages in the buffer leave, and they lie one behind the
\* other from tail to head.
THEOREM SpaceIsExact == ~OpenCloseRace => (MSpec => []SpaceExact)
  <1> SUFFICES ASSUME ~OpenCloseRace PROVE MSpec => []SpaceExact
    OBVIOUS
  <1>1. MInv /\ RingInv /\ [MNext]_mboxvars => RingInv'
    BY RingStep
  <1>2. MSpec => []MInv
    BY MInvariance
  <1>3. QED
    BY <1>1, <1>2, InitRing, RingIsExact, PTL DEF MSpec

\* For any buffer size, messages and threads, if nobody opens the mailbox while it is
\* being closed, the mailbox is a queue of whole messages: each call of mbox_send() puts
\* one in, each call of mbox_recv() takes the oldest out unchanged, and none is dropped
\* while the mailbox has a user.
THEOREM MailboxIsQueue == ~OpenCloseRace => (MSpec => ImplementsMessageQueue)
  <1> SUFFICES ASSUME ~OpenCloseRace PROVE MSpec => ImplementsMessageQueue
    OBVIOUS
  <1>1. MInv /\ RingInv /\ [MNext]_mboxvars => RingInv' /\ [MQ!Next]_(MQ!mqvars)
    BY RingStep
  <1>2. MSpec => []MInv
    BY MInvariance
  <1>3. QED
    BY <1>1, <1>2, InitRing, PTL DEF MSpec, ImplementsMessageQueue, MQ!Spec

-----------------------------------------------------------------------------
(***************************************************************************)
(* The keyboard driver.  At most one of the handler and the processes runs *)
(* with interrupts off, and only that one can have the lock or be on its   *)
(* way from it to a waiting list; so whoever comes finds the lock open.    *)
(***************************************************************************)
OwnerInv ==
  /\ off \in Threads \cup {Nobody}
  /\ \A t \in Threads :
       /\ t # off => at[t] \in {"out", "waiting", "woken"}
       /\ t = off => at[t] \in {"out", "in", "unlocked"}
       /\ at[t] = "out" <=> op[t] = "none"

\* Nobody else runs while the handler does, so what mbox_stat() has told it is
\* still true when mbox_send() looks for space.
HandlerInv ==
  /\ irq \in {"none", "stat", "send"}
  /\ off = Irq <=> irq # "none"
  /\ at[Irq] \in {"out", "in"}
  /\ irq = "none" => at[Irq] = "out"
  /\ irq = "stat" => /\ op[Irq] \in {"none", "stat"}
                     /\ stage[Irq] \in {"body", "rel"}
                     /\ op[Irq] = "none" \/ stage[Irq] = "rel"
                          => space[Irq] = SpaceAvailable
  /\ irq = "send" => /\ op[Irq] \in {"none", "send"}
                     /\ op[Irq] = "send" /\ stage[Irq] = "body"
                          => msg[Irq] = <<character>> /\ MSG_CHAR_SIZE <= SpaceAvailable

ThreadLocals ==
  /\ DOMAIN op = Threads /\ DOMAIN stage = Threads
  /\ DOMAIN space = Threads /\ DOMAIN msg = Threads

KInv == IInv /\ OwnerInv /\ HandlerInv /\ ThreadLocals

\* What keyboard_init() leaves satisfies the invariant.
LEMMA InitKInv == KeyboardSetup /\ KInit => KInv
  <1> SUFFICES ASSUME KeyboardSetup, KInit PROVE KInv
    OBVIOUS
  <1>1. IInv
    BY InitIInv DEF KInit
  <1>2. Irq \in Threads /\ Irq # Nobody
    BY MonitorAssumption DEF KeyboardSetup
  <1>3. QED
    BY <1>1, <1>2 DEF KInit, Init, KInv, OwnerInv, HandlerInv, ThreadLocals

\* While nobody runs with interrupts off, and while the one that does is outside
\* or has released the lock, the lock is open.
LEMMA LockIsOpen ==
  ASSUME KInv
  PROVE  /\ waiting = <<>>
         /\ status = "UNLOCKED" \/ \E t \in Threads : t = off /\ at[t] = "in"
  <1> USE DEF KInv, IInv, LockInv
  <1>1. ToSet(waiting) = {}
    BY DEF OwnerInv
  <1>2. waiting = <<>>
    BY <1>1, NonEmptyQueue
  <1>3. status = "LOCKED" => \E t \in Threads : t = off /\ at[t] = "in"
    BY DEF LockedIffHeld, Inside, OwnerInv
  <1>4. QED
    BY <1>2, <1>3

\* A step of a process leaves the handler alone: it is not running.
LEMMA HandlerIdle ==
  ASSUME HandlerInv, irq = "none", irq' = irq, at'[Irq] = at[Irq], op'[Irq] = op[Irq],
         off' # Irq
  PROVE  HandlerInv'
  BY DEF HandlerInv

\* mbox_acquire() in CharInterrupt, PutChar and getchar() finds the lock open.
LEMMA CallKInv ==
  ASSUME KInv, NEW t \in Threads, NEW f, f # "none", Call(t, f),
         Runs(t), KeepsInterruptsOff(t), Irq \in Threads, DOMAIN msg' = Threads
  PROVE  /\ IInv' /\ OwnerInv' /\ ThreadLocals'
         /\ off' = t /\ at' = [at EXCEPT ![t] = "in"] /\ op' = [op EXCEPT ![t] = f]
         /\ stage' = [stage EXCEPT ![t] = "body"] /\ UNCHANGED fields
  <1>1. /\ Acquire(t) /\ op' = [op EXCEPT ![t] = f]
        /\ stage' = [stage EXCEPT ![t] = "body"] /\ UNCHANGED fields
        /\ space' = [space EXCEPT ![t] = -1]
    BY DEF Call, Goto
  <1>2. IInv'
    BY <1>1, AcquireIInv DEF KInv
  <1>3. status = "UNLOCKED"
    BY <1>1, LockIsOpen, MonitorAssumption DEF Acquire, Runs
  <1>4. at' = [at EXCEPT ![t] = "in"]
    BY <1>1, <1>3 DEF Acquire, LockAcquireHelper
  <1>5. at'[t] = "in" /\ \A u \in Threads : u # t => at'[u] = at[u]
    BY <1>4 DEF KInv, IInv, LockInv
  <1>6. off' = t
    BY <1>5 DEF KeepsInterruptsOff
  <1>7. OwnerInv'
    BY <1>1, <1>5, <1>6, MonitorAssumption DEF KInv, OwnerInv, Runs, ThreadLocals
  <1>8. ThreadLocals'
    BY <1>1 DEF KInv, ThreadLocals
  <1>9. QED
    BY <1>1, <1>2, <1>4, <1>6, <1>7, <1>8

\* An interrupt for a character, and its mbox_send(), keep the invariant.
LEMMA HandlerCallsKInv ==
  ASSUME KeyboardSetup, KInv, CharInterrupt \/ PutChar
  PROVE  KInv'
  <1>0. Irq \in Threads /\ Irq # Nobody
    BY MonitorAssumption DEF KeyboardSetup
  <1>1. CASE CharInterrupt
    <2>1. /\ Call(Irq, "stat") /\ Runs(Irq) /\ KeepsInterruptsOff(Irq)
          /\ msg' = msg /\ irq' = "stat"
      BY <1>1 DEF CharInterrupt, CallStat, Runs
    <2>2. DOMAIN msg' = Threads
      BY <2>1 DEF KInv, ThreadLocals
    <2>3. /\ IInv' /\ OwnerInv' /\ ThreadLocals'
          /\ off' = Irq /\ at' = [at EXCEPT ![Irq] = "in"]
          /\ op' = [op EXCEPT ![Irq] = "stat"]
          /\ stage' = [stage EXCEPT ![Irq] = "body"]
      BY <1>0, <2>1, <2>2, CallKInv
    <2>4. at'[Irq] = "in" /\ op'[Irq] = "stat" /\ stage'[Irq] = "body"
      BY <1>0, <2>3 DEF KInv, IInv, LockInv, ThreadLocals
    <2>5. HandlerInv'
      BY <2>1, <2>3, <2>4 DEF HandlerInv
    <2>6. QED
      BY <2>3, <2>5 DEF KInv
  <1>2. CASE PutChar
    <2>1. /\ Call(Irq, "send") /\ Runs(Irq) /\ KeepsInterruptsOff(Irq)
          /\ msg' = [msg EXCEPT ![Irq] = <<character>>] /\ irq' = "send"
          /\ irq = "stat" /\ op[Irq] = "none" /\ space[Irq] >= MSG_CHAR_SIZE
          /\ character' = character
      BY <1>2 DEF PutChar, CallSend
    <2>2. DOMAIN msg' = Threads /\ msg'[Irq] = <<character>>
      BY <1>0, <2>1 DEF KInv, ThreadLocals
    <2>3. /\ IInv' /\ OwnerInv' /\ ThreadLocals'
          /\ off' = Irq /\ at' = [at EXCEPT ![Irq] = "in"]
          /\ op' = [op EXCEPT ![Irq] = "send"]
          /\ stage' = [stage EXCEPT ![Irq] = "body"] /\ UNCHANGED fields
      BY <1>0, <2>1, <2>2, CallKInv
    <2>4. at'[Irq] = "in" /\ op'[Irq] = "send" /\ stage'[Irq] = "body"
      BY <1>0, <2>3 DEF KInv, IInv, LockInv, ThreadLocals
    <2>5. space[Irq] = SpaceAvailable
      BY <2>1 DEF KInv, HandlerInv
    <2>6. SpaceAvailable' = SpaceAvailable
      BY <2>3 DEF SpaceAvailable, fields
    <2>7. MSG_CHAR_SIZE <= SpaceAvailable'
      BY <2>1, <2>5, <2>6 DEF MSG_CHAR_SIZE, HEADER
    <2>8. HandlerInv'
      BY <2>1, <2>2, <2>3, <2>4, <2>7 DEF HandlerInv, MSG_CHAR_SIZE, HEADER
    <2>9. QED
      BY <2>3, <2>8 DEF KInv
  <1>3. QED
    BY <1>1, <1>2

\* getchar() is called when interrupts are on.
LEMMA GetCharKInv ==
  ASSUME KeyboardSetup, KInv, NEW t \in Receivers, GetChar(t)
  PROVE  KInv'
  <1>0. Irq \in Threads /\ t \in Threads /\ t # Irq /\ Irq # Nobody
    BY MonitorAssumption DEF KeyboardSetup
  <1>1. /\ Call(t, "recv") /\ Runs(t) /\ KeepsInterruptsOff(t) /\ off = Nobody
        /\ msg' = [msg EXCEPT ![t] = <<>>] /\ irq' = irq
    BY DEF GetChar, CallRecv, Runs
  <1>2. DOMAIN msg' = Threads
    BY <1>1 DEF KInv, ThreadLocals
  <1>3. /\ IInv' /\ OwnerInv' /\ ThreadLocals'
        /\ off' = t /\ at' = [at EXCEPT ![t] = "in"] /\ op' = [op EXCEPT ![t] = "recv"]
    BY <1>0, <1>1, <1>2, CallKInv
  <1>4. at'[Irq] = at[Irq] /\ op'[Irq] = op[Irq]
    BY <1>0, <1>3 DEF KInv, IInv, LockInv, ThreadLocals
  <1>5. irq = "none"
    BY <1>0, <1>1 DEF KInv, HandlerInv
  <1>6. HandlerInv'
    BY <1>0, <1>1, <1>3, <1>4, <1>5, HandlerIdle DEF KInv
  <1>7. QED
    BY <1>3, <1>6 DEF KInv

\* Leaving getchar() or the handler turns interrupts on.
LEMMA ReturnsKInv ==
  ASSUME KeyboardSetup, KInv,
         InterruptReturns \/ \E t \in Receivers : GetCharReturns(t)
  PROVE  KInv'
  <1>0. /\ Irq \in Threads /\ Irq # Nobody
        /\ Irq \notin Receivers /\ Receivers \subseteq Threads
    BY MonitorAssumption DEF KeyboardSetup
  <1>1. UNCHANGED <<status, waiting, cwaiting, at, on, op, stage>> /\ off' = Nobody
    BY DEF InterruptReturns, GetCharReturns, monvars
  <1>2. IInv'
    BY <1>1, NextIInv DEF KInv, monvars
  <1>3. ThreadLocals'
    BY <1>1 DEF InterruptReturns, GetCharReturns, KInv, ThreadLocals
  <1>4. CASE InterruptReturns
    <2>1. Runs(Irq) /\ op[Irq] = "none" /\ irq # "none" /\ irq' = "none"
      BY <1>4 DEF InterruptReturns
    <2>2. off = Irq /\ at[Irq] = "out"
      BY <1>0, <2>1 DEF KInv, HandlerInv, OwnerInv
    <2>3. HandlerInv'
      BY <1>0, <1>1, <2>1, <2>2 DEF HandlerInv
    <2>4. OwnerInv'
      BY <1>0, <1>1, <2>2, MonitorAssumption DEF KInv, OwnerInv
    <2>5. QED
      BY <1>2, <1>3, <2>3, <2>4 DEF KInv
  <1>5. ASSUME NEW t \in Receivers, GetCharReturns(t) PROVE KInv'
    <2>1. Runs(t) /\ op[t] = "none" /\ irq' = irq
      BY <1>5 DEF GetCharReturns
    <2>2. irq = "none"
      BY <1>0, <2>1 DEF KInv, HandlerInv, Runs
    <2>3. HandlerInv'
      BY <1>0, <1>1, <2>1, <2>2, HandlerIdle DEF KInv
    <2>4. OwnerInv'
      BY <1>0, <1>1, <2>1, MonitorAssumption DEF KInv, OwnerInv, Runs
    <2>5. QED
      BY <1>2, <1>3, <2>3, <2>4 DEF KInv
  <1>6. QED
    BY <1>4, <1>5

\* u stays where it is, or is woken.
KeepsPlace(u) == at'[u] = at[u] \/ (at[u] = "waiting" /\ at'[u] = "woken")

\* A step inside mbox_stat(), mbox_send() or mbox_recv() keeps the invariant of
\* lock and conditions, and moves only its own thread, besides waking others.
LEMMA StepMonitor ==
  ASSUME KInv, NEW t \in Threads, Step(t)
  PROVE  /\ IInv' /\ ThreadLocals'
         /\ \A u \in Threads : u # t => op'[u] = op[u] /\ KeepsPlace(u)
         /\ \/ UNCHANGED monvars /\ at[t] = "in" /\ (Stat(t) \/ Send(t) \/ Recv(t))
            \/ /\ at[t] = "in" /\ at'[t] = "unlocked" /\ op' = op
               /\ SendWaits(t) \/ RecvWaits(t)
            \/ /\ at[t] = "in" /\ at'[t] = "in" /\ op' = op
               /\ WakeOthers(t, "send", moreData) \/ WakeOthers(t, "recv", moreSpace)
            \/ at[t] = "unlocked" /\ at'[t] = "waiting" /\ op' = op
            \/ at[t] = "woken" /\ at'[t] = "in" /\ op' = op
            \/ at[t] = "in" /\ at'[t] = "out" /\ Return(t)
  <1> USE DEF KInv
  <1>0. at \in [Threads -> Location] /\ waiting = <<>>
    BY LockIsOpen DEF IInv, LockInv
  <1>1. CASE Stat(t) \/ Send(t) \/ Recv(t)
    <2>1. UNCHANGED monvars /\ at[t] = "in" /\ op' = op
      BY <1>1 DEF Stat, Send, Recv, At
    <2>2. IInv'
      BY <2>1, NextIInv
    <2>3. ThreadLocals'
      BY <1>1, <2>1 DEF Stat, Send, Recv, Goto, ThreadLocals
    <2>4. QED
      BY <1>1, <2>1, <2>2, <2>3 DEF monvars, KeepsPlace
  <1>2. CASE SendWaits(t) \/ RecvWaits(t)
    <2>1. PICK c \in Conds : Wait(t, c)
      BY <1>2, MailboxAssumption DEF SendWaits, RecvWaits
    <2>2. op' = op /\ ThreadLocals'
      BY <1>2 DEF SendWaits, RecvWaits, locals, ThreadLocals
    <2>3. IInv'
      BY <2>1, ReleaseIInv
    <2>4. at[t] = "in" /\ at' = [at EXCEPT ![t] = "unlocked"]
      BY <1>0, <2>1 DEF Wait, HandOff
    <2>5. QED
      BY <1>0, <1>2, <2>2, <2>3, <2>4 DEF KeepsPlace
  <1>3. CASE WakeOthers(t, "send", moreData) \/ WakeOthers(t, "recv", moreSpace)
    <2>1. PICK c \in Conds : WakeAll(c) /\ UNCHANGED <<status, waiting, on>>
      BY <1>3, MailboxAssumption DEF WakeOthers
    <2>2. at[t] = "in" /\ op' = op /\ ThreadLocals'
      BY <1>3 DEF WakeOthers, At, Goto, ThreadLocals
    <2>3. IInv'
      BY <2>1, <2>2, WakeAllIInv
    <2>4. \A u \in Threads : KeepsPlace(u)
      BY <2>1 DEF WakeAll, IInv, CondInv, KeepsPlace
    <2>5. at'[t] = "in"
      BY <2>2, <2>4 DEF KeepsPlace
    <2>6. QED
      BY <1>3, <2>2, <2>3, <2>4, <2>5
  <1>4. CASE WaitGoesOn(t)
    <2>1. op' = op /\ ThreadLocals' /\ (Sleep(t) \/ Reacquire(t))
      BY <1>4 DEF WaitGoesOn, locals, ThreadLocals
    <2>2. IInv'
      BY <2>1, SleepIInv, AcquireIInv
    <2>3. CASE Sleep(t)
      BY <1>0, <2>1, <2>2, <2>3 DEF Sleep, KeepsPlace
    <2>4. CASE Reacquire(t)
      <3>1. at[t] = "woken" /\ Runs(t)
        BY <2>4 DEF Reacquire, Step
      <3>2. status = "UNLOCKED"
        BY <3>1, LockIsOpen, MonitorAssumption DEF OwnerInv, Runs
      <3>3. at' = [at EXCEPT ![t] = "in"]
        BY <2>4, <3>2 DEF Reacquire, LockAcquireHelper
      <3>4. QED
        BY <1>0, <2>1, <2>2, <3>1, <3>3 DEF KeepsPlace
    <2>5. QED
      BY <2>1, <2>3, <2>4
  <1>5. CASE Return(t)
    <2>1. Release(t) /\ op' = [op EXCEPT ![t] = "none"] /\ UNCHANGED <<stage, msg, space>>
      BY <1>5 DEF Return
    <2>2. IInv'
      BY <2>1, ReleaseIInv
    <2>3. at[t] = "in" /\ at' = [at EXCEPT ![t] = "out"]
      BY <1>0, <2>1 DEF Release, HandOff
    <2>4. ThreadLocals' /\ \A u \in Threads : u # t => op'[u] = op[u]
      BY <2>1 DEF ThreadLocals
    <2>5. QED
      BY <1>0, <1>5, <2>2, <2>3, <2>4 DEF KeepsPlace
  <1>6. QED
    BY <1>1, <1>2, <1>3, <1>4, <1>5 DEF Step

\* Such a step keeps the invariant.  The handler does not wait for space, since
\* there is as much as mbox_stat() found.
LEMMA StepKInv ==
  ASSUME KeyboardSetup, KInv, NEW t \in Threads, Step(t)
  PROVE  KInv'
  <1>0. Irq \in Threads /\ Irq # Nobody /\ Nobody \notin Threads
    BY MonitorAssumption DEF KeyboardSetup
  <1>1. Runs(t) /\ KeepsInterruptsOff(t) /\ UNCHANGED <<irq, character>>
    BY DEF Step
  <1>2. IInv' /\ ThreadLocals'
    BY StepMonitor
  <1>3. \A u \in Threads : u # t => op'[u] = op[u] /\ KeepsPlace(u)
    BY StepMonitor
  <1>4. /\ at[t] # "out"
        /\ at'[t] \in {"in", "unlocked", "waiting", "out"}
        /\ IF at'[t] = "out" THEN op'[t] = "none" ELSE op'[t] = op[t]
    <2>1. Return(t) => op' = [op EXCEPT ![t] = "none"]
      BY DEF Return
    <2>2. Stat(t) \/ Send(t) \/ Recv(t) => op' = op
      BY DEF Stat, Send, Recv
    <2>3. QED
      BY <2>1, <2>2, StepMonitor DEF KInv, ThreadLocals, monvars
  <1>5. OwnerInv'
    BY <1>0, <1>1, <1>3, <1>4 DEF KInv, OwnerInv, Runs, KeepsInterruptsOff, KeepsPlace
  <1>6. HandlerInv'
    <2>1. CASE t # Irq
      <3>1. irq = "none" /\ off' # Irq
        BY <1>0, <1>1, <2>1 DEF KInv, HandlerInv, Runs, KeepsInterruptsOff
      <3>2. at[Irq] = "out"
        BY <3>1 DEF KInv, HandlerInv
      <3>3. at'[Irq] = at[Irq] /\ op'[Irq] = op[Irq]
        BY <1>0, <1>3, <2>1, <3>2 DEF KeepsPlace
      <3>4. QED
        BY <1>1, <3>1, <3>3, HandlerIdle DEF KInv
    <2>2. CASE t = Irq
      <3>1. /\ at[Irq] = "in" /\ irq \in {"stat", "send"} /\ off = Irq
            /\ op[Irq] = irq
        BY <1>0, <1>4, <2>2 DEF KInv, HandlerInv, OwnerInv
      <3>2. CASE Stat(t)
        <4>1. /\ op[Irq] = "stat" /\ space' = [space EXCEPT ![Irq] = SpaceAvailable]
              /\ stage' = [stage EXCEPT ![Irq] = "rel"] /\ op' = op /\ UNCHANGED fields
              /\ at' = at
          BY <2>2, <3>2 DEF Stat, At, Goto, monvars
        <4>2. SpaceAvailable' = SpaceAvailable
          BY <4>1 DEF SpaceAvailable, fields
        <4>3. space'[Irq] = SpaceAvailable /\ stage'[Irq] = "rel"
          BY <1>0, <4>1 DEF KInv, ThreadLocals
        <4>4. off' = Irq
          BY <1>1, <2>2, <3>1, <4>1 DEF KeepsInterruptsOff
        <4>5. QED
          BY <1>1, <3>1, <4>1, <4>2, <4>3, <4>4 DEF HandlerInv
      <3>3. CASE Send(t) \/ WakeOthers(t, "send", moreData)
        <4>1. /\ op[Irq] = "send" /\ op' = op
              /\ \E s \in {"wake", "rel"} : stage' = [stage EXCEPT ![Irq] = s]
          BY <2>2, <3>3 DEF Send, WakeOthers, At, Goto
        <4>2. stage'[Irq] \in {"wake", "rel"}
          BY <1>0, <4>1 DEF KInv, ThreadLocals
        <4>3. at'[Irq] = "in"
          <5>1. Send(t) => at' = at
            BY DEF Send, monvars
          <5>2. WakeOthers(t, "send", moreData) => WakeAll(moreData)
            BY DEF WakeOthers
          <5>3. Irq \notin ToSet(cwaiting[moreData])
            BY <3>1, MailboxAssumption DEF KInv, IInv, CondInv
          <5>4. QED
            BY <1>0, <3>1, <3>3, <5>1, <5>2, <5>3 DEF WakeAll
        <4>4. off' = Irq
          BY <1>1, <2>2, <4>3 DEF KeepsInterruptsOff
        <4>5. QED
          BY <1>1, <3>1, <4>1, <4>2, <4>3, <4>4 DEF HandlerInv
      <3>4. CASE Return(t)
        <4>1. stage[Irq] = "rel" /\ UNCHANGED <<fields, stage, msg, space>>
          BY <2>2, <3>4 DEF Return
        <4>2. at'[Irq] = "out" /\ op'[Irq] = "none"
          BY <1>4, <2>2, <3>4 DEF Return, KInv, ThreadLocals
        <4>3. SpaceAvailable' = SpaceAvailable
          BY <4>1 DEF SpaceAvailable, fields
        <4>4. off' = Irq
          BY <1>1, <2>2, <4>2 DEF KeepsInterruptsOff
        <4>5. irq = "stat" => space[Irq] = SpaceAvailable
          BY <4>1 DEF KInv, HandlerInv
        <4>6. irq = "stat" => space'[Irq] = SpaceAvailable' /\ stage'[Irq] = "rel"
          BY <4>1, <4>3, <4>5
        <4>7. QED
          BY <1>1, <3>1, <4>2, <4>4, <4>6 DEF HandlerInv
      <3>5. ~SendWaits(t)
        <4>1. SUFFICES ASSUME SendWaits(t) PROVE FALSE
          OBVIOUS
        <4>2. /\ op[Irq] = "send" /\ stage[Irq] = "body"
              /\ ~ (Size(msg[Irq]) <= SpaceAvailable)
          BY <2>2, <4>1 DEF SendWaits, At, Fits
        <4>3. msg[Irq] = <<character>> /\ MSG_CHAR_SIZE <= SpaceAvailable
          BY <3>1, <4>2 DEF KInv, HandlerInv
        <4>4. Size(<<character>>) = MSG_CHAR_SIZE
          BY DEF Size, MSG_CHAR_SIZE
        <4>5. QED
          BY <4>2, <4>3, <4>4
      <3>6. ~RecvWaits(t) /\ ~Recv(t) /\ ~WakeOthers(t, "recv", moreSpace) /\ ~WaitGoesOn(t)
        BY <2>2, <3>1 DEF RecvWaits, Recv, WakeOthers, At, WaitGoesOn, Sleep, Reacquire
      <3>7. QED
        BY <3>2, <3>3, <3>4, <3>5, <3>6 DEF Step
    <2>3. QED
      BY <2>1, <2>2
  <1>7. QED
    BY <1>2, <1>5, <1>6 DEF KInv

\* Every step keeps the invariant.
LEMMA NextKInv == KeyboardSetup /\ KInv /\ [KNext]_kvars => KInv'
  <1> SUFFICES ASSUME KeyboardSetup, KInv, [KNext]_kvars PROVE KInv'
    OBVIOUS
  <1>0. Receivers \subseteq Threads /\ Irq \in Threads
    BY DEF KeyboardSetup
  <1>1. CASE \/ \E key \in Keys, release \in BOOLEAN : Key(key, release)
             \/ ShiftInterrupt \/ UNCHANGED kvars
    <2>1. UNCHANGED <<mboxvars, irq, character, off>>
      BY <1>1 DEF Key, ShiftInterrupt, kvars, keyvars
    <2>2. UNCHANGED <<monvars, status, waiting, cwaiting, at, on, op, stage, msg, space,
                      head, tail, count>>
      BY <2>1 DEF mboxvars, fields, locals, monvars
    <2>3. IInv'
      BY <2>2, NextIInv DEF KInv
    <2>4. HandlerInv'
      BY <2>1, <2>2 DEF KInv, HandlerInv, SpaceAvailable
    <2>5. OwnerInv' /\ ThreadLocals'
      BY <2>1, <2>2 DEF KInv, OwnerInv, ThreadLocals
    <2>6. QED
      BY <2>3, <2>4, <2>5 DEF KInv
  <1>2. CASE CharInterrupt \/ PutChar
    BY <1>2, HandlerCallsKInv
  <1>3. CASE InterruptReturns \/ \E t \in Receivers : GetCharReturns(t)
    BY <1>3, ReturnsKInv
  <1>4. CASE \E t \in Threads : Step(t)
    BY <1>4, StepKInv
  <1>5. CASE \E t \in Receivers : GetChar(t)
    BY <1>5, GetCharKInv
  <1>6. QED
    BY <1>0, <1>1, <1>2, <1>3, <1>4, <1>5 DEF KNext, HandlerProceeds, Proceeds

\* For any processes, keys and buffer, the interrupt handler never waits: not for
\* the lock of the mailbox, since getchar() has it only with interrupts off, and
\* not for space, since nothing comes between mbox_stat() and mbox_send().
THEOREM HandlerNeverWaits == KeyboardSetup => (KSpec => []InterruptNeverBlocks)
  <1> SUFFICES ASSUME KeyboardSetup PROVE KSpec => []InterruptNeverBlocks
    OBVIOUS
  <1>1. KInit => KInv
    BY InitKInv
  <1>2. KInv /\ [KNext]_kvars => KInv'
    BY NextKInv
  <1>3. KInv => InterruptNeverBlocks
    BY DEF KInv, HandlerInv, InterruptNeverBlocks
  <1>4. QED
    BY <1>1, <1>2, <1>3, PTL DEF KSpec

-----------------------------------------------------------------------------
(***************************************************************************)
(* The shift state.  The scan codes that have not been read yet decide: a  *)
(* bit will be set if the last of its codes is that of a key pressed, and  *)
(* stays as it is if there is none.                                        *)
(***************************************************************************)
NoCode(bit) == \A i \in 1..Len(codes) : Handler(codes[i].key) # bit

LastIsPress(bit) ==
  \E i \in 1..Len(codes) :
    /\ Handler(codes[i].key) = bit /\ ~codes[i].release
    /\ \A j \in 1..Len(codes) : j > i => Handler(codes[j].key) # bit

WillBeSet(bit) == LastIsPress(bit) \/ (NoCode(bit) /\ bit \in shift_status)

KeysOf(bit) == {key \in Keys : Handler(key) = bit}

ShiftInv ==
  /\ codes \in Seq([key : Keys, release : BOOLEAN])
  /\ \A bit \in ShiftBits :
       /\ WillBeSet(bit) => KeysOf(bit) \cap held # {}
       /\ KeysOf(bit) # {} /\ KeysOf(bit) \subseteq held => WillBeSet(bit)

\* A key that is pressed or released decides about its own bit.
LEMMA KeyDecides ==
  ASSUME ShiftInv, NEW key \in Keys, NEW release \in BOOLEAN, Key(key, release)
  PROVE  ShiftInv'
  <1> DEFINE c == [key |-> key, release |-> release]
             n == Len(codes)
  <1>1. /\ codes' = Append(codes, c) /\ UNCHANGED shift_status
        /\ held' = IF Handler(key) \notin ShiftBits THEN held
                   ELSE IF release THEN held \ {key} ELSE held \cup {key}
    BY DEF Key
  <1>2. /\ codes \in Seq([key : Keys, release : BOOLEAN])
        /\ codes' \in Seq([key : Keys, release : BOOLEAN])
        /\ n \in Nat /\ Len(codes') = n + 1 /\ codes'[n + 1] = c
        /\ \A i \in 1..n : codes'[i] = codes[i]
    BY <1>1 DEF ShiftInv
  <1>3. c.key = key /\ c.release = release
    OBVIOUS
  <1> HIDE DEF c, n
  <1>4. ASSUME NEW bit \in ShiftBits, Handler(key) # bit
        PROVE  WillBeSet(bit)' <=> WillBeSet(bit)
    <2>1. NoCode(bit)' <=> NoCode(bit)
      BY <1>2, <1>3, <1>4 DEF NoCode, n
    <2>2. LastIsPress(bit)' => LastIsPress(bit)
      <3>1. SUFFICES ASSUME NEW i \in 1..(n + 1),
                            Handler(codes'[i].key) = bit, ~codes'[i].release,
                            \A j \in 1..(n + 1) : j > i => Handler(codes'[j].key) # bit
                     PROVE  LastIsPress(bit)
        BY <1>2 DEF LastIsPress
      <3>2. i \in 1..n
        BY <1>2, <1>3, <1>4, <3>1
      <3>3. \A j \in 1..n : j > i => Handler(codes[j].key) # bit
        BY <1>2, <3>1
      <3>4. QED
        BY <1>2, <3>1, <3>2, <3>3 DEF LastIsPress, n
    <2>3. LastIsPress(bit) => LastIsPress(bit)'
      <3>1. SUFFICES ASSUME NEW i \in 1..n,
                            Handler(codes[i].key) = bit, ~codes[i].release,
                            \A j \in 1..n : j > i => Handler(codes[j].key) # bit
                     PROVE  LastIsPress(bit)'
        BY DEF LastIsPress, n
      <3>2. ASSUME NEW j \in 1..(n + 1), j > i PROVE Handler(codes'[j].key) # bit
        <4>1. CASE j = n + 1
          BY <1>2, <1>3, <1>4, <4>1
        <4>2. CASE j # n + 1
          <5>1. j \in 1..n
            BY <1>2, <4>2
          <5>2. QED
            BY <1>2, <3>1, <3>2, <5>1
        <4>3. QED
          BY <4>1, <4>2
      <3>3. i \in 1..(n + 1) /\ codes'[i] = codes[i]
        BY <1>2
      <3>4. QED
        BY <1>2, <3>1, <3>2, <3>3 DEF LastIsPress
    <2>4. QED
      BY <1>1, <2>1, <2>2, <2>3 DEF WillBeSet
  <1>5. WillBeSet(Handler(key))' <=> ~release
    <2>1. ~NoCode(Handler(key))'
      BY <1>2, <1>3 DEF NoCode, n
    <2>2. LastIsPress(Handler(key))' <=> ~release
      BY <1>2, <1>3 DEF LastIsPress, n
    <2>3. QED
      BY <2>1, <2>2 DEF WillBeSet
  <1>6. ASSUME NEW bit \in ShiftBits
        PROVE  /\ WillBeSet(bit)' => KeysOf(bit) \cap held' # {}
               /\ KeysOf(bit) # {} /\ KeysOf(bit) \subseteq held' => WillBeSet(bit)'
    <2>1. CASE Handler(key) = bit
      BY <1>1, <1>5, <2>1 DEF KeysOf
    <2>2. CASE Handler(key) # bit
      <3>1. KeysOf(bit) \cap held' = KeysOf(bit) \cap held
        BY <1>1, <2>2 DEF KeysOf
      <3>2. QED
        BY <1>4, <2>2, <3>1 DEF ShiftInv
    <2>3. QED
      BY <2>1, <2>2
  <1>7. QED
    BY <1>2, <1>6 DEF ShiftInv, KeysOf

\* Reading a scan code does not change what the bits will be.
LEMMA ReadingKeepsShift ==
  ASSUME ShiftInv, ShiftInterrupt \/ CharInterrupt
  PROVE  ShiftInv'
  <1> DEFINE c == Head(codes)
             n == Len(codes)
  <1>1. /\ codes # <<>> /\ codes' = Tail(codes) /\ held' = held
        /\ \A bit \in ShiftBits :
             bit \in shift_status' <=> IF Handler(c.key) = bit THEN ~c.release
                                       ELSE bit \in shift_status
    BY DEF ShiftInterrupt, CharInterrupt, SetShiftBit, ToggleCaps, SymDiff, ShiftBits
  <1>2. /\ codes \in Seq([key : Keys, release : BOOLEAN])
        /\ codes' \in Seq([key : Keys, release : BOOLEAN])
        /\ n \in Nat \ {0} /\ Len(codes') = n - 1 /\ codes[1] = c
        /\ \A i \in 1..(n - 1) : codes'[i] = codes[i + 1]
    BY <1>1 DEF ShiftInv
  <1> HIDE DEF c, n
  <1>3. ASSUME NEW bit \in ShiftBits
        PROVE  WillBeSet(bit)' <=> WillBeSet(bit)
    <2>1. \A i \in 1..(n - 1) : i + 1 \in 1..n /\ codes'[i] = codes[i + 1]
      BY <1>2
    <2>2. \A i \in 1..n : i = 1 \/ (i - 1 \in 1..(n - 1) /\ codes'[i - 1] = codes[i])
      BY <1>2
    <2>3. NoCode(bit) <=> NoCode(bit)' /\ Handler(c.key) # bit
      <3>1. ASSUME NoCode(bit) PROVE NoCode(bit)' /\ Handler(c.key) # bit
        <4>1. \A i \in 1..n : Handler(codes[i].key) # bit
          BY <3>1 DEF NoCode, n
        <4>2. \A i \in 1..(n - 1) : Handler(codes'[i].key) # bit
          BY <2>1, <4>1
        <4>3. Handler(c.key) # bit
          BY <1>2, <4>1
        <4>4. QED
          BY <1>2, <4>2, <4>3 DEF NoCode
      <3>2. NoCode(bit)' /\ Handler(c.key) # bit => NoCode(bit)
        BY <1>2, <2>2 DEF NoCode, n
      <3>3. QED
        BY <3>1, <3>2
    <2>4. LastIsPress(bit) <=>
            LastIsPress(bit)' \/ (NoCode(bit)' /\ Handler(c.key) = bit /\ ~c.release)
      <3>1. ASSUME NEW i \in 1..n, Handler(codes[i].key) = bit, ~codes[i].release,
                   \A j \in 1..n : j > i => Handler(codes[j].key) # bit
            PROVE  LastIsPress(bit)' \/ (NoCode(bit)' /\ Handler(c.key) = bit /\ ~c.release)
        <4>1. CASE i = 1
          <5>1. ASSUME NEW k \in 1..(n - 1) PROVE Handler(codes'[k].key) # bit
            <6>1. k + 1 \in 1..n /\ k + 1 > i
              BY <1>2, <4>1
            <6>2. QED
              BY <2>1, <3>1, <6>1
          <5>2. QED
            BY <1>2, <3>1, <4>1, <5>1 DEF NoCode
        <4>2. CASE i # 1
          <5>1. i - 1 \in 1..(n - 1) /\ codes'[i - 1] = codes[i]
            BY <2>2, <4>2
          <5>2. ASSUME NEW k \in 1..(n - 1), k > i - 1 PROVE Handler(codes'[k].key) # bit
            <6>1. k + 1 \in 1..n /\ k + 1 > i
              BY <1>2, <5>2
            <6>2. QED
              BY <2>1, <3>1, <6>1
          <5>3. QED
            BY <1>2, <3>1, <5>1, <5>2 DEF LastIsPress
        <4>3. QED
          BY <4>1, <4>2
      <3>2. ASSUME NEW i \in 1..(n - 1), Handler(codes'[i].key) = bit, ~codes'[i].release,
                   \A j \in 1..(n - 1) : j > i => Handler(codes'[j].key) # bit
            PROVE  LastIsPress(bit)
        <4>1. i + 1 \in 1..n /\ codes[i + 1] = codes'[i]
          BY <2>1
        <4>2. ASSUME NEW k \in 1..n, k > i + 1 PROVE Handler(codes[k].key) # bit
          <5>1. k - 1 \in 1..(n - 1) /\ codes'[k - 1] = codes[k] /\ k - 1 > i
            BY <1>2, <2>2, <4>2
          <5>2. QED
            BY <3>2, <5>1
        <4>3. QED
          BY <3>2, <4>1, <4>2 DEF LastIsPress, n
      <3>3. ASSUME NoCode(bit)', Handler(c.key) = bit, ~c.release
            PROVE  LastIsPress(bit)
        <4>1. ASSUME NEW k \in 1..n, k > 1 PROVE Handler(codes[k].key) # bit
          BY <1>2, <2>2, <3>3, <4>1 DEF NoCode
        <4>2. QED
          BY <1>2, <3>3, <4>1 DEF LastIsPress, n
      <3>4. QED
        BY <1>2, <3>1, <3>2, <3>3 DEF LastIsPress, n
    <2>5. LastIsPress(bit)' => ~NoCode(bit)'
      BY DEF LastIsPress, NoCode
    <2>6. bit \in shift_status' <=> IF Handler(c.key) = bit THEN ~c.release
                                    ELSE bit \in shift_status
      BY <1>1
    <2>7. QED
      BY <2>3, <2>4, <2>5, <2>6 DEF WillBeSet
  <1>4. QED
    BY <1>1, <1>2, <1>3 DEF ShiftInv, KeysOf

\* For any keys and any number of scan codes in the controller, no bit of
\* shift_status is stuck and none is missed once all scan codes have been read.
THEOREM ShiftIsExact == KSpec => []ShiftFollowsKeys
  <1>1. KInit => ShiftInv
    <2> SUFFICES ASSUME KInit PROVE ShiftInv
      OBVIOUS
    <2>1. codes = <<>> /\ shift_status = {} /\ held = {}
      BY DEF KInit
    <2>2. Len(codes) = 0 /\ codes \in Seq([key : Keys, release : BOOLEAN])
      BY <2>1
    <2>3. \A bit : ~WillBeSet(bit)
      BY <2>1, <2>2 DEF WillBeSet, LastIsPress
    <2>4. QED
      BY <2>1, <2>2, <2>3 DEF ShiftInv
  <1>2. ShiftInv /\ [KNext]_kvars => ShiftInv'
    <2> SUFFICES ASSUME ShiftInv, [KNext]_kvars PROVE ShiftInv'
      OBVIOUS
    <2>1. CASE \E key \in Keys, release \in BOOLEAN : Key(key, release)
      BY <2>1, KeyDecides
    <2>2. CASE ShiftInterrupt \/ CharInterrupt
      BY <2>2, ReadingKeepsShift
    <2>3. CASE UNCHANGED <<held, codes, shift_status>>
      <3>1. \A bit : WillBeSet(bit)' <=> WillBeSet(bit)
        BY <2>3 DEF WillBeSet, LastIsPress, NoCode
      <3>2. QED
        BY <2>3, <3>1 DEF ShiftInv, KeysOf
    <2>4. QED
      BY <2>1, <2>2, <2>3 DEF KNext, HandlerProceeds, Proceeds, Step, PutChar,
           InterruptReturns, GetChar, GetCharReturns, kvars, keyvars
  <1>3. ShiftInv => ShiftFollowsKeys
    <2> SUFFICES ASSUME ShiftInv, codes = <<>>, NEW bit \in ShiftBits
                 PROVE  /\ bit \in shift_status => KeysOf(bit) \cap held # {}
                        /\ KeysOf(bit) # {} /\ KeysOf(bit) \subseteq held
                             => bit \in shift_status
      BY DEF ShiftFollowsKeys, KeysOf
    <2>1. Len(codes) = 0
      OBVIOUS
    <2>2. WillBeSet(bit) <=> bit \in shift_status
      BY <2>1 DEF WillBeSet, LastIsPress, NoCode
    <2>3. QED
      BY <2>2 DEF ShiftInv
  <1>4. QED
    BY <1>1, <1>2, <1>3, PTL DEF KSpec
=============================================================================
