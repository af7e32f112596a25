------------------------- MODULE CountingQueueProofs -------------------------
(***************************************************************************)
(* The semaphore and the barrier of thread.c, for any number of threads.   *)
(*                                                                         *)
(* The semaphore never gives away more units than there are.               *)
(* semaphore_down() decides by the sign of the counter alone, so the bound *)
(* rests on Accounting: what the counter says about the threads with a     *)
(* unit and those queued for one.                                          *)
(*                                                                         *)
(* Nobody passes the barrier before all have arrived.  The barrier does    *)
(* not know rounds: it counts calls, and threads of the next round may be  *)
(* queued while those of the last have yet to return.  RoundInv says that  *)
(* never more than two rounds overlap: there is a round r that every       *)
(* thread has reached, and exactly the blocked threads have begun the      *)
(* next.                                                                   *)
(***************************************************************************)
EXTENDS Semaphore, Barrier, QueueLemmas, FiniteSetTheorems

-----------------------------------------------------------------------------
(* The semaphore *)

SemIInv == SemTypeOK /\ Accounting /\ UnitsBound

-----------------------------------------------------------------------------
\* The threads with a unit can be counted.
LEMMA InsideFinite == IsFiniteSet(Inside) /\ Cardinality(Inside) \in Nat
  BY SemaphoreAssumption, FS_Subset, FS_CardinalityType DEF Inside

\* semaphore_init() establishes the invariant.
LEMMA SemInitIInv == SemInit => SemIInv
  <1> SUFFICES ASSUME SemInit PROVE SemIInv
    OBVIOUS
  <1>1. Inside = {} /\ {t \in Threads : at[t] = "blocked"} = {}
    BY DEF SemInit, Inside
  <1>2. Cardinality(Inside) = 0
    BY <1>1, FS_EmptySet
  <1>3. SemTypeOK
    BY SemaphoreAssumption DEF SemInit, SemTypeOK
  <1>4. Accounting
    BY <1>1, <1>2, EmptyQueue, SemaphoreAssumption DEF SemInit, Accounting
  <1>5. UnitsBound
    BY <1>2, SemaphoreAssumption DEF UnitsBound
  <1>6. QED
    BY <1>3, <1>4, <1>5 DEF SemIInv

\* semaphore_down() keeps the invariant: a thread passes only while a unit is
\* left, and is queued otherwise.
LEMMA DownIInv ==
  ASSUME SemIInv, NEW t \in Threads, Down(t)
  PROVE  SemIInv'
  <1> USE DEF SemIInv, SemTypeOK
  <1>1. /\ at[t] = "out" /\ counter' = counter - 1
        /\ t \notin Inside /\ t \notin ToSet(waiting)
    BY DEF Down, Inside, Accounting
  <1>2. /\ IsFiniteSet(Inside) /\ Cardinality(Inside) \in Nat
        /\ Len(waiting) \in Nat /\ Value \in Nat
        /\ counter = Value - Cardinality(Inside) - Len(waiting)
    BY InsideFinite, SemaphoreAssumption DEF Accounting
  <1>3. CASE counter' >= 0
    <2>1. at' = [at EXCEPT ![t] = "in"] /\ waiting' = waiting
      BY <1>1, <1>3 DEF Down
    <2>2. Inside' = Inside \cup {t}
      BY <2>1 DEF Inside
    <2>3. Cardinality(Inside') = Cardinality(Inside) + 1
      BY <1>1, <1>2, <2>2, FS_AddElement
    <2>4. {u \in Threads : at'[u] = "blocked"} = {u \in Threads : at[u] = "blocked"}
      BY <1>1, <2>1
    <2>5. Accounting'
      BY <1>1, <1>2, <2>1, <2>3, <2>4 DEF Accounting
    <2>6. UnitsBound'
      BY <1>1, <1>2, <1>3, <2>3 DEF UnitsBound
    <2>7. QED
      BY <1>1, <2>1, <2>5, <2>6
  <1>4. CASE ~(counter' >= 0)
    <2>1. at' = [at EXCEPT ![t] = "blocked"] /\ waiting' = Append(waiting, t)
      BY <1>1, <1>4 DEF Down
    <2>2. Inside' = Inside
      BY <1>1, <2>1 DEF Inside
    <2>3. /\ waiting' \in Seq(Threads) /\ IsInjective(waiting')
          /\ ToSet(waiting') = ToSet(waiting) \cup {t}
          /\ Len(waiting') = Len(waiting) + 1
      BY <1>1, <2>1, Joins, AppendProperties DEF Accounting
    <2>4. {u \in Threads : at'[u] = "blocked"}
            = {u \in Threads : at[u] = "blocked"} \cup {t}
      BY <2>1
    <2>5. Accounting'
      BY <1>1, <1>2, <2>2, <2>3, <2>4 DEF Accounting
    <2>6. UnitsBound'
      BY <2>2 DEF UnitsBound
    <2>7. QED
      BY <1>1, <2>1, <2>3, <2>5, <2>6
  <1>5. QED
    BY <1>3, <1>4

\* semaphore_up() keeps the invariant: the unit goes to the first waiter, or
\* back to the semaphore.
LEMMA UpIInv ==
  ASSUME SemIInv, NEW t \in Threads, Up(t)
  PROVE  SemIInv'
  <1> USE DEF SemIInv, SemTypeOK
  <1>1. at[t] = "in" /\ counter' = counter + 1 /\ t \in Inside
    BY DEF Up, Inside
  <1>2. /\ IsFiniteSet(Inside) /\ Cardinality(Inside) \in Nat
        /\ Len(waiting) \in Nat /\ Value \in Nat
        /\ counter = Value - Cardinality(Inside) - Len(waiting)
    BY InsideFinite, SemaphoreAssumption DEF Accounting
  <1>3. /\ IsFiniteSet(Inside \ {t})
        /\ Cardinality(Inside \ {t}) = Cardinality(Inside) - 1
    BY <1>1, <1>2, FS_RemoveElement
  <1>4. CASE counter' >= 0 /\ waiting # <<>>
    <2> DEFINE h == Head(waiting)
    <2>1. at' = [at EXCEPT ![t] = "out", ![h] = "in"] /\ waiting' = Tail(waiting)
      BY <1>4 DEF Up
    <2>2. /\ h \in Threads /\ h \in ToSet(waiting)
          /\ waiting' \in Seq(Threads) /\ IsInjective(waiting')
          /\ ToSet(waiting') = ToSet(waiting) \ {h}
          /\ Len(waiting') = Len(waiting) - 1
      BY <1>4, <2>1, LeavesFirst DEF Accounting
    <2> HIDE DEF h
    <2>3. at[h] = "blocked" /\ h # t /\ h \notin Inside \ {t}
      BY <1>1, <2>2 DEF Accounting, Inside
    <2>4. Inside' = (Inside \ {t}) \cup {h}
      BY <1>1, <2>1, <2>2, <2>3 DEF Inside
    <2>5. Cardinality(Inside') = Cardinality(Inside)
      <3>1. Cardinality((Inside \ {t}) \cup {h}) = Cardinality(Inside \ {t}) + 1
        BY <1>3, <2>3, FS_AddElement
      <3>2. QED
        BY <1>2, <1>3, <2>4, <3>1
    <2>6. {u \in Threads : at'[u] = "blocked"}
            = {u \in Threads : at[u] = "blocked"} \ {h}
      BY <1>1, <2>1, <2>2, <2>3
    <2>7. Accounting'
      BY <1>1, <1>2, <2>2, <2>5, <2>6 DEF Accounting
    <2>8. UnitsBound'
      BY <2>5 DEF UnitsBound
    <2>9. QED
      BY <1>1, <2>1, <2>2, <2>7, <2>8
  <1>5. CASE ~(counter' >= 0 /\ waiting # <<>>)
    <2>1. at' = [at EXCEPT ![t] = "out"] /\ waiting' = waiting
      BY <1>5 DEF Up
    <2>2. Inside' = Inside \ {t}
      BY <1>1, <2>1 DEF Inside
    <2>3. {u \in Threads : at'[u] = "blocked"} = {u \in Threads : at[u] = "blocked"}
      BY <1>1, <2>1
    <2>4. Accounting'
      BY <1>1, <1>2, <1>3, <2>1, <2>2, <2>3 DEF Accounting
    <2>5. UnitsBound'
      BY <1>2, <1>3, <2>2 DEF UnitsBound
    <2>6. QED
      BY <1>1, <2>1, <2>4, <2>5
  <1>6. QED
    BY <1>4, <1>5

\* The invariant holds in every reachable state.
LEMMA SemInvariance == SemSpec => []SemIInv
  <1>1. SemIInv /\ [SemNext]_semvars => SemIInv'
    <2> SUFFICES ASSUME SemIInv, [SemNext]_semvars PROVE SemIInv'
      OBVIOUS
    <2>1. CASE SemNext
      BY <2>1, DownIInv, UpIInv DEF SemNext
    <2>2. CASE UNCHANGED semvars
      BY <2>2 DEF semvars, SemIInv, SemTypeOK, Accounting, UnitsBound, Inside
    <2>3. QED
      BY <2>1, <2>2
  <1>2. QED
    BY SemInitIInv, <1>1, PTL DEF SemSpec

\* For any number of threads and units, semaphore_down() never lets more threads
\* pass than the semaphore has units, whatever ups and downs came before.
THEOREM NoUnitGivenTwice == SemSpec => []UnitsBound
  <1>1. SemIInv => UnitsBound
    BY DEF SemIInv
  <1>2. QED
    BY <1>1, SemInvariance, PTL

\* For any number of threads and units, the counter is the number of units minus
\* the threads that have one or are queued, and no waiter is dropped.
THEOREM CounterAccounts == SemSpec => []Accounting
  <1>1. SemIInv => Accounting
    BY DEF SemIInv
  <1>2. QED
    BY <1>1, SemInvariance, PTL

-----------------------------------------------------------------------------
(* The barrier *)

Blocked == {t \in Threads : at[t] = "blocked"}

\* A thread has returned from every call but the one it is in.
CallsInv ==
  \A t \in Threads : arrived[t] = IF at[t] = "out" THEN passed[t] ELSE passed[t] + 1

InRound(r) ==
  \A t \in Threads : arrived[t] = IF at[t] = "blocked" THEN r + 1 ELSE r

RoundInv == Cardinality(Threads) = reach => \E r \in Nat : InRound(r)

BarIInv == BarTypeOK /\ CountMatches /\ CallsInv /\ RoundInv

-----------------------------------------------------------------------------
\* barrier_init() establishes the invariant.
LEMMA BarInitIInv == BarInit => BarIInv
  <1> SUFFICES ASSUME BarInit PROVE BarIInv
    OBVIOUS
  <1>1. BarTypeOK
    BY BarrierAssumption DEF BarInit, BarTypeOK
  <1>2. CountMatches
    BY BarrierAssumption, EmptyQueue DEF BarInit, CountMatches
  <1>3. CallsInv /\ InRound(0)
    BY DEF BarInit, CallsInv, InRound
  <1>4. QED
    BY <1>1, <1>2, <1>3 DEF BarIInv, RoundInv

\* As many threads as the barrier waits for, and all but one are counted: the
\* others are all blocked.
LEMMA OthersBlocked ==
  ASSUME BarIInv, NEW t \in Threads, at[t] = "out",
         counter + 1 = reach, Cardinality(Threads) = reach
  PROVE  \A u \in Threads : u # t => at[u] = "blocked"
  <1> USE DEF BarIInv, BarTypeOK
  <1>1. IsFiniteSet(Blocked) /\ Cardinality(Blocked) = counter
    BY LengthCounts DEF CountMatches, Blocked
  <1>2. t \notin Blocked /\ Blocked \cup {t} \in SUBSET Threads
    BY DEF Blocked
  <1>3. Cardinality(Blocked \cup {t}) = reach
    BY <1>1, <1>2, FS_AddElement
  <1>4. Blocked \cup {t} = Threads
    BY <1>2, <1>3, BarrierAssumption, FS_Subset
  <1>5. QED
    BY <1>4 DEF Blocked

\* The last call of a round keeps the invariant: everybody is in the next.
LEMMA LastArrivesIInv ==
  ASSUME BarIInv, NEW t \in Threads, BarrierWait(t), LastArrives(t)
  PROVE  BarIInv'
  <1> USE DEF BarIInv, BarTypeOK
  <1>1. /\ at[t] = "out" /\ arrived[t] < MaxRounds /\ counter + 1 = reach
        /\ arrived' = [arrived EXCEPT ![t] = arrived[t] + 1]
        /\ at' = [u \in Threads |-> IF u \in ToSet(waiting) THEN "woken" ELSE at[u]]
        /\ waiting' = <<>> /\ counter' = 0
        /\ passed' = [passed EXCEPT ![t] = passed[t] + 1]
    BY DEF BarrierWait, LastArrives
  <1>2. \A u \in Threads : at'[u] = IF at[u] = "blocked" THEN "woken" ELSE at[u]
    BY <1>1 DEF CountMatches
  <1>3. arrived[t] = passed[t]
    BY <1>1 DEF CallsInv
  <1>4. BarTypeOK'
    <2>1. arrived' \in [Threads -> 0..MaxRounds]
      BY <1>1, BarrierAssumption
    <2>2. passed' \in [Threads -> 0..MaxRounds]
      BY <1>1, <1>3, BarrierAssumption
    <2>3. at' \in [Threads -> {"out", "blocked", "woken"}]
      BY <1>1
    <2>4. QED
      BY <1>1, <2>1, <2>2, <2>3
  <1>5. CountMatches'
    BY <1>1, <1>2, EmptyQueue, BarrierAssumption DEF CountMatches
  <1>6. CallsInv'
    BY <1>1, <1>2, <1>3 DEF CallsInv
  <1>7. RoundInv'
    <2> SUFFICES ASSUME Cardinality(Threads) = reach
                 PROVE  \E r \in Nat : InRound(r)'
      BY DEF RoundInv
    <2>1. PICK r \in Nat : InRound(r)
      BY DEF RoundInv
    <2>2. \A u \in Threads : u # t => at[u] = "blocked"
      BY <1>1, OthersBlocked
    <2>3. InRound(r + 1)'
      BY <1>1, <1>2, <2>1, <2>2 DEF InRound
    <2>4. QED
      BY <2>3
  <1>8. QED
    BY <1>4, <1>5, <1>6, <1>7

\* Any other call keeps the invariant: its thread is blocked in the next round.
LEMMA ArrivesIInv ==
  ASSUME BarIInv, NEW t \in Threads, BarrierWait(t), Arrives(t)
  PROVE  BarIInv'
  <1> USE DEF BarIInv, BarTypeOK
  <1>1. /\ at[t] = "out" /\ arrived[t] < MaxRounds /\ counter + 1 # reach
        /\ arrived' = [arrived EXCEPT ![t] = arrived[t] + 1]
        /\ at' = [at EXCEPT ![t] = "blocked"]
        /\ waiting' = Append(waiting, t) /\ counter' = counter + 1
        /\ passed' = passed
    BY DEF BarrierWait, Arrives
  <1>2. t \notin ToSet(waiting)
    BY <1>1 DEF CountMatches
  <1>3. /\ waiting' \in Seq(Threads) /\ IsInjective(waiting')
        /\ ToSet(waiting') = ToSet(waiting) \cup {t}
        /\ Len(waiting') = Len(waiting) + 1
    BY <1>1, <1>2, Joins, AppendProperties DEF CountMatches
  <1>4. /\ at'[t] = "blocked" /\ arrived'[t] = arrived[t] + 1
        /\ \A u \in Threads : u # t => at'[u] = at[u] /\ arrived'[u] = arrived[u]
    BY <1>1
  <1>5. BarTypeOK'
    <2>1. arrived' \in [Threads -> 0..MaxRounds]
      BY <1>1, BarrierAssumption
    <2>2. QED
      BY <1>1, <1>3, <2>1
  <1>6. CountMatches'
    <2>1. counter' = Len(waiting') /\ counter' < reach
      BY <1>1, <1>3, BarrierAssumption DEF CountMatches
    <2>2. ToSet(waiting') = {u \in Threads : at'[u] = "blocked"}
      BY <1>3, <1>4 DEF CountMatches
    <2>3. QED
      BY <1>3, <2>1, <2>2 DEF CountMatches
  <1>7. CallsInv'
    BY <1>1, <1>4 DEF CallsInv
  <1>8. RoundInv'
    <2> SUFFICES ASSUME Cardinality(Threads) = reach
                 PROVE  \E r \in Nat : InRound(r)'
      BY DEF RoundInv
    <2>1. PICK r \in Nat : InRound(r)
      BY DEF RoundInv
    <2>2. InRound(r)'
      BY <1>1, <1>4, <2>1 DEF InRound
    <2>3. QED
      BY <2>2
  <1>9. QED
    BY <1>5, <1>6, <1>7, <1>8

\* A woken thread that leaves the barrier keeps the invariant.
LEMMA ReturnIInv ==
  ASSUME BarIInv, NEW t \in Threads, Return(t)
  PROVE  BarIInv'
  <1> USE DEF BarIInv, BarTypeOK
  <1>1. /\ at[t] = "woken" /\ at' = [at EXCEPT ![t] = "out"]
        /\ passed' = [passed EXCEPT ![t] = passed[t] + 1]
        /\ UNCHANGED <<counter, waiting, arrived>>
    BY DEF Return
  <1>2. arrived[t] = passed[t] + 1
    BY <1>1 DEF CallsInv
  <1>3. \A u \in Threads : at'[u] = "blocked" <=> at[u] = "blocked"
    BY <1>1
  <1>4. BarTypeOK'
    <2>1. passed' \in [Threads -> 0..MaxRounds]
      BY <1>1, <1>2, BarrierAssumption
    <2>2. QED
      BY <1>1, <2>1
  <1>5. CountMatches'
    BY <1>1, <1>3 DEF CountMatches
  <1>6. CallsInv'
    BY <1>1, <1>2 DEF CallsInv
  <1>7. RoundInv'
    <2>1. \A r \in Nat : InRound(r) => InRound(r)'
      BY <1>1, <1>3 DEF InRound
    <2>2. QED
      BY <2>1 DEF RoundInv
  <1>8. QED
    BY <1>4, <1>5, <1>6, <1>7

\* The invariant holds in every reachable state.
LEMMA BarInvariance == BarSpec => []BarIInv
  <1>1. BarIInv /\ [BarNext]_barvars => BarIInv'
    <2> SUFFICES ASSUME BarIInv, [BarNext]_barvars PROVE BarIInv'
      OBVIOUS
    <2>1. CASE BarNext
      <3>1. PICK t \in Threads : BarrierWait(t) \/ Return(t)
        BY <2>1 DEF BarNext
      <3>2. CASE BarrierWait(t)
        <4>1. LastArrives(t) \/ Arrives(t)
          BY <3>2 DEF BarrierWait
        <4>2. QED
          BY <3>2, <4>1, LastArrivesIInv, ArrivesIInv
      <3>3. QED
        BY <3>1, <3>2, ReturnIInv
    <2>2. CASE UNCHANGED barvars
      BY <2>2 DEF barvars, BarIInv, BarTypeOK, CountMatches, CallsInv, RoundInv, InRound
    <2>3. QED
      BY <2>1, <2>2
  <1>2. QED
    BY BarInitIInv, <1>1, PTL DEF BarSpec

\* For any number of threads, b->counter is the number of blocked threads and is
\* reset before it reaches n: nobody is left behind when the others go on.
THEOREM CounterCounts == BarSpec => []CountMatches
  <1>1. BarIInv => CountMatches
    BY DEF BarIInv
  <1>2. QED
    BY <1>1, BarInvariance, PTL

\* For any n and any number of rounds, when n threads use the barrier nobody
\* returns from its k-th barrier_wait() before all have made their k-th call.
THEOREM BarrierHolds == BarSpec => []NobodyPassesEarly
  <1>1. BarIInv => NobodyPassesEarly
    <2> SUFFICES ASSUME BarIInv, Cardinality(Threads) = reach,
                        NEW t \in Threads, NEW u \in Threads
                 PROVE  passed[t] <= arrived[u]
      BY DEF NobodyPassesEarly
    <2>1. PICK r \in Nat : InRound(r)
      BY DEF BarIInv, RoundInv
    <2>2. arrived[u] >= r /\ arrived[u] \in Nat
      BY <2>1, BarrierAssumption DEF InRound, BarIInv, BarTypeOK
    <2>3. passed[t] <= r /\ passed[t] \in Nat
      <3>1. passed[t] \in Nat /\ arrived[t] \in Nat
        BY BarrierAssumption DEF BarIInv, BarTypeOK
      <3>2. CASE at[t] = "blocked"
        BY <2>1, <3>1, <3>2 DEF InRound, BarIInv, CallsInv
      <3>3. CASE at[t] # "blocked"
        BY <2>1, <3>1, <3>3 DEF InRound, BarIInv, CallsInv
      <3>4. QED
        BY <3>2, <3>3
    <2>4. QED
      BY <2>2, <2>3
  <1>2. QED
    BY <1>1, BarInvariance, PTL
=============================================================================
