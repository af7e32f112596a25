--------------------------- MODULE SchedulerProofs ---------------------------
(***************************************************************************)
(* The list invariants of the scheduler, and that it implements the round  *)
(* robin, proved for any number of processes and waiting lists, under the  *)
(* assumption LoneBlock = FALSE.                                           *)
(***************************************************************************)
EXTENDS SchedulerRefinement, QueueLemmas

\* What the control point says about current_running.
ControlInv ==
  /\ pc = "boot" => state[current_running] \in Runnable
  /\ pc = "run" => state[current_running] = "READY"
  /\ pc = "walk" => state[current_running] = "BLOCKED" /\ tmp \in Waiters
  /\ pc = "sched" => state[current_running] \in {"READY", "BLOCKED", "EXITED"}
  /\ state[current_running] = "BLOCKED" => next[current_running] # current_running
  /\ pc = "halted" => /\ state[current_running] = "EXITED"
                      /\ next[current_running] = current_running

IInv == TypeOK /\ RingInv /\ QueueInv /\ ControlInv

-----------------------------------------------------------------------------
\* The null pointer is no PCB.
LEMMA NullIsNoProc == NULL \notin Procs
  BY DEF NULL, Procs

\* The kernel's initial ready list, 1 -> 2 -> ... -> N -> 1, is one circle: a
\* non-empty part of it that is closed under next is all of it.
LEMMA InitOneCircle ==
  ASSUME Init, NEW S \in SUBSET Procs, S # {}, \A p \in S : next[p] \in S
  PROVE  S = Procs
  <1> USE SchedulerAssumption DEF Procs
  <1>1. \A p \in Procs : p # N /\ p \in S => p + 1 \in S
    BY DEF Init
  <1>2. N \in S => 1 \in S
    BY DEF Init
  <1>3. ASSUME NEW s \in S PROVE N \in S
    <2> SUFFICES ASSUME N \notin S PROVE FALSE
      OBVIOUS
    <2> DEFINE T == {x \in Procs : x > s /\ x \notin S}
    <2>1. T \subseteq Nat /\ N \in T
      BY <1>3
    <2>2. PICK m \in T : \A k \in T : m <= k
      BY <2>1, LeastElement
    <2>3. m - 1 \in S
      BY <1>3, <2>2
    <2>4. QED
      BY <1>1, <2>2, <2>3
  <1>4. 1 \in S
    BY <1>2, <1>3
  <1>5. ASSUME NEW p \in Procs, p \notin S PROVE FALSE
    <2> DEFINE T == Procs \ S
    <2>1. T \subseteq Nat /\ p \in T
      BY <1>5
    <2>2. PICK m \in T : \A k \in T : m <= k
      BY <2>1, LeastElement
    <2>3. m - 1 \in S
      BY <1>4, <2>2
    <2>4. QED
      BY <1>1, <2>2, <2>3
  <1>6. QED
    BY <1>5

\* The state the kernel boots in satisfies the invariant.
LEMMA InitIInv == Init => IInv
  <1> SUFFICES ASSUME Init PROVE IInv
    OBVIOUS
  <1> USE SchedulerAssumption
  <1>1. TypeOK
    BY DEF Init, TypeOK, Status, Runnable, Fresh, Procs
  <1>2. Ring = Procs /\ Waiters = {} /\ Target = {}
    <2>1. /\ current_running \in Procs
          /\ ~Linked
          /\ \A p \in Procs : state[p] \in Runnable /\ state[p] # "BLOCKED"
      BY DEF Init, Linked, Runnable, Fresh, Procs
    <2>2. QED
      BY <2>1 DEF Ring, Waiters, Target
  <1>3. RingInv
    <2>1. \A p \in Ring : /\ next[p] \in Ring
                          /\ previous[p] \in Ring
                          /\ next[previous[p]] = p
                          /\ previous[next[p]] = p
      BY <1>2 DEF Init, Procs
    <2>2. QED
      BY <1>2, <2>1, InitOneCircle DEF RingInv
  <1>4. QueueInv
    BY <1>2 DEF Init, QueueInv
  <1>5. ControlInv
    BY DEF Init, ControlInv, Runnable, Fresh, Procs
  <1>6. QED
    BY <1>1, <1>3, <1>4, <1>5 DEF IInv

-----------------------------------------------------------------------------
\* The ready list and the waiters are disjoint sets of PCBs, and the null
\* pointer is in neither.
LEMMA Sets ==
  ASSUME TypeOK
  PROVE  /\ Ring \subseteq Procs /\ current_running \in Ring
         /\ Waiters \subseteq Procs /\ Waiters \cap Ring = {}
         /\ NULL \notin Ring /\ NULL \notin Waiters
         /\ current_running \notin Waiters
  BY NullIsNoProc DEF TypeOK, Ring, Waiters, Runnable, Fresh

\* A step that changes neither list keeps the list invariants.
LEMMA ListsUnchanged ==
  ASSUME RingInv, QueueInv, UNCHANGED <<next, previous, waiting>>,
         Ring' = Ring, Waiters' = Waiters, Target' = Target
  PROVE  RingInv' /\ QueueInv'
  BY DEF RingInv, QueueInv

\* The first dispatch() keeps the invariant.
LEMMA BootIInv == IInv /\ Boot => IInv'
  <1> SUFFICES ASSUME IInv, Boot PROVE IInv'
    OBVIOUS
  <1> USE DEF IInv
  <1>1. TypeOK'
    BY DEF Boot, Dispatched, TypeOK, Status, Runnable
  <1>2. /\ state'[current_running] = "READY"
        /\ \A p \in Procs : p # current_running => state'[p] = state[p]
    BY DEF Boot, Dispatched, TypeOK, ControlInv, Runnable
  <1>3. Ring' = Ring /\ Waiters' = Waiters /\ Target' = Target
    BY <1>2 DEF Boot, Ring, Waiters, Target, Linked, Runnable, Fresh
  <1>4. RingInv' /\ QueueInv'
    BY <1>3, ListsUnchanged DEF Boot
  <1>5. ControlInv'
    BY <1>2, <1>3 DEF Boot, ControlInv
  <1>6. QED
    BY <1>1, <1>4, <1>5

\* yield() and the timer interrupt keep the invariant.
LEMMA YieldIInv == IInv /\ Yield => IInv'
  <1> SUFFICES ASSUME IInv, Yield PROVE IInv'
    OBVIOUS
  <1> USE DEF IInv
  <1>1. TypeOK'
    BY DEF Yield, TypeOK
  <1>2. Ring' = Ring /\ Waiters' = Waiters /\ Target' = Target
    BY DEF Yield, Running, Ring, Waiters, Target, Linked, ControlInv
  <1>3. RingInv' /\ QueueInv'
    BY <1>2, ListsUnchanged DEF Yield
  <1>4. ControlInv'
    BY DEF Yield, Running, ControlInv
  <1>5. QED
    BY <1>1, <1>3, <1>4

\* exit() keeps the invariant: the list is touched only by scheduler().
LEMMA ExitIInv == IInv /\ Exit => IInv'
  <1> SUFFICES ASSUME IInv, Exit PROVE IInv'
    OBVIOUS
  <1> USE DEF IInv
  <1>1. TypeOK'
    BY DEF Exit, TypeOK, Status
  <1>2. /\ state'[current_running] = "EXITED"
        /\ \A p \in Procs : p # current_running => state'[p] = state[p]
    BY DEF Exit, TypeOK
  <1>3. Ring' = Ring /\ Waiters' = Waiters /\ Target' = Target
    BY <1>2 DEF Exit, Running, Ring, Waiters, Target, Linked, TypeOK
  <1>4. RingInv' /\ QueueInv'
    BY <1>3, ListsUnchanged DEF Exit
  <1>5. ControlInv'
    BY <1>2 DEF Exit, ControlInv
  <1>6. QED
    BY <1>1, <1>4, <1>5

\* Each step of block()'s walk keeps the invariant and stays on the list.
LEMMA WalkIInv == IInv /\ Walk => IInv'
  <1> SUFFICES ASSUME IInv, Walk PROVE IInv'
    OBVIOUS
  <1> USE DEF IInv
  <1>1. TypeOK'
    BY Sets DEF Walk, TypeOK, ControlInv
  <1>2. Ring' = Ring /\ Waiters' = Waiters /\ Target' = Target
    BY DEF Walk, Ring, Waiters, Target, Linked
  <1>3. RingInv' /\ QueueInv'
    BY <1>2, ListsUnchanged DEF Walk
  <1>4. tmp' \in Waiters
    BY DEF Walk, ControlInv, QueueInv, Target, Linked
  <1>5. ControlInv'
    BY <1>2, <1>4 DEF Walk, ControlInv
  <1>6. QED
    BY <1>1, <1>3, <1>5

\* The kernel's final loop keeps the invariant.
LEMMA HaltIInv == IInv /\ (Halt \/ HaltLoop) => IInv'
  <1> SUFFICES ASSUME IInv, Halt \/ HaltLoop PROVE IInv'
    OBVIOUS
  <1> USE DEF IInv
  <1>1. TypeOK'
    BY DEF Halt, HaltLoop, vars, TypeOK
  <1>2. Ring' = Ring /\ Waiters' = Waiters /\ Target' = Target
    BY DEF Halt, HaltLoop, LastExits, vars, Ring, Waiters, Target, Linked
  <1>3. RingInv' /\ QueueInv'
    BY <1>2, ListsUnchanged DEF Halt, HaltLoop, vars
  <1>4. ControlInv'
    BY DEF Halt, HaltLoop, LastExits, vars, ControlInv
  <1>5. QED
    BY <1>1, <1>3, <1>4

\* The start of block(q) keeps the invariant; this is where the assumption
\* that another process is ready is needed.
LEMMA BlockIInv ==
  ASSUME LoneBlock = FALSE, IInv, NEW q \in Queues, Block(q)
  PROVE  IInv'
  <1> USE DEF IInv
  <1>1. TypeOK'
    BY DEF Block, TypeOK, Status
  <1>2. /\ state'[current_running] = "BLOCKED"
        /\ \A p \in Procs : p # current_running => state'[p] = state[p]
        /\ UNCHANGED <<current_running, next, previous>>
    BY DEF Block, TypeOK
  <1>3. Ring' = Ring /\ Waiters' = Waiters /\ Target = Waiters
    BY <1>2 DEF Block, Running, Ring, Waiters, Target, Linked, TypeOK
  <1>4. CASE waiting[q] = NULL
    <2>1. /\ Target' = Waiters \cup {current_running}
          /\ waiting' = [waiting EXCEPT ![q] = current_running]
      BY <1>2, <1>3, <1>4 DEF Block, Target, Linked
    <2>2. RingInv'
      BY <1>2, <1>3 DEF RingInv
    <2>3. QueueInv'
      BY <1>2, <1>3, <2>1, <1>4, Sets DEF QueueInv, TypeOK
    <2>4. ControlInv'
      BY <1>2, <1>4 DEF Block, Running, ControlInv
    <2>5. QED
      BY <1>1, <2>2, <2>3, <2>4
  <1>5. CASE waiting[q] # NULL
    <2>1. Target' = Target /\ waiting' = waiting /\ tmp' = waiting[q]
      BY <1>3, <1>5 DEF Block, Target, Linked
    <2>2. RingInv' /\ QueueInv'
      BY <1>2, <1>3, <2>1, ListsUnchanged
    <2>3. tmp' \in Waiters
      BY <1>3, <1>5, <2>1 DEF QueueInv
    <2>4. ControlInv'
      BY <1>2, <1>3, <1>5, <2>3 DEF Block, Running, ControlInv
    <2>5. QED
      BY <1>1, <2>2, <2>4
  <1>6. QED
    BY <1>4, <1>5

\* block() linking current_running to the end of a waiting list keeps the
\* invariant.
LEMMA LinkIInv == IInv /\ Link => IInv'
  <1> SUFFICES ASSUME IInv, Link PROVE IInv'
    OBVIOUS
  <1> USE DEF IInv
  <1>1. tmp \in Waiters /\ state[current_running] = "BLOCKED" /\ next[tmp] = NULL
    BY DEF Link, ControlInv
  <1>2. TypeOK'
    BY DEF Link, TypeOK
  <1>3. /\ Ring' = Ring /\ Waiters' = Waiters
        /\ Target = Waiters /\ Target' = Waiters \cup {current_running}
    BY <1>1 DEF Link, Ring, Waiters, Target, Linked
  <1>4. /\ next'[tmp] = current_running
        /\ \A p \in Procs : p # tmp => next'[p] = next[p]
        /\ UNCHANGED <<current_running, state, previous, waiting>>
    BY <1>1, Sets DEF Link, TypeOK
  <1>5. \A p \in Ring : next'[p] = next[p]
    BY <1>1, <1>4, Sets
  <1>6. RingInv'
    <2>1. \A S \in SUBSET Ring :
            (\A p \in S : next'[p] \in S) <=> (\A p \in S : next[p] \in S)
      BY <1>5
    <2>2. QED
      BY <1>3, <1>4, <1>5, <2>1 DEF RingInv
  <1>7. QueueInv'
    <2>1. \A S \in SUBSET Waiters :
            (\A w \in S : \E p \in S : next'[p] = w) => S = {}
      <3> SUFFICES ASSUME NEW S \in SUBSET Waiters,
                          \A w \in S : \E p \in S : next'[p] = w
                   PROVE  \A w \in S : \E p \in S : next[p] = w
        BY DEF QueueInv
      <3> QED
        BY <1>4, Sets
    <2>2. \A p, r \in Waiters : next'[p] = next'[r] /\ next'[p] # NULL => p = r
      BY <1>3, <1>4, Sets DEF QueueInv
    <2>3. \A r \in Queues, p \in Waiters :
            waiting[r] # NULL => next'[p] # waiting[r]
      BY <1>3, <1>4, Sets DEF QueueInv
    <2>4. \A w \in Target' : \/ \E r \in Queues : waiting[r] = w
                             \/ \E p \in Waiters : next'[p] = w
      BY <1>1, <1>3, <1>4, Sets DEF QueueInv
    <2>5. \A p \in Waiters : previous[p] = NULL /\ next'[p] \in Target' \cup {NULL}
      BY <1>3, <1>4, Sets DEF QueueInv
    <2>6. QED
      BY <1>3, <1>4, <2>1, <2>2, <2>3, <2>4, <2>5 DEF QueueInv
  <1>8. ControlInv'
    BY <1>1, <1>4, <1>5, Sets DEF Link, ControlInv
  <1>9. QED
    BY <1>2, <1>6, <1>7, <1>8

\* unblock(q) keeps the invariant: the oldest waiter becomes the last of the
\* ready list.
LEMMA UnblockIInv ==
  ASSUME IInv, NEW q \in Queues, Unblock(q)
  PROVE  IInv'
  <1> USE DEF IInv
  <1> DEFINE c == current_running
             t == waiting[q]
             b == previous[c]
  <1>1. pc = "run" /\ state[c] = "READY" /\ Target = Waiters
    BY DEF Unblock, Running, ControlInv, Target, Linked
  <1>2. t \in Waiters /\ t # c /\ t \in Procs /\ c \in Procs
    BY <1>1, Sets DEF Unblock, QueueInv, TypeOK
  <1>3. b \in Ring /\ b \in Procs /\ b # t /\ next[b] = c
    BY <1>2, Sets DEF RingInv
  <1>4. /\ next' = [next EXCEPT ![t] = c, ![b] = t]
        /\ previous' = [previous EXCEPT ![t] = b, ![c] = t]
        /\ state' = [state EXCEPT ![t] = "READY"]
        /\ waiting' = [waiting EXCEPT ![q] = next[t]]
        /\ UNCHANGED <<current_running, pc, tmp>>
    BY DEF Unblock, InsertedNext, InsertedPrevious
  <1>5. TypeOK'
    BY <1>2, <1>3, <1>4 DEF TypeOK, Status, Runnable
  <1>6. Ring' = Ring \cup {t} /\ Waiters' = Waiters \ {t} /\ Target' = Waiters'
    BY <1>1, <1>2, <1>4
    DEF TypeOK, Ring, Waiters, Target, Linked, Runnable, Fresh
  <1>7. /\ next'[t] = c /\ next'[b] = t /\ previous'[t] = b /\ previous'[c] = t
        /\ \A p \in Procs : p # t /\ p # b => next'[p] = next[p]
        /\ \A p \in Procs : p # t /\ p # c => previous'[p] = previous[p]
    BY <1>2, <1>3, <1>4 DEF TypeOK
  <1>8. RingInv'
    <2>1. \A p \in Ring' : /\ next'[p] \in Ring' /\ previous'[p] \in Ring'
                           /\ next'[previous'[p]] = p /\ previous'[next'[p]] = p
      <3> SUFFICES ASSUME NEW p \in Ring'
                   PROVE  /\ next'[p] \in Ring' /\ previous'[p] \in Ring'
                          /\ next'[previous'[p]] = p /\ previous'[next'[p]] = p
        OBVIOUS
      <3>1. CASE p = t
        BY <1>3, <1>6, <1>7, <3>1, Sets
      <3>2. CASE p \in Ring
        <4>1. p # t /\ next[p] \in Ring /\ previous[p] \in Ring
              /\ next[previous[p]] = p /\ previous[next[p]] = p
              /\ next[p] # t /\ previous[p] # t
          BY <1>2, <3>2, Sets DEF RingInv
        <4>2. next'[p] \in Ring' /\ previous'[next'[p]] = p
          BY <1>3, <1>6, <1>7, <3>2, <4>1, Sets
        <4>3. previous'[p] \in Ring' /\ next'[previous'[p]] = p
          BY <1>3, <1>6, <1>7, <3>2, <4>1, Sets
        <4>4. QED
          BY <4>2, <4>3
      <3>3. QED
        BY <1>6, <3>1, <3>2
    <2>2. ASSUME NEW S \in SUBSET Ring', S # {}, \A p \in S : next'[p] \in S
          PROVE  S = Ring'
      <3> DEFINE R == S \ {t}
      <3>1. \A p \in R : next[p] \in R
        <4> SUFFICES ASSUME NEW p \in R PROVE next[p] \in R
          OBVIOUS
        <4>1. p \in Ring /\ next[p] \in Ring /\ next[p] # t
          BY <1>2, <1>6, <2>2, Sets DEF RingInv
        <4>2. CASE p = b
          BY <1>2, <1>3, <1>7, <2>2, <4>2
        <4>3. CASE p # b
          BY <1>7, <2>2, <4>1, <4>3, Sets
        <4>4. QED
          BY <4>2, <4>3
      <3>2. R # {}
        BY <1>2, <1>7, <2>2
      <3>3. R = Ring
        BY <1>6, <2>2, <3>1, <3>2 DEF RingInv
      <3>4. t \in S
        BY <1>3, <1>7, <2>2, <3>3
      <3>5. QED
        BY <1>6, <3>3, <3>4
    <2>3. QED
      BY <2>1, <2>2 DEF RingInv
  <1>9. \A p \in Waiters' : /\ p \in Waiters /\ p # t /\ p \in Procs
                            /\ next'[p] = next[p] /\ previous'[p] = previous[p]
    BY <1>2, <1>3, <1>6, <1>7, Sets
  <1>10. \A p \in Waiters : next[p] # t
    BY <1>2, Sets DEF QueueInv, Unblock
  <1>11. QueueInv'
    <2>1. \A S \in SUBSET Waiters' :
            (\A w \in S : \E p \in S : next'[p] = w) => S = {}
      <3> SUFFICES ASSUME NEW S \in SUBSET Waiters',
                          \A w \in S : \E p \in S : next'[p] = w
                   PROVE  S \in SUBSET Waiters /\ \A w \in S : \E p \in S : next[p] = w
        BY DEF QueueInv
      <3> QED
        BY <1>6, <1>9
    <2>2. \A p \in Waiters' : /\ previous'[p] = NULL
                              /\ next'[p] \in Target' \cup {NULL}
      BY <1>1, <1>6, <1>9, <1>10 DEF QueueInv
    <2>3. /\ waiting'[q] = next[t]
          /\ \A r \in Queues : r # q => waiting'[r] = waiting[r] /\ waiting[r] # t
      BY <1>2, <1>4, Sets DEF QueueInv, TypeOK
    <2>4. \A r \in Queues : waiting'[r] \in Target' \cup {NULL}
      BY <1>1, <1>2, <1>6, <1>10, <2>3 DEF QueueInv
    <2>5. \A r, u \in Queues : waiting'[r] = waiting'[u] /\ waiting'[r] # NULL => r = u
      BY <1>2, <2>3 DEF QueueInv
    <2>6. \A r \in Queues, p \in Waiters' : waiting'[r] # NULL => next'[p] # waiting'[r]
      BY <1>2, <1>9, <2>3 DEF QueueInv
    <2>7. \A w \in Target' : \/ \E r \in Queues : waiting'[r] = w
                             \/ \E p \in Waiters' : next'[p] = w
      BY <1>1, <1>6, <1>9, <2>3 DEF QueueInv
    <2>8. \A p, r \in Waiters' : next'[p] = next'[r] /\ next'[p] # NULL => p = r
      BY <1>9 DEF QueueInv
    <2>9. QED
      BY <2>1, <2>2, <2>4, <2>5, <2>6, <2>7, <2>8 DEF QueueInv
  <1>12. ControlInv'
    BY <1>1, <1>2, <1>4 DEF ControlInv, TypeOK
  <1>13. QED
    BY <1>5, <1>8, <1>11, <1>12

\* scheduler() keeps the invariant when current_running stays ready: the ready
\* list is not changed, only its starting point moves.
LEMMA RotateIInv ==
  ASSUME IInv, Schedule, ~Leaves(current_running)
  PROVE  IInv'
  <1> USE DEF IInv
  <1> DEFINE c == current_running
             n == next[c]
  <1>1. /\ state[c] = "READY" /\ c \in Procs /\ n \in Procs /\ n \in Ring
        /\ Target = Waiters
    BY Sets DEF Schedule, Leaves, ControlInv, TypeOK, RingInv, Target, Linked
  <1>2. state[n] \in Runnable
    BY <1>1 DEF Ring, Runnable
  <1>3. /\ state'[n] = "READY"
        /\ \A p \in Procs : p # n => state'[p] = state[p]
        /\ state' \in [Procs -> Status]
    BY <1>1, <1>2 DEF Schedule, Dispatched, TypeOK, Runnable, Status
  <1>4. /\ UNCHANGED <<next, previous, waiting, tmp>>
        /\ current_running' = n /\ pc' = "run"
    BY DEF Schedule, RemoveLeaver
  <1>5. Ring' = Ring
    BY <1>1, <1>2, <1>3, <1>4 DEF Ring, Runnable
  <1>6. Waiters' = Waiters
    BY <1>1, <1>2, <1>3, <1>4 DEF Waiters, Runnable, Fresh
  <1>7. Target' = Target
    BY <1>1, <1>4, <1>6 DEF Target, Linked
  <1>8. RingInv' /\ QueueInv'
    BY <1>4, <1>5, <1>6, <1>7, ListsUnchanged
  <1>9. TypeOK'
    BY <1>1, <1>3, <1>4 DEF TypeOK
  <1>10. ControlInv'
    BY <1>3, <1>4 DEF ControlInv
  <1>11. QED
    BY <1>8, <1>9, <1>10

\* scheduler() keeps the invariant when it takes current_running out: the
\* circle closes over the gap, and a blocked process becomes the last one of
\* the waiting list that block() has put it on.
LEMMA RemoveIInv ==
  ASSUME IInv, Schedule, Leaves(current_running)
  PROVE  IInv'
  <1> USE DEF IInv
  <1> DEFINE c == current_running
             n == next[c]
             b == previous[c]
  <1>1. /\ state[c] \in {"BLOCKED", "EXITED"} /\ pc = "sched" /\ n # c
    BY DEF Schedule, Leaves, LastExits, ControlInv
  <1>2. /\ c \in Procs /\ n \in Procs /\ b \in Procs
        /\ c \in Ring /\ n \in Ring /\ b \in Ring
        /\ next[b] = c /\ previous[n] = c /\ b # c
    BY <1>1, Sets DEF RingInv
  <1>3. state[n] \in Runnable
    BY <1>1, <1>2 DEF Ring
  <1>4. /\ state'[n] = "READY"
        /\ \A p \in Procs : p # n => state'[p] = state[p]
        /\ state' \in [Procs -> Status]
    BY <1>2, <1>3 DEF Schedule, Dispatched, TypeOK, Runnable, Status
  <1>5. /\ next' = [next EXCEPT ![b] = n, ![c] = NULL]
        /\ previous' = [previous EXCEPT ![n] = b, ![c] = NULL]
        /\ UNCHANGED <<waiting, tmp>>
        /\ current_running' = n /\ pc' = "run"
    BY DEF Schedule, RemoveLeaver, UnlinkedNext, UnlinkedPrevious
  <1>6. /\ next'[b] = n /\ next'[c] = NULL /\ previous'[n] = b /\ previous'[c] = NULL
        /\ \A p \in Procs : p # b /\ p # c => next'[p] = next[p]
        /\ \A p \in Procs : p # n /\ p # c => previous'[p] = previous[p]
    BY <1>1, <1>2, <1>5 DEF TypeOK
  <1>7. TypeOK'
    BY <1>2, <1>4, <1>5 DEF TypeOK
  <1>8. Ring' = Ring \ {c}
    BY <1>1, <1>2, <1>3, <1>4, <1>5 DEF Ring, Runnable, Fresh
  <1>9. Waiters' = Target /\ Target' = Target
    <2>1. Target' = Waiters'
      BY <1>5 DEF Target, Linked
    <2>2. \A p \in Procs : p \in Waiters' <=> state[p] = "BLOCKED"
      BY <1>3, <1>4, <1>5 DEF Waiters, Runnable, Fresh
    <2>3. \A p \in Procs : p \in Target <=> state[p] = "BLOCKED"
      BY <1>1, <1>2 DEF Target, Linked, Waiters
    <2>4. Target \subseteq Procs /\ Waiters' \subseteq Procs
      BY <1>2, Sets DEF Target, Waiters
    <2>5. QED
      BY <2>1, <2>2, <2>3, <2>4
  <1>10. RingInv'
    <2>1. \A p \in Ring' : /\ next'[p] \in Ring' /\ previous'[p] \in Ring'
                           /\ next'[previous'[p]] = p /\ previous'[next'[p]] = p
      <3> SUFFICES ASSUME NEW p \in Ring'
                   PROVE  /\ next'[p] \in Ring' /\ previous'[p] \in Ring'
                          /\ next'[previous'[p]] = p /\ previous'[next'[p]] = p
        OBVIOUS
      <3>1. /\ p \in Ring /\ p # c /\ p \in Procs
            /\ next[p] \in Ring /\ previous[p] \in Ring
            /\ next[p] \in Procs /\ previous[p] \in Procs
            /\ next[previous[p]] = p /\ previous[next[p]] = p
        BY <1>8, Sets DEF RingInv
      <3>2. next'[p] \in Ring' /\ previous'[next'[p]] = p
        BY <1>1, <1>2, <1>6, <1>8, <3>1
      <3>3. previous'[p] \in Ring' /\ next'[previous'[p]] = p
        BY <1>1, <1>2, <1>6, <1>8, <3>1
      <3>4. QED
        BY <3>2, <3>3
    <2>2. ASSUME NEW S \in SUBSET Ring', S # {}, \A p \in S : next'[p] \in S
          PROVE  S = Ring'
      <3> DEFINE R == IF b \in S THEN S \cup {c} ELSE S
      <3>1. \A p \in S : p \in Ring /\ p # c /\ p \in Procs
        BY <1>8, <2>2, Sets
      <3>2. \A p \in R : next[p] \in R
        <4>1. CASE b \in S
          BY <1>2, <1>6, <2>2, <3>1, <4>1
        <4>2. CASE b \notin S
          BY <1>6, <2>2, <3>1, <4>2
        <4>3. QED
          BY <4>1, <4>2
      <3>3. R = Ring
        <4>1. R \in SUBSET Ring /\ R # {}
          BY <1>2, <2>2, <3>1
        <4>2. QED
          BY <3>2, <4>1 DEF RingInv
      <3>4. QED
        BY <1>2, <1>8, <3>1, <3>3
    <2>3. QED
      BY <2>1, <2>2 DEF RingInv
  <1>11. /\ \A p \in Target : p = c \/ p \in Waiters
         /\ Waiters \subseteq Target
         /\ \A p \in Waiters : /\ p # c /\ p \in Procs
                               /\ next'[p] = next[p] /\ previous'[p] = previous[p]
    BY <1>2, <1>6, Sets DEF Target
  <1>12. QueueInv'
    <2>1. \A S \in SUBSET Target :
            (\A w \in S : \E p \in S : next'[p] = w) => S = {}
      <3> SUFFICES ASSUME NEW S \in SUBSET Target,
                          \A w \in S : \E p \in S : next'[p] = w
                   PROVE  S = {}
        OBVIOUS
      <3>1. NULL \notin S
        BY <1>2, <1>11, Sets
      <3>2. \A w \in S : \E p \in S \ {c} : next[p] = w
        BY <1>6, <1>11, <3>1
      <3>3. S \ {c} \in SUBSET Waiters
            /\ \A w \in S \ {c} : \E p \in S \ {c} : next[p] = w
        BY <1>11, <3>2
      <3>4. S \ {c} = {}
        BY <3>3 DEF QueueInv
      <3>5. QED
        BY <3>2, <3>4
    <2>2. \A p \in Target : previous'[p] = NULL /\ next'[p] \in Target \cup {NULL}
      BY <1>6, <1>11 DEF QueueInv
    <2>3. \A p, r \in Target : next'[p] = next'[r] /\ next'[p] # NULL => p = r
      BY <1>6, <1>11 DEF QueueInv
    <2>4. \A q \in Queues, p \in Target : waiting[q] # NULL => next'[p] # waiting[q]
      BY <1>6, <1>11 DEF QueueInv
    <2>5. \A w \in Target : \/ \E q \in Queues : waiting[q] = w
                            \/ \E p \in Target : next'[p] = w
      BY <1>11 DEF QueueInv
    <2>6. /\ \A q \in Queues : waiting[q] \in Target \cup {NULL}
          /\ \A q, r \in Queues : waiting[q] = waiting[r] /\ waiting[q] # NULL => q = r
      BY DEF QueueInv
    <2>7. waiting' = waiting /\ Waiters' = Target /\ Target' = Target
      BY <1>5, <1>9
    <2> HIDE DEF IInv
    <2>8. QED
      BY <2>1, <2>2, <2>3, <2>4, <2>5, <2>6, <2>7 DEF QueueInv
  <1>13. ControlInv'
    BY <1>4, <1>5 DEF ControlInv
  <1>14. QED
    BY <1>7, <1>10, <1>12, <1>13

-----------------------------------------------------------------------------
\* Every step of the scheduler keeps the invariant.
LEMMA NextIInv ==
  ASSUME LoneBlock = FALSE, IInv, [Next]_vars
  PROVE  IInv'
  <1>1. CASE Boot
    BY <1>1, BootIInv
  <1>2. CASE Yield
    BY <1>2, YieldIInv
  <1>3. CASE Exit
    BY <1>3, ExitIInv
  <1>4. CASE \E q \in Queues : Block(q) \/ Unblock(q)
    BY <1>4, BlockIInv, UnblockIInv
  <1>5. CASE Walk
    BY <1>5, WalkIInv
  <1>6. CASE Link
    BY <1>6, LinkIInv
  <1>7. CASE Schedule
    BY <1>7, RotateIInv, RemoveIInv
  <1>8. CASE Halt \/ HaltLoop
    BY <1>8, HaltIInv
  <1>9. CASE UNCHANGED vars
    BY <1>9 DEF vars, IInv, TypeOK, RingInv, QueueInv, ControlInv, Ring,
                Waiters, Target, Linked
  <1>10. QED
    BY <1>1, <1>2, <1>3, <1>4, <1>5, <1>6, <1>7, <1>8, <1>9 DEF Next

\* The inductive invariant holds in every reachable state.
LEMMA Invariance ==
  ASSUME LoneBlock = FALSE
  PROVE  Spec => []IInv
  <1>1. Init => IInv
    BY InitIInv
  <1>2. IInv /\ [Next]_vars => IInv'
    BY NextIInv
  <1>3. QED
    BY <1>1, <1>2, PTL DEF Spec

\* For any number of processes, threads and waiting lists every variable keeps
\* its type; in particular current_running is never the null pointer.
THEOREM TypeCorrect ==
  ASSUME LoneBlock = FALSE
  PROVE  Spec => []TypeOK
  <1>1. IInv => TypeOK
    BY DEF IInv
  <1>2. QED
    BY <1>1, Invariance, PTL

\* For any number of processes the ready list is one doubly linked circle of
\* exactly the ready processes, through every removal and insertion.
THEOREM ReadyListIsOneCircle ==
  ASSUME LoneBlock = FALSE
  PROVE  Spec => []RingInv
  <1>1. IInv => RingInv
    BY DEF IInv
  <1>2. QED
    BY <1>1, Invariance, PTL

\* For any number of processes and waiting lists no blocked process drops off
\* its waiting list, is on two lists, or is also on the ready list.
THEOREM WaitingListsAreDisjoint ==
  ASSUME LoneBlock = FALSE
  PROVE  Spec => []QueueInv
  <1>1. IInv => QueueInv
    BY DEF IInv
  <1>2. QED
    BY <1>1, Invariance, PTL

\* Only a ready process executes, and the kernel stops only when there is no
\* ready process left.
THEOREM OnlyReadyProcessesRun ==
  ASSUME LoneBlock = FALSE
  PROVE  Spec => []RunningReady
  <1>1. IInv => RunningReady
    <2> SUFFICES ASSUME IInv PROVE RunningReady
      OBVIOUS
    <2> USE DEF IInv
    <2>1. pc = "run" => state[current_running] = "READY"
      BY DEF ControlInv
    <2>2. ASSUME pc = "halted", NEW p \in Procs
          PROVE  state[p] \notin Runnable
      <3>1. {current_running} = Ring
        <4>1. {current_running} \in SUBSET Ring /\ {current_running} # {}
          BY Sets
        <4>2. \A r \in {current_running} : next[r] \in {current_running}
          BY <2>2 DEF ControlInv
        <4>3. QED
          BY <4>1, <4>2 DEF RingInv
      <3>2. QED
        BY <2>2, <3>1 DEF ControlInv, Ring, Runnable, Fresh
    <2>3. QED
      BY <2>1, <2>2 DEF RunningReady
  <1>2. QED
    BY <1>1, Invariance, PTL

-----------------------------------------------------------------------------
(* The refinement of RoundRobin.  The pointers are related to sequences: Listed *)
(* says that s is the list that begins at `from', and the invariant that there   *)
(* is such a sequence for the ready list and for each waiting list.              *)

\* s is the list that nxt leads through from `from' on, up to the null pointer or
\* `stop'.
Listed(s, nxt, from, stop) ==
  /\ from = IF s = <<>> THEN NULL ELSE s[1]
  /\ \A i \in 1..(Len(s) - 1) : nxt[s[i]] = s[i + 1] /\ s[i + 1] # stop
  /\ s # <<>> => nxt[s[Len(s)]] \in {NULL, stop}

\* A sequence that lists what nxt leads through is what Chain computes.
LEMMA ChainIsListed ==
  ASSUME NEW s \in Seq(Procs), Len(s) <= N, NEW nxt, NEW from, NEW stop,
         Listed(s, nxt, from, stop)
  PROVE  Chain(nxt, from, stop) = s
  <1> DEFINE at == [i \in 0..N |-> IF i < Len(s) THEN s[i + 1] ELSE NULL]
             Nxt(f) == [i \in 0..N |->
                          IF i = 0 THEN from
                          ELSE IF f[i - 1] = NULL THEN NULL
                          ELSE IF nxt[f[i - 1]] = stop THEN NULL ELSE nxt[f[i - 1]]]
  <1>1. /\ N \in Nat /\ Len(s) \in Nat /\ \A i \in 1..Len(s) : s[i] \in Procs /\ s[i] # NULL
        /\ s = <<>> <=> Len(s) = 0
    BY SchedulerAssumption, NullIsNoProc
  <1>2. ASSUME NEW i \in 0..N PROVE at[i] = Nxt(at)[i]
    <2>1. CASE i = 0
      BY <1>1, <2>1 DEF Listed
    <2>2. CASE i # 0 /\ i < Len(s)
      <3>1. at[i - 1] = s[i] /\ i \in 1..(Len(s) - 1) /\ at[i] = s[i + 1]
        BY <1>1, <2>2
      <3>2. QED
        BY <1>1, <2>2, <3>1 DEF Listed
    <2>3. CASE i # 0 /\ i = Len(s)
      <3>1. at[i - 1] = s[i] /\ at[i] = NULL /\ s # <<>> /\ s[i] # NULL
        BY <1>1, <2>3
      <3>2. QED
        BY <1>1, <2>3, <3>1 DEF Listed
    <2>4. CASE i > Len(s)
      <3>1. at[i - 1] = NULL /\ at[i] = NULL
        BY <1>1, <2>4
      <3>2. QED
        BY <2>4, <3>1
    <2>5. QED
      BY <1>1, <2>1, <2>2, <2>3, <2>4
  <1>3. at = Nxt(at)
    BY <1>2
  <1> DEFINE f == Along(nxt, from, stop)
  <1>4. f = Nxt(f)
    BY <1>3 DEF Along
  <1> HIDE DEF f, at
  <1>5. ASSUME NEW i \in 0..N, f[i] # at[i] PROVE FALSE
    <2> DEFINE T == {j \in 0..N : f[j] # at[j]}
    <2>1. T \subseteq Nat /\ T # {}
      <3>1. i \in T /\ T \subseteq 0..N
        BY <1>5
      <3>2. 0..N \subseteq Nat
        BY <1>1
      <3> HIDE DEF T
      <3>3. QED
        BY <3>1, <3>2
    <2>2. PICK m \in T : \A k \in T : m <= k
      BY <2>1, LeastElement
    <2>3. m \in 0..N /\ f[m] # at[m]
      BY <2>2
    <2>4. f[m] = Nxt(f)[m] /\ at[m] = Nxt(at)[m]
      BY <1>3, <1>4
    <2>5. m # 0
      BY <2>3, <2>4
    <2>6. m - 1 \in 0..N /\ ~ (m <= m - 1)
      BY <1>1, <2>3, <2>5
    <2>7. f[m - 1] = at[m - 1]
      BY <2>2, <2>6
    <2>8. QED
      BY <2>3, <2>4, <2>5, <2>7
  <1>6. f = at
    BY <1>3, <1>4, <1>5
  <1>7. Len(s) \in 0..N /\ at[Len(s)] = NULL /\ \A i \in 0..(Len(s) - 1) : at[i] = s[i + 1] /\ at[i] # NULL
    <2>1. Len(s) \in 0..N
      BY <1>1
    <2>2. at[Len(s)] = NULL
      BY <1>1, <2>1 DEF at
    <2>3. ASSUME NEW i \in 0..(Len(s) - 1) PROVE at[i] = s[i + 1] /\ at[i] # NULL
      <3>1. i \in 0..N /\ i < Len(s) /\ i + 1 \in 1..Len(s)
        BY <1>1
      <3>2. QED
        BY <1>1, <3>1 DEF at
    <2>4. QED
      BY <2>1, <2>2, <2>3
  <1>8. ASSUME NEW n \in 0..N, at[n] = NULL, \A i \in 0..(n - 1) : at[i] # NULL
        PROVE  n = Len(s)
    <2>1. ~ (n < Len(s))
      BY <1>1, <1>7, <1>8
    <2>2. ~ (Len(s) < n)
      BY <1>1, <1>7, <1>8
    <2>3. QED
      BY <1>1, <2>1, <2>2
  <1>9. (CHOOSE n \in 0..N : at[n] = NULL /\ \A i \in 0..(n - 1) : at[i] # NULL) = Len(s)
    <2>1. \E n \in 0..N : at[n] = NULL /\ \A i \in 0..(n - 1) : at[i] # NULL
      BY <1>7
    <2>2. QED
      BY <1>8, <2>1
  <1>10. Chain(nxt, from, stop) = [i \in 1..Len(s) |-> at[i - 1]]
    BY <1>6, <1>9 DEF Chain, f
  <1>11. s = [i \in 1..Len(s) |-> s[i]]
    OBVIOUS
  <1>12. \A i \in 1..Len(s) : at[i - 1] = s[i]
    BY <1>1, <1>7
  <1>13. QED
    BY <1>10, <1>11, <1>12

\* r is the ready order and qs the waiting lists, in a circle of the processes S
\* and in lists of the processes W.
IsOrder(r, qs, S, W, nxt, wait, cur) ==
  /\ r \in Seq(S) /\ r # <<>> /\ IsInjective(r) /\ Listed(r, nxt, cur, cur)
  /\ qs \in [Queues -> Seq(W)]
  /\ \A q \in Queues :
       IsInjective(qs[q]) /\ IF wait[q] = cur THEN qs[q] = <<>> ELSE Listed(qs[q], nxt, wait[q], cur)

ChainInv == \E r, qs : IsOrder(r, qs, Ring, Waiters, next, waiting, current_running)

\* A list without repetition has at most all processes.
LEMMA AtMostAll ==
  ASSUME NEW s \in Seq(Procs), IsInjective(s)
  PROVE  Len(s) <= N
  <1>1. Cardinality(ToSet(s)) = Len(s)
    BY LengthCounts
  <1>2. ToSet(s) \subseteq Procs
    BY NonEmptyQueue
  <1>3. IsFiniteSet(Procs) /\ Cardinality(Procs) = N
    BY SchedulerAssumption, FS_Interval DEF Procs
  <1>4. Cardinality(ToSet(s)) <= Cardinality(Procs)
    BY <1>2, <1>3, FS_Subset
  <1>5. QED
    BY <1>1, <1>3, <1>4

\* The refinement mapping yields these sequences.
LEMMA OrderIsRead ==
  ASSUME NEW r, NEW qs, NEW S \in SUBSET Procs, NEW W \in SUBSET Procs, NEW nxt, NEW wait, NEW cur,
         IsOrder(r, qs, S, W, nxt, wait, cur)
  PROVE  /\ Chain(nxt, cur, cur) = r
         /\ [q \in Queues |-> IF wait[q] = cur THEN <<>> ELSE Chain(nxt, wait[q], cur)] = qs
  <1>1. /\ r \in Seq(Procs) /\ IsInjective(r) /\ Listed(r, nxt, cur, cur)
        /\ qs = [q \in Queues |-> qs[q]]
    BY DEF IsOrder
  <1>2. Chain(nxt, cur, cur) = r
    BY <1>1, AtMostAll, ChainIsListed
  <1>3. ASSUME NEW q \in Queues
        PROVE  qs[q] = IF wait[q] = cur THEN <<>> ELSE Chain(nxt, wait[q], cur)
    <2>1. CASE wait[q] = cur
      BY <2>1 DEF IsOrder
    <2>2. CASE wait[q] # cur
      <3>1. qs[q] \in Seq(Procs) /\ IsInjective(qs[q]) /\ Listed(qs[q], nxt, wait[q], cur)
        BY <2>2 DEF IsOrder
      <3>2. Chain(nxt, wait[q], cur) = qs[q]
        BY <3>1, AtMostAll, ChainIsListed
      <3>3. QED
        BY <2>2, <3>2
    <2>3. QED
      BY <2>1, <2>2
  <1>4. QED
    BY <1>1, <1>2, <1>3

\* At boot all processes are ready, in the order of the pcb array.
LEMMA InitOrder ==
  ASSUME Init
  PROVE  IsOrder([i \in 1..N |-> i], [q \in Queues |-> <<>>], Ring, Waiters, next, waiting,
                 current_running)
  <1> DEFINE r == [i \in 1..N |-> i]
             qs == [q \in Queues |-> <<>>]
  <1>1. Ring = Procs
    <2>1. current_running \in Procs /\ \A p \in Procs : state[p] \in Runnable
      BY SchedulerAssumption DEF Init, Runnable, Fresh, Procs
    <2>2. QED
      BY <2>1 DEF Ring
  <1>2. /\ N \in Nat /\ N >= 1 /\ r \in Seq(Procs) /\ Len(r) = N /\ DOMAIN r = 1..N /\ r # <<>>
        /\ \A i \in 1..N : r[i] = i
    <2>1. N \in Nat /\ N >= 1 /\ r \in [1..N -> Procs]
      BY SchedulerAssumption DEF Procs
    <2>2. r \in Seq(Procs) /\ Len(r) = N
      BY <2>1
    <2>3. QED
      BY <2>1, <2>2
  <1> HIDE DEF r
  <1>3. IsInjective(r)
    BY <1>2 DEF IsInjective
  <1>4. Listed(r, next, current_running, current_running)
    <2>1. current_running = 1 /\ r[1] = 1
      BY <1>2 DEF Init
    <2>2. ASSUME NEW i \in 1..(Len(r) - 1)
          PROVE  next[r[i]] = r[i + 1] /\ r[i + 1] # current_running
      BY <1>2, <2>1 DEF Init, Procs
    <2>3. next[r[Len(r)]] = current_running
      BY <1>2, <2>1 DEF Init, Procs
    <2>4. QED
      BY <1>2, <2>1, <2>2, <2>3 DEF Listed
  <1>5. ASSUME NEW q \in Queues
        PROVE  /\ qs[q] = <<>> /\ IsInjective(qs[q])
               /\ waiting[q] # current_running /\ Listed(qs[q], next, waiting[q], current_running)
    <2>1. qs[q] = <<>> /\ waiting[q] = NULL /\ current_running # NULL
      BY DEF Init, NULL
    <2>2. IsInjective(qs[q])
      BY <2>1, EmptyQueue
    <2>3. Len(qs[q]) = 0
      BY <2>1
    <2>4. QED
      BY <2>1, <2>2, <2>3 DEF Listed
  <1>6. qs \in [Queues -> Seq(Waiters)]
    OBVIOUS
  <1> HIDE DEF qs
  <1>7. IsOrder(r, qs, Ring, Waiters, next, waiting, current_running)
    BY <1>1, <1>2, <1>3, <1>4, <1>5, <1>6 DEF IsOrder
  <1>8. QED
    BY <1>7 DEF r, qs

\* Where the pointers of the ready list lead: from each process to the next in the
\* ready order, and from the last to the running process.
LEMMA Ends ==
  ASSUME IInv, NEW r, NEW qs, IsOrder(r, qs, Ring, Waiters, next, waiting, current_running)
  PROVE  /\ r \in Seq(Ring) /\ r \in Seq(Procs) /\ Len(r) \in Nat /\ Len(r) >= 1 /\ IsInjective(r)
         /\ r[1] = current_running
         /\ next[r[Len(r)]] = current_running /\ previous[current_running] = r[Len(r)]
         /\ \A i \in 1..(Len(r) - 1) : next[r[i]] = r[i + 1]
         /\ \A i \in 1..Len(r) : r[i] \in Ring /\ r[i] \in Procs
         /\ \A i, j \in 1..Len(r) : r[i] = r[j] => i = j
         /\ Len(r) = 1 <=> next[current_running] = current_running
  <1> USE DEF IInv
  <1> DEFINE c == current_running
  <1>1. /\ r \in Seq(Ring) /\ r # <<>> /\ IsInjective(r) /\ Listed(r, next, c, c)
    BY DEF IsOrder
  <1>2. /\ Len(r) \in Nat /\ Len(r) >= 1 /\ DOMAIN r = 1..Len(r)
        /\ \A i \in 1..Len(r) : r[i] \in Ring /\ r[i] \in Procs
        /\ r \in Seq(Procs)
    BY <1>1, Sets
  <1>3. /\ r[1] = c /\ next[r[Len(r)]] \in {NULL, c}
        /\ \A i \in 1..(Len(r) - 1) : next[r[i]] = r[i + 1] /\ r[i + 1] # c
    BY <1>1 DEF Listed
  <1>4. next[r[Len(r)]] = c /\ previous[c] = r[Len(r)]
    <2>1. r[Len(r)] \in Ring
      BY <1>2
    <2>2. next[r[Len(r)]] \in Ring /\ previous[next[r[Len(r)]]] = r[Len(r)]
      BY <2>1 DEF RingInv
    <2>3. QED
      BY <1>3, <2>2, Sets
  <1>5. \A i, j \in 1..Len(r) : r[i] = r[j] => i = j
    BY <1>1, <1>2 DEF IsInjective
  <1>6. Len(r) = 1 <=> next[c] = c
    BY <1>2, <1>3, <1>4
  <1>7. QED
    BY <1>1, <1>2, <1>3, <1>4, <1>5, <1>6

\* The same for a waiting list: its processes are off the ready list, and the last
\* points nowhere or to the running process.
LEMMA WaitEnds ==
  ASSUME IInv, NEW r, NEW qs, IsOrder(r, qs, Ring, Waiters, next, waiting, current_running),
         NEW q \in Queues
  PROVE  /\ qs[q] \in Seq(Waiters) /\ qs[q] \in Seq(Procs) /\ Len(qs[q]) \in Nat /\ IsInjective(qs[q])
         /\ qs[q] = <<>> <=> Len(qs[q]) = 0
         /\ \A i \in 1..Len(qs[q]) : /\ qs[q][i] \in Waiters /\ qs[q][i] \in Procs
                                     /\ qs[q][i] \notin Ring /\ qs[q][i] # NULL
         /\ \A i, j \in 1..Len(qs[q]) : qs[q][i] = qs[q][j] => i = j
         /\ \A i \in 1..(Len(qs[q]) - 1) : next[qs[q][i]] = qs[q][i + 1]
         /\ qs[q] # <<>> => waiting[q] = qs[q][1] /\ next[qs[q][Len(qs[q])]] \in {NULL, current_running}
         /\ qs[q] = <<>> => waiting[q] \in {NULL, current_running}
         /\ ~Linked => /\ waiting[q] # current_running
                       /\ qs[q] # <<>> => next[qs[q][Len(qs[q])]] = NULL
  <1> USE DEF IInv
  <1> DEFINE c == current_running
             s == qs[q]
  <1>1. /\ s \in Seq(Waiters) /\ IsInjective(s)
        /\ IF waiting[q] = c THEN s = <<>> ELSE Listed(s, next, waiting[q], c)
    BY DEF IsOrder
  <1> HIDE DEF s
  <1>2. /\ Len(s) \in Nat /\ s = <<>> <=> Len(s) = 0
        /\ DOMAIN s = 1..Len(s) /\ \A i \in 1..Len(s) : s[i] \in Waiters
    BY <1>1
  <1>3. \A i \in 1..Len(s) : s[i] \in Waiters /\ s[i] \in Procs /\ s[i] \notin Ring /\ s[i] # NULL
    BY <1>2, Sets
  <1>4. s \in Seq(Procs)
    BY <1>1, Sets
  <1>5. \A i, j \in 1..Len(s) : s[i] = s[j] => i = j
    BY <1>1, <1>2 DEF IsInjective
  <1>6. /\ \A i \in 1..(Len(s) - 1) : next[s[i]] = s[i + 1]
        /\ s # <<>> => waiting[q] = s[1] /\ next[s[Len(s)]] \in {NULL, c}
        /\ s = <<>> => waiting[q] \in {NULL, c}
    BY <1>1, <1>2 DEF Listed
  <1>7. ASSUME ~Linked
        PROVE  waiting[q] # c /\ (s # <<>> => next[s[Len(s)]] = NULL)
    <2>1. Target = Waiters
      BY <1>7 DEF Target
    <2>2. waiting[q] \in Waiters \cup {NULL} /\ c \notin Waiters /\ c # NULL
      BY <2>1, Sets DEF QueueInv
    <2>3. ASSUME s # <<>> PROVE next[s[Len(s)]] = NULL
      <3>1. s[Len(s)] \in Waiters
        BY <1>2, <2>3
      <3>2. next[s[Len(s)]] \in Waiters \cup {NULL}
        BY <2>1, <3>1 DEF QueueInv
      <3>3. QED
        BY <1>6, <2>2, <2>3, <3>2
    <2>4. QED
      BY <2>2, <2>3
  <1>8. QED
    BY <1>1, <1>2, <1>3, <1>4, <1>5, <1>6, <1>7 DEF s

\* No process is on two waiting lists.
LEMMA Apart ==
  ASSUME IInv, NEW r, NEW qs, IsOrder(r, qs, Ring, Waiters, next, waiting, current_running),
         NEW q \in Queues, NEW u \in Queues, q # u,
         NEW i \in 1..Len(qs[q]), NEW j \in 1..Len(qs[u])
  PROVE  qs[q][i] # qs[u][j]
  <1> USE DEF IInv
  <1> SUFFICES ASSUME qs[q][i] = qs[u][j] PROVE FALSE
    OBVIOUS
  <1> DEFINE T == {k \in 1..Len(qs[q]) : \E l \in 1..Len(qs[u]) : qs[q][k] = qs[u][l]}
  <1>1. T \subseteq Nat /\ T # {}
    <2>1. i \in T /\ T \subseteq 1..Len(qs[q])
      OBVIOUS
    <2>2. 1..Len(qs[q]) \subseteq Nat
      BY WaitEnds
    <2> HIDE DEF T
    <2>3. QED
      BY <2>1, <2>2
  <1>2. PICK k \in T : \A m \in T : k <= m
    BY <1>1, LeastElement
  <1>3. PICK l \in 1..Len(qs[u]) : k \in 1..Len(qs[q]) /\ qs[q][k] = qs[u][l]
    BY <1>2
  <1>4. /\ Len(qs[q]) \in Nat /\ Len(qs[u]) \in Nat /\ qs[q] # <<>> /\ qs[u] # <<>>
        /\ waiting[q] = qs[q][1] /\ waiting[u] = qs[u][1]
        /\ \A m \in 1..Len(qs[q]) : qs[q][m] \in Waiters /\ qs[q][m] # NULL
        /\ \A m \in 1..Len(qs[u]) : qs[u][m] \in Waiters /\ qs[u][m] # NULL
        /\ \A m \in 1..(Len(qs[q]) - 1) : next[qs[q][m]] = qs[q][m + 1]
        /\ \A m \in 1..(Len(qs[u]) - 1) : next[qs[u][m]] = qs[u][m + 1]
    <2>1. Len(qs[q]) \in Nat /\ Len(qs[u]) \in Nat
      BY WaitEnds
    <2>2. Len(qs[q]) # 0 /\ Len(qs[u]) # 0
      BY <1>3, <2>1
    <2>3. qs[q] # <<>> /\ qs[u] # <<>>
      BY <2>2, WaitEnds
    <2>4. waiting[q] = qs[q][1] /\ waiting[u] = qs[u][1]
      BY <2>3, WaitEnds
    <2>5. \A m \in 1..Len(qs[q]) : qs[q][m] \in Waiters /\ qs[q][m] # NULL
      BY WaitEnds
    <2>6. \A m \in 1..Len(qs[u]) : qs[u][m] \in Waiters /\ qs[u][m] # NULL
      BY WaitEnds
    <2>7. \A m \in 1..(Len(qs[q]) - 1) : next[qs[q][m]] = qs[q][m + 1]
      BY WaitEnds
    <2>8. \A m \in 1..(Len(qs[u]) - 1) : next[qs[u][m]] = qs[u][m + 1]
      BY WaitEnds
    <2>9. QED
      BY <2>1, <2>3, <2>4, <2>5, <2>6, <2>7, <2>8
  <1>5. /\ 1 \in 1..Len(qs[q]) /\ 1 \in 1..Len(qs[u])
        /\ k # 1 => k - 1 \in 1..Len(qs[q]) /\ next[qs[q][k - 1]] = qs[q][k]
        /\ l # 1 => l - 1 \in 1..Len(qs[u]) /\ next[qs[u][l - 1]] = qs[u][l]
    <2>1. k # 1 => k - 1 \in 1..(Len(qs[q]) - 1) /\ (k - 1) + 1 = k
      BY <1>3, <1>4
    <2>2. l # 1 => l - 1 \in 1..(Len(qs[u]) - 1) /\ (l - 1) + 1 = l
      BY <1>3, <1>4
    <2>3. QED
      BY <1>3, <1>4, <2>1, <2>2
  <1>6. CASE k = 1 /\ l = 1
    <2>1. waiting[q] = waiting[u] /\ waiting[q] # NULL
      BY <1>3, <1>4, <1>5, <1>6
    <2>2. QED
      BY <2>1 DEF QueueInv
  <1>7. CASE k = 1 /\ l # 1
    <2>1. waiting[q] # NULL /\ next[qs[u][l - 1]] = waiting[q] /\ qs[u][l - 1] \in Waiters
      BY <1>3, <1>4, <1>5, <1>7
    <2>2. QED
      BY <2>1 DEF QueueInv
  <1>8. CASE k # 1 /\ l = 1
    <2>1. waiting[u] # NULL /\ next[qs[q][k - 1]] = waiting[u] /\ qs[q][k - 1] \in Waiters
      BY <1>3, <1>4, <1>5, <1>8
    <2>2. QED
      BY <2>1 DEF QueueInv
  <1>9. CASE k # 1 /\ l # 1
    <2>1. /\ next[qs[q][k - 1]] = next[qs[u][l - 1]] /\ next[qs[q][k - 1]] # NULL
          /\ qs[q][k - 1] \in Waiters /\ qs[u][l - 1] \in Waiters
      BY <1>3, <1>4, <1>5, <1>9
    <2>2. qs[q][k - 1] = qs[u][l - 1]
      BY <2>1 DEF QueueInv
    <2>3. k - 1 \in T
      BY <1>5, <1>9, <2>2
    <2>4. ~ (k <= k - 1)
      BY <1>3, <1>4
    <2>5. QED
      BY <1>2, <2>3, <2>4
  <1>10. QED
    BY <1>6, <1>7, <1>8, <1>9

\* Everybody who waits is on one.
LEMMA AllListed ==
  ASSUME IInv, NEW r, NEW qs, IsOrder(r, qs, Ring, Waiters, next, waiting, current_running),
         NEW w \in Waiters
  PROVE  \E q \in Queues : \E i \in 1..Len(qs[q]) : qs[q][i] = w
  <1> USE DEF IInv
  <1> DEFINE On(p) == \E q \in Queues : \E i \in 1..Len(qs[q]) : qs[q][i] = p
             S == {p \in Waiters : ~On(p)}
  <1>1. ASSUME NEW p \in S PROVE \E o \in S : next[o] = p
    <2>1. p \in Waiters /\ ~On(p) /\ p # NULL /\ p # current_running
      BY <1>1, Sets
    <2>2. p \in Target
      BY <2>1 DEF Target
    <2>3. CASE \E q \in Queues : waiting[q] = p
      <3>1. PICK q \in Queues : waiting[q] = p
        BY <2>3
      <3>2. qs[q] # <<>> /\ qs[q][1] = p /\ 1 \in 1..Len(qs[q])
        BY <2>1, <3>1, WaitEnds
      <3>3. QED
        BY <2>1, <3>2
    <2>4. CASE \E o \in Waiters : next[o] = p
      <3>1. PICK o \in Waiters : next[o] = p
        BY <2>4
      <3>2. ASSUME On(o) PROVE FALSE
        <4>1. PICK q \in Queues : \E i \in 1..Len(qs[q]) : qs[q][i] = o
          BY <3>2
        <4>2. PICK i \in 1..Len(qs[q]) : qs[q][i] = o
          BY <4>1
        <4>3. i # Len(qs[q])
          BY <2>1, <3>1, <4>2, WaitEnds
        <4>4. i \in 1..(Len(qs[q]) - 1) /\ i + 1 \in 1..Len(qs[q])
          BY <4>2, <4>3, WaitEnds
        <4>5. qs[q][i + 1] = p
          BY <3>1, <4>2, <4>4, WaitEnds
        <4>6. QED
          BY <2>1, <4>4, <4>5
      <3>3. QED
        BY <3>1, <3>2
    <2>5. QED
      BY <2>2, <2>3, <2>4 DEF QueueInv
  <1>2. S \in SUBSET Waiters
    OBVIOUS
  <1> HIDE DEF S
  <1>3. S = {}
    BY <1>1, <1>2 DEF QueueInv
  <1>4. QED
    BY <1>3 DEF S

-----------------------------------------------------------------------------
\* A step that leaves the order of all lists alone: it links current_running to
\* the end of a waiting list at most.
Stays ==
  /\ current_running' = current_running /\ Ring' = Ring /\ Waiters' = Waiters
  /\ \A p \in Ring : next'[p] = next[p]
  /\ \A p \in Waiters : next'[p] = next[p] \/ (next[p] = NULL /\ next'[p] = current_running)
  /\ \A q \in Queues : waiting'[q] = waiting[q] \/ (waiting[q] = NULL /\ waiting'[q] = current_running)

LEMMA StaysOrder ==
  ASSUME IInv, NEW r, NEW qs, IsOrder(r, qs, Ring, Waiters, next, waiting, current_running), Stays
  PROVE  IsOrder(r, qs, Ring', Waiters', next', waiting', current_running')
  <1> USE DEF IInv
  <1> DEFINE c == current_running
  <1>1. Listed(r, next', c, c)
    <2>1. r # <<>> /\ Listed(r, next, c, c)
      BY DEF IsOrder
    <2>2. \A i \in 1..Len(r) : next'[r[i]] = next[r[i]]
      BY Ends DEF Stays
    <2>3. Len(r) \in 1..Len(r) /\ \A i \in 1..(Len(r) - 1) : i \in 1..Len(r)
      BY Ends
    <2>4. QED
      BY <2>1, <2>2, <2>3 DEF Listed
  <1>2. ASSUME NEW q \in Queues
        PROVE  IF waiting'[q] = c THEN qs[q] = <<>> ELSE Listed(qs[q], next', waiting'[q], c)
    <2> DEFINE s == qs[q]
    <2>1. /\ Len(s) \in Nat /\ s = <<>> <=> Len(s) = 0
          /\ \A i \in 1..Len(s) : s[i] \in Waiters /\ s[i] # NULL
          /\ \A i \in 1..(Len(s) - 1) : next[s[i]] = s[i + 1]
          /\ s # <<>> => waiting[q] = s[1] /\ next[s[Len(s)]] \in {NULL, c}
          /\ s = <<>> => waiting[q] \in {NULL, c}
      BY WaitEnds
    <2>2. c \notin Waiters /\ c # NULL
      BY Sets
    <2> HIDE DEF s
    <2>3. CASE s = <<>>
      <3>1. waiting'[q] = c \/ waiting'[q] = NULL
        BY <2>1, <2>3 DEF Stays
      <3>2. Len(s) = 0
        BY <2>1, <2>3
      <3>3. QED
        BY <2>3, <3>1, <3>2 DEF Listed, s
    <2>4. CASE s # <<>>
      <3>1. waiting'[q] = s[1] /\ s[1] \in Waiters /\ Len(s) \in 1..Len(s)
        BY <2>1, <2>4 DEF Stays
      <3>2. ASSUME NEW i \in 1..(Len(s) - 1) PROVE next'[s[i]] = s[i + 1] /\ s[i + 1] # c
        <4>1. i \in 1..Len(s) /\ i + 1 \in 1..Len(s)
          BY <2>1
        <4>2. s[i] \in Waiters /\ next[s[i]] = s[i + 1] /\ s[i + 1] \in Waiters /\ s[i + 1] # NULL
          BY <2>1, <4>1
        <4>3. QED
          BY <2>2, <4>2 DEF Stays
      <3>3. next'[s[Len(s)]] \in {NULL, c}
        BY <2>1, <2>4, <3>1 DEF Stays
      <3>4. Listed(s, next', waiting'[q], c) /\ waiting'[q] # c
        BY <2>2, <2>4, <3>1, <3>2, <3>3 DEF Listed
      <3>5. QED
        BY <3>4 DEF s
    <2>5. QED
      BY <2>3, <2>4
  <1>3. current_running' = c /\ Ring' = Ring /\ Waiters' = Waiters
    BY DEF Stays
  <1>4. /\ r \in Seq(Ring) /\ r # <<>> /\ IsInjective(r) /\ qs \in [Queues -> Seq(Waiters)]
        /\ \A q \in Queues : IsInjective(qs[q])
    BY DEF IsOrder
  <1>5. QED
    BY <1>1, <1>2, <1>3, <1>4 DEF IsOrder

\* All steps but those of scheduler() and unblock() are of this kind.
LEMMA StepsStay ==
  ASSUME IInv, \/ Boot \/ Yield \/ Exit \/ Walk \/ Link \/ Halt \/ HaltLoop \/ UNCHANGED vars
               \/ \E q \in Queues : Block(q)
  PROVE  Stays
  <1> USE DEF IInv
  <1>1. CASE Boot
    <2>1. /\ state'[current_running] = "READY"
          /\ \A p \in Procs : p # current_running => state'[p] = state[p]
          /\ UNCHANGED <<current_running, next, waiting>>
      BY <1>1 DEF Boot, Dispatched, TypeOK, ControlInv, Runnable
    <2>2. Ring' = Ring /\ Waiters' = Waiters
      BY <2>1 DEF Ring, Waiters, Runnable, Fresh
    <2>3. QED
      BY <2>1, <2>2 DEF Stays
  <1>2. CASE Yield \/ Walk \/ Halt \/ HaltLoop \/ UNCHANGED vars
    <2>1. UNCHANGED <<current_running, state, next, waiting>>
      BY <1>2 DEF Yield, Walk, Halt, HaltLoop, vars
    <2>2. QED
      BY <2>1 DEF Stays, Ring, Waiters
  <1>3. CASE Exit
    <2>1. /\ state'[current_running] = "EXITED" /\ state[current_running] = "READY"
          /\ \A p \in Procs : p # current_running => state'[p] = state[p]
          /\ UNCHANGED <<current_running, next, waiting>>
      BY <1>3 DEF Exit, Running, TypeOK, ControlInv
    <2>2. Ring' = Ring /\ Waiters' = Waiters
      BY <2>1 DEF Ring, Waiters, Runnable, Fresh, TypeOK
    <2>3. QED
      BY <2>1, <2>2 DEF Stays
  <1>4. CASE Link
    <2>1. /\ tmp \in Waiters /\ tmp \notin Ring /\ next[tmp] = NULL
          /\ Ring \subseteq Procs /\ Waiters \subseteq Procs
      BY <1>4, Sets DEF Link, ControlInv
    <2>2. /\ next'[tmp] = current_running
          /\ \A p \in Procs : p # tmp => next'[p] = next[p]
          /\ UNCHANGED <<current_running, state, waiting>>
      BY <1>4, <2>1 DEF Link, TypeOK
    <2>3. Ring' = Ring /\ Waiters' = Waiters
      BY <2>2 DEF Ring, Waiters
    <2>4. /\ \A p \in Ring : next'[p] = next[p]
          /\ \A p \in Waiters : next'[p] = next[p] \/ (next[p] = NULL /\ next'[p] = current_running)
      BY <2>1, <2>2
    <2>5. QED
      BY <2>2, <2>3, <2>4 DEF Stays
  <1>5. ASSUME NEW q \in Queues, Block(q) PROVE Stays
    <2>1. /\ state'[current_running] = "BLOCKED" /\ state[current_running] = "READY"
          /\ \A p \in Procs : p # current_running => state'[p] = state[p]
          /\ UNCHANGED <<current_running, next>>
          /\ \A u \in Queues : waiting'[u] = waiting[u]
                                 \/ (waiting[u] = NULL /\ waiting'[u] = current_running)
      BY <1>5 DEF Block, Running, TypeOK, ControlInv
    <2>2. Ring' = Ring /\ Waiters' = Waiters
      BY <2>1 DEF Ring, Waiters, Runnable, Fresh, TypeOK
    <2>3. QED
      BY <2>1, <2>2 DEF Stays
  <1>6. QED
    BY <1>1, <1>2, <1>3, <1>4, <1>5

\* A list that is left alone by a step of scheduler() or unblock(): nobody is
\* being added to it, and the running process of the next state is not on it.
LEMMA ListKept ==
  ASSUME IInv, NEW r, NEW qs, IsOrder(r, qs, Ring, Waiters, next, waiting, current_running),
         NEW q \in Queues, NEW cur, cur \notin Waiters, cur # NULL,
         waiting[q] # current_running,
         qs[q] # <<>> => next[qs[q][Len(qs[q])]] # current_running,
         waiting'[q] = waiting[q], \A i \in 1..Len(qs[q]) : next'[qs[q][i]] = next[qs[q][i]]
  PROVE  IF waiting'[q] = cur THEN qs[q] = <<>> ELSE Listed(qs[q], next', waiting'[q], cur)
  <1> DEFINE s == qs[q]
  <1>1. /\ Len(s) \in Nat /\ s = <<>> <=> Len(s) = 0
        /\ \A i \in 1..Len(s) : s[i] \in Waiters
        /\ \A i \in 1..(Len(s) - 1) : next[s[i]] = s[i + 1]
        /\ s # <<>> => waiting[q] = s[1] /\ next[s[Len(s)]] = NULL
        /\ s = <<>> => waiting[q] = NULL
    <2>1. Len(s) \in Nat /\ s = <<>> <=> Len(s) = 0
      BY WaitEnds
    <2>2. \A i \in 1..Len(s) : s[i] \in Waiters
      BY WaitEnds
    <2>3. \A i \in 1..(Len(s) - 1) : next[s[i]] = s[i + 1]
      BY WaitEnds
    <2>4. s # <<>> => waiting[q] = s[1] /\ next[s[Len(s)]] \in {NULL, current_running}
      BY WaitEnds
    <2>5. s = <<>> => waiting[q] \in {NULL, current_running}
      BY WaitEnds
    <2>6. QED
      BY <2>1, <2>2, <2>3, <2>4, <2>5
  <1>2. waiting'[q] = waiting[q] /\ \A i \in 1..Len(s) : next'[s[i]] = next[s[i]]
    OBVIOUS
  <1> HIDE DEF s
  <1>3. CASE s = <<>>
    <2>1. Len(s) = 0 /\ waiting'[q] = NULL
      BY <1>1, <1>2, <1>3
    <2>2. QED
      BY <1>3, <2>1 DEF Listed, s
  <1>4. CASE s # <<>>
    <2>1. /\ 1 \in 1..Len(s) /\ Len(s) \in 1..Len(s)
          /\ \A i \in 1..(Len(s) - 1) : i \in 1..Len(s) /\ i + 1 \in 1..Len(s)
      BY <1>1, <1>4
    <2>2. Listed(s, next', waiting'[q], cur) /\ waiting'[q] # cur
      BY <1>1, <1>2, <1>4, <2>1 DEF Listed
    <2>3. QED
      BY <2>2 DEF s
  <1>5. QED
    BY <1>3, <1>4

\* scheduler() goes on to the next ready process: the order rotates.
LEMMA RotateOrder ==
  ASSUME IInv, NEW r, NEW qs, IsOrder(r, qs, Ring, Waiters, next, waiting, current_running),
         Schedule, ~Leaves(current_running)
  PROVE  IsOrder(Append(Tail(r), Head(r)), qs, Ring', Waiters', next', waiting', current_running')
  <1> USE DEF IInv
  <1> DEFINE c == current_running
             n == next[c]
             x == Append(Tail(r), Head(r))
  <1>1. /\ state[c] = "READY" /\ c \in Procs /\ n \in Procs /\ n \in Ring /\ ~Linked
    BY Sets DEF Schedule, Leaves, ControlInv, TypeOK, RingInv, Linked
  <1>2. state[n] \in Runnable
    BY <1>1 DEF Ring, Runnable
  <1>3. /\ state'[n] = "READY"
        /\ \A p \in Procs : p # n => state'[p] = state[p]
    BY <1>1, <1>2 DEF Schedule, Dispatched, TypeOK, Runnable
  <1>4. UNCHANGED <<next, waiting>> /\ current_running' = n
    BY DEF Schedule, RemoveLeaver
  <1>5. Ring' = Ring
    BY <1>1, <1>2, <1>3, <1>4 DEF Ring, Runnable
  <1>6. Waiters' = Waiters
    BY <1>1, <1>2, <1>3, <1>4 DEF Waiters, Runnable, Fresh
  <1>7. /\ r \in Seq(Ring) /\ Len(r) \in Nat /\ Len(r) >= 1 /\ r[1] = c /\ next[r[Len(r)]] = c
        /\ \A i \in 1..(Len(r) - 1) : next[r[i]] = r[i + 1]
        /\ \A i, j \in 1..Len(r) : r[i] = r[j] => i = j
    BY Ends
  <1>8. /\ x \in Seq(Ring) /\ Len(x) = Len(r) /\ x # <<>>
        /\ \A i \in 1..(Len(r) - 1) : x[i] = r[i + 1]
        /\ x[Len(r)] = r[1]
    BY <1>7
  <1> HIDE DEF x
  <1>9. x[1] = n
    <2>1. CASE Len(r) = 1
      BY <1>7, <1>8, <2>1
    <2>2. CASE Len(r) # 1
      <3>0. PICK l \in Nat : l = Len(r) /\ l >= 1 /\ l # 1
        BY <1>7, <2>2
      <3>1. 1 \in 1..(Len(r) - 1)
        BY <3>0
      <3>2. QED
        BY <1>7, <1>8, <3>1
    <2>3. QED
      BY <2>1, <2>2
  <1>10. \A i, j \in 1..Len(x) : x[i] = x[j] => i = j
    BY <1>7, <1>8
  <1>11. IsInjective(x)
    <2>1. DOMAIN x = 1..Len(x)
      BY <1>8
    <2>2. QED
      BY <1>10, <2>1 DEF IsInjective
  <1>12. ASSUME NEW i \in 1..(Len(x) - 1) PROVE next[x[i]] = x[i + 1] /\ x[i + 1] # n
    <2>1. /\ i \in 1..Len(x) /\ i + 1 \in 1..Len(x) /\ 1 \in 1..Len(x) /\ i + 1 # 1
          /\ i \in 1..(Len(r) - 1)
      BY <1>7, <1>8
    <2>2. x[i + 1] # n
      BY <1>9, <1>10, <2>1
    <2>3. CASE i + 1 = Len(r)
      BY <1>7, <1>8, <2>1, <2>2, <2>3
    <2>4. CASE i + 1 # Len(r)
      <3>1. i + 1 \in 1..(Len(r) - 1)
        BY <1>7, <2>1, <2>4
      <3>2. next[r[i + 1]] = r[(i + 1) + 1] /\ x[i + 1] = r[(i + 1) + 1] /\ x[i] = r[i + 1]
        BY <1>7, <1>8, <2>1, <3>1
      <3>3. QED
        BY <2>2, <3>2
    <2>5. QED
      BY <2>3, <2>4
  <1>13. next[x[Len(x)]] = n
    BY <1>7, <1>8
  <1>14. Listed(x, next', n, n)
    BY <1>4, <1>8, <1>9, <1>12, <1>13 DEF Listed
  <1>15. ASSUME NEW q \in Queues
         PROVE  IF waiting'[q] = n THEN qs[q] = <<>> ELSE Listed(qs[q], next', waiting'[q], n)
    <2>1. n \notin Waiters /\ n # NULL
      BY <1>1, Sets
    <2>2. waiting[q] # c /\ (qs[q] # <<>> => next[qs[q][Len(qs[q])]] # c)
      BY <1>1, WaitEnds, Sets
    <2>3. waiting'[q] = waiting[q] /\ \A i \in 1..Len(qs[q]) : next'[qs[q][i]] = next[qs[q][i]]
      BY <1>4
    <2> HIDE DEF n
    <2>4. QED
      BY <2>1, <2>2, <2>3, ListKept
  <1>16. qs \in [Queues -> Seq(Waiters)] /\ \A q \in Queues : IsInjective(qs[q])
    BY DEF IsOrder
  <1>17. IsOrder(x, qs, Ring', Waiters', next', waiting', current_running')
    BY <1>4, <1>5, <1>6, <1>8, <1>11, <1>14, <1>15, <1>16 DEF IsOrder
  <1>18. QED
    BY <1>17 DEF x

\* scheduler() takes current_running out: the order loses its first member.
LEMMA RemoveReady ==
  ASSUME IInv, NEW r, NEW qs, IsOrder(r, qs, Ring, Waiters, next, waiting, current_running),
         Schedule, Leaves(current_running)
  PROVE  /\ Len(r) > 1 /\ Tail(r) \in Seq(Ring') /\ Tail(r) # <<>> /\ IsInjective(Tail(r))
         /\ Listed(Tail(r), next', current_running', current_running')
         /\ current_running' \in Ring /\ UNCHANGED waiting
         /\ next'[current_running] = NULL
         /\ \A p \in Waiters : next'[p] = next[p]
         /\ Waiters' = IF state[current_running] = "BLOCKED" THEN Waiters \cup {current_running}
                       ELSE Waiters
  <1> USE DEF IInv
  <1> DEFINE c == current_running
             n == next[c]
             b == previous[c]
             x == Tail(r)
  <1>1. state[c] \in {"BLOCKED", "EXITED"} /\ pc = "sched" /\ n # c
    BY DEF Schedule, Leaves, LastExits, ControlInv
  <1>2. /\ c \in Procs /\ n \in Procs /\ b \in Procs
        /\ c \in Ring /\ n \in Ring /\ b \in Ring /\ next[b] = c /\ b # c
    BY <1>1, Sets DEF RingInv
  <1>3. state[n] \in Runnable
    BY <1>1, <1>2 DEF Ring
  <1>4. /\ state'[n] = "READY"
        /\ \A p \in Procs : p # n => state'[p] = state[p]
    BY <1>2, <1>3 DEF Schedule, Dispatched, TypeOK, Runnable
  <1>5. /\ next' = [next EXCEPT ![b] = n, ![c] = NULL]
        /\ UNCHANGED waiting /\ current_running' = n
    BY DEF Schedule, RemoveLeaver, UnlinkedNext
  <1>6. /\ next'[b] = n /\ next'[c] = NULL
        /\ \A p \in Procs : p # b /\ p # c => next'[p] = next[p]
    BY <1>1, <1>2, <1>5 DEF TypeOK
  <1>7. Ring' = Ring \ {c}
    BY <1>1, <1>2, <1>3, <1>4, <1>5 DEF Ring, Runnable, Fresh
  <1>8. Waiters' = IF state[c] = "BLOCKED" THEN Waiters \cup {c} ELSE Waiters
    <2>1. \A p \in Procs : p \in Waiters' <=> state[p] = "BLOCKED"
      BY <1>3, <1>4, <1>5 DEF Waiters, Runnable, Fresh
    <2>2. \A p \in Procs : p \in Waiters <=> state[p] = "BLOCKED" /\ p # c
      BY DEF Waiters
    <2>3. Waiters' \subseteq Procs /\ Waiters \subseteq Procs
      BY DEF Waiters
    <2>4. QED
      BY <1>2, <2>1, <2>2, <2>3
  <1>9. \A p \in Waiters : next'[p] = next[p]
    BY <1>2, <1>6, Sets
  <1>10. /\ r \in Seq(Ring) /\ r \in Seq(Procs) /\ Len(r) \in Nat /\ Len(r) >= 1 /\ r[1] = c
         /\ b = r[Len(r)] /\ Len(r) # 1 /\ IsInjective(r)
         /\ \A i \in 1..(Len(r) - 1) : next[r[i]] = r[i + 1]
         /\ \A i \in 1..Len(r) : r[i] \in Ring /\ r[i] \in Procs
         /\ \A i, j \in 1..Len(r) : r[i] = r[j] => i = j
    BY <1>1, Ends
  <1>11. Len(r) > 1
    <2>1. PICK l \in Nat : l = Len(r) /\ l >= 1 /\ l # 1
      BY <1>10
    <2>2. QED
      BY <2>1
  <1>12. /\ x \in Seq(Procs) /\ Len(x) = Len(r) - 1 /\ Len(x) \in Nat /\ Len(x) >= 1 /\ x # <<>>
         /\ \A i \in 1..Len(x) : x[i] = r[i + 1]
    <2>1. r \in Seq(Procs) /\ r # <<>> /\ Len(r) \in Nat
      BY <1>10, <1>11
    <2>2. x \in Seq(Procs) /\ Len(x) = Len(r) - 1 /\ \A i \in 1..Len(x) : x[i] = r[i + 1]
      BY <2>1, HeadTailProperties
    <2> HIDE DEF x
    <2>3. Len(x) \in Nat /\ Len(x) >= 1
      BY <1>11, <2>1, <2>2
    <2>4. x # <<>>
      BY <2>3
    <2>5. QED
      BY <2>2, <2>3, <2>4
  <1>13. IsInjective(x)
    BY <1>10, <1>12, LeavesFirst
  <1> HIDE DEF x
  <1>14. \A i \in 1..Len(x) : i + 1 \in 1..Len(r) /\ x[i] \in Ring /\ x[i] # c /\ x[i] \in Procs
    <2> SUFFICES ASSUME NEW i \in 1..Len(x)
                 PROVE  i + 1 \in 1..Len(r) /\ x[i] \in Ring /\ x[i] # c /\ x[i] \in Procs
      OBVIOUS
    <2>1. i + 1 \in 1..Len(r) /\ 1 \in 1..Len(r) /\ i + 1 # 1
      BY <1>10, <1>12
    <2>2. QED
      BY <1>10, <1>12, <2>1
  <1>15. x \in Seq(Ring')
    <2>1. \A i \in 1..Len(x) : x[i] \in Ring'
      BY <1>7, <1>14
    <2>2. x \in [1..Len(x) -> Ring']
      BY <1>12, <2>1
    <2>3. QED
      BY <1>12, <2>2
  <1>16. x[1] = n
    <2>1. 1 \in 1..(Len(r) - 1) /\ 1 \in 1..Len(x)
      BY <1>10, <1>12
    <2>2. QED
      BY <1>10, <1>12, <2>1
  <1>17. \A i, j \in 1..Len(x) : x[i] = x[j] => i = j
    <2>1. DOMAIN x = 1..Len(x)
      BY <1>12
    <2>2. QED
      BY <1>13, <2>1 DEF IsInjective
  <1>18. ASSUME NEW i \in 1..(Len(x) - 1) PROVE next'[x[i]] = x[i + 1] /\ x[i + 1] # n
    <2>1. /\ i \in 1..Len(x) /\ i + 1 \in 1..Len(x) /\ 1 \in 1..Len(x) /\ i + 1 # 1
          /\ i + 1 \in 1..(Len(r) - 1) /\ Len(r) \in 1..Len(r) /\ i + 1 \in 1..Len(r) /\ i + 1 # Len(r)
      BY <1>10, <1>12
    <2>2. x[i + 1] # n
      BY <1>16, <1>17, <2>1
    <2>3. x[i] = r[i + 1] /\ x[i + 1] = r[(i + 1) + 1] /\ next[r[i + 1]] = r[(i + 1) + 1]
      BY <1>10, <1>12, <2>1
    <2>4. x[i] # b /\ x[i] # c /\ x[i] \in Procs
      BY <1>10, <1>14, <2>1, <2>3
    <2>5. QED
      BY <1>6, <2>2, <2>3, <2>4
  <1>19. x[Len(x)] = b
    <2>1. Len(x) \in 1..Len(x) /\ Len(x) + 1 = Len(r)
      BY <1>10, <1>12
    <2>2. QED
      BY <1>10, <1>12, <2>1
  <1>20. Listed(x, next', n, n)
    BY <1>6, <1>12, <1>16, <1>18, <1>19 DEF Listed
  <1>21. QED
    BY <1>2, <1>5, <1>6, <1>8, <1>9, <1>12, <1>13, <1>15, <1>20, <1>11 DEF x

\* A process that has exited is on no list any more.
LEMMA LeaveOrder ==
  ASSUME IInv, NEW r, NEW qs, IsOrder(r, qs, Ring, Waiters, next, waiting, current_running),
         Schedule, Leaves(current_running), state[current_running] # "BLOCKED"
  PROVE  IsOrder(Tail(r), qs, Ring', Waiters', next', waiting', current_running')
  <1> USE DEF IInv
  <1> DEFINE n == current_running'
  <1>1. /\ Tail(r) \in Seq(Ring') /\ Tail(r) # <<>> /\ IsInjective(Tail(r))
        /\ Listed(Tail(r), next', n, n)
        /\ n \in Ring /\ UNCHANGED waiting /\ \A p \in Waiters : next'[p] = next[p]
        /\ Waiters' = Waiters
    BY RemoveReady
  <1>2. ~Linked
    BY DEF Linked
  <1>3. ASSUME NEW q \in Queues
        PROVE  IF waiting'[q] = n THEN qs[q] = <<>> ELSE Listed(qs[q], next', waiting'[q], n)
    <2>1. n \notin Waiters /\ n # NULL
      BY <1>1, Sets
    <2>2. /\ waiting[q] # current_running
          /\ qs[q] # <<>> => next[qs[q][Len(qs[q])]] # current_running
      BY <1>2, WaitEnds, Sets
    <2>3. waiting'[q] = waiting[q] /\ \A i \in 1..Len(qs[q]) : next'[qs[q][i]] = next[qs[q][i]]
      BY <1>1, WaitEnds
    <2> HIDE DEF n
    <2>4. QED
      BY <2>1, <2>2, <2>3, ListKept
  <1>4. qs \in [Queues -> Seq(Waiters)] /\ \A q \in Queues : IsInjective(qs[q])
    BY DEF IsOrder
  <1>5. QED
    BY <1>1, <1>3, <1>4 DEF IsOrder

\* A process that has blocked is the last one of its waiting list.
LEMMA WaitOrder ==
  ASSUME IInv, NEW r, NEW qs, IsOrder(r, qs, Ring, Waiters, next, waiting, current_running),
         Schedule, Leaves(current_running), state[current_running] = "BLOCKED"
  PROVE  \E q \in Queues :
           IsOrder(Tail(r), [qs EXCEPT ![q] = Append(@, current_running)],
                   Ring', Waiters', next', waiting', current_running')
  <1> USE DEF IInv
  <1> DEFINE c == current_running
             n == current_running'
             EndsAt(q) == qs[q] # <<>> /\ next[qs[q][Len(qs[q])]] = c
  <1>1. /\ Tail(r) \in Seq(Ring') /\ Tail(r) # <<>> /\ IsInjective(Tail(r))
        /\ Listed(Tail(r), next', n, n)
        /\ n \in Ring /\ waiting' = waiting /\ next'[c] = NULL
        /\ \A p \in Waiters : next'[p] = next[p]
        /\ Waiters' = Waiters \cup {c}
    BY RemoveReady
  <1>2. /\ c \in Target /\ c \in Procs /\ c # NULL /\ c \notin Waiters
        /\ n \notin Waiters /\ n # NULL
    <2>1. Linked
      BY DEF Linked, Schedule
    <2>2. QED
      BY <1>1, <2>1, Sets DEF Target, TypeOK
  <1>3. n # c
    <2>1. n = next[c] /\ next[c] # c
      BY DEF Schedule, ControlInv
    <2>2. QED
      BY <2>1
  <1>4. PICK q \in Queues : waiting[q] = c \/ EndsAt(q)
    <2>1. CASE \E q \in Queues : waiting[q] = c
      BY <2>1
    <2>2. CASE \E p \in Waiters : next[p] = c
      <3>1. PICK p \in Waiters : next[p] = c
        BY <2>2
      <3>2. PICK q \in Queues : \E i \in 1..Len(qs[q]) : qs[q][i] = p
        BY <3>1, AllListed
      <3>3. PICK i \in 1..Len(qs[q]) : qs[q][i] = p
        BY <3>2
      <3>4. i = Len(qs[q])
        <4>1. Len(qs[q]) \in Nat
          BY WaitEnds
        <4>2. SUFFICES ASSUME i \in 1..(Len(qs[q]) - 1) PROVE FALSE
          BY <3>3, <4>1
        <4>3. i + 1 \in 1..Len(qs[q])
          BY <4>1, <4>2
        <4>4. next[qs[q][i]] = qs[q][i + 1] /\ qs[q][i + 1] \in Waiters
          BY <4>2, <4>3, WaitEnds
        <4>5. QED
          BY <1>2, <3>1, <3>3, <4>4
      <3>5. qs[q] # <<>>
        BY <3>3, <3>4, WaitEnds
      <3>6. QED
        BY <3>1, <3>3, <3>4, <3>5
    <2>3. QED
      BY <1>2, <2>1, <2>2 DEF QueueInv
  <1>5. ASSUME NEW u \in Queues, u # q PROVE waiting[u] # c /\ ~EndsAt(u)
    <2>1. \A v \in Queues : EndsAt(v) => /\ Len(qs[v]) \in 1..Len(qs[v])
                                       /\ qs[v][Len(qs[v])] \in Waiters
                                       /\ waiting[v] # c
      <3> SUFFICES ASSUME NEW v \in Queues, EndsAt(v)
                   PROVE  /\ Len(qs[v]) \in 1..Len(qs[v])
                          /\ qs[v][Len(qs[v])] \in Waiters
                          /\ waiting[v] # c
        OBVIOUS
      <3>1. Len(qs[v]) \in Nat /\ Len(qs[v]) # 0 /\ waiting[v] = qs[v][1]
            /\ \A i \in 1..Len(qs[v]) : qs[v][i] \in Waiters
        BY WaitEnds
      <3>2. Len(qs[v]) \in 1..Len(qs[v]) /\ 1 \in 1..Len(qs[v])
        BY <3>1
      <3>3. QED
        BY <1>2, <3>1, <3>2
    <2>2. ASSUME waiting[u] = c PROVE FALSE
      <3>1. waiting[q] # c
        BY <1>2, <1>5, <2>2 DEF QueueInv
      <3>2. EndsAt(q)
        BY <1>4, <3>1
      <3>3. next[qs[q][Len(qs[q])]] = waiting[u] /\ waiting[u] # NULL /\ qs[q][Len(qs[q])] \in Waiters
        BY <1>2, <2>1, <2>2, <3>2
      <3>4. QED
        BY <3>3 DEF QueueInv
    <2>3. ASSUME EndsAt(u) PROVE FALSE
      <3>1. qs[u][Len(qs[u])] \in Waiters /\ next[qs[u][Len(qs[u])]] = c
        BY <2>1, <2>3
      <3>2. waiting[q] # c
        BY <1>2, <3>1 DEF QueueInv
      <3>3. EndsAt(q)
        BY <1>4, <3>2
      <3>4. qs[q][Len(qs[q])] \in Waiters /\ next[qs[q][Len(qs[q])]] = c
        BY <2>1, <3>3
      <3>5. qs[q][Len(qs[q])] = qs[u][Len(qs[u])]
        BY <1>2, <3>1, <3>4 DEF QueueInv
      <3>6. Len(qs[q]) \in 1..Len(qs[q]) /\ Len(qs[u]) \in 1..Len(qs[u])
        BY <2>1, <2>3, <3>3
      <3>7. QED
        BY <1>5, <3>5, <3>6, Apart
    <2>4. QED
      BY <2>2, <2>3
  <1>6. ASSUME NEW u \in Queues, u # q
        PROVE  IF waiting'[u] = n THEN qs[u] = <<>> ELSE Listed(qs[u], next', waiting'[u], n)
    <2>1. /\ waiting[u] # current_running
          /\ qs[u] # <<>> => next[qs[u][Len(qs[u])]] # current_running
      BY <1>5, <1>6
    <2>2. waiting'[u] = waiting[u] /\ \A i \in 1..Len(qs[u]) : next'[qs[u][i]] = next[qs[u][i]]
      BY <1>1, WaitEnds
    <2>3. n \notin Waiters /\ n # NULL
      BY <1>2
    <2> HIDE DEF n
    <2>4. QED
      BY <2>1, <2>2, <2>3, ListKept
  <1> DEFINE s == qs[q]
             x == Append(s, c)
  <1>7. /\ s \in Seq(Waiters) /\ s \in Seq(Procs) /\ Len(s) \in Nat /\ IsInjective(s)
        /\ s = <<>> <=> Len(s) = 0
        /\ \A i \in 1..Len(s) : s[i] \in Waiters
        /\ \A i \in 1..(Len(s) - 1) : next[s[i]] = s[i + 1]
        /\ s # <<>> => waiting[q] = s[1] /\ next[s[Len(s)]] \in {NULL, c}
        /\ s = <<>> => waiting[q] \in {NULL, c}
    BY WaitEnds
  <1>8. IF s = <<>> THEN waiting[q] = c ELSE waiting[q] = s[1] /\ next[s[Len(s)]] = c
    <2>1. CASE s = <<>>
      BY <1>4, <2>1
    <2>2. CASE s # <<>>
      <3>1. waiting[q] # c
        <4>1. 1 \in 1..Len(s)
          BY <1>7, <2>2
        <4>2. QED
          BY <1>2, <1>7, <2>2, <4>1
      <3>2. QED
        BY <1>4, <1>7, <2>2, <3>1
    <2>3. QED
      BY <2>1, <2>2
  <1> HIDE DEF s
  <1>9. /\ x \in Seq(Waiters') /\ Len(x) = Len(s) + 1 /\ x # <<>>
        /\ \A i \in 1..Len(s) : x[i] = s[i]
    BY <1>1, <1>7
  <1>10. IsInjective(x)
    <2>1. c \notin ToSet(s)
      BY <1>2, <1>7, NonEmptyQueue
    <2>2. QED
      BY <1>2, <1>7, <2>1, Joins
  <1>11. x[Len(s) + 1] = c
    BY <1>2, <1>7, AppendProperties
  <1> HIDE DEF x
  <1>12. waiting'[q] = x[1] /\ waiting'[q] # n
    <2>1. CASE s = <<>>
      BY <1>1, <1>3, <1>7, <1>8, <1>11, <2>1
    <2>2. CASE s # <<>>
      <3>1. 1 \in 1..Len(s)
        BY <1>7, <2>2
      <3>2. QED
        BY <1>1, <1>2, <1>7, <1>8, <1>9, <2>2, <3>1
    <2>3. QED
      BY <2>1, <2>2
  <1>13. ASSUME NEW i \in 1..(Len(x) - 1) PROVE next'[x[i]] = x[i + 1] /\ x[i + 1] # n
    <2>1. i \in 1..Len(s) /\ s # <<>> /\ x[i] = s[i] /\ s[i] \in Waiters
      BY <1>7, <1>9
    <2>2. CASE i = Len(s)
      BY <1>1, <1>3, <1>8, <1>11, <2>1, <2>2
    <2>3. CASE i # Len(s)
      <3>1. i \in 1..(Len(s) - 1) /\ i + 1 \in 1..Len(s)
        BY <1>7, <2>1, <2>3
      <3>2. next[s[i]] = s[i + 1] /\ x[i + 1] = s[i + 1] /\ s[i + 1] \in Waiters
        BY <1>7, <1>9, <3>1
      <3>3. QED
        BY <1>1, <1>2, <2>1, <3>2
    <2>4. QED
      BY <2>2, <2>3
  <1>14. next'[x[Len(x)]] = NULL
    BY <1>1, <1>9, <1>11
  <1>15. Listed(x, next', waiting'[q], n)
    BY <1>9, <1>12, <1>13, <1>14 DEF Listed
  <1> DEFINE z == [qs EXCEPT ![q] = Append(@, c)]
  <1>16. z \in [Queues -> Seq(Waiters')] /\ z[q] = x /\ \A u \in Queues : u # q => z[u] = qs[u]
    <2>1. qs \in [Queues -> Seq(Waiters)]
      BY DEF IsOrder
    <2>2. qs \in [Queues -> Seq(Waiters')]
      BY <1>1, <2>1
    <2>3. z = [qs EXCEPT ![q] = x]
      BY <2>1 DEF x, s
    <2> HIDE DEF z
    <2>4. QED
      BY <1>9, <2>2, <2>3
  <1>17. \A u \in Queues : IsInjective(z[u])
    BY <1>10, <1>16 DEF IsOrder
  <1> HIDE DEF z
  <1>18. IsOrder(Tail(r), z, Ring', Waiters', next', waiting', n)
    BY <1>1, <1>6, <1>12, <1>15, <1>16, <1>17 DEF IsOrder
  <1>19. QED
    BY <1>18 DEF z

\* unblock() takes the first process of a waiting list behind all ready ones.
LEMMA WakeOrder ==
  ASSUME IInv, NEW r, NEW qs, IsOrder(r, qs, Ring, Waiters, next, waiting, current_running),
         NEW q \in Queues, Unblock(q)
  PROVE  /\ qs[q] # <<>>
         /\ IsOrder(Append(r, Head(qs[q])), [qs EXCEPT ![q] = Tail(@)],
                    Ring', Waiters', next', waiting', current_running')
  <1> USE DEF IInv
  <1> DEFINE c == current_running
             t == waiting[q]
             b == previous[c]
             s == qs[q]
             x == Append(r, t)
             y == Tail(s)
  <1>1. pc = "run" /\ state[c] = "READY" /\ Target = Waiters /\ ~Linked /\ t # NULL
    BY DEF Unblock, Running, ControlInv, Target, Linked
  <1>2. /\ t \in Waiters /\ t # c /\ t \in Procs /\ t \notin Ring
        /\ c \in Procs /\ c \notin Waiters /\ c # NULL
    BY <1>1, Sets DEF QueueInv
  <1>3. b \in Ring /\ b \in Procs /\ b # t /\ next[b] = c
    BY <1>2, Sets DEF RingInv
  <1>4. /\ next' = [next EXCEPT ![t] = c, ![b] = t]
        /\ state' = [state EXCEPT ![t] = "READY"]
        /\ waiting' = [waiting EXCEPT ![q] = next[t]]
        /\ current_running' = c
    BY DEF Unblock, InsertedNext
  <1>5. Ring' = Ring \cup {t} /\ Waiters' = Waiters \ {t}
    BY <1>1, <1>2, <1>4 DEF TypeOK, Ring, Waiters, Runnable, Fresh
  <1>6. /\ next'[t] = c /\ next'[b] = t
        /\ \A p \in Procs : p # t /\ p # b => next'[p] = next[p]
        /\ waiting'[q] = next[t] /\ \A u \in Queues : u # q => waiting'[u] = waiting[u]
    BY <1>2, <1>3, <1>4 DEF TypeOK
  <1>7. /\ r \in Seq(Ring) /\ r \in Seq(Procs) /\ Len(r) \in Nat /\ Len(r) >= 1 /\ IsInjective(r)
        /\ r[1] = c /\ r[Len(r)] = b
        /\ \A i \in 1..(Len(r) - 1) : next[r[i]] = r[i + 1]
        /\ \A i \in 1..Len(r) : r[i] \in Ring /\ r[i] \in Procs
        /\ \A i, j \in 1..Len(r) : r[i] = r[j] => i = j
    BY Ends
  <1>8. /\ s # <<>> /\ s \in Seq(Waiters) /\ s \in Seq(Procs) /\ Len(s) \in Nat /\ Len(s) >= 1
        /\ IsInjective(s) /\ s[1] = t /\ next[s[Len(s)]] = NULL
        /\ \A i \in 1..Len(s) : s[i] \in Waiters /\ s[i] \in Procs /\ s[i] \notin Ring
        /\ \A i, j \in 1..Len(s) : s[i] = s[j] => i = j
        /\ \A i \in 1..(Len(s) - 1) : next[s[i]] = s[i + 1]
    <2>1. s # <<>>
      BY <1>1, <1>2, WaitEnds
    <2>2. Len(s) \in Nat /\ Len(s) # 0
      BY <2>1, WaitEnds
    <2>3. Len(s) >= 1
      BY <2>2
    <2>4. s \in Seq(Waiters) /\ s \in Seq(Procs) /\ IsInjective(s)
      BY WaitEnds
    <2>5. s[1] = t /\ next[s[Len(s)]] = NULL
      BY <1>1, <2>1, WaitEnds
    <2>6. \A i \in 1..Len(s) : s[i] \in Waiters /\ s[i] \in Procs /\ s[i] \notin Ring
      BY WaitEnds
    <2>7. \A i, j \in 1..Len(s) : s[i] = s[j] => i = j
      BY WaitEnds
    <2>8. \A i \in 1..(Len(s) - 1) : next[s[i]] = s[i + 1]
      BY WaitEnds
    <2>9. QED
      BY <2>1, <2>2, <2>3, <2>4, <2>5, <2>6, <2>7, <2>8
  <1>9. Head(s) = t
    BY <1>8
  <1> HIDE DEF s
  <1>10. /\ x \in Seq(Ring') /\ Len(x) = Len(r) + 1 /\ x # <<>> /\ x[Len(r) + 1] = t
         /\ \A i \in 1..Len(r) : x[i] = r[i]
    <2>1. r \in Seq(Ring') /\ t \in Ring'
      BY <1>5, <1>7
    <2>2. QED
      BY <2>1, AppendProperties
  <1>11. IsInjective(x)
    <2>1. t \notin ToSet(r)
      BY <1>2, <1>7, NonEmptyQueue
    <2>2. QED
      BY <1>2, <1>7, <2>1, Joins
  <1> HIDE DEF x
  <1>12. ASSUME NEW i \in 1..(Len(x) - 1) PROVE next'[x[i]] = x[i + 1] /\ x[i + 1] # c
    <2>1. i \in 1..Len(r) /\ x[i] = r[i] /\ r[i] \in Ring /\ r[i] \in Procs
      BY <1>7, <1>10
    <2>2. CASE i = Len(r)
      BY <1>2, <1>6, <1>7, <1>10, <2>1, <2>2
    <2>3. CASE i # Len(r)
      <3>1. /\ i \in 1..(Len(r) - 1) /\ i + 1 \in 1..Len(r) /\ Len(r) \in 1..Len(r)
            /\ 1 \in 1..Len(r) /\ i + 1 # 1
        BY <1>7, <2>1, <2>3
      <3>2. r[i] # b /\ r[i] # t /\ r[i + 1] # c
        BY <1>2, <1>7, <2>1, <2>3, <3>1
      <3>3. next[r[i]] = r[i + 1] /\ x[i + 1] = r[i + 1]
        BY <1>7, <1>10, <3>1
      <3>4. QED
        BY <1>6, <2>1, <3>2, <3>3
    <2>4. QED
      BY <2>2, <2>3
  <1>13. Listed(x, next', c, c)
    <2>1. x[1] = c
      <3>1. 1 \in 1..Len(r)
        BY <1>7
      <3>2. QED
        BY <1>7, <1>10, <3>1
    <2>2. next'[x[Len(x)]] = c
      BY <1>6, <1>10
    <2>3. QED
      BY <1>10, <1>12, <2>1, <2>2 DEF Listed
  <1>14. /\ y \in Seq(Procs) /\ Len(y) = Len(s) - 1 /\ Len(y) \in Nat /\ IsInjective(y)
         /\ y = <<>> <=> Len(y) = 0
         /\ \A i \in 1..Len(y) : y[i] = s[i + 1]
    <2>1. y \in Seq(Procs) /\ Len(y) = Len(s) - 1 /\ \A i \in 1..Len(y) : y[i] = s[i + 1]
      BY <1>8, HeadTailProperties
    <2>2. IsInjective(y)
      BY <1>8, LeavesFirst
    <2> HIDE DEF y
    <2>3. QED
      BY <1>8, <2>1, <2>2
  <1> HIDE DEF y
  <1>15. \A i \in 1..Len(y) : /\ i + 1 \in 1..Len(s) /\ y[i] = s[i + 1] /\ y[i] \in Waiters'
                              /\ y[i] \in Procs /\ y[i] # t /\ y[i] # b /\ y[i] # c
    <2> SUFFICES ASSUME NEW i \in 1..Len(y)
                 PROVE  /\ i + 1 \in 1..Len(s) /\ y[i] = s[i + 1] /\ y[i] \in Waiters'
                        /\ y[i] \in Procs /\ y[i] # t /\ y[i] # b /\ y[i] # c
      OBVIOUS
    <2>1. i + 1 \in 1..Len(s) /\ 1 \in 1..Len(s) /\ i + 1 # 1
      BY <1>8, <1>14
    <2>2. s[i + 1] # t /\ s[i + 1] \in Waiters /\ s[i + 1] \in Procs /\ s[i + 1] \notin Ring
      BY <1>8, <2>1
    <2>3. QED
      BY <1>2, <1>3, <1>5, <1>14, <2>1, <2>2
  <1>16. y \in Seq(Waiters')
    <2>1. y \in [1..Len(y) -> Waiters']
      BY <1>14, <1>15
    <2>2. QED
      BY <1>14, <2>1
  <1>17. Listed(y, next', waiting'[q], c) /\ waiting'[q] # c
    <2>1. CASE y = <<>>
      <3>1. Len(s) = 1 /\ Len(y) = 0
        BY <1>8, <1>14, <2>1
      <3>2. waiting'[q] = NULL
        BY <1>6, <1>8, <3>1
      <3>3. QED
        BY <1>2, <2>1, <3>1, <3>2 DEF Listed
    <2>2. CASE y # <<>>
      <3>1. Len(y) \in 1..Len(y) /\ 1 \in 1..Len(y) /\ 1 \in 1..(Len(s) - 1) /\ Len(y) + 1 = Len(s)
        <4>1. Len(y) # 0
          BY <1>14, <2>2
        <4>2. QED
          BY <1>8, <1>14, <4>1
      <3>2. waiting'[q] = y[1] /\ y[1] # c
        BY <1>6, <1>8, <1>15, <3>1
      <3>3. ASSUME NEW i \in 1..(Len(y) - 1) PROVE next'[y[i]] = y[i + 1] /\ y[i + 1] # c
        <4>1. i \in 1..Len(y) /\ i + 1 \in 1..Len(y) /\ i + 1 \in 1..(Len(s) - 1)
          BY <1>8, <1>14
        <4>2. next[s[i + 1]] = s[(i + 1) + 1] /\ y[i] = s[i + 1] /\ y[i + 1] = s[(i + 1) + 1]
          BY <1>8, <1>14, <4>1
        <4>3. y[i] \in Procs /\ y[i] # t /\ y[i] # b /\ y[i + 1] # c
          BY <1>15, <4>1
        <4>4. QED
          BY <1>6, <4>2, <4>3
      <3>4. next'[y[Len(y)]] = NULL
        BY <1>6, <1>8, <1>15, <3>1
      <3>5. QED
        BY <2>2, <3>2, <3>3, <3>4 DEF Listed
    <2>3. QED
      BY <2>1, <2>2
  <1>18. ASSUME NEW u \in Queues, u # q
         PROVE  /\ qs[u] \in Seq(Waiters') /\ IsInjective(qs[u])
                /\ IF waiting'[u] = c THEN qs[u] = <<>> ELSE Listed(qs[u], next', waiting'[u], c)
    <2>1. \A i \in 1..Len(qs[u]) : qs[u][i] # t
      <3> SUFFICES ASSUME NEW i \in 1..Len(qs[u]) PROVE qs[u][i] # t
        OBVIOUS
      <3>1. 1 \in 1..Len(qs[q]) /\ qs[q][1] = t
        BY <1>8 DEF s
      <3>2. QED
        BY <1>18, <3>1, Apart
    <2>2. /\ Len(qs[u]) \in Nat /\ qs[u] \in Seq(Procs) /\ IsInjective(qs[u])
          /\ \A i \in 1..Len(qs[u]) : qs[u][i] \in Waiters /\ qs[u][i] \in Procs /\ qs[u][i] \notin Ring
          /\ waiting[u] # c /\ (qs[u] # <<>> => next[qs[u][Len(qs[u])]] = NULL)
      BY <1>1, WaitEnds
    <2>3. \A i \in 1..Len(qs[u]) : qs[u][i] \in Waiters' /\ next'[qs[u][i]] = next[qs[u][i]]
      BY <1>3, <1>5, <1>6, <2>1, <2>2
    <2>4. qs[u] \in [1..Len(qs[u]) -> Waiters']
      BY <2>2, <2>3
    <2>5. qs[u] \in Seq(Waiters')
      BY <2>2, <2>4
    <2>6. IF waiting'[u] = c THEN qs[u] = <<>> ELSE Listed(qs[u], next', waiting'[u], c)
      <3>1. waiting'[u] = waiting[u]
        BY <1>6, <1>18
      <3>2. qs[u] # <<>> => next[qs[u][Len(qs[u])]] # c
        BY <1>2, <2>2
      <3>3. QED
        BY <1>2, <2>2, <2>3, <3>1, <3>2, ListKept
    <2>7. QED
      BY <2>2, <2>5, <2>6
  <1> DEFINE z == [qs EXCEPT ![q] = Tail(@)]
  <1>19. z \in [Queues -> Seq(Waiters')] /\ z[q] = y /\ \A u \in Queues : u # q => z[u] = qs[u]
    <2>1. qs \in [Queues -> Seq(Waiters)]
      BY DEF IsOrder
    <2>2. /\ z[q] = y /\ DOMAIN z = Queues /\ z = [u \in Queues |-> z[u]]
          /\ \A u \in Queues : u # q => z[u] = qs[u]
      BY <2>1 DEF y, s
    <2> HIDE DEF z
    <2>3. \A u \in Queues : z[u] \in Seq(Waiters')
      BY <1>16, <1>18, <2>2
    <2>4. QED
      BY <2>2, <2>3
  <1> HIDE DEF z
  <1>20. IsOrder(x, z, Ring', Waiters', next', waiting', current_running')
    BY <1>4, <1>10, <1>11, <1>13, <1>14, <1>17, <1>18, <1>19 DEF IsOrder
  <1>21. QED
    BY <1>8, <1>9, <1>20 DEF x, z, s

\* The mapping of the refinement, now and in the next state
LEMMA Mapped ==
  ASSUME TypeOK, TypeOK', NEW r, NEW qs, NEW x, NEW z,
         IsOrder(r, qs, Ring, Waiters, next, waiting, current_running),
         IsOrder(x, z, Ring', Waiters', next', waiting', current_running')
  PROVE  /\ Chain(next, current_running, current_running) = r
         /\ [q \in Queues |-> QueueOf(q)] = qs
         /\ Chain(next', current_running', current_running') = x
         /\ [q \in Queues |-> QueueOf(q)'] = z
  <1>1. Ring \subseteq Procs /\ Waiters \subseteq Procs
    BY DEF TypeOK, Ring, Waiters
  <1>2. Ring' \subseteq Procs /\ Waiters' \subseteq Procs
    BY DEF TypeOK, Ring, Waiters
  <1>3. Chain(next, current_running, current_running) = r /\ [q \in Queues |-> QueueOf(q)] = qs
    BY <1>1, OrderIsRead DEF QueueOf
  <1>4. Chain(next', current_running', current_running') = x /\ [q \in Queues |-> QueueOf(q)'] = z
    BY <1>2, OrderIsRead DEF QueueOf
  <1>5. QED
    BY <1>3, <1>4

\* Every step of scheduler.c is a step of the round robin, or changes no order.
LEMMA StepImplements ==
  ASSUME LoneBlock = FALSE, IInv, ChainInv, [Next]_vars
  PROVE  ChainInv' /\ [RR!Next]_(RR!rrvars)
  <1>1. PICK r, qs : IsOrder(r, qs, Ring, Waiters, next, waiting, current_running)
    BY DEF ChainInv
  <1>2. TypeOK /\ TypeOK'
    BY NextIInv DEF IInv
  <1>3. ASSUME \/ Boot \/ Yield \/ Exit \/ Walk \/ Link \/ Halt \/ HaltLoop \/ UNCHANGED vars
               \/ \E q \in Queues : Block(q)
        PROVE  ChainInv' /\ [RR!Next]_(RR!rrvars)
    <2>1. IsOrder(r, qs, Ring', Waiters', next', waiting', current_running')
      BY <1>1, <1>3, StepsStay, StaysOrder
    <2>2. UNCHANGED RR!rrvars
      BY <1>1, <1>2, <2>1, Mapped DEF RR!rrvars
    <2>3. QED
      BY <2>1, <2>2 DEF ChainInv
  <1>4. ASSUME Schedule, ~Leaves(current_running)
        PROVE  ChainInv' /\ [RR!Next]_(RR!rrvars)
    <2>1. IsOrder(Append(Tail(r), Head(r)), qs, Ring', Waiters', next', waiting', current_running')
      BY <1>1, <1>4, RotateOrder
    <2>2. RR!Rotate
      BY <1>1, <1>2, <2>1, Mapped DEF RR!Rotate
    <2>3. QED
      BY <2>1, <2>2 DEF ChainInv, RR!Next
  <1>5. ASSUME Schedule, Leaves(current_running), state[current_running] # "BLOCKED"
        PROVE  ChainInv' /\ [RR!Next]_(RR!rrvars)
    <2>1. IsOrder(Tail(r), qs, Ring', Waiters', next', waiting', current_running') /\ Len(r) > 1
      BY <1>1, <1>5, LeaveOrder, RemoveReady
    <2>2. RR!Leave
      BY <1>1, <1>2, <2>1, Mapped DEF RR!Leave
    <2>3. QED
      BY <2>1, <2>2 DEF ChainInv, RR!Next
  <1>6. ASSUME Schedule, Leaves(current_running), state[current_running] = "BLOCKED"
        PROVE  ChainInv' /\ [RR!Next]_(RR!rrvars)
    <2>1. PICK q \in Queues :
            IsOrder(Tail(r), [qs EXCEPT ![q] = Append(@, current_running)],
                    Ring', Waiters', next', waiting', current_running')
      BY <1>1, <1>6, WaitOrder
    <2>2. Len(r) > 1 /\ Head(r) = current_running
      BY <1>1, <1>6, RemoveReady, Ends
    <2>3. /\ Chain(next, current_running, current_running) = r
          /\ [u \in Queues |-> QueueOf(u)] = qs
          /\ Chain(next', current_running', current_running') = Tail(r)
          /\ [u \in Queues |-> QueueOf(u)'] = [qs EXCEPT ![q] = Append(@, Head(r))]
      BY <1>1, <1>2, <2>1, <2>2, Mapped
    <2>4. RR!Wait(q)
      BY <2>2, <2>3 DEF RR!Wait
    <2>5. QED
      BY <2>1, <2>4 DEF ChainInv, RR!Next
  <1>7. ASSUME NEW q \in Queues, Unblock(q)
        PROVE  ChainInv' /\ [RR!Next]_(RR!rrvars)
    <2>1. /\ qs[q] # <<>>
          /\ IsOrder(Append(r, Head(qs[q])), [qs EXCEPT ![q] = Tail(@)],
                     Ring', Waiters', next', waiting', current_running')
      BY <1>1, <1>7, WakeOrder
    <2>2. /\ Chain(next, current_running, current_running) = r
          /\ [u \in Queues |-> QueueOf(u)] = qs
          /\ Chain(next', current_running', current_running') = Append(r, Head(qs[q]))
          /\ [u \in Queues |-> QueueOf(u)'] = [qs EXCEPT ![q] = Tail(@)]
      BY <1>1, <1>2, <2>1, Mapped
    <2>3. RR!Wake(q)
      BY <2>1, <2>2 DEF RR!Wake
    <2>4. QED
      BY <2>1, <2>3 DEF ChainInv, RR!Next
  <1>8. QED
    BY <1>3, <1>4, <1>5, <1>6, <1>7 DEF Next

\* For any number of processes and waiting lists the pointers of scheduler.c
\* implement the round robin: a yield rotates the ready order, block() and exit()
\* take its first process out, unblock() puts the one that has waited longest
\* behind all others, and nothing else changes any order.
THEOREM RefinesRoundRobin ==
  ASSUME LoneBlock = FALSE
  PROVE  Spec => ImplementsRoundRobin
  <1>1. Init => ChainInv /\ RR!Init
    <2> SUFFICES ASSUME Init PROVE ChainInv /\ RR!Init
      OBVIOUS
    <2>1. Ring \subseteq Procs /\ Waiters \subseteq Procs
      BY InitIInv DEF IInv, TypeOK, Ring, Waiters
    <2>2. PICK r, qs : r = [i \in 1..N |-> i] /\ qs = [q \in Queues |-> <<>>]
      OBVIOUS
    <2>3. IsOrder(r, qs, Ring, Waiters, next, waiting, current_running)
      BY <2>2, InitOrder
    <2>4. /\ Chain(next, current_running, current_running) = r
          /\ [q \in Queues |-> QueueOf(q)] = qs
      BY <2>1, <2>3, OrderIsRead DEF QueueOf
    <2>5. QED
      BY <2>2, <2>3, <2>4 DEF ChainInv, RR!Init
  <1>2. IInv /\ ChainInv /\ [Next]_vars => ChainInv' /\ [RR!Next]_(RR!rrvars)
    BY StepImplements
  <1>3. QED
    BY <1>1, <1>2, Invariance, PTL DEF Spec, ImplementsRoundRobin, RR!Spec
=============================================================================
