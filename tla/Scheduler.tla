------------------------------ MODULE Scheduler ------------------------------
(***************************************************************************)
(* The process scheduler of scheduler/scheduler.c on its own data          *)
(* structure: PCBs linked by `next' and `previous' into one circular ready *)
(* list through current_running, and by `next' alone into the waiting      *)
(* lists that block() and unblock() work on.                               *)
(*                                                                         *)
(* The machine has one processor and scheduler.c runs either cooperatively *)
(* or with interrupts off, so exactly one control point, pc, is active:    *)
(*   "boot"    the kernel is about to dispatch its first process           *)
(*   "run"     current_running executes its own code                       *)
(*   "walk"    inside block(), walking the waiting list with tmp           *)
(*   "sched"   inside scheduler_entry(), about to run scheduler()          *)
(*   "halted"  the `while(1)' after the last process has exited            *)
(* PCBs are 1..N in the order of the kernel's pcb array; 0 is the null     *)
(* pointer.                                                                *)
(***************************************************************************)
EXTENDS Integers

CONSTANTS N,          \* number of PCBs the kernel links into the ready list
          Threads,    \* the PCBs of kernel threads; the others are processes
          Queues,     \* the waiting lists (one per lock, condition, ...)
          LoneBlock   \* may the only ready process call block()?

Procs == 1..N

NULL == 0

ASSUME SchedulerAssumption ==
  /\ N \in Nat \ {0}
  /\ Threads \subseteq Procs
  /\ LoneBlock \in BOOLEAN

VARIABLES current_running,  \* the PCB that owns the processor
          state,            \* pcb->state
          next, previous,   \* pcb->next, pcb->previous
          waiting,          \* the head pointer of each waiting list
          pc,               \* the processor's control point
          tmp               \* block()'s cursor

vars == <<current_running, state, next, previous, waiting, pc, tmp>>

Fresh == {"FIRST_TIME", "FIRST_TIME_THREAD"}

Runnable == Fresh \cup {"READY"}

Status == Runnable \cup {"BLOCKED", "EXITED"}

-----------------------------------------------------------------------------
(***************************************************************************)
(* The kernel links all PCBs into the ready list before it starts the      *)
(* first one.                                                              *)
(***************************************************************************)
Init ==
  /\ current_running = 1
  /\ state = [p \in Procs |->
                IF p \in Threads THEN "FIRST_TIME_THREAD" ELSE "FIRST_TIME"]
  /\ next = [p \in Procs |-> IF p = N THEN 1 ELSE p + 1]
  /\ previous = [p \in Procs |-> IF p = 1 THEN N ELSE p - 1]
  /\ waiting = [q \in Queues |-> NULL]
  /\ pc = "boot"
  /\ tmp = NULL

\* dispatch() changes the state of a process the first time it is picked.
Dispatched(s, p) == IF s[p] \in Fresh THEN [s EXCEPT ![p] = "READY"] ELSE s

\* The kernel's first call of dispatch().
Boot ==
  /\ pc = "boot"
  /\ state' = Dispatched(state, current_running)
  /\ pc' = "run"
  /\ UNCHANGED <<current_running, next, previous, waiting, tmp>>

\* current_running executes code of its own.  Its ready-list pointers are not
\* null: a process whose pointers have been cleared is outside this model.
Running == pc = "run" /\ next[current_running] # NULL

\* yield(), or the timer interrupt: enter the scheduler, still ready.
Yield ==
  /\ Running
  /\ pc' = "sched"
  /\ UNCHANGED <<current_running, state, next, previous, waiting, tmp>>

\* exit()
Exit ==
  /\ Running
  /\ state' = [state EXCEPT ![current_running] = "EXITED"]
  /\ pc' = "sched"
  /\ UNCHANGED <<current_running, next, previous, waiting, tmp>>

(***************************************************************************)
(* block(q): an empty list gets current_running as its head, otherwise the *)
(* walk to the end of the list begins.  Nothing in scheduler.c stops the   *)
(* only ready process from blocking; LoneBlock = FALSE is the assumption   *)
(* that the kernel always keeps another process ready.                     *)
(***************************************************************************)
Block(q) ==
  /\ Running
  /\ LoneBlock \/ next[current_running] # current_running
  /\ state' = [state EXCEPT ![current_running] = "BLOCKED"]
  /\ \/ /\ waiting[q] = NULL
        /\ waiting' = [waiting EXCEPT ![q] = current_running]
        /\ pc' = "sched"
        /\ UNCHANGED tmp
     \/ /\ waiting[q] # NULL
        /\ tmp' = waiting[q]
        /\ pc' = "walk"
        /\ UNCHANGED waiting
  /\ UNCHANGED <<current_running, next, previous>>

\* while(tmp->next != 0) tmp = tmp->next
Walk ==
  /\ pc = "walk"
  /\ next[tmp] # NULL
  /\ tmp' = next[tmp]
  /\ UNCHANGED <<current_running, state, next, previous, waiting, pc>>

\* tmp->next = current_running, then scheduler_entry().  The next pointer of
\* current_running still belongs to the ready list; scheduler() clears it.
Link ==
  /\ pc = "walk"
  /\ next[tmp] = NULL
  /\ next' = [next EXCEPT ![tmp] = current_running]
  /\ pc' = "sched"
  /\ UNCHANGED <<current_running, state, previous, waiting, tmp>>

-----------------------------------------------------------------------------
(***************************************************************************)
(* scheduler(): a blocked or exited process leaves the ready list and      *)
(* loses its pointers, the next one is picked and dispatched.              *)
(***************************************************************************)
Leaves(p) == state[p] \in {"BLOCKED", "EXITED"}

\* Mutant: any exit stops the kernel.
LastExitsAny == state[current_running] = "EXITED"

LastExits == state[current_running] = "EXITED"
               /\ next[current_running] = current_running

\* Mutant: the next pointer of the process that leaves keeps its value.
UnlinkedNextKept(p) == [next EXCEPT ![previous[p]] = next[p]]

UnlinkedNext(p) == [next EXCEPT ![previous[p]] = next[p], ![p] = NULL]

UnlinkedPrevious(p) == [previous EXCEPT ![next[p]] = previous[p], ![p] = NULL]

RemoveLeaver ==
  /\ next' = IF Leaves(current_running)
             THEN UnlinkedNext(current_running) ELSE next
  /\ previous' = IF Leaves(current_running)
                 THEN UnlinkedPrevious(current_running) ELSE previous

Schedule ==
  /\ pc = "sched"
  /\ ~LastExits
  /\ RemoveLeaver
  /\ current_running' = next[current_running]
  /\ state' = Dispatched(state, next[current_running])
  /\ pc' = "run"
  /\ UNCHANGED <<waiting, tmp>>

\* "nothing left to run, loop forever"
Halt ==
  /\ pc = "sched"
  /\ LastExits
  /\ pc' = "halted"
  /\ UNCHANGED <<current_running, state, next, previous, waiting, tmp>>

HaltLoop == pc = "halted" /\ UNCHANGED vars

-----------------------------------------------------------------------------
\* Mutant: the process in front of current_running is not linked to t.
InsertedNextHalf(t) == [next EXCEPT ![t] = current_running]

\* unblock() puts t between current_running->previous and current_running.
InsertedNext(t) ==
  [next EXCEPT ![t] = current_running, ![previous[current_running]] = t]

InsertedPrevious(t) ==
  [previous EXCEPT ![t] = previous[current_running], ![current_running] = t]

\* Mutant: the unblocked process is put in front of everybody else.
UnblockToFront(q) ==
  LET t == waiting[q] c == current_running IN
  /\ Running
  /\ t # NULL
  /\ waiting' = [waiting EXCEPT ![q] = next[t]]
  /\ state' = [state EXCEPT ![t] = "READY"]
  /\ next' = [next EXCEPT ![t] = next[c], ![c] = t]
  /\ previous' = [previous EXCEPT ![next[c]] = t, ![t] = c]
  /\ UNCHANGED <<current_running, pc, tmp>>

\* unblock(q); every caller tests that the list is not empty.
Unblock(q) ==
  LET t == waiting[q] IN
  /\ Running
  /\ t # NULL
  /\ waiting' = [waiting EXCEPT ![q] = next[t]]
  /\ state' = [state EXCEPT ![t] = "READY"]
  /\ next' = InsertedNext(t)
  /\ previous' = InsertedPrevious(t)
  /\ UNCHANGED <<current_running, pc, tmp>>

-----------------------------------------------------------------------------
Next ==
  \/ Boot
  \/ Yield
  \/ Exit
  \/ \E q \in Queues : Block(q) \/ Unblock(q)
  \/ Walk
  \/ Link
  \/ Schedule
  \/ Halt
  \/ HaltLoop

Spec == Init /\ [][Next]_vars

(***************************************************************************)
(* The processor keeps executing kernel code, and the timer interrupt      *)
(* (irq0_entry) makes a running process enter the scheduler.               *)
(***************************************************************************)
Fairness == WF_vars(Boot) /\ WF_vars(Walk) /\ WF_vars(Link)
              /\ WF_vars(Schedule) /\ WF_vars(Halt) /\ WF_vars(Yield)

FairSpec == Spec /\ Fairness

-----------------------------------------------------------------------------
\* Every variable has its type.
TypeOK ==
  /\ current_running \in Procs
  /\ state \in [Procs -> Status]
  /\ next \in [Procs -> Procs \cup {NULL}]
  /\ previous \in [Procs -> Procs \cup {NULL}]
  /\ waiting \in [Queues -> Procs \cup {NULL}]
  /\ pc \in {"boot", "run", "walk", "sched", "halted"}
  /\ tmp \in Procs \cup {NULL}

\* The processes on the ready list: those that can run, and current_running
\* until scheduler() has taken it out.
Ring == {p \in Procs : state[p] \in Runnable} \cup {current_running}

\* The processes on a waiting list, without one that is being added to it.
Waiters == {p \in Procs : state[p] = "BLOCKED"} \ {current_running}

\* block() has linked current_running into a waiting list and scheduler() has
\* not yet taken it from the ready list.
Linked == pc = "sched" /\ state[current_running] = "BLOCKED"

\* The ready list is one doubly linked circle of exactly the ready processes:
\* both pointers of a member lead to members and undo each other, and no part
\* of it is closed under next, through every removal in scheduler() and every
\* insertion in unblock().
RingInv ==
  /\ \A p \in Ring : /\ next[p] \in Ring
                     /\ previous[p] \in Ring
                     /\ next[previous[p]] = p
                     /\ previous[next[p]] = p
  /\ \A S \in SUBSET Ring :
       S # {} /\ (\A p \in S : next[p] \in S) => S = Ring

Target == Waiters \cup (IF Linked THEN {current_running} ELSE {})

\* The waiting lists share no process with the ready list or with each other,
\* nobody is on a list twice, and nobody who is blocked has dropped off: each
\* process that waits is the head of a list or the successor of a waiter, and
\* no set of waiters is left that only its own members point to.
QueueInv ==
  /\ \A p \in Waiters : previous[p] = NULL /\ next[p] \in Target \cup {NULL}
  /\ \A q \in Queues : waiting[q] \in Target \cup {NULL}
  /\ \A p, r \in Waiters : next[p] = next[r] /\ next[p] # NULL => p = r
  /\ \A q, r \in Queues : waiting[q] = waiting[r] /\ waiting[q] # NULL => q = r
  /\ \A q \in Queues, p \in Waiters : waiting[q] # NULL => next[p] # waiting[q]
  /\ \A w \in Target : \/ \E q \in Queues : waiting[q] = w
                       \/ \E p \in Waiters : next[p] = w
  /\ \A S \in SUBSET Waiters :
       (\A w \in S : \E p \in S : next[p] = w) => S = {}

\* Only a process that is neither blocked nor exited ever executes its own
\* code, and the kernel stops only when no process is ready.
RunningReady ==
  /\ pc = "run" => state[current_running] = "READY"
  /\ pc = "halted" => \A p \in Procs : state[p] \notin Runnable

\* Round robin starves nobody: a ready process gets the processor again,
\* however often the others block and unblock each other.
NoStarvation ==
  \A p \in Procs :
    state[p] \in Runnable ~> (pc = "run" /\ current_running = p)
=============================================================================
