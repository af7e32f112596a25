------------------------- MODULE SchedulerRefinement -------------------------
(***************************************************************************)
(* The linked lists of scheduler.c implement RoundRobin: the ready order is *)
(* read off the next pointers from current_running, and each waiting list   *)
(* off the next pointers from its head.                                     *)
(***************************************************************************)
EXTENDS Scheduler, Sequences

\* What is reached from `from' in i steps along the pointers nxt: null from the
\* null pointer or `stop' on
Along(nxt, from, stop) ==
  LET at[i \in 0..N] ==
        IF i = 0 THEN from
        ELSE IF at[i - 1] = NULL THEN NULL
        ELSE IF nxt[at[i - 1]] = stop THEN NULL ELSE nxt[at[i - 1]]
  IN  at

\* The list from `from' up to there
Chain(nxt, from, stop) ==
  LET at == Along(nxt, from, stop)
      len == CHOOSE n \in 0..N : at[n] = NULL /\ \A i \in 0..(n - 1) : at[i] # NULL
  IN  [i \in 1..len |-> at[i - 1]]

\* A process that block() has linked in is still on the ready list, so a
\* waiting list ends in front of current_running.
QueueOf(q) == IF waiting[q] = current_running THEN <<>>
              ELSE Chain(next, waiting[q], current_running)

RR == INSTANCE RoundRobin
        WITH ready <- Chain(next, current_running, current_running),
             queue <- [q \in Queues |-> QueueOf(q)]

\* Every step of scheduler.c is a step of the abstract round robin: the order
\* of the ready list changes only by rotation, by leaving and by joining at
\* the end, and the waiting lists are first in, first out.
ImplementsRoundRobin == RR!Spec
=============================================================================
