----------------------------- MODULE RoundRobin -----------------------------
(***************************************************************************)
(* What the scheduler promises, without pointers: the ready processes take *)
(* turns in a fixed order, a process that becomes ready goes to the end of *)
(* that order, and every waiting list is first in, first out.              *)
(***************************************************************************)
EXTENDS Integers, Sequences

CONSTANTS N, Queues

VARIABLES ready,   \* the ready processes, the running one first
          queue    \* the processes on each waiting list, oldest first

rrvars == <<ready, queue>>

Init == /\ ready = [i \in 1..N |-> i]
        /\ queue = [q \in Queues |-> <<>>]

\* The running process goes behind all others.
Rotate == /\ ready' = Append(Tail(ready), Head(ready))
          /\ UNCHANGED queue

\* The running process leaves the ready order for the end of a waiting list.
Wait(q) == /\ Len(ready) > 1
           /\ ready' = Tail(ready)
           /\ queue' = [queue EXCEPT ![q] = Append(@, Head(ready))]

\* The running process leaves for good.
Leave == /\ Len(ready) > 1
         /\ ready' = Tail(ready)
         /\ UNCHANGED queue

\* The process that has waited longest becomes ready.
Wake(q) == /\ queue[q] # <<>>
           /\ ready' = Append(ready, Head(queue[q]))
           /\ queue' = [queue EXCEPT ![q] = Tail(@)]

Next == \/ Rotate
        \/ Leave
        \/ \E q \in Queues : Wait(q) \/ Wake(q)

Spec == Init /\ [][Next]_rrvars
=============================================================================
