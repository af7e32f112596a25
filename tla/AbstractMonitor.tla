--------------------------- MODULE AbstractMonitor ---------------------------
(***************************************************************************)
(* What a lock with condition variables promises its users: one owner,     *)
(* ownership passed on in order of arrival, and waiting threads woken in   *)
(* the order in which they began to wait.  With AtomicWait a thread gives  *)
(* up the lock and starts to wait in one step, so whoever enters next can  *)
(* wake it; without, it dozes in between, and a wake-up misses it.         *)
(***************************************************************************)
EXTENDS Integers, Sequences, SequencesExt

CONSTANTS Threads, Conds, Nobody, AtomicWait

VARIABLES owner,   \* the thread that has the lock, or Nobody
          entry,   \* the threads queued for the lock
          dozing,  \* threads that gave up the lock to wait but do not wait yet
          sleep    \* the threads waiting on each condition variable

amvars == <<owner, entry, dozing, sleep>>

Init == /\ owner = Nobody
        /\ entry = <<>>
        /\ dozing = {}
        /\ sleep = [c \in Conds |-> <<>>]

Absent(t) == /\ t # owner
             /\ t \notin ToSet(entry) \cup dozing
             /\ \A c \in Conds : t \notin ToSet(sleep[c])

\* A thread asks for the lock.
Enter(t) == /\ Absent(t)
            /\ \/ owner = Nobody /\ owner' = t /\ UNCHANGED entry
               \/ owner # Nobody /\ entry' = Append(entry, t) /\ UNCHANGED owner
            /\ UNCHANGED <<dozing, sleep>>

\* The lock goes to the first in the queue.
PassOn == IF entry = <<>> THEN owner' = Nobody /\ UNCHANGED entry
          ELSE owner' = Head(entry) /\ entry' = Tail(entry)

Leave == /\ owner # Nobody
         /\ PassOn
         /\ UNCHANGED <<dozing, sleep>>

Wait(c) == /\ AtomicWait
           /\ owner # Nobody
           /\ sleep' = [sleep EXCEPT ![c] = Append(@, owner)]
           /\ PassOn
           /\ UNCHANGED dozing

Doze == /\ ~AtomicWait
        /\ owner # Nobody
        /\ dozing' = dozing \cup {owner}
        /\ PassOn
        /\ UNCHANGED sleep

FallAsleep(t, c) == /\ t \in dozing
                    /\ dozing' = dozing \ {t}
                    /\ sleep' = [sleep EXCEPT ![c] = Append(@, t)]
                    /\ UNCHANGED <<owner, entry>>

\* A wake-up takes one thread, or all of them, from the front.
Wake(c) == /\ sleep[c] # <<>>
           /\ \E rest \in {Tail(sleep[c]), <<>>} : sleep' = [sleep EXCEPT ![c] = rest]
           /\ UNCHANGED <<owner, entry, dozing>>

Next == \/ Leave
        \/ Doze
        \/ \E t \in Threads : Enter(t) \/ \E c \in Conds : FallAsleep(t, c)
        \/ \E c \in Conds : Wait(c) \/ Wake(c)

Spec == Init /\ [][Next]_amvars
=============================================================================
