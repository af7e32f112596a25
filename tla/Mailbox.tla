------------------------------- MODULE Mailbox -------------------------------
(***************************************************************************)
(* One mailbox of mailbox/mbox.c: a circular buffer in a monitor (lock l,  *)
(* conditions moreSpace and moreData), with the lock and the conditions of *)
(* module Monitor.  A message is a sequence of bytes; in the buffer a      *)
(* header cell with its length comes first (the four bytes of m->size).    *)
(*                                                                         *)
(* op[t] is the function thread t is in and stage[t] the part of it that   *)
(* comes next, when t has the lock: "body", "wake" the threads waiting on  *)
(* a condition, "rel"ease; "init" and "zero" are the resets in             *)
(* mbox_close().  Threads are preempted between any two of these.          *)
(***************************************************************************)
EXTENDS Monitor

CONSTANTS BUFFER_SIZE,
          Messages,         \* the messages that are sent
          Senders,          \* threads that call mbox_stat() and mbox_send()
          Receivers,        \* threads that call mbox_recv()
          moreSpace, moreData,
          OpenCloseRace     \* may mbox_open() and mbox_close() overlap?

ASSUME MailboxAssumption ==
  /\ BUFFER_SIZE \in Nat \ {0}
  /\ Messages \subseteq Seq(Nat)
  /\ Conds = {moreSpace, moreData} /\ moreSpace # moreData

HEADER == 1

VARIABLES used, count, head, tail, buffer,  \* the fields of Q[q]
          op, stage,
          handle,  \* has the thread opened the mailbox?
          msg,     \* the msg_t a thread passes to mbox_send() and mbox_recv()
          space    \* what mbox_stat() last told the thread, or -1

fields == <<used, count, head, tail, buffer>>

locals == <<op, stage, handle, msg, space>>

mboxvars == <<monvars, fields, locals>>

Cells == 0..(BUFFER_SIZE - 1)

-----------------------------------------------------------------------------
\* mbox_init(); the buffer of a static mbox_t is zero
MInit ==
  /\ Init
  /\ used = 0 /\ count = 0 /\ head = 0 /\ tail = 0
  /\ buffer = [i \in Cells |-> 0]
  /\ op = [t \in Threads |-> "none"]
  /\ stage = [t \in Threads |-> "body"]
  /\ handle = [t \in Threads |-> FALSE]
  /\ msg = [t \in Threads |-> <<>>]
  /\ space = [t \in Threads |-> -1]

\* Mutant: a full buffer is taken for an empty one.
SpaceAvailableFull ==
  IF tail > head THEN tail - head ELSE tail + BUFFER_SIZE - head

\* space_available(q)
SpaceAvailable ==
  IF tail = head /\ count # 0 THEN 0
  ELSE IF tail > head THEN tail - head
  ELSE tail + BUFFER_SIZE - head

Goto(t, s) == stage' = [stage EXCEPT ![t] = s]

\* t is in function f with the lock, at stage s.
At(t, f, s) == at[t] = "in" /\ op[t] = f /\ stage[t] = s

\* mbox_acquire() at the start of function f
Call(t, f) ==
  /\ op[t] = "none"
  /\ Acquire(t)
  /\ op' = [op EXCEPT ![t] = f]
  /\ Goto(t, "body")
  /\ space' = [space EXCEPT ![t] = -1]
  /\ UNCHANGED <<fields, handle>>

\* mbox_acquire() with a key that is out of range: the caller exits.
BadKey(t) ==
  /\ op[t] = "none"
  /\ op' = [op EXCEPT ![t] = "exited"]
  /\ UNCHANGED <<monvars, fields, stage, handle, msg, space>>

\* mbox_release() and return
Return(t) ==
  /\ op[t] # "none" /\ stage[t] = "rel"
  /\ Release(t)
  /\ op' = [op EXCEPT ![t] = "none"]
  /\ handle' = [handle EXCEPT ![t] = (@ \/ op[t] = "open") /\ op[t] # "close"]
  /\ UNCHANGED <<fields, stage, msg, space>>

\* The parts of condition_wait() after its lock_release()
WaitGoesOn(t) == (Sleep(t) \/ Reacquire(t)) /\ UNCHANGED <<fields, locals>>

-----------------------------------------------------------------------------
\* mbox_open(q)
CallOpen(t) ==
  /\ ~handle[t]
  /\ OpenCloseRace \/ \A u \in Threads : op[u] # "close"
  /\ Call(t, "open")
  /\ UNCHANGED msg

Open(t) ==
  /\ At(t, "open", "body")
  /\ used' = used + 1
  /\ Goto(t, "rel")
  /\ UNCHANGED <<monvars, count, head, tail, buffer, op, handle, msg, space>>

\* mbox_close(q)
CallClose(t) ==
  /\ handle[t]
  /\ OpenCloseRace \/ \A u \in Threads : op[u] # "open"
  /\ Call(t, "close")
  /\ msg' = [msg EXCEPT ![t] = <<>>]

\* Mutant: the use count is not counted down.
CloseForgetsUsed(t) ==
  /\ At(t, "close", "body")
  /\ Goto(t, IF used <= 1 THEN "wake" ELSE "rel")
  /\ UNCHANGED <<monvars, fields, op, handle, msg, space>>

Close(t) ==
  /\ At(t, "close", "body")
  /\ used' = IF used > 0 THEN used - 1 ELSE used
  /\ Goto(t, IF used' <= 0 THEN "wake" ELSE "rel")
  /\ UNCHANGED <<monvars, count, head, tail, buffer, op, handle, msg, space>>

\* The two broadcasts
CloseWake(t) ==
  /\ At(t, "close", "wake") \/ At(t, "close", "wake2")
  /\ WakeAll(IF stage[t] = "wake" THEN moreSpace ELSE moreData)
  /\ Goto(t, IF stage[t] = "wake" THEN "wake2" ELSE "init")
  /\ UNCHANGED <<status, waiting, on, fields, op, handle, msg, space>>

\* used = 0 and lock_init(), although the caller has the lock
CloseInit(t) ==
  /\ At(t, "close", "init")
  /\ used' = 0
  /\ status' = "UNLOCKED"
  /\ waiting' = <<>>
  /\ Goto(t, "zero")
  /\ UNCHANGED <<cwaiting, at, on, count, head, tail, buffer, op, handle, msg, space>>

\* condition_init() of both conditions, then count, head and tail
CloseZero(t) ==
  /\ At(t, "close", "zero")
  /\ cwaiting' = [c \in Conds |-> <<>>]
  /\ count' = 0 /\ head' = 0 /\ tail' = 0
  /\ Goto(t, "rel")
  /\ UNCHANGED <<status, waiting, at, on, used, buffer, op, handle, msg, space>>

-----------------------------------------------------------------------------
\* mbox_stat(q, ...)
CallStat(t) ==
  /\ handle[t] /\ t \in Senders
  /\ Call(t, "stat")
  /\ UNCHANGED msg

Stat(t) ==
  /\ At(t, "stat", "body")
  /\ space' = [space EXCEPT ![t] = SpaceAvailable]
  /\ Goto(t, "rel")
  /\ UNCHANGED <<monvars, fields, op, handle, msg>>

-----------------------------------------------------------------------------
\* mbox_send(q, m)
CallSend(t, m) ==
  /\ handle[t] /\ t \in Senders
  /\ Call(t, "send")
  /\ msg' = [msg EXCEPT ![t] = m]

Size(m) == HEADER + Len(m)

Fits(t) == Size(msg[t]) <= SpaceAvailable

SendWaits(t) ==
  /\ At(t, "send", "body")
  /\ ~Fits(t)
  /\ Wait(t, moreSpace)
  /\ UNCHANGED <<fields, locals>>

\* The message with its header, as it lies in the buffer
Bytes(m) == <<Len(m)>> \o m

\* Mutant: the index does not wrap around.
WrittenStraight(m) ==
  [i \in Cells |-> IF i >= head /\ i - head < Size(m)
                   THEN Bytes(m)[i - head + 1] ELSE buffer[i]]

\* buffer[(start + i) % BUFFER_SIZE] = ((char *)m)[i], for every i < size
Written(m) ==
  [i \in Cells |-> LET k == (i - head + BUFFER_SIZE) % BUFFER_SIZE
                   IN  IF k < Size(m) THEN Bytes(m)[k + 1] ELSE buffer[i]]

\* The copy and the changes of head and count are one step, because the lock
\* keeps every other thread out of them; so are the two reads of Recv and the
\* changes of tail and count.  That the lock does so (MutualExclusion) holds
\* when OpenCloseRace = FALSE: only then are the contents of the buffer said
\* anything about.
Send(t) ==
  /\ At(t, "send", "body")
  /\ Fits(t)
  /\ buffer' = Written(msg[t])
  /\ head' = (head + Size(msg[t])) % BUFFER_SIZE
  /\ count' = count + 1
  /\ Goto(t, "wake")
  /\ UNCHANGED <<monvars, used, tail, op, handle, msg, space>>

\* condition_broadcast() at the end of function f
WakeOthers(t, f, c) ==
  /\ At(t, f, "wake")
  /\ WakeAll(c)
  /\ Goto(t, "rel")
  /\ UNCHANGED <<status, waiting, on, fields, op, handle, msg, space>>

-----------------------------------------------------------------------------
\* mbox_recv(q, m)
CallRecv(t) ==
  /\ handle[t] /\ t \in Receivers
  /\ Call(t, "recv")
  /\ msg' = [msg EXCEPT ![t] = <<>>]

RecvWaits(t) ==
  /\ At(t, "recv", "body")
  /\ count <= 0
  /\ Wait(t, moreData)
  /\ UNCHANGED <<fields, locals>>

\* The message whose header is at cell i: its size is read first, then the
\* rest of it.
MessageAt(i) ==
  [k \in 1..buffer[i] |-> buffer[(i + HEADER + k - 1) % BUFFER_SIZE]]

Recv(t) ==
  /\ At(t, "recv", "body")
  /\ count > 0
  /\ msg' = [msg EXCEPT ![t] = MessageAt(tail)]
  /\ tail' = (tail + Size(msg'[t])) % BUFFER_SIZE
  /\ count' = count - 1
  /\ Goto(t, "wake")
  /\ UNCHANGED <<monvars, used, head, buffer, op, handle, space>>

-----------------------------------------------------------------------------
MNext ==
  \E t \in Threads :
    \/ BadKey(t)
    \/ CallOpen(t) \/ Open(t)
    \/ CallClose(t) \/ Close(t) \/ CloseWake(t) \/ CloseInit(t) \/ CloseZero(t)
    \/ CallStat(t) \/ Stat(t)
    \/ (\E m \in Messages : CallSend(t, m)) \/ SendWaits(t) \/ Send(t)
    \/ WakeOthers(t, "send", moreData)
    \/ CallRecv(t) \/ RecvWaits(t) \/ Recv(t)
    \/ WakeOthers(t, "recv", moreSpace)
    \/ WaitGoesOn(t)
    \/ Return(t)

MSpec == MInit /\ [][MNext]_mboxvars

-----------------------------------------------------------------------------
\* Where the i-th message after the oldest begins
Offset ==
  LET f[i \in 0..count] ==
        IF i = 0 THEN tail ELSE (f[i - 1] + HEADER + buffer[f[i - 1]]) % BUFFER_SIZE
  IN  f

\* The messages in the buffer, oldest first
Contents == [i \in 1..count |-> MessageAt(Offset[i - 1])]

\* The cells that the first i of them take up
Stored ==
  LET f[i \in 0..count] == IF i = 0 THEN 0 ELSE f[i - 1] + Size(Contents[i])
  IN  f

\* space_available() is exactly the room the stored messages leave: they lie
\* one behind the other from tail to head, and a full buffer is told from an
\* empty one although head = tail in both.
SpaceExact ==
  /\ Offset[count] = head
  /\ SpaceAvailable = BUFFER_SIZE - Stored[count]

\* The threads that have opened the mailbox and not yet closed it
Users ==
  {t \in Threads : \/ handle[t] /\ ~ (op[t] = "close" /\ stage[t] # "body")
                   \/ op[t] = "open" /\ stage[t] = "rel"}

\* The mailbox counts its users right: those with a handle, and not one more.
UsedMatches == used = Cardinality(Users)

\* A receiver waits only for a message to arrive: nobody sleeps on moreData
\* while a message is in the mailbox, unless its sender is about to wake him.
NoSleepWithData ==
  count > 0 /\ cwaiting[moreData] # <<>> =>
    \E t \in Threads : At(t, "send", "wake")

\* The message a thread in mbox_send() or mbox_recv() has still to write or read
Pending ==
  [t \in Threads |-> IF op[t] \in {"send", "recv"} /\ stage[t] = "body" THEN op[t] ELSE "none"]

MQ == INSTANCE MessageQueue WITH queue <- Contents, users <- Users, call <- Pending

\* The mailbox is a queue of whole messages: each call of mbox_send() puts one in,
\* each call of mbox_recv() takes the oldest out, unchanged wherever it wraps around
\* in the buffer, and messages are dropped only once the last user has closed it.
ImplementsMessageQueue == MQ!Spec
=============================================================================
