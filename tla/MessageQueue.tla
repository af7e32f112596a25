---------------------------- MODULE MessageQueue ----------------------------
(***************************************************************************)
(* What a mailbox promises: the messages put into it come out whole, each  *)
(* once, in the order in which they were put in.  A call puts or gets one  *)
(* message, only a user of the mailbox calls, and messages are discarded   *)
(* only when the mailbox has no user left.                                 *)
(***************************************************************************)
EXTENDS Sequences

CONSTANTS Threads, Messages

VARIABLES queue,  \* the messages in the mailbox, oldest first
          users,  \* the threads that have the mailbox open
          call,   \* what each thread has still to do: "send", "recv" or "none"
          msg     \* the message each thread holds

mqvars == <<queue, users, call, msg>>

Init ==
  /\ queue = <<>> /\ users = {}
  /\ call = [t \in Threads |-> "none"]
  /\ msg = [t \in Threads |-> <<>>]

Join(t) ==
  /\ t \notin users
  /\ users' = users \cup {t}
  /\ UNCHANGED <<queue, call, msg>>

Leave(t) ==
  /\ t \in users /\ call[t] = "none"
  /\ users' = users \ {t}
  /\ UNCHANGED <<queue, call, msg>>

\* Thread t begins to send the message m, or to receive one.
Begin(t, c, m) ==
  /\ t \in users /\ call[t] = "none"
  /\ call' = [call EXCEPT ![t] = c]
  /\ msg' = [msg EXCEPT ![t] = m]
  /\ UNCHANGED <<queue, users>>

Put(t) ==
  /\ call[t] = "send"
  /\ queue' = Append(queue, msg[t])
  /\ call' = [call EXCEPT ![t] = "none"]
  /\ UNCHANGED <<users, msg>>

Get(t) ==
  /\ call[t] = "recv" /\ queue # <<>>
  /\ msg' = [msg EXCEPT ![t] = Head(queue)]
  /\ queue' = Tail(queue)
  /\ call' = [call EXCEPT ![t] = "none"]
  /\ UNCHANGED users

\* The thread is done with the message it holds.
Forget(t) ==
  /\ call[t] = "none"
  /\ msg' = [msg EXCEPT ![t] = <<>>]
  /\ UNCHANGED <<queue, users, call>>

\* After the last user has closed the mailbox
Discard ==
  /\ users = {}
  /\ queue' = <<>>
  /\ UNCHANGED <<users, call, msg>>

Next ==
  \/ Discard
  \/ \E t \in Threads :
       \/ Join(t) \/ Leave(t)
       \/ Begin(t, "recv", <<>>) \/ \E m \in Messages : Begin(t, "send", m)
       \/ Put(t) \/ Get(t) \/ Forget(t)

Spec == Init /\ [][Next]_mqvars
=============================================================================
