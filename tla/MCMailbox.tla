------------------------------ MODULE MCMailbox ------------------------------
(* Instances of the mailbox for TLC. *)
EXTENDS Mailbox

\* A short message and a longer one; both together just fill five cells.
TestMessages == {<<7>>, <<8, 9>>}
=============================================================================
