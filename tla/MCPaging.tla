------------------------------ MODULE MCPaging ------------------------------
(* Instances of demand paging for TLC. *)
EXTENDS Paging, TLC

CONSTANTS p1, p2, p3, t1

TestLoads == <<t1, p1, p2, p3>>

\* The images lie one behind the other, and the first one ends within a page.
TestLoc == p1 :> 0 @@ p2 :> 1 @@ p3 :> 3

TestSize == p1 :> 1 @@ p2 :> 2 @@ p3 :> 1

\* The first sector of each image is data.
TestData == p1 :> {48} @@ p2 :> {48} @@ p3 :> {48}

\* Two devices in one region of 4 megabytes, one of two pages in another
TestDevices == <<[address |-> 84, size |-> 1], [address |-> 80, size |-> 1],
                 [address |-> 98, size |-> 3]>>

\* What the theorems of module PagingProofs assume of the booted kernel: what
\* init_memory() and identity_map() compute with these constants
ASSUME MCPagingAssumption == BootedSound
=============================================================================
