---------------------------- MODULE MCFileSystem ----------------------------
(* Instances of the file system for TLC. *)
EXTENDS FileSystem, TLC

CONSTANTS a, ab

\* One name begins with the other.
TestNames == {a, ab}

TestLonger == {<<ab, a>>}

Symmetry == Permutations(Procs)
=============================================================================
