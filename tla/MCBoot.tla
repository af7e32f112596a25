------------------------------- MODULE MCBoot -------------------------------
(* Instances of the way from ELF files to a mounted file system for TLC. *)
EXTENDS Boot

Segment(memsz, data) == [memsz |-> memsz, data |-> data]

File(segments, rest) == [segments |-> segments, rest |-> rest]

\* A boot block of one sector, one in two segments, and one that is too short
TestBootFiles ==
  {File(<<Segment(3, <<90, 91, 92>>)>>, <<>>),
   File(<<Segment(1, <<90>>), Segment(2, <<91, 92>>)>>, <<>>),
   File(<<Segment(2, <<90, 91>>)>>, <<>>)}

\* Kernels of one to four sectors: in one or two segments, with and without
\* padding, with zeroed memory at the end, with symbols behind the segments,
\* with too little in the file, and with no segment at all
TestKernels ==
  {File(<<>>, <<>>),
   File(<<Segment(2, <<1, 2>>)>>, <<7>>),
   File(<<Segment(3, <<1, 2, 3>>), Segment(1, <<4>>)>>, <<>>),
   File(<<Segment(4, <<1, 2, 3, 4>>), Segment(3, <<5>>)>>, <<>>),
   File(<<Segment(3, <<1, 2>>), Segment(1, <<4>>)>>, <<>>),
   File(<<Segment(4, <<1, 2>>), Segment(1, <<>>)>>, <<>>),
   File(<<Segment(12, <<1, 2, 3, 4, 5, 6, 7, 8, 9, 10, 11, 12>>)>>, <<>>)}
=============================================================================
