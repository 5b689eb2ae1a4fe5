------------------------------- MODULE MCTfs -------------------------------
(***************************************************************************)
(* The small instances of the library that TLC checks.                     *)
(***************************************************************************)
EXTENDS TfsCorrectness, TLC

CONSTANTS n1, n2, n3

\* Every name is stored as itself: short names that begin with '/'.
MCStored == [n \in Names |-> n]
CreatAndPlain == {{}, {"CREAT"}}
FileFlags == {{"CREAT"}, {"CREAT", "APPEND"}, {"TRUNC", "APPEND"}}
TruncFlags == {{"CREAT"}, {"TRUNC"}}
\* Names and threads are interchangeable (used for safety only).
Symmetry == Permutations(Names) \cup Permutations(Threads)
=============================================================================
