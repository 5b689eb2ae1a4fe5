------------------------------- MODULE MCFine -------------------------------
(***************************************************************************)
(* The small instances of the earlier library that TLC checks.             *)
(***************************************************************************)
EXTENDS FineCorrectness, TLC

CONSTANTS n1, n2, n3, b1, b2

\* Each file is written with bytes of its own.
OwnTexts == [i \in Inums |-> IF i = 1 THEN {b1} ELSE {b2}]
OneText == [i \in Inums |-> {b1}]
AllFlags == {{"CREAT", "APPEND"}, {"TRUNC"}}
CreatOnly == {{"CREAT"}}
\* Names of at most 39 characters are stored as they are.
ShortNames == [n \in Names |-> n]
\* Callers whose bytes never make up the number of a block.
NoNumbers == [w \in Words |-> Garbage]
\* Names and threads are interchangeable (used for safety only).
Symmetry == Permutations(Threads) \cup Permutations(Names)
=============================================================================
