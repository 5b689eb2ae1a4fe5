---------------------------- MODULE MCTfsServer ----------------------------
(***************************************************************************)
(* The small instances of the server that TLC checks: one file of at most  *)
(* one byte.                                                               *)
(***************************************************************************)
EXTENDS TfsServerCorrectness, TLC

Symmetry == Permutations(Clients)
MCFiles == {1}
MCHandles == {0}
TwoHandles == {0, 1}
MCFlagSets == {{"CREAT"}}
AllOps == {"unmount", "open", "close", "write", "read", "shutdown"}
CloseOps == {"open", "close", "shutdown"}
ReadOps == {"open", "read"}
=============================================================================
