------------------------------ MODULE TfsFiles ------------------------------
(***************************************************************************)
(* What the library of src/parte-2/fs/operations.h promises its callers:   *)
(* named files that are sequences of bytes, and handles that are positions *)
(* in them.  There are no i-nodes, blocks, tables, locks or counters.      *)
(*                                                                         *)
(* An open takes two steps after it is admitted, because the last close    *)
(* that tfs_destroy_after_all_closed waits for may fall between them: the  *)
(* file is looked up, created or emptied first, and the handle handed out  *)
(* afterwards.  An open that was admitted runs to its end even when the    *)
(* file system is shut meanwhile.                                          *)
(***************************************************************************)
EXTENDS Integers, Sequences

CONSTANTS Threads, Names, NoName, Files, Handles, Bytes, Capacity, FlagSets

VARIABLES
    active,     \* may a new open be admitted?
    namespace,  \* the file each name stands for, or NoFile
    contents,   \* the bytes of each file
    position,   \* the file and the offset of each handle that is open
    opening     \* the open that each thread is in

vars == <<active, namespace, contents, position, opening>>

NoFile == -1
Closed == [file |-> NoFile, offset |-> 0]
NoHandle == -1
Opening(stage, n, flags, at, h) ==
    [stage |-> stage, name |-> n, flags |-> flags, at |-> at, handle |-> h]
NoOpen == Opening("none", NoName, {}, Closed, NoHandle)
Open(h) == position[h] # Closed
Spare(h) == ~Open(h) /\ \A t \in DOMAIN opening : opening[t].handle # h

Init ==
    /\ active = TRUE
    /\ namespace = [n \in Names |-> NoFile]
    /\ contents = [f \in Files |-> <<>>]
    /\ position = [h \in Handles |-> Closed]
    /\ opening = [t \in Threads |-> NoOpen]

Admit(t) ==
    /\ active /\ opening[t] = NoOpen
    /\ \E n \in Names, fl \in FlagSets :
          opening' = [opening EXCEPT ![t] = Opening("asked", n, fl, Closed, NoHandle)]
    /\ UNCHANGED <<active, namespace, contents, position>>

\* A handle is set aside, or the open returns -1 because none is left.
Resolved(t, f, offset) ==
    \/ \E h \in Handles :
          /\ Spare(h)
          /\ opening' = [opening EXCEPT ![t] =
                Opening("found", NoName, {}, [file |-> f, offset |-> offset], h)]
    \/ /\ \A h \in Handles : ~Spare(h)
       /\ opening' = [opening EXCEPT ![t] = NoOpen]

OpenOld(t) ==
    LET req == opening[t]
        f == namespace[req.name]
    IN  /\ req.stage = "asked" /\ f # NoFile
        /\ contents' = IF "TRUNC" \in req.flags
                       THEN [contents EXCEPT ![f] = <<>>] ELSE contents
        /\ Resolved(t, f, IF "APPEND" \in req.flags THEN Len(contents'[f]) ELSE 0)
        /\ UNCHANGED <<active, namespace, position>>

OpenNew(t) ==
    LET req == opening[t] IN
    /\ req.stage = "asked" /\ namespace[req.name] = NoFile
    /\ "CREAT" \in req.flags
    /\ \E f \in Files :
          /\ \A n \in Names : namespace[n] # f
          /\ namespace' = [namespace EXCEPT ![req.name] = f]
          /\ contents' = [contents EXCEPT ![f] = <<>>]
          /\ Resolved(t, f, 0)
    /\ UNCHANGED <<active, position>>

\* The file is not there and is not to be, or cannot be, created.
OpenNone(t) ==
    /\ opening[t].stage = "asked" /\ namespace[opening[t].name] = NoFile
    /\ opening' = [opening EXCEPT ![t] = NoOpen]
    /\ UNCHANGED <<active, namespace, contents, position>>

HandOut(t) ==
    /\ opening[t].stage = "found"
    /\ position' = [position EXCEPT ![opening[t].handle] = opening[t].at]
    /\ opening' = [opening EXCEPT ![t] = NoOpen]
    /\ UNCHANGED <<active, namespace, contents>>

Close(h) ==
    /\ Open(h)
    /\ position' = [position EXCEPT ![h] = Closed]
    /\ UNCHANGED <<active, namespace, contents, opening>>

\* n bytes are written at the position, over old bytes and then past the end.
Write(h, n, b) ==
    LET f == position[h].file
        off == position[h].offset
        size == Len(contents[f])
        end == off + n
    IN  /\ Open(h) /\ off <= size /\ end <= Capacity
        /\ contents' = [contents EXCEPT ![f] =
              [k \in 1 .. (IF end > size THEN end ELSE size) |->
                  IF k > off /\ k <= end THEN b ELSE contents[f][k]]]
        /\ position' = [position EXCEPT ![h].offset = end]
        /\ UNCHANGED <<active, namespace, opening>>

\* The position moves over the bytes read, never past the end of the file.
Read(h, n) ==
    LET end == position[h].offset + n IN
    /\ Open(h) /\ end <= Len(contents[position[h].file])
    /\ position' = [position EXCEPT ![h].offset = end]
    /\ UNCHANGED <<active, namespace, contents, opening>>

\* tfs_destroy_after_all_closed returns: every file is closed.
Shut ==
    /\ \A h \in Handles : ~Open(h)
    /\ active' = FALSE
    /\ UNCHANGED <<namespace, contents, position, opening>>

\* tfs_init: an empty file system.
Restart ==
    /\ \A t \in Threads : opening[t] = NoOpen
    /\ active' = TRUE
    /\ namespace' = [n \in Names |-> NoFile]
    /\ contents' = [f \in Files |-> <<>>]
    /\ position' = [h \in Handles |-> Closed]
    /\ UNCHANGED opening

Next ==
    \/ \E t \in Threads :
          Admit(t) \/ OpenOld(t) \/ OpenNew(t) \/ OpenNone(t) \/ HandOut(t)
    \/ \E h \in Handles :
          \/ Close(h)
          \/ \E n \in 1 .. Capacity : Read(h, n) \/ \E b \in Bytes : Write(h, n, b)
    \/ Shut
    \/ Restart

Spec == Init /\ [][Next]_vars
=============================================================================
