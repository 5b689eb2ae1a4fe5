----------------------------- MODULE FineFiles -----------------------------
(***************************************************************************)
(* What the library of src/parte-1/fs/operations.h promises to threads:    *)
(* named files that are sequences of bytes, handles that are positions in  *)
(* them, and writes that are not torn.  A write is put in the file piece   *)
(* by piece, but from its first piece to its last no other call writes or  *)
(* reads that file or moves that handle, and it ends when all its bytes    *)
(* are in the file, or is given up.  There are no i-nodes, blocks or locks.*)
(***************************************************************************)
EXTENDS Integers, Sequences

CONSTANTS Threads, Names, NoName, Files, Handles, Bytes, Lens, FlagSets

VARIABLES
    namespace,  \* the file each name stands for, or NoFile
    contents,   \* the bytes of each file
    position,   \* the file and the offset of each handle that is open
    opening,    \* the open that each thread is in
    writing     \* the write that each thread is in

vars == <<namespace, contents, position, opening, writing>>

NoFile == -1
Closed == [file |-> NoFile, offset |-> 0]
NoOpen == [stage |-> "none", name |-> NoName, flags |-> {}, at |-> Closed]
NoWrite == [handle |-> -1, left |-> 0, bytes |-> {}]

FileOf(h) == position[h].file
Busy(f) == \E t \in Threads : writing[t] # NoWrite /\ FileOf(writing[t].handle) = f

Init ==
    /\ namespace = [n \in Names |-> NoFile]
    /\ contents = [f \in Files |-> <<>>]
    /\ position = [h \in Handles |-> Closed]
    /\ opening = [t \in Threads |-> NoOpen]
    /\ writing = [t \in Threads |-> NoWrite]

Admit(t) ==
    /\ opening[t] = NoOpen
    /\ \E n \in Names, fl \in FlagSets :
          opening' = [opening EXCEPT ![t] = [NoOpen EXCEPT
                        !.stage = "asked", !.name = n, !.flags = fl]]
    /\ UNCHANGED <<namespace, contents, position, writing>>

Found(t, f, offset) ==
    opening' = [opening EXCEPT ![t] = [NoOpen EXCEPT
                    !.stage = "found", !.at = [file |-> f, offset |-> offset]]]

OpenOld(t) ==
    LET f == namespace[opening[t].name]
        flags == opening[t].flags
    IN  /\ opening[t].stage = "asked" /\ f # NoFile /\ ~Busy(f)
        /\ contents' = IF "TRUNC" \in flags
                       THEN [contents EXCEPT ![f] = <<>>] ELSE contents
        /\ Found(t, f, IF "APPEND" \in flags THEN Len(contents'[f]) ELSE 0)
        /\ UNCHANGED <<namespace, position, writing>>

\* A name that stands for no file is given one of its own.
OpenNew(t) ==
    LET n == opening[t].name IN
    /\ opening[t].stage = "asked" /\ namespace[n] = NoFile
    /\ "CREAT" \in opening[t].flags
    /\ \E f \in Files :
          /\ \A m \in Names : namespace[m] # f
          /\ namespace' = [namespace EXCEPT ![n] = f]
          /\ contents' = [contents EXCEPT ![f] = <<>>]
          /\ Found(t, f, 0)
    /\ UNCHANGED <<position, writing>>

\* A table is full.
OpenGivenUp(t) ==
    /\ opening[t] # NoOpen
    /\ opening' = [opening EXCEPT ![t] = NoOpen]
    /\ UNCHANGED <<namespace, contents, position, writing>>

HandOut(t, h) ==
    /\ opening[t].stage = "found" /\ position[h] = Closed
    /\ position' = [position EXCEPT ![h] = opening[t].at]
    /\ opening' = [opening EXCEPT ![t] = NoOpen]
    /\ UNCHANGED <<namespace, contents, writing>>

Close(h) ==
    /\ position[h] # Closed /\ \A t \in Threads : writing[t].handle # h
    /\ position' = [position EXCEPT ![h] = Closed]
    /\ UNCHANGED <<namespace, contents, opening, writing>>

WriteBegins(t, h) ==
    /\ writing[t] = NoWrite /\ position[h] # Closed /\ ~Busy(FileOf(h))
    /\ \E n \in Lens, b \in Bytes :
          writing' = [writing EXCEPT ![t] = [handle |-> h, left |-> n, bytes |-> {b}]]
    /\ UNCHANGED <<namespace, contents, position, opening>>

\* n bytes go to the position, over old bytes and then past the end.
WritePiece(t, n) ==
    LET w == writing[t]
        f == FileOf(w.handle)
        off == position[w.handle].offset
        size == Len(contents[f])
        end == off + n
    IN  /\ w # NoWrite /\ n <= w.left /\ off <= size
        /\ \E b \in w.bytes :
              contents' = [contents EXCEPT ![f] =
                  [k \in 1 .. (IF end > size THEN end ELSE size) |->
                      IF k > off /\ k <= end THEN b ELSE contents[f][k]]]
        /\ position' = [position EXCEPT ![w.handle].offset = end]
        /\ writing' = [writing EXCEPT ![t] =
                          IF n = w.left THEN NoWrite ELSE [w EXCEPT !.left = @ - n]]
        /\ UNCHANGED <<namespace, opening>>

\* No block is left, or the file cannot grow: tfs_write returns -1.
WriteGivenUp(t) ==
    /\ writing[t] # NoWrite
    /\ writing' = [writing EXCEPT ![t] = NoWrite]
    /\ UNCHANGED <<namespace, contents, position, opening>>

\* The position moves over the bytes read, never past the end of the file.
Read(h, n) ==
    LET end == position[h].offset + n IN
    /\ position[h] # Closed /\ ~Busy(FileOf(h))
    /\ end <= Len(contents[FileOf(h)])
    /\ position' = [position EXCEPT ![h].offset = end]
    /\ UNCHANGED <<namespace, contents, opening, writing>>

\* tfs_init: an empty file system.
Restart ==
    /\ \A t \in Threads : opening[t] = NoOpen /\ writing[t] = NoWrite
    /\ namespace' = [n \in Names |-> NoFile]
    /\ contents' = [f \in Files |-> <<>>]
    /\ position' = [h \in Handles |-> Closed]
    /\ UNCHANGED <<opening, writing>>

Next ==
    \/ \E t \in Threads :
          \/ Admit(t) \/ OpenOld(t) \/ OpenNew(t) \/ OpenGivenUp(t)
          \/ WriteGivenUp(t)
          \/ \E h \in Handles : HandOut(t, h) \/ WriteBegins(t, h)
          \/ \E l \in Lens : \E n \in 1 .. l : WritePiece(t, n)
    \/ \E h \in Handles :
          Close(h) \/ \E l \in Lens : \E n \in 1 .. l : Read(h, n)
    \/ Restart

Spec == Init /\ [][Next]_vars
=============================================================================
