----------------------------- MODULE TfsServer -----------------------------
(***************************************************************************)
(* The TecnicoFS server of src/parte-2/fs/tfs_server.c and the clients of  *)
(* src/parte-2/client/tecnicofs_client_api.c, over the library that        *)
(* TfsFiles specifies (its threads are the server's workers).              *)
(*                                                                         *)
(* The receptor (main) takes requests from the server's pipe and leaves    *)
(* each in the buffer of its session; the worker of the session executes   *)
(* it and answers through the client's pipe.  A client is one process that *)
(* makes one call at a time.  A message fits in PIPE_BUF, so it is written *)
(* whole; calls of read, write and open fail only where this module says.  *)
(***************************************************************************)
EXTENDS Integers, Sequences, FiniteSets

CONSTANTS
    Clients, NoClient,
    MAX_CLIENTS,
    Names, NoName, Files, Handles, Bytes, Capacity, FlagSets,   \* of TfsFiles
    Ops,            \* the requests that clients make
    EofReads,       \* does a client read where its file has ended?
    Remounts,       \* does a client mount again, with the same pipe name?
    MaxMounts       \* bound on the mounts

ASSUME ServerAssumption ==
    /\ NoClient \notin Clients
    /\ MAX_CLIENTS \in Nat \ {0}
    /\ Files \subseteq Nat /\ Handles \subseteq Nat
    /\ Ops \subseteq {"unmount", "open", "close", "write", "read", "shutdown"}
    /\ EofReads \in BOOLEAN /\ Remounts \in BOOLEAN
    /\ MaxMounts \in 1 .. MAX_CLIENTS

VARIABLES active, namespace, contents, position, opening    \* of TfsFiles

VARIABLES
    server_pipe,    \* the requests written and not read yet
    client_pipe,    \* per client: the answers written and not read yet
    fifo,           \* per client: does the name of its pipe exist?
    cpc,            \* per client: how far it is
    call,           \* per client: the request it waits for
    csid,           \* per client: client.session_id
    held,           \* per client: the handles it opened and did not close
    mounts          \* how many mounts were begun

VARIABLES
    rpc,            \* how far the receptor is
    rx_open,        \* does the receptor have the server's pipe open?
    up,             \* FALSE after the server process has ended
    next_session_id,
    sessions,       \* [is_active, buffer, tx] of every session
    session_lock,   \* which worker holds the lock of its session
    wpc,            \* per session: how far its worker is
    shutting_down, shutdown_called,
    shutting_down_lock  \* the session whose worker holds it, or NoSession

fsVars == <<active, namespace, contents, position, opening>>
clientVars == <<cpc, call, csid, held, mounts>>
pipeVars == <<server_pipe, client_pipe, fifo>>
mainVars == <<rpc, rx_open, next_session_id>>
workVars == <<sessions, session_lock, wpc>>
downVars == <<up, shutting_down, shutdown_called, shutting_down_lock>>
vars == <<fsVars, clientVars, pipeVars, mainVars, workVars, downVars>>

Sessions == 1 .. MAX_CLIENTS
NoSession == 0
Fs == INSTANCE TfsFiles WITH Threads <- Sessions

Msg(op, c, sid, fh) == [op |-> op, client |-> c, sid |-> sid, fh |-> fh]
NoMsg == Msg("none", NoClient, NoSession, -1)

Init ==
    /\ Fs!Init
    /\ server_pipe = <<>>
    /\ client_pipe = [c \in Clients |-> <<>>]
    /\ fifo = [c \in Clients |-> FALSE]
    /\ cpc = [c \in Clients |-> "out"]
    /\ call = [c \in Clients |-> NoMsg]
    /\ csid = [c \in Clients |-> NoSession]
    /\ held = [c \in Clients |-> {}]
    /\ mounts = 0
    /\ rpc = "reopen" /\ rx_open = FALSE /\ up = TRUE   \* in the first open
    /\ next_session_id = 1
    /\ sessions = [s \in Sessions |->
                      [is_active |-> FALSE, buffer |-> NoMsg, tx |-> NoClient]]
    /\ session_lock = [s \in Sessions |-> FALSE]
    /\ wpc = [s \in Sessions |-> "lock"]
    /\ shutting_down = FALSE /\ shutdown_called = FALSE
    /\ shutting_down_lock = NoSession

-----------------------------------------------------------------------------
(* The clients.  cpc[c] is "out" (no session), "opened" (in tfs_mount, both *)
(* pipes open), "asked" (waiting for an answer), "data" (in tfs_read,       *)
(* waiting for the bytes), "idle" (mounted, in no call), "gone" (after      *)
(* tfs_unmount or tfs_shutdown_after_all_closed) or "killed" (by SIGPIPE).  *)

HasServerPipeOpen(c) == cpc[c] \in {"opened", "asked", "data", "idle"}

\* unlink, mkfifo and the two opens.  The open of the server's pipe waits for
\* a reader, and is the writer that an open of the receptor waits for.
\* MaxMounts is at most MAX_CLIENTS: one mount more, and the receptor would
\* index sessions[] out of its range.
MountOpen(c) ==
    /\ cpc[c] = "out" /\ up /\ mounts < MaxMounts
    /\ cpc' = [cpc EXCEPT ![c] = "opened"]
    /\ fifo' = [fifo EXCEPT ![c] = TRUE]
    /\ client_pipe' = [client_pipe EXCEPT ![c] = <<>>]
    /\ rx_open' = TRUE
    /\ mounts' = mounts + 1
    /\ UNCHANGED <<fsVars, call, csid, held, server_pipe, rpc, next_session_id,
                   workVars, downVars>>

\* A write to a pipe that nobody reads raises SIGPIPE, which clients do not
\* handle.
Send(c, m) ==
    IF rx_open
    THEN /\ server_pipe' = Append(server_pipe, m)
         /\ cpc' = [cpc EXCEPT ![c] = "asked"]
         /\ call' = [call EXCEPT ![c] = m]
    ELSE /\ cpc' = [cpc EXCEPT ![c] = "killed"]
         /\ UNCHANGED <<server_pipe, call>>

MountWrite(c) ==
    /\ cpc[c] = "opened"
    /\ Send(c, Msg("mount", c, NoSession, -1))
    /\ UNCHANGED <<fsVars, csid, held, mounts, client_pipe, fifo, mainVars,
                   workVars, downVars>>

\* What a client may ask for: the handles it holds, and, unless EofReads, only
\* bytes that are there.
HasBytes(h) == position[h].offset < Len(contents[position[h].file])
Request(c, op, fh) ==
    /\ cpc[c] = "idle"
    /\ IF op \in {"close", "read", "write"} THEN fh \in held[c] ELSE fh = -1
    /\ op = "read" => EofReads \/ HasBytes(fh)
    /\ Send(c, Msg(op, c, csid[c], fh))
    /\ UNCHANGED <<fsVars, csid, held, mounts, client_pipe, fifo, mainVars,
                   workVars, downVars>>

\* Variant: a client takes the -1 of a failed open for a handle.
HeldAfterUnchecked(c, val) ==
    CASE call[c].op = "open"  -> held[c] \cup {val}
      [] call[c].op = "close" -> held[c] \ {call[c].fh}
      [] OTHER                -> held[c]

\* The handles that are left after the answer val.
HeldAfter(c, val) ==
    CASE call[c].op = "open"  -> held[c] \cup ({val} \ {-1})
      [] call[c].op = "close" -> held[c] \ {call[c].fh}
      [] OTHER                -> held[c]

\* Variant: tfs_read returns without its second read.
StageAfterDataLeft(op) ==
    IF op = "unmount" /\ Remounts THEN "out"
    ELSE IF op \in {"unmount", "shutdown"} THEN "gone" ELSE "idle"

\* How far a client is after the (first) answer to its call.
StageAfter(op) ==
    CASE op = "read" -> "data"
      [] op = "unmount" /\ Remounts -> "out"
      [] op \in {"unmount", "shutdown"} -> "gone"
      [] OTHER -> "idle"

\* The client keeps its own pipe open for writing too (O_RDWR): an empty pipe
\* makes it wait, also when the server has ended.
Answered(c) ==
    /\ cpc[c] = "asked" /\ client_pipe[c] # <<>>
    /\ client_pipe' = [client_pipe EXCEPT ![c] = Tail(@)]
    /\ LET val == Head(client_pipe[c]).val IN
          /\ csid' = IF call[c].op = "mount" THEN [csid EXCEPT ![c] = val] ELSE csid
          /\ held' = [held EXCEPT ![c] = HeldAfter(c, val)]
    /\ cpc' = [cpc EXCEPT ![c] = StageAfter(call[c].op)]
    /\ call' = [call EXCEPT ![c] = IF @.op = "read" THEN @ ELSE NoMsg]
    /\ UNCHANGED <<fsVars, mounts, server_pipe, fifo, mainVars, workVars, downVars>>

ReadData(c) ==
    /\ cpc[c] = "data" /\ client_pipe[c] # <<>>
    /\ client_pipe' = [client_pipe EXCEPT ![c] = Tail(@)]
    /\ cpc' = [cpc EXCEPT ![c] = "idle"]
    /\ call' = [call EXCEPT ![c] = NoMsg]
    /\ UNCHANGED <<fsVars, csid, held, mounts, server_pipe, fifo, mainVars,
                   workVars, downVars>>

-----------------------------------------------------------------------------
(* The receptor.  rpc is "read" (in the read of an op_code), "check" (about *)
(* to lock shutting_down_lock for the loop's test), "eof" (that read        *)
(* returned 0), "reopen" (the pipe closed, in open), "reopened", "continue" *)
(* (at the loop's test without the lock) or "unlock" (at the top of the     *)
(* loop, to unlock what it does not hold).                                  *)

ServerEnds == up' = FALSE /\ rx_open' = FALSE

\* Variant: the worker is not signalled.
DispatchedUnsignalled(s, m) ==
    /\ ~session_lock[s]
    /\ sessions' = [sessions EXCEPT ![s].is_active = TRUE, ![s].buffer = m]
    /\ UNCHANGED wpc

\* The request for a session that has a worker, under its lock.
Dispatched(s, m) ==
    /\ ~session_lock[s]
    /\ sessions' = [sessions EXCEPT ![s].is_active = TRUE, ![s].buffer = m]
    /\ wpc' = IF wpc[s] = "wait" THEN [wpc EXCEPT ![s] = "lock"] ELSE wpc

\* Variant: next_session_id is not incremented.
DispatchMountSameSession ==
    LET s == next_session_id IN
    /\ up /\ rpc = "read" /\ server_pipe # <<>>
    /\ Head(server_pipe).op = "mount"
    /\ Dispatched(s, [Head(server_pipe) EXCEPT !.sid = s])
    /\ server_pipe' = Tail(server_pipe)
    /\ rpc' = "check"
    /\ UNCHANGED <<fsVars, clientVars, client_pipe, fifo, rx_open,
                   next_session_id, session_lock, downVars>>

DispatchMount ==
    LET s == next_session_id IN
    /\ up /\ rpc = "read" /\ server_pipe # <<>>
    /\ Head(server_pipe).op = "mount"
    /\ next_session_id + 1 <= MAX_CLIENTS
    /\ Dispatched(s, [Head(server_pipe) EXCEPT !.sid = s])
    /\ next_session_id' = next_session_id + 1
    /\ server_pipe' = Tail(server_pipe)
    /\ rpc' = "check"
    /\ UNCHANGED <<fsVars, clientVars, client_pipe, fifo, rx_open, session_lock, downVars>>

\* handle_too_many_clients takes the pipe's name from a buffer that does not
\* hold it yet: its open fails, and nothing is written to the client.
RefuseMount ==
    /\ up /\ rpc = "read" /\ server_pipe # <<>>
    /\ Head(server_pipe).op = "mount"
    /\ next_session_id + 1 > MAX_CLIENTS
    /\ ~session_lock[next_session_id]
    /\ sessions' = [sessions EXCEPT ![next_session_id].buffer.op = "mount"]
    /\ next_session_id' = next_session_id + 1
    /\ server_pipe' = Tail(server_pipe)
    /\ rpc' = "continue"
    /\ UNCHANGED <<fsVars, clientVars, client_pipe, fifo, rx_open, session_lock,
                   wpc, downVars>>

Dispatch ==
    LET m == Head(server_pipe) IN
    /\ up /\ rpc = "read" /\ server_pipe # <<>>
    /\ m.op # "mount"
    /\ Dispatched(m.sid, m)
    /\ server_pipe' = Tail(server_pipe)
    /\ rpc' = "check"
    /\ UNCHANGED <<fsVars, clientVars, client_pipe, fifo, rx_open,
                   next_session_id, session_lock, downVars>>

\* The loop's test; the lock is released at the top of the loop.
CheckShutdown ==
    /\ up /\ rpc = "check" /\ shutting_down_lock = NoSession
    /\ IF shutting_down
       THEN ServerEnds /\ UNCHANGED rpc
       ELSE rpc' = "read" /\ UNCHANGED <<up, rx_open>>
    /\ UNCHANGED <<fsVars, clientVars, pipeVars, next_session_id, workVars,
                   shutting_down, shutdown_called, shutting_down_lock>>

\* No client has the server's pipe open: check_pipe_open closes and reopens it.
Eof ==
    /\ up /\ rpc = "read" /\ server_pipe = <<>>
    /\ \A c \in Clients : ~HasServerPipeOpen(c)
    /\ rpc' = "eof"
    /\ UNCHANGED <<fsVars, clientVars, pipeVars, rx_open, next_session_id,
                   workVars, downVars>>

ClosePipe ==
    /\ up /\ rpc = "eof"
    /\ rpc' = "reopen" /\ rx_open' = FALSE
    /\ UNCHANGED <<fsVars, clientVars, pipeVars, next_session_id, workVars, downVars>>

Reopen ==
    /\ up /\ rpc = "reopen"
    /\ rx_open \/ \E c \in Clients : HasServerPipeOpen(c)
    /\ rpc' = "reopened" /\ rx_open' = TRUE
    /\ UNCHANGED <<fsVars, clientVars, pipeVars, next_session_id, workVars, downVars>>

Reopened ==
    /\ up /\ rpc = "reopened" /\ shutting_down_lock = NoSession
    /\ IF shutting_down
       THEN ServerEnds /\ UNCHANGED rpc
       ELSE rpc' = "continue" /\ UNCHANGED <<up, rx_open>>
    /\ UNCHANGED <<fsVars, clientVars, pipeVars, next_session_id, workVars,
                   shutting_down, shutdown_called, shutting_down_lock>>

\* continue: the loop's test without shutting_down_lock ...
Continue ==
    /\ up /\ rpc = "continue"
    /\ IF shutting_down
       THEN ServerEnds /\ UNCHANGED rpc
       ELSE rpc' = "unlock" /\ UNCHANGED <<up, rx_open>>
    /\ UNCHANGED <<fsVars, clientVars, pipeVars, next_session_id, workVars,
                   shutting_down, shutdown_called, shutting_down_lock>>

\* ... and then its release, whoever holds it.
UnlockUnheld ==
    /\ up /\ rpc = "unlock"
    /\ rpc' = "read"
    /\ shutting_down_lock' = NoSession
    /\ UNCHANGED <<fsVars, clientVars, pipeVars, rx_open, next_session_id,
                   workVars, up, shutting_down, shutdown_called>>

-----------------------------------------------------------------------------
(* The worker of session s.  wpc[s] is "lock" (about to take session_lock,  *)
(* at the top of the loop or in pthread_cond_wait after a signal), "wait",  *)
(* "enter" (about to take shutting_down_lock), "refuse" or "admit" (with    *)
(* it, shutdown_called tested), "exec" (in the case_ function), "open",     *)
(* "data", "closing" (further on in case_open, case_read and case_unmount), *)
(* "down", "answer", "exit" (in case_shutdown), "finish" or "ended".        *)

Op(s) == sessions[s].buffer.op

Goes(s, where) == wpc' = [wpc EXCEPT ![s] = where]

\* An answer through session->tx.
Answer(s, val) ==
    client_pipe' = [client_pipe EXCEPT ![sessions[s].tx] =
                        Append(@, [op |-> Op(s), val |-> val])]

WorkerLock(s) ==
    /\ up /\ wpc[s] = "lock" /\ ~session_lock[s]
    /\ IF sessions[s].is_active
       THEN Goes(s, "enter") /\ session_lock' = [session_lock EXCEPT ![s] = TRUE]
       ELSE Goes(s, "wait") /\ UNCHANGED session_lock
    /\ UNCHANGED <<fsVars, clientVars, pipeVars, mainVars, sessions, downVars>>

WorkerSpuriousWakeup(s) ==
    /\ up /\ wpc[s] = "wait"
    /\ Goes(s, "lock")
    /\ UNCHANGED <<fsVars, clientVars, pipeVars, mainVars, sessions,
                   session_lock, downVars>>

\* Variant: a second shutdown is not told from the first.
WorkerTestAdmitsAll(s) ==
    /\ up /\ wpc[s] = "enter" /\ shutting_down_lock = NoSession
    /\ shutting_down_lock' = s
    /\ Goes(s, "admit")
    /\ UNCHANGED <<fsVars, clientVars, pipeVars, mainVars, sessions, session_lock,
                   up, shutting_down, shutdown_called>>

\* The critical section takes two steps, since UnlockUnheld may open it to a
\* second worker.
WorkerTest(s) ==
    /\ up /\ wpc[s] = "enter" /\ shutting_down_lock = NoSession
    /\ shutting_down_lock' = s
    /\ Goes(s, IF shutdown_called /\ Op(s) = "shutdown" THEN "refuse" ELSE "admit")
    /\ UNCHANGED <<fsVars, clientVars, pipeVars, mainVars, sessions, session_lock,
                   up, shutting_down, shutdown_called>>

\* A second shutdown is refused and ends its worker; is_active stays TRUE.
RefuseShutdown(s) ==
    /\ up /\ wpc[s] = "refuse"
    /\ Answer(s, -1)
    /\ shutting_down_lock' = NoSession
    /\ session_lock' = [session_lock EXCEPT ![s] = FALSE]
    /\ Goes(s, "ended")
    /\ UNCHANGED <<fsVars, clientVars, server_pipe, fifo, mainVars, sessions,
                   up, shutting_down, shutdown_called>>

\* Variant: the lock is kept on the path of a shutdown.
WorkerEnterLocked(s) ==
    /\ up /\ wpc[s] = "admit"
    /\ shutdown_called' = (shutdown_called \/ Op(s) = "shutdown")
    /\ shutting_down_lock' = IF Op(s) = "shutdown" THEN s ELSE NoSession
    /\ Goes(s, "exec")
    /\ UNCHANGED <<fsVars, clientVars, pipeVars, mainVars, sessions, session_lock,
                   up, shutting_down>>

WorkerEnter(s) ==
    /\ up /\ wpc[s] = "admit"
    /\ shutdown_called' = (shutdown_called \/ Op(s) = "shutdown")
    /\ shutting_down_lock' = NoSession
    /\ Goes(s, "exec")
    /\ UNCHANGED <<fsVars, clientVars, pipeVars, mainVars, sessions, session_lock,
                   up, shutting_down>>

\* case_mount: the open fails if the name of the client's pipe is gone, and
\* ends the whole server.
CaseMount(s) ==
    LET c == sessions[s].buffer.client IN
    /\ up /\ wpc[s] = "exec" /\ Op(s) = "mount" /\ fifo[c]
    /\ client_pipe' = [client_pipe EXCEPT ![c] =
                          Append(@, [op |-> "mount", val |-> s])]
    /\ sessions' = [sessions EXCEPT ![s].tx = c]
    /\ Goes(s, "finish")
    /\ UNCHANGED <<fsVars, clientVars, server_pipe, fifo, mainVars,
                   session_lock, downVars>>

CaseMountFails(s) ==
    /\ up /\ wpc[s] = "exec" /\ Op(s) = "mount"
    /\ ~fifo[sessions[s].buffer.client]
    /\ ServerEnds
    /\ UNCHANGED <<fsVars, clientVars, pipeVars, rpc, next_session_id, workVars,
                   shutting_down, shutdown_called, shutting_down_lock>>

\* case_unmount answers first, and unlinks the client's pipe afterwards.
CaseUnmount(s) ==
    /\ up /\ wpc[s] = "exec" /\ Op(s) = "unmount"
    /\ Answer(s, 0)
    /\ Goes(s, "closing")
    /\ UNCHANGED <<fsVars, clientVars, server_pipe, fifo, mainVars, sessions,
                   session_lock, downVars>>

\* session->pipename points to a local of case_mount, which has returned: the
\* bytes there may or may not still be the name.
CaseUnmountUnlink(s) ==
    /\ up /\ wpc[s] = "closing"
    /\ fifo' \in {fifo, [fifo EXCEPT ![sessions[s].tx] = FALSE]}
    /\ Goes(s, "finish")
    /\ UNCHANGED <<fsVars, clientVars, server_pipe, client_pipe, mainVars,
                   sessions, session_lock, downVars>>

\* case_open, with the calls of tfs_open that TfsFiles describes.
OpenOver(s, val) ==
    /\ Answer(s, val)
    /\ Goes(s, "finish")
    /\ UNCHANGED <<clientVars, server_pipe, fifo, mainVars, sessions,
                   session_lock, downVars>>

CaseOpen(s) ==
    /\ up /\ wpc[s] = "exec" /\ Op(s) = "open"
    /\ IF active
       THEN /\ Fs!Admit(s)
            /\ Goes(s, "open")
            /\ UNCHANGED <<clientVars, pipeVars, mainVars, sessions,
                           session_lock, downVars>>
       ELSE OpenOver(s, -1) /\ UNCHANGED fsVars

CaseOpenFile(s) ==
    /\ up /\ wpc[s] = "open"
    /\ Fs!OpenOld(s) \/ Fs!OpenNew(s) \/ Fs!OpenNone(s)
    /\ UNCHANGED <<clientVars, pipeVars, mainVars, workVars, downVars>>

CaseOpenDone(s) ==
    /\ up /\ wpc[s] = "open"
    /\ \/ Fs!HandOut(s) /\ OpenOver(s, opening[s].handle)
       \/ opening[s] = Fs!NoOpen /\ OpenOver(s, -1) /\ UNCHANGED fsVars

\* A client closes handles that it holds: tfs_close does not fail.
CaseClose(s) ==
    /\ up /\ wpc[s] = "exec" /\ Op(s) = "close"
    /\ Fs!Close(sessions[s].buffer.fh)
    /\ Answer(s, 0)
    /\ Goes(s, "finish")
    /\ UNCHANGED <<clientVars, server_pipe, fifo, mainVars, sessions,
                   session_lock, downVars>>

\* The answer is what tfs_write returns: the bytes written, or 0 (which stands
\* for -1 too: the client treats them alike).
CaseWrite(s) ==
    LET h == sessions[s].buffer.fh IN
    /\ up /\ wpc[s] = "exec" /\ Op(s) = "write"
    /\ \/ \E n \in 1 .. Capacity, b \in Bytes : Fs!Write(h, n, b) /\ Answer(s, n)
       \/ UNCHANGED fsVars /\ Answer(s, 0)
    /\ Goes(s, "finish")
    /\ UNCHANGED <<clientVars, server_pipe, fifo, mainVars, sessions,
                   session_lock, downVars>>

\* case_read writes the length first and then that many bytes.
CaseRead(s) ==
    LET h == sessions[s].buffer.fh IN
    /\ up /\ wpc[s] = "exec" /\ Op(s) = "read"
    /\ \/ \E n \in 1 .. Capacity : Fs!Read(h, n) /\ Answer(s, n) /\ Goes(s, "data")
       \/ ~HasBytes(h) /\ UNCHANGED fsVars /\ Answer(s, 0) /\ Goes(s, "finish")
    /\ UNCHANGED <<clientVars, server_pipe, fifo, mainVars, sessions,
                   session_lock, downVars>>

CaseReadData(s) ==
    /\ up /\ wpc[s] = "data"
    /\ client_pipe' = [client_pipe EXCEPT ![sessions[s].tx] =
                           Append(@, [op |-> "data", val |-> 0])]
    /\ Goes(s, "finish")
    /\ UNCHANGED <<fsVars, clientVars, server_pipe, fifo, mainVars, sessions,
                   session_lock, downVars>>

\* case_shutdown waits in tfs_destroy_after_all_closed ...
CaseShutdown(s) ==
    /\ up /\ wpc[s] = "exec" /\ Op(s) = "shutdown"
    /\ Fs!Shut
    /\ Goes(s, "down")
    /\ UNCHANGED <<clientVars, pipeVars, mainVars, sessions, session_lock, downVars>>

\* Variant: shutting_down is set without holding its lock until the answer.
ShutdownSetUnlocked(s) ==
    /\ up /\ wpc[s] = "down" /\ shutting_down_lock = NoSession
    /\ shutting_down' = TRUE
    /\ Goes(s, "answer")
    /\ UNCHANGED <<fsVars, clientVars, pipeVars, mainVars, sessions,
                   session_lock, up, shutdown_called, shutting_down_lock>>

ShutdownSet(s) ==
    /\ up /\ wpc[s] = "down" /\ shutting_down_lock = NoSession
    /\ shutting_down' = TRUE
    /\ shutting_down_lock' = s
    /\ Goes(s, "answer")
    /\ UNCHANGED <<fsVars, clientVars, pipeVars, mainVars, sessions,
                   session_lock, up, shutdown_called>>

\* ... answers before it lets go of shutting_down_lock ...
ShutdownAnswer(s) ==
    /\ up /\ wpc[s] = "answer"
    /\ Answer(s, 0)
    /\ shutting_down_lock' = NoSession
    /\ Goes(s, "exit")
    /\ UNCHANGED <<fsVars, clientVars, server_pipe, fifo, mainVars, sessions,
                   session_lock, up, shutting_down, shutdown_called>>

\* ... and ends the process.
ShutdownExit(s) ==
    /\ up /\ wpc[s] = "exit"
    /\ ServerEnds
    /\ UNCHANGED <<fsVars, clientVars, pipeVars, rpc, next_session_id, workVars,
                   shutting_down, shutdown_called, shutting_down_lock>>

\* Variant: the session stays active, with the old request in its buffer.
WorkerFinishStillActive(s) ==
    /\ up /\ wpc[s] = "finish"
    /\ session_lock' = [session_lock EXCEPT ![s] = FALSE]
    /\ Goes(s, "lock")
    /\ UNCHANGED <<fsVars, clientVars, pipeVars, mainVars, sessions, downVars>>

\* The buffer is cleared and the session free again, under its lock.
WorkerFinish(s) ==
    /\ up /\ wpc[s] = "finish"
    /\ sessions' = [sessions EXCEPT ![s].is_active = FALSE, ![s].buffer = NoMsg]
    /\ session_lock' = [session_lock EXCEPT ![s] = FALSE]
    /\ Goes(s, "lock")
    /\ UNCHANGED <<fsVars, clientVars, pipeVars, mainVars, downVars>>

-----------------------------------------------------------------------------
Main ==
    \/ DispatchMount \/ RefuseMount \/ Dispatch \/ CheckShutdown
    \/ Eof \/ ClosePipe \/ Reopen \/ Reopened \/ Continue \/ UnlockUnheld

Worker(s) ==
    \/ WorkerLock(s) \/ WorkerTest(s) \/ RefuseShutdown(s) \/ WorkerEnter(s)
    \/ CaseMount(s) \/ CaseMountFails(s) \/ CaseUnmount(s) \/ CaseUnmountUnlink(s)
    \/ CaseOpen(s) \/ CaseOpenFile(s) \/ CaseOpenDone(s) \/ CaseClose(s)
    \/ CaseWrite(s) \/ CaseRead(s) \/ CaseReadData(s)
    \/ CaseShutdown(s) \/ ShutdownSet(s) \/ ShutdownAnswer(s) \/ ShutdownExit(s)
    \/ WorkerFinish(s)

InCall(c) == MountWrite(c) \/ Answered(c) \/ ReadData(c)

Next ==
    \/ \E c \in Clients :
          \/ MountOpen(c) \/ InCall(c)
          \/ \E op \in Ops, fh \in Handles \cup {-1} : Request(c, op, fh)
    \/ Main
    \/ \E s \in Sessions : Worker(s) \/ WorkerSpuriousWakeup(s)

(* The threads of the server run, and a client inside a call goes on with   *)
(* it.  A thread that waits for shutting_down_lock, which others take again *)
(* and again, gets it in the end.  A worker that is free again waits, so    *)
(* that its session_lock stays free until the receptor takes it.  No client *)
(* has to call anything.                                                    *)
Fairness ==
    /\ WF_vars(Main)
    /\ SF_vars(CheckShutdown \/ Reopened)
    /\ \A s \in Sessions : WF_vars(Worker(s)) /\ SF_vars(WorkerTest(s) \/ ShutdownSet(s))
    /\ \A c \in Clients : WF_vars(InCall(c))

Spec == Init /\ [][Next]_vars
FairSpec == Spec /\ Fairness
=============================================================================
