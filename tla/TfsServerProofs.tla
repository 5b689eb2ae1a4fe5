-------------------------- MODULE TfsServerProofs --------------------------
(***************************************************************************)
(* Proofs about the server of TfsServer, for every number of clients,      *)
(* sessions and handles.                                                   *)
(***************************************************************************)
EXTENDS TfsServerCorrectness, FiniteSetTheorems, SequenceTheorems, TLAPS

-----------------------------------------------------------------------------
(* The inductive invariant, in parts. *)

\* The files: a handle set aside for an open is not open yet, and nobody
\* else's.
FilesInv ==
    /\ FilesTyped
    /\ \A s \in Sessions : opening[s].stage = "asked" => opening[s].name \in Names
    /\ \A s \in Sessions : opening[s].stage # "found" => opening[s].handle = -1
    /\ \A s \in Sessions : opening[s].stage = "found" =>
          /\ opening[s].at \in Positions
          /\ opening[s].handle \in Handles /\ ~Fs!Open(opening[s].handle)
          /\ \A t \in Sessions :
                opening[t].stage = "found" /\ opening[t].handle = opening[s].handle => s = t

\* The answers in a client's pipe.
AnswerMsgs == [op : Ops \cup {"mount", "data"}, val : Int]
PipesTyped == client_pipe \in [Clients -> Seq(AnswerMsgs)]

\* The worker of a session holds its lock from the moment it found a request
\* until it is free again.
Holding(s) == wpc[s] \in {"enter", "refuse", "admit", "exec", "open", "data",
                          "closing", "down", "answer", "exit", "finish"}

\* A request waits for the worker of session s, or is with it and not answered.
Pending(s) ==
    /\ sessions[s].is_active
    /\ wpc[s] \notin {"finish", "closing", "data", "exit", "ended"}

\* A worker holds the lock of its session exactly while it is busy, is busy
\* only with a request, and is at a stage of that request.
WorkersInv == \A s \in Sessions :
    /\ session_lock[s] <=> Holding(s)
    /\ Holding(s) \/ wpc[s] = "ended" => sessions[s].is_active
    /\ wpc[s] = "wait" => ~sessions[s].is_active
    /\ wpc[s] = "data" => Op(s) = "read"
    /\ wpc[s] = "open" => Op(s) = "open"
    /\ wpc[s] \in {"refuse", "down", "answer", "exit", "ended"} => Op(s) = "shutdown"

\* A session in use was given out; its answers go to the client whose request
\* it holds, once the mount that made it theirs is answered.
OwnersInv == \A s \in Sessions :
    /\ sessions[s].is_active =>
          /\ s < next_session_id
          /\ sessions[s].buffer.client \in Clients
          /\ Op(s) \in Ops \cup {"mount"}
          /\ IF Pending(s) /\ Op(s) = "mount"
             THEN sessions[s].tx = NoClient
             ELSE sessions[s].tx = sessions[s].buffer.client
    /\ s >= next_session_id => sessions[s].tx = NoClient

\* What a client asked for, and whose session it has.
CallsInv == \A c \in Clients :
    /\ cpc[c] = "asked" =>
          /\ call[c].client = c /\ call[c].op \in Ops \cup {"mount"}
          /\ call[c].op # "mount" => call[c].sid = csid[c]
          /\ call[c].op \in {"close", "read", "write"} => call[c].fh \in held[c]
    /\ cpc[c] = "data" => call[c].op = "read"
    /\ cpc[c] \notin {"asked", "data"} => call[c] = NoMsg
    /\ Mounted(c) => csid[c] \in Sessions /\ sessions[csid[c]].tx = c

\* The answers that a client has not read are those of the call it is in.
PipeInv(c) ==
    LET p == client_pipe[c] IN
    /\ cpc[c] = "asked" => Len(p) <= 2
    /\ cpc[c] = "asked" /\ Len(p) >= 1 =>
          /\ p[1].op = call[c].op
          /\ call[c].op = "mount" =>
                p[1].val \in Sessions /\ sessions[p[1].val].tx = c
          /\ call[c].op = "open" => p[1].val \in Handles \cup {-1}
    /\ cpc[c] = "asked" /\ Len(p) = 2 => call[c].op = "read" /\ p[2].op = "data"
    /\ cpc[c] = "data" => Len(p) <= 1
    /\ cpc[c] = "data" /\ Len(p) = 1 => p[1].op = "data"
    /\ cpc[c] \notin {"asked", "data"} => Len(p) = 0
PipesInv == \A c \in Clients : PipeInv(c)

\* The request of client c is in the server's pipe.
Queued(c) == \E k \in 1 .. Len(server_pipe) : server_pipe[k].client = c

\* A request in the server's pipe is the call of a client that waits for its
\* answer, and is there once.
QueueInv ==
    /\ \A k \in 1 .. Len(server_pipe) :
          LET c == server_pipe[k].client IN
          c \in Clients /\ cpc[c] = "asked" /\ call[c] = server_pipe[k]
              /\ Len(client_pipe[c]) = 0
    /\ \A k, l \in 1 .. Len(server_pipe) :
          server_pipe[k].client = server_pipe[l].client => k = l

\* A request with a worker is the call of a client that waits for its answer,
\* and is nowhere else.
PendingInv == \A s \in Sessions : Pending(s) =>
    LET c == sessions[s].buffer.client IN
    /\ cpc[c] = "asked" /\ Len(client_pipe[c]) = 0
    /\ call[c].op = Op(s)
    /\ Op(s) # "mount" => call[c] = sessions[s].buffer /\ csid[c] = s
    /\ ~Queued(c)
    /\ \A t \in Sessions :
          Pending(t) /\ sessions[t].buffer.client = c => s = t

\* A worker that owes the bytes of a read owes them to a client that has not
\* got them; one that has ended refused the shutdown of its client.
StagesInv == \A s \in Sessions :
    LET c == sessions[s].buffer.client IN
    /\ wpc[s] = "data" =>
          /\ c \in Clients /\ csid[c] = s /\ call[c].op = "read"
          /\ \/ cpc[c] = "asked" /\ Len(client_pipe[c]) = 1
             \/ cpc[c] = "data" /\ Len(client_pipe[c]) = 0
    /\ wpc[s] = "ended" =>
          /\ c \in Clients
          /\ \/ cpc[c] = "asked" /\ call[c].op = "shutdown" /\ Len(client_pipe[c]) = 1
             \/ cpc[c] = "gone"

\* A request whose answer has not come is somewhere.
Somewhere(c) ==
    \/ Queued(c)
    \/ \E s \in Sessions : Pending(s) /\ sessions[s].buffer.client = c
    \/ Refused /\ call[c].op = "mount"
NoneLost == \A c \in Clients :
    cpc[c] = "asked" /\ Len(client_pipe[c]) = 0 => Somewhere(c)

\* The mounts that were begun cover the sessions given out and the mounts that
\* the receptor has yet to read.
Mounting == {c \in Clients :
    \/ cpc[c] = "opened"
    \/ Queued(c) /\ call[c].op = "mount"}
MountsInv ==
    /\ IsFiniteSet(Mounting)
    /\ next_session_id + Cardinality(Mounting) <= mounts + 1

\* The handles that client c has, counting an answer it has yet to read.
Owns(c) ==
    IF cpc[c] = "asked" /\ Len(client_pipe[c]) > 0
    THEN HeldAfter(c, client_pipe[c][1].val) ELSE held[c]
HandlesInv == \A c \in Clients :
    /\ Owns(c) \subseteq Handles
    /\ \A h \in Owns(c) : Fs!Open(h)
    /\ \A d \in Clients \ {c} : Owns(c) \cap Owns(d) = {}

\* Until a mount is refused, shutting_down_lock is held by the worker in its
\* critical section, no worker has a request while the receptor reopens the
\* pipe, and a shutdown is admitted only when there was none.
Shutter(s) == wpc[s] \in {"exec", "down", "answer", "exit"} /\ Op(s) = "shutdown"
LockInv ==
    /\ \A s \in Sessions : Shutter(s) => shutdown_called
    /\ ~Refused =>
          /\ rpc \in {"eof", "reopen", "reopened", "continue", "unlock"} =>
                \A s \in Sessions : ~Pending(s)
          /\ \A s \in Sessions :
                /\ wpc[s] \in {"refuse", "admit", "answer"} => shutting_down_lock = s
                /\ wpc[s] = "admit" /\ Op(s) = "shutdown" => ~shutdown_called
                /\ \A t \in Sessions : Shutter(s) /\ Shutter(t) => s = t

ServerInv ==
    /\ ServerTyped /\ PipesTyped /\ FilesInv
    /\ WorkersInv /\ OwnersInv /\ CallsInv /\ PipesInv /\ QueueInv
    /\ PendingInv /\ StagesInv /\ NoneLost
    /\ MountsInv /\ HandlesInv /\ LockInv

-----------------------------------------------------------------------------
(* What a step does to the requests.  Most steps of the receptor and of a   *)
(* worker leave them where they are; the others are of the ten kinds below. *)

SameOpen == \A h \in Handles : Fs!Open(h)' <=> Fs!Open(h)

Quiet ==
    /\ UNCHANGED <<clientVars, server_pipe, client_pipe, next_session_id, sessions>>
    /\ \A s \in Sessions :
          /\ Pending(s)' <=> Pending(s)
          /\ wpc'[s] \in {"data", "ended"} => wpc'[s] = wpc[s]
    /\ SameOpen

\* Client c writes its request m.
Sent(c, m) ==
    /\ \/ cpc[c] = "opened" /\ m = Msg("mount", c, NoSession, -1)
       \/ cpc[c] = "idle" /\ m = Msg(m.op, c, csid[c], m.fh) /\ m.op \in Ops
    /\ m \in Msgs
    /\ m.op \in {"close", "read", "write"} => m.fh \in held[c]
    /\ server_pipe' = Append(server_pipe, m)
    /\ cpc' = [cpc EXCEPT ![c] = "asked"]
    /\ call' = [call EXCEPT ![c] = m]
    /\ UNCHANGED <<fsVars, csid, held, mounts, client_pipe, next_session_id, sessions, wpc>>

\* Client c is killed as it writes.
Killed(c) ==
    /\ cpc[c] \in {"opened", "idle"}
    /\ cpc' = [cpc EXCEPT ![c] = "killed"]
    /\ UNCHANGED <<fsVars, call, csid, held, mounts, server_pipe, client_pipe,
                   next_session_id, sessions, wpc>>

\* What the answer val to the request of session s does to the handles.
Effect(s, val) ==
    CASE Op(s) = "close" ->
            LET h == sessions[s].buffer.fh IN
            h \in Handles => position' = [position EXCEPT ![h] = Fs!Closed]
      [] Op(s) = "open"  ->
            \/ val = -1 /\ SameOpen
            \/ /\ val \in Handles /\ ~Fs!Open(val)
               /\ \E at \in Positions : position' = [position EXCEPT ![val] = at]
      [] OTHER           -> SameOpen

\* The worker of session s answers its request and goes to stage w.
Answering(s, val, w) ==
    LET c == sessions[s].buffer.client IN
    /\ Pending(s) /\ val \in Int
    /\ client_pipe' = [client_pipe EXCEPT ![c] = Append(@, [op |-> Op(s), val |-> val])]
    /\ IF Op(s) = "mount"
       THEN val = s /\ sessions' = [sessions EXCEPT ![s].tx = c]
       ELSE UNCHANGED sessions
    /\ wpc' = [wpc EXCEPT ![s] = w]
    /\ w \in {"finish", "closing", "data", "exit", "ended"}
    /\ w = "data" => Op(s) = "read"
    /\ w = "ended" => Op(s) = "shutdown"
    /\ Effect(s, val)
    /\ UNCHANGED <<clientVars, server_pipe, next_session_id>>

\* The receptor leaves its oldest request, as m, in the buffer of session s.
Taken(s, m) ==
    LET q == server_pipe[1] IN
    /\ Len(server_pipe) > 0 /\ server_pipe' = Tail(server_pipe)
    /\ ~Pending(s)
    /\ sessions'[s].is_active /\ sessions'[s].buffer = m
    /\ sessions'[s].tx = sessions[s].tx
    /\ \A t \in Sessions \ {s} : sessions'[t] = sessions[t]
    /\ wpc[s] \in {"lock", "wait"} /\ wpc'[s] = "lock" /\ Pending(s)'
    /\ \A t \in Sessions \ {s} : (Pending(t)' <=> Pending(t)) /\ wpc'[t] = wpc[t]
    /\ IF q.op = "mount"
       THEN /\ m.op = "mount" /\ m.client = q.client
            /\ s = next_session_id /\ next_session_id' = next_session_id + 1
            /\ next_session_id < MAX_CLIENTS
       ELSE m = q /\ s = q.sid /\ UNCHANGED next_session_id
    /\ UNCHANGED <<fsVars, clientVars, client_pipe, session_lock>>

StepKinds ==
    \/ Quiet
    \/ \E c \in Clients :
          \/ MountOpen(c) \/ Killed(c) \/ Answered(c) \/ ReadData(c)
          \/ \E m \in Msgs : Sent(c, m)
    \/ \E s \in Sessions, m \in Msgs : Taken(s, m)
    \/ RefuseMount
    \/ \E s \in Sessions :
          \/ \E val, w : Answering(s, val, w)
          \/ CaseReadData(s) \/ WorkerFinish(s)

Types == ServerTyped /\ PipesTyped /\ FilesInv

\* A message of a client to the server.
LEMMA Messages ==
    ASSUME NEW op \in Ops \cup {"none", "mount"}, NEW c \in Clients \cup {NoClient},
           NEW sid \in Sessions \cup {NoSession}, NEW fh \in Handles \cup {-1}
    PROVE  /\ Msg(op, c, sid, fh) \in Msgs
           /\ Msg(op, c, sid, fh).op = op
           /\ Msg(op, c, sid, fh).client = c
           /\ Msg(op, c, sid, fh).sid = sid
           /\ Msg(op, c, sid, fh).fh = fh
  BY DEF Msg, Msgs

\* A handle is a number, and the null values are none of the sets.
LEMMA HandlesAreInts == \A h \in Handles : h \in Int /\ h >= 0
  BY ServerAssumption DEF ServerAssumption

\* The position of an open handle is not that of a closed one.
LEMMA OpenPositions == \A at \in Positions : at # Fs!Closed
<1>1. ASSUME NEW at \in Positions  PROVE at.file >= 0
  <2>1. at.file \in Files
    BY DEF Positions
  <2>2. \A f \in Files : f \in Nat
    BY ServerAssumption DEF ServerAssumption
  <2>. QED  BY <2>1, <2>2
<1>2. Fs!Closed.file = -1
  BY DEF Fs!Closed, Fs!NoFile
<1>. QED  BY <1>1, <1>2

\* Moving the position of a handle opens and closes nothing.
LEMMA SameOpenMoved ==
    ASSUME FilesInv, NEW h, NEW end, Fs!Open(h),
           position' = [position EXCEPT ![h].offset = end]
    PROVE  SameOpen
<1>1. \A g \in Handles : position'[g] = IF g = h THEN [position[g] EXCEPT !.offset = end]
                                                  ELSE position[g]
  BY DEF FilesInv, FilesTyped
<1>2. ASSUME NEW g \in Handles, g = h  PROVE Fs!Open(g)' <=> Fs!Open(g)
  <2>1. position[g] \in Positions
    BY <1>2 DEF FilesInv, FilesTyped, Fs!Open
  <2>2. position'[g].file = position[g].file /\ position[g].file \in Nat
    BY <1>1, <1>2, <2>1, ServerAssumption DEF Positions, ServerAssumption
  <2>3. Fs!Closed.file = -1
    BY DEF Fs!Closed, Fs!NoFile
  <2>. QED  BY <1>2, <2>2, <2>3 DEF Fs!Open, Fs!Closed
<1>3. ASSUME NEW g \in Handles, g # h  PROVE Fs!Open(g)' <=> Fs!Open(g)
  BY <1>1, <1>3 DEF Fs!Open, Fs!Closed
<1>. QED  BY <1>2, <1>3 DEF SameOpen

\* A client that writes to the server's pipe sends its request or is killed.
LEMMA ClientKinds ==
    ASSUME ServerTyped, NEW c \in Clients,
           MountWrite(c) \/ \E op \in Ops, fh \in Handles \cup {-1} : Request(c, op, fh)
    PROVE  Killed(c) \/ \E m \in Msgs : Sent(c, m)
<1>1. CASE MountWrite(c)
  <2>1. Msg("mount", c, NoSession, -1) \in Msgs
        /\ Msg("mount", c, NoSession, -1).op = "mount"
    BY Messages DEF NoSession
  <2>2. CASE rx_open
    BY <1>1, <2>1, <2>2 DEF MountWrite, Send, Sent, mainVars, workVars
  <2>3. CASE ~rx_open
    BY <1>1, <2>3 DEF MountWrite, Send, Killed, mainVars, workVars
  <2>. QED  BY <2>2, <2>3
<1>2. ASSUME NEW op \in Ops, NEW fh \in Handles \cup {-1}, Request(c, op, fh)
      PROVE  Killed(c) \/ \E m \in Msgs : Sent(c, m)
  <2>. DEFINE m == Msg(op, c, csid[c], fh)
  <2>1. csid[c] \in Sessions \cup {NoSession}
    BY DEF ServerTyped
  <2>2. m \in Msgs /\ m.op = op /\ m.fh = fh
    BY <2>1, Messages
  <2>3. CASE rx_open
    <3>1. Sent(c, m)
      BY <1>2, <2>2, <2>3 DEF Request, Send, Sent, mainVars, workVars
    <3>. QED  BY <2>2, <3>1
  <2>4. CASE ~rx_open
    BY <1>2, <2>4 DEF Request, Send, Killed, mainVars, workVars
  <2>. QED  BY <2>3, <2>4
<1>. QED  BY <1>1, <1>2

\* The steps of the receptor that take no request leave the requests alone.
LEMMA MainKinds ==
    ASSUME Main
    PROVE  DispatchMount \/ Dispatch \/ RefuseMount \/ Quiet
<1>. USE DEF Quiet, Pending, SameOpen, Fs!Open, Fs!Closed, fsVars, clientVars, pipeVars,
             mainVars, workVars, ServerEnds
<1>1. CASE CheckShutdown  BY <1>1 DEF CheckShutdown
<1>2. CASE Eof            BY <1>2 DEF Eof
<1>3. CASE ClosePipe      BY <1>3 DEF ClosePipe
<1>4. CASE Reopen         BY <1>4 DEF Reopen
<1>5. CASE Reopened       BY <1>5 DEF Reopened
<1>6. CASE Continue       BY <1>6 DEF Continue
<1>7. CASE UnlockUnheld   BY <1>7 DEF UnlockUnheld
<1>. QED  BY <1>1, <1>2, <1>3, <1>4, <1>5, <1>6, <1>7 DEF Main

\* A worker between two answers leaves the requests alone.
LEMMA WorkKinds ==
    ASSUME Types, WorkersInv, NEW s \in Sessions,
           \/ WorkerLock(s) \/ WorkerSpuriousWakeup(s) \/ WorkerTest(s) \/ WorkerEnter(s)
           \/ CaseMountFails(s) \/ CaseUnmountUnlink(s) \/ CaseOpenFile(s)
           \/ CaseShutdown(s) \/ ShutdownSet(s) \/ ShutdownExit(s)
    PROVE  Quiet
<1>. wpc \in [Sessions -> {"lock", "wait", "enter", "refuse", "admit", "exec",
            "open", "data", "closing", "down", "answer", "exit", "finish", "ended"}]
  BY DEF Types, ServerTyped
<1>. USE DEF Quiet, Pending, SameOpen, Fs!Open, Fs!Closed, fsVars, clientVars, pipeVars,
             mainVars, workVars, downVars, ServerEnds, Goes
<1>1. CASE WorkerLock(s)            BY <1>1 DEF WorkerLock
<1>2. CASE WorkerSpuriousWakeup(s)  BY <1>2 DEF WorkerSpuriousWakeup
<1>3. CASE WorkerTest(s)            BY <1>3 DEF WorkerTest
<1>4. CASE WorkerEnter(s)           BY <1>4 DEF WorkerEnter
<1>5. CASE CaseMountFails(s)        BY <1>5 DEF CaseMountFails
<1>6. CASE CaseUnmountUnlink(s)     BY <1>6 DEF CaseUnmountUnlink
<1>7. CASE CaseOpenFile(s)
  BY <1>7 DEF CaseOpenFile, Fs!OpenOld, Fs!OpenNew, Fs!OpenNone
<1>8. CASE CaseShutdown(s)          BY <1>8 DEF CaseShutdown, Fs!Shut
<1>9. CASE ShutdownSet(s)           BY <1>9 DEF ShutdownSet
<1>10. CASE ShutdownExit(s)         BY <1>10 DEF ShutdownExit
<1>. QED  BY <1>1, <1>2, <1>3, <1>4, <1>5, <1>6, <1>7, <1>8, <1>9, <1>10

\* A worker that answers its request, or finds that an open is to wait.
LEMMA AnswerKinds ==
    ASSUME Types, WorkersInv, OwnersInv, NEW s \in Sessions,
           \/ RefuseShutdown(s) \/ CaseMount(s) \/ CaseUnmount(s) \/ CaseOpen(s)
           \/ CaseOpenDone(s) \/ CaseClose(s) \/ CaseWrite(s) \/ CaseRead(s)
           \/ ShutdownAnswer(s)
    PROVE  Quiet \/ \E val, w : Answering(s, val, w)
<1>. DEFINE c == sessions[s].buffer.client
<1>. /\ wpc \in [Sessions -> {"lock", "wait", "enter", "refuse", "admit", "exec",
            "open", "data", "closing", "down", "answer", "exit", "finish", "ended"}]
     /\ s \in Nat
  BY DEF Types, ServerTyped, Sessions
<1>0. wpc[s] \in {"refuse", "exec", "open", "answer"}
  BY DEF RefuseShutdown, CaseMount, CaseUnmount, CaseOpen, CaseOpenDone, CaseClose,
         CaseWrite, CaseRead, ShutdownAnswer
<1>1. Pending(s) /\ (Op(s) # "mount" => sessions[s].tx = c)
  BY <1>0 DEF WorkersInv, OwnersInv, Holding, Pending
<1>2. wpc[s] \in {"refuse", "answer"} => Op(s) = "shutdown"
  BY DEF WorkersInv
<1>3. wpc[s] = "open" => Op(s) = "open"
  BY DEF WorkersInv
<1>a. ASSUME NEW val, NEW w \in {"finish", "closing", "data", "exit", "ended"},
             val \in Int, Answer(s, val), Goes(s, w), Effect(s, val), Op(s) # "mount",
             UNCHANGED <<clientVars, server_pipe, mainVars, sessions>>,
             w = "data" => Op(s) = "read", w = "ended" => Op(s) = "shutdown"
      PROVE  Answering(s, val, w)
  <2>1. client_pipe' = [client_pipe EXCEPT ![c] = Append(@, [op |-> Op(s), val |-> val])]
    BY <1>1, <1>a, Zenon DEF Answer
  <2>. QED  BY <1>1, <1>a, <2>1 DEF Answering, Goes, mainVars
<1>4. CASE RefuseShutdown(s)
  <2>. Effect(s, -1)
    BY <1>2, <1>4 DEF RefuseShutdown, Effect, SameOpen, Fs!Open, Fs!Closed, fsVars
  <2>. Answering(s, -1, "ended")
    BY <1>a, <1>2, <1>4 DEF RefuseShutdown
  <2>. QED  OBVIOUS
<1>5. CASE CaseMount(s)
  <2>. Effect(s, s)
    BY <1>5 DEF CaseMount, Effect, SameOpen, Fs!Open, Fs!Closed, fsVars
  <2>. Answering(s, s, "finish")
    BY <1>1, <1>5 DEF CaseMount, Answering, Goes, mainVars
  <2>. QED  OBVIOUS
<1>6. CASE CaseUnmount(s)
  <2>. Effect(s, 0)
    BY <1>6 DEF CaseUnmount, Effect, SameOpen, Fs!Open, Fs!Closed, fsVars
  <2>. Answering(s, 0, "closing")
    BY <1>a, <1>6 DEF CaseUnmount
  <2>. QED  OBVIOUS
<1>7. CASE CaseOpen(s)
  <2>1. CASE active
    BY <1>7, <2>1 DEF CaseOpen, Fs!Admit, Goes, Quiet, Pending, SameOpen, Fs!Open,
          Fs!Closed, clientVars, pipeVars, mainVars
  <2>2. CASE ~active
    <3>. Effect(s, -1)
      BY <1>7, <2>2 DEF CaseOpen, Effect, SameOpen, Fs!Open, Fs!Closed, fsVars
    <3>. Answering(s, -1, "finish")
      BY <1>a, <1>7, <2>2 DEF CaseOpen, OpenOver
    <3>. QED  OBVIOUS
  <2>. QED  BY <2>1, <2>2
<1>8. CASE CaseOpenDone(s)
  <2>1. CASE Fs!HandOut(s) /\ OpenOver(s, opening[s].handle)
    <3>. DEFINE h == opening[s].handle
    <3>1. h \in Handles /\ ~Fs!Open(h) /\ opening[s].at \in Positions /\ h \in Int
      <4>1. opening[s].stage = "found"
        BY <2>1 DEF Fs!HandOut
      <4>2. h \in Handles /\ ~Fs!Open(h) /\ opening[s].at \in Positions
        BY <4>1 DEF Types, FilesInv, FilesTyped
      <4>3. h \in Int
        BY <4>2, HandlesAreInts
      <4>. QED  BY <4>2, <4>3
    <3>2. position' = [position EXCEPT ![h] = opening[s].at]
      BY <2>1 DEF Fs!HandOut
    <3>3. Effect(s, h)
      BY <1>3, <1>8, <3>1, <3>2 DEF CaseOpenDone, Effect
    <3>. Answering(s, h, "finish")
      BY <1>a, <1>3, <1>8, <2>1, <3>1, <3>3
         DEF CaseOpenDone, OpenOver
    <3>. QED  OBVIOUS
  <2>2. CASE OpenOver(s, -1) /\ UNCHANGED fsVars
    <3>. Effect(s, -1)
      BY <1>3, <1>8, <2>2 DEF CaseOpenDone, Effect, SameOpen, Fs!Open, Fs!Closed, fsVars
    <3>. Answering(s, -1, "finish")
      BY <1>a, <1>3, <1>8, <2>2 DEF CaseOpenDone, OpenOver
    <3>. QED  OBVIOUS
  <2>. QED  BY <1>8, <2>1, <2>2 DEF CaseOpenDone
<1>9. CASE CaseClose(s)
  <2>. Effect(s, 0)
    BY <1>9 DEF CaseClose, Effect, Fs!Close
  <2>. Answering(s, 0, "finish")
    BY <1>a, <1>9 DEF CaseClose
  <2>. QED  OBVIOUS
<1>10. CASE CaseWrite(s)
  <2>. DEFINE h == sessions[s].buffer.fh
  <2>1. PICK n \in Int :
           /\ Answer(s, n)
           /\ UNCHANGED fsVars \/ \E b \in Bytes : Fs!Write(h, n, b)
    BY <1>10 DEF CaseWrite
  <2>2. SameOpen
    <3>1. CASE UNCHANGED fsVars
      BY <3>1 DEF fsVars, SameOpen, Fs!Open, Fs!Closed
    <3>2. CASE \E b \in Bytes : Fs!Write(h, n, b)
      BY <3>2, SameOpenMoved DEF Fs!Write, Types
    <3>. QED  BY <2>1, <3>1, <3>2
  <2>. Effect(s, n)
    BY <1>10, <2>2 DEF CaseWrite, Effect
  <2>. Answering(s, n, "finish")
    BY <1>a, <1>10, <2>1 DEF CaseWrite
  <2>. QED  OBVIOUS
<1>11. CASE CaseRead(s)
  <2>. DEFINE h == sessions[s].buffer.fh
  <2>1. PICK n \in Int, w \in {"data", "finish"} :
           /\ Answer(s, n) /\ Goes(s, w)
           /\ UNCHANGED fsVars \/ Fs!Read(h, n)
    BY <1>11 DEF CaseRead
  <2>2. SameOpen
    <3>1. CASE UNCHANGED fsVars
      BY <3>1 DEF fsVars, SameOpen, Fs!Open, Fs!Closed
    <3>2. CASE Fs!Read(h, n)
      BY <3>2, SameOpenMoved DEF Fs!Read, Types
    <3>. QED  BY <2>1, <3>1, <3>2
  <2>. Effect(s, n)
    BY <1>11, <2>2 DEF CaseRead, Effect
  <2>. Answering(s, n, w)
    BY <1>a, <1>11, <2>1 DEF CaseRead
  <2>. QED  OBVIOUS
<1>12. CASE ShutdownAnswer(s)
  <2>. Effect(s, 0)
    BY <1>2, <1>12 DEF ShutdownAnswer, Effect, SameOpen, Fs!Open, Fs!Closed, fsVars
  <2>. Answering(s, 0, "exit")
    BY <1>a, <1>2, <1>12 DEF ShutdownAnswer
  <2>. QED  OBVIOUS
<1>. QED  BY <1>4, <1>5, <1>6, <1>7, <1>8, <1>9, <1>10, <1>11, <1>12

\* The receptor leaves a request with a session whose worker has none.
LEMMA TakenKinds ==
    ASSUME Types, WorkersInv, OwnersInv, CallsInv, QueueInv, PendingInv, StagesInv,
           DispatchMount \/ Dispatch
    PROVE  \E s \in Sessions, m \in Msgs : Taken(s, m)
<1>. DEFINE q == server_pipe[1]
<1>1. /\ Len(server_pipe) > 0 /\ Head(server_pipe) = q /\ q \in Msgs
      /\ 1 \in 1 .. Len(server_pipe)
  BY DEF DispatchMount, Dispatch, Types, ServerTyped
<1>2. /\ sessions \in [Sessions -> [is_active : BOOLEAN, buffer : Msgs,
                                    tx : Clients \cup {NoClient}]]
      /\ wpc \in [Sessions -> {"lock", "wait", "enter", "refuse", "admit", "exec",
            "open", "data", "closing", "down", "answer", "exit", "finish", "ended"}]
      /\ next_session_id \in Nat \ {0}
  BY DEF Types, ServerTyped
<1>3. ASSUME NEW s \in Sessions, NEW m \in Msgs, Dispatched(s, m),
             ~Pending(s), wpc[s] # "ended"
      PROVE  /\ sessions'[s].is_active /\ sessions'[s].buffer = m
             /\ sessions'[s].tx = sessions[s].tx
             /\ \A t \in Sessions \ {s} : sessions'[t] = sessions[t]
             /\ wpc[s] \in {"lock", "wait"} /\ wpc'[s] = "lock" /\ Pending(s)'
             /\ \A t \in Sessions \ {s} : (Pending(t)' <=> Pending(t)) /\ wpc'[t] = wpc[t]
  <2>1. wpc[s] \in {"lock", "wait"}
    BY <1>2, <1>3 DEF Dispatched, WorkersInv, Holding
  <2>2. wpc' = [wpc EXCEPT ![s] = "lock"]
    BY <1>2, <1>3, <2>1 DEF Dispatched
  <2>3. /\ sessions'[s].is_active /\ sessions'[s].buffer = m
        /\ sessions'[s].tx = sessions[s].tx
        /\ \A t \in Sessions \ {s} : sessions'[t] = sessions[t]
    BY <1>2, <1>3 DEF Dispatched
  <2>. QED  BY <1>2, <2>1, <2>2, <2>3 DEF Pending
<1>4. CASE DispatchMount
  <2>0. next_session_id \in Sessions /\ next_session_id < MAX_CLIENTS
    BY <1>2, <1>4, ServerAssumption DEF DispatchMount, Sessions, ServerAssumption
  <2>1. PICK s \in Sessions : s = next_session_id
    BY <2>0
  <2>2. PICK m \in Msgs : m = [q EXCEPT !.sid = s] /\ m.op = q.op /\ m.client = q.client
    <3>1. /\ [q EXCEPT !.sid = s].op = q.op /\ [q EXCEPT !.sid = s].client = q.client
          /\ [q EXCEPT !.sid = s] \in Msgs
      BY <1>1 DEF Msgs
    <3>. QED  BY <3>1
  <2>3. ~Pending(s) /\ wpc[s] # "ended"
    BY <1>2, <2>1 DEF Pending, OwnersInv, WorkersInv
  <2>4. Dispatched(s, m)
    BY <1>1, <1>4, <2>1, <2>2 DEF DispatchMount
  <2>5. /\ q.op = "mount" /\ server_pipe' = Tail(server_pipe)
        /\ next_session_id' = next_session_id + 1
        /\ UNCHANGED <<fsVars, clientVars, client_pipe, session_lock>>
    BY <1>1, <1>4 DEF DispatchMount
  <2>6. Taken(s, m)
    BY <1>1, <1>3, <2>0, <2>1, <2>2, <2>3, <2>4, <2>5, Zenon DEF Taken
  <2>. QED  BY <2>1, <2>2, <2>6
<1>5. CASE Dispatch
  <2>0. /\ q.op # "mount" /\ q.client \in Clients /\ cpc[q.client] = "asked"
        /\ call[q.client] = q
    BY <1>1, <1>5 DEF Dispatch, QueueInv
  <2>. PICK c \in Clients : c = q.client
    BY <2>0
  <2>. PICK s \in Sessions : s = q.sid
    BY <2>0 DEF CallsInv, Mounted
  <2>. PICK m \in Msgs : m = q
    BY <1>1
  <2>1. /\ q.op # "mount" /\ Dispatched(s, m) /\ server_pipe' = Tail(server_pipe)
        /\ UNCHANGED <<fsVars, clientVars, client_pipe, next_session_id, session_lock>>
    BY <1>1, <1>5 DEF Dispatch
  <2>2. c \in Clients /\ cpc[c] = "asked" /\ call[c] = q /\ Len(client_pipe[c]) = 0
    BY <1>1 DEF QueueInv
  <2>3. s = csid[c] /\ s \in Sessions /\ sessions[s].tx = c
    BY <2>1, <2>2 DEF CallsInv, Mounted
  <2>4. Queued(c)
    BY <1>1 DEF Queued
  <2>5. ~Pending(s)
    BY <2>2, <2>3, <2>4, ServerAssumption DEF Pending, PendingInv, OwnersInv, ServerAssumption
  <2>6. wpc[s] # "ended"
    <3>1. SUFFICES ASSUME wpc[s] = "ended"  PROVE FALSE
      OBVIOUS
    <3>2. sessions[s].is_active
      BY <2>3, <3>1 DEF WorkersInv
    <3>3. sessions[s].buffer.client = c
      BY <2>2, <2>3, <2>5, <3>2 DEF OwnersInv
    <3>4. Len(client_pipe[c]) = 1 \/ cpc[c] = "gone"
      BY <2>3, <3>1, <3>3, Zenon DEF StagesInv
    <3>. QED  BY <2>2, <3>4
  <2>7. Taken(s, m)
    BY <1>1, <1>3, <2>1, <2>3, <2>5, <2>6, Zenon DEF Taken
  <2>. QED  BY <1>1, <2>3, <2>7
<1>. QED  BY <1>4, <1>5

\* Every step of the server and its clients is of one of these kinds.
LEMMA Kinds ==
    ASSUME Types, WorkersInv, OwnersInv, CallsInv, QueueInv, PendingInv, StagesInv,
           [Next]_vars
    PROVE  StepKinds
<1>1. CASE UNCHANGED vars
  BY <1>1 DEF vars, StepKinds, Quiet, Pending, SameOpen, Fs!Open, Fs!Closed, fsVars,
              clientVars, pipeVars, mainVars, workVars
<1>2. ASSUME NEW c \in Clients,
             \/ MountOpen(c) \/ InCall(c)
             \/ \E op \in Ops, fh \in Handles \cup {-1} : Request(c, op, fh)
      PROVE  StepKinds
  BY <1>2, ClientKinds DEF Types, InCall, StepKinds
<1>3. CASE Main
  BY <1>3, MainKinds, TakenKinds DEF StepKinds
<1>4. ASSUME NEW s \in Sessions, Worker(s) \/ WorkerSpuriousWakeup(s)
      PROVE  StepKinds
  BY <1>4, WorkKinds, AnswerKinds DEF Worker, StepKinds
<1>. QED  BY <1>1, <1>2, <1>3, <1>4 DEF Next

-----------------------------------------------------------------------------
(* Each kind of step keeps the invariants about requests.                   *)

RequestsInv ==
    /\ OwnersInv /\ CallsInv /\ PipesInv /\ QueueInv /\ PendingInv /\ StagesInv
    /\ NoneLost /\ MountsInv /\ HandlesInv

\* A step that leaves the requests alone.
LEMMA QuietKeeps ==
    ASSUME Types, RequestsInv, Quiet
    PROVE  RequestsInv'
<1>. USE DEF Quiet, clientVars, RequestsInv
<1>1. OwnersInv'    BY DEF OwnersInv, Op
<1>2. CallsInv'     BY DEF CallsInv, Mounted
<1>3. PipesInv'     BY DEF PipesInv, PipeInv
<1>4. QueueInv'     BY DEF QueueInv
<1>5. PendingInv'   BY DEF PendingInv, Op, Queued
<1>6. StagesInv'    BY DEF StagesInv
<1>7. NoneLost'     BY DEF NoneLost, Somewhere, Queued, Refused
<1>8. MountsInv'    BY DEF MountsInv, Mounting, Queued
<1>9. HandlesInv'
  <2>1. \A c \in Clients : Owns(c)' = Owns(c)
    BY DEF Owns, HeldAfter
  <2>. QED  BY <2>1 DEF HandlesInv, SameOpen
<1>. QED  BY <1>1, <1>2, <1>3, <1>4, <1>5, <1>6, <1>7, <1>8, <1>9

\* The types of what the clients keep.
ClientTypes ==
    /\ cpc \in [Clients -> {"out", "opened", "asked", "data", "idle", "gone", "killed"}]
    /\ call \in [Clients -> Msgs]
    /\ csid \in [Clients -> Sessions \cup {NoSession}]
    /\ held \in [Clients -> SUBSET Handles]
    /\ client_pipe \in [Clients -> Seq(AnswerMsgs)]
    /\ server_pipe \in Seq(Msgs)
    /\ mounts \in Nat /\ next_session_id \in Nat \ {0}
    /\ sessions \in [Sessions -> [is_active : BOOLEAN, buffer : Msgs,
                                  tx : Clients \cup {NoClient}]]
    /\ wpc \in [Sessions -> {"lock", "wait", "enter", "refuse", "admit", "exec",
            "open", "data", "closing", "down", "answer", "exit", "finish", "ended"}]

\* They are part of the types.
LEMMA TypesOfClients == ASSUME Types PROVE ClientTypes
  BY DEF Types, ServerTyped, PipesTyped, ClientTypes

\* A client that is killed had no request anywhere.
LEMMA KilledKeeps ==
    ASSUME Types, RequestsInv, NEW c \in Clients, Killed(c)
    PROVE  RequestsInv'
<1>. ClientTypes  BY TypesOfClients
<1>. USE DEF Killed, RequestsInv
<1>0. call[c] = NoMsg /\ ~Queued(c) /\ Len(client_pipe[c]) = 0
  BY DEF CallsInv, Queued, QueueInv, PipesInv, PipeInv
<1>p. \A s \in Sessions : Pending(s)' <=> Pending(s)
  BY DEF Pending
<1>1. OwnersInv'    BY <1>p DEF OwnersInv, Op
<1>2. CallsInv'     BY <1>0 DEF CallsInv, Mounted, ClientTypes, NoMsg, Msg
<1>3. PipesInv'     BY <1>0 DEF PipesInv, PipeInv, ClientTypes
<1>4. QueueInv'     BY DEF QueueInv, ClientTypes
<1>5. PendingInv'   BY <1>p DEF PendingInv, Op, Queued, ClientTypes, OwnersInv, Pending
<1>6. StagesInv'    BY DEF StagesInv, ClientTypes
<1>7. NoneLost'     BY <1>p DEF NoneLost, Somewhere, Queued, Refused, ClientTypes
<1>8. MountsInv'
  <2>1. Mounting' = Mounting \ {c}
    BY <1>0 DEF Mounting, Queued, ClientTypes
  <2>2. IsFiniteSet(Mounting \ {c}) /\ Cardinality(Mounting \ {c}) <= Cardinality(Mounting)
        /\ Cardinality(Mounting \ {c}) \in Nat /\ Cardinality(Mounting) \in Nat
    BY FS_Subset, FS_CardinalityType DEF MountsInv
  <2>. QED  BY <2>1, <2>2 DEF MountsInv, ClientTypes
<1>9. HandlesInv'
  <2>1. \A d \in Clients : Owns(d)' = Owns(d)
    BY DEF Owns, HeldAfter, ClientTypes
  <2>. QED  BY <2>1 DEF HandlesInv, Fs!Open, Fs!Closed, fsVars
<1>. QED  BY <1>1, <1>2, <1>3, <1>4, <1>5, <1>6, <1>7, <1>8, <1>9

\* A client without a request puts one into the server's pipe.
LEMMA SentKeeps ==
    ASSUME Types, RequestsInv, NEW c \in Clients, NEW m \in Msgs, Sent(c, m)
    PROVE  RequestsInv'
<1>. ClientTypes  BY TypesOfClients
<1>. USE DEF Sent, RequestsInv
<1>0. /\ call[c] = NoMsg /\ ~Queued(c) /\ Len(client_pipe[c]) = 0
      /\ m.client = c /\ m.op \in Ops \cup {"mount"}
      /\ cpc[c] = "idle" <=> m.op # "mount"
      /\ m.op # "mount" => m.sid = csid[c]
  <2>1. call[c] = NoMsg /\ ~Queued(c) /\ Len(client_pipe[c]) = 0
    BY DEF CallsInv, Queued, QueueInv, PipesInv, PipeInv
  <2>2. CASE cpc[c] = "opened"
    BY <2>1, <2>2 DEF Msg
  <2>3. CASE cpc[c] = "idle"
    <3>1. m.client = c /\ m.sid = csid[c] /\ m.op \in Ops
      BY <2>3 DEF Msg
    <3>. QED  BY <2>1, <2>3, <3>1, ServerAssumption DEF ServerAssumption
  <2>. QED  BY <2>2, <2>3
<1>p. \A s \in Sessions : Pending(s)' <=> Pending(s)
  BY DEF Pending
<1>q. \A s \in Sessions : Pending(s) => sessions[s].buffer.client # c
  BY DEF PendingInv
<1>l. /\ Len(server_pipe') = Len(server_pipe) + 1
      /\ server_pipe'[Len(server_pipe) + 1] = m
      /\ \A k \in 1 .. Len(server_pipe) : server_pipe'[k] = server_pipe[k]
      /\ Len(server_pipe) \in Nat
  BY DEF ClientTypes
<1>r. \A d : Queued(d)' <=> Queued(d) \/ d = c
  BY <1>0, <1>l DEF Queued
<1>1. OwnersInv'    BY <1>p DEF OwnersInv, Op
<1>2. CallsInv'     BY <1>0 DEF CallsInv, Mounted, ClientTypes, NoMsg, Msg
<1>3. PipesInv'
  <2>1. PipeInv(c)'
    BY <1>0 DEF PipeInv, ClientTypes
  <2>2. ASSUME NEW d \in Clients \ {c}  PROVE PipeInv(d)'
    <3>1. cpc'[d] = cpc[d] /\ call'[d] = call[d]
      BY DEF ClientTypes
    <3>. QED  BY <3>1 DEF PipesInv, PipeInv
  <2>. QED  BY <2>1, <2>2 DEF PipesInv
<1>4. QueueInv'
  <2>1. \A k \in 1 .. Len(server_pipe) : server_pipe[k].client # c
    BY <1>0 DEF Queued
  <2>. QED  BY <1>0, <1>l, <2>1 DEF QueueInv, ClientTypes
<1>5. PendingInv'   BY <1>p, <1>q, <1>r DEF PendingInv, Op, ClientTypes, OwnersInv, Pending
<1>6. StagesInv'    BY DEF StagesInv, ClientTypes
<1>7. NoneLost'     BY <1>p, <1>r DEF NoneLost, Somewhere, Refused, ClientTypes
<1>8. MountsInv'
  <2>1. Mounting' = Mounting
    <3>1. \A d \in Clients \ {c} : cpc'[d] = cpc[d] /\ call'[d] = call[d]
      BY DEF ClientTypes
    <3>2. cpc'[c] = "asked" /\ call'[c] = m /\ NoMsg.op = "none"
      BY DEF ClientTypes, NoMsg, Msg
    <3>3. cpc[c] = "opened" <=> m.op = "mount"
      BY <1>0
    <3>. QED  BY <1>0, <1>r, <3>1, <3>2, <3>3 DEF Mounting
  <2>. QED  BY <2>1 DEF MountsInv
<1>9. HandlesInv'
  <2>1. \A d \in Clients : Owns(d)' = Owns(d)
    <3>1. Owns(c)' = Owns(c)
      BY <1>0 DEF Owns
    <3>2. ASSUME NEW d \in Clients \ {c}  PROVE Owns(d)' = Owns(d)
      <4>1. cpc'[d] = cpc[d] /\ call'[d] = call[d]
        BY DEF ClientTypes
      <4>. QED  BY <4>1 DEF Owns, HeldAfter
    <3>. QED  BY <3>1, <3>2
  <2>. QED  BY <2>1 DEF HandlesInv, Fs!Open, Fs!Closed, fsVars
<1>. QED  BY <1>1, <1>2, <1>3, <1>4, <1>5, <1>6, <1>7, <1>8, <1>9

\* A mount that begins finds the client's pipe empty, and may use one session more.
LEMMA MountOpenKeeps ==
    ASSUME Types, RequestsInv, NEW c \in Clients, MountOpen(c)
    PROVE  RequestsInv'
<1>. ClientTypes  BY TypesOfClients
<1>. USE DEF MountOpen, RequestsInv, workVars
<1>0. call[c] = NoMsg /\ ~Queued(c) /\ Len(client_pipe[c]) = 0 /\ client_pipe'[c] = <<>>
  BY DEF CallsInv, Queued, QueueInv, PipesInv, PipeInv, ClientTypes
<1>e. \A d \in Clients : Len(client_pipe'[d]) = Len(client_pipe[d])
                          /\ (Len(client_pipe[d]) > 0 => client_pipe'[d] = client_pipe[d])
  BY <1>0 DEF ClientTypes
<1>p. \A s \in Sessions : Pending(s)' <=> Pending(s)
  BY DEF Pending
<1>1. OwnersInv'    BY <1>p DEF OwnersInv, Op
<1>2. CallsInv'     BY <1>0 DEF CallsInv, Mounted, ClientTypes, NoMsg, Msg
<1>3. PipesInv'     BY <1>0 DEF PipesInv, PipeInv, ClientTypes
<1>4. QueueInv'     BY <1>e DEF QueueInv, ClientTypes
<1>5. PendingInv'   BY <1>e, <1>p DEF PendingInv, Op, Queued, ClientTypes, OwnersInv, Pending
<1>6. StagesInv'    BY <1>e DEF StagesInv, ClientTypes
<1>7. NoneLost'     BY <1>e, <1>p DEF NoneLost, Somewhere, Queued, Refused, ClientTypes
<1>8. MountsInv'
  <2>1. Mounting' = Mounting \cup {c} /\ c \notin Mounting
    BY <1>0 DEF Mounting, Queued, ClientTypes
  <2>2. IsFiniteSet(Mounting \cup {c}) /\ Cardinality(Mounting) \in Nat
        /\ Cardinality(Mounting \cup {c}) = Cardinality(Mounting) + 1
    BY <2>1, FS_AddElement, FS_CardinalityType DEF MountsInv
  <2>. QED  BY <2>1, <2>2 DEF MountsInv, ClientTypes
<1>9. HandlesInv'
  <2>1. \A d \in Clients : Owns(d)' = Owns(d)
    BY <1>e DEF Owns, HeldAfter, ClientTypes
  <2>. QED  BY <2>1 DEF HandlesInv, Fs!Open, Fs!Closed, fsVars
<1>. QED  BY <1>1, <1>2, <1>3, <1>4, <1>5, <1>6, <1>7, <1>8, <1>9

\* Reading from a pipe of at most two answers.
LEMMA ShortTail ==
    ASSUME NEW S, NEW p \in Seq(S), p # <<>>, Len(p) <= 2
    PROVE  /\ Head(p) = p[1] /\ Len(p) \in Nat /\ Len(Tail(p)) \in Nat
           /\ \/ Len(p) = 1 /\ Len(Tail(p)) = 0
              \/ Len(p) = 2 /\ Len(Tail(p)) = 1 /\ Tail(p)[1] = p[2]
<1>1. Len(p) \in Nat /\ Len(p) > 0 /\ Len(Tail(p)) = Len(p) - 1
  BY HeadTailProperties, LenProperties, EmptySeq
<1>2. Len(p) = 1 \/ Len(p) = 2
  BY <1>1
<1>3. ASSUME Len(p) = 2  PROVE Tail(p)[1] = p[2]
  <2>1. \A i \in 1 .. Len(Tail(p)) : Tail(p)[i] = p[i+1]
    BY HeadTailProperties
  <2>. QED  BY <1>1, <1>3, <2>1
<1>. QED  BY <1>1, <1>2, <1>3

\* An answer that a client reads gives it what the answer granted.
LEMMA AnsweredKeeps ==
    ASSUME Types, RequestsInv, NEW c \in Clients, Answered(c)
    PROVE  RequestsInv'
<1>. ClientTypes  BY TypesOfClients
<1>. USE DEF RequestsInv
<1>. DEFINE p == client_pipe[c]
            val == Head(p).val
<1>0. /\ val = p[1].val /\ Len(p) \in Nat /\ Len(client_pipe'[c]) \in Nat
      /\ \/ Len(p) = 1 /\ Len(client_pipe'[c]) = 0
         \/ Len(p) = 2 /\ Len(client_pipe'[c]) = 1 /\ client_pipe'[c][1] = p[2]
      /\ \A d \in Clients \ {c} : client_pipe'[d] = client_pipe[d]
  <2>1. p \in Seq(AnswerMsgs) /\ p # <<>> /\ client_pipe' = [client_pipe EXCEPT ![c] = Tail(@)]
    BY DEF ClientTypes, Answered
  <2>2. Len(p) <= 2
    BY DEF PipesInv, PipeInv, Answered
  <2>3. /\ Head(p) = p[1] /\ Len(p) \in Nat /\ Len(Tail(p)) \in Nat
        /\ \/ Len(p) = 1 /\ Len(Tail(p)) = 0
           \/ Len(p) = 2 /\ Len(Tail(p)) = 1 /\ Tail(p)[1] = p[2]
    BY <2>1, <2>2, ShortTail
  <2>4. /\ client_pipe'[c] = Tail(p)
        /\ \A d \in Clients \ {c} : client_pipe'[d] = client_pipe[d]
    BY <2>1 DEF ClientTypes
  <2>. QED  BY <2>3, <2>4, Zenon
<1>u. /\ UNCHANGED <<fsVars, mounts, server_pipe, next_session_id, sessions, wpc>>
      /\ cpc[c] = "asked"
  BY DEF Answered, workVars, mainVars
<1>n. ~Queued(c) /\ \A s \in Sessions : Pending(s) => sessions[s].buffer.client # c
  BY <1>0, <1>u DEF Queued, QueueInv, PendingInv
<1>p. \A s \in Sessions : Pending(s)' <=> Pending(s)
  BY <1>u DEF Pending
<1>v. call[c].op = "mount" => val \in Sessions /\ sessions[val].tx = c
  BY <1>0, <1>u DEF PipesInv, PipeInv
<1>c. /\ cpc[c] = "asked" /\ cpc'[c] = StageAfter(call[c].op)
      /\ \A d \in Clients \ {c} : /\ cpc'[d] = cpc[d] /\ call'[d] = call[d]
                                  /\ csid'[d] = csid[d] /\ held'[d] = held[d]
      /\ call[c].op = "read" => call'[c] = call[c] /\ cpc'[c] = "data"
      /\ call[c].op # "read" => call'[c] = NoMsg /\ cpc'[c] \in {"idle", "out", "gone"}
      /\ call[c].op = "mount" => csid'[c] = val
      /\ call[c].op # "mount" => csid'[c] = csid[c]
      /\ call[c].op \in Ops \cup {"mount"}
  BY DEF Answered, ClientTypes, StageAfter, CallsInv
<1>1. OwnersInv'    BY <1>u, <1>p DEF OwnersInv, Op
<1>2. CallsInv'
  <2>1. Mounted(c)' => csid'[c] \in Sessions /\ sessions[csid'[c]].tx = c
    BY <1>u, <1>c, <1>v DEF CallsInv, Mounted
  <2>2. \A d \in Clients \ {c} : Mounted(d)' <=> Mounted(d)
    BY <1>u, <1>c DEF Mounted
  <2>. QED  BY <1>u, <1>c, <2>1, <2>2 DEF CallsInv
<1>3. PipesInv'
  <2>1. call[c].op = "read" => (Len(p) = 2 => p[2].op = "data")
    BY <1>u DEF PipesInv, PipeInv
  <2>2. call[c].op # "read" => Len(client_pipe'[c]) = 0
    BY <1>u, <1>0 DEF PipesInv, PipeInv
  <2>3. PipeInv(c)'
    <3>1. CASE call[c].op = "read"
      <4>1. CASE Len(client_pipe'[c]) = 0
        BY <1>c, <3>1, <4>1 DEF PipeInv
      <4>2. CASE Len(client_pipe'[c]) = 1 /\ client_pipe'[c][1].op = "data"
        BY <1>c, <3>1, <4>2 DEF PipeInv
      <4>. QED  BY <1>0, <2>1, <3>1, <4>1, <4>2
    <3>2. CASE call[c].op # "read"
      BY <1>c, <2>2, <3>2 DEF PipeInv
    <3>. QED  BY <3>1, <3>2
  <2>4. \A d \in Clients \ {c} : PipeInv(d)'
    BY <1>u, <1>0, <1>c DEF PipesInv, PipeInv
  <2>. QED  BY <2>3, <2>4 DEF PipesInv
<1>4. QueueInv'     BY <1>u, <1>0, <1>c, <1>n DEF QueueInv, Queued
<1>5. PendingInv'   BY <1>u, <1>0, <1>c, <1>n, <1>p DEF PendingInv, Op, Queued, OwnersInv, Pending
<1>6. StagesInv'
  <2>1. ASSUME NEW s \in Sessions, wpc[s] = "data", sessions[s].buffer.client = c
        PROVE  csid'[c] = s /\ call'[c].op = "read" /\ cpc'[c] = "data" /\ Len(client_pipe'[c]) = 0
    <3>1. /\ csid[c] = s /\ call[c].op = "read" /\ Len(p) = 1
      BY <1>u, <2>1 DEF StagesInv
    <3>. QED  BY <1>0, <1>c, <3>1
  <2>2. ASSUME NEW s \in Sessions, wpc[s] = "ended", sessions[s].buffer.client = c
        PROVE  cpc'[c] = "gone"
    BY <1>u, <1>c, <2>2 DEF StagesInv, StageAfter
  <2>. QED  BY <1>u, <1>0, <1>c, <2>1, <2>2 DEF StagesInv
<1>7. NoneLost'     BY <1>u, <1>0, <1>c, <1>p DEF NoneLost, Somewhere, Queued, Refused
<1>8. MountsInv'
  <2>1. Mounting' = Mounting
    BY <1>u, <1>c, <1>n DEF Mounting, Queued
  <2>. QED  BY <1>u, <2>1 DEF MountsInv
<1>9. HandlesInv'
  <2>1. Owns(c)' = Owns(c)
    <3>1. held'[c] = HeldAfter(c, val)
      BY DEF Answered, ClientTypes
    <3>2. Owns(c) = HeldAfter(c, val) /\ Owns(c)' = held'[c]
      BY <1>u, <1>0, <1>c DEF Owns
    <3>. QED  BY <3>1, <3>2
  <2>2. \A d \in Clients \ {c} : Owns(d)' = Owns(d)
    BY <1>u, <1>0, <1>c DEF Owns, HeldAfter
  <2>. QED  BY <1>u, <2>1, <2>2 DEF HandlesInv, Fs!Open, Fs!Closed, fsVars
<1>. QED  BY <1>1, <1>2, <1>3, <1>4, <1>5, <1>6, <1>7, <1>8, <1>9

\* The bytes of a read leave everything else as it was.
LEMMA ReadDataKeeps ==
    ASSUME Types, RequestsInv, NEW c \in Clients, ReadData(c)
    PROVE  RequestsInv'
<1>. ClientTypes  BY TypesOfClients
<1>. USE DEF ReadData, RequestsInv, workVars, mainVars
<1>. DEFINE p == client_pipe[c]
<1>0. /\ client_pipe'[c] = Tail(p) /\ Len(client_pipe'[c]) = 0 /\ Len(p) = 1
      /\ \A d \in Clients \ {c} : client_pipe'[d] = client_pipe[d]
  <2>1. p \in Seq(AnswerMsgs) /\ p # <<>> /\ client_pipe' = [client_pipe EXCEPT ![c] = Tail(@)]
    BY DEF ClientTypes
  <2>2. Len(p) <= 1
    BY DEF PipesInv, PipeInv
  <2>3. Len(p) \in Nat /\ Len(p) > 0 /\ Len(Tail(p)) = Len(p) - 1
    BY <2>1, HeadTailProperties, LenProperties, EmptySeq
  <2>. QED  BY <2>1, <2>2, <2>3 DEF ClientTypes
<1>n. ~Queued(c) /\ \A s \in Sessions : Pending(s) => sessions[s].buffer.client # c
  BY DEF Queued, QueueInv, PendingInv
<1>p. \A s \in Sessions : Pending(s)' <=> Pending(s)
  BY DEF Pending
<1>c. /\ cpc[c] = "data" /\ cpc'[c] = "idle" /\ call[c].op = "read" /\ call'[c] = NoMsg
      /\ \A d \in Clients \ {c} : cpc'[d] = cpc[d] /\ call'[d] = call[d]
  BY DEF ClientTypes, CallsInv
<1>1. OwnersInv'    BY <1>p DEF OwnersInv, Op
<1>2. CallsInv'     BY <1>c DEF CallsInv, Mounted
<1>3. PipesInv'     BY <1>0, <1>c DEF PipesInv, PipeInv
<1>4. QueueInv'     BY <1>0, <1>c, <1>n DEF QueueInv, Queued
<1>5. PendingInv'   BY <1>0, <1>c, <1>n, <1>p DEF PendingInv, Op, Queued, OwnersInv, Pending
<1>6. StagesInv'
  <2>1. ASSUME NEW s \in Sessions, wpc[s] \in {"data", "ended"}
        PROVE  sessions[s].buffer.client # c
    BY <1>0, <1>c, <2>1 DEF StagesInv
  <2>. QED  BY <1>0, <1>c, <2>1 DEF StagesInv
<1>7. NoneLost'     BY <1>0, <1>c, <1>p DEF NoneLost, Somewhere, Queued, Refused
<1>8. MountsInv'
  <2>1. Mounting' = Mounting
    BY <1>c, <1>n DEF Mounting, Queued
  <2>. QED  BY <2>1 DEF MountsInv
<1>9. HandlesInv'
  <2>1. Owns(c)' = Owns(c)
    BY <1>c DEF Owns
  <2>2. \A d \in Clients \ {c} : Owns(d)' = Owns(d)
    BY <1>0, <1>c DEF Owns, HeldAfter
  <2>. QED  BY <2>1, <2>2 DEF HandlesInv, Fs!Open, Fs!Closed, fsVars
<1>. QED  BY <1>1, <1>2, <1>3, <1>4, <1>5, <1>6, <1>7, <1>8, <1>9

\* The receptor takes the oldest request out of the server's pipe.
LEMMA QueueShift ==
    ASSUME ClientTypes, QueueInv, Len(server_pipe) > 0, server_pipe' = Tail(server_pipe),
           UNCHANGED <<cpc, call, client_pipe>>
    PROVE  /\ QueueInv'
           /\ server_pipe[1].client \in Clients /\ cpc[server_pipe[1].client] = "asked"
           /\ call[server_pipe[1].client] = server_pipe[1]
           /\ Len(client_pipe[server_pipe[1].client]) = 0
           /\ Queued(server_pipe[1].client)
           /\ \A d : Queued(d)' <=> Queued(d) /\ d # server_pipe[1].client
<1>1. /\ Len(server_pipe) \in Nat /\ Len(server_pipe') = Len(server_pipe) - 1
      /\ \A k \in 1 .. Len(server_pipe') : server_pipe'[k] = server_pipe[k + 1]
      /\ server_pipe \in Seq(Msgs)
  BY HeadTailProperties, LenProperties, EmptySeq DEF ClientTypes
<1>2. 1 \in 1 .. Len(server_pipe)
  BY <1>1
<1>3. \A k \in 1 .. Len(server_pipe') : k + 1 \in 1 .. Len(server_pipe) /\ k + 1 # 1
  BY <1>1
<1>4. \A k \in 1 .. Len(server_pipe) : k # 1 => k - 1 \in 1 .. Len(server_pipe') /\ (k - 1) + 1 = k
  BY <1>1
<1>5. QueueInv'
  <2>1. ASSUME NEW k \in 1 .. Len(server_pipe')
        PROVE  LET c == server_pipe'[k].client IN
               c \in Clients /\ cpc[c] = "asked" /\ call[c] = server_pipe'[k]
                   /\ Len(client_pipe[c]) = 0
    BY <1>1, <1>3 DEF QueueInv
  <2>2. ASSUME NEW k \in 1 .. Len(server_pipe'), NEW l \in 1 .. Len(server_pipe'),
               server_pipe'[k].client = server_pipe'[l].client
        PROVE  k = l
    <3>1. k + 1 = l + 1
      BY <1>1, <1>3, <2>2 DEF QueueInv
    <3>. QED  BY <3>1
  <2>. QED  BY <2>1, <2>2 DEF QueueInv
<1>6. ASSUME NEW d  PROVE Queued(d)' <=> Queued(d) /\ d # server_pipe[1].client
  <2>1. ASSUME Queued(d)'  PROVE Queued(d) /\ d # server_pipe[1].client
    <3>1. PICK k \in 1 .. Len(server_pipe') : server_pipe'[k].client = d
      BY <2>1 DEF Queued
    <3>2. k + 1 \in 1 .. Len(server_pipe) /\ k + 1 # 1 /\ server_pipe[k + 1].client = d
      BY <1>1, <1>3, <3>1
    <3>. QED  BY <1>2, <3>2 DEF Queued, QueueInv
  <2>2. ASSUME Queued(d), d # server_pipe[1].client  PROVE Queued(d)'
    <3>1. PICK k \in 1 .. Len(server_pipe) : server_pipe[k].client = d
      BY <2>2 DEF Queued
    <3>2. k - 1 \in 1 .. Len(server_pipe') /\ server_pipe'[k - 1] = server_pipe[k]
      BY <1>1, <1>4, <2>2, <3>1
    <3>. QED  BY <3>1, <3>2 DEF Queued
  <2>. QED  BY <2>1, <2>2
<1>. QED  BY <1>2, <1>5, <1>6 DEF Queued, QueueInv

\* A request that the receptor takes moves from the server's pipe to a session.
LEMMA TakenKeeps ==
    ASSUME Types, RequestsInv, NEW s \in Sessions, NEW m \in Msgs, Taken(s, m)
    PROVE  RequestsInv'
<1>. ClientTypes  BY TypesOfClients
<1>. USE DEF RequestsInv
<1>0. PICK c \in Clients : c = server_pipe[1].client
  BY QueueShift DEF Taken, clientVars
<1>u. /\ UNCHANGED <<fsVars, cpc, call, csid, held, mounts, client_pipe>>
      /\ ~Pending(s) /\ Pending(s)'
      /\ wpc[s] \in {"lock", "wait"} /\ wpc'[s] = "lock"
      /\ \A t \in Sessions \ {s} : /\ Pending(t)' <=> Pending(t)
                                   /\ wpc'[t] = wpc[t] /\ sessions'[t] = sessions[t]
      /\ sessions'[s].is_active /\ sessions'[s].buffer = m /\ sessions'[s].tx = sessions[s].tx
  BY DEF Taken, clientVars
<1>q. /\ cpc[c] = "asked" /\ Len(client_pipe[c]) = 0 /\ Queued(c)
      /\ \A d : Queued(d)' <=> Queued(d) /\ d # c
      /\ QueueInv' /\ call[c].op \in Ops \cup {"mount"} /\ m.client = c /\ call[c].op = m.op
  BY <1>0, QueueShift DEF Taken, clientVars, CallsInv
<1>n. \A t \in Sessions : Pending(t) => sessions[t].buffer.client # c
  BY <1>q DEF PendingInv
<1>m. ASSUME m.op = "mount"  PROVE OwnersInv' /\ PendingInv' /\ NoneLost' /\ MountsInv'
  <2>1. s = next_session_id /\ next_session_id' = next_session_id + 1
    BY <1>0, <1>q, <1>m, QueueShift DEF Taken, clientVars
  <2>2. sessions[s].tx = NoClient
    BY <2>1 DEF OwnersInv, ClientTypes
  <2>3. \A t \in Sessions : t \in Nat /\ (t < next_session_id => t < next_session_id')
                                      /\ (t >= next_session_id' => t >= next_session_id)
    BY <2>1 DEF ClientTypes, Sessions
  <2>4. s < next_session_id' /\ s \in Nat
    BY <2>1 DEF ClientTypes, Sessions
  <2>a. OwnersInv'
    BY <1>u, <1>q, <1>m, <2>2, <2>3, <2>4 DEF OwnersInv, Op
  <2>b. PendingInv'
    BY <1>u, <1>q, <1>n, <1>m DEF PendingInv, Op
  <2>c. NoneLost'
    <3>1. Refused => Refused'
      BY <2>1, ServerAssumption DEF Refused, ClientTypes, ServerAssumption
    <3>. QED  BY <1>u, <1>q, <1>n, <3>1 DEF NoneLost, Somewhere
  <2>d. MountsInv'
    <3>1. Mounting' = Mounting \ {c} /\ c \in Mounting
      BY <1>u, <1>q, <1>m DEF Mounting
    <3>2. IsFiniteSet(Mounting \ {c}) /\ Cardinality(Mounting) \in Nat
          /\ Cardinality(Mounting \ {c}) = Cardinality(Mounting) - 1
      BY <3>1, FS_RemoveElement, FS_CardinalityType DEF MountsInv
    <3>. QED  BY <1>u, <2>1, <3>1, <3>2 DEF MountsInv, ClientTypes
  <2>. QED  BY <2>a, <2>b, <2>c, <2>d
<1>o. ASSUME m.op # "mount"  PROVE OwnersInv' /\ PendingInv' /\ NoneLost' /\ MountsInv'
  <2>1. m = call[c] /\ s = csid[c] /\ UNCHANGED next_session_id
    <3>1. m = server_pipe[1] /\ s = server_pipe[1].sid /\ UNCHANGED next_session_id
          /\ call[c] = server_pipe[1]
      BY <1>0, <1>q, <1>o, QueueShift DEF Taken, clientVars
    <3>. QED  BY <1>q, <1>o, <3>1 DEF CallsInv
  <2>2. sessions[s].tx = c
    BY <1>q, <1>o, <2>1 DEF CallsInv, Mounted
  <2>3. s < next_session_id
    BY <2>2, ServerAssumption DEF OwnersInv, ServerAssumption, ClientTypes, Sessions
  <2>a. OwnersInv'
    BY <1>u, <1>q, <1>o, <2>1, <2>2, <2>3 DEF OwnersInv, Op
  <2>b. PendingInv'
    BY <1>u, <1>q, <1>n, <1>o, <2>1 DEF PendingInv, Op
  <2>c. NoneLost'
    BY <1>u, <1>q, <1>n, <2>1 DEF NoneLost, Somewhere, Refused
  <2>d. MountsInv'
    <3>1. Mounting' = Mounting
      BY <1>u, <1>q, <1>o DEF Mounting
    <3>. QED  BY <1>u, <2>1, <3>1 DEF MountsInv
  <2>. QED  BY <2>a, <2>b, <2>c, <2>d
<1>2. CallsInv'
  <2>1. \A t \in Sessions : sessions'[t].tx = sessions[t].tx
    BY <1>u
  <2>. QED  BY <1>u, <2>1 DEF CallsInv, Mounted
<1>3. PipesInv'
  <2>1. \A t \in Sessions : sessions'[t].tx = sessions[t].tx
    BY <1>u
  <2>. QED  BY <1>u, <2>1 DEF PipesInv, PipeInv
<1>6. StagesInv'    BY <1>u DEF StagesInv
<1>9. HandlesInv'
  <2>1. \A d \in Clients : Owns(d)' = Owns(d)
    BY <1>u DEF Owns, HeldAfter
  <2>. QED  BY <1>u, <2>1 DEF HandlesInv, Fs!Open, Fs!Closed, fsVars
<1>. QED  BY <1>q, <1>m, <1>o, <1>2, <1>3, <1>6, <1>9

\* A mount that the receptor has yet to read has a session left, if the last.
LEMMA MountBound ==
    ASSUME Types, QueueInv, MountsInv, Len(server_pipe) > 0, server_pipe[1].op = "mount"
    PROVE  next_session_id <= MAX_CLIENTS
<1>. DEFINE c == server_pipe[1].client
<1>1. 1 \in 1 .. Len(server_pipe)
  BY LenProperties DEF Types, ServerTyped
<1>2. c \in Mounting
  BY <1>1 DEF Mounting, Queued, QueueInv
<1>3. Cardinality(Mounting) \in Nat /\ Cardinality(Mounting) # 0
  BY <1>2, FS_EmptySet, FS_CardinalityType DEF MountsInv
<1>4. mounts \in Nat /\ mounts <= MAX_CLIENTS /\ next_session_id \in Nat
      /\ MAX_CLIENTS \in Nat
  BY ServerAssumption DEF Types, ServerTyped, ServerAssumption
<1>. QED  BY <1>3, <1>4 DEF MountsInv

\* A refused mount touches only a session that nobody has, and is lost.
LEMMA RefuseMountKeeps ==
    ASSUME Types, WorkersInv, RequestsInv, RefuseMount
    PROVE  RequestsInv'
<1>. ClientTypes  BY TypesOfClients
<1>. USE DEF RequestsInv
<1>1. /\ Len(server_pipe) > 0 /\ server_pipe' = Tail(server_pipe)
      /\ Head(server_pipe) = server_pipe[1] /\ server_pipe[1].op = "mount"
      /\ next_session_id + 1 > MAX_CLIENTS /\ next_session_id' = next_session_id + 1
      /\ UNCHANGED <<fsVars, cpc, call, csid, held, mounts, client_pipe, wpc>>
  BY DEF RefuseMount, clientVars, ClientTypes
<1>2. next_session_id \in Sessions
  BY <1>1, MountBound DEF ClientTypes, Sessions
<1>3. PICK s \in Sessions : s = next_session_id
  BY <1>2
<1>4. PICK c \in Clients : c = server_pipe[1].client
  BY <1>1, QueueShift
<1>q. /\ cpc[c] = "asked" /\ Len(client_pipe[c]) = 0 /\ Queued(c) /\ call[c].op = "mount"
      /\ \A d : Queued(d)' <=> Queued(d) /\ d # c
      /\ QueueInv'
  BY <1>1, <1>4, QueueShift
<1>s. /\ ~sessions[s].is_active /\ sessions'[s].is_active = sessions[s].is_active
      /\ sessions'[s].tx = sessions[s].tx
      /\ \A t \in Sessions \ {s} : sessions'[t] = sessions[t]
  <2>1. sessions' = [sessions EXCEPT ![s].buffer.op = "mount"]
    BY <1>3 DEF RefuseMount
  <2>2. ~sessions[s].is_active
    BY <1>3 DEF OwnersInv, ClientTypes
  <2>. QED  BY <2>1, <2>2 DEF ClientTypes
<1>p. \A t \in Sessions : /\ Pending(t)' <=> Pending(t)
                          /\ Pending(t) => sessions'[t] = sessions[t]
                          /\ sessions'[t].tx = sessions[t].tx
  BY <1>1, <1>s DEF Pending
<1>r. Refused'
  BY <1>1, ServerAssumption DEF Refused, ServerAssumption, ClientTypes
<1>a. OwnersInv'
  <2>1. \A t \in Sessions : t \in Nat /\ (t < next_session_id => t < next_session_id')
                                      /\ (t >= next_session_id' => t >= next_session_id)
    BY <1>1 DEF ClientTypes, Sessions
  <2>2. \A t \in Sessions : sessions'[t].is_active =>
            sessions[t].is_active /\ sessions'[t] = sessions[t]
    BY <1>s
  <2>. QED  BY <1>p, <2>1, <2>2 DEF OwnersInv, Op
<1>b. CallsInv'     BY <1>1, <1>p DEF CallsInv, Mounted
<1>c. PipesInv'     BY <1>1, <1>p DEF PipesInv, PipeInv
<1>d. PendingInv'   BY <1>1, <1>p, <1>q DEF PendingInv, Op
<1>e. StagesInv'
  <2>1. \A t \in Sessions : wpc[t] \in {"data", "ended"} => sessions'[t] = sessions[t]
    BY <1>s DEF WorkersInv, Holding
  <2>. QED  BY <1>1, <2>1 DEF StagesInv
<1>f. NoneLost'     BY <1>1, <1>p, <1>q, <1>r DEF NoneLost, Somewhere
<1>g. MountsInv'
  <2>1. Mounting' = Mounting \ {c} /\ c \in Mounting
    BY <1>1, <1>q DEF Mounting
  <2>2. IsFiniteSet(Mounting \ {c}) /\ Cardinality(Mounting) \in Nat
        /\ Cardinality(Mounting \ {c}) = Cardinality(Mounting) - 1
    BY <2>1, FS_RemoveElement, FS_CardinalityType DEF MountsInv
  <2>. QED  BY <1>1, <2>1, <2>2 DEF MountsInv, ClientTypes
<1>h. HandlesInv'
  <2>1. \A d \in Clients : Owns(d)' = Owns(d)
    BY <1>1 DEF Owns, HeldAfter
  <2>. QED  BY <1>1, <2>1 DEF HandlesInv, Fs!Open, Fs!Closed, fsVars
<1>. QED  BY <1>q, <1>a, <1>b, <1>c, <1>d, <1>e, <1>f, <1>g, <1>h

\* A worker that is free again had answered its request.
LEMMA WorkerFinishKeeps ==
    ASSUME Types, RequestsInv, NEW s \in Sessions, WorkerFinish(s)
    PROVE  RequestsInv'
<1>. ClientTypes  BY TypesOfClients
<1>. USE DEF RequestsInv
<1>1. UNCHANGED <<fsVars, cpc, call, csid, held, mounts, server_pipe, client_pipe, next_session_id>>
  BY DEF WorkerFinish, clientVars, pipeVars, mainVars
<1>s. /\ ~sessions'[s].is_active /\ sessions'[s].tx = sessions[s].tx
      /\ \A t \in Sessions \ {s} : sessions'[t] = sessions[t] /\ wpc'[t] = wpc[t]
      /\ wpc[s] = "finish" /\ wpc'[s] = "lock"
  BY DEF WorkerFinish, Goes, ClientTypes
<1>p. \A t \in Sessions : /\ Pending(t)' <=> Pending(t)
                          /\ Pending(t) => sessions'[t] = sessions[t]
                          /\ sessions'[t].tx = sessions[t].tx
  BY <1>s DEF Pending
<1>a. OwnersInv'    BY <1>1, <1>s, <1>p DEF OwnersInv, Op
<1>b. CallsInv'     BY <1>1, <1>p DEF CallsInv, Mounted
<1>c. PipesInv'     BY <1>1, <1>p DEF PipesInv, PipeInv
<1>q. QueueInv'     BY <1>1 DEF QueueInv
<1>d. PendingInv'   BY <1>1, <1>p DEF PendingInv, Op, Queued
<1>e. StagesInv'    BY <1>1, <1>s DEF StagesInv
<1>f. NoneLost'     BY <1>1, <1>p DEF NoneLost, Somewhere, Queued, Refused
<1>g. MountsInv'
  <2>1. Mounting' = Mounting
    BY <1>1 DEF Mounting, Queued
  <2>. QED  BY <1>1, <2>1 DEF MountsInv
<1>h. HandlesInv'
  <2>1. \A d \in Clients : Owns(d)' = Owns(d)
    BY <1>1 DEF Owns, HeldAfter
  <2>. QED  BY <1>1, <2>1 DEF HandlesInv, Fs!Open, Fs!Closed, fsVars
<1>. QED  BY <1>q, <1>a, <1>b, <1>c, <1>d, <1>e, <1>f, <1>g, <1>h

\* An answer that is appended to a client's pipe.
LEMMA PipeAppend ==
    ASSUME ClientTypes, NEW c \in Clients, NEW m \in AnswerMsgs,
           client_pipe' = [client_pipe EXCEPT ![c] = Append(@, m)]
    PROVE  /\ \A d \in Clients \ {c} : client_pipe'[d] = client_pipe[d]
           /\ Len(client_pipe[c]) = 0 =>
                  Len(client_pipe'[c]) = 1 /\ client_pipe'[c][1] = m
           /\ Len(client_pipe[c]) = 1 =>
                  /\ Len(client_pipe'[c]) = 2
                  /\ client_pipe'[c][1] = client_pipe[c][1] /\ client_pipe'[c][2] = m
<1>. client_pipe[c] \in Seq(AnswerMsgs)
  BY DEF ClientTypes
<1>1. client_pipe'[c] = Append(client_pipe[c], m)
      /\ \A d \in Clients \ {c} : client_pipe'[d] = client_pipe[d]
  BY DEF ClientTypes
<1>2. /\ Len(client_pipe'[c]) = Len(client_pipe[c]) + 1
      /\ \A i \in 1 .. Len(client_pipe[c]) : client_pipe'[c][i] = client_pipe[c][i]
      /\ client_pipe'[c][Len(client_pipe[c]) + 1] = m
      /\ Len(client_pipe[c]) \in Nat
  BY <1>1, AppendProperties, LenProperties
<1>3. Len(client_pipe[c]) = 0 => Len(client_pipe'[c]) = 1 /\ client_pipe'[c][1] = m
  BY <1>2
<1>4. Len(client_pipe[c]) = 1 =>
          /\ Len(client_pipe'[c]) = 2
          /\ client_pipe'[c][1] = client_pipe[c][1] /\ client_pipe'[c][2] = m
  BY <1>2
<1>. QED  BY <1>1, <1>3, <1>4

\* An answer ends the request of a session, and grants what it says.
LEMMA AnsweringKeeps ==
    ASSUME Types, WorkersInv, RequestsInv, NEW s \in Sessions, NEW val, NEW w,
           Answering(s, val, w)
    PROVE  RequestsInv'
<1>. ClientTypes  BY TypesOfClients
<1>. USE DEF RequestsInv
<1>0. PICK c \in Clients : c = sessions[s].buffer.client
  BY DEF Answering, Pending, OwnersInv
<1>u. /\ UNCHANGED <<cpc, call, csid, held, mounts, server_pipe, next_session_id>>
      /\ Pending(s) /\ w \in {"finish", "closing", "data", "exit", "ended"}
      /\ w = "data" => Op(s) = "read"
      /\ w = "ended" => Op(s) = "shutdown"
  BY DEF Answering, clientVars
<1>c. /\ cpc[c] = "asked" /\ Len(client_pipe[c]) = 0 /\ ~Queued(c) /\ call[c].op = Op(s)
      /\ Op(s) # "mount" => call[c] = sessions[s].buffer /\ csid[c] = s
      /\ \A t \in Sessions \ {s} : Pending(t) => sessions[t].buffer.client # c
      /\ Op(s) \in Ops \cup {"mount"} /\ s < next_session_id
  BY <1>0, <1>u DEF PendingInv, OwnersInv, Pending
<1>e. /\ \A d \in Clients \ {c} : client_pipe'[d] = client_pipe[d]
      /\ Len(client_pipe'[c]) = 1 /\ client_pipe'[c][1].op = Op(s)
      /\ client_pipe'[c][1].val = val
  <2>1. client_pipe' = [client_pipe EXCEPT ![c] = Append(@, [op |-> Op(s), val |-> val])]
    BY <1>0 DEF Answering
  <2>2. PICK m \in AnswerMsgs : m = [op |-> Op(s), val |-> val]
    BY <1>c DEF Answering, AnswerMsgs
  <2>3. client_pipe' = [client_pipe EXCEPT ![c] = Append(@, m)]
    BY <2>1, <2>2
  <2>4. /\ \A d \in Clients \ {c} : client_pipe'[d] = client_pipe[d]
        /\ Len(client_pipe'[c]) = 1 /\ client_pipe'[c][1] = m
    BY <1>c, <2>3, PipeAppend
  <2>5. m.op = Op(s) /\ m.val = val
    BY <2>2
  <2>. QED  BY <2>4, <2>5, Zenon
<1>s. /\ \A t \in Sessions \ {s} : sessions'[t] = sessions[t]
      /\ sessions'[s].is_active = sessions[s].is_active
      /\ sessions'[s].buffer = sessions[s].buffer /\ sessions'[s].tx = c
  <2>1. CASE Op(s) = "mount"
    <3>1. sessions' = [sessions EXCEPT ![s].tx = c]
      BY <1>0, <2>1 DEF Answering
    <3>. QED  BY <3>1 DEF ClientTypes
  <2>2. CASE Op(s) # "mount"
    BY <1>0, <1>u, <2>2 DEF Answering, OwnersInv, Pending
  <2>. QED  BY <2>1, <2>2
<1>w. wpc'[s] = w /\ \A t \in Sessions \ {s} : wpc'[t] = wpc[t]
  BY DEF Answering, ClientTypes
<1>p. ~Pending(s)' /\ \A t \in Sessions \ {s} : Pending(t)' <=> Pending(t)
  BY <1>s, <1>u, <1>w DEF Pending
<1>m. /\ Op(s) = "mount" => val = s
      /\ \A d \in Clients, t \in Sessions : sessions[t].tx = d => sessions'[t].tx = d
  BY <1>0, <1>c, <1>s, <1>u, ServerAssumption DEF Answering, OwnersInv, Pending, ServerAssumption
<1>1. OwnersInv'
  BY <1>0, <1>c, <1>p, <1>s, <1>u DEF OwnersInv, Op, ClientTypes, Sessions
<1>2. CallsInv'     BY <1>m, <1>u DEF CallsInv, Mounted
<1>3. PipesInv'
  <2>1. PipeInv(c)'
    <3>1. Op(s) = "open" => val \in Handles \cup {-1}
      BY DEF Answering, Effect
    <3>2. Op(s) = "mount" => val \in Sessions /\ sessions'[val].tx = c
      BY <1>m, <1>s
    <3>. QED  BY <1>c, <1>e, <1>u, <3>1, <3>2 DEF PipeInv
  <2>2. \A d \in Clients \ {c} : PipeInv(d)'
    BY <1>e, <1>m, <1>u DEF PipesInv, PipeInv
  <2>. QED  BY <2>1, <2>2 DEF PipesInv
<1>4. QueueInv'     BY <1>c, <1>e, <1>u DEF QueueInv, Queued
<1>5. PendingInv'
  <2>1. ASSUME NEW t \in Sessions, Pending(t)'
        PROVE  /\ t # s /\ Pending(t) /\ sessions'[t] = sessions[t]
               /\ sessions[t].buffer.client \in Clients \ {c}
    BY <1>c, <1>p, <1>s, <2>1 DEF OwnersInv, Pending
  <2>. QED  BY <1>e, <1>u, <2>1 DEF PendingInv, Op, Queued
<1>6. StagesInv'
  <2>1. ASSUME NEW t \in Sessions \ {s}, wpc[t] \in {"data", "ended"}
        PROVE  sessions[t].buffer.client \in Clients \ {c}
    BY <1>c, <2>1 DEF StagesInv
  <2>2. w = "data" => csid[c] = s /\ call[c].op = "read"
    BY <1>c, <1>u
  <2>3. w = "ended" => call[c].op = "shutdown"
    BY <1>c, <1>u
  <2>. QED  BY <1>0, <1>c, <1>e, <1>s, <1>u, <1>w, <2>1, <2>2, <2>3 DEF StagesInv
<1>7. NoneLost'
  <2>1. ASSUME NEW d \in Clients \ {c}, Somewhere(d)  PROVE Somewhere(d)'
    BY <1>0, <1>p, <1>s, <1>u, <2>1 DEF Somewhere, Queued, Refused
  <2>. QED  BY <1>e, <1>u, <2>1 DEF NoneLost
<1>8. MountsInv'
  <2>1. Mounting' = Mounting
    BY <1>u DEF Mounting, Queued
  <2>. QED  BY <1>u, <2>1 DEF MountsInv
<1>9. HandlesInv'
  <2>1. \A d \in Clients \ {c} : Owns(d)' = Owns(d)
    BY <1>e, <1>u DEF Owns, HeldAfter
  <2>2. Owns(c) = held[c] /\ Owns(c)' = HeldAfter(c, val)
    BY <1>c, <1>e, <1>u DEF Owns, HeldAfter
  <2>3. CASE Op(s) = "close"
    <3>. DEFINE h == call[c].fh
    <3>1. h \in Owns(c) /\ Owns(c)' = Owns(c) \ {h} /\ h \in Handles
      BY <1>c, <2>2, <2>3 DEF CallsInv, HeldAfter, HandlesInv
    <3>2. position' = [position EXCEPT ![h] = Fs!Closed]
      BY <1>c, <2>3, <3>1 DEF Answering, Effect
    <3>3. \A g \in Handles \ {h} : position'[g] = position[g]
      BY <3>2 DEF Types, FilesInv, FilesTyped
    <3>. QED  BY <2>1, <3>1, <3>3 DEF HandlesInv, Fs!Open, Fs!Closed
  <2>4. CASE Op(s) = "open" /\ val \in Handles /\ ~Fs!Open(val)
                /\ \E at \in Positions : position' = [position EXCEPT ![val] = at]
    <3>1. Owns(c)' = Owns(c) \cup {val}
      BY <1>c, <2>2, <2>4, HandlesAreInts DEF HeldAfter
    <3>2. \A d \in Clients : val \notin Owns(d)
      BY <2>4 DEF HandlesInv
    <3>3. position'[val] \in Positions /\ \A g \in Handles \ {val} : position'[g] = position[g]
      BY <2>4 DEF Types, FilesInv, FilesTyped
    <3>4. Fs!Open(val)'
      BY <3>3, OpenPositions DEF Fs!Open, Fs!Closed
    <3>. QED  BY <2>1, <2>4, <3>1, <3>2, <3>3, <3>4 DEF HandlesInv, Fs!Open, Fs!Closed
  <2>5. CASE SameOpen /\ (Op(s) = "open" => val = -1) /\ Op(s) # "close"
    <3>1. Owns(c)' = Owns(c)
      BY <1>c, <2>2, <2>5 DEF HeldAfter
    <3>. QED  BY <2>1, <2>5, <3>1 DEF HandlesInv, SameOpen
  <2>. QED  BY <2>3, <2>4, <2>5 DEF Answering, Effect
<1>. QED  BY <1>1, <1>2, <1>3, <1>4, <1>5, <1>6, <1>7, <1>8, <1>9

\* The bytes of a read follow its answer.
LEMMA CaseReadDataKeeps ==
    ASSUME Types, WorkersInv, RequestsInv, NEW s \in Sessions, CaseReadData(s)
    PROVE  RequestsInv'
<1>. ClientTypes  BY TypesOfClients
<1>. USE DEF RequestsInv
<1>u. /\ UNCHANGED <<fsVars, cpc, call, csid, held, mounts, server_pipe, next_session_id, sessions>>
      /\ wpc[s] = "data" /\ wpc'[s] = "finish"
      /\ \A t \in Sessions \ {s} : wpc'[t] = wpc[t]
  BY DEF CaseReadData, clientVars, mainVars, Goes, ClientTypes
<1>0. PICK c \in Clients : c = sessions[s].buffer.client
  BY <1>u DEF StagesInv
<1>c. /\ csid[c] = s /\ call[c].op = "read" /\ sessions[s].tx = c /\ ~Pending(s)
      /\ \/ cpc[c] = "asked" /\ Len(client_pipe[c]) = 1
         \/ cpc[c] = "data" /\ Len(client_pipe[c]) = 0
  BY <1>0, <1>u DEF StagesInv, OwnersInv, WorkersInv, Holding, Pending
<1>e. /\ \A d \in Clients \ {c} : client_pipe'[d] = client_pipe[d]
      /\ Len(client_pipe[c]) = 0 =>
             Len(client_pipe'[c]) = 1 /\ client_pipe'[c][1].op = "data"
      /\ Len(client_pipe[c]) = 1 =>
             /\ Len(client_pipe'[c]) = 2
             /\ client_pipe'[c][1] = client_pipe[c][1] /\ client_pipe'[c][2].op = "data"
  <2>1. client_pipe' = [client_pipe EXCEPT ![c] = Append(@, [op |-> "data", val |-> 0])]
    BY <1>c DEF CaseReadData
  <2>0. [op |-> "data", val |-> 0] \in AnswerMsgs
    BY DEF AnswerMsgs
  <2>2. PICK m \in AnswerMsgs : m = [op |-> "data", val |-> 0]
    BY <2>0
  <2>3. client_pipe' = [client_pipe EXCEPT ![c] = Append(@, m)]
    BY <2>1, <2>2
  <2>4. m.op = "data"
    BY <2>2
  <2>. QED  BY <2>3, <2>4, PipeAppend
<1>p. \A t \in Sessions : Pending(t)' <=> Pending(t)
  BY <1>u, <1>c DEF Pending
<1>q. ~Queued(c) /\ \A t \in Sessions : Pending(t) => sessions[t].buffer.client # c
  <2>1. ~(cpc[c] = "asked" /\ Len(client_pipe[c]) = 0)
    BY <1>c, SMTT(60)
  <2>2. ~Queued(c)
    BY <2>1 DEF Queued, QueueInv
  <2>3. \A t \in Sessions : Pending(t) => sessions[t].buffer.client # c
    BY <2>1 DEF PendingInv
  <2>. QED  BY <2>2, <2>3
<1>1. OwnersInv'    BY <1>u, <1>p DEF OwnersInv, Op
<1>2. CallsInv'     BY <1>u DEF CallsInv, Mounted
<1>3. PipesInv'
  <2>1. PipeInv(c)'
    <3>1. CASE cpc[c] = "asked" /\ Len(client_pipe[c]) = 1
      <4>1. client_pipe[c][1].op = "read"
        BY <1>c, <3>1 DEF PipesInv, PipeInv
      <4>2. /\ Len(client_pipe'[c]) = 2 /\ client_pipe'[c][1].op = "read"
            /\ client_pipe'[c][2].op = "data" /\ cpc'[c] = "asked" /\ call'[c].op = "read"
        BY <1>c, <1>e, <1>u, <3>1, <4>1
      <4>. QED  BY <4>2 DEF PipeInv
    <3>2. CASE cpc[c] = "data" /\ Len(client_pipe[c]) = 0
      <4>1. Len(client_pipe'[c]) = 1 /\ client_pipe'[c][1].op = "data" /\ cpc'[c] = "data"
        BY <1>e, <1>u, <3>2
      <4>. QED  BY <4>1 DEF PipeInv
    <3>. QED  BY <1>c, <3>1, <3>2
  <2>2. \A d \in Clients \ {c} : PipeInv(d)'
    BY <1>e, <1>u DEF PipesInv, PipeInv
  <2>. QED  BY <2>1, <2>2 DEF PipesInv
<1>4. QueueInv'     BY <1>e, <1>q, <1>u DEF QueueInv, Queued
<1>5. PendingInv'
  <2>1. ASSUME NEW t \in Sessions, Pending(t)
        PROVE  sessions[t].buffer.client \in Clients \ {c}
    BY <1>q, <2>1 DEF OwnersInv, Pending
  <2>. QED  BY <1>e, <1>u, <1>p, <2>1 DEF PendingInv, Op, Queued
<1>6. StagesInv'
  <2>1. ASSUME NEW t \in Sessions \ {s}, wpc[t] \in {"data", "ended"}
        PROVE  sessions[t].buffer.client \in Clients \ {c}
    BY <1>c, <2>1 DEF StagesInv
  <2>. QED  BY <1>e, <1>u, <2>1 DEF StagesInv
<1>7. NoneLost'
  <2>1. ASSUME NEW d \in Clients, Somewhere(d)  PROVE Somewhere(d)'
    BY <1>p, <1>u, <2>1 DEF Somewhere, Queued, Refused
  <2>2. Len(client_pipe'[c]) # 0
    BY <1>c, <1>e
  <2>. QED  BY <1>e, <1>u, <2>1, <2>2 DEF NoneLost
<1>8. MountsInv'
  <2>1. Mounting' = Mounting
    BY <1>u DEF Mounting, Queued
  <2>. QED  BY <1>u, <2>1 DEF MountsInv
<1>9. HandlesInv'
  <2>1. \A d \in Clients \ {c} : Owns(d)' = Owns(d)
    BY <1>e, <1>u DEF Owns, HeldAfter
  <2>2. Owns(c)' = Owns(c)
    BY <1>c, <1>e, <1>u DEF Owns, HeldAfter
  <2>. QED  BY <1>u, <2>1, <2>2 DEF HandlesInv, Fs!Open, Fs!Closed, fsVars
<1>. QED  BY <1>1, <1>2, <1>3, <1>4, <1>5, <1>6, <1>7, <1>8, <1>9

\* The invariants about requests are kept by every step.
LEMMA RequestsStep ==
    ASSUME Types, WorkersInv, RequestsInv, [Next]_vars
    PROVE  RequestsInv'
<1>1. StepKinds
  BY Kinds DEF RequestsInv
<1>. QED  BY <1>1, QuietKeeps, KilledKeeps, SentKeeps, MountOpenKeeps, AnsweredKeeps,
             ReadDataKeeps, TakenKeeps, RefuseMountKeeps, AnsweringKeeps,
             CaseReadDataKeeps, WorkerFinishKeeps, Zenon DEF StepKinds

-----------------------------------------------------------------------------
(* Types. *)

\* The answers in the clients' pipes stay answers.
LEMMA PipesTypedStep ==
    ASSUME Types, WorkersInv, RequestsInv, [Next]_vars
    PROVE  PipesTyped'
<1>. ClientTypes  BY TypesOfClients
<1>1. StepKinds
  BY Kinds DEF RequestsInv
<1>a. ASSUME NEW c \in Clients, NEW m \in AnswerMsgs,
             client_pipe' = [client_pipe EXCEPT ![c] = Append(@, m)]
      PROVE  PipesTyped'
  <2>1. Append(client_pipe[c], m) \in Seq(AnswerMsgs)
    BY AppendProperties DEF ClientTypes
  <2>. QED  BY <1>a, <2>1 DEF PipesTyped, ClientTypes
<1>t. ASSUME NEW c \in Clients, client_pipe[c] # <<>>,
             client_pipe' = [client_pipe EXCEPT ![c] = Tail(@)]
      PROVE  PipesTyped'
  <2>1. Tail(client_pipe[c]) \in Seq(AnswerMsgs)
    BY <1>t, HeadTailProperties DEF ClientTypes
  <2>. QED  BY <1>t, <2>1 DEF PipesTyped, ClientTypes
<1>u. ASSUME UNCHANGED client_pipe  PROVE PipesTyped'
  BY <1>u DEF PipesTyped, ClientTypes
<1>2. ASSUME NEW c \in Clients, MountOpen(c)  PROVE PipesTyped'
  <2>1. <<>> \in Seq(AnswerMsgs)
    BY EmptySeq
  <2>. QED  BY <1>2, <2>1 DEF MountOpen, PipesTyped, ClientTypes
<1>3. ASSUME NEW s \in Sessions, NEW val, NEW w, Answering(s, val, w)  PROVE PipesTyped'
  <2>1. PICK c \in Clients : c = sessions[s].buffer.client
    BY <1>3 DEF Answering, Pending, OwnersInv, RequestsInv
  <2>2. [op |-> Op(s), val |-> val] \in AnswerMsgs
    BY <1>3 DEF Answering, AnswerMsgs, OwnersInv, Pending, RequestsInv
  <2>3. client_pipe' = [client_pipe EXCEPT ![c] = Append(@, [op |-> Op(s), val |-> val])]
    BY <1>3, <2>1 DEF Answering
  <2>. QED  BY <1>a, <2>2, <2>3
<1>4. ASSUME NEW s \in Sessions, CaseReadData(s)  PROVE PipesTyped'
  <2>1. PICK c \in Clients : c = sessions[s].tx
    BY <1>4 DEF CaseReadData, RequestsInv, StagesInv, OwnersInv, WorkersInv, Holding, Pending
  <2>2. [op |-> "data", val |-> 0] \in AnswerMsgs
    BY DEF AnswerMsgs
  <2>3. client_pipe' = [client_pipe EXCEPT ![c] = Append(@, [op |-> "data", val |-> 0])]
    BY <1>4, <2>1 DEF CaseReadData
  <2>. QED  BY <1>a, <2>2, <2>3
<1>. QED  BY <1>1, <1>t, <1>u, <1>2, <1>3, <1>4
          DEF StepKinds, Quiet, Killed, Sent, Taken, RefuseMount, WorkerFinish, Answered,
              ReadData, pipeVars

\* Every answer in a pipe has the name of a call.
LEMMA AnswerOps ==
    ASSUME NEW pipe \in [Clients -> Seq(AnswerMsgs)]
    PROVE  \A c \in Clients : \A k \in DOMAIN pipe[c] :
               pipe[c][k].op \in Ops \cup {"mount", "data"}
<1>1. ASSUME NEW c \in Clients, NEW k \in DOMAIN pipe[c]  PROVE pipe[c][k] \in AnswerMsgs
  <2>1. pipe[c] \in Seq(AnswerMsgs)
    OBVIOUS
  <2>2. k \in 1 .. Len(pipe[c])
    BY <2>1, LenProperties
  <2>. QED  BY <2>1, <2>2, ElementOfSeq
<1>. QED  BY <1>1 DEF AnswerMsgs

\* A session whose buffer gets a request, and a request that becomes a mount.
LEMMA SessionsTyped ==
    ASSUME NEW ss \in [Sessions -> [is_active : BOOLEAN, buffer : Msgs,
                                    tx : Clients \cup {NoClient}]],
           NEW s \in Sessions, NEW m \in Msgs
    PROVE  /\ [ss EXCEPT ![s].is_active = TRUE, ![s].buffer = m] \in
                  [Sessions -> [is_active : BOOLEAN, buffer : Msgs, tx : Clients \cup {NoClient}]]
           /\ [ss EXCEPT ![s].is_active = FALSE, ![s].buffer = m] \in
                  [Sessions -> [is_active : BOOLEAN, buffer : Msgs, tx : Clients \cup {NoClient}]]
           /\ [ss EXCEPT ![s].buffer.op = "mount"] \in
                  [Sessions -> [is_active : BOOLEAN, buffer : Msgs, tx : Clients \cup {NoClient}]]
<1>1. [ss[s].buffer EXCEPT !.op = "mount"] \in Msgs
  BY DEF Msgs
<1>. QED  BY <1>1

\* The steps of the clients keep the types.
LEMMA ClientsTyped ==
    ASSUME Types, RequestsInv, NEW c \in Clients, PipesTyped',
           \/ MountOpen(c) \/ InCall(c)
           \/ \E op \in Ops, fh \in Handles \cup {-1} : Request(c, op, fh)
    PROVE  ServerTyped'
<1>. USE DEF Types, ServerTyped, fsVars, clientVars, pipeVars, mainVars, workVars, downVars
<1>p. \A d \in Clients : \A k \in DOMAIN client_pipe'[d] :
          client_pipe'[d][k].op \in Ops \cup {"mount", "data"}
  BY AnswerOps DEF PipesTyped
<1>1. CASE MountOpen(c)
  <2>1. mounts' \in 0 .. MaxMounts
    BY <1>1, ServerAssumption DEF MountOpen, ServerAssumption
  <2>2. cpc' \in [Clients -> {"out", "opened", "asked", "data", "idle", "gone", "killed"}]
        /\ fifo' \in [Clients -> BOOLEAN] /\ rx_open' \in BOOLEAN
    BY <1>1 DEF MountOpen
  <2>. QED  BY <1>1, <1>p, <2>1, <2>2 DEF MountOpen
<1>2. ASSUME NEW m \in Msgs, Sent(c, m) \/ Killed(c),
             UNCHANGED <<fifo, mainVars, workVars, downVars>>
      PROVE  ServerTyped'
  <2>1. CASE Killed(c)
    BY <1>2, <1>p, <2>1 DEF Killed
  <2>2. CASE Sent(c, m)
    <3>1. server_pipe' \in Seq(Msgs)
      BY <2>2, AppendProperties DEF Sent
    <3>2. /\ cpc' \in [Clients -> {"out", "opened", "asked", "data", "idle", "gone", "killed"}]
          /\ call' \in [Clients -> Msgs]
          /\ UNCHANGED <<csid, held, mounts>>
      BY <2>2 DEF Sent
    <3>. QED  BY <1>2, <1>p, <3>1, <3>2
  <2>. QED  BY <1>2, <2>1, <2>2
<1>3. ASSUME MountWrite(c) \/ \E op \in Ops, fh \in Handles \cup {-1} : Request(c, op, fh)
      PROVE  ServerTyped'
  <2>1. UNCHANGED <<fifo, mainVars, workVars, downVars>>
    BY <1>3 DEF MountWrite, Request
  <2>2. Killed(c) \/ \E m \in Msgs : Sent(c, m)
    BY <1>3, ClientKinds
  <2>3. Msg("mount", c, NoSession, -1) \in Msgs
    BY Messages DEF NoSession
  <2>. QED  BY <1>2, <2>1, <2>2, <2>3
<1>4. CASE Answered(c)
  <2>. DEFINE val == Head(client_pipe[c]).val
  <2>1. val = client_pipe[c][1].val /\ Len(client_pipe[c]) >= 1
    BY <1>4 DEF Answered, PipesTyped
  <2>2. /\ call[c].op = "mount" => val \in Sessions
        /\ call[c].op = "open" => val \in Handles \cup {-1}
    BY <1>4, <2>1 DEF Answered, RequestsInv, PipesInv, PipeInv
  <2>3. HeldAfter(c, val) \in SUBSET Handles
    BY <2>2 DEF HeldAfter
  <2>4. held' \in [Clients -> SUBSET Handles] /\ csid' \in [Clients -> Sessions \cup {NoSession}]
    BY <1>4, <2>2, <2>3 DEF Answered
  <2>5. cpc' \in [Clients -> {"out", "opened", "asked", "data", "idle", "gone", "killed"}]
    BY <1>4 DEF Answered, StageAfter
  <2>6. NoMsg \in Msgs
    BY Messages DEF NoMsg, NoSession
  <2>7. call' \in [Clients -> Msgs]
    BY <1>4, <2>6 DEF Answered
  <2>. QED  BY <1>4, <1>p, <2>4, <2>5, <2>7 DEF Answered
<1>5. CASE ReadData(c)
  <2>1. NoMsg \in Msgs
    BY Messages DEF NoMsg, NoSession
  <2>. QED  BY <1>5, <1>p, <2>1 DEF ReadData
<1>. QED  BY <1>1, <1>3, <1>4, <1>5 DEF InCall

\* The steps of the receptor keep the types.
LEMMA MainTyped ==
    ASSUME Types, WorkersInv, RequestsInv, PipesTyped', Main
    PROVE  ServerTyped'
<1>. USE DEF Types, ServerTyped, fsVars, clientVars, pipeVars, mainVars, workVars, downVars,
             ServerEnds
<1>p. \A d \in Clients : \A k \in DOMAIN client_pipe'[d] :
          client_pipe'[d][k].op \in Ops \cup {"mount", "data"}
  BY AnswerOps DEF PipesTyped
<1>q. server_pipe # <<>> => Tail(server_pipe) \in Seq(Msgs) /\ Head(server_pipe) \in Msgs
                            /\ Len(server_pipe) > 0 /\ Head(server_pipe) = server_pipe[1]
  BY HeadTailProperties, LenProperties, EmptySeq
<1>d. ASSUME NEW s \in Sessions, NEW m \in Msgs, Dispatched(s, m)
      PROVE  /\ sessions' \in [Sessions -> [is_active : BOOLEAN, buffer : Msgs,
                                            tx : Clients \cup {NoClient}]]
             /\ wpc' \in [Sessions -> {"lock", "wait", "enter", "refuse", "admit", "exec",
                   "open", "data", "closing", "down", "answer", "exit", "finish", "ended"}]
  <2>1. sessions' = [sessions EXCEPT ![s].is_active = TRUE, ![s].buffer = m]
    BY <1>d DEF Dispatched
  <2>2. wpc' = wpc \/ wpc' = [wpc EXCEPT ![s] = "lock"]
    BY <1>d DEF Dispatched
  <2>. QED  BY <2>1, <2>2, SessionsTyped
<1>1. CASE DispatchMount
  <2>0. next_session_id \in Sessions
    BY <1>1, ServerAssumption DEF DispatchMount, Sessions, ServerAssumption
  <2>1. PICK s \in Sessions : s = next_session_id
    BY <2>0
  <2>2. PICK m \in Msgs : m = [Head(server_pipe) EXCEPT !.sid = s]
    BY <1>1, <1>q DEF DispatchMount, Msgs
  <2>3. Dispatched(s, m)
    BY <1>1, <2>1, <2>2 DEF DispatchMount
  <2>4. next_session_id' \in 1 .. MAX_CLIENTS + 1
    BY <1>1, ServerAssumption DEF DispatchMount, ServerAssumption
  <2>. QED  BY <1>1, <1>d, <1>p, <1>q, <2>3, <2>4 DEF DispatchMount
<1>2. CASE Dispatch
  <2>1. PICK m \in Msgs : m = Head(server_pipe)
    BY <1>2, <1>q DEF Dispatch
  <2>2. PICK s \in Sessions : s = m.sid
    <3>1. /\ 1 \in 1 .. Len(server_pipe) /\ m = server_pipe[1] /\ m.op # "mount"
      BY <1>2, <1>q, <2>1 DEF Dispatch
    <3>2. m.client \in Clients /\ cpc[m.client] = "asked" /\ call[m.client] = m
      BY <3>1 DEF RequestsInv, QueueInv
    <3>3. m.sid \in Sessions
      BY <3>1, <3>2 DEF RequestsInv, CallsInv, Mounted
    <3>. QED  BY <3>3
  <2>3. Dispatched(s, m)
    BY <1>2, <2>1, <2>2 DEF Dispatch
  <2>. QED  BY <1>2, <1>d, <1>p, <1>q, <2>3 DEF Dispatch
<1>3. CASE RefuseMount
  <2>0. next_session_id \in Sessions /\ next_session_id <= MAX_CLIENTS
    BY <1>3, <1>q, MountBound DEF RefuseMount, Sessions, RequestsInv
  <2>1. PICK s \in Sessions : s = next_session_id
    BY <2>0
  <2>2. sessions' = [sessions EXCEPT ![s].buffer.op = "mount"]
    BY <1>3, <2>1 DEF RefuseMount
  <2>3. NoMsg \in Msgs
    BY Messages DEF NoMsg, NoSession
  <2>4. sessions' \in [Sessions -> [is_active : BOOLEAN, buffer : Msgs,
                                    tx : Clients \cup {NoClient}]]
    BY <2>2, <2>3, SessionsTyped
  <2>5. next_session_id' \in 1 .. MAX_CLIENTS + 1
    BY <1>3, <2>0, ServerAssumption DEF RefuseMount, ServerAssumption
  <2>. QED  BY <1>3, <1>p, <1>q, <2>4, <2>5 DEF RefuseMount
<1>4. CASE CheckShutdown \/ Eof \/ ClosePipe \/ Reopen \/ Reopened \/ Continue \/ UnlockUnheld
  BY <1>4, <1>p DEF CheckShutdown, Eof, ClosePipe, Reopen, Reopened, Continue, UnlockUnheld
<1>. QED  BY <1>1, <1>2, <1>3, <1>4 DEF Main

\* The steps of the workers keep the types.
LEMMA WorkersTyped ==
    ASSUME Types, RequestsInv, NEW s \in Sessions, PipesTyped',
           Worker(s) \/ WorkerSpuriousWakeup(s)
    PROVE  ServerTyped'
<1>. USE DEF Types, ServerTyped, fsVars, clientVars, pipeVars, mainVars, workVars, downVars,
             ServerEnds, Goes
<1>p. \A d \in Clients : \A k \in DOMAIN client_pipe'[d] :
          client_pipe'[d][k].op \in Ops \cup {"mount", "data"}
  BY AnswerOps DEF PipesTyped
<1>1. CASE WorkerLock(s) \/ WorkerSpuriousWakeup(s) \/ WorkerTest(s) \/ RefuseShutdown(s)
           \/ WorkerEnter(s)
  BY <1>1, <1>p DEF WorkerLock, WorkerSpuriousWakeup, WorkerTest, RefuseShutdown, WorkerEnter
<1>2. CASE CaseMountFails(s) \/ CaseUnmount(s) \/ CaseUnmountUnlink(s) \/ CaseReadData(s)
  BY <1>2, <1>p DEF CaseMountFails, CaseUnmount, CaseUnmountUnlink, CaseReadData
<1>3. CASE CaseMount(s)
  <2>1. sessions[s].buffer.client \in Clients \cup {NoClient}
    BY DEF Msgs
  <2>. QED  BY <1>3, <1>p, <2>1 DEF CaseMount
<1>4. CASE CaseOpen(s) \/ CaseOpenFile(s) \/ CaseOpenDone(s) \/ CaseClose(s)
           \/ CaseWrite(s) \/ CaseRead(s)
  <2>1. UNCHANGED <<clientVars, server_pipe, fifo, mainVars, sessions, session_lock, downVars>>
    BY <1>4 DEF CaseOpen, CaseOpenFile, CaseOpenDone, OpenOver, CaseClose, CaseWrite, CaseRead
  <2>2. wpc' = wpc \/ \E w \in {"open", "finish", "data"} : wpc' = [wpc EXCEPT ![s] = w]
    BY <1>4 DEF CaseOpen, CaseOpenFile, CaseOpenDone, OpenOver, CaseClose, CaseWrite, CaseRead
  <2>. QED  BY <1>p, <2>1, <2>2
<1>5. CASE CaseShutdown(s) \/ ShutdownSet(s) \/ ShutdownAnswer(s) \/ ShutdownExit(s)
  BY <1>5, <1>p DEF CaseShutdown, ShutdownSet, ShutdownAnswer, ShutdownExit
<1>6. CASE WorkerFinish(s)
  <2>1. NoMsg \in Msgs
    BY Messages DEF NoMsg, NoSession
  <2>2. sessions' \in [Sessions -> [is_active : BOOLEAN, buffer : Msgs,
                                    tx : Clients \cup {NoClient}]]
    BY <1>6, <2>1, SessionsTyped DEF WorkerFinish
  <2>. QED  BY <1>6, <1>p, <2>2 DEF WorkerFinish
<1>. QED  BY <1>1, <1>2, <1>3, <1>4, <1>5, <1>6 DEF Worker

-----------------------------------------------------------------------------
(* The files. *)

\* A position that moves over bytes stays a position in its file.
LEMMA MovedTyped ==
    ASSUME FilesInv, NEW h \in Handles, NEW end \in Nat, Fs!Open(h),
           position' = [position EXCEPT ![h].offset = end],
           contents' \in [Files -> Seq(Bytes)], UNCHANGED <<namespace, opening>>
    PROVE  FilesInv'
<1>1. position[h] \in Positions
  BY DEF FilesInv, FilesTyped, Fs!Open
<1>2. [position[h] EXCEPT !.offset = end] \in Positions
  BY <1>1 DEF Positions
<1>3. position' = [position EXCEPT ![h] = [position[h] EXCEPT !.offset = end]]
  BY DEF FilesInv, FilesTyped
<1>4. position' \in [Handles -> Positions \cup {Fs!Closed}]
  BY <1>2, <1>3 DEF FilesInv, FilesTyped
<1>5. \A g \in Handles : Fs!Open(g)' <=> Fs!Open(g)
  BY SameOpenMoved DEF SameOpen
<1>6. Fs!Closed' = Fs!Closed
  BY DEF Fs!Closed, Fs!NoFile
<1>. QED  BY <1>4, <1>5, <1>6 DEF FilesInv, FilesTyped

\* The bytes of a write, over old bytes and past the end.
LEMMA WrittenTyped ==
    ASSUME NEW old \in Seq(Bytes), NEW off \in Nat, NEW end \in Nat, off <= Len(old),
           NEW b \in Bytes
    PROVE  [k \in 1 .. (IF end > Len(old) THEN end ELSE Len(old)) |->
               IF k > off /\ k <= end THEN b ELSE old[k]] \in Seq(Bytes)
<1>. DEFINE last == IF end > Len(old) THEN end ELSE Len(old)
<1>1. Len(old) \in Nat /\ last \in Nat
  BY LenProperties
<1>2. ASSUME NEW k \in 1 .. last  PROVE (IF k > off /\ k <= end THEN b ELSE old[k]) \in Bytes
  <2>1. ~(k > off /\ k <= end) => k \in 1 .. Len(old)
    BY <1>1
  <2>. QED  BY <2>1, ElementOfSeq
<1>. QED  BY <1>1, <1>2, IsASeq

\* An open sets aside a handle that is free, or gives up.
LEMMA ResolvedTyped ==
    ASSUME FilesInv, NEW t \in Sessions, NEW f \in Files, NEW off \in Nat,
           Fs!Resolved(t, f, off), UNCHANGED position,
           contents' \in [Files -> Seq(Bytes)],
           namespace' \in [Names -> Files \cup {Fs!NoFile}]
    PROVE  FilesInv'
<1>. DEFINE at == [file |-> f, offset |-> off]
<1>0. at \in Positions
  BY DEF Positions
<1>k. /\ Fs!Closed' = Fs!Closed /\ Fs!NoFile' = Fs!NoFile
      /\ \A h \in Handles : Fs!Open(h)' <=> Fs!Open(h)
  BY DEF Fs!Closed, Fs!NoFile, Fs!Open
<1>1. ASSUME NEW h \in Handles, Fs!Spare(h),
             opening' = [opening EXCEPT ![t] = Fs!Opening("found", NoName, {}, at, h)]
      PROVE  FilesInv'
  <2>1. /\ Fs!Opening("found", NoName, {}, at, h) \in Openings
        /\ Fs!Opening("found", NoName, {}, at, h).stage = "found"
        /\ Fs!Opening("found", NoName, {}, at, h).handle = h
        /\ Fs!Opening("found", NoName, {}, at, h).at = at
    BY <1>0 DEF Fs!Opening, Openings
  <2>2. /\ opening' \in [Sessions -> Openings]
        /\ opening'[t].stage = "found" /\ opening'[t].handle = h /\ opening'[t].at = at
        /\ \A u \in Sessions \ {t} : opening'[u] = opening[u]
    BY <1>1, <2>1 DEF FilesInv, FilesTyped
  <2>3. ~Fs!Open(h) /\ \A u \in Sessions : opening[u].handle # h
    BY <1>1 DEF Fs!Spare, FilesInv, FilesTyped
  <2>5. /\ \A u \in Sessions : opening'[u].stage = "asked" => opening'[u].name \in Names
        /\ \A u \in Sessions : opening'[u].stage # "found" => opening'[u].handle = -1
    BY <2>2 DEF FilesInv, FilesTyped
  <2>6. ASSUME NEW u \in Sessions, opening'[u].stage = "found"
        PROVE  /\ opening'[u].at \in Positions
               /\ opening'[u].handle \in Handles /\ ~Fs!Open(opening'[u].handle)
               /\ \A v \in Sessions :
                     opening'[v].handle = opening'[u].handle /\ opening'[v].stage = "found" => u = v
    <3>1. CASE u = t
      BY <1>0, <2>2, <2>3, <3>1
    <3>2. CASE u # t
      BY <2>2, <2>3, <2>6, <3>2 DEF FilesInv, FilesTyped
    <3>. QED  BY <3>1, <3>2
  <2>. QED  BY <1>k, <2>2, <2>5, <2>6 DEF FilesInv, FilesTyped, Fs!Open
<1>2. CASE opening' = [opening EXCEPT ![t] = Fs!NoOpen]
  <2>1. /\ Fs!NoOpen \in Openings /\ Fs!NoOpen.stage = "none" /\ Fs!NoOpen.handle = -1
    BY DEF Fs!NoOpen, Fs!Opening, Fs!NoHandle, Openings
  <2>2. /\ opening' \in [Sessions -> Openings]
        /\ opening'[t].stage = "none" /\ opening'[t].handle = -1
        /\ \A u \in Sessions \ {t} : opening'[u] = opening[u]
    BY <1>2, <2>1 DEF FilesInv, FilesTyped
  <2>. QED  BY <1>k, <2>2 DEF FilesInv, FilesTyped
<1>. QED  BY <1>1, <1>2 DEF Fs!Resolved

\* The three steps of an open that is admitted.
LEMMA OpensTyped ==
    ASSUME FilesInv, NEW t \in Sessions,
           Fs!Admit(t) \/ Fs!OpenOld(t) \/ Fs!OpenNew(t) \/ Fs!OpenNone(t) \/ Fs!HandOut(t)
    PROVE  FilesInv'
<1>k. Fs!Closed' = Fs!Closed /\ Fs!NoFile' = Fs!NoFile
  BY DEF Fs!Closed, Fs!NoFile
<1>e. <<>> \in Seq(Bytes)
  BY EmptySeq
<1>1. CASE Fs!Admit(t)
  <2>1. PICK n \in Names, fl \in FlagSets :
            opening' = [opening EXCEPT ![t] = Fs!Opening("asked", n, fl, Fs!Closed, Fs!NoHandle)]
    BY <1>1 DEF Fs!Admit
  <2>2. /\ Fs!Opening("asked", n, fl, Fs!Closed, Fs!NoHandle) \in Openings
        /\ Fs!Opening("asked", n, fl, Fs!Closed, Fs!NoHandle).stage = "asked"
        /\ Fs!Opening("asked", n, fl, Fs!Closed, Fs!NoHandle).name = n
        /\ Fs!Opening("asked", n, fl, Fs!Closed, Fs!NoHandle).handle = -1
    BY DEF Fs!Opening, Fs!NoHandle, Openings
  <2>3. /\ opening' \in [Sessions -> Openings]
        /\ opening'[t].stage = "asked" /\ opening'[t].name = n /\ opening'[t].handle = -1
        /\ \A u \in Sessions \ {t} : opening'[u] = opening[u]
    BY <2>1, <2>2 DEF FilesInv, FilesTyped
  <2>4. UNCHANGED <<namespace, contents, position>>
    BY <1>1 DEF Fs!Admit
  <2>. QED  BY <1>k, <2>3, <2>4 DEF FilesInv, FilesTyped, Fs!Open
<1>2. CASE Fs!OpenOld(t)
  <2>. DEFINE g == namespace[opening[t].name]
  <2>0. g \in Files
    BY <1>2 DEF Fs!OpenOld, FilesInv, FilesTyped
  <2>1. PICK f \in Files : f = g
    BY <2>0
  <2>2. contents' \in [Files -> Seq(Bytes)]
    <3>1. contents' = contents \/ contents' = [contents EXCEPT ![f] = <<>>]
      BY <1>2, <2>1 DEF Fs!OpenOld
    <3>. QED  BY <1>e, <3>1 DEF FilesInv, FilesTyped
  <2>3. Len(contents'[f]) \in Nat
    BY <2>2, LenProperties
  <2>4. PICK off \in Nat : off = IF "APPEND" \in opening[t].flags THEN Len(contents'[f]) ELSE 0
    BY <2>3
  <2>5. Fs!Resolved(t, f, off) /\ UNCHANGED <<namespace, position>>
    BY <1>2, <2>1, <2>4 DEF Fs!OpenOld
  <2>. QED  BY <2>2, <2>5, ResolvedTyped DEF FilesInv, FilesTyped
<1>3. CASE Fs!OpenNew(t)
  <2>1. PICK f \in Files :
           /\ namespace' = [namespace EXCEPT ![opening[t].name] = f]
           /\ contents' = [contents EXCEPT ![f] = <<>>]
           /\ Fs!Resolved(t, f, 0)
    BY <1>3 DEF Fs!OpenNew
  <2>2. contents' \in [Files -> Seq(Bytes)] /\ namespace' \in [Names -> Files \cup {Fs!NoFile}]
        /\ UNCHANGED position
    BY <1>3, <1>e, <2>1 DEF FilesInv, FilesTyped, Fs!OpenNew
  <2>. QED  BY <2>1, <2>2, ResolvedTyped
<1>4. CASE Fs!OpenNone(t) \/ Fs!HandOut(t)
  <2>1. opening' = [opening EXCEPT ![t] = Fs!NoOpen] /\ UNCHANGED <<namespace, contents>>
    BY <1>4 DEF Fs!OpenNone, Fs!HandOut
  <2>2. /\ Fs!NoOpen \in Openings /\ Fs!NoOpen.stage = "none" /\ Fs!NoOpen.handle = -1
    BY DEF Fs!NoOpen, Fs!Opening, Fs!NoHandle, Openings
  <2>3. /\ opening' \in [Sessions -> Openings]
        /\ opening'[t].stage = "none" /\ opening'[t].handle = -1
        /\ \A u \in Sessions \ {t} : opening'[u] = opening[u]
    BY <2>1, <2>2 DEF FilesInv, FilesTyped
  <2>4. CASE UNCHANGED position
    BY <1>k, <2>1, <2>3, <2>4 DEF FilesInv, FilesTyped, Fs!Open
  <2>5. CASE Fs!HandOut(t)
    <3>1. /\ opening[t].stage = "found" /\ opening[t].handle \in Handles
          /\ opening[t].at \in Positions
      BY <2>5 DEF Fs!HandOut, FilesInv, FilesTyped
    <3>2. PICK h \in Handles : h = opening[t].handle
      BY <3>1
    <3>3. position' = [position EXCEPT ![h] = opening[t].at]
      BY <2>5, <3>2 DEF Fs!HandOut
    <3>4. /\ position' \in [Handles -> Positions \cup {Fs!Closed}]
          /\ \A g \in Handles \ {h} : position'[g] = position[g]
      BY <3>1, <3>3 DEF FilesInv, FilesTyped
    <3>5. \A u \in Sessions \ {t} : opening[u].stage = "found" => opening[u].handle # h
      BY <3>1, <3>2 DEF FilesInv, FilesTyped
    <3>. QED  BY <1>k, <2>1, <2>3, <3>4, <3>5 DEF FilesInv, FilesTyped, Fs!Open
  <2>. QED  BY <1>4, <2>4, <2>5 DEF Fs!OpenNone
<1>. QED  BY <1>1, <1>2, <1>3, <1>4

\* Only the worker that executes a request touches the files.
LEMMA FilesStep ==
    ASSUME Types, WorkersInv, RequestsInv, [Next]_vars
    PROVE  FilesInv'
<1>k. Fs!Closed' = Fs!Closed /\ Fs!NoFile' = Fs!NoFile
  BY DEF Fs!Closed, Fs!NoFile
<1>u. ASSUME UNCHANGED <<namespace, contents, position, opening>>  PROVE FilesInv'
  BY <1>k, <1>u DEF FilesInv, FilesTyped, Types, Fs!Open
<1>h. ASSUME NEW s \in Sessions, wpc[s] = "exec", Op(s) \in {"write", "read"}
      PROVE  sessions[s].buffer.fh \in Handles
  <2>1. PICK c \in Clients : c = sessions[s].buffer.client
    BY <1>h DEF RequestsInv, OwnersInv, WorkersInv, Holding
  <2>2. cpc[c] = "asked" /\ call[c] = sessions[s].buffer /\ call[c].op = Op(s)
    BY <1>h, <2>1 DEF RequestsInv, PendingInv, Pending, WorkersInv, Holding
  <2>3. call[c].fh \in held[c]
    BY <1>h, <2>2 DEF RequestsInv, CallsInv
  <2>. QED  BY <2>2, <2>3 DEF Types, ServerTyped
<1>1. ASSUME NEW s \in Sessions, CaseOpen(s) \/ CaseOpenFile(s) \/ CaseOpenDone(s)
      PROVE  FilesInv'
  BY <1>1, <1>u, OpensTyped DEF CaseOpen, CaseOpenFile, CaseOpenDone, Types, fsVars
<1>2. ASSUME NEW s \in Sessions, CaseClose(s)  PROVE FilesInv'
  <2>1. PICK h \in Handles \cup {-1} : h = sessions[s].buffer.fh
    BY DEF Types, ServerTyped, Msgs
  <2>2. position' = [position EXCEPT ![h] = Fs!Closed] /\ UNCHANGED <<namespace, contents, opening>>
    BY <1>2, <2>1 DEF CaseClose, Fs!Close
  <2>3. /\ position' \in [Handles -> Positions \cup {Fs!Closed}]
        /\ \A g \in Handles : position'[g] = position[g] \/ position'[g] = Fs!Closed
    BY <2>2 DEF FilesInv, FilesTyped, Types
  <2>. QED  BY <1>k, <2>2, <2>3 DEF FilesInv, FilesTyped, Types, Fs!Open
<1>3. ASSUME NEW s \in Sessions, CaseWrite(s)  PROVE FilesInv'
  <2>1. PICK h \in Handles : h = sessions[s].buffer.fh
    BY <1>3, <1>h DEF CaseWrite
  <2>2. CASE UNCHANGED fsVars
    BY <1>u, <2>2 DEF fsVars
  <2>3. ASSUME NEW n \in 1 .. Capacity, NEW b \in Bytes, Fs!Write(h, n, b)  PROVE FilesInv'
    <3>. DEFINE f == position[h].file
                off == position[h].offset
                end == off + n
    <3>1. f \in Files /\ off \in Nat /\ n \in Nat /\ Fs!Open(h)
      BY <2>3 DEF Fs!Write, Fs!Open, FilesInv, FilesTyped, Types, Positions
    <3>2. contents[f] \in Seq(Bytes) /\ end \in Nat /\ off <= Len(contents[f])
      BY <2>3, <3>1 DEF Fs!Write, FilesInv, FilesTyped, Types
    <3>3. [k \in 1 .. (IF end > Len(contents[f]) THEN end ELSE Len(contents[f])) |->
               IF k > off /\ k <= end THEN b ELSE contents[f][k]] \in Seq(Bytes)
      BY <3>1, <3>2, WrittenTyped
    <3>4. contents' \in [Files -> Seq(Bytes)]
      BY <2>3, <3>1, <3>3 DEF Fs!Write, FilesInv, FilesTyped, Types
    <3>5. PICK e \in Nat : e = end
      BY <3>2
    <3>6. position' = [position EXCEPT ![h].offset = e] /\ UNCHANGED <<namespace, opening>>
      BY <2>3, <3>5 DEF Fs!Write
    <3>. QED  BY <3>1, <3>4, <3>6, MovedTyped DEF Types
  <2>. QED  BY <1>3, <2>1, <2>2, <2>3 DEF CaseWrite
<1>4. ASSUME NEW s \in Sessions, CaseRead(s)  PROVE FilesInv'
  <2>1. PICK h \in Handles : h = sessions[s].buffer.fh
    BY <1>4, <1>h DEF CaseRead
  <2>2. CASE UNCHANGED fsVars
    BY <1>u, <2>2 DEF fsVars
  <2>3. ASSUME NEW n \in 1 .. Capacity, Fs!Read(h, n)  PROVE FilesInv'
    <3>1. position[h].offset \in Nat /\ n \in Nat /\ Fs!Open(h)
      BY <2>3 DEF Fs!Read, Fs!Open, FilesInv, FilesTyped, Types, Positions
    <3>2. PICK e \in Nat : e = position[h].offset + n
      BY <3>1
    <3>3. /\ position' = [position EXCEPT ![h].offset = e]
          /\ UNCHANGED <<namespace, contents, opening>>
      BY <2>3, <3>2 DEF Fs!Read
    <3>. QED  BY <3>1, <3>3, MovedTyped DEF Types, FilesInv, FilesTyped
  <2>. QED  BY <1>4, <2>1, <2>2, <2>3 DEF CaseRead
<1>5. ASSUME NEW s \in Sessions, Worker(s) \/ WorkerSpuriousWakeup(s)  PROVE FilesInv'
  <2>1. CASE CaseShutdown(s)
    BY <1>u, <2>1 DEF CaseShutdown, Fs!Shut
  <2>2. CASE \/ WorkerLock(s) \/ WorkerTest(s) \/ RefuseShutdown(s) \/ WorkerEnter(s)
             \/ CaseMount(s) \/ CaseMountFails(s) \/ CaseUnmount(s) \/ CaseUnmountUnlink(s)
             \/ CaseReadData(s) \/ ShutdownSet(s) \/ ShutdownAnswer(s) \/ ShutdownExit(s)
             \/ WorkerFinish(s) \/ WorkerSpuriousWakeup(s)
    <3>1. UNCHANGED fsVars
      BY <2>2 DEF WorkerLock, WorkerTest, RefuseShutdown, WorkerEnter, CaseMount,
            CaseMountFails, CaseUnmount, CaseUnmountUnlink, CaseReadData, ShutdownSet,
            ShutdownAnswer, ShutdownExit, WorkerFinish, WorkerSpuriousWakeup
    <3>. QED  BY <1>u, <3>1 DEF fsVars
  <2>. QED  BY <1>1, <1>2, <1>3, <1>4, <1>5, <2>1, <2>2 DEF Worker
<1>6. CASE Main
  <2>1. UNCHANGED fsVars
    BY <1>6 DEF Main, DispatchMount, RefuseMount, Dispatch, CheckShutdown, Eof, ClosePipe,
                Reopen, Reopened, Continue, UnlockUnheld
  <2>. QED  BY <1>u, <2>1 DEF fsVars
<1>7. ASSUME NEW c \in Clients,
             \/ MountOpen(c) \/ InCall(c)
             \/ \E op \in Ops, fh \in Handles \cup {-1} : Request(c, op, fh)
      PROVE  FilesInv'
  <2>1. UNCHANGED fsVars
    BY <1>7 DEF MountOpen, InCall, MountWrite, Answered, ReadData, Request
  <2>. QED  BY <1>u, <2>1 DEF fsVars
<1>8. CASE UNCHANGED vars
  BY <1>8, <1>u DEF vars, fsVars
<1>. QED  BY <1>5, <1>6, <1>7, <1>8 DEF Next

\* Every step keeps the types.
LEMMA TypesStep ==
    ASSUME Types, WorkersInv, RequestsInv, [Next]_vars
    PROVE  Types'
<1>1. PipesTyped' /\ FilesInv'
  BY PipesTypedStep, FilesStep
<1>2. ASSUME UNCHANGED vars  PROVE ServerTyped'
  BY <1>2 DEF Types, ServerTyped, vars, fsVars, clientVars, pipeVars, mainVars, workVars, downVars
<1>3. ASSUME Next  PROVE ServerTyped'
  BY <1>1, <1>3, ClientsTyped, MainTyped, WorkersTyped, Zenon DEF Next
<1>. QED  BY <1>1, <1>2, <1>3 DEF Types

-----------------------------------------------------------------------------
(* The workers and their locks. *)

\* A worker moves on only under the lock of its session, and no other worker
\* moves with it.
LEMMA WorkersStep ==
    ASSUME Types, WorkersInv, RequestsInv, [Next]_vars
    PROVE  WorkersInv'
<1>. /\ wpc \in [Sessions -> {"lock", "wait", "enter", "refuse", "admit", "exec",
            "open", "data", "closing", "down", "answer", "exit", "finish", "ended"}]
     /\ sessions \in [Sessions -> [is_active : BOOLEAN, buffer : Msgs,
                                   tx : Clients \cup {NoClient}]]
     /\ session_lock \in [Sessions -> BOOLEAN]
  BY DEF Types, ServerTyped
<1>u. ASSUME UNCHANGED workVars  PROVE WorkersInv'
  BY <1>u DEF WorkersInv, Holding, Op, workVars
<1>b. ASSUME NEW s \in Sessions, UNCHANGED <<sessions, session_lock>>,
             NEW w \in {"admit", "refuse", "exec", "open", "data", "closing", "down",
                        "answer", "exit", "finish"},
             Holding(s), wpc' = [wpc EXCEPT ![s] = w],
             w = "data" => Op(s) = "read", w = "open" => Op(s) = "open",
             w \in {"refuse", "down", "answer", "exit"} => Op(s) = "shutdown"
      PROVE  WorkersInv'
  BY <1>b DEF WorkersInv, Holding, Op
<1>1. ASSUME NEW c \in Clients,
             \/ MountOpen(c) \/ InCall(c)
             \/ \E op \in Ops, fh \in Handles \cup {-1} : Request(c, op, fh)
      PROVE  WorkersInv'
  BY <1>1, <1>u DEF MountOpen, InCall, MountWrite, Answered, ReadData, Request
<1>2. CASE Main
  <2>1. ASSUME NEW s \in Sessions, NEW m \in Msgs, Taken(s, m)  PROVE WorkersInv'
    BY <2>1 DEF Taken, WorkersInv, Holding, Op
  <2>2. CASE RefuseMount
    <3>1. PICK s \in Sessions : s = next_session_id
      <4>1. /\ Len(server_pipe) > 0 /\ server_pipe[1].op = "mount"
        BY <2>2 DEF RefuseMount, Types, ServerTyped
      <4>. QED  BY <4>1, MountBound DEF RequestsInv, Types, ServerTyped, Sessions
    <3>2. ~sessions[s].is_active
      BY <3>1 DEF RequestsInv, OwnersInv, Types, ServerTyped
    <3>3. sessions' = [sessions EXCEPT ![s].buffer.op = "mount"]
          /\ UNCHANGED <<session_lock, wpc>>
      BY <2>2, <3>1 DEF RefuseMount
    <3>4. /\ sessions'[s].is_active = sessions[s].is_active
          /\ \A t \in Sessions \ {s} : sessions'[t] = sessions[t]
      BY <3>3
    <3>. QED  BY <3>2, <3>3, <3>4 DEF WorkersInv, Holding, Op
  <2>3. CASE \/ CheckShutdown \/ Eof \/ ClosePipe \/ Reopen \/ Reopened \/ Continue
             \/ UnlockUnheld
    BY <2>3, <1>u DEF CheckShutdown, Eof, ClosePipe, Reopen, Reopened, Continue, UnlockUnheld
  <2>. QED  BY <1>2, <2>1, <2>2, <2>3, TakenKinds DEF Main, RequestsInv
<1>3. ASSUME NEW s \in Sessions, Worker(s) \/ WorkerSpuriousWakeup(s)  PROVE WorkersInv'
  <2>. USE DEF Goes
  <2>1. CASE WorkerLock(s) \/ WorkerSpuriousWakeup(s)
    BY <2>1 DEF WorkerLock, WorkerSpuriousWakeup, WorkersInv, Holding, Op
  <2>2. CASE WorkerTest(s) \/ WorkerEnter(s)
    BY <1>b, <2>2 DEF WorkerTest, WorkerEnter, Holding
  <2>3. CASE RefuseShutdown(s)
    BY <2>3 DEF RefuseShutdown, WorkersInv, Holding, Op
  <2>4. CASE CaseMount(s)
    <3>1. /\ UNCHANGED session_lock /\ wpc[s] = "exec" /\ wpc'[s] = "finish"
          /\ \A t \in Sessions \ {s} : wpc'[t] = wpc[t] /\ sessions'[t] = sessions[t]
          /\ sessions'[s].is_active = sessions[s].is_active
      BY <2>4 DEF CaseMount
    <3>. QED  BY <3>1 DEF WorkersInv, Holding, Op
  <2>5. CASE CaseMountFails(s) \/ ShutdownExit(s) \/ CaseOpenFile(s)
    BY <1>u, <2>5 DEF CaseMountFails, ShutdownExit, CaseOpenFile
  <2>6. CASE CaseUnmount(s) \/ CaseUnmountUnlink(s) \/ CaseReadData(s)
             \/ CaseClose(s) \/ CaseWrite(s)
    BY <1>b, <2>6 DEF CaseUnmount, CaseUnmountUnlink, CaseReadData, CaseClose, CaseWrite, Holding
  <2>7. CASE CaseOpen(s) \/ CaseOpenDone(s)
    BY <1>b, <2>7 DEF CaseOpen, CaseOpenDone, OpenOver, Holding
  <2>8. CASE CaseRead(s)
    BY <1>b, <2>8 DEF CaseRead, Holding
  <2>9. CASE CaseShutdown(s) \/ ShutdownSet(s) \/ ShutdownAnswer(s)
    BY <1>b, <2>9 DEF CaseShutdown, ShutdownSet, ShutdownAnswer, WorkersInv, Holding
  <2>10. CASE WorkerFinish(s)
    <3>1. /\ ~session_lock'[s] /\ wpc'[s] = "lock"
          /\ \A t \in Sessions \ {s} : /\ wpc'[t] = wpc[t] /\ sessions'[t] = sessions[t]
                                       /\ session_lock'[t] = session_lock[t]
      BY <2>10 DEF WorkerFinish
    <3>. QED  BY <3>1 DEF WorkersInv, Holding, Op
  <2>. QED  BY <1>3, <2>1, <2>2, <2>3, <2>4, <2>5, <2>6, <2>7, <2>8, <2>9, <2>10 DEF Worker
<1>4. CASE UNCHANGED vars
  BY <1>4, <1>u DEF vars
<1>. QED  BY <1>1, <1>2, <1>3, <1>4 DEF Next

\* The stages of a worker inside the critical section of shutting_down_lock.
Critical(s) == wpc[s] \in {"refuse", "admit", "answer"}

\* The stages of the receptor from the end of the server's pipe to its next read.
Reopening == rpc \in {"eof", "reopen", "reopened", "continue", "unlock"}

\* A step that neither takes nor releases shutting_down_lock, admits nothing,
\* and gives no worker a request while the receptor reopens the pipe.
LockQuiet ==
    /\ UNCHANGED <<shutdown_called, shutting_down_lock>>
    /\ Refused => Refused'
    /\ Reopening' => Reopening \/ Refused'
    /\ \A s \in Sessions :
          /\ Critical(s)' => Critical(s) /\ wpc'[s] = wpc[s] /\ Op(s)' = Op(s)
          /\ Shutter(s)' => Shutter(s)
          /\ Pending(s)' => Pending(s) \/ ~Reopening'

\* Such a step keeps the invariant of the lock.
LEMMA LockQuietKeeps ==
    ASSUME LockInv, LockQuiet
    PROVE  LockInv'
  BY DEF LockInv, LockQuiet, Critical, Reopening

\* The steps that leave the lock alone.
LEMMA LockQuietSteps ==
    ASSUME Types, WorkersInv, RequestsInv,
           \/ UNCHANGED vars
           \/ \E c \in Clients :
                 \/ MountOpen(c) \/ InCall(c)
                 \/ \E op \in Ops, fh \in Handles \cup {-1} : Request(c, op, fh)
           \/ DispatchMount \/ Dispatch \/ RefuseMount
           \/ CheckShutdown \/ ClosePipe \/ Reopen \/ Reopened \/ Continue
           \/ \E s \in Sessions :
                 \/ WorkerLock(s) \/ WorkerSpuriousWakeup(s)
                 \/ CaseMount(s) \/ CaseMountFails(s) \/ CaseUnmount(s) \/ CaseUnmountUnlink(s)
                 \/ CaseOpen(s) \/ CaseOpenFile(s) \/ CaseOpenDone(s) \/ CaseClose(s)
                 \/ CaseWrite(s) \/ CaseRead(s) \/ CaseReadData(s)
                 \/ CaseShutdown(s) \/ ShutdownExit(s) \/ WorkerFinish(s)
    PROVE  LockQuiet
<1>. /\ wpc \in [Sessions -> {"lock", "wait", "enter", "refuse", "admit", "exec",
            "open", "data", "closing", "down", "answer", "exit", "finish", "ended"}]
     /\ sessions \in [Sessions -> [is_active : BOOLEAN, buffer : Msgs,
                                   tx : Clients \cup {NoClient}]]
     /\ next_session_id \in Nat
  BY DEF Types, ServerTyped
<1>. USE DEF LockQuiet, Reopening, Critical, Shutter, Pending, Refused, Op, Goes
<1>u. ASSUME UNCHANGED <<rpc, next_session_id, workVars, shutdown_called, shutting_down_lock>>
      PROVE  LockQuiet
  BY <1>u DEF workVars
<1>1. ASSUME NEW c \in Clients,
             \/ MountOpen(c) \/ InCall(c)
             \/ \E op \in Ops, fh \in Handles \cup {-1} : Request(c, op, fh)
      PROVE  LockQuiet
  BY <1>1, <1>u DEF MountOpen, InCall, MountWrite, Answered, ReadData, Request, mainVars, downVars
<1>2. CASE DispatchMount \/ Dispatch
  <2>1. PICK s \in Sessions, m \in Msgs : Taken(s, m)
    BY <1>2, TakenKinds DEF RequestsInv
  <2>2. /\ UNCHANGED <<shutdown_called, shutting_down_lock>> /\ rpc' = "check"
    BY <1>2 DEF DispatchMount, Dispatch, downVars
  <2>3. next_session_id' \in {next_session_id, next_session_id + 1}
    BY <2>1 DEF Taken
  <2>4. Refused => Refused'
    BY <2>3, ServerAssumption DEF ServerAssumption
  <2>5. /\ wpc'[s] = "lock"
        /\ \A t \in Sessions \ {s} : wpc'[t] = wpc[t] /\ sessions'[t] = sessions[t]
    BY <2>1 DEF Taken
  <2>. QED  BY <2>2, <2>4, <2>5
<1>3. CASE RefuseMount
  <2>0. /\ Len(server_pipe) > 0 /\ server_pipe[1].op = "mount"
        /\ next_session_id + 1 > MAX_CLIENTS /\ next_session_id' = next_session_id + 1
    BY <1>3 DEF RefuseMount, Types, ServerTyped
  <2>1. PICK s \in Sessions : s = next_session_id
    BY <2>0, MountBound DEF RequestsInv, Sessions, Types, ServerTyped
  <2>2. ~sessions[s].is_active
    BY <2>1 DEF RequestsInv, OwnersInv
  <2>3. sessions' = [sessions EXCEPT ![s].buffer.op = "mount"]
        /\ UNCHANGED <<wpc, shutdown_called, shutting_down_lock>>
    BY <1>3, <2>1 DEF RefuseMount, downVars
  <2>4. /\ sessions'[s].is_active = sessions[s].is_active
        /\ \A t \in Sessions \ {s} : sessions'[t] = sessions[t]
    BY <2>3
  <2>5. Refused'
    BY <2>0
  <2>6. wpc[s] \in {"lock", "wait"}
    BY <2>2 DEF WorkersInv, Holding
  <2>. QED  BY <2>2, <2>3, <2>4, <2>5, <2>6
<1>4. CASE CheckShutdown \/ ClosePipe \/ Reopen \/ Reopened \/ Continue
  <2>1. /\ UNCHANGED <<next_session_id, workVars, shutdown_called, shutting_down_lock>>
        /\ Reopening' => Reopening
    BY <1>4 DEF CheckShutdown, ClosePipe, Reopen, Reopened, Continue, downVars
  <2>. QED  BY <2>1 DEF workVars
<1>5. ASSUME NEW s \in Sessions,
             \/ WorkerLock(s) \/ WorkerSpuriousWakeup(s)
             \/ CaseMount(s) \/ CaseMountFails(s) \/ CaseUnmount(s) \/ CaseUnmountUnlink(s)
             \/ CaseOpen(s) \/ CaseOpenFile(s) \/ CaseOpenDone(s) \/ CaseClose(s)
             \/ CaseWrite(s) \/ CaseRead(s) \/ CaseReadData(s)
             \/ CaseShutdown(s) \/ ShutdownExit(s) \/ WorkerFinish(s)
      PROVE  LockQuiet
  <2>. USE DEF mainVars, downVars
  <2>a. ASSUME NEW w \in {"lock", "wait", "enter", "exec", "open", "data", "closing",
                          "down", "finish"},
               wpc' = [wpc EXCEPT ![s] = w],
               UNCHANGED <<mainVars, shutdown_called, shutting_down_lock>>,
               \A t \in Sessions \ {s} : sessions'[t] = sessions[t],
               w \in {"exec", "open", "down"} => wpc[s] = "exec" /\ sessions' = sessions,
               w \in {"lock", "wait", "enter"} /\ sessions'[s].is_active => Pending(s)
        PROVE  LockQuiet
    BY <2>a
  <2>1. CASE WorkerLock(s) \/ WorkerSpuriousWakeup(s)
    BY <2>1, <2>a DEF WorkerLock, WorkerSpuriousWakeup, WorkersInv
  <2>2. CASE CaseMount(s)
    BY <2>2, <2>a DEF CaseMount
  <2>3. CASE CaseMountFails(s) \/ ShutdownExit(s)
    BY <2>3, <1>u DEF CaseMountFails, ShutdownExit
  <2>4. CASE CaseUnmount(s) \/ CaseUnmountUnlink(s) \/ CaseReadData(s) \/ CaseClose(s)
             \/ CaseWrite(s) \/ CaseRead(s) \/ CaseShutdown(s)
    BY <2>4, <2>a DEF CaseUnmount, CaseUnmountUnlink, CaseReadData, CaseClose, CaseWrite,
          CaseRead, CaseShutdown
  <2>5. CASE CaseOpen(s) \/ CaseOpenDone(s)
    BY <2>5, <2>a DEF CaseOpen, CaseOpenDone, OpenOver
  <2>6. CASE CaseOpenFile(s)
    BY <2>6, <1>u DEF CaseOpenFile
  <2>7. CASE WorkerFinish(s)
    <3>1. /\ wpc' = [wpc EXCEPT ![s] = "lock"] /\ ~sessions'[s].is_active
          /\ UNCHANGED <<mainVars, shutdown_called, shutting_down_lock>>
          /\ \A t \in Sessions \ {s} : sessions'[t] = sessions[t]
      BY <2>7 DEF WorkerFinish
    <3>. QED  BY <2>a, <3>1
  <2>. QED  BY <1>5, <2>1, <2>2, <2>3, <2>4, <2>5, <2>6, <2>7
<1>6. CASE UNCHANGED vars
  BY <1>6, <1>u DEF vars, mainVars, workVars, downVars
<1>. QED  BY <1>1, <1>2, <1>3, <1>4, <1>5, <1>6

\* shutting_down_lock keeps its holder until a mount is refused.
LEMMA LockStep ==
    ASSUME Types, WorkersInv, RequestsInv, LockInv, [Next]_vars
    PROVE  LockInv'
<1>. /\ wpc \in [Sessions -> {"lock", "wait", "enter", "refuse", "admit", "exec",
            "open", "data", "closing", "down", "answer", "exit", "finish", "ended"}]
     /\ shutdown_called \in BOOLEAN /\ shutting_down_lock \in Sessions \cup {NoSession}
     /\ NoSession \notin Sessions
  BY DEF Types, ServerTyped, Sessions, NoSession
<1>c. ASSUME NEW s \in Sessions, Critical(s)  PROVE Pending(s)
  BY <1>c DEF Critical, WorkersInv, Holding, Pending
<1>s. ASSUME NEW s \in Sessions, Shutter(s)' \/ Critical(s)', UNCHANGED sessions
      PROVE  Op(s)' = Op(s)
  BY <1>s DEF Op
<1>1. CASE Eof
  <2>1. ASSUME NEW s \in Sessions  PROVE ~Pending(s)
    <3>1. SUFFICES ASSUME Pending(s)  PROVE FALSE
      OBVIOUS
    <3>2. sessions[s].buffer.client \in Clients /\ cpc[sessions[s].buffer.client] = "asked"
      BY <3>1 DEF RequestsInv, PendingInv, OwnersInv, Pending
    <3>. QED  BY <1>1, <3>2 DEF Eof, HasServerPipeOpen
  <2>2. UNCHANGED <<next_session_id, workVars, downVars>>
    BY <1>1 DEF Eof
  <2>. QED  BY <2>1, <2>2 DEF LockInv, Pending, Shutter, Op, Refused, workVars, downVars
<1>2. CASE UnlockUnheld
  <2>1. /\ UNCHANGED <<next_session_id, workVars, shutdown_called>> /\ rpc = "unlock"
        /\ rpc' = "read"
    BY <1>2 DEF UnlockUnheld
  <2>2. ~Refused => \A s \in Sessions : ~Pending(s)
    BY <2>1 DEF LockInv
  <2>3. ~Refused => \A s \in Sessions : wpc[s] \notin {"refuse", "admit", "answer"}
    BY <1>c, <2>2 DEF Critical
  <2>. QED  BY <2>1, <2>3 DEF LockInv, Pending, Shutter, Op, Refused, workVars
<1>3. ASSUME NEW s \in Sessions,
             WorkerTest(s) \/ RefuseShutdown(s) \/ WorkerEnter(s) \/ ShutdownSet(s)
                 \/ ShutdownAnswer(s)
      PROVE  LockInv'
  <2>1. /\ UNCHANGED <<rpc, next_session_id, sessions>>
        /\ \A t \in Sessions \ {s} : wpc'[t] = wpc[t]
    BY <1>3 DEF WorkerTest, RefuseShutdown, WorkerEnter, ShutdownSet, ShutdownAnswer,
                mainVars, Goes
  <2>2. /\ \A t \in Sessions : Op(t)' = Op(t)
        /\ \A t \in Sessions \ {s} : /\ Pending(t)' <=> Pending(t)
                                     /\ Shutter(t)' <=> Shutter(t)
        /\ Pending(s) \/ ~Pending(s)'
    <3>1. Pending(s) \/ ~Pending(s)'
      BY <1>3, <2>1 DEF WorkerTest, RefuseShutdown, WorkerEnter, ShutdownSet, ShutdownAnswer,
            Goes, Pending
    <3>. QED  BY <2>1, <3>1 DEF Op, Pending, Shutter
  <2>3. ASSUME NEW t \in Sessions, ~Refused, shutting_down_lock = NoSession  PROVE ~Critical(t)
    BY <2>3 DEF LockInv, Critical
  <2>4. ASSUME NEW t \in Sessions \ {s}, ~Refused, Critical(s)  PROVE ~Critical(t)
    BY <2>4 DEF LockInv, Critical
  <2>5. CASE WorkerTest(s)
    <3>1. /\ shutting_down_lock = NoSession /\ shutting_down_lock' = s
          /\ wpc[s] = "enter"
          /\ wpc'[s] = IF shutdown_called /\ Op(s) = "shutdown" THEN "refuse" ELSE "admit"
          /\ UNCHANGED shutdown_called
      BY <2>5 DEF WorkerTest, Goes
    <3>. QED  BY <2>1, <2>2, <2>3, <3>1 DEF LockInv, Critical, Shutter, Refused
  <2>6. CASE RefuseShutdown(s)
    <3>1. wpc[s] = "refuse" /\ wpc'[s] = "ended" /\ UNCHANGED shutdown_called
      BY <2>6 DEF RefuseShutdown, Goes
    <3>. QED  BY <2>1, <2>2, <2>4, <3>1 DEF LockInv, Critical, Shutter, Refused
  <2>7. CASE WorkerEnter(s)
    <3>1. /\ wpc[s] = "admit" /\ wpc'[s] = "exec"
          /\ shutdown_called' = (shutdown_called \/ Op(s) = "shutdown")
      BY <2>7 DEF WorkerEnter, Goes
    <3>. QED  BY <2>1, <2>2, <2>4, <3>1, ZenonT(60) DEF LockInv, Critical, Shutter, Refused
  <2>8. CASE ShutdownSet(s)
    <3>1. /\ shutting_down_lock = NoSession /\ shutting_down_lock' = s
          /\ wpc[s] = "down" /\ wpc'[s] = "answer" /\ UNCHANGED shutdown_called
      BY <2>8 DEF ShutdownSet, Goes
    <3>. QED  BY <2>1, <2>2, <2>3, <3>1 DEF LockInv, Critical, Shutter, Refused
  <2>9. CASE ShutdownAnswer(s)
    <3>1. wpc[s] = "answer" /\ wpc'[s] = "exit" /\ UNCHANGED shutdown_called
      BY <2>9 DEF ShutdownAnswer, Goes
    <3>. QED  BY <2>1, <2>2, <2>4, <3>1 DEF LockInv, Critical, Shutter, Refused
  <2>. QED  BY <1>3, <2>5, <2>6, <2>7, <2>8, <2>9
<1>. QED  BY <1>1, <1>2, <1>3, LockQuietSteps, LockQuietKeeps DEF Next, Main, Worker

-----------------------------------------------------------------------------
(* The inductive invariant holds. *)

\* The empty system.
LEMMA InitServer == Init => ServerInv
<1>. SUFFICES ASSUME Init  PROVE ServerInv
  OBVIOUS
<1>. USE DEF Init
<1>k. /\ NoSession \notin Sessions /\ Sessions \subseteq Nat /\ MAX_CLIENTS \in Nat \ {0}
      /\ MaxMounts \in Nat
  BY ServerAssumption DEF ServerAssumption, Sessions, NoSession
<1>m. NoMsg \in Msgs
  BY Messages DEF NoMsg, NoSession
<1>e. /\ <<>> \in Seq(Msgs) /\ <<>> \in Seq(AnswerMsgs) /\ <<>> \in Seq(Bytes)
      /\ Len(<<>>) = 0 /\ DOMAIN <<>> = {}
  BY EmptySeq
<1>0. /\ server_pipe = <<>> /\ Len(server_pipe) = 0
      /\ \A c \in Clients : client_pipe[c] = <<>> /\ Len(client_pipe[c]) = 0
      /\ \A c \in Clients : cpc[c] = "out" /\ call[c] = NoMsg /\ held[c] = {}
      /\ \A s \in Sessions : /\ wpc[s] = "lock" /\ ~sessions[s].is_active
                             /\ sessions[s].tx = NoClient /\ ~session_lock[s]
  BY <1>e
<1>1. ServerTyped
  <2>1. next_session_id \in 1 .. MAX_CLIENTS + 1 /\ mounts \in 0 .. MaxMounts
    BY <1>k
  <2>2. server_pipe \in Seq(Msgs)
    BY <1>e
  <2>3. \A c \in Clients : \A k \in DOMAIN client_pipe[c] :
            client_pipe[c][k].op \in Ops \cup {"mount", "data"}
    BY <1>e, AnswerOps
  <2>. QED  BY <1>m, <2>1, <2>2, <2>3 DEF ServerTyped
<1>2. PipesTyped
  BY <1>e DEF PipesTyped
<1>3. FilesInv
  <2>1. /\ Fs!NoOpen \in Openings /\ Fs!NoOpen.stage = "none" /\ Fs!NoOpen.handle = -1
    BY DEF Fs!NoOpen, Fs!Opening, Fs!NoHandle, Openings
  <2>. QED  BY <1>e, <2>1 DEF Fs!Init, FilesInv, FilesTyped
<1>4. WorkersInv
  BY <1>0 DEF WorkersInv, Holding
<1>5. OwnersInv /\ CallsInv
  BY <1>0, <1>m DEF OwnersInv, CallsInv, Mounted
<1>6. PipesInv /\ QueueInv /\ PendingInv /\ StagesInv /\ NoneLost
  BY <1>0 DEF PipesInv, PipeInv, QueueInv, PendingInv, StagesInv, NoneLost, Pending
<1>7. MountsInv
  <2>1. Mounting = {}
    BY <1>0 DEF Mounting, Queued
  <2>. QED  BY <2>1, FS_EmptySet DEF MountsInv
<1>8. HandlesInv
  <2>1. \A c \in Clients : Owns(c) = {}
    BY <1>0 DEF Owns
  <2>. QED  BY <2>1 DEF HandlesInv
<1>9. LockInv
  BY <1>0 DEF LockInv, Shutter, Pending
<1>. QED  BY <1>1, <1>2, <1>3, <1>4, <1>5, <1>6, <1>7, <1>8, <1>9 DEF ServerInv

\* Every step keeps the invariant.
LEMMA ServerStep == ServerInv /\ [Next]_vars => ServerInv'
<1>. SUFFICES ASSUME ServerInv, [Next]_vars  PROVE ServerInv'
  OBVIOUS
<1>1. Types /\ WorkersInv /\ RequestsInv /\ LockInv
  BY DEF ServerInv, Types, RequestsInv
<1>2. Types' /\ WorkersInv' /\ RequestsInv' /\ LockInv'
  BY <1>1, TypesStep, WorkersStep, RequestsStep, LockStep
<1>. QED  BY <1>2 DEF ServerInv, Types, RequestsInv

\* The inductive invariant of the server and its clients.
THEOREM ServerInvariant == Spec => []ServerInv
<1>1. Init => ServerInv
  BY InitServer
<1>2. ServerInv /\ [Next]_vars => ServerInv'
  BY ServerStep
<1>. QED  BY <1>1, <1>2, PTL DEF Spec

\* Only the library's destroy changes active: no worker calls tfs_init.
LEMMA ActiveKept ==
    ASSUME [Next]_vars
    PROVE  active' \in {active, FALSE}
<1>1. ASSUME NEW s \in Sessions, Worker(s) \/ WorkerSpuriousWakeup(s)
      PROVE  active' \in {active, FALSE}
  <2>1. CASE CaseShutdown(s)
    BY <2>1 DEF CaseShutdown, Fs!Shut
  <2>2. CASE \/ CaseOpen(s) \/ CaseOpenFile(s) \/ CaseOpenDone(s)
             \/ CaseClose(s) \/ CaseWrite(s) \/ CaseRead(s)
    BY <2>2 DEF CaseOpen, CaseOpenFile, CaseOpenDone, CaseClose, CaseWrite, CaseRead, fsVars,
          Fs!Admit, Fs!OpenOld, Fs!OpenNew, Fs!OpenNone, Fs!HandOut, Fs!Close, Fs!Write, Fs!Read
  <2>3. CASE \/ WorkerLock(s) \/ WorkerTest(s) \/ RefuseShutdown(s) \/ WorkerEnter(s)
             \/ CaseMount(s) \/ CaseMountFails(s) \/ CaseUnmount(s) \/ CaseUnmountUnlink(s)
             \/ CaseReadData(s) \/ ShutdownSet(s) \/ ShutdownAnswer(s) \/ ShutdownExit(s)
             \/ WorkerFinish(s) \/ WorkerSpuriousWakeup(s)
    BY <2>3 DEF WorkerLock, WorkerTest, RefuseShutdown, WorkerEnter, CaseMount,
          CaseMountFails, CaseUnmount, CaseUnmountUnlink, CaseReadData, ShutdownSet,
          ShutdownAnswer, ShutdownExit, WorkerFinish, WorkerSpuriousWakeup, fsVars
  <2>. QED  BY <1>1, <2>1, <2>2, <2>3 DEF Worker
<1>2. CASE Main
  BY <1>2 DEF Main, DispatchMount, RefuseMount, Dispatch, CheckShutdown, Eof, ClosePipe,
              Reopen, Reopened, Continue, UnlockUnheld, fsVars
<1>3. ASSUME NEW c \in Clients,
             \/ MountOpen(c) \/ InCall(c)
             \/ \E op \in Ops, fh \in Handles \cup {-1} : Request(c, op, fh)
      PROVE  active' = active
  BY <1>3 DEF MountOpen, InCall, MountWrite, Answered, ReadData, Request, fsVars
<1>4. CASE UNCHANGED vars
  BY <1>4 DEF vars, fsVars
<1>. QED  BY <1>1, <1>2, <1>3, <1>4 DEF Next

\* Type correctness: every variable of the server, its clients and the library
\* keeps to its type; no index of sessions[] is out of its range.
THEOREM ServerTypes == Spec => []TypeOK
<1>1. ServerInv => ServerTyped /\ FilesTyped
  BY DEF ServerInv, FilesInv
<1>. DEFINE ActiveTyped == active \in BOOLEAN
<1>2. Init => ActiveTyped
  BY DEF Init, Fs!Init
<1>3. ActiveTyped /\ [Next]_vars => ActiveTyped'
  BY ActiveKept
<1>4. ServerTyped /\ FilesTyped /\ ActiveTyped => TypeOK
  BY DEF TypeOK
<1>. HIDE DEF ActiveTyped
<1>. QED  BY <1>1, <1>2, <1>3, <1>4, ServerInvariant, PTL DEF Spec

-----------------------------------------------------------------------------
(* What follows from it. *)

\* Where a request is, from the parts of the invariant.
LEMMA OnePlace == ServerInv => RequestInOnePlace
<1>. SUFFICES ASSUME ServerInv, NEW c \in Clients
              PROVE  LET places == Cardinality(Unread(c)) + Cardinality(Unanswered(c))
                                     + Cardinality(Answers(c))
                     IN  IF cpc[c] = "asked"
                         THEN places = 1 \/ (places = 0 /\ Refused /\ call[c].op = "mount")
                         ELSE places = 0
  BY DEF RequestInOnePlace
<1>. USE DEF ServerInv
<1>. DEFINE p == client_pipe[c]
<1>p. /\ p \in Seq(AnswerMsgs) /\ Len(p) \in Nat /\ DOMAIN p = 1 .. Len(p)
      /\ Len(server_pipe) \in Nat /\ DOMAIN server_pipe = 1 .. Len(server_pipe)
  BY LenProperties DEF PipesTyped, ServerTyped
<1>e. Cardinality({}) = 0 /\ \A x : Cardinality({x}) = 1
  BY FS_EmptySet, FS_Singleton
<1>q. /\ ~Queued(c) => Unread(c) = {}
      /\ Queued(c) => \E k : Unread(c) = {k}
  <2>1. ~Queued(c) => Unread(c) = {}
    BY <1>p DEF Queued, Unread
  <2>2. ASSUME NEW k \in 1 .. Len(server_pipe), server_pipe[k].client = c
        PROVE  Unread(c) = {k}
    BY <1>p, <2>2 DEF Unread, QueueInv
  <2>. QED  BY <2>1, <2>2 DEF Queued
<1>w. /\ (\A s \in Sessions : Pending(s) => sessions[s].buffer.client # c) => Unanswered(c) = {}
      /\ \A s \in Sessions : Pending(s) /\ sessions[s].buffer.client = c => Unanswered(c) = {s}
  BY DEF Unanswered, Pending, PendingInv
<1>i. PipeInv(c)
  BY DEF PipesInv
<1>n. PICK n \in Nat : n = Len(p) /\ DOMAIN p = 1 .. n
  BY <1>p
<1>d. 1 .. 0 = {} /\ 1 .. 1 = {1} /\ 1 .. 2 = {1, 2}
  OBVIOUS
<1>1. CASE cpc[c] = "asked" /\ Len(p) = 0
  <2>1. Answers(c) = {}
    BY <1>p, <1>1 DEF Answers
  <2>2. CASE Queued(c)
    <3>1. Unanswered(c) = {}
      BY <1>w, <2>2 DEF PendingInv
    <3>2. PICK k : Unread(c) = {k}
      BY <1>q, <2>2
    <3>3. /\ Cardinality(Unread(c)) = 1 /\ Cardinality(Unanswered(c)) = 0
          /\ Cardinality(Answers(c)) = 0
      BY <1>e, <2>1, <3>1, <3>2, Zenon
    <3>. QED  BY <1>1, <3>3
  <2>3. CASE ~Queued(c) /\ \E s \in Sessions : Pending(s) /\ sessions[s].buffer.client = c
    <3>1. PICK s \in Sessions : Unanswered(c) = {s}
      BY <1>w, <2>3
    <3>2. Unread(c) = {}
      BY <1>q, <2>3
    <3>3. /\ Cardinality(Unread(c)) = 0 /\ Cardinality(Unanswered(c)) = 1
          /\ Cardinality(Answers(c)) = 0
      BY <1>e, <2>1, <3>1, <3>2, Zenon
    <3>. QED  BY <1>1, <3>3
  <2>4. CASE ~Queued(c) /\ \A s \in Sessions : Pending(s) => sessions[s].buffer.client # c
    <3>1. Refused /\ call[c].op = "mount"
      BY <1>1, <2>4 DEF NoneLost, Somewhere
    <3>2. Unread(c) = {} /\ Unanswered(c) = {}
      BY <1>q, <1>w, <2>4
    <3>. QED  BY <1>e, <1>1, <2>1, <3>1, <3>2
  <2>. QED  BY <2>2, <2>3, <2>4
<1>2. CASE ~(cpc[c] = "asked" /\ Len(p) = 0)
  <2>1. ~Queued(c)
    BY <1>2 DEF Queued, QueueInv
  <2>2. \A s \in Sessions : Pending(s) => sessions[s].buffer.client # c
    BY <1>2 DEF PendingInv
  <2>3. Unread(c) = {} /\ Unanswered(c) = {}
    BY <1>q, <1>w, <2>1, <2>2
  <2>4. CASE cpc[c] = "asked"
    <3>1. /\ n <= 2 /\ n >= 1 /\ p[1].op = call[c].op
          /\ n = 2 => p[2].op = "data"
      <4>1. n >= 1
        BY <1>n, <1>2, <2>4
      <4>. QED  BY <1>i, <1>n, <2>4, <4>1, Zenon DEF PipeInv
    <3>2. p[1].op # "data"
      BY <2>4, <3>1, ServerAssumption DEF CallsInv, ServerAssumption
    <3>3. DOMAIN p = {1} \/ (DOMAIN p = {1, 2} /\ p[2].op = "data")
      <4>1. n = 1 \/ n = 2
        BY <3>1
      <4>. QED  BY <1>d, <1>n, <3>1, <4>1, Zenon
    <3>4. Answers(c) = {1}
      BY <3>2, <3>3 DEF Answers
    <3>5. /\ Cardinality(Unread(c)) = 0 /\ Cardinality(Unanswered(c)) = 0
          /\ Cardinality(Answers(c)) = 1
      BY <1>e, <2>3, <3>4, Zenon
    <3>. QED  BY <2>4, <3>5
  <2>5. CASE cpc[c] # "asked"
    <3>1. n = 0 \/ (n <= 1 /\ (n = 1 => p[1].op = "data"))
      BY <1>i, <1>n, <2>5, Zenon DEF PipeInv
    <3>2. DOMAIN p = {} \/ (DOMAIN p = {1} /\ p[1].op = "data")
      <4>1. n = 0 \/ n = 1
        BY <3>1
      <4>. QED  BY <1>d, <1>n, <3>1, <4>1, Zenon
    <3>3. Answers(c) = {}
      BY <3>2 DEF Answers
    <3>4. /\ Cardinality(Unread(c)) = 0 /\ Cardinality(Unanswered(c)) = 0
          /\ Cardinality(Answers(c)) = 0
      BY <1>e, <2>3, <3>3, Zenon
    <3>. QED  BY <2>5, <3>4
  <2>. QED  BY <2>4, <2>5
<1>. QED  BY <1>1, <1>2

\* No request is lost, executed twice or answered twice.
THEOREM RequestsOnce == Spec => []RequestInOnePlace
  BY ServerInvariant, OnePlace, PTL

\* What a client reads next answers the call it is in.
THEOREM AnswersMatch == Spec => []AnswersMatchCalls
<1>1. ASSUME ServerInv  PROVE AnswersMatchCalls
  <2>. SUFFICES ASSUME NEW c \in Clients, client_pipe[c] # <<>>
                PROVE  \/ cpc[c] = "asked" /\ Head(client_pipe[c]).op = call[c].op
                       \/ cpc[c] = "data" /\ Head(client_pipe[c]).op = "data"
    BY DEF AnswersMatchCalls
  <2>1. client_pipe[c] \in Seq(AnswerMsgs)
    BY <1>1 DEF ServerInv, PipesTyped
  <2>2. /\ Head(client_pipe[c]) = client_pipe[c][1] /\ Len(client_pipe[c]) \in Nat
        /\ Len(client_pipe[c]) > 0
    BY <2>1, HeadTailProperties, LenProperties, EmptySeq
  <2>3. PipeInv(c)
    BY <1>1 DEF ServerInv, PipesInv
  <2>4. Len(client_pipe[c]) # 0 /\ Len(client_pipe[c]) >= 1
    BY <2>2
  <2>5. CASE cpc[c] = "asked"
    BY <2>2, <2>3, <2>4, <2>5, Zenon DEF PipeInv
  <2>6. CASE cpc[c] = "data"
    <3>0. PICK n \in Nat : n = Len(client_pipe[c])
      BY <2>2
    <3>1. n <= 1 /\ n # 0
      BY <2>3, <2>4, <2>6, <3>0, Zenon DEF PipeInv
    <3>2. Len(client_pipe[c]) = 1
      <4>1. n = 1
        BY <3>1
      <4>. QED  BY <3>0, <4>1, Zenon
    <3>. QED  BY <2>2, <2>3, <2>6, <3>2, Zenon DEF PipeInv
  <2>. QED  BY <2>3, <2>4, <2>5, <2>6, Zenon DEF PipeInv
<1>. QED  BY <1>1, ServerInvariant, PTL

\* Sessions and handles are nobody else's.
THEOREM SessionsStayApart == Spec => []SessionsApart
<1>1. ASSUME ServerInv  PROVE SessionsApart
  <2>1. ASSUME NEW c \in Clients, Mounted(c)
        PROVE  csid[c] \in Sessions /\ sessions[csid[c]].tx = c
    BY <1>1, <2>1 DEF ServerInv, CallsInv
  <2>2. ASSUME NEW c \in Clients  PROVE Keeps(c) \subseteq Owns(c)
    BY DEF Keeps, Owns, HeldAfter
  <2>3. ASSUME NEW c \in Clients, NEW h \in Keeps(c)  PROVE Fs!Open(h)
    BY <1>1, <2>2, <2>3 DEF ServerInv, HandlesInv
  <2>4. ASSUME NEW c \in Clients, NEW d \in Clients \ {c}  PROVE Keeps(d) \cap Keeps(c) = {}
    <3>1. Owns(d) \cap Owns(c) = {}
      BY <1>1 DEF ServerInv, HandlesInv
    <3>. QED  BY <2>2, <3>1
  <2>. QED  BY <2>1, <2>3, <2>4 DEF SessionsApart
<1>. QED  BY <1>1, ServerInvariant, PTL

\* Until a mount is refused, one worker at a time executes a shutdown.
THEOREM ShutdownOnce == Spec => [](Refused \/ OneShutdown)
<1>1. ASSUME ServerInv, ~Refused  PROVE OneShutdown
  <2>. DEFINE S == {s \in Sessions : Shutter(s)}
  <2>1. \A s, t \in S : s = t
    BY <1>1 DEF ServerInv, LockInv
  <2>2. S = {} \/ \E s : S = {s}
    BY <2>1
  <2>3. Cardinality(S) <= 1
    <3>1. Cardinality(S) = 0 \/ Cardinality(S) = 1
      BY <2>2, FS_EmptySet, FS_Singleton, Zenon
    <3>. QED  BY <3>1
  <2>. QED  BY <2>3 DEF OneShutdown, Shutter
<1>2. ServerInv => Refused \/ OneShutdown
  BY <1>1
<1>. QED  BY <1>2, ServerInvariant, PTL

\* As long as the clients make fewer mounts than the server has sessions, no
\* mount is refused, and one worker at a time executes a shutdown.
THEOREM ShutdownOnceWithSpare == MaxMounts < MAX_CLIENTS => (Spec => []OneShutdown)
<1>. SUFFICES ASSUME MaxMounts < MAX_CLIENTS  PROVE Spec => []OneShutdown
  OBVIOUS
<1>1. ServerInv => ~Refused
  <2>. SUFFICES ASSUME ServerInv  PROVE ~Refused
    OBVIOUS
  <2>1. Cardinality(Mounting) \in Nat
    BY FS_CardinalityType DEF ServerInv, MountsInv
  <2>2. /\ next_session_id + Cardinality(Mounting) <= mounts + 1
        /\ mounts \in Nat /\ mounts <= MaxMounts /\ next_session_id \in Nat
        /\ MAX_CLIENTS \in Nat /\ MaxMounts \in Nat
    BY ServerAssumption DEF ServerInv, MountsInv, ServerTyped, ServerAssumption
  <2>. QED  BY <2>1, <2>2 DEF Refused
<1>. QED  BY <1>1, ServerInvariant, ShutdownOnce, PTL

-----------------------------------------------------------------------------
(* The end of the server. *)

\* The step that ends the server leaves no shutdown about to be answered, and
\* no step after it changes what the workers did.
LEMMA ShutdownStep ==
    ASSUME ServerInv, ShutdownAnswered, [Next]_vars
    PROVE  ShutdownAnswered'
<1>. /\ WorkersInv /\ LockInv
     /\ wpc \in [Sessions -> {"lock", "wait", "enter", "refuse", "admit", "exec",
            "open", "data", "closing", "down", "answer", "exit", "finish", "ended"}]
     /\ NoSession \notin Sessions
  BY DEF ServerInv, ServerTyped, Sessions, NoSession
<1>s. UNCHANGED <<next_session_id, workVars, fifo>> =>
          /\ MountFailed' <=> MountFailed
          /\ Refused' <=> Refused
          /\ \A s \in Sessions : wpc'[s] = wpc[s]
  BY DEF MountFailed, Refused, Op, workVars
<1>p. ASSUME NEW s \in Sessions, wpc[s] = "answer"  PROVE Pending(s) /\ Shutter(s)
  BY <1>p DEF WorkersInv, Holding, Pending, Shutter
<1>1. CASE CheckShutdown \/ Reopened
  <2>1. /\ UNCHANGED <<next_session_id, workVars, fifo>> /\ shutting_down_lock = NoSession
    BY <1>1 DEF CheckShutdown, Reopened, pipeVars
  <2>2. Refused \/ \A s \in Sessions : wpc[s] # "answer"
    BY <2>1 DEF LockInv
  <2>. QED  BY <1>s, <2>1, <2>2 DEF ShutdownAnswered
<1>2. CASE Continue
  <2>1. /\ UNCHANGED <<next_session_id, workVars, fifo>> /\ rpc = "continue"
    BY <1>2 DEF Continue, pipeVars
  <2>2. Refused \/ \A s \in Sessions : wpc[s] # "answer"
    BY <1>p, <2>1 DEF LockInv
  <2>. QED  BY <1>s, <2>1, <2>2 DEF ShutdownAnswered
<1>3. ASSUME NEW s \in Sessions, CaseMountFails(s)  PROVE ShutdownAnswered'
  <2>1. /\ UNCHANGED <<next_session_id, workVars, fifo>> /\ MountFailed
    BY <1>3 DEF CaseMountFails, pipeVars, MountFailed
  <2>. QED  BY <1>s, <2>1 DEF ShutdownAnswered
<1>4. ASSUME NEW s \in Sessions, ShutdownExit(s)  PROVE ShutdownAnswered'
  <2>1. /\ UNCHANGED <<next_session_id, workVars, fifo>> /\ wpc[s] = "exit"
    BY <1>4 DEF ShutdownExit, pipeVars
  <2>2. Shutter(s)
    BY <2>1 DEF WorkersInv, Shutter
  <2>3. Refused \/ \A t \in Sessions : wpc[t] # "answer"
    BY <1>p, <2>1, <2>2 DEF LockInv
  <2>. QED  BY <1>s, <2>1, <2>3 DEF ShutdownAnswered
<1>5. ASSUME NEW c \in Clients,
             \/ MountOpen(c) \/ InCall(c)
             \/ \E op \in Ops, fh \in Handles \cup {-1} : Request(c, op, fh)
      PROVE  ShutdownAnswered'
  <2>1. CASE MountOpen(c)
    BY <2>1 DEF MountOpen, ShutdownAnswered, downVars
  <2>2. UNCHANGED <<up, next_session_id, workVars>> /\ (MountOpen(c) \/ UNCHANGED fifo)
    BY <1>5 DEF MountOpen, InCall, MountWrite, Answered, ReadData, Request, mainVars, downVars
  <2>. QED  BY <1>s, <2>1, <2>2 DEF ShutdownAnswered
<1>6. CASE UNCHANGED vars
  BY <1>6, <1>s DEF vars, ShutdownAnswered, mainVars, pipeVars, downVars
<1>7. CASE up /\ up'
  BY <1>7 DEF ShutdownAnswered
<1>8. CASE Main
  BY <1>1, <1>2, <1>7, <1>8 DEF Main, DispatchMount, RefuseMount, Dispatch, Eof, ClosePipe,
      Reopen, UnlockUnheld, downVars
<1>9. ASSUME NEW s \in Sessions, Worker(s) \/ WorkerSpuriousWakeup(s)  PROVE ShutdownAnswered'
  <2>1. up
    BY <1>9 DEF Worker, WorkerSpuriousWakeup, WorkerLock, WorkerTest, RefuseShutdown,
        WorkerEnter, CaseMount, CaseMountFails, CaseUnmount, CaseUnmountUnlink, CaseOpen,
        CaseOpenFile, CaseOpenDone, CaseClose, CaseWrite, CaseRead, CaseReadData,
        CaseShutdown, ShutdownSet, ShutdownAnswer, ShutdownExit, WorkerFinish
  <2>2. CaseMountFails(s) \/ ShutdownExit(s) \/ UNCHANGED up
    BY <1>9 DEF Worker, WorkerSpuriousWakeup, WorkerLock, WorkerTest, RefuseShutdown,
        WorkerEnter, CaseMount, CaseUnmount, CaseUnmountUnlink, CaseOpen, OpenOver,
        CaseOpenFile, CaseOpenDone, CaseClose, CaseWrite, CaseRead, CaseReadData,
        CaseShutdown, ShutdownSet, ShutdownAnswer, WorkerFinish, downVars
  <2>. QED  BY <1>3, <1>4, <1>7, <2>1, <2>2
<1>. QED  BY <1>5, <1>6, <1>8, <1>9 DEF Next

\* However the server ends after a shutdown, its client has been answered, as
\* long as the receptor keeps to shutting_down_lock.
THEOREM ShutdownIsAnswered == Spec => []ShutdownAnswered
<1>1. Init => ShutdownAnswered
  BY DEF Init, ShutdownAnswered
<1>2. ServerInv /\ ShutdownAnswered /\ [Next]_vars => ShutdownAnswered'
  BY ShutdownStep
<1>. QED  BY <1>1, <1>2, ServerInvariant, PTL DEF Spec
=============================================================================
