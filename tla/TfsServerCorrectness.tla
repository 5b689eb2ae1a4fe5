------------------------ MODULE TfsServerCorrectness ------------------------
(***************************************************************************)
(* What makes the server of TfsServer correct for its clients.             *)
(***************************************************************************)
EXTENDS TfsServer

Msgs == [op : Ops \cup {"none", "mount"}, client : Clients \cup {NoClient},
         sid : Sessions \cup {NoSession}, fh : Handles \cup {-1}]

\* The variables of the server and its clients.
ServerTyped ==
    /\ server_pipe \in Seq(Msgs)
    /\ \A c \in Clients : \A k \in DOMAIN client_pipe[c] :
          client_pipe[c][k].op \in Ops \cup {"mount", "data"}
    /\ fifo \in [Clients -> BOOLEAN]
    /\ cpc \in [Clients -> {"out", "opened", "asked", "data", "idle", "gone", "killed"}]
    /\ call \in [Clients -> Msgs]
    /\ csid \in [Clients -> Sessions \cup {NoSession}]
    /\ held \in [Clients -> SUBSET Handles]
    /\ mounts \in 0 .. MaxMounts
    /\ rpc \in {"read", "check", "eof", "reopen", "reopened", "continue", "unlock"}
    /\ rx_open \in BOOLEAN /\ up \in BOOLEAN
    /\ next_session_id \in 1 .. MAX_CLIENTS + 1
    /\ sessions \in [Sessions -> [is_active : BOOLEAN, buffer : Msgs,
                                  tx : Clients \cup {NoClient}]]
    /\ session_lock \in [Sessions -> BOOLEAN]
    /\ wpc \in [Sessions -> {"lock", "wait", "enter", "refuse", "admit", "exec", "open",
                             "data", "closing", "down", "answer", "exit", "finish", "ended"}]
    /\ shutting_down \in BOOLEAN /\ shutdown_called \in BOOLEAN
    /\ shutting_down_lock \in Sessions \cup {NoSession}

Positions == [file : Files, offset : Nat]
Openings == [stage : {"none", "asked", "found"}, name : Names \cup {NoName},
             flags : FlagSets \cup {{}}, at : Positions \cup {Fs!Closed},
             handle : Handles \cup {-1}]

\* The files, positions and opens of the library that the workers call.
FilesTyped ==
    /\ position \in [Handles -> Positions \cup {Fs!Closed}]
    /\ contents \in [Files -> Seq(Bytes)]
    /\ namespace \in [Names -> Files \cup {Fs!NoFile}]
    /\ opening \in [Sessions -> Openings]

\* Type invariant, of the server, its clients and the library under them.
TypeOK == ServerTyped /\ FilesTyped /\ active \in BOOLEAN

-----------------------------------------------------------------------------
Mounted(c) == cpc[c] \in {"idle", "asked", "data"} /\ call[c].op # "mount"

\* Where the request of client c is: in the server's pipe, with a worker that
\* has not answered it yet, or answered in the client's pipe.
Unread(c) == {k \in DOMAIN server_pipe : server_pipe[k].client = c}
Unanswered(c) == {s \in Sessions :
    /\ sessions[s].is_active /\ sessions[s].buffer.client = c
    /\ wpc[s] \notin {"finish", "closing", "data", "exit", "ended"}}
Answers(c) == {k \in DOMAIN client_pipe[c] : client_pipe[c][k].op # "data"}

\* A mount has been refused: its client is told nothing, and the receptor has
\* tested shutting_down and unlocked shutting_down_lock without holding it.
Refused == next_session_id > MAX_CLIENTS

\* A request is never lost, executed twice or answered twice: while the client
\* waits it is in exactly one place, and otherwise nowhere.  The receptor may
\* fill the buffer before the worker has finished with the previous request.
\* Only a refused mount is nowhere.
RequestInOnePlace ==
    up => \A c \in Clients :
        LET places == Cardinality(Unread(c)) + Cardinality(Unanswered(c))
                          + Cardinality(Answers(c))
        IN  IF cpc[c] = "asked"
            THEN places = 1 \/ (places = 0 /\ Refused /\ call[c].op = "mount")
            ELSE places = 0

\* What a client reads next answers the call it is in, byte for byte: an
\* ssize_t is never read where an int was written, nor data as an answer.
AnswersMatchCalls ==
    \A c \in Clients : client_pipe[c] # <<>> =>
        \/ cpc[c] = "asked" /\ Head(client_pipe[c]).op = call[c].op
        \/ cpc[c] = "data" /\ Head(client_pipe[c]).op = "data"

\* The handles of client c that it is not closing.
Keeps(c) == held[c] \ IF call[c].op = "close" THEN {call[c].fh} ELSE {}

\* Mounted clients have sessions of their own, whose answers go to them, and
\* the handles a client was given are open and nobody else's.
SessionsApart ==
    \A c \in Clients : Mounted(c) =>
        /\ sessions[csid[c]].tx = c
        /\ \A h \in Keeps(c) : Fs!Open(h)
        /\ \A d \in Clients \ {c} : Mounted(d) =>
              csid[d] # csid[c] /\ Keeps(d) \cap Keeps(c) = {}

\* case_mount ends the server when the client's pipe is gone.
MountFailed == \E s \in Sessions :
    wpc[s] = "exec" /\ Op(s) = "mount" /\ ~fifo[sessions[s].buffer.client]

\* However the server ends after a shutdown (ShutdownExit, or main leaving its
\* loop first), the client that asked for it has been answered, as long as the
\* receptor keeps to the lock.
ShutdownAnswered ==
    ~up => MountFailed \/ Refused \/ \A s \in Sessions : wpc[s] # "answer"

\* Every call returns, or the server ends; a shutdown that waits for files to
\* be closed holds up nobody else.
CallsReturn ==
    \A c \in Clients :
        cpc[c] \in {"asked", "data"} /\ call[c].op # "shutdown"
            ~> cpc[c] \notin {"asked", "data"} \/ ~up

\* A shutdown is answered once all files are closed for good, unless another
\* one that came first ends the server before this one is read.
ShutdownReturns ==
    <>[](\A h \in Handles : ~Fs!Open(h)) =>
        \A c \in Clients :
            cpc[c] = "asked" /\ call[c].op = "shutdown" ~> cpc[c] # "asked" \/ ~up

\* Only one worker ever executes a shutdown; a second one is refused.
OneShutdown ==
    Cardinality({s \in Sessions :
        wpc[s] \in {"exec", "down", "answer", "exit"} /\ Op(s) = "shutdown"}) <= 1
=============================================================================
