------------------------------- MODULE Legacy -------------------------------
(***************************************************************************)
(* The earlier protocol as a whole: LegacyServer.tla, the interactive      *)
(* client cli.c, and git_push_server of real_project_repo/ProxyServer.c,   *)
(* which pushes the changed files one by one.                              *)
(*                                                                         *)
(* A connection <<c, k>> is the k-th of client c.  cli.c holds one from    *)
(* its start and replaces it for every command; its user types commands,   *)
(* edits the file and may kill it at any time.                             *)
(***************************************************************************)
EXTENDS LegacyServer

CONSTANTS
  Clis, Proxies,
  Main,        \* the branch the proxies push to
  Contents,    \* what a user writes into the file
  LocalHeads,  \* what earlier runs of a cli left in its .git/refs/heads
  MaxConns     \* MaxConns[c]: connections client c makes

Clients == Clis \cup Proxies

ASSUME ClientAssumption ==
  /\ MaxConns \in [Clients -> Nat]
  /\ Clis \cap Proxies = {} /\ Main \in Branches
  /\ Conns = UNION {{c} \X (1..MaxConns[c]) : c \in Clients}
  /\ Contents \subseteq Seq(Segments) /\ LocalHeads \subseteq Contents \cup {Absent, Empty}

VARIABLES
  at,      \* at[c]: where client c is; "off", "prompt" and "next" are at rest
  cur,     \* cur[c]: connections it has made
  file,    \* file[c]: the file of its commands
  off,     \* off[c]: segments of it that were read
  push,    \* push[c]: the branch and local_head of the last push
  local    \* local[c][b]: .git/refs/heads/b of a cli

client == <<at, cur, file, off, push, local>>
vars   == <<server, client>>

C(c) == <<c, cur[c]>>

\* The locals of handle_push when it does not run.
NoPush == [branch |-> Main, head |-> NoHash]

Init ==
  /\ ServerInit
  /\ at = [c \in Clients |-> IF c \in Clis THEN "off" ELSE "next"]
  /\ cur = [c \in Clients |-> 0] /\ off = [c \in Clients |-> 0]
  /\ file = [c \in Clients |-> <<>>]
  /\ push = [c \in Clients |-> NoPush]
  /\ local \in [Clis -> [Branches -> LocalHeads]]

-----------------------------------------------------------------------------
(* Connections.                                                            *)

\* close of the connection there is, then connect and send.
Reconnect(c, line, f) ==
  /\ boot = "up" /\ cur[c] < MaxConns[c]
  /\ cur' = [cur EXCEPT ![c] = @ + 1]
  /\ conn' = [x \in Conns |-> IF x = <<c, cur[c] + 1>> THEN Opened(line, f)
                ELSE IF x = C(c) THEN Forget([conn[x] EXCEPT !.eof = TRUE]) ELSE conn[x]]
  /\ enqueue_client(<<c, cur[c] + 1>>)
  /\ UNCHANGED <<disk, boot, thread, history>>

HangUp(c) ==
  conn' = [x \in Conns |-> IF x = C(c) THEN Forget([conn[x] EXCEPT !.eof = TRUE]) ELSE conn[x]]

\* Nobody listens: the command is given up, with the old connection closed.
Refused(c) ==
  /\ boot # "up" /\ HangUp(c)
  /\ UNCHANGED <<disk, process, thread, history>>

\* connect, where the client does not start without a server.
StartCli(c) ==
  /\ at[c] = "off" /\ Reconnect(c, NoLine, <<>>)
  /\ at' = [at EXCEPT ![c] = "prompt"]
  /\ UNCHANGED <<file, off, push, local>>

Exit(c) ==
  /\ at[c] = "prompt" /\ HangUp(c)
  /\ at' = [at EXCEPT ![c] = "off"]
  /\ UNCHANGED <<disk, process, thread, history, cur, file, off, push, local>>

Kill(c) ==
  /\ at[c] # "off" /\ Fault("kill") /\ HangUp(c)
  /\ at' = [at EXCEPT ![c] = "off"]
  /\ UNCHANGED <<disk, process, thread, starved, cur, file, off, push, local>>

\* Somebody writes the file while it is read.
Edit(c) ==
  /\ at[c] = "sending" /\ Fault("edit")
  /\ \E f \in Contents \ {file[c]} : file' = [file EXCEPT ![c] = f]
  /\ UNCHANGED <<disk, process, thread, conn, starved, at, cur, off, push, local>>

Command(kind, b, size, newline) ==
  [kind |-> kind, branch |-> b, size |-> size, newline |-> newline]

-----------------------------------------------------------------------------
(* Push.                                                                   *)

\* cli.c: an empty head file ends the command; a missing one stands for the hash
\* of the file.  The user may have written the file before.
PushFile(c, b) ==
  /\ at[c] = "prompt" /\ local[c][b] # Empty
  /\ \E f \in Contents \cup {file[c]} : file' = [file EXCEPT ![c] = f]
  /\ push' = [push EXCEPT ![c] = [branch |-> b,
       head |-> IF local[c][b] = Absent THEN file'[c] ELSE local[c][b]]]
  /\ off' = [off EXCEPT ![c] = 0]
  /\ \/ /\ Reconnect(c, Command("PUSH", b, Len(file'[c]), FALSE), file'[c])
        /\ at' = [at EXCEPT ![c] = "sending"]
     \/ Refused(c) /\ UNCHANGED <<at, cur>>
  /\ UNCHANGED <<local>>

\* git_push_server: fstat, setup and the line for the next file of the status
\* list.  The first send on a socket setup could not connect ends the proxy.
PushNext(p) ==
  /\ at[p] = "next"
  /\ \E f \in Contents : file' = [file EXCEPT ![p] = f]
  /\ off' = [off EXCEPT ![p] = 0]
  /\ \/ /\ Reconnect(p, Command("PUSH", Main, Len(file'[p]), TRUE), file'[p])
        /\ at' = [at EXCEPT ![p] = "sending"]
     \/ Refused(p) /\ at' = [at EXCEPT ![p] = "off"] /\ UNCHANGED cur
  /\ UNCHANGED <<push, local>>

\* The cli sends what the file holds now, the proxy at most what fstat said.
NothingLeft(c) ==
  off[c] >= Len(file[c]) \/ (c \in Proxies /\ off[c] >= Len(conn[C(c)].want))

\* send or sendfile of a segment, after which it waits for the answer.  When the
\* server has closed its end the segment is lost, or the call fails, or the
\* client is ended by SIGPIPE.
SendData(c) ==
  LET next == file[c][off[c] + 1]
  IN  /\ at[c] = "sending"
      /\ \/ /\ NothingLeft(c)
            /\ at' = [at EXCEPT ![c] = "recv"] /\ off' = [off EXCEPT ![c] = 0]
            /\ UNCHANGED <<conn, push>>
         \/ /\ ~NothingLeft(c)
            /\ off' = [off EXCEPT ![c] = @ + 1]
            /\ conn' = IF conn[C(c)].st = "open"
                       THEN [conn EXCEPT ![C(c)].data = Append(@, next),
                                         ![C(c)].sent = Append(@, next)]
                       ELSE conn
            /\ UNCHANGED <<at, push>>
         \/ /\ ~NothingLeft(c) /\ conn[C(c)].st = "closed"
            /\ \/ /\ at' = [at EXCEPT ![c] = IF c \in Clis THEN "prompt" ELSE "recv"]
                  /\ UNCHANGED conn
               \/ at' = [at EXCEPT ![c] = "off"] /\ HangUp(c)
            /\ off' = [off EXCEPT ![c] = 0] /\ push' = [push EXCEPT ![c] = NoPush]
      /\ UNCHANGED <<disk, process, thread, history, cur, file, local>>

\* The proxy takes any answer, or none, and closes.
ReceiveAnswer(c) ==
  LET x == C(c)
  IN  /\ at[c] = "recv"
      /\ conn[x].answer # <<>> \/ conn[x].st = "closed"
      /\ IF c \in Proxies
         THEN /\ at' = [at EXCEPT ![c] = "next"] /\ HangUp(c)
              /\ file' = [file EXCEPT ![c] = <<>>] /\ UNCHANGED push
         ELSE /\ IF conn[x].answer # <<>>
                 THEN at' = [at EXCEPT ![c] = "head"] /\ UNCHANGED push
                 ELSE at' = [at EXCEPT ![c] = "prompt"] /\ push' = [push EXCEPT ![c] = NoPush]
              /\ UNCHANGED <<file, conn>>
      /\ UNCHANGED <<disk, process, thread, history, cur, off, local>>

\* write_branch_head, after any answer that is not about a merge conflict: the
\* server has none.  fopen truncates the file, or fails when there is no
\* .git/refs/heads.
OpenLocal(c) ==
  /\ at[c] = "head"
  /\ \/ /\ at' = [at EXCEPT ![c] = "name"]
        /\ local' = [local EXCEPT ![c][push[c].branch] = Empty]
        /\ UNCHANGED push
     \/ /\ at' = [at EXCEPT ![c] = "prompt"]
        /\ push' = [push EXCEPT ![c] = NoPush]
        /\ UNCHANGED local
  /\ UNCHANGED <<server, cur, file, off>>

WriteLocal(c) ==
  /\ at[c] = "name" /\ at' = [at EXCEPT ![c] = "prompt"]
  /\ local' = [local EXCEPT ![c][push[c].branch] = push[c].head]
  /\ push' = [push EXCEPT ![c] = NoPush]
  /\ UNCHANGED <<server, cur, file, off>>

-----------------------------------------------------------------------------
(* Pull and history.                                                       *)

\* send_command; the file is opened, and emptied, once the command was sent.
Ask(c, b, kind) ==
  /\ at[c] = "prompt" /\ UNCHANGED file
  /\ \/ /\ Reconnect(c, Command(kind, b, 0, FALSE), <<>>)
        /\ at' = [at EXCEPT ![c] = kind]
     \/ Refused(c) /\ UNCHANGED <<at, cur>>
  /\ UNCHANGED <<off, push, local>>

OpenFile(c) ==
  /\ at[c] = "PULL" /\ at' = [at EXCEPT ![c] = "pulling"]
  /\ file' = [file EXCEPT ![c] = <<>>]
  /\ UNCHANGED <<server, cur, off, push, local>>

\* Whatever arrives is the file, an error message too, and the end of the
\* connection is the end of the file.
ReceiveFile(c) ==
  LET answer == conn[C(c)].answer
  IN  /\ at[c] = "pulling"
      /\ \/ /\ answer # <<>>
            /\ file' = [file EXCEPT ![c] = Append(@, Head(answer))]
            /\ conn' = [conn EXCEPT ![C(c)].answer = Tail(answer)]
            /\ UNCHANGED at
         \/ /\ answer = <<>> /\ conn[C(c)].st = "closed"
            /\ at' = [at EXCEPT ![c] = "prompt"]
            /\ UNCHANGED <<file, conn>>
      /\ UNCHANGED <<disk, process, thread, history, cur, off, push, local>>

ReceiveHistory(c) ==
  /\ at[c] = "HISTORY"
  /\ conn[C(c)].answer # <<>> \/ conn[C(c)].st = "closed"
  /\ at' = [at EXCEPT ![c] = "prompt"]
  /\ UNCHANGED <<server, cur, file, off, push, local>>

-----------------------------------------------------------------------------
Client(c) ==
  SendData(c) \/ ReceiveAnswer(c) \/ OpenLocal(c) \/ WriteLocal(c)
  \/ OpenFile(c) \/ ReceiveFile(c) \/ ReceiveHistory(c)

User(c) ==
  \/ c \in Clis /\ (StartCli(c) \/ Exit(c))
  \/ \E b \in Branches : c \in Clis /\ (PushFile(c, b) \/ Ask(c, b, "PULL") \/ Ask(c, b, "HISTORY"))
  \/ c \in Proxies /\ PushNext(c)
  \/ Kill(c) \/ Edit(c)

Next ==
  \/ Serve /\ UNCHANGED client
  \/ \E c \in Clients : Client(c) \/ User(c)

Spec == Init /\ [][Next]_vars

\* A thread that can go on does, and so does a client in a command.  Nobody has
\* to start a command or the server.
FairSpec ==
  /\ Spec
  /\ \A w \in Workers : WF_vars(Worker(w) /\ UNCHANGED client)
  /\ \A c \in Clients : WF_vars(Client(c))

-----------------------------------------------------------------------------
(* Properties.                                                             *)

Content == Seq(Segments)

TypeOK ==
  /\ dirs \subseteq {"git", "objects", "refs", "branches"}
  /\ \A o \in objects : o.hash \in Content \cup {Garbage} /\ o.content \in Content
  /\ \A b \in Branches : head[b] \in Content \cup {Absent, Empty, Garbage}
  /\ boot \in {"down", "objects", "refs", "branches", "up"}
  /\ queue \in Seq(Conns)
  /\ \A w \in Workers :
       /\ pc[w] \in {"idle", "recv", "data", "head", "write", "send"}
       /\ job[w] \in Conns \cup {NoConn} /\ (job[w] = NoConn) = (pc[w] = "idle")
       /\ req[w] \in Lines \cup {NoLine} /\ got[w] \in Content
       /\ hash[w] \in Content \cup {NoHash, Garbage}
  /\ \A x \in Conns :
       /\ conn[x].st \in {"none", "open", "closed"} /\ conn[x].eof \in BOOLEAN
       /\ conn[x].line \in Lines \cup {NoLine}
       /\ {conn[x].data, conn[x].sent, conn[x].want} \subseteq Content
       /\ conn[x].answer \in Seq(Segments \cup {"SUCCESS", "HISTORY"})
  /\ \A c \in Clients :
       /\ at[c] \in {"off", "prompt", "next", "sending", "recv", "head", "name", "PULL",
                     "pulling", "HISTORY"}
       /\ cur[c] \in 0..MaxConns[c] /\ file[c] \in Content /\ off[c] \in Nat
  /\ faults \subseteq Faults

\* The objects that are what their name says, and the heads, implement
\* ObjectStore, as long as no temporary file could not be opened to be hashed:
\* whatever pushes, crashes and lost connections come together, an object holds
\* a piece of what one client sent for its file, without a hole and no shorter
\* than the size in its command, it stays, and a head names only what is stored
\* (handle_push, 216-276).  A file that grew after its size was taken may be cut.
OS == INSTANCE ObjectStore
        WITH store <- {o.content : o \in {p \in objects : p.hash = p.content}},
             tips <- head, NoFile <- Absent, Torn <- Empty, Pushes <- Conns,
             offers <- [x \in Conns |-> [size |-> Len(conn[x].want), sent |-> conn[x].sent]]

ImplementsStore ==
  OS!Init /\ [][OS!Next \/ starved']_<<objects, head>>

\* A client that sent the file whose size it had announced, and was told SUCCESS,
\* has it in the store (handle_push, 185-281).
AckIsStored ==
  \A x \in Conns :
    conn[x].answer = <<"SUCCESS">> /\ conn[x].sent = conn[x].want /\ ~starved =>
      [hash |-> conn[x].want, content |-> conn[x].want] \in objects

\* A client that waits for an answer while its worker waits for data, for ever:
\* only when its file shrank after its size was taken, or when the server threw
\* away the data that came with a line that has no newline (cli.c:219).
NoMutualWait ==
  \A w \in Workers, c \in Clients :
    pc[w] = "data" /\ job[w] = C(c) /\ ~Complete(w) /\ conn[C(c)].data = <<>>
    /\ at[c] = "recv" =>
      Len(conn[C(c)].sent) < Len(conn[C(c)].want) + conn[C(c)].lost

\* However often the server ended itself and was started again, and whoever was
\* killed meanwhile, it runs with all its directories, unless it was interrupted
\* while it made them or libgit2 had made .git: a later start does not make up
\* for that (399-403), and the first push would end the server (128-132).
GitIsWhole ==
  boot = "up" /\ faults \cap {"crash", "libgit"} = {} =>
    {"git", "objects", "refs", "branches"} \subseteq dirs

\* Nobody can move: each worker holds a connection that sends nothing.
Held(w) ==
  LET x == job[w]
  IN  \/ pc[w] = "recv" /\ conn[x].line = NoLine /\ ~conn[x].eof
      \/ pc[w] = "data" /\ ~Complete(w) /\ conn[x].data = <<>> /\ ~conn[x].eof

\* Every command ends, unless its own push cannot, or MAX_THREADS connections
\* that are idle or cannot end hold all the workers (346-361, 366-372).
EveryCommandEnds ==
  \A c \in Clients :
    []<>(\/ at[c] \in {"off", "prompt", "next"}
         \/ Len(conn[C(c)].sent) < Len(conn[C(c)].want) + conn[C(c)].lost
         \/ boot = "up" /\ \A w \in Workers : Held(w))
=============================================================================
