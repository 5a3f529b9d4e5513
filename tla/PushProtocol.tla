---------------------------- MODULE PushProtocol ----------------------------
(***************************************************************************)
(* One push on the wire: git_push_server of ProxyServer.c at one end of a  *)
(* TCP connection, handle_client and handle_push of Main_Server.c at the   *)
(* other, and branch_lock between the connections.                         *)
(*                                                                         *)
(* The unit of the stream is a block of 256 bytes: a file header is one    *)
(* block, and sizes count blocks.  The stream has no boundaries: a block   *)
(* is what its sender meant by it until somebody reads it as something     *)
(* else.  What the server does with the files it got is modelled in        *)
(* MainServer.tla; here a commit is the list of the files it got.          *)
(***************************************************************************)
EXTENDS Naturals, Sequences

CONSTANTS
  Proxies,      \* proxy processes, each with one push to make
  Names,
  MaxSize,      \* of a file, in blocks
  StatusLists,  \* what git_status_list_new may return
  Capacity,     \* blocks the two socket buffers hold together
  Faults,       \* which of "down", "kill" and "shrink" happen
  NoProxy,      \* branch_lock is free
  JunkName      \* a name scanned from a block that is not a file header

\* A changed path; `opens` is FALSE for one the loop passes over: ignored,
\* deleted, or not readable.
StatusEntry == [name : Names, size : 0..MaxSize, opens : BOOLEAN]

ASSUME ProtocolAssumption ==
  /\ StatusLists \subseteq Seq(StatusEntry)
  /\ MaxSize \in Nat /\ Capacity \in Nat \ {0}
  /\ NoProxy \notin Proxies /\ JunkName \notin Names
  /\ Faults \subseteq {"down", "kill", "shrink"}

VARIABLES
  \* The proxy.
  pc,        \* pc[p]: where git_push_server is
  list,      \* list[p]: status_list
  i,         \* i[p]: the index of the loop over it, from 1
  off,       \* off[p]: blocks of the file that were sent
  \* The connection.
  link,      \* link[p]: "none", "up", "closing" when the server has closed its
             \* end, "broken" once a send has met that
  toServer,  \* toServer[p]: the blocks on their way
  reply,     \* reply[p]: the answer on its way, or received
  \* The server: one worker per connection.
  at,        \* at[p]: where that worker is
  left,      \* left[p]: turns of the loop over num_files left
  header,    \* header[p]: the file_name and file_size scanned last
  payload,   \* payload[p]: the blocks in the temporary file
  got,       \* got[p]: the files that are in the table
  lock,      \* the connection whose worker holds branch_lock
  commits,   \* the commits of the branch
  \* History variable.
  shrunk     \* the proxies one of whose files shrank while it was sent

proxy  == <<pc, list, i, off>>
wire   == <<link, toServer, reply>>
server == <<at, left, header, payload, got, lock, commits>>
vars   == <<proxy, wire, server, shrunk>>

Line(n) == [kind |-> "line", count |-> n]
FileHeader(e) == [kind |-> "header", name |-> e.name, size |-> e.size]
Data(e, n) == [kind |-> "data", name |-> e.name, block |-> n]

Contents(e) == [n \in 1..e.size |-> Data(e, n)]
Unscanned == [name |-> JunkName, size |-> 0]

\* What a commit of all files of a status list holds.
Files(l) == [k \in DOMAIN l |-> [name |-> l[k].name, content |-> Contents(l[k])]]

Init ==
  /\ pc = [p \in Proxies |-> "start"] /\ list = [p \in Proxies |-> <<>>]
  /\ i = [p \in Proxies |-> 1] /\ off = [p \in Proxies |-> 0]
  /\ link = [p \in Proxies |-> "none"] /\ toServer = [p \in Proxies |-> <<>>]
  /\ reply = [p \in Proxies |-> "none"]
  /\ at = [p \in Proxies |-> "none"] /\ left = [p \in Proxies |-> 0]
  /\ header = [p \in Proxies |-> Unscanned]
  /\ payload = [p \in Proxies |-> <<>>] /\ got = [p \in Proxies |-> <<>>]
  /\ lock = NoProxy /\ commits = <<>> /\ shrunk = {}

-----------------------------------------------------------------------------
(* The proxy: git_push_server.                                             *)

\* git_status_list_new; a clean directory is not pushed.
ListStatus(p) ==
  /\ pc[p] = "start"
  /\ \E l \in StatusLists :
       /\ list' = [list EXCEPT ![p] = l]
       /\ pc' = [pc EXCEPT ![p] = IF l = <<>> THEN "done" ELSE "setup"]
  /\ UNCHANGED <<i, off, wire, server, shrunk>>

setup(p) ==
  /\ pc[p] = "setup"
  /\ pc' = [pc EXCEPT ![p] = "line"]
  /\ link' = [link EXCEPT ![p] = "up"]
  /\ at' = [at EXCEPT ![p] = "line"]
  /\ UNCHANGED <<list, i, off, toServer, reply, left, header, payload, got, lock,
                 commits, shrunk>>

\* connect fails, setup returns all the same, and the first send on the
\* unconnected socket ends the process with SIGPIPE.
Refused(p) ==
  /\ "down" \in Faults /\ pc[p] = "setup"
  /\ pc' = [pc EXCEPT ![p] = "dead"]
  /\ UNCHANGED <<list, i, off, wire, server, shrunk>>

\* Mutants of Announced: a file too few, and one too many.
AnnouncedLess(p) == Len(list[p]) - 1
AnnouncedMore(p) == Len(list[p]) + 1

\* num_files of the command line.
Announced(p) == Len(list[p])

SendLine(p) ==
  /\ pc[p] = "line"
  /\ toServer' = [toServer EXCEPT ![p] = Append(@, Line(Announced(p)))]
  /\ pc' = [pc EXCEPT ![p] = "file"]
  /\ UNCHANGED <<list, i, off, link, reply, server, shrunk>>

\* send and sendfile: they wait for room in the buffers; after the server has
\* closed its end what is sent is lost, and they may still return as usual.
Send(p, block) ==
  \/ /\ link[p] = "up" /\ Len(toServer[p]) < Capacity
     /\ toServer' = [toServer EXCEPT ![p] = Append(@, block)]
     /\ UNCHANGED link
  \/ /\ link[p] \in {"closing", "broken"}
     /\ link' = [link EXCEPT ![p] = "broken"]
     /\ UNCHANGED toServer

\* The next turn of the loop, or the wait for the answer after the last one.
NextFile(p) ==
  /\ i' = [i EXCEPT ![p] = @ + 1] /\ off' = [off EXCEPT ![p] = 0]
  /\ pc' = [pc EXCEPT ![p] = IF i[p] = Len(list[p]) THEN "recv" ELSE "file"]

\* The status is GIT_STATUS_IGNORED, or open fails: continue.
SkipFile(p) ==
  /\ pc[p] = "file" /\ ~list[p][i[p]].opens
  /\ NextFile(p)
  /\ UNCHANGED <<list, wire, server, shrunk>>

SendFileHeader(p) ==
  LET e == list[p][i[p]]
  IN  /\ pc[p] = "file" /\ e.opens
      /\ Send(p, FileHeader(e))
      /\ IF e.size = 0 THEN NextFile(p)
         ELSE pc' = [pc EXCEPT ![p] = "data"] /\ UNCHANGED <<i, off>>
      /\ UNCHANGED <<list, reply, server, shrunk>>

SendBlock(p) ==
  LET e == list[p][i[p]]
  IN  /\ pc[p] = "data"
      /\ Send(p, Data(e, off[p] + 1))
      /\ IF off[p] + 1 = e.size THEN NextFile(p)
         ELSE off' = [off EXCEPT ![p] = @ + 1] /\ UNCHANGED <<pc, i>>
      /\ UNCHANGED <<list, reply, server, shrunk>>

\* sendfile returns 0: the file is shorter than fstat said.
FileShrank(p) ==
  /\ "shrink" \in Faults /\ pc[p] = "data"
  /\ NextFile(p)
  /\ shrunk' = shrunk \cup {p}
  /\ UNCHANGED <<list, wire, server>>

\* sendfile returns -1: the connection was reset.
SendfileFails(p) ==
  /\ pc[p] = "data" /\ link[p] \in {"closing", "broken"}
  /\ NextFile(p)
  /\ link' = [link EXCEPT ![p] = "broken"]
  /\ UNCHANGED <<list, toServer, reply, server, shrunk>>

\* A send on a connection whose reset was already met: SIGPIPE.
Sigpipe(p) ==
  /\ link[p] = "broken"
  /\ \/ pc[p] = "data"
     \/ pc[p] = "file" /\ list[p][i[p]].opens
  /\ pc' = [pc EXCEPT ![p] = "dead"]
  /\ UNCHANGED <<list, i, off, wire, server, shrunk>>

\* The answer is read, whatever it is, and the socket is closed.
RecvReply(p) ==
  /\ pc[p] = "recv" /\ reply[p] # "none"
  /\ pc' = [pc EXCEPT ![p] = "done"]
  /\ UNCHANGED <<list, i, off, wire, server, shrunk>>

\* Somebody ends the proxy; what it sent still arrives.
Kill(p) ==
  /\ "kill" \in Faults /\ pc[p] \in {"file", "data", "recv"}
  /\ pc' = [pc EXCEPT ![p] = "dead"]
  /\ UNCHANGED <<list, i, off, wire, server, shrunk>>

-----------------------------------------------------------------------------
(* The server: handle_client and handle_push for connection p.             *)

Received(p) == toServer' = [toServer EXCEPT ![p] = Tail(@)]

\* recv returns 0: everything that was sent is read and the peer is gone.
EndOfStream(p) == toServer[p] = <<>> /\ pc[p] = "dead"

\* close, and what the server had not read is gone.
CloseWith(p, answer) ==
  /\ reply' = [reply EXCEPT ![p] = answer]
  /\ link' = [link EXCEPT ![p] = "closing"]
  /\ toServer' = [toServer EXCEPT ![p] = <<>>]
  /\ at' = [at EXCEPT ![p] = "closed"]
  /\ UNCHANGED <<left, header, payload, got>>

\* Byte by byte up to the newline, and not one byte more.
ReadLine(p) ==
  /\ at[p] = "line" /\ toServer[p] # <<>>
  /\ left' = [left EXCEPT ![p] = Head(toServer[p]).count]
  /\ Received(p)
  /\ at' = [at EXCEPT ![p] = "lock"]
  /\ UNCHANGED <<proxy, link, reply, header, payload, got, lock, commits, shrunk>>

\* Mutant of HasHistory: the head file is not looked at.
NeverHasHistory == FALSE

\* The head file holds a hash.  The parent a proxy sends is forty zeros or the
\* id of a commit of its own repository, and so is never that hash.
HasHistory == commits # <<>>

Conflict(p) ==
  /\ at[p] = "lock" /\ lock = NoProxy /\ HasHistory
  /\ CloseWith(p, "conflict")
  /\ UNCHANGED <<proxy, lock, commits, shrunk>>

Lock(p) ==
  /\ at[p] = "lock" /\ lock = NoProxy /\ ~HasHistory
  /\ lock' = p
  /\ at' = [at EXCEPT ![p] = "header"]
  /\ UNCHANGED <<proxy, wire, left, header, payload, got, commits, shrunk>>

\* Mutant of MoreFiles: f <= num_files.
OneFileMore(p) == left[p] >= 0

MoreFiles(p) == left[p] > 0

\* sscanf("%lu %s") of a block; of one that is no file header it may take
\* nothing, a number, or a number and a name.
Scan(p, block) ==
  IF block.kind = "header" THEN {[name |-> block.name, size |-> block.size]}
  ELSE [name : {header[p].name, JunkName}, size : 0..MaxSize]

RecvFileHeader(p) ==
  /\ at[p] = "header" /\ MoreFiles(p)
  /\ \/ /\ toServer[p] # <<>>
        /\ \E h \in Scan(p, Head(toServer[p])) : header' = [header EXCEPT ![p] = h]
        /\ Received(p)
     \/ EndOfStream(p) /\ UNCHANGED <<header, toServer>>
  /\ payload' = [payload EXCEPT ![p] = <<>>]
  /\ at' = [at EXCEPT ![p] = "payload"]
  /\ UNCHANGED <<proxy, link, reply, left, got, lock, commits, shrunk>>

\* Mutant of Complete: one block too few.
CompleteEarly(p) == Len(payload[p]) + 1 >= header[p].size

\* total_received has reached file_size.
Complete(p) == Len(payload[p]) = header[p].size

RecvPayload(p) ==
  /\ at[p] = "payload" /\ ~Complete(p) /\ toServer[p] # <<>>
  /\ payload' = [payload EXCEPT ![p] = Append(@, Head(toServer[p]))]
  /\ Received(p)
  /\ UNCHANGED <<proxy, link, reply, at, left, header, got, lock, commits, shrunk>>

\* The end of a turn: after file_size bytes, or when recv returns 0.
FileReceived(p) ==
  /\ at[p] = "payload"
  /\ (Complete(p) \/ EndOfStream(p))
  /\ got' = [got EXCEPT ![p] =
       Append(@, [name |-> header[p].name, content |-> payload[p]])]
  /\ left' = [left EXCEPT ![p] = @ - 1]
  /\ at' = [at EXCEPT ![p] = "header"]
  /\ UNCHANGED <<proxy, wire, header, payload, lock, commits, shrunk>>

\* Mutant of Publish: branch_lock stays locked.
PublishLocked(p) ==
  /\ at[p] = "header" /\ ~MoreFiles(p)
  /\ commits' = Append(commits, [by |-> p, files |-> got[p]])
  /\ CloseWith(p, "success")
  /\ UNCHANGED <<proxy, lock, shrunk>>

\* The manifest, the head file, the unlock and the answer.
Publish(p) ==
  /\ at[p] = "header" /\ ~MoreFiles(p)
  /\ commits' = Append(commits, [by |-> p, files |-> got[p]])
  /\ lock' = NoProxy
  /\ CloseWith(p, "success")
  /\ UNCHANGED <<proxy, shrunk>>

-----------------------------------------------------------------------------
git_push_server(p) ==
  \/ ListStatus(p) \/ setup(p) \/ SendLine(p) \/ SkipFile(p) \/ SendFileHeader(p)
  \/ SendBlock(p) \/ RecvReply(p)

handle_client(p) ==
  \/ ReadLine(p) \/ Conflict(p) \/ Lock(p) \/ RecvFileHeader(p) \/ RecvPayload(p)
  \/ FileReceived(p) \/ Publish(p)

Ended(p) == pc[p] \in {"done", "dead"} /\ at[p] \in {"none", "closed"}

Rest == (\A p \in Proxies : Ended(p)) /\ UNCHANGED vars

Next ==
  \/ \E p \in Proxies :
       \/ git_push_server(p) \/ handle_client(p)
       \/ Refused(p) \/ FileShrank(p) \/ SendfileFails(p) \/ Sigpipe(p) \/ Kill(p)
  \/ Rest

Spec == Init /\ [][Next]_vars

\* The proxies' processes and the server's threads are scheduled.
FairSpec ==
  Spec /\ \A p \in Proxies : WF_vars(git_push_server(p)) /\ WF_vars(handle_client(p))

-----------------------------------------------------------------------------
Blocks ==
  [kind : {"line"}, count : Nat]
  \cup [kind : {"header"}, name : Names, size : 0..MaxSize]
  \cup [kind : {"data"}, name : Names, block : 1..MaxSize]

FileGot == [name : Names \cup {JunkName}, content : Seq(Blocks)]

TypeOK ==
  /\ pc \in [Proxies -> {"start", "setup", "line", "file", "data", "recv", "done", "dead"}]
  /\ list \in [Proxies -> Seq(StatusEntry)]
  /\ i \in [Proxies -> Nat \ {0}] /\ off \in [Proxies -> 0..MaxSize]
  /\ link \in [Proxies -> {"none", "up", "closing", "broken"}]
  /\ toServer \in [Proxies -> Seq(Blocks)]
  /\ reply \in [Proxies -> {"none", "success", "conflict"}]
  /\ at \in [Proxies -> {"none", "line", "lock", "header", "payload", "closed"}]
  /\ left \in [Proxies -> Nat]
  /\ header \in [Proxies -> [name : Names \cup {JunkName}, size : 0..MaxSize]]
  /\ payload \in [Proxies -> Seq(Blocks)] /\ got \in [Proxies -> Seq(FileGot)]
  /\ lock \in Proxies \cup {NoProxy}
  /\ commits \in Seq([by : Proxies, files : Seq(FileGot)])
  /\ shrunk \subseteq Proxies

\* The file headers of p are as many, and its files as long, as announced.
Counted(p) == p \notin shrunk /\ \A k \in DOMAIN list[p] : list[p][k].opens

\* The proxy ended before the last byte was sent.
CutShort(p) == pc[p] = "dead" /\ i[p] <= Len(list[p])

\* A stream without marks stays in step: as long as the proxy sends what it
\* announced, the server never takes a block of contents for a file header, a
\* header for contents, or the block of one file for that of another.
InStep ==
  \A p \in Proxies :
    Counted(p) /\ at[p] \in {"header", "payload"} /\ toServer[p] # <<>> =>
      LET block == Head(toServer[p])
      IN  /\ at[p] = "header" => block.kind = "header"
          /\ at[p] = "payload" /\ ~Complete(p) =>
               block = Data(header[p], Len(payload[p]) + 1)
          /\ at[p] = "payload" /\ Complete(p) => block.kind = "header"

\* What is published is what the proxy listed: every file, in the order of
\* the list, with the contents it had.
WholePush ==
  \A k \in DOMAIN commits :
    LET p == commits[k].by
    IN  Counted(p) /\ ~CutShort(p) => commits[k].files = Files(list[p])

\* Of the proxies that push, each without having pulled, one is accepted.
OneWinner == Len(commits) <= 1

\* Neither end waits for the other, unless the proxy announced files that it
\* could not send or a file shrank under it.
NoMutualWait ==
  \A p \in Proxies :
    /\ pc[p] = "recv" /\ reply[p] = "none" /\ toServer[p] = <<>>
    /\ \/ at[p] = "header" /\ MoreFiles(p)
       \/ at[p] = "payload" /\ ~Complete(p)
    => ~Counted(p)

\* A push ends, also for those that wait for branch_lock, unless some proxy's
\* count was wrong.
EveryPushEnds ==
  \A p \in Proxies :
    pc[p] = "line" ~> (Ended(p) \/ \E q \in Proxies : ~Counted(q))

\* The comment before the last recv of git_push_server: the server answers,
\* with success or with a conflict.
PushIsAnswered == \A p \in Proxies : pc[p] = "line" ~> Ended(p)
=============================================================================
