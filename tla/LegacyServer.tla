---------------------------- MODULE LegacyServer ----------------------------
(***************************************************************************)
(* real_project_repo/Main_Server.c, the server of the earlier protocol: a  *)
(* connection carries one command, a push one file, and nothing orders the *)
(* pushes to a branch.  Start-up, accept loop and queue, and each worker's *)
(* handle_client, one action per step that another worker, a client or the *)
(* end of the process can come between.                                    *)
(*                                                                         *)
(* A file is a sequence of segments, what one send, recv, fread or fwrite  *)
(* moves; its SHA-1 is the file itself.  A command line arrives whole.     *)
(***************************************************************************)
EXTENDS Naturals, Sequences, FiniteSets

CONSTANTS
  Workers,     \* the MAX_THREADS threads
  Conns,       \* connections
  Branches,
  Segments,
  Text,        \* an error message, where it is taken for part of a file
  Faults,      \* which of "crash", "emfile", "libgit", "kill", "edit" happen
  MaxFaults,   \* how many of them, each once, in one behaviour
  NoConn,      \* a worker without a connection
  NoLine,      \* no command line waits to be read
  NoHash,      \* the empty string
  Garbage,     \* a string that names no object
  Absent,      \* the branch has no head file
  Empty        \* the head file has no bytes

\* Command lines.
Lines ==
  [kind : {"PUSH", "PULL", "HISTORY"}, branch : Branches, size : Nat, newline : BOOLEAN]

ASSUME LegacyAssumption ==
  /\ NoConn \notin Conns /\ NoLine \notin Lines
  /\ Text \in Segments /\ {"SUCCESS", "HISTORY"} \cap Segments = {}
  /\ MaxFaults \in Nat /\ Faults \subseteq {"crash", "emfile", "libgit", "kill", "edit"}

VARIABLES
  \* The disk.
  dirs,      \* which of .git, objects, refs and branches exist
  objects,   \* .git/objects: hash and content
  head,      \* head[b]: the head file of branch b
  \* The process.
  boot,      \* "down", the directory main makes next, or "up"
  queue,     \* accepted connections no worker has taken
  pc,        \* pc[w]: where worker w is
  job,       \* job[w]: its connection
  req,       \* req[w]: the command line it scanned
  got,       \* got[w]: its temporary file, or what is left of the file it sends
  hash,      \* hash[w]: the hash handle_push computed
  \* The network.
  conn,
  \* History variables.
  faults,    \* which of Faults happened
  starved    \* a temporary file could not be opened to be hashed

disk    == <<dirs, objects, head>>
process == <<boot, queue>>
thread  == <<pc, job, req, got, hash>>
history == <<faults, starved>>
server  == <<disk, process, thread, conn, history>>

\* What a connection is when its client has opened it and sent a line.  sent,
\* want and lost are history: the data sent in all, the file the size in the line
\* was taken of, and how much data the server threw away.
Opened(line, file) ==
  [st |-> "open", eof |-> FALSE, line |-> line, data |-> <<>>, answer |-> <<>>,
   sent |-> <<>>, want |-> file, lost |-> 0]

ServerInit ==
  /\ dirs = {} /\ objects = {} /\ head = [b \in Branches |-> Absent]
  /\ boot = "down" /\ queue = <<>>
  /\ pc = [w \in Workers |-> "idle"] /\ job = [w \in Workers |-> NoConn]
  /\ req = [w \in Workers |-> NoLine] /\ got = [w \in Workers |-> <<>>]
  /\ hash = [w \in Workers |-> NoHash]
  /\ conn = [x \in Conns |-> [Opened(NoLine, <<>>) EXCEPT !.st = "none"]]
  /\ faults = {} /\ starved = FALSE

\* A connection both ends have closed.
Gone == [Opened(NoLine, <<>>) EXCEPT !.st = "closed", !.eof = TRUE]
Forget(c) == IF c.st = "closed" /\ c.eof THEN Gone ELSE c

Fault(kind) ==
  /\ kind \in Faults \ faults /\ Cardinality(faults) < MaxFaults
  /\ faults' = faults \cup {kind}

\* What a buffer for a hash holds that nobody wrote: junk, or a hash that was in
\* it before.
Unwritten == {NoHash, Garbage} \cup {o.hash : o \in objects}

-----------------------------------------------------------------------------
(* main.                                                                   *)

\* The directories below .git are made only by a start that makes .git.
Start ==
  /\ boot = "down"
  /\ dirs' = dirs \cup {"git"}
  /\ boot' = IF "git" \in dirs THEN "up" ELSE "objects"
  /\ UNCHANGED <<objects, head, queue, thread, conn, history>>

\* Mutant of MakeDirectory: refs/branches is left to the first push.
MakeLess ==
  /\ boot \in {"objects", "refs"}
  /\ dirs' = dirs \cup {boot}
  /\ boot' = IF boot = "objects" THEN "refs" ELSE "up"
  /\ UNCHANGED <<objects, head, queue, thread, conn, history>>

MakeDirectory ==
  /\ boot \in {"objects", "refs", "branches"}
  /\ dirs' = dirs \cup {boot}
  /\ boot' = CASE boot = "objects" -> "refs" [] boot = "refs" -> "branches"
               [] boot = "branches" -> "up"
  /\ UNCHANGED <<objects, head, queue, thread, conn, history>>

\* GIT_INIT of a proxy in the same directory: libgit2 makes no refs/branches.
GitInit ==
  /\ Fault("libgit") /\ ~{"git", "objects", "refs"} \subseteq dirs
  /\ dirs' = dirs \cup {"git", "objects", "refs"}
  /\ UNCHANGED <<objects, head, process, thread, conn, starved>>

\* The process ends: exit, a signal, or somebody kills it.
Dies ==
  /\ boot' = "down" /\ queue' = <<>>
  /\ pc' = [w \in Workers |-> "idle"] /\ job' = [w \in Workers |-> NoConn]
  /\ req' = [w \in Workers |-> NoLine] /\ got' = [w \in Workers |-> <<>>]
  /\ hash' = [w \in Workers |-> NoHash]
  /\ conn' = [x \in Conns |-> IF conn[x].st # "open" THEN conn[x]
        ELSE Forget([conn[x] EXCEPT !.st = "closed", !.line = NoLine, !.data = <<>>])]

Crash == boot # "down" /\ Fault("crash") /\ Dies /\ UNCHANGED <<disk, starved>>

enqueue_client(x) == queue' = Append(queue, x)

dequeue_client(w) ==
  /\ pc[w] = "idle" /\ queue # <<>>
  /\ job' = [job EXCEPT ![w] = Head(queue)] /\ queue' = Tail(queue)
  /\ pc' = [pc EXCEPT ![w] = "recv"]
  /\ UNCHANGED <<disk, boot, req, got, hash, conn, history>>

-----------------------------------------------------------------------------
(* handle_client.                                                          *)

\* close(client_fd), and the worker is free.  A socket that is closed with data
\* nobody read is reset, and what was answered may be lost.
Close(w, text) ==
  LET x == job[w]
      told == conn[x].answer \o text
  IN  /\ \E a \in {told} \cup IF conn[x].data # <<>> THEN {<<>>} ELSE {} :
           conn' = [conn EXCEPT ![x] = Forget([@ EXCEPT !.st = "closed", !.answer = a,
                                                 !.data = <<>>, !.line = NoLine])]
      /\ pc' = [pc EXCEPT ![w] = "idle"] /\ job' = [job EXCEPT ![w] = NoConn]
      /\ req' = [req EXCEPT ![w] = NoLine] /\ got' = [got EXCEPT ![w] = <<>>]
      /\ hash' = [hash EXCEPT ![w] = NoHash]
      /\ UNCHANGED process

\* recv returns 0: an idle connection is closed.
ReceiveNothing(w) ==
  /\ pc[w] = "recv"
  /\ LET x == job[w] IN conn[x].line = NoLine /\ conn[x].eof
  /\ Close(w, <<>>)
  /\ UNCHANGED <<disk, history>>

\* The data a recv may take with the line, and how much of it is lost: without a
\* newline of its own the line ends at the first newline of the file, if any.
Lost(newline, taken) == IF newline \/ taken = 0 THEN {0} ELSE 1..taken

\* The line, the data that came with it, and mkstemp.
ReceivePush(w) ==
  LET x == job[w]
      line == conn[x].line
  IN  /\ pc[w] = "recv" /\ line # NoLine /\ line.kind = "PUSH"
      /\ \E k \in 0..Len(conn[x].data) : \E n \in Lost(line.newline, k) :
           /\ got' = [got EXCEPT ![w] = SubSeq(conn[x].data, n + 1, k)]
           /\ conn' = [conn EXCEPT ![x].line = NoLine, ![x].lost = n,
                                    ![x].data = SubSeq(@, k + 1, Len(@))]
      /\ req' = [req EXCEPT ![w] = line]
      /\ pc' = [pc EXCEPT ![w] = "data"]
      /\ UNCHANGED <<disk, process, job, hash, history>>

MkstempFails(w) ==
  /\ pc[w] = "recv"
  /\ LET line == conn[job[w]].line IN line # NoLine /\ line.kind = "PUSH"
  /\ Fault("emfile") /\ Close(w, <<Text>>)
  /\ UNCHANGED <<disk, starved>>

\* Data taken for the fourth word of the line run over file_name[128].
LineOverflows(w) ==
  LET x == job[w]
  IN  /\ pc[w] = "recv" /\ conn[x].line # NoLine
      /\ ~conn[x].line.newline /\ conn[x].data # <<>>
      /\ Dies
      /\ UNCHANGED <<disk, history>>

-----------------------------------------------------------------------------
(* handle_push.                                                            *)

\* Mutants of Complete: the last recv is not waited for, and one is that never
\* comes.
CompleteEarly(w) == Len(got[w]) + 1 >= req[w].size
CompleteLate(w) == Len(got[w]) > req[w].size

Complete(w) == Len(got[w]) >= req[w].size

\* A recv may return more than is missing: all of it goes into the file.
ReceiveData(w) ==
  LET x == job[w]
  IN  /\ pc[w] = "data" /\ ~Complete(w)
      /\ \E k \in 1..Len(conn[x].data) :
           /\ got' = [got EXCEPT ![w] = @ \o SubSeq(conn[x].data, 1, k)]
           /\ conn' = [conn EXCEPT ![x].data = SubSeq(@, k + 1, Len(@))]
      /\ UNCHANGED <<disk, process, pc, job, req, hash, history>>

\* The connection ends early: the temporary file is removed.
LoseConnection(w) ==
  /\ pc[w] = "data" /\ ~Complete(w)
  /\ conn[job[w]].eof /\ conn[job[w]].data = <<>>
  /\ Close(w, <<>>)
  /\ UNCHANGED <<disk, history>>

\* rename replaces what has the same name.
Put(h, f) == {o \in objects : o.hash # h} \cup {[hash |-> h, content |-> f]}

\* compute_sha1, which leaves hash unwritten when it cannot open the file.
compute_sha1(w, h) ==
  \/ h = got[w] /\ UNCHANGED history
  \/ h \in Unwritten /\ Fault("emfile") /\ starved' = TRUE

\* Mutant of SaveObject: a file is stored without a name.
SaveUnnamed(w) ==
  /\ pc[w] = "data" /\ Complete(w)
  /\ \E h \in Unwritten \cup {got[w]} :
       /\ compute_sha1(w, h)
       /\ objects' = Put(h, got[w]) /\ hash' = [hash EXCEPT ![w] = h]
  /\ pc' = [pc EXCEPT ![w] = "head"]
  /\ UNCHANGED <<dirs, head, process, job, req, got, conn>>

\* mkdir and rename, under the hash; there is no file without a name.
SaveObject(w) ==
  /\ pc[w] = "data" /\ Complete(w)
  /\ \E h \in Unwritten \cup {got[w]} :
       /\ compute_sha1(w, h)
       /\ IF "objects" \in dirs /\ h # NoHash
          THEN /\ objects' = Put(h, got[w]) /\ hash' = [hash EXCEPT ![w] = h]
               /\ pc' = [pc EXCEPT ![w] = "head"]
               /\ UNCHANGED <<process, job, req, got, conn>>
          ELSE Close(w, <<Text>>) /\ UNCHANGED objects
  /\ UNCHANGED <<dirs, head>>

\* write_branch_head: fopen truncates the file, or ends the whole server.
OpenHead(w) ==
  /\ pc[w] = "head"
  /\ \/ /\ "branches" \in dirs
        /\ head' = [head EXCEPT ![req[w].branch] = Empty]
        /\ pc' = [pc EXCEPT ![w] = "write"]
        /\ UNCHANGED <<process, job, req, got, hash, conn, faults>>
     \/ /\ "branches" \notin dirs \/ "emfile" \in Faults
        /\ IF "branches" \notin dirs THEN UNCHANGED faults ELSE Fault("emfile")
        /\ Dies /\ UNCHANGED head
  /\ UNCHANGED <<dirs, objects, starved>>

\* Mutant of WriteHead: the answer is only sent later, and never is.
WriteSilently(w) ==
  /\ pc[w] = "write"
  /\ head' = [head EXCEPT ![req[w].branch] = hash[w]]
  /\ pc' = [pc EXCEPT ![w] = "idle"] /\ job' = [job EXCEPT ![w] = NoConn]
  /\ UNCHANGED <<dirs, objects, process, req, got, hash, conn, history>>

\* fprintf, and the answer.
WriteHead(w) ==
  /\ pc[w] = "write"
  /\ head' = [head EXCEPT ![req[w].branch] = hash[w]]
  /\ Close(w, <<"SUCCESS">>)
  /\ UNCHANGED <<dirs, objects, history>>

-----------------------------------------------------------------------------
(* handle_pull and handle_history.                                         *)

\* read_branch_head: an empty file leaves the buffer as it was.
read_branch_head(b, h) ==
  \/ /\ h \in CASE head[b] = Absent -> {NoHash}
               [] head[b] = Empty -> Unwritten
               [] OTHER -> {head[b]}
     /\ UNCHANGED faults
  \/ head[b] # Absent /\ h = NoHash /\ Fault("emfile")

Files(h) == {o.content : o \in {p \in objects : p.hash = h}}

handle_pull(w) ==
  LET line == conn[job[w]].line
  IN  /\ pc[w] = "recv" /\ line # NoLine /\ line.kind = "PULL"
      /\ \E h \in Unwritten \cup {head[line.branch]} :
           /\ read_branch_head(line.branch, h)
           /\ IF Files(h) = {} THEN Close(w, <<Text>>)
              ELSE /\ \E f \in Files(h) : got' = [got EXCEPT ![w] = f]
                   /\ pc' = [pc EXCEPT ![w] = "send"]
                   /\ conn' = [conn EXCEPT ![job[w]].line = NoLine]
                   /\ UNCHANGED <<process, job, req, hash>>
      /\ UNCHANGED <<disk, starved>>

SendSegment(w) ==
  /\ pc[w] = "send"
  /\ IF got[w] = <<>> THEN Close(w, <<>>)
     ELSE /\ got' = [got EXCEPT ![w] = Tail(@)]
          /\ conn' = [conn EXCEPT ![job[w]].answer =
                        IF conn[job[w]].eof THEN @ ELSE Append(@, Head(got[w]))]
          /\ UNCHANGED <<process, pc, job, req, hash>>
  /\ UNCHANGED <<disk, history>>

\* The client has gone: send returns -1, or the server is ended by SIGPIPE.
SendFails(w) ==
  /\ pc[w] = "send" /\ got[w] # <<>> /\ conn[job[w]].eof
  /\ Close(w, <<>>) \/ Dies
  /\ UNCHANGED <<disk, history>>

\* The first 40 bytes of an object are taken for the next hash.  They name no
\* object; but of an empty file nothing is read, and the same hash is added to
\* response[8192] until the process ends.
handle_history(w) ==
  LET line == conn[job[w]].line
  IN  /\ pc[w] = "recv" /\ line # NoLine /\ line.kind = "HISTORY"
      /\ \E h \in Unwritten \cup {head[line.branch]} :
           /\ read_branch_head(line.branch, h)
           /\ IF <<>> \in Files(h) THEN Dies
              ELSE Close(w, IF h = NoHash THEN <<Text>> ELSE <<"HISTORY">>)
      /\ UNCHANGED <<disk, starved>>

Worker(w) ==
  \/ dequeue_client(w) \/ ReceiveNothing(w)
  \/ ReceivePush(w) \/ LineOverflows(w) \/ MkstempFails(w) \/ ReceiveData(w)
  \/ LoseConnection(w) \/ SaveObject(w) \/ OpenHead(w) \/ WriteHead(w)
  \/ handle_pull(w) \/ SendSegment(w) \/ SendFails(w) \/ handle_history(w)

Serve ==
  \/ Start \/ MakeDirectory \/ GitInit \/ Crash
  \/ \E w \in Workers : Worker(w)
=============================================================================
