---------------------------- MODULE LegacyProofs ----------------------------
(***************************************************************************)
(* Proofs about Legacy: type correctness, that the server implements       *)
(* ObjectStore, and that it runs with all its directories, for any number  *)
(* of clients, workers, connections, branches and segments.                *)
(***************************************************************************)
EXTENDS Legacy, TLAPS

-----------------------------------------------------------------------------
(* The directories.                                                        *)

\* Which directories a start that makes .git has made before it makes the next.
MadeBefore ==
  [objects |-> {"git"}, refs |-> {"git", "objects"}, branches |-> {"git", "objects", "refs"}]

\* Nobody is served before the server runs.
NotUpInv == boot # "up" => queue = <<>> /\ \A w \in Workers : pc[w] = "idle"

DirInv ==
  /\ boot \in {"down", "objects", "refs", "branches", "up"}
  /\ faults \cap {"crash", "libgit"} = {} =>
       /\ boot \in {"objects", "refs", "branches"} => MadeBefore[boot] \subseteq dirs
       /\ boot = "up" => {"git", "objects", "refs", "branches"} \subseteq dirs
       /\ boot = "down" /\ "git" \in dirs => {"objects", "refs", "branches"} \subseteq dirs

WholeInv == NotUpInv /\ DirInv

LEMMA DiesKeepsWhole == ASSUME WholeInv, boot = "up" \/ "crash" \in faults', Dies,
    UNCHANGED dirs, faults \subseteq faults' PROVE WholeInv'
  BY DEF WholeInv, NotUpInv, DirInv, Dies

LEMMA WorkerUp == ASSUME WholeInv, NEW w \in Workers, Worker(w) PROVE boot = "up"
  BY DEF WholeInv, NotUpInv, Worker, dequeue_client, ReceiveNothing, ReceivePush,
    LineOverflows, MkstempFails, ReceiveData, LoseConnection, SaveObject, OpenHead,
    WriteHead, handle_pull, SendSegment, SendFails, handle_history

\* A worker leaves the directories and the server as they are, or ends it.
LEMMA WorkerKeeps ==
  ASSUME NEW w \in Workers, Worker(w)
  PROVE  /\ UNCHANGED dirs /\ faults \subseteq faults'
         /\ UNCHANGED boot \/ Dies
  BY DEF Worker, dequeue_client, ReceiveNothing, ReceivePush, LineOverflows, MkstempFails,
    ReceiveData, LoseConnection, SaveObject, compute_sha1, OpenHead, WriteHead, handle_pull,
    read_branch_head, SendSegment, SendFails, handle_history, Close, Fault, disk, process,
    history, thread

LEMMA WorkerKeepsWhole == ASSUME WholeInv, NEW w \in Workers, Worker(w) PROVE WholeInv'
<1>1. boot = "up" BY WorkerUp
<1>2. UNCHANGED dirs /\ faults \subseteq faults' /\ (UNCHANGED boot \/ Dies) BY WorkerKeeps
<1>3. CASE Dies BY <1>1, <1>2, <1>3, DiesKeepsWhole
<1>4. CASE UNCHANGED boot BY <1>1, <1>2, <1>4 DEF WholeInv, NotUpInv, DirInv
<1> QED BY <1>2, <1>3, <1>4

LEMMA ServeKeepsWhole == ASSUME WholeInv, Serve PROVE WholeInv'
<1>1. CASE Start
  BY <1>1 DEF Start, WholeInv, NotUpInv, DirInv, MadeBefore, thread, history
<1>2. CASE MakeDirectory
  BY <1>2 DEF MakeDirectory, WholeInv, NotUpInv, DirInv, MadeBefore, thread, history
<1>3. CASE GitInit
  BY <1>3 DEF GitInit, Fault, WholeInv, NotUpInv, DirInv, MadeBefore, thread, process
<1>4. CASE Crash
  <2>1. "crash" \in faults' /\ faults \subseteq faults' BY <1>4 DEF Crash, Fault
  <2> QED BY <1>4, <2>1, DiesKeepsWhole DEF Crash, disk
<1>5. CASE \E w \in Workers : Worker(w) BY <1>5, WorkerKeepsWhole
<1> QED BY <1>1, <1>2, <1>3, <1>4, <1>5 DEF Serve

\* Clients change nothing of it but the queue, and that only when it is up.
LEMMA ClientKeepsWhole ==
  ASSUME WholeInv, NEW c \in Clients, Client(c) \/ User(c) PROVE WholeInv'
<1>1. /\ UNCHANGED <<dirs, boot, pc>> /\ faults \subseteq faults'
      /\ boot = "up" \/ UNCHANGED queue
  BY DEF Client, User, SendData, ReceiveAnswer, OpenLocal, WriteLocal, OpenFile, ReceiveFile,
    ReceiveHistory, StartCli, Exit, PushFile, Ask, PushNext, Kill, Edit, Reconnect, Refused,
    Fault, server, disk, process, thread, history
<1> QED BY <1>1 DEF WholeInv, NotUpInv, DirInv

\* Whatever the workers and the clients do, and however often the server ended
\* itself, GitIsWhole: only a start that was killed or came after libgit2 leaves
\* it without a directory (main, 393-403).
THEOREM DirectoriesWhole == Spec => []GitIsWhole
<1>1. Init => WholeInv
  BY DEF Init, ServerInit, WholeInv, NotUpInv, DirInv
<1>2. WholeInv /\ [Next]_vars => WholeInv'
  <2> SUFFICES ASSUME WholeInv, [Next]_vars PROVE WholeInv' OBVIOUS
  <2>1. CASE Serve BY <2>1, ServeKeepsWhole
  <2>2. CASE \E c \in Clients : Client(c) \/ User(c) BY <2>2, ClientKeepsWhole
  <2>3. CASE UNCHANGED vars
    BY <2>3 DEF vars, server, disk, process, thread, history, WholeInv, NotUpInv, DirInv
  <2> QED BY <2>1, <2>2, <2>3 DEF Next
<1>3. WholeInv => GitIsWhole BY DEF WholeInv, DirInv, GitIsWhole
<1> QED BY <1>1, <1>2, <1>3, PTL DEF Spec

-----------------------------------------------------------------------------
(* Types.                                                                  *)

Answer == Seq(Segments \cup {"SUCCESS", "HISTORY"})

Connection ==
  [st : {"none", "open", "closed"}, eof : BOOLEAN, line : Lines \cup {NoLine},
   data : Content, answer : Answer, sent : Content, want : Content, lost : Nat]

Objects == [hash : Content \cup {Garbage}, content : Content]

PCs == {"idle", "recv", "data", "head", "write", "send"}

Places == {"off", "prompt", "next", "sending", "recv", "head", "name", "PULL", "pulling",
           "HISTORY"}

DiskInv ==
  /\ dirs \subseteq {"git", "objects", "refs", "branches"}
  /\ objects \subseteq Objects
  /\ head \in [Branches -> Content \cup {Absent, Empty, Garbage}]
  /\ faults \subseteq Faults

ThreadInv ==
  /\ pc \in [Workers -> PCs] /\ job \in [Workers -> Conns \cup {NoConn}]
  /\ req \in [Workers -> Lines \cup {NoLine}] /\ got \in [Workers -> Content]
  /\ hash \in [Workers -> Content \cup {NoHash, Garbage}]
  /\ queue \in Seq(Conns)
  /\ \A w \in Workers : (job[w] = NoConn) = (pc[w] = "idle")
  /\ \A w \in Workers : pc[w] \in {"data", "head", "write"} => req[w] \in Lines
  /\ \A w \in Workers : pc[w] \in {"head", "write"} => hash[w] \in Content \cup {Garbage}

ConnInv == conn \in [Conns -> Connection]

ClientInv ==
  /\ at \in [Clients -> Places] /\ cur \in [Clients -> Nat]
  /\ \A c \in Clients : cur[c] <= MaxConns[c]
  /\ file \in [Clients -> Content] /\ off \in [Clients -> Nat]

\* No worker has a connection that was not made yet.
FreshInv ==
  /\ \A w \in Workers : job[w] # NoConn => job[w][2] <= cur[job[w][1]]
  /\ \A i \in DOMAIN queue : queue[i][2] <= cur[queue[i][1]]

\* What a client reads into its file are segments: nothing but a PULL is served
\* on its connection.
PullInv ==
  \A c \in Clients : at[c] \in {"PULL", "pulling"} =>
    /\ C(c) \in Conns /\ conn[C(c)].answer \in Content
    /\ conn[C(c)].line # NoLine => conn[C(c)].line.kind = "PULL"
    /\ \A w \in Workers : job[w] = C(c) => pc[w] \in {"recv", "send"}

TInv == DiskInv /\ ThreadInv /\ ConnInv /\ ClientInv /\ FreshInv /\ PullInv

LEMMA ConnParts ==
  /\ \A x \in Conns : x[1] \in Clients /\ x[2] \in 1..MaxConns[x[1]] /\ x = <<x[1], x[2]>>
  /\ \A c \in Clients : \A k \in 1..MaxConns[c] : <<c, k>> \in Conns
  /\ \A c \in Clients : MaxConns[c] \in Nat
<1>1. Conns = UNION {{c} \X (1..MaxConns[c]) : c \in Clients} BY ClientAssumption
<1>2. ASSUME NEW x \in Conns
      PROVE  x[1] \in Clients /\ x[2] \in 1..MaxConns[x[1]] /\ x = <<x[1], x[2]>>
  <2>1. PICK c \in Clients : x \in {c} \X (1..MaxConns[c]) BY <1>1
  <2> QED BY <2>1
<1>3. ASSUME NEW c \in Clients, NEW k \in 1..MaxConns[c] PROVE <<c, k>> \in Conns
  <2>1. <<c, k>> \in {c} \X (1..MaxConns[c]) OBVIOUS
  <2> QED BY <1>1, <2>1
<1>4. \A c \in Clients : MaxConns[c] \in Nat BY ClientAssumption
<1> QED BY <1>2, <1>3, <1>4

LEMMA Values ==
  /\ <<>> \in Content /\ <<>> \in Answer /\ <<Text>> \in Content
  /\ <<"SUCCESS">> \in Answer /\ <<"HISTORY">> \in Answer
  /\ \A f \in Content : f \in Answer
  /\ \A f, g \in Content : f \o g \in Content
  /\ \A f, g \in Answer : f \o g \in Answer
  /\ \A f \in Content : \A t \in Segments : Append(f, t) \in Content
  /\ \A f \in Answer : \A t \in Segments : Append(f, t) \in Answer
<1>1. Text \in Segments BY LegacyAssumption
<1> QED BY <1>1 DEF Content, Answer

\* A connection both ends have closed.
LEMMA ForgetTyped ==
  ASSUME NEW r \in Connection
  PROVE  /\ Forget(r) \in Connection
         /\ Forget(r).answer \in {r.answer, <<>>} /\ Forget(r).line \in {r.line, NoLine}
<1>1. Gone \in Connection /\ Gone.answer = <<>> /\ Gone.line = NoLine
  BY Values DEF Gone, Opened, Connection
<1> QED BY <1>1 DEF Forget

\* What Dies and Close leave of a connection.
LEMMA ClosedTyped ==
  ASSUME NEW r \in Connection, NEW a \in Answer
  PROVE  [r EXCEPT !.st = "closed", !.answer = a, !.data = <<>>, !.line = NoLine] \in Connection
  BY Values DEF Connection

LEMMA CutTyped ==
  ASSUME NEW r \in Connection
  PROVE  /\ [r EXCEPT !.st = "closed", !.line = NoLine, !.data = <<>>] \in Connection
         /\ [r EXCEPT !.eof = TRUE] \in Connection
  BY Values DEF Connection

LEMMA DiesTyped ==
  ASSUME TInv, Dies, UNCHANGED client
  PROVE  ThreadInv' /\ ConnInv' /\ ClientInv' /\ FreshInv' /\ PullInv'
<1>0. /\ <<>> \in Seq(Conns) /\ Len(<<>>) = 0
      /\ \A q \in Seq(Conns) : DOMAIN q = 1..Len(q)
  OBVIOUS
<1>1. ThreadInv'
  <2>1. /\ pc' \in [Workers -> PCs] /\ job' \in [Workers -> Conns \cup {NoConn}]
        /\ req' \in [Workers -> Lines \cup {NoLine}] /\ got' \in [Workers -> Content]
        /\ hash' \in [Workers -> Content \cup {NoHash, Garbage}]
    BY Values DEF Dies, PCs
  <2>2. \A w \in Workers : pc'[w] = "idle" /\ job'[w] = NoConn BY DEF Dies
  <2>3. queue' \in Seq(Conns) BY <1>0 DEF Dies
  <2> QED BY <2>1, <2>2, <2>3 DEF ThreadInv
<1>2. ASSUME NEW x \in Conns
      PROVE  /\ conn'[x] \in Connection /\ conn'[x].answer \in {conn[x].answer, <<>>}
             /\ conn'[x].line \in {conn[x].line, NoLine}
  <2> DEFINE r == [conn[x] EXCEPT !.st = "closed", !.line = NoLine, !.data = <<>>]
  <2>1. conn[x] \in Connection BY DEF TInv, ConnInv
  <2>2. r \in Connection /\ r.answer = conn[x].answer /\ r.line = NoLine
    BY <2>1, CutTyped DEF Connection
  <2>3. conn'[x] \in {conn[x], Forget(r)} BY DEF Dies
  <2> HIDE DEF r
  <2> QED BY <2>1, <2>2, <2>3, ForgetTyped
<1>3. ConnInv'
  <2>1. conn' = [x \in Conns |-> conn'[x]] BY DEF Dies
  <2> QED BY <1>2, <2>1 DEF ConnInv
<1>4. ClientInv' BY DEF TInv, ClientInv, client
<1>5. FreshInv'
  <2>1. \A w \in Workers : job'[w] = NoConn BY DEF Dies
  <2>2. queue' = <<>> BY DEF Dies
  <2>3. DOMAIN queue' = {} BY <1>0, <2>2
  <2> QED BY <2>1, <2>3 DEF FreshInv
<1>6. PullInv'
  <2> SUFFICES ASSUME NEW c \in Clients, at[c] \in {"PULL", "pulling"}
               PROVE  /\ C(c) \in Conns /\ conn'[C(c)].answer \in Content
                      /\ conn'[C(c)].line # NoLine => conn'[C(c)].line.kind = "PULL"
                      /\ \A v \in Workers : job'[v] = C(c) => pc'[v] \in {"recv", "send"}
    BY DEF PullInv, C, client
  <2>1. /\ C(c) \in Conns /\ conn[C(c)].answer \in Content
        /\ conn[C(c)].line # NoLine => conn[C(c)].line.kind = "PULL"
    BY DEF TInv, PullInv
  <2>2. \A v \in Workers : job'[v] # C(c) BY <2>1, LegacyAssumption DEF Dies
  <2> QED BY <1>2, <2>1, <2>2, Values
<1> QED BY <1>1, <1>3, <1>4, <1>5, <1>6

LEMMA CloseTyped ==
  ASSUME TInv, NEW w \in Workers, NEW text \in Answer, Close(w, text), UNCHANGED client,
         pc[w] # "idle",
         \A c \in Clients : at[c] \in {"PULL", "pulling"} /\ C(c) = job[w] => text \in Content
  PROVE  ThreadInv' /\ ConnInv' /\ ClientInv' /\ FreshInv' /\ PullInv'
<1> DEFINE x == job[w]
           closed(a) == [conn[x] EXCEPT !.st = "closed", !.answer = a, !.data = <<>>,
                                        !.line = NoLine]
<1>1. x \in Conns /\ conn[x] \in Connection BY DEF TInv, ThreadInv, ConnInv
<1>2. PICK a \in {conn[x].answer \o text, <<>>} : conn' = [conn EXCEPT ![x] = Forget(closed(a))]
  BY DEF Close
<1>3. conn[x].answer \in Answer BY <1>1 DEF Connection
<1>4. a \in Answer BY <1>2, <1>3, Values
<1>5. closed(a) \in Connection /\ closed(a).answer = a /\ closed(a).line = NoLine
  BY <1>1, <1>4, ClosedTyped DEF Connection
<1>6. /\ Forget(closed(a)) \in Connection /\ Forget(closed(a)).answer \in {a, <<>>}
      /\ Forget(closed(a)).line = NoLine
  BY <1>5, ForgetTyped
<1>7. ThreadInv' BY Values DEF TInv, ThreadInv, Close, PCs, process
<1>8. ConnInv' BY <1>2, <1>6 DEF TInv, ConnInv
<1>9. ClientInv' BY DEF TInv, ClientInv, client
<1>10. FreshInv' BY DEF TInv, FreshInv, Close, process, client, ThreadInv
<1>11. PullInv'
  <2> SUFFICES ASSUME NEW c \in Clients, at[c] \in {"PULL", "pulling"}
               PROVE  /\ C(c) \in Conns /\ conn'[C(c)].answer \in Content
                      /\ conn'[C(c)].line # NoLine => conn'[C(c)].line.kind = "PULL"
                      /\ \A v \in Workers : job'[v] = C(c) => pc'[v] \in {"recv", "send"}
    BY DEF PullInv, C, client
  <2>1. /\ C(c) \in Conns /\ conn[C(c)].answer \in Content
        /\ conn[C(c)].line # NoLine => conn[C(c)].line.kind = "PULL"
        /\ \A v \in Workers : job[v] = C(c) => pc[v] \in {"recv", "send"}
    BY DEF TInv, PullInv
  <2>2. \A v \in Workers : job'[v] = C(c) => pc'[v] \in {"recv", "send"}
    BY <2>1, LegacyAssumption DEF Close, TInv, ThreadInv
  <2>3. CASE C(c) = x
    <3>1. conn'[C(c)] = Forget(closed(a)) BY <1>1, <1>2, <2>3 DEF TInv, ConnInv
    <3>2. a \in Content BY <1>2, <2>1, <2>3, Values
    <3> QED BY <1>6, <2>1, <2>2, <3>1, <3>2, Values
  <2>4. CASE C(c) # x
    <3>1. conn'[C(c)] = conn[C(c)] BY <1>2, <2>1, <2>4 DEF TInv, ConnInv
    <3> QED BY <2>1, <2>2, <3>1
  <2> QED BY <2>3, <2>4
<1> QED BY <1>7, <1>8, <1>9, <1>10, <1>11

LEMMA UnwrittenTyped == ASSUME DiskInv PROVE Unwritten \subseteq Content \cup {NoHash, Garbage}
  BY DEF DiskInv, Objects, Unwritten

LEMMA WorkerKeepsDisk ==
  ASSUME TInv, NEW w \in Workers, Worker(w) PROVE DiskInv'
<1>1. CASE SaveObject(w)
  <2>1. PICK h \in Unwritten \cup {got[w]} :
          /\ compute_sha1(w, h)
          /\ objects' = objects \/ (objects' = Put(h, got[w]) /\ h # NoHash)
    BY <1>1 DEF SaveObject
  <2>2. got[w] \in Content BY DEF TInv, ThreadInv
  <2>3. h \in Content \cup {NoHash, Garbage} BY <2>1, <2>2, UnwrittenTyped DEF TInv
  <2>4. objects' \subseteq Objects
    <3>1. ASSUME h # NoHash PROVE [hash |-> h, content |-> got[w]] \in Objects
      BY <2>2, <2>3, <3>1 DEF Objects
    <3> QED BY <2>1, <3>1 DEF Put, TInv, DiskInv
  <2>5. faults' \subseteq Faults
    BY <2>1 DEF compute_sha1, Fault, history, TInv, DiskInv
  <2> QED BY <1>1, <2>4, <2>5 DEF SaveObject, TInv, DiskInv
<1>2. CASE OpenHead(w) BY <1>2 DEF OpenHead, Fault, TInv, DiskInv
<1>3. CASE WriteHead(w)
  <2>1. hash[w] \in Content \cup {Garbage} BY <1>3 DEF WriteHead, TInv, ThreadInv
  <2> QED BY <1>3, <2>1 DEF WriteHead, history, TInv, DiskInv
<1>4. CASE MkstempFails(w) BY <1>4 DEF MkstempFails, Fault, disk, TInv, DiskInv
<1>5. CASE handle_pull(w) \/ handle_history(w)
  BY <1>5 DEF handle_pull, handle_history, read_branch_head, Fault, disk, TInv, DiskInv
<1>6. CASE \/ dequeue_client(w) \/ ReceiveNothing(w) \/ ReceivePush(w) \/ LineOverflows(w)
           \/ ReceiveData(w) \/ LoseConnection(w) \/ SendSegment(w) \/ SendFails(w)
  BY <1>6 DEF dequeue_client, ReceiveNothing, ReceivePush, LineOverflows, ReceiveData,
    LoseConnection, SendSegment, SendFails, disk, history, TInv, DiskInv
<1> QED BY <1>1, <1>2, <1>3, <1>4, <1>5, <1>6 DEF Worker

ServedInv == ThreadInv /\ ConnInv /\ ClientInv /\ FreshInv /\ PullInv

\* A step of worker w that keeps its connection and does no more to it than to
\* take what it received, or to send a segment.
LEMMA StepTyped ==
  ASSUME TInv, NEW w \in Workers, pc[w] # "idle", UNCHANGED client,
         UNCHANGED <<queue, job>>,
         NEW r \in Connection,
         conn' = [conn EXCEPT ![job[w]] = r] \/ UNCHANGED conn,
         r.answer \in {conn[job[w]].answer}
           \cup {Append(conn[job[w]].answer, s) : s \in Segments},
         r.line \in {conn[job[w]].line, NoLine},
         NEW place \in PCs \ {"idle"}, pc' = [pc EXCEPT ![w] = place],
         place \in {"recv", "send"}
           \/ \A c \in Clients : at[c] \in {"PULL", "pulling"} => job[w] # C(c),
         req' \in [Workers -> Lines \cup {NoLine}], got' \in [Workers -> Content],
         hash' \in [Workers -> Content \cup {NoHash, Garbage}],
         \A v \in Workers : pc'[v] \in {"data", "head", "write"} => req'[v] \in Lines,
         \A v \in Workers : pc'[v] \in {"head", "write"} => hash'[v] \in Content \cup {Garbage}
  PROVE  ServedInv'
<1>1. ThreadInv' BY DEF TInv, ThreadInv
<1>2. job[w] \in Conns BY DEF TInv, ThreadInv
<1>3. ConnInv' BY DEF TInv, ConnInv
<1>4. ClientInv' BY DEF TInv, ClientInv, client
<1>5. FreshInv' BY DEF TInv, FreshInv, client
<1>6. PullInv'
  <2> SUFFICES ASSUME NEW c \in Clients, at[c] \in {"PULL", "pulling"}
               PROVE  /\ C(c) \in Conns /\ conn'[C(c)].answer \in Content
                      /\ conn'[C(c)].line # NoLine => conn'[C(c)].line.kind = "PULL"
                      /\ \A v \in Workers : job'[v] = C(c) => pc'[v] \in {"recv", "send"}
    BY DEF PullInv, C, client
  <2>1. /\ C(c) \in Conns /\ conn[C(c)].answer \in Content
        /\ conn[C(c)].line # NoLine => conn[C(c)].line.kind = "PULL"
        /\ \A v \in Workers : job[v] = C(c) => pc[v] \in {"recv", "send"}
    BY DEF TInv, PullInv
  <2>2. \A v \in Workers : job'[v] = C(c) => pc'[v] \in {"recv", "send"}
    BY <2>1 DEF TInv, ThreadInv
  <2>3. conn'[C(c)] \in {conn[C(c)], r} /\ (conn'[C(c)] # conn[C(c)] => C(c) = job[w])
    BY <1>2, <2>1 DEF TInv, ConnInv
  <2>4. CASE conn'[C(c)] = conn[C(c)] BY <2>1, <2>2, <2>4
  <2>5. CASE conn'[C(c)] = r /\ C(c) = job[w]
    <3>1. r.answer \in Content
      <4>1. conn[job[w]].answer \in Content BY <2>1, <2>5
      <4>2. CASE r.answer = conn[job[w]].answer BY <4>1, <4>2
      <4>3. CASE \E s \in Segments : r.answer = Append(conn[job[w]].answer, s)
        BY <4>1, <4>3, Values
      <4> QED BY <4>2, <4>3
    <3>2. r.line # NoLine => r.line.kind = "PULL" BY <2>1, <2>5
    <3> QED BY <2>1, <2>2, <2>5, <3>1, <3>2
  <2> QED BY <2>3, <2>4, <2>5
<1> QED BY <1>1, <1>3, <1>4, <1>5, <1>6 DEF ServedInv

LEMMA ConnTyped ==
  ASSUME TInv, NEW w \in Workers, pc[w] # "idle"
  PROVE  job[w] \in Conns /\ conn[job[w]] \in Connection
  BY DEF TInv, ThreadInv, ConnInv

\* A suffix, a prefix, and what is between them.
LEMMA Parts ==
  ASSUME NEW f \in Content, NEW n \in Nat, NEW k \in 0..Len(f)
  PROVE  SubSeq(f, n + 1, k) \in Content /\ SubSeq(f, k + 1, Len(f)) \in Content
  BY DEF Content

\* A client that waits for what it pulls is served by no push.
LEMMA NoPull ==
  ASSUME TInv, NEW w \in Workers, pc[w] \in {"data", "head", "write"},
         NEW c \in Clients, at[c] \in {"PULL", "pulling"}
  PROVE  job[w] # C(c)
  BY DEF TInv, PullInv

LEMMA WorkerKeepsServed ==
  ASSUME TInv, NEW w \in Workers, Worker(w), UNCHANGED client PROVE ServedInv'
<1>1. CASE dequeue_client(w)
  <2>1. Head(queue) \in Conns /\ Tail(queue) \in Seq(Conns) /\ queue[1] = Head(queue)
        /\ 1 \in DOMAIN queue
        /\ \A i \in DOMAIN Tail(queue) : i + 1 \in DOMAIN queue /\ Tail(queue)[i] = queue[i + 1]
    BY <1>1 DEF dequeue_client, TInv, ThreadInv
  <2>2. ThreadInv' BY <1>1, <2>1, LegacyAssumption DEF dequeue_client, TInv, ThreadInv, PCs
  <2>3. ConnInv' /\ ClientInv' BY <1>1 DEF dequeue_client, TInv, ConnInv, ClientInv, client
  <2>4. FreshInv' BY <1>1, <2>1 DEF dequeue_client, TInv, FreshInv, ThreadInv, client
  <2>5. PullInv' BY <1>1, <2>1 DEF dequeue_client, TInv, ThreadInv, PullInv, client, C
  <2> QED BY <2>2, <2>3, <2>4, <2>5 DEF ServedInv
<1>2. CASE ReceiveNothing(w)
  BY <1>2, CloseTyped, Values DEF ReceiveNothing, ServedInv
<1>3. CASE ReceivePush(w)
  <2> DEFINE x == job[w]
             line == conn[x].line
  <2>1. pc[w] = "recv" /\ line # NoLine /\ line.kind = "PUSH" BY <1>3 DEF ReceivePush
  <2>12. PICK k \in 0..Len(conn[x].data) : \E n \in Lost(line.newline, k) :
          /\ got' = [got EXCEPT ![w] = SubSeq(conn[x].data, n + 1, k)]
          /\ conn' = [conn EXCEPT ![x].line = NoLine, ![x].lost = n,
                                  ![x].data = SubSeq(@, k + 1, Len(@))]
    BY <1>3 DEF ReceivePush
  <2>2. PICK n \in Lost(line.newline, k) :
          /\ got' = [got EXCEPT ![w] = SubSeq(conn[x].data, n + 1, k)]
          /\ conn' = [conn EXCEPT ![x].line = NoLine, ![x].lost = n,
                                  ![x].data = SubSeq(@, k + 1, Len(@))]
    BY <2>12
  <2>3. x \in Conns /\ conn[x] \in Connection BY <2>1, ConnTyped
  <2>4. conn[x].data \in Content /\ line \in Lines BY <2>1, <2>3 DEF Connection
  <2>5. n \in Nat BY <2>2, <2>4 DEF Lost, Content
  <2>6. /\ SubSeq(conn[x].data, n + 1, k) \in Content
        /\ SubSeq(conn[x].data, k + 1, Len(conn[x].data)) \in Content
    BY <2>2, <2>4, <2>5, Parts
  <2> DEFINE r == [conn[x] EXCEPT !.line = NoLine, !.lost = n,
                     !.data = SubSeq(conn[x].data, k + 1, Len(conn[x].data))]
  <2>7. r \in Connection /\ r.answer = conn[x].answer /\ r.line = NoLine
    BY <2>3, <2>5, <2>6 DEF Connection
  <2>8. conn' = [conn EXCEPT ![x] = r] BY <2>2, <2>3 DEF TInv, ConnInv
  <2>9. \A c \in Clients : at[c] \in {"PULL", "pulling"} => x # C(c)
    BY <2>1 DEF TInv, PullInv
  <2>10. /\ UNCHANGED <<queue, job, hash>> /\ pc' = [pc EXCEPT ![w] = "data"]
         /\ req' = [req EXCEPT ![w] = line]
    BY <1>3 DEF ReceivePush, process
  <2>11. /\ req' \in [Workers -> Lines \cup {NoLine}] /\ got' \in [Workers -> Content]
         /\ hash' \in [Workers -> Content \cup {NoHash, Garbage}]
         /\ \A v \in Workers : pc'[v] \in {"data", "head", "write"} => req'[v] \in Lines
         /\ \A v \in Workers : pc'[v] \in {"head", "write"} => hash'[v] \in Content \cup {Garbage}
    BY <2>2, <2>4, <2>6, <2>10 DEF TInv, ThreadInv
  <2> HIDE DEF r, line
  <2> QED BY <2>1, <2>7, <2>8, <2>9, <2>10, <2>11, StepTyped DEF PCs
<1>4. CASE LineOverflows(w)
  BY <1>4, DiesTyped DEF LineOverflows, ServedInv
<1>5. CASE MkstempFails(w)
  BY <1>5, CloseTyped, Values DEF MkstempFails, ServedInv
<1>6. CASE ReceiveData(w)
  <2> DEFINE x == job[w]
  <2>1. PICK k \in 1..Len(conn[x].data) :
          /\ got' = [got EXCEPT ![w] = @ \o SubSeq(conn[x].data, 1, k)]
          /\ conn' = [conn EXCEPT ![x].data = SubSeq(@, k + 1, Len(@))]
    BY <1>6 DEF ReceiveData
  <2>2. pc[w] = "data" /\ UNCHANGED <<queue, job, hash, req, pc>>
    BY <1>6 DEF ReceiveData, process
  <2>3. x \in Conns /\ conn[x] \in Connection BY <2>2, ConnTyped
  <2>4. conn[x].data \in Content BY <2>3 DEF Connection
  <2>5. /\ SubSeq(conn[x].data, 0 + 1, k) \in Content
        /\ SubSeq(conn[x].data, k + 1, Len(conn[x].data)) \in Content
    <3>1. k \in 0..Len(conn[x].data) BY <2>1, <2>4 DEF Content
    <3> QED BY <3>1, <2>4, Parts
  <2> DEFINE r == [conn[x] EXCEPT !.data = SubSeq(conn[x].data, k + 1, Len(conn[x].data))]
  <2>6. r \in Connection /\ r.answer = conn[x].answer /\ r.line = conn[x].line
    BY <2>3, <2>5 DEF Connection
  <2>7. conn' = [conn EXCEPT ![x] = r] BY <2>1
  <2>8. got' \in [Workers -> Content]
    <3>1. got[w] \in Content BY DEF TInv, ThreadInv
    <3>2. got[w] \o SubSeq(conn[x].data, 1, k) \in Content BY <2>5, <3>1, Values
    <3> QED BY <2>1, <3>2 DEF TInv, ThreadInv
  <2>9. \A c \in Clients : at[c] \in {"PULL", "pulling"} => x # C(c) BY <2>2, NoPull
  <2>10. pc' = [pc EXCEPT ![w] = "data"] BY <2>2 DEF TInv, ThreadInv
  <2>11. /\ req' \in [Workers -> Lines \cup {NoLine}]
         /\ hash' \in [Workers -> Content \cup {NoHash, Garbage}]
         /\ \A v \in Workers : pc'[v] \in {"data", "head", "write"} => req'[v] \in Lines
         /\ \A v \in Workers : pc'[v] \in {"head", "write"} => hash'[v] \in Content \cup {Garbage}
    BY <2>2 DEF TInv, ThreadInv
  <2> HIDE DEF r
  <2> QED BY <2>2, <2>6, <2>7, <2>8, <2>9, <2>10, <2>11, StepTyped DEF PCs
<1>7. CASE LoseConnection(w)
  BY <1>7, CloseTyped, Values DEF LoseConnection, ServedInv
<1>8. CASE SaveObject(w)
  <2>1. pc[w] = "data" BY <1>8 DEF SaveObject
  <2>2. PICK h \in Unwritten \cup {got[w]} :
          \/ /\ hash' = [hash EXCEPT ![w] = h] /\ h # NoHash
             /\ pc' = [pc EXCEPT ![w] = "head"] /\ UNCHANGED <<process, job, req, got, conn>>
          \/ Close(w, <<Text>>)
    BY <1>8 DEF SaveObject
  <2>3. CASE Close(w, <<Text>>) BY <2>1, <2>3, CloseTyped, Values DEF ServedInv
  <2>4. CASE ~Close(w, <<Text>>)
    <3>1. h \in Content \cup {Garbage}
      BY <2>2, <2>4, UnwrittenTyped DEF TInv, ThreadInv
    <3>2. \A c \in Clients : at[c] \in {"PULL", "pulling"} => job[w] # C(c) BY <2>1, NoPull
    <3>3. /\ UNCHANGED <<queue, job, req, got, conn>> /\ pc' = [pc EXCEPT ![w] = "head"]
          /\ hash' = [hash EXCEPT ![w] = h]
      BY <2>2, <2>4 DEF process
    <3>4. /\ req' \in [Workers -> Lines \cup {NoLine}] /\ got' \in [Workers -> Content]
          /\ hash' \in [Workers -> Content \cup {NoHash, Garbage}]
          /\ \A v \in Workers : pc'[v] \in {"data", "head", "write"} => req'[v] \in Lines
          /\ \A v \in Workers : pc'[v] \in {"head", "write"} => hash'[v] \in Content \cup {Garbage}
      BY <2>1, <3>1, <3>3 DEF TInv, ThreadInv
    <3>5. conn[job[w]] \in Connection BY <2>1, ConnTyped
    <3> QED BY <2>1, <3>2, <3>3, <3>4, <3>5, StepTyped DEF PCs
  <2> QED BY <2>3, <2>4
<1>9. CASE OpenHead(w)
  <2>1. pc[w] = "head" BY <1>9 DEF OpenHead
  <2>2. CASE Dies BY <2>2, DiesTyped DEF ServedInv
  <2>3. CASE ~Dies
    <3>1. /\ UNCHANGED <<queue, job, req, got, hash, conn>>
          /\ pc' = [pc EXCEPT ![w] = "write"]
      BY <1>9, <2>3 DEF OpenHead, process
    <3>2. \A c \in Clients : at[c] \in {"PULL", "pulling"} => job[w] # C(c) BY <2>1, NoPull
    <3>3. /\ req' \in [Workers -> Lines \cup {NoLine}] /\ got' \in [Workers -> Content]
          /\ hash' \in [Workers -> Content \cup {NoHash, Garbage}]
          /\ \A v \in Workers : pc'[v] \in {"data", "head", "write"} => req'[v] \in Lines
          /\ \A v \in Workers : pc'[v] \in {"head", "write"} => hash'[v] \in Content \cup {Garbage}
      BY <2>1, <3>1 DEF TInv, ThreadInv
    <3>4. conn[job[w]] \in Connection BY <2>1, ConnTyped
    <3> QED BY <2>1, <3>1, <3>2, <3>3, <3>4, StepTyped DEF PCs
  <2> QED BY <2>2, <2>3
<1>10. CASE WriteHead(w)
  <2>1. \A c \in Clients : at[c] \in {"PULL", "pulling"} => C(c) # job[w]
    BY <1>10, NoPull DEF WriteHead
  <2> QED BY <1>10, <2>1, CloseTyped, Values DEF WriteHead, ServedInv
<1>11. CASE handle_pull(w)
  <2> DEFINE x == job[w]
  <2>1. pc[w] = "recv" BY <1>11 DEF handle_pull
  <2>2. CASE Close(w, <<Text>>) BY <2>1, <2>2, CloseTyped, Values DEF ServedInv
  <2>3. CASE ~Close(w, <<Text>>)
    <3>1. PICK h : \E f \in Files(h) :
            /\ got' = [got EXCEPT ![w] = f] /\ pc' = [pc EXCEPT ![w] = "send"]
            /\ conn' = [conn EXCEPT ![x].line = NoLine]
            /\ UNCHANGED <<process, job, req, hash>>
      BY <1>11, <2>3 DEF handle_pull
    <3>2. Files(h) \subseteq Content BY DEF Files, TInv, DiskInv, Objects
    <3>3. conn[x] \in Connection BY <2>1, ConnTyped
    <3> DEFINE r == [conn[x] EXCEPT !.line = NoLine]
    <3>4. r \in Connection /\ r.answer = conn[x].answer /\ r.line = NoLine
      BY <3>3 DEF Connection
    <3>5. conn' = [conn EXCEPT ![x] = r] BY <3>1
    <3>6. /\ req' \in [Workers -> Lines \cup {NoLine}] /\ got' \in [Workers -> Content]
          /\ hash' \in [Workers -> Content \cup {NoHash, Garbage}]
          /\ \A v \in Workers : pc'[v] \in {"data", "head", "write"} => req'[v] \in Lines
          /\ \A v \in Workers : pc'[v] \in {"head", "write"} => hash'[v] \in Content \cup {Garbage}
      BY <3>1, <3>2 DEF TInv, ThreadInv
    <3>7. UNCHANGED <<queue, job>> /\ pc' = [pc EXCEPT ![w] = "send"] BY <3>1 DEF process
    <3> HIDE DEF r
    <3> QED BY <2>1, <3>4, <3>5, <3>6, <3>7, StepTyped DEF PCs
  <2> QED BY <2>2, <2>3
<1>12. CASE SendSegment(w)
  <2> DEFINE x == job[w]
  <2>1. pc[w] = "send" BY <1>12 DEF SendSegment
  <2>2. CASE Close(w, <<>>) BY <2>1, <2>2, CloseTyped, Values DEF ServedInv
  <2>3. CASE ~Close(w, <<>>)
    <3>1. /\ got[w] # <<>> /\ got' = [got EXCEPT ![w] = Tail(@)]
          /\ conn' = [conn EXCEPT ![x].answer =
                        IF conn[x].eof THEN @ ELSE Append(@, Head(got[w]))]
          /\ UNCHANGED <<queue, pc, job, req, hash>>
      BY <1>12, <2>3 DEF SendSegment, process
    <3>2. got[w] \in Content BY DEF TInv, ThreadInv
    <3>3. Head(got[w]) \in Segments /\ Tail(got[w]) \in Content BY <3>1, <3>2 DEF Content
    <3>4. conn[x] \in Connection BY <2>1, ConnTyped
    <3> DEFINE a == IF conn[x].eof THEN conn[x].answer ELSE Append(conn[x].answer, Head(got[w]))
               r == [conn[x] EXCEPT !.answer = a]
    <3>5. a \in Answer BY <3>3, <3>4, Values DEF Connection
    <3>6. r \in Connection /\ r.answer = a /\ r.line = conn[x].line
      BY <3>4, <3>5 DEF Connection
    <3>7. conn' = [conn EXCEPT ![x] = r] BY <3>1
    <3>8. r.answer \in {conn[x].answer} \cup {Append(conn[x].answer, s) : s \in Segments}
      BY <3>3, <3>6
    <3>9. /\ req' \in [Workers -> Lines \cup {NoLine}] /\ got' \in [Workers -> Content]
          /\ hash' \in [Workers -> Content \cup {NoHash, Garbage}]
          /\ \A v \in Workers : pc'[v] \in {"data", "head", "write"} => req'[v] \in Lines
          /\ \A v \in Workers : pc'[v] \in {"head", "write"} => hash'[v] \in Content \cup {Garbage}
      BY <3>1, <3>3 DEF TInv, ThreadInv
    <3>10. UNCHANGED <<queue, job>> /\ pc' = [pc EXCEPT ![w] = "send"]
      BY <2>1, <3>1 DEF TInv, ThreadInv
    <3> HIDE DEF r, a
    <3> QED BY <2>1, <3>6, <3>7, <3>8, <3>9, <3>10, StepTyped DEF PCs
  <2> QED BY <2>2, <2>3
<1>13. CASE SendFails(w)
  BY <1>13, CloseTyped, DiesTyped, Values DEF SendFails, ServedInv
<1>14. CASE handle_history(w)
  <2>1. pc[w] = "recv" /\ conn[job[w]].line # NoLine /\ conn[job[w]].line.kind = "HISTORY"
    BY <1>14 DEF handle_history
  <2>2. \A c \in Clients : at[c] \in {"PULL", "pulling"} => C(c) # job[w]
    BY <2>1 DEF TInv, PullInv
  <2>3. Dies \/ Close(w, <<Text>>) \/ Close(w, <<"HISTORY">>) BY <1>14 DEF handle_history
  <2> QED BY <2>1, <2>2, <2>3, CloseTyped, DiesTyped, Values DEF ServedInv
<1> QED BY <1>1, <1>2, <1>3, <1>4, <1>5, <1>6, <1>7, <1>8, <1>9, <1>10, <1>11, <1>12,
           <1>13, <1>14 DEF Worker

\* A client hangs up.
LEMMA HangUpTyped ==
  ASSUME TInv, NEW c \in Clients, HangUp(c)
  PROVE  /\ ConnInv'
         /\ \A x \in Conns : /\ conn'[x].answer \in {conn[x].answer, <<>>}
                             /\ conn'[x].line \in {conn[x].line, NoLine}
<1>1. ASSUME NEW x \in Conns
      PROVE  /\ conn'[x] \in Connection /\ conn'[x].answer \in {conn[x].answer, <<>>}
             /\ conn'[x].line \in {conn[x].line, NoLine}
  <2> DEFINE r == [conn[x] EXCEPT !.eof = TRUE]
  <2>1. conn[x] \in Connection BY DEF TInv, ConnInv
  <2>2. r \in Connection /\ r.answer = conn[x].answer /\ r.line = conn[x].line
    BY <2>1, CutTyped DEF Connection
  <2>3. conn'[x] \in {conn[x], Forget(r)} BY DEF HangUp
  <2> HIDE DEF r
  <2> QED BY <2>1, <2>2, <2>3, ForgetTyped
<1>2. conn' = [x \in Conns |-> conn'[x]] BY DEF HangUp
<1> QED BY <1>1, <1>2 DEF ConnInv

\* A step of client c that makes no connection.
LEMMA ClientStepTyped ==
  ASSUME TInv, NEW c \in Clients, UNCHANGED <<disk, process, thread, cur>>,
         faults' \subseteq Faults, ConnInv',
         \A x \in Conns : /\ conn'[x].answer \in {conn[x].answer, <<>>} \/ x # C(c)
                             \/ conn'[x].answer \in Content
                          /\ x # C(c) => conn'[x].answer \in {conn[x].answer, <<>>}
                          /\ conn'[x].line \in {conn[x].line, NoLine},
         NEW place \in Places, at' = [at EXCEPT ![c] = place],
         place \in {"PULL", "pulling"} => at[c] \in {"PULL", "pulling"},
         file' \in [Clients -> Content], off' \in [Clients -> Nat]
  PROVE  TInv'
<1>1. DiskInv' BY DEF TInv, DiskInv, disk
<1>2. ThreadInv' BY DEF TInv, ThreadInv, thread, process
<1>3. ClientInv' BY DEF TInv, ClientInv
<1>4. FreshInv' BY DEF TInv, FreshInv, thread, process
<1>5. PullInv'
  <2> SUFFICES ASSUME NEW d \in Clients, at'[d] \in {"PULL", "pulling"}
               PROVE  /\ C(d) \in Conns /\ conn'[C(d)].answer \in Content
                      /\ conn'[C(d)].line # NoLine => conn'[C(d)].line.kind = "PULL"
                      /\ \A v \in Workers : job[v] = C(d) => pc[v] \in {"recv", "send"}
    BY DEF PullInv, C, thread
  <2>1. at[d] \in {"PULL", "pulling"} BY DEF TInv, ClientInv
  <2>2. /\ C(d) \in Conns /\ conn[C(d)].answer \in Content
        /\ conn[C(d)].line # NoLine => conn[C(d)].line.kind = "PULL"
        /\ \A v \in Workers : job[v] = C(d) => pc[v] \in {"recv", "send"}
    BY <2>1 DEF TInv, PullInv
  <2> QED BY <2>2, Values
<1> QED BY <1>1, <1>2, <1>3, <1>4, <1>5 DEF TInv

\* close, connect and send of a line.
LEMMA ReconnectTyped ==
  ASSUME TInv, NEW c \in Clients, NEW line \in Lines \cup {NoLine}, NEW f \in Content,
         Reconnect(c, line, f),
         NEW place \in Places, at' = [at EXCEPT ![c] = place],
         place \in {"PULL", "pulling"} => line.kind = "PULL",
         file' \in [Clients -> Content], off' \in [Clients -> Nat]
  PROVE  TInv'
<1> DEFINE new == <<c, cur[c] + 1>>
<1>1. new \in Conns /\ cur[c] + 1 \in Nat /\ cur[c] + 1 <= MaxConns[c]
  <2>1. cur[c] \in Nat /\ cur[c] < MaxConns[c] /\ MaxConns[c] \in Nat
    BY ConnParts DEF Reconnect, TInv, ClientInv
  <2>2. cur[c] + 1 \in 1..MaxConns[c] BY <2>1
  <2> QED BY <2>1, <2>2, ConnParts
<1>2. Opened(line, f) \in Connection /\ Opened(line, f).answer = <<>>
      /\ Opened(line, f).line = line
  BY Values DEF Opened, Connection
<1>3. ASSUME NEW x \in Conns
      PROVE  /\ conn'[x] \in Connection
             /\ x = new => conn'[x] = Opened(line, f)
             /\ x[1] # c => conn'[x] = conn[x]
  <2> DEFINE r == [conn[x] EXCEPT !.eof = TRUE]
  <2>1. conn[x] \in Connection BY DEF TInv, ConnInv
  <2>2. r \in Connection BY <2>1, CutTyped
  <2>3. Forget(r) \in Connection BY <2>2, ForgetTyped
  <2>4. conn'[x] = IF x = new THEN Opened(line, f) ELSE IF x = C(c) THEN Forget(r) ELSE conn[x]
    BY DEF Reconnect
  <2> HIDE DEF r
  <2>5. x[1] # c => x # new /\ x # C(c) BY DEF C
  <2> QED BY <1>2, <2>1, <2>3, <2>4, <2>5
<1>4. ConnInv'
  <2>1. conn' = [x \in Conns |-> conn'[x]] BY DEF Reconnect
  <2> QED BY <1>3, <2>1 DEF ConnInv
<1>5. cur' = [cur EXCEPT ![c] = @ + 1] /\ UNCHANGED <<disk, thread, history>>
      /\ queue' = Append(queue, new)
  BY DEF Reconnect, enqueue_client
<1>6. DiskInv' BY <1>5 DEF TInv, DiskInv, disk, history
<1>7. ThreadInv'
  <2>1. queue' \in Seq(Conns) BY <1>1, <1>5 DEF TInv, ThreadInv
  <2> QED BY <1>5, <2>1 DEF TInv, ThreadInv, thread
<1>8. ClientInv' BY <1>1, <1>5 DEF TInv, ClientInv
<1>9. \A d \in Clients : cur[d] \in Nat /\ cur'[d] \in Nat /\ cur[d] <= cur'[d]
  BY <1>5 DEF TInv, ClientInv
<1>10. FreshInv'
  <2>1. ASSUME NEW w \in Workers, job[w] # NoConn PROVE job[w][2] <= cur'[job[w][1]]
    <3>1. job[w] \in Conns /\ job[w][2] <= cur[job[w][1]]
      BY <2>1 DEF TInv, ThreadInv, FreshInv
    <3>2. job[w][1] \in Clients /\ job[w][2] \in Nat BY <3>1, ConnParts
    <3> QED BY <1>9, <3>1, <3>2
  <2>2. ASSUME NEW i \in DOMAIN queue' PROVE queue'[i][2] <= cur'[queue'[i][1]]
    <3>1. queue \in Seq(Conns) BY DEF TInv, ThreadInv
    <3>2. (i \in DOMAIN queue /\ queue'[i] = queue[i]) \/ queue'[i] = new
      BY <1>5, <3>1
    <3>3. CASE i \in DOMAIN queue /\ queue'[i] = queue[i]
      <4>1. queue[i] \in Conns /\ queue[i][2] <= cur[queue[i][1]]
        BY <3>1, <3>3 DEF TInv, FreshInv
      <4>2. queue[i][1] \in Clients /\ queue[i][2] \in Nat BY <4>1, ConnParts
      <4> QED BY <1>9, <3>3, <4>1, <4>2
    <3>4. CASE queue'[i] = new
      <4>1. new[1] = c /\ new[2] = cur[c] + 1 OBVIOUS
      <4>2. cur'[c] = cur[c] + 1 BY <1>5 DEF TInv, ClientInv
      <4> QED BY <1>1, <3>4, <4>1, <4>2
    <3> QED BY <3>2, <3>3, <3>4
  <2> QED BY <1>5, <2>1, <2>2 DEF FreshInv, thread
<1>11. PullInv'
  <2> SUFFICES ASSUME NEW d \in Clients, at'[d] \in {"PULL", "pulling"}
               PROVE  /\ C(d)' \in Conns /\ conn'[C(d)'].answer \in Content
                      /\ conn'[C(d)'].line # NoLine => conn'[C(d)'].line.kind = "PULL"
                      /\ \A v \in Workers : job[v] = C(d)' => pc[v] \in {"recv", "send"}
    BY <1>5 DEF PullInv, thread
  <2>1. CASE d = c
    <3>1. C(d)' = new BY <1>5, <2>1 DEF C, TInv, ClientInv
    <3>2. line.kind = "PULL" BY <2>1 DEF TInv, ClientInv
    <3>3. \A v \in Workers : job[v] # new
      <4> SUFFICES ASSUME NEW v \in Workers, job[v] = new PROVE FALSE OBVIOUS
      <4>1. new # NoConn BY <1>1, LegacyAssumption
      <4>2. job[v][2] <= cur[job[v][1]] BY <4>1 DEF TInv, FreshInv
      <4>3. new[1] = c /\ new[2] = cur[c] + 1 OBVIOUS
      <4>4. cur[c] + 1 <= cur[c] BY <4>2, <4>3
      <4> QED BY <1>9, <4>4
    <3>4. conn'[new] = Opened(line, f) BY <1>1, <1>3
    <3> QED BY <1>1, <1>2, <3>1, <3>2, <3>3, <3>4, Values
  <2>2. CASE d # c
    <3>1. C(d)' = C(d) BY <1>5, <2>2 DEF C, TInv, ClientInv
    <3>2. at[d] \in {"PULL", "pulling"} BY <2>2 DEF TInv, ClientInv
    <3>3. /\ C(d) \in Conns /\ conn[C(d)].answer \in Content
          /\ conn[C(d)].line # NoLine => conn[C(d)].line.kind = "PULL"
          /\ \A v \in Workers : job[v] = C(d) => pc[v] \in {"recv", "send"}
      BY <3>2 DEF TInv, PullInv
    <3>4. conn'[C(d)] = conn[C(d)]
      <4>1. C(d)[1] # c BY <2>2 DEF C
      <4> QED BY <1>3, <3>3, <4>1
    <3> QED BY <3>1, <3>3, <3>4
  <2> QED BY <2>1, <2>2
<1> QED BY <1>4, <1>6, <1>7, <1>8, <1>10, <1>11 DEF TInv

\* Steps of the process as a whole.
LEMMA ProcessTyped ==
  ASSUME TInv, UNCHANGED <<objects, head, queue, thread, conn, client>>, faults' \subseteq Faults,
         dirs' \subseteq {"git", "objects", "refs", "branches"}
  PROVE  TInv'
<1>1. DiskInv' BY DEF TInv, DiskInv
<1>2. ThreadInv' /\ ConnInv' BY DEF TInv, ThreadInv, ConnInv, thread
<1>3. ClientInv' /\ FreshInv' BY DEF TInv, ClientInv, FreshInv, thread, client
<1>4. PullInv' BY DEF TInv, PullInv, C, thread, client
<1> QED BY <1>1, <1>2, <1>3, <1>4 DEF TInv

LEMMA ServeTyped == ASSUME TInv, Serve, UNCHANGED client PROVE TInv'
<1>1. CASE Start \/ MakeDirectory \/ GitInit
  <2>1. UNCHANGED <<objects, head, queue, thread, conn>> /\ faults' \subseteq Faults
    BY <1>1 DEF Start, MakeDirectory, GitInit, Fault, process, history, TInv, DiskInv
  <2>2. dirs' \subseteq {"git", "objects", "refs", "branches"}
    BY <1>1 DEF Start, MakeDirectory, GitInit, TInv, DiskInv
  <2> QED BY <2>1, <2>2, ProcessTyped
<1>2. CASE Crash
  <2>1. DiskInv' BY <1>2 DEF Crash, Fault, disk, TInv, DiskInv
  <2> QED BY <1>2, <2>1, DiesTyped DEF Crash, TInv
<1>3. CASE \E w \in Workers : Worker(w)
  <2>1. PICK w \in Workers : Worker(w) BY <1>3
  <2>2. DiskInv' BY <2>1, WorkerKeepsDisk
  <2>3. ServedInv' BY <2>1, WorkerKeepsServed
  <2> QED BY <2>2, <2>3 DEF ServedInv, TInv
<1> QED BY <1>1, <1>2, <1>3 DEF Serve

\* A step of client c that leaves its connection as it is.
LEMMA QuietTyped ==
  ASSUME TInv, NEW c \in Clients, UNCHANGED <<disk, process, thread, cur, conn>>,
         faults' \subseteq Faults,
         NEW place \in Places, at' = [at EXCEPT ![c] = place],
         place \in {"PULL", "pulling"} => at[c] \in {"PULL", "pulling"},
         file' \in [Clients -> Content], off' \in [Clients -> Nat]
  PROVE  TInv'
<1>1. ConnInv' BY DEF TInv, ConnInv
<1> QED BY <1>1, ClientStepTyped

\* One that hangs up.
LEMMA LeaveTyped ==
  ASSUME TInv, NEW c \in Clients, UNCHANGED <<disk, process, thread, cur>>, HangUp(c),
         faults' \subseteq Faults,
         NEW place \in Places, at' = [at EXCEPT ![c] = place],
         place \in {"PULL", "pulling"} => at[c] \in {"PULL", "pulling"},
         file' \in [Clients -> Content], off' \in [Clients -> Nat]
  PROVE  TInv'
<1>1. /\ ConnInv'
      /\ \A x \in Conns : /\ conn'[x].answer \in {conn[x].answer, <<>>}
                          /\ conn'[x].line \in {conn[x].line, NoLine}
  BY HangUpTyped
<1> QED BY <1>1, ClientStepTyped

\* The command line of a command.
LEMMA CommandTyped ==
  ASSUME NEW kind \in {"PUSH", "PULL", "HISTORY"}, NEW b \in Branches, NEW f \in Content,
         NEW newline \in BOOLEAN
  PROVE  /\ Command(kind, b, Len(f), newline) \in Lines
         /\ Command(kind, b, 0, newline) \in Lines
         /\ Command(kind, b, 0, newline).kind = kind
<1>1. Len(f) \in Nat /\ 0 \in Nat BY DEF Content
<1> QED BY <1>1 DEF Command, Lines

\* Steps that make no connection.
LEMMA ClientTyped == ASSUME TInv, NEW c \in Clients, Client(c) PROVE TInv'
<1>0. /\ at \in [Clients -> Places] /\ file \in [Clients -> Content] /\ off \in [Clients -> Nat]
      /\ faults \subseteq Faults
  BY DEF TInv, ClientInv, DiskInv
<1>1. CASE SendData(c)
  <2>1. at[c] = "sending" /\ UNCHANGED <<disk, process, thread, history, cur, file>>
    BY <1>1 DEF SendData
  <2>2. off' \in [Clients -> Nat] BY <1>0, <1>1 DEF SendData
  <2>3. file' \in [Clients -> Content] /\ faults' \subseteq Faults BY <1>0, <2>1 DEF history
  <2>4. CASE NothingLeft(c) /\ at' = [at EXCEPT ![c] = "recv"] /\ UNCHANGED conn
    BY <2>1, <2>2, <2>3, <2>4, QuietTyped DEF Places
  <2>5. CASE ~NothingLeft(c) /\ UNCHANGED <<conn, at>>
    <3>1. at' = [at EXCEPT ![c] = "sending"] BY <1>0, <2>1, <2>5
    <3> QED BY <2>1, <2>2, <2>3, <2>5, <3>1, QuietTyped DEF Places
  <2>6. CASE \E place \in {"prompt", "recv", "off"} :
                at' = [at EXCEPT ![c] = place] /\ (UNCHANGED conn \/ HangUp(c))
    <3>1. PICK place \in {"prompt", "recv", "off"} :
                at' = [at EXCEPT ![c] = place] /\ (UNCHANGED conn \/ HangUp(c))
      BY <2>6
    <3>2. place \in Places /\ place \notin {"PULL", "pulling"} BY DEF Places
    <3> QED BY <2>1, <2>2, <2>3, <3>1, <3>2, QuietTyped, LeaveTyped
  <2>7. CASE ~NothingLeft(c) /\ UNCHANGED at /\
             conn' = [conn EXCEPT ![C(c)].data = Append(@, file[c][off[c] + 1]),
                                  ![C(c)].sent = Append(@, file[c][off[c] + 1])]
    <3> DEFINE x == C(c)
               next == file[c][off[c] + 1]
               r == [conn[x] EXCEPT !.data = Append(conn[x].data, next),
                                    !.sent = Append(conn[x].sent, next)]
    <3>1. next \in Segments
      <4>1. file[c] \in Seq(Segments) /\ off[c] \in Nat BY <1>0 DEF Content
      <4>2. off[c] < Len(file[c]) BY <2>7, <4>1 DEF NothingLeft
      <4> QED BY <4>1, <4>2
    <3>2. ASSUME x \in Conns
          PROVE  /\ r \in Connection /\ r.answer = conn[x].answer /\ r.line = conn[x].line
                 /\ conn' = [conn EXCEPT ![x] = r]
      <4>1. conn[x] \in Connection BY <3>2 DEF TInv, ConnInv
      <4>2. Append(conn[x].data, next) \in Content /\ Append(conn[x].sent, next) \in Content
        BY <3>1, <4>1, Values DEF Connection
      <4> QED BY <2>7, <4>1, <4>2 DEF Connection, TInv, ConnInv
    <3>3. conn' = [y \in Conns |-> conn'[y]] /\ \A y \in Conns : y # x => conn'[y] = conn[y]
      BY <2>7 DEF TInv, ConnInv
    <3> HIDE DEF r, next
    <3>4. ASSUME NEW y \in Conns
          PROVE  /\ conn'[y] \in Connection
                 /\ conn'[y].answer = conn[y].answer /\ conn'[y].line = conn[y].line
      BY <3>2, <3>3 DEF TInv, ConnInv
    <3>5. ConnInv' BY <3>3, <3>4 DEF ConnInv
    <3>6. at' = [at EXCEPT ![c] = "sending"] BY <1>0, <2>1, <2>7
    <3> QED BY <2>1, <2>2, <2>3, <3>4, <3>5, <3>6, ClientStepTyped DEF Places
  <2> QED BY <1>1, <2>4, <2>5, <2>6, <2>7 DEF SendData
<1>2. CASE ReceiveAnswer(c)
  <2>1. at[c] = "recv" /\ UNCHANGED <<disk, process, thread, history, cur, off>>
    BY <1>2 DEF ReceiveAnswer
  <2>2. file' \in [Clients -> Content] BY <1>0, <1>2, Values DEF ReceiveAnswer
  <2>3. faults' \subseteq Faults /\ off' \in [Clients -> Nat] BY <1>0, <2>1 DEF history
  <2>4. PICK place \in {"next", "head", "prompt"} :
          at' = [at EXCEPT ![c] = place] /\ (HangUp(c) \/ UNCHANGED conn)
    BY <1>2 DEF ReceiveAnswer
  <2>5. place \in Places /\ place \notin {"PULL", "pulling"} BY DEF Places
  <2> QED BY <2>1, <2>2, <2>3, <2>4, <2>5, QuietTyped, LeaveTyped
<1>3. CASE OpenLocal(c) \/ WriteLocal(c) \/ ReceiveHistory(c)
  <2>1. UNCHANGED <<disk, process, thread, history, conn, cur, file, off>>
    BY <1>3 DEF OpenLocal, WriteLocal, ReceiveHistory, server
  <2>2. PICK place \in {"name", "prompt"} : at' = [at EXCEPT ![c] = place]
    BY <1>3 DEF OpenLocal, WriteLocal, ReceiveHistory
  <2>3. place \in Places /\ place \notin {"PULL", "pulling"} BY DEF Places
  <2>4. faults' \subseteq Faults /\ file' \in [Clients -> Content] /\ off' \in [Clients -> Nat]
    BY <1>0, <2>1 DEF history
  <2> QED BY <2>1, <2>2, <2>3, <2>4, QuietTyped
<1>4. CASE OpenFile(c)
  <2>1. /\ at[c] = "PULL" /\ at' = [at EXCEPT ![c] = "pulling"]
        /\ UNCHANGED <<disk, process, thread, history, conn, cur, off>>
    BY <1>4 DEF OpenFile, server
  <2>2. file' \in [Clients -> Content] BY <1>0, <1>4, Values DEF OpenFile
  <2>3. faults' \subseteq Faults /\ off' \in [Clients -> Nat] BY <1>0, <2>1 DEF history
  <2> QED BY <2>1, <2>2, <2>3, QuietTyped DEF Places
<1>5. CASE ReceiveFile(c)
  <2> DEFINE x == C(c)
  <2>1. at[c] = "pulling" /\ UNCHANGED <<disk, process, thread, history, cur, off>>
    BY <1>5 DEF ReceiveFile
  <2>2. x \in Conns /\ conn[x].answer \in Content /\ conn[x] \in Connection
    BY <2>1 DEF TInv, PullInv, ConnInv
  <2>3. faults' \subseteq Faults /\ off' \in [Clients -> Nat] BY <1>0, <2>1 DEF history
  <2>4. CASE at' = [at EXCEPT ![c] = "prompt"] /\ UNCHANGED <<file, conn>>
    BY <1>0, <2>1, <2>3, <2>4, QuietTyped DEF Places
  <2>5. CASE /\ conn[x].answer # <<>> /\ UNCHANGED at
             /\ file' = [file EXCEPT ![c] = Append(@, Head(conn[x].answer))]
             /\ conn' = [conn EXCEPT ![x].answer = Tail(conn[x].answer)]
    <3> DEFINE r == [conn[x] EXCEPT !.answer = Tail(conn[x].answer)]
    <3>1. Head(conn[x].answer) \in Segments /\ Tail(conn[x].answer) \in Content
      BY <2>2, <2>5 DEF Content
    <3>2. file' \in [Clients -> Content] BY <1>0, <2>5, <3>1, Values
    <3>3. r \in Connection /\ r.answer \in Content /\ r.line = conn[x].line
      BY <2>2, <3>1, Values DEF Connection
    <3>4. conn' = [conn EXCEPT ![x] = r] BY <2>5
    <3> HIDE DEF r
    <3>5. ConnInv' BY <3>3, <3>4 DEF TInv, ConnInv
    <3>6. \A y \in Conns :
            /\ conn'[y].answer \in {conn[y].answer, <<>>} \/ y # x \/ conn'[y].answer \in Content
            /\ y # x => conn'[y].answer \in {conn[y].answer, <<>>}
            /\ conn'[y].line \in {conn[y].line, NoLine}
      BY <3>3, <3>4 DEF TInv, ConnInv
    <3>7. at' = [at EXCEPT ![c] = "pulling"] BY <1>0, <2>1, <2>5
    <3> QED BY <2>1, <2>3, <3>2, <3>5, <3>6, <3>7, ClientStepTyped DEF Places
  <2> QED BY <1>5, <2>4, <2>5 DEF ReceiveFile
<1> QED BY <1>1, <1>2, <1>3, <1>4, <1>5 DEF Client

\* What a user does.
LEMMA UserTyped == ASSUME TInv, NEW c \in Clients, User(c) PROVE TInv'
<1>0. /\ at \in [Clients -> Places] /\ file \in [Clients -> Content] /\ off \in [Clients -> Nat]
      /\ faults \subseteq Faults /\ Contents \subseteq Content
  BY ClientAssumption DEF TInv, ClientInv, DiskInv, Content
<1>1. CASE StartCli(c)
  BY <1>0, <1>1, ReconnectTyped, Values DEF StartCli, Places
<1>2. CASE Exit(c)
  BY <1>0, <1>2, LeaveTyped DEF Exit, Places, history
<1>3. CASE Kill(c)
  <2>1. faults' \subseteq Faults BY <1>0, <1>3 DEF Kill, Fault
  <2> QED BY <1>0, <1>3, <2>1, LeaveTyped DEF Kill, Places
<1>4. CASE Edit(c)
  <2>1. faults' \subseteq Faults /\ file' \in [Clients -> Content] BY <1>0, <1>4 DEF Edit, Fault
  <2>2. at' = [at EXCEPT ![c] = "sending"] BY <1>0, <1>4 DEF Edit
  <2> QED BY <1>0, <1>4, <2>1, <2>2, QuietTyped DEF Edit, Places
<1>5. ASSUME NEW b \in Branches, PushFile(c, b) PROVE TInv'
  <2>1. file' \in [Clients -> Content] /\ off' \in [Clients -> Nat]
    BY <1>0, <1>5 DEF PushFile
  <2>2. Command("PUSH", b, Len(file'[c]), FALSE) \in Lines /\ file'[c] \in Content
    BY <2>1, CommandTyped
  <2>3. CASE /\ Reconnect(c, Command("PUSH", b, Len(file'[c]), FALSE), file'[c])
             /\ at' = [at EXCEPT ![c] = "sending"]
    BY <2>1, <2>2, <2>3, ReconnectTyped DEF Places
  <2>4. CASE Refused(c) /\ UNCHANGED <<at, cur>>
    <3>1. at[c] = "prompt" BY <1>5 DEF PushFile
    <3>2. at' = [at EXCEPT ![c] = "prompt"] BY <1>0, <2>4, <3>1
    <3> QED BY <1>0, <2>1, <2>4, <3>2, LeaveTyped DEF Refused, history, Places
  <2> QED BY <1>5, <2>3, <2>4 DEF PushFile
<1>6. CASE PushNext(c)
  <2>1. file' \in [Clients -> Content] /\ off' \in [Clients -> Nat]
    BY <1>0, <1>6 DEF PushNext
  <2>2. Command("PUSH", Main, Len(file'[c]), TRUE) \in Lines /\ file'[c] \in Content
    BY <2>1, CommandTyped, ClientAssumption
  <2>3. CASE /\ Reconnect(c, Command("PUSH", Main, Len(file'[c]), TRUE), file'[c])
             /\ at' = [at EXCEPT ![c] = "sending"]
    BY <2>1, <2>2, <2>3, ReconnectTyped DEF Places
  <2>4. CASE Refused(c) /\ at' = [at EXCEPT ![c] = "off"] /\ UNCHANGED cur
    BY <1>0, <2>1, <2>4, LeaveTyped DEF Refused, history, Places
  <2> QED BY <1>6, <2>3, <2>4 DEF PushNext
<1>7. ASSUME NEW b \in Branches, NEW kind \in {"PULL", "HISTORY"}, Ask(c, b, kind) PROVE TInv'
  <2>1. Command(kind, b, 0, FALSE) \in Lines /\ Command(kind, b, 0, FALSE).kind = kind
    BY Values, CommandTyped
  <2>2. UNCHANGED <<file, off>> BY <1>7 DEF Ask
  <2>3. CASE Reconnect(c, Command(kind, b, 0, FALSE), <<>>) /\ at' = [at EXCEPT ![c] = kind]
    <3>1. kind \in Places BY DEF Places
    <3>2. kind \in {"PULL", "pulling"} => Command(kind, b, 0, FALSE).kind = "PULL" BY <2>1
    <3> QED BY <1>0, <2>1, <2>2, <2>3, <3>1, <3>2, Values, ReconnectTyped
  <2>4. CASE Refused(c) /\ UNCHANGED <<at, cur>>
    <3>1. at[c] = "prompt" BY <1>7 DEF Ask
    <3>2. at' = [at EXCEPT ![c] = "prompt"] BY <1>0, <2>4, <3>1
    <3> QED BY <1>0, <2>2, <2>4, <3>2, LeaveTyped DEF Refused, history, Places
  <2> QED BY <1>7, <2>3, <2>4 DEF Ask
<1> QED BY <1>1, <1>2, <1>3, <1>4, <1>5, <1>6, <1>7 DEF User

LEMMA TypeInvariant == Spec => [](TInv /\ WholeInv)
<1>1. Init => TInv
  <2> SUFFICES ASSUME Init PROVE TInv OBVIOUS
  <2>1. DiskInv BY DEF Init, ServerInit, DiskInv
  <2>2. ThreadInv BY Values DEF Init, ServerInit, ThreadInv, PCs
  <2>3. [Opened(NoLine, <<>>) EXCEPT !.st = "none"] \in Connection
    BY Values DEF Opened, Connection
  <2>4. ConnInv BY <2>3 DEF Init, ServerInit, ConnInv
  <2>5. ClientInv BY Values, ConnParts DEF Init, ClientInv, Places
  <2>6. FreshInv BY DEF Init, ServerInit, FreshInv
  <2>7. PullInv BY DEF Init, PullInv
  <2> QED BY <2>1, <2>2, <2>4, <2>5, <2>6, <2>7 DEF TInv
<1>2. Init => WholeInv BY DEF Init, ServerInit, WholeInv, NotUpInv, DirInv
<1>3. TInv /\ WholeInv /\ [Next]_vars => TInv' /\ WholeInv'
  <2> SUFFICES ASSUME TInv, WholeInv, [Next]_vars PROVE TInv' /\ WholeInv' OBVIOUS
  <2>1. CASE Serve /\ UNCHANGED client BY <2>1, ServeTyped, ServeKeepsWhole
  <2>2. CASE \E c \in Clients : Client(c) \/ User(c)
    BY <2>2, ClientTyped, UserTyped, ClientKeepsWhole
  <2>3. CASE UNCHANGED vars
    BY <2>3 DEF vars, server, disk, process, thread, history, client, WholeInv, NotUpInv,
      DirInv, TInv, DiskInv, ThreadInv, ConnInv, ClientInv, FreshInv, PullInv, C
  <2> QED BY <2>1, <2>2, <2>3 DEF Next
<1> QED BY <1>1, <1>2, <1>3, PTL DEF Spec

\* The state of the server and of its clients is what TypeOK says, for whatever
\* comes together on the connections (handle_client and cli.c).
THEOREM TypeCorrect == Spec => []TypeOK
<1>1. TInv /\ WholeInv => TypeOK
  <2> SUFFICES ASSUME TInv, WholeInv PROVE TypeOK OBVIOUS
  <2>1. /\ dirs \subseteq {"git", "objects", "refs", "branches"} /\ faults \subseteq Faults
        /\ \A o \in objects : o.hash \in Content \cup {Garbage} /\ o.content \in Content
        /\ \A b \in Branches : head[b] \in Content \cup {Absent, Empty, Garbage}
    BY DEF TInv, DiskInv, Objects
  <2>2. boot \in {"down", "objects", "refs", "branches", "up"} BY DEF WholeInv, DirInv
  <2>3. /\ queue \in Seq(Conns)
        /\ \A w \in Workers :
             /\ pc[w] \in {"idle", "recv", "data", "head", "write", "send"}
             /\ job[w] \in Conns \cup {NoConn} /\ (job[w] = NoConn) = (pc[w] = "idle")
             /\ req[w] \in Lines \cup {NoLine} /\ got[w] \in Content
             /\ hash[w] \in Content \cup {NoHash, Garbage}
    BY DEF TInv, ThreadInv, PCs
  <2>4. \A x \in Conns :
          /\ conn[x].st \in {"none", "open", "closed"} /\ conn[x].eof \in BOOLEAN
          /\ conn[x].line \in Lines \cup {NoLine}
          /\ {conn[x].data, conn[x].sent, conn[x].want} \subseteq Content
          /\ conn[x].answer \in Seq(Segments \cup {"SUCCESS", "HISTORY"})
    BY DEF TInv, ConnInv, Connection, Answer
  <2>5. \A c \in Clients :
          /\ at[c] \in {"off", "prompt", "next", "sending", "recv", "head", "name", "PULL",
                        "pulling", "HISTORY"}
          /\ cur[c] \in 0..MaxConns[c] /\ file[c] \in Content /\ off[c] \in Nat
    BY ConnParts DEF TInv, ClientInv, Places
  <2> QED BY <2>1, <2>2, <2>3, <2>4, <2>5 DEF TypeOK
<1> QED BY <1>1, TypeInvariant, PTL

-----------------------------------------------------------------------------
(* What a push received, and what its client was told.                     *)

Named(h) == [hash |-> h, content |-> h]

\* A line that was not read yet: all that was sent after it waits, and the size
\* in it is that of the file it announces.
LineMatches(r) ==
  r.line # NoLine =>
    /\ r.lost = 0 /\ r.data = r.sent
    /\ r.line.kind = "PUSH" => r.line.size = Len(r.want)

\* What was sent is what was thrown away, the temporary file g and what waits,
\* in this order; n is the size the worker waits for.
Split(r, g, n) ==
  /\ r.line = NoLine /\ n = Len(r.want)
  /\ Len(r.sent) = r.lost + Len(g) + Len(r.data)
  /\ \A i \in 1..Len(g) : g[i] = r.sent[r.lost + i]
  /\ \A i \in 1..Len(r.data) : r.data[i] = r.sent[r.lost + Len(g) + i]

\* SUCCESS is only there when the connection is closed, and for a file that was
\* sent as announced only when the file is stored.
Acked(r, stored, unhashed) ==
  r.answer = <<"SUCCESS">> =>
    /\ r.st = "closed"
    /\ r.sent = r.want => unhashed \/ Named(r.want) \in stored

\* A connection waits for one worker, or is with one.
OwnInv ==
  /\ \A v, w \in Workers : job[v] = job[w] /\ job[v] # NoConn => v = w
  /\ \A i, j \in DOMAIN queue : queue[i] = queue[j] => i = j
  /\ \A w \in Workers : \A i \in DOMAIN queue : job[w] # queue[i]
  /\ \A w \in Workers : job[w] # NoConn => conn[job[w]].st = "open"
  /\ \A i \in DOMAIN queue : conn[queue[i]].st = "open"

ReceivedInv ==
  /\ \A x \in Conns : LineMatches(conn[x])
  /\ \A w \in Workers : pc[w] \in {"data", "head", "write"} =>
       Split(conn[job[w]], got[w], req[w].size)
  /\ \A w \in Workers : pc[w] \in {"head", "write"} =>
       Len(got[w]) >= req[w].size /\ (~starved => hash[w] = got[w])

AckInv == \A x \in Conns : Acked(conn[x], objects, starved)

\* Between the rename of a file and the write of the head, the file is stored.
SavedInv ==
  ~starved => \A w \in Workers : pc[w] \in {"head", "write"} => Named(hash[w]) \in objects

PushInv == OwnInv /\ ReceivedInv /\ AckInv

-----------------------------------------------------------------------------
(* The server implements ObjectStore.                                      *)

\* A part of a sequence, place by place.
LEMMA PartOf ==
  ASSUME NEW f \in Content, NEW n \in 0..Len(f), NEW k \in n..Len(f)
  PROVE  /\ SubSeq(f, n + 1, k) \in Content /\ Len(SubSeq(f, n + 1, k)) = k - n
         /\ \A i \in 1..(k - n) : SubSeq(f, n + 1, k)[i] = f[n + i]
<1>1. f \in Seq(Segments) /\ Len(f) \in Nat BY DEF Content
<1>2. n \in Nat /\ k \in Nat /\ n <= k /\ k <= Len(f) BY <1>1
<1>3. SubSeq(f, n + 1, k) \in Seq(Segments) BY <1>1, <1>2
<1>4. Len(SubSeq(f, n + 1, k)) = k - n BY <1>1, <1>2
<1>5. ASSUME NEW i \in 1..(k - n) PROVE SubSeq(f, n + 1, k)[i] = f[n + i]
  <2>1. i \in 1..((k - (n + 1)) + 1) BY <1>2
  <2>2. SubSeq(f, n + 1, k)[i] = f[(n + 1) + i - 1] BY <1>1, <1>2, <2>1
  <2>3. (n + 1) + i - 1 = n + i BY <1>2
  <2> QED BY <2>2, <2>3
<1> QED BY <1>3, <1>4, <1>5 DEF Content

\* What names itself is stored.
Store == {o.content : o \in {p \in objects : p.hash = p.content}}

LEMMA StoreOf ==
  /\ \A h : Named(h) \in objects => h \in Store
  /\ \A o \in objects : o \in Objects => (o.hash = o.content <=> o = Named(o.content))
<1>1. ASSUME NEW h, Named(h) \in objects PROVE h \in Store
  <2>1. Named(h).hash = h /\ Named(h).content = h BY DEF Named
  <2> QED BY <1>1, <2>1 DEF Store
<1>2. ASSUME NEW o \in objects, o \in Objects PROVE o.hash = o.content <=> o = Named(o.content)
  BY <1>2 DEF Objects, Named
<1> QED BY <1>1, <1>2

\* A step that saves nothing and brings no worker to the head.
LEMMA SavedStep ==
  ASSUME SavedInv, ~starved, UNCHANGED objects,
         \A v \in Workers : pc'[v] \in {"head", "write"} =>
           pc[v] \in {"head", "write"} /\ hash'[v] = hash[v]
  PROVE  SavedInv'
  BY DEF SavedInv, Named

LEMMA CloseSaves ==
  ASSUME TInv, NEW w \in Workers, NEW text, Close(w, text)
  PROVE  \A v \in Workers : pc'[v] \in {"head", "write"} =>
           pc[v] \in {"head", "write"} /\ hash'[v] = hash[v]
  BY DEF Close, TInv, ThreadInv

\* handle_push renames what it received: a piece of what was sent on its
\* connection, which begins where the data that came with the line was lost, and
\* is as long as the line says, or longer.
LEMMA SavedCovers ==
  ASSUME TInv, PushInv, NEW w \in Workers, SaveObject(w)
  PROVE  \E x \in Conns : OS!Covers(got[w], [size |-> Len(conn[x].want), sent |-> conn[x].sent])
<1> DEFINE r == conn[job[w]]
           g == got[w]
           n == r.lost
<1>1. pc[w] = "data" /\ Len(g) >= req[w].size BY DEF SaveObject, Complete
<1>2. job[w] \in Conns /\ r \in Connection /\ g \in Content
  BY <1>1 DEF TInv, ThreadInv, ConnInv
<1>3. Split(r, g, req[w].size) BY <1>1 DEF PushInv, ReceivedInv
<1>4. /\ r.sent \in Content /\ n \in Nat /\ Len(g) \in Nat /\ Len(r.data) \in Nat
      /\ Len(r.sent) \in Nat
  BY <1>2 DEF Connection, Content
<1> HIDE DEF r, g
<1>5. /\ req[w].size = Len(r.want) /\ Len(r.sent) = n + Len(g) + Len(r.data)
      /\ \A i \in 1..Len(g) : g[i] = r.sent[n + i]
  BY <1>3 DEF Split
<1>6. /\ n \in 0..Len(r.sent) /\ n + Len(g) \in n..Len(r.sent)
      /\ n \in 0..(Len(r.sent) - Len(g)) /\ (n + Len(g)) - n = Len(g)
  BY <1>4, <1>5
<1> DEFINE p == SubSeq(r.sent, n + 1, n + Len(g))
<1>7. /\ p \in Content /\ Len(p) = Len(g)
      /\ \A i \in 1..Len(g) : p[i] = r.sent[n + i]
  BY <1>4, <1>6, PartOf
<1> HIDE DEF p
<1>8. g = p
  <2>1. g \in Seq(Segments) /\ p \in Seq(Segments) BY <1>2, <1>7 DEF Content
  <2>2. \A i \in 1..Len(g) : g[i] = p[i] BY <1>5, <1>7
  <2> QED BY <1>7, <2>1, <2>2
<1>9. OS!Covers(g, [size |-> Len(r.want), sent |-> r.sent])
  BY <1>1, <1>5, <1>6, <1>8 DEF OS!Covers, p
<1> QED BY <1>2, <1>9 DEF r, g

LEMMA WorkerSaves ==
  ASSUME TInv, SavedInv, PushInv, NEW w \in Workers, Worker(w), ~starved, ~starved'
  PROVE  SavedInv' /\ (OS!Next \/ UNCHANGED <<objects, head>>)
<1>1. CASE SaveObject(w)
  <2>1. PICK h \in Unwritten \cup {got[w]} :
          /\ compute_sha1(w, h) /\ UNCHANGED head
          /\ \/ objects' = Put(h, got[w]) /\ hash' = [hash EXCEPT ![w] = h]
                /\ pc' = [pc EXCEPT ![w] = "head"]
             \/ Close(w, <<Text>>) /\ UNCHANGED objects
    BY <1>1 DEF SaveObject
  <2>2. h = got[w] BY <2>1 DEF compute_sha1
  <2>3. CASE Close(w, <<Text>>) /\ UNCHANGED objects
    BY <2>1, <2>3, CloseSaves, SavedStep
  <2>4. CASE /\ objects' = Put(h, got[w]) /\ hash' = [hash EXCEPT ![w] = h]
             /\ pc' = [pc EXCEPT ![w] = "head"]
    <3>1. h \in Content BY <2>2 DEF TInv, ThreadInv
    <3>2. objects' = {o \in objects : o.hash # h} \cup {Named(h)}
      BY <2>2, <2>4 DEF Put, Named
    <3>3. Named(h).hash = h /\ Named(h).content = h BY DEF Named
    <3>4. \A g : Named(g) \in objects => Named(g) \in objects'
      <4> SUFFICES ASSUME NEW g, Named(g) \in objects PROVE Named(g) \in objects' OBVIOUS
      <4>1. Named(g).hash = g BY DEF Named
      <4> QED BY <3>2, <4>1
    <3>5. SavedInv'
      <4> SUFFICES ASSUME NEW v \in Workers, pc'[v] \in {"head", "write"}
                   PROVE  Named(hash'[v]) \in objects'
        BY DEF SavedInv, Named
      <4>1. CASE v = w BY <2>4, <3>2, <4>1 DEF TInv, ThreadInv
      <4>2. CASE v # w BY <2>4, <3>4, <4>2 DEF SavedInv
      <4> QED BY <4>1, <4>2
    <3>6. Store \subseteq Store' /\ Store' \subseteq Store \cup {h}
      <4>1. ASSUME NEW f \in Store PROVE f \in Store'
        <5>1. PICK o \in objects : o.hash = o.content /\ f = o.content BY <4>1 DEF Store
        <5>2. o = Named(f) BY <5>1, StoreOf DEF TInv, DiskInv
        <5>3. Named(f) \in objects' BY <3>4, <5>2
        <5>4. Named(f).hash = f /\ Named(f).content = f BY DEF Named
        <5> QED BY <5>3, <5>4 DEF Store
      <4>2. ASSUME NEW f \in Store' PROVE f \in Store \cup {h}
        <5>1. PICK o \in objects' : o.hash = o.content /\ f = o.content BY <4>2 DEF Store
        <5> QED BY <3>2, <3>3, <5>1 DEF Store
      <4> QED BY <4>1, <4>2
    <3>7. PICK x \in Conns : OS!Covers(h, [size |-> Len(conn[x].want), sent |-> conn[x].sent])
      BY <1>1, <2>2, SavedCovers
    <3>8. OS!Save BY <2>1, <3>6, <3>7 DEF OS!Save, Store
    <3> QED BY <3>5, <3>8 DEF OS!Next
  <2> QED BY <2>1, <2>3, <2>4
<1>2. CASE OpenHead(w)
  <2>1. /\ UNCHANGED objects
        /\ \A v \in Workers : pc'[v] \in {"head", "write"} =>
             pc[v] \in {"head", "write"} /\ hash'[v] = hash[v]
    BY <1>2 DEF OpenHead, Dies, TInv, ThreadInv
  <2>2. SavedInv' BY <2>1, SavedStep
  <2>3. UNCHANGED head \/ head' = [head EXCEPT ![req[w].branch] = Empty]
    BY <1>2 DEF OpenHead
  <2>4. req[w].branch \in Branches BY <1>2 DEF OpenHead, TInv, ThreadInv, Lines
  <2>5. ASSUME head' = [head EXCEPT ![req[w].branch] = Empty]
        PROVE  OS!Move(req[w].branch)
    <3>1. head'[req[w].branch] = Empty BY <2>4, <2>5 DEF TInv, DiskInv
    <3> QED BY <2>1, <2>5, <3>1 DEF OS!Move
  <2> QED BY <2>1, <2>2, <2>3, <2>4, <2>5 DEF OS!Next
<1>3. CASE WriteHead(w)
  <2>1. UNCHANGED objects /\ Close(w, <<"SUCCESS">>)
        /\ head' = [head EXCEPT ![req[w].branch] = hash[w]]
    BY <1>3 DEF WriteHead
  <2>2. SavedInv' BY <2>1, CloseSaves, SavedStep
  <2>3. req[w].branch \in Branches BY <1>3 DEF WriteHead, TInv, ThreadInv, Lines
  <2>4. hash[w] \in Store BY <1>3, StoreOf DEF WriteHead, SavedInv
  <2>5. head'[req[w].branch] = hash[w] BY <2>1, <2>3 DEF TInv, DiskInv
  <2>6. OS!Move(req[w].branch) BY <2>1, <2>4, <2>5 DEF OS!Move, Store
  <2> QED BY <2>2, <2>3, <2>6 DEF OS!Next
<1>4. CASE ~SaveObject(w) /\ ~OpenHead(w) /\ ~WriteHead(w)
  <2>1. UNCHANGED <<objects, head>>
    BY <1>4 DEF Worker, dequeue_client, ReceiveNothing, ReceivePush, LineOverflows,
      MkstempFails, ReceiveData, LoseConnection, handle_pull, SendSegment, SendFails,
      handle_history, disk
  <2>2. (\E text : Close(w, text)) \/ Dies
        \/ (UNCHANGED hash /\ \E place \in {"recv", "data", "send"} : pc' = [pc EXCEPT ![w] = place])
        \/ UNCHANGED <<pc, hash>>
    BY <1>4 DEF Worker, dequeue_client, ReceiveNothing, ReceivePush, LineOverflows,
      MkstempFails, ReceiveData, LoseConnection, handle_pull, SendSegment, SendFails,
      handle_history
  <2>3. \A v \in Workers : pc'[v] \in {"head", "write"} =>
          pc[v] \in {"head", "write"} /\ hash'[v] = hash[v]
    BY <2>2, CloseSaves DEF Dies, TInv, ThreadInv
  <2> QED BY <2>1, <2>3, SavedStep
<1> QED BY <1>1, <1>2, <1>3, <1>4

\* A step of the system that is not a worker's touches none of it.
LEMMA NextSaves ==
  ASSUME TInv, SavedInv, PushInv, [Next]_vars
  PROVE  SavedInv' /\ [OS!Next \/ starved']_<<objects, head>>
<1>1. starved => starved'
  <2>1. ASSUME NEW w \in Workers, Worker(w) PROVE starved => starved'
    BY <2>1 DEF Worker, dequeue_client, ReceiveNothing, ReceivePush, LineOverflows,
      MkstempFails, ReceiveData, LoseConnection, SaveObject, compute_sha1, OpenHead, WriteHead,
      handle_pull, SendSegment, SendFails, handle_history, history
  <2>2. ASSUME NEW c \in Clients, Client(c) \/ User(c) PROVE UNCHANGED starved
    BY <2>2 DEF Client, User, SendData, ReceiveAnswer, OpenLocal, WriteLocal, OpenFile,
      ReceiveFile, ReceiveHistory, StartCli, Exit, PushFile, Ask, PushNext, Kill, Edit,
      Reconnect, Refused, server, history
  <2>3. ASSUME Start \/ MakeDirectory \/ GitInit \/ Crash PROVE UNCHANGED starved
    BY <2>3 DEF Start, MakeDirectory, GitInit, Crash, history
  <2>4. ASSUME UNCHANGED vars PROVE UNCHANGED starved BY <2>4 DEF vars, server, history
  <2> QED BY <2>1, <2>2, <2>3, <2>4 DEF Next, Serve
<1>2. CASE starved' BY <1>2 DEF SavedInv
<1>3. CASE ~starved'
  <2>1. ASSUME NEW w \in Workers, Worker(w)
        PROVE  SavedInv' /\ (OS!Next \/ UNCHANGED <<objects, head>>)
    BY <1>1, <1>3, <2>1, WorkerSaves
  <2>2. ASSUME NEW c \in Clients, Client(c) \/ User(c)
        PROVE  UNCHANGED <<objects, head, pc, hash>>
    BY <2>2 DEF Client, User, SendData, ReceiveAnswer, OpenLocal, WriteLocal, OpenFile,
      ReceiveFile, ReceiveHistory, StartCli, Exit, PushFile, Ask, PushNext, Kill, Edit,
      Reconnect, Refused, server, disk, thread
  <2>3. ASSUME Start \/ MakeDirectory \/ GitInit \/ Crash
        PROVE  /\ UNCHANGED <<objects, head>>
               /\ UNCHANGED <<pc, hash>> \/ \A w \in Workers : pc'[w] = "idle"
    BY <2>3 DEF Start, MakeDirectory, GitInit, Crash, Dies, disk, thread
  <2>4. ASSUME UNCHANGED vars PROVE UNCHANGED <<objects, head, pc, hash>>
    BY <2>4 DEF vars, server, disk, thread
  <2>5. ASSUME UNCHANGED objects, UNCHANGED <<pc, hash>> \/ \A w \in Workers : pc'[w] = "idle"
        PROVE  SavedInv'
    BY <1>1, <1>3, <2>5, SavedStep
  <2> QED BY <2>1, <2>2, <2>3, <2>4, <2>5 DEF Next, Serve
<1> QED BY <1>2, <1>3

-----------------------------------------------------------------------------
(* What may happen to a connection.                                        *)

\* What a client, or a connection that is cut, leaves true of it.
Follows(r, q) ==
  /\ LineMatches(r) => LineMatches(q)
  /\ r.st = "open" => q.st = "open"
  /\ r.st = "open" => \A g \in Content, n \in Nat : Split(r, g, n) => Split(q, g, n)
  /\ \A stored, unhashed : Acked(r, stored, unhashed) => Acked(q, stored, unhashed)

LEMMA GoneParts ==
  Gone.answer = <<>> /\ Gone.line = NoLine /\ Gone.st = "closed" /\ Gone.answer # <<"SUCCESS">>
  BY DEF Gone, Opened

\* close of a client.
LEMMA EofFollows ==
  ASSUME NEW r \in Connection PROVE Follows(r, Forget([r EXCEPT !.eof = TRUE]))
<1> DEFINE q == [r EXCEPT !.eof = TRUE]
<1>1. /\ q.line = r.line /\ q.lost = r.lost /\ q.data = r.data /\ q.sent = r.sent
      /\ q.want = r.want /\ q.answer = r.answer /\ q.st = r.st /\ q.eof = TRUE
  BY DEF Connection
<1> HIDE DEF q
<1>2. CASE r.st = "closed"
  <2>1. Forget(q) = Gone BY <1>1, <1>2 DEF Forget
  <2>2. LineMatches(Gone) BY GoneParts DEF LineMatches
  <2>3. \A stored, unhashed : Acked(Gone, stored, unhashed) BY GoneParts DEF Acked
  <2> QED BY <1>2, <2>1, <2>2, <2>3 DEF Follows, q
<1>3. CASE r.st # "closed"
  <2>1. Forget(q) = q BY <1>1, <1>3 DEF Forget
  <2>2. Follows(r, q) BY <1>1 DEF Follows, LineMatches, Split, Acked
  <2> QED BY <2>1, <2>2 DEF q
<1> QED BY <1>2, <1>3

\* send of a segment.
LEMMA SentFollows ==
  ASSUME NEW r \in Connection, NEW t \in Segments, r.st = "open"
  PROVE  Follows(r, [r EXCEPT !.data = Append(r.data, t), !.sent = Append(r.sent, t)])
<1> DEFINE q == [r EXCEPT !.data = Append(r.data, t), !.sent = Append(r.sent, t)]
<1>1. /\ q.line = r.line /\ q.lost = r.lost /\ q.want = r.want /\ q.answer = r.answer
      /\ q.st = r.st /\ q.data = Append(r.data, t) /\ q.sent = Append(r.sent, t)
  BY DEF Connection
<1>2. r.data \in Seq(Segments) /\ r.sent \in Seq(Segments) /\ r.lost \in Nat
  BY DEF Connection, Content
<1> HIDE DEF q
<1>3. LineMatches(r) => LineMatches(q) BY <1>1 DEF LineMatches
<1>4. ASSUME NEW g \in Content, NEW n \in Nat, Split(r, g, n) PROVE Split(q, g, n)
  <2>1. Len(g) \in Nat BY DEF Content
  <2>2. /\ Len(r.sent) = r.lost + Len(g) + Len(r.data)
        /\ \A i \in 1..Len(g) : g[i] = r.sent[r.lost + i]
        /\ \A i \in 1..Len(r.data) : r.data[i] = r.sent[r.lost + Len(g) + i]
    BY <1>4 DEF Split
  <2>3. /\ Len(q.sent) = r.lost + Len(g) + Len(q.data) /\ Len(q.data) = Len(r.data) + 1
        /\ Len(r.data) \in Nat /\ Len(r.sent) \in Nat
    <3>1. Len(q.sent) = Len(r.sent) + 1 /\ Len(q.data) = Len(r.data) + 1 BY <1>1, <1>2
    <3>2. Len(r.sent) \in Nat /\ Len(r.data) \in Nat BY <1>2
    <3>3. Len(r.sent) = r.lost + Len(g) + Len(r.data) BY <2>2
    <3>4. r.lost \in Nat BY <1>2
    <3> QED BY <2>1, <3>1, <3>2, <3>3, <3>4
  <2>4. \A i \in 1..Len(r.sent) : q.sent[i] = r.sent[i] BY <1>1, <1>2
  <2>5. ASSUME NEW i \in 1..Len(g) PROVE g[i] = q.sent[r.lost + i]
    <3>1. r.lost + i \in 1..Len(r.sent) BY <1>2, <2>1, <2>2
    <3> QED BY <2>2, <2>4, <3>1
  <2>6. ASSUME NEW i \in 1..Len(q.data) PROVE q.data[i] = q.sent[r.lost + Len(g) + i]
    <3>1. CASE i \in 1..Len(r.data)
      <4>1. r.lost + Len(g) + i \in 1..Len(r.sent) BY <1>2, <2>1, <2>2, <3>1
      <4>2. q.data[i] = r.data[i] BY <1>1, <1>2, <3>1
      <4> QED BY <2>2, <2>4, <3>1, <4>1, <4>2
    <3>2. CASE i = Len(r.data) + 1
      <4>1. q.data[i] = t BY <1>1, <1>2, <3>2
      <4>2. r.lost + Len(g) + i = Len(r.sent) + 1
        <5>1. Len(r.sent) = r.lost + Len(g) + Len(r.data) BY <2>2
        <5>2. Len(r.data) \in Nat /\ r.lost \in Nat BY <1>2, <2>3
        <5> QED BY <2>1, <3>2, <5>1, <5>2
      <4> QED BY <1>1, <1>2, <4>1, <4>2
    <3> QED BY <1>2, <2>3, <3>1, <3>2
  <2> QED BY <1>1, <1>4, <2>3, <2>5, <2>6 DEF Split
<1>5. \A stored, unhashed : Acked(r, stored, unhashed) => Acked(q, stored, unhashed)
  BY <1>1 DEF Acked
<1>6. Follows(r, q) BY <1>1, <1>3, <1>4, <1>5 DEF Follows
<1> QED BY <1>6 DEF q

\* What an answer that is not of a push begins with is no SUCCESS.
LEMMA SuccessIsNoContent ==
  /\ \A f \in Content : f # <<"SUCCESS">>
  /\ \A f \in Answer : \A t \in Segments : Append(f, t) # <<"SUCCESS">>
  /\ \A f \in Answer : \A t \in Segments \cup {"HISTORY"} : f \o <<t>> # <<"SUCCESS">>
<1>1. "SUCCESS" \notin Segments BY LegacyAssumption
<1>2. ASSUME NEW f \in Content, f = <<"SUCCESS">> PROVE FALSE
  <2>1. Len(f) = 1 /\ f[1] = "SUCCESS" BY <1>2
  <2>2. f[1] \in Segments BY <2>1 DEF Content
  <2> QED BY <1>1, <2>1, <2>2
<1>3. ASSUME NEW f \in Answer, NEW t \in Segments, Append(f, t) = <<"SUCCESS">> PROVE FALSE
  <2>1. Len(f) = 0 BY <1>3 DEF Answer
  <2>2. Append(f, t)[1] = t BY <2>1 DEF Answer
  <2> QED BY <1>1, <1>3, <2>2
<1>4. ASSUME NEW f \in Answer, NEW t \in Segments \cup {"HISTORY"}, f \o <<t>> = <<"SUCCESS">>
      PROVE  FALSE
  <2>1. Len(f \o <<t>>) = Len(f) + 1 /\ (f \o <<t>>)[Len(f) + 1] = t BY DEF Answer
  <2>2. Len(<<"SUCCESS">>) = 1 /\ <<"SUCCESS">>[1] = "SUCCESS" OBVIOUS
  <2>3. Len(f) = 0 BY <1>4, <2>1, <2>2 DEF Answer
  <2>4. t = "SUCCESS" BY <1>4, <2>1, <2>2, <2>3
  <2> QED BY <1>1, <2>4
<1> QED BY <1>2, <1>3, <1>4

\* recv of a segment of what is pulled.
LEMMA ReadFollows ==
  ASSUME NEW r \in Connection, NEW f \in Content
  PROVE  Follows(r, [r EXCEPT !.answer = f])
<1> DEFINE q == [r EXCEPT !.answer = f]
<1>1. /\ q.line = r.line /\ q.lost = r.lost /\ q.data = r.data /\ q.sent = r.sent
      /\ q.want = r.want /\ q.answer = f /\ q.st = r.st
  BY DEF Connection
<1>2. f # <<"SUCCESS">> BY SuccessIsNoContent
<1> HIDE DEF q
<1>3. Follows(r, q) BY <1>1, <1>2 DEF Follows, LineMatches, Split, Acked
<1> QED BY <1>3 DEF q

\* The first recv of a push: the line, and k segments of which n are lost.
LEMMA TakeSplit ==
  ASSUME NEW r \in Connection, r.lost = 0, r.data = r.sent,
         NEW k \in 0..Len(r.data), NEW n \in 0..k,
         NEW q \in Connection, q.line = NoLine, q.lost = n, q.sent = r.sent, q.want = r.want,
         q.data = SubSeq(r.data, k + 1, Len(r.data))
  PROVE  Split(q, SubSeq(r.data, n + 1, k), Len(r.want))
<1> DEFINE g == SubSeq(r.data, n + 1, k)
<1>1. r.data \in Content /\ Len(r.data) \in Nat BY DEF Connection, Content
<1>2. n \in 0..Len(r.data) /\ k \in n..Len(r.data) /\ k \in 0..Len(r.data) BY <1>1
<1>3. Len(g) = k - n /\ \A i \in 1..(k - n) : g[i] = r.data[n + i] BY <1>1, <1>2, PartOf
<1>4. Len(r.data) \in k..Len(r.data) BY <1>1
<1>5. /\ Len(q.data) = Len(r.data) - k
      /\ \A i \in 1..(Len(r.data) - k) : q.data[i] = r.data[k + i]
  BY <1>1, <1>2, <1>4, PartOf
<1> HIDE DEF g
<1>6. Len(q.sent) = q.lost + Len(g) + Len(q.data) BY <1>1, <1>2, <1>3, <1>5
<1>7. \A i \in 1..Len(g) : g[i] = q.sent[q.lost + i] BY <1>3
<1>8. ASSUME NEW i \in 1..Len(q.data) PROVE q.data[i] = q.sent[q.lost + Len(g) + i]
  <2>1. i \in Nat BY <1>1, <1>2, <1>5
  <2>2. q.lost + Len(g) + i = k + i BY <1>2, <1>3, <2>1
  <2> QED BY <1>5, <2>2
<1>9. Split(q, g, Len(r.want)) BY <1>6, <1>7, <1>8 DEF Split
<1> QED BY <1>9 DEF g

\* A later recv, of k segments.
LEMMA MoreSplit ==
  ASSUME NEW r \in Connection, NEW g \in Content, NEW n \in Nat, Split(r, g, n),
         NEW k \in 1..Len(r.data),
         NEW q \in Connection, q.line = r.line, q.lost = r.lost, q.sent = r.sent,
         q.want = r.want, q.data = SubSeq(r.data, k + 1, Len(r.data))
  PROVE  Split(q, g \o SubSeq(r.data, 1, k), n)
<1> DEFINE part == SubSeq(r.data, 0 + 1, k)
           h == g \o part
<1>1. /\ r.data \in Content /\ Len(r.data) \in Nat /\ Len(g) \in Nat /\ r.lost \in Nat
  BY DEF Connection, Content
<1>2. /\ 0 \in 0..Len(r.data) /\ k \in 0..Len(r.data) /\ Len(r.data) \in k..Len(r.data)
      /\ k \in Nat
  BY <1>1
<1>3. /\ part \in Content /\ Len(part) = k - 0
      /\ \A i \in 1..(k - 0) : part[i] = r.data[0 + i]
  BY <1>1, <1>2, PartOf
<1>4. Len(part) = k /\ \A i \in 1..k : part[i] = r.data[i] BY <1>2, <1>3
<1>5. /\ Len(q.data) = Len(r.data) - k
      /\ \A i \in 1..(Len(r.data) - k) : q.data[i] = r.data[k + i]
  BY <1>1, <1>2, PartOf
<1> HIDE DEF part
<1>6. /\ Len(h) = Len(g) + k
      /\ \A i \in 1..Len(g) : h[i] = g[i]
      /\ \A i \in (Len(g) + 1)..(Len(g) + k) : h[i] = part[i - Len(g)]
  <2>1. g \in Seq(Segments) /\ part \in Seq(Segments) BY <1>3 DEF Content
  <2> QED BY <1>4, <2>1
<1>7. /\ r.line = NoLine /\ n = Len(r.want)
      /\ Len(r.sent) = r.lost + Len(g) + Len(r.data)
      /\ \A i \in 1..Len(g) : g[i] = r.sent[r.lost + i]
      /\ \A i \in 1..Len(r.data) : r.data[i] = r.sent[r.lost + Len(g) + i]
  BY DEF Split
<1> HIDE DEF h
<1>8. Len(q.sent) = q.lost + Len(h) + Len(q.data) BY <1>1, <1>2, <1>5, <1>6, <1>7
<1>9. ASSUME NEW i \in 1..Len(h) PROVE h[i] = q.sent[q.lost + i]
  <2>1. i \in Nat /\ i <= Len(g) + k /\ 1 <= i BY <1>1, <1>2, <1>6
  <2>2. CASE i <= Len(g) BY <1>1, <1>6, <1>7, <2>1, <2>2
  <2>3. CASE ~(i <= Len(g))
    <3> DEFINE j == i - Len(g)
    <3>1. j \in 1..k /\ i \in (Len(g) + 1)..(Len(g) + k) /\ r.lost + Len(g) + j = r.lost + i
      BY <1>1, <1>2, <2>1, <2>3
    <3>2. j \in 1..Len(r.data) BY <1>1, <1>2, <3>1
    <3>3. h[i] = r.data[j] BY <1>4, <1>6, <3>1
    <3>4. r.data[j] = r.sent[r.lost + Len(g) + j] BY <1>7, <3>2
    <3> QED BY <3>1, <3>3, <3>4
  <2> QED BY <2>2, <2>3
<1>10. ASSUME NEW i \in 1..Len(q.data) PROVE q.data[i] = q.sent[q.lost + Len(h) + i]
  <2>1. i \in Nat /\ 1 <= i /\ i <= Len(r.data) - k BY <1>1, <1>2, <1>5
  <2>2. k + i \in 1..Len(r.data) BY <1>1, <1>2, <2>1
  <2>3. r.lost + Len(g) + (k + i) = q.lost + Len(h) + i BY <1>1, <1>2, <1>6, <2>1
  <2>4. q.data[i] = r.data[k + i] BY <1>5, <2>1
  <2> QED BY <1>7, <2>2, <2>3, <2>4
<1>11. Split(q, h, n) BY <1>7, <1>8, <1>9, <1>10 DEF Split
<1> QED BY <1>11 DEF h, part

\* A file that was sent as announced, and is complete, was received.
LEMMA AllReceived ==
  ASSUME NEW r \in Connection, NEW g \in Content, NEW n \in Nat, Split(r, g, n),
         Len(g) >= n, r.sent = r.want
  PROVE  g = r.want
<1>1. /\ r.lost \in Nat /\ Len(g) \in Nat /\ Len(r.data) \in Nat /\ Len(r.sent) \in Nat
  BY DEF Connection, Content
<1>2. /\ n = Len(r.want) /\ Len(r.sent) = r.lost + Len(g) + Len(r.data)
      /\ \A i \in 1..Len(g) : g[i] = r.sent[r.lost + i]
  BY DEF Split
<1>3. r.lost = 0 /\ Len(g) = Len(r.sent) BY <1>1, <1>2
<1>4. \A i \in 1..Len(g) : g[i] = r.sent[i]
  <2> SUFFICES ASSUME NEW i \in 1..Len(g) PROVE g[i] = r.sent[i] OBVIOUS
  <2>1. r.lost + i = i BY <1>1, <1>3
  <2> QED BY <1>2, <2>1
<1>5. g \in Seq(Segments) /\ r.sent \in Seq(Segments) BY DEF Connection, Content
<1> QED BY <1>3, <1>4, <1>5

-----------------------------------------------------------------------------
(* The steps of the server.                                                *)

\* As long as every temporary file could be hashed, what is stored by its name
\* stays so.
LEMMA NamedStays ==
  ASSUME NEW w \in Workers, Worker(w), ~starved'
  PROVE  /\ ~starved
         /\ \A g : Named(g) \in objects => Named(g) \in objects'
<1>1. ~starved
  BY DEF Worker, dequeue_client, ReceiveNothing, ReceivePush, LineOverflows, MkstempFails,
    ReceiveData, LoseConnection, SaveObject, compute_sha1, OpenHead, WriteHead, handle_pull,
    SendSegment, SendFails, handle_history, history
<1>2. CASE SaveObject(w)
  <2>1. PICK h \in Unwritten \cup {got[w]} :
          compute_sha1(w, h) /\ (objects' = Put(h, got[w]) \/ UNCHANGED objects)
    BY <1>2 DEF SaveObject
  <2>2. h = got[w] BY <2>1 DEF compute_sha1
  <2> SUFFICES ASSUME NEW g, Named(g) \in objects PROVE Named(g) \in objects' BY <1>1
  <2>3. Named(g).hash = g BY DEF Named
  <2>4. CASE objects' = Put(h, got[w]) BY <2>2, <2>3, <2>4 DEF Put, Named
  <2> QED BY <2>1, <2>4
<1>3. CASE ~SaveObject(w)
  <2>1. UNCHANGED objects
    BY <1>3 DEF Worker, dequeue_client, ReceiveNothing, ReceivePush, LineOverflows,
      MkstempFails, ReceiveData, LoseConnection, OpenHead, WriteHead, handle_pull, SendSegment,
      SendFails, handle_history, disk
  <2> QED BY <1>1, <2>1
<1> QED BY <1>2, <1>3

\* A step of worker w that changes its connection to r, and keeps or closes it.
LEMMA StepPushes ==
  ASSUME TInv, PushInv, NEW w \in Workers, pc[w] # "idle", UNCHANGED queue,
         \A v \in Workers : v # w =>
           /\ pc'[v] = pc[v] /\ job'[v] = job[v] /\ req'[v] = req[v] /\ got'[v] = got[v]
           /\ hash'[v] = hash[v],
         NEW r, conn' = [conn EXCEPT ![job[w]] = r],
         starved => starved',
         \A g : ~starved' /\ Named(g) \in objects => Named(g) \in objects',
         LineMatches(r), Acked(r, objects', starved'),
         job'[w] \in {job[w], NoConn}, job'[w] = job[w] => r.st = "open",
         pc'[w] \in {"data", "head", "write"} =>
           job'[w] = job[w] /\ Split(r, got'[w], req'[w].size),
         pc'[w] \in {"head", "write"} =>
           Len(got'[w]) >= req'[w].size /\ (~starved' => hash'[w] = got'[w])
  PROVE  PushInv'
<1> DEFINE x == job[w]
<1>1. x \in Conns BY ConnTyped
<1>2. conn'[x] = r /\ \A y \in Conns : y # x => conn'[y] = conn[y]
  BY <1>1 DEF TInv, ConnInv
<1>3. \A v \in Workers : v # w => job[v] # x
  BY <1>1, LegacyAssumption DEF PushInv, OwnInv
<1>4. ASSUME NEW v \in Workers, v # w, job[v] # NoConn PROVE conn'[job[v]] = conn[job[v]]
  BY <1>2, <1>3, <1>4 DEF TInv, ThreadInv
<1>5. ASSUME NEW i \in DOMAIN queue PROVE conn'[queue[i]] = conn[queue[i]] /\ queue[i] \in Conns
  <2>1. queue[i] \in Conns BY DEF TInv, ThreadInv
  <2>2. queue[i] # x BY DEF PushInv, OwnInv
  <2> QED BY <1>2, <2>1, <2>2
<1>6. OwnInv'
  <2>1. \A u, v \in Workers : job'[u] = job'[v] /\ job'[u] # NoConn => u = v
    BY <1>3 DEF PushInv, OwnInv
  <2>2. \A v \in Workers : \A i \in DOMAIN queue : job'[v] # queue[i]
    BY <1>5, LegacyAssumption DEF PushInv, OwnInv
  <2>3. ASSUME NEW v \in Workers, job'[v] # NoConn PROVE conn'[job'[v]].st = "open"
    <3>1. CASE v = w BY <1>2, <2>3, <3>1
    <3>2. CASE v # w BY <1>4, <2>3, <3>2 DEF PushInv, OwnInv
    <3> QED BY <3>1, <3>2
  <2>4. \A i \in DOMAIN queue : conn'[queue[i]].st = "open" BY <1>5 DEF PushInv, OwnInv
  <2> QED BY <2>1, <2>2, <2>3, <2>4 DEF PushInv, OwnInv
<1>7. ReceivedInv'
  <2>1. \A y \in Conns : LineMatches(conn'[y])
    BY <1>2 DEF PushInv, ReceivedInv
  <2>2. ASSUME NEW v \in Workers, pc'[v] \in {"data", "head", "write"}
        PROVE  Split(conn'[job'[v]], got'[v], req'[v].size)
    <3>1. CASE v = w BY <1>2, <2>2, <3>1
    <3>2. CASE v # w
      <4>1. pc[v] \in {"data", "head", "write"} BY <2>2, <3>2
      <4>2. job[v] # NoConn BY <4>1 DEF TInv, ThreadInv
      <4> QED BY <1>4, <3>2, <4>1, <4>2 DEF PushInv, ReceivedInv
    <3> QED BY <3>1, <3>2
  <2>3. ASSUME NEW v \in Workers, pc'[v] \in {"head", "write"}
        PROVE  Len(got'[v]) >= req'[v].size /\ (~starved' => hash'[v] = got'[v])
    <3>1. CASE v = w BY <2>3, <3>1
    <3>2. CASE v # w BY <2>3, <3>2 DEF PushInv, ReceivedInv
    <3> QED BY <3>1, <3>2
  <2> QED BY <2>1, <2>2, <2>3 DEF ReceivedInv, LineMatches, Split
<1>8. AckInv'
  <2> SUFFICES ASSUME NEW y \in Conns PROVE Acked(conn'[y], objects', starved')
    BY DEF AckInv, Acked, Named
  <2>1. CASE y = x BY <1>2, <2>1
  <2>2. CASE y # x BY <1>2, <2>2 DEF PushInv, AckInv, Acked
  <2> QED BY <2>1, <2>2
<1> QED BY <1>6, <1>7, <1>8 DEF PushInv

\* close of worker w: the answer it gave, all of it or nothing, is no SUCCESS, or
\* it is one and the file is stored.
LEMMA ClosePushes ==
  ASSUME TInv, PushInv, NEW w \in Workers, pc[w] # "idle", NEW text \in Answer,
         Close(w, text), starved => starved',
         \A g : ~starved' /\ Named(g) \in objects => Named(g) \in objects',
         conn[job[w]].answer \o text = <<"SUCCESS">> /\ conn[job[w]].sent = conn[job[w]].want =>
           starved' \/ Named(conn[job[w]].want) \in objects'
  PROVE  PushInv'
<1> DEFINE x == job[w]
           closed(a) == [conn[x] EXCEPT !.st = "closed", !.answer = a, !.data = <<>>,
                                        !.line = NoLine]
<1>1. x \in Conns /\ conn[x] \in Connection BY ConnTyped
<1>2. PICK a \in {conn[x].answer \o text, <<>>} : conn' = [conn EXCEPT ![x] = Forget(closed(a))]
  BY DEF Close
<1>3. /\ closed(a).st = "closed" /\ closed(a).answer = a /\ closed(a).line = NoLine
      /\ closed(a).sent = conn[x].sent /\ closed(a).want = conn[x].want
  BY <1>1 DEF Connection
<1> DEFINE r == Forget(closed(a))
<1>4. r \in {closed(a), Gone} BY DEF Forget
<1> HIDE DEF closed
<1>5. r.line = NoLine /\ LineMatches(r) BY <1>3, <1>4, GoneParts DEF LineMatches
<1>6. Acked(r, objects', starved')
  <2>1. CASE r = Gone BY <2>1, GoneParts DEF Acked
  <2>2. CASE r = closed(a)
    <3>1. <<>> # <<"SUCCESS">> OBVIOUS
    <3> QED BY <1>2, <1>3, <2>2, <3>1 DEF Acked
  <2> QED BY <1>4, <2>1, <2>2
<1>7. conn' = [conn EXCEPT ![job[w]] = r] BY <1>2
<1> HIDE DEF r
<1>8. \A v \in Workers : v # w =>
        /\ pc'[v] = pc[v] /\ job'[v] = job[v] /\ req'[v] = req[v] /\ got'[v] = got[v]
        /\ hash'[v] = hash[v]
  BY DEF Close, TInv, ThreadInv
<1>9. UNCHANGED queue /\ job'[w] = NoConn /\ pc'[w] = "idle"
  BY DEF Close, process, TInv, ThreadInv
<1>10. job'[w] # job[w] BY <1>1, <1>9, LegacyAssumption
<1>11. pc'[w] \notin {"data", "head", "write"} BY <1>9
<1> QED BY <1>5, <1>6, <1>7, <1>8, <1>9, <1>10, <1>11, StepPushes

\* The end of the process.
LEMMA DiesPushes ==
  ASSUME TInv, PushInv, Dies, UNCHANGED <<objects, starved>> PROVE PushInv'
<1>1. <<>> \in Seq(Conns) /\ DOMAIN <<>> = {} OBVIOUS
<1>2. queue' = <<>> /\ \A w \in Workers : pc'[w] = "idle" /\ job'[w] = NoConn BY DEF Dies
<1>3. ASSUME NEW x \in Conns
      PROVE  LineMatches(conn'[x]) /\ Acked(conn'[x], objects, starved)
  <2> DEFINE q == [conn[x] EXCEPT !.st = "closed", !.line = NoLine, !.data = <<>>]
  <2>1. conn[x] \in Connection BY DEF TInv, ConnInv
  <2>2. conn'[x] = IF conn[x].st # "open" THEN conn[x] ELSE Forget(q) BY DEF Dies
  <2>3. /\ q.line = NoLine /\ q.st = "closed" /\ q.answer = conn[x].answer
    BY <2>1 DEF Connection
  <2>4. Forget(q) \in {q, Gone} BY DEF Forget
  <2> HIDE DEF q
  <2>5. LineMatches(conn[x]) /\ Acked(conn[x], objects, starved)
    BY DEF PushInv, ReceivedInv, AckInv
  <2>6. CASE conn[x].st = "open"
    <3>1. conn[x].answer # <<"SUCCESS">> BY <2>5, <2>6 DEF Acked
    <3> QED BY <2>2, <2>3, <2>4, <2>6, <3>1, GoneParts DEF LineMatches, Acked
  <2> QED BY <2>2, <2>5, <2>6
<1>4. OwnInv' BY <1>1, <1>2 DEF OwnInv
<1>5. ReceivedInv' BY <1>2, <1>3 DEF ReceivedInv, LineMatches
<1>6. AckInv' BY <1>3 DEF AckInv, Acked, Named
<1> QED BY <1>4, <1>5, <1>6 DEF PushInv

\* While a worker has its connection, no SUCCESS was sent on it.
LEMMA NotYetAcked ==
  ASSUME TInv, PushInv, NEW w \in Workers, pc[w] # "idle"
  PROVE  /\ job[w] \in Conns /\ conn[job[w]] \in Connection
         /\ conn[job[w]].st = "open" /\ conn[job[w]].answer # <<"SUCCESS">>
<1>1. job[w] \in Conns /\ conn[job[w]] \in Connection BY ConnTyped
<1>2. job[w] # NoConn BY <1>1, LegacyAssumption
<1>3. conn[job[w]].st = "open" BY <1>2 DEF PushInv, OwnInv
<1>4. Acked(conn[job[w]], objects, starved) BY <1>1 DEF PushInv, AckInv
<1> QED BY <1>1, <1>3, <1>4 DEF Acked

\* A close that answers nothing, an error or a history.
LEMMA OtherClosePushes ==
  ASSUME TInv, PushInv, NEW w \in Workers, Worker(w), pc[w] # "idle",
         NEW text \in {<<>>, <<Text>>, <<"HISTORY">>}, Close(w, text),
         starved => starved'
  PROVE  PushInv'
<1>1. conn[job[w]] \in Connection /\ conn[job[w]].answer # <<"SUCCESS">> BY NotYetAcked
<1>2. conn[job[w]].answer \in Answer BY <1>1 DEF Connection
<1>3. conn[job[w]].answer \o text # <<"SUCCESS">>
  <2>1. CASE text = <<>>
    <3>1. conn[job[w]].answer \o <<>> = conn[job[w]].answer BY <1>2 DEF Answer
    <3> QED BY <1>1, <2>1, <3>1
  <2>2. CASE text \in {<<Text>>, <<"HISTORY">>}
    BY <1>2, <2>2, SuccessIsNoContent, LegacyAssumption
  <2> QED BY <2>1, <2>2
<1>4. text \in Answer
  <2>1. <<Text>> \in Answer BY Values
  <2> QED BY <2>1, Values
<1>5. \A g : ~starved' /\ Named(g) \in objects => Named(g) \in objects' BY NamedStays
<1> QED BY <1>3, <1>4, <1>5, ClosePushes

\* A step of handle_push that keeps the connection.
LEMMA KeepPushes ==
  ASSUME TInv, PushInv, NEW w \in Workers, pc[w] # "idle", UNCHANGED <<queue, job, req, got, conn>>,
         \A v \in Workers : v # w => hash'[v] = hash[v],
         NEW place \in {"head", "write"}, pc' = [pc EXCEPT ![w] = place],
         starved => starved',
         \A g : ~starved' /\ Named(g) \in objects => Named(g) \in objects',
         Split(conn[job[w]], got[w], req[w].size),
         Len(got[w]) >= req[w].size /\ (~starved' => hash'[w] = got[w])
  PROVE  PushInv'
<1> DEFINE r == conn[job[w]]
<1>1. job[w] \in Conns /\ r.st = "open" /\ r.answer # <<"SUCCESS">> BY NotYetAcked
<1>2. conn' = [conn EXCEPT ![job[w]] = r] BY DEF TInv, ConnInv
<1>3. LineMatches(r) BY <1>1 DEF PushInv, ReceivedInv
<1>4. Acked(r, objects', starved') BY <1>1 DEF Acked
<1>5. \A v \in Workers : v # w =>
        /\ pc'[v] = pc[v] /\ job'[v] = job[v] /\ req'[v] = req[v] /\ got'[v] = got[v]
        /\ hash'[v] = hash[v]
  BY DEF TInv, ThreadInv
<1>6. Split(r, got'[w], req'[w].size) /\ UNCHANGED <<queue, job>>
      /\ Len(got'[w]) >= req'[w].size /\ (~starved' => hash'[w] = got'[w])
  OBVIOUS
<1> HIDE DEF r
<1> QED BY <1>1, <1>2, <1>3, <1>4, <1>5, <1>6, StepPushes

LEMMA WorkerPushes ==
  ASSUME TInv, SavedInv, PushInv, NEW w \in Workers, Worker(w) PROVE PushInv'
<1>0. /\ starved => starved'
      /\ \A g : ~starved' /\ Named(g) \in objects => Named(g) \in objects'
  BY NamedStays
<1>1. CASE dequeue_client(w)
  <2>1. /\ queue # <<>> /\ job' = [job EXCEPT ![w] = Head(queue)] /\ queue' = Tail(queue)
        /\ pc' = [pc EXCEPT ![w] = "recv"] /\ pc[w] = "idle"
        /\ UNCHANGED <<objects, req, got, hash, conn, starved>>
    BY <1>1 DEF dequeue_client, disk, history
  <2>2. /\ Head(queue) = queue[1] /\ 1 \in DOMAIN queue
        /\ \A i \in DOMAIN queue' : i + 1 \in DOMAIN queue /\ queue'[i] = queue[i + 1]
                                     /\ i + 1 # 1 /\ i \in Nat
    BY <2>1 DEF TInv, ThreadInv
  <2>3. \A v \in Workers : job'[v] = IF v = w THEN queue[1] ELSE job[v]
    BY <2>1, <2>2 DEF TInv, ThreadInv
  <2>4. OwnInv'
    <3>1. \A u, v \in Workers : job'[u] = job'[v] /\ job'[u] # NoConn => u = v
      BY <2>2, <2>3 DEF PushInv, OwnInv
    <3>2. ASSUME NEW i \in DOMAIN queue', NEW j \in DOMAIN queue', queue'[i] = queue'[j]
          PROVE  i = j
      <4>1. i + 1 = j + 1 BY <2>2, <3>2 DEF PushInv, OwnInv
      <4> QED BY <2>2, <4>1
    <3>3. \A v \in Workers : \A i \in DOMAIN queue' : job'[v] # queue'[i]
      BY <2>2, <2>3 DEF PushInv, OwnInv
    <3>4. \A v \in Workers : job'[v] # NoConn => conn[job'[v]].st = "open"
      BY <2>2, <2>3 DEF PushInv, OwnInv
    <3>5. \A i \in DOMAIN queue' : conn[queue'[i]].st = "open"
      BY <2>2 DEF PushInv, OwnInv
    <3> QED BY <2>1, <3>1, <3>2, <3>3, <3>4, <3>5 DEF OwnInv
  <2>5. ReceivedInv'
    <3>1. \A v \in Workers : pc'[v] \in {"data", "head", "write"} =>
            pc'[v] = pc[v] /\ job'[v] = job[v]
      BY <2>1, <2>3 DEF TInv, ThreadInv
    <3>2. ASSUME NEW v \in Workers, pc'[v] \in {"data", "head", "write"}
          PROVE  Split(conn'[job'[v]], got'[v], req'[v].size)
      <4>1. Split(conn[job[v]], got[v], req[v].size)
        BY <3>1, <3>2 DEF PushInv, ReceivedInv
      <4>2. job'[v] = job[v] BY <3>1, <3>2
      <4> QED BY <2>1, <4>1, <4>2
    <3>3. ASSUME NEW v \in Workers, pc'[v] \in {"head", "write"}
          PROVE  Len(got'[v]) >= req'[v].size /\ (~starved' => hash'[v] = got'[v])
      <4>1. Len(got[v]) >= req[v].size /\ (~starved => hash[v] = got[v])
        BY <3>1, <3>3 DEF PushInv, ReceivedInv
      <4> QED BY <2>1, <4>1
    <3>4. \A y \in Conns : LineMatches(conn'[y]) BY <2>1 DEF PushInv, ReceivedInv
    <3> QED BY <3>2, <3>3, <3>4 DEF ReceivedInv, LineMatches, Split
  <2>6. AckInv' BY <2>1 DEF PushInv, AckInv, Acked, Named
  <2> QED BY <2>4, <2>5, <2>6 DEF PushInv
<1>2. CASE pc[w] # "idle" /\ \E text \in {<<>>, <<Text>>, <<"HISTORY">>} : Close(w, text)
  BY <1>0, <1>2, OtherClosePushes
<1>3. CASE Dies /\ UNCHANGED <<objects, starved>> BY <1>3, DiesPushes
<1>4. CASE ReceivePush(w)
  <2> DEFINE x == job[w]
             old == conn[x]
  <2>1. pc[w] = "recv" /\ old.line # NoLine /\ old.line.kind = "PUSH" BY <1>4 DEF ReceivePush
  <2>2. /\ req' = [req EXCEPT ![w] = old.line] /\ pc' = [pc EXCEPT ![w] = "data"]
        /\ UNCHANGED <<queue, job, hash>>
    BY <1>4 DEF ReceivePush, process
  <2>3. PICK k \in 0..Len(old.data) : \E n \in Lost(old.line.newline, k) :
          /\ got' = [got EXCEPT ![w] = SubSeq(old.data, n + 1, k)]
          /\ conn' = [conn EXCEPT ![x].line = NoLine, ![x].lost = n,
                                  ![x].data = SubSeq(@, k + 1, Len(@))]
    BY <1>4 DEF ReceivePush
  <2>4. PICK n \in Lost(old.line.newline, k) :
          /\ got' = [got EXCEPT ![w] = SubSeq(old.data, n + 1, k)]
          /\ conn' = [conn EXCEPT ![x].line = NoLine, ![x].lost = n,
                                  ![x].data = SubSeq(@, k + 1, Len(@))]
    BY <2>3
  <2>5. x \in Conns /\ old \in Connection /\ old.st = "open" /\ old.answer # <<"SUCCESS">>
    BY <2>1, NotYetAcked
  <2>6. old.lost = 0 /\ old.data = old.sent /\ old.line.size = Len(old.want)
    BY <2>1, <2>5 DEF PushInv, ReceivedInv, LineMatches
  <2>7. Len(old.data) \in Nat /\ old.data \in Content BY <2>5 DEF Connection, Content
  <2>8. n \in 0..k /\ n \in Nat BY <2>4, <2>7 DEF Lost
  <2> DEFINE r == [old EXCEPT !.line = NoLine, !.lost = n,
                     !.data = SubSeq(old.data, k + 1, Len(old.data))]
  <2>9. SubSeq(old.data, k + 1, Len(old.data)) \in Content
    BY <2>7, Parts
  <2>10. /\ r \in Connection /\ r.line = NoLine /\ r.lost = n /\ r.sent = old.sent
         /\ r.want = old.want /\ r.data = SubSeq(old.data, k + 1, Len(old.data))
         /\ r.answer = old.answer /\ r.st = "open"
    BY <2>5, <2>8, <2>9 DEF Connection
  <2>11. conn' = [conn EXCEPT ![x] = r] BY <2>4, <2>5 DEF TInv, ConnInv
  <2> HIDE DEF r
  <2>12. Split(r, SubSeq(old.data, n + 1, k), Len(old.want))
    BY <2>5, <2>6, <2>8, <2>10, TakeSplit
  <2>13. LineMatches(r) /\ Acked(r, objects', starved')
    BY <2>5, <2>10 DEF LineMatches, Acked
  <2>14. got'[w] = SubSeq(old.data, n + 1, k) /\ req'[w] = old.line /\ pc'[w] = "data"
    BY <2>2, <2>4 DEF TInv, ThreadInv
  <2>15. \A v \in Workers : v # w =>
           /\ pc'[v] = pc[v] /\ job'[v] = job[v] /\ req'[v] = req[v] /\ got'[v] = got[v]
           /\ hash'[v] = hash[v]
    BY <2>2, <2>4 DEF TInv, ThreadInv
  <2>16. pc[w] # "idle" /\ UNCHANGED <<queue, job>> /\ r.st = "open"
         /\ Split(r, got'[w], req'[w].size)
    BY <2>1, <2>2, <2>6, <2>10, <2>12, <2>14
  <2> HIDE DEF old, x
  <2> QED BY <1>0, <2>11, <2>13, <2>14, <2>15, <2>16, StepPushes DEF x
<1>5. CASE ReceiveData(w)
  <2> DEFINE x == job[w]
             old == conn[x]
  <2>1. pc[w] = "data" /\ UNCHANGED <<queue, pc, job, req, hash>>
    BY <1>5 DEF ReceiveData, process
  <2>2. PICK k \in 1..Len(old.data) :
          /\ got' = [got EXCEPT ![w] = @ \o SubSeq(old.data, 1, k)]
          /\ conn' = [conn EXCEPT ![x].data = SubSeq(@, k + 1, Len(@))]
    BY <1>5 DEF ReceiveData
  <2>3. x \in Conns /\ old \in Connection /\ old.st = "open" /\ old.answer # <<"SUCCESS">>
    BY <2>1, NotYetAcked
  <2>4. Split(old, got[w], req[w].size) BY <2>1 DEF PushInv, ReceivedInv
  <2>5. got[w] \in Content /\ req[w].size \in Nat BY <2>1 DEF TInv, ThreadInv, Lines
  <2>6. Len(old.data) \in Nat /\ old.data \in Content BY <2>3 DEF Connection, Content
  <2> DEFINE r == [old EXCEPT !.data = SubSeq(old.data, k + 1, Len(old.data))]
  <2>7. SubSeq(old.data, k + 1, Len(old.data)) \in Content
    <3>1. k \in 0..Len(old.data) BY <2>6
    <3> QED BY <2>6, <3>1, Parts
  <2>8. /\ r \in Connection /\ r.line = old.line /\ r.lost = old.lost /\ r.sent = old.sent
        /\ r.want = old.want /\ r.data = SubSeq(old.data, k + 1, Len(old.data))
        /\ r.answer = old.answer /\ r.st = "open"
    BY <2>3, <2>7 DEF Connection
  <2>9. conn' = [conn EXCEPT ![x] = r] BY <2>2, <2>3 DEF TInv, ConnInv
  <2> HIDE DEF r
  <2>10. Split(r, got[w] \o SubSeq(old.data, 1, k), req[w].size)
    BY <2>3, <2>4, <2>5, <2>8, MoreSplit
  <2>11. r.line = NoLine BY <2>4, <2>8 DEF Split
  <2>12. LineMatches(r) /\ Acked(r, objects', starved')
    BY <2>3, <2>8, <2>11 DEF LineMatches, Acked
  <2>13. got'[w] = got[w] \o SubSeq(old.data, 1, k) /\ req'[w] = req[w] /\ pc'[w] = "data"
    BY <2>1, <2>2 DEF TInv, ThreadInv
  <2>14. \A v \in Workers : v # w =>
           /\ pc'[v] = pc[v] /\ job'[v] = job[v] /\ req'[v] = req[v] /\ got'[v] = got[v]
           /\ hash'[v] = hash[v]
    BY <2>1, <2>2 DEF TInv, ThreadInv
  <2>15. pc[w] # "idle" /\ UNCHANGED <<queue, job>> /\ r.st = "open"
         /\ Split(r, got'[w], req'[w].size)
    BY <2>1, <2>8, <2>10, <2>13
  <2> HIDE DEF old, x
  <2> QED BY <1>0, <2>9, <2>12, <2>13, <2>14, <2>15, StepPushes DEF x
<1>6. CASE SaveObject(w)
  <2>1. pc[w] = "data" /\ Complete(w) BY <1>6 DEF SaveObject
  <2>2. PICK h \in Unwritten \cup {got[w]} :
          /\ compute_sha1(w, h)
          /\ \/ /\ hash' = [hash EXCEPT ![w] = h] /\ pc' = [pc EXCEPT ![w] = "head"]
                /\ UNCHANGED <<process, job, req, got, conn>>
             \/ Close(w, <<Text>>)
    BY <1>6 DEF SaveObject
  <2>3. CASE Close(w, <<Text>>) BY <1>0, <2>1, <2>3, OtherClosePushes
  <2>4. CASE ~Close(w, <<Text>>)
    <3>1. /\ hash' = [hash EXCEPT ![w] = h] /\ pc' = [pc EXCEPT ![w] = "head"]
          /\ UNCHANGED <<queue, job, req, got, conn>> /\ (~starved' => h = got[w])
      BY <1>0, <2>2, <2>4 DEF process, compute_sha1
    <3>2. hash'[w] = h /\ \A v \in Workers : v # w => hash'[v] = hash[v]
      BY <3>1 DEF TInv, ThreadInv
    <3>3. Len(got[w]) >= req[w].size /\ (~starved' => hash'[w] = got[w])
      BY <2>1, <3>1, <3>2 DEF Complete
    <3>4. Split(conn[job[w]], got[w], req[w].size) BY <2>1 DEF PushInv, ReceivedInv
    <3> QED BY <1>0, <2>1, <3>1, <3>2, <3>3, <3>4, KeepPushes
  <2> QED BY <2>3, <2>4
<1>7. CASE OpenHead(w)
  <2>1. pc[w] = "head" /\ UNCHANGED <<objects, starved>> BY <1>7 DEF OpenHead
  <2>2. CASE Dies BY <2>1, <2>2, DiesPushes
  <2>3. CASE ~Dies
    <3>1. /\ pc' = [pc EXCEPT ![w] = "write"]
          /\ UNCHANGED <<queue, job, req, got, hash, conn>>
      BY <1>7, <2>3 DEF OpenHead, process
    <3>2. /\ Len(got[w]) >= req[w].size /\ (~starved => hash[w] = got[w])
          /\ Split(conn[job[w]], got[w], req[w].size)
      BY <2>1 DEF PushInv, ReceivedInv
    <3> QED BY <1>0, <2>1, <3>1, <3>2, KeepPushes DEF TInv, ThreadInv
  <2> QED BY <2>2, <2>3
<1>8. CASE WriteHead(w)
  <2> DEFINE x == job[w]
  <2>1. pc[w] = "write" /\ Close(w, <<"SUCCESS">>) /\ UNCHANGED <<objects, starved>>
    BY <1>8 DEF WriteHead, history
  <2>2. x \in Conns /\ conn[x] \in Connection BY <2>1, NotYetAcked
  <2>3. /\ Len(got[w]) >= req[w].size /\ (~starved => hash[w] = got[w])
        /\ Split(conn[x], got[w], req[w].size)
    BY <2>1 DEF PushInv, ReceivedInv
  <2>4. got[w] \in Content /\ req[w].size \in Nat BY <2>1 DEF TInv, ThreadInv, Lines
  <2>5. conn[x].sent = conn[x].want => got[w] = conn[x].want
    BY <2>2, <2>3, <2>4, AllReceived
  <2>6. ~starved => Named(hash[w]) \in objects BY <2>1 DEF SavedInv
  <2>7. conn[x].sent = conn[x].want => starved' \/ Named(conn[x].want) \in objects'
    BY <2>1, <2>3, <2>5, <2>6
  <2>8. <<"SUCCESS">> \in Answer BY Values
  <2> HIDE DEF x
  <2> QED BY <1>0, <2>1, <2>7, <2>8, ClosePushes DEF x
<1>9. CASE handle_pull(w) \/ SendSegment(w)
  <2>1. pc[w] \in {"recv", "send"} BY <1>9 DEF handle_pull, SendSegment
  <2>2. CASE Close(w, <<Text>>) \/ Close(w, <<>>) BY <1>0, <2>1, <2>2, OtherClosePushes
  <2>3. CASE ~Close(w, <<Text>>) /\ ~Close(w, <<>>)
    <3> DEFINE x == job[w]
               old == conn[x]
    <3>1. /\ UNCHANGED <<queue, job, req, hash>> /\ pc' = [pc EXCEPT ![w] = "send"]
          /\ \A v \in Workers : v # w => got'[v] = got[v]
      BY <1>9, <2>3 DEF handle_pull, SendSegment, process, TInv, ThreadInv
    <3>2. old \in Connection /\ old.st = "open" /\ old.answer # <<"SUCCESS">> /\ x \in Conns
      BY <2>1, NotYetAcked
    <3>3. PICK r : /\ conn' = [conn EXCEPT ![x] = r] /\ r.st = "open" /\ LineMatches(r)
                   /\ r.answer # <<"SUCCESS">>
      <4>1. CASE handle_pull(w)
        <5> DEFINE q == [old EXCEPT !.line = NoLine]
        <5>1. conn' = [conn EXCEPT ![x] = q] BY <2>3, <4>1 DEF handle_pull
        <5>2. q.st = "open" /\ q.line = NoLine /\ q.answer = old.answer
          BY <3>2 DEF Connection
        <5> HIDE DEF q
        <5> QED BY <3>2, <5>1, <5>2 DEF LineMatches
      <4>2. CASE SendSegment(w)
        <5> DEFINE a == IF old.eof THEN old.answer ELSE Append(old.answer, Head(got[w]))
                   q == [old EXCEPT !.answer = a]
        <5>1. got[w] # <<>> /\ conn' = [conn EXCEPT ![x] = q] BY <2>3, <4>2 DEF SendSegment
        <5>2. Head(got[w]) \in Segments BY <5>1 DEF TInv, ThreadInv, Content
        <5>3. a # <<"SUCCESS">> BY <3>2, <5>2, SuccessIsNoContent DEF Connection
        <5>4. /\ q.st = "open" /\ q.line = old.line /\ q.answer = a /\ q.lost = old.lost
              /\ q.data = old.data /\ q.sent = old.sent /\ q.want = old.want
          BY <3>2 DEF Connection
        <5>5. LineMatches(old) BY <3>2 DEF PushInv, ReceivedInv
        <5> HIDE DEF q, a
        <5> QED BY <5>1, <5>3, <5>4, <5>5 DEF LineMatches
      <4> QED BY <1>9, <4>1, <4>2
    <3>4. Acked(r, objects', starved') BY <3>3 DEF Acked
    <3>5. \A v \in Workers : v # w =>
            /\ pc'[v] = pc[v] /\ job'[v] = job[v] /\ req'[v] = req[v] /\ got'[v] = got[v]
            /\ hash'[v] = hash[v]
      BY <3>1 DEF TInv, ThreadInv
    <3>6. pc'[w] = "send" BY <3>1 DEF TInv, ThreadInv
    <3> HIDE DEF old
    <3> QED BY <1>0, <2>1, <3>1, <3>3, <3>4, <3>5, <3>6, StepPushes
  <2> QED BY <2>2, <2>3
<1>10. CASE \/ ReceiveNothing(w) \/ LineOverflows(w) \/ MkstempFails(w) \/ LoseConnection(w)
            \/ SendFails(w) \/ handle_history(w)
  <2>1. /\ pc[w] # "idle" /\ UNCHANGED <<objects, starved>>
        /\ Dies \/ \E text \in {<<>>, <<Text>>, <<"HISTORY">>} : Close(w, text)
    BY <1>10 DEF ReceiveNothing, LineOverflows, MkstempFails, LoseConnection, SendFails,
      handle_history, disk, history
  <2> QED BY <1>2, <1>3, <2>1
<1> QED BY <1>1, <1>4, <1>5, <1>6, <1>7, <1>8, <1>9, <1>10 DEF Worker

-----------------------------------------------------------------------------
(* The steps of the clients.                                               *)

\* A step that makes no connection.
LEMMA FollowsPushes ==
  ASSUME TInv, PushInv, UNCHANGED <<objects, starved, queue, thread>>,
         \A x \in Conns : Follows(conn[x], conn'[x])
  PROVE  PushInv'
<1>1. UNCHANGED <<pc, job, req, got, hash>> BY DEF thread
<1>2. \A x \in Conns : conn[x].st = "open" => conn'[x].st = "open" BY DEF Follows
<1>3. OwnInv'
  <2>1. \A w \in Workers : job[w] # NoConn => conn'[job[w]].st = "open"
    BY <1>2 DEF PushInv, OwnInv, TInv, ThreadInv
  <2>2. \A i \in DOMAIN queue : conn'[queue[i]].st = "open"
    BY <1>2 DEF PushInv, OwnInv, TInv, ThreadInv
  <2> QED BY <1>1, <2>1, <2>2 DEF PushInv, OwnInv
<1>4. ReceivedInv'
  <2>1. ASSUME NEW x \in Conns PROVE LineMatches(conn'[x])
    BY DEF PushInv, ReceivedInv, Follows
  <2>2. ASSUME NEW w \in Workers, pc[w] \in {"data", "head", "write"}
        PROVE  Split(conn'[job[w]], got[w], req[w].size)
    <3>1. job[w] \in Conns /\ conn[job[w]].st = "open" BY <2>2, NotYetAcked
    <3>2. got[w] \in Content /\ req[w].size \in Nat BY <2>2 DEF TInv, ThreadInv, Lines
    <3>3. Split(conn[job[w]], got[w], req[w].size) BY <2>2 DEF PushInv, ReceivedInv
    <3> QED BY <3>1, <3>2, <3>3 DEF Follows
  <2> QED BY <1>1, <2>1, <2>2 DEF PushInv, ReceivedInv, LineMatches, Split
<1>5. AckInv'
  <2> SUFFICES ASSUME NEW x \in Conns PROVE Acked(conn'[x], objects, starved)
    BY DEF AckInv, Acked, Named
  <2> QED BY DEF PushInv, AckInv, Follows
<1> QED BY <1>3, <1>4, <1>5 DEF PushInv

LEMMA SameFollows == ASSUME NEW r PROVE Follows(r, r)
  BY DEF Follows

LEMMA HangUpFollows ==
  ASSUME TInv, NEW c \in Clients, HangUp(c) \/ UNCHANGED conn
  PROVE  \A x \in Conns : Follows(conn[x], conn'[x])
<1> SUFFICES ASSUME NEW x \in Conns PROVE Follows(conn[x], conn'[x]) OBVIOUS
<1>1. conn[x] \in Connection BY DEF TInv, ConnInv
<1>2. conn'[x] \in {conn[x], Forget([conn[x] EXCEPT !.eof = TRUE])} BY DEF HangUp
<1> QED BY <1>1, <1>2, EofFollows, SameFollows

\* A new connection, with a line that says what will be sent.
LEMMA ReconnectPushes ==
  ASSUME TInv, PushInv, NEW c \in Clients, NEW line \in Lines \cup {NoLine}, NEW f \in Content,
         Reconnect(c, line, f),
         line # NoLine /\ line.kind = "PUSH" => line.size = Len(f)
  PROVE  PushInv'
<1> DEFINE new == <<c, cur[c] + 1>>
           q == Opened(line, f)
<1>1. /\ UNCHANGED <<objects, starved, pc, job, req, got, hash>> /\ queue' = Append(queue, new)
  BY DEF Reconnect, enqueue_client, disk, thread, history
<1>2. new \in Conns /\ new # NoConn /\ cur[c] \in Nat
  <2>1. cur[c] \in Nat /\ cur[c] < MaxConns[c] /\ MaxConns[c] \in Nat
    BY ConnParts DEF Reconnect, TInv, ClientInv
  <2>2. cur[c] + 1 \in 1..MaxConns[c] BY <2>1
  <2> QED BY <2>1, <2>2, ConnParts, LegacyAssumption
<1>3. new[1] = c /\ new[2] = cur[c] + 1 /\ ~(cur[c] + 1 <= cur[c]) BY <1>2
<1>4. /\ \A w \in Workers : job[w] # new
      /\ \A i \in DOMAIN queue : queue[i] # new
  <2>1. ASSUME NEW w \in Workers, job[w] = new PROVE FALSE
    BY <1>2, <1>3, <2>1 DEF TInv, FreshInv
  <2>2. ASSUME NEW i \in DOMAIN queue, queue[i] = new PROVE FALSE
    BY <1>3, <2>2 DEF TInv, FreshInv
  <2> QED BY <2>1, <2>2
<1>5. /\ q.st = "open" /\ q.line = line /\ q.lost = 0 /\ q.data = <<>> /\ q.sent = <<>>
      /\ q.want = f /\ q.answer = <<>>
  BY DEF Opened
<1> HIDE DEF q
<1>6. LineMatches(q) /\ Acked(q, objects, starved)
  <2>1. <<>> # <<"SUCCESS">> OBVIOUS
  <2> QED BY <1>5, <2>1 DEF LineMatches, Acked
<1>7. conn'[new] = q BY <1>2 DEF Reconnect, q
<1>8. ASSUME NEW x \in Conns, x # new PROVE Follows(conn[x], conn'[x])
  <2>1. conn[x] \in Connection BY DEF TInv, ConnInv
  <2>2. conn'[x] \in {conn[x], Forget([conn[x] EXCEPT !.eof = TRUE])} BY <1>8 DEF Reconnect
  <2> QED BY <2>1, <2>2, EofFollows, SameFollows
<1> HIDE DEF new
<1>9. /\ queue \in Seq(Conns) /\ \A i \in DOMAIN queue : queue[i] \in Conns
      /\ \A i \in DOMAIN queue' :
           \/ i \in DOMAIN queue /\ queue'[i] = queue[i]
           \/ i = Len(queue) + 1 /\ queue'[i] = new
  BY <1>1, <1>2 DEF TInv, ThreadInv
<1>10. OwnInv'
  <2>1. \A i, j \in DOMAIN queue' : queue'[i] = queue'[j] => i = j
    <3> SUFFICES ASSUME NEW i \in DOMAIN queue', NEW j \in DOMAIN queue', queue'[i] = queue'[j]
                 PROVE  i = j
      OBVIOUS
    <3> QED BY <1>4, <1>9 DEF PushInv, OwnInv
  <2>2. \A w \in Workers : \A i \in DOMAIN queue' : job[w] # queue'[i]
    BY <1>4, <1>9 DEF PushInv, OwnInv
  <2>3. ASSUME NEW w \in Workers, job[w] # NoConn PROVE conn'[job[w]].st = "open"
    <3>1. job[w] \in Conns /\ job[w] # new BY <1>4, <2>3 DEF TInv, ThreadInv
    <3> QED BY <1>8, <2>3, <3>1 DEF Follows, PushInv, OwnInv
  <2>4. ASSUME NEW i \in DOMAIN queue' PROVE conn'[queue'[i]].st = "open"
    <3>1. CASE queue'[i] = new BY <1>5, <1>7, <3>1
    <3>2. CASE i \in DOMAIN queue /\ queue'[i] = queue[i]
      BY <1>4, <1>8, <1>9, <3>2 DEF Follows, PushInv, OwnInv
    <3> QED BY <1>9, <3>1, <3>2
  <2> QED BY <1>1, <2>1, <2>2, <2>3, <2>4 DEF PushInv, OwnInv
<1>11. ReceivedInv'
  <2>1. ASSUME NEW x \in Conns PROVE LineMatches(conn'[x])
    <3>1. LineMatches(conn[x]) BY DEF PushInv, ReceivedInv
    <3> QED BY <1>6, <1>7, <1>8, <3>1 DEF Follows
  <2>2. ASSUME NEW w \in Workers, pc[w] \in {"data", "head", "write"}
        PROVE  Split(conn'[job[w]], got[w], req[w].size)
    <3>1. job[w] \in Conns /\ conn[job[w]].st = "open" BY <2>2, NotYetAcked
    <3>2. got[w] \in Content /\ req[w].size \in Nat BY <2>2 DEF TInv, ThreadInv, Lines
    <3>3. Split(conn[job[w]], got[w], req[w].size) BY <2>2 DEF PushInv, ReceivedInv
    <3>4. Follows(conn[job[w]], conn'[job[w]]) BY <1>4, <1>8, <3>1
    <3> QED BY <3>1, <3>2, <3>3, <3>4 DEF Follows
  <2> QED BY <1>1, <2>1, <2>2 DEF PushInv, ReceivedInv, LineMatches, Split
<1>12. AckInv'
  <2> SUFFICES ASSUME NEW x \in Conns PROVE Acked(conn'[x], objects, starved)
    BY <1>1 DEF AckInv, Acked, Named
  <2>1. Acked(conn[x], objects, starved) BY DEF PushInv, AckInv
  <2> QED BY <1>6, <1>7, <1>8, <2>1 DEF Follows
<1> QED BY <1>10, <1>11, <1>12 DEF PushInv

LEMMA ClientPushes == ASSUME TInv, PushInv, NEW c \in Clients, Client(c) PROVE PushInv'
<1>1. UNCHANGED <<objects, starved, queue, thread>>
  BY DEF Client, SendData, ReceiveAnswer, OpenLocal, WriteLocal, OpenFile, ReceiveFile,
    ReceiveHistory, server, disk, process, history
<1>2. CASE HangUp(c) \/ UNCHANGED conn BY <1>1, <1>2, HangUpFollows, FollowsPushes
<1>3. CASE /\ ~NothingLeft(c) /\ conn[C(c)].st = "open"
           /\ conn' = [conn EXCEPT ![C(c)].data = Append(@, file[c][off[c] + 1]),
                                   ![C(c)].sent = Append(@, file[c][off[c] + 1])]
  <2> DEFINE x == C(c)
             t == file[c][off[c] + 1]
             r == [conn[x] EXCEPT !.data = Append(conn[x].data, t),
                                  !.sent = Append(conn[x].sent, t)]
  <2>1. t \in Segments
    <3>1. file[c] \in Seq(Segments) /\ off[c] \in Nat BY DEF TInv, ClientInv, Content
    <3>2. off[c] < Len(file[c]) BY <1>3, <3>1 DEF NothingLeft
    <3> QED BY <3>1, <3>2
  <2>2. ASSUME NEW y \in Conns, y = x PROVE conn'[y] = r
    BY <1>3, <2>2 DEF TInv, ConnInv, Connection
  <2>3. \A y \in Conns : y # x => conn'[y] = conn[y] BY <1>3 DEF TInv, ConnInv
  <2>4. ASSUME NEW y \in Conns PROVE Follows(conn[y], conn'[y])
    <3>1. CASE y = x
      <4>1. conn[x] \in Connection BY <2>4, <3>1 DEF TInv, ConnInv
      <4> QED BY <1>3, <2>1, <2>2, <3>1, <4>1, SentFollows
    <3>2. CASE y # x BY <2>3, <3>2, SameFollows
    <3> QED BY <3>1, <3>2
  <2> QED BY <1>1, <2>4, FollowsPushes
<1>4. CASE at[c] = "pulling" /\ conn' = [conn EXCEPT ![C(c)].answer = Tail(conn[C(c)].answer)]
           /\ conn[C(c)].answer # <<>>
  <2> DEFINE x == C(c)
             r == [conn[x] EXCEPT !.answer = Tail(conn[x].answer)]
  <2>1. x \in Conns /\ conn[x].answer \in Content /\ conn[x] \in Connection
    BY <1>4 DEF TInv, PullInv, ConnInv
  <2>2. Tail(conn[x].answer) \in Content BY <1>4, <2>1 DEF Content
  <2>3. Follows(conn[x], r) BY <2>1, <2>2, ReadFollows
  <2>4. conn' = [conn EXCEPT ![x] = r] BY <1>4
  <2> HIDE DEF r
  <2>5. ASSUME NEW y \in Conns PROVE Follows(conn[y], conn'[y])
    <3>1. conn'[y] = IF y = x THEN r ELSE conn[y] BY <2>4 DEF TInv, ConnInv
    <3> QED BY <2>3, <3>1, SameFollows
  <2> QED BY <1>1, <2>5, FollowsPushes
<1>5. \/ HangUp(c) \/ UNCHANGED conn
      \/ /\ ~NothingLeft(c) /\ conn[C(c)].st = "open"
         /\ conn' = [conn EXCEPT ![C(c)].data = Append(@, file[c][off[c] + 1]),
                                 ![C(c)].sent = Append(@, file[c][off[c] + 1])]
      \/ /\ at[c] = "pulling" /\ conn' = [conn EXCEPT ![C(c)].answer = Tail(conn[C(c)].answer)]
         /\ conn[C(c)].answer # <<>>
  BY DEF Client, SendData, ReceiveAnswer, OpenLocal, WriteLocal, OpenFile, ReceiveFile,
    ReceiveHistory, server
<1> QED BY <1>2, <1>3, <1>4, <1>5

LEMMA UserPushes == ASSUME TInv, PushInv, NEW c \in Clients, User(c) PROVE PushInv'
<1>1. CASE UNCHANGED <<objects, starved, queue, thread>> /\ (HangUp(c) \/ UNCHANGED conn)
  BY <1>1, HangUpFollows, FollowsPushes
<1>2. CASE StartCli(c) BY <1>2, ReconnectPushes, Values DEF StartCli
<1>3. ASSUME NEW b \in Branches, NEW kind \in {"PULL", "HISTORY"},
             Reconnect(c, Command(kind, b, 0, FALSE), <<>>)
      PROVE  PushInv'
  <2>1. Command(kind, b, 0, FALSE) \in Lines /\ Command(kind, b, 0, FALSE).kind # "PUSH"
    BY Values, CommandTyped
  <2> QED BY <1>3, <2>1, Values, ReconnectPushes
<1>4. ASSUME NEW b \in Branches, NEW newline \in BOOLEAN, NEW f \in Content,
             Reconnect(c, Command("PUSH", b, Len(f), newline), f)
      PROVE  PushInv'
  <2>1. Command("PUSH", b, Len(f), newline) \in Lines BY CommandTyped
  <2>2. Command("PUSH", b, Len(f), newline).size = Len(f) BY DEF Command
  <2> QED BY <1>4, <2>1, <2>2, ReconnectPushes
<1>5. file \in [Clients -> Content] /\ Contents \subseteq Content
  BY ClientAssumption DEF TInv, ClientInv, Content
<1>6. ASSUME NEW b \in Branches, PushFile(c, b) PROVE PushInv'
  <2>1. file'[c] \in Content BY <1>5, <1>6 DEF PushFile
  <2>2. CASE Reconnect(c, Command("PUSH", b, Len(file'[c]), FALSE), file'[c])
    BY <1>4, <2>1, <2>2
  <2> QED BY <1>1, <1>6, <2>2 DEF PushFile, Refused, disk, process, history
<1>7. CASE PushNext(c)
  <2>1. file'[c] \in Content BY <1>5, <1>7 DEF PushNext
  <2>2. CASE Reconnect(c, Command("PUSH", Main, Len(file'[c]), TRUE), file'[c])
    BY <1>4, <2>1, <2>2, ClientAssumption
  <2> QED BY <1>1, <1>7, <2>2 DEF PushNext, Refused, disk, process, history
<1>8. ASSUME NEW b \in Branches, NEW kind \in {"PULL", "HISTORY"}, Ask(c, b, kind) PROVE PushInv'
  BY <1>1, <1>3, <1>8 DEF Ask, Refused, disk, process, history
<1>9. CASE Exit(c) \/ Kill(c) \/ Edit(c)
  BY <1>1, <1>9 DEF Exit, Kill, Edit, disk, process, history
<1> QED BY <1>2, <1>6, <1>7, <1>8, <1>9 DEF User

\* The steps of main and of libgit2, which touch no connection but when the
\* process ends.
LEMMA ServePushes ==
  ASSUME TInv, SavedInv, PushInv, Serve PROVE PushInv'
<1>1. CASE Start \/ MakeDirectory \/ GitInit
  <2>1. UNCHANGED <<objects, queue, pc, job, req, got, hash, conn, starved>>
    BY <1>1 DEF Start, MakeDirectory, GitInit, process, thread, history
  <2> QED BY <2>1 DEF PushInv, OwnInv, ReceivedInv, AckInv, LineMatches, Split, Acked, Named
<1>2. CASE Crash BY <1>2, DiesPushes DEF Crash, disk
<1>3. CASE \E w \in Workers : Worker(w) BY <1>3, WorkerPushes
<1> QED BY <1>1, <1>2, <1>3 DEF Serve

LEMMA PushInvariant == Spec => [](TInv /\ SavedInv /\ PushInv)
<1>1. Init => SavedInv /\ PushInv
  <2> SUFFICES ASSUME Init PROVE SavedInv /\ PushInv OBVIOUS
  <2>1. /\ queue = <<>> /\ \A w \in Workers : pc[w] = "idle" /\ job[w] = NoConn
    BY DEF Init, ServerInit
  <2>2. DOMAIN <<>> = {} /\ <<>> # <<"SUCCESS">> OBVIOUS
  <2>3. \A x \in Conns : conn[x].line = NoLine /\ conn[x].answer = <<>>
    BY DEF Init, ServerInit, Opened
  <2> QED BY <2>1, <2>2, <2>3
        DEF SavedInv, PushInv, OwnInv, ReceivedInv, AckInv, LineMatches, Acked
<1>2. TInv /\ SavedInv /\ PushInv /\ [Next]_vars => SavedInv' /\ PushInv'
  <2> SUFFICES ASSUME TInv, SavedInv, PushInv, [Next]_vars PROVE SavedInv' /\ PushInv'
    OBVIOUS
  <2>1. SavedInv' BY NextSaves
  <2>2. CASE Serve BY <2>1, <2>2, ServePushes
  <2>3. CASE \E c \in Clients : Client(c) \/ User(c) BY <2>1, <2>3, ClientPushes, UserPushes
  <2>4. CASE UNCHANGED vars
    BY <2>1, <2>4, SameFollows, FollowsPushes
      DEF vars, server, disk, process, history
  <2> QED BY <2>1, <2>2, <2>3, <2>4 DEF Next
<1> QED BY <1>1, <1>2, TypeInvariant, PTL DEF Spec

\* handle_push and write_branch_head, without any lock: whatever pushes, crashes
\* and lost connections come together, what is stored is a piece of what one
\* client sent that is no shorter than it announced, it stays, and a head names
\* only what is stored, as long as every temporary file could be opened to be
\* hashed (216-276).
THEOREM ServerImplementsStore == Spec => ImplementsStore
<1>1. Init => OS!Init BY DEF Init, ServerInit, OS!Init
<1>2. TInv /\ SavedInv /\ PushInv /\ [Next]_vars => [OS!Next \/ starved']_<<objects, head>>
  BY NextSaves
<1> QED BY <1>1, <1>2, PushInvariant, PTL DEF Spec, ImplementsStore

\* handle_push answers SUCCESS to a client that sent the file it announced only
\* when that file is stored, and it stays stored, whatever else is pushed, cut or
\* crashes (185-281).
THEOREM AckIsStoredHolds == Spec => []AckIsStored
<1>1. PushInv => AckIsStored
  BY DEF PushInv, AckInv, Acked, Named, AckIsStored
<1> QED BY <1>1, PushInvariant, PTL

\* A client that waits for an answer and a worker that waits for data on the same
\* connection wait for ever only when the file shrank after it was measured, or
\* the server threw data away with the line (handle_push and cli.c:219).
THEOREM NoMutualWaitHolds == Spec => []NoMutualWait
<1>1. TInv /\ PushInv => NoMutualWait
  <2> SUFFICES ASSUME TInv, PushInv, NEW w \in Workers, NEW c \in Clients, pc[w] = "data",
                      job[w] = C(c), ~Complete(w), conn[C(c)].data = <<>>
               PROVE  Len(conn[C(c)].sent) < Len(conn[C(c)].want) + conn[C(c)].lost
    BY DEF NoMutualWait
  <2> DEFINE r == conn[C(c)]
  <2>1. Split(r, got[w], req[w].size) BY DEF PushInv, ReceivedInv
  <2>2. r \in Connection BY NotYetAcked
  <2>3. /\ r.lost \in Nat /\ Len(r.sent) \in Nat /\ Len(r.want) \in Nat /\ Len(got[w]) \in Nat
    BY <2>2 DEF Connection, Content, TInv, ThreadInv
  <2>4. Len(r.data) = 0 OBVIOUS
  <2>5. Len(r.sent) = r.lost + Len(got[w]) /\ req[w].size = Len(r.want)
    BY <2>1, <2>3, <2>4 DEF Split
  <2>6. Len(got[w]) < Len(r.want) BY <2>3, <2>5 DEF Complete
  <2> HIDE DEF r
  <2>7. Len(r.sent) < Len(r.want) + r.lost BY <2>3, <2>5, <2>6
  <2> QED BY <2>7 DEF r
<1> QED BY <1>1, PushInvariant, PTL

-----------------------------------------------------------------------------
(* What EveryCommandEnds rests on besides fairness: the only waits for ever are *)
(* those it names.                                                         *)

\* Where a client waits for the server, or for room to send.
Waiting == {"sending", "recv", "PULL", "pulling", "HISTORY"}

\* A connection that is open for the server waits for a worker, or has one.
PlaceInv ==
  \A x \in Conns : conn[x].st = "open" =>
    (\E i \in DOMAIN queue : queue[i] = x) \/ \E w \in Workers : job[w] = x

\* A client in a command has sent its line, and a push does not take that of
\* another command.
AskedBy(c) ==
  /\ C(c) \in Conns /\ conn[C(c)].st # "none"
  /\ \A w \in Workers : job[w] = C(c) /\ pc[w] = "recv" => conn[C(c)].line # NoLine
  /\ \A i \in DOMAIN queue : queue[i] = C(c) => conn[C(c)].line # NoLine
  /\ at[c] = "HISTORY" =>
       /\ conn[C(c)].line # NoLine => conn[C(c)].line.kind = "HISTORY"
       /\ \A w \in Workers : job[w] = C(c) => pc[w] = "recv"

AskInv == \A c \in Clients : at[c] \in Waiting => AskedBy(c)

WaitInv == PlaceInv /\ AskInv

\* A worker's step on its connection: it closes it, or goes on with it.
Ends(w) ==
  job'[w] = NoConn /\ conn'[job[w]].st = "closed" /\ conn'[job[w]].line = NoLine

GoesOn(w) ==
  /\ job'[w] = job[w] /\ pc'[w] # "recv" /\ conn'[job[w]].st = "open"
  /\ pc[w] = "recv" => conn[job[w]].line # NoLine /\ conn[job[w]].line.kind # "HISTORY"

Handles(w) ==
  /\ pc[w] # "idle" /\ UNCHANGED queue
  /\ \A v \in Workers \ {w} : pc'[v] = pc[v] /\ job'[v] = job[v]
  /\ \A x \in Conns \ {job[w]} : conn'[x] = conn[x]
  /\ Ends(w) \/ GoesOn(w)

LEMMA CloseHandles ==
  ASSUME TInv, NEW w \in Workers, pc[w] # "idle", NEW text, Close(w, text)
  PROVE  Handles(w)
<1> DEFINE x == job[w]
           closed(a) == [conn[x] EXCEPT !.st = "closed", !.answer = a, !.data = <<>>,
                                        !.line = NoLine]
<1>1. x \in Conns /\ conn[x] \in Connection BY ConnTyped
<1>2. PICK a \in {conn[x].answer \o text, <<>>} : conn' = [conn EXCEPT ![x] = Forget(closed(a))]
  BY DEF Close
<1>3. closed(a).st = "closed" /\ closed(a).line = NoLine BY <1>1 DEF Connection
<1>4. Forget(closed(a)).st = "closed" /\ Forget(closed(a)).line = NoLine
  BY <1>3, GoneParts DEF Forget
<1> HIDE DEF closed
<1>5. /\ conn'[x].st = "closed" /\ conn'[x].line = NoLine
      /\ \A y \in Conns \ {x} : conn'[y] = conn[y]
  BY <1>1, <1>2, <1>4 DEF TInv, ConnInv
<1>6. /\ job'[w] = NoConn /\ UNCHANGED queue
      /\ \A v \in Workers \ {w} : pc'[v] = pc[v] /\ job'[v] = job[v]
  BY DEF Close, process, TInv, ThreadInv
<1> QED BY <1>5, <1>6 DEF Handles, Ends

LEMMA WorkerHandles ==
  ASSUME TInv, PushInv, NEW w \in Workers, Worker(w), ~dequeue_client(w)
  PROVE  Dies \/ Handles(w)
<1> DEFINE x == job[w]
<1>1. CASE pc[w] # "idle" /\ \E text : Close(w, text) BY <1>1, CloseHandles
<1>2. ASSUME pc[w] # "idle", UNCHANGED <<queue, job>>,
             NEW r, r.st = conn[x].st, conn' = [conn EXCEPT ![x] = r],
             NEW place \in {"data", "head", "write", "send"}, pc' = [pc EXCEPT ![w] = place],
             pc[w] = "recv" => conn[x].line # NoLine /\ conn[x].line.kind # "HISTORY"
      PROVE  Handles(w)
  <2>1. x \in Conns /\ conn[x].st = "open" BY <1>2, NotYetAcked
  <2>2. conn'[x] = r /\ \A y \in Conns \ {x} : conn'[y] = conn[y]
    BY <1>2, <2>1 DEF TInv, ConnInv
  <2>3. \A v \in Workers : pc'[v] = IF v = w THEN place ELSE pc[v]
    BY <1>2 DEF TInv, ThreadInv
  <2>4. GoesOn(w) BY <1>2, <2>1, <2>2, <2>3 DEF GoesOn
  <2> QED BY <1>2, <2>2, <2>3, <2>4 DEF Handles
<1>3. CASE ReceivePush(w)
  <2>1. PICK k \in 0..Len(conn[x].data) : \E n \in Lost(conn[x].line.newline, k) :
          conn' = [conn EXCEPT ![x].line = NoLine, ![x].lost = n,
                               ![x].data = SubSeq(@, k + 1, Len(@))]
    BY <1>3 DEF ReceivePush
  <2>2. PICK n : conn' = [conn EXCEPT ![x].line = NoLine, ![x].lost = n,
                                      ![x].data = SubSeq(@, k + 1, Len(@))]
    BY <2>1
  <2> DEFINE r == [conn[x] EXCEPT !.line = NoLine, !.lost = n,
                     !.data = SubSeq(conn[x].data, k + 1, Len(conn[x].data))]
  <2>3. pc[w] = "recv" /\ UNCHANGED <<queue, job>> /\ pc' = [pc EXCEPT ![w] = "data"]
        /\ conn[x].line # NoLine /\ conn[x].line.kind = "PUSH"
    BY <1>3 DEF ReceivePush, process
  <2>4. x \in Conns /\ conn[x] \in Connection BY <2>3, ConnTyped
  <2>5. conn' = [conn EXCEPT ![x] = r] BY <2>2, <2>4 DEF TInv, ConnInv
  <2>6. r.st = conn[x].st BY <2>4 DEF Connection
  <2> HIDE DEF r
  <2> QED BY <1>2, <2>3, <2>5, <2>6
<1>4. CASE ReceiveData(w)
  <2>1. PICK k \in 1..Len(conn[x].data) :
          conn' = [conn EXCEPT ![x].data = SubSeq(@, k + 1, Len(@))]
    BY <1>4 DEF ReceiveData
  <2> DEFINE r == [conn[x] EXCEPT !.data = SubSeq(conn[x].data, k + 1, Len(conn[x].data))]
  <2>2. pc[w] = "data" /\ UNCHANGED <<queue, job, pc>> BY <1>4 DEF ReceiveData, process
  <2>3. x \in Conns /\ conn[x] \in Connection BY <2>2, ConnTyped
  <2>4. conn' = [conn EXCEPT ![x] = r] BY <2>1, <2>3
  <2>5. r.st = conn[x].st BY <2>3 DEF Connection
  <2>6. pc' = [pc EXCEPT ![w] = "data"] BY <2>2 DEF TInv, ThreadInv
  <2> HIDE DEF r
  <2> QED BY <1>2, <2>2, <2>4, <2>5, <2>6
<1>5. ASSUME pc[w] \in {"data", "head"}, UNCHANGED <<queue, job, conn>>,
             NEW place \in {"head", "write"}, pc' = [pc EXCEPT ![w] = place]
      PROVE  Handles(w)
  <2>1. conn' = [conn EXCEPT ![x] = conn[x]] BY <1>5 DEF TInv, ConnInv
  <2> QED BY <1>2, <1>5, <2>1
<1>6. CASE SaveObject(w) BY <1>1, <1>5, <1>6 DEF SaveObject, process
<1>7. CASE OpenHead(w) BY <1>5, <1>7 DEF OpenHead, process
<1>8. CASE handle_pull(w)
  <2>1. pc[w] = "recv" /\ conn[x].line # NoLine /\ conn[x].line.kind = "PULL"
        /\ \/ Close(w, <<Text>>)
           \/ /\ pc' = [pc EXCEPT ![w] = "send"] /\ UNCHANGED <<queue, job>>
              /\ conn' = [conn EXCEPT ![x].line = NoLine]
    BY <1>8 DEF handle_pull, process
  <2> DEFINE r == [conn[x] EXCEPT !.line = NoLine]
  <2>2. x \in Conns /\ conn[x] \in Connection BY <2>1, ConnTyped
  <2>3. r.st = conn[x].st BY <2>2 DEF Connection
  <2>4. (conn' = [conn EXCEPT ![x].line = NoLine]) => conn' = [conn EXCEPT ![x] = r]
    OBVIOUS
  <2> HIDE DEF r
  <2> QED BY <1>1, <1>2, <2>1, <2>3, <2>4
<1>9. CASE SendSegment(w)
  <2> DEFINE q == IF conn[x].eof THEN conn[x].answer ELSE Append(conn[x].answer, Head(got[w]))
             r == [conn[x] EXCEPT !.answer = q]
  <2>1. pc[w] = "send"
        /\ \/ Close(w, <<>>)
           \/ /\ UNCHANGED <<queue, job, pc>>
              /\ conn' = [conn EXCEPT ![x].answer =
                            IF conn[x].eof THEN @ ELSE Append(@, Head(got[w]))]
    BY <1>9 DEF SendSegment, process
  <2>2. x \in Conns /\ conn[x] \in Connection BY <2>1, ConnTyped
  <2>3. r.st = conn[x].st BY <2>2 DEF Connection
  <2>4. (conn' = [conn EXCEPT ![x].answer = IF conn[x].eof THEN @ ELSE Append(@, Head(got[w]))])
          => conn' = [conn EXCEPT ![x] = r]
    OBVIOUS
  <2>5. UNCHANGED pc => pc' = [pc EXCEPT ![w] = "send"] BY <2>1 DEF TInv, ThreadInv
  <2> HIDE DEF r
  <2> QED BY <1>1, <1>2, <2>1, <2>3, <2>4, <2>5
<1>10. CASE \/ ReceiveNothing(w) \/ LineOverflows(w) \/ MkstempFails(w) \/ LoseConnection(w)
            \/ SendFails(w) \/ handle_history(w) \/ WriteHead(w)
  <2>1. pc[w] # "idle" /\ (Dies \/ \E text : Close(w, text))
    BY <1>10 DEF ReceiveNothing, LineOverflows, MkstempFails, LoseConnection, SendFails,
      handle_history, WriteHead
  <2> QED BY <1>1, <2>1
<1> QED BY <1>3, <1>4, <1>6, <1>7, <1>8, <1>9, <1>10 DEF Worker

LEMMA HandlesWait ==
  ASSUME TInv, PushInv, WaitInv, NEW w \in Workers, Handles(w), UNCHANGED client
  PROVE  WaitInv'
<1> DEFINE x == job[w]
<1>1. x \in Conns /\ conn[x].st = "open" BY NotYetAcked DEF Handles
<1>2. \A v \in Workers \ {w} : job[v] # x BY <1>1, LegacyAssumption DEF PushInv, OwnInv
<1>3. \A i \in DOMAIN queue : queue[i] # x BY DEF PushInv, OwnInv
<1>4. PlaceInv'
  <2> SUFFICES ASSUME NEW y \in Conns, conn'[y].st = "open"
               PROVE  (\E i \in DOMAIN queue : queue[i] = y) \/ \E v \in Workers : job'[v] = y
    BY DEF PlaceInv, Handles
  <2>1. CASE y = x BY <2>1 DEF Handles, Ends, GoesOn
  <2>2. CASE y # x
    <3>1. conn[y].st = "open" BY <2>2 DEF Handles
    <3>2. CASE \E v \in Workers : job[v] = y BY <2>2, <3>2 DEF Handles
    <3> QED BY <3>1, <3>2 DEF WaitInv, PlaceInv
  <2> QED BY <2>1, <2>2
<1>5. ASSUME NEW c \in Clients, at'[c] \in Waiting PROVE AskedBy(c)'
  <2>1. at'[c] = at[c] /\ C(c)' = C(c) BY DEF client, C
  <2>2. AskedBy(c) BY <1>5, <2>1 DEF WaitInv, AskInv
  <2>3. CASE C(c) = x
    <3>1. conn'[x].st # "none" BY DEF Handles, Ends, GoesOn
    <3>2. \A v \in Workers : job'[v] = x => v = w /\ GoesOn(w)
      BY <1>1, <1>2, LegacyAssumption DEF Handles, Ends
    <3>3. at[c] = "HISTORY" => ~GoesOn(w) BY <2>2, <2>3 DEF AskedBy, GoesOn
    <3>4. at[c] = "HISTORY" => conn'[x].line = NoLine BY <3>3 DEF Handles, Ends
    <3> QED BY <1>1, <1>3, <2>1, <2>3, <3>1, <3>2, <3>3, <3>4 DEF AskedBy, Handles, GoesOn
  <2>4. CASE C(c) # x
    <3>1. C(c) \in Conns BY <2>2 DEF AskedBy
    <3>2. conn'[C(c)] = conn[C(c)] BY <2>4, <3>1 DEF Handles
    <3>3. \A v \in Workers : job'[v] = C(c) => job[v] = C(c) /\ pc'[v] = pc[v]
      BY <2>4, <3>1, LegacyAssumption DEF Handles, Ends, GoesOn
    <3> QED BY <2>1, <2>2, <3>2, <3>3 DEF AskedBy, Handles
  <2> QED BY <2>3, <2>4
<1> QED BY <1>4, <1>5 DEF WaitInv, AskInv

LEMMA DequeueWaits ==
  ASSUME TInv, PushInv, WaitInv, NEW w \in Workers, dequeue_client(w), UNCHANGED client
  PROVE  WaitInv'
<1>1. /\ queue # <<>> /\ job' = [job EXCEPT ![w] = Head(queue)] /\ queue' = Tail(queue)
      /\ pc' = [pc EXCEPT ![w] = "recv"] /\ pc[w] = "idle" /\ UNCHANGED conn
  BY DEF dequeue_client
<1>2. /\ Head(queue) = queue[1] /\ 1 \in DOMAIN queue
      /\ \A i \in DOMAIN queue' : i + 1 \in DOMAIN queue /\ queue'[i] = queue[i + 1]
      /\ \A i \in DOMAIN queue : i # 1 =>
           i - 1 \in DOMAIN queue' /\ queue'[i - 1] = queue[i]
  BY <1>1 DEF TInv, ThreadInv
<1>3. /\ \A v \in Workers : job'[v] = IF v = w THEN queue[1] ELSE job[v]
      /\ \A v \in Workers : pc'[v] = IF v = w THEN "recv" ELSE pc[v]
  BY <1>1, <1>2 DEF TInv, ThreadInv
<1>4. PlaceInv'
  <2> SUFFICES ASSUME NEW x \in Conns, conn[x].st = "open"
               PROVE  (\E i \in DOMAIN queue' : queue'[i] = x) \/ \E v \in Workers : job'[v] = x
    BY <1>1 DEF PlaceInv
  <2>1. CASE \E v \in Workers : job[v] = x
    <3>1. PICK v \in Workers : job[v] = x BY <2>1
    <3>2. v # w BY <1>1, <3>1, LegacyAssumption DEF TInv, ThreadInv
    <3> QED BY <1>3, <3>1, <3>2
  <2>2. CASE \E i \in DOMAIN queue : queue[i] = x BY <1>2, <1>3, <2>2
  <2> QED BY <2>1, <2>2 DEF WaitInv, PlaceInv
<1>5. ASSUME NEW c \in Clients, at'[c] \in Waiting PROVE AskedBy(c)'
  <2>1. at'[c] = at[c] /\ C(c)' = C(c) BY DEF client, C
  <2>2. AskedBy(c) BY <1>5, <2>1 DEF WaitInv, AskInv
  <2> QED BY <1>1, <1>2, <1>3, <2>1, <2>2 DEF AskedBy
<1> QED BY <1>4, <1>5 DEF WaitInv, AskInv

LEMMA DiesWaits ==
  ASSUME TInv, WaitInv, Dies, UNCHANGED client PROVE WaitInv'
<1>1. /\ queue' = <<>> /\ DOMAIN queue' = {}
      /\ \A w \in Workers : job'[w] = NoConn
  <2>1. DOMAIN <<>> = {} OBVIOUS
  <2> QED BY <2>1 DEF Dies
<1>2. ASSUME NEW x \in Conns
      PROVE  /\ conn'[x].st # "open" /\ (conn'[x].st = "none" => conn[x].st = "none")
             /\ conn'[x].line \in {conn[x].line, NoLine}
  <2> DEFINE q == [conn[x] EXCEPT !.st = "closed", !.line = NoLine, !.data = <<>>]
  <2>1. conn[x] \in Connection BY DEF TInv, ConnInv
  <2>2. conn'[x] = IF conn[x].st # "open" THEN conn[x] ELSE Forget(q) BY DEF Dies
  <2>3. q.st = "closed" /\ q.line = NoLine BY <2>1 DEF Connection
  <2>4. Forget(q) \in {q, Gone} BY DEF Forget
  <2> HIDE DEF q
  <2> QED BY <2>2, <2>3, <2>4, GoneParts
<1>3. ASSUME NEW c \in Clients, at'[c] \in Waiting PROVE AskedBy(c)'
  <2>1. at'[c] = at[c] /\ C(c)' = C(c) BY DEF client, C
  <2>2. AskedBy(c) BY <1>3, <2>1 DEF WaitInv, AskInv
  <2>3. C(c) \in Conns /\ \A w \in Workers : job'[w] # C(c)
    BY <1>1, <2>2, LegacyAssumption DEF AskedBy
  <2> QED BY <1>1, <1>2, <2>1, <2>2, <2>3 DEF AskedBy
<1> QED BY <1>2, <1>3 DEF WaitInv, PlaceInv, AskInv

\* A step of a client that makes no connection, and waits for no other answer
\* than before.
LEMMA QuietWaits ==
  ASSUME TInv, PushInv, WaitInv, UNCHANGED <<queue, pc, job, cur>>,
         \A x \in Conns : /\ conn'[x].st = conn[x].st
                          /\ conn'[x].line \in {conn[x].line, NoLine}
                          /\ conn[x].st = "open" => conn'[x].line = conn[x].line,
         \A c \in Clients : at'[c] \in Waiting =>
           at[c] \in Waiting /\ (at'[c] = "HISTORY" => at[c] = "HISTORY")
  PROVE  WaitInv'
<1>1. PlaceInv' BY DEF WaitInv, PlaceInv
<1>2. ASSUME NEW c \in Clients, at'[c] \in Waiting PROVE AskedBy(c)'
  <2>1. C(c)' = C(c) BY DEF C
  <2>2. AskedBy(c) BY <1>2 DEF WaitInv, AskInv
  <2>3. \A w \in Workers : job[w] = C(c) => conn[C(c)].st = "open"
    BY <2>2, LegacyAssumption DEF PushInv, OwnInv, AskedBy
  <2>4. \A i \in DOMAIN queue : queue[i] = C(c) => conn[C(c)].st = "open"
    BY DEF PushInv, OwnInv
  <2> QED BY <1>2, <2>1, <2>2, <2>3, <2>4 DEF AskedBy
<1> QED BY <1>1, <1>2 DEF WaitInv, AskInv

LEMMA HangUpKeepsLines ==
  ASSUME TInv, NEW c \in Clients, HangUp(c) \/ UNCHANGED conn
  PROVE  \A x \in Conns : /\ conn'[x].st = conn[x].st
                          /\ conn'[x].line \in {conn[x].line, NoLine}
                          /\ conn[x].st = "open" => conn'[x].line = conn[x].line
<1> SUFFICES ASSUME NEW x \in Conns, HangUp(c), x = C(c)
             PROVE  /\ conn'[x].st = conn[x].st
                    /\ conn'[x].line \in {conn[x].line, NoLine}
                    /\ conn[x].st = "open" => conn'[x].line = conn[x].line
  BY DEF HangUp
<1> DEFINE q == [conn[x] EXCEPT !.eof = TRUE]
<1>1. conn[x] \in Connection BY DEF TInv, ConnInv
<1>2. q.st = conn[x].st /\ q.line = conn[x].line BY <1>1 DEF Connection
<1>3. conn'[x] = Forget(q) BY DEF HangUp
<1> HIDE DEF q
<1> QED BY <1>2, <1>3, GoneParts DEF Forget

\* A new connection, with the line of the command its client is in then.
LEMMA ReconnectWaits ==
  ASSUME TInv, PushInv, WaitInv, NEW c \in Clients, NEW line, NEW f, Reconnect(c, line, f),
         NEW place, at' = [at EXCEPT ![c] = place],
         place \in Waiting => line # NoLine,
         place = "HISTORY" => line.kind = "HISTORY"
  PROVE  WaitInv'
<1> DEFINE new == <<c, cur[c] + 1>>
<1>1. /\ UNCHANGED <<pc, job>> /\ queue' = Append(queue, new)
  BY DEF Reconnect, enqueue_client, thread
<1>2. new \in Conns /\ new # NoConn /\ cur[c] \in Nat
  <2>1. cur[c] \in Nat /\ cur[c] < MaxConns[c] /\ MaxConns[c] \in Nat
    BY ConnParts DEF Reconnect, TInv, ClientInv
  <2>2. cur[c] + 1 \in 1..MaxConns[c] BY <2>1
  <2> QED BY <2>1, <2>2, ConnParts, LegacyAssumption
<1>3. new[1] = c /\ new[2] = cur[c] + 1 /\ ~(cur[c] + 1 <= cur[c]) BY <1>2
<1>4. /\ \A w \in Workers : job[w] # new
      /\ \A i \in DOMAIN queue : queue[i] # new
  <2>1. ASSUME NEW w \in Workers, job[w] = new PROVE FALSE
    BY <1>2, <1>3, <2>1 DEF TInv, FreshInv
  <2>2. ASSUME NEW i \in DOMAIN queue, queue[i] = new PROVE FALSE
    BY <1>3, <2>2 DEF TInv, FreshInv
  <2> QED BY <2>1, <2>2
<1>5. /\ \A d \in Clients : d # c => C(d)' = C(d) /\ C(d) # new /\ at'[d] = at[d] /\ C(d) # C(c)
      /\ C(c)' = new /\ at'[c] = place
  BY <1>3 DEF Reconnect, C, TInv, ClientInv
<1>6. conn'[new].st = "open" /\ conn'[new].line = line BY <1>2 DEF Reconnect, Opened
<1>7. ASSUME NEW x \in Conns, x # new
      PROVE  conn'[x].st = conn[x].st /\ (x # C(c) => conn'[x] = conn[x])
  <2> DEFINE q == [conn[x] EXCEPT !.eof = TRUE]
  <2>1. conn[x] \in Connection BY DEF TInv, ConnInv
  <2>2. q.st = conn[x].st BY <2>1 DEF Connection
  <2>3. conn'[x] = IF x = C(c) THEN Forget(q) ELSE conn[x] BY <1>7 DEF Reconnect
  <2> HIDE DEF q
  <2> QED BY <2>2, <2>3, GoneParts DEF Forget
<1> HIDE DEF new
<1>8. /\ \A i \in DOMAIN queue' :
           \/ i \in DOMAIN queue /\ queue'[i] = queue[i]
           \/ queue'[i] = new
      /\ \A i \in DOMAIN queue : i \in DOMAIN queue' /\ queue'[i] = queue[i]
      /\ \E i \in DOMAIN queue' : queue'[i] = new
  <2>1. queue \in Seq(Conns) BY DEF TInv, ThreadInv
  <2>2. Len(queue) + 1 \in DOMAIN queue' /\ queue'[Len(queue) + 1] = new BY <1>1, <1>2, <2>1
  <2> QED BY <1>1, <1>2, <2>1, <2>2
<1>9. PlaceInv' BY <1>1, <1>7, <1>8 DEF WaitInv, PlaceInv
<1>10. ASSUME NEW d \in Clients, at'[d] \in Waiting PROVE AskedBy(d)'
  <2>1. CASE d = c
    <3>1. \A w \in Workers : job'[w] # new BY <1>1, <1>4
    <3> QED BY <1>2, <1>5, <1>6, <1>10, <2>1, <3>1 DEF AskedBy
  <2>2. CASE d # c
    <3>1. AskedBy(d) BY <1>5, <1>10, <2>2 DEF WaitInv, AskInv
    <3>2. C(d) \in Conns /\ conn'[C(d)] = conn[C(d)] BY <1>5, <1>7, <2>2, <3>1 DEF AskedBy
    <3>3. \A i \in DOMAIN queue' : queue'[i] = C(d) => i \in DOMAIN queue /\ queue[i] = C(d)
      BY <1>5, <1>8, <2>2
    <3> QED BY <1>1, <1>5, <2>2, <3>1, <3>2, <3>3 DEF AskedBy
  <2> QED BY <2>1, <2>2
<1> QED BY <1>9, <1>10 DEF WaitInv, AskInv

LEMMA ClientWaits ==
  ASSUME TInv, PushInv, WaitInv, NEW c \in Clients, Client(c) PROVE WaitInv'
<1>1. UNCHANGED <<queue, pc, job, cur>>
  BY DEF Client, SendData, ReceiveAnswer, OpenLocal, WriteLocal, OpenFile, ReceiveFile,
    ReceiveHistory, server, process, thread
<1>2. \A d \in Clients : at'[d] \in Waiting =>
        at[d] \in Waiting /\ (at'[d] = "HISTORY" => at[d] = "HISTORY")
  BY DEF Client, SendData, ReceiveAnswer, OpenLocal, WriteLocal, OpenFile, ReceiveFile,
    ReceiveHistory, Waiting, TInv, ClientInv
<1>3. CASE HangUp(c) \/ UNCHANGED conn BY <1>1, <1>2, <1>3, HangUpKeepsLines, QuietWaits
<1>4. ASSUME NEW d, NEW s, conn' = [conn EXCEPT ![C(c)].data = d, ![C(c)].sent = s]
      PROVE  WaitInv'
  <2> DEFINE q == [conn[C(c)] EXCEPT !.data = d, !.sent = s]
  <2>1. ASSUME NEW x \in Conns PROVE conn'[x].st = conn[x].st /\ conn'[x].line = conn[x].line
    <3>1. conn[x] \in Connection BY DEF TInv, ConnInv
    <3>2. conn' = [conn EXCEPT ![C(c)] = q] \/ C(c) \notin Conns BY <1>4 DEF TInv, ConnInv
    <3>3. x = C(c) => q.st = conn[x].st /\ q.line = conn[x].line BY <3>1 DEF Connection
    <3> HIDE DEF q
    <3> QED BY <1>4, <3>2, <3>3 DEF TInv, ConnInv
  <2> QED BY <1>1, <1>2, <2>1, QuietWaits
<1>5. ASSUME NEW a, conn' = [conn EXCEPT ![C(c)].answer = a]
      PROVE  WaitInv'
  <2> DEFINE q == [conn[C(c)] EXCEPT !.answer = a]
  <2>1. ASSUME NEW x \in Conns PROVE conn'[x].st = conn[x].st /\ conn'[x].line = conn[x].line
    <3>1. conn[x] \in Connection BY DEF TInv, ConnInv
    <3>2. conn' = [conn EXCEPT ![C(c)] = q] BY <1>5
    <3>3. x = C(c) => q.st = conn[x].st /\ q.line = conn[x].line BY <3>1 DEF Connection
    <3> HIDE DEF q
    <3> QED BY <3>2, <3>3 DEF TInv, ConnInv
  <2> QED BY <1>1, <1>2, <2>1, QuietWaits
<1>6. \/ HangUp(c) \/ UNCHANGED conn
      \/ \E a : conn' = [conn EXCEPT ![C(c)].answer = a]
      \/ conn' = [conn EXCEPT ![C(c)].data = Append(@, file[c][off[c] + 1]),
                               ![C(c)].sent = Append(@, file[c][off[c] + 1])]
  BY DEF Client, SendData, ReceiveAnswer, OpenLocal, WriteLocal, OpenFile, ReceiveFile,
    ReceiveHistory, server
<1>7. conn' = [conn EXCEPT ![C(c)].data = Append(@, file[c][off[c] + 1]),
                           ![C(c)].sent = Append(@, file[c][off[c] + 1])]
        => \E d, s : conn' = [conn EXCEPT ![C(c)].data = d, ![C(c)].sent = s]
  <2> DEFINE d == Append(conn[C(c)].data, file[c][off[c] + 1])
             s == Append(conn[C(c)].sent, file[c][off[c] + 1])
  <2>1. ASSUME conn' = [conn EXCEPT ![C(c)].data = Append(@, file[c][off[c] + 1]),
                                    ![C(c)].sent = Append(@, file[c][off[c] + 1])]
        PROVE  conn' = [conn EXCEPT ![C(c)].data = d, ![C(c)].sent = s]
    BY <2>1 DEF TInv, ConnInv, Connection
  <2> QED BY <2>1
<1> QED BY <1>3, <1>4, <1>5, <1>6, <1>7

LEMMA UserWaits ==
  ASSUME TInv, PushInv, WaitInv, NEW c \in Clients, User(c) PROVE WaitInv'
<1>1. ASSUME NEW kind \in {"PUSH", "PULL", "HISTORY"}, NEW b \in Branches, NEW f \in Content,
             NEW nl \in BOOLEAN
      PROVE  /\ Command(kind, b, Len(f), nl) # NoLine
             /\ Command(kind, b, Len(f), nl).kind = kind
  <2>1. Command(kind, b, Len(f), nl) \in Lines BY CommandTyped
  <2> QED BY <2>1, LegacyAssumption DEF Command
<1>2. <<>> \in Content /\ Len(<<>>) = 0 BY Values
<1>3. ASSUME UNCHANGED <<queue, pc, job, cur>>, HangUp(c) \/ UNCHANGED conn,
             NEW place \in {at[c], "off"}, at' = [at EXCEPT ![c] = place]
      PROVE  WaitInv'
  <2>1. \A d \in Clients : at'[d] \in {at[d], "off"} BY <1>3 DEF TInv, ClientInv
  <2>2. \A d \in Clients : at'[d] \in Waiting => at'[d] = at[d] BY <2>1 DEF Waiting
  <2> QED BY <1>3, <2>2, HangUpKeepsLines, QuietWaits
<1>4. UNCHANGED at => at' = [at EXCEPT ![c] = at[c]] BY DEF TInv, ClientInv
<1>5. CASE StartCli(c)
  <2>1. "prompt" \notin Waiting BY DEF Waiting
  <2> QED BY <1>5, <2>1, ReconnectWaits DEF StartCli
<1>6. CASE Exit(c) \/ Kill(c) \/ Edit(c)
  BY <1>3, <1>4, <1>6 DEF Exit, Kill, Edit, process, thread
<1>7. CASE Refused(c) /\ UNCHANGED cur /\ (UNCHANGED at \/ at' = [at EXCEPT ![c] = "off"])
  BY <1>3, <1>4, <1>7 DEF Refused, process, thread
<1>8. file \in [Clients -> Content] /\ Contents \subseteq Content
  BY ClientAssumption DEF TInv, ClientInv, Content
<1>9. ASSUME NEW b \in Branches, PushFile(c, b) PROVE WaitInv'
  <2>1. file'[c] \in Content BY <1>8, <1>9 DEF PushFile
  <2> DEFINE line == Command("PUSH", b, Len(file'[c]), FALSE)
  <2>2. line # NoLine BY <1>1, <2>1
  <2> HIDE DEF line
  <2>3. CASE Reconnect(c, line, file'[c]) /\ at' = [at EXCEPT ![c] = "sending"]
    BY <2>2, <2>3, ReconnectWaits
  <2> QED BY <1>7, <1>9, <2>3 DEF PushFile, line
<1>10. CASE PushNext(c)
  <2>1. file'[c] \in Content BY <1>8, <1>10 DEF PushNext
  <2> DEFINE line == Command("PUSH", Main, Len(file'[c]), TRUE)
  <2>2. line # NoLine BY <1>1, <2>1, ClientAssumption
  <2> HIDE DEF line
  <2>3. CASE Reconnect(c, line, file'[c]) /\ at' = [at EXCEPT ![c] = "sending"]
    BY <2>2, <2>3, ReconnectWaits
  <2> QED BY <1>7, <1>10, <2>3 DEF PushNext, line
<1>11. ASSUME NEW b \in Branches, NEW kind \in {"PULL", "HISTORY"}, Ask(c, b, kind)
       PROVE  WaitInv'
  <2> DEFINE line == Command(kind, b, 0, FALSE)
             nothing == <<>>
  <2>1. line # NoLine /\ line.kind = kind BY <1>1, <1>2
  <2> HIDE DEF line, nothing
  <2>2. CASE Reconnect(c, line, nothing) /\ at' = [at EXCEPT ![c] = kind]
    <3>1. CASE kind = "PULL"
      <4>1. at' = [at EXCEPT ![c] = "PULL"] /\ Reconnect(c, line, nothing) BY <2>2, <3>1
      <4>2. "PULL" # "HISTORY" OBVIOUS
      <4> QED BY <2>1, <4>1, <4>2, ReconnectWaits
    <3>2. CASE kind = "HISTORY"
      <4>1. at' = [at EXCEPT ![c] = "HISTORY"] /\ Reconnect(c, line, nothing) BY <2>2, <3>2
      <4>2. line.kind = "HISTORY" BY <2>1, <3>2
      <4> QED BY <2>1, <4>1, <4>2, ReconnectWaits
    <3> QED BY <3>1, <3>2
  <2> QED BY <1>7, <1>11, <2>2 DEF Ask, line, nothing
<1> QED BY <1>5, <1>6, <1>9, <1>10, <1>11 DEF User

LEMMA ServeWaits ==
  ASSUME TInv, PushInv, WaitInv, Serve, UNCHANGED client PROVE WaitInv'
<1>1. CASE Start \/ MakeDirectory \/ GitInit
  <2>1. UNCHANGED <<queue, pc, job, conn>>
    BY <1>1 DEF Start, MakeDirectory, GitInit, process, thread
  <2> QED BY <2>1 DEF client, WaitInv, PlaceInv, AskInv, AskedBy, C
<1>2. CASE Crash BY <1>2, DiesWaits DEF Crash
<1>3. CASE \E w \in Workers : Worker(w)
  BY <1>3, WorkerHandles, HandlesWait, DequeueWaits, DiesWaits
<1> QED BY <1>1, <1>2, <1>3 DEF Serve

\* The guards of a client's and of a worker's steps.
ClientCanGo(c) ==
  \/ at[c] \in {"sending", "head", "name", "PULL"}
  \/ at[c] \in {"recv", "pulling", "HISTORY"}
       /\ (conn[C(c)].answer # <<>> \/ conn[C(c)].st = "closed")

WorkerCanGo(w) ==
  \/ pc[w] = "idle" /\ queue # <<>>
  \/ pc[w] = "recv" /\ (conn[job[w]].line # NoLine \/ conn[job[w]].eof)
  \/ pc[w] = "data" /\ (Complete(w) \/ conn[job[w]].data # <<>> \/ conn[job[w]].eof)
  \/ pc[w] \in {"head", "write", "send"}

\* A client in a command can go on, or the worker that has its connection can, or
\* its connection waits in the queue and some worker can; with the two
\* exceptions of EveryCommandEnds.
NobodyStuck ==
  \A c \in Clients : at[c] \notin {"off", "prompt", "next"} =>
    \/ ClientCanGo(c)
    \/ \E w \in Workers : job[w] = C(c) /\ WorkerCanGo(w)
    \/ (\E i \in DOMAIN queue : queue[i] = C(c)) /\ \E w \in Workers : WorkerCanGo(w)
    \/ Len(conn[C(c)].sent) < Len(conn[C(c)].want) + conn[C(c)].lost
    \/ boot = "up" /\ \A w \in Workers : Held(w)

LEMMA WaitInvNotStuck ==
  ASSUME TInv, WholeInv, NoMutualWait, WaitInv, NEW c \in Clients,
         at[c] \notin {"off", "prompt", "next"}, ~ClientCanGo(c),
         ~(\E w \in Workers : job[w] = C(c) /\ WorkerCanGo(w)),
         ~(Len(conn[C(c)].sent) < Len(conn[C(c)].want) + conn[C(c)].lost)
  PROVE  /\ \E i \in DOMAIN queue : queue[i] = C(c)
         /\ (\A w \in Workers : ~WorkerCanGo(w)) => boot = "up" /\ \A w \in Workers : Held(w)
<1>1. at[c] \in {"recv", "pulling", "HISTORY"} /\ conn[C(c)].st # "closed"
  BY DEF ClientCanGo, TInv, ClientInv, Places
<1>2. AskedBy(c) BY <1>1 DEF WaitInv, AskInv, Waiting
<1>3. C(c) \in Conns /\ conn[C(c)].st = "open"
  BY <1>1, <1>2 DEF AskedBy, TInv, ConnInv, Connection
<1>4. ASSUME NEW w \in Workers, job[w] = C(c) PROVE FALSE
  <2>1. ~WorkerCanGo(w) BY <1>4
  <2>2. pc[w] # "idle" BY <1>3, <1>4, LegacyAssumption DEF TInv, ThreadInv
  <2>3. pc[w] # "recv" BY <1>2, <1>4, <2>1 DEF AskedBy, WorkerCanGo
  <2>4. pc[w] = "data" BY <2>1, <2>2, <2>3 DEF WorkerCanGo, TInv, ThreadInv, PCs
  <2>5. at[c] = "recv" BY <1>1, <1>2, <1>4, <2>4 DEF AskedBy, TInv, PullInv
  <2> QED BY <1>4, <2>1, <2>4, <2>5 DEF NoMutualWait, WorkerCanGo
<1>5. PICK i \in DOMAIN queue : queue[i] = C(c) BY <1>3, <1>4 DEF WaitInv, PlaceInv
<1>6. queue # <<>>
  <2>1. DOMAIN <<>> = {} OBVIOUS
  <2> QED BY <1>5, <2>1
<1>7. ASSUME NEW w \in Workers, ~WorkerCanGo(w) PROVE Held(w)
  BY <1>6, <1>7 DEF WorkerCanGo, Held, TInv, ThreadInv, PCs
<1>8. boot = "up" BY <1>6 DEF WholeInv, NotUpInv
<1> QED BY <1>5, <1>7, <1>8

\* No command waits for ever because of a deadlock, at any number of clients,
\* workers and connections and under every fault, but for the two that
\* EveryCommandEnds names: a push that is short of data, and workers that are all
\* held by connections that send nothing (346-361, 366-372).
THEOREM NobodyIsStuck == Spec => []NobodyStuck
<1>1. Init => WaitInv
  <2> SUFFICES ASSUME Init PROVE WaitInv OBVIOUS
  <2>1. \A x \in Conns : conn[x].st = "none" BY DEF Init, ServerInit, Opened
  <2>2. \A c \in Clients : at[c] \notin Waiting BY DEF Init, Waiting
  <2> QED BY <2>1, <2>2 DEF WaitInv, PlaceInv, AskInv
<1>2. TInv /\ PushInv /\ WaitInv /\ [Next]_vars => WaitInv'
  <2> SUFFICES ASSUME TInv, PushInv, WaitInv, [Next]_vars PROVE WaitInv' OBVIOUS
  <2>1. CASE Serve /\ UNCHANGED client BY <2>1, ServeWaits
  <2>2. CASE \E c \in Clients : Client(c) \/ User(c) BY <2>2, ClientWaits, UserWaits
  <2>3. CASE UNCHANGED vars
    BY <2>3 DEF vars, server, process, thread, client, WaitInv, PlaceInv, AskInv, AskedBy, C
  <2> QED BY <2>1, <2>2, <2>3 DEF Next
<1>3. TInv /\ WholeInv /\ NoMutualWait /\ WaitInv => NobodyStuck
  BY WaitInvNotStuck DEF NobodyStuck
<1> QED BY <1>1, <1>2, <1>3, TypeInvariant, PushInvariant, NoMutualWaitHolds, PTL DEF Spec
=============================================================================
