----------------------------- MODULE ProxyProofs -----------------------------
(***************************************************************************)
(* Proofs about Proxy: the safety properties its run checks, for any       *)
(* number of clients and files, any scripts, and any number of faults.     *)
(***************************************************************************)
EXTENDS Proxy, TLAPS

-----------------------------------------------------------------------------
(* The queue.                                                              *)

QueueInv ==
  /\ \A c \in Clients : script[c] \in Scripts[c]
  /\ queue \in Seq(Line) /\ Len(queue) <= MaxQueued
  /\ sent \in [Clients -> 0..MaxLines] /\ gone \in [Clients -> 0..MaxLines]
  /\ \A c \in Clients : gone[c] <= sent[c]

\* QueueKeepsOrder, line by line.
Order ==
  /\ \A i \in DOMAIN queue : queue[i].n \in gone[queue[i].from] + 1 .. sent[queue[i].from]
  /\ \A c \in Clients : \A n \in gone[c] + 1 .. sent[c] :
       \E i \in DOMAIN queue : queue[i].from = c /\ queue[i].n = n
  /\ \A i, j \in DOMAIN queue :
       i < j /\ queue[i].from = queue[j].from => queue[i].n < queue[j].n

LEMMA OrderIsKept == Order => QueueKeepsOrder
<1> SUFFICES ASSUME Order PROVE QueueKeepsOrder OBVIOUS
<1>1. ASSUME NEW c \in Clients
      PROVE  {queue[i].n : i \in {j \in DOMAIN queue : queue[j].from = c}}
               = gone[c] + 1 .. sent[c]
  <2>1. \A n \in gone[c] + 1 .. sent[c] :
          n \in {queue[i].n : i \in {j \in DOMAIN queue : queue[j].from = c}}
    BY DEF Order
  <2>2. \A n \in {queue[i].n : i \in {j \in DOMAIN queue : queue[j].from = c}} :
          n \in gone[c] + 1 .. sent[c]
    BY DEF Order
  <2> QED BY <2>1, <2>2
<1> QED BY <1>1 DEF QueueKeepsOrder, Order

LEMMA Scripted ==
  ASSUME QueueInv, NEW c \in Clients
  PROVE  /\ script[c] \in Seq(Commands) /\ Len(script[c]) <= MaxLines
         /\ MaxLines \in Nat /\ MaxQueued \in Nat /\ sent[c] \in Nat /\ gone[c] \in Nat
  BY ProxyAssumption DEF QueueInv

LEMMA MsgsndQueue ==
  ASSUME QueueInv, Order, NEW c \in Clients, Msgsnd(c) PROVE QueueInv' /\ Order'
<1> DEFINE m == [from |-> c, n |-> sent[c] + 1, cmd |-> script[c][sent[c] + 1]]
<1>1. sent[c] + 1 \in 1..MaxLines /\ m \in Line /\ sent[c] + 1 \in 0..MaxLines
  BY Scripted DEF Msgsnd, Line
<1>2. m.from = c /\ m.n = sent[c] + 1 OBVIOUS
<1>3. /\ queue' = Append(queue, m) /\ sent' = [sent EXCEPT ![c] = @ + 1]
      /\ UNCHANGED <<script, gone>> /\ Len(queue) < MaxQueued
  BY DEF Msgsnd
<1> HIDE DEF m
<1>4. /\ DOMAIN queue' = DOMAIN queue \cup {Len(queue) + 1}
      /\ queue'[Len(queue) + 1] = m
      /\ \A i \in DOMAIN queue : queue'[i] = queue[i] /\ i \in Nat /\ i < Len(queue) + 1
      /\ \A i \in DOMAIN queue : queue[i].from \in Clients
  <2>1. queue \in Seq(Line) /\ \A l \in Line : l.from \in Clients BY DEF QueueInv, Line
  <2>2. /\ DOMAIN queue = 1..Len(queue) /\ Len(queue) \in Nat
        /\ \A i \in DOMAIN queue : queue[i] \in Line
    BY <2>1
  <2>3. /\ DOMAIN queue' = 1..(Len(queue) + 1) /\ queue'[Len(queue) + 1] = m
        /\ \A i \in DOMAIN queue : queue'[i] = queue[i]
    BY <1>1, <1>3, <2>1
  <2> QED BY <2>1, <2>2, <2>3
<1>5. QueueInv'
  <2>1. queue' \in Seq(Line) /\ Len(queue') <= MaxQueued
    BY <1>1, <1>3, Scripted DEF QueueInv
  <2> QED BY <1>1, <1>3, <2>1, Scripted DEF QueueInv
<1>6. \A d \in Clients : sent'[d] = IF d = c THEN sent[c] + 1 ELSE sent[d]
  BY <1>3 DEF QueueInv
<1>7. \A d \in Clients : sent[d] \in Nat /\ gone[d] \in Nat /\ gone[d] <= sent[d]
  BY Scripted DEF QueueInv
<1>8. ASSUME NEW i \in DOMAIN queue'
      PROVE  queue'[i].n \in gone'[queue'[i].from] + 1 .. sent'[queue'[i].from]
  <2>1. CASE i \in DOMAIN queue
    BY <1>3, <1>4, <1>6, <1>7, <2>1 DEF Order
  <2>2. CASE i = Len(queue) + 1
    BY <1>2, <1>3, <1>4, <1>6, <1>7, <2>2
  <2> QED BY <1>4, <2>1, <2>2
<1>9. ASSUME NEW d \in Clients, NEW n \in gone'[d] + 1 .. sent'[d]
      PROVE  \E i \in DOMAIN queue' : queue'[i].from = d /\ queue'[i].n = n
  <2>1. CASE n \in gone[d] + 1 .. sent[d]
    <3>1. PICK i \in DOMAIN queue : queue[i].from = d /\ queue[i].n = n BY <2>1 DEF Order
    <3> QED BY <1>4, <3>1
  <2>2. CASE d = c /\ n = sent[c] + 1
    BY <1>2, <1>4, <2>2
  <2>3. gone'[d] = gone[d] BY <1>3
  <2> QED BY <1>6, <1>7, <2>1, <2>2, <2>3
<1>10. ASSUME NEW i \in DOMAIN queue', NEW j \in DOMAIN queue', i < j,
              queue'[i].from = queue'[j].from
       PROVE  queue'[i].n < queue'[j].n
  <2>1. i \in DOMAIN queue BY <1>4, <1>10
  <2>2. CASE j \in DOMAIN queue BY <1>4, <1>10, <2>1, <2>2 DEF Order
  <2>3. CASE j = Len(queue) + 1
    <3>1. queue'[i] = queue[i] /\ queue[i].from = c BY <1>2, <1>4, <1>10, <2>1, <2>3
    <3>2. queue[i].n \in gone[c] + 1 .. sent[c] BY <2>1, <3>1 DEF Order
    <3> QED BY <1>2, <1>4, <1>7, <2>3, <3>1, <3>2
  <2> QED BY <1>4, <2>2, <2>3
<1> QED BY <1>5, <1>8, <1>9, <1>10 DEF Order

LEMMA MsgrcvQueue == ASSUME QueueInv, Order, Msgrcv PROVE QueueInv' /\ Order'
<1> DEFINE m == queue[1]
           c == queue[1].from
<1>1. /\ queue \in Seq(Line) /\ queue # <<>> /\ queue' = Tail(queue)
      /\ gone' = [gone EXCEPT ![c] = @ + 1] /\ UNCHANGED <<script, sent>>
  <2>1. queue \in Seq(Line) /\ queue # <<>> BY DEF Msgrcv, QueueInv
  <2>2. Head(queue) = queue[1] BY <2>1
  <2> QED BY <2>1, <2>2 DEF Msgrcv
<1>2. /\ 1 \in DOMAIN queue /\ m \in Line /\ c \in Clients /\ Len(queue) \in Nat
      /\ DOMAIN queue = 1..Len(queue) /\ DOMAIN queue' = 1..(Len(queue) - 1)
      /\ \A i \in DOMAIN queue' : queue'[i] = queue[i + 1] /\ i + 1 \in DOMAIN queue
      /\ \A i \in DOMAIN queue : queue[i].from \in Clients /\ queue[i].n \in Nat
  <2>1. \A l \in Line : l.from \in Clients /\ l.n \in Nat BY DEF Line
  <2>2. Len(queue) \in Nat \ {0} /\ DOMAIN queue = 1..Len(queue) BY <1>1
  <2>3. Len(queue') = Len(queue) - 1 /\ DOMAIN queue' = 1..(Len(queue) - 1) BY <1>1
  <2>4. \A i \in DOMAIN queue' : queue'[i] = queue[i + 1] /\ i + 1 \in DOMAIN queue
    BY <1>1, <2>2, <2>3
  <2>5. \A i \in DOMAIN queue : queue[i] \in Line BY <1>1
  <2>6. 1 \in DOMAIN queue BY <2>2
  <2> QED BY <2>1, <2>2, <2>3, <2>4, <2>5, <2>6
<1>3. \A d \in Clients : sent[d] \in Nat /\ gone[d] \in Nat /\ gone[d] <= sent[d]
  BY Scripted DEF QueueInv
<1>4. m.n = gone[c] + 1
  <2>1. m.n \in gone[c] + 1 .. sent[c] BY <1>2 DEF Order
  <2>2. gone[c] + 1 \in gone[c] + 1 .. sent[c] BY <1>2, <1>3, <2>1
  <2>3. PICK i \in DOMAIN queue : queue[i].from = c /\ queue[i].n = gone[c] + 1
    BY <1>2, <2>2 DEF Order
  <2>4. i = 1 \/ 1 < i BY <1>2, <2>3
  <2>5. CASE 1 < i
    <3>1. m.n < gone[c] + 1 BY <1>2, <2>3, <2>5 DEF Order
    <3> QED BY <1>2, <1>3, <2>1, <3>1
  <2> QED BY <2>3, <2>4, <2>5
<1>5. gone[c] + 1 <= sent[c] BY <1>2, <1>3, <1>4 DEF Order
<1>6. \A d \in Clients : gone'[d] = IF d = c THEN gone[c] + 1 ELSE gone[d]
  BY <1>1 DEF QueueInv
<1>7. QueueInv'
  <2>1. queue' \in Seq(Line) /\ Len(queue') <= MaxQueued
    <3>1. Len(queue') = Len(queue) - 1 /\ queue' \in Seq(Line) BY <1>1
    <3> QED BY <1>2, <3>1, Scripted DEF QueueInv
  <2>2. gone' \in [Clients -> 0..MaxLines]
    <3>1. gone[c] + 1 \in 0..MaxLines BY <1>2, <1>3, <1>5, Scripted DEF QueueInv
    <3> QED BY <1>1, <3>1 DEF QueueInv
  <2>3. \A d \in Clients : gone'[d] <= sent'[d] BY <1>1, <1>3, <1>5, <1>6
  <2> QED BY <1>1, <2>1, <2>2, <2>3 DEF QueueInv
<1>8. ASSUME NEW i \in DOMAIN queue'
      PROVE  queue'[i].n \in gone'[queue'[i].from] + 1 .. sent'[queue'[i].from]
  <2>1. i + 1 \in DOMAIN queue /\ queue'[i] = queue[i + 1] /\ 1 < i + 1 BY <1>2
  <2>2. queue[i + 1].n \in gone[queue[i + 1].from] + 1 .. sent[queue[i + 1].from]
    BY <2>1 DEF Order
  <2>3. queue[i + 1].from = c => m.n < queue[i + 1].n BY <1>2, <2>1 DEF Order
  <2>4. queue[i + 1].from \in Clients /\ queue[i + 1].n \in Nat BY <1>2, <2>1
  <2> QED BY <1>1, <1>3, <1>4, <1>6, <2>1, <2>2, <2>3, <2>4
<1>9. ASSUME NEW d \in Clients, NEW n \in gone'[d] + 1 .. sent'[d]
      PROVE  \E i \in DOMAIN queue' : queue'[i].from = d /\ queue'[i].n = n
  <2>1. n \in gone[d] + 1 .. sent[d] BY <1>1, <1>3, <1>6
  <2>2. PICK i \in DOMAIN queue : queue[i].from = d /\ queue[i].n = n BY <2>1 DEF Order
  <2>3. i # 1
    <3> SUFFICES ASSUME i = 1 PROVE FALSE OBVIOUS
    <3>1. d = c /\ n = gone[c] + 1 BY <1>4, <2>2
    <3>2. gone'[d] = gone[c] + 1 BY <1>6, <3>1
    <3> QED BY <1>2, <1>3, <3>1, <3>2
  <2>4. i - 1 \in DOMAIN queue' /\ queue'[i - 1] = queue[(i - 1) + 1] /\ (i - 1) + 1 = i
    BY <1>2, <2>2, <2>3
  <2> QED BY <2>2, <2>4
<1>10. ASSUME NEW i \in DOMAIN queue', NEW j \in DOMAIN queue', i < j,
              queue'[i].from = queue'[j].from
       PROVE  queue'[i].n < queue'[j].n
  <2>1. i + 1 \in DOMAIN queue /\ j + 1 \in DOMAIN queue /\ i + 1 < j + 1
    BY <1>2, <1>10
  <2> QED BY <1>2, <1>10, <2>1 DEF Order
<1> QED BY <1>7, <1>8, <1>9, <1>10 DEF Order

LEMMA RestQueue == ASSUME QueueInv, Order, [Next]_vars PROVE QueueInv' /\ Order'
<1>1. CASE \E c \in Clients : Msgsnd(c) BY <1>1, MsgsndQueue
<1>2. CASE Msgrcv BY <1>2, MsgrcvQueue
<1>3. CASE Ipcrm
  <2>1. queue' = <<>> /\ gone' = sent /\ UNCHANGED <<script, sent>> BY <1>3 DEF Ipcrm
  <2>2. queue' \in Seq(Line) /\ Len(queue') = 0 /\ DOMAIN queue' = {} BY <2>1
  <2>3. \A c \in Clients : gone'[c] + 1 .. sent'[c] = {} /\ gone'[c] <= sent'[c]
    BY <2>1, Scripted
  <2>4. MaxQueued \in Nat BY ProxyAssumption
  <2> QED BY <2>1, <2>2, <2>3, <2>4 DEF QueueInv, Order
<1>4. CASE UNCHANGED ipc BY <1>4 DEF ipc, QueueInv, Order
<1>5. (\E c \in Clients : Msgsnd(c)) \/ Msgrcv \/ Ipcrm \/ UNCHANGED ipc
  BY DEF Next, Step, vars, Edit, RedisStops, RedisStarts, ServerChanges, ServerStarts, Start,
    Kill, handle_request, EmptyLine, git_init_at_client, git_add_at_client,
    git_commit_at_client, ListStatus, SendFiles
<1> QED BY <1>1, <1>2, <1>3, <1>4, <1>5

LEMMA InitQueue == Init => QueueInv /\ Order
<1> SUFFICES ASSUME Init PROVE QueueInv /\ Order OBVIOUS
<1>1. /\ queue = <<>> /\ sent = [c \in Clients |-> 0] /\ gone = [c \in Clients |-> 0]
      /\ \A c \in Clients : script[c] \in Scripts[c]
  BY DEF Init
<1>2. queue \in Seq(Line) /\ Len(queue) = 0 /\ DOMAIN queue = {} BY <1>1
<1>3. MaxQueued \in Nat /\ MaxLines \in Nat BY ProxyAssumption
<1> QED BY <1>1, <1>2, <1>3 DEF QueueInv, Order

-----------------------------------------------------------------------------
(* Types.                                                                  *)

\* TypeOK without what QueueInv says.
StateOK ==
  /\ faults \in 0..MaxFaults /\ qid \in 0..faults /\ msgid \in 0..qid
  /\ proxy \in {"down", "msgrcv", "handle", "local", "remote", "send"}
  /\ line \in Line \cup {NoLine}
  /\ line = NoLine <=> proxy \in {"down", "msgrcv"}
  /\ rc \in {"none", "ok", "error"} /\ (rc = "none" <=> proxy = "down")
  /\ listed \subseteq Files /\ (listed # {} <=> proxy = "send")
  /\ answer \in {"none", "clean", "SUCCESS", "conflict"}
  /\ redis \in {"up", "loading", "down"} /\ table \in BOOLEAN
  /\ work \in Tree /\ asked \in Tree /\ index \in Tree /\ stored \in Tree
  /\ repo \in BOOLEAN /\ head \in Tree \cup {NoCommit}
  /\ serverUp \in BOOLEAN /\ branch \in BOOLEAN
  /\ away \in BOOLEAN /\ ignored \subseteq Local \cup {"GIT_PUSH"}

LEMMA Naturals == MaxFaults \in Nat /\ MaxVersion \in Nat /\ NoLine \notin Line
  BY ProxyAssumption

\* A file of a tree has a version, a natural number.
LEMMA TreeValues ==
  ASSUME NEW t \in Tree, NEW f \in Files PROVE t[f] \in Versions /\ t[f] \in Nat
  BY Naturals DEF Tree, Versions

LEMMA FaultCounted ==
  ASSUME StateOK, NEW kind, Fault(kind)
  PROVE  faults' \in 0..MaxFaults /\ faults' = faults + 1 /\ qid \in 0..faults'
         /\ qid + 1 \in 0..faults' /\ msgid \in 0..qid /\ msgid \in 0..(qid + 1)
  BY Naturals DEF StateOK, Fault

LEMMA WorldTyped ==
  ASSUME StateOK,
         \/ \E c \in Clients : Msgsnd(c)
         \/ \E f \in Files : Edit(f)
         \/ Ipcrm \/ RedisStops \/ RedisStarts \/ ServerChanges \/ ServerStarts
  PROVE  StateOK'
<1>1. CASE \E c \in Clients : Msgsnd(c)
  BY <1>1 DEF Msgsnd, StateOK, store, disk, main, seen
<1>2. CASE \E f \in Files : Edit(f)
  <2>1. PICK f \in Files : Edit(f) BY <1>2
  <2>2. work[f] + 1 \in Versions BY <2>1, Naturals, TreeValues DEF Edit, StateOK, Versions
  <2>3. work' \in Tree BY <2>1, <2>2 DEF Edit, StateOK, Tree
  <2> QED BY <2>1, <2>3 DEF Edit, StateOK, ipc, store, disk, main, seen
<1>3. CASE Ipcrm
  <2>1. /\ faults' \in 0..MaxFaults /\ qid' \in 0..faults' /\ msgid' \in 0..qid'
    BY <1>3, FaultCounted DEF Ipcrm
  <2> QED BY <1>3, <2>1 DEF Ipcrm, StateOK, store, disk, main
<1>4. CASE RedisStops \/ ServerChanges
  <2>1. /\ faults' \in 0..MaxFaults /\ qid' \in 0..faults' /\ msgid' \in 0..qid'
    BY <1>4, FaultCounted DEF RedisStops, ServerChanges, ipc
  <2>2. UNCHANGED <<proxy, line, listed, answer, work, asked, index, stored, repo, head, ignored>>
    BY <1>4 DEF RedisStops, ServerChanges, disk, main
  <2>3. (serverUp' = FALSE \/ UNCHANGED serverUp) /\ (branch' = TRUE \/ UNCHANGED branch)
    BY <1>4 DEF RedisStops, ServerChanges, main
  <2>4. (away' = TRUE \/ UNCHANGED away) /\ UNCHANGED table
    BY <1>4 DEF RedisStops, ServerChanges, store
  <2>5. /\ redis' \in {"up", "loading", "down"} /\ rc' \in {"none", "ok", "error"}
        /\ rc' = "none" <=> rc = "none"
    BY <1>4 DEF RedisStops, ServerChanges, store, StateOK
  <2>6. {serverUp', branch', away', table'} \subseteq BOOLEAN BY <2>3, <2>4 DEF StateOK
  <2> QED BY <2>1, <2>2, <2>5, <2>6 DEF StateOK
<1>5. CASE RedisStarts \/ ServerStarts
  <2>1. UNCHANGED <<faults, qid, msgid, proxy, line, rc, listed, answer, work, asked, index,
                    stored, repo, head, branch, away, ignored>>
    BY <1>5 DEF RedisStarts, ServerStarts, ipc, disk, main, seen
  <2>2. table' \in {table, FALSE} /\ (serverUp' = TRUE \/ UNCHANGED serverUp)
    BY <1>5 DEF RedisStarts, ServerStarts, store, main
  <2>3. redis' \in {"up", "loading", "down"}
    BY <1>5 DEF RedisStarts, ServerStarts, store, StateOK
  <2>4. {serverUp', table'} \subseteq BOOLEAN BY <2>2 DEF StateOK
  <2> QED BY <2>1, <2>3, <2>4 DEF StateOK
<1> QED BY <1>1, <1>2, <1>3, <1>4, <1>5

LEMMA ProxyTyped ==
  ASSUME QueueInv, StateOK, Start \/ Step \/ Kill PROVE StateOK'
<1>1. CASE Start
  <2>1. msgid' \in 0..qid' /\ UNCHANGED <<faults, qid>>
    BY <1>1, Naturals DEF Start, StateOK, ipc, seen
  <2> QED BY <1>1, <2>1 DEF Start, StateOK, ipc, disk, main, seen
<1>2. CASE Kill
  <2>1. /\ faults' \in 0..MaxFaults /\ qid' \in 0..faults' /\ msgid' \in 0..qid'
    BY <1>2, FaultCounted DEF Kill, ipc
  <2> QED BY <1>2, <2>1 DEF Kill, Dies, StateOK, ipc, store, disk, main
<1>3. CASE Msgrcv
  <2>1. queue \in Seq(Line) /\ queue # <<>> BY <1>3 DEF Msgrcv, QueueInv
  <2>2. line' \in Line /\ line' # NoLine BY <1>3, <2>1, Naturals DEF Msgrcv
  <2>3. asked' \in Tree BY <1>3 DEF Msgrcv, StateOK
  <2> QED BY <1>3, <2>2, <2>3 DEF Msgrcv, StateOK, store, disk, main
<1>4. CASE handle_request
  <2>1. line \in Line /\ line.cmd \in Commands BY <1>4 DEF handle_request, StateOK, Line
  <2>2. line.cmd # "empty" BY <1>4 DEF handle_request
  <2>3. ignored' \subseteq Local \cup {"GIT_PUSH"}
    BY <1>4, <2>1, <2>2 DEF handle_request, Returns, StateOK, Commands
  <2> QED BY <1>4, <2>3 DEF handle_request, Returns, StateOK, ipc, store, disk, main
<1>5. CASE EmptyLine BY <1>5 DEF EmptyLine, Dies, StateOK, ipc, store, disk, main, seen
<1>6. CASE git_init_at_client
  <2>1. CASE Returns /\ repo' = TRUE
    BY <1>6, <2>1 DEF git_init_at_client, Returns, StateOK, ipc, store, main, seen
  <2>2. CASE Dies /\ UNCHANGED repo
    BY <1>6, <2>2 DEF git_init_at_client, Dies, StateOK, ipc, store, main, seen
  <2> QED BY <1>6, <2>1, <2>2 DEF git_init_at_client
<1>7. CASE git_add_at_client
  <2>1. /\ faults' \in 0..MaxFaults /\ qid' \in 0..faults' /\ msgid' \in 0..qid'
    BY <1>7, FaultCounted DEF git_add_at_client, StateOK, ipc
  <2> QED BY <1>7, <2>1 DEF git_add_at_client, Returns, Dies, StateOK, ipc, store, main
<1>8. CASE git_commit_at_client
  BY <1>8 DEF git_commit_at_client, Returns, Dies, StateOK, ipc, store, main, seen
<1>9. CASE ListStatus
  BY <1>9 DEF ListStatus, Changed, Returns, StateOK, ipc, store, disk, main, seen
<1>10. CASE SendFiles
  <2>1. stored' \in Tree BY <1>10, TreeValues DEF SendFiles, StateOK, Tree
  <2>2. /\ branch' \in BOOLEAN /\ answer' \in {"none", "clean", "SUCCESS", "conflict"}
        /\ UNCHANGED <<ipc, msgid, store, work, disk, serverUp, seen>>
    BY <1>10 DEF SendFiles, StateOK
  <2>3. CASE Returns BY <1>10, <2>1, <2>2, <2>3 DEF SendFiles, Returns, StateOK, ipc, store, disk, seen
  <2>4. CASE Dies BY <2>1, <2>2, <2>4 DEF Dies, StateOK, ipc, store, disk, seen
  <2> QED BY <1>10, <2>3, <2>4 DEF SendFiles
<1> QED BY <1>1, <1>2, <1>3, <1>4, <1>5, <1>6, <1>7, <1>8, <1>9, <1>10 DEF Step

LEMMA QueueInvariant == Spec => [](QueueInv /\ Order /\ StateOK)
<1>1. Init => StateOK
  <2> SUFFICES ASSUME Init PROVE StateOK OBVIOUS
  <2>1. 0 \in Versions /\ 0 \in 0..MaxFaults /\ 0 \in 0..0 BY Naturals DEF Versions
  <2>2. work \in Tree /\ index \in Tree /\ stored \in Tree /\ asked \in Tree
    BY <2>1 DEF Init, Tree
  <2>3. /\ faults = 0 /\ qid = 0 /\ msgid = 0 /\ proxy = "down" /\ line = NoLine
        /\ rc = "none" /\ listed = {} /\ answer = "none" /\ redis = "up" /\ table = FALSE
        /\ repo = FALSE /\ head = NoCommit /\ serverUp = TRUE /\ branch = FALSE
        /\ away = FALSE /\ ignored = {}
    BY DEF Init
  <2> QED BY <2>1, <2>2, <2>3 DEF StateOK
<1>2. QueueInv /\ Order /\ StateOK /\ [Next]_vars => (QueueInv /\ Order /\ StateOK)'
  <2> SUFFICES ASSUME QueueInv, Order, StateOK, [Next]_vars
               PROVE  (QueueInv /\ Order /\ StateOK)'
    OBVIOUS
  <2>1. QueueInv' /\ Order' BY RestQueue
  <2>2. StateOK'
    <3>1. CASE UNCHANGED vars BY <3>1 DEF vars, StateOK, ipc, store, disk, main, seen
    <3>2. CASE Start \/ Step \/ Kill BY <3>2, ProxyTyped
    <3>3. CASE ~UNCHANGED vars /\ ~(Start \/ Step \/ Kill)
      BY <3>3, WorldTyped DEF Next
    <3> QED BY <3>1, <3>2, <3>3
  <2> QED BY <2>1, <2>2
<1> QED BY <1>1, <1>2, InitQueue, PTL DEF Spec

\* Every variable keeps its type, the proxy's pc and its inpcmd, Redis connection
\* and list agree, and the queue never holds more than it has room for, whatever
\* comes together around main (ProxyServer.c 578-618).
THEOREM TypeCorrect == Spec => []TypeOK
<1>1. QueueInv /\ StateOK => TypeOK BY DEF QueueInv, StateOK, TypeOK
<1> QED BY <1>1, QueueInvariant, PTL

\* Every line waits in the queue once and in its place until it is taken: the
\* crashes and restarts of handle_request's callees do not reach it.
THEOREM QueueOrdered == Spec => []QueueKeepsOrder
  BY OrderIsKept, QueueInvariant, PTL

-----------------------------------------------------------------------------
(* Redis.                                                                  *)

\* While Redis was never away, a running proxy is connected and the table there.
RedisInv ==
  ~away => redis = "up" /\ ignored = {} /\ (proxy # "down" => rc = "ok" /\ table)

LEMMA NextRedis == ASSUME StateOK, RedisInv, [Next]_vars PROVE RedisInv'
<1>1. CASE handle_request
  <2>1. line.cmd \in Commands /\ line.cmd # "empty" /\ rc # "none"
    BY <1>1 DEF handle_request, StateOK, Line
  <2>2. ASSUME ~away PROVE line.cmd \in Runs \/ line.cmd = "other"
    <3>1. rc = "ok" /\ redis = "up" /\ table BY <1>1, <2>2 DEF handle_request, RedisInv
    <3>2. line.cmd \in DOMAIN Number \/ line.cmd = "other"
      BY <2>1 DEF Commands, Local, Number
    <3>3. line.cmd \in DOMAIN Number => get_index(line.cmd) = Number[line.cmd]
      BY <3>1 DEF get_index
    <3>4. /\ Number["GIT_INIT"] = 0 /\ Number["GIT_ADD"] = 1 /\ Number["GIT_COMMIT"] = 2
          /\ Number["GIT_PUSH"] = 3
      BY DEF Number
    <3>5. CASE line.cmd \in Local
      <4>1. get_index(line.cmd) \in 0..2
        BY <3>2, <3>3, <3>4, <3>5 DEF Local, Number
      <4> QED BY <3>5, <4>1 DEF Runs
    <3>6. CASE line.cmd = "GIT_PUSH"
      <4>1. get_index(line.cmd) = 3 BY <3>3, <3>4, <3>6 DEF Number
      <4> QED BY <3>6, <4>1 DEF Runs
    <3> QED BY <2>1, <3>5, <3>6 DEF Commands
  <2> QED BY <1>1, <2>2 DEF handle_request, Returns, RedisInv, store
<1>2. CASE \/ \E c \in Clients : Msgsnd(c)
           \/ \E f \in Files : Edit(f)
           \/ Ipcrm \/ RedisStops \/ RedisStarts \/ ServerChanges \/ ServerStarts
           \/ Start \/ Kill \/ UNCHANGED vars
  BY <1>2 DEF StateOK, RedisInv, Msgsnd, Edit, Ipcrm, RedisStops, RedisStarts, ServerChanges,
    ServerStarts, Start, Kill, Dies, vars, store, seen
<1>3. CASE Msgrcv \/ EmptyLine \/ git_init_at_client \/ git_add_at_client
           \/ git_commit_at_client \/ ListStatus \/ SendFiles
  BY <1>3 DEF StateOK, RedisInv, Msgrcv, EmptyLine, git_init_at_client, git_add_at_client,
    git_commit_at_client, ListStatus, SendFiles, Returns, Dies, store, seen
<1> QED BY <1>1, <1>2, <1>3 DEF Next, Step

\* get_index and the comparisons behind it drop no command while Redis is there
\* (ProxyServer.c 51-62, 524-576).
THEOREM OnlyRedisDrops == Spec => []IgnoredNeedsRedis
<1>1. Init => RedisInv BY DEF Init, RedisInv
<1>2. StateOK /\ RedisInv /\ [Next]_vars => RedisInv' BY NextRedis
<1>3. RedisInv => IgnoredNeedsRedis BY DEF RedisInv, IgnoredNeedsRedis
<1> QED BY <1>1, <1>2, <1>3, QueueInvariant, PTL DEF Spec

-----------------------------------------------------------------------------
(* Versions.                                                               *)

LEMMA NextVersions == ASSUME StateOK, VersionsInOrder, [Next]_vars PROVE VersionsInOrder'
<1>1. /\ \A f \in Files : work[f] \in Nat /\ index[f] \in Nat /\ stored[f] \in Nat
      /\ \A f \in Files : Committed(f) \in Nat
  BY TreeValues DEF StateOK, Committed
<1>2. CASE \E f \in Files : Edit(f)
  <2>1. PICK g \in Files : Edit(g) BY <1>2
  <2>2. /\ UNCHANGED <<index, head, stored>>
        /\ \A f \in Files : work'[f] = IF f = g THEN work[g] + 1 ELSE work[f]
    BY <2>1 DEF Edit, disk, main, StateOK, Tree
  <2> QED BY <1>1, <2>2 DEF VersionsInOrder, Committed
<1>3. CASE git_add_at_client
  <2>1. UNCHANGED <<head, stored, work>> /\ index' \in {index, work}
    BY <1>3 DEF git_add_at_client, main
  <2> QED BY <1>1, <2>1 DEF VersionsInOrder, Committed
<1>4. CASE git_commit_at_client
  <2>1. UNCHANGED <<index, stored, work>> /\ head' \in {head, index}
    BY <1>4 DEF git_commit_at_client, main
  <2>2. \A f \in Files : Committed(f)' \in {Committed(f), index[f], 0}
    BY <2>1 DEF Committed
  <2> QED BY <1>1, <2>1, <2>2 DEF VersionsInOrder
<1>5. CASE SendFiles
  <2>1. /\ UNCHANGED <<head, index, work>>
        /\ \A f \in Files : stored'[f] \in {stored[f], work[f]}
    BY <1>5 DEF SendFiles, disk
  <2> QED BY <1>1, <2>1 DEF VersionsInOrder, Committed
<1>6. CASE UNCHANGED <<head, index, work, stored>>
  BY <1>6 DEF VersionsInOrder, Committed
<1>7. \/ \E f \in Files : Edit(f)
      \/ git_add_at_client \/ git_commit_at_client \/ SendFiles
      \/ UNCHANGED <<head, index, work, stored>>
  BY DEF Next, Step, vars, disk, main, Msgsnd, Ipcrm, RedisStops, RedisStarts, ServerChanges,
    ServerStarts, Start, Kill, Msgrcv, handle_request, EmptyLine, git_init_at_client, ListStatus
<1> QED BY <1>2, <1>3, <1>4, <1>5, <1>6, <1>7

LEMMA Versioned == Spec => [](StateOK /\ VersionsInOrder)
<1>1. Init => VersionsInOrder
  <2> SUFFICES ASSUME Init PROVE VersionsInOrder OBVIOUS
  <2>1. /\ \A f \in Files : index[f] = 0 /\ stored[f] = 0 /\ work[f] \in Versions
        /\ head = NoCommit
    BY DEF Init
  <2>2. \A f \in Files : work[f] \in Nat BY <2>1, Naturals DEF Versions
  <2> QED BY <2>1, <2>2 DEF VersionsInOrder, Committed
<1>2. StateOK /\ VersionsInOrder /\ [Next]_vars => VersionsInOrder' BY NextVersions
<1> QED BY <1>1, <1>2, QueueInvariant, PTL DEF Spec

\* No order of commands, edits, crashes and pushes puts a newer version before an
\* older one (git_add_at_client, git_commit_at_client, git_push_server).
THEOREM VersionsOrdered == Spec => []VersionsInOrder
  BY Versioned, PTL

\* What a push that was taken knows: nothing was added or committed since, and
\* what is not listed had no change then.
PushInv ==
  /\ proxy \in {"remote", "send"} => line.cmd = "GIT_PUSH"
  /\ proxy \in {"handle", "remote", "send"} /\ line.cmd = "GIT_PUSH" =>
       \A f \in Files : index[f] <= asked[f] /\ asked[f] <= work[f]
  /\ proxy = "send" => \A f \in Files \ listed : asked[f] = Committed(f)

LEMMA NextPush == ASSUME StateOK, VersionsInOrder, PushInv, [Next]_vars PROVE PushInv'
<1>1. \A f \in Files : work[f] \in Nat /\ index[f] \in Nat /\ asked[f] \in Nat
  BY TreeValues DEF StateOK
<1>2. CASE Msgrcv
  <2>1. /\ proxy' = "handle" /\ UNCHANGED <<work, index>>
        /\ line'.cmd = "GIT_PUSH" => asked' = work
    BY <1>2 DEF Msgrcv, disk
  <2>2. \A f \in Files : index[f] <= work[f] /\ work[f] <= work[f]
    BY <1>1 DEF VersionsInOrder
  <2> QED BY <2>1, <2>2 DEF PushInv
<1>3. CASE handle_request
  <2>1. /\ UNCHANGED <<work, index, asked>>
        /\ proxy' = "msgrcv" \/ (UNCHANGED line /\ line.cmd \in Runs
                                 /\ proxy' = IF line.cmd \in Local THEN "local" ELSE "remote")
    BY <1>3 DEF handle_request, Returns, disk
  <2>2. line.cmd \in Runs /\ line.cmd \notin Local => line.cmd = "GIT_PUSH"
    BY DEF Runs
  <2>3. proxy = "handle" BY <1>3 DEF handle_request
  <2> QED BY <2>1, <2>2, <2>3 DEF PushInv
<1>4. CASE ListStatus
  <2>1. /\ proxy = "remote" /\ UNCHANGED <<work, index, head, asked>>
        /\ proxy' = "msgrcv" \/ (proxy' = "send" /\ listed' = Changed /\ UNCHANGED line)
    BY <1>4 DEF ListStatus, Returns, disk, seen
  <2>2. ASSUME NEW f \in Files \ Changed PROVE asked[f] = Committed(f)
    <3>1. index[f] = Committed(f) /\ work[f] = index[f] BY <2>2 DEF Changed
    <3>2. index[f] <= asked[f] /\ asked[f] <= work[f] BY <2>1 DEF PushInv
    <3> QED BY <1>1, <3>1, <3>2
  <2> QED BY <2>1, <2>2 DEF PushInv, Committed
<1>5. CASE \E f \in Files : Edit(f)
  <2>1. PICK g \in Files : Edit(g) BY <1>5
  <2>2. /\ UNCHANGED <<proxy, line, listed, index, head, asked>>
        /\ \A f \in Files : work'[f] = IF f = g THEN work[g] + 1 ELSE work[f]
    BY <2>1 DEF Edit, disk, seen, StateOK, Tree
  <2>3. \A f \in Files : work[f] <= work'[f] /\ work'[f] \in Nat BY <1>1, <2>2
  <2> QED BY <1>1, <2>2, <2>3 DEF PushInv, Committed
<1>6. CASE UNCHANGED <<proxy, line, listed, work, index, head, asked>>
  BY <1>6 DEF PushInv, Committed
<1>7. CASE proxy' \in {"down", "msgrcv"} BY <1>7 DEF PushInv
<1>8. \/ Msgrcv \/ handle_request \/ ListStatus \/ \E f \in Files : Edit(f)
      \/ UNCHANGED <<proxy, line, listed, work, index, head, asked>>
      \/ proxy' \in {"down", "msgrcv"}
  BY DEF Next, Step, vars, disk, seen, Msgsnd, Ipcrm, RedisStops, RedisStarts, ServerChanges,
    ServerStarts, Start, Kill, Dies, Returns, EmptyLine, git_init_at_client,
    git_add_at_client, git_commit_at_client, SendFiles
<1> QED BY <1>2, <1>3, <1>4, <1>5, <1>6, <1>7, <1>8

LEMMA SuccessCovers ==
  ASSUME StateOK, PushInv, Next, proxy = "send", answer' = "SUCCESS", proxy' = "msgrcv",
         NEW f \in Files
  PROVE  asked[f] = Committed(f) \/ stored'[f] >= asked[f]
<1>1. SendFiles \/ UNCHANGED proxy \/ proxy' = "down"
  BY DEF Next, Step, Msgsnd, Edit, Ipcrm, RedisStops, RedisStarts, ServerChanges, ServerStarts,
    Start, Kill, Dies, Msgrcv, handle_request, EmptyLine, git_init_at_client,
    git_add_at_client, git_commit_at_client, ListStatus
<1>2. SendFiles BY <1>1
<1>3. stored'[f] = IF f \in listed THEN work[f] ELSE stored[f]
  BY <1>2 DEF SendFiles, Dies
<1>4. CASE f \in listed
  <2>1. line.cmd = "GIT_PUSH" /\ asked[f] <= work[f] BY DEF PushInv
  <2>2. asked[f] \in Nat /\ work[f] \in Nat BY TreeValues DEF StateOK
  <2> QED BY <1>3, <1>4, <2>1, <2>2
<1>5. CASE f \notin listed BY <1>5 DEF PushInv
<1> QED BY <1>4, <1>5

\* A push that succeeds has every change that was there when git_push_server was
\* called, though files are edited between its status list and each open (366-420).
THEOREM PushCovers == Spec => PushCoversEdits
<1>1. Init => PushInv BY DEF Init, PushInv
<1>2. StateOK /\ VersionsInOrder /\ PushInv /\ [Next]_vars => PushInv' BY NextPush
<1>3. StateOK /\ PushInv /\ [Next]_vars =>
        [(proxy = "send" /\ answer' = "SUCCESS" /\ proxy' = "msgrcv") =>
           (\A f \in Files : asked[f] = Committed(f) \/ stored'[f] >= asked[f])]_vars
  BY SuccessCovers
<1> QED BY <1>1, <1>2, <1>3, Versioned, PTL DEF Spec, PushCoversEdits
=============================================================================
