-------------------------------- MODULE Proxy --------------------------------
(***************************************************************************)
(* The developer's machine: Client.c, which puts every line it reads into  *)
(* a System V message queue, and ProxyServer.c, which takes the lines one  *)
(* by one, asks Redis for the number of the command, and runs it on a      *)
(* libgit2 repository or against the main server.                          *)
(*                                                                         *)
(* The first eight bytes of a line are the type of its message; msgrcv     *)
(* asks for any type, so that this has no effect but one: msgsnd refuses a *)
(* negative type, and the line is dropped as if it had not been typed.     *)
(*                                                                         *)
(* A file is its version, 0 when it does not exist.  The push on the wire  *)
(* is PushProtocol.tla's: here it is one step, of files that can be sent.  *)
(***************************************************************************)
EXTENDS Naturals, Sequences

CONSTANTS
  Clients,      \* client programs
  Files,
  Scripts,      \* Scripts[c]: what may be typed into client c
  MaxLines,     \* the length of the longest of them
  MaxQueued,    \* messages the queue has room for
  MaxVersion,   \* edits of a file
  MaxFaults,    \* faults in one behaviour
  Faults,       \* which of "kill", "redis", "server", "ipcrm", "write" happen
  NoLine, NoCommit

Versions == 0..MaxVersion
Tree == [Files -> Versions]

Local == {"GIT_INIT", "GIT_ADD", "GIT_COMMIT"}

\* "other" is any other word, GIT_PULL and GIT_CHECKOUT included: they have a
\* number and no code.  "empty" is a line with nothing but its newline.
Commands == Local \cup {"GIT_PUSH", "other", "empty"}

\* A message, with the place of its line among those of its client.
Line == [from : Clients, n : 1..MaxLines, cmd : Commands]

ASSUME ProxyAssumption ==
  /\ \A c \in Clients : \A s \in Scripts[c] : s \in Seq(Commands) /\ Len(s) <= MaxLines
  /\ MaxLines \in Nat
  /\ MaxQueued \in Nat \ {0} /\ MaxVersion \in Nat
  /\ MaxFaults \in Nat
  /\ NoLine \notin Line /\ NoCommit \notin Tree
  /\ Faults \subseteq {"kill", "redis", "server", "ipcrm", "write"}

VARIABLES
  script,   \* script[c]: the lines of client c
  \* The queue, which outlives the programs.
  queue,
  qid,      \* its identifier: how many queues there were before it
  sent,     \* sent[c]: lines of client c put in a queue
  gone,     \* gone[c]: lines of client c that left one
  \* The proxy process.
  proxy,    \* "down", "msgrcv", "handle" a line, "local", "remote", "send"
  line,     \* inpcmd
  msgid,
  rc,       \* the Redis connection: "none", "ok" or in "error"
  listed,   \* status_list
  answer,   \* what the last push printed
  \* Redis.
  redis,    \* "up", "loading" or "down"
  table,    \* it has the hash "commands"
  \* The working directory and its repository, on disk.
  work, repo, index, head,
  \* The main server.
  serverUp,
  branch,   \* main has a head
  stored,   \* what main's manifest lists
  \* History variables.
  faults,   \* how many happened
  asked,    \* the working directory when the last GIT_PUSH was taken
  away,     \* Redis has not been up all the time
  ignored   \* commands that were taken and not run

ipc   == <<script, queue, qid, sent, gone>>
store == <<redis, table>>
disk  == <<repo, index, head>>
main  == <<serverUp, branch, stored>>
seen  == <<faults, asked, away, ignored>>
vars  == <<ipc, proxy, line, msgid, rc, listed, answer, store, work, disk, main, seen>>

Init ==
  /\ script \in {s \in [Clients -> UNION {Scripts[c] : c \in Clients}] :
                  \A c \in Clients : s[c] \in Scripts[c]}
  /\ queue = <<>> /\ qid = 0
  /\ sent = [c \in Clients |-> 0] /\ gone = [c \in Clients |-> 0]
  /\ proxy = "down" /\ line = NoLine /\ msgid = 0 /\ rc = "none"
  /\ listed = {} /\ answer = "none"
  /\ redis = "up" /\ table = FALSE
  /\ work \in [Files -> Versions \cap {0, 1}]
  /\ repo = FALSE /\ index = [f \in Files |-> 0] /\ head = NoCommit
  /\ serverUp = TRUE /\ branch = FALSE /\ stored = [f \in Files |-> 0]
  /\ faults = 0 /\ asked = work /\ away = FALSE /\ ignored = {}

-----------------------------------------------------------------------------
(* Everybody else: clients, the user's editor, Redis, the main server.     *)

\* fgets and msgsnd, which waits for room in the queue.
Msgsnd(c) ==
  /\ sent[c] < Len(script[c]) /\ Len(queue) < MaxQueued
  /\ sent' = [sent EXCEPT ![c] = @ + 1]
  /\ queue' = Append(queue, [from |-> c, n |-> sent[c] + 1, cmd |-> script[c][sent[c] + 1]])
  /\ UNCHANGED <<script, qid, gone, proxy, line, msgid, rc, listed, answer, store, work,
                 disk, main, seen>>

Fault(kind) == kind \in Faults /\ faults < MaxFaults /\ faults' = faults + 1

\* The queue is removed, as test_massive.sh does; the next msgget makes another.
Ipcrm ==
  /\ Fault("ipcrm")
  /\ qid' = qid + 1 /\ queue' = <<>> /\ gone' = sent
  /\ UNCHANGED <<script, sent, proxy, line, msgid, rc, listed, answer, store, work, disk,
                 main, asked, away, ignored>>

Edit(f) ==
  /\ work[f] < MaxVersion
  /\ work' = [work EXCEPT ![f] = @ + 1]
  /\ UNCHANGED <<ipc, proxy, line, msgid, rc, listed, answer, store, disk, main, seen>>

\* Redis stops: connections to it are lost.
RedisStops ==
  /\ Fault("redis") /\ redis # "down"
  /\ redis' = "down" /\ away' = TRUE
  /\ rc' = IF rc = "ok" THEN "error" ELSE rc
  /\ UNCHANGED <<ipc, proxy, line, msgid, listed, answer, table, work, disk, main,
                 asked, ignored>>

\* Redis comes back: it answers with an error until its data are loaded, and
\* what was not saved is lost.
RedisStarts ==
  \/ /\ redis = "down" /\ redis' = "loading"
     /\ table' \in {table, FALSE}
     /\ UNCHANGED <<ipc, proxy, line, msgid, rc, listed, answer, work, disk, main, seen>>
  \/ /\ redis = "loading" /\ redis' = "up"
     /\ UNCHANGED <<ipc, proxy, line, msgid, rc, listed, answer, table, work, disk,
                    main, seen>>

\* The main server stops, or somebody else makes the first push.
ServerChanges ==
  /\ Fault("server")
  /\ \/ serverUp /\ serverUp' = FALSE /\ UNCHANGED branch
     \/ serverUp /\ ~branch /\ branch' = TRUE /\ UNCHANGED serverUp
  /\ UNCHANGED <<ipc, proxy, line, msgid, rc, listed, answer, store, work, disk,
                 stored, asked, away, ignored>>

ServerStarts ==
  /\ ~serverUp /\ serverUp' = TRUE
  /\ UNCHANGED <<ipc, proxy, line, msgid, rc, listed, answer, store, work, disk,
                 branch, stored, seen>>

-----------------------------------------------------------------------------
(* The proxy.                                                              *)

\* Somebody starts it: redisConnect, set_values and msgget, none of whose
\* failures ends it.
Start ==
  /\ proxy = "down"
  /\ proxy' = "msgrcv"
  /\ rc' = IF redis = "down" THEN "error" ELSE "ok"
  /\ table' = (table \/ redis = "up")
  /\ msgid' = qid
  /\ UNCHANGED <<ipc, line, listed, answer, redis, work, disk, main, seen>>

Dies == proxy' = "down" /\ rc' = "none" /\ line' = NoLine /\ listed' = {}

\* Mutant of Returns: inpcmd is not cleared for the next msgrcv.
ReturnsWithLine == proxy' = "msgrcv" /\ listed' = {} /\ UNCHANGED <<line, rc>>

\* The end of handle_request.
Returns == proxy' = "msgrcv" /\ line' = NoLine /\ listed' = {} /\ UNCHANGED rc

\* Mutant of Msgrcv: the lowest message type first, whoever sent it when.
MsgrcvByType ==
  /\ proxy = "msgrcv" /\ msgid = qid /\ queue # <<>>
  /\ \E k \in DOMAIN queue :
       /\ line' = queue[k]
       /\ queue' = SubSeq(queue, 1, k - 1) \o SubSeq(queue, k + 1, Len(queue))
  /\ gone' = [gone EXCEPT ![line'.from] = @ + 1]
  /\ proxy' = "handle"
  /\ asked' = IF line'.cmd = "GIT_PUSH" THEN work ELSE asked
  /\ UNCHANGED <<script, qid, sent, msgid, rc, listed, answer, store, work, disk, main,
                 faults, away, ignored>>

\* msgrcv; on a queue that was removed it fails, and is called again for ever.
Msgrcv ==
  /\ proxy = "msgrcv" /\ msgid = qid /\ queue # <<>>
  /\ line' = Head(queue) /\ queue' = Tail(queue)
  /\ gone' = [gone EXCEPT ![Head(queue).from] = @ + 1]
  /\ proxy' = "handle"
  /\ asked' = IF line'.cmd = "GIT_PUSH" THEN work ELSE asked
  /\ UNCHANGED <<script, qid, sent, msgid, rc, listed, answer, store, work, disk, main,
                 faults, away, ignored>>

Number == [GIT_INIT |-> 0, GIT_ADD |-> 1, GIT_COMMIT |-> 2, GIT_PUSH |-> 3]

None == 99

\* get_index: without an answer or without an entry it returns -1 (None); the
\* text of an error is a string like any other, and atoi makes 0 of it.
get_index(cmd) ==
  IF rc = "error" THEN None
  ELSE IF redis = "loading" THEN 0
  ELSE IF table /\ cmd \in DOMAIN Number THEN Number[cmd]
  ELSE None

\* Mutant of Runs: GIT_COMMIT has no case.
RunsNoCommit == IF get_index(line.cmd) \in 0..1 THEN Local ELSE {"GIT_PUSH"}

\* The commands that may run for the number of this one: the switch calls
\* handling_local_request for 0, 1 and 2 and hadling_remote_request for all
\* others, and each of the two compares the word again.
Runs == IF get_index(line.cmd) \in 0..2 THEN Local ELSE {"GIT_PUSH"}

\* Mutant of handle_request: it asks again until Redis answers.
AskAgain ==
  /\ proxy = "handle" /\ line.cmd # "empty" /\ rc = "ok"
  /\ IF line.cmd # "other"
       THEN /\ proxy' = IF line.cmd \in Local THEN "local" ELSE "remote"
            /\ UNCHANGED <<line, listed, rc>>
       ELSE Returns
  /\ UNCHANGED <<ipc, msgid, answer, store, work, disk, main, seen>>

handle_request ==
  /\ proxy = "handle" /\ line.cmd # "empty"
  /\ IF line.cmd \in Runs
       THEN /\ proxy' = IF line.cmd \in Local THEN "local" ELSE "remote"
            /\ UNCHANGED <<line, listed, rc, ignored>>
       ELSE Returns /\ ignored' = ignored \cup ({line.cmd} \ {"other"})
  /\ UNCHANGED <<ipc, msgid, answer, store, work, disk, main, faults, asked, away>>

\* strtok finds no word and returns NULL, which redisCommand takes for a string.
EmptyLine ==
  /\ proxy = "handle" /\ line.cmd = "empty"
  /\ Dies
  /\ UNCHANGED <<ipc, msgid, answer, store, work, disk, main, seen>>

\* stat is given an uninitialised pointer: nothing happens, or anything does.
git_init_at_client ==
  /\ proxy = "local" /\ line.cmd = "GIT_INIT"
  /\ \/ Returns /\ repo' = TRUE
     \/ Dies /\ UNCHANGED repo
  /\ UNCHANGED <<ipc, msgid, answer, store, work, index, head, main, seen>>

\* git_index_add_all and git_index_write, whose failure is printed; outside a
\* repository the proxy exits.
git_add_at_client ==
  /\ proxy = "local" /\ line.cmd = "GIT_ADD"
  /\ \/ ~repo /\ Dies /\ UNCHANGED <<index, faults>>
     \/ repo /\ Returns /\ index' = work /\ UNCHANGED faults
     \/ repo /\ Fault("write") /\ Returns /\ UNCHANGED index
  /\ UNCHANGED <<ipc, msgid, answer, store, work, repo, head, main, asked, away, ignored>>

\* Mutant of git_commit_at_client: the commit takes in the working directory.
CommitAll ==
  /\ proxy = "local" /\ line.cmd = "GIT_COMMIT" /\ repo
  /\ Returns /\ head' = work
  /\ UNCHANGED <<ipc, msgid, answer, store, work, repo, index, main, seen>>

\* git_commit_create_v is told of one parent and given none, so that it takes
\* one from what is on the stack: it crashes, or fails, or makes the first
\* commit of the repository with a parent that does not exist.  Once HEAD has a
\* commit it fails, HEAD not being the parent.
git_commit_at_client ==
  /\ proxy = "local" /\ line.cmd = "GIT_COMMIT"
  /\ \/ Dies /\ UNCHANGED head
     \/ repo /\ Returns /\ UNCHANGED head
     \/ repo /\ head = NoCommit /\ Returns /\ head' = index
  /\ UNCHANGED <<ipc, msgid, answer, store, work, repo, index, main, seen>>

Committed(f) == IF head = NoCommit THEN 0 ELSE head[f]

\* git_status_list_new: the index differs from HEAD, or the file from the index.
Changed == {f \in Files : index[f] # Committed(f) \/ work[f] # index[f]}

\* git_push_server up to the loop; there is nothing to do without a repository
\* or without a change.
ListStatus ==
  /\ proxy = "remote"
  /\ IF repo /\ Changed # {}
       THEN proxy' = "send" /\ listed' = Changed /\ UNCHANGED <<line, rc, answer>>
       ELSE Returns /\ answer' = IF repo THEN "clean" ELSE "none"
  /\ UNCHANGED <<ipc, msgid, store, work, disk, main, seen>>

\* Mutant of SendFiles: a file that was edited since the push was asked for is
\* left out.
SendUnedited ==
  /\ proxy = "send" /\ serverUp /\ ~branch
  /\ Returns /\ answer' = "SUCCESS"
  /\ branch' = TRUE
  /\ stored' = [f \in Files |-> IF f \in listed /\ work[f] = asked[f] THEN work[f]
                                ELSE stored[f]]
  /\ UNCHANGED <<ipc, msgid, store, work, disk, serverUp, seen>>

\* setup and the rest of git_push_server.  The parent it sends is forty zeros or
\* a commit of this repository, and never a head of the main server: a branch
\* with a history answers a conflict.  SIGPIPE ends the proxy when nobody
\* listens, and may when the server answers before everything is sent.
SendFiles ==
  /\ proxy = "send"
  /\ \/ (~serverUp \/ branch) /\ Dies /\ UNCHANGED <<answer, branch, stored>>
     \/ /\ serverUp /\ branch /\ Returns /\ answer' = "conflict"
        /\ UNCHANGED <<branch, stored>>
     \/ /\ serverUp /\ ~branch /\ Returns /\ answer' = "SUCCESS"
        /\ branch' = TRUE
        /\ stored' = [f \in Files |-> IF f \in listed THEN work[f] ELSE stored[f]]
  /\ UNCHANGED <<ipc, msgid, store, work, disk, serverUp, seen>>

Kill ==
  /\ Fault("kill") /\ proxy # "down"
  /\ Dies
  /\ UNCHANGED <<ipc, msgid, answer, store, work, disk, main, asked, away, ignored>>

Step ==
  \/ Msgrcv \/ handle_request \/ EmptyLine
  \/ git_init_at_client \/ git_add_at_client \/ git_commit_at_client
  \/ ListStatus \/ SendFiles

Next ==
  \/ \E c \in Clients : Msgsnd(c)
  \/ \E f \in Files : Edit(f)
  \/ Ipcrm \/ RedisStops \/ RedisStarts \/ ServerChanges \/ ServerStarts
  \/ Start \/ Step \/ Kill

Spec == Init /\ [][Next]_vars

\* The scheduler runs the proxy.  Nothing restarts it.
FairSpec == Spec /\ WF_vars(Step)

-----------------------------------------------------------------------------
TypeOK ==
  /\ \A c \in Clients : script[c] \in Scripts[c]
  /\ queue \in Seq(Line) /\ Len(queue) <= MaxQueued
  /\ faults \in 0..MaxFaults /\ qid \in 0..faults /\ msgid \in 0..qid
  /\ sent \in [Clients -> 0..MaxLines] /\ gone \in [Clients -> 0..MaxLines]
  /\ proxy \in {"down", "msgrcv", "handle", "local", "remote", "send"}
  /\ line \in Line \cup {NoLine}
  /\ line = NoLine <=> proxy \in {"down", "msgrcv"}
  /\ rc \in {"none", "ok", "error"} /\ (rc = "none" <=> proxy = "down")
  /\ listed \subseteq Files /\ (listed # {} <=> proxy = "send")
  /\ answer \in {"none", "clean", "SUCCESS", "conflict"}
  /\ redis \in {"up", "loading", "down"} /\ table \in BOOLEAN
  /\ work \in Tree /\ asked \in Tree /\ index \in Tree /\ stored \in Tree
  /\ repo \in BOOLEAN /\ head \in Tree \cup {NoCommit}
  /\ serverUp \in BOOLEAN /\ branch \in BOOLEAN
  /\ away \in BOOLEAN /\ ignored \subseteq Local \cup {"GIT_PUSH"}

\* Crashes and restarts of the proxy, whatever line it died of, neither lose nor
\* repeat nor reorder a line that waits in the queue: of every client it holds the
\* lines that were sent and have not left, each once, in the order they were typed.
QueueKeepsOrder ==
  /\ \A c \in Clients :
       {queue[i].n : i \in {j \in DOMAIN queue : queue[j].from = c}} = gone[c] + 1 .. sent[c]
  /\ \A i, j \in DOMAIN queue :
       i < j /\ queue[i].from = queue[j].from => queue[i].n < queue[j].n

\* As long as Redis was never away, every command is run: it is not the switch
\* or the comparisons of handle_request that drop one.
IgnoredNeedsRedis == ~away => ignored = {}

\* What is committed was added, and what is added or stored was written: no
\* order of commands, edits and crashes puts a newer version before an older.
VersionsInOrder ==
  \A f \in Files :
    /\ Committed(f) <= index[f] /\ index[f] <= work[f] /\ stored[f] <= work[f]

\* A push that succeeds leaves out no change that was there when it was taken,
\* though files are edited while it lists and sends them.
PushCoversEdits ==
  [][(proxy = "send" /\ answer' = "SUCCESS" /\ proxy' = "msgrcv") =>
       (\A f \in Files : asked[f] = Committed(f) \/ stored'[f] >= asked[f])]_vars

\* The proxy takes every line, unless it has died, or the queue was removed
\* under it.
EveryLineIsTaken == []<>(queue = <<>> \/ proxy = "down" \/ msgid # qid)

\* run_e2e_1gb.sh has a file pushed with GIT_ADD, GIT_COMMIT and GIT_PUSH: when
\* a push ends and nothing was refused, the server has what HEAD has.
CommittedIsPushed ==
  [][(proxy \in {"remote", "send"} /\ proxy' = "msgrcv" /\ answer' \in {"clean", "SUCCESS"}) =>
       (\A f \in Files : stored'[f] >= Committed(f))]_vars
=============================================================================
