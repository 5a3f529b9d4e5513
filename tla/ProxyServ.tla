------------------------------ MODULE ProxyServ ------------------------------
(***************************************************************************)
(* src/ProxyServ.c, the earlier proxy: it takes the lines of the clients   *)
(* from the message queue as ProxyServer.c does, but asks at its own       *)
(* terminal for everything else, a commit message, a branch, a file, and   *)
(* pushes and pulls in the earlier protocol (Legacy.tla).                  *)
(*                                                                         *)
(* What is typed at the terminal is a sequence of words and newlines that  *)
(* scanf("%s") and fgets take apart in two ways.  A word is named for the  *)
(* prompt it answers, a branch by its name.  A lost connection to Redis    *)
(* and a queue that was removed are faults; loading is Proxy.tla's.        *)
(***************************************************************************)
EXTENDS Naturals, Sequences, SequencesExt

CONSTANTS
  Branches,
  Master,      \* the branch HEAD names
  MaxCommands, \* lines of the clients
  MaxWords,    \* words of a commit message or a name
  Faults,      \* which of "redis", "server", "ipcrm", "kill" happen
  NoCommand, Absent, Empty, Commit,
  FileHash     \* the SHA-1 of a file, which is no commit

Newline == "newline"
Prompts == {"message", "name", "email", "branch", "path"}
Words == (Prompts \ {"branch"}) \cup Branches

Local == {"GIT_INIT", "GIT_ADD", "GIT_COMMIT"}
Remote == {"GIT_PUSH", "GIT_PULL", "HISTORY"}
Commands == Local \cup Remote \cup {"other", "empty"}

ASSUME ProxyServAssumption ==
  /\ Master \in Branches /\ Branches \cap (Prompts \cup {Newline}) = {}
  /\ MaxCommands \in Nat /\ MaxWords \in Nat \ {0}
  /\ Faults \subseteq {"redis", "server", "ipcrm", "kill"}
  /\ {Absent, Commit} \cap {Empty, FileHash} = {}

VARIABLES
  \* The proxy process.
  pc,        \* "down", "msgrcv", "handle" a line, a command of libgit2, the
             \* prompt it waits at, "push", "pull" or "history" with the
             \* server, "open" and "write" of a head
  inpcmd,    \* the line it took last
  rc,        \* the connection to Redis works
  attached,  \* msgid is the queue the clients send to
  branch,    \* the two buffers: what fgets left in them
  path,
  \* Everybody else.
  queue,     \* lines the clients sent
  sent,      \* how many
  stdin,     \* what was typed at the terminal and not read
  asked,     \* prompts printed that the user has not answered
  serverUp,
  \* The repository.
  repo,
  refs,      \* refs[b]: .git/refs/heads/b
  \* History variables.
  faults,
  scanned,   \* a commit message has been read since the proxy was started
  told       \* branches a push of which the server answered

proxy == <<pc, inpcmd, rc, attached, branch, path>>
world == <<queue, sent, stdin, asked, serverUp>>
disk  == <<repo, refs>>
seen  == <<faults, scanned, told>>
vars  == <<proxy, world, disk, seen>>

Init ==
  /\ pc = "down" /\ inpcmd = NoCommand /\ rc = FALSE /\ attached = FALSE
  /\ branch = <<>> /\ path = <<>>
  /\ queue = <<>> /\ sent = 0 /\ stdin = <<>> /\ asked = <<>> /\ serverUp = TRUE
  /\ repo = FALSE /\ refs = [b \in Branches |-> Absent]
  /\ faults = {} /\ scanned = FALSE /\ told = {}

Fault(kind) == kind \in Faults \ faults /\ faults' = faults \cup {kind}

-----------------------------------------------------------------------------
(* The clients, the user and what may happen around the proxy.             *)

Send ==
  /\ sent < MaxCommands /\ sent' = sent + 1
  /\ \E cmd \in Commands : queue' = Append(queue, cmd)
  /\ UNCHANGED <<proxy, stdin, asked, serverUp, disk, seen>>

\* The answers to a prompt: one word, for a message and a name more.
Answers(prompt) ==
  IF prompt = "branch" THEN {<<b>> : b \in Branches}
  ELSE {[k \in 1..n |-> prompt] : n \in 1..(IF prompt \in {"message", "name"} THEN MaxWords ELSE 1)}

\* The user answers a prompt, and with it gives up those before it.
Type ==
  /\ \E i \in DOMAIN asked : \E words \in Answers(asked[i]) :
       /\ stdin' = stdin \o words \o <<Newline>>
       /\ asked' = SubSeq(asked, i + 1, Len(asked))
  /\ UNCHANGED <<proxy, queue, sent, serverUp, disk, seen>>

RedisStops ==
  /\ Fault("redis") /\ rc' = FALSE
  /\ UNCHANGED <<pc, inpcmd, attached, branch, path, world, disk, scanned, told>>

ServerStops ==
  /\ Fault("server") /\ serverUp' = FALSE
  /\ UNCHANGED <<proxy, queue, sent, stdin, asked, disk, scanned, told>>

\* Whoever removes the queue; a proxy that runs does not look for another.
Ipcrm ==
  /\ Fault("ipcrm") /\ queue' = <<>> /\ attached' = FALSE
  /\ UNCHANGED <<pc, inpcmd, rc, branch, path, sent, stdin, asked, serverUp, disk, scanned, told>>

-----------------------------------------------------------------------------
(* main and handle_request.                                                *)

\* The proxy does not start without the server; without Redis get_values ends it.
Start ==
  /\ pc = "down" /\ serverUp /\ "redis" \notin faults
  /\ pc' = "msgrcv" /\ rc' = TRUE /\ attached' = TRUE /\ scanned' = FALSE
  /\ UNCHANGED <<inpcmd, branch, path, world, disk, faults, told>>

\* What was typed for a process that has gone is for the shell.
Dies ==
  /\ pc' = "down" /\ inpcmd' = NoCommand /\ rc' = FALSE /\ attached' = FALSE
  /\ branch' = <<>> /\ path' = <<>> /\ stdin' = <<>> /\ asked' = <<>>

Kill ==
  /\ pc # "down" /\ Fault("kill") /\ Dies
  /\ UNCHANGED <<queue, sent, serverUp, disk, scanned, told>>

Returns == pc' = "msgrcv" /\ UNCHANGED <<inpcmd, rc, attached, branch, path, stdin, asked>>

\* msgrcv, whose result is not looked at: without a queue inpcmd stays as it is,
\* unwritten at first, and its command is run again, as often as MaxCommands allows.
Msgrcv ==
  /\ pc = "msgrcv" /\ pc' = "handle"
  /\ \/ /\ attached /\ queue # <<>> /\ sent' = sent
        /\ inpcmd' = Head(queue) /\ queue' = Tail(queue)
     \/ /\ ~attached /\ sent < MaxCommands /\ sent' = sent + 1
        /\ inpcmd' \in IF inpcmd = NoCommand THEN {"other", "empty"} ELSE {inpcmd}
        /\ UNCHANGED queue
  /\ UNCHANGED <<rc, attached, branch, path, stdin, asked, serverUp, disk, seen>>

\* A prompt is printed, and the proxy waits at it.
Ask(prompt) == pc' = prompt /\ asked' = Append(asked, prompt)

\* get_index and the switch: without Redis everything is taken for a remote
\* request, and both kinds compare the word again.
Runs(cmd) == cmd \in IF rc THEN Local \cup Remote ELSE Remote

\* The end of an empty line is strtok's NULL.
handle_request ==
  /\ pc = "handle"
  /\ \/ /\ inpcmd = "empty" /\ Dies
     \/ /\ inpcmd # "empty" /\ ~Runs(inpcmd) /\ Returns
     \/ /\ Runs(inpcmd)
        /\ CASE inpcmd \in {"GIT_INIT", "GIT_ADD"} -> pc' = inpcmd /\ UNCHANGED asked
             [] inpcmd = "GIT_COMMIT" -> Ask("message")
             [] inpcmd \in Remote -> Ask("branch")
        /\ UNCHANGED <<inpcmd, rc, attached, branch, path, stdin>>
  /\ UNCHANGED <<queue, sent, serverUp, disk, seen>>

\* stat is given an uninitialised pointer: nothing happens, or anything does.
git_init_at_client ==
  /\ pc = "GIT_INIT"
  /\ \/ repo' = TRUE /\ Returns
     \/ UNCHANGED repo /\ Dies
  /\ UNCHANGED <<queue, sent, serverUp, refs, seen>>

\* Outside a repository the proxy exits.
git_add_at_client ==
  /\ pc = "GIT_ADD"
  /\ IF repo THEN Returns ELSE Dies
  /\ UNCHANGED <<queue, sent, serverUp, disk, seen>>

-----------------------------------------------------------------------------
(* The terminal.                                                           *)

After(i) == SubSeq(stdin, i + 1, Len(stdin))

\* scanf("%s"): white space is passed over, and what follows the word stays.
Scan ==
  LET first == SelectInSeq(stdin, LAMBDA t : t # Newline)
  IN  first > 0 /\ stdin' = After(first)

\* fgets: everything up to the first newline, which is cut off.
End == SelectInSeq(stdin, LAMBDA t : t = Newline)
Fgets == SubSeq(stdin, 1, End - 1)
Gets == End > 0 /\ stdin' = After(End)

\* git_commit_at_client and signature_define.
ReadMessage ==
  /\ pc = "message" /\ scanned' = TRUE
  /\ IF repo
     THEN Scan /\ Ask("name") /\ UNCHANGED <<inpcmd, rc, attached, branch, path>>
     ELSE (\E i \in DOMAIN stdin : stdin[i] # Newline) /\ Dies
  /\ UNCHANGED <<queue, sent, serverUp, disk, faults, told>>

\* Mutant of ReadName: the second question is not printed.
ReadNameOnly ==
  /\ pc = "name" /\ Scan
  /\ pc' = "email" /\ UNCHANGED asked
  /\ UNCHANGED <<inpcmd, rc, attached, branch, path, queue, sent, serverUp, disk, seen>>

ReadName ==
  /\ pc = "name" /\ Scan
  /\ Ask("email")
  /\ UNCHANGED <<inpcmd, rc, attached, branch, path, queue, sent, serverUp, disk, seen>>

ReadEmail ==
  /\ pc = "email" /\ Scan
  /\ pc' = "commit"
  /\ UNCHANGED <<inpcmd, rc, attached, branch, path, queue, sent, asked, serverUp, disk, seen>>

\* git_commit_create_v is given a freed signature, is told of one parent and
\* given none, so that it takes one from what is on the stack: it crashes, or
\* fails, or makes the first commit of the branch.  A branch that has a head
\* has one that is not the parent, or is no commit.
git_commit_at_client ==
  /\ pc = "commit"
  /\ \/ Dies /\ UNCHANGED refs
     \/ Returns /\ UNCHANGED refs
     \/ refs[Master] = Absent /\ Returns /\ refs' = [refs EXCEPT ![Master] = Commit]
  /\ UNCHANGED <<queue, sent, serverUp, repo, seen>>

\* Mutant of ReadBranch: the newline stays in the name.
ReadWholeLine ==
  /\ pc = "branch" /\ Gets /\ branch' = Append(Fgets, Newline)
  /\ IF inpcmd = "HISTORY" THEN pc' = "history" /\ UNCHANGED asked ELSE Ask("path")
  /\ UNCHANGED <<inpcmd, rc, attached, path, queue, sent, serverUp, disk, seen>>

\* git_push_server, git_pull_at_client, git_history.
ReadBranch ==
  /\ pc = "branch" /\ Gets /\ branch' = Fgets
  /\ IF inpcmd = "HISTORY" THEN pc' = "history" /\ UNCHANGED asked ELSE Ask("path")
  /\ UNCHANGED <<inpcmd, rc, attached, path, queue, sent, serverUp, disk, seen>>

\* Mutant of ReadPath: a file name is one word, as a commit message is.
ScanPath ==
  /\ pc = "path" /\ Scan /\ path' = <<Head(SelectSeq(stdin, LAMBDA t : t # Newline))>>
  /\ pc' = IF inpcmd = "GIT_PUSH" THEN "push" ELSE "pull"
  /\ UNCHANGED <<inpcmd, rc, attached, branch, queue, sent, asked, serverUp, disk, seen>>

ReadPath ==
  /\ pc = "path" /\ Gets /\ path' = Fgets
  /\ pc' = IF inpcmd = "GIT_PUSH" THEN "push" ELSE "pull"
  /\ UNCHANGED <<inpcmd, rc, attached, branch, queue, sent, asked, serverUp, disk, seen>>

-----------------------------------------------------------------------------
(* handle_push, handle_pull and handle_history.                            *)

\* read_branch_head: the head is a directory, or has no bytes.
HeadUnreadable ==
  \/ branch = <<>> /\ repo
  \/ \E b \in Branches : branch = <<b>> /\ refs[b] = Empty

\* The push is given up: no such file, no server, no answer, or a conflict.
PushFails ==
  /\ pc = "push" /\ Returns
  /\ UNCHANGED <<queue, sent, serverUp, disk, seen>>

\* compute_sha1 cannot open the file, or a send meets a closed connection.
PushDies ==
  /\ pc = "push" /\ ~HeadUnreadable /\ path # <<>> /\ Dies
  /\ UNCHANGED <<queue, sent, serverUp, disk, seen>>

\* send_command makes a connection for each command.
send_command == serverUp

PushAnswered ==
  /\ pc = "push" /\ ~HeadUnreadable /\ path # <<>> /\ send_command
  /\ pc' = "open" /\ told' = told \cup {b \in Branches : branch = <<b>>}
  /\ UNCHANGED <<inpcmd, rc, attached, branch, path, world, disk, faults, scanned>>

\* write_branch_head, on the file libgit2 keeps the branch in.  A file by another
\* name is no branch; without a repository there is no directory for it.
OpenHead ==
  /\ pc = "open"
  /\ IF repo /\ \E b \in Branches : branch = <<b>>
     THEN /\ refs' = [b \in Branches |-> IF branch = <<b>> THEN Empty ELSE refs[b]]
          /\ pc' = "write" /\ UNCHANGED <<inpcmd, rc, attached, branch, path, stdin, asked>>
     ELSE Returns /\ UNCHANGED refs
  /\ UNCHANGED <<queue, sent, serverUp, repo, seen>>

WriteHead ==
  /\ pc = "write"
  /\ refs' = [b \in Branches |-> IF branch = <<b>> THEN FileHash ELSE refs[b]]
  /\ Returns
  /\ UNCHANGED <<queue, sent, serverUp, repo, seen>>

\* handle_pull writes what the server sends into the file, handle_history prints
\* it; without a server they return at once.
PullOrHistory ==
  /\ pc \in {"pull", "history"} /\ Returns
  /\ UNCHANGED <<queue, sent, serverUp, disk, seen>>

Proxy ==
  \/ Msgrcv \/ handle_request \/ git_init_at_client \/ git_add_at_client
  \/ ReadMessage \/ ReadName \/ ReadEmail \/ git_commit_at_client
  \/ ReadBranch \/ ReadPath \/ PushFails \/ PushDies \/ PushAnswered \/ OpenHead \/ WriteHead
  \/ PullOrHistory

Next == Send \/ Type \/ RedisStops \/ ServerStops \/ Ipcrm \/ Start \/ Kill \/ Proxy

Spec == Init /\ [][Next]_vars

\* The proxy goes on when it can, and the user answers what is asked.
FairSpec == Spec /\ WF_vars(Proxy) /\ WF_vars(Type)

-----------------------------------------------------------------------------
(* Properties.                                                             *)

TypeOK ==
  /\ pc \in {"down", "msgrcv", "handle", "GIT_INIT", "GIT_ADD", "commit", "push", "pull",
             "history", "open", "write"} \cup Prompts
  /\ inpcmd \in Commands \cup {NoCommand}
  /\ {branch, path} \subseteq Seq(Words)
  /\ queue \in Seq(Commands) /\ sent \in 0..MaxCommands
  /\ stdin \in Seq(Words \cup {Newline}) /\ asked \in Seq(Prompts)
  /\ {rc, attached, serverUp, repo, scanned} \subseteq BOOLEAN
  /\ refs \in [Branches -> {Absent, Empty, Commit, FileHash}]
  /\ faults \subseteq Faults /\ told \subseteq Branches

\* The server is asked for the branch and the file that were typed at the prompts
\* for them, until a commit has read the terminal with scanf: the newline and the
\* words it leaves are taken for the answers of whatever command comes next
\* (168, 242, 547-553).  And whatever was typed, the file libgit2 keeps a branch
\* in is only overwritten, with what is no commit, when a push of that branch was
\* answered (526).
AsTyped ==
  /\ pc \in {"push", "pull", "history", "open", "write"} /\ ~scanned =>
       /\ \E b \in Branches : branch = <<b>>
       /\ pc # "history" => path = <<"path">>
  /\ \A b \in Branches : refs[b] \in {Empty, FileHash} => b \in told

\* However the prompts and what is left of earlier lines have come apart, a user
\* who answers what is printed is never waited for in vain: every command ends,
\* and the next line is taken (747-750).
EveryCommandEnds == []<>(pc \in {"down", "msgrcv"})
=============================================================================
