# Commit-Craft in TLA+

Commit-Craft is a small distributed version control system in C. A **client**
types commands, a **proxy server** beside it keeps a libgit2 repository and
pushes changed files, and a **main server** stores what is pushed, file by file,
under the SHA-1 of its contents, with one head file per branch. This directory
models those programs in TLA+, checks the models with TLC, and proves the
central theorems with TLAPS.

Paths are relative to the repository; line numbers are those of the commit this
directory was written for. `PROJECT.json` maps every definition to its lines.

## 1. The system

| Part | Source | State | Operations |
|---|---|---|---|
| Main server: requests | `src/Main_Server.c` 78-382 | head files `.git/refs/branches/*`, objects `.git/objects/*`, mutex `branch_lock`, per worker the stack of `handle_client` and what it calls | PUSH, PULL, HISTORY, anything else |
| Main server: connection queue | `src/Main_Server.c` 31-76, 384-390, 442-463 | listen backlog, `queue_front`/`queue_rear` list, `queue_lock`, `queue_cond` | `accept`, `enqueue_client`, `dequeue_client` |
| Main server: start-up | `src/Main_Server.c` 392-421, the same in `real_project_repo` | the directories of `.git` | `create_directory_if_not_exists` |
| Proxy: push | `src/ProxyServer.c` 268-443 | libgit2 status list, one TCP connection | `setup`, `git_push_server` |
| Proxy: requests | `src/ProxyServer.c` 30-264, 524-618 | System V queue, Redis connection, repository | `GIT_INIT`, `GIT_ADD`, `GIT_COMMIT`, `GIT_PUSH`; PULL and CHECKOUT have a number and no code |
| Client | `src/Client.c` 312-337 | none | a line of input becomes a message |
| Earlier protocol: server | `src/real_project_repo/Main_Server.c` | head files, objects, the queue and the workers, no lock and no manifest | PUSH of one file, PULL, HISTORY |
| Earlier protocol: clients | `src/cli.c` (and its copy), `src/real_project_repo/ProxyServer.c` | a cli's `.git/refs/heads`, one connection at a time | push, pull, history, exit; a push of each changed file |
| Earlier proxy with a terminal | `src/ProxyServ.c` | System V queue, Redis connection, what was typed at its terminal, repository | `GIT_INIT`, `GIT_ADD`, `GIT_COMMIT`, `GIT_PUSH`, `GIT_PULL`, `HISTORY` |
| `src/proxy_api.c` | | | third-party HTTP parser, never called |
| `src/Server.c` | | | a toy that nothing uses |

How they interact. A client's message waits in a System V queue until the proxy,
which is single-threaded, takes it. A push opens one TCP connection to the main
server and sends a command line `PUSH main <count> <parent>`, then per file a
256-byte header and the contents, with no marks in between; the server answers
in one line. In the server, `main` accepts connections and puts them on a linked
list, and `MAX_THREADS` workers take them off. Workers share the disk, and for
pushes the one mutex `branch_lock`, which a push holds from before it reads the
branch head until the new head is written: over the whole transfer of its files.

What is hard about it:

* **interleaving**: pushes of one branch race; PULL and HISTORY take no lock and
  read a head file that a push is rewriting;
* **connections that break** anywhere: no result of `recv` on a file header is
  looked at, and a short file does not end the push;
* **crashes** between the rename of objects, that of the manifest, the truncation
  of the head file and its write; nothing is repaired at start-up;
* **descriptors that run out**: failures of `fopen` and `mkstemp` are partly ignored;
* **uninitialised buffers**: an empty head file leaves `hash[]` as it was, and an
  unread header leaves `file_name` as it was;
* **the wire**: the count and the sizes are announced before the files are opened
  and read, neither end has a timeout, and the server may answer and close while
  the proxy is still sending;
* **the connection queue**: wakeups, the two ends of the list, the limit on
  descriptors;
* **the earlier protocol**: no lock at all; a command line that need not end in a
  newline, so that it and the file behind it may be read as one; clients that hold
  a connection and send nothing; workers that end the whole server;
* **start-up**: the directories below `.git` are only made together with it;
* **a terminal read in two ways**: `scanf("%s")` leaves what `fgets` takes next;
* **the proxy**: an empty line, `GIT_ADD` outside a repository or a main server
  that is not there end it, while its queue lives on; what Redis answers decides
  which commands run; files are edited while they are listed and sent.

What makes each part correct:

* *requests*: every branch is a line of commits, each made on the one its author
  had seen; nothing a head names is missing from the store; an answer agrees with
  what was published; no request waits for ever;
* *queue*: a FIFO that loses, repeats and overtakes nothing, and no worker
  sleeps while a connection waits;
* *wire*: both ends agree on where a file begins and ends; what is published is
  what was listed; neither end waits for the other;
* *proxy requests, client*: commands are taken once and in order, and run; a push
  covers what was changed when it was asked for;
* *start-up*: a server that runs has all its directories;
* *earlier protocol*: without the lock, what is stored is still a piece without a
  hole of what one client sent, no shorter than it announced, a head is torn or
  names such an object, and who sent a file as announced and was told SUCCESS finds
  all of it;
* *earlier proxy*: what was typed at a prompt is the answer to that prompt.

## 2. Modules

| Module | What it is |
|---|---|
| `Manifest.tla` | the table of (name, hash) lines that a push reads, updates and writes: `PutEntry`; and `Extends`, what a push may make of a table |
| `BranchLog.tla` | the abstract specification: a log of commits per branch, one step per push |
| `MainServer.tla` | the requests of the main server; refines `BranchLog` |
| `WorkQueue.tla` | the connection queue and the workers |
| `PushProtocol.tla` | proxy and server at the two ends of a connection |
| `Proxy.tla` | clients, the System V queue, Redis, the proxy and its repository |
| `ObjectStore.tla` | the abstract specification of the earlier server: objects that are pieces of what a client sent and no shorter than announced, heads that are torn or name one |
| `LegacyServer.tla` | the earlier server: start-up, connection queue, requests |
| `Legacy.tla` | the earlier protocol: `LegacyServer` with cli and proxy clients; refines `ObjectStore` |
| `ProxyServ.tla` | the earlier proxy and its terminal |
| `ManifestProofs.tla` | lemmas about tables |
| `MainServerProofs.tla` | the invariants of the server and the refinement |
| `AnswerProofs.tla` | what clients of the server were answered, heads under every fault, and that requests end: `branch_lock` comes back, nobody is stuck, the steps run out |
| `WorkQueueProofs.tla` | the linked list, the wakeups and the descriptors; no connection is lost, nothing is stuck |
| `PushProtocolProofs.tla` | the stream between proxy and server, what is published, and that neither end waits for ever |
| `ProxyProofs.tla` | the queue, Redis and the versions of files |
| `LegacyProofs.tla` | the earlier server's types, its directories, the refinement, the answers and the waits |
| `ProxyServProofs.tla` | the earlier proxy: what was typed is what is asked for, and no command gets stuck |
| `MCMainServer.tla`, `MCWorkQueue.tla`, `MCPushProtocol.tla`, `MCProxy.tla`, `MCLegacy.tla`, `MCProxyServ.tla` | constants for TLC |

`MainServer`, `WorkQueue`, `PushProtocol` and `Proxy` each look at one part and
stand in for the others by what those promise; `Legacy` composes a whole system,
from the directories on the server's disk to the file a cli writes.

Definitions whose comment begins with *Mutant of* are wrong variants of the
definition that follows them. Nothing refers to them; put in the place of the
right one, each breaks the property that `PROJECT.json` names with it, which
shows that the property depends on that code.

### MainServer and the code

A connection carries one request, so the model identifies it with a client. The
worker's `pc` says where it is in `handle_client` and the function that calls:

| `pc[w]` | place in the code | actions that leave it |
|---|---|---|
| `idle` | `dequeue_client` | `HandleClient` |
| `other` | 377 | `InvalidCommand` |
| `pull`, `history` | 158, 323 | `HandlePull`, `HandleHistory`, `HistoryLoops` |
| `loop` | 335-350, of an empty manifest | `LoopMisses`, `ResponseOverrun` |
| `lock` | 194 | `Lock` |
| `check` | 196-238 | `Conflict`, `LoadManifest` |
| `recv` | 240-319 | `RecvFile`, `RecvCut`, `RecvAfterCut`, `RecvNoFile`, then `WriteManifest` or `NoManifest` |
| `truncate` | 137 | `TruncateHead`, `HeadNotOpened` |
| `write` | 142-314 | `WriteHead` (and the unlock) |
| `reply` | 316-319 | `Success` |

A step ends where another worker, a broken connection or a crash can make a
difference: at the lock, between two files, between a file, the manifest and the
head file, and inside `write_branch_head`, whose `fopen(path, "w")` empties the
file that `fprintf` and `fclose` fill later. The rest of each function is local
to its worker and is part of the step before or after.

Abstractions. SHA-1 is injective: the hash of a file is its contents (a `Blob`),
that of a manifest its sequence of lines. Bytes of a file that arrived before a
cut are one value, `Partial`. A stack buffer nobody wrote holds what the same
worker left in it (`stale`) or junk. What a push names as parent is any hash it
can know (`Requests`). One file of a push meets at most one fault: a cut and a
failing `mkstemp` or `fopen` are not combined in one turn of the file loop. When
the `fopen` of `compute_sha1` fails, `RecvNoFile` leaves the store as it was
(`mkstemp` had failed too) or has a file under the hash that was left in the buffer
(it had not, and 270 renames what came over that object); that an object may then
hold something else than its hash says is not represented, as no property asks
what is in an object while descriptors run out.

A push that announces no files to a new branch publishes an empty manifest, and
HISTORY of that branch reads nothing at 347: `hash` stays, and the loop of 335-350
adds it to the response until it has written far behind the 8192 bytes. `loop` is
that loop. Its turns change nothing another part of the model can see, so they are
no steps; it ends with the process (`ResponseOverrun`), or with an `fopen` that
fails (`LoopMisses`). What the overflow does before the process ends, to what other
workers keep on the heap, is left out.

`log` and `took` are history variables: no action reads them. `log[b]` is where
`BranchLog` looks; every property about a branch's past is stated on it.

### WorkQueue and the code

Each critical section of `queue_lock` is one step: `enqueue_client`,
`dequeue_client`, and `Wait` for a worker that finds the list empty. `Signal` is
`pthread_cond_signal`, which wakes one waiting worker of the kernel's choice;
`WakeUp` is the spurious wakeup the `while` of line 64 is there for. `next[c]`
is the field of the `ClientNode` that carries `c`. `enqueue_fails` is `malloc`
returning NULL. `Accept` is not enabled when no descriptor is left: `accept`
then fails and the loop calls it again.

### PushProtocol and the code

`pc`, `list`, `i` and `off` are the proxy's place in `git_push_server` and its
loops; `at`, `left`, `header`, `payload` and `got` are the server's in
`handle_client` and `handle_push`. `toServer` is the stream, in blocks of 256
bytes, which is the size of a file header; file sizes count blocks. A block keeps
what its sender meant by it, and `Scan` says what `sscanf` may make of one that
was not meant as a header. `link` follows the connection after the server has
closed it: the first send that follows still returns (or fails quietly), the ones
after it may raise SIGPIPE, which the proxy does not ignore. An answer that was
received before a reset can still be read. The parent a proxy sends is forty
zeros or the id of a commit of its own repository, so that it never is the hash of
a manifest: a branch with a history always answers a conflict (`HasHistory`).
What a push does with the files it received is in `MainServer`; here a commit is
the list of them.

### Proxy and the code

| `proxy` | place in `ProxyServer.c` | actions that leave it |
|---|---|---|
| `down` | not running | `Start` |
| `msgrcv` | 607 | `Msgrcv` |
| `handle` | 547-548, `handle_request` and `get_index` | `handle_request`, `EmptyLine` |
| `local` | 531-542 | `git_init_at_client`, `git_add_at_client`, `git_commit_at_client` |
| `remote` | 296-366 | `ListStatus` |
| `send` | 375-442 | `SendFiles` |

`line` is `inpcmd`, `rc` the Redis connection, `msgid` the identifier of the queue
the proxy opened and `qid` that of the queue there is: they differ after somebody
removed it. `redis` and `table` say what `get_index` is answered: nothing, an error
while Redis loads its data (of which `atoi` makes 0, `GIT_INIT`'s number), or an
entry of the hash that `set_values` wrote. A file is its version, 0 when there is
none; an edit adds one. `work`, `index`, `head` and `stored` are the versions in
the working directory, the index, the last commit and on the main server.

Two calls have undefined behaviour, and their actions choose among its outcomes.
`git_init_at_client` gives `stat` an uninitialised pointer: nothing happens, or
the process dies. `git_commit_at_client` passes one parent by count and none by
argument to `git_commit_create_v`: it crashes, or fails, or makes a first commit
whose parent does not exist. `SendFiles` is the whole of `PushProtocol` for files
that can be sent: what goes wrong with others is examined there.

### LegacyServer, Legacy and the code

`dirs` are the directories `main` makes, `boot` which it makes next. The rest of
the server is `handle_client` and its callees, per worker:

| `pc[w]` | place in `real_project_repo/Main_Server.c` | actions that leave it |
|---|---|---|
| `idle` | `dequeue_client` | `dequeue_client` |
| `recv` | 346-361 and the handler's first lines | `ReceiveNothing`, `ReceivePush`, `MkstempFails`, `LineOverflows`, `handle_pull`, `handle_history` |
| `data` | the receive loop of `handle_push`, then the hash and the rename | `ReceiveData`, `LoseConnection`, `SaveObject` |
| `head`, `write` | `write_branch_head` | `OpenHead`, `WriteHead` |
| `send` | the send loop of `handle_pull` | `SendSegment`, `SendFails` |

`Dies` is the end of the process, whoever caused it: `exit` when the head cannot
be opened, SIGPIPE, an overflowing buffer, or a kill. Its connections are closed
and its queue is gone; the disk stays. A connection `<<c, k>>` is the `k`-th of
client `c`, and its record holds what is on the way in both directions. A cli is
at `prompt` or in a command: `sending`, `recv`, then `head` and `name` while it
writes its own head file; `PULL` and `pulling`; `HISTORY`. A proxy only pushes, one
connection for each file, and rests at `next`.

Abstractions. A file is a sequence of segments, what one `send` or `recv` moves,
and its SHA-1 is the file itself. A command line arrives whole, and whether it ends
in a newline (the proxy's do, a cli's do not) decides how much of the data that a
`recv` takes with it is lost (`Lost`). `compute_sha1` and `rename` are one step.
A buffer that nobody wrote may read as the empty string, junk or any hash there
is (`Unwritten`). What nobody can read any more of a connection that both ends
have closed is forgotten (`Forget`). `sent`, `want` and `lost` in a connection,
`faults` and `starved` are history.

### ProxyServ and the code

`pc` is the command of libgit2 or the prompt the proxy is at. `stdin` is what was
typed and not read, as words and newlines: `Scan` is `scanf("%s")`, `Fgets` is
`fgets` and the `strcspn` that cuts the newline off. A word is named for the prompt
it was typed at, so that a property can ask where it ended up. `asked` are the
prompts that were printed and not answered. `handle_push` is one of `PushFails`,
`PushDies` and `PushAnswered`, then the two steps of `write_branch_head`, which
writes to the file in which libgit2 keeps the branch. `git_commit_at_client` has
the undefined parent of `Proxy`, and a freed signature in addition.

## 3. Runs

| Run | Instance | What it asks |
|---|---|---|
| `server_cut` | 2 workers, 3 clients, 1 branch, tables of 2 lines, connections that break | does the server implement `BranchLog` (`ImplementsBranchLog`), with its consequences `LinearHistory` and `FilesStay`; is the head file the tip whenever the lock is free |
| `server_crash` | the same with 2 branches, tables of 3 lines, pushes of no file or one, and crashes | is everything stored that is named (`NothingDangles`); do answers and commits agree (`AckIsCommit`, `RejectedLeavesNothing`) |
| `server_live` | 2 workers, 3 clients, failing `fopen` and `mkstemp`, pushes of no file or one, fairness | does every request end (`EveryRequestEnds`), whatever fails, also in the loop of a HISTORY; is every head a stored manifest |
| `work_queue` | 3 workers, 4 connections, backlog 2, 3 descriptors, fairness | FIFO, no lost wakeup, no shared connection, every connection served or closed |
| `push_protocol` | 2 proxies, buffers of 2 blocks, files of 0 to 3 blocks, unreadable paths, shrinking files, killed proxies, an absent server, fairness | framing (`InStep`, `WholePush`), one winner, no mutual wait, every push ends unless a count was wrong |
| `proxy` | 2 clients, 2 files of up to 2 versions, a queue of 2 messages, one fault of any kind, fairness | lines in order across crashes (`QueueKeepsOrder`), commands dropped only by Redis, no version newer in the commit than in the index, or on the server than in the directory (`VersionsInOrder`), what a push covers though files are edited while it is asked for, listed and sent (`PushCoversEdits`), every line taken |
| `legacy` | a cli with 2 connections and a proxy with 1, 2 workers, 1 branch, one fault of any kind, fairness | does the earlier server implement `ObjectStore` (`ImplementsStore`), also when a file grows or shrinks while it is sent; is what was acknowledged stored (`AckIsStored`); does a running server have its directories (`GitIsWhole`); who waits for whom (`NoMutualWait`); does every command end (`EveryCommandEnds`) |
| `proxyserv` | 3 lines of clients, answers of up to 2 words, 2 branches, each fault once, fairness | is each answer taken for the prompt it was typed at, and a branch overwritten only after a push of it (`AsTyped`); does every command end however they have come apart (`EveryCommandEnds`) |
| `server_partial` | as `server_cut` | violated: `NoPartialCommit` |
| `server_torn` | one branch, crashes | violated: `LinearHistory` |
| `push_skipped` | no fault, a path that cannot be opened, fairness | violated: `PushIsAnswered` |
| `proxy_committed` | one client, no fault | violated: `CommittedIsPushed` |

Bounds. Two workers are enough for every race over `branch_lock`, with the third
client coming back to what the first two left. A table of two lines fills up in
the runs: two names, and a junk name after a cut. The crash run's pushes carry at
most one file each: a crash between two files of a push leaves on the disk what one between
the file and the manifest leaves, and the theorems below cover every list. In the
queue, four connections and three workers give lists of length three with a worker
asleep and one awake, and three descriptors bind. On the wire, one file is longer
than the buffers and one is empty, and lists have an unreadable path first, last
and alone. The scripts of the proxy contain every command, the two orders of
commit and push that the test scripts type, and a second terminal; one fault is
enough, since coming back from it is not counted as another. Two versions
besides none let a file that is asked for at the first one, or was pushed at it before,
be edited between the status list of a push and its open, beside a second file that is
edited or not. In `legacy` a cli's second
connection is a command beside the proxy's push, with a worker for each;
the two contents are the empty file and one of two segments, so that a `recv` can
take none, one or all of them with the line and a file can shrink or grow under
its reader. In `proxyserv` three lines are a commit, whose leftovers a second
command takes, and one more; two words are one too many for `scanf`. Workers and
clients are symmetric in the safety runs; no liveness run uses symmetry.

`push_protocol` and `push_skipped` do not check for deadlock: the two ends may
really wait for each other, which `NoMutualWait` and `PushIsAnswered` are about.
Neither do `proxy` and `proxy_committed`: a proxy rests in `msgrcv` when all scripts
are typed, and `EveryLineIsTaken` says that it does not rest earlier. Nor do
`legacy` and `proxyserv`, whose systems rest when all connections or lines are used
up, which their `EveryCommandEnds` tells from waiting in a command. `legacy` may
rest in a command too: `EveryCommandEnds` names the two cases.

Fairness. A worker, the accept loop and a proxy are threads or processes that
call blocking system calls in a loop; the scheduler does not stop any of them for
ever, so each gets weak fairness on the disjunction of its own steps. Faults get
none. `MainServer` in addition takes for granted that a client goes on sending
what it announced, or that its connection breaks: the `recv` calls have no timeout,
and without that assumption nothing could end. `PushProtocol` is where that
assumption is examined, with a sender that is the proxy. That the loop
of `handle_history` ends with the process is part of it, too: every turn writes 41
bytes further behind the response, and memory ends. `WorkQueue` takes for
granted that a request ends, which is `EveryRequestEnds`. In `Proxy` only the steps
of the running proxy are fair: nobody has to type, edit, or restart anything. That
a push ends at all is `PushProtocol`'s question. In `Legacy` each worker and each
client that is in a command gets weak fairness; nobody has to start a command or
the server, or to leave a prompt. In `ProxyServ` the proxy does, and so does the user
at its terminal as far as answering a prompt that was printed: `scanf` and `fgets`
have no timeout, and without that every commit could wait for ever.

## 4. What the runs found

The properties named *violated* above state what the repository says of the
program, and the code does otherwise.

1. **A broken connection publishes a truncated file** (`NoPartialCommit`,
   `Main_Server.c:255`). `recv` returning 0 ends the payload loop only; the file is
   hashed, listed, and the new head names it. The report (tex:256) says such a
   transaction is discarded. The same happens when somebody kills a proxy that
   hangs: the server takes the end of the stream for a header, scans the last header
   again and publishes that file with no contents.
2. **A crash inside `write_branch_head` forgets a branch** (`LinearHistory`,
   `Main_Server.c:137`). The head file is empty after the restart; when the
   uninitialised buffer reads as an empty string the branch counts as new, and the
   next push is accepted whatever its parent and drops all earlier files. The
   comment at 199-200 asks for the opposite. A head file that cannot be opened
   because descriptors ran out has the same effect without a crash.
3. **A path that cannot be sent hangs the server** (`PushIsAnswered`,
   `ProxyServer.c:402`). Ignored, deleted and unreadable paths are counted in the
   command line and skipped in the loop. The server waits for their headers with
   `branch_lock` held: no branch can be pushed until the proxy is killed, and then
   point 1 applies.
4. **A commit is never pushed** (`CommittedIsPushed`, `ProxyServer.c:372`). The push
   lists what differs from HEAD or from the index, so that committing a file, as
   `run_e2e_1gb.sh` does before it pushes (line 21) and the report describes
   (tex:204), takes it off the list.

Read in the code and visible in the models, without a violated property of their own:
`handle_history` takes the first 40 bytes of a manifest for the parent's hash, so
that it lists the head and one line of junk (tex:115 says that it iterates through
the linked commit history), and of a manifest without lines, which a push of no
files makes, it lists the head without end and brings the server down
(`HistoryLoops`); and `mkstemp` of the manifest failing answers SUCCESS
with an empty hash (`NoManifest`), which is why `AckIsCommit` is not asked of the
run in which files fail to open. In `Proxy`: the parent a proxy sends is never a
head of the main server, so that each branch accepts one push and answers a
conflict to all others; with Redis away, every local command is dropped, and the
proxy never connects again; while Redis loads, pushes are dropped; and the
empty line that ends the input of `run_e2e_1gb.sh` ends the proxy. A PULL beside a
push (`Main_Server.c:160`) may read the head file while it is empty, and answer that
there are no commits. A rejected proxy may die before it reads why
(`ProxyServer.c:413`): the server closes while files are still being sent, and the
second send after that raises SIGPIPE, which ends the whole proxy.

In `Legacy`, each of them reachable without or with one fault:

* A cli's command line has no newline (`cli.c:219`). What the server's `recv` takes of
  the file with it is dropped, and then both ends wait; `NoMutualWait` and
  `EveryCommandEnds` except exactly that and a file that shrank.
* A cli connects when it starts and sends nothing until its first command, so that
  `MAX_THREADS` users at their prompts hold all workers.
* HISTORY of a branch whose head is an empty file does not end until it has overrun
  `response[8192]`.
* A start that was interrupted between two directories, or that comes after a
  `GIT_INIT` in the same place, leaves a server that runs and ends with its first
  push; a later start does not repair it.
* A PULL of a branch without a head, or of an object that is not there, writes the
  error text into the user's file.

In `ProxyServ`: a commit message of two words answers the question for the name with
its second word, and the newline that `scanf` leaves is the branch of the next push;
after the queue was removed the last command is run again and again; and an answered
push overwrites a branch of the local repository with the SHA-1 of a file, which is
no commit.

## 5. What is proved

Theorems hold for all values of the constants: any number of workers, clients,
branches, names, contents and lists of files.

`MainServerProofs`, with assumptions on `Faults` and `FileLists`:

| Theorem | Assumption | Statement |
|---|---|---|
| `TypeCorrect` | none | `Spec => []TypeOK` |
| `HeadsComplete` | no `"emfile"` | `Spec => []NothingDangles` |
| `OnlyEmptyPushesLoop` | no push of no files | `Spec => []` no worker is at `loop` |
| `ServerImplementsBranchLog` | only `"cut"`; no push of no files | `Spec => BL!Spec` |
| `HeadIsTipWhenFree` | only `"cut"`; no push of no files | `Spec => []FreeHeadIsTip` |
| `HistoryIsLinear` | only `"cut"`; no push of no files | `Spec => [](LinearHistory /\ FilesStay)` |
| `CrashedServerImplementsBranchLog` | only `"cut"`, `"crash"` | `Spec /\ []HeadsWritten => ImplementsBranchLog` |
| `OnlyTornHeadsFork` | only `"cut"`, `"crash"` | `Spec /\ []HeadsWritten => [](LinearHistory /\ FilesStay)` |

The restrictions are necessary: the other faults have counterexamples (section 4).
A push of no files (`<<>> \in FileLists`) makes the empty manifest on which
`handle_history` ends the server, and an end of the server is a crash; the theorems
that allow `"crash"` allow such pushes. That nothing else makes an empty manifest is
`OnlyEmptyPushesLoop`, from `NoEmptyInv`: no manifest is empty, and a worker that
receives has files left or a line in its table, since `PutEntry` leaves none empty.

Argument. `TypeOK` is not inductive: a table stays a table only when no name has
two lines (otherwise the read of an old manifest and `PutEntry` could disagree on
which line counts), and a worker past `idle` has a connection. `TInv` adds those
two facts, `DistinctInv` and `JobInv`. `NothingDangles` needs to know in addition
what every table under construction names, since `WriteManifest` makes a manifest
of it: `ClosedInv` says that manifests, tables and what a worker is about to write
are closed under "is stored". The refinement needs `PushLockInv`: only the holder
of the lock is between `check` and the unlock; every other head file is the tip of
its log; and the holder's table `Extends` the tip it read by what it took so far,
with the parent it was given equal to that tip. `WriteHead` is then exactly
`BL!Publish`, and every other step leaves `log` alone. `ManifestProofs` has the
facts about `PutEntry`: it keeps names distinct and lines in place, and it
composes with `Extends`. `LinearHistory` and `FilesStay` are proved in
`BranchLog` terms from the refinement: a new commit names the tip, and a manifest
that `Extends` the tip lists all of its names.

`FilesRemain` states the second half of `HistoryIsLinear` by itself.

The last two theorems of the table say how much of this a crash can undo.
`HeadsWritten` is that no head file is empty while `branch_lock` is free, which
a server that does not end always keeps. An end breaks it in one place, between the
`fopen` and the `fprintf` of `write_branch_head`; a server that ends anywhere else,
with objects or a manifest stored that no head names, continues as if the push had
not been there. So the finding of the run `server_torn` is that one step and nothing
else. `"emfile"` stays excluded: `ReadHead` may then find no hash under a head that
has one.

`AnswerProofs`, which extends `MainServerProofs`:

| Theorem | Assumption on `Faults` | Statement |
|---|---|---|
| `HeadsStored` | none | `Spec => []HeadsAreStored` |
| `RejectedLeaveNothing` | none | `Spec => []RejectedLeavesNothing` |
| `AcksAreCommits` | no `"emfile"` | `Spec => []AckIsCommit` |
| `LockIsHeldInPushes` | none | `Spec => []LockInv` |
| `NobodyIsStuck` | none | `Spec => []NobodyStuck` |
| `RequestsRunOut` | none | `Spec => RequestsAdvance` |

A head names a stored manifest because the manifest is there before the head file
is opened (`ManifestFirst`). The other two need to know whose request is where:
`AnswerInv` says that a connection has one worker and a worker past `idle` an open
one (`OwnJob`), that nothing is answered before the connection ends
(`AnsweredLast`), and that a push has no commit until its worker is about to reply
(`CommitsLast`). Then a Conflict, which is answered from `check`, has no commit, and
`WriteHead` adds its first. `AckInv` carries the commit over the step between the
write of the head and the answer. With descriptors that run out, `NoManifest`
answers SUCCESS for nothing: the assumption is necessary.

The last three are what the liveness property `EveryRequestEnds` rests on besides
fairness. `LockInv`: the mutex is held exactly while a worker is between its lock
and its unlock, so each of the ways out of `handle_push` gives it back. `CanStep(w)`
is the guard of the steps of `w` that are not a disturbance from outside;
`NobodyStuck` says that a worker in a request has one enabled, or waits for the lock
and its holder has. `StepsLeft(w)` is six at the most and one per announced file;
`RequestsAdvance` says that every step of the worker lowers it and no other step
raises it. It leaves out the steps at `loop`, by name: nothing in the code bounds
the turns of that loop, and what ends them is the end of the process or an `fopen`
that fails, after which the request is over as well. `OnlyEmptyPushesLoop` says when
the exception is void.

`WorkQueueProofs`, with no assumption but finite sets of workers and connections
and `NULL` not being one:

| Theorem | Statement |
|---|---|
| `TypeCorrect` | `Spec => []TypeOK` |
| `FifoList` | `Spec => []ListIsFifo` |
| `NoLostWakeup` | `Spec => []EnoughAwake` |
| `ConnectionsOwned` | `Spec => []OwnConnections` |
| `NoConnectionLost` | `Spec => []PlaceInv` |
| `NobodyIdles` | `Spec => []WorkConserving` |
| `QueueNeverStuck` | `Spec => []NeverStuck` |

`ListIsFifo` alone is not inductive: it does not exclude that a connection is
enqueued twice, which would tie `next` into a ring. `PhaseInv` adds where the
connections of each phase are: the backlog and what was enqueued hold each
connection once, what was enqueued and not taken is in phase `queued`, and the
worker that serves a connection is the only one. Then `EnoughAwake` is inductive
relative to it: an enqueue adds one to both sides when somebody sleeps (`Signal`),
a dequeue takes one from both, and a worker falls asleep only when the list is
empty. The bound on descriptors rests on every step but `Accept` opening nothing.

`PlaceInv` is the converse of `PhaseInv`: a connection that came is in the backlog,
in main's hands, among what was enqueued and not taken, or with a worker, so that
somebody will close it. With `ListIsFifo` and `EnoughAwake` it gives the other two:
while the list has a connection and not every worker serves one, a worker is awake
(`WorkConserving`); and as long as a connection is not closed, main or a worker can
do something for one (`NeverStuck`). For the second, the case to exclude is that
main cannot accept for want of descriptors while all workers sleep: what occupies
the descriptors is then in the list or served.

`PushProtocolProofs`, for any number of proxies, lists, sizes and buffers, and with
killed proxies, shrinking files and unreadable paths:

| Theorem | Statement |
|---|---|
| `TypeCorrect` | `Spec => []TypeOK` |
| `OnePushWins` | `Spec => []OneWinner` |
| `StaysInStep` | `Spec => []InStep` |
| `PushesAreWhole` | `Spec => []WholePush` |
| `NobodyWaits` | `Spec => []NoMutualWait` |
| `NobodyIsStuck` | `Spec => []NobodyStuck` |

`Control` says where the two ends may be at the same time: `ProxyInv` and
`WorkerInv` for each, `LockInv` for who is behind the lock and that nothing is
published before it. The data invariant names places in the stream of a list, pairs
of a file and a block in it (0 is the header), and `Between(l, s, a, z)` says that
the blocks `s` are those of `l` from place `a` up to place `z`. `OnTheWay` is then
that what is in the socket lies between the place the server reads next
(`ReadUpTo`) and the one the proxy sends next (`SentUpTo`). Sending a block appends
at one end and receiving takes from the other (`BetweenAppend`, `BetweenTail`), so
that the server's next block always is the one it takes it for. `GotRight` and
`PayloadRight` say the same of what was received. All of it is asked of a proxy that
sends what it announced (`Counted`); when it was killed before the end, until what
it sent was read (`Lost`).

`NobodyStuck` is about all waits of a push and not only the one for the answer: a
push that was `Counted` and has not ended has an enabled step at one of its ends, or
waits for `branch_lock` behind a push that has one, if that was `Counted` too. It
rests on `FlowInv`, which adds to the above that only a connection that is served
holds the lock (`HeldInv`) and that one the server closed has an answer (`EndInv`):
buffers that are full keep a proxy from sending, but then the server can read.

`ProxyProofs`, for any clients, files and scripts, and any number of faults:

| Theorem | Statement |
|---|---|
| `TypeCorrect` | `Spec => []TypeOK` |
| `QueueOrdered` | `Spec => []QueueKeepsOrder` |
| `OnlyRedisDrops` | `Spec => []IgnoredNeedsRedis` |
| `VersionsOrdered` | `Spec => []VersionsInOrder` |
| `PushCovers` | `Spec => PushCoversEdits` |

`Order` is `QueueKeepsOrder` line by line: the numbers in the queue are those sent
and not taken, all of them, increasing per client. `RedisInv` says that as long as
Redis was never away it is up, its table is there, and a running proxy is connected.
`PushInv` follows a push from when it is taken: what was asked for lies between the
index and the working directory until the list is made, and a file that was not
listed did not differ from the commit.

`LegacyProofs`, for any clients, workers, connections, branches and contents, and
any number of faults:

| Theorem | Statement |
|---|---|
| `TypeCorrect` | `Spec => []TypeOK` |
| `DirectoriesWhole` | `Spec => []GitIsWhole` |
| `ServerImplementsStore` | `Spec => ImplementsStore` |
| `AckIsStoredHolds` | `Spec => []AckIsStored` |
| `NoMutualWaitHolds` | `Spec => []NoMutualWait` |
| `NobodyIsStuck` | `Spec => []NobodyStuck` |

`TypeOK` says of a file that it consists of segments, and a PULL writes into one
whatever arrives. That nothing else than segments does rests on `PullInv`: the
connection of a client that pulls carries a PULL and nothing else, which in turn
needs `FreshInv`, that no worker has a connection which was not made yet. `WholeInv`
gives, for each directory, what was made before it, and that only a crash or libgit2
leaves a start half done. The refinement rests on `SavedInv`: from the rename of a
file to the write of the head, what the worker's `hash` names is stored under its
own name, and no other worker's rename can change that, since it would put there
what has the same hash. That the object is a piece of what its client sent is `Split`,
below: what the worker has begins where the data that came with the line was lost,
and `Complete` is what makes it as long as announced (`SavedCovers`).

`AckIsStored` and `NoMutualWait` rest on `PushInv`. `OwnInv`: an open connection is
once in the queue or with one worker. `ReceivedInv` follows the bytes: before the line
is read, everything sent after it waits and the size in it is that of the file
(`LineMatches`); then what was sent is what was thrown away with the line, what is in
the temporary file and what waits, in this order (`Split`). A worker that has as much
as was announced, with nothing thrown away and a client that sent what it announced,
has the file; `SavedInv` keeps it stored up to the answer and after it (`Acked`). The
assumption that SUCCESS and HISTORY are no segments of a file is about the alphabet
of the model: an answer is told from contents by the place it is read at.

`NobodyStuck` is about every client in a command: it can go on, or the worker with
its connection can, or the connection is in the queue and a worker can get on. The
two exceptions are those `EveryCommandEnds` names and the code has: a push of which
less arrived than its line says, and workers that are all held by connections that
send nothing. `WaitInv` is the invariant: no open connection is out of the server's
hands (`PlaceInv`), and a client that waits has sent its line (`AskInv`).

`ProxyServProofs`, for any branches, lengths of answers and numbers of lines, and
under every fault:

| Theorem | Statement |
|---|---|
| `TypeCorrect` | `Spec => []TypeOK` |
| `AsTypedHolds` | `Spec => []AsTyped` |
| `NobodyWaitsInVain` | `Spec => []NeverInVain` |
| `CommandsRunOut` | `Spec => CommandsAdvance` |

`TypeOK` needs that the first newline of what was typed is a minimum that exists
(`WFMin`), which is where `fgets` cuts. `AsTyped` rests on `TypedInv`: until a
commit used `scanf`, the terminal holds nothing but the whole answer to the prompt
at which the proxy waits (`TerminalInv`), so the buffers hold what was typed for them
(`BufferInv`), and the head that is written is of a branch whose push was answered
(`ToldInv`). It assumes that the hash of a commit is not that of a file.
`NeverInVain` holds also after a `scanf`: at a prompt either a question is left to be
answered or what is typed has a word and a newline (`ReadableInv`), whichever way the
next read takes it. `CommandsAdvance` counts the at most six steps of a command, as
`RequestsAdvance` does in the main server.

Only model-checked:

* liveness itself (`EveryRequestEnds`, `EveryConnectionEnds`, `EveryPushEnds`,
  `EveryLineIsTaken`, and `EveryCommandEnds` of `Legacy` and of `ProxyServ`): fairness
  and `ENABLED` are outside what the prover handles. What these rest on besides
  fairness is proved as far as it is a safety property: that nobody is stuck, for all
  but `Proxy`, with the guards of the steps written out (TLC found them equal to
  `ENABLED` of the steps on the instances of the runs); and that the steps run out,
  for `MainServer` and `ProxyServ`.
* what happens to `AckIsCommit` and the refinement of `MainServer` under the faults
  their theorems exclude, where they are false.

## 6. Not modelled

* In `Proxy`: deleted, ignored and unreadable files (`PushProtocol` has them), lines
  too long for one message, which `fgets` splits into two, and a main server that
  shares the directory `.git` with the repository.
* The command line of a request arriving in pieces, in any of the servers, or not at
  all in `MainServer`. In the second case `sscanf` leaves `command` as the worker's
  previous request left it.
* SIGPIPE in the server: in `MainServer`, a PULL client that goes away in the middle
  of its answer is a crash between two steps, which leaves the same on the disk. In
  `LegacyServer` it is an outcome of `SendFails`.
* In `LegacyServer`: the end of a worker between the hash and the rename (nothing
  looks at the temporary file again), and bytes: a segment is not divided.
* In `Legacy`: the rest of the earlier `ProxyServer.c`, its queue, Redis and libgit2,
  which is the code `Proxy` models. A local head file longer than `local_head[40]`
  leaves room for.
* In `ProxyServ`: the end of input at the terminal (Ctrl-D), a proxy started without
  one, and Redis while it loads, which `Proxy` has. What the server does
  with a request is `Legacy`'s question. `git_push_s` is never called.
* `write_object` (never called), logging, timing, the HTTP parser `proxy_api.c`
  (third-party, never called), the toy `Server.c`, the scripts and the report.

## 7. Plan

In this order; done unless marked.

1. `Manifest`, `BranchLog`, `MainServer`: what the system is for.
2. `ManifestProofs`, `MainServerProofs`.
3. `WorkQueue`.
4. `PushProtocol`: the sender that `MainServer` abstracts to "a client".
5. `WorkQueueProofs`.
6. `Proxy`.
7. `ObjectStore`, `LegacyServer`, `Legacy`: what the lock, the manifest and the
   framed headers were added for, with the start-up of `.git`.
8. `ProxyServ`.
9. `LegacyProofs`, `ProxyProofs`, `AnswerProofs`, `PushProtocolProofs`.
10. `AckIsStored` and `NoMutualWait` of `Legacy`, from the places of
    `PushProtocolProofs` without headers; `AsTyped` of `ProxyServ` in `ProxyServProofs`.
11. What the liveness properties rest on: nobody is stuck, requests run out of steps.
12. The refinement of `BranchLog` across crashes that tear no head.
13. *To do* The count of steps for `PushProtocol`, `Legacy` and `WorkQueue`; that
    nobody is stuck for `Proxy`.
14. *To do* the command line in pieces, in `MainServer` and `LegacyServer`.
