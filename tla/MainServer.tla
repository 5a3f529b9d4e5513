----------------------------- MODULE MainServer -----------------------------
(***************************************************************************)
(* Main_Server.c: the pool of worker threads, the mutex branch_lock, the   *)
(* head files of .git/refs/branches and the objects of .git/objects, with  *)
(* one action per step of handle_client, handle_push, handle_pull and      *)
(* handle_history that another worker, a crash or a cut connection can     *)
(* come between.                                                           *)
(*                                                                         *)
(* A connection carries one request, so a connection is called a client.   *)
(* How a connection reaches a worker is modelled in WorkQueue.tla.         *)
(*                                                                         *)
(* What a buffer nobody wrote holds is a choice between what the same      *)
(* stack slot held in the worker's previous use of it and junk.            *)
(***************************************************************************)
EXTENDS Manifest

CONSTANTS
  Workers,    \* the MAX_THREADS threads
  Clients,
  Branches,
  FileLists,  \* what a push may carry: sequences of entries
  Faults,     \* which of "cut", "crash" and "emfile" the environment does
  NoWorker,   \* branch_lock is free
  NoClient,   \* a worker without a connection
  NoHash,     \* the empty string
  Garbage,    \* a non-empty string that is the hash of nothing
  ZeroHash,   \* a parent that was never published: 40 zeros, or the id of a
              \* commit of the proxy's own repository
  Absent,     \* the branch has no head file
  Empty,      \* the head file has no bytes
  JunkName,   \* a file name read from a header that was not received
  Partial,    \* the bytes of a file that arrived before its connection broke
  BadBlob     \* what an unwritten hash[] holds

ASSUME ConstantsAssumption ==
  /\ JunkName \in Names /\ {Partial, BadBlob} \subseteq Blobs
  /\ Branches # {}
  /\ FileLists \subseteq Seq(Entry)
  /\ NoWorker \notin Workers /\ NoClient \notin Clients
  /\ Faults \subseteq {"cut", "crash", "emfile"}

\* No marker of a missing value is another one, or the text of a manifest.
ASSUME MarkersAssumption ==
  /\ NoHash # Garbage /\ NoHash # ZeroHash /\ Garbage # ZeroHash
  /\ Absent # Empty
  /\ {NoHash, Garbage, ZeroHash, Absent, Empty} \cap Manifests = {}

VARIABLES
  \* The disk.
  head,       \* head[b]: the head file of branch b
  manifests,  \* the manifest objects under .git/objects
  blobs,      \* the names of the file objects under .git/objects; the server never
              \* reads one, and without "emfile" each is the hash of its content
  \* The process.
  lock,       \* the worker that holds branch_lock
  pc,         \* pc[w]: where worker w is
  job,        \* job[w]: the connection w serves
  req,        \* req[w]: command, branch, num_files and parent_hash of w
  todo,       \* todo[w]: the files w has still to receive
  entries,    \* entries[w]: the table of handle_push
  stale,      \* stale[w]: what w's stack slots of the branch head, the file
              \* name and the file hash hold
  \* The clients.
  conn,       \* conn[c]: "new", "open", "cut" or "done"
  reply,      \* reply[c]: what c was answered
  \* History variables, read by no action.
  took,       \* took[w]: what w put into its table for this push
  log         \* log[b]: the commits published on b

disk   == <<head, manifests, blobs>>
worker == <<lock, pc, job, req, todo, entries, stale>>
peer   == <<conn, reply>>
vars   == <<disk, worker, peer, took, log>>

Hashes == Manifests \cup {NoHash, Garbage, ZeroHash}

BL == INSTANCE BranchLog

Request == [kind : {"push", "pull", "history", "other"}, branch : Branches,
            parent : Hashes, files : FileLists \cup {<<>>}]

Reply == [kind : {"none", "lost", "success", "conflict", "content", "history",
                  "no_commits", "missing", "invalid"},
          branch : Branches, hashes : Seq(Hashes)]

Stale == [hash : Hashes, name : Names, blob : Blobs]

AnyBranch == CHOOSE b \in Branches : TRUE
NoRequest == [kind |-> "other", branch |-> AnyBranch, parent |-> ZeroHash, files |-> <<>>]
NoReply   == [kind |-> "none", branch |-> AnyBranch, hashes |-> <<>>]
Unwritten == [hash |-> Garbage, name |-> JunkName, blob |-> BadBlob]

Init ==
  /\ head = [b \in Branches |-> Absent] /\ manifests = {} /\ blobs = {}
  /\ lock = NoWorker
  /\ pc = [w \in Workers |-> "idle"] /\ job = [w \in Workers |-> NoClient]
  /\ req = [w \in Workers |-> NoRequest] /\ todo = [w \in Workers |-> <<>>]
  /\ entries = [w \in Workers |-> <<>>] /\ stale = [w \in Workers |-> Unwritten]
  /\ conn = [c \in Clients |-> "new"] /\ reply = [c \in Clients |-> NoReply]
  /\ took = [w \in Workers |-> {}] /\ log = [b \in Branches |-> <<>>]

-----------------------------------------------------------------------------
Published(b) == {log[b][i].manifest : i \in DOMAIN log[b]}

\* The requests a client can make now: a push names any hash it can know.
Requests ==
  [kind : {"push"}, branch : Branches, files : FileLists,
   parent : {ZeroHash} \cup UNION {Published(b) : b \in Branches}]
  \cup [kind : {"pull", "history", "other"}, branch : Branches,
        files : {<<>>}, parent : {ZeroHash}]

\* What hash[] may hold after read_branch_head: an empty file leaves the
\* caller's buffer as it was, a file that cannot be opened clears it.
ReadHead(w) ==
  LET h == head[req[w].branch]
  IN  (IF "emfile" \in Faults THEN {NoHash} ELSE {})
      \cup (CASE h = Absent -> {NoHash}
              [] h = Empty  -> {NoHash, Garbage, stale[w].hash}
              [] OTHER      -> {h})

\* send and close; an answer on a broken connection reaches nobody.
Answer(w, kind, hashes) ==
  /\ pc' = [pc EXCEPT ![w] = "idle"]
  /\ job' = [job EXCEPT ![w] = NoClient]
  /\ req' = [req EXCEPT ![w] = NoRequest]
  /\ conn' = [conn EXCEPT ![job[w]] = "done"]
  /\ reply' = [reply EXCEPT ![job[w]] =
       IF conn[job[w]] = "cut" THEN [NoReply EXCEPT !.kind = "lost"]
       ELSE [kind |-> kind, branch |-> req[w].branch, hashes |-> hashes]]

\* handle_client up to its dispatch: the command line is read.
HandleClient(w, c) ==
  /\ pc[w] = "idle" /\ conn[c] = "new"
  /\ \E r \in Requests :
       /\ req' = [req EXCEPT ![w] = r]
       /\ pc' = [pc EXCEPT ![w] = IF r.kind = "push" THEN "lock" ELSE r.kind]
  /\ job' = [job EXCEPT ![w] = c]
  /\ conn' = [conn EXCEPT ![c] = "open"]
  /\ UNCHANGED <<disk, lock, todo, entries, stale, reply, took, log>>

\* A client process or its network goes away while a worker serves it.
Cut(w) ==
  /\ "cut" \in Faults
  /\ job[w] # NoClient /\ conn[job[w]] = "open"
  /\ conn' = [conn EXCEPT ![job[w]] = "cut"]
  /\ UNCHANGED <<disk, worker, reply, took, log>>

InvalidCommand(w) ==
  /\ pc[w] = "other"
  /\ Answer(w, "invalid", <<>>)
  /\ UNCHANGED <<disk, lock, todo, entries, stale, took, log>>

-----------------------------------------------------------------------------
(* handle_pull and handle_history: neither takes branch_lock.              *)

\* Whether the fopen of an object may fail.
MayMiss(h) == h \notin manifests \/ "emfile" \in Faults

HandlePull(w) ==
  /\ pc[w] = "pull"
  /\ \E h \in ReadHead(w) :
       /\ stale' = [stale EXCEPT ![w].hash = h]
       /\ \/ h = NoHash /\ Answer(w, "no_commits", <<>>)
          \/ h # NoHash /\ h \in manifests /\ Answer(w, "content", <<h>>)
          \/ h # NoHash /\ MayMiss(h) /\ Answer(w, "missing", <<>>)
  /\ UNCHANGED <<disk, lock, todo, entries, took, log>>

\* The first 40 bytes of the object named by a hash are taken for the next
\* hash; they are the start of a file name and never name an object.
HandleHistory(w) ==
  /\ pc[w] = "history"
  /\ \E h \in ReadHead(w) :
       /\ stale' = [stale EXCEPT ![w].hash = h]
       /\ \/ h = NoHash /\ Answer(w, "no_commits", <<>>)
          \/ h \in manifests \ {<<>>} /\ Answer(w, "history", <<h, Garbage>>)
          \/ h # NoHash /\ MayMiss(h) /\ Answer(w, "history", <<h>>)
  /\ UNCHANGED <<disk, lock, todo, entries, took, log>>

\* Of an empty manifest fread reads nothing and hash[] stays: every turn of the
\* loop opens the same object and adds the same hash to the response.  The turns
\* change nothing else, and are no steps of the model.
HistoryLoops(w) ==
  /\ pc[w] = "history"
  /\ <<>> \in ReadHead(w) \cap manifests
  /\ stale' = [stale EXCEPT ![w].hash = <<>>]
  /\ pc' = [pc EXCEPT ![w] = "loop"]
  /\ UNCHANGED <<disk, lock, job, req, todo, entries, peer, took, log>>

\* The fopen of one of the turns fails, and the hash was added twice or more.
LoopMisses(w) ==
  /\ "emfile" \in Faults /\ pc[w] = "loop"
  /\ Answer(w, "history", <<<<>>, <<>>>>)
  /\ UNCHANGED <<disk, lock, todo, entries, stale, took, log>>

-----------------------------------------------------------------------------
(* handle_push, from pthread_mutex_lock to the answer.                     *)

\* Mutant of Lock: branch_lock does not exclude.
LockShared(w) ==
  /\ pc[w] = "lock"
  /\ lock' = w
  /\ pc' = [pc EXCEPT ![w] = "check"]
  /\ UNCHANGED <<disk, job, req, todo, entries, stale, peer, took, log>>

Lock(w) ==
  /\ pc[w] = "lock" /\ lock = NoWorker
  /\ lock' = w
  /\ pc' = [pc EXCEPT ![w] = "check"]
  /\ UNCHANGED <<disk, job, req, todo, entries, stale, peer, took, log>>

\* Mutant of Rejected: a push that names no parent passes.
RejectedUnlessZero(w, h) ==
  h # NoHash /\ req[w].parent # ZeroHash /\ h # req[w].parent

Rejected(w, h) == h # NoHash /\ h # req[w].parent

\* Mutant of Conflict: the return leaves branch_lock locked.
ConflictKeepsLock(w) ==
  /\ pc[w] = "check"
  /\ \E h \in ReadHead(w) :
       /\ Rejected(w, h)
       /\ stale' = [stale EXCEPT ![w].hash = h]
  /\ Answer(w, "conflict", <<>>)
  /\ UNCHANGED <<disk, lock, todo, entries, took, log>>

\* Mutant of Conflict: the client is answered but the push goes on.
ConflictNoReturn(w) ==
  /\ pc[w] = "check"
  /\ \E h \in ReadHead(w) :
       /\ Rejected(w, h)
       /\ stale' = [stale EXCEPT ![w].hash = h]
       /\ h \in manifests /\ entries' = [entries EXCEPT ![w] = h]
  /\ pc' = [pc EXCEPT ![w] = "recv"]
  /\ todo' = [todo EXCEPT ![w] = req[w].files]
  /\ reply' = [reply EXCEPT ![job[w]] =
       [kind |-> "conflict", branch |-> req[w].branch, hashes |-> <<>>]]
  /\ UNCHANGED <<disk, lock, job, req, conn, took, log>>

Conflict(w) ==
  /\ pc[w] = "check"
  /\ \E h \in ReadHead(w) :
       /\ Rejected(w, h)
       /\ stale' = [stale EXCEPT ![w].hash = h]
  /\ lock' = NoWorker
  /\ Answer(w, "conflict", <<>>)
  /\ UNCHANGED <<disk, todo, entries, took, log>>

\* Mutant of LoadManifest: the old manifest is not read.
LoadNothing(w) ==
  /\ pc[w] = "check"
  /\ \E h \in ReadHead(w) :
       /\ ~Rejected(w, h)
       /\ stale' = [stale EXCEPT ![w].hash = h]
  /\ pc' = [pc EXCEPT ![w] = "recv"]
  /\ todo' = [todo EXCEPT ![w] = req[w].files]
  /\ UNCHANGED <<disk, lock, job, req, entries, peer, took, log>>

\* Past the check: the old manifest, if it can be opened, fills the table.
LoadManifest(w) ==
  /\ pc[w] = "check"
  /\ \E h \in ReadHead(w) :
       /\ ~Rejected(w, h)
       /\ stale' = [stale EXCEPT ![w].hash = h]
       /\ \/ h \in manifests /\ entries' = [entries EXCEPT ![w] = h]
          \/ MayMiss(h) /\ entries' = [entries EXCEPT ![w] = <<>>]
  /\ pc' = [pc EXCEPT ![w] = "recv"]
  /\ todo' = [todo EXCEPT ![w] = req[w].files]
  /\ took' = [took EXCEPT ![w] = {}]
  /\ UNCHANGED <<disk, lock, job, req, peer, log>>

Receiving(w) == pc[w] = "recv" /\ todo[w] # <<>>

\* One turn of the loop over the files: a header that reads as `name`, a
\* payload whose hash comes out as e.blob, and the update of the table.
Receive(w, e) ==
  /\ todo' = [todo EXCEPT ![w] = Tail(todo[w])]
  /\ entries' = [entries EXCEPT ![w] = PutEntry(entries[w], e)]
  /\ stale' = [stale EXCEPT ![w].name = e.name, ![w].blob = e.blob]
  /\ took' = [took EXCEPT ![w] = @ \cup {e}]
  /\ UNCHANGED <<head, manifests, lock, pc, job, req, reply, log>>

RecvFile(w) ==
  /\ Receiving(w) /\ conn[job[w]] = "open"
  /\ Receive(w, Head(todo[w]))
  /\ blobs' = blobs \cup {Head(todo[w]).blob}
  /\ UNCHANGED conn

\* The connection breaks in the file being received: its header is complete,
\* or what is scanned is the header of the file before or junk.
RecvCut(w) ==
  /\ "cut" \in Faults /\ Receiving(w) /\ conn[job[w]] = "open"
  /\ \E name \in {Head(todo[w]).name, stale[w].name, JunkName} :
       Receive(w, [name |-> name, blob |-> Partial])
  /\ blobs' = blobs \cup {Partial}
  /\ conn' = [conn EXCEPT ![job[w]] = "cut"]

\* recv returns 0 for the header and for the payload; the loop goes on.
RecvAfterCut(w) ==
  /\ Receiving(w) /\ conn[job[w]] = "cut"
  /\ \E name \in {stale[w].name, JunkName} :
       Receive(w, [name |-> name, blob |-> Partial])
  /\ blobs' = blobs \cup {Partial}
  /\ UNCHANGED conn

\* The fopen of compute_sha1 fails, and the entry gets whatever hash[] held.  When
\* mkstemp had failed too there is nothing to rename; else the file that came is
\* renamed over the object of that other hash, if the name makes a path.
RecvNoFile(w) ==
  /\ "emfile" \in Faults /\ Receiving(w) /\ conn[job[w]] = "open"
  /\ \E blob \in {stale[w].blob, BadBlob} :
       /\ Receive(w, [name |-> Head(todo[w]).name, blob |-> blob])
       /\ blobs' \in {blobs, blobs \cup {blob}}
  /\ UNCHANGED conn

\* Mutant of WriteManifest: the temporary file is not renamed to its hash.
WriteManifestNowhere(w) ==
  /\ pc[w] = "recv" /\ todo[w] = <<>>
  /\ pc' = [pc EXCEPT ![w] = "truncate"]
  /\ UNCHANGED <<disk, lock, job, req, todo, entries, stale, peer, took, log>>

\* Mutant of WriteManifest: a manifest that is stored is taken to be published.
WriteManifestOnce(w) ==
  /\ pc[w] = "recv" /\ todo[w] = <<>>
  /\ manifests' = manifests \cup {entries[w]}
  /\ pc' = [pc EXCEPT ![w] = IF entries[w] \in manifests THEN "reply" ELSE "truncate"]
  /\ lock' = IF entries[w] \in manifests THEN NoWorker ELSE lock
  /\ UNCHANGED <<head, blobs, job, req, todo, entries, stale, peer, took, log>>

\* The new manifest is complete and renamed to its place.
WriteManifest(w) ==
  /\ pc[w] = "recv" /\ todo[w] = <<>>
  /\ manifests' = manifests \cup {entries[w]}
  /\ pc' = [pc EXCEPT ![w] = "truncate"]
  /\ UNCHANGED <<head, blobs, lock, job, req, todo, entries, stale, peer, took, log>>

\* mkstemp fails: nothing is published.  The fopen of compute_sha1 fails: the
\* head file is rewritten with an empty hash.  Both answer SUCCESS.
NoManifest(w) ==
  /\ "emfile" \in Faults
  /\ pc[w] = "recv" /\ todo[w] = <<>>
  /\ head' \in {head, [head EXCEPT ![req[w].branch] = Empty]}
  /\ lock' = NoWorker
  /\ Answer(w, "success", <<NoHash>>)
  /\ entries' = [entries EXCEPT ![w] = <<>>] /\ took' = [took EXCEPT ![w] = {}]
  /\ UNCHANGED <<manifests, blobs, todo, stale, log>>

\* Mutant of TruncateHead: branch_lock is released before the head is written.
TruncateUnlocked(w) ==
  /\ pc[w] = "truncate"
  /\ head' = [head EXCEPT ![req[w].branch] = Empty]
  /\ lock' = NoWorker
  /\ pc' = [pc EXCEPT ![w] = "write"]
  /\ UNCHANGED <<manifests, blobs, job, req, todo, entries, stale, peer, took, log>>

\* write_branch_head: fopen(path, "w") ...
TruncateHead(w) ==
  /\ pc[w] = "truncate"
  /\ head' = [head EXCEPT ![req[w].branch] = Empty]
  /\ pc' = [pc EXCEPT ![w] = "write"]
  /\ UNCHANGED <<manifests, blobs, lock, job, req, todo, entries, stale, peer, took, log>>

Commit(w) ==
  [by |-> job[w], parent |-> req[w].parent, files |-> took[w], manifest |-> entries[w]]

\* ... then fprintf and fclose, and the unlock.
WriteHead(w) ==
  /\ pc[w] = "write"
  /\ head' = [head EXCEPT ![req[w].branch] = entries[w]]
  /\ log' = [log EXCEPT ![req[w].branch] = Append(@, Commit(w))]
  /\ lock' = NoWorker
  /\ pc' = [pc EXCEPT ![w] = "reply"]
  /\ UNCHANGED <<manifests, blobs, job, req, todo, entries, stale, peer, took>>

Success(w) ==
  /\ pc[w] = "reply"
  /\ Answer(w, "success", <<entries[w]>>)
  /\ entries' = [entries EXCEPT ![w] = <<>>] /\ took' = [took EXCEPT ![w] = {}]
  /\ UNCHANGED <<disk, lock, todo, stale, log>>

-----------------------------------------------------------------------------
\* The process ends (killed, or by the exit of write_branch_head when fopen
\* fails) and is started again: main begins with fresh threads and a free
\* mutex, and leaves the files as they are.
Restart ==
  /\ lock' = NoWorker
  /\ pc' = [w \in Workers |-> "idle"] /\ job' = [w \in Workers |-> NoClient]
  /\ req' = [w \in Workers |-> NoRequest] /\ todo' = [w \in Workers |-> <<>>]
  /\ entries' = [w \in Workers |-> <<>>] /\ stale' = [w \in Workers |-> Unwritten]
  /\ took' = [w \in Workers |-> {}]
  /\ conn' = [c \in Clients |-> IF conn[c] = "new" THEN "new" ELSE "done"]
  /\ reply' = [c \in Clients |-> IF conn[c] \in {"open", "cut"}
                                   THEN [NoReply EXCEPT !.kind = "lost"] ELSE reply[c]]
  /\ UNCHANGED <<disk, log>>

Crash == "crash" \in Faults /\ Restart

\* exit(EXIT_FAILURE) in write_branch_head.
HeadNotOpened(w) == "emfile" \in Faults /\ pc[w] = "truncate" /\ Restart

\* The loop of handle_history writes behind response[8192]: what it overwrites
\* there, and at the latest the end of the heap, ends the process.
ResponseOverrun(w) == pc[w] = "loop" /\ Restart

\* Every connection was served: the workers wait in dequeue_client.
Rest == (\A c \in Clients : conn[c] = "done") /\ UNCHANGED vars

\* What worker w does by itself once it has a connection.
Work(w) ==
  \/ InvalidCommand(w) \/ HandlePull(w) \/ HandleHistory(w)
  \/ HistoryLoops(w) \/ LoopMisses(w) \/ ResponseOverrun(w)
  \/ Lock(w) \/ Conflict(w) \/ LoadManifest(w)
  \/ RecvFile(w) \/ RecvAfterCut(w) \/ RecvNoFile(w)
  \/ WriteManifest(w) \/ NoManifest(w) \/ TruncateHead(w) \/ WriteHead(w)
  \/ Success(w)

Next ==
  \/ \E w \in Workers :
       \/ \E c \in Clients : HandleClient(w, c)
       \/ Work(w)
       \/ Cut(w) \/ RecvCut(w) \/ HeadNotOpened(w)
  \/ Crash
  \/ Rest

Spec == Init /\ [][Next]_vars

\* No thread is stopped for ever by the scheduler, and a client goes on
\* sending what it announced unless its connection breaks.
FairSpec == Spec /\ \A w \in Workers : WF_vars(Work(w))

-----------------------------------------------------------------------------
TypeOK ==
  /\ head \in [Branches -> Manifests \cup {Absent, Empty}]
  /\ manifests \subseteq Manifests /\ blobs \subseteq Blobs
  /\ lock \in Workers \cup {NoWorker}
  /\ pc \in [Workers -> {"idle", "pull", "history", "loop", "other", "lock", "check",
                         "recv", "truncate", "write", "reply"}]
  /\ job \in [Workers -> Clients \cup {NoClient}]
  /\ req \in [Workers -> Request]
  /\ todo \in [Workers -> Seq(Entry)]
  /\ entries \in [Workers -> Manifests]
  /\ stale \in [Workers -> Stale]
  /\ conn \in [Clients -> {"new", "open", "cut", "done"}]
  /\ reply \in [Clients -> Reply]
  /\ took \in [Workers -> SUBSET Entry]
  /\ BL!TypeOK

\* Everything a manifest names can be downloaded.
Complete(m) == m \in manifests /\ \A i \in DOMAIN m : m[i].blob \in blobs

\* A branch head never names a manifest, nor through it a file, that is not
\* stored, and neither does the manifest a PULL was answered with: objects
\* are renamed to their place before anything names them, also when the
\* process is killed between two of those steps or a connection breaks.
NothingDangles ==
  /\ \A b \in Branches : head[b] \notin {Absent, Empty} => Complete(head[b])
  /\ \A c \in Clients : reply[c].kind = "content" => Complete(reply[c].hashes[1])

\* The part of it that is left when files cannot be opened: a head names a
\* manifest that is stored.
HeadsAreStored ==
  \A b \in Branches : head[b] \notin {Absent, Empty} => head[b] \in manifests

\* When no push holds branch_lock, the head file of every branch is there and
\* names the last commit that was accepted.
FreeHeadIsTip ==
  lock = NoWorker =>
    \A b \in Branches : head[b] = IF log[b] = <<>> THEN Absent ELSE BL!Tip(b)

CommitsOf(c) ==
  {at \in UNION {{b} \X DOMAIN log[b] : b \in Branches} : log[at[1]][at[2]].by = c}

\* A client that was told SUCCESS, with or without a crash of the server,
\* finds its commit on its branch, with the hash it was told: the answer is
\* sent after the head is written.
AckIsCommit ==
  \A c \in Clients : reply[c].kind = "success" =>
    \E at \in CommitsOf(c) :
      at[1] = reply[c].branch /\ <<log[at[1]][at[2]].manifest>> = reply[c].hashes

\* A push that was told Conflict left nothing behind, and no push is published
\* twice, whatever was cut or lost on the way.
RejectedLeavesNothing ==
  \A c \in Clients :
    /\ \A at1, at2 \in CommitsOf(c) : at1 = at2
    /\ reply[c].kind = "conflict" => CommitsOf(c) = {}

\* The fast-forward rule of the comment at the check of handle_push: on a
\* branch with a history, a push is accepted only with the current head as
\* its parent.
LinearHistory == BL!LinearHistory

\* A file that an accepted push listed is still listed by every later commit
\* of its branch: no push that read an older head overwrites a newer one.
FilesStay == BL!FilesStay

\* The whole of handle_push, with its lock, its files and its head file,
\* does for the commits of a branch what the one step of BranchLog does.
ImplementsBranchLog == BL!Spec

\* A request that a worker has begun to serve is answered, or its connection
\* is gone: nobody waits for branch_lock for ever, and a HISTORY that finds an
\* empty manifest ends with the process.
EveryRequestEnds ==
  \A c \in Clients : conn[c] \in {"open", "cut"} ~> conn[c] = "done"

\* No commit contains a file of which only a part was received.
NoPartialCommit ==
  \A b \in Branches : \A i \in DOMAIN log[b] :
    \A e \in log[b][i].files : e.blob # Partial
=============================================================================
