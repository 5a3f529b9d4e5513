-------------------------- MODULE MainServerProofs --------------------------
(***************************************************************************)
(* Proofs about MainServer: type correctness under every fault, that       *)
(* nothing a head names is missing when files can be opened, that only a   *)
(* push of no files can make HISTORY loop, and that the server implements  *)
(* BranchLog as long as it does not end while it writes a head file.       *)
(***************************************************************************)
EXTENDS MainServer, ManifestProofs

-----------------------------------------------------------------------------
(* Type correctness.                                                       *)

PCs == {"idle", "pull", "history", "loop", "other", "lock", "check", "recv",
        "truncate", "write", "reply"}
Kinds == {"none", "lost", "success", "conflict", "content", "history",
          "no_commits", "missing", "invalid"}

\* BranchLog speaks of the same tables.
LEMMA SameTables ==
  /\ BL!Commits = [by : Clients, parent : Hashes, files : SUBSET Entry,
                   manifest : Manifests]
  /\ \A m : BL!NamesOf(m) = NamesOf(m)
  /\ \A m1, m2, files : BL!Extends(m1, m2, files) = Extends(m1, m2, files)
<1>1. BL!Entry = Entry BY DEF BL!Entry, Entry
<1>2. BL!Manifests = Manifests BY <1>1 DEF BL!Manifests, Manifests
<1>3. \A m : BL!NamesOf(m) = NamesOf(m) BY DEF BL!NamesOf, NamesOf
<1>4. \A m1, m2, files : BL!Extends(m1, m2, files) = Extends(m1, m2, files)
  BY <1>3 DEF BL!Extends, Extends
<1> QED BY <1>1, <1>2, <1>3, <1>4 DEF BL!Commits

LEMMA InitialValues ==
  /\ NoRequest \in Request /\ NoReply \in Reply /\ Unwritten \in Stale
  /\ [NoReply EXCEPT !.kind = "lost"] \in Reply
<1>1. AnyBranch \in Branches BY ConstantsAssumption DEF AnyBranch
<1>2. ZeroHash \in Hashes /\ Garbage \in Hashes BY DEF Hashes
<1>3. JunkName \in Names /\ BadBlob \in Blobs BY ConstantsAssumption
<1>4. NoRequest \in Request BY <1>1, <1>2 DEF NoRequest, Request
<1>5. NoReply \in Reply /\ [NoReply EXCEPT !.kind = "lost"] \in Reply
  <2>1. <<>> \in Seq(Hashes) OBVIOUS
  <2> DEFINE lost == [kind |-> "lost", branch |-> AnyBranch, hashes |-> <<>>]
  <2>2. [NoReply EXCEPT !.kind = "lost"] = lost BY DEF NoReply
  <2>3. NoReply \in Reply BY <1>1, <2>1 DEF NoReply, Reply
  <2>4. lost \in Reply BY <1>1, <2>1 DEF Reply
  <2> QED BY <2>2, <2>3, <2>4
<1>6. Unwritten \in Stale BY <1>2, <1>3 DEF Unwritten, Stale
<1> QED BY <1>4, <1>5, <1>6

\* The empty table.
LEMMA EmptyManifest == <<>> \in Manifests /\ DistinctNames(<<>>)
<1> DEFINE m == <<>>
<1>1. m \in Seq(Entry) /\ Len(m) = 0 OBVIOUS
<1> HIDE DEF m
<1>2. m \in Manifests
  <2>1. Len(m) <= MaxManifestEntries BY <1>1, MaxManifestEntriesAssumption
  <2> QED BY <1>1, <2>1, ManifestsAreSequences, Zenon
<1>3. DistinctNames(m) BY <1>1 DEF DistinctNames
<1> QED BY <1>2, <1>3 DEF m

\* The commits of a branch have manifests.
LEMMA PublishedType ==
  ASSUME TypeOK
  PROVE  \A b \in Branches : \A i \in DOMAIN log[b] : log[b][i].manifest \in Manifests
<1> SUFFICES ASSUME NEW b \in Branches, NEW i \in DOMAIN log[b]
             PROVE  log[b][i].manifest \in Manifests
  OBVIOUS
<1>1. log[b] \in Seq(BL!Commits) BY DEF TypeOK, BL!TypeOK
<1>2. log[b][i] \in BL!Commits BY <1>1
<1> QED BY <1>2, SameTables

LEMMA ReadHeadType ==
  ASSUME TypeOK, NEW w \in Workers
  PROVE  ReadHead(w) \subseteq Hashes
<1>1. req[w].branch \in Branches BY DEF TypeOK, Request
<1>2. head[req[w].branch] \in Manifests \cup {Absent, Empty} BY <1>1 DEF TypeOK
<1>3. stale[w].hash \in Hashes BY DEF TypeOK, Stale
<1> QED BY <1>2, <1>3 DEF ReadHead, Hashes

LEMMA StaleHash ==
  ASSUME stale \in [Workers -> Stale], NEW w \in Workers, NEW h \in Hashes
  PROVE  [stale EXCEPT ![w].hash = h] \in [Workers -> Stale]
<1>1. [stale[w] EXCEPT !.hash = h] \in Stale BY DEF Stale
<1>2. [stale EXCEPT ![w].hash = h] = [stale EXCEPT ![w] = [stale[w] EXCEPT !.hash = h]]
  OBVIOUS
<1> QED BY <1>1, <1>2

\* A worker between the dispatch of a request and its answer has a client.
JobInv == \A w \in Workers : pc[w] # "idle" => job[w] \in Clients

LEMMA AnswerType ==
  ASSUME TypeOK, NEW w \in Workers, NEW kind \in Kinds,
         NEW hashes \in Seq(Hashes), Answer(w, kind, hashes)
  PROVE  /\ pc' \in [Workers -> PCs]
         /\ job' \in [Workers -> Clients \cup {NoClient}]
         /\ req' \in [Workers -> Request]
         /\ conn' \in [Clients -> {"new", "open", "cut", "done"}]
         /\ reply' \in [Clients -> Reply]
         /\ JobInv => JobInv'
<1>1. req[w].branch \in Branches BY DEF TypeOK, Request
<1> DEFINE answer == [kind |-> kind, branch |-> req[w].branch, hashes |-> hashes]
<1>2. answer \in Reply BY <1>1 DEF Reply, Kinds
<1> HIDE DEF answer
<1>3. reply' \in [Clients -> Reply]
  <2>1. reply' = [reply EXCEPT ![job[w]] =
                    IF conn[job[w]] = "cut" THEN [NoReply EXCEPT !.kind = "lost"]
                    ELSE answer]
    BY DEF Answer, answer
  <2> QED BY <1>2, <2>1, InitialValues DEF TypeOK
<1>4. req' \in [Workers -> Request] BY InitialValues DEF Answer, TypeOK
<1>5. /\ pc' \in [Workers -> PCs]
      /\ job' \in [Workers -> Clients \cup {NoClient}]
      /\ conn' \in [Clients -> {"new", "open", "cut", "done"}]
  BY DEF Answer, TypeOK, PCs
<1>6. JobInv => JobInv' BY DEF Answer, JobInv, TypeOK
<1> QED BY <1>3, <1>4, <1>5, <1>6

LEMMA ReceiveType ==
  ASSUME TypeOK, NEW w \in Workers, Receiving(w), NEW e \in Entry,
         DistinctNames(entries[w]), Receive(w, e)
  PROVE  /\ todo' \in [Workers -> Seq(Entry)]
         /\ entries' \in [Workers -> Manifests]
         /\ stale' \in [Workers -> Stale]
         /\ took' \in [Workers -> SUBSET Entry]
         /\ UNCHANGED <<head, manifests, lock, pc, job, req, reply, log>>
<1>1. todo' \in [Workers -> Seq(Entry)]
  BY DEF TypeOK, Receive, Receiving
<1>2. entries' \in [Workers -> Manifests]
  <2>1. PutEntry(entries[w], e) \in Manifests BY PutEntryTable DEF TypeOK
  <2> QED BY <2>1 DEF TypeOK, Receive
<1>3. stale' \in [Workers -> Stale]
  <2>1. e.name \in Names /\ e.blob \in Blobs BY DEF Entry
  <2>2. stale \in [Workers -> Stale] /\ stale[w].hash \in Hashes BY DEF TypeOK, Stale
  <2>3. [stale[w] EXCEPT !.name = e.name, !.blob = e.blob] \in Stale
    BY <2>1, <2>2 DEF Stale
  <2>4. stale' = [stale EXCEPT ![w] = [stale[w] EXCEPT !.name = e.name, !.blob = e.blob]]
    BY <2>2 DEF Receive
  <2> QED BY <2>2, <2>3, <2>4
<1>4. took' \in [Workers -> SUBSET Entry] BY DEF TypeOK, Receive
<1> QED BY <1>1, <1>2, <1>3, <1>4 DEF Receive

LEMMA HeadOfTodo ==
  ASSUME TypeOK, NEW w \in Workers, Receiving(w)
  PROVE  Head(todo[w]) \in Entry
BY DEF TypeOK, Receiving

\* No table and no stored manifest lists a name twice: PutEntry needs it to
\* keep a table within its type, because it replaces one line only.
DistinctInv ==
  /\ \A w \in Workers : DistinctNames(entries[w])
  /\ \A m \in manifests : DistinctNames(m)

TInv == TypeOK /\ DistinctInv /\ JobInv

LEMMA TInvInit == Init => TInv
<1> SUFFICES ASSUME Init PROVE TInv OBVIOUS
<1>1. TypeOK
  <2>1. AnyBranch \in Branches BY ConstantsAssumption DEF AnyBranch
  <2>2. BL!TypeOK
    BY DEF Init, BL!TypeOK
  <2>3. entries \in [Workers -> Manifests] BY EmptyManifest DEF Init
  <2>4. /\ req \in [Workers -> Request] /\ stale \in [Workers -> Stale]
        /\ reply \in [Clients -> Reply]
    BY InitialValues DEF Init
  <2>5. todo \in [Workers -> Seq(Entry)] BY DEF Init
  <2> QED BY <2>2, <2>3, <2>4, <2>5 DEF Init, TypeOK
<1>2. DistinctInv BY EmptyManifest DEF Init, DistinctInv
<1>3. JobInv BY DEF Init, JobInv
<1> QED BY <1>1, <1>2, <1>3 DEF TInv

\* What w puts into its table is an entry.
LEMMA ReceivedIsEntry ==
  ASSUME TypeOK, NEW w \in Workers, Receiving(w), NEW e,
         \/ e = Head(todo[w])
         \/ /\ e.blob \in {Partial, BadBlob, stale[w].blob}
            /\ e.name \in {Head(todo[w]).name, stale[w].name, JunkName}
            /\ e = [name |-> e.name, blob |-> e.blob]
  PROVE  e \in Entry
<1>1. Head(todo[w]) \in Entry BY HeadOfTodo
<1>2. stale[w].name \in Names /\ stale[w].blob \in Blobs BY DEF TypeOK, Stale
<1>3. JunkName \in Names /\ Partial \in Blobs /\ BadBlob \in Blobs
  BY ConstantsAssumption
<1> QED BY <1>1, <1>2, <1>3 DEF Entry

LEMMA ReceiveStep ==
  ASSUME TInv, NEW w \in Workers, Receiving(w), NEW e \in Entry, Receive(w, e),
         blobs' \subseteq Blobs,
         conn' \in [Clients -> {"new", "open", "cut", "done"}]
  PROVE  TInv'
<1>1. DistinctNames(entries[w]) BY DEF TInv, DistinctInv
<1>2. TypeOK'
  <2>1. BL!TypeOK' BY DEF TInv, TypeOK, BL!TypeOK, Receive, BL!Commits
  <2> QED BY <1>1, <2>1, ReceiveType DEF TInv, TypeOK
<1>3. DistinctInv'
  <2>1. DistinctNames(PutEntry(entries[w], e))
    BY <1>1, PutEntryTable DEF TInv, TypeOK
  <2>2. manifests' = manifests /\ entries' = [entries EXCEPT ![w] = PutEntry(entries[w], e)]
    BY DEF Receive
  <2>3. entries \in [Workers -> Manifests] BY DEF TInv, TypeOK
  <2> QED BY <2>1, <2>2, <2>3 DEF TInv, DistinctInv
<1>4. JobInv' BY DEF Receive, TInv, JobInv
<1> QED BY <1>2, <1>3, <1>4 DEF TInv

\* The log keeps its type when it does not change.
LEMMA LogUnchanged == ASSUME BL!TypeOK, log' = log PROVE BL!TypeOK'
BY DEF BL!TypeOK

LEMMA TInvNext == TInv /\ [Next]_vars => TInv'
<1> SUFFICES ASSUME TInv, [Next]_vars PROVE TInv' OBVIOUS
<1> USE DEF TInv
<1>1. ASSUME NEW w \in Workers, NEW c \in Clients, HandleClient(w, c) PROVE TInv'
  <2>1. PICK r \in Requests :
          /\ req' = [req EXCEPT ![w] = r]
          /\ pc' = [pc EXCEPT ![w] = IF r.kind = "push" THEN "lock" ELSE r.kind]
    BY <1>1 DEF HandleClient
  <2>2. \A b \in Branches : Published(b) \subseteq Manifests
    BY PublishedType DEF Published
  <2>3. r \in Request
    BY <2>1, <2>2 DEF Requests, Request, Hashes
  <2>4. pc' \in [Workers -> PCs]
    BY <2>1, <2>3 DEF TypeOK, PCs, Request
  <2>5. BL!TypeOK' BY <1>1, LogUnchanged DEF HandleClient, TypeOK
  <2>6. TypeOK' BY <1>1, <2>1, <2>3, <2>4, <2>5 DEF HandleClient, TypeOK, PCs, disk
  <2>7. DistinctInv' BY <1>1 DEF HandleClient, DistinctInv, disk
  <2>8. JobInv'
    <3>1. \A v \in Workers \ {w} : pc'[v] = pc[v] /\ job'[v] = job[v]
      BY <1>1, <2>1 DEF HandleClient, TypeOK
    <3>2. job'[w] = c BY <1>1 DEF HandleClient, TypeOK
    <3> QED BY <3>1, <3>2 DEF JobInv
  <2> QED BY <2>6, <2>7, <2>8
<1>2. ASSUME NEW w \in Workers, Cut(w) PROVE TInv'
  <2>1. BL!TypeOK' BY <1>2, LogUnchanged DEF Cut, TypeOK
  <2>2. TypeOK' BY <1>2, <2>1 DEF Cut, TypeOK, disk, worker
  <2> QED BY <1>2, <2>2 DEF Cut, DistinctInv, JobInv, disk, worker
<1>3. ASSUME NEW w \in Workers, InvalidCommand(w) PROVE TInv'
  <2>1. BL!TypeOK' BY <1>3, LogUnchanged DEF InvalidCommand, TypeOK
  <2>2. <<>> \in Seq(Hashes) OBVIOUS
  <2>3. "invalid" \in Kinds BY DEF Kinds
  <2> QED BY <1>3, <2>1, <2>2, <2>3, AnswerType
          DEF InvalidCommand, TypeOK, DistinctInv, JobInv, disk, PCs
<1>4. ASSUME NEW w \in Workers, HandlePull(w) \/ HandleHistory(w) PROVE TInv'
  <2>1. PICK h \in ReadHead(w), kind \in Kinds, hashes \in Seq(Hashes) :
          stale' = [stale EXCEPT ![w].hash = h] /\ Answer(w, kind, hashes)
    <3>1. ReadHead(w) \subseteq Hashes BY ReadHeadType
    <3>2. Garbage \in Hashes BY DEF Hashes
    <3>3. \A h \in ReadHead(w) : <<h>> \in Seq(Hashes) /\ <<h, Garbage>> \in Seq(Hashes)
      BY <3>1, <3>2
    <3>4. <<>> \in Seq(Hashes) OBVIOUS
    <3>5. {"no_commits", "content", "missing", "history"} \subseteq Kinds BY DEF Kinds
    <3> QED BY <1>4, <3>3, <3>4, <3>5, Zenon DEF HandlePull, HandleHistory
  <2>2. stale' \in [Workers -> Stale]
    <3>1. h \in Hashes BY <2>1, ReadHeadType
    <3> QED BY <2>1, <3>1, StaleHash DEF TypeOK
  <2>3. UNCHANGED <<disk, lock, todo, entries, took, log>>
    BY <1>4 DEF HandlePull, HandleHistory
  <2>4. BL!TypeOK' BY <2>3, LogUnchanged DEF TypeOK
  <2> QED BY <2>1, <2>2, <2>3, <2>4, AnswerType DEF TypeOK, DistinctInv, JobInv, disk, PCs
<1>5. ASSUME NEW w \in Workers, Lock(w) PROVE TInv'
  <2>1. BL!TypeOK' BY <1>5, LogUnchanged DEF Lock, TypeOK
  <2> QED BY <1>5, <2>1 DEF Lock, TypeOK, DistinctInv, JobInv, disk, peer
<1>6. ASSUME NEW w \in Workers, Conflict(w) PROVE TInv'
  <2>1. BL!TypeOK' BY <1>6, LogUnchanged DEF Conflict, TypeOK
  <2>2. <<>> \in Seq(Hashes) OBVIOUS
  <2>3. "conflict" \in Kinds BY DEF Kinds
  <2>4. stale' \in [Workers -> Stale]
    <3>1. PICK h \in ReadHead(w) : stale' = [stale EXCEPT ![w].hash = h]
      BY <1>6 DEF Conflict
    <3>2. h \in Hashes BY <3>1, ReadHeadType
    <3> QED BY <3>1, <3>2, StaleHash DEF TypeOK
  <2>5. Answer(w, "conflict", <<>>) BY <1>6 DEF Conflict
  <2> QED BY <1>6, <2>1, <2>2, <2>3, <2>4, <2>5, AnswerType
          DEF Conflict, TypeOK, DistinctInv, JobInv, disk, PCs
<1>7. ASSUME NEW w \in Workers, LoadManifest(w) PROVE TInv'
  <2>1. PICK h \in ReadHead(w) :
          /\ stale' = [stale EXCEPT ![w].hash = h]
          /\ \/ h \in manifests /\ entries' = [entries EXCEPT ![w] = h]
             \/ entries' = [entries EXCEPT ![w] = <<>>]
    BY <1>7 DEF LoadManifest
  <2>2. stale' \in [Workers -> Stale]
    <3>1. h \in Hashes BY <2>1, ReadHeadType
    <3> QED BY <2>1, <3>1, StaleHash DEF TypeOK
  <2>3. PICK m \in Manifests : entries' = [entries EXCEPT ![w] = m] /\ DistinctNames(m)
    BY <2>1, EmptyManifest DEF TypeOK, DistinctInv, JobInv
  <2>4. BL!TypeOK' BY <1>7, LogUnchanged DEF LoadManifest, TypeOK
  <2>5. req[w].files \in Seq(Entry)
    <3>1. req[w].files \in FileLists \cup {<<>>} BY DEF TypeOK, Request
    <3>2. <<>> \in Seq(Entry) OBVIOUS
    <3> QED BY <3>1, <3>2, ConstantsAssumption
  <2>6. TypeOK' BY <1>7, <2>2, <2>3, <2>4, <2>5 DEF LoadManifest, TypeOK, disk, peer
  <2> QED BY <1>7, <2>3, <2>6 DEF LoadManifest, TypeOK, DistinctInv, JobInv, disk
<1>8. ASSUME NEW w \in Workers, RecvFile(w) PROVE TInv'
  <2>1. Head(todo[w]) \in Entry BY <1>8, HeadOfTodo DEF RecvFile
  <2>2. blobs' \subseteq Blobs BY <1>8, <2>1 DEF RecvFile, TypeOK, Entry
  <2> QED BY <1>8, <2>1, <2>2, ReceiveStep DEF RecvFile, TypeOK
<1>9. ASSUME NEW w \in Workers, RecvCut(w) PROVE TInv'
  <2>1. PICK name \in {Head(todo[w]).name, stale[w].name, JunkName} :
          Receive(w, [name |-> name, blob |-> Partial])
    BY <1>9 DEF RecvCut
  <2>2. [name |-> name, blob |-> Partial] \in Entry
    BY <1>9, <2>1, ReceivedIsEntry DEF RecvCut
  <2>3. blobs' \subseteq Blobs BY <1>9, ConstantsAssumption DEF RecvCut, TypeOK
  <2>4. conn' \in [Clients -> {"new", "open", "cut", "done"}] BY <1>9 DEF RecvCut, TypeOK
  <2> QED BY <1>9, <2>1, <2>2, <2>3, <2>4, ReceiveStep DEF RecvCut
<1>10. ASSUME NEW w \in Workers, RecvAfterCut(w) PROVE TInv'
  <2>1. PICK name \in {stale[w].name, JunkName} :
          Receive(w, [name |-> name, blob |-> Partial])
    BY <1>10 DEF RecvAfterCut
  <2>2. [name |-> name, blob |-> Partial] \in Entry
    BY <1>10, <2>1, ReceivedIsEntry DEF RecvAfterCut
  <2>3. blobs' \subseteq Blobs BY <1>10, ConstantsAssumption DEF RecvAfterCut, TypeOK
  <2> QED BY <1>10, <2>1, <2>2, <2>3, ReceiveStep DEF RecvAfterCut, TypeOK
<1>11. ASSUME NEW w \in Workers, RecvNoFile(w) PROVE TInv'
  <2>1. PICK blob \in {stale[w].blob, BadBlob} :
          Receive(w, [name |-> Head(todo[w]).name, blob |-> blob])
    BY <1>11 DEF RecvNoFile
  <2>2. [name |-> Head(todo[w]).name, blob |-> blob] \in Entry
    BY <1>11, <2>1, ReceivedIsEntry DEF RecvNoFile
  <2>3. blobs' \subseteq Blobs BY <1>11, ConstantsAssumption DEF RecvNoFile, TypeOK, Stale
  <2> QED BY <1>11, <2>1, <2>2, <2>3, ReceiveStep DEF RecvNoFile, TypeOK
<1>12. ASSUME NEW w \in Workers, WriteManifest(w) PROVE TInv'
  <2>1. BL!TypeOK' BY <1>12, LogUnchanged DEF WriteManifest, TypeOK
  <2> QED BY <1>12, <2>1 DEF WriteManifest, TypeOK, DistinctInv, JobInv, peer
<1>13. ASSUME NEW w \in Workers, NoManifest(w) PROVE TInv'
  <2>1. BL!TypeOK' BY <1>13, LogUnchanged DEF NoManifest, TypeOK
  <2>2. <<NoHash>> \in Seq(Hashes) BY DEF Hashes
  <2>3. "success" \in Kinds BY DEF Kinds
  <2>4. head' \in [Branches -> Manifests \cup {Absent, Empty}]
    BY <1>13 DEF NoManifest, TypeOK
  <2>5. Answer(w, "success", <<NoHash>>) BY <1>13 DEF NoManifest
  <2>6. entries' \in [Workers -> Manifests] /\ took' \in [Workers -> SUBSET Entry]
    BY <1>13, EmptyManifest DEF NoManifest, TypeOK
  <2>7. TypeOK' BY <1>13, <2>1, <2>2, <2>3, <2>4, <2>5, <2>6, AnswerType
                DEF NoManifest, TypeOK, PCs
  <2>8. DistinctInv' BY <1>13, EmptyManifest DEF NoManifest, TypeOK, DistinctInv
  <2> QED BY <2>2, <2>3, <2>5, <2>7, <2>8, AnswerType
<1>14. ASSUME NEW w \in Workers, TruncateHead(w) PROVE TInv'
  <2>1. BL!TypeOK' BY <1>14, LogUnchanged DEF TruncateHead, TypeOK
  <2> QED BY <1>14, <2>1 DEF TruncateHead, TypeOK, DistinctInv, JobInv, peer
<1>15. ASSUME NEW w \in Workers, WriteHead(w) PROVE TInv'
  <2>1. req[w].branch \in Branches /\ req[w].parent \in Hashes BY DEF TypeOK, Request
  <2>2. Commit(w) \in BL!Commits
    <3>1. job[w] \in Clients BY <1>15 DEF WriteHead, JobInv
    <3>2. took[w] \in SUBSET Entry /\ entries[w] \in Manifests BY DEF TypeOK
    <3> QED BY <2>1, <3>1, <3>2, SameTables DEF Commit
  <2>3. BL!TypeOK'
    BY <1>15, <2>1, <2>2 DEF WriteHead, TypeOK, BL!TypeOK
  <2>4. head' \in [Branches -> Manifests \cup {Absent, Empty}]
    BY <1>15, <2>1 DEF WriteHead, TypeOK
  <2>5. TypeOK' BY <1>15, <2>3, <2>4 DEF WriteHead, TypeOK, peer
  <2> QED BY <1>15, <2>5 DEF WriteHead, TypeOK, DistinctInv, JobInv, peer
<1>16. ASSUME NEW w \in Workers, Success(w) PROVE TInv'
  <2>1. BL!TypeOK' BY <1>16, LogUnchanged DEF Success, TypeOK
  <2>2. <<entries[w]>> \in Seq(Hashes) BY DEF Hashes, TypeOK
  <2>3. "success" \in Kinds BY DEF Kinds
  <2>4. Answer(w, "success", <<entries[w]>>) BY <1>16 DEF Success
  <2>5. entries' \in [Workers -> Manifests] /\ took' \in [Workers -> SUBSET Entry]
    BY <1>16, EmptyManifest DEF Success, TypeOK
  <2>6. TypeOK' BY <1>16, <2>1, <2>2, <2>3, <2>4, <2>5, AnswerType
                DEF Success, TypeOK, disk, PCs
  <2>7. DistinctInv' BY <1>16, EmptyManifest DEF Success, TypeOK, DistinctInv, disk
  <2> QED BY <2>2, <2>3, <2>4, <2>6, <2>7, AnswerType
<1>17. ASSUME Restart PROVE TInv'
  <2>1. BL!TypeOK' BY <1>17, LogUnchanged DEF Restart, TypeOK
  <2>2. reply' \in [Clients -> Reply] BY <1>17, InitialValues DEF Restart, TypeOK
  <2>3. TypeOK' BY <1>17, <2>1, <2>2, InitialValues, EmptyManifest DEF Restart, TypeOK, disk
  <2> QED BY <1>17, <2>3, EmptyManifest DEF Restart, DistinctInv, JobInv, disk
<1>18. ASSUME UNCHANGED vars PROVE TInv'
  <2>1. BL!TypeOK' BY <1>18, LogUnchanged DEF vars, TypeOK
  <2> QED BY <1>18, <2>1 DEF vars, disk, worker, peer, TypeOK, DistinctInv, JobInv
<1>19. ASSUME NEW w \in Workers, HistoryLoops(w) PROVE TInv'
  <2>1. BL!TypeOK' BY <1>19, LogUnchanged DEF HistoryLoops, TypeOK
  <2>2. stale' \in [Workers -> Stale]
    <3>1. <<>> \in Hashes BY EmptyManifest DEF Hashes
    <3> QED BY <1>19, <3>1, StaleHash DEF HistoryLoops, TypeOK
  <2>3. TypeOK' BY <1>19, <2>1, <2>2 DEF HistoryLoops, TypeOK, disk, peer
  <2> QED BY <1>19, <2>3 DEF HistoryLoops, DistinctInv, JobInv, TypeOK, disk
<1>20. ASSUME NEW w \in Workers, LoopMisses(w) PROVE TInv'
  <2>1. BL!TypeOK' BY <1>20, LogUnchanged DEF LoopMisses, TypeOK
  <2>2. <<<<>>, <<>>>> \in Seq(Hashes) BY EmptyManifest DEF Hashes
  <2>3. "history" \in Kinds BY DEF Kinds
  <2> QED BY <1>20, <2>1, <2>2, <2>3, AnswerType
          DEF LoopMisses, TypeOK, DistinctInv, JobInv, disk, PCs
<1> QED
  BY <1>1, <1>2, <1>3, <1>4, <1>5, <1>6, <1>7, <1>8, <1>9, <1>10, <1>11, <1>12,
     <1>13, <1>14, <1>15, <1>16, <1>17, <1>18, <1>19, <1>20
  DEF Next, Work, Crash, HeadNotOpened, ResponseOverrun, Rest

\* Every variable keeps its type, whatever faults the environment does.
THEOREM TypeCorrect == Spec => []TypeOK
<1>1. Init => TInv BY TInvInit
<1>2. TInv /\ [Next]_vars => TInv' BY TInvNext
<1>3. TInv => TypeOK BY DEF TInv
<1> QED BY <1>1, <1>2, <1>3, PTL DEF Spec

-----------------------------------------------------------------------------
(* Nothing dangles.                                                        *)

Stored(m, s) == \A i \in DOMAIN m : m[i].blob \in s

\* Objects are stored before they are named: file objects before the table
\* that lists them, that table before the head, and what a PULL answered.
ClosedInv ==
  /\ \A m \in manifests : Stored(m, blobs)
  /\ \A w \in Workers : Stored(entries[w], blobs)
  /\ \A w \in Workers : pc[w] \in {"truncate", "write"} => entries[w] \in manifests
  /\ \A b \in Branches : head[b] \notin {Absent, Empty} => head[b] \in manifests
  /\ \A c \in Clients : reply[c].kind = "content" => reply[c].hashes[1] \in manifests

LEMMA ClosedInvImplies == ClosedInv => NothingDangles
BY DEF ClosedInv, NothingDangles, Complete, Stored

\* Object stores only grow, and an answer names a stored manifest: enough for
\* the steps that write neither a table nor a head.
LEMMA ClosedByAnswer ==
  ASSUME TypeOK, NEW w \in Workers, NEW kind, NEW hashes, Answer(w, kind, hashes),
         kind = "content" => hashes[1] \in manifests,
         \A c \in Clients : reply[c].kind = "content" => reply[c].hashes[1] \in manifests
  PROVE  /\ \A c \in Clients : reply'[c].kind = "content" => reply'[c].hashes[1] \in manifests
         /\ \A v \in Workers : pc'[v] \in {"truncate", "write"} =>
                                 v # w /\ pc'[v] = pc[v]
<1> DEFINE lost == [NoReply EXCEPT !.kind = "lost"]
           answer == [kind |-> kind, branch |-> req[w].branch, hashes |-> hashes]
<1>1. lost.kind = "lost" BY DEF NoReply
<1>2. answer.kind = kind /\ answer.hashes = hashes OBVIOUS
<1>3. reply' = [reply EXCEPT ![job[w]] = IF conn[job[w]] = "cut" THEN lost ELSE answer]
  BY DEF Answer
<1> HIDE DEF lost, answer
<1>4. ASSUME NEW c \in Clients, reply'[c].kind = "content"
      PROVE  reply'[c].hashes[1] \in manifests
  <2>1. reply'[c] \in {reply[c], lost, answer} BY <1>3 DEF TypeOK
  <2> QED BY <1>1, <1>2, <1>4, <2>1
<1>5. \A v \in Workers : pc'[v] \in {"truncate", "write"} => v # w /\ pc'[v] = pc[v]
  BY DEF Answer, TypeOK
<1> QED BY <1>4, <1>5

LEMMA ClosedByReceive ==
  ASSUME TInv, ClosedInv, NEW w \in Workers, Receiving(w), NEW e \in Entry,
         Receive(w, e), blobs' = blobs \cup {e.blob}
  PROVE  ClosedInv'
<1> USE DEF TInv
<1>1. \A m : Stored(m, blobs) => Stored(m, blobs') BY DEF Stored
<1>2. Stored(entries'[w], blobs')
  <2>1. entries[w] \in Manifests /\ entries'[w] = PutEntry(entries[w], e)
    BY DEF Receive, TypeOK
  <2>2. Stored(entries[w], blobs) BY DEF ClosedInv
  <2> QED BY <2>1, <2>2, PutEntryLines DEF Stored
<1>3. \A v \in Workers \ {w} : entries'[v] = entries[v] BY DEF Receive, TypeOK
<1>4. pc[w] = "recv" BY DEF Receiving
<1>5. UNCHANGED <<head, manifests, pc, reply>> BY DEF Receive
<1>6. \A v \in Workers : Stored(entries'[v], blobs') BY <1>1, <1>2, <1>3 DEF ClosedInv
<1>7. \A v \in Workers : pc'[v] \in {"truncate", "write"} => entries'[v] \in manifests'
  BY <1>3, <1>4, <1>5 DEF ClosedInv
<1> QED BY <1>1, <1>5, <1>6, <1>7 DEF ClosedInv

LEMMA EmptyStored == Stored(<<>>, blobs)
<1> DEFINE m == <<>>
<1>1. m \in Seq(Entry) /\ Len(m) = 0 OBVIOUS
<1> HIDE DEF m
<1>2. Stored(m, blobs) BY <1>1 DEF Stored
<1> QED BY <1>2 DEF m

LEMMA ClosedInvInit == Init => ClosedInv
<1> SUFFICES ASSUME Init PROVE ClosedInv OBVIOUS
<1>1. \A w \in Workers : Stored(entries[w], blobs) BY EmptyStored DEF Init
<1>2. NoReply.kind # "content" BY DEF NoReply
<1> QED BY <1>1, <1>2 DEF Init, ClosedInv

LEMMA ClosedInvNext ==
  ASSUME "emfile" \notin Faults
  PROVE  TInv /\ ClosedInv /\ [Next]_vars => ClosedInv'
<1> SUFFICES ASSUME TInv, ClosedInv, [Next]_vars PROVE ClosedInv' OBVIOUS
<1> USE DEF TInv
<1>1. ASSUME NEW w \in Workers, NEW c \in Clients, HandleClient(w, c) PROVE ClosedInv'
  <2>1. \A v \in Workers : pc'[v] \in {"truncate", "write"} => pc'[v] = pc[v]
    <3>1. PICK r \in Requests :
            pc' = [pc EXCEPT ![w] = IF r.kind = "push" THEN "lock" ELSE r.kind]
      BY <1>1 DEF HandleClient
    <3>2. r.kind \in {"push", "pull", "history", "other"} BY DEF Requests
    <3> QED BY <3>1, <3>2 DEF TypeOK
  <2> QED BY <1>1, <2>1 DEF HandleClient, ClosedInv, Stored, disk
<1>2. ASSUME NEW w \in Workers, Cut(w) PROVE ClosedInv'
  BY <1>2 DEF Cut, ClosedInv, Stored, disk, worker
<1>3. ASSUME NEW w \in Workers, InvalidCommand(w) PROVE ClosedInv'
  <2>1. Answer(w, "invalid", <<>>) BY <1>3 DEF InvalidCommand
  <2> QED BY <1>3, <2>1, ClosedByAnswer DEF InvalidCommand, ClosedInv, Stored, disk
<1>17. ASSUME NEW w \in Workers, HistoryLoops(w) PROVE ClosedInv'
  BY <1>17 DEF HistoryLoops, ClosedInv, Stored, disk, peer, TypeOK
<1>4. ASSUME NEW w \in Workers, HandlePull(w) \/ HandleHistory(w) PROVE ClosedInv'
  <2>1. PICK kind, hashes :
          Answer(w, kind, hashes) /\ (kind = "content" => hashes[1] \in manifests)
    <3>1. PICK h :
            \/ Answer(w, "no_commits", <<>>)
            \/ h \in manifests /\ Answer(w, "content", <<h>>)
            \/ Answer(w, "missing", <<>>)
            \/ Answer(w, "history", <<h, Garbage>>)
            \/ Answer(w, "history", <<h>>)
      BY <1>4 DEF HandlePull, HandleHistory
    <3>2. CASE Answer(w, "no_commits", <<>>) BY <3>2
    <3>3. CASE h \in manifests /\ Answer(w, "content", <<h>>)
      <4>1. <<h>>[1] = h OBVIOUS
      <4> QED BY <3>3, <4>1
    <3>4. CASE Answer(w, "missing", <<>>) BY <3>4
    <3>5. CASE Answer(w, "history", <<h, Garbage>>) BY <3>5
    <3>6. CASE Answer(w, "history", <<h>>) BY <3>6
    <3> QED BY <3>1, <3>2, <3>3, <3>4, <3>5, <3>6
  <2>2. UNCHANGED <<disk, entries>> BY <1>4 DEF HandlePull, HandleHistory
  <2> QED BY <2>1, <2>2, ClosedByAnswer DEF ClosedInv, Stored, disk
<1>5. ASSUME NEW w \in Workers, Lock(w) PROVE ClosedInv'
  BY <1>5 DEF Lock, ClosedInv, Stored, disk, peer, TypeOK
<1>6. ASSUME NEW w \in Workers, Conflict(w) PROVE ClosedInv'
  <2>1. Answer(w, "conflict", <<>>) BY <1>6 DEF Conflict
  <2> QED BY <1>6, <2>1, ClosedByAnswer DEF Conflict, ClosedInv, Stored, disk
<1>7. ASSUME NEW w \in Workers, LoadManifest(w) PROVE ClosedInv'
  <2>1. PICK m : entries' = [entries EXCEPT ![w] = m] /\ (m \in manifests \/ m = <<>>)
    BY <1>7 DEF LoadManifest
  <2>2. Stored(m, blobs) BY <2>1, EmptyStored DEF ClosedInv
  <2>3. UNCHANGED <<disk, reply>> /\ pc' = [pc EXCEPT ![w] = "recv"]
    BY <1>7 DEF LoadManifest, peer
  <2> QED BY <2>1, <2>2, <2>3 DEF ClosedInv, Stored, disk, TypeOK
<1>8. ASSUME NEW w \in Workers, RecvFile(w) PROVE ClosedInv'
  BY <1>8, HeadOfTodo, ClosedByReceive DEF RecvFile
<1>9. ASSUME NEW w \in Workers, RecvCut(w) \/ RecvAfterCut(w) PROVE ClosedInv'
  <2>1. PICK name \in {Head(todo[w]).name, stale[w].name, JunkName} :
          Receive(w, [name |-> name, blob |-> Partial])
    BY <1>9 DEF RecvCut, RecvAfterCut
  <2>2. Receiving(w) /\ blobs' = blobs \cup {Partial} BY <1>9 DEF RecvCut, RecvAfterCut
  <2>3. [name |-> name, blob |-> Partial] \in Entry
    BY <2>1, <2>2, ReceivedIsEntry
  <2> QED BY <2>1, <2>2, <2>3, ClosedByReceive
<1>10. ASSUME NEW w \in Workers,
              RecvNoFile(w) \/ NoManifest(w) \/ HeadNotOpened(w) \/ LoopMisses(w)
       PROVE  ClosedInv'
  BY <1>10 DEF RecvNoFile, NoManifest, HeadNotOpened, LoopMisses
<1>11. ASSUME NEW w \in Workers, WriteManifest(w) PROVE ClosedInv'
  BY <1>11 DEF WriteManifest, ClosedInv, Stored, peer, TypeOK
<1>12. ASSUME NEW w \in Workers, TruncateHead(w) PROVE ClosedInv'
  BY <1>12 DEF TruncateHead, ClosedInv, Stored, peer, TypeOK
<1>13. ASSUME NEW w \in Workers, WriteHead(w) PROVE ClosedInv'
  <2>1. entries[w] \in manifests BY <1>13 DEF WriteHead, ClosedInv
  <2>2. \A b \in Branches : head'[b] = head[b] \/ head'[b] = entries[w]
    BY <1>13 DEF WriteHead, TypeOK
  <2>3. \A v \in Workers : pc'[v] \in {"truncate", "write"} => pc'[v] = pc[v]
    BY <1>13 DEF WriteHead, TypeOK
  <2>4. UNCHANGED <<manifests, blobs, entries, reply>> BY <1>13 DEF WriteHead, peer
  <2> QED BY <2>1, <2>2, <2>3, <2>4 DEF ClosedInv, Stored
<1>14. ASSUME NEW w \in Workers, Success(w) PROVE ClosedInv'
  <2>1. Answer(w, "success", <<entries[w]>>) BY <1>14 DEF Success
  <2>2. \A v \in Workers : entries'[v] = entries[v] \/ (v = w /\ entries'[v] = <<>>)
    BY <1>14 DEF Success, TypeOK
  <2>3. UNCHANGED disk BY <1>14 DEF Success
  <2> QED BY <2>1, <2>2, <2>3, ClosedByAnswer, EmptyStored DEF ClosedInv, Stored, disk
<1>15. ASSUME Restart PROVE ClosedInv'
  <2>1. \A v \in Workers : entries'[v] = <<>> /\ pc'[v] = "idle" BY <1>15 DEF Restart
  <2>2. [NoReply EXCEPT !.kind = "lost"].kind = "lost" BY DEF NoReply
  <2>3. \A c \in Clients : reply'[c].kind = "content" => reply'[c] = reply[c]
    BY <1>15, <2>2 DEF Restart
  <2>4. UNCHANGED disk BY <1>15 DEF Restart
  <2> QED BY <2>1, <2>3, <2>4, EmptyStored DEF ClosedInv, Stored, disk
<1>16. ASSUME UNCHANGED vars PROVE ClosedInv'
  BY <1>16 DEF vars, disk, worker, peer, ClosedInv, Stored
<1> QED
  BY <1>1, <1>2, <1>3, <1>4, <1>5, <1>6, <1>7, <1>8, <1>9, <1>10, <1>11, <1>12,
     <1>13, <1>14, <1>15, <1>16, <1>17
  DEF Next, Work, Crash, ResponseOverrun, Rest

\* With crashes and broken connections at any moment, as long as files can be
\* opened: whatever a head or a PULL's answer names is stored.
THEOREM HeadsComplete ==
  ASSUME "emfile" \notin Faults
  PROVE  Spec => []NothingDangles
<1>1. Init => TInv /\ ClosedInv BY TInvInit, ClosedInvInit
<1>2. TInv /\ ClosedInv /\ [Next]_vars => TInv' /\ ClosedInv'
  BY TInvNext, ClosedInvNext
<1>3. ClosedInv => NothingDangles BY ClosedInvImplies
<1> QED BY <1>1, <1>2, <1>3, PTL DEF Spec

-----------------------------------------------------------------------------
(* Without pushes of no files there is no empty manifest, and HISTORY ends. *)

NoEmptyInv ==
  /\ <<>> \notin manifests
  /\ \A w \in Workers :
       /\ pc[w] \in {"lock", "check"} => req[w].files # <<>>
       /\ pc[w] = "recv" => todo[w] # <<>> \/ entries[w] # <<>>
       /\ pc[w] # "loop"

LEMMA PutEntryNotEmpty ==
  ASSUME NEW m \in Manifests, NEW e \in Entry
  PROVE  PutEntry(m, e) # <<>>
<1>1. m \in Seq(Entry) /\ Len(m) \in Nat BY ManifestsAreSequences
<1>2. CASE Matches(m, e.name) # {}
  <2>1. PICK i \in DOMAIN m : TRUE BY <1>2 DEF Matches
  <2>2. m # <<>> BY <1>1, <2>1
  <2>3. PutEntry(m, e) = [m EXCEPT ![FirstMatch(m, e.name)] = e] BY <1>2 DEF PutEntry
  <2>4. DOMAIN PutEntry(m, e) = DOMAIN m BY <2>3
  <2>5. i \in DOMAIN PutEntry(m, e) BY <2>4
  <2>6. DOMAIN <<>> = {} OBVIOUS
  <2> QED BY <2>5, <2>6
<1>3. CASE Matches(m, e.name) = {} /\ Len(m) < MaxManifestEntries
  <2>1. PutEntry(m, e) = Append(m, e) BY <1>3 DEF PutEntry
  <2> QED BY <1>1, <2>1
<1>4. CASE Matches(m, e.name) = {} /\ ~(Len(m) < MaxManifestEntries)
  <2>1. PutEntry(m, e) = m BY <1>4 DEF PutEntry
  <2>2. Len(m) # 0 BY <1>1, <1>4, MaxManifestEntriesAssumption
  <2> QED BY <1>1, <2>1, <2>2
<1> QED BY <1>2, <1>3, <1>4

\* A worker whose pc and table are its own business, while the manifests stay.
LEMMA NoEmptyKept ==
  ASSUME NoEmptyInv, manifests' = manifests, NEW w \in Workers,
         \A v \in Workers \ {w} : /\ pc'[v] = pc[v] /\ req'[v] = req[v]
                                  /\ todo'[v] = todo[v] /\ entries'[v] = entries[v],
         pc'[w] \in {"lock", "check"} => req'[w].files # <<>>,
         pc'[w] = "recv" => todo'[w] # <<>> \/ entries'[w] # <<>>,
         pc'[w] # "loop"
  PROVE  NoEmptyInv'
BY DEF NoEmptyInv

LEMMA NoEmptyInvNext ==
  ASSUME <<>> \notin FileLists
  PROVE  TInv /\ NoEmptyInv /\ [Next]_vars => NoEmptyInv'
<1> SUFFICES ASSUME TInv, NoEmptyInv, [Next]_vars PROVE NoEmptyInv' OBVIOUS
<1> USE DEF TInv
<1>1. ASSUME NEW w \in Workers, NEW c \in Clients, HandleClient(w, c) PROVE NoEmptyInv'
  <2>1. PICK r \in Requests :
          /\ req' = [req EXCEPT ![w] = r]
          /\ pc' = [pc EXCEPT ![w] = IF r.kind = "push" THEN "lock" ELSE r.kind]
    BY <1>1 DEF HandleClient
  <2>2. /\ r.kind \in {"push", "pull", "history", "other"}
        /\ r.kind = "push" => r.files \in FileLists
    BY DEF Requests
  <2>3. r.kind = "push" => r.files # <<>> BY <2>2
  <2>4. pc'[w] = IF r.kind = "push" THEN "lock" ELSE r.kind
    BY <2>1 DEF TypeOK
  <2>5. req'[w] = r BY <2>1 DEF TypeOK
  <2>6. pc'[w] \in {"lock", "check"} => req'[w].files # <<>> BY <2>2, <2>3, <2>4, <2>5
  <2>7. pc'[w] \notin {"recv", "loop"} BY <2>2, <2>4
  <2> QED BY <1>1, <2>1, <2>6, <2>7, NoEmptyKept DEF HandleClient, TypeOK, disk
<1>2. ASSUME NEW w \in Workers, Cut(w) PROVE NoEmptyInv'
  BY <1>2 DEF Cut, NoEmptyInv, disk, worker
<1>3. ASSUME NEW w \in Workers, NEW kind, NEW hashes, Answer(w, kind, hashes),
             manifests' = manifests, todo' = todo,
             \A v \in Workers \ {w} : entries'[v] = entries[v]
      PROVE  NoEmptyInv'
  <2>1. /\ pc'[w] = "idle"
        /\ \A v \in Workers \ {w} : pc'[v] = pc[v] /\ req'[v] = req[v]
    BY <1>3 DEF Answer, TypeOK
  <2> QED BY <1>3, <2>1, NoEmptyKept
<1>4. ASSUME NEW w \in Workers,
             InvalidCommand(w) \/ HandlePull(w) \/ HandleHistory(w) \/ LoopMisses(w)
             \/ Conflict(w) \/ NoManifest(w) \/ Success(w)
      PROVE  NoEmptyInv'
  <2>1. PICK kind, hashes : Answer(w, kind, hashes)
    BY <1>4 DEF InvalidCommand, HandlePull, HandleHistory, LoopMisses, Conflict, NoManifest,
                Success
  <2>2. /\ manifests' = manifests /\ todo' = todo
        /\ \A v \in Workers \ {w} : entries'[v] = entries[v]
    BY <1>4 DEF InvalidCommand, HandlePull, HandleHistory, LoopMisses, Conflict, NoManifest,
                Success, TypeOK, disk
  <2> QED BY <1>3, <2>1, <2>2
<1>5. ASSUME NEW w \in Workers, HistoryLoops(w) PROVE NoEmptyInv'
  BY <1>5 DEF HistoryLoops, NoEmptyInv
<1>6. ASSUME NEW w \in Workers, Lock(w) PROVE NoEmptyInv'
  <2>1. pc'[w] = "check" /\ req'[w].files # <<>> BY <1>6 DEF Lock, NoEmptyInv, TypeOK
  <2> QED BY <1>6, <2>1, NoEmptyKept DEF Lock, TypeOK, disk
<1>7. ASSUME NEW w \in Workers, LoadManifest(w) PROVE NoEmptyInv'
  <2>1. /\ pc'[w] = "recv" /\ todo'[w] = req[w].files /\ UNCHANGED <<manifests, req>>
        /\ \A v \in Workers \ {w} : /\ pc'[v] = pc[v] /\ todo'[v] = todo[v]
                                     /\ entries'[v] = entries[v]
    BY <1>7 DEF LoadManifest, TypeOK, disk
  <2>2. req[w].files # <<>> BY <1>7 DEF LoadManifest, NoEmptyInv
  <2> QED BY <2>1, <2>2, NoEmptyKept
<1>8. ASSUME NEW w \in Workers, NEW e \in Entry, Receiving(w), Receive(w, e)
      PROVE  NoEmptyInv'
  <2>1. entries'[w] = PutEntry(entries[w], e) /\ pc'[w] = "recv"
    BY <1>8 DEF Receive, Receiving, TypeOK
  <2>2. entries'[w] # <<>> BY <2>1, PutEntryNotEmpty DEF TypeOK
  <2> QED BY <1>8, <2>1, <2>2, NoEmptyKept DEF Receive, TypeOK
<1>9. ASSUME NEW w \in Workers, RecvFile(w) PROVE NoEmptyInv'
  BY <1>8, <1>9, HeadOfTodo DEF RecvFile
<1>10. ASSUME NEW w \in Workers, RecvCut(w) \/ RecvAfterCut(w) \/ RecvNoFile(w)
       PROVE  NoEmptyInv'
  <2>1. PICK name \in {Head(todo[w]).name, stale[w].name, JunkName},
             blob \in {Partial, BadBlob, stale[w].blob} :
          Receive(w, [name |-> name, blob |-> blob])
    BY <1>10 DEF RecvCut, RecvAfterCut, RecvNoFile
  <2>2. Receiving(w) BY <1>10 DEF RecvCut, RecvAfterCut, RecvNoFile
  <2>3. [name |-> name, blob |-> blob] \in Entry BY <2>1, <2>2, ReceivedIsEntry
  <2> QED BY <1>8, <2>1, <2>2, <2>3
<1>11. ASSUME NEW w \in Workers, WriteManifest(w) PROVE NoEmptyInv'
  <2>1. /\ manifests' = manifests \cup {entries[w]} /\ pc' = [pc EXCEPT ![w] = "truncate"]
        /\ UNCHANGED <<req, todo, entries>>
    BY <1>11 DEF WriteManifest
  <2>2. entries[w] # <<>> BY <1>11 DEF WriteManifest, NoEmptyInv
  <2> QED BY <2>1, <2>2 DEF NoEmptyInv, TypeOK
<1>12. ASSUME NEW w \in Workers, TruncateHead(w) \/ WriteHead(w) PROVE NoEmptyInv'
  BY <1>12 DEF TruncateHead, WriteHead, NoEmptyInv, TypeOK
<1>13. ASSUME Restart PROVE NoEmptyInv' BY <1>13 DEF Restart, NoEmptyInv, disk
<1>14. ASSUME UNCHANGED vars PROVE NoEmptyInv'
  BY <1>14 DEF vars, disk, worker, NoEmptyInv
<1> QED
  BY <1>1, <1>2, <1>4, <1>5, <1>6, <1>7, <1>9, <1>10, <1>11, <1>12, <1>13, <1>14
  DEF Next, Work, Crash, HeadNotOpened, ResponseOverrun, Rest

\* The only manifests on which handle_history loops for ever, and writes behind
\* its response until the process ends, come from pushes of no files: without
\* them no worker ever turns in that loop, whatever is cut, crashes or fails to open.
THEOREM OnlyEmptyPushesLoop ==
  ASSUME <<>> \notin FileLists
  PROVE  Spec => [](\A w \in Workers : pc[w] # "loop")
<1>1. Init => TInv /\ NoEmptyInv BY TInvInit DEF Init, NoEmptyInv
<1>2. TInv /\ NoEmptyInv /\ [Next]_vars => TInv' /\ NoEmptyInv'
  BY TInvNext, NoEmptyInvNext
<1>3. NoEmptyInv => \A w \in Workers : pc[w] # "loop" BY DEF NoEmptyInv
<1> QED BY <1>1, <1>2, <1>3, PTL DEF Spec

-----------------------------------------------------------------------------
(* The server implements BranchLog.                                        *)

Critical == {"check", "recv", "truncate", "write"}

\* branch_lock is held by the worker that is between lock and unlock.
LockInv == \A w \in Workers : pc[w] \in Critical <=> lock = w

\* What the head file of b holds when no push is between its two writes.
HeadIsTip(b) == head[b] = IF log[b] = <<>> THEN Absent ELSE BL!Tip(b)

HeadInv ==
  \A b \in Branches :
    \/ HeadIsTip(b)
    \/ head[b] = Empty /\ \E w \in Workers : pc[w] = "write" /\ req[w].branch = b

\* A push past the check has the tip of its branch as its parent, and its
\* table is the tip updated with what it has received so far.
PushInv ==
  \A w \in Workers : pc[w] \in {"recv", "truncate", "write"} =>
    BL!FastForward(req[w].branch, Commit(w))

PushLockInv == LockInv /\ HeadInv /\ PushInv

\* The server did not end between the two writes of a head file.
HeadsWritten == lock = NoWorker => \A b \in Branches : head[b] # Empty

LEMMA TipType == ASSUME TypeOK, NEW b \in Branches PROVE BL!Tip(b) \in Manifests
<1>1. log[b] \in Seq(BL!Commits) BY DEF TypeOK, BL!TypeOK
<1>2. CASE log[b] = <<>> BY <1>2, EmptyManifest DEF BL!Tip
<1>3. CASE log[b] # <<>>
  <2>1. Len(log[b]) \in DOMAIN log[b] BY <1>1, <1>3
  <2> QED BY <1>3, <2>1, PublishedType DEF BL!Tip
<1> QED BY <1>2, <1>3

\* The rule for the commit that w is making, in its own terms.
LEMMA CommitRule ==
  ASSUME NEW w \in Workers, NEW b
  PROVE  BL!FastForward(b, Commit(w)) <=>
           /\ log[b] # <<>> => req[w].parent = BL!Tip(b)
           /\ Extends(BL!Tip(b), entries[w], took[w])
BY SameTables DEF BL!FastForward, Commit

\* A step of a worker that does not hold branch_lock leaves all as it was.
LEMMA Bystander ==
  ASSUME PushLockInv, NEW w \in Workers, pc[w] \notin Critical, pc'[w] \notin Critical,
         UNCHANGED <<head, log, lock>>,
         \A v \in Workers \ {w} : /\ pc'[v] = pc[v] /\ req'[v] = req[v]
                                  /\ job'[v] = job[v] /\ entries'[v] = entries[v]
                                  /\ took'[v] = took[v]
  PROVE  PushLockInv'
<1>1. LockInv' BY DEF PushLockInv, LockInv
<1>2. HeadInv'
  BY DEF PushLockInv, HeadInv, HeadIsTip, BL!Tip, Critical
<1>3. ASSUME NEW v \in Workers, pc'[v] \in {"recv", "truncate", "write"}
      PROVE  BL!FastForward(req[v].branch, Commit(v))'
  <2>1. v # w BY <1>3 DEF Critical
  <2>2. BL!FastForward(req[v].branch, Commit(v)) BY <1>3, <2>1 DEF PushLockInv, PushInv
  <2> QED BY <2>1, <2>2 DEF BL!FastForward, BL!Tip, Commit
<1> QED BY <1>1, <1>2, <1>3 DEF PushLockInv, PushInv

\* A step of the holder of branch_lock concerns nobody else's push.
LEMMA OnlyHolderPushes ==
  ASSUME LockInv, NEW w \in Workers, pc[w] \in Critical
  PROVE  lock = w /\ \A v \in Workers \ {w} : pc[v] \notin Critical
BY DEF LockInv

LEMMA AnswerFrame ==
  ASSUME TypeOK, NEW w \in Workers, NEW kind, NEW hashes, Answer(w, kind, hashes)
  PROVE  /\ pc'[w] = "idle"
         /\ \A v \in Workers \ {w} : pc'[v] = pc[v] /\ req'[v] = req[v] /\ job'[v] = job[v]
BY DEF Answer, TypeOK

LEMMA PushLockInvInit == Init => PushLockInv
BY ConstantsAssumption
   DEF Init, PushLockInv, LockInv, HeadInv, HeadIsTip, PushInv, Critical

\* The holder of branch_lock past the check reads the tip, because no other
\* push is between its two writes of the head file.
LEMMA HolderReadsTip ==
  ASSUME "emfile" \notin Faults, TypeOK, PushLockInv, NEW w \in Workers, pc[w] = "check"
  PROVE  ReadHead(w) = {IF log[req[w].branch] = <<>> THEN NoHash ELSE BL!Tip(req[w].branch)}
<1>1. req[w].branch \in Branches BY DEF TypeOK, Request
<1>2. \A v \in Workers : pc[v] # "write"
  BY OnlyHolderPushes DEF PushLockInv, Critical
<1>3. HeadIsTip(req[w].branch) BY <1>1, <1>2 DEF PushLockInv, HeadInv
<1>4. BL!Tip(req[w].branch) \in Manifests BY <1>1, TipType
<1>5. BL!Tip(req[w].branch) \notin {Absent, Empty} BY <1>4, MarkersAssumption
<1> DEFINE h == head[req[w].branch]
<1>6. ReadHead(w) = CASE h = Absent -> {NoHash}
                      [] h = Empty  -> {NoHash, Garbage, stale[w].hash}
                      [] OTHER      -> {h}
  BY DEF ReadHead
<1> HIDE DEF h
<1>7. CASE log[req[w].branch] = <<>>
  <2>1. h = Absent BY <1>3, <1>7 DEF HeadIsTip, h
  <2> QED BY <1>6, <1>7, <2>1, MarkersAssumption
<1>8. CASE log[req[w].branch] # <<>>
  <2>1. h = BL!Tip(req[w].branch) BY <1>3, <1>8 DEF HeadIsTip, h
  <2> QED BY <1>5, <1>6, <1>8, <2>1
<1> QED BY <1>7, <1>8

\* No worker survives a restart; what is left of its push is the head file.
LEMMA PushLockInvRestart ==
  ASSUME PushLockInv, Restart, HeadsWritten' PROVE PushLockInv'
<1>1. /\ lock' = NoWorker /\ UNCHANGED <<head, log>>
      /\ \A w \in Workers : pc'[w] \notin Critical
  BY DEF Restart, disk, Critical
<1>2. LockInv' BY <1>1, ConstantsAssumption DEF LockInv
<1>3. HeadInv'
  <2>1. \A b \in Branches : head[b] # Empty BY <1>1 DEF HeadsWritten
  <2> QED BY <1>1, <2>1 DEF PushLockInv, HeadInv, HeadIsTip, BL!Tip
<1>4. PushInv' BY <1>1 DEF PushInv, Critical
<1> QED BY <1>2, <1>3, <1>4 DEF PushLockInv

LEMMA PushLockInvNext ==
  ASSUME Faults \subseteq {"cut", "crash"}, TInv, ClosedInv, PushLockInv, [Next]_vars,
         Crash \/ (\E w \in Workers : ResponseOverrun(w)) => HeadsWritten'
  PROVE  PushLockInv'
<1> USE DEF TInv
<1>a. "emfile" \notin Faults OBVIOUS
<1>b. \A w \in Workers : req[w].branch \in Branches BY DEF TypeOK, Request
<1>1. ASSUME NEW w \in Workers, NEW c \in Clients, HandleClient(w, c) PROVE PushLockInv'
  <2>1. pc[w] \notin Critical BY <1>1 DEF HandleClient, Critical
  <2>2. pc'[w] \notin Critical
    <3>1. PICK r \in Requests :
            pc' = [pc EXCEPT ![w] = IF r.kind = "push" THEN "lock" ELSE r.kind]
      BY <1>1 DEF HandleClient
    <3>2. r.kind \in {"push", "pull", "history", "other"} BY DEF Requests
    <3> QED BY <3>1, <3>2 DEF TypeOK, Critical
  <2> QED BY <1>1, <2>1, <2>2, Bystander DEF HandleClient, TypeOK, disk
<1>2. ASSUME NEW w \in Workers, Cut(w) PROVE PushLockInv'
  BY <1>2 DEF Cut, disk, worker, PushLockInv, LockInv, HeadInv, HeadIsTip, PushInv,
              BL!FastForward, BL!Tip, Commit
<1>3. ASSUME NEW w \in Workers,
             InvalidCommand(w) \/ HandlePull(w) \/ HandleHistory(w) \/ Success(w)
      PROVE  PushLockInv'
  <2>1. PICK kind, hashes : Answer(w, kind, hashes)
    BY <1>3 DEF InvalidCommand, HandlePull, HandleHistory, Success
  <2>2. pc[w] \notin Critical
    BY <1>3 DEF InvalidCommand, HandlePull, HandleHistory, Success, Critical
  <2>3. /\ UNCHANGED <<head, log, lock>>
        /\ \A v \in Workers \ {w} : entries'[v] = entries[v] /\ took'[v] = took[v]
    BY <1>3 DEF InvalidCommand, HandlePull, HandleHistory, Success, TypeOK, disk
  <2>4. pc'[w] \notin Critical BY <2>1, AnswerFrame DEF Critical
  <2> QED BY <2>1, <2>2, <2>3, <2>4, AnswerFrame, Bystander
<1>4. ASSUME NEW w \in Workers, Lock(w) PROVE PushLockInv'
  <2>1. /\ pc[w] = "lock" /\ lock = NoWorker /\ lock' = w
        /\ pc' = [pc EXCEPT ![w] = "check"]
        /\ UNCHANGED <<head, log, req, job, entries, took>>
    BY <1>4 DEF Lock, disk
  <2>2. LockInv' BY <2>1, ConstantsAssumption DEF PushLockInv, LockInv, Critical, TypeOK
  <2>3. HeadInv' BY <2>1 DEF PushLockInv, HeadInv, HeadIsTip, BL!Tip, TypeOK
  <2>4. PushInv'
    BY <2>1 DEF PushLockInv, PushInv, BL!FastForward, BL!Tip, Commit, TypeOK
  <2> QED BY <2>2, <2>3, <2>4 DEF PushLockInv
<1>5. ASSUME NEW w \in Workers, Conflict(w) PROVE PushLockInv'
  <2>1. /\ pc[w] = "check" /\ lock' = NoWorker
        /\ UNCHANGED <<head, log, entries, took>>
        /\ Answer(w, "conflict", <<>>)
    BY <1>5 DEF Conflict, disk
  <2>2. \A v \in Workers \ {w} : pc[v] \notin Critical
    BY <2>1, OnlyHolderPushes DEF PushLockInv, Critical
  <2>3. \A v \in Workers : pc'[v] \notin Critical BY <2>1, <2>2, AnswerFrame DEF Critical
  <2>4. LockInv' BY <2>1, <2>3, ConstantsAssumption DEF LockInv
  <2>5. HeadInv'
    BY <2>1, <2>2 DEF PushLockInv, HeadInv, HeadIsTip, BL!Tip, Critical
  <2>6. PushInv' BY <2>3 DEF PushInv, Critical
  <2> QED BY <2>4, <2>5, <2>6 DEF PushLockInv
<1>6. ASSUME NEW w \in Workers, LoadManifest(w) PROVE PushLockInv'
  <2> DEFINE b == req[w].branch
  <2>1. /\ pc[w] = "check" /\ pc' = [pc EXCEPT ![w] = "recv"]
        /\ took' = [took EXCEPT ![w] = {}]
        /\ UNCHANGED <<head, log, lock, req, job>>
    BY <1>6 DEF LoadManifest, disk
  <2>2. PICK h \in ReadHead(w) :
          /\ ~Rejected(w, h)
          /\ \/ h \in manifests /\ entries' = [entries EXCEPT ![w] = h]
             \/ MayMiss(h) /\ entries' = [entries EXCEPT ![w] = <<>>]
    BY <1>6 DEF LoadManifest
  <2>3. \A v \in Workers \ {w} : pc[v] \notin Critical
    BY <2>1, OnlyHolderPushes DEF PushLockInv, Critical
  <2>4. h = IF log[b] = <<>> THEN NoHash ELSE BL!Tip(b)
    BY <1>a, <2>1, <2>2, HolderReadsTip
  <2>5. BL!Tip(b) \in Manifests BY <1>b, TipType
  <2>6. /\ log[b] # <<>> => req[w].parent = BL!Tip(b)
        /\ entries' = [entries EXCEPT ![w] = BL!Tip(b)]
    <3>1. CASE log[b] = <<>>
      <4>1. h \notin manifests BY <2>4, <3>1, MarkersAssumption DEF TypeOK
      <4> QED BY <2>2, <3>1, <4>1 DEF BL!Tip
    <3>2. CASE log[b] # <<>>
      <4>1. h = BL!Tip(b) /\ h # NoHash BY <2>4, <2>5, <3>2, MarkersAssumption
      <4>2. HeadIsTip(b)
        BY <1>b, <2>1, <2>3 DEF PushLockInv, HeadInv, Critical
      <4>3. h \in manifests
        <5>1. head[b] = h BY <3>2, <4>1, <4>2 DEF HeadIsTip
        <5>2. h \notin {Absent, Empty} BY <2>5, <4>1, MarkersAssumption
        <5> QED BY <1>b, <5>1, <5>2 DEF ClosedInv
      <4>4. ~MayMiss(h) BY <1>a, <4>3 DEF MayMiss
      <4> QED BY <2>2, <4>1, <4>4 DEF Rejected
    <3> QED BY <3>1, <3>2
  <2>7. LockInv' BY <2>1 DEF PushLockInv, LockInv, Critical, TypeOK
  <2>8. HeadInv' BY <2>1 DEF PushLockInv, HeadInv, HeadIsTip, BL!Tip, TypeOK
  <2>9. \A v \in Workers : pc'[v] \in {"recv", "truncate", "write"} => v = w
    BY <2>1, <2>3 DEF Critical, TypeOK
  <2>10. BL!FastForward(b, Commit(w))'
    <3>1. entries'[w] = BL!Tip(b) /\ took'[w] = {} BY <2>1, <2>6 DEF TypeOK
    <3>2. Extends(BL!Tip(b), BL!Tip(b), {}) BY <2>5, ExtendsNothing
    <3>3. BL!Extends(BL!Tip(b), entries'[w], took'[w]) BY <3>1, <3>2, SameTables
    <3>4. /\ Commit(w)'.parent = req[w].parent /\ Commit(w)'.files = took'[w]
          /\ Commit(w)'.manifest = entries'[w]
      BY <2>1 DEF Commit
    <3>5. log' = log /\ b' = b BY <2>1
    <3>6. BL!Tip(b)' = BL!Tip(b) BY <3>5 DEF BL!Tip
    <3>7. log[b] # <<>> => req[w].parent = BL!Tip(b) BY <2>6
    <3> HIDE DEF b
    <3> QED BY <3>3, <3>4, <3>5, <3>6, <3>7 DEF BL!FastForward
  <2> QED BY <2>7, <2>8, <2>9, <2>10 DEF PushLockInv, PushInv
<1>7. ASSUME NEW w \in Workers, NEW e \in Entry, Receiving(w), Receive(w, e)
      PROVE  PushLockInv'
  <2> DEFINE b == req[w].branch
  <2>1. /\ pc[w] = "recv" /\ UNCHANGED <<head, log, lock, pc, req, job>>
        /\ entries'[w] = PutEntry(entries[w], e) /\ took'[w] = took[w] \cup {e}
        /\ \A v \in Workers \ {w} : entries'[v] = entries[v] /\ took'[v] = took[v]
    BY <1>7 DEF Receive, Receiving, TypeOK
  <2>2. LockInv' BY <2>1 DEF PushLockInv, LockInv
  <2>3. HeadInv' BY <2>1 DEF PushLockInv, HeadInv, HeadIsTip, BL!Tip
  <2>4. BL!FastForward(b, Commit(w)) BY <2>1 DEF PushLockInv, PushInv
  <2>5. BL!FastForward(b, Commit(w))'
    <3>1. /\ log[b] # <<>> => req[w].parent = BL!Tip(b)
          /\ Extends(BL!Tip(b), entries[w], took[w])
      BY <2>4, CommitRule
    <3>2. /\ BL!Tip(b) \in Manifests /\ entries[w] \in Manifests
          /\ took[w] \in SUBSET Entry /\ DistinctNames(entries[w])
      BY <1>b, TipType DEF TypeOK, DistinctInv
    <3>3. Extends(BL!Tip(b), entries'[w], took'[w])
      BY <2>1, <3>1, <3>2, ExtendsPutEntry
    <3>4. BL!Extends(BL!Tip(b), entries'[w], took'[w]) BY <3>3, SameTables
    <3> QED BY <2>1, <3>1, <3>4 DEF BL!FastForward, BL!Tip, Commit
  <2>6. ASSUME NEW v \in Workers \ {w}, pc'[v] \in {"recv", "truncate", "write"}
        PROVE  BL!FastForward(req[v].branch, Commit(v))'
    BY <2>1, <2>6 DEF PushLockInv, PushInv, BL!FastForward, BL!Tip, Commit
  <2> QED BY <2>2, <2>3, <2>5, <2>6 DEF PushLockInv, PushInv
<1>8. ASSUME NEW w \in Workers, RecvFile(w) \/ RecvCut(w) \/ RecvAfterCut(w)
      PROVE  PushLockInv'
  <2>1. Receiving(w) BY <1>8 DEF RecvFile, RecvCut, RecvAfterCut
  <2>2. PICK e : /\ Receive(w, e)
                 /\ \/ e = Head(todo[w])
                    \/ /\ e.blob \in {Partial, BadBlob, stale[w].blob}
                       /\ e.name \in {Head(todo[w]).name, stale[w].name, JunkName}
                       /\ e = [name |-> e.name, blob |-> e.blob]
    <3>1. CASE RecvFile(w) BY <3>1 DEF RecvFile
    <3>2. CASE RecvCut(w) \/ RecvAfterCut(w)
      <4>1. PICK name \in {Head(todo[w]).name, stale[w].name, JunkName} :
              Receive(w, [name |-> name, blob |-> Partial])
        BY <3>2 DEF RecvCut, RecvAfterCut
      <4> QED BY <4>1
    <3> QED BY <1>8, <3>1, <3>2
  <2>3. e \in Entry BY <2>1, <2>2, ReceivedIsEntry
  <2> QED BY <1>7, <2>1, <2>2, <2>3
<1>9. ASSUME NEW w \in Workers, WriteManifest(w) PROVE PushLockInv'
  <2>1. /\ pc[w] = "recv" /\ pc' = [pc EXCEPT ![w] = "truncate"]
        /\ UNCHANGED <<head, log, lock, req, job, entries, took>>
    BY <1>9 DEF WriteManifest
  <2>2. LockInv' BY <2>1 DEF PushLockInv, LockInv, Critical, TypeOK
  <2>3. HeadInv' BY <2>1 DEF PushLockInv, HeadInv, HeadIsTip, BL!Tip, TypeOK
  <2>4. PushInv'
    BY <2>1 DEF PushLockInv, PushInv, BL!FastForward, BL!Tip, Commit, TypeOK
  <2> QED BY <2>2, <2>3, <2>4 DEF PushLockInv
<1>10. ASSUME NEW w \in Workers, TruncateHead(w) PROVE PushLockInv'
  <2>1. /\ pc[w] = "truncate" /\ pc' = [pc EXCEPT ![w] = "write"]
        /\ head' = [head EXCEPT ![req[w].branch] = Empty]
        /\ UNCHANGED <<log, lock, req, job, entries, took>>
    BY <1>10 DEF TruncateHead
  <2>2. LockInv' BY <2>1 DEF PushLockInv, LockInv, Critical, TypeOK
  <2>3. HeadInv' BY <1>b, <2>1 DEF PushLockInv, HeadInv, HeadIsTip, BL!Tip, TypeOK
  <2>4. PushInv'
    BY <2>1 DEF PushLockInv, PushInv, BL!FastForward, BL!Tip, Commit, TypeOK
  <2> QED BY <2>2, <2>3, <2>4 DEF PushLockInv
<1>11. ASSUME NEW w \in Workers, WriteHead(w) PROVE PushLockInv'
  <2> DEFINE b == req[w].branch
  <2>1. /\ pc[w] = "write" /\ pc' = [pc EXCEPT ![w] = "reply"] /\ lock' = NoWorker
        /\ head' = [head EXCEPT ![b] = entries[w]]
        /\ log' = [log EXCEPT ![b] = Append(log[b], Commit(w))]
        /\ UNCHANGED req
    BY <1>11 DEF WriteHead
  <2>2. \A v \in Workers \ {w} : pc[v] \notin Critical
    BY <2>1, OnlyHolderPushes DEF PushLockInv, Critical
  <2>3. \A v \in Workers : pc'[v] \notin Critical BY <2>1, <2>2 DEF Critical, TypeOK
  <2>4. LockInv' BY <2>1, <2>3, ConstantsAssumption DEF LockInv
  <2>5. PushInv' BY <2>3 DEF PushInv, Critical
  <2>6. HeadIsTip(b)'
    <3>1. b \in Branches BY <1>b
    <3>2. log'[b] = Append(log[b], Commit(w)) /\ head'[b] = entries[w]
      BY <2>1, <3>1 DEF TypeOK, BL!TypeOK
    <3>3. log[b] \in Seq(BL!Commits) BY <3>1 DEF TypeOK, BL!TypeOK
    <3>4. log'[b] # <<>> /\ log'[b][Len(log'[b])] = Commit(w) BY <3>2, <3>3
    <3>5. Commit(w).manifest = entries[w] BY DEF Commit
    <3>6. UNCHANGED b BY <2>1
    <3> QED BY <3>2, <3>4, <3>5, <3>6 DEF HeadIsTip, BL!Tip
  <2>7. ASSUME NEW a \in Branches, a # b PROVE HeadIsTip(a)'
    <3>1. head'[a] = head[a] /\ log'[a] = log[a]
      BY <2>1, <2>7 DEF TypeOK, BL!TypeOK
    <3>2. HeadIsTip(a) BY <2>2, <2>7 DEF PushLockInv, HeadInv, Critical
    <3> QED BY <3>1, <3>2 DEF HeadIsTip, BL!Tip
  <2>8. HeadInv'
    <3>1. UNCHANGED b BY <2>1
    <3> QED BY <2>6, <2>7, <3>1 DEF HeadInv
  <2> QED BY <2>4, <2>5, <2>8 DEF PushLockInv
<1>12. ASSUME UNCHANGED vars PROVE PushLockInv'
  BY <1>12 DEF vars, disk, worker, peer, PushLockInv, LockInv, HeadInv, HeadIsTip,
               PushInv, BL!FastForward, BL!Tip, Commit
<1>13. ASSUME NEW w \in Workers,
              RecvNoFile(w) \/ NoManifest(w) \/ HeadNotOpened(w) \/ LoopMisses(w)
       PROVE  PushLockInv'
  BY <1>a, <1>13 DEF RecvNoFile, NoManifest, HeadNotOpened, LoopMisses
<1>14. ASSUME Crash PROVE PushLockInv' BY <1>14, PushLockInvRestart DEF Crash
<1>16. ASSUME NEW w \in Workers, ResponseOverrun(w) PROVE PushLockInv'
  BY <1>16, PushLockInvRestart DEF ResponseOverrun
<1>15. ASSUME NEW w \in Workers, HistoryLoops(w) PROVE PushLockInv'
  <2>1. pc[w] = "history" /\ pc'[w] = "loop" BY <1>15 DEF HistoryLoops, TypeOK
  <2> QED BY <1>15, <2>1, Bystander DEF HistoryLoops, TypeOK, Critical, disk
<1> QED
  BY <1>1, <1>2, <1>3, <1>4, <1>5, <1>6, <1>8, <1>9, <1>10, <1>11, <1>12, <1>13, <1>14,
     <1>15, <1>16
  DEF Next, Work, Rest

\* Only the write of a head file is visible in the log, and it is a Publish.
LEMMA StepIsPublish ==
  TInv /\ PushLockInv /\ [Next]_vars => [BL!Next]_log
<1> SUFFICES ASSUME TInv, PushLockInv, [Next]_vars PROVE [BL!Next]_log
  OBVIOUS
<1>1. ASSUME NEW w \in Workers, WriteHead(w) PROVE BL!Next
  <2> DEFINE b == req[w].branch
  <2>1. b \in Branches BY DEF TInv, TypeOK, Request
  <2>2. pc[w] = "write" /\ log' = [log EXCEPT ![b] = Append(log[b], Commit(w))]
    BY <1>1 DEF WriteHead
  <2>3. TypeOK /\ TypeOK' BY TInvNext DEF TInv
  <2>4. log \in [Branches -> Seq(BL!Commits)] /\ log' \in [Branches -> Seq(BL!Commits)]
    BY <2>3 DEF TypeOK, BL!TypeOK
  <2> HIDE DEF b
  <2>5. log'[b] = Append(log[b], Commit(w)) BY <2>1, <2>2, <2>4
  <2> DEFINE s == log[b]
             t == log'[b]
             c == Commit(w)
  <2>6. c \in BL!Commits
    <3>1. job[w] \in Clients BY <2>2 DEF TInv, JobInv
    <3>2. took[w] \in SUBSET Entry /\ entries[w] \in Manifests BY <2>3 DEF TypeOK
    <3>3. req[w].parent \in Hashes BY <2>3 DEF TypeOK, Request
    <3> QED BY <3>1, <3>2, <3>3, SameTables DEF Commit
  <2>7. s \in Seq(BL!Commits) /\ t = Append(s, c) BY <2>1, <2>4, <2>5
  <2> HIDE DEF s, t, c
  <2>8. t # <<>> /\ t[Len(t)] = c BY <2>6, <2>7
  <2>9. BL!FastForward(b, c) BY <2>2 DEF PushLockInv, PushInv, b, c
  <2>10. BL!Publish(b) BY <2>2, <2>6, <2>8, <2>9 DEF BL!Publish, s, t, c
  <2> QED BY <2>1, <2>10 DEF BL!Next
<1>2. ASSUME ~\E w \in Workers : WriteHead(w) PROVE UNCHANGED log
  <2>1. ASSUME NEW w \in Workers, NEW c \in Clients, HandleClient(w, c) PROVE UNCHANGED log
    BY <2>1 DEF HandleClient
  <2>2. ASSUME NEW w \in Workers, Work(w) PROVE UNCHANGED log
    BY <1>2, <2>2 DEF Work, InvalidCommand, HandlePull, HandleHistory, HistoryLoops,
       LoopMisses, ResponseOverrun, Restart, Lock, Conflict, LoadManifest, RecvFile,
       RecvAfterCut, RecvNoFile, Receive, WriteManifest, NoManifest, TruncateHead, Success
  <2>3. ASSUME NEW w \in Workers, Cut(w) \/ RecvCut(w) \/ HeadNotOpened(w)
        PROVE  UNCHANGED log
    BY <2>3 DEF Cut, RecvCut, Receive, HeadNotOpened, Restart
  <2>4. ASSUME Crash PROVE UNCHANGED log BY <2>4 DEF Crash, Restart
  <2> QED BY <2>1, <2>2, <2>3, <2>4 DEF Next, Rest, vars
<1> QED BY <1>1, <1>2

LEMMA InvInit == Init => TInv /\ ClosedInv /\ PushLockInv /\ NoEmptyInv
BY TInvInit, ClosedInvInit, PushLockInvInit DEF Init, NoEmptyInv

\* Without crashes and without empty pushes the process never ends.
LEMMA InvNext ==
  ASSUME Faults \subseteq {"cut"}, <<>> \notin FileLists
  PROVE  TInv /\ ClosedInv /\ PushLockInv /\ NoEmptyInv /\ [Next]_vars
           => TInv' /\ ClosedInv' /\ PushLockInv' /\ NoEmptyInv'
<1> SUFFICES ASSUME TInv, ClosedInv, PushLockInv, NoEmptyInv, [Next]_vars
             PROVE  TInv' /\ ClosedInv' /\ PushLockInv' /\ NoEmptyInv'
  OBVIOUS
<1>1. "emfile" \notin Faults /\ ~Crash BY DEF Crash
<1>2. ~\E w \in Workers : ResponseOverrun(w) BY DEF NoEmptyInv, ResponseOverrun
<1>3. TInv' /\ ClosedInv' BY <1>1, TInvNext, ClosedInvNext
<1>4. PushLockInv' BY <1>1, <1>2, PushLockInvNext
<1>5. NoEmptyInv' BY NoEmptyInvNext
<1> QED BY <1>3, <1>4, <1>5

LEMMA InvNextCrash ==
  ASSUME Faults \subseteq {"cut", "crash"}
  PROVE  TInv /\ ClosedInv /\ PushLockInv /\ [Next]_vars /\ HeadsWritten'
           => TInv' /\ ClosedInv' /\ PushLockInv'
<1>1. "emfile" \notin Faults OBVIOUS
<1> QED BY <1>1, TInvNext, ClosedInvNext, PushLockInvNext

\* When the server does not crash, can open its files and is sent no push of no
\* files, whatever clients do and however their connections break, handle_push
\* does in one step per accepted push what BranchLog does.
THEOREM ServerImplementsBranchLog ==
  ASSUME Faults \subseteq {"cut"}, <<>> \notin FileLists
  PROVE  Spec => ImplementsBranchLog
<1>1. Init => TInv /\ ClosedInv /\ PushLockInv /\ NoEmptyInv BY InvInit
<1>2. TInv /\ ClosedInv /\ PushLockInv /\ NoEmptyInv /\ [Next]_vars
        => TInv' /\ ClosedInv' /\ PushLockInv' /\ NoEmptyInv'
  BY InvNext
<1>3. TInv /\ PushLockInv /\ [Next]_vars => [BL!Next]_log BY StepIsPublish
<1>4. Init => BL!Init BY DEF Init, BL!Init
<1> QED BY <1>1, <1>2, <1>3, <1>4, PTL DEF Spec, BL!Spec, ImplementsBranchLog

\* A server that is killed, or ends in the loop of handle_history, and is started
\* again keeps implementing BranchLog, as long as it does not end between the
\* fopen and the fprintf of write_branch_head: a push that was killed anywhere
\* else, with its files and its manifest stored or not, was not there.
THEOREM CrashedServerImplementsBranchLog ==
  ASSUME Faults \subseteq {"cut", "crash"}
  PROVE  Spec /\ []HeadsWritten => ImplementsBranchLog
<1>1. Init => TInv /\ ClosedInv /\ PushLockInv BY InvInit
<1>2. TInv /\ ClosedInv /\ PushLockInv /\ [Next]_vars /\ HeadsWritten'
        => TInv' /\ ClosedInv' /\ PushLockInv'
  BY InvNextCrash
<1>3. TInv /\ PushLockInv /\ [Next]_vars => [BL!Next]_log BY StepIsPublish
<1>4. Init => BL!Init BY DEF Init, BL!Init
<1> QED BY <1>1, <1>2, <1>3, <1>4, PTL DEF Spec, BL!Spec, ImplementsBranchLog

\* With branch_lock free, the head files of all branches are the tips, as long
\* as the server does not end and can open its files.
THEOREM HeadIsTipWhenFree ==
  ASSUME Faults \subseteq {"cut"}, <<>> \notin FileLists
  PROVE  Spec => []FreeHeadIsTip
<1>1. Init => TInv /\ ClosedInv /\ PushLockInv /\ NoEmptyInv BY InvInit
<1>2. TInv /\ ClosedInv /\ PushLockInv /\ NoEmptyInv /\ [Next]_vars
        => TInv' /\ ClosedInv' /\ PushLockInv' /\ NoEmptyInv'
  BY InvNext
<1>3. PushLockInv => FreeHeadIsTip
  BY ConstantsAssumption
     DEF PushLockInv, LockInv, HeadInv, HeadIsTip, FreeHeadIsTip, Critical
<1> QED BY <1>1, <1>2, <1>3, PTL DEF Spec

-----------------------------------------------------------------------------
(* What BranchLog promises, and so the server keeps.                       *)

\* The manifest the next commit of b must build on.
LEMMA TipIsLast ==
  ASSUME NEW b \in Branches, log[b] # <<>>
  PROVE  BL!Tip(b) = log[b][Len(log[b])].manifest
BY DEF BL!Tip

LEMMA LogInvNext ==
  ASSUME TypeOK, BL!LinearHistory, BL!FilesStay, [BL!Next]_log
  PROVE  BL!LinearHistory' /\ BL!FilesStay'
<1>1. CASE UNCHANGED log BY <1>1 DEF BL!LinearHistory, BL!FilesStay
<1>2. CASE BL!Next
  <2>1. PICK b \in Branches : BL!Publish(b) BY <1>2 DEF BL!Next
  <2> DEFINE s == log[b]
             t == log'[b]
             c == t[Len(t)]
  <2>2. /\ c \in BL!Commits /\ log' = [log EXCEPT ![b] = Append(s, c)]
        /\ BL!FastForward(b, c)
    BY <2>1 DEF BL!Publish
  <2>3. log \in [Branches -> Seq(BL!Commits)] BY DEF TypeOK, BL!TypeOK
  <2>4. s \in Seq(BL!Commits) /\ t = Append(s, c) BY <2>2, <2>3
  <2>5. \A a \in Branches \ {b} : log'[a] = log[a] BY <2>2, <2>3
  <2>6. /\ s # <<>> => c.parent = s[Len(s)].manifest
        /\ s # <<>> => Extends(s[Len(s)].manifest, c.manifest, c.files)
    BY <2>2, TipIsLast, SameTables DEF BL!FastForward
  <2>7. \A i \in 1..Len(s) : s[i].manifest \in Manifests
    BY <2>4, PublishedType
  <2>8. c.manifest \in Manifests BY <2>2, SameTables
  <2> HIDE DEF c
  <2>9. /\ Len(t) = Len(s) + 1 /\ t[Len(t)] = c
        /\ \A i \in 1..Len(s) : t[i] = s[i]
    BY <2>2, <2>4
  <2>10. \A i \in 1..Len(s) : \A j \in i..Len(s) :
           NamesOf(s[i].manifest) \subseteq NamesOf(s[j].manifest)
    BY SameTables DEF BL!FilesStay
  <2>11. \A i \in 2..Len(s) : s[i].parent = s[i - 1].manifest BY DEF BL!LinearHistory
  <2> HIDE DEF s, t
  <2>12. \A i \in 2..Len(t) : t[i].parent = t[i - 1].manifest
    <3> SUFFICES ASSUME NEW i \in 2..Len(t) PROVE t[i].parent = t[i - 1].manifest
      OBVIOUS
    <3>1. CASE i <= Len(s)
      <4>1. i \in 2..Len(s) /\ i \in 1..Len(s) /\ i - 1 \in 1..Len(s) BY <2>4, <3>1
      <4> QED BY <2>9, <2>11, <4>1
    <3>2. CASE i = Len(s) + 1
      <4>1. s # <<>> /\ i - 1 = Len(s) /\ Len(s) \in 1..Len(s) BY <2>4, <3>2
      <4> QED BY <2>6, <2>9, <3>2, <4>1
    <3> QED BY <2>4, <2>9, <3>1, <3>2
  <2>13. \A i \in 1..Len(t) : \A j \in i..Len(t) :
           NamesOf(t[i].manifest) \subseteq NamesOf(t[j].manifest)
    <3> SUFFICES ASSUME NEW i \in 1..Len(t), NEW j \in i..Len(t)
                 PROVE  NamesOf(t[i].manifest) \subseteq NamesOf(t[j].manifest)
      OBVIOUS
    <3>1. CASE j <= Len(s)
      <4>1. i \in 1..Len(s) /\ j \in 1..Len(s) /\ j \in i..Len(s) BY <2>4, <3>1
      <4> QED BY <2>9, <2>10, <4>1
    <3>2. CASE j = Len(s) + 1 /\ i <= Len(s)
      <4>1. i \in 1..Len(s) /\ Len(s) \in i..Len(s) /\ Len(s) \in 1..Len(s) /\ s # <<>>
        BY <2>4, <3>2
      <4>2. NamesOf(s[i].manifest) \subseteq NamesOf(s[Len(s)].manifest)
        BY <2>10, <4>1
      <4>3. NamesOf(s[Len(s)].manifest) \subseteq NamesOf(c.manifest)
        BY <2>6, <2>7, <2>8, <4>1, ExtendsKeepsNames
      <4>4. t[i] = s[i] /\ t[j] = c BY <2>9, <3>2, <4>1
      <4> QED BY <4>2, <4>3, <4>4
    <3>3. CASE i = j BY <3>3
    <3>4. Len(s) \in Nat /\ i \in Nat /\ j \in Nat /\ i <= j /\ j <= Len(s) + 1
      BY <2>4, <2>9
    <3>5. j <= Len(s) \/ (j = Len(s) + 1 /\ i <= Len(s)) \/ i = j BY <3>4
    <3> QED BY <3>1, <3>2, <3>3, <3>5
  <2>14. BL!LinearHistory'
    BY <2>5, <2>12 DEF BL!LinearHistory, s, t
  <2>15. BL!FilesStay'
    BY <2>5, <2>13, SameTables DEF BL!FilesStay, s, t
  <2> QED BY <2>14, <2>15
<1> QED BY <1>1, <1>2

LEMMA LogInvInit == Init => BL!LinearHistory /\ BL!FilesStay
<1> SUFFICES ASSUME Init PROVE BL!LinearHistory /\ BL!FilesStay OBVIOUS
<1>1. \A b \in Branches : log[b] = <<>> BY DEF Init
<1>2. Len(<<>>) = 0 OBVIOUS
<1> QED BY <1>1, <1>2 DEF BL!LinearHistory, BL!FilesStay

\* As long as the server does not end: a push to a branch with a history is
\* accepted only on top of its head, and no accepted push makes a file of an
\* earlier one disappear.
THEOREM HistoryIsLinear ==
  ASSUME Faults \subseteq {"cut"}, <<>> \notin FileLists
  PROVE  Spec => [](LinearHistory /\ FilesStay)
<1> DEFINE I == /\ TInv /\ ClosedInv /\ PushLockInv /\ NoEmptyInv
                /\ BL!LinearHistory /\ BL!FilesStay
<1>1. Init => I BY InvInit, LogInvInit
<1>2. I /\ [Next]_vars => I'
  <2> SUFFICES ASSUME I, [Next]_vars PROVE I'
    OBVIOUS
  <2>1. TInv' /\ ClosedInv' /\ PushLockInv' /\ NoEmptyInv' BY InvNext
  <2>2. TypeOK BY DEF TInv
  <2>3. [BL!Next]_log BY StepIsPublish
  <2>4. BL!LinearHistory' /\ BL!FilesStay' BY <2>2, <2>3, LogInvNext
  <2> QED BY <2>1, <2>4
<1>3. I => LinearHistory /\ FilesStay BY DEF LinearHistory, FilesStay
<1> QED BY <1>1, <1>2, <1>3, PTL DEF Spec

\* The two hold across crashes of the server, as long as none tears a head file:
\* the empty head file is the only way in which a crash can make a push pass that
\* does not build on the last commit.
THEOREM OnlyTornHeadsFork ==
  ASSUME Faults \subseteq {"cut", "crash"}
  PROVE  Spec /\ []HeadsWritten => [](LinearHistory /\ FilesStay)
<1> DEFINE I == TInv /\ ClosedInv /\ PushLockInv /\ BL!LinearHistory /\ BL!FilesStay
<1>1. Init => I BY InvInit, LogInvInit
<1>2. I /\ [Next]_vars /\ HeadsWritten' => I'
  <2> SUFFICES ASSUME I, [Next]_vars, HeadsWritten' PROVE I'
    OBVIOUS
  <2>1. TInv' /\ ClosedInv' /\ PushLockInv' BY InvNextCrash
  <2>2. TypeOK BY DEF TInv
  <2>3. [BL!Next]_log BY StepIsPublish
  <2>4. BL!LinearHistory' /\ BL!FilesStay' BY <2>2, <2>3, LogInvNext
  <2> QED BY <2>1, <2>4
<1>3. I => LinearHistory /\ FilesStay BY DEF LinearHistory, FilesStay
<1> QED BY <1>1, <1>2, <1>3, PTL DEF Spec

\* The same for FilesStay alone: an accepted push never works on an older head
\* than the one it replaces.
THEOREM FilesRemain ==
  ASSUME Faults \subseteq {"cut"}, <<>> \notin FileLists
  PROVE  Spec => []FilesStay
<1>1. Spec => [](LinearHistory /\ FilesStay) BY HistoryIsLinear
<1> QED BY <1>1, PTL
=============================================================================
