----------------------------- MODULE AnswerProofs -----------------------------
(***************************************************************************)
(* Proofs about MainServer: that what a client was answered agrees with    *)
(* what its request left behind, and that a head names a stored manifest   *)
(* whatever fails.                                                         *)
(***************************************************************************)
EXTENDS MainServerProofs

-----------------------------------------------------------------------------
(* Heads name stored manifests, under every fault.                         *)

\* A manifest is stored before the head file is opened for it.
ManifestFirst ==
  \A w \in Workers : pc[w] \in {"truncate", "write"} => entries[w] \in manifests

HeadsInv == HeadsAreStored /\ ManifestFirst

\* The steps that write neither a head nor a table that is to be published.
LEMMA HeadsKept ==
  ASSUME HeadsInv, head' = head, manifests \subseteq manifests',
         \A w \in Workers : pc'[w] \in {"truncate", "write"} =>
           \/ entries'[w] \in manifests'
           \/ pc[w] \in {"truncate", "write"} /\ entries'[w] = entries[w]
  PROVE  HeadsInv'
BY DEF HeadsInv, HeadsAreStored, ManifestFirst

LEMMA HeadsInvNext == TInv /\ HeadsInv /\ [Next]_vars => HeadsInv'
<1> SUFFICES ASSUME TInv, HeadsInv, [Next]_vars PROVE HeadsInv' OBVIOUS
<1> USE DEF TInv
<1>1. ASSUME NEW w \in Workers, NEW c \in Clients, HandleClient(w, c) PROVE HeadsInv'
  <2>1. PICK r \in Requests :
          pc' = [pc EXCEPT ![w] = IF r.kind = "push" THEN "lock" ELSE r.kind]
    BY <1>1 DEF HandleClient
  <2>2. r.kind \in {"push", "pull", "history", "other"} BY DEF Requests
  <2> QED BY <1>1, <2>1, <2>2, HeadsKept DEF HandleClient, TypeOK, disk
<1>2. ASSUME NEW w \in Workers, Cut(w) PROVE HeadsInv'
  BY <1>2, HeadsKept DEF Cut, disk, worker
<1>3. ASSUME NEW w \in Workers, InvalidCommand(w) PROVE HeadsInv'
  BY <1>3, HeadsKept DEF InvalidCommand, Answer, TypeOK, disk
<1>4. ASSUME NEW w \in Workers, HandlePull(w) \/ HandleHistory(w) PROVE HeadsInv'
  <2>1. UNCHANGED <<disk, entries>> /\ pc' = [pc EXCEPT ![w] = "idle"]
    BY <1>4 DEF HandlePull, HandleHistory, Answer
  <2> QED BY <2>1, HeadsKept DEF TypeOK, disk
<1>5. ASSUME NEW w \in Workers, Lock(w) PROVE HeadsInv'
  BY <1>5, HeadsKept DEF Lock, TypeOK, disk
<1>6. ASSUME NEW w \in Workers, Conflict(w) PROVE HeadsInv'
  BY <1>6, HeadsKept DEF Conflict, Answer, TypeOK, disk
<1>7. ASSUME NEW w \in Workers, LoadManifest(w) PROVE HeadsInv'
  <2>1. /\ UNCHANGED disk /\ pc' = [pc EXCEPT ![w] = "recv"]
        /\ \A v \in Workers \ {w} : entries'[v] = entries[v]
    BY <1>7 DEF LoadManifest, TypeOK
  <2> QED BY <2>1, HeadsKept DEF TypeOK, disk
<1>8. ASSUME NEW w \in Workers, NEW e, Receiving(w), Receive(w, e) PROVE HeadsInv'
  BY <1>8, HeadsKept DEF Receive, Receiving, TypeOK
<1>9. ASSUME NEW w \in Workers,
             RecvFile(w) \/ RecvCut(w) \/ RecvAfterCut(w) \/ RecvNoFile(w)
      PROVE  HeadsInv'
  BY <1>8, <1>9 DEF RecvFile, RecvCut, RecvAfterCut, RecvNoFile
<1>10. ASSUME NEW w \in Workers, WriteManifest(w) PROVE HeadsInv'
  BY <1>10, HeadsKept DEF WriteManifest, TypeOK
<1>11. ASSUME NEW w \in Workers, NoManifest(w) PROVE HeadsInv'
  <2>1. \A b \in Branches : head'[b] \in {head[b], Empty}
    BY <1>11 DEF NoManifest, TypeOK
  <2>2. pc' = [pc EXCEPT ![w] = "idle"] /\ manifests' = manifests
    BY <1>11 DEF NoManifest, Answer
  <2>3. \A v \in Workers \ {w} : entries'[v] = entries[v]
    BY <1>11 DEF NoManifest, TypeOK
  <2> QED BY <2>1, <2>2, <2>3 DEF HeadsInv, HeadsAreStored, ManifestFirst, TypeOK
<1>12. ASSUME NEW w \in Workers, TruncateHead(w) PROVE HeadsInv'
  BY <1>12 DEF TruncateHead, HeadsInv, HeadsAreStored, ManifestFirst, TypeOK
<1>13. ASSUME NEW w \in Workers, WriteHead(w) PROVE HeadsInv'
  <2>1. entries[w] \in manifests BY <1>13 DEF WriteHead, HeadsInv, ManifestFirst
  <2> QED BY <1>13, <2>1 DEF WriteHead, HeadsInv, HeadsAreStored, ManifestFirst, TypeOK
<1>14. ASSUME NEW w \in Workers, Success(w) PROVE HeadsInv'
  BY <1>14, HeadsKept DEF Success, Answer, TypeOK, disk
<1>15. ASSUME Restart PROVE HeadsInv'
  BY <1>15, HeadsKept DEF Restart, disk
<1>16. ASSUME UNCHANGED vars PROVE HeadsInv'
  BY <1>16, HeadsKept DEF vars, disk, worker
<1>17. ASSUME NEW w \in Workers, HistoryLoops(w) \/ LoopMisses(w) PROVE HeadsInv'
  <2>1. UNCHANGED <<disk, entries>> /\ \E s \in {"idle", "loop"} : pc' = [pc EXCEPT ![w] = s]
    BY <1>17 DEF HistoryLoops, LoopMisses, Answer
  <2> QED BY <2>1, HeadsKept DEF TypeOK, disk
<1> QED
  BY <1>1, <1>2, <1>3, <1>4, <1>5, <1>6, <1>7, <1>9, <1>10, <1>11, <1>12, <1>13,
     <1>14, <1>15, <1>16, <1>17
  DEF Next, Work, Crash, HeadNotOpened, ResponseOverrun, Rest

\* Under every fault, descriptors that run out among them, a head file is
\* missing, empty, or names a manifest that is stored.
THEOREM HeadsStored == Spec => []HeadsAreStored
<1>1. Init => TInv /\ HeadsInv
  BY TInvInit DEF Init, HeadsInv, HeadsAreStored, ManifestFirst
<1>2. TInv /\ HeadsInv /\ [Next]_vars => TInv' /\ HeadsInv'
  BY TInvNext, HeadsInvNext
<1>3. HeadsInv => HeadsAreStored BY DEF HeadsInv
<1> QED BY <1>1, <1>2, <1>3, PTL DEF Spec

-----------------------------------------------------------------------------
(* Answers and commits.                                                    *)

LEMMA InCommitsOf ==
  ASSUME NEW c
  PROVE  \A at : at \in CommitsOf(c) <=>
           \E b \in Branches : \E i \in DOMAIN log[b] :
             at = <<b, i>> /\ log[b][i].by = c
BY DEF CommitsOf

LEMMA SameCommits == ASSUME log' = log PROVE \A c : CommitsOf(c)' = CommitsOf(c)
BY DEF CommitsOf

\* A connection is served by one worker, which lets it go when it answers.
OwnJob ==
  \A w \in Workers :
    /\ pc[w] = "idle" => job[w] = NoClient
    /\ \A v \in Workers : job[w] # NoClient /\ job[v] = job[w] => v = w
    /\ job[w] # NoClient => conn[job[w]] \in {"open", "cut"}

\* Nothing is answered before the connection is closed.
AnsweredLast == \A c \in Clients : conn[c] # "done" => reply[c].kind = "none"

\* A push has no commit until it has written its head, and then one.
CommitsLast ==
  /\ \A c \in Clients : conn[c] = "new" => CommitsOf(c) = {}
  /\ \A w \in Workers : job[w] \in Clients /\ pc[w] # "reply" => CommitsOf(job[w]) = {}

AnswerInv == OwnJob /\ AnsweredLast /\ CommitsLast /\ RejectedLeavesNothing

\* The steps of a worker, or of the network, that answer nobody and publish
\* nothing.
QuietStep ==
  /\ UNCHANGED <<job, reply, log>>
  /\ \A w \in Workers :
       /\ pc'[w] = "idle" <=> pc[w] = "idle"
       /\ pc'[w] = "reply" <=> pc[w] = "reply"
  /\ \A c \in Clients : conn'[c] = conn[c] \/ (conn[c] = "open" /\ conn'[c] = "cut")

LEMMA AnswerInvQuiet ==
  ASSUME TInv, AnswerInv, QuietStep
  PROVE  AnswerInv'
<1> USE DEF TInv
<1>1. UNCHANGED <<job, reply, log>> BY DEF QuietStep
<1>2. \A c : CommitsOf(c)' = CommitsOf(c) BY <1>1, SameCommits
<1>3. OwnJob'
  <2>1. \A w \in Workers : job[w] # NoClient => job[w] \in Clients BY DEF TypeOK
  <2> QED BY <1>1, <2>1 DEF AnswerInv, OwnJob, QuietStep
<1>4. AnsweredLast' BY <1>1 DEF AnswerInv, AnsweredLast, QuietStep
<1>5. CommitsLast' BY <1>1, <1>2 DEF AnswerInv, CommitsLast, QuietStep
<1>6. RejectedLeavesNothing'
  <2>1. \A at1, at2 : log'[at1[1]][at1[2]] = log[at1[1]][at1[2]] BY <1>1
  <2> QED BY <1>1, <1>2 DEF AnswerInv, RejectedLeavesNothing
<1> QED BY <1>3, <1>4, <1>5, <1>6 DEF AnswerInv

\* An answer other than SUCCESS goes to a client without a commit.
LEMMA AnswerInvAnswer ==
  ASSUME TInv, AnswerInv, NEW w \in Workers, pc[w] # "idle",
         NEW kind, NEW hashes, Answer(w, kind, hashes), log' = log,
         kind = "conflict" => pc[w] # "reply"
  PROVE  AnswerInv'
<1> USE DEF TInv
<1> DEFINE c == job[w]
<1>1. c \in Clients BY DEF JobInv
<1>2. /\ pc' = [pc EXCEPT ![w] = "idle"] /\ job' = [job EXCEPT ![w] = NoClient]
      /\ conn' = [conn EXCEPT ![c] = "done"]
      /\ \A d \in Clients \ {c} : reply'[d] = reply[d]
      /\ reply'[c].kind \in {"lost", kind}
  BY <1>1 DEF Answer, TypeOK, NoReply
<1> HIDE DEF c
<1>3. \A d : CommitsOf(d)' = CommitsOf(d) BY SameCommits
<1>4. \A v \in Workers \ {w} : job[v] # c
  BY <1>1, ConstantsAssumption DEF AnswerInv, OwnJob, c
<1>5. OwnJob'
  <2>1. \A v \in Workers : job[v] # NoClient => job[v] \in Clients BY DEF TypeOK
  <2> QED BY <1>2, <1>4, <2>1 DEF AnswerInv, OwnJob, TypeOK
<1>6. AnsweredLast' BY <1>2 DEF AnswerInv, AnsweredLast, TypeOK
<1>7. CommitsLast' BY <1>2, <1>3, ConstantsAssumption DEF AnswerInv, CommitsLast, TypeOK
<1>8. RejectedLeavesNothing'
  <2>1. kind = "conflict" => CommitsOf(c) = {} BY <1>1 DEF AnswerInv, CommitsLast, c
  <2> QED BY <1>2, <1>3, <2>1 DEF AnswerInv, RejectedLeavesNothing
<1> QED BY <1>5, <1>6, <1>7, <1>8 DEF AnswerInv

\* The step that publishes gives its client one commit and nobody else one.
LEMMA NewCommit ==
  ASSUME TInv, NEW w \in Workers, WriteHead(w), NEW c, c = job[w],
         NEW b, b = req[w].branch, NEW n, n = Len(log[b]) + 1
  PROVE  /\ CommitsOf(c)' = CommitsOf(c) \cup {<<b, n>>}
         /\ \A d : d # c => CommitsOf(d)' = CommitsOf(d)
         /\ log'[b][n].manifest = entries[w]
         /\ \A d : \A p \in CommitsOf(d) : log'[p[1]][p[2]] = log[p[1]][p[2]]
<1> USE DEF TInv
<1>1. b \in Branches BY DEF TypeOK, Request
<1>2. log \in [Branches -> Seq(BL!Commits)] BY DEF TypeOK, BL!TypeOK
<1>3. log' = [log EXCEPT ![b] = Append(log[b], Commit(w))] BY DEF WriteHead
<1>4. \A a \in Branches \ {b} : log'[a] = log[a] BY <1>2, <1>3
<1>5. log[b] \in Seq(BL!Commits) /\ log'[b] = Append(log[b], Commit(w))
  BY <1>1, <1>2, <1>3
<1>6. /\ DOMAIN log'[b] = DOMAIN log[b] \cup {n} /\ n \notin DOMAIN log[b]
      /\ \A i \in DOMAIN log[b] : log'[b][i] = log[b][i]
      /\ log'[b][n] = Commit(w)
  BY <1>5
<1>7. Commit(w).by = c /\ Commit(w).manifest = entries[w] BY DEF Commit
<1>8. \A d : \A at : at \in CommitsOf(d)' <=>
        \/ at \in CommitsOf(d)
        \/ at = <<b, n>> /\ d = c
  <2> SUFFICES ASSUME NEW d, NEW at
               PROVE  at \in CommitsOf(d)' <=>
                        at \in CommitsOf(d) \/ (at = <<b, n>> /\ d = c)
    OBVIOUS
  <2>1. at \in CommitsOf(d)' <=>
          \E a \in Branches : \E i \in DOMAIN log'[a] : at = <<a, i>> /\ log'[a][i].by = d
    BY DEF CommitsOf
  <2>2. at \in CommitsOf(d) <=>
          \E a \in Branches : \E i \in DOMAIN log[a] : at = <<a, i>> /\ log[a][i].by = d
    BY InCommitsOf
  <2> QED BY <1>1, <1>4, <1>6, <1>7, <2>1, <2>2
<1>9. \A d : \A p \in CommitsOf(d) : log'[p[1]][p[2]] = log[p[1]][p[2]]
  <2> SUFFICES ASSUME NEW d, NEW p \in CommitsOf(d)
               PROVE  log'[p[1]][p[2]] = log[p[1]][p[2]]
    OBVIOUS
  <2>1. PICK a \in Branches : \E i \in DOMAIN log[a] : p = <<a, i>> BY InCommitsOf
  <2> QED BY <1>4, <1>6, <2>1
<1>10. CommitsOf(c)' = CommitsOf(c) \cup {<<b, n>>} BY <1>8
<1>11. \A d : d # c => CommitsOf(d)' = CommitsOf(d)
  <2> SUFFICES ASSUME NEW d, d # c PROVE CommitsOf(d)' = CommitsOf(d) OBVIOUS
  <2>1. CommitsOf(d)' = CommitsOf(d) \cup {} BY <1>8
  <2> QED BY <2>1
<1> QED BY <1>6, <1>7, <1>9, <1>10, <1>11

LEMMA AnswerInvWriteHead ==
  ASSUME TInv, AnswerInv, NEW w \in Workers, WriteHead(w)
  PROVE  AnswerInv'
<1> USE DEF TInv
<1>0. PICK c, b, n : c = job[w] /\ b = req[w].branch /\ n = Len(log[b]) + 1 OBVIOUS
<1>1. pc[w] = "write" /\ c \in Clients BY <1>0 DEF WriteHead, JobInv
<1>2. UNCHANGED <<job, conn, reply>> /\ pc' = [pc EXCEPT ![w] = "reply"]
  BY DEF WriteHead, peer
<1>3. CommitsOf(c) = {} BY <1>0, <1>1 DEF AnswerInv, CommitsLast
<1>4. /\ CommitsOf(c)' = {<<b, n>>}
      /\ \A d : d # c => CommitsOf(d)' = CommitsOf(d)
  BY <1>0, <1>3, NewCommit
<1>5. conn[c] \in {"open", "cut"} /\ \A v \in Workers \ {w} : job[v] # c
  BY <1>0, <1>1, ConstantsAssumption DEF AnswerInv, OwnJob
<1>6. reply[c].kind = "none" BY <1>1, <1>5 DEF AnswerInv, AnsweredLast
<1>7. OwnJob' /\ AnsweredLast'
  BY <1>1, <1>2 DEF AnswerInv, OwnJob, AnsweredLast, TypeOK
<1>8. CommitsLast'
  <2>1. \A d \in Clients : conn'[d] = "new" => CommitsOf(d)' = {}
    BY <1>2, <1>4, <1>5 DEF AnswerInv, CommitsLast
  <2>2. ASSUME NEW v \in Workers, job'[v] \in Clients, pc'[v] # "reply"
        PROVE  CommitsOf(job[v])' = {}
    <3>1. v # w BY <1>2, <2>2 DEF TypeOK
    <3>2. pc'[v] = pc[v] /\ job'[v] = job[v] /\ job[v] # c
      BY <1>2, <1>5, <3>1 DEF TypeOK
    <3> QED BY <1>4, <2>2, <3>2 DEF AnswerInv, CommitsLast
  <2>3. \A v \in Workers : job'[v] \in Clients /\ pc'[v] # "reply" =>
          CommitsOf(job[v])' = {}
    BY <2>2
  <2> QED BY <2>1, <2>3 DEF CommitsLast
<1>9. RejectedLeavesNothing'
  <2>1. \A d \in Clients : \A p, q \in CommitsOf(d)' : p = q
    <3>1. ASSUME NEW d \in Clients, d # c PROVE \A p, q \in CommitsOf(d)' : p = q
      BY <1>4, <3>1 DEF AnswerInv, RejectedLeavesNothing
    <3> QED BY <1>4, <3>1
  <2>2. \A d \in Clients : reply'[d].kind = "conflict" => CommitsOf(d)' = {}
    BY <1>2, <1>4, <1>6 DEF AnswerInv, RejectedLeavesNothing
  <2> QED BY <2>1, <2>2 DEF RejectedLeavesNothing
<1> QED BY <1>7, <1>8, <1>9 DEF AnswerInv

\* A crash loses the answers of the connections that were open, and nothing
\* that was published.
LEMMA AnswerInvRestart ==
  ASSUME TInv, AnswerInv, Restart
  PROVE  AnswerInv'
<1> USE DEF TInv
<1>1. /\ \A w \in Workers : pc'[w] = "idle" /\ job'[w] = NoClient
      /\ \A c \in Clients : (conn'[c] = "new" /\ conn[c] = "new") \/ conn'[c] = "done"
      /\ log' = log
  BY DEF Restart, disk
<1>2. \A c \in Clients : reply'[c] = reply[c] \/ reply'[c].kind = "lost"
  BY DEF Restart, NoReply
<1>3. \A c : CommitsOf(c)' = CommitsOf(c) BY <1>1, SameCommits
<1>4. OwnJob' BY <1>1 DEF OwnJob
<1>5. AnsweredLast'
  <2>1. \A c \in Clients : conn[c] = "new" => reply'[c] = reply[c] BY DEF Restart
  <2> QED BY <1>1, <2>1 DEF AnswerInv, AnsweredLast
<1>6. CommitsLast' BY <1>1, <1>3, ConstantsAssumption DEF AnswerInv, CommitsLast
<1>7. RejectedLeavesNothing' BY <1>2, <1>3 DEF AnswerInv, RejectedLeavesNothing
<1> QED BY <1>4, <1>5, <1>6, <1>7 DEF AnswerInv

\* A worker that takes a connection takes one nobody has served.
LEMMA AnswerInvHandleClient ==
  ASSUME TInv, AnswerInv, NEW w \in Workers, NEW c \in Clients, HandleClient(w, c)
  PROVE  AnswerInv'
<1> USE DEF TInv
<1>1. PICK r \in Requests :
        pc' = [pc EXCEPT ![w] = IF r.kind = "push" THEN "lock" ELSE r.kind]
  BY DEF HandleClient
<1>2. r.kind \in {"push", "pull", "history", "other"} BY DEF Requests
<1>3. /\ conn[c] = "new" /\ conn' = [conn EXCEPT ![c] = "open"]
      /\ job' = [job EXCEPT ![w] = c]
      /\ UNCHANGED <<reply, log>>
  BY DEF HandleClient
<1>4. \A d : CommitsOf(d)' = CommitsOf(d) BY <1>3, SameCommits
<1>5. \A v \in Workers : job[v] # NoClient => job[v] \in Clients /\ job[v] # c
  BY <1>3 DEF TypeOK, AnswerInv, OwnJob
<1>6. OwnJob'
  <2>1. \A v \in Workers \ {w} : pc'[v] = pc[v] /\ job'[v] = job[v]
    BY <1>1, <1>3 DEF TypeOK
  <2>2. pc'[w] # "idle" /\ job'[w] = c BY <1>1, <1>2, <1>3 DEF TypeOK
  <2>3. \A d \in Clients : conn'[d] = IF d = c THEN "open" ELSE conn[d]
    BY <1>3 DEF TypeOK
  <2> QED BY <1>5, <2>1, <2>2, <2>3 DEF AnswerInv, OwnJob
<1>7. AnsweredLast' BY <1>3 DEF AnswerInv, AnsweredLast, TypeOK
<1>8. CommitsLast'
  BY <1>1, <1>2, <1>3, <1>4 DEF AnswerInv, CommitsLast, TypeOK
<1>9. RejectedLeavesNothing' BY <1>3, <1>4 DEF AnswerInv, RejectedLeavesNothing
<1> QED BY <1>6, <1>7, <1>8, <1>9 DEF AnswerInv

\* Every step but those that take a connection, answer, publish, or end the
\* process is quiet.
Quiet(w) ==
  Cut(w) \/ Lock(w) \/ LoadManifest(w) \/ RecvFile(w) \/ RecvCut(w) \/ RecvAfterCut(w)
  \/ RecvNoFile(w) \/ WriteManifest(w) \/ TruncateHead(w) \/ HistoryLoops(w)

LEMMA QuietSteps == ASSUME TInv, NEW w \in Workers, Quiet(w) PROVE QuietStep
<1> USE DEF TInv
<1>1. CASE Cut(w) BY <1>1 DEF Cut, QuietStep, TypeOK, worker
<1>2. CASE Lock(w) BY <1>2 DEF Lock, QuietStep, TypeOK, peer
<1>3. CASE LoadManifest(w) BY <1>3 DEF LoadManifest, QuietStep, TypeOK, peer
<1>4. ASSUME NEW e, Receiving(w), Receive(w, e),
             conn' = conn \/ (conn[job[w]] = "open" /\ conn' = [conn EXCEPT ![job[w]] = "cut"])
      PROVE  QuietStep
  BY <1>4 DEF Receive, Receiving, QuietStep, TypeOK
<1>5. CASE RecvFile(w) \/ RecvCut(w) \/ RecvAfterCut(w) \/ RecvNoFile(w)
  BY <1>4, <1>5 DEF RecvFile, RecvCut, RecvAfterCut, RecvNoFile
<1>6. CASE WriteManifest(w) BY <1>6 DEF WriteManifest, QuietStep, TypeOK, peer
<1>7. CASE TruncateHead(w) BY <1>7 DEF TruncateHead, QuietStep, TypeOK, peer
<1>8. CASE HistoryLoops(w) BY <1>8 DEF HistoryLoops, QuietStep, TypeOK, peer
<1> QED BY <1>1, <1>2, <1>3, <1>5, <1>6, <1>7, <1>8 DEF Quiet

\* The steps that answer, and what they say.
Answering(w) ==
  InvalidCommand(w) \/ HandlePull(w) \/ HandleHistory(w) \/ LoopMisses(w)
  \/ Conflict(w) \/ NoManifest(w) \/ Success(w)

LEMMA AnsweringSteps ==
  ASSUME NEW w \in Workers, Answering(w)
  PROVE  \E kind, hashes :
           /\ pc[w] # "idle" /\ Answer(w, kind, hashes) /\ log' = log
           /\ kind = "conflict" => pc[w] # "reply"
           /\ kind = "success" =>
                \/ "emfile" \in Faults
                \/ pc[w] = "reply" /\ hashes = <<entries[w]>>
<1>1. CASE InvalidCommand(w) BY <1>1 DEF InvalidCommand
<1>2. CASE HandlePull(w)
  <2>1. PICK h : \/ Answer(w, "no_commits", <<>>)
                 \/ Answer(w, "content", <<h>>)
                 \/ Answer(w, "missing", <<>>)
    BY <1>2 DEF HandlePull
  <2> QED BY <1>2, <2>1 DEF HandlePull
<1>3. CASE HandleHistory(w)
  <2>1. PICK h : \/ Answer(w, "no_commits", <<>>)
                 \/ Answer(w, "history", <<h, Garbage>>)
                 \/ Answer(w, "history", <<h>>)
    BY <1>3 DEF HandleHistory
  <2> QED BY <1>3, <2>1 DEF HandleHistory
<1>4. CASE Conflict(w) BY <1>4 DEF Conflict
<1>5. CASE NoManifest(w) BY <1>5 DEF NoManifest
<1>6. CASE Success(w) BY <1>6 DEF Success, disk
<1>7. CASE LoopMisses(w) BY <1>7 DEF LoopMisses
<1> QED BY <1>1, <1>2, <1>3, <1>4, <1>5, <1>6, <1>7 DEF Answering

LEMMA StepKinds ==
  ASSUME [Next]_vars
  PROVE  \/ \E w \in Workers : \E c \in Clients : HandleClient(w, c)
         \/ \E w \in Workers : Quiet(w) \/ Answering(w) \/ WriteHead(w)
         \/ Restart
         \/ UNCHANGED vars
BY DEF Next, Work, Crash, HeadNotOpened, ResponseOverrun, Rest, Quiet, Answering

LEMMA AnswerInvNext == TInv /\ AnswerInv /\ [Next]_vars => AnswerInv'
<1> SUFFICES ASSUME TInv, AnswerInv, [Next]_vars PROVE AnswerInv' OBVIOUS
<1>1. ASSUME NEW w \in Workers, NEW c \in Clients, HandleClient(w, c) PROVE AnswerInv'
  BY <1>1, AnswerInvHandleClient
<1>2. ASSUME NEW w \in Workers, Quiet(w) PROVE AnswerInv'
  BY <1>2, QuietSteps, AnswerInvQuiet
<1>3. ASSUME NEW w \in Workers, Answering(w) PROVE AnswerInv'
  BY <1>3, AnsweringSteps, AnswerInvAnswer
<1>4. ASSUME NEW w \in Workers, WriteHead(w) PROVE AnswerInv'
  BY <1>4, AnswerInvWriteHead
<1>5. CASE Restart BY <1>5, AnswerInvRestart
<1>6. CASE UNCHANGED vars
  <2>1. QuietStep BY <1>6 DEF QuietStep, vars, worker, peer
  <2> QED BY <2>1, AnswerInvQuiet
<1> QED BY <1>1, <1>2, <1>3, <1>4, <1>5, <1>6, StepKinds

LEMMA AnswerInvInit == Init => AnswerInv
<1> SUFFICES ASSUME Init PROVE AnswerInv OBVIOUS
<1>1. \A c : CommitsOf(c) = {}
  <2>1. \A b \in Branches : DOMAIN log[b] = {} BY DEF Init
  <2> QED BY <2>1, InCommitsOf
<1>2. NoReply.kind = "none" BY DEF NoReply
<1> QED BY <1>1, <1>2
        DEF Init, AnswerInv, OwnJob, AnsweredLast, CommitsLast, RejectedLeavesNothing

\* Whatever is cut, crashes or fails to open: a push that was told Conflict
\* has no commit, and no push has two.
THEOREM RejectedLeaveNothing == Spec => []RejectedLeavesNothing
<1>1. Init => TInv /\ AnswerInv BY TInvInit, AnswerInvInit
<1>2. TInv /\ AnswerInv /\ [Next]_vars => TInv' /\ AnswerInv'
  BY TInvNext, AnswerInvNext
<1>3. AnswerInv => RejectedLeavesNothing BY DEF AnswerInv
<1> QED BY <1>1, <1>2, <1>3, PTL DEF Spec

-----------------------------------------------------------------------------
(* SUCCESS.                                                                *)

\* What a worker is about to tell its client it has published.
IsCommit(c, b, m) ==
  \E at \in CommitsOf(c) : at[1] = b /\ log[at[1]][at[2]].manifest = m

AckInv ==
  /\ AckIsCommit
  /\ \A w \in Workers : pc[w] = "reply" => IsCommit(job[w], req[w].branch, entries[w])

LEMMA AckInvNext ==
  ASSUME "emfile" \notin Faults
  PROVE  TInv /\ AnswerInv /\ AckInv /\ [Next]_vars => AckInv'
<1> SUFFICES ASSUME TInv, AnswerInv, AckInv, [Next]_vars PROVE AckInv' OBVIOUS
<1> USE DEF TInv
<1>1. ASSUME log' = log,
             \A c \in Clients : reply'[c].kind = "success" =>
               \/ reply'[c] = reply[c]
               \/ \E b, m : IsCommit(c, b, m) /\ reply'[c].branch = b /\ reply'[c].hashes = <<m>>,
             \A w \in Workers : pc'[w] = "reply" =>
               /\ pc[w] = "reply" /\ job'[w] = job[w] /\ entries'[w] = entries[w]
               /\ req'[w] = req[w]
      PROVE  AckInv'
  <2>1. \A c : CommitsOf(c)' = CommitsOf(c) BY <1>1, SameCommits
  <2>2. \A c, b, m : IsCommit(c, b, m)' <=> IsCommit(c, b, m)
    BY <1>1, <2>1 DEF IsCommit
  <2>3. AckIsCommit'
    BY <1>1, <2>1 DEF AckInv, AckIsCommit, IsCommit
  <2>4. \A w \in Workers : pc'[w] = "reply" => IsCommit(job[w], req[w].branch, entries[w])
    BY <1>1 DEF AckInv
  <2>5. ASSUME NEW w \in Workers, pc'[w] = "reply"
        PROVE  IsCommit(job[w], req[w].branch, entries[w])'
    <3>1. PICK c, b, m : c = job[w] /\ b = req[w].branch /\ m = entries[w] OBVIOUS
    <3>2. IsCommit(c, b, m)' BY <2>2, <2>4, <2>5, <3>1
    <3>3. c = job'[w] /\ b = req'[w].branch /\ m = entries'[w] BY <1>1, <2>5, <3>1
    <3> QED BY <3>2, <3>3 DEF IsCommit, CommitsOf
  <2> QED BY <2>3, <2>5 DEF AckInv
<1>2. ASSUME NEW w \in Workers, NEW c \in Clients, HandleClient(w, c) PROVE AckInv'
  <2>1. PICK r \in Requests :
          pc' = [pc EXCEPT ![w] = IF r.kind = "push" THEN "lock" ELSE r.kind]
    BY <1>2 DEF HandleClient
  <2>2. r.kind \in {"push", "pull", "history", "other"} BY DEF Requests
  <2>3. \A v \in Workers \ {w} : pc'[v] = pc[v] /\ job'[v] = job[v] /\ req'[v] = req[v]
    BY <1>2, <2>1 DEF HandleClient, TypeOK
  <2>4. pc'[w] # "reply" BY <2>1, <2>2 DEF TypeOK
  <2>5. UNCHANGED <<entries, reply, log>> BY <1>2 DEF HandleClient
  <2> QED BY <1>1, <2>3, <2>4, <2>5
<1>3. ASSUME NEW w \in Workers, Quiet(w) PROVE AckInv'
  <2>1. /\ UNCHANGED <<job, reply, log>>
        /\ \A v \in Workers : pc'[v] = "reply" <=> pc[v] = "reply"
    BY <1>3, QuietSteps DEF QuietStep
  <2>2. req' = req
    BY <1>3 DEF Quiet, Cut, Lock, LoadManifest, RecvFile, RecvCut, RecvAfterCut, RecvNoFile,
                Receive, WriteManifest, TruncateHead, HistoryLoops, worker
  <2>3. \A v \in Workers : pc[v] = "reply" => entries'[v] = entries[v]
    <3>1. ASSUME NEW e, Receiving(w), Receive(w, e)
          PROVE  \A v \in Workers : pc[v] = "reply" => entries'[v] = entries[v]
      BY <3>1 DEF Receive, Receiving, TypeOK
    <3>2. CASE RecvFile(w) \/ RecvCut(w) \/ RecvAfterCut(w) \/ RecvNoFile(w)
      BY <3>1, <3>2 DEF RecvFile, RecvCut, RecvAfterCut, RecvNoFile
    <3>3. CASE LoadManifest(w) BY <3>3 DEF LoadManifest, TypeOK
    <3>4. CASE Cut(w) \/ Lock(w) \/ WriteManifest(w) \/ TruncateHead(w) \/ HistoryLoops(w)
      BY <3>4 DEF Cut, Lock, WriteManifest, TruncateHead, HistoryLoops, worker
    <3> QED BY <1>3, <3>2, <3>3, <3>4 DEF Quiet
  <2> QED BY <1>1, <2>1, <2>2, <2>3
<1>4. ASSUME NEW w \in Workers, Answering(w) PROVE AckInv'
  <2>1. PICK kind, hashes :
          /\ pc[w] # "idle" /\ Answer(w, kind, hashes) /\ log' = log
          /\ kind = "success" => pc[w] = "reply" /\ hashes = <<entries[w]>>
    BY <1>4, AnsweringSteps
  <2>2. job[w] \in Clients BY <2>1 DEF JobInv
  <2>3. \A c \in Clients : reply'[c].kind = "success" =>
          \/ reply'[c] = reply[c]
          \/ /\ c = job[w] /\ pc[w] = "reply"
             /\ reply'[c].branch = req[w].branch /\ reply'[c].hashes = <<entries[w]>>
    BY <2>1, <2>2 DEF Answer, TypeOK, NoReply
  <2>4. \A v \in Workers : pc'[v] = "reply" =>
          v # w /\ pc[v] = "reply" /\ job'[v] = job[v] /\ req'[v] = req[v]
    BY <2>1 DEF Answer, TypeOK
  <2>5. \A v \in Workers \ {w} : entries'[v] = entries[v]
    BY <1>4 DEF Answering, InvalidCommand, HandlePull, HandleHistory, LoopMisses, Conflict,
                NoManifest, Success, TypeOK
  <2> QED BY <1>1, <2>1, <2>3, <2>4, <2>5 DEF AckInv
<1>5. ASSUME NEW w \in Workers, WriteHead(w) PROVE AckInv'
  <2>1. PICK c, b, n : c = job[w] /\ b = req[w].branch /\ n = Len(log[b]) + 1 OBVIOUS
  <2>2. UNCHANGED <<job, req, entries, reply>> /\ pc' = [pc EXCEPT ![w] = "reply"]
    BY <1>5 DEF WriteHead, peer
  <2>3. /\ <<b, n>> \in CommitsOf(c)' /\ log'[b][n].manifest = entries[w]
        /\ \A d : CommitsOf(d) \subseteq CommitsOf(d)'
        /\ \A d : \A p \in CommitsOf(d) : log'[p[1]][p[2]] = log[p[1]][p[2]]
    BY <1>5, <2>1, NewCommit
  <2>4. AckIsCommit'
    BY <2>2, <2>3 DEF AckInv, AckIsCommit
  <2>5. IsCommit(c, b, entries[w])' BY <2>2, <2>3 DEF IsCommit
  <2>6. \A d, a, m : IsCommit(d, a, m) => IsCommit(d, a, m)'
    BY <2>3 DEF IsCommit
  <2>7. ASSUME NEW v \in Workers, pc'[v] = "reply"
        PROVE  IsCommit(job[v], req[v].branch, entries[v])'
    <3>1. PICK d, a, m : d = job[v] /\ a = req[v].branch /\ m = entries[v] OBVIOUS
    <3>2. CASE v = w BY <2>1, <2>2, <2>5, <3>2 DEF IsCommit, CommitsOf
    <3>3. CASE v # w
      <4>1. IsCommit(d, a, m) BY <2>2, <2>7, <3>1, <3>3 DEF AckInv, TypeOK
      <4>2. IsCommit(d, a, m)' BY <2>6, <4>1
      <4>3. d = job'[v] /\ a = req'[v].branch /\ m = entries'[v] BY <2>2, <3>1
      <4> QED BY <4>2, <4>3 DEF IsCommit, CommitsOf
    <3> QED BY <3>2, <3>3
  <2> QED BY <2>4, <2>7 DEF AckInv
<1>6. CASE Restart
  <2>1. \A c \in Clients : reply'[c] = reply[c] \/ reply'[c].kind = "lost"
    BY <1>6 DEF Restart, NoReply
  <2>2. \A w \in Workers : pc'[w] = "idle" BY <1>6 DEF Restart
  <2>3. log' = log BY <1>6 DEF Restart
  <2> QED BY <1>1, <2>1, <2>2, <2>3
<1>7. CASE UNCHANGED vars
  BY <1>1, <1>7 DEF vars, worker, peer
<1> QED BY <1>2, <1>3, <1>4, <1>5, <1>6, <1>7, StepKinds

\* While files can be opened, and through crashes and broken connections: a
\* client that was told SUCCESS has a commit with the hash it was told.
THEOREM AcksAreCommits ==
  ASSUME "emfile" \notin Faults
  PROVE  Spec => []AckIsCommit
<1>1. Init => TInv /\ AnswerInv /\ AckInv
  <2>1. NoReply.kind = "none" BY DEF NoReply
  <2>2. Init => AckInv BY <2>1 DEF Init, AckInv, AckIsCommit
  <2> QED BY <2>2, TInvInit, AnswerInvInit
<1>2. TInv /\ AnswerInv /\ AckInv /\ [Next]_vars => TInv' /\ AnswerInv' /\ AckInv'
  BY TInvNext, AnswerInvNext, AckInvNext
<1>3. AckInv => AckIsCommit BY DEF AckInv
<1> QED BY <1>1, <1>2, <1>3, PTL DEF Spec

-----------------------------------------------------------------------------
(* What EveryRequestEnds rests on besides fairness: branch_lock comes back, *)
(* somebody can always go on, and the steps of a request run out.           *)

\* The steps that are not of the holder of branch_lock leave it alone.
LEMMA LockInvNext == TypeOK /\ LockInv /\ [Next]_vars => LockInv'
<1> SUFFICES ASSUME TypeOK, LockInv, [Next]_vars PROVE LockInv' OBVIOUS
<1>0. \A w \in Workers : pc[w] \in Critical => lock = w /\ \A v \in Workers \ {w} : pc[v] \notin Critical
  BY OnlyHolderPushes
<1>1. ASSUME NEW w \in Workers, NEW c \in Clients, HandleClient(w, c) PROVE LockInv'
  <2>1. PICK r \in Requests :
          pc' = [pc EXCEPT ![w] = IF r.kind = "push" THEN "lock" ELSE r.kind]
    BY <1>1 DEF HandleClient
  <2>2. r.kind \in {"push", "pull", "history", "other"} BY DEF Requests
  <2>3. pc[w] = "idle" /\ lock' = lock BY <1>1 DEF HandleClient
  <2> QED BY <2>1, <2>2, <2>3 DEF LockInv, Critical, TypeOK
<1>2. ASSUME NEW w \in Workers, Lock(w) PROVE LockInv'
  BY <1>2, ConstantsAssumption DEF Lock, LockInv, Critical, TypeOK
<1>3. ASSUME NEW w \in Workers, pc'[w] \notin Critical, pc[w] \in Critical, lock' = NoWorker,
             \A v \in Workers \ {w} : pc'[v] = pc[v]
      PROVE  LockInv'
  BY <1>0, <1>3, ConstantsAssumption DEF LockInv
<1>4. ASSUME NEW w \in Workers, Conflict(w) \/ NoManifest(w) \/ WriteHead(w) PROVE LockInv'
  BY <1>3, <1>4 DEF Conflict, NoManifest, WriteHead, Answer, Critical, TypeOK
<1>5. ASSUME NEW w \in Workers, lock' = lock, pc'[w] \in Critical <=> pc[w] \in Critical,
             \A v \in Workers \ {w} : pc'[v] = pc[v]
      PROVE  LockInv'
  BY <1>5 DEF LockInv
<1>6. ASSUME NEW w \in Workers,
             \/ InvalidCommand(w) \/ HandlePull(w) \/ HandleHistory(w) \/ LoopMisses(w)
             \/ Success(w)
      PROVE  LockInv'
  <2>1. PICK kind, hashes : Answer(w, kind, hashes)
    BY <1>6 DEF InvalidCommand, HandlePull, HandleHistory, LoopMisses, Success
  <2>2. pc[w] \notin Critical /\ lock' = lock
    BY <1>6 DEF InvalidCommand, HandlePull, HandleHistory, LoopMisses, Success, Critical
  <2> QED BY <1>5, <2>1, <2>2 DEF Answer, Critical, TypeOK
<1>7. ASSUME NEW w \in Workers,
             LoadManifest(w) \/ WriteManifest(w) \/ TruncateHead(w) \/ HistoryLoops(w)
      PROVE  LockInv'
  BY <1>5, <1>7 DEF LoadManifest, WriteManifest, TruncateHead, HistoryLoops, Critical, TypeOK
<1>8. ASSUME NEW w \in Workers,
             Cut(w) \/ RecvFile(w) \/ RecvCut(w) \/ RecvAfterCut(w) \/ RecvNoFile(w)
      PROVE  LockInv'
  <2>1. UNCHANGED <<pc, lock>>
    BY <1>8 DEF Cut, RecvFile, RecvCut, RecvAfterCut, RecvNoFile, Receive, worker
  <2> QED BY <2>1 DEF LockInv
<1>9. CASE Restart BY <1>9, ConstantsAssumption DEF Restart, LockInv, Critical
<1>10. CASE UNCHANGED vars BY <1>10 DEF vars, worker, LockInv
<1> QED
  BY <1>1, <1>2, <1>4, <1>6, <1>7, <1>8, <1>9, <1>10, StepKinds DEF Quiet, Answering

\* Whatever fails, every way out of handle_push gives branch_lock back, none
\* gives back another's, and a server that starts again finds it free: the
\* mutex is held exactly while a worker is between its lock and its unlock.
THEOREM LockIsHeldInPushes == Spec => []LockInv
<1>1. Init => TInv /\ LockInv BY TInvInit, PushLockInvInit DEF PushLockInv
<1>2. TInv /\ LockInv /\ [Next]_vars => TInv' /\ LockInv' BY TInvNext, LockInvNext DEF TInv
<1> QED BY <1>1, <1>2, PTL DEF Spec

\* The guard of some step of w by itself.  The one that is always enabled in the
\* loop of handle_history is the end of the process.
CanStep(w) ==
  \/ pc[w] \in {"pull", "history", "other", "truncate", "write", "reply"}
  \/ pc[w] = "loop"
  \/ pc[w] = "lock" /\ lock = NoWorker
  \/ pc[w] = "check" /\ \E h \in ReadHead(w) : Rejected(w, h) \/ h \in manifests \/ MayMiss(h)
  \/ pc[w] = "recv" /\ (todo[w] = <<>> \/ conn[job[w]] \in {"open", "cut"})

\* A worker with a connection can go on, or waits for one that can.
NobodyStuck ==
  \A w \in Workers : pc[w] # "idle" =>
    \/ CanStep(w)
    \/ pc[w] = "lock" /\ lock \in Workers /\ pc[lock] # "loop" /\ CanStep(lock)

LEMMA BusyCanStep ==
  ASSUME TInv, AnswerInv, NEW w \in Workers, pc[w] \notin {"idle", "lock"}
  PROVE  CanStep(w)
<1>1. pc[w] \in PCs BY DEF TInv, TypeOK, PCs
<1>2. CASE pc[w] = "check"
  <2>1. \E h : h \in ReadHead(w) BY DEF ReadHead
  <2> QED BY <1>2, <2>1 DEF CanStep, MayMiss
<1>3. CASE pc[w] = "recv"
  <2>1. job[w] \in Clients BY <1>3 DEF TInv, JobInv
  <2>2. conn[job[w]] \in {"open", "cut"}
    BY <2>1, ConstantsAssumption DEF AnswerInv, OwnJob
  <2> QED BY <1>3, <2>2 DEF CanStep
<1> QED BY <1>1, <1>2, <1>3 DEF CanStep, PCs

\* Nobody waits for branch_lock for ever because of a deadlock, under any fault:
\* the worker that has it does not wait for another one, and is not one that
\* turns in the loop of handle_history.
THEOREM NobodyIsStuck == Spec => []NobodyStuck
<1>1. Init => TInv /\ AnswerInv /\ LockInv
  BY TInvInit, AnswerInvInit, PushLockInvInit DEF PushLockInv
<1>2. TInv /\ AnswerInv /\ LockInv /\ [Next]_vars => TInv' /\ AnswerInv' /\ LockInv'
  BY TInvNext, AnswerInvNext, LockInvNext DEF TInv
<1>3. TInv /\ AnswerInv /\ LockInv => NobodyStuck
  <2> SUFFICES ASSUME TInv, AnswerInv, LockInv, NEW w \in Workers, pc[w] # "idle"
               PROVE  \/ CanStep(w)
                      \/ pc[w] = "lock" /\ lock \in Workers /\ pc[lock] # "loop" /\ CanStep(lock)
    BY DEF NobodyStuck
  <2>1. CASE pc[w] # "lock" BY <2>1, BusyCanStep
  <2>2. CASE pc[w] = "lock" /\ lock = NoWorker BY <2>2 DEF CanStep
  <2>3. CASE pc[w] = "lock" /\ lock # NoWorker
    <3>1. lock \in Workers BY <2>3 DEF TInv, TypeOK
    <3>2. pc[lock] \in Critical BY <3>1 DEF LockInv
    <3> QED BY <2>3, <3>1, <3>2, BusyCanStep DEF Critical
  <2> QED BY <2>1, <2>2, <2>3
<1> QED BY <1>1, <1>2, <1>3, PTL DEF Spec

\* How many steps w has at most until it waits for a connection again, or is in
\* the loop of handle_history over an empty manifest, whose turns are not bounded.
StepsLeft(w) ==
  CASE pc[w] \in {"idle", "loop"} -> 0
    [] pc[w] \in {"pull", "history", "other", "reply"} -> 1
    [] pc[w] = "write"    -> 2
    [] pc[w] = "truncate" -> 3
    [] pc[w] = "recv"     -> 4 + Len(todo[w])
    [] pc[w] = "check"    -> 5 + Len(req[w].files)
    [] pc[w] = "lock"     -> 6 + Len(req[w].files)

LEMMA StepsLeftIs ==
  ASSUME NEW w
  PROVE  /\ pc[w] \in {"idle", "loop"} => StepsLeft(w) = 0
         /\ pc[w] \in {"pull", "history", "other", "reply"} => StepsLeft(w) = 1
         /\ pc[w] = "write" => StepsLeft(w) = 2
         /\ pc[w] = "truncate" => StepsLeft(w) = 3
         /\ pc[w] = "recv" => StepsLeft(w) = 4 + Len(todo[w])
         /\ pc[w] = "check" => StepsLeft(w) = 5 + Len(req[w].files)
         /\ pc[w] = "lock" => StepsLeft(w) = 6 + Len(req[w].files)
BY DEF StepsLeft

LEMMA StepsLeftWillBe ==
  ASSUME NEW w
  PROVE  /\ pc'[w] \in {"idle", "loop"} => StepsLeft(w)' = 0
         /\ pc'[w] \in {"pull", "history", "other", "reply"} => StepsLeft(w)' = 1
         /\ pc'[w] = "write" => StepsLeft(w)' = 2
         /\ pc'[w] = "truncate" => StepsLeft(w)' = 3
         /\ pc'[w] = "recv" => StepsLeft(w)' = 4 + Len(todo'[w])
         /\ pc'[w] = "check" => StepsLeft(w)' = 5 + Len(req'[w].files)
         /\ pc'[w] = "lock" => StepsLeft(w)' = 6 + Len(req'[w].files)
BY DEF StepsLeft

LEMMA StepsLeftType ==
  ASSUME TypeOK, NEW w \in Workers
  PROVE  /\ StepsLeft(w) \in Nat
         /\ pc[w] \notin {"idle", "loop"} => StepsLeft(w) > 0
         /\ Len(todo[w]) \in Nat /\ Len(req[w].files) \in Nat
<1>1. Len(todo[w]) \in Nat BY DEF TypeOK
<1>2. Len(req[w].files) \in Nat BY ConstantsAssumption DEF TypeOK, Request
<1>3. pc[w] \in PCs BY DEF TypeOK, PCs
<1>4. StepsLeft(w) \in Nat BY <1>1, <1>2, <1>3, StepsLeftIs DEF PCs
<1>5. pc[w] \notin {"idle", "loop"} => StepsLeft(w) > 0
  BY <1>1, <1>2, <1>3, StepsLeftIs DEF PCs
<1> QED BY <1>1, <1>2, <1>4, <1>5

\* A turn of the loop over the files, whole or cut.
LEMMA ReceiveAdvances ==
  ASSUME TypeOK, NEW w \in Workers, NEW e, Receiving(w), Receive(w, e)
  PROVE  /\ StepsLeft(w)' \in Nat /\ StepsLeft(w)' < StepsLeft(w)
         /\ \A v \in Workers \ {w} : UNCHANGED <<pc[v], todo[v], req[v]>>
<1>1. /\ pc[w] = "recv" /\ pc'[w] = "recv" /\ todo'[w] = Tail(todo[w])
      /\ \A v \in Workers \ {w} : UNCHANGED <<pc[v], todo[v], req[v]>>
  BY DEF Receive, Receiving, TypeOK
<1>2. todo[w] \in Seq(Entry) /\ todo[w] # <<>> BY DEF Receiving, TypeOK
<1>3. Len(todo'[w]) = Len(todo[w]) - 1 /\ Len(todo[w]) \in Nat BY <1>1, <1>2
<1>4. StepsLeft(w) = 4 + Len(todo[w]) BY <1>1, StepsLeftIs
<1>5. StepsLeft(w)' = 4 + Len(todo'[w]) BY <1>1, StepsLeftWillBe
<1> QED BY <1>1, <1>3, <1>4, <1>5

\* A step of w by itself uses one up, and is no step of another worker.
LEMMA WorkAdvances ==
  ASSUME TypeOK, NEW w \in Workers, Work(w), pc[w] # "loop"
  PROVE  /\ StepsLeft(w)' \in Nat /\ StepsLeft(w)' < StepsLeft(w)
         /\ \A v \in Workers \ {w} : UNCHANGED <<pc[v], todo[v], req[v]>>
<1>0. /\ Len(todo[w]) \in Nat /\ Len(req[w].files) \in Nat
      /\ StepsLeft(w) \in Nat
      /\ pc[w] # "idle" => StepsLeft(w) > 0
  BY StepsLeftType
<1>1. ASSUME Answering(w)
      PROVE  /\ StepsLeft(w)' \in Nat /\ StepsLeft(w)' < StepsLeft(w)
             /\ \A v \in Workers \ {w} : UNCHANGED <<pc[v], todo[v], req[v]>>
  <2>1. PICK kind, hashes : pc[w] # "idle" /\ Answer(w, kind, hashes)
    BY <1>1, AnsweringSteps
  <2>2. todo' = todo
    BY <1>1 DEF Answering, InvalidCommand, HandlePull, HandleHistory, LoopMisses, Conflict,
                NoManifest, Success
  <2>3. /\ pc'[w] = "idle"
        /\ \A v \in Workers \ {w} : UNCHANGED <<pc[v], todo[v], req[v]>>
    BY <2>1, <2>2 DEF Answer, TypeOK
  <2>4. StepsLeft(w)' = 0 BY <2>3, StepsLeftWillBe
  <2> QED BY <1>0, <2>1, <2>3, <2>4
<1>2. ASSUME RecvFile(w) \/ RecvAfterCut(w) \/ RecvNoFile(w)
      PROVE  /\ StepsLeft(w)' \in Nat /\ StepsLeft(w)' < StepsLeft(w)
             /\ \A v \in Workers \ {w} : UNCHANGED <<pc[v], todo[v], req[v]>>
  <2>1. PICK e : Receiving(w) /\ Receive(w, e)
    BY <1>2 DEF RecvFile, RecvAfterCut, RecvNoFile
  <2> QED BY <2>1, ReceiveAdvances
<1>3. CASE Lock(w)
  <2>1. /\ pc[w] = "lock" /\ pc'[w] = "check" /\ req' = req
        /\ \A v \in Workers \ {w} : UNCHANGED <<pc[v], todo[v], req[v]>>
    BY <1>3 DEF Lock, TypeOK
  <2> QED BY <1>0, <2>1, StepsLeftIs, StepsLeftWillBe
<1>4. CASE LoadManifest(w)
  <2>1. /\ pc[w] = "check" /\ pc'[w] = "recv" /\ req' = req /\ todo'[w] = req[w].files
        /\ \A v \in Workers \ {w} : UNCHANGED <<pc[v], todo[v], req[v]>>
    BY <1>4 DEF LoadManifest, TypeOK
  <2> QED BY <1>0, <2>1, StepsLeftIs, StepsLeftWillBe
<1>5. CASE WriteManifest(w)
  <2>1. /\ pc[w] = "recv" /\ pc'[w] = "truncate"
        /\ \A v \in Workers \ {w} : UNCHANGED <<pc[v], todo[v], req[v]>>
    BY <1>5 DEF WriteManifest, TypeOK
  <2> QED BY <1>0, <2>1, StepsLeftIs, StepsLeftWillBe
<1>6. CASE TruncateHead(w)
  <2>1. /\ pc[w] = "truncate" /\ pc'[w] = "write"
        /\ \A v \in Workers \ {w} : UNCHANGED <<pc[v], todo[v], req[v]>>
    BY <1>6 DEF TruncateHead, TypeOK
  <2> QED BY <2>1, StepsLeftIs, StepsLeftWillBe
<1>7. CASE WriteHead(w)
  <2>1. /\ pc[w] = "write" /\ pc'[w] = "reply"
        /\ \A v \in Workers \ {w} : UNCHANGED <<pc[v], todo[v], req[v]>>
    BY <1>7 DEF WriteHead, TypeOK
  <2> QED BY <2>1, StepsLeftIs, StepsLeftWillBe
<1>8. CASE HistoryLoops(w)
  <2>1. /\ pc[w] = "history" /\ pc'[w] = "loop"
        /\ \A v \in Workers \ {w} : UNCHANGED <<pc[v], todo[v], req[v]>>
    BY <1>8 DEF HistoryLoops, TypeOK
  <2> QED BY <2>1, StepsLeftIs, StepsLeftWillBe
<1>9. ~ResponseOverrun(w) BY DEF ResponseOverrun
<1> QED BY <1>1, <1>2, <1>3, <1>4, <1>5, <1>6, <1>7, <1>8, <1>9 DEF Work, Answering

\* Every step of a worker uses up one of those its request has left until it is
\* in the loop of handle_history, and no step of anybody gives it more.
RequestsAdvance ==
  [][\A w \in Workers :
       /\ Work(w) /\ pc[w] # "loop" => StepsLeft(w)' < StepsLeft(w)
       /\ pc[w] # "idle" => StepsLeft(w)' <= StepsLeft(w)]_vars

LEMMA NobodyGoesBack ==
  ASSUME TypeOK, Next, NEW w \in Workers, pc[w] # "idle"
  PROVE  StepsLeft(w)' <= StepsLeft(w)
<1>0. StepsLeft(w) \in Nat BY StepsLeftType
<1>1. ASSUME UNCHANGED <<pc[w], todo[w], req[w]>> PROVE StepsLeft(w)' <= StepsLeft(w)
  <2>1. StepsLeft(w)' = StepsLeft(w) BY <1>1 DEF StepsLeft
  <2> QED BY <1>0, <2>1
<1>2. ASSUME NEW v \in Workers, NEW c \in Clients, HandleClient(v, c)
      PROVE  StepsLeft(w)' <= StepsLeft(w)
  <2>1. v # w BY <1>2 DEF HandleClient
  <2> QED BY <1>1, <1>2, <2>1 DEF HandleClient, TypeOK
<1>3. ASSUME NEW v \in Workers, Work(v), pc[v] # "loop"
      PROVE  StepsLeft(w)' <= StepsLeft(w)
  <2>1. CASE v = w
    <3>1. StepsLeft(w)' \in Nat /\ StepsLeft(w)' < StepsLeft(w) BY <1>3, <2>1, WorkAdvances
    <3> QED BY <1>0, <3>1
  <2>2. CASE v # w BY <1>1, <1>3, <2>2, WorkAdvances
  <2> QED BY <2>1, <2>2
<1>4. ASSUME NEW v \in Workers, RecvCut(v) PROVE StepsLeft(w)' <= StepsLeft(w)
  <2>1. PICK e : Receiving(v) /\ Receive(v, e) BY <1>4 DEF RecvCut
  <2>2. CASE v # w BY <1>1, <2>1, <2>2, ReceiveAdvances
  <2> QED BY <1>0, <2>1, <2>2, ReceiveAdvances
<1>5. ASSUME NEW v \in Workers, Cut(v) PROVE StepsLeft(w)' <= StepsLeft(w)
  BY <1>1, <1>5 DEF Cut, worker
<1>6. ASSUME Restart PROVE StepsLeft(w)' <= StepsLeft(w)
  <2>1. pc'[w] = "idle" BY <1>6 DEF Restart
  <2>2. StepsLeft(w)' = 0 BY <2>1, StepsLeftWillBe
  <2> QED BY <1>0, <2>2
<1>7. ASSUME Rest PROVE StepsLeft(w)' <= StepsLeft(w) BY <1>1, <1>7 DEF Rest, vars, worker
<1>8. ASSUME NEW v \in Workers, Work(v), pc[v] = "loop" PROVE StepsLeft(w)' <= StepsLeft(w)
  <2>1. LoopMisses(v) \/ Restart
    BY <1>8 DEF Work, InvalidCommand, HandlePull, HandleHistory, HistoryLoops,
       ResponseOverrun, Lock, Conflict, LoadManifest, RecvFile, RecvAfterCut, RecvNoFile,
       Receiving, WriteManifest, NoManifest, TruncateHead, WriteHead, Success
  <2>2. CASE LoopMisses(v)
    <3>1. /\ pc' = [pc EXCEPT ![v] = "idle"] /\ UNCHANGED todo
          /\ \A u \in Workers \ {v} : req'[u] = req[u]
      BY <2>2 DEF LoopMisses, Answer, TypeOK
    <3>2. CASE v = w
      <4>1. pc'[w] = "idle" BY <3>1, <3>2 DEF TypeOK
      <4>2. StepsLeft(w)' = 0 BY <4>1, StepsLeftWillBe
      <4> QED BY <1>0, <4>2
    <3>3. CASE v # w BY <1>1, <3>1, <3>3 DEF TypeOK
    <3> QED BY <3>2, <3>3
  <2> QED BY <1>6, <2>1, <2>2
<1> QED BY <1>2, <1>3, <1>4, <1>5, <1>6, <1>7, <1>8 DEF Next, Crash, HeadNotOpened

\* A request takes at most six steps and one per announced file until its worker
\* waits again, whatever is cut, crashes or fails to open: no loop of handle_push
\* starts over.  The exception is a HISTORY that finds an empty manifest, whose
\* loop nothing bounds but the end of the process; OnlyEmptyPushesLoop says when
\* there is none.  With NobodyIsStuck this is what EveryRequestEnds needs besides
\* fairness.
THEOREM RequestsRunOut == Spec => RequestsAdvance
<1>1. Spec => []TypeOK BY TypeCorrect
<1>2. ASSUME TypeOK, [Next]_vars
      PROVE  [\A w \in Workers :
                /\ Work(w) /\ pc[w] # "loop" => StepsLeft(w)' < StepsLeft(w)
                /\ pc[w] # "idle" => StepsLeft(w)' <= StepsLeft(w)]_vars
  <2>1. CASE Next BY <1>2, <2>1, WorkAdvances, NobodyGoesBack
  <2> QED BY <1>2, <2>1
<1> QED BY <1>1, <1>2, PTL DEF Spec, RequestsAdvance
=============================================================================
