--------------------------- MODULE ProxyServProofs ---------------------------
(***************************************************************************)
(* Proofs about ProxyServ: type correctness, and that the server is asked  *)
(* for what was typed at the prompts for it, for any number of branches,   *)
(* lines of the clients and words.                                         *)
(***************************************************************************)
EXTENDS ProxyServ, TLAPS, WellFoundedInduction

-----------------------------------------------------------------------------
(* The first place of a line.                                              *)

\* A set of numbers that is not empty has a least one.
LEMMA LeastExists ==
  ASSUME NEW I \in SUBSET Nat, I # {} PROVE Min(I) \in I /\ \A j \in I : Min(I) <= j
<1> DEFINE less == {ss \in Nat \X Nat : ss[1] < ss[2]}
<1>1. IsWellFoundedOn(less, Nat) BY NatLessThanWellFounded DEF OpToRel
<1> HIDE DEF less
<1>2. PICK i \in I : \A j \in I : ~(<<j, i>> \in less) BY <1>1, WFMin
<1>3. \A j \in I : i <= j
  <2> SUFFICES ASSUME NEW j \in I PROVE i <= j OBVIOUS
  <2>1. ~(j < i) BY <1>2 DEF less
  <2> QED BY <2>1
<1> QED BY <1>3 DEF Min

\* The first place of a sequence that is one of some.
LEMMA FirstOf ==
  ASSUME NEW S, NEW s \in Seq(S), NEW I \in SUBSET (1..Len(s))
  PROVE  I # {} => /\ Min(I) \in I /\ \A j \in 1..(Min(I) - 1) : j \notin I
<1>1. I \in SUBSET Nat OBVIOUS
<1>2. I # {} => Min(I) \in I /\ \A j \in I : Min(I) <= j BY <1>1, LeastExists
<1>3. Len(s) \in Nat OBVIOUS
<1> DEFINE m == Min(I)
<1> SUFFICES ASSUME m \in I, \A j \in I : m <= j
             PROVE  m \in I /\ \A j \in 1..(m - 1) : j \notin I
  BY <1>2
<1> HIDE DEF m
<1> QED BY <1>3

\* Where the first newline is, which fgets looks for.
LEMMA FirstNewline ==
  ASSUME stdin \in Seq(Words \cup {Newline})
  PROVE  /\ End \in 0..Len(stdin)
         /\ End > 0 => stdin[End] = Newline /\ \A j \in 1..(End - 1) : stdin[j] # Newline
         /\ End = 0 => \A j \in 1..Len(stdin) : stdin[j] # Newline
<1> DEFINE I == {i \in 1..Len(stdin) : stdin[i] = Newline}
<1>1. End = IF I # {} THEN Min(I) ELSE 0 BY DEF End, SelectInSeq
<1>2. I # {} => Min(I) \in I /\ \A j \in 1..(Min(I) - 1) : j \notin I BY FirstOf
<1>3. Len(stdin) \in Nat /\ I \subseteq 1..Len(stdin) OBVIOUS
<1>4. CASE I = {} BY <1>1, <1>3, <1>4
<1>5. CASE I # {}
  <2>1. End \in I /\ \A j \in 1..(End - 1) : j \notin I BY <1>1, <1>2, <1>5
  <2>2. End \in 1..Len(stdin) BY <1>3, <2>1
  <2>3. \A j \in 1..(End - 1) : j \in 1..Len(stdin) BY <1>3, <2>2
  <2> QED BY <1>3, <2>1, <2>2, <2>3
<1> QED BY <1>4, <1>5

\* What fgets leaves in a buffer is words.
LEMMA FgetsTyped ==
  ASSUME stdin \in Seq(Words \cup {Newline}), End > 0
  PROVE  Fgets \in Seq(Words) /\ After(End) \in Seq(Words \cup {Newline})
<1>1. /\ End \in 1..Len(stdin) /\ \A j \in 1..(End - 1) : stdin[j] # Newline
  BY FirstNewline
<1>2. /\ Fgets \in Seq(Words \cup {Newline}) /\ Len(Fgets) = End - 1
      /\ \A j \in 1..(End - 1) : Fgets[j] = stdin[j]
  BY <1>1 DEF Fgets
<1>3. \A j \in 1..Len(Fgets) : Fgets[j] \in Words BY <1>1, <1>2
<1>4. Fgets \in Seq(Words) BY <1>2, <1>3
<1>5. After(End) \in Seq(Words \cup {Newline}) BY <1>1 DEF After
<1> QED BY <1>4, <1>5

\* What scanf leaves.
LEMMA ScanTyped ==
  ASSUME stdin \in Seq(Words \cup {Newline}), Scan
  PROVE  stdin' \in Seq(Words \cup {Newline})
<1> DEFINE I == {i \in 1..Len(stdin) : stdin[i] # Newline}
           m == IF I # {} THEN Min(I) ELSE 0
<1>1. m > 0 /\ stdin' = After(m) BY DEF Scan, SelectInSeq
<1>2. I # {} => Min(I) \in I BY FirstOf
<1>3. m \in 1..Len(stdin) BY <1>1, <1>2
<1> HIDE DEF m
<1> QED BY <1>1, <1>3 DEF After

-----------------------------------------------------------------------------
(* Types.                                                                  *)

\* What was typed at a prompt.
LEMMA AnswersTyped ==
  ASSUME NEW prompt \in Prompts, NEW words \in Answers(prompt)
  PROVE  words \in Seq(Words)
<1>1. CASE prompt = "branch"
  <2>1. PICK b \in Branches : words = <<b>> BY <1>1 DEF Answers
  <2>2. b \in Words BY DEF Words
  <2> QED BY <2>1, <2>2
<1>2. CASE prompt # "branch"
  <2>1. PICK n \in Nat : words = [k \in 1..n |-> prompt]
    BY <1>2, ProxyServAssumption DEF Answers
  <2> QED BY <1>2, <2>1 DEF Words
<1> QED BY <1>1, <1>2

LEMMA DiesTyped == ASSUME TypeOK, Dies, UNCHANGED <<queue, sent, serverUp, told>>,
    {repo', scanned'} \subseteq BOOLEAN, faults' \subseteq Faults,
    refs' \in [Branches -> {Absent, Empty, Commit, FileHash}]
  PROVE  TypeOK'
<1>1. <<>> \in Seq(Words) /\ <<>> \in Seq(Words \cup {Newline}) /\ <<>> \in Seq(Prompts)
  OBVIOUS
<1> QED BY <1>1 DEF TypeOK, Dies

\* The clients, the user and what happens around the proxy.
LEMMA WorldTyped ==
  ASSUME TypeOK, Send \/ Type \/ RedisStops \/ ServerStops \/ Ipcrm \/ Start \/ Kill
  PROVE  TypeOK'
<1>1. CASE Send
  <2>1. sent' \in 0..MaxCommands BY <1>1, ProxyServAssumption DEF Send, TypeOK
  <2>2. queue' \in Seq(Commands) BY <1>1 DEF Send, TypeOK
  <2> QED BY <1>1, <2>1, <2>2 DEF Send, TypeOK, proxy, disk, seen
<1>2. CASE Type
  <2>1. PICK i \in DOMAIN asked : \E words \in Answers(asked[i]) :
          /\ stdin' = stdin \o words \o <<Newline>>
          /\ asked' = SubSeq(asked, i + 1, Len(asked))
    BY <1>2 DEF Type
  <2>2. asked \in Seq(Prompts) /\ stdin \in Seq(Words \cup {Newline}) BY DEF TypeOK
  <2>3. asked[i] \in Prompts /\ asked' \in Seq(Prompts) BY <2>1, <2>2
  <2>4. PICK words \in Seq(Words) : stdin' = stdin \o words \o <<Newline>>
    BY <2>1, <2>3, AnswersTyped
  <2>5. stdin' \in Seq(Words \cup {Newline})
    <3>1. words \in Seq(Words \cup {Newline}) /\ <<Newline>> \in Seq(Words \cup {Newline})
      OBVIOUS
    <3> QED BY <2>2, <2>4, <3>1
  <2> QED BY <1>2, <2>3, <2>5 DEF Type, TypeOK, proxy, disk, seen
<1>3. CASE RedisStops \/ ServerStops \/ Ipcrm \/ Start
  <2>1. <<>> \in Seq(Commands) OBVIOUS
  <2> QED BY <1>3, <2>1 DEF RedisStops, ServerStops, Ipcrm, Start, Fault, TypeOK, proxy, world,
        disk, seen
<1>4. CASE Kill
  BY <1>4, DiesTyped DEF Kill, Fault, TypeOK, disk
<1> QED BY <1>1, <1>2, <1>3, <1>4

\* Commands of main and handle_request.
LEMMA RequestTyped ==
  ASSUME TypeOK, Msgrcv \/ handle_request \/ git_init_at_client \/ git_add_at_client
  PROVE  TypeOK'
<1>1. CASE Msgrcv
  <2>0. /\ queue \in Seq(Commands) /\ inpcmd \in Commands \cup {NoCommand}
        /\ sent \in 0..MaxCommands
    BY DEF TypeOK
  <2>1. CASE queue # <<>> /\ inpcmd' = Head(queue) /\ queue' = Tail(queue) /\ sent' = sent
    BY <1>1, <2>0, <2>1 DEF Msgrcv, TypeOK, disk, seen
  <2>2. CASE /\ sent < MaxCommands /\ sent' = sent + 1 /\ UNCHANGED queue
             /\ inpcmd' \in IF inpcmd = NoCommand THEN {"other", "empty"} ELSE {inpcmd}
    <3>1. sent' \in 0..MaxCommands BY <2>0, <2>2, ProxyServAssumption
    <3>2. inpcmd' \in Commands \cup {NoCommand} BY <2>0, <2>2 DEF Commands
    <3> QED BY <1>1, <2>0, <2>2, <3>1, <3>2 DEF Msgrcv, TypeOK, disk, seen
  <2> QED BY <1>1, <2>1, <2>2 DEF Msgrcv
<1>2. CASE handle_request
  <2>1. CASE Dies BY <1>2, <2>1, DiesTyped DEF handle_request, TypeOK, disk, seen
  <2>2. CASE Returns BY <1>2, <2>2 DEF handle_request, Returns, TypeOK, disk, seen
  <2>3. CASE ~Dies /\ ~Returns
    <3>1. Runs(inpcmd) /\ inpcmd \in Local \cup Remote
      BY <1>2, <2>3 DEF handle_request, Runs
    <3>2. CASE inpcmd \in {"GIT_INIT", "GIT_ADD"}
      <4>1. pc' = inpcmd /\ UNCHANGED asked BY <1>2, <2>3, <3>2 DEF handle_request, Remote
      <4> QED BY <1>2, <2>3, <3>2, <4>1 DEF handle_request, TypeOK, disk, seen
    <3>3. CASE inpcmd \notin {"GIT_INIT", "GIT_ADD"}
      <4>1. PICK prompt \in {"message", "branch"} : Ask(prompt)
        BY <1>2, <2>3, <3>1, <3>3 DEF handle_request, Local, Remote
      <4>2. pc' \in Prompts /\ asked' \in Seq(Prompts) BY <4>1 DEF Ask, Prompts, TypeOK
      <4> QED BY <1>2, <2>3, <4>2 DEF handle_request, TypeOK, disk, seen
    <3> QED BY <3>2, <3>3
  <2> QED BY <2>1, <2>2, <2>3
<1>3. CASE git_init_at_client
  BY <1>3, DiesTyped DEF git_init_at_client, Returns, TypeOK, disk, seen
<1>4. CASE git_add_at_client
  BY <1>4, DiesTyped DEF git_add_at_client, Returns, TypeOK, disk, seen
<1> QED BY <1>1, <1>2, <1>3, <1>4

\* The terminal.
LEMMA ReadTyped ==
  ASSUME TypeOK,
         ReadMessage \/ ReadName \/ ReadEmail \/ git_commit_at_client \/ ReadBranch \/ ReadPath
  PROVE  TypeOK'
<1>1. stdin \in Seq(Words \cup {Newline}) /\ asked \in Seq(Prompts) BY DEF TypeOK
<1>2. ASSUME NEW prompt \in Prompts PROVE Append(asked, prompt) \in Seq(Prompts) BY <1>1
<1>3. CASE ReadMessage
  <2>1. CASE repo
    <3>1. stdin' \in Seq(Words \cup {Newline}) BY <1>1, <1>3, <2>1, ScanTyped DEF ReadMessage
    <3> QED BY <1>2, <1>3, <2>1, <3>1 DEF ReadMessage, Ask, Prompts, TypeOK, disk
  <2>2. CASE ~repo BY <1>3, <2>2, DiesTyped DEF ReadMessage, TypeOK, disk
  <2> QED BY <2>1, <2>2
<1>4. CASE ReadName \/ ReadEmail
  <2>1. stdin' \in Seq(Words \cup {Newline}) BY <1>1, <1>4, ScanTyped DEF ReadName, ReadEmail
  <2> QED BY <1>2, <1>4, <2>1 DEF ReadName, ReadEmail, Ask, Prompts, TypeOK, disk, seen
<1>5. CASE git_commit_at_client
  <2>1. refs' \in [Branches -> {Absent, Empty, Commit, FileHash}]
    BY <1>5 DEF git_commit_at_client, TypeOK
  <2> QED BY <1>5, <2>1, DiesTyped DEF git_commit_at_client, Returns, TypeOK, seen
<1>6. CASE ReadBranch \/ ReadPath
  <2>1. Gets BY <1>6 DEF ReadBranch, ReadPath
  <2>2. Fgets \in Seq(Words) /\ stdin' \in Seq(Words \cup {Newline})
    BY <1>1, <2>1, FgetsTyped DEF Gets
  <2> QED BY <1>2, <1>6, <2>2 DEF ReadBranch, ReadPath, Ask, Prompts, TypeOK, disk, seen
<1> QED BY <1>3, <1>4, <1>5, <1>6

\* What is done with the server.
LEMMA RemoteTyped ==
  ASSUME TypeOK,
         PushFails \/ PushDies \/ PushAnswered \/ OpenHead \/ WriteHead \/ PullOrHistory
  PROVE  TypeOK'
<1>1. CASE PushFails \/ PushAnswered \/ PullOrHistory
  BY <1>1 DEF PushFails, PushAnswered, PullOrHistory, Returns, TypeOK, world, disk, seen
<1>2. CASE PushDies BY <1>2, DiesTyped DEF PushDies, TypeOK, disk, seen
<1>3. CASE OpenHead \/ WriteHead
  <2>1. refs' \in [Branches -> {Absent, Empty, Commit, FileHash}]
    BY <1>3 DEF OpenHead, WriteHead, TypeOK
  <2> QED BY <1>3, <2>1 DEF OpenHead, WriteHead, Returns, TypeOK, seen
<1> QED BY <1>1, <1>2, <1>3

\* What the proxy holds, what was typed and the repository are what TypeOK says,
\* however the prompts and the lines typed have come apart (main, 747-750).
THEOREM TypeCorrect == Spec => []TypeOK
<1>1. Init => TypeOK
  <2>1. <<>> \in Seq(Words) /\ <<>> \in Seq(Words \cup {Newline}) /\ <<>> \in Seq(Prompts)
        /\ <<>> \in Seq(Commands)
    OBVIOUS
  <2>2. Init => {rc, attached, serverUp, repo, scanned} \subseteq BOOLEAN BY DEF Init
  <2>3. Init => sent \in 0..MaxCommands BY ProxyServAssumption DEF Init
  <2>4. Init => pc = "down" /\ inpcmd = NoCommand /\ refs = [b \in Branches |-> Absent]
                /\ faults = {} /\ told = {} /\ queue = <<>> /\ stdin = <<>> /\ asked = <<>>
                /\ branch = <<>> /\ path = <<>>
    BY DEF Init
  <2> QED BY <2>1, <2>2, <2>3, <2>4 DEF TypeOK
<1>2. TypeOK /\ [Next]_vars => TypeOK'
  <2> SUFFICES ASSUME TypeOK, [Next]_vars PROVE TypeOK' OBVIOUS
  <2>1. CASE Next
    BY <2>1, WorldTyped, RequestTyped, ReadTyped, RemoteTyped DEF Next, Proxy
  <2>2. CASE UNCHANGED vars BY <2>2 DEF vars, proxy, world, disk, seen, TypeOK
  <2> QED BY <2>1, <2>2
<1> QED BY <1>1, <1>2, PTL DEF Spec
-----------------------------------------------------------------------------
(* The terminal and the prompts.                                           *)

\* Until a commit has read the terminal with scanf, either the prompt at which
\* the proxy waits is unanswered and nothing is typed, or its answer is all there
\* is to read; and at no other place is there anything to answer or to read.
TerminalInv ==
  /\ pc = "down" => asked = <<>> /\ stdin = <<>>
  /\ ~scanned => pc \notin {"name", "email", "commit"}
  /\ ~scanned /\ pc \in {"message", "branch", "path"} =>
       \/ asked = <<pc>> /\ stdin = <<>>
       \/ asked = <<>> /\ \E words \in Answers(pc) : stdin = words \o <<Newline>>
  /\ ~scanned /\ pc \notin {"message", "branch", "path"} => asked = <<>> /\ stdin = <<>>

\* So what fgets left in the buffers is what was typed for them.
BufferInv ==
  ~scanned =>
    /\ pc \in {"path", "push", "pull", "history", "open", "write"} =>
         \E b \in Branches : branch = <<b>>
    /\ pc \in {"push", "pull", "open", "write"} => path = <<"path">>

\* The head that is written is that of the branch whose push was answered.
ToldInv ==
  /\ pc \in {"open", "write"} => \A b \in Branches : branch = <<b>> => b \in told
  /\ \A b \in Branches : refs[b] \in {Empty, FileHash} => b \in told

TypedInv == TerminalInv /\ BufferInv /\ ToldInv

\* The answer to a prompt that fgets reads is the whole line.
LEMMA FgetsAnswer ==
  ASSUME TypeOK, NEW prompt \in {"branch", "path"}, NEW words \in Answers(prompt),
         stdin = words \o <<Newline>>, End > 0
  PROVE  /\ Fgets = words /\ After(End) = <<>>
         /\ prompt = "branch" => \E b \in Branches : words = <<b>>
         /\ prompt = "path" => words = <<"path">>
<1>1. PICK t \in Words : /\ words = <<t>> /\ t # Newline
                         /\ prompt = "branch" => t \in Branches
                         /\ prompt = "path" => t = "path"
  <2>1. CASE prompt = "branch"
    <3>1. PICK b \in Branches : words = <<b>> BY <2>1 DEF Answers
    <3>2. b \in Words /\ b # Newline BY ProxyServAssumption DEF Words
    <3> QED BY <2>1, <3>1, <3>2
  <2>2. CASE prompt = "path"
    <3>1. PICK n \in 1..1 : words = [k \in 1..n |-> "path"] BY <2>2 DEF Answers
    <3>2. n = 1 /\ words = [k \in 1..1 |-> "path"] BY <3>1
    <3>3. words = <<"path">> BY <3>2
    <3>4. "path" \in Words /\ "path" # Newline BY DEF Words, Prompts, Newline
    <3> QED BY <2>2, <3>3, <3>4
  <2> QED BY <2>1, <2>2
<1>2. words = <<t>> /\ stdin = words \o <<Newline>> BY <1>1
<1>3. Len(stdin) = 2 /\ stdin[1] = t /\ stdin[2] = Newline BY <1>2
<1>4. stdin \in Seq(Words \cup {Newline}) BY DEF TypeOK
<1>5. End \in 0..2 /\ stdin[End] = Newline BY <1>3, <1>4, FirstNewline
<1>6. End = 2 BY <1>1, <1>3, <1>5
<1>7. Fgets = <<t>>
  <2>1. Fgets = SubSeq(stdin, 1, 1) BY <1>6 DEF Fgets
  <2>2. Len(Fgets) = 1 /\ Fgets[1] = t /\ Fgets \in Seq(Words \cup {Newline})
    BY <1>3, <1>4, <2>1
  <2> QED BY <2>2
<1>8. After(End) = <<>>
  <2>1. After(End) = SubSeq(stdin, 3, 2) BY <1>3, <1>6 DEF After
  <2>2. Len(After(End)) = 0 /\ After(End) \in Seq(Words \cup {Newline})
    BY <1>3, <1>4, <2>1
  <2> QED BY <2>2
<1> QED BY <1>1, <1>7, <1>8

LEMMA DiesKeepsTyped ==
  ASSUME TypedInv, Dies, UNCHANGED told,
         \A b \in Branches : refs'[b] \in {Empty, FileHash} => b \in told
  PROVE  TypedInv'
  BY DEF TypedInv, TerminalInv, BufferInv, ToldInv, Dies

LEMMA ReturnsKeepsTyped ==
  ASSUME TypedInv, Returns, UNCHANGED <<told, scanned>>, ~scanned => pc \in {"push", "pull",
           "history", "open", "write", "handle", "GIT_INIT", "GIT_ADD"},
         \A b \in Branches : refs'[b] \in {Empty, FileHash} => b \in told
  PROVE  TypedInv'
  BY DEF TypedInv, TerminalInv, BufferInv, ToldInv, Returns

LEMMA WorldKeepsTyped ==
  ASSUME TypeOK, TypedInv, Send \/ Type \/ RedisStops \/ ServerStops \/ Ipcrm \/ Start \/ Kill
  PROVE  TypedInv'
<1>1. CASE Type
  <2>1. PICK i \in DOMAIN asked : \E words \in Answers(asked[i]) :
          /\ stdin' = stdin \o words \o <<Newline>>
          /\ asked' = SubSeq(asked, i + 1, Len(asked))
    BY <1>1 DEF Type
  <2>2. asked \in Seq(Prompts) BY DEF TypeOK
  <2>3. asked # <<>> BY <2>1
  <2>4. pc # "down" BY <2>3 DEF TypedInv, TerminalInv
  <2>5. UNCHANGED <<pc, branch, path, refs, scanned, told>>
    BY <1>1 DEF Type, proxy, disk, seen
  <2>6. ASSUME ~scanned
        PROVE  /\ pc \in {"message", "branch", "path"} /\ asked' = <<>>
               /\ \E words \in Answers(pc) : stdin' = words \o <<Newline>>
    <3>1. pc \in {"message", "branch", "path"} /\ asked = <<pc>> /\ stdin = <<>>
      BY <2>3, <2>6 DEF TypedInv, TerminalInv
    <3>2. i = 1 /\ asked[i] = pc BY <2>1, <3>1
    <3>3. asked' = <<>> BY <2>1, <3>1, <3>2
    <3>4. PICK words \in Answers(pc) : stdin' = stdin \o words \o <<Newline>>
      BY <2>1, <3>2
    <3>5. words \in Seq(Words) BY <3>1, AnswersTyped DEF Prompts
    <3>6. stdin' = words \o <<Newline>> BY <3>1, <3>4, <3>5
    <3> QED BY <3>1, <3>3, <3>6
  <2> QED BY <2>4, <2>5, <2>6 DEF TypedInv, TerminalInv, BufferInv, ToldInv
<1>2. CASE Start
  BY <1>2 DEF Start, TypedInv, TerminalInv, BufferInv, ToldInv, world, disk
<1>3. CASE Kill BY <1>3, DiesKeepsTyped DEF Kill, TypedInv, ToldInv, disk
<1>4. CASE Send \/ RedisStops \/ ServerStops \/ Ipcrm
  <2>1. UNCHANGED <<pc, branch, path, stdin, asked, refs, scanned, told>>
    BY <1>4 DEF Send, RedisStops, ServerStops, Ipcrm, proxy, world, disk, seen
  <2> QED BY <2>1 DEF TypedInv, TerminalInv, BufferInv, ToldInv
<1> QED BY <1>1, <1>2, <1>3, <1>4

LEMMA RequestKeepsTyped ==
  ASSUME TypeOK, TypedInv,
         Msgrcv \/ handle_request \/ git_init_at_client \/ git_add_at_client
  PROVE  TypedInv'
<1>0. \A b \in Branches : refs[b] \in {Empty, FileHash} => b \in told
  BY DEF TypedInv, ToldInv
<1>1. CASE Msgrcv
  BY <1>1 DEF Msgrcv, TypedInv, TerminalInv, BufferInv, ToldInv, disk, seen
<1>2. CASE handle_request
  <2>1. UNCHANGED <<refs, told, scanned>> /\ pc = "handle"
    BY <1>2 DEF handle_request, disk, seen
  <2>2. CASE Dies BY <1>0, <2>1, <2>2, DiesKeepsTyped
  <2>3. CASE Returns BY <1>0, <2>1, <2>3, ReturnsKeepsTyped
  <2>4. CASE ~Dies /\ ~Returns
    <3>1. UNCHANGED stdin BY <1>2, <2>4 DEF handle_request
    <3>2. ASSUME ~scanned PROVE asked = <<>> /\ stdin = <<>>
      BY <2>1, <3>2 DEF TypedInv, TerminalInv
    <3>3. CASE inpcmd \in {"GIT_INIT", "GIT_ADD"}
      <4>1. pc' = inpcmd /\ UNCHANGED asked BY <1>2, <2>4, <3>3 DEF handle_request, Remote
      <4> QED BY <2>1, <3>1, <3>2, <3>3, <4>1 DEF TypedInv, TerminalInv, BufferInv, ToldInv
    <3>4. CASE inpcmd \notin {"GIT_INIT", "GIT_ADD"}
      <4>1. PICK prompt \in {"message", "branch"} : Ask(prompt)
        BY <1>2, <2>4, <3>4 DEF handle_request, Local, Remote, Runs
      <4>2. ASSUME ~scanned PROVE asked' = <<pc'>> /\ stdin' = <<>>
        BY <3>1, <3>2, <4>1, <4>2 DEF Ask
      <4> QED BY <2>1, <4>1, <4>2 DEF Ask, TypedInv, TerminalInv, BufferInv, ToldInv
    <3> QED BY <3>3, <3>4
  <2> QED BY <2>2, <2>3, <2>4
<1>3. CASE git_init_at_client
  <2>1. UNCHANGED <<refs, told, scanned>> /\ pc = "GIT_INIT" /\ (Returns \/ Dies)
    BY <1>3 DEF git_init_at_client, seen
  <2> QED BY <1>0, <2>1, DiesKeepsTyped, ReturnsKeepsTyped
<1>4. CASE git_add_at_client
  <2>1. UNCHANGED <<refs, told, scanned>> /\ pc = "GIT_ADD" /\ (Returns \/ Dies)
    BY <1>4 DEF git_add_at_client, disk, seen
  <2> QED BY <1>0, <2>1, DiesKeepsTyped, ReturnsKeepsTyped
<1> QED BY <1>1, <1>2, <1>3, <1>4

LEMMA ReadKeepsTyped ==
  ASSUME TypeOK, TypedInv,
         ReadMessage \/ ReadName \/ ReadEmail \/ git_commit_at_client \/ ReadBranch \/ ReadPath
  PROVE  TypedInv'
<1>0. \A b \in Branches : refs[b] \in {Empty, FileHash} => b \in told
  BY DEF TypedInv, ToldInv
<1>1. CASE ReadMessage
  <2>1. CASE Dies BY <1>0, <1>1, <2>1, DiesKeepsTyped DEF ReadMessage, disk
  <2>2. CASE ~Dies
    <3>1. scanned' /\ pc' = "name" /\ UNCHANGED <<refs, told>>
      BY <1>1, <2>2 DEF ReadMessage, Ask, disk
    <3> QED BY <1>0, <3>1 DEF TypedInv, TerminalInv, BufferInv, ToldInv
  <2> QED BY <2>1, <2>2
<1>2. CASE ReadName \/ ReadEmail
  <2>1. scanned /\ scanned' /\ pc' \in {"email", "commit"} /\ UNCHANGED <<refs, told>>
    BY <1>2 DEF ReadName, ReadEmail, Ask, TypedInv, TerminalInv, disk, seen
  <2> QED BY <1>0, <2>1 DEF TypedInv, TerminalInv, BufferInv, ToldInv
<1>3. CASE git_commit_at_client
  <2>1. scanned /\ UNCHANGED <<told, scanned>> /\ (Returns \/ Dies)
        /\ (UNCHANGED refs \/ refs' = [refs EXCEPT ![Master] = Commit])
    BY <1>3 DEF git_commit_at_client, TypedInv, TerminalInv, seen
  <2>2. \A b \in Branches : refs'[b] \in {Empty, FileHash} => b \in told
    BY <1>0, <2>1, ProxyServAssumption DEF TypeOK
  <2> QED BY <2>1, <2>2, DiesKeepsTyped, ReturnsKeepsTyped
<1>4. CASE ReadBranch
  <2>1. /\ pc = "branch" /\ End > 0 /\ stdin' = After(End) /\ branch' = Fgets
        /\ UNCHANGED <<refs, told, scanned>>
        /\ (pc' = "history" /\ UNCHANGED asked) \/ Ask("path")
    BY <1>4 DEF ReadBranch, Gets, disk, seen
  <2>2. pc' \in {"history", "path"} BY <2>1 DEF Ask
  <2>3. ASSUME ~scanned
        PROVE  /\ \E b \in Branches : branch' = <<b>>
               /\ stdin' = <<>>
               /\ asked' = IF pc' = "path" THEN <<"path">> ELSE <<>>
    <3>0. stdin # <<>>
      <4>1. End \in 0..Len(stdin) BY FirstNewline DEF TypeOK
      <4> QED BY <2>1, <4>1
    <3>1. asked = <<>> /\ \E words \in Answers("branch") : stdin = words \o <<Newline>>
      BY <2>1, <2>3, <3>0 DEF TypedInv, TerminalInv
    <3>2. PICK words \in Answers("branch") : stdin = words \o <<Newline>> BY <3>1
    <3>3. Fgets = words /\ After(End) = <<>> /\ \E b \in Branches : words = <<b>>
      BY <2>1, <3>2, FgetsAnswer
    <3>4. Append(asked, "path") = <<"path">> BY <3>1
    <3> QED BY <2>1, <3>1, <3>3, <3>4 DEF Ask
  <2> QED BY <1>0, <2>1, <2>2, <2>3 DEF TypedInv, TerminalInv, BufferInv, ToldInv
<1>5. CASE ReadPath
  <2>1. /\ pc = "path" /\ End > 0 /\ stdin' = After(End) /\ path' = Fgets
        /\ UNCHANGED <<refs, told, scanned, branch, asked>> /\ pc' \in {"push", "pull"}
    BY <1>5 DEF ReadPath, Gets, disk, seen
  <2>2. ASSUME ~scanned
        PROVE  /\ \E b \in Branches : branch' = <<b>>
               /\ path' = <<"path">> /\ stdin' = <<>> /\ asked' = <<>>
    <3>0. stdin # <<>>
      <4>1. End \in 0..Len(stdin) BY FirstNewline DEF TypeOK
      <4> QED BY <2>1, <4>1
    <3>1. asked = <<>> /\ \E words \in Answers("path") : stdin = words \o <<Newline>>
      BY <2>1, <2>2, <3>0 DEF TypedInv, TerminalInv
    <3>2. PICK words \in Answers("path") : stdin = words \o <<Newline>> BY <3>1
    <3>3. Fgets = words /\ After(End) = <<>> /\ words = <<"path">>
      BY <2>1, <3>2, FgetsAnswer
    <3>4. \E b \in Branches : branch = <<b>> BY <2>1, <2>2 DEF TypedInv, BufferInv
    <3> QED BY <2>1, <3>1, <3>3, <3>4
  <2> QED BY <1>0, <2>1, <2>2 DEF TypedInv, TerminalInv, BufferInv, ToldInv
<1> QED BY <1>1, <1>2, <1>3, <1>4, <1>5

LEMMA RemoteKeepsTyped ==
  ASSUME TypeOK, TypedInv,
         PushFails \/ PushDies \/ PushAnswered \/ OpenHead \/ WriteHead \/ PullOrHistory
  PROVE  TypedInv'
<1>0. \A b \in Branches : refs[b] \in {Empty, FileHash} => b \in told
  BY DEF TypedInv, ToldInv
<1>1. CASE PushFails \/ PushDies \/ PullOrHistory
  <2>1. UNCHANGED <<refs, told, scanned>> /\ pc \in {"push", "pull", "history"}
        /\ (Returns \/ Dies)
    BY <1>1 DEF PushFails, PushDies, PullOrHistory, disk, seen
  <2> QED BY <1>0, <2>1, DiesKeepsTyped, ReturnsKeepsTyped
<1>2. CASE PushAnswered
  BY <1>2 DEF PushAnswered, TypedInv, TerminalInv, BufferInv, ToldInv, world, disk
<1>3. CASE OpenHead
  <2>1. pc = "open" /\ UNCHANGED <<told, scanned>> BY <1>3 DEF OpenHead, seen
  <2>2. \A b \in Branches : branch = <<b>> => b \in told
    BY <2>1 DEF TypedInv, ToldInv
  <2>3. \A b \in Branches : refs'[b] \in {Empty, FileHash} => b \in told
    BY <1>0, <1>3, <2>2 DEF OpenHead
  <2>4. CASE Returns BY <2>1, <2>3, <2>4, ReturnsKeepsTyped
  <2>5. CASE ~Returns
    <3>1. pc' = "write" /\ UNCHANGED <<branch, path, stdin, asked>>
      BY <1>3, <2>5 DEF OpenHead
    <3> QED BY <2>1, <2>2, <2>3, <3>1 DEF TypedInv, TerminalInv, BufferInv, ToldInv
  <2> QED BY <2>4, <2>5
<1>4. CASE WriteHead
  <2>1. pc = "write" /\ UNCHANGED <<told, scanned>> /\ Returns BY <1>4 DEF WriteHead, seen
  <2>2. \A b \in Branches : refs'[b] \in {Empty, FileHash} => b \in told
    BY <1>0, <1>4, <2>1 DEF WriteHead, TypedInv, ToldInv
  <2> QED BY <2>1, <2>2, ReturnsKeepsTyped
<1> QED BY <1>1, <1>2, <1>3, <1>4

\* Whatever Redis, the server, the queue and the process do, the server is asked
\* for the branch and the file that were typed for them until a commit has read
\* the terminal with scanf, and the file of a branch is only overwritten when a
\* push of that branch was answered (git_push_server, git_pull_at_client,
\* git_history and write_branch_head).
THEOREM AsTypedHolds == Spec => []AsTyped
<1>1. Init => TypedInv
  <2>1. Init => pc = "down" /\ asked = <<>> /\ stdin = <<>>
                /\ \A b \in Branches : refs[b] = Absent
    BY DEF Init
  <2> QED BY <2>1, ProxyServAssumption DEF TypedInv, TerminalInv, BufferInv, ToldInv
<1>2. TypeOK /\ TypedInv /\ [Next]_vars => TypedInv'
  <2> SUFFICES ASSUME TypeOK, TypedInv, [Next]_vars PROVE TypedInv' OBVIOUS
  <2>1. CASE Next
    BY <2>1, WorldKeepsTyped, RequestKeepsTyped, ReadKeepsTyped, RemoteKeepsTyped
    DEF Next, Proxy
  <2>2. CASE UNCHANGED vars
    BY <2>2 DEF vars, proxy, world, disk, seen, TypedInv, TerminalInv, BufferInv, ToldInv
  <2> QED BY <2>1, <2>2
<1>3. TypedInv => AsTyped BY DEF TypedInv, BufferInv, ToldInv, AsTyped
<1> QED BY <1>1, <1>2, <1>3, TypeCorrect, PTL DEF Spec

-----------------------------------------------------------------------------
(* What EveryCommandEnds rests on besides fairness: the user is asked again *)
(* before the proxy waits for more, and a command runs out of steps.        *)

Asks == asked # <<>>
HasWord == \E k \in DOMAIN stdin : stdin[k] # Newline
HasNewline == \E k \in DOMAIN stdin : stdin[k] = Newline

\* However prompts and answers have come apart: at a prompt either a question is
\* left to be answered, or what was typed last was a whole line, which both ways
\* of reading can take.
ReadableInv == pc \in Prompts => Asks \/ (HasWord /\ HasNewline)

\* A line that was typed has a word and a newline.
LEMMA TypedLine ==
  ASSUME TypeOK, Type PROVE HasWord' /\ HasNewline'
<1>0. PICK i \in DOMAIN asked : \E words \in Answers(asked[i]) :
        stdin' = stdin \o words \o <<Newline>>
  BY DEF Type
<1>1. PICK words \in Answers(asked[i]) : stdin' = stdin \o words \o <<Newline>> BY <1>0
<1>2. asked[i] \in Prompts /\ stdin \in Seq(Words \cup {Newline}) BY DEF TypeOK
<1>3. words \in Seq(Words) BY <1>2, AnswersTyped
<1>4. words # <<>>
  <2>1. CASE asked[i] = "branch"
    <3>1. PICK b \in Branches : words = <<b>> BY <1>1, <2>1 DEF Answers
    <3> QED BY <3>1
  <2>2. CASE asked[i] # "branch"
    <3>1. PICK n \in 1..(IF asked[i] \in {"message", "name"} THEN MaxWords ELSE 1) :
            words = [k \in 1..n |-> asked[i]]
      BY <1>1, <2>2 DEF Answers
    <3>2. 1 \in DOMAIN words BY <3>1, ProxyServAssumption
    <3> QED BY <3>2
  <2> QED BY <2>1, <2>2
<1>5. PICK m \in Nat : m = Len(stdin) BY <1>2
<1>6. /\ words \in Seq(Words \cup {Newline}) /\ Len(words) \in Nat \ {0}
      /\ words[1] \in Words
  BY <1>3, <1>4
<1>7. words[1] # Newline BY <1>6, ProxyServAssumption DEF Words, Prompts, Newline
<1> DEFINE s == stdin \o words
<1>8. s \in Seq(Words \cup {Newline}) /\ Len(s) = m + Len(words) /\ s[m + 1] = words[1]
  BY <1>2, <1>5, <1>6
<1>9. stdin' = Append(s, Newline) BY <1>1, <1>8
<1> HIDE DEF s
<1>10. /\ Len(stdin') = Len(s) + 1 /\ stdin'[Len(s) + 1] = Newline
       /\ \A k \in 1..Len(s) : stdin'[k] = s[k]
       /\ DOMAIN stdin' = 1..(Len(s) + 1) /\ Len(s) \in Nat
  BY <1>8, <1>9
<1>11. /\ m + 1 \in DOMAIN stdin' /\ stdin'[m + 1] = words[1]
       /\ Len(s) + 1 \in DOMAIN stdin' /\ stdin'[Len(s) + 1] = Newline
  BY <1>8, <1>6, <1>10
<1>12. HasWord' BY <1>7, <1>11 DEF HasWord
<1>13. HasNewline' BY <1>11 DEF HasNewline
<1> QED BY <1>12, <1>13

LEMMA AskedAgain ==
  ASSUME TypeOK, NEW prompt, Ask(prompt) PROVE Asks'
BY DEF Ask, Asks, TypeOK

LEMMA ReadableInvNext ==
  ASSUME TypeOK, ReadableInv, [Next]_vars PROVE ReadableInv'
<1>1. ASSUME UNCHANGED <<pc, stdin, asked>> PROVE ReadableInv'
  BY <1>1 DEF ReadableInv, Asks, HasWord, HasNewline
<1>2. CASE Type BY <1>2, TypedLine DEF ReadableInv
<1>3. CASE Send \/ RedisStops \/ ServerStops \/ Ipcrm
  BY <1>1, <1>3 DEF Send, RedisStops, ServerStops, Ipcrm, proxy, world
<1>4. ASSUME pc' \notin Prompts PROVE ReadableInv' BY <1>4 DEF ReadableInv
<1>5. CASE Start \/ Kill BY <1>4, <1>5 DEF Start, Kill, Dies, Prompts
<1>6. CASE handle_request
  <2>1. CASE Dies \/ Returns BY <1>4, <2>1 DEF Dies, Returns, Prompts
  <2>2. CASE ~Dies /\ ~Returns
    <3>1. Runs(inpcmd) /\ inpcmd \in Local \cup Remote
      BY <1>6, <2>2 DEF handle_request, Runs
    <3>2. CASE inpcmd \in {"GIT_INIT", "GIT_ADD"}
      <4>1. pc' = inpcmd BY <1>6, <2>2, <3>1, <3>2 DEF handle_request, Remote
      <4> QED BY <1>4, <3>2, <4>1 DEF Prompts
    <3>3. CASE inpcmd = "GIT_COMMIT"
      <4>1. Ask("message") BY <1>6, <2>2, <3>1, <3>3 DEF handle_request, Remote
      <4> QED BY <4>1, AskedAgain DEF ReadableInv
    <3>4. CASE inpcmd \in Remote
      <4>1. Ask("branch") BY <1>6, <2>2, <3>1, <3>4 DEF handle_request, Remote
      <4> QED BY <4>1, AskedAgain DEF ReadableInv
    <3> QED BY <3>1, <3>2, <3>3, <3>4 DEF Local
  <2> QED BY <2>1, <2>2
<1>7. CASE ReadMessage
  <2>1. CASE Dies BY <1>4, <2>1 DEF Dies, Prompts
  <2> QED BY <1>7, <2>1, AskedAgain DEF ReadMessage, ReadableInv
<1>8. CASE ReadName BY <1>8, AskedAgain DEF ReadName, ReadableInv
<1>9. CASE ReadBranch
  <2>1. CASE pc' = "history" BY <1>4, <2>1 DEF Prompts
  <2> QED BY <1>9, <2>1, AskedAgain DEF ReadBranch, ReadableInv
<1>10. CASE ReadEmail \/ ReadPath
  BY <1>4, <1>10 DEF ReadEmail, ReadPath, Prompts
<1>11. CASE \/ Msgrcv \/ git_init_at_client \/ git_add_at_client \/ git_commit_at_client
            \/ PushFails \/ PushDies \/ PushAnswered \/ OpenHead \/ WriteHead \/ PullOrHistory
  <2>1. CASE Dies \/ Returns BY <1>4, <2>1 DEF Dies, Returns, Prompts
  <2> QED BY <1>4, <1>11, <2>1 DEF Msgrcv, git_init_at_client, git_add_at_client,
        git_commit_at_client, PushFails, PushDies, PushAnswered, OpenHead, WriteHead,
        PullOrHistory, Prompts
<1>12. CASE UNCHANGED vars BY <1>1, <1>12 DEF vars, proxy, world
<1> QED
  BY <1>2, <1>3, <1>5, <1>6, <1>7, <1>8, <1>9, <1>10, <1>11, <1>12 DEF Next, Proxy

\* What the read at the prompt the proxy waits at needs.
CanRead == IF pc \in {"branch", "path"} THEN End > 0 ELSE HasWord

NeverInVain == pc \in Prompts => CanRead \/ Asks

\* A proxy that cannot go on at a prompt has printed one the user has not
\* answered: no answer is ever lost to an earlier read in such a way that the
\* user waits for the proxy and the proxy for the user (scanf and fgets on one
\* stdin in git_commit_at_client and the three remote commands).
THEOREM NobodyWaitsInVain == Spec => []NeverInVain
<1>1. Init => ReadableInv BY DEF Init, ReadableInv, Prompts
<1>2. TypeOK /\ ReadableInv /\ [Next]_vars => ReadableInv' BY ReadableInvNext
<1>3. TypeOK /\ ReadableInv => NeverInVain
  <2> SUFFICES ASSUME TypeOK, HasWord, HasNewline PROVE CanRead
    BY DEF ReadableInv, NeverInVain
  <2>1. stdin \in Seq(Words \cup {Newline}) BY DEF TypeOK
  <2>2. End > 0
    <3>1. PICK k \in 1..Len(stdin) : stdin[k] = Newline BY <2>1 DEF HasNewline
    <3>2. End # 0 /\ End \in 0..Len(stdin) BY <2>1, <3>1, FirstNewline
    <3> QED BY <2>1, <3>2
  <2> QED BY <2>2 DEF CanRead
<1> QED BY <1>1, <1>2, <1>3, TypeCorrect, PTL DEF Spec

\* How many steps the proxy has at most until it takes the next line.
StepsLeft ==
  CASE pc \in {"down", "msgrcv"} -> 0
    [] pc \in {"GIT_INIT", "GIT_ADD", "commit", "write", "pull", "history"} -> 1
    [] pc \in {"email", "open"}   -> 2
    [] pc \in {"name", "push"}    -> 3
    [] pc \in {"message", "path"} -> 4
    [] pc = "branch" -> 5
    [] pc = "handle" -> 6

LEMMA StepsLeftIs ==
  /\ pc \in {"down", "msgrcv"} => StepsLeft = 0
  /\ pc \in {"GIT_INIT", "GIT_ADD", "commit", "write", "pull", "history"} => StepsLeft = 1
  /\ pc \in {"email", "open"} => StepsLeft = 2
  /\ pc \in {"name", "push"} => StepsLeft = 3
  /\ pc \in {"message", "path"} => StepsLeft = 4
  /\ pc = "branch" => StepsLeft = 5
  /\ pc = "handle" => StepsLeft = 6
BY DEF StepsLeft

LEMMA StepsLeftWillBe ==
  /\ pc' \in {"down", "msgrcv"} => StepsLeft' = 0
  /\ pc' \in {"GIT_INIT", "GIT_ADD", "commit", "write", "pull", "history"} => StepsLeft' = 1
  /\ pc' \in {"email", "open"} => StepsLeft' = 2
  /\ pc' \in {"name", "push"} => StepsLeft' = 3
  /\ pc' \in {"message", "path"} => StepsLeft' = 4
  /\ pc' = "branch" => StepsLeft' = 5
  /\ pc' = "handle" => StepsLeft' = 6
BY DEF StepsLeft

\* A command of the proxy is at most six of its steps: each brings it nearer to the
\* next line, and nothing anybody else does sends it back.
CommandsAdvance ==
  [][pc \notin {"down", "msgrcv"} =>
       /\ Proxy => StepsLeft' < StepsLeft
       /\ StepsLeft' <= StepsLeft]_vars

LEMMA ProxyAdvances ==
  ASSUME TypeOK, Proxy, pc \notin {"down", "msgrcv"}
  PROVE  StepsLeft' \in Nat /\ StepsLeft' < StepsLeft
<1> USE StepsLeftIs, StepsLeftWillBe
<1>1. CASE handle_request
  <2>1. pc = "handle" BY <1>1 DEF handle_request
  <2>2. pc' \in {"down", "msgrcv", "GIT_INIT", "GIT_ADD", "message", "branch"}
    <3>1. CASE Dies \/ Returns BY <3>1 DEF Dies, Returns
    <3>2. CASE ~Dies /\ ~Returns
      <4>1. Runs(inpcmd) /\ inpcmd \in Local \cup Remote
        BY <1>1, <3>2 DEF handle_request, Runs
      <4>2. \/ pc' = inpcmd /\ inpcmd \in {"GIT_INIT", "GIT_ADD"}
            \/ Ask("message") \/ Ask("branch")
        BY <1>1, <3>2, <4>1 DEF handle_request, Local, Remote
      <4> QED BY <4>2 DEF Ask
    <3> QED BY <3>1, <3>2
  <2> QED BY <2>1, <2>2
<1>2. CASE git_init_at_client \/ git_add_at_client \/ git_commit_at_client \/ WriteHead
            \/ PullOrHistory
  <2>1. pc \in {"GIT_INIT", "GIT_ADD", "commit", "write", "pull", "history"}
    BY <1>2 DEF git_init_at_client, git_add_at_client, git_commit_at_client, WriteHead,
                PullOrHistory
  <2>2. pc' \in {"down", "msgrcv"}
    BY <1>2 DEF git_init_at_client, git_add_at_client, git_commit_at_client, WriteHead,
                PullOrHistory, Dies, Returns
  <2> QED BY <2>1, <2>2
<1>3. CASE ReadMessage
  <2>1. pc = "message" /\ pc' \in {"name", "down"} BY <1>3 DEF ReadMessage, Ask, Dies
  <2> QED BY <2>1
<1>4. CASE ReadName
  <2>1. pc = "name" /\ pc' = "email" BY <1>4 DEF ReadName, Ask
  <2> QED BY <2>1
<1>5. CASE ReadEmail
  <2>1. pc = "email" /\ pc' = "commit" BY <1>5 DEF ReadEmail
  <2> QED BY <2>1
<1>6. CASE ReadBranch
  <2>1. pc = "branch" /\ pc' \in {"history", "path"} BY <1>6 DEF ReadBranch, Ask
  <2> QED BY <2>1
<1>7. CASE ReadPath
  <2>1. pc = "path" /\ pc' \in {"push", "pull"} BY <1>7 DEF ReadPath
  <2> QED BY <2>1
<1>8. CASE PushFails \/ PushDies \/ PushAnswered
  <2>1. pc = "push" /\ pc' \in {"msgrcv", "down", "open"}
    BY <1>8 DEF PushFails, PushDies, PushAnswered, Returns, Dies
  <2> QED BY <2>1
<1>9. CASE OpenHead
  <2>1. pc = "open" /\ pc' \in {"msgrcv", "write"} BY <1>9 DEF OpenHead, Returns
  <2> QED BY <2>1
<1>10. ~Msgrcv BY DEF Msgrcv
<1> QED BY <1>1, <1>2, <1>3, <1>4, <1>5, <1>6, <1>7, <1>8, <1>9, <1>10 DEF Proxy

\* With NobodyWaitsInVain this is what EveryCommandEnds needs besides fairness.
THEOREM CommandsRunOut == Spec => CommandsAdvance
<1>1. ASSUME TypeOK, [Next]_vars
      PROVE  [pc \notin {"down", "msgrcv"} =>
                /\ Proxy => StepsLeft' < StepsLeft
                /\ StepsLeft' <= StepsLeft]_vars
  <2> SUFFICES ASSUME Next, pc \notin {"down", "msgrcv"}
               PROVE  (Proxy => StepsLeft' < StepsLeft) /\ StepsLeft' <= StepsLeft
    BY <1>1
  <2>1. StepsLeft \in Nat
    <3>1. pc \in {"down", "msgrcv", "handle", "GIT_INIT", "GIT_ADD", "commit", "push", "pull",
                  "history", "open", "write"} \cup Prompts
      BY <1>1 DEF TypeOK
    <3> QED BY <3>1, StepsLeftIs DEF Prompts
  <2>2. CASE Proxy
    <3>1. StepsLeft' \in Nat /\ StepsLeft' < StepsLeft BY <1>1, <2>2, ProxyAdvances
    <3> QED BY <2>1, <3>1
  <2>3. CASE ~Proxy
    <3>1. pc' = pc \/ pc' = "down"
      BY <2>3 DEF Next, Send, Type, RedisStops, ServerStops, Ipcrm, Start, Kill, Dies, proxy
    <3>2. CASE pc' = pc
      <4>1. StepsLeft' = StepsLeft BY <3>2 DEF StepsLeft
      <4> QED BY <2>1, <2>3, <4>1
    <3>3. CASE pc' = "down"
      <4>1. StepsLeft' = 0 BY <3>3, StepsLeftWillBe
      <4> QED BY <2>1, <2>3, <4>1
    <3> QED BY <3>1, <3>2, <3>3
  <2> QED BY <2>2, <2>3
<1> QED BY <1>1, TypeCorrect, PTL DEF Spec, CommandsAdvance
=============================================================================
