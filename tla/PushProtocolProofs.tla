-------------------------- MODULE PushProtocolProofs --------------------------
(***************************************************************************)
(* Proofs about PushProtocol: that a stream without marks stays in step,   *)
(* and that what is published is what the proxy listed, for any number of  *)
(* proxies, lists, sizes and socket buffers.                               *)
(***************************************************************************)
EXTENDS PushProtocol, TLAPS

-----------------------------------------------------------------------------
(* The stream of a status list.  A place in it is a pair of the number of  *)
(* a file and of a block in it, where block 0 is the file header.          *)

Places == Nat \X Nat

BlockAt(l, z) == IF z[2] = 0 THEN FileHeader(l[z[1]]) ELSE Data(l[z[1]], z[2])

After(l, z) == IF z[2] < l[z[1]].size THEN <<z[1], z[2] + 1>> ELSE <<z[1] + 1, 0>>

\* The blocks s are those of list l from place a up to, and without, place z.
Between(l, s, a, z) ==
  \E places \in Seq(Places) :
    /\ Len(places) = Len(s) + 1 /\ places[1] = a /\ places[Len(s) + 1] = z
    /\ \A n \in 1..Len(s) :
         /\ places[n][1] \in DOMAIN l
         /\ s[n] = BlockAt(l, places[n])
         /\ places[n + 1] = After(l, places[n])

LEMMA AfterType ==
  ASSUME NEW l \in Seq(StatusEntry), NEW z \in Places
  PROVE  After(l, z) \in Places
BY DEF After, Places

LEMMA BetweenNothing ==
  ASSUME NEW l, NEW a \in Places, NEW z \in Places
  PROVE  Between(l, <<>>, a, z) <=> a = z
<1>1. ASSUME a = z PROVE Between(l, <<>>, a, z)
  <2> DEFINE places == <<a>>
  <2>1. places \in Seq(Places) /\ Len(places) = 1 /\ places[1] = a OBVIOUS
  <2> HIDE DEF places
  <2>2. Len(<<>>) = 0 OBVIOUS
  <2> QED BY <1>1, <2>1, <2>2 DEF Between
<1>2. ASSUME Between(l, <<>>, a, z) PROVE a = z
  <2>1. Len(<<>>) = 0 OBVIOUS
  <2> QED BY <1>2, <2>1 DEF Between
<1> QED BY <1>1, <1>2

LEMMA BetweenAppend ==
  ASSUME NEW l \in Seq(StatusEntry), NEW s, NEW S, s \in Seq(S), NEW a, NEW z \in Places,
         Between(l, s, a, z), z[1] \in DOMAIN l, NEW block \in S, block = BlockAt(l, z)
  PROVE  Between(l, Append(s, block), a, After(l, z))
<1>1. PICK places \in Seq(Places) :
        /\ Len(places) = Len(s) + 1 /\ places[1] = a /\ places[Len(s) + 1] = z
        /\ \A n \in 1..Len(s) :
             /\ places[n][1] \in DOMAIN l
             /\ s[n] = BlockAt(l, places[n])
             /\ places[n + 1] = After(l, places[n])
  BY DEF Between
<1> DEFINE next == After(l, z)
           more == Append(places, next)
           t == Append(s, block)
<1>2. next \in Places BY AfterType
<1> HIDE DEF next
<1>3. /\ more \in Seq(Places) /\ Len(more) = Len(places) + 1
      /\ \A n \in 1..Len(places) : more[n] = places[n]
      /\ more[Len(places) + 1] = next
  BY <1>2
<1>4. /\ Len(t) = Len(s) + 1 /\ t[Len(s) + 1] = block /\ Len(s) \in Nat
      /\ \A n \in 1..Len(s) : t[n] = s[n]
  OBVIOUS
<1> HIDE DEF more, t
<1>5. Len(more) = Len(t) + 1 /\ more[1] = a /\ more[Len(t) + 1] = next
  BY <1>1, <1>3, <1>4
<1>6. ASSUME NEW n \in 1..Len(t)
      PROVE  /\ more[n][1] \in DOMAIN l
             /\ t[n] = BlockAt(l, more[n])
             /\ more[n + 1] = After(l, more[n])
  <2>1. CASE n \in 1..Len(s)
    <3>1. n \in 1..Len(places) /\ n + 1 \in 1..Len(places) BY <1>1, <1>4, <2>1
    <3>2. more[n] = places[n] /\ more[n + 1] = places[n + 1] /\ t[n] = s[n]
      BY <1>3, <1>4, <2>1, <3>1
    <3> QED BY <1>1, <2>1, <3>2
  <2>2. CASE n = Len(s) + 1
    <3>1. n \in 1..Len(places) BY <1>1, <1>4, <2>2
    <3>2. more[n] = z /\ more[n + 1] = next /\ t[n] = block
      BY <1>1, <1>3, <1>4, <2>2, <3>1
    <3> QED BY <3>2 DEF next
  <2> QED BY <1>4, <2>1, <2>2
<1>7. Between(l, t, a, next) BY <1>3, <1>5, <1>6 DEF Between
<1> QED BY <1>7 DEF t, next

LEMMA BetweenTail ==
  ASSUME NEW l, NEW S, NEW s \in Seq(S), NEW a, NEW z, Between(l, s, a, z), s # <<>>
  PROVE  /\ a \in Places /\ a[1] \in DOMAIN l /\ Head(s) = BlockAt(l, a)
         /\ Between(l, Tail(s), After(l, a), z)
<1>1. PICK places \in Seq(Places) :
        /\ Len(places) = Len(s) + 1 /\ places[1] = a /\ places[Len(s) + 1] = z
        /\ \A n \in 1..Len(s) :
             /\ places[n][1] \in DOMAIN l
             /\ s[n] = BlockAt(l, places[n])
             /\ places[n + 1] = After(l, places[n])
  BY DEF Between
<1> DEFINE rest == Tail(places)
           t == Tail(s)
<1>2. /\ Len(s) \in Nat \ {0} /\ Head(s) = s[1] /\ Len(t) = Len(s) - 1
      /\ \A n \in 1..Len(t) : t[n] = s[n + 1]
  OBVIOUS
<1>3. /\ rest \in Seq(Places) /\ Len(rest) = Len(places) - 1
      /\ \A n \in 1..Len(rest) : rest[n] = places[n + 1]
  BY <1>1, <1>2
<1>4. a \in Places BY <1>1, <1>2
<1> HIDE DEF rest, t
<1>5. 1 \in 1..Len(s) BY <1>2
<1>6. a[1] \in DOMAIN l /\ Head(s) = BlockAt(l, a) /\ places[2] = After(l, a)
  BY <1>1, <1>2, <1>5
<1>7. Len(rest) = Len(t) + 1 /\ rest[1] = After(l, a) /\ rest[Len(t) + 1] = z
  BY <1>1, <1>2, <1>3, <1>6
<1>8. ASSUME NEW n \in 1..Len(t)
      PROVE  /\ rest[n][1] \in DOMAIN l
             /\ t[n] = BlockAt(l, rest[n])
             /\ rest[n + 1] = After(l, rest[n])
  <2>1. n + 1 \in 1..Len(s) BY <1>2
  <2>2. n \in 1..Len(rest) /\ n + 1 \in 1..Len(rest) BY <1>7, <1>2
  <2>3. rest[n] = places[n + 1] /\ rest[n + 1] = places[n + 1 + 1] /\ t[n] = s[n + 1]
    BY <1>2, <1>3, <2>2
  <2> QED BY <1>1, <2>1, <2>3
<1>9. Between(l, t, After(l, a), z) BY <1>3, <1>7, <1>8 DEF Between
<1> QED BY <1>4, <1>6, <1>9 DEF t

-----------------------------------------------------------------------------
(* Where the two ends can be.                                              *)

Line0(p) == pc[p] \in {"start", "setup", "line"}
Serving(p) == at[p] \in {"header", "payload"}

\* The proxy's loop.
ProxyInv(p) ==
  /\ Line0(p) => i[p] = 1 /\ off[p] = 0 /\ toServer[p] = <<>>
  /\ pc[p] \in {"start", "setup"} => at[p] = "none"
  /\ pc[p] \in {"setup", "line", "file", "data", "recv"} => list[p] # <<>>
  /\ pc[p] \in {"line", "file", "data", "recv"} => at[p] # "none"
  /\ pc[p] \in {"file", "data"} => i[p] \in DOMAIN list[p]
  /\ pc[p] = "file" => off[p] = 0
  /\ pc[p] = "data" => list[p][i[p]].opens /\ off[p] < list[p][i[p]].size
  /\ pc[p] = "recv" => i[p] = Len(list[p]) + 1

\* The connection and the worker at its other end.
WorkerInv(p) ==
  /\ at[p] \in {"line", "lock", "header", "payload"} => link[p] = "up" /\ reply[p] = "none"
  /\ at[p] = "none" => link[p] = "none" /\ reply[p] = "none" /\ got[p] = <<>>
  /\ pc[p] = "line" => at[p] = "line"
  /\ at[p] = "line" /\ pc[p] # "line" => toServer[p] # <<>>
  /\ at[p] = "line" /\ toServer[p] # <<>> => Head(toServer[p]) = Line(Len(list[p]))
  /\ at[p] \in {"line", "lock"} => got[p] = <<>>
  /\ at[p] \in {"lock", "header", "payload"} => left[p] + Len(got[p]) = Len(list[p])
  /\ at[p] = "payload" => left[p] > 0

\* branch_lock, and whose commit there is.
LockInv(p) ==
  /\ Serving(p) => lock = p /\ commits = <<>>
  /\ \A k \in DOMAIN commits : commits[k].by = p => at[p] = "closed"

Control == \A p \in Proxies : ProxyInv(p) /\ WorkerInv(p) /\ LockInv(p)

CInv == TypeOK /\ Control /\ OneWinner

\* A step of p or of its worker leaves the variables of the others alone.
Others(p) ==
  \A q \in Proxies \ {p} :
    /\ pc'[q] = pc[q] /\ list'[q] = list[q] /\ i'[q] = i[q] /\ off'[q] = off[q]
    /\ link'[q] = link[q] /\ toServer'[q] = toServer[q] /\ reply'[q] = reply[q]
    /\ at'[q] = at[q] /\ left'[q] = left[q] /\ header'[q] = header[q]
    /\ payload'[q] = payload[q] /\ got'[q] = got[q]
    /\ q \in shrunk' <=> q \in shrunk

LEMMA OthersKept ==
  ASSUME NEW p \in Proxies, Others(p)
  PROVE  \A q \in Proxies \ {p} : /\ ProxyInv(q) => ProxyInv(q)'
                                  /\ WorkerInv(q) => WorkerInv(q)'
BY DEF Others, ProxyInv, WorkerInv, Line0

ProxyStep(p) ==
  \/ ListStatus(p) \/ setup(p) \/ Refused(p) \/ SendLine(p) \/ SkipFile(p)
  \/ SendFileHeader(p) \/ SendBlock(p) \/ FileShrank(p) \/ SendfileFails(p)
  \/ Sigpipe(p) \/ RecvReply(p) \/ Kill(p)

LEMMA StepKinds ==
  ASSUME [Next]_vars
  PROVE  (\E p \in Proxies : ProxyStep(p) \/ handle_client(p)) \/ UNCHANGED vars
BY DEF Next, git_push_server, ProxyStep, Rest

LEMMA StepOthers ==
  ASSUME TypeOK, NEW p \in Proxies, ProxyStep(p) \/ handle_client(p)
  PROVE  Others(p)
<1>0. /\ DOMAIN pc = Proxies /\ DOMAIN list = Proxies /\ DOMAIN i = Proxies
      /\ DOMAIN off = Proxies /\ DOMAIN link = Proxies /\ DOMAIN toServer = Proxies
      /\ DOMAIN reply = Proxies /\ DOMAIN at = Proxies /\ DOMAIN left = Proxies
      /\ DOMAIN header = Proxies /\ DOMAIN payload = Proxies /\ DOMAIN got = Proxies
  BY DEF TypeOK
<1>1. CASE ListStatus(p) BY <1>0, <1>1 DEF ListStatus, Others, wire, server
<1>2. CASE setup(p) BY <1>0, <1>2 DEF setup, Others
<1>3. CASE Refused(p) BY <1>0, <1>3 DEF Refused, Others, wire, server
<1>4. CASE SendLine(p) BY <1>0, <1>4 DEF SendLine, Others, server
<1>5. CASE SkipFile(p) BY <1>0, <1>5 DEF SkipFile, NextFile, Others, wire, server
<1>6. CASE SendFileHeader(p)
  <2>1. \A q \in Proxies \ {p} : toServer'[q] = toServer[q] /\ link'[q] = link[q]
    BY <1>0, <1>6 DEF SendFileHeader, Send
  <2>2. \A q \in Proxies \ {p} : pc'[q] = pc[q] /\ i'[q] = i[q] /\ off'[q] = off[q]
    BY <1>0, <1>6 DEF SendFileHeader, NextFile
  <2>3. UNCHANGED <<list, reply, server, shrunk>> BY <1>0, <1>6 DEF SendFileHeader
  <2> QED BY <2>1, <2>2, <2>3 DEF Others, server
<1>7. CASE SendBlock(p)
  <2>1. \A q \in Proxies \ {p} : toServer'[q] = toServer[q] /\ link'[q] = link[q]
    BY <1>0, <1>7 DEF SendBlock, Send
  <2>2. \A q \in Proxies \ {p} : pc'[q] = pc[q] /\ i'[q] = i[q] /\ off'[q] = off[q]
    BY <1>0, <1>7 DEF SendBlock, NextFile
  <2>3. UNCHANGED <<list, reply, server, shrunk>> BY <1>0, <1>7 DEF SendBlock
  <2> QED BY <2>1, <2>2, <2>3 DEF Others, server
<1>8. CASE FileShrank(p) BY <1>0, <1>8 DEF FileShrank, NextFile, Others, wire, server
<1>9. CASE SendfileFails(p) BY <1>0, <1>9 DEF SendfileFails, NextFile, Others, server
<1>10. CASE Sigpipe(p) BY <1>0, <1>10 DEF Sigpipe, Others, wire, server
<1>11. CASE RecvReply(p) BY <1>0, <1>11 DEF RecvReply, Others, wire, server
<1>12. CASE Kill(p) BY <1>0, <1>12 DEF Kill, Others, wire, server
<1>13. CASE ReadLine(p) BY <1>0, <1>13 DEF ReadLine, Received, Others, proxy
<1>14. CASE Conflict(p) BY <1>0, <1>14 DEF Conflict, CloseWith, Others, proxy
<1>15. CASE Lock(p) BY <1>0, <1>15 DEF Lock, Others, proxy, wire
<1>16. CASE RecvFileHeader(p) BY <1>0, <1>16 DEF RecvFileHeader, Received, Others, proxy
<1>17. CASE RecvPayload(p) BY <1>0, <1>17 DEF RecvPayload, Received, Others, proxy
<1>18. CASE FileReceived(p) BY <1>0, <1>18 DEF FileReceived, Others, proxy, wire
<1>19. CASE Publish(p) BY <1>0, <1>19 DEF Publish, CloseWith, Others, proxy
<1> QED BY <1>1, <1>2, <1>3, <1>4, <1>5, <1>6, <1>7, <1>8, <1>9, <1>10, <1>11, <1>12,
           <1>13, <1>14, <1>15, <1>16, <1>17, <1>18, <1>19
        DEF ProxyStep, handle_client

-----------------------------------------------------------------------------
(* The proxy's steps keep the types and the control.                       *)

\* What an entry of the list makes the proxy send.
LEMMA SentBlocks ==
  ASSUME TypeOK, NEW p \in Proxies, i[p] \in DOMAIN list[p]
  PROVE  LET e == list[p][i[p]]
         IN  /\ e \in StatusEntry /\ FileHeader(e) \in Blocks
             /\ \A n \in 1..e.size : Data(e, n) \in Blocks
<1> DEFINE e == list[p][i[p]]
<1>1. e \in StatusEntry BY DEF TypeOK
<1>2. FileHeader(e) \in Blocks BY <1>1 DEF FileHeader, Blocks, StatusEntry
<1>3. \A n \in 1..e.size : Data(e, n) \in Blocks
  <2> SUFFICES ASSUME NEW n \in 1..e.size PROVE Data(e, n) \in Blocks OBVIOUS
  <2>1. e.name \in Names /\ n \in 1..MaxSize
    BY <1>1, ProtocolAssumption DEF StatusEntry
  <2> QED BY <2>1 DEF Data, Blocks
<1> QED BY <1>1, <1>2, <1>3

\* NextFile ends the loop or begins the next turn.
LEMMA NextFileInv ==
  ASSUME TypeOK, NEW p \in Proxies, ProxyInv(p), WorkerInv(p), pc[p] \in {"file", "data"},
         NextFile(p), list' = list, at' = at
  PROVE  /\ i' \in [Proxies -> Nat \ {0}] /\ off' \in [Proxies -> 0..MaxSize]
         /\ pc' \in [Proxies -> {"start", "setup", "line", "file", "data", "recv", "done", "dead"}]
         /\ i'[p] = i[p] + 1 /\ off'[p] = 0
         /\ pc'[p] = IF i[p] = Len(list[p]) THEN "recv" ELSE "file"
         /\ ProxyInv(p)'
<1>1. i[p] \in 1..Len(list[p]) /\ Len(list[p]) \in Nat
  <2>1. list[p] \in Seq(StatusEntry) BY DEF TypeOK
  <2>2. i[p] \in DOMAIN list[p] BY DEF ProxyInv
  <2> QED BY ONLY <2>1, <2>2
<1>2. 0 \in 0..MaxSize BY ProtocolAssumption
<1>3. /\ i'[p] = i[p] + 1 /\ off'[p] = 0
      /\ pc'[p] = IF i[p] = Len(list[p]) THEN "recv" ELSE "file"
  BY DEF NextFile, TypeOK
<1>4. /\ i' \in [Proxies -> Nat \ {0}] /\ off' \in [Proxies -> 0..MaxSize]
      /\ pc' \in [Proxies -> {"start", "setup", "line", "file", "data", "recv", "done", "dead"}]
  BY <1>2 DEF NextFile, TypeOK
<1>5. ProxyInv(p)' BY <1>1, <1>3 DEF ProxyInv, Line0, TypeOK
<1> QED BY <1>3, <1>4, <1>5

\* What a send leaves on the way.
LEMMA SendInv ==
  ASSUME TypeOK, NEW p \in Proxies, WorkerInv(p), at[p] # "none", pc[p] # "line",
         NEW block \in Blocks, Send(p, block)
  PROVE  /\ toServer' \in [Proxies -> Seq(Blocks)]
         /\ link' \in [Proxies -> {"none", "up", "closing", "broken"}]
         /\ at[p] \in {"line", "lock", "header", "payload"} =>
              link'[p] = "up" /\ toServer'[p] = Append(toServer[p], block)
         /\ at[p] = "line" => toServer'[p] # <<>> /\ Head(toServer'[p]) = Head(toServer[p])
<1>1. /\ toServer' \in [Proxies -> Seq(Blocks)]
      /\ link' \in [Proxies -> {"none", "up", "closing", "broken"}]
  <2>1. toServer \in [Proxies -> Seq(Blocks)] BY DEF TypeOK
  <2>2. Append(toServer[p], block) \in Seq(Blocks) BY <2>1
  <2>3. toServer' \in {toServer, [toServer EXCEPT ![p] = Append(toServer[p], block)]}
    BY DEF Send
  <2>4. toServer' \in [Proxies -> Seq(Blocks)] BY <2>1, <2>2, <2>3
  <2>5. link \in [Proxies -> {"none", "up", "closing", "broken"}] BY DEF TypeOK
  <2>6. link' \in {link, [link EXCEPT ![p] = "broken"]} BY DEF Send
  <2>7. link' \in [Proxies -> {"none", "up", "closing", "broken"}] BY ONLY <2>5, <2>6
  <2> QED BY <2>4, <2>7
<1>2. ASSUME at[p] \in {"line", "lock", "header", "payload"}
      PROVE  link'[p] = "up" /\ toServer'[p] = Append(toServer[p], block)
  BY <1>2 DEF Send, TypeOK, WorkerInv
<1>3. ASSUME at[p] = "line"
      PROVE  toServer'[p] # <<>> /\ Head(toServer'[p]) = Head(toServer[p])
  <2> DEFINE s == toServer[p]
  <2>1. s \in Seq(Blocks) /\ s # <<>> BY <1>3 DEF TypeOK, WorkerInv
  <2>2. Append(s, block) # <<>> /\ Head(Append(s, block)) = Head(s) BY <2>1
  <2> QED BY <1>2, <1>3, <2>2
<1> QED BY <1>1, <1>2, <1>3

PCs == {"start", "setup", "line", "file", "data", "recv", "done", "dead"}

\* What the proxy's steps leave alone of the server, or move by themselves.
LEMMA ProxyStepInv ==
  ASSUME CInv, NEW p \in Proxies, ProxyStep(p)
  PROVE  TypeOK' /\ ProxyInv(p)' /\ WorkerInv(p)'
<1> USE DEF CInv, Control
<1>1. CASE ListStatus(p)
  <2>1. PICK l \in StatusLists :
          /\ list' = [list EXCEPT ![p] = l]
          /\ pc' = [pc EXCEPT ![p] = IF l = <<>> THEN "done" ELSE "setup"]
    BY <1>1 DEF ListStatus
  <2>2. l \in Seq(StatusEntry) BY ProtocolAssumption
  <2>3. list' \in [Proxies -> Seq(StatusEntry)] /\ list'[p] = l
        /\ pc' \in [Proxies -> PCs] /\ pc'[p] = IF l = <<>> THEN "done" ELSE "setup"
    BY <2>1, <2>2 DEF TypeOK, PCs
  <2>4. pc[p] = "start" /\ UNCHANGED <<i, off, wire, server, shrunk>>
    BY <1>1 DEF ListStatus
  <2>5. TypeOK' BY <2>3, <2>4 DEF TypeOK, PCs, wire, server
  <2>6. at[p] = "none" /\ i[p] = 1 /\ off[p] = 0 /\ toServer[p] = <<>>
    BY <2>4 DEF ProxyInv, Line0
  <2>7. ProxyInv(p)' BY <2>3, <2>4, <2>6 DEF ProxyInv, Line0, wire, server
  <2>8. WorkerInv(p)' BY <2>3, <2>4, <2>6 DEF WorkerInv, wire, server
  <2> QED BY <2>5, <2>7, <2>8
<1>2. CASE setup(p)
  <2>1. /\ pc[p] = "setup" /\ pc'[p] = "line" /\ link'[p] = "up" /\ at'[p] = "line"
        /\ UNCHANGED <<list, i, off, toServer, reply, left, header, payload, got, lock,
                       commits, shrunk>>
    BY <1>2 DEF setup, TypeOK
  <2>2. TypeOK' BY <1>2 DEF setup, TypeOK
  <2>3. at[p] = "none" BY <2>1 DEF ProxyInv
  <2>4. reply[p] = "none" BY <2>3 DEF WorkerInv
  <2>5. ProxyInv(p)' BY <2>1 DEF ProxyInv, Line0
  <2>6. WorkerInv(p)' BY <2>1, <2>3, <2>4 DEF WorkerInv, ProxyInv, Line0
  <2> QED BY <2>2, <2>5, <2>6
<1>3. CASE Refused(p) \/ Sigpipe(p) \/ Kill(p) \/ RecvReply(p)
  <2>1. /\ pc' = [pc EXCEPT ![p] = IF RecvReply(p) THEN "done" ELSE "dead"]
        /\ UNCHANGED <<list, i, off, wire, server, shrunk>>
        /\ pc[p] # "line"
    BY <1>3 DEF Refused, Sigpipe, Kill, RecvReply
  <2>2. pc' \in [Proxies -> PCs] /\ pc'[p] \in {"done", "dead"} BY <2>1 DEF TypeOK, PCs
  <2>3. TypeOK' BY <2>1, <2>2 DEF TypeOK, PCs, wire, server
  <2>4. ProxyInv(p)' BY <2>2 DEF ProxyInv, Line0
  <2>5. WorkerInv(p)' BY <2>1, <2>2 DEF WorkerInv, wire, server
  <2> QED BY <2>3, <2>4, <2>5
<1>4. CASE SendLine(p)
  <2> DEFINE block == Line(Len(list[p]))
  <2>1. Len(list[p]) \in Nat /\ block \in Blocks BY DEF TypeOK, Line, Blocks
  <2>2. /\ pc[p] = "line" /\ pc' = [pc EXCEPT ![p] = "file"]
        /\ toServer' = [toServer EXCEPT ![p] = Append(toServer[p], block)]
        /\ UNCHANGED <<list, i, off, link, reply, server, shrunk>>
    BY <1>4 DEF SendLine, Announced
  <2>3. toServer[p] = <<>> /\ i[p] = 1 /\ off[p] = 0 /\ list[p] # <<>> /\ at[p] = "line"
    BY <2>2 DEF ProxyInv, WorkerInv, Line0
  <2>4. Append(toServer[p], block) = <<block>> BY <2>3
  <2>5. toServer' \in [Proxies -> Seq(Blocks)] /\ toServer'[p] = <<block>>
    BY <2>1, <2>2, <2>4 DEF TypeOK
  <2>6. TypeOK' BY <2>2, <2>5 DEF TypeOK, server
  <2>7. ProxyInv(p)' BY <2>2, <2>3 DEF ProxyInv, Line0, TypeOK, server
  <2>8. <<block>> # <<>> /\ Head(<<block>>) = block OBVIOUS
  <2> HIDE DEF block
  <2>9. WorkerInv(p)' BY <2>2, <2>3, <2>5, <2>8 DEF WorkerInv, TypeOK, server, block
  <2> QED BY <2>6, <2>7, <2>9
<1>5. CASE SkipFile(p) \/ FileShrank(p) \/ SendfileFails(p)
  <2>1. /\ pc[p] \in {"file", "data"} /\ NextFile(p)
        /\ UNCHANGED <<list, toServer, reply, server>>
        /\ link' \in {link, [link EXCEPT ![p] = "broken"]}
        /\ link' # link => link[p] \in {"closing", "broken"}
        /\ shrunk' \subseteq Proxies
    BY <1>5 DEF SkipFile, FileShrank, SendfileFails, wire, TypeOK
  <2>2. UNCHANGED at BY <2>1 DEF server
  <2>3. /\ i' \in [Proxies -> Nat \ {0}] /\ off' \in [Proxies -> 0..MaxSize]
        /\ pc' \in [Proxies -> PCs]
        /\ pc'[p] \in {"file", "recv"} /\ ProxyInv(p)'
    BY <2>1, <2>2, NextFileInv DEF PCs
  <2>4. TypeOK' BY <2>1, <2>3 DEF TypeOK, PCs, server
  <2>5. at[p] # "none" /\ pc[p] # "line" BY <2>1 DEF ProxyInv
  <2>6. WorkerInv(p)' BY <2>1, <2>3, <2>5 DEF WorkerInv, server, TypeOK
  <2> QED BY <2>3, <2>4, <2>6
<1>6. ASSUME NEW block \in Blocks, Send(p, block), pc[p] \in {"file", "data"},
             UNCHANGED <<list, reply, server, shrunk>>,
             pc' \in [Proxies -> PCs], pc'[p] \in {"file", "data", "recv"},
             i' \in [Proxies -> Nat \ {0}], off' \in [Proxies -> 0..MaxSize]
      PROVE  TypeOK' /\ WorkerInv(p)'
  <2>1. at[p] # "none" /\ pc[p] # "line" BY <1>6 DEF ProxyInv
  <2>2. /\ toServer' \in [Proxies -> Seq(Blocks)]
        /\ link' \in [Proxies -> {"none", "up", "closing", "broken"}]
        /\ at[p] \in {"line", "lock", "header", "payload"} => link'[p] = "up"
        /\ at[p] = "line" => toServer'[p] # <<>> /\ Head(toServer'[p]) = Head(toServer[p])
    BY <1>6, <2>1, SendInv
  <2>3. TypeOK' BY <1>6, <2>2 DEF TypeOK, PCs, server
  <2>4. WorkerInv(p)' BY <1>6, <2>1, <2>2 DEF WorkerInv, server
  <2> QED BY <2>3, <2>4
<1>7. CASE SendFileHeader(p)
  <2> DEFINE e == list[p][i[p]]
  <2>1. /\ pc[p] = "file" /\ e.opens /\ Send(p, FileHeader(e))
        /\ UNCHANGED <<list, reply, server, shrunk>>
        /\ \/ e.size = 0 /\ NextFile(p)
           \/ e.size # 0 /\ pc' = [pc EXCEPT ![p] = "data"] /\ UNCHANGED <<i, off>>
    BY <1>7 DEF SendFileHeader
  <2>2. i[p] \in DOMAIN list[p] BY <2>1 DEF ProxyInv
  <2>3. e \in StatusEntry /\ FileHeader(e) \in Blocks BY <2>2, SentBlocks
  <2>4. at' = at BY <2>1 DEF server
  <2> HIDE DEF e
  <2>5. /\ pc' \in [Proxies -> PCs] /\ pc'[p] \in {"file", "data", "recv"}
        /\ i' \in [Proxies -> Nat \ {0}] /\ off' \in [Proxies -> 0..MaxSize]
        /\ ProxyInv(p)'
    <3>1. CASE NextFile(p) BY <2>1, <2>4, <3>1, NextFileInv DEF PCs
    <3>2. CASE e.size # 0 /\ pc' = [pc EXCEPT ![p] = "data"] /\ UNCHANGED <<i, off>>
      <4>1. pc' \in [Proxies -> PCs] /\ pc'[p] = "data" BY <3>2 DEF TypeOK, PCs
      <4>2. e.size \in Nat BY <2>3, ProtocolAssumption DEF StatusEntry
      <4>3. off[p] = 0 /\ 0 < e.size BY <2>1, <3>2, <4>2 DEF ProxyInv
      <4>4. ProxyInv(p)'
        BY <2>1, <2>2, <2>4, <3>2, <4>1, <4>3 DEF ProxyInv, Line0, e
      <4> QED BY <3>2, <4>1, <4>4 DEF TypeOK
    <3> QED BY <2>1, <3>1, <3>2
  <2> QED BY <1>6, <2>1, <2>3, <2>5
<1>8. CASE SendBlock(p)
  <2> DEFINE e == list[p][i[p]]
  <2>1. /\ pc[p] = "data" /\ Send(p, Data(e, off[p] + 1))
        /\ UNCHANGED <<list, reply, server, shrunk>>
        /\ \/ off[p] + 1 = e.size /\ NextFile(p)
           \/ /\ off[p] + 1 # e.size /\ off' = [off EXCEPT ![p] = off[p] + 1]
              /\ UNCHANGED <<pc, i>>
    BY <1>8 DEF SendBlock
  <2>2. i[p] \in DOMAIN list[p] /\ e.opens /\ off[p] < e.size BY <2>1 DEF ProxyInv
  <2>3. /\ e \in StatusEntry /\ \A n \in 1..e.size : Data(e, n) \in Blocks
    BY <2>2, SentBlocks
  <2>4. at' = at BY <2>1 DEF server
  <2>5. e.size \in 0..MaxSize BY <2>3 DEF StatusEntry
  <2>6. off[p] \in Nat BY DEF TypeOK
  <2> HIDE DEF e
  <2>7. off[p] + 1 \in 1..e.size /\ off[p] + 1 \in 0..MaxSize
    BY <2>2, <2>5, <2>6, ProtocolAssumption
  <2>8. Data(e, off[p] + 1) \in Blocks BY <2>3, <2>7
  <2>9. /\ pc' \in [Proxies -> PCs] /\ pc'[p] \in {"file", "data", "recv"}
        /\ i' \in [Proxies -> Nat \ {0}] /\ off' \in [Proxies -> 0..MaxSize]
        /\ ProxyInv(p)'
    <3>1. CASE NextFile(p) BY <2>1, <2>4, <3>1, NextFileInv DEF PCs
    <3>2. CASE /\ off[p] + 1 # e.size /\ off' = [off EXCEPT ![p] = off[p] + 1]
               /\ UNCHANGED <<pc, i>>
      <4>1. off' \in [Proxies -> 0..MaxSize] /\ off'[p] = off[p] + 1
        BY <2>7, <3>2 DEF TypeOK
      <4>2. off'[p] < e.size BY <2>2, <2>5, <2>6, <3>2, <4>1, ProtocolAssumption
      <4>3. ProxyInv(p)'
        BY <2>1, <2>2, <2>4, <3>2, <4>2 DEF ProxyInv, Line0, e
      <4> QED BY <2>1, <3>2, <4>1, <4>3 DEF TypeOK, PCs
    <3> QED BY <2>1, <3>1, <3>2
  <2> QED BY <1>6, <2>1, <2>8, <2>9
<1> QED BY <1>1, <1>2, <1>3, <1>4, <1>5, <1>7, <1>8 DEF ProxyStep

-----------------------------------------------------------------------------
(* The worker's steps do too.                                              *)

LEMMA CloseInv ==
  ASSUME TypeOK, NEW p \in Proxies, NEW answer \in {"success", "conflict"},
         CloseWith(p, answer), UNCHANGED proxy, pc[p] # "line", at[p] # "none", ProxyInv(p)
  PROVE  /\ reply' \in [Proxies -> {"none", "success", "conflict"}]
         /\ link' \in [Proxies -> {"none", "up", "closing", "broken"}]
         /\ toServer' \in [Proxies -> Seq(Blocks)]
         /\ at' \in [Proxies -> {"none", "line", "lock", "header", "payload", "closed"}]
         /\ UNCHANGED <<left, header, payload, got>>
         /\ at'[p] = "closed" /\ ProxyInv(p)' /\ WorkerInv(p)'
<1>1. <<>> \in Seq(Blocks) OBVIOUS
<1>2. /\ reply' \in [Proxies -> {"none", "success", "conflict"}]
      /\ link' \in [Proxies -> {"none", "up", "closing", "broken"}]
      /\ toServer' \in [Proxies -> Seq(Blocks)]
      /\ at' \in [Proxies -> {"none", "line", "lock", "header", "payload", "closed"}]
      /\ at'[p] = "closed" /\ toServer'[p] = <<>>
  BY <1>1 DEF CloseWith, TypeOK
<1>3. ProxyInv(p)' BY <1>2 DEF ProxyInv, Line0, proxy
<1>4. WorkerInv(p)' BY <1>2 DEF WorkerInv, proxy
<1> QED BY <1>2, <1>3, <1>4 DEF CloseWith

\* What is left on the way after a recv.
LEMMA ReceivedInv ==
  ASSUME TypeOK, NEW p \in Proxies, toServer[p] # <<>>, Received(p)
  PROVE  /\ toServer' \in [Proxies -> Seq(Blocks)]
         /\ toServer'[p] = Tail(toServer[p])
         /\ Head(toServer[p]) \in Blocks
<1>1. toServer \in [Proxies -> Seq(Blocks)] BY DEF TypeOK
<1>2. Tail(toServer[p]) \in Seq(Blocks) /\ Head(toServer[p]) \in Blocks BY <1>1
<1> QED BY <1>1, <1>2 DEF Received

LEMMA ReadLineInv ==
  ASSUME CInv, NEW p \in Proxies, ReadLine(p)
  PROVE  TypeOK' /\ ProxyInv(p)' /\ WorkerInv(p)'
<1> USE DEF CInv, Control
<1>1. /\ at[p] = "line" /\ toServer[p] # <<>> /\ Received(p)
      /\ left' = [left EXCEPT ![p] = Head(toServer[p]).count]
      /\ at' = [at EXCEPT ![p] = "lock"]
      /\ UNCHANGED <<proxy, link, reply, header, payload, got, lock, commits, shrunk>>
  BY DEF ReadLine
<1>2. Head(toServer[p]).count = Len(list[p]) /\ Len(list[p]) \in Nat
  <2>1. Head(toServer[p]) = Line(Len(list[p])) BY <1>1 DEF WorkerInv
  <2>2. Line(Len(list[p])).count = Len(list[p]) BY DEF Line
  <2>3. list[p] \in Seq(StatusEntry) BY DEF TypeOK
  <2> QED BY <2>1, <2>2, <2>3
<1>3. toServer' \in [Proxies -> Seq(Blocks)] BY <1>1, ReceivedInv
<1>4. TypeOK' BY <1>1, <1>2, <1>3 DEF TypeOK, proxy
<1>5. pc[p] \notin {"start", "setup", "line"} BY <1>1 DEF ProxyInv, Line0
<1>6. ProxyInv(p)' BY <1>1, <1>5 DEF ProxyInv, Line0, TypeOK, proxy
<1>7. left'[p] = Len(list[p]) /\ at'[p] = "lock" BY <1>1, <1>2 DEF TypeOK
<1>8. got[p] = <<>> /\ Len(<<>>) = 0 BY <1>1 DEF WorkerInv
<1>9. WorkerInv(p)' BY <1>1, <1>2, <1>5, <1>7, <1>8 DEF WorkerInv, proxy
<1> QED BY <1>4, <1>6, <1>9

LEMMA RecvFileHeaderInv ==
  ASSUME CInv, NEW p \in Proxies, RecvFileHeader(p)
  PROVE  TypeOK' /\ ProxyInv(p)' /\ WorkerInv(p)'
<1> USE DEF CInv, Control
<1>1. /\ at[p] = "header" /\ left[p] > 0
      /\ at' = [at EXCEPT ![p] = "payload"] /\ payload' = [payload EXCEPT ![p] = <<>>]
      /\ UNCHANGED <<proxy, link, reply, left, got, lock, commits, shrunk>>
  BY DEF RecvFileHeader, MoreFiles
<1>2. /\ toServer' \in [Proxies -> Seq(Blocks)]
      /\ header' \in [Proxies -> [name : Names \cup {JunkName}, size : 0..MaxSize]]
  <2>1. CASE EndOfStream(p) /\ UNCHANGED <<header, toServer>> BY <2>1 DEF TypeOK
  <2>2. ASSUME toServer[p] # <<>>, Received(p),
               NEW h \in Scan(p, Head(toServer[p])), header' = [header EXCEPT ![p] = h]
        PROVE  /\ toServer' \in [Proxies -> Seq(Blocks)]
               /\ header' \in [Proxies -> [name : Names \cup {JunkName}, size : 0..MaxSize]]
    <3>1. toServer' \in [Proxies -> Seq(Blocks)] /\ Head(toServer[p]) \in Blocks
      BY <2>2, ReceivedInv
    <3>2. header[p].name \in Names \cup {JunkName} BY DEF TypeOK
    <3>3. h \in [name : Names \cup {JunkName}, size : 0..MaxSize]
      BY <2>2, <3>1, <3>2 DEF Scan, Blocks
    <3> QED BY <2>2, <3>1, <3>3 DEF TypeOK
  <2> QED BY <2>1, <2>2 DEF RecvFileHeader
<1>3. <<>> \in Seq(Blocks) OBVIOUS
<1>4. TypeOK' BY <1>1, <1>2, <1>3 DEF TypeOK, proxy
<1>5. pc[p] \notin {"start", "setup", "line"} BY <1>1 DEF ProxyInv, WorkerInv
<1>6. ProxyInv(p)' BY <1>1, <1>5 DEF ProxyInv, Line0, TypeOK, proxy
<1>7. at'[p] = "payload" BY <1>1 DEF TypeOK
<1>8. WorkerInv(p)' BY <1>1, <1>5, <1>7 DEF WorkerInv, proxy
<1> QED BY <1>4, <1>6, <1>8

LEMMA RecvPayloadInv ==
  ASSUME CInv, NEW p \in Proxies, RecvPayload(p)
  PROVE  TypeOK' /\ ProxyInv(p)' /\ WorkerInv(p)'
<1> USE DEF CInv, Control
<1>1. /\ at[p] = "payload" /\ toServer[p] # <<>> /\ Received(p)
      /\ payload' = [payload EXCEPT ![p] = Append(payload[p], Head(toServer[p]))]
      /\ UNCHANGED <<proxy, link, reply, at, left, header, got, lock, commits, shrunk>>
  BY DEF RecvPayload
<1>2. toServer' \in [Proxies -> Seq(Blocks)] /\ Head(toServer[p]) \in Blocks
  BY <1>1, ReceivedInv
<1>3. payload' \in [Proxies -> Seq(Blocks)]
  <2>1. payload \in [Proxies -> Seq(Blocks)] BY DEF TypeOK
  <2>2. Append(payload[p], Head(toServer[p])) \in Seq(Blocks) BY <1>2, <2>1
  <2> QED BY <1>1, <2>1, <2>2
<1>4. TypeOK' BY <1>1, <1>2, <1>3 DEF TypeOK, proxy
<1>5. pc[p] \notin {"start", "setup", "line"} BY <1>1 DEF ProxyInv, WorkerInv
<1>6. ProxyInv(p)' BY <1>1, <1>5 DEF ProxyInv, Line0, TypeOK, proxy
<1>7. WorkerInv(p)' BY <1>1, <1>5 DEF WorkerInv, proxy
<1> QED BY <1>4, <1>6, <1>7

LEMMA FileReceivedInv ==
  ASSUME CInv, NEW p \in Proxies, FileReceived(p)
  PROVE  TypeOK' /\ ProxyInv(p)' /\ WorkerInv(p)'
<1> USE DEF CInv, Control
<1> DEFINE f == [name |-> header[p].name, content |-> payload[p]]
<1>1. /\ at[p] = "payload"
      /\ got' = [got EXCEPT ![p] = Append(got[p], f)]
      /\ left' = [left EXCEPT ![p] = left[p] - 1]
      /\ at' = [at EXCEPT ![p] = "header"]
      /\ UNCHANGED <<proxy, wire, header, payload, lock, commits, shrunk>>
  BY DEF FileReceived
<1>2. f \in FileGot BY DEF FileGot, TypeOK
<1> HIDE DEF f
<1>3. got \in [Proxies -> Seq(FileGot)] BY DEF TypeOK
<1>4. /\ Append(got[p], f) \in Seq(FileGot)
      /\ Len(Append(got[p], f)) = Len(got[p]) + 1 /\ Len(got[p]) \in Nat
  BY <1>2, <1>3
<1>5. got' \in [Proxies -> Seq(FileGot)] /\ Len(got'[p]) = Len(got[p]) + 1
  BY <1>1, <1>3, <1>4
<1>6. left[p] > 0 /\ left[p] \in Nat BY <1>1 DEF WorkerInv, TypeOK
<1>7. left' \in [Proxies -> Nat] /\ left'[p] = left[p] - 1
  <2>1. left \in [Proxies -> Nat] BY DEF TypeOK
  <2>2. left[p] - 1 \in Nat BY ONLY <1>6
  <2> QED BY ONLY <1>1, <2>1, <2>2
<1>8. TypeOK' BY <1>1, <1>5, <1>7 DEF TypeOK, proxy, wire
<1>9. pc[p] \notin {"start", "setup", "line"} BY <1>1 DEF ProxyInv, WorkerInv
<1>10. at'[p] = "header" BY <1>1 DEF TypeOK
<1>11. ProxyInv(p)' BY <1>1, <1>9, <1>10 DEF ProxyInv, Line0, proxy, wire
<1>12. left[p] + Len(got[p]) = Len(list[p]) BY <1>1 DEF WorkerInv
<1>13. left'[p] + Len(got'[p]) = Len(list[p])
  <2>1. \A m, n \in Nat : (m - 1) + (n + 1) = m + n OBVIOUS
  <2>2. left'[p] + Len(got'[p]) = left[p] + Len(got[p]) BY <1>4, <1>5, <1>6, <1>7, <2>1
  <2> QED BY <1>12, <2>2
<1>14. WorkerInv(p)' BY <1>1, <1>9, <1>10, <1>13 DEF WorkerInv, proxy, wire
<1> QED BY <1>8, <1>11, <1>14

LEMMA WorkerStepInv ==
  ASSUME CInv, NEW p \in Proxies, handle_client(p)
  PROVE  TypeOK' /\ ProxyInv(p)' /\ WorkerInv(p)'
<1> USE DEF CInv, Control
<1>1. CASE Conflict(p)
  <2>1. at[p] = "lock" BY <1>1 DEF Conflict
  <2>2. pc[p] # "line" BY <2>1 DEF WorkerInv
  <2>3. CloseWith(p, "conflict") /\ UNCHANGED <<proxy, lock, commits, shrunk>>
    BY <1>1 DEF Conflict
  <2> QED BY <2>1, <2>2, <2>3, CloseInv DEF TypeOK, proxy
<1>2. CASE Publish(p)
  <2>1. at[p] = "header" BY <1>2 DEF Publish
  <2>2. pc[p] # "line" BY <2>1 DEF WorkerInv
  <2>3. /\ CloseWith(p, "success") /\ UNCHANGED <<proxy, shrunk>> /\ lock' = NoProxy
        /\ commits' = Append(commits, [by |-> p, files |-> got[p]])
    BY <1>2 DEF Publish
  <2>4. commits' \in Seq([by : Proxies, files : Seq(FileGot)])
    <3>1. [by |-> p, files |-> got[p]] \in [by : Proxies, files : Seq(FileGot)]
      BY DEF TypeOK
    <3> QED BY <2>3, <3>1 DEF TypeOK
  <2> QED BY <2>1, <2>2, <2>3, <2>4, CloseInv DEF TypeOK, proxy
<1>3. CASE Lock(p)
  <2>1. /\ at[p] = "lock" /\ at' = [at EXCEPT ![p] = "header"] /\ lock' = p
        /\ UNCHANGED <<proxy, wire, left, header, payload, got, commits, shrunk>>
    BY <1>3 DEF Lock
  <2>2. TypeOK' BY <2>1 DEF TypeOK, proxy, wire
  <2>3. at'[p] = "header" BY <2>1 DEF TypeOK
  <2>4. pc[p] \notin {"start", "setup", "line"} BY <2>1 DEF ProxyInv, WorkerInv
  <2>5. ProxyInv(p)' BY <2>1, <2>3, <2>4 DEF ProxyInv, Line0, proxy, wire
  <2>6. WorkerInv(p)' BY <2>1, <2>3, <2>4 DEF WorkerInv, proxy, wire
  <2> QED BY <2>2, <2>5, <2>6
<1> QED BY <1>1, <1>2, <1>3, ReadLineInv, RecvFileHeaderInv, RecvPayloadInv, FileReceivedInv
        DEF handle_client

-----------------------------------------------------------------------------
(* branch_lock lets one push through.                                      *)

LEMMA LockKept ==
  ASSUME CInv, UNCHANGED <<lock, commits>>,
         \A q \in Proxies : (Serving(q)' => Serving(q)) /\ (at[q] = "closed" => at'[q] = "closed")
  PROVE  OneWinner' /\ \A q \in Proxies : LockInv(q)'
BY DEF CInv, Control, LockInv, OneWinner

LEMMA LockInvNext ==
  ASSUME CInv, NEW p \in Proxies, ProxyStep(p) \/ handle_client(p)
  PROVE  OneWinner' /\ \A q \in Proxies : LockInv(q)'
<1> USE DEF CInv, Control
<1>1. CASE ProxyStep(p)
  <2>1. UNCHANGED <<lock, commits>> /\ (UNCHANGED at \/ setup(p))
    BY <1>1 DEF ProxyStep, ListStatus, Refused, SendLine, SkipFile, SendFileHeader,
       SendBlock, FileShrank, SendfileFails, Sigpipe, RecvReply, Kill, setup, server
  <2>2. CASE UNCHANGED at BY <2>1, <2>2, LockKept DEF Serving
  <2>3. CASE setup(p)
    <3>1. at[p] = "none" /\ at' = [at EXCEPT ![p] = "line"] BY <2>3 DEF setup, ProxyInv
    <3> QED BY <2>1, <3>1, LockKept DEF Serving, TypeOK
  <2> QED BY <2>1, <2>2, <2>3
<1>2. CASE ReadLine(p)
  BY <1>2, LockKept DEF ReadLine, Serving, TypeOK
<1>3. CASE Conflict(p)
  BY <1>3, LockKept DEF Conflict, CloseWith, Serving, TypeOK
<1>4. CASE RecvFileHeader(p)
  BY <1>4, LockKept DEF RecvFileHeader, Serving, TypeOK
<1>5. CASE RecvPayload(p)
  BY <1>5, LockKept DEF RecvPayload, Serving, TypeOK
<1>6. CASE FileReceived(p)
  BY <1>6, LockKept DEF FileReceived, Serving, TypeOK
<1>7. CASE Lock(p)
  <2>1. lock = NoProxy /\ commits = <<>> /\ lock' = p /\ commits' = commits
        /\ at' = [at EXCEPT ![p] = "header"] /\ at[p] = "lock"
    BY <1>7 DEF Lock, HasHistory
  <2>2. \A q \in Proxies : ~Serving(q) BY <2>1, ProtocolAssumption DEF LockInv
  <2>3. \A q \in Proxies \ {p} : ~Serving(q)'
    BY <2>1, <2>2 DEF Serving, TypeOK
  <2>4. DOMAIN commits = {} BY <2>1
  <2> QED BY <2>1, <2>3, <2>4 DEF LockInv, OneWinner
<1>8. CASE Publish(p)
  <2> DEFINE c == [by |-> p, files |-> got[p]]
  <2>1. /\ at[p] = "header" /\ at' = [at EXCEPT ![p] = "closed"]
        /\ commits' = Append(commits, c)
    BY <1>8 DEF Publish, CloseWith
  <2>2. lock = p /\ commits = <<>> BY <2>1 DEF LockInv, Serving
  <2>3. commits' = <<c>> BY <2>1, <2>2
  <2>4. \A q \in Proxies \ {p} : ~Serving(q) BY <2>2 DEF LockInv
  <2>5. at'[p] = "closed" /\ \A q \in Proxies \ {p} : at'[q] = at[q]
    BY <2>1 DEF TypeOK
  <2>6. \A q \in Proxies : ~Serving(q)'
    BY <2>4, <2>5 DEF Serving
  <2>7. Len(<<c>>) = 1 /\ DOMAIN <<c>> = {1} /\ <<c>>[1].by = p OBVIOUS
  <2> HIDE DEF c
  <2>8. OneWinner' BY <2>3, <2>7 DEF OneWinner
  <2> QED BY <2>3, <2>5, <2>6, <2>7, <2>8 DEF LockInv
<1> QED BY <1>1, <1>2, <1>3, <1>4, <1>5, <1>6, <1>7, <1>8 DEF handle_client

LEMMA CInvInit == Init => CInv
<1> SUFFICES ASSUME Init PROVE CInv OBVIOUS
<1>1. Unscanned \in [name : Names \cup {JunkName}, size : 0..MaxSize]
  BY ProtocolAssumption DEF Unscanned
<1>2. 0 \in 0..MaxSize BY ProtocolAssumption
<1>3. TypeOK BY <1>1, <1>2 DEF Init, TypeOK
<1>4. Len(<<>>) = 0 /\ DOMAIN <<>> = {} OBVIOUS
<1>5. Control BY <1>4 DEF Init, Control, ProxyInv, WorkerInv, LockInv, Line0, Serving
<1>6. OneWinner BY <1>4 DEF Init, OneWinner
<1> QED BY <1>3, <1>5, <1>6 DEF CInv

LEMMA CInvNext == CInv /\ [Next]_vars => CInv'
<1> SUFFICES ASSUME CInv, [Next]_vars PROVE CInv' OBVIOUS
<1>1. ASSUME NEW p \in Proxies, ProxyStep(p) \/ handle_client(p) PROVE CInv'
  <2>1. TypeOK' /\ ProxyInv(p)' /\ WorkerInv(p)' BY <1>1, ProxyStepInv, WorkerStepInv
  <2>2. Others(p) BY <1>1, StepOthers DEF CInv
  <2>3. \A q \in Proxies \ {p} : ProxyInv(q)' /\ WorkerInv(q)'
    BY <2>2, OthersKept DEF CInv, Control
  <2>4. OneWinner' /\ \A q \in Proxies : LockInv(q)' BY <1>1, LockInvNext
  <2> QED BY <2>1, <2>3, <2>4 DEF CInv, Control
<1>2. CASE UNCHANGED vars
  BY <1>2 DEF vars, proxy, wire, server, CInv, Control, TypeOK, ProxyInv, WorkerInv, LockInv,
              Line0, Serving, OneWinner
<1> QED BY <1>1, <1>2, StepKinds

\* Every variable of both ends keeps its type: what is scanned as a count is
\* always a command line.
THEOREM TypeCorrect == Spec => []TypeOK
<1>1. CInv => TypeOK BY DEF CInv
<1> QED BY <1>1, CInvInit, CInvNext, PTL DEF Spec

\* However many proxies push at once: one is accepted.
THEOREM OnePushWins == Spec => []OneWinner
<1>1. CInv => OneWinner BY DEF CInv
<1> QED BY <1>1, CInvInit, CInvNext, PTL DEF Spec

-----------------------------------------------------------------------------
(* The two ends stay in step.                                              *)

\* What is on the way behind the command line, the place the worker reads
\* next, and that the proxy's next block is the one at place z.
Stream(p) == IF at[p] = "line" THEN Tail(toServer[p]) ELSE toServer[p]

ReadUpTo(p) ==
  IF at[p] = "payload" THEN After(list[p], <<Len(got[p]) + 1, Len(payload[p])>>)
  ELSE <<Len(got[p]) + 1, 0>>

SentUpTo(p, z) ==
  /\ z \in Places /\ z[1] = i[p]
  /\ pc[p] \in {"file", "recv"} => z[2] = 0
  /\ pc[p] = "data" => z[2] = off[p] + 1

OnTheWay(p) ==
  \E z \in Places : SentUpTo(p, z) /\ Between(list[p], Stream(p), ReadUpTo(p), z)

\* What was received so far: whole files, and the beginning of the next.
GotRight(p) ==
  \A k \in 1..Len(got[p]) :
    got[p][k] = [name |-> list[p][k].name, content |-> Contents(list[p][k])]

PayloadRight(p) ==
  at[p] = "payload" =>
    LET e == list[p][Len(got[p]) + 1]
    IN  /\ header[p] = [name |-> e.name, size |-> e.size]
        /\ Len(payload[p]) <= e.size
        /\ \A n \in 1..Len(payload[p]) : payload[p][n] = Data(e, n)

Busy(p) == at[p] \in {"line", "lock", "header", "payload"} /\ pc[p] # "line"

\* The proxy ended too early, and all it sent was read.
Lost(p) == CutShort(p) /\ toServer[p] = <<>>

StepInv(p) ==
  Counted(p) /\ Busy(p) =>
    Lost(p) \/ (OnTheWay(p) /\ GotRight(p) /\ PayloadRight(p))

LEMMA OthersInStep ==
  ASSUME NEW p \in Proxies, Others(p)
  PROVE  \A q \in Proxies \ {p} : StepInv(q) => StepInv(q)'
<1> SUFFICES ASSUME NEW q \in Proxies \ {p}, StepInv(q) PROVE StepInv(q)' OBVIOUS
<1>1. /\ pc'[q] = pc[q] /\ list'[q] = list[q] /\ i'[q] = i[q] /\ off'[q] = off[q]
      /\ toServer'[q] = toServer[q] /\ at'[q] = at[q] /\ header'[q] = header[q]
      /\ payload'[q] = payload[q] /\ got'[q] = got[q] /\ (q \in shrunk' <=> q \in shrunk)
  BY DEF Others
<1>2. (Counted(q)' <=> Counted(q)) /\ (Busy(q)' <=> Busy(q)) /\ (Lost(q)' <=> Lost(q))
  BY <1>1 DEF Counted, Busy, Lost, CutShort
<1>3. OnTheWay(q) => OnTheWay(q)'
  BY <1>1 DEF OnTheWay, SentUpTo, Stream, ReadUpTo
<1>4. (GotRight(q) => GotRight(q)') /\ (PayloadRight(q) => PayloadRight(q)')
  BY <1>1 DEF GotRight, PayloadRight
<1> QED BY <1>2, <1>3, <1>4 DEF StepInv

\* The lengths of the worker's place.
LEMMA PlaceOfWorker ==
  ASSUME CInv, NEW p \in Proxies, at[p] \in {"line", "lock", "header", "payload"}
  PROVE  /\ Len(got[p]) \in Nat /\ Len(payload[p]) \in Nat /\ Len(list[p]) \in Nat
         /\ ReadUpTo(p) \in Places
         /\ list[p] \in Seq(StatusEntry)
<1>1. got[p] \in Seq(FileGot) /\ payload[p] \in Seq(Blocks) /\ list[p] \in Seq(StatusEntry)
  BY DEF CInv, TypeOK
<1>2. Len(got[p]) \in Nat /\ Len(payload[p]) \in Nat /\ Len(list[p]) \in Nat BY <1>1
<1>3. <<Len(got[p]) + 1, Len(payload[p])>> \in Places /\ <<Len(got[p]) + 1, 0>> \in Places
  BY <1>2 DEF Places
<1>4. ReadUpTo(p) \in Places BY <1>1, <1>3, AfterType DEF ReadUpTo
<1> QED BY <1>1, <1>2, <1>4

\* The proxy's send of the block at its place.
LEMMA SendInStep ==
  ASSUME CInv, NEW p \in Proxies, StepInv(p), Counted(p), Busy(p),
         pc[p] \in {"file", "data"}, NEW z \in Places, NEW block \in Blocks,
         z = <<i[p], IF pc[p] = "file" THEN 0 ELSE off[p] + 1>>,
         block = BlockAt(list[p], z), Send(p, block),
         UNCHANGED <<list, server, shrunk>>, SentUpTo(p, After(list[p], z))'
  PROVE  StepInv(p)'
<1> USE DEF CInv, Control
<1> DEFINE l == list[p]
           s == Stream(p)
<1>1. ~Lost(p) BY DEF Lost, CutShort
<1>2. OnTheWay(p) /\ GotRight(p) /\ PayloadRight(p) BY <1>1 DEF StepInv
<1>3. PICK y \in Places : SentUpTo(p, y) /\ Between(l, s, ReadUpTo(p), y)
  BY <1>2 DEF OnTheWay
<1>4. y = z BY <1>3 DEF SentUpTo, Places
<1>5. /\ at[p] \in {"line", "lock", "header", "payload"}
      /\ toServer[p] \in Seq(Blocks)
      /\ toServer'[p] = Append(toServer[p], block)
      /\ at[p] = "line" => toServer[p] # <<>>
  BY SendInv DEF Busy, WorkerInv, TypeOK
<1>6. s \in Seq(Blocks) /\ Stream(p)' = Append(s, block)
  <2>1. CASE at[p] = "line"
    <3> DEFINE t == toServer[p]
    <3>1. t \in Seq(Blocks) /\ t # <<>> BY <1>5, <2>1
    <3>2. Tail(t) \in Seq(Blocks) /\ Tail(Append(t, block)) = Append(Tail(t), block)
      BY <3>1
    <3> QED BY <1>5, <2>1, <3>2 DEF Stream, server
  <2>2. CASE at[p] # "line" BY <1>5, <2>2 DEF Stream, server
  <2> QED BY <2>1, <2>2
<1>7. z[1] \in DOMAIN l /\ l \in Seq(StatusEntry) BY DEF ProxyInv, TypeOK
<1>8. Between(l, Append(s, block), ReadUpTo(p), After(l, z))
  <2> HIDE DEF s, l
  <2> QED BY <1>3, <1>4, <1>6, <1>7, BetweenAppend DEF l
<1>9. ReadUpTo(p)' = ReadUpTo(p) BY DEF ReadUpTo, server
<1>10. After(l, z) \in Places BY <1>7, AfterType
<1>11. OnTheWay(p)' BY <1>6, <1>8, <1>9, <1>10 DEF OnTheWay
<1>12. GotRight(p)' /\ PayloadRight(p)' BY <1>2 DEF GotRight, PayloadRight, server
<1> QED BY <1>11, <1>12 DEF StepInv

LEMMA ProxyInStep ==
  ASSUME CInv, NEW p \in Proxies, StepInv(p), ProxyStep(p), CInv'
  PROVE  StepInv(p)'
<1> USE DEF CInv, Control
<1>1. CASE ListStatus(p) \/ setup(p) \/ Refused(p)
  <2>1. at'[p] = "none" \/ pc'[p] = "line"
    BY <1>1 DEF ListStatus, setup, Refused, ProxyInv, server, TypeOK
  <2> QED BY <2>1 DEF StepInv, Busy
<1>2. CASE SendLine(p)
  <2> DEFINE block == Line(Len(list[p]))
             z == <<1, 0>>
  <2>1. /\ pc[p] = "line" /\ pc' = [pc EXCEPT ![p] = "file"]
        /\ toServer' = [toServer EXCEPT ![p] = Append(toServer[p], block)]
        /\ UNCHANGED <<list, i, off, server>>
    BY <1>2 DEF SendLine, Announced
  <2>2. toServer[p] = <<>> /\ i[p] = 1 /\ at[p] = "line" /\ got[p] = <<>>
    BY <2>1 DEF ProxyInv, WorkerInv, Line0
  <2>3. toServer'[p] = <<block>> BY <2>1, <2>2 DEF TypeOK
  <2>4. Tail(<<block>>) = <<>> OBVIOUS
  <2>5. Stream(p)' = <<>> BY <2>1, <2>2, <2>3, <2>4 DEF Stream, server
  <2>6. Len(<<>>) = 0 OBVIOUS
  <2>7. ReadUpTo(p)' = z BY <2>1, <2>2, <2>6 DEF ReadUpTo, server
  <2>8. z \in Places /\ z[1] = 1 /\ z[2] = 0 BY DEF Places
  <2> HIDE DEF block, z
  <2>9. SentUpTo(p, z)' BY <2>1, <2>2, <2>8 DEF SentUpTo, TypeOK
  <2>10. Between(list[p], <<>>, z, z) BY <2>8, BetweenNothing
  <2>11. OnTheWay(p)' BY <2>1, <2>5, <2>7, <2>8, <2>9, <2>10 DEF OnTheWay
  <2>12. GotRight(p)' /\ PayloadRight(p)'
    BY <2>1, <2>2, <2>6 DEF GotRight, PayloadRight, server
  <2> QED BY <2>11, <2>12 DEF StepInv
<1>3. CASE SkipFile(p)
  <2>1. i[p] \in DOMAIN list[p] /\ ~list[p][i[p]].opens /\ list' = list
    BY <1>3 DEF SkipFile, ProxyInv
  <2>2. ~Counted(p)' BY <2>1 DEF Counted
  <2> QED BY <2>2 DEF StepInv
<1>4. CASE FileShrank(p)
  <2>1. ~Counted(p)' BY <1>4 DEF FileShrank, Counted
  <2> QED BY <2>1 DEF StepInv
<1>5. CASE SendfileFails(p) \/ Sigpipe(p) \/ RecvReply(p)
  <2>1. /\ link[p] \in {"closing", "broken"} \/ reply[p] # "none"
        /\ at' = at
    BY <1>5 DEF SendfileFails, Sigpipe, RecvReply, server
  <2>2. ~Busy(p)' BY <2>1 DEF Busy, WorkerInv
  <2> QED BY <2>2 DEF StepInv
<1>6. CASE Kill(p)
  <2>1. /\ pc[p] \in {"file", "data", "recv"} /\ pc' = [pc EXCEPT ![p] = "dead"]
        /\ UNCHANGED <<list, i, off, wire, server, shrunk>>
    BY <1>6 DEF Kill
  <2>2. pc'[p] = "dead" BY <2>1 DEF TypeOK
  <2>3. SUFFICES ASSUME Counted(p)', Busy(p)' PROVE StepInv(p)' BY DEF StepInv
  <2>4. Counted(p) /\ Busy(p) BY <2>1, <2>3 DEF Counted, Busy, server
  <2>5. ~Lost(p) BY <2>1 DEF Lost, CutShort
  <2>6. OnTheWay(p) /\ GotRight(p) /\ PayloadRight(p) BY <2>4, <2>5 DEF StepInv
  <2>7. OnTheWay(p)'
    BY <2>1, <2>2, <2>6 DEF OnTheWay, SentUpTo, Stream, ReadUpTo, wire, server
  <2>8. GotRight(p)' /\ PayloadRight(p)'
    BY <2>1, <2>6 DEF GotRight, PayloadRight, server
  <2> QED BY <2>7, <2>8 DEF StepInv
<1>7. ASSUME NEW block \in Blocks, NEW z \in Places,
             z = <<i[p], IF pc[p] = "file" THEN 0 ELSE off[p] + 1>>,
             pc[p] \in {"file", "data"}, block = BlockAt(list[p], z), Send(p, block),
             UNCHANGED <<list, server, shrunk>>, SentUpTo(p, After(list[p], z))'
      PROVE  StepInv(p)'
  <2>1. SUFFICES ASSUME Counted(p)', Busy(p)' PROVE StepInv(p)' BY DEF StepInv
  <2>2. Counted(p) /\ Busy(p) BY <1>7, <2>1 DEF Counted, Busy, server
  <2> QED BY <1>7, <2>2, SendInStep
<1>8. CASE SendFileHeader(p)
  <2>0. PICK e, z : e = list[p][i[p]] /\ z = <<i[p], 0>> OBVIOUS
  <2>1. /\ pc[p] = "file" /\ Send(p, FileHeader(e))
        /\ UNCHANGED <<list, server, shrunk>>
        /\ \/ e.size = 0 /\ NextFile(p)
           \/ e.size # 0 /\ pc' = [pc EXCEPT ![p] = "data"] /\ UNCHANGED <<i, off>>
    BY <1>8, <2>0 DEF SendFileHeader
  <2>2. i[p] \in DOMAIN list[p] /\ off[p] = 0 BY <2>1 DEF ProxyInv
  <2>3. /\ e \in StatusEntry /\ e.size \in Nat /\ FileHeader(e) \in Blocks
        /\ i[p] \in Nat /\ list[p] \in Seq(StatusEntry)
    <3>1. e \in StatusEntry BY <2>0, <2>2, SentBlocks
    <3>2. e.size \in 0..MaxSize BY <3>1 DEF StatusEntry
    <3>3. e.size \in Nat BY <3>2, ProtocolAssumption
    <3>4. FileHeader(e) \in Blocks /\ \A n \in 1..e.size : Data(e, n) \in Blocks
      BY <2>0, <2>2, SentBlocks
    <3>5. i[p] \in Nat /\ off[p] \in Nat /\ list[p] \in Seq(StatusEntry)
      BY ProtocolAssumption DEF TypeOK
    <3> QED BY <3>1, <3>3, <3>4, <3>5
  <2>4. z \in Places /\ z[1] = i[p] /\ z[2] = 0 BY <2>0, <2>3 DEF Places
  <2>5. BlockAt(list[p], z) = FileHeader(e) BY <2>0, <2>4 DEF BlockAt
  <2>6. After(list[p], z) = IF e.size = 0 THEN <<i[p] + 1, 0>> ELSE <<i[p], 1>>
    BY <2>0, <2>3, <2>4 DEF After
  <2>7. After(list[p], z) \in Places BY <2>3, <2>4, AfterType
  <2>8. SentUpTo(p, After(list[p], z))'
    <3>1. CASE e.size = 0 /\ NextFile(p)
      <4>1. i'[p] = i[p] + 1 /\ pc'[p] \in {"recv", "file"}
        BY <3>1 DEF NextFile, TypeOK
      <4> QED BY <2>1, <2>6, <2>7, <3>1, <4>1 DEF SentUpTo
    <3>2. CASE e.size # 0 /\ pc' = [pc EXCEPT ![p] = "data"] /\ UNCHANGED <<i, off>>
      <4>1. pc'[p] = "data" BY <3>2 DEF TypeOK
      <4> QED BY <2>1, <2>2, <2>6, <2>7, <3>2, <4>1 DEF SentUpTo
    <3> QED BY <2>1, <3>1, <3>2
  <2> QED BY <1>7, <2>0, <2>1, <2>3, <2>4, <2>5, <2>8
<1>9. CASE SendBlock(p)
  <2>0. PICK e, z : e = list[p][i[p]] /\ z = <<i[p], off[p] + 1>> OBVIOUS
  <2>1. /\ pc[p] = "data" /\ Send(p, Data(e, off[p] + 1))
        /\ UNCHANGED <<list, server, shrunk>>
        /\ \/ off[p] + 1 = e.size /\ NextFile(p)
           \/ /\ off[p] + 1 # e.size /\ off' = [off EXCEPT ![p] = off[p] + 1]
              /\ UNCHANGED <<pc, i>>
    BY <1>9, <2>0 DEF SendBlock
  <2>2. i[p] \in DOMAIN list[p] /\ off[p] < e.size BY <2>0, <2>1 DEF ProxyInv
  <2>3. /\ e \in StatusEntry /\ e.size \in Nat /\ \A n \in 1..e.size : Data(e, n) \in Blocks
        /\ i[p] \in Nat /\ off[p] \in Nat /\ list[p] \in Seq(StatusEntry)
    <3>1. e \in StatusEntry BY <2>0, <2>2, SentBlocks
    <3>2. e.size \in 0..MaxSize BY <3>1 DEF StatusEntry
    <3>3. e.size \in Nat BY <3>2, ProtocolAssumption
    <3>4. FileHeader(e) \in Blocks /\ \A n \in 1..e.size : Data(e, n) \in Blocks
      BY <2>0, <2>2, SentBlocks
    <3>5. i[p] \in Nat /\ off[p] \in Nat /\ list[p] \in Seq(StatusEntry)
      BY ProtocolAssumption DEF TypeOK
    <3> QED BY <3>1, <3>3, <3>4, <3>5
  <2>4. z \in Places /\ z[1] = i[p] /\ z[2] = off[p] + 1 /\ z[2] # 0
    BY <2>0, <2>3 DEF Places
  <2>5. BlockAt(list[p], z) = Data(e, off[p] + 1) BY <2>0, <2>4 DEF BlockAt
  <2>6. off[p] + 1 \in 1..e.size BY <2>2, <2>3
  <2>7. Data(e, off[p] + 1) \in Blocks BY <2>3, <2>6
  <2>8. After(list[p], z) = IF off[p] + 1 = e.size THEN <<i[p] + 1, 0>>
                            ELSE <<i[p], off[p] + 2>>
    BY <2>0, <2>3, <2>4, <2>6 DEF After
  <2>9. After(list[p], z) \in Places BY <2>3, <2>4, AfterType
  <2>10. SentUpTo(p, After(list[p], z))'
    <3>1. CASE off[p] + 1 = e.size /\ NextFile(p)
      <4>1. i'[p] = i[p] + 1 /\ pc'[p] \in {"recv", "file"}
        BY <3>1 DEF NextFile, TypeOK
      <4> QED BY <2>1, <2>8, <2>9, <3>1, <4>1 DEF SentUpTo
    <3>2. CASE /\ off[p] + 1 # e.size /\ off' = [off EXCEPT ![p] = off[p] + 1]
               /\ UNCHANGED <<pc, i>>
      <4>1. off'[p] = off[p] + 1 /\ off'[p] + 1 = off[p] + 2 BY <2>3, <3>2 DEF TypeOK
      <4> QED BY <2>1, <2>8, <2>9, <3>2, <4>1 DEF SentUpTo
    <3> QED BY <2>1, <3>1, <3>2
  <2> QED BY <1>7, <2>0, <2>1, <2>4, <2>5, <2>7, <2>10
<1> QED BY <1>1, <1>2, <1>3, <1>4, <1>5, <1>6, <1>8, <1>9 DEF ProxyStep

\* While files are left to receive and nothing is on its way, the proxy has
\* not sent its last file.
LEMMA NotAllSent ==
  ASSUME CInv, NEW p \in Proxies, StepInv(p), Counted(p), Serving(p), toServer[p] = <<>>,
         \/ at[p] = "header" /\ MoreFiles(p)
         \/ at[p] = "payload" /\ ~Complete(p)
  PROVE  i[p] <= Len(list[p])
<1> USE DEF CInv, Control
<1>1. Busy(p)
  <2>1. pc[p] # "line" BY DEF WorkerInv, Serving
  <2> QED BY <2>1 DEF Busy, Serving
<1>2. CASE Lost(p) BY <1>2 DEF Lost, CutShort
<1>3. CASE ~Lost(p)
  <2>1. OnTheWay(p) /\ PayloadRight(p) BY <1>1, <1>3 DEF StepInv
  <2>2. PICK z \in Places : SentUpTo(p, z) /\ Between(list[p], Stream(p), ReadUpTo(p), z)
    BY <2>1 DEF OnTheWay
  <2>3. Stream(p) = <<>> BY DEF Stream, Serving
  <2>4. /\ Len(got[p]) \in Nat /\ Len(payload[p]) \in Nat /\ Len(list[p]) \in Nat
        /\ ReadUpTo(p) \in Places
    BY PlaceOfWorker DEF Serving
  <2>5. ReadUpTo(p) = z BY <2>2, <2>3, <2>4, BetweenNothing
  <2>6. left[p] + Len(got[p]) = Len(list[p]) /\ left[p] \in Nat /\ left[p] > 0
    BY DEF WorkerInv, MoreFiles, Serving, TypeOK
  <2>7. Len(got[p]) + 1 <= Len(list[p]) BY <2>4, <2>6
  <2>8. ReadUpTo(p)[1] = Len(got[p]) + 1
    <3>1. CASE at[p] = "header" BY <3>1 DEF ReadUpTo
    <3>2. CASE at[p] = "payload"
      <4> DEFINE e == list[p][Len(got[p]) + 1]
      <4>1. ~Complete(p) BY <3>2
      <4>2. header[p].size = e.size /\ Len(payload[p]) <= e.size
        BY <2>1, <3>2 DEF PayloadRight
      <4>3. Len(got[p]) + 1 \in DOMAIN list[p] BY <2>4, <2>7 DEF TypeOK
      <4>4. e \in StatusEntry BY <4>3 DEF TypeOK
      <4>5. e.size \in Nat BY <4>4, ProtocolAssumption DEF StatusEntry
      <4>6. Len(payload[p]) < e.size BY <2>4, <4>1, <4>2, <4>5 DEF Complete
      <4> QED BY <3>2, <4>6 DEF ReadUpTo, After
    <3> QED BY <3>1, <3>2 DEF Serving
  <2> QED BY <2>2, <2>5, <2>7, <2>8 DEF SentUpTo
<1> QED BY <1>2, <1>3

\* An end of the stream is then one that came too early.
LEMMA EarlyEnd ==
  ASSUME CInv, NEW p \in Proxies, StepInv(p), Counted(p), Serving(p), EndOfStream(p),
         \/ at[p] = "header" /\ MoreFiles(p)
         \/ at[p] = "payload" /\ ~Complete(p)
  PROVE  Lost(p)
<1>1. pc[p] = "dead" /\ toServer[p] = <<>> BY DEF EndOfStream
<1>2. i[p] <= Len(list[p]) BY <1>1, NotAllSent
<1> QED BY <1>1, <1>2 DEF Lost, CutShort

\* A step of the worker after the proxy's early end changes nothing of that.
LEMMA LostStays ==
  ASSUME NEW p \in Proxies, Lost(p), UNCHANGED proxy, toServer'[p] = <<>>
  PROVE  StepInv(p)'
BY DEF Lost, CutShort, StepInv, proxy

\* What the worker reads next, when it is there.
LEMMA NextBlock ==
  ASSUME CInv, NEW p \in Proxies, StepInv(p), Counted(p), Serving(p), toServer[p] # <<>>
  PROVE  /\ GotRight(p) /\ PayloadRight(p)
         /\ ReadUpTo(p)[1] \in DOMAIN list[p]
         /\ Head(toServer[p]) = BlockAt(list[p], ReadUpTo(p))
         /\ \E z \in Places :
              /\ SentUpTo(p, z)
              /\ Between(list[p], Tail(toServer[p]), After(list[p], ReadUpTo(p)), z)
<1> USE DEF CInv, Control
<1>1. pc[p] # "line" BY DEF WorkerInv, Serving
<1>2. Busy(p) /\ ~Lost(p) BY <1>1 DEF Busy, Lost, Serving
<1>3. OnTheWay(p) /\ GotRight(p) /\ PayloadRight(p) BY <1>2 DEF StepInv
<1>4. Stream(p) = toServer[p] /\ toServer[p] \in Seq(Blocks)
  BY DEF Stream, Serving, TypeOK
<1>5. PICK z \in Places : SentUpTo(p, z) /\ Between(list[p], toServer[p], ReadUpTo(p), z)
  BY <1>3, <1>4 DEF OnTheWay
<1>6. /\ ReadUpTo(p)[1] \in DOMAIN list[p]
      /\ Head(toServer[p]) = BlockAt(list[p], ReadUpTo(p))
      /\ Between(list[p], Tail(toServer[p]), After(list[p], ReadUpTo(p)), z)
  BY <1>4, <1>5, BetweenTail
<1> QED BY <1>3, <1>5, <1>6

\* A payload of which nothing or a part was read continues at its next block,
\* one that is complete ends where the next file begins.
LEMMA PlaceInPayload ==
  ASSUME CInv, NEW p \in Proxies, StepInv(p), at[p] = "payload", PayloadRight(p)
  PROVE  LET n == Len(got[p]) + 1
             e == list[p][n]
         IN  /\ n \in DOMAIN list[p] /\ e \in StatusEntry /\ e.size \in Nat
             /\ header[p].size = e.size /\ header[p].name = e.name
             /\ ~Complete(p) => ReadUpTo(p) = <<n, Len(payload[p]) + 1>>
                                /\ Len(payload[p]) + 1 <= e.size
             /\ Complete(p) => ReadUpTo(p) = <<n + 1, 0>> /\ Len(payload[p]) = e.size
<1> USE DEF CInv, Control
<1> DEFINE n == Len(got[p]) + 1
           e == list[p][n]
<1>1. /\ Len(got[p]) \in Nat /\ Len(payload[p]) \in Nat /\ Len(list[p]) \in Nat
      /\ list[p] \in Seq(StatusEntry)
  BY PlaceOfWorker
<1>2. left[p] + Len(got[p]) = Len(list[p]) /\ left[p] \in Nat /\ left[p] > 0
  BY DEF WorkerInv, TypeOK
<1>3. n \in 1..Len(list[p]) BY <1>1, <1>2
<1>4. n \in DOMAIN list[p] /\ e \in StatusEntry BY <1>1, <1>3
<1>5. header[p] = [name |-> e.name, size |-> e.size] /\ Len(payload[p]) <= e.size
  BY DEF PayloadRight
<1>6. e.size \in Nat BY <1>4, ProtocolAssumption DEF StatusEntry
<1>7. ReadUpTo(p) = After(list[p], <<n, Len(payload[p])>>) BY DEF ReadUpTo
<1>8. ReadUpTo(p) = IF Len(payload[p]) < e.size THEN <<n, Len(payload[p]) + 1>>
                    ELSE <<n + 1, 0>>
  BY <1>7 DEF After
<1> HIDE DEF n, e
<1>9. Complete(p) <=> Len(payload[p]) = e.size BY <1>5 DEF Complete
<1>10. ~Complete(p) => Len(payload[p]) < e.size BY <1>1, <1>5, <1>6, <1>9
<1>11. ~Complete(p) => Len(payload[p]) + 1 <= e.size BY <1>1, <1>6, <1>10
<1>12. Complete(p) => ~(Len(payload[p]) < e.size) BY <1>1, <1>6, <1>9
<1> QED BY <1>4, <1>5, <1>6, <1>8, <1>9, <1>10, <1>11, <1>12 DEF n, e

LEMMA HeaderInStep ==
  ASSUME CInv, NEW p \in Proxies, StepInv(p), RecvFileHeader(p), Counted(p)
  PROVE  StepInv(p)'
<1> USE DEF CInv, Control
<1>1. /\ at[p] = "header" /\ MoreFiles(p) /\ at'[p] = "payload" /\ payload'[p] = <<>>
      /\ UNCHANGED <<proxy, got, shrunk>>
  BY DEF RecvFileHeader, TypeOK
<1>2. Serving(p) BY <1>1 DEF Serving
<1>3. CASE EndOfStream(p) /\ UNCHANGED <<header, toServer>>
  <2>1. Lost(p) BY <1>1, <1>2, <1>3, EarlyEnd
  <2> QED BY <1>1, <1>3, <2>1, LostStays DEF EndOfStream
<1>4. CASE ~EndOfStream(p) \/ ~UNCHANGED <<header, toServer>>
  <2>1. PICK h \in Scan(p, Head(toServer[p])) :
          toServer[p] # <<>> /\ header' = [header EXCEPT ![p] = h] /\ Received(p)
    BY <1>4 DEF RecvFileHeader
  <2>2. PICK n : n = Len(got[p]) + 1 OBVIOUS
  <2>3. /\ n \in Nat \ {0} /\ list[p] \in Seq(StatusEntry)
    BY <1>1, <2>2, PlaceOfWorker
  <2>4. ReadUpTo(p) = <<n, 0>> BY <1>1, <2>2 DEF ReadUpTo
  <2>5. PICK e : e = list[p][n] OBVIOUS
  <2>6. /\ GotRight(p) /\ n \in DOMAIN list[p]
        /\ Head(toServer[p]) = FileHeader(e)
        /\ \E z \in Places :
             SentUpTo(p, z) /\ Between(list[p], Tail(toServer[p]), After(list[p], <<n, 0>>), z)
    BY <1>2, <2>1, <2>4, <2>5, NextBlock DEF BlockAt
  <2>7. header'[p] = [name |-> e.name, size |-> e.size]
    <3>1. h = [name |-> e.name, size |-> e.size] BY <2>1, <2>6 DEF Scan, FileHeader
    <3> QED BY <2>1, <3>1 DEF TypeOK
  <2>8. toServer'[p] = Tail(toServer[p]) BY <2>1 DEF Received, TypeOK
  <2>9. Len(<<>>) = 0 OBVIOUS
  <2>10. Stream(p)' = Tail(toServer[p]) BY <1>1, <2>8 DEF Stream
  <2>11. ReadUpTo(p)' = After(list[p], <<n, 0>>)
    BY <1>1, <2>2, <2>9 DEF ReadUpTo, proxy
  <2>12. OnTheWay(p)'
    BY <1>1, <2>6, <2>10, <2>11 DEF OnTheWay, SentUpTo, proxy
  <2>13. GotRight(p)' BY <1>1, <2>6 DEF GotRight, proxy
  <2>14. PayloadRight(p)'
    <3>1. e \in StatusEntry BY <2>3, <2>5, <2>6
    <3>2. 0 <= e.size BY <3>1, ProtocolAssumption DEF StatusEntry
    <3> QED BY <1>1, <2>2, <2>5, <2>7, <2>9, <3>2 DEF PayloadRight, proxy
  <2> QED BY <2>12, <2>13, <2>14 DEF StepInv
<1> QED BY <1>3, <1>4

LEMMA PayloadInStep ==
  ASSUME CInv, NEW p \in Proxies, StepInv(p), RecvPayload(p), Counted(p)
  PROVE  StepInv(p)'
<1> USE DEF CInv, Control
<1>1. /\ at[p] = "payload" /\ ~Complete(p) /\ toServer[p] # <<>>
      /\ payload'[p] = Append(payload[p], Head(toServer[p]))
      /\ toServer'[p] = Tail(toServer[p])
      /\ UNCHANGED <<proxy, at, header, got, shrunk>>
  BY DEF RecvPayload, Received, TypeOK
<1>2. Serving(p) BY <1>1 DEF Serving
<1>3. PICK n, e, m : n = Len(got[p]) + 1 /\ e = list[p][n] /\ m = Len(payload[p]) OBVIOUS
<1>4. GotRight(p) /\ PayloadRight(p) BY <1>1, <1>2, NextBlock
<1>5. /\ n \in DOMAIN list[p] /\ e \in StatusEntry /\ e.size \in Nat
      /\ ReadUpTo(p) = <<n, m + 1>> /\ m + 1 <= e.size
  BY <1>1, <1>3, <1>4, PlaceInPayload
<1>6. m \in Nat /\ payload[p] \in Seq(Blocks) /\ n \in Nat
  BY <1>1, <1>3, PlaceOfWorker DEF TypeOK
<1>7. /\ Head(toServer[p]) = Data(e, m + 1)
      /\ \E z \in Places :
           SentUpTo(p, z) /\ Between(list[p], Tail(toServer[p]), After(list[p], <<n, m + 1>>), z)
  <2>1. <<n, m + 1>>[1] = n /\ <<n, m + 1>>[2] = m + 1 /\ m + 1 # 0 BY <1>6
  <2>2. BlockAt(list[p], <<n, m + 1>>) = Data(e, m + 1) BY <1>3, <2>1 DEF BlockAt
  <2> QED BY <1>1, <1>2, <1>5, <2>2, NextBlock
<1>8. PICK d \in Blocks : d = Head(toServer[p])
  <2>1. toServer[p] \in Seq(Blocks) BY DEF TypeOK
  <2> QED BY ONLY <1>1, <2>1
<1>9. /\ Len(payload'[p]) = m + 1 /\ payload'[p][m + 1] = d
      /\ \A k \in 1..m : payload'[p][k] = payload[p][k]
  BY <1>1, <1>3, <1>6, <1>8
<1>10. Stream(p)' = Tail(toServer[p]) BY <1>1 DEF Stream
<1>11. ReadUpTo(p)' = After(list[p], <<n, m + 1>>)
  BY <1>1, <1>3, <1>9 DEF ReadUpTo, proxy
<1>12. OnTheWay(p)' BY <1>1, <1>7, <1>10, <1>11 DEF OnTheWay, SentUpTo, proxy
<1>13. GotRight(p)' BY <1>1, <1>4 DEF GotRight, proxy
<1>14. PayloadRight(p)'
  <2>1. /\ header[p] = [name |-> e.name, size |-> e.size]
        /\ \A k \in 1..m : payload[p][k] = Data(e, k)
    BY <1>1, <1>3, <1>4 DEF PayloadRight
  <2>2. \A k \in 1..(m + 1) : payload'[p][k] = Data(e, k)
    <3> SUFFICES ASSUME NEW k \in 1..(m + 1) PROVE payload'[p][k] = Data(e, k) OBVIOUS
    <3>1. CASE k = m + 1 BY <1>7, <1>8, <1>9, <3>1
    <3>2. CASE k \in 1..m BY <1>9, <2>1, <3>2
    <3> QED BY <1>6, <3>1, <3>2
  <2> QED BY <1>1, <1>3, <1>5, <1>9, <2>1, <2>2 DEF PayloadRight, proxy
<1> QED BY <1>12, <1>13, <1>14 DEF StepInv

LEMMA FileInStep ==
  ASSUME CInv, NEW p \in Proxies, StepInv(p), FileReceived(p), Counted(p)
  PROVE  StepInv(p)'
<1> USE DEF CInv, Control
<1> DEFINE f == [name |-> header[p].name, content |-> payload[p]]
<1>1. /\ at[p] = "payload" /\ at'[p] = "header" /\ (Complete(p) \/ EndOfStream(p))
      /\ got'[p] = Append(got[p], f)
      /\ UNCHANGED <<proxy, wire, shrunk>>
  BY DEF FileReceived, TypeOK
<1>2. Serving(p) /\ Busy(p)
  BY <1>1 DEF Serving, Busy, WorkerInv
<1>3. CASE ~Complete(p)
  <2>1. EndOfStream(p) /\ Lost(p) BY <1>1, <1>2, <1>3, EarlyEnd
  <2> QED BY <1>1, <2>1, LostStays DEF EndOfStream, wire
<1>4. CASE Lost(p)
  BY <1>1, <1>4, LostStays DEF Lost, wire
<1>5. CASE Complete(p) /\ ~Lost(p)
  <2>1. OnTheWay(p) /\ GotRight(p) /\ PayloadRight(p) BY <1>2, <1>5 DEF StepInv
  <2>2. PICK n, e : n = Len(got[p]) + 1 /\ e = list[p][n] OBVIOUS
  <2>3. /\ n \in DOMAIN list[p] /\ e \in StatusEntry /\ e.size \in Nat
        /\ header[p].name = e.name
        /\ ReadUpTo(p) = <<n + 1, 0>> /\ Len(payload[p]) = e.size
    BY <1>1, <1>5, <2>1, <2>2, PlaceInPayload
  <2>4. payload[p] = Contents(e)
    <3>1. payload[p] \in Seq(Blocks) BY DEF TypeOK
    <3>2. \A k \in 1..Len(payload[p]) : payload[p][k] = Data(e, k)
      BY <1>1, <2>1, <2>2 DEF PayloadRight
    <3>3. payload[p] = [k \in 1..e.size |-> payload[p][k]] BY ONLY <2>3, <3>1
    <3> QED BY <2>3, <3>2, <3>3 DEF Contents
  <2>5. f = [name |-> e.name, content |-> Contents(e)] BY <2>3, <2>4
  <2>6. f \in FileGot /\ got[p] \in Seq(FileGot) /\ Len(got[p]) \in Nat
    <3>1. f \in FileGot BY DEF FileGot, TypeOK
    <3>2. got[p] \in Seq(FileGot) BY DEF TypeOK
    <3> QED BY <3>1, <3>2
  <2> HIDE DEF f
  <2>7. PICK g : g = f OBVIOUS
  <2>8. /\ Len(got'[p]) = n /\ got'[p][n] = g
        /\ \A k \in 1..Len(got[p]) : got'[p][k] = got[p][k]
    BY <1>1, <2>2, <2>6, <2>7
  <2>9. GotRight(p)'
    <3>1. \A k \in 1..Len(got[p]) :
            got[p][k] = [name |-> list[p][k].name, content |-> Contents(list[p][k])]
      BY <2>1 DEF GotRight
    <3>2. \A k \in 1..n :
            got'[p][k] = [name |-> list[p][k].name, content |-> Contents(list[p][k])]
      <4> SUFFICES ASSUME NEW k \in 1..n
                   PROVE  got'[p][k] = [name |-> list[p][k].name,
                                        content |-> Contents(list[p][k])]
        OBVIOUS
      <4>1. CASE k = n BY <2>2, <2>5, <2>7, <2>8, <4>1
      <4>2. CASE k \in 1..Len(got[p]) BY <2>8, <3>1, <4>2
      <4> QED BY <2>2, <2>6, <4>1, <4>2
    <3> QED BY <1>1, <2>8, <3>2 DEF GotRight, proxy
  <2>10. ReadUpTo(p)' = ReadUpTo(p) BY <1>1, <2>2, <2>3, <2>8 DEF ReadUpTo
  <2>11. Stream(p)' = Stream(p) BY <1>1 DEF Stream, wire
  <2>12. OnTheWay(p)' BY <1>1, <2>1, <2>10, <2>11 DEF OnTheWay, SentUpTo, proxy
  <2>13. PayloadRight(p)' BY <1>1 DEF PayloadRight
  <2> QED BY <2>9, <2>12, <2>13 DEF StepInv
<1> QED BY <1>3, <1>4, <1>5

LEMMA WorkerInStep ==
  ASSUME CInv, NEW p \in Proxies, StepInv(p), handle_client(p)
  PROVE  StepInv(p)'
<1> USE DEF CInv, Control
<1>1. UNCHANGED <<proxy, shrunk>>
  BY DEF handle_client, ReadLine, Conflict, Lock, RecvFileHeader, RecvPayload, FileReceived,
         Publish
<1>2. SUFFICES ASSUME Counted(p) PROVE StepInv(p)'
  <2>1. Counted(p)' => Counted(p) BY <1>1 DEF Counted, proxy
  <2> QED BY <2>1 DEF StepInv
<1>3. CASE ReadLine(p)
  <2>1. /\ at[p] = "line" /\ toServer[p] # <<>> /\ at'[p] = "lock"
        /\ toServer'[p] = Tail(toServer[p]) /\ UNCHANGED <<payload, got, header>>
    BY <1>3 DEF ReadLine, Received, TypeOK
  <2>2. Busy(p)
    <3>1. pc[p] # "line" BY <2>1 DEF ProxyInv, Line0
    <3> QED BY <2>1, <3>1 DEF Busy
  <2>3. OnTheWay(p) /\ GotRight(p)
    BY <1>2, <2>1, <2>2 DEF StepInv, Lost
  <2>4. Stream(p)' = Stream(p) BY <2>1 DEF Stream
  <2>5. ReadUpTo(p)' = ReadUpTo(p) BY <2>1 DEF ReadUpTo
  <2>6. OnTheWay(p)' BY <1>1, <2>3, <2>4, <2>5 DEF OnTheWay, SentUpTo, proxy
  <2>7. GotRight(p)' /\ PayloadRight(p)'
    BY <1>1, <2>1, <2>3 DEF GotRight, PayloadRight, proxy
  <2> QED BY <2>6, <2>7 DEF StepInv
<1>4. CASE Conflict(p) \/ Publish(p)
  <2>1. at'[p] = "closed" BY <1>4 DEF Conflict, Publish, CloseWith, TypeOK
  <2> QED BY <2>1 DEF StepInv, Busy
<1>5. CASE Lock(p)
  <2>1. /\ at[p] = "lock" /\ at'[p] = "header"
        /\ UNCHANGED <<wire, payload, got, header>>
    BY <1>5 DEF Lock, TypeOK
  <2>2. Busy(p) BY <2>1 DEF Busy, WorkerInv
  <2>3. CASE Lost(p)
    BY <1>1, <2>1, <2>3, LostStays DEF Lost, wire
  <2>4. CASE ~Lost(p)
    <3>1. OnTheWay(p) /\ GotRight(p) BY <1>2, <2>2, <2>4 DEF StepInv
    <3>2. Stream(p)' = Stream(p) /\ ReadUpTo(p)' = ReadUpTo(p)
      BY <2>1 DEF Stream, ReadUpTo, wire
    <3>3. OnTheWay(p)' BY <1>1, <3>1, <3>2 DEF OnTheWay, SentUpTo, proxy
    <3>4. GotRight(p)' /\ PayloadRight(p)'
      BY <1>1, <2>1, <3>1 DEF GotRight, PayloadRight, proxy
    <3> QED BY <3>3, <3>4 DEF StepInv
  <2> QED BY <2>3, <2>4
<1> QED BY <1>2, <1>3, <1>4, <1>5, HeaderInStep, PayloadInStep, FileInStep
        DEF handle_client

-----------------------------------------------------------------------------
(* What is published.                                                      *)

\* A proxy whose push was published changes neither its list nor its mind.
LEMMA PublishedStays ==
  ASSUME CInv, NEW p \in Proxies, ProxyStep(p) \/ handle_client(p),
         NEW q \in Proxies, at[q] = "closed"
  PROVE  /\ list'[q] = list[q]
         /\ Counted(q)' => Counted(q)
         /\ CutShort(q) => CutShort(q)'
<1> USE DEF CInv, Control
<1>1. CASE q # p
  <2>1. Others(p) BY StepOthers
  <2> QED BY <1>1, <2>1 DEF Others, Counted, CutShort
<1>2. CASE q = p /\ handle_client(p)
  <2>1. UNCHANGED <<proxy, shrunk>>
    BY <1>2 DEF handle_client, ReadLine, Conflict, Lock, RecvFileHeader, RecvPayload,
                FileReceived, Publish
  <2> QED BY <2>1 DEF Counted, CutShort, proxy
<1>3. CASE q = p /\ ProxyStep(p)
  <2>1. pc[p] \notin {"start", "dead"} \/ ListStatus(p)
    BY <1>3 DEF ProxyStep, setup, Refused, SendLine, SkipFile, SendFileHeader,
       SendBlock, FileShrank, SendfileFails, Sigpipe, RecvReply, Kill
  <2>2. ~ListStatus(p) BY <1>3 DEF ListStatus, ProxyInv
  <2>3. list' = list /\ shrunk \subseteq shrunk'
    BY <1>3, <2>2 DEF ProxyStep, setup, Refused, SendLine, SkipFile, SendFileHeader,
       SendBlock, FileShrank, SendfileFails, Sigpipe, RecvReply, Kill
  <2> QED BY <1>3, <2>1, <2>2, <2>3 DEF Counted, CutShort
<1> QED BY <1>1, <1>2, <1>3

\* The worker that publishes has all files.
LEMMA PublishedWhole ==
  ASSUME CInv, NEW p \in Proxies, StepInv(p), Publish(p), Counted(p), ~CutShort(p)
  PROVE  got[p] = Files(list[p])
<1> USE DEF CInv, Control
<1>1. at[p] = "header" /\ ~MoreFiles(p) BY DEF Publish
<1>2. Busy(p) /\ ~Lost(p) BY <1>1 DEF Busy, WorkerInv, Lost
<1>3. GotRight(p) BY <1>2 DEF StepInv
<1>4. left[p] + Len(got[p]) = Len(list[p]) /\ left[p] \in Nat /\ ~(left[p] > 0)
  BY <1>1 DEF WorkerInv, MoreFiles, TypeOK
<1>5. got[p] \in Seq(FileGot) /\ list[p] \in Seq(StatusEntry) BY DEF TypeOK
<1>6. Len(got[p]) = Len(list[p]) BY <1>4, <1>5
<1>7. DOMAIN list[p] = 1..Len(got[p]) BY <1>5, <1>6
<1>8. got[p] = [k \in 1..Len(got[p]) |-> got[p][k]] BY <1>5
<1> QED BY <1>3, <1>7, <1>8 DEF GotRight, Files

\* An element of a sequence over S is in S.
LEMMA ElementOfSeq ==
  ASSUME NEW S, NEW s \in Seq(S), NEW k \in DOMAIN s
  PROVE  s[k] \in S
OBVIOUS

\* A step of p keeps WholePush: the commits there are keep their lists, and the
\* one that is new has them all.
LEMMA WholePushNext ==
  ASSUME CInv, \A p \in Proxies : StepInv(p), WholePush,
         NEW p \in Proxies, ProxyStep(p) \/ handle_client(p)
  PROVE  WholePush'
<1> USE DEF CInv, Control
<1>1. CASE UNCHANGED commits
  <2> SUFFICES ASSUME NEW k \in DOMAIN commits, NEW q, q = commits[k].by,
                      Counted(q)', ~CutShort(q)'
               PROVE  commits[k].files = Files(list'[q])
    BY <1>1 DEF WholePush, Counted, CutShort
  <2>2. q \in Proxies
    <3>1. commits \in Seq([by : Proxies, files : Seq(FileGot)]) BY DEF TypeOK
    <3>2. commits[k] \in [by : Proxies, files : Seq(FileGot)]
      BY ONLY <3>1, k \in DOMAIN commits, ElementOfSeq
    <3> QED BY <3>2
  <2>3. at[q] = "closed" BY <2>2 DEF LockInv
  <2>4. /\ list'[q] = list[q]
        /\ Counted(q)' => Counted(q)
        /\ CutShort(q) => CutShort(q)'
    BY <2>2, <2>3, PublishedStays
  <2> QED BY <2>4 DEF WholePush
<1>2. CASE Publish(p)
  <2>1. PICK c : c = [by |-> p, files |-> got[p]] OBVIOUS
  <2>2. commits' = Append(commits, c) /\ at[p] = "header" /\ UNCHANGED <<proxy, shrunk>>
    BY <1>2, <2>1 DEF Publish
  <2>3. commits = <<>> BY <2>2 DEF LockInv, Serving
  <2>4. commits' = <<c>> BY <2>2, <2>3
  <2>5. DOMAIN <<c>> = {1} /\ <<c>>[1] = c /\ c.by = p /\ c.files = got[p] BY <2>1
  <2>6. Counted(p) /\ ~CutShort(p) => got[p] = Files(list[p])
    BY <1>2, PublishedWhole
  <2>7. (Counted(p)' => Counted(p)) /\ (CutShort(p) => CutShort(p)') /\ list' = list
    BY <2>2 DEF Counted, CutShort, proxy
  <2> QED BY <2>4, <2>5, <2>6, <2>7 DEF WholePush
<1>3. UNCHANGED commits \/ Publish(p)
  BY DEF ProxyStep, ListStatus, setup, Refused, SendLine, SkipFile, SendFileHeader,
     SendBlock, FileShrank, SendfileFails, Sigpipe, RecvReply, Kill, handle_client, ReadLine,
     Conflict, Lock, RecvFileHeader, RecvPayload, FileReceived, server
<1> QED BY <1>1, <1>2, <1>3

PInv == CInv /\ (\A p \in Proxies : StepInv(p)) /\ WholePush

LEMMA PInvInit == Init => PInv
<1> SUFFICES ASSUME Init PROVE PInv OBVIOUS
<1>1. CInv BY CInvInit
<1>2. \A p \in Proxies : ~Busy(p) BY DEF Init, Busy
<1>3. DOMAIN <<>> = {} OBVIOUS
<1>4. WholePush BY <1>3 DEF Init, WholePush
<1> QED BY <1>1, <1>2, <1>4 DEF PInv, StepInv

LEMMA PInvNext == PInv /\ [Next]_vars => PInv'
<1> SUFFICES ASSUME PInv, [Next]_vars PROVE PInv' OBVIOUS
<1> USE DEF PInv
<1>1. CInv' BY CInvNext
<1>2. ASSUME NEW p \in Proxies, ProxyStep(p) \/ handle_client(p) PROVE PInv'
  <2>1. Others(p) BY <1>2, StepOthers DEF CInv
  <2>2. \A q \in Proxies \ {p} : StepInv(q)' BY <2>1, OthersInStep
  <2>3. StepInv(p)' BY <1>1, <1>2, ProxyInStep, WorkerInStep
  <2>4. WholePush' BY <1>2, WholePushNext
  <2> QED BY <1>1, <2>2, <2>3, <2>4
<1>3. CASE UNCHANGED vars
  <2>1. \A p \in Proxies : StepInv(p)'
    BY <1>3 DEF vars, proxy, wire, server, StepInv, Counted, Busy, Lost, CutShort, OnTheWay,
                SentUpTo, Stream, ReadUpTo, GotRight, PayloadRight
  <2>2. WholePush' BY <1>3 DEF vars, proxy, server, WholePush, Counted, CutShort
  <2> QED BY <1>1, <2>1, <2>2
<1> QED BY <1>2, <1>3, StepKinds

LEMMA PInvInStep == PInv => InStep
<1> SUFFICES ASSUME PInv, NEW p \in Proxies, Counted(p), Serving(p), toServer[p] # <<>>
             PROVE  LET block == Head(toServer[p])
                    IN  /\ at[p] = "header" => block.kind = "header"
                        /\ at[p] = "payload" /\ ~Complete(p) =>
                             block = Data(header[p], Len(payload[p]) + 1)
                        /\ at[p] = "payload" /\ Complete(p) => block.kind = "header"
  BY DEF InStep, Serving
<1> USE DEF PInv
<1>1. Head(toServer[p]) = BlockAt(list[p], ReadUpTo(p)) /\ PayloadRight(p)
  BY NextBlock
<1>2. \A e : FileHeader(e).kind = "header" BY DEF FileHeader
<1>3. CASE at[p] = "header"
  <2>1. ReadUpTo(p)[2] = 0 BY <1>3 DEF ReadUpTo
  <2> QED BY <1>1, <1>2, <1>3, <2>1 DEF BlockAt
<1>4. CASE at[p] = "payload"
  <2>1. PICK n, e, m : n = Len(got[p]) + 1 /\ e = list[p][n] /\ m = Len(payload[p]) OBVIOUS
  <2>2. /\ header[p].name = e.name
        /\ ~Complete(p) => ReadUpTo(p) = <<n, m + 1>>
        /\ Complete(p) => ReadUpTo(p) = <<n + 1, 0>>
    BY <1>1, <1>4, <2>1, PlaceInPayload
  <2>3. m \in Nat BY <1>4, <2>1, PlaceOfWorker
  <2>4. Data(header[p], m + 1) = Data(e, m + 1) BY <2>2 DEF Data
  <2>5. CASE Complete(p)
    <3>1. ReadUpTo(p)[2] = 0 BY <2>2, <2>5
    <3> QED BY <1>1, <1>2, <1>4, <2>5, <3>1 DEF BlockAt
  <2>6. CASE ~Complete(p)
    <3>1. ReadUpTo(p)[1] = n /\ ReadUpTo(p)[2] = m + 1 /\ m + 1 # 0
      BY <2>2, <2>3, <2>6
    <3>2. Head(toServer[p]) = Data(e, m + 1) BY <1>1, <2>1, <3>1 DEF BlockAt
    <3> QED BY <1>4, <2>1, <2>4, <2>6, <3>2
  <2> QED BY <2>5, <2>6
<1> QED BY <1>3, <1>4 DEF Serving

LEMMA PInvNoWait == PInv => NoMutualWait
<1> SUFFICES ASSUME PInv, NEW p \in Proxies, pc[p] = "recv", toServer[p] = <<>>,
                    \/ at[p] = "header" /\ MoreFiles(p)
                    \/ at[p] = "payload" /\ ~Complete(p),
                    Counted(p)
             PROVE  FALSE
  BY DEF NoMutualWait
<1> USE DEF PInv
<1>1. i[p] <= Len(list[p]) BY NotAllSent DEF Serving
<1>2. i[p] = Len(list[p]) + 1 BY DEF CInv, Control, ProxyInv
<1>3. list[p] \in Seq(StatusEntry) BY DEF CInv, TypeOK
<1>4. Len(list[p]) \in Nat BY <1>3
<1> QED BY <1>1, <1>2, <1>4

\* While a proxy sends what it announced, the server takes no block of
\* contents for a file header and no header for contents, at any fill of the
\* socket buffers, and also when the proxy is killed in the middle.
THEOREM StaysInStep == Spec => []InStep
<1> QED BY PInvInit, PInvNext, PInvInStep, PTL DEF Spec

\* What is published is what the proxy listed, in its order and whole.
THEOREM PushesAreWhole == Spec => []WholePush
<1>1. PInv => WholePush BY DEF PInv
<1> QED BY <1>1, PInvInit, PInvNext, PTL DEF Spec

\* A proxy waits for the answer and the server for more of a file only when
\* the proxy announced what it did not send.
THEOREM NobodyWaits == Spec => []NoMutualWait
<1> QED BY PInvInit, PInvNext, PInvNoWait, PTL DEF Spec

-----------------------------------------------------------------------------
(* What EveryPushEnds rests on besides fairness: as long as counts are right,  *)
(* nobody is stuck, neither on full buffers nor on branch_lock.             *)

\* Where a push ends: the server has answered when it is done with it, and the
\* proxy when it has read that.
EndInv(p) ==
  /\ at[p] = "closed" => link[p] \in {"closing", "broken"} /\ reply[p] # "none"
  /\ pc[p] = "done" => at[p] \in {"none", "closed"}

\* branch_lock is given back.
HeldInv == lock # NoProxy => Serving(lock)

LEMMA EndInvProxy ==
  ASSUME CInv, NEW p \in Proxies, EndInv(p), ProxyStep(p) PROVE EndInv(p)'
<1> USE DEF CInv, Control
<1>1. CASE ListStatus(p)
  <2>1. at[p] = "none" /\ UNCHANGED <<at, link, reply>>
    BY <1>1 DEF ListStatus, ProxyInv, wire, server
  <2> QED BY <2>1 DEF EndInv
<1>2. CASE setup(p)
  <2>1. pc'[p] = "line" /\ at'[p] = "line" BY <1>2 DEF setup, TypeOK
  <2> QED BY <2>1 DEF EndInv
<1>3. CASE RecvReply(p)
  <2>1. reply[p] # "none" /\ UNCHANGED <<at, link, reply>> BY <1>3 DEF RecvReply, wire, server
  <2>2. at[p] = "closed" BY <2>1 DEF WorkerInv, TypeOK
  <2> QED BY <2>1, <2>2 DEF EndInv
<1>4. ASSUME UNCHANGED <<at, reply>>, pc'[p] # "done",
             link'[p] = link[p] \/ link'[p] = "broken"
      PROVE  EndInv(p)'
  BY <1>4 DEF EndInv
<1>5. CASE Refused(p) \/ SendLine(p) \/ SkipFile(p) \/ FileShrank(p) \/ Sigpipe(p) \/ Kill(p)
  <2>1. UNCHANGED <<at, reply, link>>
    BY <1>5 DEF Refused, SendLine, SkipFile, FileShrank, Sigpipe, Kill, wire, server
  <2>2. pc'[p] # "done"
    BY <1>5 DEF Refused, SendLine, SkipFile, FileShrank, Sigpipe, Kill, NextFile, TypeOK
  <2> QED BY <1>4, <2>1, <2>2
<1>6. CASE SendFileHeader(p)
  <2>1. UNCHANGED <<at, reply>> BY <1>6 DEF SendFileHeader, server
  <2>2. pc'[p] # "done" BY <1>6 DEF SendFileHeader, NextFile, TypeOK
  <2>3. link'[p] = link[p] \/ link'[p] = "broken" BY <1>6 DEF SendFileHeader, Send, TypeOK
  <2> QED BY <1>4, <2>1, <2>2, <2>3
<1>7. CASE SendBlock(p)
  <2>1. UNCHANGED <<at, reply>> BY <1>7 DEF SendBlock, server
  <2>2. pc'[p] # "done" BY <1>7 DEF SendBlock, NextFile, TypeOK
  <2>3. link'[p] = link[p] \/ link'[p] = "broken" BY <1>7 DEF SendBlock, Send, TypeOK
  <2> QED BY <1>4, <2>1, <2>2, <2>3
<1>8. CASE SendfileFails(p)
  <2>1. UNCHANGED <<at, reply>> /\ link'[p] = "broken"
    BY <1>8 DEF SendfileFails, server, TypeOK
  <2>2. pc'[p] # "done" BY <1>8 DEF SendfileFails, NextFile, TypeOK
  <2> QED BY <1>4, <2>1, <2>2
<1> QED BY <1>1, <1>2, <1>3, <1>5, <1>6, <1>7, <1>8 DEF ProxyStep

LEMMA EndInvWorker ==
  ASSUME CInv, NEW p \in Proxies, EndInv(p), handle_client(p) PROVE EndInv(p)'
<1>0. /\ at[p] \in {"line", "lock", "header", "payload"} /\ UNCHANGED pc
      /\ at'[p] # "closed" \/ \E answer \in {"success", "conflict"} : CloseWith(p, answer)
  <2>1. CASE Conflict(p) \/ Publish(p) BY <2>1 DEF Conflict, Publish, proxy
  <2>2. CASE ReadLine(p) \/ Lock(p) \/ RecvFileHeader(p) \/ RecvPayload(p) \/ FileReceived(p)
    <3>1. at[p] \in {"line", "lock", "header", "payload"} /\ UNCHANGED pc
      BY <2>2 DEF ReadLine, Lock, RecvFileHeader, RecvPayload, FileReceived, proxy
    <3>2. at'[p] \in {"lock", "header", "payload"}
      BY <2>2 DEF CInv, TypeOK, ReadLine, Lock, RecvFileHeader, RecvPayload, FileReceived
    <3> QED BY <3>1, <3>2
  <2> QED BY <2>1, <2>2 DEF handle_client
<1>1. pc[p] # "done" BY <1>0 DEF EndInv
<1>2. at'[p] = "closed" => link'[p] = "closing" /\ reply'[p] # "none"
  BY <1>0 DEF CloseWith, CInv, TypeOK
<1> QED BY <1>0, <1>1, <1>2 DEF EndInv

LEMMA HeldInvNext ==
  ASSUME CInv, HeldInv, NEW p \in Proxies, ProxyStep(p) \/ handle_client(p)
  PROVE  HeldInv'
<1> USE DEF CInv, Control
<1>1. ASSUME lock' = lock, \A q \in Proxies : Serving(q) => Serving(q)' PROVE HeldInv'
  BY <1>1 DEF HeldInv, TypeOK, Serving
<1>2. CASE ProxyStep(p)
  <2>1. lock' = lock /\ (UNCHANGED at \/ setup(p))
    BY <1>2 DEF ProxyStep, ListStatus, Refused, SendLine, SkipFile, SendFileHeader,
       SendBlock, FileShrank, SendfileFails, Sigpipe, RecvReply, Kill, setup, server
  <2>2. CASE UNCHANGED at BY <1>1, <2>1, <2>2 DEF Serving
  <2>3. CASE setup(p)
    <3>1. at[p] = "none" /\ at' = [at EXCEPT ![p] = "line"] BY <2>3 DEF setup, ProxyInv
    <3> QED BY <1>1, <2>1, <3>1 DEF Serving, TypeOK
  <2> QED BY <2>1, <2>2, <2>3
<1>3. CASE ReadLine(p) \/ RecvFileHeader(p) \/ RecvPayload(p) \/ FileReceived(p) \/ Conflict(p)
  <2>1. lock' = lock
    BY <1>3 DEF ReadLine, RecvFileHeader, RecvPayload, FileReceived, Conflict
  <2>2. \A q \in Proxies : Serving(q) => Serving(q)'
    BY <1>3 DEF ReadLine, RecvFileHeader, RecvPayload, FileReceived, Conflict, CloseWith,
                Serving, TypeOK
  <2> QED BY <1>1, <2>1, <2>2
<1>4. CASE Lock(p) BY <1>4 DEF Lock, HeldInv, Serving, TypeOK
<1>5. CASE Publish(p) BY <1>5 DEF Publish, HeldInv
<1> QED BY <1>2, <1>3, <1>4, <1>5 DEF handle_client

FlowInv == PInv /\ HeldInv /\ \A p \in Proxies : EndInv(p)

LEMMA FlowInvInit == Init => FlowInv
BY PInvInit DEF Init, FlowInv, HeldInv, EndInv

LEMMA FlowInvNext == FlowInv /\ [Next]_vars => FlowInv'
<1> SUFFICES ASSUME FlowInv, [Next]_vars PROVE FlowInv' OBVIOUS
<1>1. PInv' BY PInvNext DEF FlowInv
<1>2. ASSUME NEW p \in Proxies, ProxyStep(p) \/ handle_client(p) PROVE FlowInv'
  <2>1. CInv BY DEF FlowInv, PInv
  <2>2. HeldInv' BY <1>2, <2>1, HeldInvNext DEF FlowInv
  <2>3. EndInv(p)' BY <1>2, <2>1, EndInvProxy, EndInvWorker DEF FlowInv
  <2>4. Others(p) BY <1>2, <2>1, StepOthers DEF CInv
  <2>5. \A q \in Proxies \ {p} : EndInv(q)' BY <2>4 DEF FlowInv, EndInv, Others
  <2> QED BY <1>1, <2>2, <2>3, <2>5 DEF FlowInv
<1>3. CASE UNCHANGED vars
  BY <1>1, <1>3 DEF FlowInv, HeldInv, EndInv, Serving, vars, proxy, wire, server
<1> QED BY <1>2, <1>3, StepKinds

\* The guard of a step of a proxy after its status list was made: there is room in the
\* buffers, or the connection is lost, or there is nothing to send or an answer.
ProxyCanGo(p) ==
  \/ pc[p] \in {"setup", "line"}
  \/ pc[p] = "file" /\ ~list[p][i[p]].opens
  \/ /\ pc[p] \in {"file", "data"}
     /\ \/ link[p] \in {"closing", "broken"}
        \/ link[p] = "up" /\ Len(toServer[p]) < Capacity
  \/ pc[p] = "recv" /\ reply[p] # "none"

\* The guard of a step of its worker: it has something to read, or need not.
WorkerCanGo(p) ==
  \/ at[p] = "line" /\ toServer[p] # <<>>
  \/ at[p] = "lock" /\ lock = NoProxy
  \/ at[p] = "header" /\ (~MoreFiles(p) \/ toServer[p] # <<>> \/ EndOfStream(p))
  \/ at[p] = "payload" /\ (Complete(p) \/ toServer[p] # <<>> \/ EndOfStream(p))

CanGo(p) == ProxyCanGo(p) \/ WorkerCanGo(p)

\* A push that has not ended can go on at one of its ends, or waits for
\* branch_lock, whose push can: unless a count was wrong.
NobodyStuck ==
  \A p \in Proxies : pc[p] # "start" /\ ~Ended(p) /\ Counted(p) =>
    \/ CanGo(p)
    \/ at[p] = "lock" /\ lock \in Proxies /\ (Counted(lock) => CanGo(lock))

\* A push the server is reading: a worker without anything to read has a proxy
\* that has room to send.
LEMMA ServedCanGo ==
  ASSUME FlowInv, NEW p \in Proxies, Serving(p), Counted(p)
  PROVE  CanGo(p)
<1> USE DEF FlowInv, PInv, CInv, Control
<1>1. CASE toServer[p] # <<>> BY <1>1 DEF CanGo, WorkerCanGo, Serving
<1>2. CASE pc[p] = "dead" /\ toServer[p] = <<>>
  BY <1>2 DEF CanGo, WorkerCanGo, Serving, EndOfStream
<1>3. CASE pc[p] \in {"file", "data"} /\ toServer[p] = <<>>
  <2>1. link[p] = "up" BY DEF WorkerInv, Serving
  <2>2. Len(toServer[p]) < Capacity
    <3>1. Len(<<>>) = 0 /\ Capacity > 0 BY ProtocolAssumption
    <3> QED BY <1>3, <3>1
  <2> QED BY <1>3, <2>1, <2>2 DEF CanGo, ProxyCanGo
<1>4. CASE pc[p] = "recv" /\ toServer[p] = <<>>
  <2>1. reply[p] = "none" BY DEF WorkerInv, Serving
  <2>2. ~(at[p] = "header" /\ MoreFiles(p)) /\ ~(at[p] = "payload" /\ ~Complete(p))
    BY <1>4, <2>1, PInvNoWait DEF NoMutualWait
  <2> QED BY <2>2 DEF CanGo, WorkerCanGo, Serving
<1>5. pc[p] \in {"file", "data", "recv", "dead"}
  BY DEF TypeOK, ProxyInv, WorkerInv, EndInv, Serving
<1> QED BY <1>1, <1>2, <1>3, <1>4, <1>5

\* No deadlock between the two ends of a connection, at any capacity of the
\* buffers and any sizes, nor among the connections over branch_lock.
THEOREM NobodyIsStuck == Spec => []NobodyStuck
<1>1. FlowInv => NobodyStuck
  <2> SUFFICES ASSUME FlowInv, NEW p \in Proxies, pc[p] # "start", ~Ended(p), Counted(p)
               PROVE  \/ CanGo(p)
                      \/ at[p] = "lock" /\ lock \in Proxies /\ (Counted(lock) => CanGo(lock))
    BY DEF NobodyStuck
  <2> USE DEF FlowInv, PInv, CInv, Control
  <2>1. CASE at[p] = "none"
    <3>1. pc[p] = "setup" BY <2>1 DEF TypeOK, ProxyInv, Ended
    <3> QED BY <3>1 DEF CanGo, ProxyCanGo
  <2>2. CASE at[p] = "line" BY <2>2 DEF WorkerInv, CanGo, ProxyCanGo, WorkerCanGo
  <2>3. CASE at[p] = "lock"
    <3>1. CASE lock = NoProxy BY <2>3, <3>1 DEF CanGo, WorkerCanGo
    <3>2. CASE lock # NoProxy
      <4>1. lock \in Proxies /\ Serving(lock) BY <3>2 DEF TypeOK, HeldInv
      <4> QED BY <2>3, <4>1, ServedCanGo
    <3> QED BY <3>1, <3>2
  <2>4. CASE Serving(p) BY <2>4, ServedCanGo
  <2>5. CASE at[p] = "closed"
    <3>1. link[p] \in {"closing", "broken"} /\ reply[p] # "none" BY <2>5 DEF EndInv
    <3>2. pc[p] \in {"file", "data", "recv"} BY <2>5 DEF TypeOK, ProxyInv, WorkerInv, Ended
    <3> QED BY <3>1, <3>2 DEF CanGo, ProxyCanGo
  <2> QED BY <2>1, <2>2, <2>3, <2>4, <2>5 DEF TypeOK, Serving
<1> QED BY <1>1, FlowInvInit, FlowInvNext, PTL DEF Spec
=============================================================================
