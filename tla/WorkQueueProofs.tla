-------------------------- MODULE WorkQueueProofs --------------------------
(***************************************************************************)
(* Proofs about WorkQueue: its types, that the linked list is a FIFO, that *)
(* no wakeup is lost, and that no two workers share a connection, for any  *)
(* number of workers and connections.                                      *)
(***************************************************************************)
EXTENDS WorkQueue, FiniteSetTheorems, TLAPS

-----------------------------------------------------------------------------
(* The list.                                                               *)

\* Where the connections of each phase are: what the two ends of the list and
\* the next fields alone do not say.
FdInv == client_fd # NULL => phase[client_fd] = "accepted"

BacklogInv ==
  /\ \A k \in 1..Len(backlog) : phase[backlog[k]] = "backlog"
  /\ \A k, l \in 1..Len(backlog) : backlog[k] = backlog[l] => k = l

AcceptedInv ==
  /\ \A k \in 1..Len(accepted) : phase[accepted[k]] \in {"queued", "serving", "closed"}
  /\ \A k \in 1..Len(accepted) : Len(taken) < k => phase[accepted[k]] = "queued"
  /\ \A k, l \in 1..Len(accepted) : accepted[k] = accepted[l] => k = l

JobInv ==
  /\ \A w \in Workers : state[w] = "serving" => job[w] \in Clients /\ phase[job[w]] = "serving"
  /\ \A v, w \in Workers :
       state[v] = "serving" /\ state[w] = "serving" /\ job[v] = job[w] => v = w

PhaseInv == FdInv /\ BacklogInv /\ AcceptedInv /\ JobInv

ListInv == TypeOK /\ ListIsFifo /\ PhaseInv

LEMMA ListInvInit == Init => ListInv
BY QueueAssumption
DEF Init, ListInv, TypeOK, ListIsFifo, PhaseInv, FdInv, BacklogInv, AcceptedInv, JobInv

LEMMA ConnectStep ==
  ASSUME ListInv, NEW c \in Clients, Connect(c) PROVE ListInv'
<1> USE DEF ListInv
<1>1. TypeOK' BY DEF Connect, TypeOK, list, pool
<1>2. ListIsFifo' BY DEF Connect, ListIsFifo, list, pool
<1>3. PhaseInv'
  <2>1. \A d \in Clients : phase'[d] = IF d = c THEN "backlog" ELSE phase[d]
    BY DEF Connect, TypeOK
  <2>2. phase[c] = "new" BY DEF Connect
  <2>3. /\ backlog' = Append(backlog, c) /\ Len(backlog') = Len(backlog) + 1
        /\ backlog'[Len(backlog) + 1] = c
        /\ \A k \in 1..Len(backlog) : backlog'[k] = backlog[k] /\ backlog[k] \in Clients
    BY DEF Connect, TypeOK
  <2>4. \A k \in 1..Len(accepted) : accepted[k] \in Clients BY DEF TypeOK
  <2>5. client_fd # NULL => client_fd \in Clients BY DEF TypeOK
  <2>6. UNCHANGED <<client_fd, list, pool, accepted, taken>> BY DEF Connect
  <2>7. FdInv' BY <2>1, <2>2, <2>5, <2>6 DEF PhaseInv, FdInv
  <2>8. BacklogInv'
    <3>1. \A k \in 1..Len(backlog') : k \in 1..Len(backlog) \/ k = Len(backlog) + 1
      BY <2>3 DEF TypeOK
    <3>2. \A k \in 1..Len(backlog) : backlog[k] # c BY <2>2 DEF PhaseInv, BacklogInv
    <3> QED BY <2>1, <2>3, <3>1, <3>2 DEF PhaseInv, BacklogInv
  <2>9. AcceptedInv' BY <2>1, <2>2, <2>4, <2>6 DEF PhaseInv, AcceptedInv
  <2>10. JobInv' BY <2>1, <2>2, <2>6 DEF PhaseInv, JobInv, pool
  <2> QED BY <2>7, <2>8, <2>9, <2>10 DEF PhaseInv
<1> QED BY <1>1, <1>2, <1>3

LEMMA AcceptStep ==
  ASSUME ListInv, Accept PROVE ListInv'
<1> USE DEF ListInv
<1> DEFINE c == Head(backlog)
<1>1. /\ c \in Clients /\ c = backlog[1] /\ 1 \in 1..Len(backlog)
      /\ Tail(backlog) \in Seq(Clients) /\ Len(Tail(backlog)) = Len(backlog) - 1
      /\ \A k \in 1..(Len(backlog) - 1) : Tail(backlog)[k] = backlog[k + 1]
  BY DEF Accept, TypeOK
<1>2. phase[c] = "backlog" BY <1>1 DEF PhaseInv, BacklogInv
<1>3. TypeOK' BY <1>1 DEF Accept, TypeOK, list, pool
<1>4. ListIsFifo' BY DEF Accept, ListIsFifo, list
<1>5. PhaseInv'
  <2> HIDE DEF c
  <2>1. \A d \in Clients : phase'[d] = IF d = c THEN "accepted" ELSE phase[d]
    BY <1>1 DEF Accept, TypeOK, c
  <2>2. client_fd' = c /\ backlog' = Tail(backlog) /\ UNCHANGED <<list, pool, accepted, taken>>
    BY DEF Accept, c
  <2>3. \A k \in 1..Len(accepted) : accepted[k] \in Clients BY DEF TypeOK
  <2>4. \A k \in 1..Len(backlog) : backlog[k] \in Clients BY DEF TypeOK
  <2>5. \A k \in 1..Len(backlog') : k + 1 \in 1..Len(backlog) /\ backlog'[k] = backlog[k + 1]
    BY <1>1, <2>2 DEF TypeOK
  <2>6. \A k \in 1..Len(backlog') : backlog'[k] # c
    BY <1>1, <2>5 DEF PhaseInv, BacklogInv, c
  <2>7. FdInv' BY <1>1, <2>1, <2>2 DEF FdInv
  <2>8. BacklogInv'
    <3>1. \A k, l \in 1..Len(backlog') : backlog'[k] = backlog'[l] => k + 1 = l + 1
      BY <2>5 DEF PhaseInv, BacklogInv
    <3>2. \A k, l \in 1..Len(backlog') : backlog'[k] = backlog'[l] => k = l BY <3>1
    <3>3. ASSUME NEW k \in 1..Len(backlog') PROVE phase'[backlog'[k]] = "backlog"
      <4>1. backlog'[k] \in Clients /\ backlog'[k] # c BY <2>4, <2>5, <2>6
      <4>2. phase[backlog'[k]] = "backlog" BY <2>5 DEF PhaseInv, BacklogInv
      <4> QED BY <2>1, <4>1, <4>2
    <3> QED BY <3>2, <3>3 DEF BacklogInv
  <2>9. AcceptedInv' BY <1>2, <2>1, <2>2, <2>3 DEF PhaseInv, AcceptedInv
  <2>10. JobInv' BY <1>2, <2>1, <2>2 DEF PhaseInv, JobInv, pool
  <2> QED BY <2>7, <2>8, <2>9, <2>10 DEF PhaseInv
<1> QED BY <1>3, <1>4, <1>5

\* A signal only makes a sleeping worker ready.
LEMMA SignalStep ==
  ASSUME TypeOK, Signal
  PROVE  /\ state' \in [Workers -> {"ready", "waiting", "serving"}]
         /\ \A w \in Workers : state'[w] = "serving" <=> state[w] = "serving"
BY DEF Signal, TypeOK, In

LEMMA EnqueueStep ==
  ASSUME ListInv, enqueue_client PROVE ListInv'
<1> USE DEF ListInv
<1> DEFINE c == client_fd
           n == Len(accepted)
<1>1. c \in Clients /\ phase[c] = "accepted" BY DEF enqueue_client, TypeOK, PhaseInv, FdInv
<1>2. Signal BY DEF enqueue_client
<1>3. TypeOK' BY <1>1, <1>2, SignalStep, QueueAssumption DEF enqueue_client, TypeOK
<1>4. /\ accepted' = Append(accepted, c) /\ Len(accepted') = n + 1 /\ n \in Nat
      /\ accepted'[n + 1] = c /\ taken' = taken /\ Len(taken) \in Nat
      /\ \A k \in 1..n : accepted'[k] = accepted[k] /\ accepted[k] \in Clients
  BY DEF enqueue_client, TypeOK
<1>5. \A k \in 1..n : accepted[k] # c BY <1>1 DEF PhaseInv, AcceptedInv
<1>6. ListIsFifo'
  <2>1. Len(taken) <= n BY DEF ListIsFifo
  <2>2. \A k \in 1..Len(taken) : k \in 1..n BY <1>4, <2>1
  <2>3. Len(taken') <= Len(accepted') /\ \A k \in 1..Len(taken') : taken'[k] = accepted'[k]
    BY <1>4, <2>1, <2>2 DEF ListIsFifo
  <2>4. CASE Len(taken) = n
    <3>1. queue_rear = NULL BY <2>4 DEF ListIsFifo
    <3>2. queue_front' = c /\ queue_rear' = c /\ next' = [next EXCEPT ![c] = NULL]
      BY <3>1 DEF enqueue_client
    <3>3. next'[c] = NULL BY <1>1, <3>2 DEF TypeOK
    <3> QED BY <1>4, <2>3, <2>4, <3>2, <3>3 DEF ListIsFifo
  <2>5. CASE Len(taken) < n
    <3>1. /\ queue_front = accepted[Len(taken) + 1] /\ queue_rear = accepted[n]
          /\ \A k \in (Len(taken) + 1)..(n - 1) : next[accepted[k]] = accepted[k + 1]
      BY <2>5, <1>4 DEF ListIsFifo
    <3>2. queue_rear \in Clients /\ queue_rear # c BY <1>4, <1>5, <2>5, <3>1
    <3>3. /\ queue_front' = queue_front /\ queue_rear' = c
          /\ next' = [next EXCEPT ![c] = NULL, ![queue_rear] = c]
      BY <3>2, QueueAssumption DEF enqueue_client
    <3>4. \A d \in Clients :
            next'[d] = IF d = queue_rear THEN c ELSE IF d = c THEN NULL ELSE next[d]
      BY <3>2, <3>3, <1>1 DEF TypeOK
    <3>5. \A k \in (Len(taken) + 1)..n : next'[accepted'[k]] = accepted'[k + 1]
      <4> TAKE k \in (Len(taken) + 1)..n
      <4>1. CASE k = n BY <4>1, <1>4, <2>5, <3>1, <3>4
      <4>2. CASE k # n
        <5>1. k \in 1..n /\ n \in 1..n /\ k + 1 \in 1..n
              /\ k \in (Len(taken) + 1)..(n - 1)
          BY <4>2, <1>4, <2>5
        <5>2. accepted[k] # queue_rear BY <4>2, <5>1, <3>1 DEF PhaseInv, AcceptedInv
        <5>3. next'[accepted[k]] = next[accepted[k]] BY <5>1, <5>2, <3>4, <1>4, <1>5
        <5> QED BY <5>1, <5>3, <3>1, <1>4
      <4> QED BY <4>1, <4>2
    <3>6. next'[c] = NULL BY <3>2, <3>4, <1>1
    <3>7. queue_front' = accepted'[Len(taken) + 1] BY <3>1, <3>3, <1>4, <2>5
    <3>8. Len(taken') # Len(accepted') /\ Len(taken') = Len(taken)
          /\ Len(accepted') - 1 = n /\ queue_rear' = accepted'[Len(accepted')]
          /\ next'[queue_rear'] = NULL
      BY <1>4, <2>5, <3>3, <3>6
    <3> HIDE DEF c, n
    <3> QED BY <2>3, <3>5, <3>7, <3>8 DEF ListIsFifo
  <2> QED BY <1>4, <2>1, <2>4, <2>5
<1>7. PhaseInv'
  <2> HIDE DEF c, n
  <2>1. \A d \in Clients : phase'[d] = IF d = c THEN "queued" ELSE phase[d]
    BY <1>1 DEF enqueue_client, TypeOK, c
  <2>2. client_fd' = NULL /\ backlog' = backlog /\ job' = job BY DEF enqueue_client
  <2>3. \A k \in 1..Len(backlog) : backlog[k] \in Clients BY DEF TypeOK
  <2>4. \A w \in Workers : state'[w] = "serving" <=> state[w] = "serving"
    BY <1>2, SignalStep
  <2>5. \A k \in 1..Len(accepted') : k \in 1..n \/ k = n + 1 BY <1>4
  <2>6. \A k, l \in 1..Len(accepted') : accepted'[k] = accepted'[l] => k = l
    BY <1>4, <1>5, <2>5 DEF PhaseInv, AcceptedInv, n
  <2>7. AcceptedInv'
    BY <1>1, <1>4, <1>5, <2>1, <2>5, <2>6 DEF PhaseInv, AcceptedInv, n
  <2>8. BacklogInv'
    BY <1>1, <2>1, <2>2, <2>3 DEF PhaseInv, BacklogInv
  <2>9. JobInv' BY <1>1, <2>1, <2>2, <2>4 DEF PhaseInv, JobInv
  <2>10. FdInv' BY <2>2 DEF FdInv
  <2> QED BY <2>7, <2>8, <2>9, <2>10 DEF PhaseInv
<1> QED BY <1>3, <1>6, <1>7

LEMMA EnqueueFailsStep ==
  ASSUME ListInv, enqueue_fails PROVE ListInv'
<1> USE DEF ListInv
<1>1. client_fd \in Clients /\ phase[client_fd] = "accepted"
  BY DEF enqueue_fails, TypeOK, PhaseInv, FdInv
<1>2. TypeOK' BY <1>1 DEF enqueue_fails, TypeOK, list, pool
<1>3. ListIsFifo' BY DEF enqueue_fails, ListIsFifo, list
<1>4. PhaseInv'
  <2>1. \A d \in Clients : phase'[d] = IF d = client_fd THEN "closed" ELSE phase[d]
    BY <1>1 DEF enqueue_fails, TypeOK
  <2>2. client_fd' = NULL /\ UNCHANGED <<backlog, list, pool, accepted, taken>>
    BY DEF enqueue_fails
  <2>3. FdInv' BY <2>2 DEF FdInv
  <2>4. \A k \in 1..Len(backlog) : backlog[k] \in Clients BY DEF TypeOK
  <2>5. BacklogInv' BY <1>1, <2>1, <2>2, <2>4 DEF PhaseInv, BacklogInv
  <2>6. \A k \in 1..Len(accepted) : accepted[k] \in Clients BY DEF TypeOK
  <2>7. AcceptedInv' BY <1>1, <2>1, <2>2, <2>6 DEF PhaseInv, AcceptedInv
  <2>8. JobInv' BY <1>1, <2>1, <2>2 DEF PhaseInv, JobInv, pool
  <2> QED BY <2>3, <2>5, <2>7, <2>8 DEF PhaseInv
<1> QED BY <1>2, <1>3, <1>4

LEMMA DequeueStep ==
  ASSUME ListInv, NEW w \in Workers, dequeue_client(w) PROVE ListInv'
<1> USE DEF ListInv
<1> DEFINE c == queue_front
           n == Len(accepted)
           m == Len(taken)
<1>1. c \in Clients /\ c # NULL /\ state[w] = "ready" BY DEF dequeue_client, TypeOK
<1>2. /\ n \in Nat /\ m \in Nat /\ m < n
      /\ \A k \in 1..n : accepted[k] \in Clients
  BY <1>1 DEF TypeOK, ListIsFifo
<1>3. /\ c = accepted[m + 1] /\ queue_rear = accepted[n] /\ next[queue_rear] = NULL
      /\ \A k \in (m + 1)..(n - 1) : next[accepted[k]] = accepted[k + 1]
  BY <1>2 DEF ListIsFifo
<1>4. m + 1 \in 1..n /\ phase[c] = "queued" BY <1>2, <1>3 DEF PhaseInv, AcceptedInv
<1>5. /\ taken' = Append(taken, c) /\ Len(taken') = m + 1 /\ taken'[m + 1] = c
      /\ \A k \in 1..m : taken'[k] = taken[k]
      /\ accepted' = accepted /\ next' = next /\ queue_front' = next[c]
      /\ queue_rear' = IF next[c] = NULL THEN NULL ELSE queue_rear
  BY <1>1 DEF dequeue_client, TypeOK
<1>6. TypeOK' BY <1>1 DEF dequeue_client, TypeOK
<1>7. ListIsFifo'
  <2> HIDE DEF c, n, m
  <2>1. m + 1 <= n BY <1>2
  <2>2. \A k \in 1..(m + 1) : k \in 1..m \/ k = m + 1 BY <1>2
  <2>3. \A k \in 1..(m + 1) : taken'[k] = accepted[k]
    BY <1>3, <1>5, <2>2 DEF ListIsFifo, m
  <2>4. CASE m + 1 = n
    <3>1. next[c] = NULL BY <1>3, <2>4
    <3> QED BY <1>5, <2>1, <2>3, <2>4, <3>1 DEF ListIsFifo, n
  <2>5. CASE m + 1 < n
    <3>1. next[c] = accepted[m + 2] /\ m + 2 \in 1..n
      BY <1>2, <1>3, <2>5
    <3>2. next[c] # NULL BY <3>1, <1>2, QueueAssumption
    <3>3. queue_front' = accepted[Len(taken') + 1] /\ queue_rear' = accepted[n]
          /\ next'[queue_rear'] = NULL
      BY <1>2, <1>3, <1>5, <3>1, <3>2
    <3>4. \A k \in (Len(taken') + 1)..(n - 1) : next'[accepted[k]] = accepted[k + 1]
      BY <1>2, <1>3, <1>5
    <3>5. Len(taken') # n /\ Len(taken') <= n BY <1>2, <1>5, <2>5
    <3> QED BY <1>5, <2>3, <3>3, <3>4, <3>5 DEF ListIsFifo, n
  <2> QED BY <1>2, <2>1, <2>4, <2>5
<1>8. PhaseInv'
  <2> HIDE DEF c, n, m
  <2>1. \A d \in Clients : phase'[d] = IF d = c THEN "serving" ELSE phase[d]
    BY <1>1 DEF dequeue_client, TypeOK, c
  <2>2. /\ client_fd' = client_fd /\ backlog' = backlog
        /\ \A v \in Workers : state'[v] = IF v = w THEN "serving" ELSE state[v]
        /\ \A v \in Workers : job'[v] = IF v = w THEN c ELSE job[v]
    BY DEF dequeue_client, TypeOK, c
  <2>3. FdInv' BY <1>1, <1>4, <2>1, <2>2 DEF TypeOK, PhaseInv, FdInv
  <2>4. \A k \in 1..Len(backlog) : backlog[k] \in Clients BY DEF TypeOK
  <2>5. BacklogInv' BY <1>4, <2>1, <2>2, <2>4 DEF PhaseInv, BacklogInv
  <2>6. \A k \in 1..n : Len(taken') < k => m < k /\ k # m + 1 BY <1>2, <1>5
  <2>7. \A k \in 1..n : Len(taken') < k => accepted[k] # c
    BY <1>3, <1>4, <2>6 DEF PhaseInv, AcceptedInv, n
  <2>8. AcceptedInv' BY <1>2, <1>5, <2>1, <2>6, <2>7 DEF PhaseInv, AcceptedInv, n, m
  <2>9. JobInv' BY <1>1, <1>4, <2>1, <2>2 DEF PhaseInv, JobInv
  <2> QED BY <2>3, <2>5, <2>8, <2>9 DEF PhaseInv
<1> QED BY <1>6, <1>7, <1>8

\* A worker falls asleep or wakes up: only its state changes.
LEMMA SleepStep ==
  ASSUME ListInv, NEW w \in Workers, Wait(w) \/ WakeUp(w) PROVE ListInv'
<1> USE DEF ListInv
<1>1. UNCHANGED <<phase, backlog, client_fd, list, job, accepted, taken>>
  BY DEF Wait, WakeUp
<1>2. /\ state' \in [Workers -> {"ready", "waiting", "serving"}]
      /\ \A v \in Workers : state'[v] = "serving" => state[v] = "serving"
  BY DEF Wait, WakeUp, TypeOK
<1>3. TypeOK' BY <1>1, <1>2 DEF TypeOK, list
<1>4. ListIsFifo' BY <1>1 DEF ListIsFifo, list
<1>5. PhaseInv'
  BY <1>1, <1>2 DEF PhaseInv, FdInv, BacklogInv, AcceptedInv, JobInv
<1> QED BY <1>3, <1>4, <1>5

LEMMA ServedStep ==
  ASSUME ListInv, NEW w \in Workers, Served(w) PROVE ListInv'
<1> USE DEF ListInv
<1>1. job[w] \in Clients /\ phase[job[w]] = "serving" /\ state[w] = "serving"
  BY DEF Served, PhaseInv, JobInv
<1>2. TypeOK' BY <1>1 DEF Served, TypeOK, list
<1>3. ListIsFifo' BY DEF Served, ListIsFifo, list
<1>4. PhaseInv'
  <2>1. \A d \in Clients : phase'[d] = IF d = job[w] THEN "closed" ELSE phase[d]
    BY <1>1 DEF Served, TypeOK
  <2>2. /\ UNCHANGED <<backlog, client_fd, accepted, taken>>
        /\ \A v \in Workers : state'[v] = IF v = w THEN "ready" ELSE state[v]
        /\ \A v \in Workers : v # w => job'[v] = job[v]
    BY DEF Served, TypeOK
  <2>3. FdInv' BY <1>1, <2>1, <2>2 DEF TypeOK, PhaseInv, FdInv
  <2>4. \A k \in 1..Len(backlog) : backlog[k] \in Clients BY DEF TypeOK
  <2>5. BacklogInv' BY <1>1, <2>1, <2>2, <2>4 DEF PhaseInv, BacklogInv
  <2>6. \A k \in 1..Len(accepted) : accepted[k] \in Clients BY DEF TypeOK
  <2>7. AcceptedInv' BY <1>1, <2>1, <2>2, <2>6 DEF PhaseInv, AcceptedInv
  <2>8. JobInv' BY <1>1, <2>1, <2>2 DEF PhaseInv, JobInv
  <2> QED BY <2>3, <2>5, <2>7, <2>8 DEF PhaseInv
<1> QED BY <1>2, <1>3, <1>4

LEMMA ListInvNext == ListInv /\ [Next]_vars => ListInv'
<1> SUFFICES ASSUME ListInv, [Next]_vars PROVE ListInv'
  OBVIOUS
<1>1. CASE \E c \in Clients : Connect(c) BY <1>1, ConnectStep
<1>2. CASE Accept BY <1>2, AcceptStep
<1>3. CASE enqueue_client BY <1>3, EnqueueStep
<1>4. CASE enqueue_fails BY <1>4, EnqueueFailsStep
<1>5. CASE \E w \in Workers : dequeue_client(w) BY <1>5, DequeueStep
<1>6. CASE \E w \in Workers : Wait(w) \/ WakeUp(w) BY <1>6, SleepStep
<1>7. CASE \E w \in Workers : Served(w) BY <1>7, ServedStep
<1>8. CASE UNCHANGED vars
  BY <1>8 DEF vars, list, pool, ListInv, TypeOK, ListIsFifo, PhaseInv, FdInv,
    BacklogInv, AcceptedInv, JobInv
<1> QED
  BY <1>1, <1>2, <1>3, <1>4, <1>5, <1>6, <1>7, <1>8 DEF Next, Main, worker_thread

LEMMA ListInvariant == Spec => []ListInv
BY ListInvInit, ListInvNext, PTL DEF Spec

\* The types of main's queue and of the pool, for any number of threads,
\* connections and descriptors.
THEOREM TypeCorrect == Spec => []TypeOK
<1>1. ListInv => TypeOK BY DEF ListInv
<1> QED BY <1>1, ListInvariant, PTL

\* enqueue_client and dequeue_client keep the linked list a FIFO: from
\* queue_front through next to queue_rear it holds what was enqueued and not
\* dequeued, oldest first, and both ends are NULL when that is nothing.
THEOREM FifoList == Spec => []ListIsFifo
<1>1. ListInv => ListIsFifo BY DEF ListInv
<1> QED BY <1>1, ListInvariant, PTL

-----------------------------------------------------------------------------
(* The wakeups.                                                            *)

LEMMA InFinite ==
  ASSUME NEW p
  PROVE  IsFiniteSet(In(p)) /\ Cardinality(In(p)) \in Nat
<1>1. In(p) \in SUBSET Workers BY DEF In
<1>2. IsFiniteSet(In(p)) BY <1>1, FS_Subset, QueueAssumption
<1> QED BY <1>2, FS_CardinalityType

\* A worker that was not ready and becomes ready adds one to the ready ones.
LEMMA OneMoreReady ==
  ASSUME TypeOK, NEW w \in Workers, state[w] # "ready",
         state' = [state EXCEPT ![w] = "ready"]
  PROVE  /\ Cardinality(In("ready")') = Cardinality(In("ready")) + 1
         /\ \A v \in In("waiting")' : v \in In("waiting")
<1>1. \A v \in Workers : state'[v] = IF v = w THEN "ready" ELSE state[v] BY DEF TypeOK
<1>2. In("ready")' = In("ready") \cup {w} /\ w \notin In("ready") BY <1>1 DEF In
<1>3. Cardinality(In("ready") \cup {w}) = Cardinality(In("ready")) + 1
  BY <1>2, InFinite, FS_AddElement
<1>4. \A v \in In("waiting")' : v \in In("waiting") BY <1>1 DEF In
<1> QED BY <1>2, <1>3, <1>4

LEMMA EnqueueWakes ==
  ASSUME ListInv, EnoughAwake, enqueue_client PROVE EnoughAwake'
<1>1. Len(accepted') = Len(accepted) + 1 /\ taken' = taken /\ Signal
      /\ Len(accepted) \in Nat /\ Len(taken) \in Nat
  BY DEF enqueue_client, ListInv, TypeOK
<1>2. CASE In("waiting") = {}
  <2>1. state' = state BY <1>1, <1>2 DEF Signal
  <2>2. In("waiting")' = {} BY <1>2, <2>1 DEF In
  <2> QED BY <2>2 DEF EnoughAwake
<1>3. CASE In("waiting") # {}
  <2>1. PICK w \in In("waiting") : state' = [state EXCEPT ![w] = "ready"]
    BY <1>1, <1>3 DEF Signal
  <2>2. w \in Workers /\ state[w] # "ready" BY <2>1 DEF In
  <2>3. Cardinality(In("ready")') = Cardinality(In("ready")) + 1
    BY <2>1, <2>2, OneMoreReady DEF ListInv
  <2>4. Cardinality(In("ready")) \in Nat BY InFinite
  <2> QED BY <1>1, <1>3, <2>3, <2>4 DEF EnoughAwake
<1> QED BY <1>2, <1>3

LEMMA DequeueWakes ==
  ASSUME ListInv, EnoughAwake, NEW w \in Workers, dequeue_client(w) PROVE EnoughAwake'
<1>1. Len(taken') = Len(taken) + 1 /\ accepted' = accepted
      /\ Len(accepted) \in Nat /\ Len(taken) \in Nat
  BY DEF dequeue_client, ListInv, TypeOK
<1>2. state[w] = "ready"
      /\ \A v \in Workers : state'[v] = IF v = w THEN "serving" ELSE state[v]
  BY DEF dequeue_client, ListInv, TypeOK
<1>3. In("ready")' = In("ready") \ {w} /\ w \in In("ready") BY <1>2 DEF In
<1>4. In("waiting")' = In("waiting") BY <1>2 DEF In
<1>5. Cardinality(In("ready") \ {w}) = Cardinality(In("ready")) - 1
      /\ Cardinality(In("ready")) \in Nat
  BY <1>3, InFinite, FS_RemoveElement
<1>6. Cardinality(In("ready")') = Cardinality(In("ready")) - 1 BY <1>3, <1>5
<1>7. Len(accepted') - Len(taken') = Len(accepted) - Len(taken) - 1 BY <1>1
<1>8. In("waiting")' # {} => In("waiting") # {} BY <1>4
<1> QED BY <1>1, <1>5, <1>6, <1>7, <1>8 DEF EnoughAwake

LEMMA WaitWakes ==
  ASSUME ListInv, NEW w \in Workers, Wait(w) PROVE EnoughAwake'
<1>1. queue_front = NULL /\ accepted' = accepted /\ taken' = taken BY DEF Wait
<1>2. Len(accepted) \in Nat /\ Len(taken) \in Nat
      /\ \A k \in 1..Len(accepted) : accepted[k] # NULL
  BY QueueAssumption DEF ListInv, TypeOK
<1>3. Len(taken) = Len(accepted) BY <1>1, <1>2 DEF ListInv, ListIsFifo
<1>4. Cardinality(In("ready")') \in Nat
  <2>1. In("ready")' \in SUBSET Workers BY DEF In
  <2> QED BY <2>1, FS_Subset, FS_CardinalityType, QueueAssumption
<1> QED BY <1>1, <1>2, <1>3, <1>4 DEF EnoughAwake

LEMMA ReadyWakes ==
  ASSUME ListInv, EnoughAwake, NEW w \in Workers, WakeUp(w) \/ Served(w)
  PROVE  EnoughAwake'
<1>1. state[w] # "ready" /\ state' = [state EXCEPT ![w] = "ready"]
      /\ accepted' = accepted /\ taken' = taken
  BY DEF WakeUp, Served
<1>2. /\ Cardinality(In("ready")') = Cardinality(In("ready")) + 1
      /\ \A v \in In("waiting")' : v \in In("waiting")
  BY <1>1, OneMoreReady DEF ListInv
<1>3. Cardinality(In("ready")) \in Nat /\ Len(accepted) \in Nat /\ Len(taken) \in Nat
  BY InFinite DEF ListInv, TypeOK
<1> QED BY <1>1, <1>2, <1>3 DEF EnoughAwake

LEMMA AwakeNext == ListInv /\ EnoughAwake /\ [Next]_vars => EnoughAwake'
<1> SUFFICES ASSUME ListInv, EnoughAwake, [Next]_vars PROVE EnoughAwake'
  OBVIOUS
<1>1. CASE (\E c \in Clients : Connect(c)) \/ Accept \/ enqueue_fails \/ UNCHANGED vars
  BY <1>1 DEF Connect, Accept, enqueue_fails, pool, vars, EnoughAwake, In
<1>2. CASE enqueue_client BY <1>2, EnqueueWakes
<1>3. CASE \E w \in Workers : dequeue_client(w) BY <1>3, DequeueWakes
<1>4. CASE \E w \in Workers : Wait(w) BY <1>4, WaitWakes
<1>5. CASE \E w \in Workers : WakeUp(w) \/ Served(w) BY <1>5, ReadyWakes
<1> QED BY <1>1, <1>2, <1>3, <1>4, <1>5 DEF Next, Main, worker_thread

\* The while loop around pthread_cond_wait and the signal of every enqueue
\* lose no wakeup: while a worker sleeps, as many workers are on their way to
\* the list as it holds connections, whatever the pool's size.
THEOREM NoLostWakeup == Spec => []EnoughAwake
<1>1. Init => EnoughAwake BY DEF Init, EnoughAwake, In
<1> QED BY <1>1, ListInvariant, AwakeNext, PTL DEF Spec

-----------------------------------------------------------------------------
(* The descriptors.                                                        *)

FdsInv == Cardinality(Open) <= MaxFds

LEMMA OpenFinite == IsFiniteSet(Open) /\ Cardinality(Open) \in Nat
<1>1. Open \in SUBSET Clients BY DEF Open
<1>2. IsFiniteSet(Open) BY <1>1, FS_Subset, QueueAssumption
<1> QED BY <1>2, FS_CardinalityType

\* A step that opens no connection keeps the bound.
LEMMA NoneOpened ==
  ASSUME FdsInv, Open' \subseteq Open PROVE FdsInv'
<1>1. Cardinality(Open') <= Cardinality(Open) /\ IsFiniteSet(Open')
  BY OpenFinite, FS_Subset
<1>2. Cardinality(Open') \in Nat BY <1>1, FS_CardinalityType
<1> QED BY <1>1, <1>2, OpenFinite, QueueAssumption DEF FdsInv

LEMMA FdsNext == ListInv /\ FdsInv /\ [Next]_vars => FdsInv'
<1> SUFFICES ASSUME ListInv, FdsInv, [Next]_vars PROVE FdsInv'
  OBVIOUS
<1> USE DEF ListInv
<1>1. CASE Accept
  <2> DEFINE c == Head(backlog)
  <2>1. c \in Clients BY <1>1 DEF Accept, TypeOK
  <2>2. Cardinality(Open) < MaxFds /\ phase' = [phase EXCEPT ![c] = "accepted"]
    BY <1>1 DEF Accept
  <2>3. Open' = Open \cup {c} BY <2>1, <2>2 DEF Open, TypeOK
  <2>4. Cardinality(Open') <= Cardinality(Open) + 1 /\ Cardinality(Open') \in Nat
    BY <2>3, OpenFinite, FS_AddElement
  <2> QED BY <2>2, <2>4, OpenFinite, QueueAssumption DEF FdsInv
<1>2. CASE \E c \in Clients : Connect(c)
  BY <1>2, NoneOpened DEF Connect, Open, TypeOK
<1>3. CASE enqueue_client
  <2>1. client_fd \in Clients /\ phase[client_fd] = "accepted"
    BY <1>3 DEF enqueue_client, TypeOK, PhaseInv, FdInv
  <2> QED BY <1>3, <2>1, NoneOpened DEF enqueue_client, Open, TypeOK
<1>4. CASE enqueue_fails BY <1>4, NoneOpened DEF enqueue_fails, Open, TypeOK
<1>5. CASE \E w \in Workers : dequeue_client(w)
  <2>1. queue_front \in Clients /\ phase[queue_front] = "queued"
    <3>1. queue_front \in Clients BY <1>5 DEF dequeue_client, TypeOK
    <3>2. Len(taken) + 1 \in 1..Len(accepted) /\ queue_front = accepted[Len(taken) + 1]
      BY <1>5 DEF dequeue_client, TypeOK, ListIsFifo
    <3> QED BY <3>1, <3>2 DEF PhaseInv, AcceptedInv, TypeOK
  <2> QED BY <1>5, <2>1, NoneOpened DEF dequeue_client, Open, TypeOK
<1>6. CASE \E w \in Workers : Wait(w) \/ WakeUp(w)
  BY <1>6, NoneOpened DEF Wait, WakeUp, Open
<1>7. CASE \E w \in Workers : Served(w) BY <1>7, NoneOpened DEF Served, Open, TypeOK
<1>8. CASE UNCHANGED vars BY <1>8, NoneOpened DEF vars, Open
<1> QED
  BY <1>1, <1>2, <1>3, <1>4, <1>5, <1>6, <1>7, <1>8 DEF Next, Main, worker_thread

\* dequeue_client gives a connection to one worker only, which has it until
\* handle_client returns, and the process never holds more connections than
\* it has descriptors.
THEOREM ConnectionsOwned == Spec => []OwnConnections
<1>1. Init => FdsInv
  <2>1. Init => Open = {} BY DEF Init, Open
  <2> QED BY <2>1, FS_EmptySet, QueueAssumption DEF FdsInv
<1>2. ListInv /\ FdsInv => OwnConnections
  BY QueueAssumption DEF ListInv, PhaseInv, JobInv, OwnConnections, FdsInv, In
<1> QED BY <1>1, <1>2, ListInvariant, FdsNext, PTL DEF Spec

-----------------------------------------------------------------------------
(* No connection is lost, and no descriptor with it; and what              *)
(* EveryConnectionEnds rests on besides fairness: nothing is ever stuck.   *)

\* Where each connection is, by its phase: the converse of PhaseInv.
PlaceOf(c) ==
  /\ phase[c] = "backlog" => \E k \in 1..Len(backlog) : backlog[k] = c
  /\ phase[c] = "accepted" => client_fd = c
  /\ phase[c] = "queued" => \E k \in 1..Len(accepted) : Len(taken) < k /\ accepted[k] = c
  /\ phase[c] = "serving" => \E w \in Workers : state[w] = "serving" /\ job[w] = c

PlaceInv == \A c \in Clients : PlaceOf(c)

LEMMA PlaceConnect ==
  ASSUME ListInv, PlaceInv, NEW c \in Clients, Connect(c) PROVE PlaceInv'
<1> USE DEF ListInv
<1>1. \A d \in Clients : phase'[d] = IF d = c THEN "backlog" ELSE phase[d]
  BY DEF Connect, TypeOK
<1>2. /\ Len(backlog') = Len(backlog) + 1 /\ backlog'[Len(backlog) + 1] = c /\ Len(backlog) \in Nat
      /\ \A k \in 1..Len(backlog) : backlog'[k] = backlog[k]
  BY DEF Connect, TypeOK
<1>3. UNCHANGED <<client_fd, accepted, taken, state, job>> BY DEF Connect, pool
<1>4. \E k \in 1..Len(backlog') : backlog'[k] = c BY <1>2
<1>5. \A k \in 1..Len(backlog) : k \in 1..Len(backlog') BY <1>2
<1> QED BY <1>1, <1>2, <1>3, <1>4, <1>5 DEF PlaceInv, PlaceOf

LEMMA PlaceAccept ==
  ASSUME ListInv, PlaceInv, Accept PROVE PlaceInv'
<1> USE DEF ListInv
<1> DEFINE c == Head(backlog)
<1>1. c \in Clients /\ c = backlog[1] /\ client_fd = NULL /\ Len(backlog) \in Nat
  BY DEF Accept, TypeOK
<1>2. /\ Len(backlog') = Len(backlog) - 1
      /\ \A k \in 1..Len(backlog') : backlog'[k] = backlog[k + 1]
  BY DEF Accept, TypeOK
<1>3. client_fd' = c /\ UNCHANGED <<accepted, taken, state, job>> BY DEF Accept, pool
<1>4. \A d \in Clients : phase'[d] = IF d = c THEN "accepted" ELSE phase[d]
  BY <1>1 DEF Accept, TypeOK
<1> HIDE DEF c
<1>5. ASSUME NEW d \in Clients, phase'[d] = "backlog"
      PROVE  \E k \in 1..Len(backlog') : backlog'[k] = d
  <2>1. d # c /\ phase[d] = "backlog" BY <1>4, <1>5
  <2>2. PICK k \in 1..Len(backlog) : backlog[k] = d BY <2>1 DEF PlaceInv, PlaceOf
  <2>3. k # 1 BY <1>1, <2>1, <2>2
  <2>4. k - 1 \in 1..Len(backlog') /\ (k - 1) + 1 = k BY <1>1, <1>2, <2>2, <2>3
  <2> QED BY <1>2, <2>2, <2>4
<1>6. ASSUME NEW d \in Clients, phase'[d] = "accepted" PROVE d = c
  <2>1. ~(phase[d] = "accepted") BY <1>1, QueueAssumption DEF PlaceInv, PlaceOf
  <2> QED BY <1>4, <1>6, <2>1
<1> QED BY <1>3, <1>4, <1>5, <1>6 DEF PlaceInv, PlaceOf

LEMMA PlaceEnqueue ==
  ASSUME ListInv, PlaceInv, enqueue_client PROVE PlaceInv'
<1> USE DEF ListInv
<1> DEFINE c == client_fd
<1>1. c \in Clients /\ Signal BY DEF enqueue_client, TypeOK
<1>2. /\ Len(accepted') = Len(accepted) + 1 /\ accepted'[Len(accepted) + 1] = c
      /\ \A k \in 1..Len(accepted) : accepted'[k] = accepted[k]
      /\ Len(accepted) \in Nat /\ Len(taken) \in Nat /\ Len(taken) <= Len(accepted)
  BY <1>1 DEF enqueue_client, TypeOK, ListIsFifo
<1>3. UNCHANGED <<backlog, job, taken>> BY DEF enqueue_client
<1>4. \A d \in Clients : phase'[d] = IF d = c THEN "queued" ELSE phase[d]
  BY <1>1 DEF enqueue_client, TypeOK
<1>5. \A w \in Workers : state'[w] = "serving" <=> state[w] = "serving" BY <1>1, SignalStep
<1>6. ASSUME NEW d \in Clients, phase'[d] = "queued"
      PROVE  \E k \in 1..Len(accepted') : Len(taken') < k /\ accepted'[k] = d
  <2>1. \A k \in 1..Len(accepted) : k \in 1..Len(accepted') BY <1>2
  <2>2. CASE d = c BY <1>2, <1>3, <2>2
  <2>3. CASE d # c BY <1>2, <1>3, <1>4, <1>6, <2>1, <2>3 DEF PlaceInv, PlaceOf
  <2> QED BY <2>2, <2>3
<1>7. ASSUME NEW d \in Clients PROVE phase'[d] # "accepted"
  BY <1>4 DEF PlaceInv, PlaceOf
<1>8. ASSUME NEW d \in Clients PROVE PlaceOf(d)'
  BY <1>3, <1>4, <1>5, <1>6, <1>7 DEF PlaceInv, PlaceOf
<1> QED BY <1>8 DEF PlaceInv

LEMMA PlaceDequeue ==
  ASSUME ListInv, PlaceInv, NEW w \in Workers, dequeue_client(w) PROVE PlaceInv'
<1> USE DEF ListInv
<1> DEFINE c == queue_front
<1>1. c \in Clients /\ c # NULL /\ state[w] = "ready" BY DEF dequeue_client, TypeOK
<1>2. /\ Len(taken') = Len(taken) + 1 /\ Len(taken) \in Nat /\ Len(accepted) \in Nat
      /\ c = accepted[Len(taken) + 1]
  BY <1>1 DEF dequeue_client, TypeOK, ListIsFifo
<1>3. UNCHANGED <<backlog, client_fd, accepted>> BY DEF dequeue_client
<1>4. \A d \in Clients : phase'[d] = IF d = c THEN "serving" ELSE phase[d]
  BY <1>1 DEF dequeue_client, TypeOK
<1>5. /\ \A v \in Workers : state'[v] = IF v = w THEN "serving" ELSE state[v]
      /\ \A v \in Workers : job'[v] = IF v = w THEN c ELSE job[v]
  BY DEF dequeue_client, TypeOK
<1> HIDE DEF c
<1>6. ASSUME NEW d \in Clients, phase'[d] = "queued"
      PROVE  \E k \in 1..Len(accepted') : Len(taken') < k /\ accepted'[k] = d
  <2>1. d # c /\ phase[d] = "queued" BY <1>4, <1>6
  <2>2. PICK k \in 1..Len(accepted) : Len(taken) < k /\ accepted[k] = d
    BY <2>1 DEF PlaceInv, PlaceOf
  <2>3. k # Len(taken) + 1 BY <1>2, <2>1, <2>2
  <2> QED BY <1>2, <1>3, <2>2, <2>3
<1>7. ASSUME NEW d \in Clients, phase'[d] = "serving"
      PROVE  \E v \in Workers : state'[v] = "serving" /\ job'[v] = d
  <2>1. CASE d = c BY <1>5, <2>1
  <2>2. CASE d # c
    <3>1. PICK v \in Workers : state[v] = "serving" /\ job[v] = d
      BY <1>4, <1>7, <2>2 DEF PlaceInv, PlaceOf
    <3>2. v # w BY <1>1, <3>1
    <3> QED BY <1>5, <3>1, <3>2
  <2> QED BY <2>1, <2>2
<1> QED BY <1>3, <1>4, <1>6, <1>7 DEF PlaceInv, PlaceOf

LEMMA PlaceServed ==
  ASSUME ListInv, PlaceInv, NEW w \in Workers, Served(w) PROVE PlaceInv'
<1> USE DEF ListInv
<1>1. job[w] \in Clients BY DEF Served, PhaseInv, JobInv
<1>2. \A d \in Clients : phase'[d] = IF d = job[w] THEN "closed" ELSE phase[d]
  BY <1>1 DEF Served, TypeOK
<1>3. /\ \A v \in Workers \ {w} : state'[v] = state[v] /\ job'[v] = job[v]
      /\ UNCHANGED <<backlog, client_fd, accepted, taken>>
  BY DEF Served, TypeOK
<1>4. ASSUME NEW d \in Clients, phase'[d] = "serving"
      PROVE  \E v \in Workers : state'[v] = "serving" /\ job'[v] = d
  <2>1. PICK v \in Workers : state[v] = "serving" /\ job[v] = d
    BY <1>2, <1>4 DEF PlaceInv, PlaceOf
  <2>2. v # w BY <1>2, <1>4, <2>1
  <2> QED BY <1>3, <2>1, <2>2
<1> QED BY <1>2, <1>3, <1>4 DEF PlaceInv, PlaceOf

LEMMA PlaceNext == ListInv /\ PlaceInv /\ [Next]_vars => PlaceInv'
<1> SUFFICES ASSUME ListInv, PlaceInv, [Next]_vars PROVE PlaceInv'
  OBVIOUS
<1>1. CASE \E c \in Clients : Connect(c) BY <1>1, PlaceConnect
<1>2. CASE Accept BY <1>2, PlaceAccept
<1>3. CASE enqueue_client BY <1>3, PlaceEnqueue
<1>4. CASE enqueue_fails
  <2>1. client_fd \in Clients BY <1>4 DEF enqueue_fails, ListInv, TypeOK
  <2>2. \A d \in Clients : phase'[d] = IF d = client_fd THEN "closed" ELSE phase[d]
    BY <1>4, <2>1 DEF enqueue_fails, ListInv, TypeOK
  <2> QED BY <1>4, <2>2 DEF enqueue_fails, PlaceInv, PlaceOf, pool
<1>5. CASE \E w \in Workers : dequeue_client(w) BY <1>5, PlaceDequeue
<1>6. CASE \E w \in Workers : Wait(w) \/ WakeUp(w)
  <2>1. PICK w \in Workers : Wait(w) \/ WakeUp(w) BY <1>6
  <2>2. \A v \in Workers : state[v] = "serving" => state'[v] = "serving"
    BY <2>1 DEF Wait, WakeUp, ListInv, TypeOK
  <2> QED BY <2>1, <2>2 DEF Wait, WakeUp, PlaceInv, PlaceOf
<1>7. CASE \E w \in Workers : Served(w) BY <1>7, PlaceServed
<1>8. CASE UNCHANGED vars BY <1>8 DEF vars, list, pool, PlaceInv, PlaceOf
<1> QED
  BY <1>1, <1>2, <1>3, <1>4, <1>5, <1>6, <1>7, <1>8 DEF Next, Main, worker_thread

\* Every connection that holds a descriptor is where somebody will close it:
\* main holds it, or the list does behind queue_front, or a worker serves it.
THEOREM NoConnectionLost == Spec => []PlaceInv
<1>1. Init => PlaceInv BY DEF Init, PlaceInv, PlaceOf
<1> QED BY <1>1, ListInvariant, PlaceNext, PTL DEF Spec

\* The pool does not idle: while the list holds a connection, a worker that
\* serves none is not asleep, or another one is on its way to the list.
WorkConserving ==
  queue_front # NULL /\ In("serving") # Workers => In("ready") # {}

\* The guards of main's steps and of those steps of a worker that bring a
\* connection nearer to its end.
MainCanGo == client_fd # NULL \/ (backlog # <<>> /\ Cardinality(Open) < MaxFds)

WorkerCanGo(w) == state[w] = "serving" \/ (state[w] = "ready" /\ queue_front # NULL)

NeverStuck ==
  (\E c \in Clients : phase[c] \notin {"new", "closed"})
    => MainCanGo \/ \E w \in Workers : WorkerCanGo(w)

LEMMA ConservesWork == ListInv /\ EnoughAwake => WorkConserving
<1> SUFFICES ASSUME ListInv, EnoughAwake, queue_front # NULL, In("serving") # Workers,
                    In("ready") = {}
             PROVE  FALSE
  BY DEF WorkConserving
<1>1. Len(taken) < Len(accepted) /\ Len(accepted) \in Nat /\ Len(taken) \in Nat
  BY DEF ListInv, TypeOK, ListIsFifo
<1>2. In("waiting") # {} BY DEF In, ListInv, TypeOK
<1>3. Cardinality(In("ready")) = 0 BY FS_EmptySet
<1> QED BY <1>1, <1>2, <1>3 DEF EnoughAwake

\* No lost wakeup wastes a worker (worker_thread, 384-390).
THEOREM NobodyIdles == Spec => []WorkConserving
<1> QED BY ListInvariant, NoLostWakeup, ConservesWork, PTL

\* With all descriptors in use, a full backlog and workers asleep in any mix:
\* as long as there is a connection, somebody can do something for one.  The
\* loop around accept cannot fail for ever, since what occupies the descriptors
\* is then in the list or served.
THEOREM QueueNeverStuck == Spec => []NeverStuck
<1>1. ListInv /\ PlaceInv /\ EnoughAwake => NeverStuck
  <2> SUFFICES ASSUME ListInv, PlaceInv, EnoughAwake, ~MainCanGo,
                      NEW c \in Clients, phase[c] \notin {"new", "closed"}
               PROVE  \E w \in Workers : WorkerCanGo(w)
    BY DEF NeverStuck
  <2>1. client_fd = NULL /\ \A d \in Clients : phase[d] # "accepted"
    BY QueueAssumption DEF MainCanGo, PlaceInv, PlaceOf
  <2>2. CASE \E d \in Clients : phase[d] = "serving"
    BY <2>2 DEF PlaceInv, PlaceOf, WorkerCanGo
  <2>3. CASE \E d \in Clients : phase[d] = "queued"
    <3>1. \E k \in 1..Len(accepted) : Len(taken) < k BY <2>3 DEF PlaceInv, PlaceOf
    <3>2. Len(taken) # Len(accepted) /\ Len(taken) + 1 \in 1..Len(accepted)
      BY <3>1 DEF ListInv, TypeOK
    <3>3. queue_front # NULL BY <3>2, QueueAssumption DEF ListInv, TypeOK, ListIsFifo
    <3>4. WorkConserving BY ConservesWork
    <3>5. \E w \in Workers : state[w] \in {"serving", "ready"}
      BY <3>3, <3>4, QueueAssumption DEF WorkConserving, In
    <3> QED BY <3>3, <3>5 DEF WorkerCanGo
  <2>4. CASE \A d \in Clients : phase[d] \notin {"queued", "serving"}
    <3>1. phase[c] = "backlog" BY <2>1, <2>4 DEF ListInv, TypeOK
    <3>2. backlog # <<>> BY <3>1 DEF PlaceInv, PlaceOf, ListInv, TypeOK
    <3>3. Open = {} BY <2>1, <2>4 DEF Open
    <3>4. Cardinality(Open) < MaxFds BY <3>3, FS_EmptySet, QueueAssumption
    <3> QED BY <3>2, <3>4 DEF MainCanGo
  <2> QED BY <2>2, <2>3, <2>4
<1> QED BY <1>1, ListInvariant, NoLostWakeup, NoConnectionLost, PTL
=============================================================================
