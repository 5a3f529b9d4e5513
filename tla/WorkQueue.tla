------------------------------ MODULE WorkQueue ------------------------------
(***************************************************************************)
(* How connections reach the worker threads of Main_Server.c: the accept   *)
(* loop of main, the linked list of ClientNodes between queue_front and    *)
(* queue_rear, and the condition variable queue_cond.                      *)
(*                                                                         *)
(* Every access to the list happens with queue_lock held and no code holds *)
(* it across a wait other than pthread_cond_wait, so that one critical     *)
(* section is one step.  A connection stands for its descriptor and for    *)
(* the node that carries it.                                               *)
(***************************************************************************)
EXTENDS Naturals, Sequences, FiniteSets

CONSTANTS
  Workers,     \* the MAX_THREADS threads
  Clients,     \* connections
  MAX_CLIENTS, \* the backlog given to listen
  MaxFds,      \* connections the process has descriptors for
  NULL

ASSUME QueueAssumption ==
  /\ IsFiniteSet(Workers) /\ Workers # {} /\ IsFiniteSet(Clients)
  /\ MAX_CLIENTS \in Nat \ {0} /\ MaxFds \in Nat \ {0}
  /\ NULL \notin Clients

VARIABLES
  phase,       \* phase[c]: how far connection c has come
  backlog,     \* connections the kernel holds for accept, in order
  client_fd,   \* what main has accepted and not yet enqueued, or NULL
  queue_front, queue_rear,
  next,        \* next[c]: the next field of the node of c
  state,       \* state[w]: "ready" to lock queue_lock and look at the list,
               \* "waiting" on queue_cond, or "serving"
  job,         \* job[w]: the connection worker w serves
  \* History variables.
  accepted,    \* what was enqueued, in order
  taken        \* what was dequeued, in order

list == <<queue_front, queue_rear, next>>
pool == <<state, job>>
vars == <<phase, backlog, client_fd, list, pool, accepted, taken>>

Init ==
  /\ phase = [c \in Clients |-> "new"]
  /\ backlog = <<>> /\ client_fd = NULL
  /\ queue_front = NULL /\ queue_rear = NULL
  /\ next = [c \in Clients |-> NULL]
  /\ state = [w \in Workers |-> "ready"]
  /\ job = [w \in Workers |-> NULL]
  /\ accepted = <<>> /\ taken = <<>>

In(p) == {w \in Workers : state[w] = p}

\* The connections that occupy a descriptor of the process.
Open == {c \in Clients : phase[c] \in {"accepted", "queued", "serving"}}

-----------------------------------------------------------------------------
\* A client's connect completes while the listen queue has room.
Connect(c) ==
  /\ phase[c] = "new" /\ Len(backlog) < MAX_CLIENTS
  /\ phase' = [phase EXCEPT ![c] = "backlog"]
  /\ backlog' = Append(backlog, c)
  /\ UNCHANGED <<client_fd, list, pool, accepted, taken>>

\* Mutant of Accept: the result of accept is not tested.
AcceptUnchecked ==
  /\ client_fd = NULL /\ backlog # <<>>
  /\ IF Cardinality(Open) < MaxFds
       THEN /\ client_fd' = Head(backlog) /\ backlog' = Tail(backlog)
            /\ phase' = [phase EXCEPT ![Head(backlog)] = "accepted"]
       ELSE client_fd' = 0 - 1 /\ UNCHANGED <<backlog, phase>>
  /\ UNCHANGED <<list, pool, accepted, taken>>

\* accept; with no descriptor left it returns -1 and the loop tries again.
Accept ==
  /\ client_fd = NULL /\ backlog # <<>>
  /\ Cardinality(Open) < MaxFds
  /\ client_fd' = Head(backlog) /\ backlog' = Tail(backlog)
  /\ phase' = [phase EXCEPT ![Head(backlog)] = "accepted"]
  /\ UNCHANGED <<list, pool, accepted, taken>>

\* Mutants of Signal: no signal, and none when the list was not empty.
SignalNobody == UNCHANGED state

SignalIfEmpty ==
  IF In("waiting") = {} \/ queue_front # NULL THEN UNCHANGED state
  ELSE \E w \in In("waiting") : state' = [state EXCEPT ![w] = "ready"]

\* pthread_cond_signal: one of the waiting workers, if there is one.
Signal ==
  IF In("waiting") = {} THEN UNCHANGED state
  ELSE \E w \in In("waiting") : state' = [state EXCEPT ![w] = "ready"]

enqueue_client ==
  /\ client_fd # NULL
  /\ next' = IF queue_rear = NULL THEN [next EXCEPT ![client_fd] = NULL]
             ELSE [next EXCEPT ![client_fd] = NULL, ![queue_rear] = client_fd]
  /\ queue_front' = IF queue_rear = NULL THEN client_fd ELSE queue_front
  /\ queue_rear' = client_fd
  /\ Signal
  /\ phase' = [phase EXCEPT ![client_fd] = "queued"]
  /\ accepted' = Append(accepted, client_fd)
  /\ client_fd' = NULL
  /\ UNCHANGED <<backlog, job, taken>>

\* malloc fails: the connection is closed unanswered.
enqueue_fails ==
  /\ client_fd # NULL
  /\ phase' = [phase EXCEPT ![client_fd] = "closed"]
  /\ client_fd' = NULL
  /\ UNCHANGED <<backlog, list, pool, accepted, taken>>

\* Mutant of dequeue_client: queue_rear is not reset with the last node.
DequeueKeepsRear(w) ==
  /\ state[w] = "ready" /\ queue_front # NULL
  /\ job' = [job EXCEPT ![w] = queue_front]
  /\ phase' = [phase EXCEPT ![queue_front] = "serving"]
  /\ queue_front' = next[queue_front]
  /\ state' = [state EXCEPT ![w] = "serving"]
  /\ taken' = Append(taken, queue_front)
  /\ UNCHANGED <<backlog, client_fd, queue_rear, next, accepted>>

\* Mutant of dequeue_client: queue_front is not advanced.
DequeueKeepsFront(w) ==
  /\ state[w] = "ready" /\ queue_front # NULL
  /\ job' = [job EXCEPT ![w] = queue_front]
  /\ phase' = [phase EXCEPT ![queue_front] = "serving"]
  /\ state' = [state EXCEPT ![w] = "serving"]
  /\ taken' = Append(taken, queue_front)
  /\ UNCHANGED <<backlog, client_fd, list, accepted>>

\* dequeue_client with a node to take.
dequeue_client(w) ==
  /\ state[w] = "ready" /\ queue_front # NULL
  /\ job' = [job EXCEPT ![w] = queue_front]
  /\ phase' = [phase EXCEPT ![queue_front] = "serving"]
  /\ queue_front' = next[queue_front]
  /\ queue_rear' = IF next[queue_front] = NULL THEN NULL ELSE queue_rear
  /\ state' = [state EXCEPT ![w] = "serving"]
  /\ taken' = Append(taken, queue_front)
  /\ UNCHANGED <<backlog, client_fd, next, accepted>>

\* dequeue_client on an empty list: pthread_cond_wait.
Wait(w) ==
  /\ state[w] = "ready" /\ queue_front = NULL
  /\ state' = [state EXCEPT ![w] = "waiting"]
  /\ UNCHANGED <<phase, backlog, client_fd, list, job, accepted, taken>>

\* A spurious wakeup: the while loop tests the list again.
WakeUp(w) ==
  /\ state[w] = "waiting"
  /\ state' = [state EXCEPT ![w] = "ready"]
  /\ UNCHANGED <<phase, backlog, client_fd, list, job, accepted, taken>>

\* handle_client returns, having closed the connection.
Served(w) ==
  /\ state[w] = "serving"
  /\ phase' = [phase EXCEPT ![job[w]] = "closed"]
  /\ job' = [job EXCEPT ![w] = NULL]
  /\ state' = [state EXCEPT ![w] = "ready"]
  /\ UNCHANGED <<backlog, client_fd, list, accepted, taken>>

Main == Accept \/ enqueue_client \/ enqueue_fails

worker_thread(w) == dequeue_client(w) \/ Wait(w) \/ Served(w)

Next ==
  \/ \E c \in Clients : Connect(c)
  \/ Main
  \/ \E w \in Workers : worker_thread(w) \/ WakeUp(w)

Spec == Init /\ [][Next]_vars

\* The scheduler runs main and every worker; a worker's request ends (which
\* MainServer's EveryRequestEnds is about).
FairSpec ==
  Spec /\ WF_vars(Main) /\ \A w \in Workers : WF_vars(worker_thread(w))

-----------------------------------------------------------------------------
TypeOK ==
  /\ phase \in [Clients -> {"new", "backlog", "accepted", "queued", "serving", "closed"}]
  /\ backlog \in Seq(Clients)
  /\ client_fd \in Clients \cup {NULL}
  /\ queue_front \in Clients \cup {NULL} /\ queue_rear \in Clients \cup {NULL}
  /\ next \in [Clients -> Clients \cup {NULL}]
  /\ state \in [Workers -> {"ready", "waiting", "serving"}]
  /\ job \in [Workers -> Clients \cup {NULL}]
  /\ accepted \in Seq(Clients) /\ taken \in Seq(Clients)

\* The list holds, from queue_front through next to queue_rear, exactly the
\* enqueued connections that were not dequeued, oldest first: none is lost,
\* served twice or overtaken, and an empty list has both ends reset.
ListIsFifo ==
  /\ Len(taken) <= Len(accepted)
  /\ \A i \in 1..Len(taken) : taken[i] = accepted[i]
  /\ IF Len(taken) = Len(accepted) THEN queue_front = NULL /\ queue_rear = NULL
     ELSE /\ queue_front = accepted[Len(taken) + 1]
          /\ queue_rear = accepted[Len(accepted)]
          /\ next[queue_rear] = NULL
          /\ \A i \in (Len(taken) + 1)..(Len(accepted) - 1) :
               next[accepted[i]] = accepted[i + 1]

\* No lost wakeup: as long as a worker sleeps, as many workers are awake and
\* on their way to the list as it has connections.
EnoughAwake ==
  In("waiting") # {} => Len(accepted) - Len(taken) <= Cardinality(In("ready"))

\* A worker has the connection it serves to itself, and the process never
\* holds more connections than it has descriptors.
OwnConnections ==
  /\ \A w \in In("serving") : job[w] # NULL /\ phase[job[w]] = "serving"
  /\ \A v, w \in In("serving") : job[v] = job[w] => v = w
  /\ Cardinality(Open) <= MaxFds

\* A connection the kernel has taken is served, or closed unanswered when no
\* memory is left for its node.
EveryConnectionEnds ==
  \A c \in Clients : phase[c] = "backlog" ~> phase[c] = "closed"
==============================================================================
