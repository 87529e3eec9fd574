----------------------------- MODULE EdgeServer -----------------------------
(***************************************************************************)
(* The listener of the edge: crates/openapi-edge/src/lib.rs, with the      *)
(* per-IP connection tracker of crates/openapi-core/src/limits.rs.         *)
(*                                                                         *)
(* The accept thread hands sockets to a pool of workers over a bounded     *)
(* channel.  The workers share its receiver behind a mutex, and the one    *)
(* that holds it blocks in recv().  If the channel is full the accept      *)
(* thread spawns a short-lived thread that answers 429, up to ShedMax of   *)
(* them; beyond that the socket is closed.  If not one worker could be     *)
(* spawned the accept thread serves the sockets itself, one at a time.     *)
(* A handler may panic: the thread catches it and goes on, and unwinding   *)
(* drops the per-IP permit.                                                *)
(***************************************************************************)
EXTENDS Integers, Sequences, FiniteSets

CONSTANTS
  Conns,       \* connections; a client opens each again once it is closed
  Ips,         \* client addresses
  IpOf,        \* the address of each connection
  Workers,     \* the worker threads asked for (OPENAPI_ACCEPT_WORKERS)
  Acceptor,    \* the accept thread
  QueueDepth,  \* capacity of the channel (OPENAPI_ACCEPT_QUEUE)
  ShedMax,     \* 429 responder threads (OPENAPI_SHED_WORKERS)
  MaxPerIp,    \* max_conns_per_ip, 0 for no limit
  NoConn       \* no connection

ASSUME EdgeServerAssumption ==
  /\ IpOf \in [Conns -> Ips]
  /\ IsFiniteSet(Workers) /\ Acceptor \notin Workers
  /\ QueueDepth \in Nat \ {0}
  /\ ShedMax \in Nat \ {0}
  /\ MaxPerIp \in Nat
  /\ NoConn \notin Conns \cup Workers

VARIABLES
  live,      \* the workers that could be spawned
  stage,     \* how far each connection has come
  queue,     \* the channel
  receiver,  \* the worker that holds the receiver's mutex, or none
  on,        \* the connection each thread has in hand, or NoConn
  shed,      \* shed_inflight
  ipCount    \* IpConnTracker.counts, 0 where there is no entry

vars == <<live, stage, queue, receiver, on, shed, ipCount>>

Threads == Workers \cup {Acceptor}

\* Stages in which a thread of the pool has the connection in hand.
Handling == {"admit", "reject", "arrival", "dispatch"}
Stages   == {"backlog", "accepted", "queued", "shedding", "closed"} \cup Handling

TypeOK ==
  /\ live \subseteq Workers
  /\ stage \in [Conns -> Stages]
  /\ queue \in Seq(Conns) /\ Len(queue) <= QueueDepth
  /\ receiver \in live \cup {NoConn}
  /\ on \in [Threads -> Conns \cup {NoConn}]
  /\ shed \in Nat
  /\ ipCount \in [Ips -> Nat]

\* The pool stops growing at the first spawn that fails.
Init ==
  /\ live \in SUBSET Workers
  /\ stage = [c \in Conns |-> "closed"]
  /\ queue = <<>>
  /\ receiver = NoConn
  /\ on = [t \in Threads |-> NoConn]
  /\ shed = 0
  /\ ipCount = [i \in Ips |-> 0]

Serial == live = {}

\* Connections that hold a per-IP permit: acquired, not yet dropped.
Permitted == {c \in Conns : stage[c] \in {"arrival", "dispatch"}}

Open == {c \in Conns : stage[c] \notin {"backlog", "closed"}}

Advance(c, to) == stage' = [stage EXCEPT ![c] = to]

-----------------------------------------------------------------------------
(***************************************************************************)
(* The accept thread.                                                      *)
(***************************************************************************)

\* A client connects: the socket waits in the kernel's backlog.
Connect(c) ==
  /\ stage[c] = "closed"
  /\ Advance(c, "backlog")
  /\ UNCHANGED <<live, queue, receiver, on, shed, ipCount>>

\* A connection is accepted.  Without a pool it is handled at once.
Accept(c) ==
  /\ on[Acceptor] = NoConn
  /\ stage[c] = "backlog"
  /\ on' = [on EXCEPT ![Acceptor] = c]
  /\ Advance(c, IF Serial THEN "admit" ELSE "accepted")
  /\ UNCHANGED <<live, queue, receiver, shed, ipCount>>

Hold(c) == on[Acceptor] = c /\ stage[c] = "accepted"

LetGo == on' = [on EXCEPT ![Acceptor] = NoConn]

\* try_send finds room.
Enqueue(c) ==
  /\ Hold(c)
  /\ Len(queue) < QueueDepth
  /\ queue' = Append(queue, c)
  /\ Advance(c, "queued")
  /\ LetGo
  /\ UNCHANGED <<live, receiver, shed, ipCount>>

QueueFull(c) == Hold(c) /\ Len(queue) = QueueDepth

\* try_acquire_shed finds a slot.
ShedSlot == shed < ShedMax

\* spawn_shed_429: the responder thread takes the slot and the socket.
ShedSpawn(c) ==
  /\ QueueFull(c)
  /\ ShedSlot
  /\ shed' = shed + 1
  /\ Advance(c, "shedding")
  /\ LetGo
  /\ UNCHANGED <<live, queue, receiver, ipCount>>

\* The closure that was to be the thread is dropped, its permit with it.
SlotAfterSpawnFailure == shed

\* The spawn fails, the socket is closed.
ShedSpawnFails(c) ==
  /\ QueueFull(c)
  /\ ShedSlot
  /\ shed' = SlotAfterSpawnFailure
  /\ Advance(c, "closed")
  /\ LetGo
  /\ UNCHANGED <<live, queue, receiver, ipCount>>

\* No slot is free: closed without an answer.
ShedSaturated(c) ==
  /\ QueueFull(c)
  /\ ~ShedSlot
  /\ Advance(c, "closed")
  /\ LetGo
  /\ UNCHANGED <<live, queue, receiver, shed, ipCount>>

\* respond_429_and_close in the responder; the TLS handshake may fail.
ShedResponds(c) ==
  /\ stage[c] = "shedding"
  /\ Advance(c, "closed")
  /\ shed' = shed - 1
  /\ UNCHANGED <<live, queue, receiver, on, ipCount>>

-----------------------------------------------------------------------------
(***************************************************************************)
(* The workers.                                                            *)
(***************************************************************************)

\* An idle worker locks the receiver ...
LockReceiver(w) ==
  /\ w \in live
  /\ on[w] = NoConn
  /\ receiver = NoConn
  /\ receiver' = w
  /\ UNCHANGED <<live, stage, queue, on, shed, ipCount>>

\* ... blocks in recv() until there is a connection, and unlocks.
Receive(w) ==
  /\ receiver = w
  /\ queue # <<>>
  /\ on' = [on EXCEPT ![w] = Head(queue)]
  /\ Advance(Head(queue), "admit")
  /\ queue' = Tail(queue)
  /\ receiver' = NoConn
  /\ UNCHANGED <<live, shed, ipCount>>

-----------------------------------------------------------------------------
(***************************************************************************)
(* handle_stream, on a worker or, without a pool, on the accept thread.    *)
(***************************************************************************)

At(t, c, s) == on[t] = c /\ stage[c] = s

\* Mutant: the limit is off by one.
IpSlotOffByOne(i) == MaxPerIp = 0 \/ ipCount[i] <= MaxPerIp

\* IpConnTracker.try_acquire succeeds.
IpSlot(i) == MaxPerIp = 0 \/ ipCount[i] < MaxPerIp

\* Without a limit the tracker counts nothing.
Counted(n) == IF MaxPerIp = 0 THEN 0 ELSE n

AcquireIp(t, c) ==
  /\ At(t, c, "admit")
  /\ IF IpSlot(IpOf[c])
     THEN /\ Advance(c, "arrival")
          /\ ipCount' = [ipCount EXCEPT ![IpOf[c]] = @ + Counted(1)]
     ELSE /\ Advance(c, "reject")
          /\ UNCHANGED ipCount
  /\ UNCHANGED <<live, queue, receiver, on, shed>>

\* The thread is done with the connection: the socket is closed and a permit
\* it held is dropped.
Close(t, c) ==
  /\ Advance(c, "closed")
  /\ ipCount' = [ipCount EXCEPT ![IpOf[c]] =
                   @ - (IF c \in Permitted THEN Counted(1) ELSE 0)]
  /\ on' = [on EXCEPT ![t] = NoConn]
  /\ UNCHANGED <<live, queue, receiver, shed>>

\* Over the per-IP limit: 429 from this thread; the TLS handshake may fail.
Reject(t, c) ==
  /\ At(t, c, "reject")
  /\ Close(t, c)

\* The TLS handshake and the request arrive, under the idle timeouts.
Arrive(t, c) ==
  /\ At(t, c, "arrival")
  /\ Advance(c, "dispatch")
  /\ UNCHANGED <<live, queue, receiver, on, shed, ipCount>>

\* The handshake fails, the client hangs up or idles ("none"), or what it
\* sends is malformed or too large (an error response).
ArrivalEnds(t, c) ==
  /\ At(t, c, "arrival")
  /\ Close(t, c)

\* dispatch_to_writer returns: the response is written, or writing it fails.
Dispatch(t, c) ==
  /\ At(t, c, "dispatch")
  /\ Close(t, c)

\* Mutant: a panic ends the worker.
PanicEndsWorker(t, c) ==
  /\ live' = live \ {t}
  /\ Advance(c, "closed")
  /\ ipCount' = [ipCount EXCEPT ![IpOf[c]] =
                   @ - (IF c \in Permitted THEN Counted(1) ELSE 0)]
  /\ UNCHANGED <<queue, receiver, shed>>
  /\ on' = [on EXCEPT ![t] = NoConn]

\* Mutant: the permit is released by a call that a panic skips.
PanicSkipsRelease(t, c) ==
  /\ Advance(c, "closed")
  /\ on' = [on EXCEPT ![t] = NoConn]
  /\ UNCHANGED <<live, queue, receiver, shed, ipCount>>

\* Unwinding drops the socket and the permit; catch_unwind keeps the thread.
Unwind(t, c) == Close(t, c)

\* The handler panics.
Panic(t, c) ==
  /\ on[t] = c
  /\ stage[c] \in {"arrival", "dispatch"}
  /\ Unwind(t, c)

Handle(t, c) ==
  \/ AcquireIp(t, c)
  \/ Reject(t, c)
  \/ Arrive(t, c)
  \/ ArrivalEnds(t, c)
  \/ Dispatch(t, c)
  \/ Panic(t, c)

AcceptThread(c) ==
  \/ Enqueue(c)
  \/ ShedSpawn(c)
  \/ ShedSpawnFails(c)
  \/ ShedSaturated(c)

Next ==
  \/ \E c \in Conns : Connect(c) \/ Accept(c) \/ AcceptThread(c) \/ ShedResponds(c)
  \/ \E w \in Workers : LockReceiver(w) \/ Receive(w)
  \/ \E t \in Threads, c \in Conns : Handle(t, c)

Spec == Init /\ [][Next]_vars

\* Every thread is scheduled.  A step that waits for the client or for an
\* upstream need never come: the socket's timeouts are cleared once the request
\* is parsed, and not every call of a handler has one of its own.  Nothing is
\* assumed of the clients' connecting, nor of which worker gets the mutex.
Fairness ==
  /\ \A c \in Conns : WF_vars(AcceptThread(c))
  /\ WF_vars(\E w \in Workers : LockReceiver(w))
  /\ \A w \in Workers : WF_vars(Receive(w))
  /\ \A t \in Threads, c \in Conns : WF_vars(AcquireIp(t, c))

FairSpec == Spec /\ Fairness

-----------------------------------------------------------------------------
(***************************************************************************)
(* Properties.                                                             *)
(***************************************************************************)

\* The tracker counts exactly the permits that are held, and no address holds
\* more than the limit: no exit of the handler, a panic included, leaks or
\* doubles a release (IpConnPermit).  shed_inflight counts exactly the responder
\* threads that run: a spawn that fails gives its slot back.  So, however many
\* clients connect, the sockets the process holds are bounded by its workers,
\* its queue, its responders and the one in the acceptor's hand.
PermitsExact ==
  /\ MaxPerIp > 0 =>
       \A i \in Ips :
         /\ ipCount[i] = Cardinality({c \in Permitted : IpOf[c] = i})
         /\ ipCount[i] <= MaxPerIp
  /\ shed = Cardinality({c \in Conns : stage[c] = "shedding"})
  /\ shed <= ShedMax
  /\ Cardinality(Open) <= Cardinality(live) + QueueDepth + ShedMax + 1

\* The threads that handle connections.
Serves(t) == t \in live \/ (Serial /\ t = Acceptor)

\* Where a thread waits for the client of a connection or for an upstream.
Waiting == {"reject", "arrival", "dispatch", "shedding"}

\* While one of the threads that handle connections comes free again and again,
\* a socket that has been accepted is closed in the end, unless its own client
\* or upstream keeps it waiting for ever: it is not forgotten in the queue,
\* though every other thread hangs, whatever handlers panic and whatever threads
\* fail to spawn.
AcceptedIsClosed ==
  (\E t \in Threads : []<>(Serves(t) /\ on[t] = NoConn)) =>
    \A c \in Conns :
      []<>(stage[c] \notin Waiting) => (stage[c] = "accepted" ~> stage[c] = "closed")
=============================================================================
