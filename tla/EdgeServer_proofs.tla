------------------------- MODULE EdgeServer_proofs --------------------------
(***************************************************************************)
(* Proofs about EdgeServer, for any set of connections and addresses, any  *)
(* finite pool of workers, every depth of the queue and every limit.       *)
(***************************************************************************)
EXTENDS EdgeServer, FiniteSetTheorems, TLAPS

USE EdgeServerAssumption

(***************************************************************************)
(* The inductive invariant.                                                *)
(***************************************************************************)

Shedding       == {c \in Conns : stage[c] = "shedding"}
Queued         == {c \in Conns : stage[c] = "queued"}
InHand         == {c \in Conns : stage[c] \in {"accepted"} \cup Handling}
PermittedAt(i) == {c \in Permitted : IpOf[c] = i}

\* A connection that was accepted, and is neither queued nor shed, is in the
\* hand of a thread that runs; a worker that waits for one has none.
HandInv ==
  /\ \A c \in InHand : \E t \in live \cup {Acceptor} : on[t] = c
  /\ receiver # NoConn => on[receiver] = NoConn

\* The channel holds the queued connections, each once.
QueueInv ==
  /\ \A i \in 1 .. Len(queue) : stage[queue[i]] = "queued"
  /\ \A i, j \in 1 .. Len(queue) : queue[i] = queue[j] => i = j
  /\ \A c \in Queued : \E i \in 1 .. Len(queue) : queue[i] = c

\* The counters are the sizes of what they count.
CountInv ==
  /\ IsFiniteSet(Open)
  /\ MaxPerIp > 0 =>
       \A i \in Ips : ipCount[i] = Cardinality(PermittedAt(i)) /\ ipCount[i] <= MaxPerIp
  /\ shed = Cardinality(Shedding) /\ shed <= ShedMax

IInv == TypeOK /\ HandInv /\ QueueInv /\ CountInv

-----------------------------------------------------------------------------
(***************************************************************************)
(* Lemmas on finite sets and on moves of a connection.                     *)
(***************************************************************************)

\* A set that a function covers from a finite set is not larger.
LEMMA CoveredIsSmaller ==
  ASSUME NEW S, IsFiniteSet(S), NEW T, NEW f, \A y \in T : \E x \in S : f[x] = y
  PROVE  IsFiniteSet(T) /\ Cardinality(T) <= Cardinality(S)
<1> DEFINE R == {x \in S : f[x] \in T}
           g == [x \in R |-> f[x]]
<1>1. g \in Surjection(R, T)
  BY DEF Surjection
<1>2. IsFiniteSet(R) /\ Cardinality(R) <= Cardinality(S)
  <2>1. R \in SUBSET S
    OBVIOUS
  <2> HIDE DEF R
  <2>2. QED
    BY <2>1, FS_Subset
<1> HIDE DEF g, R
<1>3. IsFiniteSet(T) /\ Cardinality(T) <= Cardinality(R)
  BY <1>1, <1>2, FS_Surjection
<1>4. Cardinality(T) \in Nat /\ Cardinality(R) \in Nat /\ Cardinality(S) \in Nat
  BY <1>2, <1>3, FS_CardinalityType
<1>5. QED
  BY <1>2, <1>3, <1>4

\* A union is at most as large as its parts together.
LEMMA UnionBound ==
  ASSUME NEW S, IsFiniteSet(S), NEW T, IsFiniteSet(T)
  PROVE  IsFiniteSet(S \cup T) /\ Cardinality(S \cup T) <= Cardinality(S) + Cardinality(T)
<1>1. /\ IsFiniteSet(S \cup T)
      /\ Cardinality(S \cup T) = Cardinality(S) + Cardinality(T) - Cardinality(S \cap T)
  BY FS_Union
<1>2. Cardinality(S \cap T) \in Nat /\ Cardinality(S) \in Nat /\ Cardinality(T) \in Nat
  BY FS_Intersection, FS_CardinalityType
<1>3. QED
  BY <1>1, <1>2

\* One connection moves, the others stay.
LEMMA Moved ==
  ASSUME TypeOK, NEW c \in Conns, NEW to \in Stages, Advance(c, to)
  PROVE  /\ stage' \in [Conns -> Stages]
         /\ stage'[c] = to
         /\ \A d \in Conns : d # c => stage'[d] = stage[d]
BY DEF TypeOK, Advance

\* What a move does to the sockets the process holds and to the responders.
LEMMA OpenMove ==
  ASSUME TypeOK, CountInv, NEW c \in Conns, NEW to \in Stages, Advance(c, to)
  PROVE  /\ IsFiniteSet(Open')
         /\ Cardinality(Shedding') = Cardinality(Shedding)
                                     - (IF stage[c] = "shedding" THEN 1 ELSE 0)
                                     + (IF to = "shedding" THEN 1 ELSE 0)
<1>1. Open' \in SUBSET (Open \cup {c})
  BY Moved DEF Open
<1>2. IsFiniteSet(Open')
  BY <1>1, FS_AddElement, FS_Subset DEF CountInv
<1>3. IsFiniteSet(Shedding)
  <2>1. Shedding \in SUBSET Open
    BY DEF Shedding, Open
  <2>2. QED
    BY <2>1, FS_Subset DEF CountInv
<1>4. CASE to = "shedding"
  <2>1. Shedding' = Shedding \cup {c}
    BY <1>4, Moved DEF Shedding
  <2>2. c \in Shedding <=> stage[c] = "shedding"
    BY DEF Shedding
  <2>3. QED
    BY <1>2, <1>3, <1>4, <2>1, <2>2, FS_AddElement, FS_CardinalityType
<1>5. CASE to # "shedding"
  <2>1. Shedding' = Shedding \ {c}
    BY <1>5, Moved DEF Shedding
  <2>2. c \in Shedding <=> stage[c] = "shedding"
    BY DEF Shedding
  <2>3. QED
    BY <1>2, <1>3, <1>5, <2>1, <2>2, FS_RemoveElement, FS_CardinalityType
<1>6. QED
  BY <1>4, <1>5

Permit == {"arrival", "dispatch"}

\* What a move does to the permits of an address.
LEMMA PermitMove ==
  ASSUME TypeOK, CountInv, NEW c \in Conns, NEW to \in Stages, Advance(c, to), NEW i \in Ips
  PROVE  /\ Cardinality(PermittedAt(i)) \in Nat
         /\ IpOf[c] = i /\ stage[c] \in Permit => Cardinality(PermittedAt(i)) > 0
         /\ Cardinality(PermittedAt(i)') = Cardinality(PermittedAt(i))
              - (IF IpOf[c] = i /\ stage[c] \in Permit THEN 1 ELSE 0)
              + (IF IpOf[c] = i /\ to \in Permit THEN 1 ELSE 0)
<1>1. IsFiniteSet(PermittedAt(i))
  <2>1. PermittedAt(i) \in SUBSET Open
    BY DEF PermittedAt, Permitted, Open
  <2>2. QED
    BY <2>1, FS_Subset DEF CountInv
<1>2. c \in PermittedAt(i) <=> IpOf[c] = i /\ stage[c] \in Permit
  BY DEF PermittedAt, Permitted, Permit
<1>3. Cardinality(PermittedAt(i)) \in Nat
  BY <1>1, FS_CardinalityType
<1>4. c \in PermittedAt(i) => Cardinality(PermittedAt(i)) > 0
  BY <1>1, <1>3, FS_EmptySet
<1>5. CASE IpOf[c] = i /\ to \in Permit
  <2>1. PermittedAt(i)' = PermittedAt(i) \cup {c}
    BY <1>5, Moved DEF PermittedAt, Permitted, Permit
  <2>2. Cardinality(PermittedAt(i) \cup {c}) = IF c \in PermittedAt(i) THEN Cardinality(PermittedAt(i))
                                               ELSE Cardinality(PermittedAt(i)) + 1
    BY <1>1, FS_AddElement
  <2>3. QED
    BY <1>2, <1>3, <1>4, <1>5, <2>1, <2>2
<1>6. CASE ~(IpOf[c] = i /\ to \in Permit)
  <2>1. PermittedAt(i)' = PermittedAt(i) \ {c}
    BY <1>6, Moved DEF PermittedAt, Permitted, Permit
  <2>2. Cardinality(PermittedAt(i) \ {c}) = IF c \in PermittedAt(i) THEN Cardinality(PermittedAt(i)) - 1
                                            ELSE Cardinality(PermittedAt(i))
    BY <1>1, FS_RemoveElement
  <2>3. QED
    BY <1>2, <1>3, <1>4, <1>6, <2>1, <2>2
<1>7. QED
  BY <1>5, <1>6

-----------------------------------------------------------------------------
(***************************************************************************)
(* The counters.                                                           *)
(***************************************************************************)

\* A move that neither takes nor gives a permit, nor a responder.
LEMMA CountKept ==
  ASSUME TypeOK, CountInv, NEW c \in Conns, NEW to \in Stages, Advance(c, to),
         stage[c] \in Permit <=> to \in Permit,
         stage[c] # "shedding", to # "shedding",
         UNCHANGED <<shed, ipCount>>
  PROVE  CountInv'
<1>1. IsFiniteSet(Open') /\ Cardinality(Shedding') = Cardinality(Shedding)
  <2>1. Cardinality(Shedding) \in Nat
    BY DEF CountInv, TypeOK
  <2>2. QED
    BY <2>1, OpenMove
<1>2. \A i \in Ips : Cardinality(PermittedAt(i)') = Cardinality(PermittedAt(i))
  BY PermitMove
<1>3. QED
  BY <1>1, <1>2 DEF CountInv

\* Every exit of the handler: the permit is dropped if there is one.
LEMMA CloseCounts ==
  ASSUME TypeOK, CountInv, NEW t, NEW c \in Conns, stage[c] \in Handling, Close(t, c)
  PROVE  CountInv' /\ ipCount' \in [Ips -> Nat]
<1>0. "closed" \in Stages /\ "closed" \notin Permit /\ IpOf[c] \in Ips
  BY DEF Stages, Permit
<1>1. Advance(c, "closed") /\ UNCHANGED shed /\ stage[c] # "shedding"
  BY DEF Close, Handling
<1>2. IsFiniteSet(Open') /\ Cardinality(Shedding') = Cardinality(Shedding)
  <2>1. Cardinality(Shedding) \in Nat
    BY DEF CountInv, TypeOK
  <2>2. QED
    BY <1>0, <1>1, <2>1, OpenMove
<1>3. c \in Permitted <=> stage[c] \in Permit
  BY DEF Permitted, Permit
<1>4. ipCount' = [ipCount EXCEPT ![IpOf[c]] = @ - (IF c \in Permitted THEN Counted(1) ELSE 0)]
  BY DEF Close
<1>5. CASE MaxPerIp = 0
  <2>1. \A i \in Ips : ipCount[i] \in Nat /\ ipCount'[i] = ipCount[i]
    BY <1>4, <1>5 DEF Counted, TypeOK
  <2>2. ipCount' \in [Ips -> Nat]
    BY <1>4, <2>1 DEF TypeOK
  <2>3. QED
    BY <1>1, <1>2, <1>5, <2>2 DEF CountInv
<1>6. CASE MaxPerIp > 0
  <2>1. ASSUME NEW i \in Ips
        PROVE  /\ ipCount'[i] \in Nat /\ ipCount'[i] <= MaxPerIp
               /\ ipCount'[i] = Cardinality(PermittedAt(i)')
    <3>1. ipCount[i] = Cardinality(PermittedAt(i)) /\ ipCount[i] \in Nat /\ ipCount[i] <= MaxPerIp
      BY <1>6 DEF CountInv, TypeOK
    <3>2. /\ IpOf[c] = i /\ stage[c] \in Permit => Cardinality(PermittedAt(i)) > 0
          /\ Cardinality(PermittedAt(i)') = Cardinality(PermittedAt(i))
               - (IF IpOf[c] = i /\ stage[c] \in Permit THEN 1 ELSE 0)
      BY <1>0, <1>1, <3>1, PermitMove
    <3>3. ipCount'[i] = ipCount[i] - (IF IpOf[c] = i /\ stage[c] \in Permit THEN 1 ELSE 0)
      BY <1>3, <1>4, <1>6, <3>1 DEF Counted, TypeOK
    <3>4. QED
      BY <3>1, <3>2, <3>3
  <2>2. ipCount' \in [Ips -> Nat]
    BY <1>4, <2>1 DEF TypeOK
  <2>3. QED
    BY <1>1, <1>2, <2>1, <2>2 DEF CountInv
<1>7. QED
  BY <1>5, <1>6

\* IpConnTracker.try_acquire.
LEMMA AcquireCounts ==
  ASSUME TypeOK, CountInv, NEW t, NEW c \in Conns, AcquireIp(t, c)
  PROVE  CountInv' /\ ipCount' \in [Ips -> Nat]
<1>0. /\ {"arrival", "reject"} \subseteq Stages /\ "arrival" \in Permit /\ "reject" \notin Permit
      /\ IpOf[c] \in Ips
  BY DEF Stages, Handling, Permit
<1>1. stage[c] = "admit" /\ stage[c] \notin Permit /\ UNCHANGED shed
  BY DEF AcquireIp, At, Permit
<1>2. CASE ~IpSlot(IpOf[c])
  <2>1. Advance(c, "reject") /\ UNCHANGED ipCount
    BY <1>2 DEF AcquireIp
  <2>2. QED
    BY <1>0, <1>1, <2>1, CountKept DEF TypeOK
<1>3. CASE IpSlot(IpOf[c])
  <2>1. Advance(c, "arrival") /\ ipCount' = [ipCount EXCEPT ![IpOf[c]] = @ + Counted(1)]
    BY <1>3 DEF AcquireIp
  <2>2. IsFiniteSet(Open') /\ Cardinality(Shedding') = Cardinality(Shedding)
    <3>1. Cardinality(Shedding) \in Nat
      BY DEF CountInv, TypeOK
    <3>2. QED
      BY <1>0, <1>1, <2>1, <3>1, OpenMove
  <2>3. CASE MaxPerIp = 0
    <3>1. ipCount' \in [Ips -> Nat]
      BY <2>1, <2>3 DEF Counted, TypeOK
    <3>2. QED
      BY <1>1, <2>2, <2>3, <3>1 DEF CountInv
  <2>4. CASE MaxPerIp > 0
    <3>1. ASSUME NEW i \in Ips
          PROVE  /\ ipCount'[i] \in Nat /\ ipCount'[i] <= MaxPerIp
                 /\ ipCount'[i] = Cardinality(PermittedAt(i)')
      <4>1. ipCount[i] = Cardinality(PermittedAt(i)) /\ ipCount[i] \in Nat /\ ipCount[i] <= MaxPerIp
        BY <2>4 DEF CountInv, TypeOK
      <4>2. Cardinality(PermittedAt(i)') = Cardinality(PermittedAt(i))
                                           + (IF IpOf[c] = i THEN 1 ELSE 0)
        BY <1>0, <1>1, <2>1, <4>1, PermitMove
      <4>3. ipCount'[i] = ipCount[i] + (IF IpOf[c] = i THEN 1 ELSE 0)
        BY <2>1, <2>4, <4>1 DEF Counted, TypeOK
      <4>4. IpOf[c] = i => ipCount[i] < MaxPerIp
        BY <1>3, <2>4 DEF IpSlot
      <4>5. QED
        BY <4>1, <4>2, <4>3, <4>4
    <3>2. ipCount' \in [Ips -> Nat]
      BY <2>1, <3>1 DEF TypeOK
    <3>3. QED
      BY <1>1, <2>2, <3>1, <3>2 DEF CountInv
  <2>5. QED
    BY <2>3, <2>4
<1>4. QED
  BY <1>2, <1>3

\* A responder thread starts, or ends.
LEMMA ShedCounts ==
  ASSUME TypeOK, CountInv, NEW c \in Conns, ShedSpawn(c) \/ ShedResponds(c)
  PROVE  CountInv' /\ shed' \in Nat
<1>0. {"shedding", "closed"} \subseteq Stages /\ {"accepted", "shedding", "closed"} \cap Permit = {}
  BY DEF Stages, Permit
<1>1. UNCHANGED ipCount /\ stage[c] \in {"accepted", "shedding"}
  BY DEF ShedSpawn, ShedResponds, QueueFull, Hold
<1>2. PICK to \in {"shedding", "closed"} : Advance(c, to)
  BY DEF ShedSpawn, ShedResponds
<1>3. \A i \in Ips : Cardinality(PermittedAt(i)') = Cardinality(PermittedAt(i))
  BY <1>0, <1>1, <1>2, PermitMove
<1>4. shed = Cardinality(Shedding) /\ shed \in Nat /\ shed <= ShedMax
  BY DEF CountInv, TypeOK
<1>5. CASE ShedSpawn(c)
  <2>1. stage[c] = "accepted" /\ Advance(c, "shedding") /\ shed < ShedMax /\ shed' = shed + 1
    BY <1>5 DEF ShedSpawn, ShedSlot, QueueFull, Hold
  <2>2. IsFiniteSet(Open') /\ Cardinality(Shedding') = shed + 1
    BY <1>0, <1>4, <2>1, OpenMove
  <2>3. QED
    BY <1>1, <1>3, <1>4, <2>1, <2>2 DEF CountInv
<1>6. CASE ShedResponds(c)
  <2>1. stage[c] = "shedding" /\ Advance(c, "closed") /\ shed' = shed - 1
    BY <1>6 DEF ShedResponds
  <2>2. IsFiniteSet(Open') /\ Cardinality(Shedding') = shed - 1
    BY <1>0, <1>4, <2>1, OpenMove
  <2>3. shed > 0
    <3>1. c \in Shedding /\ Shedding \in SUBSET Open
      BY <2>1 DEF Shedding, Open
    <3>2. IsFiniteSet(Shedding)
      BY <3>1, FS_Subset DEF CountInv
    <3>3. QED
      BY <1>4, <3>1, <3>2, FS_EmptySet
  <2>4. QED
    BY <1>1, <1>3, <1>4, <2>1, <2>2, <2>3 DEF CountInv
<1>7. QED
  BY <1>5, <1>6

LEMMA CountNext == IInv /\ [Next]_vars => CountInv'
<1> SUFFICES ASSUME TypeOK, QueueInv, CountInv, [Next]_vars PROVE CountInv'
  BY DEF IInv
<1>0. /\ {"backlog", "accepted", "queued", "closed", "admit", "arrival", "dispatch"} \subseteq Stages
      /\ {"backlog", "accepted", "queued", "closed", "admit"} \cap Permit = {}
      /\ {"arrival", "dispatch"} \subseteq Permit
  BY DEF Stages, Handling, Permit
<1>1. ASSUME NEW c \in Conns, Connect(c) PROVE CountInv'
  BY <1>0, <1>1, CountKept DEF Connect
<1>2. ASSUME NEW c \in Conns, Accept(c) PROVE CountInv'
  <2>1. Advance(c, "admit") \/ Advance(c, "accepted")
    BY <1>2 DEF Accept
  <2>2. QED
    BY <1>0, <1>2, <2>1, CountKept DEF Accept
<1>3. ASSUME NEW c \in Conns, Enqueue(c) PROVE CountInv'
  BY <1>0, <1>3, CountKept DEF Enqueue, Hold
<1>4. ASSUME NEW c \in Conns, ShedSpawn(c) \/ ShedResponds(c) PROVE CountInv'
  BY <1>4, ShedCounts
<1>5. ASSUME NEW c \in Conns, ShedSpawnFails(c) \/ ShedSaturated(c) PROVE CountInv'
  <2>1. Advance(c, "closed") /\ stage[c] = "accepted" /\ UNCHANGED <<shed, ipCount>>
    BY <1>5 DEF ShedSpawnFails, ShedSaturated, QueueFull, Hold, SlotAfterSpawnFailure
  <2>2. QED
    BY <1>0, <2>1, CountKept
<1>6. ASSUME NEW w \in Workers, LockReceiver(w) PROVE CountInv'
  BY <1>6 DEF LockReceiver, CountInv, Open, Shedding, PermittedAt, Permitted
<1>7. ASSUME NEW w \in Workers, Receive(w) PROVE CountInv'
  <2>1. 1 \in 1 .. Len(queue) /\ Head(queue) = queue[1] /\ Head(queue) \in Conns
    BY <1>7 DEF Receive, TypeOK
  <2>2. stage[Head(queue)] = "queued"
    BY <2>1 DEF QueueInv
  <2>3. QED
    BY <1>0, <1>7, <2>1, <2>2, CountKept DEF Receive
<1>8. ASSUME NEW t \in Threads, NEW c \in Conns, AcquireIp(t, c) PROVE CountInv'
  BY <1>8, AcquireCounts
<1>9. ASSUME NEW t \in Threads, NEW c \in Conns, Arrive(t, c) PROVE CountInv'
  BY <1>0, <1>9, CountKept DEF Arrive, At
<1>10. ASSUME NEW t \in Threads, NEW c \in Conns,
              Reject(t, c) \/ ArrivalEnds(t, c) \/ Dispatch(t, c) \/ Panic(t, c)
       PROVE  CountInv'
  <2>1. stage[c] \in Handling /\ Close(t, c)
    BY <1>10 DEF Reject, ArrivalEnds, Dispatch, Panic, Unwind, At, Handling
  <2>2. QED
    BY <2>1, CloseCounts
<1>11. CASE UNCHANGED vars
  BY <1>11 DEF vars, CountInv, Open, Shedding, PermittedAt, Permitted
<1>12. QED
  BY <1>1, <1>2, <1>3, <1>4, <1>5, <1>6, <1>7, <1>8, <1>9, <1>10, <1>11
     DEF Next, AcceptThread, Handle

-----------------------------------------------------------------------------
(***************************************************************************)
(* The threads and the channel.                                            *)
(***************************************************************************)

LEMMA TypeNext == IInv /\ [Next]_vars => TypeOK'
<1> SUFFICES ASSUME TypeOK, CountInv, [Next]_vars PROVE TypeOK'
  BY DEF IInv
<1> USE DEF TypeOK, Stages, Handling, Threads, Advance, LetGo
<1>1. ASSUME NEW c \in Conns, Connect(c) PROVE TypeOK'
  BY <1>1 DEF Connect
<1>2. ASSUME NEW c \in Conns, Accept(c) PROVE TypeOK'
  BY <1>2 DEF Accept
<1>3. ASSUME NEW c \in Conns, Enqueue(c) PROVE TypeOK'
  <2>1. queue' \in Seq(Conns) /\ Len(queue') = Len(queue) + 1
    BY <1>3 DEF Enqueue
  <2>2. QED
    BY <1>3, <2>1 DEF Enqueue
<1>4. ASSUME NEW c \in Conns, ShedSpawn(c) \/ ShedResponds(c) PROVE TypeOK'
  <2>1. shed' \in Nat
    BY <1>4, ShedCounts
  <2>2. QED
    BY <1>4, <2>1 DEF ShedSpawn, ShedResponds
<1>5. ASSUME NEW c \in Conns, ShedSpawnFails(c) \/ ShedSaturated(c) PROVE TypeOK'
  BY <1>5 DEF ShedSpawnFails, ShedSaturated, SlotAfterSpawnFailure
<1>6. ASSUME NEW w \in Workers, LockReceiver(w) PROVE TypeOK'
  BY <1>6 DEF LockReceiver
<1>7. ASSUME NEW w \in Workers, Receive(w) PROVE TypeOK'
  <2>1. Head(queue) \in Conns /\ queue' \in Seq(Conns) /\ Len(queue') <= Len(queue)
    BY <1>7 DEF Receive
  <2>2. QED
    BY <1>7, <2>1 DEF Receive
<1>8. ASSUME NEW t \in Threads, NEW c \in Conns, AcquireIp(t, c) PROVE TypeOK'
  <2>1. ipCount' \in [Ips -> Nat]
    BY <1>8, AcquireCounts
  <2>2. QED
    BY <1>8, <2>1 DEF AcquireIp
<1>9. ASSUME NEW t \in Threads, NEW c \in Conns, Arrive(t, c) PROVE TypeOK'
  BY <1>9 DEF Arrive
<1>10. ASSUME NEW t \in Threads, NEW c \in Conns,
              Reject(t, c) \/ ArrivalEnds(t, c) \/ Dispatch(t, c) \/ Panic(t, c)
       PROVE  TypeOK'
  <2>1. stage[c] \in Handling /\ Close(t, c)
    BY <1>10 DEF Reject, ArrivalEnds, Dispatch, Panic, Unwind, At
  <2>2. ipCount' \in [Ips -> Nat]
    BY <2>1, CloseCounts
  <2>3. QED
    BY <2>1, <2>2 DEF Close
<1>11. CASE UNCHANGED vars
  BY <1>11 DEF vars
<1>12. QED
  BY <1>1, <1>2, <1>3, <1>4, <1>5, <1>6, <1>7, <1>8, <1>9, <1>10, <1>11
     DEF Next, AcceptThread, Handle

LEMMA HandNext == IInv /\ [Next]_vars => HandInv'
<1> SUFFICES ASSUME TypeOK, HandInv, QueueInv, [Next]_vars PROVE HandInv'
  BY DEF IInv
<1> USE DEF TypeOK, HandInv, InHand, Handling, Threads, Advance, LetGo
<1>1. ASSUME NEW c \in Conns, Connect(c) PROVE HandInv'
  BY <1>1 DEF Connect
<1>2. ASSUME NEW c \in Conns, Accept(c) PROVE HandInv'
  <2>1. /\ on[Acceptor] = NoConn /\ on' = [on EXCEPT ![Acceptor] = c]
        /\ \E to \in {"admit", "accepted"} : stage' = [stage EXCEPT ![c] = to]
        /\ UNCHANGED <<live, receiver>>
    BY <1>2 DEF Accept
  <2>2. on'[Acceptor] = c /\ \A t \in live : on'[t] = on[t]
    BY <2>1
  <2>3. \A d \in Conns : d # c => stage'[d] = stage[d]
    BY <2>1
  <2>4. ASSUME NEW d \in InHand' PROVE \E t \in live' \cup {Acceptor} : on'[t] = d
    <3>1. CASE d = c
      BY <2>2, <3>1
    <3>2. CASE d # c
      <4>1. d \in InHand /\ d # NoConn
        BY <2>3, <3>2
      <4>2. PICK t \in live \cup {Acceptor} : on[t] = d
        BY <4>1
      <4>3. t \in live
        BY <2>1, <4>1, <4>2
      <4>4. QED
        BY <2>1, <2>2, <4>2, <4>3
    <3>3. QED
      BY <3>1, <3>2
  <2>5. QED
    BY <2>1, <2>2, <2>4
<1>3. ASSUME NEW c \in Conns, AcceptThread(c) PROVE HandInv'
  <2>1. /\ on[Acceptor] = c /\ on' = [on EXCEPT ![Acceptor] = NoConn]
        /\ \E to \in {"queued", "shedding", "closed"} : stage' = [stage EXCEPT ![c] = to]
        /\ UNCHANGED <<live, receiver>>
    BY <1>3 DEF AcceptThread, Enqueue, ShedSpawn, ShedSpawnFails, ShedSaturated, QueueFull, Hold
  <2>2. \A t \in live : on'[t] = on[t]
    BY <2>1
  <2>3. c \notin InHand' /\ \A d \in Conns : d # c => stage'[d] = stage[d]
    BY <2>1
  <2>4. \A d \in InHand' : \E t \in live' \cup {Acceptor} : on'[t] = d
    BY <2>1, <2>2, <2>3
  <2>5. QED
    BY <2>1, <2>2, <2>4
<1>4. ASSUME NEW c \in Conns, ShedResponds(c) PROVE HandInv'
  BY <1>4 DEF ShedResponds
<1>5. ASSUME NEW w \in Workers, LockReceiver(w) PROVE HandInv'
  BY <1>5 DEF LockReceiver
<1>6. ASSUME NEW w \in Workers, Receive(w) PROVE HandInv'
  <2>1. w \in live /\ on[w] = NoConn /\ Head(queue) \in Conns
    BY <1>6 DEF Receive
  <2>2. QED
    BY <1>6, <2>1 DEF Receive
<1>7. ASSUME NEW t \in Threads, NEW c \in Conns, AcquireIp(t, c) \/ Arrive(t, c) PROVE HandInv'
  BY <1>7 DEF AcquireIp, Arrive, At
<1>8. ASSUME NEW t \in Threads, NEW c \in Conns,
             Reject(t, c) \/ ArrivalEnds(t, c) \/ Dispatch(t, c) \/ Panic(t, c)
      PROVE  HandInv'
  <2>1. on[t] = c /\ Close(t, c)
    BY <1>8 DEF Reject, ArrivalEnds, Dispatch, Panic, Unwind, At
  <2>2. /\ stage' = [stage EXCEPT ![c] = "closed"] /\ on' = [on EXCEPT ![t] = NoConn]
        /\ UNCHANGED <<live, receiver>>
    BY <2>1 DEF Close
  <2>3. ASSUME NEW d \in InHand' PROVE \E u \in live' \cup {Acceptor} : on'[u] = d
    <3>1. d # c /\ d \in InHand
      BY <2>2
    <3>2. PICK u \in live \cup {Acceptor} : on[u] = d
      BY <3>1
    <3>3. u # t /\ u \in Threads
      BY <2>1, <3>1, <3>2
    <3>4. on'[u] = on[u]
      BY <2>2, <3>3
    <3>5. QED
      BY <2>2, <3>2, <3>4
  <2>4. receiver' # NoConn => on'[receiver'] = NoConn
    BY <2>2
  <2>5. QED
    BY <2>3, <2>4
<1>9. CASE UNCHANGED vars
  BY <1>9 DEF vars
<1>10. QED
  BY <1>1, <1>2, <1>3, <1>4, <1>5, <1>6, <1>7, <1>8, <1>9 DEF Next, Handle

\* A move between stages other than "queued" is nothing to the channel.
LEMMA QueueKept ==
  ASSUME TypeOK, QueueInv, NEW c \in Conns, NEW to, Advance(c, to), UNCHANGED queue,
         stage[c] # "queued", to # "queued"
  PROVE  QueueInv'
<1>1. \A i \in 1 .. Len(queue) : queue[i] \in Conns
  BY DEF TypeOK
<1>2. \A d \in Conns : stage'[d] = "queued" <=> stage[d] = "queued"
  BY DEF TypeOK, Advance
<1>3. Queued' = Queued
  BY <1>2 DEF Queued
<1>4. \A i \in 1 .. Len(queue) : stage'[queue[i]] = "queued"
  BY <1>1, <1>2 DEF QueueInv
<1> QED BY <1>3, <1>4 DEF QueueInv

LEMMA QueueNext == IInv /\ [Next]_vars => QueueInv'
<1> SUFFICES ASSUME TypeOK, QueueInv, [Next]_vars PROVE QueueInv'
  BY DEF IInv
<1>1. ASSUME NEW c \in Conns, Connect(c) PROVE QueueInv'
  BY <1>1, QueueKept DEF Connect
<1>2. ASSUME NEW c \in Conns, Accept(c) PROVE QueueInv'
  <2>1. Advance(c, "admit") \/ Advance(c, "accepted")
    BY <1>2 DEF Accept
  <2>2. QED
    BY <1>2, <2>1, QueueKept DEF Accept
<1>3. ASSUME NEW c \in Conns, Enqueue(c) PROVE QueueInv'
  <2>1. stage[c] = "accepted" /\ queue' = Append(queue, c) /\ stage' = [stage EXCEPT ![c] = "queued"]
    BY <1>3 DEF Enqueue, Hold, Advance
  <2>2. /\ Len(queue') = Len(queue) + 1 /\ Len(queue) \in Nat
        /\ \A i \in 1 .. Len(queue) : queue'[i] = queue[i]
        /\ queue'[Len(queue) + 1] = c
    BY <2>1 DEF TypeOK
  <2>3. \A i \in 1 .. Len(queue) : queue[i] # c /\ queue[i] \in Conns
    BY <2>1 DEF QueueInv, TypeOK
  <2>4. \A i \in 1 .. Len(queue') : stage'[queue'[i]] = "queued"
    BY <2>1, <2>2, <2>3 DEF QueueInv, TypeOK
  <2>5. \A i, j \in 1 .. Len(queue') : queue'[i] = queue'[j] => i = j
    BY <2>2, <2>3 DEF QueueInv
  <2>6. \A d \in Queued' : \E i \in 1 .. Len(queue') : queue'[i] = d
    BY <2>1, <2>2 DEF QueueInv, Queued, TypeOK
  <2>7. QED
    BY <2>4, <2>5, <2>6 DEF QueueInv
<1>4. ASSUME NEW c \in Conns, ShedSpawn(c) \/ ShedSpawnFails(c) \/ ShedSaturated(c)
      PROVE  QueueInv'
  <2>1. stage[c] = "accepted" /\ UNCHANGED queue /\ (Advance(c, "shedding") \/ Advance(c, "closed"))
    BY <1>4 DEF ShedSpawn, ShedSpawnFails, ShedSaturated, QueueFull, Hold
  <2>2. QED
    BY <2>1, QueueKept
<1>5. ASSUME NEW c \in Conns, ShedResponds(c) PROVE QueueInv'
  BY <1>5, QueueKept DEF ShedResponds
<1>6. ASSUME NEW w \in Workers, LockReceiver(w) PROVE QueueInv'
  BY <1>6 DEF LockReceiver, QueueInv, Queued
<1>7. ASSUME NEW w \in Workers, Receive(w) PROVE QueueInv'
  <2>1. queue # <<>> /\ queue' = Tail(queue) /\ stage' = [stage EXCEPT ![Head(queue)] = "admit"]
    BY <1>7 DEF Receive, Advance
  <2>2. /\ Len(queue) \in Nat \ {0} /\ Len(queue') = Len(queue) - 1
        /\ Head(queue) = queue[1]
        /\ \A i \in 1 .. Len(queue') : queue'[i] = queue[i + 1]
    BY <2>1 DEF TypeOK
  <2>3. \A i \in 1 .. Len(queue') : i + 1 \in 1 .. Len(queue) /\ queue[i + 1] # queue[1]
                                    /\ queue[i + 1] \in Conns
    BY <2>2 DEF QueueInv, TypeOK
  <2>4. \A i \in 1 .. Len(queue') : stage'[queue'[i]] = "queued"
    BY <2>1, <2>2, <2>3 DEF QueueInv, TypeOK
  <2>5. \A i, j \in 1 .. Len(queue') : queue'[i] = queue'[j] => i = j
    <3>1. ASSUME NEW i \in 1 .. Len(queue'), NEW j \in 1 .. Len(queue'), queue'[i] = queue'[j]
          PROVE  i = j
      <4>1. queue[i + 1] = queue[j + 1]
        BY <2>2, <3>1
      <4>2. i + 1 = j + 1
        BY <2>3, <4>1 DEF QueueInv
      <4>3. QED
        BY <4>2
    <3>2. QED
      BY <3>1
  <2>6. ASSUME NEW d \in Queued' PROVE \E i \in 1 .. Len(queue') : queue'[i] = d
    <3>1. d \in Queued /\ d # queue[1]
      BY <2>1, <2>2 DEF Queued, TypeOK
    <3>2. PICK i \in 1 .. Len(queue) : queue[i] = d
      BY <3>1 DEF QueueInv
    <3>3. i - 1 \in 1 .. Len(queue') /\ (i - 1) + 1 = i
      BY <2>2, <3>1, <3>2
    <3>4. QED
      BY <2>2, <3>2, <3>3
  <2>7. QED
    BY <2>4, <2>5, <2>6 DEF QueueInv
<1>8. ASSUME NEW t \in Threads, NEW c \in Conns, Handle(t, c) PROVE QueueInv'
  <2>1. /\ stage[c] # "queued" /\ UNCHANGED queue
        /\ \E to \in {"arrival", "reject", "dispatch", "closed"} : Advance(c, to)
    BY <1>8 DEF Handle, AcquireIp, Reject, Arrive, ArrivalEnds, Dispatch, Panic, Unwind, Close, At
  <2>2. QED
    BY <2>1, QueueKept
<1>9. CASE UNCHANGED vars
  BY <1>9 DEF vars, QueueInv, Queued
<1>10. QED
  BY <1>1, <1>2, <1>3, <1>4, <1>5, <1>6, <1>7, <1>8, <1>9 DEF Next, AcceptThread

-----------------------------------------------------------------------------
(***************************************************************************)
(* The theorems.                                                           *)
(***************************************************************************)

LEMMA InitIInv == Init => IInv
<1> SUFFICES ASSUME Init PROVE IInv
  OBVIOUS
<1> USE DEF Init
<1>1. TypeOK
  BY DEF TypeOK, Stages, Threads
<1>2. HandInv /\ QueueInv
  BY DEF HandInv, QueueInv, InHand, Handling, Queued
<1>3. Open = {} /\ Shedding = {}
  BY DEF Open, Shedding
<1>4. CountInv
  <2>1. IsFiniteSet({}) /\ Cardinality({}) = 0
    BY FS_EmptySet
  <2>2. \A i \in Ips : ipCount[i] = 0
    OBVIOUS
  <2>3. IsFiniteSet(Open) /\ shed = Cardinality(Shedding) /\ shed <= ShedMax
    BY <1>3, <2>1
  <2>4. ASSUME NEW i \in Ips
        PROVE  ipCount[i] = Cardinality(PermittedAt(i)) /\ ipCount[i] <= MaxPerIp
    <3>1. PermittedAt(i) = {}
      BY DEF PermittedAt, Permitted
    <3>2. QED
      BY <2>1, <2>2, <3>1
  <2>5. QED
    BY <2>3, <2>4, Zenon DEF CountInv
<1>5. QED
  BY <1>1, <1>2, <1>4 DEF IInv

LEMMA Inductive == Spec => []IInv
<1>1. IInv /\ [Next]_vars => IInv'
  BY TypeNext, HandNext, QueueNext, CountNext DEF IInv
<1>2. QED
  BY InitIInv, <1>1, PTL DEF Spec

\* Every variable keeps its type: no counter of the listener goes below zero,
\* and the channel never holds more than its capacity.
THEOREM TypeCorrect == Spec => []TypeOK
<1>1. IInv => TypeOK
  BY DEF IInv
<1>2. QED
  BY Inductive, <1>1, PTL

\* The sockets the process holds: a hand of each thread, the channel, the
\* responders.
LEMMA OpenBound ==
  ASSUME IInv
  PROVE  Cardinality(Open) <= Cardinality(live) + QueueDepth + ShedMax + 1
<1> USE DEF IInv
<1>1. IsFiniteSet(live) /\ IsFiniteSet(live \cup {Acceptor})
      /\ Cardinality(live \cup {Acceptor}) = Cardinality(live) + 1
  <2>1. live \in SUBSET Workers /\ Acceptor \notin live
    BY DEF TypeOK
  <2>2. IsFiniteSet(live)
    BY <2>1, FS_Subset
  <2>3. QED
    BY <2>1, <2>2, FS_AddElement
<1>2. IsFiniteSet(InHand) /\ Cardinality(InHand) <= Cardinality(live) + 1
  BY <1>1, CoveredIsSmaller DEF HandInv
<1>3. IsFiniteSet(Queued) /\ Cardinality(Queued) <= QueueDepth
  <2>1. Len(queue) \in Nat /\ Len(queue) <= QueueDepth
    BY DEF TypeOK
  <2>2. IsFiniteSet(1 .. Len(queue)) /\ Cardinality(1 .. Len(queue)) = Len(queue)
    <3>1. 1 \in Int /\ Len(queue) \in Int
      BY <2>1
    <3>2. IsFiniteSet(1 .. Len(queue))
          /\ Cardinality(1 .. Len(queue)) = IF 1 > Len(queue) THEN 0 ELSE Len(queue) - 1 + 1
      BY <3>1, FS_Interval
    <3>3. QED
      BY <2>1, <3>2
  <2>3. IsFiniteSet(Queued) /\ Cardinality(Queued) <= Cardinality(1 .. Len(queue))
    BY <2>2, CoveredIsSmaller DEF QueueInv
  <2>4. Cardinality(Queued) \in Nat
    BY <2>3, FS_CardinalityType
  <2>5. QED
    BY <2>1, <2>2, <2>3, <2>4
<1>4. IsFiniteSet(Shedding) /\ Cardinality(Shedding) <= ShedMax
  <2>1. Shedding \in SUBSET Open
    BY DEF Shedding, Open
  <2>2. QED
    BY <2>1, FS_Subset DEF CountInv
<1>5. Open = (InHand \cup Queued) \cup Shedding
  BY DEF Open, InHand, Queued, Shedding, Handling, TypeOK, Stages
<1>6. /\ Cardinality(live) \in Nat /\ Cardinality(InHand) \in Nat /\ Cardinality(Queued) \in Nat
      /\ Cardinality(Shedding) \in Nat
  BY <1>1, <1>2, <1>3, <1>4, FS_CardinalityType
<1>7. IsFiniteSet(InHand \cup Queued)
      /\ Cardinality(InHand \cup Queued) <= Cardinality(InHand) + Cardinality(Queued)
  BY <1>2, <1>3, UnionBound
<1>8. Cardinality(Open) <= Cardinality(InHand \cup Queued) + Cardinality(Shedding)
  BY <1>4, <1>5, <1>7, UnionBound
<1>9. Cardinality(Open) \in Nat /\ Cardinality(InHand \cup Queued) \in Nat
  BY <1>7, FS_CardinalityType DEF CountInv
<1>10. QED
  BY <1>2, <1>3, <1>4, <1>6, <1>7, <1>8, <1>9

\* The per-IP tracker and shed_inflight count exactly what is held, and the
\* process never holds more sockets than its threads, its channel and its
\* responders, whatever handlers panic and whatever threads fail to spawn.
THEOREM PermitsAreExact == Spec => []PermitsExact
<1>1. IInv => PermitsExact
  <2> SUFFICES ASSUME IInv PROVE PermitsExact
    OBVIOUS
  <2>1. MaxPerIp > 0 =>
          \A i \in Ips :
            /\ ipCount[i] = Cardinality({c \in Permitted : IpOf[c] = i})
            /\ ipCount[i] <= MaxPerIp
    BY DEF IInv, CountInv, PermittedAt
  <2>2. shed = Cardinality({c \in Conns : stage[c] = "shedding"}) /\ shed <= ShedMax
    BY DEF IInv, CountInv, Shedding
  <2>3. QED
    BY <2>1, <2>2, OpenBound DEF PermitsExact
<1>2. QED
  BY Inductive, <1>1, PTL
=============================================================================
