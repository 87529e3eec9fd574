-------------------------- MODULE Admission_proofs --------------------------
(***************************************************************************)
(* Proofs about Admission, for any number of workers, addresses and keys,  *)
(* any limits and any length of the rate window.                           *)
(*                                                                         *)
(* How much a limiter lets pass within any window is not inductive: the    *)
(* windows that a limiter counts in begin with a request, the window of    *)
(* the property begins anywhere.  Paced ties the two together.  Of the     *)
(* events later than the start of the bucket there are fewer than the      *)
(* bucket has counted, because the request that started it is not later    *)
(* than itself.  When the bucket is started anew all events that are still *)
(* within a window are later than its old start, so that fewer than the    *)
(* limit are carried over.                                                 *)
(*                                                                         *)
(* An address is charged before it is authenticated, so what an address    *)
(* has been charged for is the calls of the history and the workers that   *)
(* are about to make one.                                                  *)
(***************************************************************************)
EXTENDS Admission, FiniteSetTheorems, TLAPS

\* Events within a window of time t.
Windowed(t, events) ==
  /\ events \subseteq Event
  /\ IsFiniteSet(events)
  /\ \A e \in events : e[1] <= t /\ t - e[1] < Window

Later(events, t) == {e \in events : e[1] > t}

\* What a bucket says, at time t, of the events it was charged for, when p more
\* are to come and there are never more than m of those.
Paced(t, b, events, p, limit, m) ==
  /\ b.count <= limit
  /\ b.count = 0 => events = {} /\ p = 0 /\ t - b.start >= Window
  /\ b.count > 0 =>
       /\ Cardinality(Later(events, b.start)) + p <= b.count + m - 1
       /\ Cardinality(events) + p <= b.count + limit + m - 1

HistoryInv ==
  /\ \A k \in Keys : Windowed(now, granted[k])
  /\ \A i \in Ips : Windowed(now, authCalls[i])

\* A limit that no policy exceeds, and each policy has one.
Highest(limit) == \A n \in KeyRpms : 0 < n /\ n <= limit

KeyInv ==
  \A k \in Keys, limit \in KeyRpms :
    Highest(limit) => Paced(now, keyRate[k], granted[k], 0, limit, 0)

\* The workers that address i was charged for and that have not yet called.
Waiting(i) == {w \in Workers : pc[w] = "authenticate" /\ req[w].ip = i}

IpInv ==
  IpRpm > 0 =>
    \A i \in Ips : Paced(now, ipRate[i], authCalls[i], Cardinality(Waiting(i)), IpRpm,
                         Cardinality(Workers))

\* A permit is held only while a quote is made.
Holders == {w \in Workers : permit[w]}

GateInv ==
  /\ \A w \in Workers : permit[w] => pc[w] = "quote"
  /\ ChallengeGateExact

IInv == TypeOK /\ HistoryInv /\ KeyInv /\ IpInv /\ GateInv

-----------------------------------------------------------------------------
(***************************************************************************)
(* The history.                                                            *)
(***************************************************************************)

\* There is a number that no event of time t has: so many events there are not.
LEMMA FreshExists ==
  ASSUME NEW E, IsFiniteSet(E), NEW t
  PROVE  \E n \in 0 .. Cardinality(E) : <<t, n>> \notin E
<1> SUFFICES ASSUME \A n \in 0 .. Cardinality(E) : <<t, n>> \in E PROVE FALSE
  OBVIOUS
<1> DEFINE N == 0 .. Cardinality(E)
           f == [n \in N |-> <<t, n>>]
<1>1. Cardinality(E) \in Nat
  BY FS_CardinalityType
<1>2. IsFiniteSet(N) /\ Cardinality(N) = Cardinality(E) + 1
  BY <1>1, FS_Interval
<1>3. f \in [N -> E]
  OBVIOUS
<1>4. Cardinality(E) < Cardinality(N)
  BY <1>1, <1>2
<1> HIDE DEF f, N
<1>5. \E x, y \in N : x # y /\ f[x] = f[y]
  BY <1>2, <1>3, <1>4, FS_PigeonHole
<1> QED BY <1>5 DEF f

\* What is recorded is one event of the present.
LEMMA RecordedIsNew ==
  ASSUME NEW t \in Nat, now = t, NEW E, Windowed(t, E), NEW limit \in Nat, limit > 0
  PROVE  /\ Windowed(t, Recorded(E, limit))
         /\ Cardinality(Recorded(E, limit)) = Cardinality(E) + 1
         /\ \E e \in Event : e[1] = t /\ Recorded(E, limit) = E \cup {e}
<1> DEFINE n == Fresh(E)
           e == <<t, n>>
<1>1. Cardinality(E) \in Nat
  BY FS_CardinalityType DEF Windowed
<1>2. n \in 0 .. Cardinality(E) /\ <<t, n>> \notin E
  BY FreshExists DEF Windowed, Fresh
<1>3. n \in Nat
  BY <1>1, <1>2
<1> HIDE DEF n
<1>4. Recorded(E, limit) = E \cup {e}
  BY DEF Recorded, n
<1>5. e \in Event /\ e[1] = t
  BY <1>3 DEF Event
<1> HIDE DEF e
<1>6. /\ IsFiniteSet(E \cup {e})
      /\ Cardinality(E \cup {e}) = Cardinality(E) + 1
  BY <1>2, FS_AddElement DEF Windowed, e
<1>7. Windowed(t, E \cup {e})
  BY <1>5, <1>6, AdmissionAssumption DEF Windowed
<1> QED BY <1>4, <1>5, <1>6, <1>7

\* Time leaves some of the events behind, and those it keeps are in the window.
LEMMA RecentIsWindowed ==
  ASSUME now \in Nat, NEW E, Windowed(now, E)
  PROVE  Recent(E) \subseteq E /\ Windowed(now + 1, Recent(E))
<1>1. Recent(E) \in SUBSET E
  BY DEF Recent
<1>2. IsFiniteSet(Recent(E))
  BY <1>1, FS_Subset DEF Windowed
<1>3. \A e \in E : e[1] \in Nat
  BY DEF Windowed, Event
<1> QED BY <1>1, <1>2, <1>3 DEF Windowed, Recent

\* Later events of fewer are fewer; of the events of a window all are later
\* than a time that lies before it, and none is later than its end.
LEMMA LaterOfFewer ==
  ASSUME NEW E, IsFiniteSet(E), NEW D \in SUBSET E, NEW s
  PROVE  /\ IsFiniteSet(D) /\ IsFiniteSet(Later(D, s)) /\ IsFiniteSet(Later(E, s))
         /\ Cardinality(D) \in Nat /\ Cardinality(E) \in Nat
         /\ Cardinality(Later(D, s)) \in Nat /\ Cardinality(Later(E, s)) \in Nat
         /\ Cardinality(D) <= Cardinality(E)
         /\ Cardinality(Later(D, s)) <= Cardinality(Later(E, s))
<1>1. IsFiniteSet(D) /\ Cardinality(D) <= Cardinality(E)
  BY FS_Subset
<1>2. Later(E, s) \in SUBSET E /\ Later(D, s) \in SUBSET Later(E, s)
  BY DEF Later
<1>3. IsFiniteSet(Later(E, s))
  BY <1>2, FS_Subset
<1>4. IsFiniteSet(Later(D, s)) /\ Cardinality(Later(D, s)) <= Cardinality(Later(E, s))
  BY <1>2, <1>3, FS_Subset
<1> QED BY <1>1, <1>3, <1>4, FS_CardinalityType

LEMMA LaterInWindow ==
  ASSUME NEW t \in Nat, NEW E, Windowed(t, E), NEW s \in Int
  PROVE  /\ t - s >= Window => Later(E, s) = E
         /\ Later(E, t) = {}
<1>1. \A e \in E : e[1] \in Nat /\ e[1] <= t /\ t - e[1] < Window
  BY DEF Windowed, Event
<1>2. Window \in Nat
  BY AdmissionAssumption
<1> QED BY <1>1, <1>2 DEF Later

\* One event more is at most one later event more.
LEMMA LaterOfOneMore ==
  ASSUME NEW E, IsFiniteSet(E), NEW e, NEW s
  PROVE  Cardinality(Later(E \cup {e}, s)) <= Cardinality(Later(E, s)) + 1
<1>1. IsFiniteSet(Later(E, s)) /\ Cardinality(Later(E, s)) \in Nat
  BY LaterOfFewer, E \in SUBSET E
<1>2. Later(E \cup {e}, s) \in SUBSET (Later(E, s) \cup {e})
  BY DEF Later
<1>3. IsFiniteSet(Later(E, s) \cup {e})
  BY <1>1, FS_AddElement
<1>4. Cardinality(Later(E, s) \cup {e}) <= Cardinality(Later(E, s)) + 1
  BY <1>1, FS_AddElement
<1>5. Cardinality(Later(E \cup {e}, s)) <= Cardinality(Later(E, s) \cup {e})
  BY <1>2, <1>3, FS_Subset
<1>6. Cardinality(Later(E \cup {e}, s)) \in Nat /\ Cardinality(Later(E, s) \cup {e}) \in Nat
  BY <1>2, <1>3, FS_Subset, FS_CardinalityType
<1> QED BY <1>1, <1>4, <1>5, <1>6

-----------------------------------------------------------------------------
(***************************************************************************)
(* The limiter.  In each lemma t is the present.                           *)
(***************************************************************************)

\* A charge counts one more, in the bucket or in a new one that begins now.
LEMMA ChargedIs ==
  ASSUME NEW t \in Nat, now = t, NEW b \in Bucket, NEW limit \in Nat, limit > 0,
         HasRoom(b, limit)
  PROVE  /\ Charged(b, limit) \in Bucket
         /\ \/ /\ t - b.start >= Window
               /\ Charged(b, limit).start = t /\ Charged(b, limit).count = 1
            \/ /\ t - b.start < Window /\ b.count < limit
               /\ Charged(b, limit).start = b.start
               /\ Charged(b, limit).count = b.count + 1
<1>1. CASE t - b.start >= Window
  <2>1. Current(b) = [start |-> t, count |-> 0]
    BY <1>1 DEF Current
  <2>2. Charged(b, limit) = [start |-> t, count |-> 1]
    BY <2>1 DEF Charged
  <2> QED BY <1>1, <2>2 DEF Bucket
<1>2. CASE ~(t - b.start >= Window)
  <2>1. Current(b) = b
    BY <1>2 DEF Current
  <2>2. b.count < limit
    BY <2>1 DEF HasRoom
  <2>3. Charged(b, limit) = [b EXCEPT !.count = @ + 1]
    BY <2>1 DEF Charged
  <2>4. t - b.start < Window
    BY <1>2, AdmissionAssumption DEF Bucket
  <2> QED BY <2>2, <2>3, <2>4 DEF Bucket
<1> QED BY <1>1, <1>2

\* A charge for something that is still to come.
LEMMA PacedCharge ==
  ASSUME NEW t \in Nat, now = t, NEW b \in Bucket, NEW E, Windowed(t, E),
         NEW p \in Nat, NEW m \in Nat, p < m, NEW n \in Nat, n > 0,
         HasRoom(b, n), Paced(t, b, E, p, n, m)
  PROVE  Paced(t, Charged(b, n), E, p + 1, n, m)
<1> DEFINE c == Charged(b, n)
           late == Cardinality(Later(E, b.start))
<1>1. b.start \in Int /\ b.count \in Nat
  BY DEF Bucket
<1>2. late \in Nat /\ Cardinality(E) \in Nat
  BY LaterOfFewer, E \in SUBSET E DEF Windowed
<1>3. CASE t - b.start >= Window
  <2>1. c.start = t /\ c.count = 1
    BY <1>3, ChargedIs, <1>1, AdmissionAssumption
  <2>2. Later(E, b.start) = E /\ Cardinality(Later(E, t)) = 0
    BY <1>1, <1>3, LaterInWindow, FS_EmptySet
  <2>3. Cardinality(E) + p <= n + m - 1
    <3>1. CASE b.count = 0
      BY <3>1, FS_EmptySet DEF Paced
    <3>2. CASE b.count > 0
      BY <1>1, <1>2, <2>2, <3>2 DEF Paced
    <3> QED BY <1>1, <3>1, <3>2
  <2> HIDE DEF c
  <2> QED BY <1>2, <2>1, <2>2, <2>3 DEF Paced, c
<1>4. CASE t - b.start < Window
  <2>1. c.start = b.start /\ c.count = b.count + 1 /\ b.count < n
    BY <1>4, ChargedIs, <1>1, AdmissionAssumption
  <2>2. b.count > 0
    BY <1>1, <1>4, AdmissionAssumption DEF Paced
  <2> HIDE DEF c
  <2> QED BY <1>1, <1>2, <2>1, <2>2 DEF Paced, c
<1> QED BY <1>1, <1>3, <1>4, AdmissionAssumption

\* What was to come is recorded.
LEMMA PacedRecord ==
  ASSUME NEW t \in Nat, now = t, NEW b \in Bucket, NEW E, Windowed(t, E),
         NEW p \in Nat, p > 0, NEW m \in Nat, NEW n \in Nat, n > 0,
         Paced(t, b, E, p, n, m)
  PROVE  Paced(t, b, Recorded(E, n), p - 1, n, m)
<1>1. b.start \in Int /\ b.count \in Nat /\ b.count > 0
  BY DEF Bucket, Paced
<1>2. PICK e \in Event : Recorded(E, n) = E \cup {e}
  BY RecordedIsNew
<1> DEFINE D == Recorded(E, n)
<1>3. Cardinality(D) = Cardinality(E) + 1 /\ IsFiniteSet(D)
  BY RecordedIsNew DEF Windowed
<1>4. Cardinality(Later(D, b.start)) <= Cardinality(Later(E, b.start)) + 1
  BY <1>2, LaterOfOneMore DEF Windowed
<1>5. /\ Cardinality(Later(E, b.start)) \in Nat /\ Cardinality(E) \in Nat
      /\ Cardinality(Later(D, b.start)) \in Nat
  BY <1>3, LaterOfFewer, E \in SUBSET E, D \in SUBSET D DEF Windowed
<1> HIDE DEF D
<1> QED BY <1>1, <1>3, <1>4, <1>5 DEF Paced, D

\* A request is charged and recorded at once, against a limit that no policy
\* exceeds.
LEMMA PacedPass ==
  ASSUME NEW t \in Nat, now = t, NEW b \in Bucket, NEW E, Windowed(t, E),
         NEW limit \in Nat, NEW n \in Nat, n > 0, n <= limit,
         HasRoom(b, n), Paced(t, b, E, 0, limit, 0)
  PROVE  Paced(t, Charged(b, n), Recorded(E, n), 0, limit, 0)
<1> DEFINE c == Charged(b, n)
           D == Recorded(E, n)
<1>1. b.start \in Int /\ b.count \in Nat
  BY DEF Bucket
<1>2. PICK e \in Event : e[1] = t /\ D = E \cup {e}
  BY RecordedIsNew
<1>3. Cardinality(D) = Cardinality(E) + 1 /\ Windowed(t, D)
  BY RecordedIsNew
<1>4. Cardinality(Later(D, b.start)) <= Cardinality(Later(E, b.start)) + 1
  BY <1>2, LaterOfOneMore DEF Windowed
<1>5. /\ Cardinality(Later(E, b.start)) \in Nat /\ Cardinality(E) \in Nat
      /\ Cardinality(Later(D, b.start)) \in Nat
  BY <1>3, LaterOfFewer, E \in SUBSET E, D \in SUBSET D DEF Windowed
<1>6. CASE t - b.start >= Window
  <2>1. c.start = t /\ c.count = 1
    BY <1>6, ChargedIs, <1>1, AdmissionAssumption
  <2>2. Later(E, b.start) = E /\ Cardinality(Later(D, t)) = 0
    BY <1>1, <1>3, <1>6, LaterInWindow, FS_EmptySet
  <2>3. Cardinality(E) <= limit - 1
    <3>1. CASE b.count = 0
      BY <3>1, FS_EmptySet DEF Paced
    <3>2. CASE b.count > 0
      BY <1>1, <1>5, <2>2, <3>2 DEF Paced
    <3> QED BY <1>1, <3>1, <3>2
  <2> HIDE DEF c, D
  <2> QED BY <1>3, <1>5, <2>1, <2>2, <2>3 DEF Paced, c, D
<1>7. CASE t - b.start < Window
  <2>1. c.start = b.start /\ c.count = b.count + 1 /\ b.count < n
    BY <1>7, ChargedIs, <1>1, AdmissionAssumption
  <2>2. b.count > 0
    BY <1>1, <1>7, AdmissionAssumption DEF Paced
  <2> HIDE DEF c, D
  <2> QED BY <1>1, <1>3, <1>4, <1>5, <2>1, <2>2 DEF Paced, c, D
<1> QED BY <1>1, <1>6, <1>7, AdmissionAssumption

\* Time passes.
LEMMA PacedTick ==
  ASSUME NEW t \in Nat, now = t, NEW b \in Bucket, NEW E, Windowed(t, E),
         NEW p \in Nat, NEW m \in Nat, NEW n \in Nat,
         Paced(t, b, E, p, n, m)
  PROVE  Paced(t + 1, b, Recent(E), p, n, m)
<1>1. b.start \in Int /\ b.count \in Nat /\ Window \in Nat
  BY AdmissionAssumption DEF Bucket
<1>2. Recent(E) \in SUBSET E
  BY DEF Recent
<1>3. /\ Cardinality(Recent(E)) \in Nat /\ Cardinality(E) \in Nat
      /\ Cardinality(Later(Recent(E), b.start)) \in Nat
      /\ Cardinality(Later(E, b.start)) \in Nat
      /\ Cardinality(Recent(E)) <= Cardinality(E)
      /\ Cardinality(Later(Recent(E), b.start)) <= Cardinality(Later(E, b.start))
  BY <1>2, LaterOfFewer DEF Windowed
<1> QED BY <1>1, <1>2, <1>3 DEF Paced

-----------------------------------------------------------------------------
(***************************************************************************)
(* Where the workers stand.                                                *)
(***************************************************************************)

\* The part of the type invariant about the workers and their requests.
StandingOK ==
  /\ pc \in [Workers -> Gates \cup {"idle", "upstream", "quote"}]
  /\ req \in [Workers -> Request \cup {None}]
  /\ \A w \in Workers : IF pc[w] = "idle" THEN req[w] = None ELSE req[w] \in Request
  /\ \A w \in Workers : pc[w] \in {"keyRate", "policy", "upstream"} =>
                         req[w].key \in Keys /\ req[w].rpm \in KeyRpms

\* One worker moves, and the requests of the others stay.
Moves(w, gate) ==
  /\ pc' = [pc EXCEPT ![w] = gate]
  /\ \A v \in Workers : v # w => req'[v] = req[v]

LEMMA AnswerMoves ==
  ASSUME StandingOK, NEW w \in Workers, Answer(w)
  PROVE  Moves(w, "idle") /\ StandingOK'
<1>1. Moves(w, "idle")
  BY DEF StandingOK, Answer, Moves
<1>2. /\ pc' \in [Workers -> Gates \cup {"idle", "upstream", "quote"}]
      /\ req' \in [Workers -> Request \cup {None}]
  BY DEF StandingOK, Answer
<1>3. ASSUME NEW v \in Workers
      PROVE  /\ IF pc'[v] = "idle" THEN req'[v] = None ELSE req'[v] \in Request
             /\ pc'[v] \in {"keyRate", "policy", "upstream"} =>
                  req'[v].key \in Keys /\ req'[v].rpm \in KeyRpms
  <2>1. CASE v = w
    BY <2>1 DEF StandingOK, Answer
  <2>2. CASE v # w
    <3>1. pc'[v] = pc[v] /\ req'[v] = req[v]
      BY <2>2 DEF StandingOK, Answer
    <3> QED BY <3>1 DEF StandingOK
  <2> QED BY <2>1, <2>2
<1> QED BY <1>1, <1>2, <1>3 DEF StandingOK

LEMMA GotoMoves ==
  ASSUME StandingOK, NEW w \in Workers, pc[w] # "idle",
         NEW gate \in Gates \cup {"upstream", "quote"},
         gate \in {"keyRate", "policy", "upstream"} => pc[w] \in {"keyRate", "policy"},
         Goto(w, gate)
  PROVE  Moves(w, gate) /\ StandingOK'
<1>1. Moves(w, gate) /\ req' = req
  BY DEF StandingOK, Goto, Moves
<1>2. pc' \in [Workers -> Gates \cup {"idle", "upstream", "quote"}]
  BY DEF StandingOK, Goto
<1>3. gate # "idle"
  BY DEF Gates
<1>4. ASSUME NEW v \in Workers
      PROVE  /\ IF pc'[v] = "idle" THEN req'[v] = None ELSE req'[v] \in Request
             /\ pc'[v] \in {"keyRate", "policy", "upstream"} =>
                  req'[v].key \in Keys /\ req'[v].rpm \in KeyRpms
  <2>1. CASE v = w
    <3>1. pc'[v] = gate
      BY <2>1 DEF StandingOK, Goto
    <3> QED BY <1>1, <1>3, <2>1, <3>1 DEF StandingOK
  <2>2. CASE v # w
    <3>1. pc'[v] = pc[v]
      BY <2>2 DEF StandingOK, Goto
    <3> QED BY <1>1, <3>1 DEF StandingOK
  <2> QED BY <2>1, <2>2
<1> QED BY <1>1, <1>2, <1>4 DEF StandingOK

\* A worker that is given a request, or a key and its rpm.
LEMMA TakeMoves ==
  ASSUME StandingOK, NEW w \in Workers, NEW r \in Request,
         NEW gate \in Gates \cup {"upstream", "quote"},
         gate \in {"keyRate", "policy", "upstream"} => r.key \in Keys /\ r.rpm \in KeyRpms,
         req' = [req EXCEPT ![w] = r],
         pc' = [pc EXCEPT ![w] = gate]
  PROVE  Moves(w, gate) /\ StandingOK'
<1>1. Moves(w, gate)
  BY DEF StandingOK, Moves
<1>2. /\ pc' \in [Workers -> Gates \cup {"idle", "upstream", "quote"}]
      /\ req' \in [Workers -> Request \cup {None}]
  BY DEF StandingOK
<1>3. gate # "idle"
  BY DEF Gates
<1>4. ASSUME NEW v \in Workers
      PROVE  /\ IF pc'[v] = "idle" THEN req'[v] = None ELSE req'[v] \in Request
             /\ pc'[v] \in {"keyRate", "policy", "upstream"} =>
                  req'[v].key \in Keys /\ req'[v].rpm \in KeyRpms
  <2>1. CASE v = w
    <3>1. pc'[v] = gate /\ req'[v] = r
      BY <2>1 DEF StandingOK
    <3> QED BY <1>3, <3>1
  <2>2. CASE v # w
    <3>1. pc'[v] = pc[v] /\ req'[v] = req[v]
      BY <2>2 DEF StandingOK
    <3> QED BY <3>1 DEF StandingOK
  <2> QED BY <2>1, <2>2
<1> QED BY <1>1, <1>2, <1>4 DEF StandingOK

\* The workers that wait are finitely many, and fewer than all while another
\* one stands elsewhere.
LEMMA WaitingCount ==
  ASSUME NEW i
  PROVE  /\ IsFiniteSet(Waiting(i)) /\ Cardinality(Waiting(i)) \in Nat
         /\ Cardinality(Workers) \in Nat
         /\ \A w \in Workers : pc[w] # "authenticate" =>
                                Cardinality(Waiting(i)) < Cardinality(Workers)
<1>1. IsFiniteSet(Workers)
  BY AdmissionAssumption
<1>2. Waiting(i) \in SUBSET Workers
  BY DEF Waiting
<1>3. IsFiniteSet(Waiting(i)) /\ Cardinality(Waiting(i)) \in Nat /\ Cardinality(Workers) \in Nat
  BY <1>1, <1>2, FS_Subset, FS_CardinalityType
<1>4. ASSUME NEW w \in Workers, pc[w] # "authenticate"
      PROVE  Cardinality(Waiting(i)) < Cardinality(Workers)
  <2>1. w \notin Waiting(i)
    BY <1>4 DEF Waiting
  <2>2. /\ IsFiniteSet(Waiting(i) \cup {w})
        /\ Cardinality(Waiting(i) \cup {w}) = Cardinality(Waiting(i)) + 1
    BY <1>3, <2>1, FS_AddElement
  <2>3. (Waiting(i) \cup {w}) \in SUBSET Workers
    BY <1>2
  <2>4. Cardinality(Waiting(i) \cup {w}) <= Cardinality(Workers)
    BY <1>1, <2>3, FS_Subset
  <2> QED BY <1>3, <2>2, <2>4
<1> QED BY <1>3, <1>4

\* Who waits changes only as a worker comes to authentication or leaves it.
LEMMA WaitingSame ==
  ASSUME StandingOK, NEW w \in Workers, NEW gate, Moves(w, gate),
         pc[w] # "authenticate", gate # "authenticate", NEW i
  PROVE  Waiting(i)' = Waiting(i)
  BY DEF StandingOK, Moves, Waiting

LEMMA WaitingMore ==
  ASSUME StandingOK, NEW w \in Workers, pc[w] # "authenticate",
         Goto(w, "authenticate"), NEW i
  PROVE  IF req[w].ip = i
         THEN Cardinality(Waiting(i)') = Cardinality(Waiting(i)) + 1
         ELSE Waiting(i)' = Waiting(i)
<1>1. CASE req[w].ip = i
  <2>1. Waiting(i)' = Waiting(i) \cup {w} /\ w \notin Waiting(i)
    BY <1>1 DEF StandingOK, Goto, Waiting
  <2> QED BY <1>1, <2>1, WaitingCount, FS_AddElement
<1>2. CASE req[w].ip # i
  BY <1>2 DEF StandingOK, Goto, Waiting
<1> QED BY <1>1, <1>2

LEMMA WaitingFewer ==
  ASSUME StandingOK, NEW w \in Workers, pc[w] = "authenticate", NEW gate,
         gate # "authenticate", Moves(w, gate), NEW i
  PROVE  IF req[w].ip = i
         THEN /\ Cardinality(Waiting(i)) > 0
              /\ Cardinality(Waiting(i)') = Cardinality(Waiting(i)) - 1
         ELSE Waiting(i)' = Waiting(i)
<1>1. CASE req[w].ip = i
  <2>1. Waiting(i)' = Waiting(i) \ {w} /\ w \in Waiting(i)
    BY <1>1 DEF StandingOK, Moves, Waiting
  <2>2. Cardinality(Waiting(i)') = Cardinality(Waiting(i)) - 1
    BY <2>1, WaitingCount, FS_RemoveElement
  <2>3. Cardinality(Waiting(i)) # 0
    BY <2>1, WaitingCount, FS_EmptySet
  <2> QED BY <1>1, <2>2, <2>3, WaitingCount
<1>2. CASE req[w].ip # i
  BY <1>2 DEF StandingOK, Moves, Waiting
<1> QED BY <1>1, <1>2

-----------------------------------------------------------------------------
(***************************************************************************)
(* The steps.                                                              *)
(***************************************************************************)

\* The rest of the type invariant.
SharedOK ==
  /\ manifest \in Manifests
  /\ now \in 0 .. MaxTime
  /\ permit \in [Workers -> BOOLEAN]
  /\ ipRate \in [Ips -> Bucket]
  /\ keyRate \in [Keys -> Bucket]
  /\ challengeRate \in [Ips -> Bucket]
  /\ inflight \in Nat
  /\ authCalls \in [Ips -> SUBSET Event]
  /\ granted \in [Keys -> SUBSET Event]

LEMMA TypeParts == TypeOK <=> SharedOK /\ StandingOK
  BY DEF TypeOK, SharedOK, StandingOK

\* The gate's permits are those of the quotes; others come and go around it.
LEMMA GateSame ==
  ASSUME StandingOK, GateInv, NEW w \in Workers, pc[w] # "quote",
         NEW gate, Moves(w, gate), UNCHANGED <<permit, inflight>>
  PROVE  GateInv'
<1>1. \A v \in Workers : permit'[v] => pc'[v] = "quote"
  BY DEF StandingOK, GateInv, Moves
<1>2. ChallengeGateExact'
  BY DEF GateInv, ChallengeGateExact
<1> QED BY <1>1, <1>2 DEF GateInv

\* A step that changes neither a limiter of the properties nor the history.
LEMMA QuietIInv ==
  ASSUME IInv, NEW w \in Workers, NEW gate, Moves(w, gate),
         pc[w] \notin {"authenticate", "quote"}, gate # "authenticate",
         StandingOK', challengeRate' \in [Ips -> Bucket],
         UNCHANGED <<manifest, now, permit, ipRate, keyRate, inflight, history>>
  PROVE  IInv'
<1>0. SharedOK /\ StandingOK
  BY TypeParts DEF IInv
<1>1. TypeOK'
  <2>1. SharedOK'
    BY <1>0 DEF SharedOK, history
  <2> QED BY <2>1, TypeParts DEF TypeOK, SharedOK, StandingOK
<1>2. HistoryInv' /\ KeyInv'
  BY DEF IInv, HistoryInv, KeyInv, history
<1>3. IpInv'
  <2> SUFFICES ASSUME IpRpm > 0, NEW i \in Ips
               PROVE  Paced(now', ipRate'[i], authCalls'[i], Cardinality(Waiting(i)'), IpRpm,
                            Cardinality(Workers))
    BY DEF IpInv
  <2>1. Waiting(i)' = Waiting(i)
    BY <1>0, WaitingSame
  <2> QED BY <2>1 DEF IInv, IpInv, history
<1>4. GateInv'
  BY <1>0, GateSame DEF IInv
<1> QED BY <1>1, <1>2, <1>3, <1>4 DEF IInv

LEMMA TickIInv == ASSUME IInv, Tick PROVE IInv'
<1>0. SharedOK /\ StandingOK
  BY TypeParts DEF IInv
<1>1. now \in Nat /\ now' = now + 1 /\ now' \in 0 .. MaxTime
  <2>1. MaxTime \in Nat
    BY AdmissionAssumption
  <2> QED BY <1>0, <2>1 DEF SharedOK, Tick
<1>2. HistoryInv'
  <2>1. ASSUME NEW k \in Keys PROVE Windowed(now', granted'[k])
    <3>1. granted'[k] = Recent(granted[k])
      BY DEF Tick
    <3> QED BY <1>1, <3>1, RecentIsWindowed DEF IInv, HistoryInv
  <2>2. ASSUME NEW i \in Ips PROVE Windowed(now', authCalls'[i])
    <3>1. authCalls'[i] = Recent(authCalls[i])
      BY DEF Tick
    <3> QED BY <1>1, <3>1, RecentIsWindowed DEF IInv, HistoryInv
  <2> QED BY <2>1, <2>2 DEF HistoryInv
<1>3. TypeOK'
  <2>1. /\ authCalls' \in [Ips -> SUBSET Event]
        /\ granted' \in [Keys -> SUBSET Event]
    BY <1>2 DEF Tick, HistoryInv, Windowed
  <2> QED BY <1>0, <1>1, <2>1 DEF TypeOK, SharedOK, StandingOK, Tick, limiters
<1>4. KeyInv'
  <2> SUFFICES ASSUME NEW k \in Keys, NEW limit \in KeyRpms, Highest(limit)
               PROVE  Paced(now', keyRate'[k], granted'[k], 0, limit, 0)
    BY DEF KeyInv
  <2>1. granted'[k] = Recent(granted[k]) /\ keyRate'[k] = keyRate[k]
    BY DEF Tick, limiters
  <2>2. limit \in Nat /\ keyRate[k] \in Bucket /\ Windowed(now, granted[k])
    BY <1>0, AdmissionAssumption DEF SharedOK, IInv, HistoryInv
  <2>3. Paced(now, keyRate[k], granted[k], 0, limit, 0)
    BY DEF IInv, KeyInv
  <2>4. Paced(now + 1, keyRate[k], Recent(granted[k]), 0, limit, 0)
    BY <1>1, <2>2, <2>3, PacedTick
  <2> QED BY <1>1, <2>1, <2>4
<1>5. IpInv'
  <2> SUFFICES ASSUME IpRpm > 0, NEW i \in Ips
               PROVE  Paced(now', ipRate'[i], authCalls'[i], Cardinality(Waiting(i)'), IpRpm,
                            Cardinality(Workers))
    BY DEF IpInv
  <2> DEFINE p == Cardinality(Waiting(i))
  <2>1. /\ authCalls'[i] = Recent(authCalls[i]) /\ ipRate'[i] = ipRate[i]
        /\ Waiting(i)' = Waiting(i)
    BY DEF Tick, limiters, Waiting
  <2>2. IpRpm \in Nat /\ ipRate[i] \in Bucket /\ Windowed(now, authCalls[i])
    BY <1>0, AdmissionAssumption DEF SharedOK, IInv, HistoryInv
  <2>3. Paced(now, ipRate[i], authCalls[i], p, IpRpm, Cardinality(Workers))
    BY DEF IInv, IpInv
  <2>4. p \in Nat /\ Cardinality(Workers) \in Nat
    BY WaitingCount
  <2> HIDE DEF p
  <2>5. Paced(now + 1, ipRate[i], Recent(authCalls[i]), p, IpRpm, Cardinality(Workers))
    BY <1>1, <2>2, <2>3, <2>4, PacedTick
  <2> QED BY <1>1, <2>1, <2>5 DEF p
<1>6. GateInv'
  BY DEF IInv, GateInv, ChallengeGateExact, Tick
<1> QED BY <1>2, <1>3, <1>4, <1>5, <1>6 DEF IInv

\* The address is charged, and the worker waits to call.
LEMMA EnforceIpLimitIInv ==
  ASSUME IInv, NEW w \in Workers, EnforceIpLimit(w)
  PROVE  IInv'
<1> DEFINE a == req[w].ip
<1>0. SharedOK /\ StandingOK
  BY TypeParts DEF IInv
<1>1. pc[w] = "ipRate" /\ req[w] \in Request /\ a \in Ips
  BY <1>0 DEF EnforceIpLimit, StandingOK, Request
<1>2. CASE ~HasRoom(ipRate[a], IpRpm)
  <2>1. Answer(w) /\ UNCHANGED <<ipRate, manifest, now, permit, keyRate, challengeRate, inflight,
                                 history>>
    BY <1>2 DEF EnforceIpLimit
  <2> QED BY <1>0, <1>1, <2>1, AnswerMoves, QuietIInv DEF SharedOK
<1>3. CASE HasRoom(ipRate[a], IpRpm)
  <2>1. /\ ipRate' = [ipRate EXCEPT ![a] = Charged(@, IpRpm)]
        /\ Goto(w, "authenticate")
        /\ UNCHANGED <<manifest, now, permit, keyRate, challengeRate, inflight, history>>
    BY <1>3 DEF EnforceIpLimit
  <2>2. Moves(w, "authenticate") /\ StandingOK'
    BY <1>0, <1>1, <2>1, GotoMoves DEF Gates
  <2>3. now \in Nat /\ IpRpm \in Nat
    BY <1>0, AdmissionAssumption DEF SharedOK
  <2>4. Charged(ipRate[a], IpRpm) \in Bucket
    <3>1. CASE IpRpm = 0
      BY <1>0, <1>1, <3>1 DEF Charged, SharedOK
    <3>2. CASE IpRpm > 0
      BY <1>0, <1>1, <1>3, <2>3, <3>2, ChargedIs DEF SharedOK
    <3> QED BY <2>3, <3>1, <3>2
  <2>5. TypeOK'
    <3>1. ipRate' \in [Ips -> Bucket]
      BY <1>0, <1>1, <2>1, <2>4 DEF SharedOK
    <3>2. SharedOK'
      BY <1>0, <2>1, <3>1 DEF SharedOK, history
    <3> QED BY <2>2, <3>2 DEF TypeOK, SharedOK, StandingOK
  <2>6. HistoryInv' /\ KeyInv'
    BY <2>1 DEF IInv, HistoryInv, KeyInv, history
  <2>7. IpInv'
    <3> SUFFICES ASSUME IpRpm > 0, NEW i \in Ips
                 PROVE  Paced(now', ipRate'[i], authCalls'[i], Cardinality(Waiting(i)'), IpRpm,
                              Cardinality(Workers))
      BY DEF IpInv
    <3> DEFINE p == Cardinality(Waiting(i))
    <3>1. Paced(now, ipRate[i], authCalls[i], p, IpRpm, Cardinality(Workers))
      BY DEF IInv, IpInv
    <3>2. now' = now /\ authCalls'[i] = authCalls[i]
      BY <2>1 DEF history
    <3>3. CASE i # a
      <4>1. ipRate'[i] = ipRate[i] /\ Waiting(i)' = Waiting(i)
        BY <1>0, <1>1, <2>1, <3>3, WaitingMore DEF SharedOK
      <4> QED BY <3>1, <3>2, <4>1
    <3>4. CASE i = a
      <4>1. ipRate'[i] = Charged(ipRate[i], IpRpm) /\ Cardinality(Waiting(i)') = p + 1
        BY <1>0, <1>1, <2>1, <3>4, WaitingMore DEF SharedOK
      <4>2. p \in Nat /\ Cardinality(Workers) \in Nat /\ p < Cardinality(Workers)
        BY <1>1, WaitingCount
      <4>3. ipRate[i] \in Bucket /\ Windowed(now, authCalls[i]) /\ HasRoom(ipRate[i], IpRpm)
        BY <1>0, <1>3, <3>4 DEF SharedOK, IInv, HistoryInv
      <4> HIDE DEF p
      <4>4. Paced(now, Charged(ipRate[i], IpRpm), authCalls[i], p + 1, IpRpm,
                  Cardinality(Workers))
        BY <2>3, <3>1, <4>2, <4>3, PacedCharge
      <4> QED BY <3>2, <4>1, <4>4
    <3> QED BY <3>3, <3>4
  <2>8. GateInv'
    BY <1>0, <1>1, <2>1, <2>2, GateSame DEF IInv
  <2> QED BY <2>5, <2>6, <2>7, <2>8 DEF IInv
<1> QED BY <1>2, <1>3

\* The worker calls: its charge becomes an event.
LEMMA AuthenticationIInv ==
  ASSUME IInv, NEW w \in Workers, ReachAuthentication(w), NEW gate, Moves(w, gate),
         gate # "authenticate", StandingOK'
  PROVE  IInv'
<1> DEFINE a == req[w].ip
<1>0. SharedOK /\ StandingOK
  BY TypeParts DEF IInv
<1>1. pc[w] = "authenticate" /\ req[w] \in Request /\ a \in Ips
  BY <1>0 DEF ReachAuthentication, StandingOK, Request
<1>2. /\ authCalls' = [authCalls EXCEPT ![a] = Recorded(@, IpRpm)]
      /\ UNCHANGED <<manifest, now, permit, ipRate, keyRate, challengeRate, inflight, granted>>
  BY DEF ReachAuthentication, limiters
<1>3. now \in Nat /\ IpRpm \in Nat
  BY <1>0, AdmissionAssumption DEF SharedOK
<1>4. ASSUME NEW i \in Ips PROVE Windowed(now, authCalls'[i])
  <2>1. Windowed(now, authCalls[i])
    BY DEF IInv, HistoryInv
  <2>2. CASE i # a \/ IpRpm = 0
    <3>1. authCalls'[i] = authCalls[i]
      BY <1>0, <1>2, <2>2 DEF SharedOK, Recorded
    <3> QED BY <2>1, <3>1
  <2>3. CASE i = a /\ IpRpm > 0
    <3>1. authCalls'[i] = Recorded(authCalls[i], IpRpm)
      BY <1>0, <1>2, <2>3 DEF SharedOK
    <3> QED BY <1>3, <2>1, <2>3, <3>1, RecordedIsNew
  <2> QED BY <1>3, <2>2, <2>3
<1>5. HistoryInv' /\ KeyInv'
  BY <1>2, <1>4 DEF IInv, HistoryInv, KeyInv
<1>6. TypeOK'
  <2>1. authCalls' \in [Ips -> SUBSET Event]
    BY <1>0, <1>2, <1>4 DEF SharedOK, Windowed
  <2>2. SharedOK'
    BY <1>0, <1>2, <2>1 DEF SharedOK
  <2> QED BY <2>2 DEF TypeOK, SharedOK, StandingOK
<1>7. IpInv'
  <2> SUFFICES ASSUME IpRpm > 0, NEW i \in Ips
               PROVE  Paced(now', ipRate'[i], authCalls'[i], Cardinality(Waiting(i)'), IpRpm,
                            Cardinality(Workers))
    BY DEF IpInv
  <2> DEFINE p == Cardinality(Waiting(i))
  <2>1. Paced(now, ipRate[i], authCalls[i], p, IpRpm, Cardinality(Workers))
    BY DEF IInv, IpInv
  <2>2. now' = now /\ ipRate'[i] = ipRate[i]
    BY <1>2
  <2>3. CASE i # a
    <3>1. authCalls'[i] = authCalls[i] /\ Waiting(i)' = Waiting(i)
      BY <1>0, <1>1, <1>2, <2>3, WaitingFewer DEF SharedOK
    <3> QED BY <2>1, <2>2, <3>1
  <2>4. CASE i = a
    <3>1. /\ authCalls'[i] = Recorded(authCalls[i], IpRpm)
          /\ p > 0 /\ Cardinality(Waiting(i)') = p - 1
      BY <1>0, <1>1, <1>2, <2>4, WaitingFewer DEF SharedOK
    <3>2. p \in Nat /\ Cardinality(Workers) \in Nat
      BY WaitingCount
    <3>3. ipRate[i] \in Bucket /\ Windowed(now, authCalls[i])
      BY <1>0 DEF SharedOK, IInv, HistoryInv
    <3> HIDE DEF p
    <3>4. Paced(now, ipRate[i], Recorded(authCalls[i], IpRpm), p - 1, IpRpm,
                Cardinality(Workers))
      BY <1>3, <2>1, <3>1, <3>2, <3>3, PacedRecord
    <3> QED BY <2>2, <3>1, <3>4
  <2> QED BY <2>3, <2>4
<1>8. GateInv'
  BY <1>0, <1>1, <1>2, GateSame DEF IInv
<1> QED BY <1>5, <1>6, <1>7, <1>8 DEF IInv

LEMMA AuthenticateIInv ==
  ASSUME IInv, NEW w \in Workers, NEW k \in Keys, NEW n \in KeyRpms, Authenticate(w, k, n)
  PROVE  IInv'
<1>0. StandingOK
  BY TypeParts DEF IInv
<1>1. CASE req[w].route = "unsupported"
  BY <1>0, <1>1, AnswerMoves, AuthenticationIInv DEF Authenticate
<1>2. CASE req[w].route # "unsupported"
  <2> DEFINE r == [req[w] EXCEPT !.key = k, !.rpm = n]
  <2>1. pc[w] = "authenticate" /\ req[w] \in Request
    BY <1>0 DEF Authenticate, ReachAuthentication, StandingOK
  <2>2. r \in Request /\ r.key = k /\ r.rpm = n
    BY <2>1 DEF Request
  <2>3. req' = [req EXCEPT ![w] = r] /\ pc' = [pc EXCEPT ![w] = "keyRate"]
    BY <1>0, <1>2 DEF Authenticate, StandingOK
  <2> HIDE DEF r
  <2>4. Moves(w, "keyRate") /\ StandingOK'
    BY <1>0, <2>2, <2>3, TakeMoves DEF Gates
  <2> QED BY <2>4, AuthenticationIInv DEF Authenticate
<1> QED BY <1>1, <1>2

\* The key is charged and its request passes, under the rpm it was given.
LEMMA EnforceRateLimitIInv ==
  ASSUME IInv, NEW w \in Workers, EnforceRateLimit(w)
  PROVE  IInv'
<1> DEFINE a == req[w].key
           n == req[w].rpm
           g == IF req[w].route = "models" THEN "upstream" ELSE "policy"
<1>0. SharedOK /\ StandingOK
  BY TypeParts DEF IInv
<1>1. pc[w] = "keyRate" /\ a \in Keys /\ n \in KeyRpms
  BY <1>0 DEF EnforceRateLimit, StandingOK
<1>2. CASE ~HasRoom(keyRate[a], n)
  <2>1. Answer(w) /\ UNCHANGED <<keyRate, granted, manifest, now, permit, ipRate, challengeRate,
                                 inflight, authCalls>>
    BY <1>2 DEF EnforceRateLimit
  <2> QED BY <1>0, <1>1, <2>1, AnswerMoves, QuietIInv DEF SharedOK, history
<1>3. CASE HasRoom(keyRate[a], n)
  <2>1. /\ keyRate' = [keyRate EXCEPT ![a] = Charged(@, n)]
        /\ granted' = [granted EXCEPT ![a] = Recorded(@, n)]
        /\ Goto(w, g)
        /\ UNCHANGED <<manifest, now, permit, ipRate, challengeRate, inflight, authCalls>>
    BY <1>3 DEF EnforceRateLimit
  <2>2. Moves(w, g) /\ StandingOK' /\ g # "authenticate"
    BY <1>0, <1>1, <2>1, GotoMoves DEF Gates
  <2> HIDE DEF g
  <2>3. now \in Nat /\ n \in Nat /\ keyRate[a] \in Bucket
    <3>1. n \in Nat
      BY <1>1, AdmissionAssumption
    <3>2. now \in Nat
      BY <1>0 DEF SharedOK
    <3>3. keyRate[a] \in Bucket
      BY <1>0, <1>1 DEF SharedOK
    <3> QED BY <3>1, <3>2, <3>3
  <2>4. Charged(keyRate[a], n) \in Bucket
    <3>1. CASE n = 0
      BY <2>3, <3>1 DEF Charged
    <3>2. CASE n > 0
      BY <1>3, <2>3, <3>2, ChargedIs
    <3> QED BY <2>3, <3>1, <3>2
  <2>5. ASSUME NEW k \in Keys PROVE Windowed(now, granted'[k])
    <3>1. Windowed(now, granted[k])
      BY DEF IInv, HistoryInv
    <3>2. CASE k # a \/ n = 0
      <4>1. granted'[k] = granted[k]
        BY <1>0, <2>1, <3>2 DEF SharedOK, Recorded
      <4> QED BY <3>1, <4>1
    <3>3. CASE k = a /\ n > 0
      <4>1. granted'[k] = Recorded(granted[k], n)
        BY <1>0, <2>1, <3>3 DEF SharedOK
      <4> QED BY <2>3, <3>1, <3>3, <4>1, RecordedIsNew
    <3> QED BY <2>3, <3>2, <3>3
  <2>6. HistoryInv'
    BY <2>1, <2>5 DEF IInv, HistoryInv
  <2>7. TypeOK'
    <3>1. granted' \in [Keys -> SUBSET Event] /\ keyRate' \in [Keys -> Bucket]
      BY <1>0, <1>1, <2>1, <2>4, <2>5 DEF SharedOK, Windowed
    <3>2. SharedOK'
      BY <1>0, <2>1, <3>1 DEF SharedOK
    <3> QED BY <2>2, <3>2 DEF TypeOK, SharedOK, StandingOK
  <2>8. KeyInv'
    <3> SUFFICES ASSUME NEW k \in Keys, NEW limit \in KeyRpms, Highest(limit)
                 PROVE  Paced(now', keyRate'[k], granted'[k], 0, limit, 0)
      BY DEF KeyInv
    <3>1. Paced(now, keyRate[k], granted[k], 0, limit, 0) /\ now' = now
      BY <2>1 DEF IInv, KeyInv
    <3>2. CASE k # a
      <4>1. keyRate'[k] = keyRate[k] /\ granted'[k] = granted[k]
        BY <1>0, <2>1, <3>2 DEF SharedOK
      <4> QED BY <3>1, <4>1
    <3>3. CASE k = a
      <4>1. keyRate'[k] = Charged(keyRate[k], n) /\ granted'[k] = Recorded(granted[k], n)
        BY <1>0, <2>1, <3>3 DEF SharedOK
      <4>2. limit \in Nat /\ n > 0 /\ n <= limit
        BY <1>1, AdmissionAssumption DEF Highest
      <4>3. Windowed(now, granted[k]) /\ HasRoom(keyRate[k], n) /\ keyRate[k] \in Bucket
        BY <1>3, <2>3, <3>3 DEF IInv, HistoryInv
      <4>4. Paced(now, Charged(keyRate[k], n), Recorded(granted[k], n), 0, limit, 0)
        BY <2>3, <3>1, <4>2, <4>3, PacedPass
      <4> QED BY <3>1, <4>1, <4>4
    <3> QED BY <3>2, <3>3
  <2>9. IpInv'
    <3> SUFFICES ASSUME IpRpm > 0, NEW i \in Ips
                 PROVE  Paced(now', ipRate'[i], authCalls'[i], Cardinality(Waiting(i)'), IpRpm,
                              Cardinality(Workers))
      BY DEF IpInv
    <3>1. Waiting(i)' = Waiting(i)
      BY <1>0, <1>1, <2>2, WaitingSame
    <3> QED BY <2>1, <3>1 DEF IInv, IpInv
  <2>10. GateInv'
    BY <1>0, <1>1, <2>1, <2>2, GateSame DEF IInv
  <2> QED BY <2>6, <2>7, <2>8, <2>9, <2>10 DEF IInv
<1> QED BY <1>2, <1>3

\* A permit is taken from the gate, and given back.
LEMMA TryAcquireIInv ==
  ASSUME IInv, NEW w \in Workers, TryAcquire(w)
  PROVE  IInv'
<1>0. SharedOK /\ StandingOK
  BY TypeParts DEF IInv
<1>1. pc[w] = "inflight" /\ MaxInflight \in Nat /\ inflight \in Nat
  BY <1>0, AdmissionAssumption DEF TryAcquire, SharedOK
<1>2. CASE ~(MaxInflight = 0 \/ inflight < MaxInflight)
  <2>1. Answer(w) /\ UNCHANGED <<manifest, now, permit, ipRate, keyRate, challengeRate, inflight,
                                 history>>
    BY <1>2 DEF TryAcquire, limiters
  <2> QED BY <1>0, <1>1, <2>1, AnswerMoves, QuietIInv DEF SharedOK
<1>3. CASE MaxInflight = 0 \/ inflight < MaxInflight
  <2>1. /\ Goto(w, "quote")
        /\ permit' = [permit EXCEPT ![w] = MaxInflight > 0]
        /\ inflight' = inflight + (IF MaxInflight > 0 THEN 1 ELSE 0)
        /\ UNCHANGED <<manifest, now, ipRate, keyRate, challengeRate, history>>
    BY <1>3 DEF TryAcquire, limiters
  <2>2. Moves(w, "quote") /\ StandingOK'
    BY <1>0, <1>1, <2>1, GotoMoves
  <2>3. TypeOK'
    <3>1. permit' \in [Workers -> BOOLEAN]
      BY <1>0, <2>1 DEF SharedOK
    <3>2. inflight' \in Nat
      BY <1>1, <2>1
    <3>3. SharedOK'
      BY <1>0, <2>1, <3>1, <3>2 DEF SharedOK, history
    <3> QED BY <2>2, <3>3 DEF TypeOK, SharedOK, StandingOK
  <2>4. HistoryInv' /\ KeyInv'
    BY <2>1 DEF IInv, HistoryInv, KeyInv, history
  <2>5. IpInv'
    <3> SUFFICES ASSUME IpRpm > 0, NEW i \in Ips
                 PROVE  Paced(now', ipRate'[i], authCalls'[i], Cardinality(Waiting(i)'), IpRpm,
                              Cardinality(Workers))
      BY DEF IpInv
    <3>1. Waiting(i)' = Waiting(i)
      BY <1>0, <1>1, <2>2, WaitingSame
    <3> QED BY <2>1, <3>1 DEF IInv, IpInv, history
  <2>6. \A v \in Workers : permit'[v] => pc'[v] = "quote"
    BY <1>0, <2>1 DEF IInv, GateInv, SharedOK, StandingOK, Goto
  <2>7. ChallengeGateExact'
    <3> SUFFICES ASSUME MaxInflight > 0
                 PROVE  inflight' = Cardinality(Holders') /\ inflight' <= MaxInflight
      BY DEF ChallengeGateExact, Holders
    <3>1. inflight = Cardinality(Holders)
      BY DEF IInv, GateInv, ChallengeGateExact, Holders
    <3>2. inflight' = inflight + 1 /\ inflight < MaxInflight
      BY <1>1, <1>3, <2>1
    <3>3. ~permit[w]
      BY <1>1 DEF IInv, GateInv
    <3>4. Holders' = Holders \cup {w} /\ w \notin Holders
      <4>1. permit' = [permit EXCEPT ![w] = TRUE]
        BY <2>1
      <4> QED BY <1>0, <3>3, <4>1 DEF Holders, SharedOK
    <3>5. IsFiniteSet(Holders)
      <4>1. Holders \in SUBSET Workers
        BY DEF Holders
      <4> QED BY <4>1, FS_Subset, AdmissionAssumption
    <3>6. Cardinality(Holders') = Cardinality(Holders) + 1
      BY <3>4, <3>5, FS_AddElement
    <3> QED BY <1>1, <3>1, <3>2, <3>6
  <2> QED BY <2>3, <2>4, <2>5, <2>6, <2>7 DEF IInv, GateInv
<1> QED BY <1>2, <1>3

LEMMA QuoteEndsIInv ==
  ASSUME IInv, NEW w \in Workers, QuoteEnds(w)
  PROVE  IInv'
<1>0. SharedOK /\ StandingOK
  BY TypeParts DEF IInv
<1>1. /\ pc[w] = "quote" /\ Answer(w)
      /\ inflight' = InflightAfter(w)
      /\ permit' = [permit EXCEPT ![w] = FALSE]
      /\ UNCHANGED <<manifest, now, ipRate, keyRate, challengeRate, history>>
  BY DEF QuoteEnds, limiters
<1>2. Moves(w, "idle") /\ StandingOK'
  BY <1>0, <1>1, AnswerMoves
<1>3. MaxInflight \in Nat /\ inflight \in Nat
  BY <1>0, AdmissionAssumption DEF SharedOK
<1>4. TypeOK'
  <2>1. permit' \in [Workers -> BOOLEAN]
    BY <1>0, <1>1 DEF SharedOK
  <2>2. inflight' \in Nat
    BY <1>1, <1>3 DEF InflightAfter
  <2>3. SharedOK'
    BY <1>0, <1>1, <2>1, <2>2 DEF SharedOK, history
  <2> QED BY <1>2, <2>3 DEF TypeOK, SharedOK, StandingOK
<1>5. HistoryInv' /\ KeyInv'
  BY <1>1 DEF IInv, HistoryInv, KeyInv, history
<1>6. IpInv'
  <2> SUFFICES ASSUME IpRpm > 0, NEW i \in Ips
               PROVE  Paced(now', ipRate'[i], authCalls'[i], Cardinality(Waiting(i)'), IpRpm,
                            Cardinality(Workers))
    BY DEF IpInv
  <2>1. Waiting(i)' = Waiting(i)
    BY <1>0, <1>1, <1>2, WaitingSame
  <2> QED BY <1>1, <2>1 DEF IInv, IpInv, history
<1>7. \A v \in Workers : permit'[v] => pc'[v] = "quote"
  BY <1>0, <1>1, <1>2 DEF IInv, GateInv, SharedOK, StandingOK, Moves
<1>8. ChallengeGateExact'
  <2> SUFFICES ASSUME MaxInflight > 0
               PROVE  inflight' = Cardinality(Holders') /\ inflight' <= MaxInflight
    BY DEF ChallengeGateExact, Holders
  <2>1. inflight = Cardinality(Holders) /\ inflight <= MaxInflight
    BY DEF IInv, GateInv, ChallengeGateExact, Holders
  <2>2. IsFiniteSet(Holders)
    <3>1. Holders \in SUBSET Workers
      BY DEF Holders
    <3> QED BY <3>1, FS_Subset, AdmissionAssumption
  <2>3. CASE ~permit[w]
    <3>1. Holders' = Holders /\ inflight' = inflight
      BY <1>0, <1>1, <2>3 DEF Holders, SharedOK, InflightAfter
    <3> QED BY <2>1, <3>1
  <2>4. CASE permit[w]
    <3>1. Holders' = Holders \ {w} /\ w \in Holders
      BY <1>0, <1>1, <2>4 DEF Holders, SharedOK
    <3>2. Cardinality(Holders') = Cardinality(Holders) - 1
      BY <2>2, <3>1, FS_RemoveElement
    <3>3. inflight # 0
      BY <2>1, <2>2, <3>1, FS_EmptySet
    <3>4. inflight' = inflight - 1
      BY <1>1, <1>3, <2>4, <3>3 DEF InflightAfter
    <3> QED BY <1>3, <2>1, <3>2, <3>4
  <2> QED BY <2>3, <2>4
<1> QED BY <1>4, <1>5, <1>6, <1>7, <1>8 DEF IInv, GateInv

-----------------------------------------------------------------------------

LEMMA InitIInv == Init => IInv
<1> SUFFICES ASSUME Init PROVE IInv
  OBVIOUS
<1>0. /\ Window \in Nat \ {0} /\ MaxTime \in Nat /\ IsFiniteSet(Workers)
      /\ IpRpm \in Nat /\ KeyRpms \subseteq Nat /\ MaxInflight \in Nat
  BY AdmissionAssumption
<1>1. TypeOK
  <2>1. NoBucket \in Bucket
    BY <1>0 DEF NoBucket, Bucket
  <2>2. now \in 0 .. MaxTime
    BY <1>0 DEF Init
  <2>3. SharedOK
    BY <2>1, <2>2 DEF Init, SharedOK
  <2>4. StandingOK
    BY DEF Init, StandingOK
  <2> QED BY <2>3, <2>4 DEF TypeOK, SharedOK, StandingOK
<1>2. Windowed(0, {})
  BY FS_EmptySet DEF Windowed
<1>3. HistoryInv
  BY <1>2 DEF Init, HistoryInv
<1>4. \A n \in Nat, m \in Nat : Paced(0, NoBucket, {}, 0, n, m)
  BY <1>0 DEF Paced, NoBucket
<1>5. KeyInv
  BY <1>0, <1>4 DEF Init, KeyInv
<1>6. IpInv
  <2> SUFFICES ASSUME NEW i \in Ips
               PROVE  Paced(now, ipRate[i], authCalls[i], Cardinality(Waiting(i)), IpRpm,
                            Cardinality(Workers))
    BY DEF IpInv
  <2>1. Waiting(i) = {}
    BY DEF Init, Waiting
  <2>2. Cardinality(Waiting(i)) = 0
    BY <2>1, FS_EmptySet
  <2>3. Cardinality(Workers) \in Nat
    BY <1>0, FS_CardinalityType
  <2> QED BY <1>0, <1>4, <2>2, <2>3 DEF Init
<1>7. GateInv
  <2>1. Holders = {}
    BY DEF Init, Holders
  <2>2. Cardinality(Holders) = 0
    BY <2>1, FS_EmptySet
  <2>3. ChallengeGateExact
    BY <1>0, <2>2 DEF Init, ChallengeGateExact, Holders
  <2>4. \A w \in Workers : ~permit[w]
    BY DEF Init
  <2> QED BY <2>3, <2>4 DEF GateInv
<1> QED BY <1>1, <1>3, <1>5, <1>6, <1>7 DEF IInv

LEMMA BeginIInv ==
  ASSUME IInv, NEW w \in Workers, NEW r \in Requested, NEW i \in Ips, NEW bench \in BOOLEAN,
         Begin(w, r, i, bench)
  PROVE  IInv'
<1> DEFINE q == [route |-> r, ip |-> i, nowMs |-> now, key |-> None, rpm |-> None]
<1>0. SharedOK /\ StandingOK
  BY TypeParts DEF IInv
<1>1. r \in Routes
  BY AdmissionAssumption
<1>2. FirstGate(r, bench) \in {"quote", "challengeRate", "ipRate", "maintenance"}
  BY <1>1 DEF FirstGate, Routes
<1>3. q \in Request
  BY <1>0, <1>1 DEF Request, SharedOK
<1>4. /\ pc[w] = "idle" /\ req' = [req EXCEPT ![w] = q]
      /\ pc' = [pc EXCEPT ![w] = FirstGate(r, bench)]
      /\ UNCHANGED <<manifest, now, permit, ipRate, keyRate, challengeRate, inflight, history>>
  BY DEF Begin, limiters
<1> HIDE DEF q
<1>5. Moves(w, FirstGate(r, bench)) /\ StandingOK'
  BY <1>0, <1>2, <1>3, <1>4, TakeMoves DEF Gates
<1> QED BY <1>0, <1>2, <1>4, <1>5, QuietIInv DEF SharedOK

LEMMA ChallengeLimitIInv ==
  ASSUME IInv, NEW w \in Workers, ChallengeLimit(w)
  PROVE  IInv'
<1> DEFINE a == req[w].ip
<1>0. SharedOK /\ StandingOK
  BY TypeParts DEF IInv
<1>1. pc[w] = "challengeRate" /\ a \in Ips
  BY <1>0 DEF ChallengeLimit, StandingOK, Request
<1>2. UNCHANGED <<manifest, now, permit, ipRate, keyRate, inflight, history>>
  BY DEF ChallengeLimit
<1>3. CASE ~HasRoom(challengeRate[a], ChallengeRpm)
  <2>1. Answer(w) /\ UNCHANGED challengeRate
    BY <1>3 DEF ChallengeLimit
  <2> QED BY <1>0, <1>1, <1>2, <2>1, AnswerMoves, QuietIInv DEF SharedOK
<1>4. CASE HasRoom(challengeRate[a], ChallengeRpm)
  <2>1. /\ challengeRate' = [challengeRate EXCEPT ![a] = Charged(@, ChallengeRpm)]
        /\ Goto(w, "inflight")
    BY <1>4 DEF ChallengeLimit
  <2>2. Charged(challengeRate[a], ChallengeRpm) \in Bucket
    <3>1. now \in Nat /\ ChallengeRpm \in Nat /\ challengeRate[a] \in Bucket
      BY <1>0, <1>1, AdmissionAssumption DEF SharedOK
    <3>2. CASE ChallengeRpm = 0
      BY <3>1, <3>2 DEF Charged
    <3>3. CASE ChallengeRpm > 0
      BY <1>4, <3>1, <3>3, ChargedIs
    <3> QED BY <3>1, <3>2, <3>3
  <2>3. challengeRate' \in [Ips -> Bucket]
    BY <1>0, <1>1, <2>1, <2>2 DEF SharedOK
  <2>4. Moves(w, "inflight") /\ StandingOK'
    BY <1>0, <1>1, <2>1, GotoMoves DEF Gates
  <2> QED BY <1>1, <1>2, <2>3, <2>4, QuietIInv
<1> QED BY <1>3, <1>4

LEMMA NextIInv == IInv /\ [Next]_vars => IInv'
<1> SUFFICES ASSUME IInv, [Next]_vars PROVE IInv'
  OBVIOUS
<1>0. SharedOK /\ StandingOK
  BY TypeParts DEF IInv
<1>1. CASE Tick
  BY <1>1, TickIInv
<1>2. CASE \E w \in Workers : Handle(w)
  <2> PICK w \in Workers : Handle(w)
    BY <1>2
  <2>1. ASSUME NEW r \in Requested, NEW i \in Ips, NEW bench \in BOOLEAN, Begin(w, r, i, bench)
        PROVE  IInv'
    BY <2>1, BeginIInv
  <2>2. CASE CheckMaintenance(w)
    <3>1. /\ pc[w] = "maintenance"
          /\ Answer(w) \/ Goto(w, "ipRate")
          /\ UNCHANGED <<manifest, now, permit, ipRate, keyRate, challengeRate, inflight, history>>
      BY <2>2 DEF CheckMaintenance, limiters
    <3>2. CASE Answer(w)
      BY <1>0, <3>1, <3>2, AnswerMoves, QuietIInv DEF SharedOK
    <3>3. CASE Goto(w, "ipRate")
      <4>1. Moves(w, "ipRate") /\ StandingOK'
        BY <1>0, <3>1, <3>3, GotoMoves DEF Gates
      <4> QED BY <1>0, <3>1, <4>1, QuietIInv DEF SharedOK
    <3> QED BY <3>1, <3>2, <3>3
  <2>3. CASE EnforceIpLimit(w)
    BY <2>3, EnforceIpLimitIInv
  <2>4. ASSUME NEW k \in Keys, NEW n \in KeyRpms, Authenticate(w, k, n) PROVE IInv'
    BY <2>4, AuthenticateIInv
  <2>5. CASE AuthenticateFails(w)
    BY <1>0, <2>5, AnswerMoves, AuthenticationIInv DEF AuthenticateFails
  <2>6. CASE EnforceRateLimit(w)
    BY <2>6, EnforceRateLimitIInv
  <2>7. CASE EnforcePolicy(w)
    <3>1. /\ pc[w] = "policy"
          /\ Goto(w, "upstream") \/ Answer(w)
          /\ UNCHANGED <<manifest, now, permit, ipRate, keyRate, challengeRate, inflight, history>>
      BY <2>7 DEF EnforcePolicy, limiters
    <3>2. CASE Answer(w)
      BY <1>0, <3>1, <3>2, AnswerMoves, QuietIInv DEF SharedOK
    <3>3. CASE Goto(w, "upstream")
      <4>1. Moves(w, "upstream") /\ StandingOK'
        BY <1>0, <3>1, <3>3, GotoMoves
      <4> QED BY <1>0, <3>1, <4>1, QuietIInv DEF SharedOK
    <3> QED BY <3>1, <3>2, <3>3
  <2>8. CASE UpstreamEnds(w)
    <3>1. /\ pc[w] = "upstream" /\ Answer(w)
          /\ UNCHANGED <<manifest, now, permit, ipRate, keyRate, challengeRate, inflight, history>>
      BY <2>8 DEF UpstreamEnds, limiters
    <3> QED BY <1>0, <3>1, AnswerMoves, QuietIInv DEF SharedOK
  <2>9. CASE ChallengeLimit(w)
    BY <2>9, ChallengeLimitIInv
  <2>10. CASE TryAcquire(w)
    BY <2>10, TryAcquireIInv
  <2>11. CASE QuoteEnds(w)
    BY <2>11, QuoteEndsIInv
  <2> QED
    BY <2>1, <2>2, <2>3, <2>4, <2>5, <2>6, <2>7, <2>8, <2>9, <2>10, <2>11 DEF Handle
<1>3. CASE UNCHANGED vars
  <2>1. TypeOK'
    BY <1>0, <1>3 DEF vars, limiters, history, TypeOK, SharedOK, StandingOK
  <2>2. HistoryInv' /\ KeyInv'
    BY <1>3 DEF IInv, HistoryInv, KeyInv, vars, limiters, history
  <2>3. IpInv'
    BY <1>3 DEF IInv, IpInv, Waiting, vars, limiters, history
  <2>4. GateInv'
    BY <1>3 DEF IInv, GateInv, ChallengeGateExact, vars
  <2> QED BY <2>1, <2>2, <2>3, <2>4 DEF IInv
<1> QED BY <1>1, <1>2, <1>3 DEF Next

-----------------------------------------------------------------------------

LEMMA Invariance == Spec => []IInv
  BY InitIInv, NextIInv, PTL DEF Spec

\* Buckets, counters and requests keep their types: a request has a key and an
\* rpm by the time its key is charged (handle_from_ex).
THEOREM TypeCorrect == Spec => []TypeOK
  BY Invariance, PTL DEF IInv

\* Within the length of a window, wherever it begins, fewer than twice the
\* largest rpm of its policies pass the limiter of one key, for any number of
\* workers and whatever policy each request was given (RateLimiter::check).
THEOREM KeyBurst == Spec => []KeyBurstBounded
<1>1. IInv => KeyBurstBounded
  <2> SUFFICES ASSUME IInv, NEW k \in Keys, NEW limit \in KeyRpms, Highest(limit)
               PROVE  Cardinality(granted[k]) < 2 * limit
    BY DEF KeyBurstBounded, Highest
  <2>1. Paced(now, keyRate[k], granted[k], 0, limit, 0)
    BY DEF IInv, KeyInv
  <2>2. limit \in Nat /\ limit > 0
    BY AdmissionAssumption DEF Highest
  <2>3. keyRate[k].count \in Nat
    BY DEF IInv, TypeOK, Bucket
  <2>4. Cardinality(granted[k]) \in Nat
    BY FS_CardinalityType DEF IInv, HistoryInv, Windowed
  <2>5. CASE keyRate[k].count = 0
    <3>1. granted[k] = {}
      BY <2>1, <2>5 DEF Paced
    <3>2. Cardinality(granted[k]) = 0
      BY <3>1, FS_EmptySet
    <3> QED BY <2>2, <3>2
  <2>6. CASE keyRate[k].count > 0
    BY <2>1, <2>2, <2>3, <2>4, <2>6 DEF Paced
  <2> QED BY <2>3, <2>5, <2>6
<1> QED BY <1>1, Invariance, PTL

\* One address reaches authentication, and so L0, fewer than twice its limit
\* within the length of a window, and once more per worker
\* (enforce_ip_api_limit comes before authenticate_bearer).
THEOREM AuthStorm == Spec => []AuthStormCapped
<1>1. IInv => AuthStormCapped
  <2> SUFFICES ASSUME IInv, IpRpm > 0, NEW i \in Ips
               PROVE  Cardinality(authCalls[i]) < 2 * IpRpm + Cardinality(Workers)
    BY DEF AuthStormCapped
  <2> DEFINE p == Cardinality(Waiting(i))
  <2>1. Paced(now, ipRate[i], authCalls[i], p, IpRpm, Cardinality(Workers))
    BY DEF IInv, IpInv
  <2>2. IpRpm \in Nat /\ p \in Nat /\ Cardinality(Workers) \in Nat
    BY AdmissionAssumption, WaitingCount
  <2>3. ipRate[i].count \in Nat
    BY DEF IInv, TypeOK, Bucket
  <2>4. Cardinality(authCalls[i]) \in Nat
    BY FS_CardinalityType DEF IInv, HistoryInv, Windowed
  <2> HIDE DEF p
  <2>5. CASE ipRate[i].count = 0
    <3>1. authCalls[i] = {}
      BY <2>1, <2>5 DEF Paced
    <3>2. Cardinality(authCalls[i]) = 0
      BY <3>1, FS_EmptySet
    <3> QED BY <2>2, <3>2
  <2>6. CASE ipRate[i].count > 0
    BY <2>1, <2>2, <2>3, <2>4, <2>6 DEF Paced
  <2> QED BY <2>3, <2>5, <2>6
<1> QED BY <1>1, Invariance, PTL

\* The challenge gate counts the quotes that hold a permit, never more than its
\* limit, whatever bypasses it (InflightGate::try_acquire and the permit's drop).
THEOREM ChallengeGate == Spec => []ChallengeGateExact
  BY Invariance, PTL DEF IInv, GateInv

=============================================================================
