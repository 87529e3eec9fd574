-------------------------- MODULE RemoteAuth_proofs -------------------------
(***************************************************************************)
(* Proofs about RemoteAuth, for every set of keys and of workers, every    *)
(* TTL and every bound on the clock.                                       *)
(***************************************************************************)
EXTENDS RemoteAuth, TLAPS

USE RemoteAuthAssumption

(***************************************************************************)
(* Type correctness.                                                       *)
(***************************************************************************)

LEMMA TypeInit == Init => TypeOK
<1> SUFFICES ASSUME Init PROVE TypeOK
  OBVIOUS
<1>1. req \in [Workers -> [key : Keys, hash : Hashes]]
  <2>1. {[key |-> k, hash |-> HashOf[k]] : k \in Keys} \subseteq [key : Keys, hash : Hashes]
    OBVIOUS
  <2>2. QED
    BY <2>1 DEF Init
<1>2. /\ pc \in [Threads -> WorkerPoints \cup {"wait"}]
      /\ pc[Poller] \in SyncPoints \cup {"wait"}
      /\ \A w \in Workers : pc[w] \in WorkerPoints
      /\ \A w \in Workers : pc[w] \in {"verify", "convoy"} => authz[w] \in Authz
  BY DEF Init, Threads, WorkerPoints
<1>3. QED
  BY <1>1, <1>2 DEF Init, TypeOK, Threads

\* Leaving a sync keeps the thread-local state well typed.
LEMMA ReturnTyped ==
  ASSUME TypeOK, NEW t \in Threads, Return(t)
  PROVE  /\ pc' \in [Threads -> WorkerPoints \cup {"wait"}]
         /\ pc'[Poller] \in SyncPoints \cup {"wait"}
         /\ \A w \in Workers : pc'[w] \in WorkerPoints
         /\ \A w \in Workers : pc'[w] \in {"verify", "convoy"} => authz[w] \in Authz
         /\ since' \in [Threads -> Nat]
         /\ upto' \in [Threads -> Nat]
         /\ frames' \in [Threads -> SUBSET Keys]
         /\ applying' \in [Threads -> SUBSET Keys]
  BY DEF TypeOK, Return, Goto, Threads, WorkerPoints, SyncPoints, Verdicts

LEMMA TypeNext == TypeOK /\ [Next]_vars => TypeOK'
<1> SUFFICES ASSUME TypeOK, [Next]_vars PROVE TypeOK'
  OBVIOUS
<1> USE DEF TypeOK, l0Vars, edgeVars, reqVars, syncVars
<1>1. ASSUME NEW k \in Keys, L0Revoke(k) PROVE TypeOK'
  BY <1>1 DEF L0Revoke
<1>2. CASE Tick
  BY <1>2 DEF Tick
<1>3. ASSUME NEW w \in Workers, Authenticate(w) PROVE TypeOK'
  <2> USE DEF Goto, Threads, WorkerPoints, Verdicts
  <2>1. ASSUME NEW k \in Keys, NEW h \in Hashes, Begin(w, k, h) PROVE TypeOK'
    BY <2>1 DEF Begin
  <2>2. CASE CheckRevoked(w)
    BY <2>2 DEF CheckRevoked
  <2>3. CASE CacheLookup(w)
    BY <2>3 DEF CacheLookup
  <2>4. ASSUME NEW answer \in Authz, Receive(w, answer) PROVE TypeOK'
    BY <2>4 DEF Receive
  <2>5. CASE L0AuthorizeError(w)
    BY <2>5 DEF L0AuthorizeError
  <2>6. CASE VerifyAndStore(w)
    <3>1. authz[w] \in Authz /\ req[w].key \in Keys
      BY <2>6 DEF VerifyAndStore
    <3>2. CASE AuthzAccepted(w)
      <4>1. [hash |-> authz[w].hash, exp |-> authz[w].exp] \in Entry
        BY <3>1 DEF Authz, Entry
      <4>2. cache' \in [Keys -> Entry \cup {NoAuthz}]
        BY <2>6, <3>2, <4>1 DEF VerifyAndStore
      <4>3. QED
        BY <2>6, <3>1, <3>2, <4>2 DEF VerifyAndStore
    <3>3. CASE ~AuthzAccepted(w)
      <4>1. PICK point \in {"unauthorized", "failed"} :
              /\ pc' = [pc EXCEPT ![w] = point] /\ authz' = [authz EXCEPT ![w] = NoAuthz]
              /\ UNCHANGED <<l0Vars, edgeVars, req, wasRevoked, nowMs, syncVars>>
        BY <2>6, <3>3 DEF VerifyAndStore
      <4>2. /\ pc' \in [Threads -> WorkerPoints \cup {"wait"}]
            /\ \A v \in Workers : pc'[v] \in WorkerPoints
            /\ \A v \in Workers : pc'[v] \in {"verify", "convoy"} => authz'[v] \in Authz
        BY <4>1
      <4>3. authz' \in [Workers -> Authz \cup {NoAuthz}] /\ pc'[Poller] = pc[Poller]
        BY <4>1
      <4>4. QED
        BY <4>1, <4>2, <4>3
    <3>4. QED
      BY <3>2, <3>3
  <2>7. CASE Convoy(w)
    <3>1. PICK point \in {"since", "admitted"} : Goto(w, point)
      BY <2>7 DEF Convoy
    <3>2. /\ pc' \in [Threads -> WorkerPoints \cup {"wait"}]
          /\ pc'[Poller] \in SyncPoints \cup {"wait"}
          /\ \A v \in Workers : pc'[v] \in WorkerPoints
      BY <3>1 DEF SyncPoints
    <3>3. /\ authz' \in [Workers -> Authz \cup {NoAuthz}]
          /\ \A v \in Workers : pc'[v] \in {"verify", "convoy"} => authz'[v] \in Authz
      BY <2>7, <3>1 DEF Convoy
    <3>4. due' \in BOOLEAN
      BY <2>7 DEF Convoy
    <3>5. QED
      BY <2>7, <3>2, <3>3, <3>4 DEF Convoy
  <2>8. ASSUME NEW exp \in now .. now + TTL, L0Authorize(w, exp) PROVE TypeOK'
    <3>1. [hash |-> HashOf[req[w].key], exp |-> exp, epoch |-> l0Epoch, sig |-> TRUE] \in Authz
      BY DEF Authz
    <3>2. QED
      BY <2>4, <2>8, <3>1 DEF L0Authorize
  <2>9. CASE UnverifiableAnswer(w)
    <3>1. [hash |-> req[w].hash, exp |-> now + TTL, epoch |-> l0Epoch, sig |-> FALSE] \in Authz
      BY DEF Authz
    <3>2. QED
      BY <2>4, <2>9, <3>1 DEF UnverifiableAnswer
  <2>10. QED
    BY <1>3, <2>1, <2>2, <2>3, <2>5, <2>6, <2>7, <2>8, <2>9 DEF Authenticate
<1>4. ASSUME NEW t \in Threads, Sync(t) PROVE TypeOK'
  <2> USE DEF Goto, Threads, WorkerPoints, SyncPoints
  <2>1. CASE ReadSince(t)
    BY <2>1 DEF ReadSince
  <2>2. CASE FetchOk(t)
    BY <2>2 DEF FetchOk
  <2>3. CASE FetchError(t)
    BY <2>3, ReturnTyped DEF FetchError, SyncFails
  <2>4. ASSUME NEW k \in Keys, ApplyFrame(t, k) PROVE TypeOK'
    BY <2>4 DEF ApplyFrame
  <2>5. CASE UncacheFrame(t)
    BY <2>5 DEF UncacheFrame
  <2>6. CASE RejectFrame(t)
    BY <2>6, ReturnTyped DEF RejectFrame, SyncFails
  <2>7. CASE StoreEpoch(t)
    BY <2>7, ReturnTyped DEF StoreEpoch
  <2>8. QED
    BY <1>4, <2>1, <2>2, <2>3, <2>4, <2>5, <2>6, <2>7 DEF Sync
<1>5. CASE Expire
  BY <1>5 DEF Expire
<1>6. CASE PollerWakes
  BY <1>6 DEF PollerWakes, Goto, Threads, SyncPoints, WorkerPoints
<1>7. CASE UNCHANGED vars
  BY <1>7 DEF vars
<1>8. QED
  BY <1>1, <1>2, <1>3, <1>4, <1>5, <1>6, <1>7 DEF Next

\* RemoteAuth never leaves its type: in particular the poller only waits and
\* syncs, and a worker never waits for the poll clock.
THEOREM TypeCorrect == Spec => []TypeOK
  BY TypeInit, TypeNext, PTL DEF Spec
(***************************************************************************)
(* The edge knows every revocation up to local_epoch.                      *)
(*                                                                         *)
(* EpochIsComplete is not inductive: what StoreEpoch stores was fetched    *)
(* earlier, from a `since` that was read earlier still.  The invariant     *)
(* carries both facts through the sync: nothing up to `since` is missing,  *)
(* and nothing up to `upto` is missing but the frames still to be applied. *)
(***************************************************************************)

EpochInv ==
  /\ localEpoch <= l0Epoch
  /\ \A k \in Keys : revEpoch[k] <= l0Epoch
  /\ RevocationsCompleteTo(localEpoch)

SyncInv(t) ==
  /\ pc[t] \in {"fetch", "apply", "uncache"} =>
       /\ since[t] <= l0Epoch
       /\ RevocationsCompleteTo(since[t])
  /\ pc[t] \in {"apply", "uncache"} =>
       /\ upto[t] <= l0Epoch
       /\ \A k \in Keys : Revoked(k) /\ revEpoch[k] <= upto[t]
                            => k \in revocations \cup frames[t]

IInv == TypeOK /\ EpochInv /\ \A t \in Threads : SyncInv(t)

\* A worker outside a sync moves itself only and leaves L0, the revocations
\* and the syncs alone.
LEMMA AuthenticateFrame ==
  ASSUME TypeOK, NEW w \in Workers, Authenticate(w)
  PROVE  /\ UNCHANGED <<l0Vars, revocations, localEpoch, syncVars>>
         /\ pc' = [pc EXCEPT ![w] = pc'[w]]
         /\ pc'[w] \notin {"fetch", "apply", "uncache"}
<1> USE DEF Goto, TypeOK, Threads, Verdicts, l0Vars, edgeVars, reqVars, syncVars
<1>1. ASSUME NEW k \in Keys, NEW h \in Hashes, Begin(w, k, h)
      PROVE  pc' = [pc EXCEPT ![w] = "check"]
  BY <1>1 DEF Begin
<1>2. ASSUME CheckRevoked(w)
      PROVE  \E point \in {"unauthorized", "lookup"} : pc' = [pc EXCEPT ![w] = point]
  BY <1>2 DEF CheckRevoked
<1>3. ASSUME CacheLookup(w)
      PROVE  \E point \in {"admitted", "authorize"} : pc' = [pc EXCEPT ![w] = point]
  BY <1>3 DEF CacheLookup
<1>4. ASSUME NEW answer, Receive(w, answer)
      PROVE  pc' = [pc EXCEPT ![w] = "verify"]
  BY <1>4 DEF Receive
<1>5. ASSUME L0AuthorizeError(w)
      PROVE  \E point \in {"unauthorized", "failed"} : pc' = [pc EXCEPT ![w] = point]
  BY <1>5 DEF L0AuthorizeError
<1>6. ASSUME VerifyAndStore(w)
      PROVE  \E point \in {"convoy", "unauthorized", "failed"} : pc' = [pc EXCEPT ![w] = point]
  BY <1>6 DEF VerifyAndStore
<1>7. ASSUME Convoy(w)
      PROVE  \E point \in {"since", "admitted"} : pc' = [pc EXCEPT ![w] = point]
  BY <1>7 DEF Convoy
<1>8. \E point \in WorkerPoints \ {"fetch", "apply", "uncache"} :
        pc' = [pc EXCEPT ![w] = point]
  BY <1>1, <1>2, <1>3, <1>4, <1>5, <1>6, <1>7
     DEF Authenticate, L0Authorize, UnverifiableAnswer, WorkerPoints, SyncPoints
<1>9. UNCHANGED <<l0Vars, revocations, localEpoch, syncVars>>
  BY DEF Authenticate, Begin, CheckRevoked, CacheLookup, L0Authorize, UnverifiableAnswer,
         Receive, L0AuthorizeError, VerifyAndStore, Convoy
<1>10. QED
  BY <1>8, <1>9

LEMMA EpochInit == Init => IInv
<1> SUFFICES ASSUME Init PROVE EpochInv /\ \A t \in Threads : SyncInv(t)
  BY TypeInit DEF IInv
<1>1. \A t \in Threads : pc[t] \notin {"fetch", "apply", "uncache"}
  BY DEF Init, Threads
<1>2. QED
  BY <1>1 DEF Init, EpochInv, SyncInv, RevocationsCompleteTo, Revoked

LEMMA EpochNext == IInv /\ [Next]_vars => IInv'
<1> SUFFICES ASSUME IInv, [Next]_vars PROVE EpochInv' /\ \A t \in Threads : SyncInv(t)'
  BY TypeNext DEF IInv
<1> USE DEF IInv, TypeOK, EpochInv, SyncInv, RevocationsCompleteTo, Revoked,
            l0Vars, edgeVars, reqVars, syncVars, Goto
<1>1. ASSUME NEW k \in Keys, L0Revoke(k)
      PROVE  EpochInv' /\ \A t \in Threads : SyncInv(t)'
  BY <1>1 DEF L0Revoke
<1>2. CASE Tick
  BY <1>2 DEF Tick
<1>3. ASSUME NEW w \in Workers, Authenticate(w)
      PROVE  EpochInv' /\ \A t \in Threads : SyncInv(t)'
  BY <1>3, AuthenticateFrame
<1>4. ASSUME NEW t \in Threads, Sync(t)
      PROVE  EpochInv' /\ \A u \in Threads : SyncInv(u)'
  <2>1. CASE ReadSince(t)
    BY <2>1 DEF ReadSince
  <2>2. CASE FetchOk(t)
    BY <2>2 DEF FetchOk
  <2>3. CASE FetchError(t)
    BY <2>3 DEF FetchError, SyncFails, Return
  <2>4. ASSUME NEW k \in Keys, ApplyFrame(t, k)
        PROVE  EpochInv' /\ \A u \in Threads : SyncInv(u)'
    BY <2>4 DEF ApplyFrame
  <2>5. CASE UncacheFrame(t)
    BY <2>5 DEF UncacheFrame
  <2>6. CASE RejectFrame(t)
    BY <2>6 DEF RejectFrame, SyncFails, Return
  <2>7. CASE StoreEpoch(t)
    BY <2>7 DEF StoreEpoch, AllApplied, Return
  <2>8. QED
    BY <1>4, <2>1, <2>2, <2>3, <2>4, <2>5, <2>6, <2>7 DEF Sync
<1>5. CASE Expire
  BY <1>5 DEF Expire
<1>6. CASE PollerWakes
  BY <1>6 DEF PollerWakes
<1>7. CASE UNCHANGED vars
  BY <1>7 DEF vars
<1>8. QED
  BY <1>1, <1>2, <1>3, <1>4, <1>5, <1>6, <1>7 DEF Next

\* In every reachable state the edge knows every revocation up to its
\* local_epoch, for any number of overlapping syncs: sync_revocations_from_l0
\* never skips a revocation, although it takes no lock around its steps.
THEOREM EpochComplete == Spec => []EpochIsComplete
<1>1. IInv => EpochIsComplete
  BY DEF IInv, EpochInv, EpochIsComplete
<1>2. QED
  BY <1>1, EpochInit, EpochNext, PTL DEF Spec

(***************************************************************************)
(* A key is refused TTL after its revocation.                              *)
(*                                                                         *)
(* Whatever authorization is cached or in flight was signed before the key *)
(* was revoked, so it expires no later than TTL after the revocation, or,  *)
(* of a key that is not revoked, no later than TTL from now.               *)
(***************************************************************************)

Deadline(k) == (IF Revoked(k) THEN revTime[k] ELSE now) + TTL

StalenessInv ==
  /\ \A k \in Keys : revTime[k] <= now
  /\ \A k \in Keys : cache[k] # NoAuthz => cache[k].exp <= Deadline(k)
  /\ \A w \in Workers :
       /\ nowMs[w] <= now
       /\ pc[w] = "verify" /\ authz[w].sig => authz[w].exp <= Deadline(req[w].key)
       /\ pc[w] \in {"convoy", "admitted"} \cup SyncPoints
            => nowMs[w] < Deadline(req[w].key)

\* A request past the first check did not begin with a key known as revoked.
CheckedInv ==
  \A w \in Workers :
    /\ pc[w] = "check" /\ wasRevoked[w] => req[w].key \in revocations
    /\ pc[w] \in {"lookup", "authorize", "verify", "convoy", "admitted"} \cup SyncPoints
         => ~wasRevoked[w]

\* A cached authorization carries the registered secret.
SecretInv ==
  /\ \A k \in Keys : cache[k] # NoAuthz => cache[k].hash = HashOf[k]
  /\ \A w \in Workers :
       /\ pc[w] = "verify" /\ authz[w].sig => authz[w].hash = HashOf[req[w].key]
       /\ pc[w] \in {"convoy", "admitted"} \cup SyncPoints
            => req[w].hash = HashOf[req[w].key]
AdmissionInv == TypeOK /\ StalenessInv /\ CheckedInv /\ SecretInv

LEMMA AdmissionInit == Init => AdmissionInv
<1> SUFFICES ASSUME Init PROVE StalenessInv /\ CheckedInv /\ SecretInv
  BY TypeInit DEF AdmissionInv
<1>1. \A w \in Workers : pc[w] = "idle"
  BY DEF Init, Threads
<1>2. StalenessInv
  <2>1. /\ \A k \in Keys : revTime[k] <= now /\ cache[k] = NoAuthz
        /\ \A w \in Workers : nowMs[w] <= now
    BY DEF Init
  <2>2. QED
    BY <1>1, <2>1 DEF StalenessInv, SyncPoints
<1>3. CheckedInv
  BY <1>1 DEF Init, CheckedInv, SyncPoints
<1>4. SecretInv
  BY <1>1 DEF Init, SecretInv, SyncPoints
<1>5. QED
  BY <1>2, <1>3, <1>4

\* A step of a sync, by whichever thread, empties the cache or leaves it alone,
\* adds revocations, and moves a worker from a sync point to another or to
\* "admitted".
LEMMA SyncFrame ==
  ASSUME TypeOK, NEW t \in Threads, Sync(t)
  PROVE  /\ UNCHANGED <<l0Vars, reqVars>>
         /\ revocations \subseteq revocations'
         /\ \A k \in Keys : cache'[k] \in {cache[k], NoAuthz}
         /\ \A w \in Workers : \/ pc'[w] = pc[w]
                               \/ /\ pc[w] \in SyncPoints
                                  /\ pc'[w] \in SyncPoints \cup {"admitted"}
<1> USE DEF Goto, TypeOK, Threads, SyncPoints, l0Vars, edgeVars, reqVars, syncVars
<1>1. CASE ReadSince(t)
  BY <1>1 DEF ReadSince
<1>2. CASE FetchOk(t)
  BY <1>2 DEF FetchOk
<1>3. CASE FetchError(t)
  BY <1>3 DEF FetchError, SyncFails, Return
<1>4. ASSUME NEW k \in Keys, ApplyFrame(t, k)
      PROVE  /\ UNCHANGED <<l0Vars, reqVars, cache>>
             /\ revocations \subseteq revocations'
             /\ pc[t] = "apply"
             /\ pc' = [pc EXCEPT ![t] = "uncache"]
  BY <1>4 DEF ApplyFrame
<1>5. CASE UncacheFrame(t)
  BY <1>5 DEF UncacheFrame
<1>6. CASE RejectFrame(t)
  BY <1>6 DEF RejectFrame, SyncFails, Return
<1>7. CASE StoreEpoch(t)
  BY <1>7 DEF StoreEpoch, Return
<1>8. QED
  BY <1>1, <1>2, <1>3, <1>4, <1>5, <1>6, <1>7 DEF Sync

LEMMA AdmissionNext == AdmissionInv /\ [Next]_vars => AdmissionInv'
<1> SUFFICES ASSUME AdmissionInv, [Next]_vars PROVE (StalenessInv /\ CheckedInv /\ SecretInv)'
  BY TypeNext DEF AdmissionInv
<1> USE DEF AdmissionInv, TypeOK, StalenessInv, CheckedInv, SecretInv, Deadline, Revoked,
            l0Vars, edgeVars, reqVars, syncVars, Goto
<1>1. ASSUME NEW k \in Keys, L0Revoke(k) PROVE (StalenessInv /\ CheckedInv /\ SecretInv)'
  BY <1>1 DEF L0Revoke
<1>2. CASE Tick
  <2>1. /\ now' = now + 1
        /\ UNCHANGED <<revEpoch, revTime, cache, revocations, pc, req, wasRevoked, nowMs, authz>>
    BY <1>2 DEF Tick
  <2>2. \A k \in Keys : Deadline(k) \in Nat /\ Deadline(k)' \in Nat /\ Deadline(k) <= Deadline(k)'
    BY <2>1
  <2>3. \A k \in Keys : cache'[k] # NoAuthz => cache'[k].exp <= Deadline(k)'
    <3>1. \A k \in Keys : cache[k] # NoAuthz => cache[k].exp \in Nat
      BY DEF Entry
    <3>2. QED
      BY <2>1, <2>2, <3>1
  <2>4. ASSUME NEW w \in Workers, pc'[w] = "verify", authz'[w].sig
        PROVE  (authz[w].exp <= Deadline(req[w].key))'
    <3>1. req[w].key \in Keys /\ authz[w].exp \in Nat /\ authz[w].exp <= Deadline(req[w].key)
      BY <2>1, <2>4 DEF Authz
    <3>2. QED
      BY <2>1, <2>2, <3>1
  <2>5. ASSUME NEW w \in Workers, pc'[w] \in {"convoy", "admitted"} \cup SyncPoints
        PROVE  (nowMs[w] < Deadline(req[w].key))'
    <3>1. req[w].key \in Keys /\ nowMs[w] \in Nat /\ nowMs[w] < Deadline(req[w].key)
      BY <2>1, <2>5
    <3>2. QED
      BY <2>1, <2>2, <3>1
  <2>6. QED
    BY <2>1, <2>3, <2>4, <2>5
<1>3. ASSUME NEW w \in Workers, Authenticate(w)
      PROVE  (StalenessInv /\ CheckedInv /\ SecretInv)'
  <2> USE DEF Threads, SyncPoints
  <2>1. ASSUME NEW k \in Keys, NEW h \in Hashes, Begin(w, k, h)
        PROVE  (StalenessInv /\ CheckedInv /\ SecretInv)'
    <3>1. pc'[w] = "check" /\ \A v \in Workers \ {w} : pc'[v] = pc[v] /\ req'[v] = req[v]
      BY <2>1 DEF Begin
    <3>2. StalenessInv'
      BY <2>1, <3>1 DEF Begin
    <3>3. CheckedInv'
      BY <2>1, <3>1 DEF Begin
    <3>4. SecretInv'
      BY <2>1, <3>1 DEF Begin
    <3>5. QED
      BY <3>2, <3>3, <3>4
  <2>2. CASE CheckRevoked(w)
    BY <2>2 DEF CheckRevoked, KnownRevoked
  <2>3. CASE CacheLookup(w)
    <3>1. CacheHit(w) => now < Deadline(req[w].key) /\ req[w].hash = HashOf[req[w].key]
      <4>1. req[w].key \in Keys /\ now \in Nat
        OBVIOUS
      <4>2. ASSUME CacheHit(w) PROVE cache[req[w].key].exp \in Nat
        BY <4>1, <4>2 DEF CacheHit, Entry
      <4> QED BY <4>1, <4>2 DEF CacheHit
    <3>2. /\ pc[w] = "lookup" /\ nowMs' = [nowMs EXCEPT ![w] = now]
          /\ \/ pc' = [pc EXCEPT ![w] = "admitted"] /\ CacheHit(w)
             \/ pc' = [pc EXCEPT ![w] = "authorize"]
          /\ UNCHANGED <<l0Vars, edgeVars, req, wasRevoked, authz>>
      BY <2>3 DEF CacheLookup
    <3>3. /\ \A v \in Workers \ {w} : pc'[v] = pc[v] /\ nowMs'[v] = nowMs[v]
          /\ nowMs'[w] = now
          /\ pc'[w] = "authorize" \/ (pc'[w] = "admitted" /\ CacheHit(w))
      BY <3>2
    <3>4. StalenessInv'
      BY <3>1, <3>2, <3>3
    <3>5. CheckedInv'
      BY <3>2, <3>3
    <3>6. SecretInv'
      BY <3>1, <3>2, <3>3
    <3> QED BY <3>4, <3>5, <3>6
  <2>4. ASSUME NEW exp \in now .. now + TTL, L0Authorize(w, exp)
        PROVE  (StalenessInv /\ CheckedInv /\ SecretInv)'
    BY <2>4 DEF L0Authorize, Receive
  <2>5. CASE UnverifiableAnswer(w)
    BY <2>5 DEF UnverifiableAnswer, Receive
  <2>6. CASE L0AuthorizeError(w)
    BY <2>6 DEF L0AuthorizeError
  <2>7. CASE VerifyAndStore(w)
    <3>1. authz[w] \in Authz /\ req[w].key \in Keys
      BY <2>7 DEF VerifyAndStore
    <3>2. CASE AuthzAccepted(w)
      <4>1. /\ pc[w] = "verify" /\ pc' = [pc EXCEPT ![w] = "convoy"]
            /\ cache' = [cache EXCEPT ![req[w].key] =
                            [hash |-> authz[w].hash, exp |-> authz[w].exp]]
            /\ UNCHANGED <<l0Vars, revocations, reqVars>>
        BY <2>7, <3>2 DEF VerifyAndStore
      <4>2. /\ authz[w].hash = HashOf[req[w].key] /\ authz[w].hash = req[w].hash
            /\ authz[w].exp <= Deadline(req[w].key) /\ nowMs[w] < authz[w].exp
        BY <3>2, <4>1 DEF AuthzAccepted
      <4>3. authz[w].exp \in Nat /\ nowMs[w] \in Nat /\ Deadline(req[w].key) \in Nat
        BY <3>1 DEF Authz
      <4>4. StalenessInv'
        BY <4>1, <4>2, <4>3
      <4>5. CheckedInv'
        BY <4>1
      <4>6. SecretInv'
        BY <4>1, <4>2
      <4>7. QED
        BY <4>4, <4>5, <4>6
    <3>3. CASE ~AuthzAccepted(w)
      BY <2>7, <3>3 DEF VerifyAndStore
    <3>4. QED
      BY <3>2, <3>3
  <2>8. CASE Convoy(w)
    BY <2>8 DEF Convoy
  <2>9. QED
    BY <1>3, <2>1, <2>2, <2>3, <2>4, <2>5, <2>6, <2>7, <2>8 DEF Authenticate
<1>4. ASSUME NEW t \in Threads, Sync(t) PROVE (StalenessInv /\ CheckedInv /\ SecretInv)'
  <2>1. /\ UNCHANGED <<revEpoch, revTime, now, req, wasRevoked, nowMs, authz>>
        /\ \A k \in Keys : cache'[k] # NoAuthz => cache'[k] = cache[k]
    BY <1>4, SyncFrame
  <2>2. \A w \in Workers : \/ pc'[w] = pc[w]
                           \/ pc[w] \in SyncPoints /\ pc'[w] \in SyncPoints \cup {"admitted"}
    BY <1>4, SyncFrame
  <2>3. \A w \in Workers :
          /\ pc'[w] = "verify" => pc[w] = "verify"
          /\ pc'[w] \in {"convoy", "admitted"} \cup SyncPoints
               => pc[w] \in {"convoy", "admitted"} \cup SyncPoints
    BY <2>2 DEF SyncPoints
  <2>4. StalenessInv'
    <3>1. \A w \in Workers : req[w].key \in Keys
      OBVIOUS
    <3>2. \A k \in Keys : Deadline(k)' = Deadline(k)
      BY <2>1
    <3>3. QED
      BY <2>1, <2>3, <3>1, <3>2
  <2>5. CheckedInv'
    BY <1>4, SyncFrame
  <2>6. SecretInv'
    BY <2>1, <2>3
  <2>7. QED
    BY <2>4, <2>5, <2>6
<1>5. CASE Expire
  BY <1>5 DEF Expire
<1>6. CASE PollerWakes
  BY <1>6 DEF PollerWakes
<1>7. CASE UNCHANGED vars
  BY <1>7 DEF vars
<1>8. QED
  BY <1>1, <1>2, <1>3, <1>4, <1>5, <1>6, <1>7 DEF Next

\* However the syncs fail, an authorization outlives the revocation of its key
\* by less than TTL at the edge: no request that reads the clock TTL or more
\* after L0 revoked its key is admitted.
THEOREM StalenessIsBounded == Spec => []StalenessBounded
<1>1. AdmissionInv => StalenessBounded
  BY DEF AdmissionInv, StalenessInv, StalenessBounded, Deadline
<1>2. QED
  BY <1>1, AdmissionInit, AdmissionNext, PTL DEF Spec

\* No request that begins once the edge knows its key to be revoked is
\* admitted, whatever stale entry a racing worker leaves in the cache.
THEOREM RevocationIsFinal == Spec => []NoAdmissionAfterRevocation
<1>1. AdmissionInv => NoAdmissionAfterRevocation
  BY DEF AdmissionInv, CheckedInv, NoAdmissionAfterRevocation
<1>2. QED
  BY <1>1, AdmissionInit, AdmissionNext, PTL DEF Spec

\* A request is admitted only with the registered secret of its key, from the
\* cache as well as from L0.
THEOREM SecretIsChecked == Spec => []OnlyRegisteredSecret
<1>1. AdmissionInv => OnlyRegisteredSecret
  BY DEF AdmissionInv, SecretInv, OnlyRegisteredSecret
<1>2. QED
  BY <1>1, AdmissionInit, AdmissionNext, PTL DEF Spec
=============================================================================
