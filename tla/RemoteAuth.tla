----------------------------- MODULE RemoteAuth -----------------------------
(***************************************************************************)
(* The remote authenticator of the OpenAPI edge                            *)
(* (crates/openapi-core/src/remote_auth.rs).                               *)
(*                                                                         *)
(* Every worker thread of the edge authenticates its request against       *)
(*   - a set of revoked key ids learnt from L0 (`revocations`),            *)
(*   - a cache of the authorizations L0 signed (`cache`),                  *)
(*   - L0 itself, over the network.                                        *)
(* A background thread, the poller, pulls revocation deltas from L0 every  *)
(* poll interval; a worker that sees a newer epoch in an authorization     *)
(* pulls one too (the "convoy").  `revocations` and `cache` have a lock    *)
(* each, `local_epoch` is an atomic and no lock spans two of the accesses, *)
(* so every access is a step of its own here and they interleave freely.   *)
(*                                                                         *)
(* L0 is not part of the repository: its actions are modelled from how     *)
(* the edge uses it.  Time is a counter shared with L0.                    *)
(***************************************************************************)
EXTENDS Integers, FiniteSets

CONSTANTS
  Keys,       \* key ids
  Hashes,     \* hashes of full API keys, as requests present them
  HashOf,     \* the hash L0 has registered for each key id
  BadFrames,  \* keys whose revocation frame does not verify at the edge
  Workers,    \* edge worker threads, one request each at a time
  Poller,     \* the "openapi-revoke-poll" thread
  TTL,        \* longest validity L0 gives an authorization
  MaxTime,    \* bound on the clock
  NoAuthz     \* no authorization

ASSUME RemoteAuthAssumption ==
  /\ HashOf \in [Keys -> Hashes]
  /\ BadFrames \subseteq Keys
  /\ Poller \notin Workers
  /\ TTL \in Nat \ {0}
  /\ MaxTime \in Nat
  /\ NoAuthz \notin [hash : Hashes, exp : Nat, epoch : Nat, sig : BOOLEAN]
  /\ NoAuthz \notin [hash : Hashes, exp : Nat]

VARIABLES
  \* L0 and the clock
  l0Epoch,      \* epoch of the last revocation L0 issued
  revEpoch,     \* epoch at which each key was revoked, 0 if it is not
  revTime,      \* time at which each revoked key was revoked
  now,          \* the clock
  \* RemoteAuthenticator
  revocations,  \* keys the edge knows to be revoked
  cache,        \* authorization cached for each key, or NoAuthz
  localEpoch,   \* local_epoch
  due,          \* RevocationPollClock: the next poll is due
  \* thread-local state
  pc,           \* where each thread stands
  req,          \* the request of each worker: key id and hash
  wasRevoked,   \* did the edge know the key as revoked when the request began
  nowMs,        \* the now_ms the request read, 0 before it reads one
  authz,        \* the answer of L0 to the worker
  since,        \* local_epoch as read by the sync a thread is running
  upto,         \* delta.epoch of the delta that sync fetched
  frames,       \* delta.revocations, less the frames applied
  applying      \* the frame between the two locks of apply_revocation

l0Vars   == <<l0Epoch, revEpoch, revTime, now>>
edgeVars == <<revocations, cache, localEpoch, due>>
reqVars  == <<req, wasRevoked, nowMs, authz>>
syncVars == <<since, upto, frames, applying>>
vars     == <<l0Vars, edgeVars, pc, reqVars, syncVars>>

Threads == Workers \cup {Poller}

Authz == [hash : Hashes, exp : Nat, epoch : Nat, sig : BOOLEAN]
Entry == [hash : Hashes, exp : Nat]
Revoked(k) == revEpoch[k] > 0

\* Where a thread may stand.  The poller only waits and syncs.
SyncPoints   == {"since", "fetch", "apply", "uncache"}
Verdicts     == {"admitted", "unauthorized", "failed"}
WorkerPoints == {"idle", "check", "lookup", "authorize", "verify", "convoy"}
                  \cup SyncPoints \cup Verdicts

TypeOK ==
  /\ l0Epoch \in Nat
  /\ revEpoch \in [Keys -> Nat]
  /\ revTime \in [Keys -> Nat]
  /\ now \in Nat
  /\ revocations \subseteq Keys
  /\ cache \in [Keys -> Entry \cup {NoAuthz}]
  /\ localEpoch \in Nat
  /\ due \in BOOLEAN
  /\ pc \in [Threads -> WorkerPoints \cup {"wait"}]
  /\ pc[Poller] \in SyncPoints \cup {"wait"}
  /\ \A w \in Workers : pc[w] \in WorkerPoints
  /\ req \in [Workers -> [key : Keys, hash : Hashes]]
  /\ wasRevoked \in [Workers -> BOOLEAN]
  /\ nowMs \in [Workers -> Nat]
  /\ authz \in [Workers -> Authz \cup {NoAuthz}]
  /\ \A w \in Workers : pc[w] \in {"verify", "convoy"} => authz[w] \in Authz
  /\ since \in [Threads -> Nat]
  /\ upto \in [Threads -> Nat]
  /\ frames \in [Threads -> SUBSET Keys]
  /\ applying \in [Threads -> SUBSET Keys]

Init ==
  /\ l0Epoch = 0
  /\ revEpoch = [k \in Keys |-> 0]
  /\ revTime = [k \in Keys |-> 0]
  /\ now = 0
  /\ revocations = {}
  /\ cache = [k \in Keys |-> NoAuthz]
  /\ localEpoch = 0
  /\ due = FALSE
  /\ pc = [t \in Threads |-> IF t = Poller THEN "wait" ELSE "idle"]
  /\ req \in [Workers -> {[key |-> k, hash |-> HashOf[k]] : k \in Keys}]
  /\ wasRevoked = [w \in Workers |-> FALSE]
  /\ nowMs = [w \in Workers |-> 0]
  /\ authz = [w \in Workers |-> NoAuthz]
  /\ since = [t \in Threads |-> 0]
  /\ upto = [t \in Threads |-> 0]
  /\ frames = [t \in Threads |-> {}]
  /\ applying = [t \in Threads |-> {}]

Goto(t, point) == pc' = [pc EXCEPT ![t] = point]

-----------------------------------------------------------------------------
(***************************************************************************)
(* L0 and the passing of time.                                             *)
(***************************************************************************)

\* L0 revokes a key and gives the revocation the next epoch.
L0Revoke(k) ==
  /\ ~Revoked(k)
  /\ l0Epoch' = l0Epoch + 1
  /\ revEpoch' = [revEpoch EXCEPT ![k] = l0Epoch + 1]
  /\ revTime' = [revTime EXCEPT ![k] = now]
  /\ UNCHANGED <<now, edgeVars, pc, reqVars, syncVars>>

\* Time passes, up to the bound of the model.
Tick ==
  /\ now < MaxTime
  /\ now' = now + 1
  /\ UNCHANGED <<l0Epoch, revEpoch, revTime, edgeVars, pc, reqVars, syncVars>>

-----------------------------------------------------------------------------
(***************************************************************************)
(* authenticate_parsed, up to the convoy.                                  *)
(***************************************************************************)

Idle(w) == pc[w] \in {"idle"} \cup Verdicts

\* A request with key id k and a full key that hashes to h reaches worker w.
Begin(w, k, h) ==
  /\ Idle(w)
  /\ req' = [req EXCEPT ![w] = [key |-> k, hash |-> h]]
  /\ wasRevoked' = [wasRevoked EXCEPT ![w] = k \in revocations]
  /\ nowMs' = [nowMs EXCEPT ![w] = 0]
  /\ Goto(w, "check")
  /\ UNCHANGED <<l0Vars, edgeVars, authz, syncVars>>

\* Mutant: a cached authorization is looked up before the revocations.
KnownRevokedAfterCache(w) ==
  req[w].key \in revocations /\ cache[req[w].key] = NoAuthz

KnownRevoked(w) == req[w].key \in revocations

\* The key is refused if the edge knows it to be revoked.
CheckRevoked(w) ==
  /\ pc[w] = "check"
  /\ Goto(w, IF KnownRevoked(w) THEN "unauthorized" ELSE "lookup")
  /\ UNCHANGED <<l0Vars, edgeVars, reqVars, syncVars>>

\* Mutant: an entry is a hit whatever its expiry.
CacheHitExpired(w) ==
  LET entry == cache[req[w].key]
  IN  /\ entry # NoAuthz
      /\ entry.hash = req[w].hash

\* Mutant: an entry is a hit whatever secret the request presents.
CacheHitAnyHash(w) ==
  LET entry == cache[req[w].key]
  IN  /\ entry # NoAuthz
      /\ entry.exp > now

\* cache_hit: an unexpired entry with the hash of the request.
CacheHit(w) ==
  LET entry == cache[req[w].key]
  IN  /\ entry # NoAuthz
      /\ entry.exp > now
      /\ entry.hash = req[w].hash

\* now_ms is read, then the cache.  A hit admits the request.
CacheLookup(w) ==
  /\ pc[w] = "lookup"
  /\ nowMs' = [nowMs EXCEPT ![w] = now]
  /\ Goto(w, IF CacheHit(w) THEN "admitted" ELSE "authorize")
  /\ UNCHANGED <<l0Vars, edgeVars, req, wasRevoked, authz, syncVars>>

Receive(w, answer) ==
  /\ pc[w] = "authorize"
  /\ authz' = [authz EXCEPT ![w] = answer]
  /\ Goto(w, "verify")
  /\ UNCHANGED <<l0Vars, edgeVars, req, wasRevoked, nowMs, syncVars>>

\* L0 signs an authorization of a key that it has not revoked.  The edge does
\* not rely on L0 comparing the hash.
L0Authorize(w, exp) ==
  /\ ~Revoked(req[w].key)
  /\ Receive(w, [hash |-> HashOf[req[w].key], exp |-> exp, epoch |-> l0Epoch, sig |-> TRUE])

\* An answer that claims what the request needs, but does not verify under the
\* catalog key.
UnverifiableAnswer(w) ==
  Receive(w, [hash |-> req[w].hash, exp |-> now + TTL, epoch |-> l0Epoch, sig |-> FALSE])

\* L0 answers 401 or 404, or the call fails.
L0AuthorizeError(w) ==
  /\ pc[w] = "authorize"
  /\ \E verdict \in {"unauthorized", "failed"} : Goto(w, verdict)
  /\ UNCHANGED <<l0Vars, edgeVars, reqVars, syncVars>>

\* The checks on the answer.  The expiry is compared with the now_ms that was
\* read before L0 was called.
AuthzAccepted(w) ==
  /\ authz[w].sig
  /\ authz[w].exp > nowMs[w]
  /\ authz[w].hash = req[w].hash

\* The answer is verified and, if it is accepted, stored in the cache.  A bad
\* signature is an internal error.
VerifyAndStore(w) ==
  /\ pc[w] = "verify"
  /\ IF AuthzAccepted(w)
     THEN /\ cache' = [cache EXCEPT ![req[w].key] =
                         [hash |-> authz[w].hash, exp |-> authz[w].exp]]
          /\ Goto(w, "convoy")
          /\ UNCHANGED authz
     ELSE /\ Goto(w, IF authz[w].sig THEN "unauthorized" ELSE "failed")
          /\ authz' = [authz EXCEPT ![w] = NoAuthz]
          /\ UNCHANGED cache
  /\ UNCHANGED <<l0Vars, revocations, localEpoch, due, req, wasRevoked, nowMs, syncVars>>

\* Mutant: the convoy postpones the poll and never pulls.
NeverBehindL0(w) == FALSE

BehindL0(w) == authz[w].epoch > localEpoch

\* convoy_after_authorize: pull if L0 is ahead, else postpone the next poll.
Convoy(w) ==
  /\ pc[w] = "convoy"
  /\ IF BehindL0(w)
     THEN Goto(w, "since") /\ UNCHANGED due
     ELSE Goto(w, "admitted") /\ due' = FALSE
  /\ authz' = [authz EXCEPT ![w] = NoAuthz]
  /\ UNCHANGED <<l0Vars, revocations, cache, localEpoch, req, wasRevoked, nowMs, syncVars>>

-----------------------------------------------------------------------------
(***************************************************************************)
(* sync_revocations_from_l0, run by the poller and by convoying workers.   *)
(***************************************************************************)

\* The thread leaves its sync.  The caller in a worker drops the result and
\* admits the request either way; only the poller re-arms after an error.
Return(t) ==
  /\ Goto(t, IF t = Poller THEN "wait" ELSE "admitted")
  /\ since' = [since EXCEPT ![t] = 0]
  /\ upto' = [upto EXCEPT ![t] = 0]
  /\ frames' = [frames EXCEPT ![t] = {}]
  /\ applying' = [applying EXCEPT ![t] = {}]

SyncFails(t) ==
  /\ Return(t)
  /\ due' = IF t = Poller THEN FALSE ELSE due

\* local_epoch is read.
ReadSince(t) ==
  /\ pc[t] = "since"
  /\ since' = [since EXCEPT ![t] = localEpoch]
  /\ Goto(t, "fetch")
  /\ UNCHANGED <<l0Vars, edgeVars, reqVars, upto, frames, applying>>

\* fetch_revocations: L0 answers with its epoch and the frames after `since`.
FetchOk(t) ==
  /\ pc[t] = "fetch"
  /\ upto' = [upto EXCEPT ![t] = l0Epoch]
  /\ frames' = [frames EXCEPT ![t] = {k \in Keys : revEpoch[k] > since[t]}]
  /\ Goto(t, "apply")
  /\ UNCHANGED <<l0Vars, edgeVars, reqVars, since, applying>>

FetchError(t) ==
  /\ pc[t] = "fetch"
  /\ SyncFails(t)
  /\ UNCHANGED <<l0Vars, revocations, cache, localEpoch, reqVars>>

\* apply_revocation, first lock: the key joins the revocations.
ApplyFrame(t, k) ==
  /\ pc[t] = "apply"
  /\ k \in frames[t] \ BadFrames
  /\ revocations' = revocations \cup {k}
  /\ frames' = [frames EXCEPT ![t] = frames[t] \ {k}]
  /\ applying' = [applying EXCEPT ![t] = {k}]
  /\ Goto(t, "uncache")
  /\ UNCHANGED <<l0Vars, cache, localEpoch, due, reqVars, since, upto>>

\* apply_revocation, second lock: its authorization leaves the cache.
UncacheFrame(t) ==
  /\ pc[t] = "uncache"
  /\ cache' = [k \in Keys |-> IF k \in applying[t] THEN NoAuthz ELSE cache[k]]
  /\ applying' = [applying EXCEPT ![t] = {}]
  /\ Goto(t, "apply")
  /\ UNCHANGED <<l0Vars, revocations, localEpoch, due, reqVars, since, upto,
                 frames>>

\* A frame whose signature does not verify aborts the sync: the frames before
\* it stay applied, the ones after it are dropped, local_epoch stays.
RejectFrame(t) ==
  /\ pc[t] = "apply"
  /\ frames[t] \cap BadFrames # {}
  /\ SyncFails(t)
  /\ UNCHANGED <<l0Vars, revocations, cache, localEpoch, reqVars>>

\* Mutant: frames that do not verify are skipped.
AllApplicableApplied(t) == frames[t] \subseteq BadFrames

AllApplied(t) == frames[t] = {}

\* Every frame is applied: local_epoch is stored and the poll clock reset.
StoreEpoch(t) ==
  /\ pc[t] = "apply"
  /\ AllApplied(t)
  /\ localEpoch' = IF upto[t] > since[t] THEN upto[t] ELSE localEpoch
  /\ due' = FALSE
  /\ Return(t)
  /\ UNCHANGED <<l0Vars, revocations, cache, reqVars>>

-----------------------------------------------------------------------------
(***************************************************************************)
(* RevocationPollClock and the poller.                                     *)
(***************************************************************************)

\* The interval has elapsed since the last reset.
Expire ==
  /\ ~due
  /\ due' = TRUE
  /\ UNCHANGED <<l0Vars, revocations, cache, localEpoch, pc, reqVars, syncVars>>

\* wait_until_due returns.
PollerWakes ==
  /\ pc[Poller] = "wait"
  /\ due
  /\ Goto(Poller, "since")
  /\ UNCHANGED <<l0Vars, edgeVars, reqVars, syncVars>>

-----------------------------------------------------------------------------
Authenticate(w) ==
  \/ \E k \in Keys, h \in Hashes : Begin(w, k, h)
  \/ CheckRevoked(w)
  \/ CacheLookup(w)
  \/ \E exp \in now .. now + TTL : L0Authorize(w, exp)
  \/ UnverifiableAnswer(w)
  \/ L0AuthorizeError(w)
  \/ VerifyAndStore(w)
  \/ Convoy(w)

Sync(t) ==
  \/ ReadSince(t)
  \/ FetchOk(t)
  \/ FetchError(t)
  \/ \E k \in Keys : ApplyFrame(t, k)
  \/ UncacheFrame(t)
  \/ RejectFrame(t)
  \/ StoreEpoch(t)

Next ==
  \/ \E k \in Keys : L0Revoke(k)
  \/ Tick
  \/ \E w \in Workers : Authenticate(w)
  \/ \E t \in Threads : Sync(t)
  \/ Expire
  \/ PollerWakes

Spec == Init /\ [][Next]_vars

\* The poller's thread is scheduled, its interval elapses, and of the fetches
\* it tries again and again one succeeds.  Nothing is assumed of the workers
\* or of the fetches of a convoy.
Fairness ==
  /\ WF_vars(Expire)
  /\ WF_vars(PollerWakes)
  /\ WF_vars(ReadSince(Poller))
  /\ SF_vars(FetchOk(Poller))
  /\ WF_vars(\E k \in Keys : ApplyFrame(Poller, k))
  /\ WF_vars(UncacheFrame(Poller))
  /\ WF_vars(StoreEpoch(Poller))

-----------------------------------------------------------------------------
(***************************************************************************)
(* Properties.                                                             *)
(***************************************************************************)

\* A request that begins after the edge has learnt of the revocation of its
\* key is not admitted, although a worker that was already past its check may
\* put an authorization of that key back into the cache behind it.
NoAdmissionAfterRevocation ==
  \A w \in Workers : pc[w] = "admitted" => ~wasRevoked[w]

\* The edge knows every revocation up to its local_epoch, whatever syncs ran
\* at the same time and wherever one of them was aborted: the next delta is
\* asked for from local_epoch on, so one that is missed below it is lost.
RevocationsCompleteTo(epoch) ==
  \A k \in Keys : Revoked(k) /\ revEpoch[k] <= epoch => k \in revocations

EpochIsComplete == RevocationsCompleteTo(localEpoch)

\* Even if no delta ever reaches the edge, a key is refused to every request
\* that reads the clock TTL or more after L0 revoked it.
StalenessBounded ==
  \A w \in Workers :
    pc[w] = "admitted" /\ Revoked(req[w].key)
      => nowMs[w] < revTime[req[w].key] + TTL

\* A request is admitted only with the secret that L0 registered for its key,
\* also when an authorization of that key id is cached.
OnlyRegisteredSecret ==
  \A w \in Workers : pc[w] = "admitted" => req[w].hash = HashOf[req[w].key]

\* A revocation reaches the edge, though every authorization that a worker
\* fetches may postpone the poll, and a convoy's own pull may fail.
RevocationArrives ==
  \A k \in Keys : Revoked(k) ~> k \in revocations
=============================================================================
