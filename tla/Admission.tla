----------------------------- MODULE Admission ------------------------------
(***************************************************************************)
(* The gates a request passes on its way to the upstream:                  *)
(* crates/openapi-core/src/handler.rs, with the rate limiters and the      *)
(* challenge gate of limits.rs.                                            *)
(*                                                                         *)
(* Each worker handles one request at a time.  The route decides which     *)
(* gates it meets, and in which order: maintenance, the rate of the        *)
(* client's address, authentication, the rate of the key, the key's        *)
(* policy; or, for an attestation challenge, the rate of the address and a *)
(* bound on concurrent quotes.  The limiters are shared, each behind a     *)
(* lock of its own, so every gate is one step.  A limiter counts in fixed  *)
(* windows that start with the first request after the last one ended.     *)
(* Authentication is what RemoteAuth models; here it succeeds or fails,    *)
(* and brings the key's policy with it.                                    *)
(***************************************************************************)
EXTENDS Maintenance, FiniteSets

CONSTANTS
  Workers,      \* worker threads
  Requested,    \* the routes that clients ask for
  Ips, Keys,    \* client addresses and key ids
  Window,       \* length of a rate window (60 seconds)
  IpRpm,        \* ip_requests_per_minute
  KeyRpms,      \* what effective_rpm may be, as a key's policy changes
  ChallengeRpm, \* challenge_requests_per_minute
  MaxInflight,  \* challenge_max_inflight
  Bench,        \* may a request bypass the challenge's gates? (dev profile)
  Manifests,    \* the manifests an edge may have loaded
  MaxTime       \* bound on the clock

\* The routes of classify that have a gate: not health, status, and what is
\* answered 404 or 405.
Routes == {"attestation", "models", "inference", "proxy", "unsupported"}

ASSUME AdmissionAssumption ==
  /\ IsFiniteSet(Workers)
  /\ Requested \subseteq Routes
  /\ Window \in Nat \ {0}
  /\ {IpRpm, ChallengeRpm, MaxInflight, MaxTime} \subseteq Nat
  /\ KeyRpms \subseteq Nat
  /\ Bench \in BOOLEAN
  /\ \A m \in Manifests : WellFormed(m)

\* A request: its route and address, the time read when it was dispatched, and
\* the key and rpm that authentication gives it.
Request == [route : Routes, ip : Ips, nowMs : 0 .. MaxTime,
            key : Keys \cup {None}, rpm : KeyRpms \cup {None}]

VARIABLES
  manifest,   \* the manifest loaded at boot
  now,        \* the clock
  pc,         \* the gate before which each worker stands
  req,        \* the request of each worker, or None
  permit,     \* does it hold a permit of the challenge gate?
  ipRate, keyRate, challengeRate,  \* the buckets of the limiters
  inflight,   \* challenge_inflight.current
  authCalls,  \* the calls of authentication by each address, within a window
  granted     \* the requests each key's limiter let pass, within a window

limiters == <<ipRate, keyRate, challengeRate>>
history  == <<authCalls, granted>>
vars     == <<manifest, now, pc, req, permit, limiters, inflight, history>>

Gates == {"maintenance", "ipRate", "authenticate", "keyRate", "policy", "challengeRate",
          "inflight"}

Bucket == [start : Int, count : Nat]

\* What the history records: a time, and a number that tells apart what happens
\* at the same time.
Event == Nat \X Nat

TypeOK ==
  /\ manifest \in Manifests
  /\ now \in 0 .. MaxTime
  /\ pc \in [Workers -> Gates \cup {"idle", "upstream", "quote"}]
  /\ req \in [Workers -> Request \cup {None}]
  /\ \A w \in Workers : IF pc[w] = "idle" THEN req[w] = None ELSE req[w] \in Request
  /\ \A w \in Workers : pc[w] \in {"keyRate", "policy", "upstream"} =>
                         req[w].key \in Keys /\ req[w].rpm \in KeyRpms
  /\ permit \in [Workers -> BOOLEAN]
  /\ ipRate \in [Ips -> Bucket]
  /\ keyRate \in [Keys -> Bucket]
  /\ challengeRate \in [Ips -> Bucket]
  /\ inflight \in Nat
  /\ authCalls \in [Ips -> SUBSET Event]
  /\ granted \in [Keys -> SUBSET Event]

\* No entry yet: like one whose window is over.
NoBucket == [start |-> -Window, count |-> 0]

Init ==
  /\ manifest \in Manifests
  /\ now = 0
  /\ pc = [w \in Workers |-> "idle"]
  /\ req = [w \in Workers |-> None]
  /\ permit = [w \in Workers |-> FALSE]
  /\ ipRate = [i \in Ips |-> NoBucket]
  /\ keyRate = [k \in Keys |-> NoBucket]
  /\ challengeRate = [i \in Ips |-> NoBucket]
  /\ inflight = 0
  /\ authCalls = [i \in Ips |-> {}]
  /\ granted = [k \in Keys |-> {}]

\* The request passes on to a gate, or it is answered.
Goto(w, gate) == pc' = [pc EXCEPT ![w] = gate] /\ UNCHANGED req
Answer(w)     == pc' = [pc EXCEPT ![w] = "idle"] /\ req' = [req EXCEPT ![w] = None]

-----------------------------------------------------------------------------
(***************************************************************************)
(* RateLimiter                                                             *)
(***************************************************************************)

\* Mutant: a window starts where the last one ended, before the request.
CurrentSliding(b) ==
  IF now - b.start >= Window THEN [start |-> b.start + Window, count |-> 0] ELSE b

\* The bucket, started anew if its window is over.
Current(b) == IF now - b.start >= Window THEN [start |-> now, count |-> 0] ELSE b

HasRoom(b, limit) == limit = 0 \/ Current(b).count < limit

Charged(b, limit) == IF limit = 0 THEN b ELSE [Current(b) EXCEPT !.count = @ + 1]

-----------------------------------------------------------------------------
(***************************************************************************)
(* handle_from_ex                                                          *)
(***************************************************************************)

FirstGate(r, bench) ==
  CASE r = "attestation"                       -> IF bench THEN "quote" ELSE "challengeRate"
    [] r = "unsupported"                       -> "ipRate"
    [] r \in {"models", "inference", "proxy"}  -> "maintenance"

\* dispatch_to_writer reads the time and hands the request to the handler.
Begin(w, r, i, bench) ==
  /\ pc[w] = "idle"
  /\ bench => Bench /\ r = "attestation"
  /\ req' = [req EXCEPT ![w] = [route |-> r, ip |-> i, nowMs |-> now, key |-> None, rpm |-> None]]
  /\ pc' = [pc EXCEPT ![w] = FirstGate(r, bench)]
  /\ UNCHANGED <<manifest, now, permit, limiters, inflight, history>>

InMaintenance(w) == RefuseIfMaintenance(manifest, req[w].nowMs)

CheckMaintenance(w) ==
  /\ pc[w] = "maintenance"
  /\ IF InMaintenance(w) THEN Answer(w) ELSE Goto(w, "ipRate")
  /\ UNCHANGED <<manifest, now, permit, limiters, inflight, history>>

\* Mutant: the address is not charged before its key is authenticated.
EnforceIpLimitLate(w) ==
  /\ pc[w] = "ipRate"
  /\ Goto(w, "authenticate")
  /\ UNCHANGED <<manifest, now, permit, limiters, inflight, history>>

\* enforce_ip_api_limit
EnforceIpLimit(w) ==
  LET i == req[w].ip
  IN  /\ pc[w] = "ipRate"
      /\ IF HasRoom(ipRate[i], IpRpm)
         THEN ipRate' = [ipRate EXCEPT ![i] = Charged(@, IpRpm)] /\ Goto(w, "authenticate")
         ELSE Answer(w) /\ UNCHANGED ipRate
      /\ UNCHANGED <<manifest, now, permit, keyRate, challengeRate, inflight, history>>

\* A number that no event of the present has.
Fresh(events) == CHOOSE n \in 0 .. Cardinality(events) : <<now, n>> \notin events

\* The requests that a limit applies to are recorded.
Recorded(events, limit) ==
  IF limit = 0 THEN events ELSE events \cup {<<now, Fresh(events)>>}

ReachAuthentication(w) ==
  /\ pc[w] = "authenticate"
  /\ authCalls' = [authCalls EXCEPT ![req[w].ip] = Recorded(@, IpRpm)]
  /\ UNCHANGED <<manifest, now, permit, limiters, inflight, granted>>

\* authenticate_bearer succeeds with key k, whose policy allows n requests.
Authenticate(w, k, n) ==
  /\ ReachAuthentication(w)
  /\ IF req[w].route = "unsupported"
     THEN Answer(w)
     ELSE /\ req' = [req EXCEPT ![w] = [@ EXCEPT !.key = k, !.rpm = n]]
          /\ pc' = [pc EXCEPT ![w] = "keyRate"]

AuthenticateFails(w) == ReachAuthentication(w) /\ Answer(w)

\* enforce_rate_limit, with the rpm of the policy this request was given.
EnforceRateLimit(w) ==
  LET k == req[w].key
      n == req[w].rpm
  IN  /\ pc[w] = "keyRate"
      /\ IF HasRoom(keyRate[k], n)
         THEN /\ keyRate' = [keyRate EXCEPT ![k] = Charged(@, n)]
              /\ granted' = [granted EXCEPT ![k] = Recorded(@, n)]
              /\ Goto(w, IF req[w].route = "models" THEN "upstream" ELSE "policy")
         ELSE Answer(w) /\ UNCHANGED <<keyRate, granted>>
      /\ UNCHANGED <<manifest, now, permit, ipRate, challengeRate, inflight, authCalls>>

\* Body size, model, token quota and context length, from the policy in hand.
EnforcePolicy(w) ==
  /\ pc[w] = "policy"
  /\ Goto(w, "upstream") \/ Answer(w)
  /\ UNCHANGED <<manifest, now, permit, limiters, inflight, history>>

\* The upstream has answered or failed, or the handler has panicked.
UpstreamEnds(w) ==
  /\ pc[w] = "upstream"
  /\ Answer(w)
  /\ UNCHANGED <<manifest, now, permit, limiters, inflight, history>>

-----------------------------------------------------------------------------
(***************************************************************************)
(* handle_attestation                                                      *)
(***************************************************************************)

ChallengeLimit(w) ==
  LET i == req[w].ip
  IN  /\ pc[w] = "challengeRate"
      /\ IF HasRoom(challengeRate[i], ChallengeRpm)
         THEN /\ challengeRate' = [challengeRate EXCEPT ![i] = Charged(@, ChallengeRpm)]
              /\ Goto(w, "inflight")
         ELSE Answer(w) /\ UNCHANGED challengeRate
      /\ UNCHANGED <<manifest, now, permit, ipRate, keyRate, inflight, history>>

\* InflightGate.try_acquire.  Without a limit it counts nothing.
TryAcquire(w) ==
  /\ pc[w] = "inflight"
  /\ IF MaxInflight = 0 \/ inflight < MaxInflight
     THEN /\ Goto(w, "quote")
          /\ permit' = [permit EXCEPT ![w] = MaxInflight > 0]
          /\ inflight' = inflight + (IF MaxInflight > 0 THEN 1 ELSE 0)
     ELSE Answer(w) /\ UNCHANGED <<permit, inflight>>
  /\ UNCHANGED <<manifest, now, limiters, history>>

\* Mutant: a request that bypassed the gate gives back a permit all the same.
InflightAfterAlways(w) == IF inflight > 0 THEN inflight - 1 ELSE 0

\* InflightPermit's drop, if there is an active permit (saturating_sub).
InflightAfter(w) == IF permit[w] /\ inflight > 0 THEN inflight - 1 ELSE inflight

\* The quote is answered, the request is bad, the platform fails or panics.
QuoteEnds(w) ==
  /\ pc[w] = "quote"
  /\ Answer(w)
  /\ inflight' = InflightAfter(w)
  /\ permit' = [permit EXCEPT ![w] = FALSE]
  /\ UNCHANGED <<manifest, now, limiters, history>>

-----------------------------------------------------------------------------
\* The events that will lie within a window of the next time.
Recent(events) == {e \in events : now + 1 - e[1] < Window}

\* Time passes, and the history keeps what lies within a window of now.
Tick ==
  /\ now < MaxTime
  /\ now' = now + 1
  /\ authCalls' = [i \in Ips |-> Recent(authCalls[i])]
  /\ granted' = [k \in Keys |-> Recent(granted[k])]
  /\ UNCHANGED <<manifest, pc, req, permit, limiters, inflight>>

Handle(w) ==
  \/ \E r \in Requested, i \in Ips, bench \in BOOLEAN : Begin(w, r, i, bench)
  \/ CheckMaintenance(w)
  \/ EnforceIpLimit(w)
  \/ \E k \in Keys, n \in KeyRpms : Authenticate(w, k, n)
  \/ AuthenticateFails(w)
  \/ EnforceRateLimit(w)
  \/ EnforcePolicy(w)
  \/ UpstreamEnds(w)
  \/ ChallengeLimit(w)
  \/ TryAcquire(w)
  \/ QuoteEnds(w)

Next == Tick \/ \E w \in Workers : Handle(w)

Spec == Init /\ [][Next]_vars

-----------------------------------------------------------------------------
(***************************************************************************)
(* Properties.                                                             *)
(***************************************************************************)

\* Of the requests with one key, less than twice the largest rpm of its policies
\* pass its limiter within the length of a window, wherever that begins, on
\* whatever workers and under whatever policy each of them was authorized.
KeyBurstBounded ==
  \A k \in Keys, limit \in KeyRpms :
    (\A n \in KeyRpms : 0 < n /\ n <= limit) => Cardinality(granted[k]) < 2 * limit

\* However many bad or unsupported requests an address sends, it reaches
\* authentication, and so L0, less than twice its limit within the length of a
\* window, and once more for each worker that passed the limiter earlier.
AuthStormCapped ==
  IpRpm > 0 =>
    \A i \in Ips : Cardinality(authCalls[i]) < 2 * IpRpm + Cardinality(Workers)

\* The challenge gate counts exactly the quotes that hold a permit, and never
\* more than its limit, with requests that bypass it in between.
ChallengeGateExact ==
  MaxInflight > 0 =>
    /\ inflight = Cardinality({w \in Workers : permit[w]})
    /\ inflight <= MaxInflight
=============================================================================
