---------------------------- MODULE OpeDispatch -----------------------------
(***************************************************************************)
(* The encrypted upstream of the edge and its sealed clock:                *)
(* crates/openapi-platform-cvm/src/ope_upstream.rs, with the recipient     *)
(* checks (engine_recipient.rs, epoch_evidence.rs, engine_trust.rs) and    *)
(* the time floor (sealed_time.rs) of crates/openapi-platform.             *)
(*                                                                         *)
(* For each request a worker asks the gateway for an engine, decides       *)
(* whether the epoch keys it is offered may receive the customer's         *)
(* plaintext, encrypts to them and dispatches.  The preparation runs under *)
(* a process-wide lock; the dispatch does not.  The gateway and the host's *)
(* clock are not trusted: an offer is any member of Offers, and the clock  *)
(* may read anything.  With the sealed clock enforced, every time the edge *)
(* accepts is first written to a file, in place, and no time below the     *)
(* file's is accepted; the process may die between any two of its steps.   *)
(***************************************************************************)
EXTENDS Integers, FiniteSets

CONSTANTS
  Workers,       \* worker threads of the edge
  Nobody,        \* no worker
  MaxTime,       \* bound on what the host's clock reads
  Reports,       \* attestation reports
  Genuine,       \* the reports that AMD's certificate chain vouches for
  Policies,      \* the configurations of the edge
  Offers,        \* the preassignments the gateway may answer with
  Absent, Torn   \* no floor file, and one whose writing was interrupted

Times == 0 .. MaxTime

\* What configures the checks.  "evidence" stands for require_epoch_evidence or
\* stage5_identity_deleted; "launch" tells whether a measurement is asked for
\* and whether the allowlist is empty.
Policy == [enforce : BOOLEAN, evidence : BOOLEAN, launch : {"off", "listed", "empty"},
           chain : BOOLEAN, challenge : BOOLEAN, skew : Nat]

\* A preassignment, by what the edge can tell of it:
\*   bound    it names the engine, key set and key that were asked for
\*   quote    no quote, one without epoch claims, one that does not parse or
\*            describes other keys, or evidence for exactly these keys
\*   listed   the measurement in the quote is on the allowlist
\*   signed   the pinned identity key has signed these keys
Offer == [bound : BOOLEAN, expires : Nat, notBefore : Nat, notAfter : Nat,
          quote : {"none", "plain", "other", "this"}, report : Reports,
          listed : BOOLEAN, signed : BOOLEAN]

ASSUME OpeDispatchAssumption ==
  /\ Nobody \notin Workers
  /\ MaxTime \in Nat
  /\ Genuine \subseteq Reports
  /\ Policies \subseteq Policy
  /\ Offers \subseteq Offer
  /\ Absent \notin Nat /\ Torn \notin Nat /\ Absent # Torn

VARIABLES
  policy,    \* the configuration
  floor,     \* the file of the sealed clock
  lock,      \* the worker that holds the lock of OpeDispatchUpstream
  verified,  \* verified_reports
  pc,        \* where each worker stands
  offer,     \* the preassignment in each worker's hands
  nowMs,     \* the time each worker has observed
  accepted,  \* the latest time the edge ever accepted, across restarts
  peak       \* `accepted` when the worker's turn began

memory == <<lock, verified>>
locals == <<pc, offer, nowMs, peak>>
vars   == <<policy, floor, memory, locals, accepted>>

\* Where a worker holds the lock.
Preparing == {"inventory", "preassign", "observe", "truncate", "write", "expiry",
              "challenge", "recipient", "chain", "encrypt"}

TypeOK ==
  /\ policy \in Policies
  /\ floor \in Nat \cup {Absent, Torn}
  /\ lock \in Workers \cup {Nobody}
  /\ verified \subseteq Reports
  /\ pc \in [Workers -> Preparing \cup {"idle", "waiting", "dispatch"}]
  /\ offer \in [Workers -> Offers]
  /\ nowMs \in [Workers -> Nat]
  /\ accepted \in Nat
  /\ peak \in [Workers -> Nat]

\* The floor is what earlier boots have left.
Init ==
  /\ policy \in Policies
  /\ floor \in Times \cup {Absent, Torn}
  /\ lock = Nobody
  /\ verified = {}
  /\ pc = [w \in Workers |-> "idle"]
  /\ \E o \in Offers : offer = [w \in Workers |-> o]
  /\ nowMs = [w \in Workers |-> 0]
  /\ accepted = 0
  /\ peak = [w \in Workers |-> 0]

Goto(w, point) == pc' = [pc EXCEPT ![w] = point]

\* The worker goes on to `point`, keeping the lock and what it has.
Proceed(w, point) ==
  /\ Goto(w, point)
  /\ UNCHANGED <<policy, lock, offer, nowMs, peak>>

\* Mutant: an error leaves the lock taken.
RefuseLocked(w) ==
  /\ Goto(w, "idle")
  /\ UNCHANGED <<policy, lock, offer, nowMs, peak>>

\* The request is refused: the error returns from prepare and drops the guard.
Refuse(w) ==
  /\ Goto(w, "idle")
  /\ lock' = Nobody
  /\ UNCHANGED <<policy, offer, nowMs, peak>>

-----------------------------------------------------------------------------
(***************************************************************************)
(* prepare: the lock and the gateway's offer.                              *)
(***************************************************************************)

Begin(w) ==
  /\ pc[w] = "idle"
  /\ Goto(w, "waiting")
  /\ UNCHANGED <<policy, floor, memory, offer, nowMs, accepted, peak>>

\* Mutant: the preparations are not serialized.
LockFreeAlways == TRUE

LockFree == lock = Nobody

Acquire(w) ==
  /\ pc[w] = "waiting"
  /\ LockFree
  /\ lock' = w
  /\ peak' = [peak EXCEPT ![w] = accepted]
  /\ Goto(w, "inventory")
  /\ UNCHANGED <<policy, floor, verified, offer, nowMs, accepted>>

\* inventory and pick_engine: a healthy engine serves the model.
Inventory(w) ==
  /\ pc[w] = "inventory"
  /\ Proceed(w, "preassign")
  /\ UNCHANGED <<floor, verified, accepted>>

\* preassign, and the binding checks of verify_preassign.
Preassign(w, o) ==
  /\ pc[w] = "preassign"
  /\ offer' = [offer EXCEPT ![w] = o]
  /\ IF o.bound
     THEN Goto(w, "observe") /\ UNCHANGED lock
     ELSE Goto(w, "idle") /\ lock' = Nobody
  /\ UNCHANGED <<policy, floor, verified, nowMs, accepted, peak>>

-----------------------------------------------------------------------------
(***************************************************************************)
(* current_unix_ms and observe_at: the sealed clock.                       *)
(***************************************************************************)

\* Mutant: a floor that does not parse is seeded anew.
RewindTornIsAbsent(t) == floor \in Nat /\ t < floor

\* The floor does not parse (Corrupt), or the clock reads less (Rewind).
Rewind(t) == floor = Torn \/ (floor \in Nat /\ t < floor)

\* The clock reads t; the floor is read and compared with it.
ReadFloor(w, t) ==
  /\ pc[w] = "observe"
  /\ IF policy.enforce /\ Rewind(t)
     THEN Refuse(w)
     ELSE /\ nowMs' = [nowMs EXCEPT ![w] = t]
          /\ Goto(w, IF policy.enforce /\ floor # t THEN "truncate" ELSE "expiry")
          /\ UNCHANGED <<policy, lock, offer, peak>>
  /\ UNCHANGED <<floor, verified, accepted>>

\* write_floor_at truncates the file ...
Truncate(w) ==
  /\ pc[w] = "truncate"
  /\ floor' = Torn
  /\ Proceed(w, "write")
  /\ UNCHANGED <<verified, accepted>>

Later(s, t) == IF s > t THEN s ELSE t

\* ... and writes the new floor.
WriteFloor(w) ==
  /\ pc[w] = "write"
  /\ floor' = nowMs[w]
  /\ accepted' = Later(accepted, nowMs[w])
  /\ Proceed(w, "expiry")
  /\ UNCHANGED verified

-----------------------------------------------------------------------------
(***************************************************************************)
(* verify_preassign: may this epoch receive plaintext?                     *)
(***************************************************************************)

\* The preassignment has not expired.
CheckExpiry(w) ==
  /\ pc[w] = "expiry"
  /\ IF offer[w].expires > nowMs[w]
     THEN Proceed(w, IF policy.challenge THEN "challenge" ELSE "recipient")
     ELSE Refuse(w)
  /\ UNCHANGED <<floor, verified, accepted>>

\* challenge_engine: an engine answers the nonce over the gateway.
Challenge(w) ==
  /\ pc[w] = "challenge"
  /\ Proceed(w, "recipient")
  /\ UNCHANGED <<floor, verified, accepted>>

\* Mutant: the floor is not asked about the end of the epoch.
EpochActiveBySkew(w) ==
  LET o == offer[w]
  IN  /\ o.notBefore <= o.notAfter
      /\ nowMs[w] + policy.skew >= o.notBefore
      /\ nowMs[w] <= o.notAfter + policy.skew

\* check_window and epoch_window_active: within the skew of the epoch's window,
\* and not past its end by the floor, if the floor can be read.
EpochActive(w) ==
  LET o == offer[w]
  IN  /\ o.notBefore <= o.notAfter
      /\ policy.enforce /\ floor \in Nat => floor <= o.notAfter
      /\ nowMs[w] + policy.skew >= o.notBefore
      /\ nowMs[w] <= o.notAfter + policy.skew

\* check_launch_digest
LaunchDigestOk(o) ==
  \/ policy.launch = "off"
  \/ policy.launch = "listed" /\ o.quote # "none" /\ o.listed

\* verify_epoch_evidence succeeds.
ViaEvidence(o) == o.quote = "this"

\* Mutant: evidence for other keys falls back to the pinned identity.
ViaIdentityAny(o) == o.quote # "this" /\ ~policy.evidence /\ o.signed

\* Without evidence the pinned identity decides, unless evidence is required.
\* Evidence for other keys is never a reason to fall back.
ViaIdentity(o) == o.quote \in {"none", "plain"} /\ ~policy.evidence /\ o.signed

\* accept_engine_recipient
AcceptRecipient(w) ==
  LET o == offer[w]
  IN  /\ pc[w] = "recipient"
      /\ IF EpochActive(w) /\ LaunchDigestOk(o) /\ (ViaEvidence(o) \/ ViaIdentity(o))
         THEN Proceed(w, IF ViaEvidence(o) /\ policy.chain THEN "chain" ELSE "encrypt")
         ELSE Refuse(w)
      /\ UNCHANGED <<floor, verified, accepted>>

\* Mutant: one verified report vouches for every other.
ChainVouchesAny(r) == verified # {} \/ r \in Genuine

\* The verdict on this report is cached, or AMD's chain verifies it now.
ChainVouches(r) == r \in verified \/ r \in Genuine

\* verify_report_chain
VerifyChain(w) ==
  LET r == offer[w].report
  IN  /\ pc[w] = "chain"
      /\ IF ChainVouches(r)
         THEN verified' = verified \cup {r} /\ Proceed(w, "encrypt")
         ELSE Refuse(w) /\ UNCHANGED verified
      /\ UNCHANGED <<floor, accepted>>

\* encrypt_openai_body_with_path; prepare returns and drops the guard.
Encrypt(w) ==
  /\ pc[w] = "encrypt"
  /\ Goto(w, "dispatch")
  /\ lock' = Nobody
  /\ UNCHANGED <<policy, floor, verified, offer, nowMs, accepted, peak>>

\* dispatch_encrypted or dispatch_reader: the gateway has answered.
Dispatch(w) ==
  /\ pc[w] = "dispatch"
  /\ Goto(w, "idle")
  /\ UNCHANGED <<policy, floor, memory, offer, nowMs, accepted, peak>>

-----------------------------------------------------------------------------
\* Where the lock is held across a call to the gateway.
Calling == {"inventory", "preassign", "challenge"}

\* GatewayOpeApiClient: the call times out, its answer is not a 200, or it does
\* not decode.
CallFails(w) ==
  /\ pc[w] \in Calling
  /\ Refuse(w)
  /\ UNCHANGED <<floor, verified, accepted>>

\* No engine serves the model, a file operation or the encryption fails, or the
\* worker panics: the guard is dropped either way, and a poisoned lock is taken
\* like any other.  A write that fails leaves the file as it is.
Abort(w) ==
  /\ pc[w] \in Preparing \ {"preassign"}
  /\ Refuse(w)
  /\ UNCHANGED <<floor, verified, accepted>>

\* The process dies and is started again.
Crash ==
  /\ \E w \in Workers : pc[w] # "idle"
  /\ pc' = [w \in Workers |-> "idle"]
  /\ lock' = Nobody
  /\ verified' = {}
  /\ UNCHANGED <<policy, floor, offer, nowMs, accepted, peak>>

\* The steps of the worker that holds the lock.
Prepare(w) ==
  \/ Inventory(w)
  \/ \E o \in Offers : Preassign(w, o)
  \/ \E t \in Times : ReadFloor(w, t)
  \/ Truncate(w)
  \/ WriteFloor(w)
  \/ CheckExpiry(w)
  \/ Challenge(w)
  \/ AcceptRecipient(w)
  \/ VerifyChain(w)
  \/ Encrypt(w)
  \/ CallFails(w)
  \/ Abort(w)

Next ==
  \/ \E w \in Workers : Begin(w) \/ Acquire(w) \/ Prepare(w) \/ Dispatch(w)
  \/ Crash

Spec == Init /\ [][Next]_vars

\* Where the holder of the lock waits for an answer: the gateway's, or that of
\* AMD's certificate service, whose call has no timeout.
Remote == Calling \cup {"chain"}

\* The holder of the lock is scheduled.  That an answer comes is not assumed.
FairSpec == Spec /\ \A w \in Workers : WF_vars(pc[w] \notin Remote /\ Prepare(w))

-----------------------------------------------------------------------------
(***************************************************************************)
(* Properties.                                                             *)
(***************************************************************************)

\* What the policy asks of the keys that receive a customer's plaintext.
Trustworthy(o) ==
  /\ o.bound
  /\ policy.launch # "off" => o.listed
  /\ \/ o.quote = "this" /\ (policy.chain => o.report \in Genuine)
     \/ o.quote \in {"none", "plain"} /\ ~policy.evidence /\ o.signed

\* Plaintext is encrypted only to keys that the policy trusts, also when the
\* verdict on their report comes from the cache.
PlaintextOnlyToTrusted ==
  \A w \in Workers : pc[w] = "dispatch" => Trustworthy(offer[w])

\* With the sealed clock enforced, an epoch that was over at any time the edge
\* has accepted, before any restart and whatever the host's clock has read
\* since, receives no plaintext from a request whose turn comes later, and no
\* clock skew revives it.
DeadEpochStaysDead ==
  \A w \in Workers :
    pc[w] = "dispatch" /\ policy.enforce => peak[w] <= offer[w].notAfter

\* The floor on disk never falls behind a time the edge has accepted, though
\* the workers, a crash or a failed write may interfere with its writing.
FloorHoldsTime == floor \in Nat => accepted <= floor

\* The lock does not stay with a worker, however its preparation ends, unless
\* one answer it waits for never comes.
LockIsReleased ==
  \A w \in Workers :
    (\A call \in Remote : []<>(pc[w] # call)) => (lock = w ~> lock # w)
=============================================================================
