------------------------- MODULE OpeDispatch_proofs -------------------------
(***************************************************************************)
(* Proofs about OpeDispatch, for every set of workers, every policy, every *)
(* set of offers and every range of the host's clock.                      *)
(***************************************************************************)
EXTENDS OpeDispatch, TLAPS

USE OpeDispatchAssumption

(***************************************************************************)
(* Type correctness.                                                       *)
(***************************************************************************)

LEMMA TypeInit == Init => TypeOK
  BY DEF Init, TypeOK, Times

LEMMA TypeNext == TypeOK /\ [Next]_vars => TypeOK'
<1> SUFFICES ASSUME TypeOK, [Next]_vars PROVE TypeOK'
  OBVIOUS
<1> USE DEF TypeOK, Preparing, memory, Goto
<1>1. ASSUME NEW w \in Workers, Begin(w) \/ Acquire(w) \/ Prepare(w) \/ Dispatch(w)
      PROVE  TypeOK'
  <2> USE DEF Proceed, Refuse
  <2>1. CASE Begin(w)
    BY <2>1 DEF Begin
  <2>2. CASE Acquire(w)
    BY <2>2 DEF Acquire
  <2>3. CASE Inventory(w)
    BY <2>3 DEF Inventory
  <2>4. ASSUME NEW o \in Offers, Preassign(w, o) PROVE TypeOK'
    BY <2>4 DEF Preassign
  <2>5. ASSUME NEW t \in Times, ReadFloor(w, t) PROVE TypeOK'
    <3>1. t \in Nat
      BY DEF Times
    <3>2. CASE policy.enforce /\ Rewind(t)
      BY <2>5, <3>2 DEF ReadFloor
    <3>3. CASE ~(policy.enforce /\ Rewind(t))
      <4>1. PICK point \in {"truncate", "expiry"} : Goto(w, point)
        BY <2>5, <3>3 DEF ReadFloor
      <4>2. QED
        BY <2>5, <3>1, <3>3, <4>1 DEF ReadFloor
    <3>4. QED
      BY <3>2, <3>3
  <2>6. CASE Truncate(w)
    BY <2>6 DEF Truncate
  <2>7. CASE WriteFloor(w)
    BY <2>7 DEF WriteFloor, Later
  <2>8. CASE CheckExpiry(w)
    <3>1. PICK point \in {"challenge", "recipient", "idle"} : Goto(w, point)
      BY <2>8 DEF CheckExpiry
    <3>2. QED
      BY <2>8, <3>1 DEF CheckExpiry
  <2>9. CASE Challenge(w)
    BY <2>9 DEF Challenge
  <2>10. CASE AcceptRecipient(w)
    <3>1. PICK point \in {"chain", "encrypt", "idle"} : Goto(w, point)
      BY <2>10 DEF AcceptRecipient
    <3>2. QED
      BY <2>10, <3>1 DEF AcceptRecipient
  <2>11. CASE VerifyChain(w)
    <3>1. offer[w].report \in Reports
      BY DEF Offer
    <3>2. QED
      BY <2>11, <3>1 DEF VerifyChain
  <2>12. CASE Encrypt(w)
    BY <2>12 DEF Encrypt
  <2>13. CASE CallFails(w)
    BY <2>13 DEF CallFails
  <2>14. CASE Abort(w)
    BY <2>14 DEF Abort
  <2>15. CASE Dispatch(w)
    BY <2>15 DEF Dispatch
  <2>16. QED
    BY <1>1, <2>1, <2>2, <2>3, <2>4, <2>5, <2>6, <2>7, <2>8, <2>9, <2>10, <2>11, <2>12,
       <2>13, <2>14, <2>15 DEF Prepare
<1>2. CASE Crash
  BY <1>2 DEF Crash
<1>3. CASE UNCHANGED vars
  BY <1>3 DEF vars, locals
<1>4. QED
  BY <1>1, <1>2, <1>3 DEF Next

\* Every reachable state is well typed.
THEOREM TypeCorrect == Spec => []TypeOK
  BY TypeInit, TypeNext, PTL DEF Spec

(***************************************************************************)
(* The sealed clock.                                                       *)
(*                                                                         *)
(* What makes it work is the lock: between the reading of the floor and    *)
(* the window check nobody else touches the file.  The invariant says who  *)
(* holds the lock, that the floor of a half-written file is unreadable,    *)
(* that what is about to be written is no earlier than what was accepted,  *)
(* and that at the window check the floor is the time just observed.       *)
(***************************************************************************)

LockInv == \A w \in Workers : pc[w] \in Preparing <=> lock = w

FloorInv ==
  /\ FloorHoldsTime
  /\ floor = Absent => accepted = 0
  /\ \A w \in Workers : pc[w] = "write" => floor = Torn
  /\ \A w \in Workers : pc[w] \in {"truncate", "write"} => accepted <= nowMs[w]

Observed == {"expiry", "challenge", "recipient"}
Cleared  == {"chain", "encrypt", "dispatch"}

TurnInv ==
  /\ \A w \in Workers : peak[w] <= accepted
  /\ \A w \in Workers : policy.enforce /\ pc[w] \in Observed => floor = nowMs[w]
  /\ \A w \in Workers :
       policy.enforce /\ pc[w] \in Cleared => peak[w] <= offer[w].notAfter

TimeInv == LockInv /\ FloorInv /\ TurnInv

LEMMA TimeInit == Init => TimeInv
  BY DEF Init, TimeInv, LockInv, FloorInv, FloorHoldsTime, TurnInv, Preparing, Observed, Cleared

\* A step that leaves the floor, the times and the policy alone, and takes one
\* worker to a point that asks nothing new, preserves the time invariant.
LEMMA TimeLocalStep ==
  ASSUME TypeOK, TimeInv, NEW w \in Workers, NEW point,
         Goto(w, point),
         point \notin {"truncate", "write"},
         point \in Observed => pc[w] \in Observed,
         point \in Cleared => pc[w] \in Cleared,
         point \in Preparing <=> lock' = w,
         lock' = w \/ lock' = Nobody \/ lock' = lock,
         lock' # lock => lock = w \/ lock = Nobody,
         UNCHANGED <<policy, floor, nowMs, accepted, peak>>,
         offer' = offer \/ (point \notin Cleared /\ \E o : offer' = [offer EXCEPT ![w] = o])
  PROVE  TimeInv'
<1> USE DEF TypeOK, TimeInv, Goto
<1>1. \A v \in Workers : v # w => pc'[v] = pc[v] /\ offer'[v] = offer[v]
  OBVIOUS
<1>2. pc'[w] = point
  OBVIOUS
<1>3. LockInv'
  BY <1>1, <1>2 DEF LockInv
<1>4. FloorInv'
  BY <1>1, <1>2 DEF FloorInv, FloorHoldsTime
<1>5. TurnInv'
  BY <1>1, <1>2 DEF TurnInv, Observed, Cleared
<1>6. QED
  BY <1>3, <1>4, <1>5

LEMMA TimeNext == TypeOK /\ TimeInv /\ [Next]_vars => TimeInv'
<1> SUFFICES ASSUME TypeOK, TimeInv, [Next]_vars PROVE TimeInv'
  OBVIOUS
<1> USE DEF TypeOK, memory
<1>1. ASSUME NEW w \in Workers, Begin(w) \/ Acquire(w) \/ Prepare(w) \/ Dispatch(w)
      PROVE  TimeInv'
  <2> USE DEF Proceed, Refuse
  <2>0. pc[w] \in Preparing <=> lock = w
    BY DEF Goto, TimeInv, LockInv
  <2>1. CASE Begin(w)
    BY <2>0, <2>1, TimeLocalStep DEF Begin, Observed, Cleared, Preparing
  <2>2. CASE Acquire(w)
    <3>1. lock = Nobody
      BY <2>2 DEF Goto, TimeInv, Acquire, LockFree
    <3>2. LockInv'
      BY <2>2, <3>1 DEF Goto, TimeInv, Acquire, LockInv, Preparing
    <3>3. FloorInv'
      BY <2>2 DEF Goto, TimeInv, Acquire, FloorInv, FloorHoldsTime
    <3>4. TurnInv'
      BY <2>2 DEF Goto, TimeInv, Acquire, TurnInv, Observed, Cleared
    <3>5. QED
      BY <3>2, <3>3, <3>4 DEF TimeInv
  <2>3. CASE Inventory(w)
    BY <2>0, <2>3, TimeLocalStep DEF Inventory, Observed, Cleared, Preparing
  <2>4. ASSUME NEW o \in Offers, Preassign(w, o) PROVE TimeInv'
    BY <2>0, <2>4, TimeLocalStep DEF Preassign, Observed, Cleared, Preparing
  <2>5. ASSUME NEW t \in Times, ReadFloor(w, t) PROVE TimeInv'
    <3>0. t \in Nat /\ lock = w
      BY <2>0, <2>5 DEF Goto, TimeInv, Times, ReadFloor, Preparing
    <3>1. CASE policy.enforce /\ Rewind(t)
      BY <2>0, <2>5, <3>1, TimeLocalStep DEF ReadFloor, Observed, Cleared, Preparing
    <3>2. CASE ~policy.enforce
      <4>1. Goto(w, "expiry") /\ nowMs' = [nowMs EXCEPT ![w] = t]
            /\ UNCHANGED <<policy, lock, offer, peak, floor, accepted>>
        BY <2>5, <3>2 DEF Goto, TimeInv, ReadFloor
      <4>2. LockInv'
        BY <3>0, <4>1 DEF Goto, TimeInv, LockInv, Preparing
      <4>3. FloorInv'
        BY <4>1 DEF Goto, TimeInv, FloorInv, FloorHoldsTime
      <4>4. TurnInv'
        BY <3>2, <4>1 DEF Goto, TimeInv, TurnInv, Observed, Cleared
      <4>5. QED
        BY <4>2, <4>3, <4>4 DEF TimeInv
    <3>3. CASE policy.enforce /\ ~Rewind(t)
      <4>1. nowMs' = [nowMs EXCEPT ![w] = t]
            /\ UNCHANGED <<policy, lock, offer, peak, floor, accepted>>
        BY <2>5, <3>3 DEF Goto, TimeInv, ReadFloor
      <4>2. Goto(w, IF floor # t THEN "truncate" ELSE "expiry")
        BY <2>5, <3>3 DEF Goto, TimeInv, ReadFloor
      <4>3. accepted <= t
        BY <3>0, <3>3 DEF Goto, TimeInv, Rewind, FloorInv, FloorHoldsTime
      <4>4. LockInv'
        BY <3>0, <4>1, <4>2 DEF Goto, TimeInv, LockInv, Preparing
      <4>5. FloorInv'
        BY <4>1, <4>2, <4>3 DEF Goto, TimeInv, FloorInv, FloorHoldsTime
      <4>6. TurnInv'
        BY <4>1, <4>2 DEF Goto, TimeInv, TurnInv, Observed, Cleared
      <4>7. QED
        BY <4>4, <4>5, <4>6 DEF TimeInv
    <3>4. QED
      BY <3>1, <3>2, <3>3 DEF TimeInv
  <2>6. CASE Truncate(w)
    <3>0. /\ pc[w] = "truncate" /\ lock = w
          /\ pc' = [pc EXCEPT ![w] = "write"]
          /\ floor' = Torn
          /\ UNCHANGED <<policy, lock, offer, nowMs, peak, accepted>>
      BY <2>0, <2>6 DEF Goto, TimeInv, Truncate, Preparing
    <3>1. LockInv'
      BY <3>0 DEF Goto, TimeInv, LockInv, Preparing
    <3>2. FloorInv'
      BY <3>0 DEF Goto, TimeInv, FloorInv, FloorHoldsTime
    <3>3. TurnInv'
      <4>1. \A v \in Workers : v # w => pc[v] \notin Observed
        BY <3>0 DEF Goto, TimeInv, LockInv, Observed, Preparing
      <4>2. QED
        BY <3>0, <4>1 DEF Goto, TimeInv, TurnInv, Observed, Cleared
    <3>4. QED
      BY <3>1, <3>2, <3>3 DEF TimeInv
  <2>7. CASE WriteFloor(w)
    <3>0. /\ pc[w] = "write" /\ lock = w
          /\ pc' = [pc EXCEPT ![w] = "expiry"]
          /\ floor' = nowMs[w] /\ accepted' = nowMs[w] /\ accepted <= nowMs[w]
          /\ UNCHANGED <<policy, lock, offer, nowMs, peak>>
      BY <2>0, <2>7 DEF Goto, TimeInv, WriteFloor, Later, Preparing, FloorInv
    <3>1. \A v \in Workers : v # w => pc[v] \notin Preparing
      BY <3>0 DEF Goto, TimeInv, LockInv
    <3>2. LockInv'
      BY <3>0 DEF Goto, TimeInv, LockInv, Preparing
    <3>3. FloorInv'
      BY <3>0, <3>1 DEF Goto, TimeInv, FloorInv, FloorHoldsTime, Preparing
    <3>4. TurnInv'
      BY <3>0, <3>1 DEF Goto, TimeInv, TurnInv, Observed, Cleared, Preparing
    <3>5. QED
      BY <3>2, <3>3, <3>4 DEF TimeInv
  <2>8. CASE CheckExpiry(w)
    <3>1. CASE offer[w].expires > nowMs[w]
      <4>1. PICK point \in {"challenge", "recipient"} : Goto(w, point)
        BY <2>8, <3>1 DEF Goto, TimeInv, CheckExpiry
      <4>2. QED
        BY <2>0, <2>8, <3>1, <4>1, TimeLocalStep DEF CheckExpiry, Observed, Cleared, Preparing
    <3>2. CASE ~(offer[w].expires > nowMs[w])
      BY <2>0, <2>8, <3>2, TimeLocalStep DEF CheckExpiry, Observed, Cleared, Preparing
    <3>3. QED
      BY <3>1, <3>2 DEF TimeInv
  <2>9. CASE Challenge(w)
    BY <2>0, <2>9, TimeLocalStep DEF Challenge, Observed, Cleared, Preparing
  <2>10. CASE AcceptRecipient(w)
    <3>0. /\ pc[w] = "recipient" /\ lock = w
          /\ UNCHANGED <<policy, floor, offer, nowMs, peak, accepted>>
      BY <2>0, <2>10 DEF Goto, TimeInv, AcceptRecipient, Preparing
    <3>1. CASE lock' = lock
      <4>1. PICK point \in {"chain", "encrypt"} : Goto(w, point)
        BY <2>10, <3>0, <3>1 DEF Goto, TimeInv, AcceptRecipient
      <4>2. EpochActive(w)
        BY <2>10, <3>0, <3>1 DEF Goto, TimeInv, AcceptRecipient
      <4>3. policy.enforce => peak[w] <= offer[w].notAfter
        <5>1. SUFFICES ASSUME policy.enforce PROVE peak[w] <= offer[w].notAfter
          OBVIOUS
        <5>2. floor = nowMs[w] /\ floor \in Nat
          BY <3>0, <5>1 DEF Goto, TimeInv, TurnInv, Observed
        <5>3. floor <= offer[w].notAfter
          BY <4>2, <5>1, <5>2 DEF Goto, TimeInv, EpochActive
        <5>4. peak[w] <= accepted /\ accepted <= floor
          BY <5>2 DEF Goto, TimeInv, TurnInv, FloorInv, FloorHoldsTime
        <5>5. offer[w].notAfter \in Nat
          BY DEF Goto, TimeInv, Offer
        <5>6. QED
          BY <5>2, <5>3, <5>4, <5>5 DEF TimeInv
      <4>4. LockInv'
        BY <3>0, <3>1, <4>1 DEF Goto, TimeInv, LockInv, Preparing
      <4>5. FloorInv'
        BY <3>0, <4>1 DEF Goto, TimeInv, FloorInv, FloorHoldsTime
      <4>6. TurnInv'
        BY <3>0, <4>1, <4>3 DEF Goto, TimeInv, TurnInv, Observed, Cleared
      <4>7. QED
        BY <4>4, <4>5, <4>6 DEF TimeInv
    <3>2. CASE lock' # lock
      <4>1. Refuse(w)
        BY <2>10, <3>2 DEF Goto, TimeInv, AcceptRecipient
      <4>2. QED
        BY <3>0, <4>1, TimeLocalStep DEF Observed, Cleared, Preparing
    <3>3. QED
      BY <3>1, <3>2 DEF TimeInv
  <2>11. CASE VerifyChain(w)
    <3>1. PICK point \in {"encrypt", "idle"} : Goto(w, point)
      BY <2>11 DEF Goto, TimeInv, VerifyChain
    <3>2. /\ pc[w] = "chain" /\ lock = w
          /\ lock' = IF point = "encrypt" THEN lock ELSE Nobody
          /\ UNCHANGED <<policy, floor, offer, nowMs, peak, accepted>>
      BY <2>0, <2>11, <3>1 DEF Goto, TimeInv, VerifyChain, Preparing
    <3>3. QED
      BY <3>1, <3>2, TimeLocalStep DEF Observed, Cleared, Preparing
  <2>12. CASE Encrypt(w)
    BY <2>0, <2>12, TimeLocalStep DEF Encrypt, Observed, Cleared, Preparing
  <2>13. CASE CallFails(w)
    BY <2>0, <2>13, TimeLocalStep DEF CallFails, Calling, Observed, Cleared, Preparing
  <2>14. CASE Abort(w)
    BY <2>0, <2>14, TimeLocalStep DEF Abort, Observed, Cleared, Preparing
  <2>15. CASE Dispatch(w)
    BY <2>0, <2>15, TimeLocalStep DEF Dispatch, Observed, Cleared, Preparing
  <2>16. QED
    BY <1>1, <2>1, <2>2, <2>3, <2>4, <2>5, <2>6, <2>7, <2>8, <2>9, <2>10, <2>11, <2>12,
       <2>13, <2>14, <2>15 DEF Prepare
<1>2. CASE Crash
  BY <1>2 DEF TimeInv, Crash, LockInv, FloorInv, FloorHoldsTime, TurnInv, Preparing, Observed, Cleared
<1>3. CASE UNCHANGED vars
  BY <1>3 DEF vars, locals, TimeInv, LockInv, FloorInv, FloorHoldsTime, TurnInv
<1>4. QED
  BY <1>1, <1>2, <1>3 DEF Next

\* The floor on disk is never behind a time the edge has accepted, whatever the
\* host's clock reads, wherever a write fails and whenever the process dies.
THEOREM FloorIsKept == Spec => []FloorHoldsTime
<1>1. TimeInv => FloorHoldsTime
  BY DEF TimeInv, FloorInv
<1>2. QED
  BY <1>1, TypeInit, TypeNext, TimeInit, TimeNext, PTL DEF Spec

\* No plaintext goes to an epoch that was over by a time the edge had accepted
\* before the request's turn, in this life of the process or an earlier one.
THEOREM EpochsStayDead == Spec => []DeadEpochStaysDead
<1>1. TimeInv => DeadEpochStaysDead
  BY DEF TimeInv, TurnInv, Cleared, DeadEpochStaysDead
<1>2. QED
  BY <1>1, TypeInit, TypeNext, TimeInit, TimeNext, PTL DEF Spec

(***************************************************************************)
(* The recipient.                                                          *)
(*                                                                         *)
(* The checks of one request are spread over steps; the invariant collects *)
(* what each has established, and says that the cache of verdicts holds    *)
(* genuine reports only.                                                   *)
(***************************************************************************)

Bound == {"observe", "truncate", "write"} \cup Observed \cup Cleared

Acceptable(o) ==
  /\ policy.launch # "off" => o.listed
  /\ ViaEvidence(o) \/ ViaIdentity(o)

TrustInv ==
  /\ verified \subseteq Genuine
  /\ \A w \in Workers : pc[w] \in Bound => offer[w].bound
  /\ \A w \in Workers : pc[w] \in Cleared => Acceptable(offer[w])
  /\ \A w \in Workers : pc[w] \in {"encrypt", "dispatch"} => Trustworthy(offer[w])

LEMMA TrustInit == Init => TrustInv
  BY DEF Init, TrustInv, Bound, Observed, Cleared

\* A step that leaves the offers, the cache and the policy alone, and takes one
\* worker no further through the checks, preserves the trust invariant.
LEMMA TrustLocalStep ==
  ASSUME TypeOK, TrustInv, NEW w \in Workers, NEW point,
         Goto(w, point),
         point \in Bound => pc[w] \in Bound,
         point \in Cleared => pc[w] \in Cleared,
         point \in {"encrypt", "dispatch"} => pc[w] \in {"encrypt", "dispatch"},
         UNCHANGED <<policy, offer, verified>>
  PROVE  TrustInv'
<1>1. \A v \in Workers : v # w => pc'[v] = pc[v]
  BY DEF TypeOK, Goto
<1>2. pc'[w] = point
  BY DEF TypeOK, Goto
<1>3. \A o : /\ Acceptable(o) => Acceptable(o)'
             /\ Trustworthy(o) => Trustworthy(o)'
  BY DEF Acceptable, ViaEvidence, ViaIdentity, Trustworthy
<1>4. QED
  BY <1>1, <1>2, <1>3 DEF TrustInv, Acceptable, ViaEvidence, ViaIdentity, Trustworthy

LEMMA TrustNext == TypeOK /\ TrustInv /\ [Next]_vars => TrustInv'
<1> SUFFICES ASSUME TypeOK, TrustInv, [Next]_vars PROVE TrustInv'
  OBVIOUS
<1> USE DEF TypeOK, memory, Goto
<1>1. ASSUME NEW w \in Workers, Begin(w) \/ Acquire(w) \/ Prepare(w) \/ Dispatch(w)
      PROVE  TrustInv'
  <2> USE DEF Proceed, Refuse, Bound, Observed, Cleared
  <2>1. CASE Begin(w)
    BY <2>1, TrustLocalStep DEF Begin
  <2>2. CASE Acquire(w)
    BY <2>2, TrustLocalStep DEF Acquire
  <2>3. CASE Inventory(w)
    BY <2>3, TrustLocalStep DEF Inventory
  <2>4. ASSUME NEW o \in Offers, Preassign(w, o) PROVE TrustInv'
    <3>1. PICK point \in {"observe", "idle"} : Goto(w, point) /\ (point = "observe" => o.bound)
      BY <2>4 DEF Preassign
    <3>2. /\ pc[w] = "preassign"
          /\ offer' = [offer EXCEPT ![w] = o]
          /\ UNCHANGED <<policy, verified>>
      BY <2>4 DEF Preassign
    <3>3. /\ pc'[w] = point /\ offer'[w] = o
          /\ \A v \in Workers : v # w => pc'[v] = pc[v] /\ offer'[v] = offer[v]
      BY <3>1, <3>2
    <3>4. QED
      BY <3>1, <3>2, <3>3 DEF TrustInv, Acceptable, ViaEvidence, ViaIdentity, Trustworthy
  <2>5. ASSUME NEW t \in Times, ReadFloor(w, t) PROVE TrustInv'
    <3>1. PICK point \in {"truncate", "expiry", "idle"} : Goto(w, point)
      BY <2>5 DEF ReadFloor
    <3>2. pc[w] = "observe" /\ UNCHANGED <<policy, offer, verified>>
      BY <2>5 DEF ReadFloor
    <3>3. QED
      BY <3>1, <3>2, TrustLocalStep
  <2>6. CASE Truncate(w)
    BY <2>6, TrustLocalStep DEF Truncate
  <2>7. CASE WriteFloor(w)
    BY <2>7, TrustLocalStep DEF WriteFloor
  <2>8. CASE CheckExpiry(w)
    <3>1. PICK point \in {"challenge", "recipient", "idle"} : Goto(w, point)
      BY <2>8 DEF CheckExpiry
    <3>2. pc[w] = "expiry" /\ UNCHANGED <<policy, offer, verified>>
      BY <2>8 DEF CheckExpiry
    <3>3. QED
      BY <3>1, <3>2, TrustLocalStep
  <2>9. CASE Challenge(w)
    BY <2>9, TrustLocalStep DEF Challenge
  <2>10. CASE AcceptRecipient(w)
    <3>0. pc[w] = "recipient" /\ UNCHANGED <<policy, offer, verified>>
      BY <2>10 DEF AcceptRecipient
    <3>1. CASE Goto(w, "idle")
      BY <3>0, <3>1, TrustLocalStep
    <3>2. CASE ~Goto(w, "idle")
      <4>1. /\ LaunchDigestOk(offer[w])
            /\ ViaEvidence(offer[w]) \/ ViaIdentity(offer[w])
            /\ Goto(w, IF ViaEvidence(offer[w]) /\ policy.chain THEN "chain" ELSE "encrypt")
        BY <2>10, <3>2 DEF AcceptRecipient
      <4>2. Acceptable(offer[w])
        BY <4>1 DEF Acceptable, LaunchDigestOk
      <4>3. offer[w].bound
        BY <3>0 DEF TrustInv
      <4>4. ~(ViaEvidence(offer[w]) /\ policy.chain) => Trustworthy(offer[w])
        BY <4>1, <4>2, <4>3 DEF Acceptable, ViaEvidence, ViaIdentity, Trustworthy
      <4>5. \A v \in Workers : v # w => pc'[v] = pc[v]
        BY <4>1
      <4>6. \/ pc'[w] = "chain"
            \/ pc'[w] = "encrypt" /\ Trustworthy(offer[w])
        BY <4>1, <4>4
      <4>7. QED
        BY <3>0, <4>2, <4>3, <4>5, <4>6
        DEF TrustInv, Acceptable, ViaEvidence, ViaIdentity, Trustworthy
    <3>3. QED
      BY <3>1, <3>2
  <2>11. CASE VerifyChain(w)
    <3>0. pc[w] = "chain" /\ UNCHANGED <<policy, offer>>
      BY <2>11 DEF VerifyChain
    <3>1. CASE ~ChainVouches(offer[w].report)
      BY <2>11, <3>1, TrustLocalStep DEF VerifyChain
    <3>2. CASE ChainVouches(offer[w].report)
      <4>1. offer[w].report \in Genuine
        BY <3>2 DEF ChainVouches, TrustInv
      <4>2. verified' \subseteq Genuine /\ Goto(w, "encrypt")
        BY <2>11, <3>2, <4>1 DEF VerifyChain, TrustInv
      <4>3. offer[w].bound /\ Acceptable(offer[w])
        BY <3>0 DEF TrustInv
      <4>4. Trustworthy(offer[w])
        BY <4>1, <4>3 DEF Acceptable, ViaEvidence, ViaIdentity, Trustworthy
      <4>5. pc'[w] = "encrypt" /\ \A v \in Workers : v # w => pc'[v] = pc[v]
        BY <4>2
      <4>6. QED
        BY <3>0, <4>2, <4>3, <4>4, <4>5
        DEF TrustInv, Acceptable, ViaEvidence, ViaIdentity, Trustworthy
    <3>3. QED
      BY <3>1, <3>2
  <2>12. CASE Encrypt(w)
    BY <2>12, TrustLocalStep DEF Encrypt
  <2>13. CASE CallFails(w)
    BY <2>13, TrustLocalStep DEF CallFails, Calling
  <2>14. CASE Abort(w)
    BY <2>14, TrustLocalStep DEF Abort
  <2>15. CASE Dispatch(w)
    BY <2>15, TrustLocalStep DEF Dispatch
  <2>16. QED
    BY <1>1, <2>1, <2>2, <2>3, <2>4, <2>5, <2>6, <2>7, <2>8, <2>9, <2>10, <2>11, <2>12,
       <2>13, <2>14, <2>15 DEF Prepare
<1>2. CASE Crash
  BY <1>2 DEF Crash, TrustInv, Bound, Observed, Cleared
<1>3. CASE UNCHANGED vars
  BY <1>3 DEF vars, locals, TrustInv, Acceptable, ViaEvidence, ViaIdentity, Trustworthy
<1>4. QED
  BY <1>1, <1>2, <1>3 DEF Next

\* Under every policy, plaintext is encrypted only to keys that the policy
\* trusts, however the gateway mixes its offers and whatever is in the cache of
\* verified reports.
THEOREM PlaintextIsSafe == Spec => []PlaintextOnlyToTrusted
<1>1. TrustInv => PlaintextOnlyToTrusted
  BY DEF TrustInv, PlaintextOnlyToTrusted
<1>2. QED
  BY <1>1, TypeInit, TypeNext, TrustInit, TrustNext, PTL DEF Spec
=============================================================================
