------------------------- MODULE SgxUpstream_proofs -------------------------
(***************************************************************************)
(* Proofs about the enclave's upstream.                                    *)
(*                                                                         *)
(* It implements OpeDispatch and OpeStream.  Both refinements are step     *)
(* simulations: under StepInv, which ties the phase of the request to that *)
(* of its preparation, every step is one of the abstract specification or  *)
(* leaves its variables unchanged.                                         *)
(*                                                                         *)
(* The bridge alone keeps CleanInv: what was written begins with its only  *)
(* status (OutInv), and the accumulator is empty once the lines are over   *)
(* (EndInv).  In the enclave ReadInv says which lines have been read, and  *)
(* WholeInv that they are all of them when a body in chunks is over.       *)
(*                                                                         *)
(* That what was written says what was read needs LineInv (the chunks read *)
(* are the first of the answer), SpeechInv (line by line the client has    *)
(* all but the bytes the accumulator keeps; of a body read at once it has  *)
(* nothing before the events of the aggregate) and FinalInv ([DONE] and a  *)
(* completion come when that is settled).  What the recursive functions    *)
(* and FlattenSeq compute is shown by induction on the length of what they *)
(* are given (UpTo, SeqInduction).  The types also need FlatInv, and in    *)
(* the enclave DataInv and OrderInv.                                       *)
(***************************************************************************)
EXTENDS SgxUpstream, SequenceTheorems, TLAPS

WF == INSTANCE WellFoundedInduction

\* How far the request is, its preparation and its exchange with the gateway.
PhaseInv ==
  /\ pc = "start" => turn = "idle"
  /\ turn \in Preparing \cup {"waiting"} => pc = "prepare"
  /\ turn = "dispatch" => pc = "dispatch"
  /\ call # "none" => turn \in Calls \cup {"dispatch"}

\* No chain is asked for, no time was accepted before the request's turn, and
\* there is no reply before the dispatch.
PrepareInv ==
  /\ ~policy.chain
  /\ pc = "start" \/ (pc = "prepare" /\ turn \in {"idle", "waiting"}) => accepted = 0
  /\ turn \in Preparing \cup {"waiting"} => ~(stream /\ embeddings)
  /\ pc \in {"start", "prepare", "dispatch"} => reply = "none"

StepInv == PhaseInv /\ PrepareInv

-----------------------------------------------------------------------------
(***************************************************************************)
(* The preparation, as OpeDispatch sees it.                                *)
(***************************************************************************)

LEMMA SoloGoto == ASSUME NEW point, turn' = point PROVE Dispatcher!Goto(Me, point)
  BY DEF Dispatcher!Goto

\* The worker keeps the lock and goes on ...
LEMMA SoloProceed ==
  ASSUME NEW point \in Preparing, turn \in Preparing, turn' = point,
         UNCHANGED <<policy, offer, nowMs>>
  PROVE  Dispatcher!Proceed(Me, point)
  BY SoloGoto DEF Dispatcher!Proceed

\* ... or drops it.
LEMMA SoloRefuse ==
  ASSUME NEW code, Refuse(code), UNCHANGED <<clock, offer>>
  PROVE  /\ Dispatcher!Refuse(Me)
         /\ UNCHANGED <<floor, accepted>>
<1>1. turn' = "idle" /\ policy' = policy /\ nowMs' = nowMs /\ offer' = offer
  BY DEF Refuse, clock
<1>2. "idle" \notin Preparing
  BY DEF Preparing
<1> QED BY <1>1, <1>2, SoloGoto DEF Dispatcher!Refuse, clock

\* A step that does not concern the preparation.
LEMMA SoloStutter == ASSUME UNCHANGED <<trust, turn>> PROVE UNCHANGED Dispatcher!vars
  BY DEF trust, clock, Dispatcher!vars, Dispatcher!memory, Dispatcher!locals

LEMMA DispatcherInit == SgxInit => Dispatcher!Init
  BY DEF SgxInit, Dispatcher!Init, Dispatcher!Times, Preparing

LEMMA DispatcherNext == StepInv /\ [SgxNext]_sgxVars => [Dispatcher!Next]_(Dispatcher!vars)
<1> SUFFICES ASSUME StepInv, [SgxNext]_sgxVars
             PROVE  Dispatcher!Next \/ UNCHANGED Dispatcher!vars
  OBVIOUS
<1>0. ASSUME Dispatcher!Prepare(Me) PROVE Dispatcher!Next
  BY <1>0 DEF Dispatcher!Next
<1>1. CASE Enter
  <2>1. CASE Refuse(400)
    BY <1>1, <2>1, SoloStutter DEF Enter, Refuse, trust
  <2>2. CASE Proceed("waiting")
    <3>1. Dispatcher!Begin(Me)
      BY <1>1, <2>2, SoloGoto
         DEF Enter, Proceed, Dispatcher!Begin, Dispatcher!memory, clock, Preparing
    <3> QED BY <3>1 DEF Dispatcher!Next
  <2> QED BY <1>1, <2>1, <2>2 DEF Enter
<1>2. CASE Acquire
  <2>1. accepted = 0
    BY <1>2 DEF Acquire, StepInv, PhaseInv, PrepareInv
  <2>2. Dispatcher!Acquire(Me)
    BY <1>2, <2>1, SoloGoto
       DEF Acquire, Proceed, Dispatcher!Acquire, Dispatcher!LockFree, clock, Preparing
  <2> QED BY <2>2 DEF Dispatcher!Next
<1>3. CASE Connect \/ WriteRequest
  BY <1>3, SoloStutter DEF Connect, WriteRequest
<1>4. CASE CallFails \/ CallRefused
  <2>1. PICK code : Refuse(code)
    BY <1>4 DEF CallFails, CallRefused
  <2>2. Dispatcher!Refuse(Me) /\ UNCHANGED <<floor, accepted>>
    BY <1>4, <2>1, SoloRefuse DEF CallFails, CallRefused
  <2>3. turn \in Calls \cup {"dispatch"}
    BY <1>4 DEF CallFails, CallRefused, StepInv, PhaseInv
  <2>4. CASE turn \in Calls
    <3>1. Dispatcher!CallFails(Me)
      BY <2>2, <2>4 DEF Dispatcher!CallFails, Dispatcher!Calling, Calls
    <3> QED BY <1>0, <3>1 DEF Dispatcher!Prepare
  <2>5. CASE turn = "dispatch"
    <3>1. Dispatcher!Dispatch(Me)
      BY <2>2, <2>5 DEF Dispatcher!Refuse, Dispatcher!Dispatch, Dispatcher!memory, Preparing
    <3> QED BY <3>1 DEF Dispatcher!Next
  <2> QED BY <2>3, <2>4, <2>5
<1>5. CASE Inventory
  <2>1. CASE Proceed("preassign")
    <3>1. Dispatcher!Inventory(Me)
      BY <1>5, <2>1, SoloProceed DEF Inventory, Proceed, Dispatcher!Inventory, clock, Preparing
    <3> QED BY <1>0, <3>1 DEF Dispatcher!Prepare
  <2>2. CASE \E code \in {400, 502} : Refuse(code)
    <3>1. Dispatcher!Abort(Me)
      BY <1>5, <2>2, SoloRefuse DEF Inventory, Dispatcher!Abort, Dispatcher!Preparing
    <3> QED BY <1>0, <3>1 DEF Dispatcher!Prepare
  <2> QED BY <1>5, <2>1, <2>2 DEF Inventory
<1>6. ASSUME NEW o \in Offers, Preassign(o)
      PROVE  Dispatcher!Next
  <2>1. Dispatcher!Preassign(Me, o)
    <3>1. CASE o.bound
      BY <1>6, <3>1, SoloGoto DEF Preassign, Dispatcher!Preassign, clock, Preparing
    <3>2. CASE ~o.bound
      BY <1>6, <3>2, SoloGoto DEF Preassign, Refuse, Dispatcher!Preassign, clock, Preparing
    <3> QED BY <3>1, <3>2
  <2> QED BY <1>0, <2>1 DEF Dispatcher!Prepare
<1>7. ASSUME NEW t \in 0 .. MaxTime, ReadFloor(t)
      PROVE  Dispatcher!Next
  <2>1. Dispatcher!ReadFloor(Me, t)
    <3>1. CASE policy.enforce /\ Dispatcher!Rewind(t)
      <4>1. Refuse(403) /\ UNCHANGED <<clock, offer>>
        BY <1>7, <3>1 DEF ReadFloor, clock
      <4> QED BY <1>7, <3>1, <4>1, SoloRefuse DEF ReadFloor, Dispatcher!ReadFloor
    <3>2. CASE ~(policy.enforce /\ Dispatcher!Rewind(t))
      <4> DEFINE p == IF policy.enforce /\ floor # t THEN "truncate" ELSE "expiry"
      <4>1. nowMs' = t /\ turn' = p /\ UNCHANGED <<policy, floor, accepted, offer>>
        BY <1>7, <3>2 DEF ReadFloor, Proceed
      <4>2. p \in Preparing /\ turn \in Preparing /\ turn = "observe"
        BY <1>7 DEF ReadFloor, Preparing
      <4>3. Dispatcher!Goto(Me, p)
        BY <4>1, SoloGoto
      <4> QED BY <3>2, <4>1, <4>2, <4>3 DEF Dispatcher!ReadFloor
    <3> QED BY <3>1, <3>2
  <2> QED BY <1>0, <2>1 DEF Dispatcher!Prepare, Dispatcher!Times
<1>8. CASE Truncate
  <2>1. Dispatcher!Truncate(Me)
    BY <1>8, SoloProceed DEF Truncate, Proceed, Dispatcher!Truncate, Preparing
  <2> QED BY <1>0, <2>1 DEF Dispatcher!Prepare
<1>9. CASE WriteFloor
  <2>1. Dispatcher!WriteFloor(Me)
    BY <1>9, SoloProceed DEF WriteFloor, Proceed, Dispatcher!WriteFloor, Preparing
  <2> QED BY <1>0, <2>1 DEF Dispatcher!Prepare
<1>10. CASE FloorFails
  <2>1. Dispatcher!Abort(Me)
    BY <1>10, SoloRefuse DEF FloorFails, Dispatcher!Abort, Dispatcher!Preparing
  <2> QED BY <1>0, <2>1 DEF Dispatcher!Prepare
<1>11. CASE CheckExpiry
  <2>1. Dispatcher!CheckExpiry(Me)
    <3>1. CASE offer.expires > nowMs
      <4> DEFINE p == IF policy.challenge THEN "challenge" ELSE "recipient"
      <4>1. Proceed(p) /\ turn = "expiry" /\ UNCHANGED <<clock, offer>>
        BY <1>11, <3>1 DEF CheckExpiry
      <4>2. Dispatcher!Proceed(Me, p)
        BY <4>1, SoloProceed DEF Proceed, clock, Preparing
      <4> QED BY <3>1, <4>1, <4>2 DEF Dispatcher!CheckExpiry, clock
    <3>2. CASE ~(offer.expires > nowMs)
      BY <1>11, <3>2, SoloRefuse DEF CheckExpiry, Dispatcher!CheckExpiry
    <3> QED BY <3>1, <3>2
  <2> QED BY <1>0, <2>1 DEF Dispatcher!Prepare
<1>12. CASE Challenge
  <2>1. CASE Proceed("recipient")
    <3>1. Dispatcher!Challenge(Me)
      BY <1>12, <2>1, SoloProceed DEF Challenge, Proceed, Dispatcher!Challenge, clock, Preparing
    <3> QED BY <1>0, <3>1 DEF Dispatcher!Prepare
  <2>2. CASE Refuse(403)
    <3>1. Dispatcher!Abort(Me)
      BY <1>12, <2>2, SoloRefuse DEF Challenge, Dispatcher!Abort, Dispatcher!Preparing
    <3> QED BY <1>0, <3>1 DEF Dispatcher!Prepare
  <2> QED BY <1>12, <2>1, <2>2 DEF Challenge
<1>13. CASE AcceptRecipient
  <2>1. ~policy.chain
    BY DEF StepInv, PrepareInv
  <2>2. Dispatcher!AcceptRecipient(Me)
    <3>1. CASE Accepts
      <4>1. Proceed("encrypt") /\ turn = "recipient" /\ UNCHANGED <<clock, offer>>
        BY <1>13, <3>1 DEF AcceptRecipient
      <4>2. Dispatcher!Proceed(Me, "encrypt")
        BY <4>1, SoloProceed DEF Proceed, clock, Preparing
      <4> QED BY <2>1, <3>1, <4>1, <4>2 DEF Dispatcher!AcceptRecipient, Accepts, clock
    <3>2. CASE ~Accepts
      <4>1. Dispatcher!Refuse(Me) /\ UNCHANGED <<floor, accepted>> /\ turn = "recipient"
        BY <1>13, <3>2, SoloRefuse DEF AcceptRecipient
      <4> QED BY <3>2, <4>1 DEF Dispatcher!AcceptRecipient, Accepts
    <3> QED BY <3>1, <3>2
  <2> QED BY <1>0, <2>2 DEF Dispatcher!Prepare
<1>14. CASE Encrypt
  <2>1. CASE Refuse(500)
    <3>1. Dispatcher!Abort(Me)
      BY <1>14, <2>1, SoloRefuse DEF Encrypt, Dispatcher!Abort, Dispatcher!Preparing
    <3> QED BY <1>0, <3>1 DEF Dispatcher!Prepare
  <2>2. CASE turn' = "dispatch" /\ policy' = policy
    <3>1. Dispatcher!Encrypt(Me)
      BY <1>14, <2>2, SoloGoto DEF Encrypt, Dispatcher!Encrypt, clock, Preparing
    <3> QED BY <1>0, <3>1 DEF Dispatcher!Prepare
  <2> QED BY <1>14, <2>1, <2>2 DEF Encrypt
<1>15. CASE SgxDispatch
  <2>1. Dispatcher!Dispatch(Me)
    BY <1>15, SoloGoto
       DEF SgxDispatch, trust, clock, Dispatcher!Dispatch, Dispatcher!memory, Preparing
  <2> QED BY <2>1 DEF Dispatcher!Next
<1>16. CASE \/ SgxReadShare \/ ReadText \/ ReadDelta \/ SgxReadTrailer \/ SgxReadEof \/ SgxReadFails
            \/ SgxReadBody \/ SgxEmitAggregate \/ SgxAnswerWhole
            \/ SgxWriteFinish \/ SgxWriteDone \/ SgxWriteEnd \/ SgxWriteFails
  <2>1. Detailed
    BY <1>16 DEF SgxReadShare, ReadText, ReadDelta, SgxReadTrailer, SgxReadEof, SgxReadFails,
                 SgxReadBody, SgxEmitAggregate, SgxAnswerWhole, SgxWriteFinish, SgxWriteDone,
                 SgxWriteEnd, SgxWriteFails
  <2> QED BY <2>1, SoloStutter DEF Detailed
<1>17. CASE SgxBegin \/ UNCHANGED sgxVars
  BY <1>17, SoloStutter DEF SgxBegin, sgxVars
<1> QED
  BY <1>1, <1>2, <1>3, <1>4, <1>5, <1>6, <1>7, <1>8, <1>9, <1>10, <1>11, <1>12, <1>13, <1>14,
     <1>15, <1>16, <1>17
     DEF SgxNext

-----------------------------------------------------------------------------
(***************************************************************************)
(* The phases of a request.                                                *)
(***************************************************************************)

\* The steps after the dispatch.
Answering ==
  \/ SgxReadShare \/ ReadText \/ ReadDelta \/ SgxReadTrailer \/ SgxReadEof \/ SgxReadFails
  \/ SgxReadBody \/ SgxEmitAggregate \/ SgxAnswerWhole
  \/ SgxWriteFinish \/ SgxWriteDone \/ SgxWriteEnd \/ SgxWriteFails

\* They are steps of the bridge, and never go back.
LEMMA ReadChunkPc == ASSUME ReadChunk PROVE pc = "read" /\ pc' \in {"read", "closed"}
<1>1. pc = "read"
  BY DEF ReadChunk, LineByLine
<1>2. pc' = pc \/ pc' = "closed"
  BY DEF ReadChunk, EmitDelta, EmitText, Fail
<1> QED BY <1>1, <1>2

LEMMA AnsweringIs ==
  ASSUME Answering
  PROVE  /\ Detailed
         /\ Next
         /\ pc \notin {"prepare", "dispatch"}
         /\ pc' \notin {"start", "prepare", "dispatch"}
<1>1. CASE SgxReadShare \/ ReadText \/ ReadDelta \/ SgxReadTrailer
  <2>1. CASE SgxReadShare \/ SgxReadTrailer
    BY <2>1 DEF SgxReadShare, SgxReadTrailer, ReadShare, ReadTrailer,
                LineByLine, Next
  <2>2. CASE ReadText \/ ReadDelta
    BY <2>2, ReadChunkPc DEF ReadText, ReadDelta, Next
  <2> QED BY <1>1, <2>1, <2>2
<1>2. CASE SgxReadEof \/ SgxReadFails \/ SgxReadBody
  BY <1>2 DEF SgxReadEof, SgxReadFails, SgxReadBody, ReadEof, ReadFails, ReadBody,
              LineByLine, Fail, Next
<1>3. CASE SgxEmitAggregate \/ SgxAnswerWhole
  BY <1>3 DEF SgxEmitAggregate, SgxAnswerWhole, EmitAggregate, AnswerWhole, Fail,
              Next
<1>4. CASE SgxWriteFinish \/ SgxWriteDone \/ SgxWriteEnd \/ SgxWriteFails
  BY <1>4 DEF SgxWriteFinish, SgxWriteDone, SgxWriteEnd, SgxWriteFails, WriteFinish,
              WriteDone, WriteEnd, WriteFails, Next
<1> QED BY <1>1, <1>2, <1>3, <1>4 DEF Answering

LEMMA StepInit == SgxInit => StepInv
<1> SUFFICES ASSUME SgxInit PROVE StepInv
  OBVIOUS
<1>1. PhaseInv
  BY DEF SgxInit, Init, PhaseInv, Preparing
<1>2. PrepareInv
  BY DEF SgxInit, Init, PrepareInv, Preparing
<1> QED BY <1>1, <1>2 DEF StepInv

\* A refusal ends the request.
LEMMA RefuseStep == ASSUME StepInv, NEW code, Refuse(code) PROVE StepInv'
  BY DEF StepInv, PhaseInv, PrepareInv, Refuse, Fail, Preparing, request, relay

\* The preparation goes on.
LEMMA ProceedStep ==
  ASSUME StepInv, pc = "prepare", ~(stream /\ embeddings), NEW point \in Preparing,
         Proceed(point)
  PROVE  StepInv'
<1>1. /\ pc' = pc /\ reply' = reply /\ stream' = stream /\ embeddings' = embeddings
      /\ policy' = policy /\ turn' = point
      /\ call' = IF point \in Calls THEN "connect" ELSE "none"
  BY DEF Proceed, vars, request, relay, bridge
<1>2. point \notin {"idle", "waiting", "dispatch"}
  BY DEF Preparing
<1> QED BY <1>1, <1>2 DEF StepInv, PhaseInv, PrepareInv

LEMMA StepNext == StepInv /\ [SgxNext]_sgxVars => StepInv'
<1> SUFFICES ASSUME StepInv, [SgxNext]_sgxVars PROVE StepInv'
  OBVIOUS
<1>0. turn \in Preparing \cup {"waiting"} => pc = "prepare" /\ ~(stream /\ embeddings)
  BY DEF StepInv, PhaseInv, PrepareInv
<1>1. CASE SgxBegin
  BY <1>1 DEF SgxBegin, Begin, request, relay, trust, clock, StepInv, PhaseInv,
              PrepareInv, Preparing
<1>2. CASE Enter
  <2>1. CASE Refuse(400)
    BY <2>1, RefuseStep
  <2>2. CASE ~(stream /\ embeddings) /\ Proceed("waiting")
    BY <1>2, <2>2
       DEF Enter, Proceed, vars, request, relay, bridge, clock, StepInv, PhaseInv, PrepareInv,
           Preparing, Calls
  <2> QED BY <1>2, <2>1, <2>2 DEF Enter
<1>3. CASE Connect \/ WriteRequest
  BY <1>3 DEF Connect, WriteRequest, vars, request, relay, bridge, trust, clock, StepInv, PhaseInv,
              PrepareInv
<1>4. CASE CallFails \/ CallRefused
  BY <1>4, RefuseStep DEF CallFails, CallRefused
<1>5. CASE Acquire \/ Inventory
  BY <1>0, <1>5, RefuseStep, ProceedStep DEF Acquire, Inventory, Preparing
<1>6. ASSUME NEW o \in Offers, Preassign(o) PROVE StepInv'
  <2>1. CASE o.bound
    BY <1>0, <1>6, <2>1
       DEF Preassign, vars, request, relay, bridge, clock, StepInv, PhaseInv, PrepareInv, Preparing
  <2>2. CASE ~o.bound
    BY <1>6, <2>2, RefuseStep DEF Preassign
  <2> QED BY <2>1, <2>2
<1>7. ASSUME NEW t \in 0 .. MaxTime, ReadFloor(t) PROVE StepInv'
  BY <1>0, <1>7, RefuseStep, ProceedStep DEF ReadFloor, Preparing
<1>8. CASE Truncate \/ WriteFloor
  BY <1>0, <1>8, ProceedStep DEF Truncate, WriteFloor, Preparing
<1>9. CASE FloorFails
  BY <1>9, RefuseStep DEF FloorFails
<1>10. CASE CheckExpiry \/ Challenge \/ AcceptRecipient
  BY <1>0, <1>10, RefuseStep, ProceedStep DEF CheckExpiry, Challenge, AcceptRecipient, Preparing
<1>11. CASE Encrypt
  <2>1. CASE Refuse(500)
    BY <2>1, RefuseStep
  <2>2. CASE ~Refuse(500)
    BY <1>0, <1>11, <2>2
       DEF Encrypt, request, relay, bridge, StepInv, PhaseInv, PrepareInv, Preparing
  <2> QED BY <2>1, <2>2
<1>12. CASE SgxDispatch
  BY <1>12 DEF SgxDispatch, Dispatch, Fail, trust, StepInv, PhaseInv, PrepareInv,
               Preparing
<1>13. CASE Answering
  <2>1. /\ UNCHANGED <<policy, turn, call>>
        /\ pc \notin {"prepare", "dispatch"} /\ pc' \notin {"start", "prepare", "dispatch"}
    BY <1>13, AnsweringIs DEF Detailed, trust
  <2> QED BY <2>1 DEF StepInv, PhaseInv, PrepareInv
<1>14. CASE UNCHANGED sgxVars
  BY <1>14 DEF sgxVars, vars, request, relay, bridge, trust, clock, StepInv, PhaseInv, PrepareInv
<1> QED
  BY <1>1, <1>2, <1>3, <1>4, <1>5, <1>6, <1>7, <1>8, <1>9, <1>10, <1>11, <1>12, <1>13, <1>14
     DEF SgxNext, Answering

-----------------------------------------------------------------------------
(***************************************************************************)
(* The answer, as OpeStream sees it.                                       *)
(***************************************************************************)

\* What the preparation refuses, prepare fails with.
LEMMA BridgeRefuse ==
  ASSUME pc = "prepare", NEW code \in {400, 403, 500, 502}, Refuse(code),
         stream /\ embeddings => code = 400
  PROVE  Next
<1>1. Prepare
  BY DEF Refuse, Prepare, request, relay, bridge
<1> QED BY <1>1 DEF Next

LEMMA BridgeInit == SgxInit => Init
  BY DEF SgxInit

LEMMA BridgeNext == StepInv /\ [SgxNext]_sgxVars => [Next]_vars
<1> SUFFICES ASSUME StepInv, [SgxNext]_sgxVars
             PROVE  Next \/ UNCHANGED vars
  OBVIOUS
<1>0. turn \in Preparing \cup {"waiting"} => pc = "prepare" /\ ~(stream /\ embeddings)
  BY DEF StepInv, PhaseInv, PrepareInv
<1>1. CASE SgxBegin
  BY <1>1 DEF SgxBegin, Next
<1>2. CASE Enter
  <2>1. CASE Refuse(400)
    BY <1>2, <2>1, BridgeRefuse DEF Enter
  <2>2. CASE Proceed("waiting")
    BY <2>2 DEF Proceed
  <2> QED BY <1>2, <2>1, <2>2 DEF Enter
<1>3. CASE Connect \/ WriteRequest
  BY <1>3 DEF Connect, WriteRequest
<1>4. CASE CallFails \/ CallRefused
  <2>1. turn \in Calls \cup {"dispatch"} /\ (CallRefused => turn \in Calls)
    BY <1>4 DEF CallFails, CallRefused, StepInv, PhaseInv
  <2>2. PICK code \in {400, 403, 502} : Refuse(code) /\ (turn = "dispatch" => code = 502)
    <3>1. \A status \in Refusals : MapGw(status) \in {400, 403, 502}
      BY DEF Refusals, MapGw
    <3>2. CASE CallFails
      BY <3>2 DEF CallFails
    <3>3. CASE CallRefused
      BY <2>1, <3>1, <3>3 DEF CallRefused, Calls
    <3> QED BY <1>4, <3>2, <3>3
  <2>3. CASE turn \in Calls
    BY <1>0, <2>2, <2>3, BridgeRefuse DEF Calls, Preparing
  <2>4. CASE turn = "dispatch"
    <3>1. pc = "dispatch" /\ reply = "none"
      BY <2>4 DEF StepInv, PhaseInv, PrepareInv
    <3>2. Dispatch
      BY <2>2, <2>4, <3>1 DEF Refuse, Dispatch, request, relay, bridge
    <3> QED BY <3>2 DEF Next
  <2> QED BY <2>1, <2>3, <2>4
<1>5. CASE Acquire \/ Inventory
  BY <1>0, <1>5, BridgeRefuse DEF Acquire, Inventory, Proceed, Preparing
<1>6. ASSUME NEW o \in Offers, Preassign(o) PROVE Next \/ UNCHANGED vars
  BY <1>0, <1>6, BridgeRefuse DEF Preassign, Preparing
<1>7. ASSUME NEW t \in 0 .. MaxTime, ReadFloor(t) PROVE Next \/ UNCHANGED vars
  BY <1>0, <1>7, BridgeRefuse DEF ReadFloor, Proceed, Preparing
<1>8. CASE Truncate \/ WriteFloor
  BY <1>8 DEF Truncate, WriteFloor, Proceed
<1>9. CASE FloorFails
  BY <1>0, <1>9, BridgeRefuse DEF FloorFails, Preparing
<1>10. CASE CheckExpiry \/ Challenge \/ AcceptRecipient
  BY <1>0, <1>10, BridgeRefuse
     DEF CheckExpiry, Challenge, AcceptRecipient, Proceed, Preparing
<1>11. CASE Encrypt
  <2>1. CASE Refuse(500)
    BY <1>0, <1>11, <2>1, BridgeRefuse DEF Encrypt, Preparing
  <2>2. CASE ~Refuse(500)
    <3>1. Prepare
      BY <1>0, <1>11, <2>2
         DEF Encrypt, Preparing, Prepare, request, relay, bridge
    <3> QED BY <3>1 DEF Next
  <2> QED BY <2>1, <2>2
<1>12. CASE SgxDispatch
  BY <1>12 DEF SgxDispatch, Next
<1>13. CASE Answering
  BY <1>13, AnsweringIs
<1>14. CASE UNCHANGED sgxVars
  BY <1>14 DEF sgxVars
<1> QED
  BY <1>1, <1>2, <1>3, <1>4, <1>5, <1>6, <1>7, <1>8, <1>9, <1>10, <1>11, <1>12, <1>13, <1>14
     DEF SgxNext, Answering

-----------------------------------------------------------------------------

LEMMA StepInvariance == SgxSpec => []StepInv
  BY StepInit, StepNext, PTL DEF SgxSpec

\* The enclave's prepare implements that of OpeDispatch, for a worker alone: no
\* check of accept_engine_recipient is skipped and nothing is encrypted without
\* the lock, wherever an exchange with the gateway fails.
THEOREM RefinesDispatcher == SgxSpec => ImplementsDispatcher
<1>1. SgxSpec => Dispatcher!Spec
  BY DispatcherInit, DispatcherNext, StepInvariance, PTL DEF SgxSpec, Dispatcher!Spec
<1> QED BY <1>1 DEF ImplementsDispatcher

\* What the enclave writes to its client is what OpeStream allows, with every
\* framing that FramedBodyReader accepts and every error of map_gw.
THEOREM RefinesBridge == SgxSpec => ImplementsBridge
<1>1. SgxSpec => Spec
  BY BridgeInit, BridgeNext, StepInvariance, PTL DEF SgxSpec, Spec
<1> QED BY <1>1 DEF ImplementsBridge

-----------------------------------------------------------------------------
(***************************************************************************)
(* What is written to the client.                                          *)
(***************************************************************************)

IsSeq(s) == s \in Seq(Range(s))

LEMMA SeqIs ==
  ASSUME NEW s, IsSeq(s)
  PROVE  Len(s) \in Nat /\ DOMAIN s = 1 .. Len(s) /\ Range(s) = {s[k] : k \in 1 .. Len(s)}
  BY LenProperties DEF IsSeq, Range

LEMMA AppendIs ==
  ASSUME NEW s, IsSeq(s), NEW x
  PROVE  /\ IsSeq(Append(s, x))
         /\ Len(Append(s, x)) = Len(s) + 1
         /\ DOMAIN Append(s, x) = 1 .. Len(s) + 1
         /\ \A k \in 1 .. Len(s) : Append(s, x)[k] = s[k]
         /\ Append(s, x)[Len(s) + 1] = x
<1> DEFINE S == Range(s) \cup {x}
<1>1. s \in Seq(S) /\ x \in S
  BY SeqMonotonic DEF IsSeq
<1> HIDE DEF S
<1>2. /\ Append(s, x) \in Seq(S) /\ Len(Append(s, x)) = Len(s) + 1
      /\ \A k \in 1 .. Len(s) : Append(s, x)[k] = s[k]
      /\ Append(s, x)[Len(s) + 1] = x
  BY <1>1, AppendProperties
<1> QED BY <1>2, LenProperties, SeqOfRange DEF IsSeq

LEMMA RangeAppend ==
  ASSUME NEW s, IsSeq(s), NEW x
  PROVE  Range(Append(s, x)) = Range(s) \cup {x}
<1> DEFINE t == Append(s, x)
           n == Len(s)
<1>1. /\ n \in Nat /\ DOMAIN s = 1 .. n /\ DOMAIN t = 1 .. n + 1
      /\ (\A k \in 1 .. n : t[k] = s[k]) /\ t[n + 1] = x
  BY SeqIs, AppendIs
<1> HIDE DEF t, n
<1>2. \A k : k \in 1 .. n + 1 <=> k \in 1 .. n \/ k = n + 1
  BY <1>1
<1>3. Range(t) = Range(s) \cup {x}
  BY <1>1, <1>2 DEF Range
<1> QED BY <1>3 DEF t

LEMMA ConcatIs ==
  ASSUME NEW s, IsSeq(s), NEW t, IsSeq(t)
  PROVE  /\ IsSeq(s \o t)
         /\ Len(s \o t) = Len(s) + Len(t)
         /\ DOMAIN (s \o t) = 1 .. Len(s) + Len(t)
         /\ \A k \in 1 .. Len(s) : (s \o t)[k] = s[k]
         /\ \A k \in 1 .. Len(s) + Len(t) : k > Len(s) => (s \o t)[k] \in Range(t)
<1> DEFINE S == Range(s) \cup Range(t)
<1>1. s \in Seq(S) /\ t \in Seq(S)
  BY SeqMonotonic DEF IsSeq
<1> HIDE DEF S
<1>2. /\ s \o t \in Seq(S) /\ Len(s \o t) = Len(s) + Len(t)
      /\ \A k \in 1 .. Len(s) + Len(t) :
           (s \o t)[k] = IF k <= Len(s) THEN s[k] ELSE t[k - Len(s)]
  BY <1>1, ConcatProperties
<1>3. Len(s) \in Nat /\ Len(t) \in Nat
  BY SeqIs
<1>4. IsSeq(s \o t) /\ DOMAIN (s \o t) = 1 .. Len(s) + Len(t)
  BY <1>2, LenProperties, SeqOfRange DEF IsSeq
<1>5. \A k \in 1 .. Len(s) : (s \o t)[k] = s[k]
  BY <1>2, <1>3
<1>6. ASSUME NEW k \in 1 .. Len(s) + Len(t), k > Len(s)
      PROVE  (s \o t)[k] \in Range(t)
  <2>1. (s \o t)[k] = t[k - Len(s)] /\ k - Len(s) \in 1 .. Len(t)
    BY <1>2, <1>3, <1>6
  <2> QED BY <2>1, SeqIs
<1> QED BY <1>2, <1>4, <1>5, <1>6

\* The events of an aggregated answer are events.
LEMMA EventsAre ==
  ASSUME NEW agg
  PROVE  /\ IsSeq(EventsOf(agg))
         /\ \A e \in Range(EventsOf(agg)) : e.kind = "delta"
<1> DEFINE x == Event(agg.text, <<>>, <<>>, None)
           y == Event(<<>>, <<>>, Indexed(agg.tools), None)
           z == Event(<<>>, <<>>, <<>>, FinishOf(agg))
           S == {x, y, z}
           A == IF agg.text = <<>> THEN <<>> ELSE <<x>>
           B == IF agg.tools = <<>> THEN <<>> ELSE <<y>>
           C == IF FinishOf(agg) = None THEN <<>> ELSE <<z>>
<1>1. \A e \in S : e.kind = "delta"
  BY DEF Event
<1>2. EventsOf(agg) = (A \o B) \o C
  BY DEF EventsOf
<1> HIDE DEF x, y, z
<1>3. A \in Seq(S) /\ B \in Seq(S) /\ C \in Seq(S)
  <2>1. x \in S /\ y \in S /\ z \in S
    OBVIOUS
  <2> HIDE DEF S
  <2>2. \A e \in S : <<e>> \in Seq(S)
    OBVIOUS
  <2>3. <<>> \in Seq(S)
    OBVIOUS
  <2> QED BY <2>1, <2>2, <2>3
<1> HIDE DEF S, A, B, C
<1>4. (A \o B) \o C \in Seq(S)
  BY <1>3, ConcatProperties
<1> QED BY <1>1, <1>2, <1>4, SeqOfRange, RangeOfSeq DEF IsSeq

\* Nothing is written before the header of a stream and nothing of any other
\* answer before it is whole; a status is the first item and no other.
OutInv ==
  /\ IsSeq(out)
  /\ pc = "start" => out = <<>>
  /\ ~stream /\ pc # "closed" => out = <<>>
  /\ stream /\ pc \notin {"start", "closed"} => out # <<>>
  /\ pc \in {"finish", "done", "end"} => stream
  /\ \A k \in DOMAIN out : out[k].kind = "status" <=> k = 1

\* What is known of the relay and of the accumulator as a stream comes to its end.
EndInv ==
  /\ pc \in {"read", "aggregate", "finish", "done", "end"} => reply = "ok"
  /\ ~(stream /\ ndjson) => pending = <<>>
  /\ pc \in {"aggregate", "finish", "done", "end"} => pending = <<>>
  /\ stream /\ ndjson /\ read # <<>> => share
  /\ pc # "closed" => \A k \in DOMAIN out : out[k].kind # "end"
  /\ (\E k \in DOMAIN out : out[k].kind = "end") =>
       stream /\ reply = "ok" /\ pending = <<>>

\* An item that is no status, at the end of a sequence that has one.
LEMMA OutAppend ==
  ASSUME OutInv, out # <<>>, NEW x, x.kind # "status", out' = Append(out, x)
  PROVE  /\ IsSeq(out') /\ out' # <<>>
         /\ \A k \in DOMAIN out' : out'[k].kind = "status" <=> k = 1
         /\ \A k \in DOMAIN out' : (k \in DOMAIN out /\ out'[k] = out[k]) \/ out'[k] = x
<1>1. IsSeq(out) /\ Len(out) \in Nat /\ DOMAIN out = 1 .. Len(out)
  BY SeqIs DEF OutInv
<1>2. Len(out) # 0
  BY <1>1, EmptySeq DEF IsSeq
<1>3. /\ IsSeq(out') /\ Len(out') = Len(out) + 1 /\ DOMAIN out' = 1 .. Len(out) + 1
      /\ \A k \in 1 .. Len(out) : out'[k] = out[k]
      /\ out'[Len(out) + 1] = x
  BY <1>1, AppendIs
<1>4. ASSUME NEW k \in DOMAIN out'
      PROVE  /\ out'[k].kind = "status" <=> k = 1
             /\ (k \in DOMAIN out /\ out'[k] = out[k]) \/ out'[k] = x
  <2>1. CASE k \in 1 .. Len(out)
    BY <1>1, <1>3, <2>1 DEF OutInv
  <2>2. CASE k = Len(out) + 1
    BY <1>1, <1>2, <1>3, <2>2
  <2> QED BY <1>1, <1>3, <2>1, <2>2
<1>5. out' # <<>>
  BY <1>1, <1>3, EmptySeq DEF IsSeq
<1> QED BY <1>3, <1>4, <1>5

\* A request fails: a stream is cut off, any other gets the status as its answer.
LEMMA OutFail ==
  ASSUME OutInv, pc # "closed", NEW code, Fail(code), stream' = stream
  PROVE  /\ OutInv' /\ pc' = "closed"
         /\ \A k \in DOMAIN out' : \/ k \in DOMAIN out /\ out'[k] = out[k]
                                   \/ out'[k].kind = "status"
<1>1. CASE stream
  BY <1>1 DEF Fail, OutInv
<1>2. CASE ~stream
  <2>1. out = <<>> /\ IsSeq(out) /\ Len(out) = 0
    BY <1>2, EmptySeq DEF OutInv
  <2>2. out' = Append(out, Status(code)) /\ pc' = "closed"
    BY <1>2 DEF Fail
  <2>3. IsSeq(out') /\ DOMAIN out' = 1 .. 1 /\ out'[1] = Status(code)
    <3>1. /\ IsSeq(out') /\ DOMAIN out' = 1 .. Len(out) + 1
          /\ out'[Len(out) + 1] = Status(code)
      BY <2>1, <2>2, AppendIs
    <3> QED BY <2>1, <3>1
  <2>4. Status(code).kind = "status"
    BY DEF Status
  <2> QED BY <1>2, <2>2, <2>3, <2>4 DEF OutInv
<1> QED BY <1>1, <1>2

\* What is read line by line is what lies before the next line.
ReadInv ==
  /\ IsSeq(answer)
  /\ next \in Nat
  /\ ~(stream /\ ndjson) => next \in {0, 1}
  /\ pc \in {"start", "prepare", "dispatch"} => next \in {0, 1} /\ read = <<>>
  /\ pc = "read" =>
       /\ next = 0 => read = <<>>
       /\ next \in 1 .. Len(answer) + 1 => read = SubSeq(answer, 1, next - 1)
       /\ next = Len(answer) + 2 => read = answer

\* Neither [DONE] nor a completion is in what was written.
NoFinal(s) == \A k \in DOMAIN s : s[k].kind \notin {"done", "completion"}

\* An answer in chunks is whole once the bridge is past reading, and there is
\* nothing final in what was written until then.
WholeInv ==
  /\ framing = "chunked" /\ pc \in {"aggregate", "finish", "done", "end"} => read = answer
  /\ pc \notin {"end", "closed"} => NoFinal(out)
  /\ WholeWhenChunked

-----------------------------------------------------------------------------
(***************************************************************************)
(* The end of a stream, for the bridge alone.                              *)
(***************************************************************************)

CleanInv == OutInv /\ EndInv

LEMMA CleanInit == Init => CleanInv
<1> SUFFICES ASSUME Init PROVE CleanInv
  OBVIOUS
<1>1. out = <<>> /\ pc = "start" /\ pending = <<>> /\ read = <<>>
  BY DEF Init
<1>2. IsSeq(out) /\ DOMAIN out = 1 .. 0
  BY <1>1 DEF IsSeq
<1> QED BY <1>1, <1>2 DEF CleanInv, OutInv, EndInv

\* A failure keeps it.
LEMMA CleanFail ==
  ASSUME CleanInv, pc # "closed", NEW code, Fail(code),
         stream' = stream, ndjson' = ndjson, share' = share,
         ~(stream /\ ndjson) => pending' = <<>>,
         stream /\ ndjson /\ read' # <<>> => share
  PROVE  CleanInv'
<1>1. /\ OutInv' /\ pc' = "closed"
      /\ \A k \in DOMAIN out' : \/ k \in DOMAIN out /\ out'[k] = out[k]
                                \/ out'[k].kind = "status"
  BY OutFail DEF CleanInv
<1>2. \A k \in DOMAIN out' : out'[k].kind # "end"
  BY <1>1 DEF CleanInv, EndInv
<1> QED BY <1>1, <1>2 DEF CleanInv, EndInv

\* So does a step that writes one item or none and has the rest in order.
LEMMA CleanWrite ==
  ASSUME CleanInv, stream, pc \notin {"start", "closed"},
         stream' = stream, ndjson' = ndjson, reply' = reply, share' = share,
         NEW x, x.kind # "status", out' = out \/ out' = Append(out, x),
         pc' \in {"read", "aggregate", "finish", "done", "end", "closed"},
         pc' \in {"read", "aggregate", "finish", "done", "end"} => reply = "ok",
         ~ndjson => pending' = <<>>,
         pc' \in {"aggregate", "finish", "done", "end"} => pending' = <<>>,
         ndjson /\ read' # <<>> => share,
         x.kind = "end" => pc' = "closed" /\ reply = "ok" /\ pending' = <<>>
  PROVE  CleanInv'
<1>1. out # <<>> /\ \A k \in DOMAIN out : out[k].kind # "end"
  BY DEF CleanInv, OutInv, EndInv
<1>2. /\ IsSeq(out') /\ out' # <<>>
      /\ \A k \in DOMAIN out' : out'[k].kind = "status" <=> k = 1
      /\ \A k \in DOMAIN out' : (k \in DOMAIN out /\ out'[k] = out[k]) \/ out'[k] = x
  <2>1. CASE out' = out
    BY <1>1, <2>1 DEF CleanInv, OutInv
  <2>2. CASE out' = Append(out, x)
    BY <1>1, <2>2, OutAppend DEF CleanInv
  <2> QED BY <2>1, <2>2
<1>3. OutInv'
  BY <1>2 DEF OutInv
<1>4. \A k \in DOMAIN out' : out'[k].kind = "end" => x.kind = "end"
  BY <1>1, <1>2
<1>5. EndInv'
  BY <1>4 DEF EndInv
<1> QED BY <1>3, <1>5 DEF CleanInv

LEMMA CleanNext == CleanInv /\ [Next]_vars => CleanInv'
<1> SUFFICES ASSUME CleanInv, Next \/ UNCHANGED vars
             PROVE  CleanInv'
  OBVIOUS
<1> USE DEF request, relay, bridge
<1> DEFINE none == [kind |-> "delta"]
<1>0. none.kind = "delta"
  OBVIOUS
<1> HIDE DEF none
<1>1. CASE Begin
  <2>1. CASE stream
    <3>1. out' = <<Status(200)>> /\ pc' = "prepare"
      BY <1>1, <2>1 DEF Begin, Header
    <3>2. Status(200).kind = "status"
      BY DEF Status
    <3> DEFINE h == Status(200)
    <3> HIDE DEF h
    <3>3. out' = <<h>> /\ h.kind = "status"
      BY <3>1, <3>2 DEF h
    <3>4. DOMAIN <<h>> = 1 .. 1 /\ <<h>>[1] = h /\ <<h>> # <<>> /\ <<h>> \in Seq({h})
      OBVIOUS
    <3>5. IsSeq(out')
      BY <3>3, <3>4, SeqOfRange DEF IsSeq
    <3>6. DOMAIN out' = 1 .. 1 /\ out'[1].kind = "status" /\ out' # <<>>
      BY <3>3, <3>4
    <3> QED BY <1>1, <2>1, <3>1, <3>5, <3>6 DEF Begin, CleanInv, OutInv, EndInv
  <2>2. CASE ~stream
    BY <1>1, <2>2 DEF Begin, Header, CleanInv, OutInv, EndInv
  <2> QED BY <2>1, <2>2
<1>2. CASE Prepare
  <2>1. CASE pc' = "dispatch" /\ out' = out
    BY <1>2, <2>1 DEF Prepare, CleanInv, OutInv, EndInv
  <2>2. CASE \E code \in {400, 403, 500, 502} : Fail(code)
    BY <1>2, <2>2, CleanFail DEF Prepare, CleanInv, EndInv
  <2> QED BY <1>2, <2>1, <2>2 DEF Prepare
<1>3. CASE Dispatch
  <2>1. CASE reply' = "ok" /\ pc' = "read" /\ out' = out
    BY <1>3, <2>1 DEF Dispatch, CleanInv, OutInv, EndInv
  <2>2. CASE \E code \in {400, 502} : Fail(code)
    BY <1>3, <2>2, CleanFail DEF Dispatch, CleanInv, EndInv
  <2> QED BY <1>3, <2>1, <2>2 DEF Dispatch
<1>4. CASE ReadShare \/ ReadTrailer
  BY <1>4 DEF ReadShare, ReadTrailer, CleanInv, OutInv, EndInv
<1>5. CASE ReadChunk
  <2>0. /\ pc = "read" /\ stream /\ ndjson /\ reply = "ok"
        /\ stream' = stream /\ ndjson' = ndjson /\ reply' = reply /\ share' = share
    BY <1>5 DEF ReadChunk, LineByLine, CleanInv, EndInv
  <2>1. CASE ~share
    BY <1>5, <2>0, <2>1, CleanFail DEF ReadChunk, CleanInv, EndInv
  <2>2. CASE share
    <3> DEFINE c == answer[next]
    <3>1. CASE IsDelta(c)
      <4> DEFINE x == Shown(c)
      <4>1. (out' = out \/ out' = Append(out, x)) /\ pc' = pc /\ pending' = pending
        BY <1>5, <2>2, <3>1 DEF ReadChunk, EmitDelta
      <4>2. x.kind = "delta"
        BY DEF Event, Shown
      <4> HIDE DEF x
      <4> QED BY <2>0, <2>2, <4>1, <4>2, CleanWrite
    <3>2. CASE ~IsDelta(c)
      <4>1. EmitText(c.bytes)
        BY <1>5, <2>2, <3>2 DEF ReadChunk
      <4>2. CASE \E code \in {502} : Fail(code)
        BY <2>0, <2>2, <4>2, CleanFail
      <4>3. CASE pc' = pc
        <5>1. PICK text : out' = out \/ out' = Append(out, Event(text, <<>>, <<>>, None))
          BY <2>0, <4>1, <4>3 DEF EmitText, Fail
        <5> DEFINE x == Event(text, <<>>, <<>>, None)
        <5>2. x.kind = "delta" /\ (out' = out \/ out' = Append(out, x))
          BY <5>1 DEF Event
        <5> HIDE DEF x
        <5> QED BY <2>0, <2>2, <4>3, <5>2, CleanWrite
      <4> QED BY <4>1, <4>2, <4>3 DEF EmitText
    <3> QED BY <3>1, <3>2
  <2> QED BY <2>1, <2>2
<1>6. CASE ReadEof
  <2>1. CASE pending = <<>>
    BY <1>0, <1>6, <2>1, CleanWrite DEF ReadEof, LineByLine, CleanInv, EndInv
  <2>2. CASE pending # <<>>
    BY <1>6, <2>2, CleanFail DEF ReadEof, LineByLine, CleanInv, EndInv
  <2> QED BY <2>1, <2>2
<1>7. CASE ReadFails
  BY <1>7, CleanFail DEF ReadFails, CleanInv, EndInv
<1>8. CASE ReadBody
  <2>0. /\ pc = "read" /\ ~(stream /\ ndjson) /\ pending = <<>> /\ reply = "ok"
        /\ UNCHANGED <<stream, ndjson, reply, share, pending>>
    BY <1>8 DEF ReadBody, LineByLine, CleanInv, EndInv
  <2>1. CASE pc' = "aggregate" /\ out' = out
    BY <2>0, <2>1 DEF CleanInv, OutInv, EndInv
  <2>2. CASE Fail(502)
    BY <2>0, <2>2, CleanFail
  <2> QED BY <1>8, <2>1, <2>2 DEF ReadBody
<1>9. CASE EmitAggregate
  <2> DEFINE E == EventsOf(AggregateAll(read))
  <2>1. /\ pc = "aggregate" /\ pc' = "finish" /\ stream /\ out' = out \o E
        /\ UNCHANGED <<stream, ndjson, reply, share, read, pending>>
    BY <1>9 DEF EmitAggregate
  <2>2. IsSeq(E) /\ \A e \in Range(E) : e.kind = "delta"
    BY EventsAre
  <2> HIDE DEF E
  <2>3. IsSeq(out) /\ out # <<>> /\ Len(out) \in Nat /\ DOMAIN out = 1 .. Len(out)
    BY <2>1, SeqIs DEF CleanInv, OutInv
  <2>4. Len(out) # 0
    BY <2>3, EmptySeq DEF IsSeq
  <2>5. /\ IsSeq(out') /\ Len(out') = Len(out) + Len(E) /\ DOMAIN out' = 1 .. Len(out) + Len(E)
        /\ \A k \in 1 .. Len(out) : out'[k] = out[k]
        /\ \A k \in 1 .. Len(out) + Len(E) : k > Len(out) => out'[k] \in Range(E)
    BY <2>1, <2>2, <2>3, ConcatIs
  <2>6. Len(E) \in Nat
    BY <2>2, SeqIs
  <2>7. ASSUME NEW k \in DOMAIN out'
        PROVE  (out'[k].kind = "status" <=> k = 1) /\ out'[k].kind # "end"
    <3>1. CASE k \in 1 .. Len(out)
      BY <2>1, <2>3, <2>5, <3>1 DEF CleanInv, OutInv, EndInv
    <3>2. CASE k > Len(out)
      BY <2>2, <2>3, <2>4, <2>5, <2>6, <3>2
    <3> QED BY <2>3, <2>5, <2>6, <3>1, <3>2
  <2>8. out' # <<>>
    BY <2>3, <2>4, <2>5, <2>6, EmptySeq DEF IsSeq
  <2>9. pending = <<>> /\ (stream /\ ndjson /\ read # <<>> => share)
    BY <2>1 DEF CleanInv, EndInv
  <2> QED BY <2>1, <2>5, <2>7, <2>8, <2>9 DEF CleanInv, OutInv, EndInv
<1>10. CASE AnswerWhole
  <2>0. /\ pc = "aggregate" /\ ~stream /\ pending = <<>>
        /\ UNCHANGED <<stream, ndjson, reply, share, read, pending>>
    BY <1>10 DEF AnswerWhole, CleanInv, EndInv
  <2>1. CASE \E code \in {400, 502} : Fail(code)
    BY <2>0, <2>1, CleanFail
  <2>2. CASE ~(\E code \in {400, 502} : Fail(code))
    <3>1. PICK body : out' = <<Status(200), Completion(body)>> /\ pc' = "closed"
      BY <1>10, <2>2 DEF AnswerWhole
    <3> DEFINE h == Status(200)
               d == Completion(body)
    <3>2. h.kind = "status" /\ d.kind = "completion"
      BY DEF Status, Completion
    <3>3. out' = <<h, d>>
      BY <3>1
    <3> HIDE DEF h, d
    <3>4. DOMAIN <<h, d>> = 1 .. 2 /\ <<h, d>>[1] = h /\ <<h, d>>[2] = d /\ <<h, d>> \in Seq({h, d})
      OBVIOUS
    <3>5. IsSeq(out')
      BY <3>3, <3>4, SeqOfRange DEF IsSeq
    <3>6. \A k \in DOMAIN out' : (out'[k].kind = "status" <=> k = 1) /\ out'[k].kind # "end"
      BY <3>2, <3>3, <3>4
    <3> QED BY <2>0, <3>1, <3>5, <3>6 DEF CleanInv, OutInv, EndInv
  <2> QED BY <2>1, <2>2
<1>11. CASE WriteFinish
  <2> DEFINE x == Event(<<>>, <<>>, <<>>, "stop")
  <2>1. x.kind = "delta"
    BY DEF Event
  <2>2. out' = out \/ out' = Append(out, x)
    BY <1>11 DEF WriteFinish
  <2> HIDE DEF x
  <2> QED BY <1>11, <2>1, <2>2, CleanWrite DEF WriteFinish, CleanInv, OutInv, EndInv
<1>12. CASE WriteDone
  <2>1. Done.kind = "done"
    BY DEF Done
  <2> QED BY <1>12, <2>1, CleanWrite DEF WriteDone, CleanInv, OutInv, EndInv
<1>13. CASE WriteEnd
  <2>1. End.kind = "end"
    BY DEF End
  <2> QED BY <1>13, <2>1, CleanWrite DEF WriteEnd, CleanInv, OutInv, EndInv
<1>14. CASE WriteFails
  BY <1>14 DEF WriteFails, CleanInv, OutInv, EndInv
<1>15. CASE UNCHANGED vars
  BY <1>15 DEF vars, request, relay, bridge, CleanInv, OutInv, EndInv
<1> QED
  BY <1>1, <1>2, <1>3, <1>4, <1>5, <1>6, <1>7, <1>8, <1>9, <1>10, <1>11, <1>12, <1>13, <1>14,
     <1>15
     DEF Next

LEMMA CleanImplies == CleanInv => EndedOnlyIfClean
<1> SUFFICES ASSUME CleanInv PROVE EndedOnlyIfClean
  OBVIOUS
<1>1. ASSUME End \in Range(out)
      PROVE  reply = "ok" /\ pending = <<>> /\ (read # <<>> /\ ndjson => share)
  <2>1. PICK k \in DOMAIN out : out[k] = End
    BY <1>1 DEF Range
  <2>2. out[k].kind = "end"
    BY <2>1 DEF End
  <2> QED BY <2>2 DEF CleanInv, EndInv
<1>2. \A k \in DOMAIN out : out[k].kind = "status" <=> k = 1
  BY DEF CleanInv, OutInv
<1> QED BY <1>1, <1>2 DEF EndedOnlyIfClean

\* On both platforms write_sse_stream_end is reached only after a good reply,
\* with the share received if anything was read and no half character left in
\* Utf8PlainAccumulator; and a stream never gets a second status.
THEOREM EndIsClean == Spec => []EndedOnlyIfClean
  BY CleanInit, CleanNext, CleanImplies, PTL DEF Spec

-----------------------------------------------------------------------------
(***************************************************************************)
(* The whole of an answer in chunks.                                       *)
(***************************************************************************)

\* FramedBodyReader ends a body in chunks only with its last chunk.
LEMMA EndOfChunks == ASSUME framing = "chunked", Ends PROVE next = Len(answer) + 2
  BY DEF Ends, Events, FramedRead, AtEnd

\* An item that is not final.
LEMMA StillQuiet ==
  ASSUME NEW s, IsSeq(s), NoFinal(s), NEW x, x.kind \notin {"done", "completion"}
  PROVE  NoFinal(Append(s, x))
<1>1. /\ Len(s) \in Nat /\ DOMAIN s = 1 .. Len(s) /\ DOMAIN Append(s, x) = 1 .. Len(s) + 1
      /\ (\A k \in 1 .. Len(s) : Append(s, x)[k] = s[k]) /\ Append(s, x)[Len(s) + 1] = x
  BY SeqIs, AppendIs
<1>2. ASSUME NEW k \in 1 .. Len(s) + 1
      PROVE  Append(s, x)[k].kind \notin {"done", "completion"}
  <2>1. k = Len(s) + 1 \/ k \in 1 .. Len(s)
    BY <1>1
  <2> QED BY <1>1, <2>1 DEF NoFinal
<1> QED BY <1>1, <1>2 DEF NoFinal

\* The events of a whole body are not final.
LEMMA EventsQuiet ==
  ASSUME NEW o, IsSeq(o), NoFinal(o), NEW agg
  PROVE  NoFinal(o \o EventsOf(agg))
<1> DEFINE E == EventsOf(agg)
<1>1. IsSeq(E) /\ \A e \in Range(E) : e.kind = "delta"
  BY EventsAre
<1> HIDE DEF E
<1>2. /\ Len(o) \in Nat /\ DOMAIN o = 1 .. Len(o) /\ Len(E) \in Nat
      /\ DOMAIN (o \o E) = 1 .. Len(o) + Len(E)
      /\ \A k \in 1 .. Len(o) : (o \o E)[k] = o[k]
      /\ \A k \in 1 .. Len(o) + Len(E) : k > Len(o) => (o \o E)[k] \in Range(E)
  BY <1>1, SeqIs, ConcatIs
<1>3. ASSUME NEW k \in DOMAIN (o \o E) PROVE (o \o E)[k].kind \notin {"done", "completion"}
  <2>1. CASE k \in 1 .. Len(o)
    BY <1>2, <2>1 DEF NoFinal
  <2>2. CASE k > Len(o)
    BY <1>1, <1>2, <2>2
  <2> QED BY <1>2, <2>1, <2>2
<1> QED BY <1>3 DEF NoFinal, E

\* Either way the property holds after the step.
LEMMA WholeAfter ==
  ASSUME NoFinal(out') \/ (framing' = "chunked" => read' = answer')
  PROVE  WholeWhenChunked'
  BY DEF NoFinal, WholeWhenChunked, Range

\* A step that leaves the answer alone.
LEMMA WholeStay ==
  ASSUME ReadInv, WholeInv, UNCHANGED <<vars, framing>>
  PROVE  ReadInv' /\ WholeInv'
  BY DEF vars, request, relay, bridge, ReadInv, WholeInv, WholeWhenChunked, NoFinal, IsSeq

\* A failure before the end.
LEMMA WholeFail ==
  ASSUME OutInv, WholeInv, pc \notin {"end", "closed"}, NEW code, Fail(code),
         stream' = stream
  PROVE  WholeInv' /\ pc' = "closed"
<1>1. /\ pc' = "closed"
      /\ \A k \in DOMAIN out' : \/ k \in DOMAIN out /\ out'[k] = out[k]
                                \/ out'[k].kind = "status"
  BY OutFail
<1>2. NoFinal(out')
  BY <1>1 DEF WholeInv, NoFinal
<1> QED BY <1>1, <1>2, WholeAfter DEF WholeInv

LEMMA WholeRefuse ==
  ASSUME OutInv, ReadInv, WholeInv, pc \in {"prepare", "dispatch"}, NEW code, Refuse(code)
  PROVE  ReadInv' /\ WholeInv'
<1>1. /\ Fail(code) /\ stream' = stream /\ pc' = "closed"
      /\ UNCHANGED <<answer, ndjson, next>>
  BY DEF Refuse, Fail, request, relay
<1>2. WholeInv'
  BY <1>1, WholeFail
<1>3. ReadInv'
  BY <1>1 DEF ReadInv, IsSeq
<1> QED BY <1>2, <1>3

LEMMA WholeInit == SgxInit => ReadInv /\ WholeInv
<1> SUFFICES ASSUME SgxInit PROVE ReadInv /\ WholeInv
  OBVIOUS
<1>1. /\ out = <<>> /\ pc = "start" /\ read = <<>> /\ next \in {0, 1} /\ answer \in Answers
      /\ framing = "none"
  BY DEF SgxInit, Init
<1>2. IsSeq(answer)
  BY <1>1, OpeStreamAssumption DEF IsSeq
<1>3. NoFinal(out) /\ WholeWhenChunked
  BY <1>1 DEF NoFinal, WholeWhenChunked
<1> QED BY <1>1, <1>2, <1>3 DEF ReadInv, WholeInv

\* What has been read grows by the line that comes next.
LEMMA ReadGrows ==
  ASSUME NEW s, IsSeq(s), NEW n \in 1 .. Len(s)
  PROVE  Append(SubSeq(s, 1, n - 1), s[n]) = SubSeq(s, 1, n)
<1> DEFINE a == Append(SubSeq(s, 1, n - 1), s[n])
           b == SubSeq(s, 1, n)
           S == Range(s)
<1>1. s \in Seq(S) /\ Len(s) \in Nat /\ DOMAIN s = 1 .. Len(s) /\ s[n] \in S
  BY SeqIs DEF IsSeq
<1> HIDE DEF S
<1>2. SubSeq(s, 1, n - 1) \in Seq(S) /\ Len(SubSeq(s, 1, n - 1)) = n - 1
  BY <1>1, SubSeqProperties
<1>3. \A k \in 1 .. n - 1 : SubSeq(s, 1, n - 1)[k] = s[k]
  BY <1>1, SubSeqProperties
<1>4. a \in Seq(S) /\ Len(a) = n /\ (\A k \in 1 .. n - 1 : a[k] = s[k]) /\ a[n] = s[n]
  BY <1>1, <1>2, <1>3, AppendProperties
<1>5. b \in Seq(S) /\ Len(b) = n /\ \A k \in 1 .. n : b[k] = s[k]
  BY <1>1, SubSeqProperties
<1> HIDE DEF a, b
<1>6. \A k \in 1 .. Len(a) : a[k] = b[k]
  BY <1>4, <1>5
<1> QED
  <2>1. a = b
    BY <1>4, <1>5, <1>6, SeqEqual
  <2> QED BY <2>1 DEF a, b

LEMMA WholeRead ==
  ASSUME CleanInv, ReadInv, WholeInv, Detailed,
         \/ ReadShare \/ ReadChunk \/ ReadTrailer \/ ReadFails
  PROVE  ReadInv' /\ WholeInv'
<1> USE DEF request, relay, bridge
<1>0. /\ framing' = framing /\ pc = "read" /\ NoFinal(out) /\ IsSeq(out) /\ OutInv
      /\ UNCHANGED <<stream, answer, ndjson>> /\ IsSeq(answer) /\ next \in Nat
  BY DEF Detailed, ReadShare, ReadChunk, ReadTrailer, ReadFails,
         LineByLine, WholeInv, ReadInv, CleanInv, OutInv
<1>1. Len(answer) \in Nat /\ DOMAIN answer = 1 .. Len(answer)
  BY <1>0, SeqIs
<1>2. IsSeq(answer')
  BY <1>0 DEF IsSeq
<1>3. ASSUME pc' = "read", NoFinal(out') PROVE WholeInv'
  BY <1>3, WholeAfter DEF WholeInv
<1>4. CASE ReadShare
  <2>1. next = 0 /\ next' = 1 /\ pc' = "read" /\ out' = out /\ read' = read /\ stream /\ ndjson
    BY <1>4 DEF ReadShare, LineByLine
  <2>2. read = <<>> /\ SubSeq(answer, 1, 0) = <<>>
    BY <1>0, <2>1, SubSeqEmpty DEF ReadInv, IsSeq
  <2>3. ReadInv'
    BY <1>0, <1>1, <1>2, <2>1, <2>2 DEF ReadInv
  <2> QED BY <1>0, <1>3, <2>1, <2>3
<1>5. CASE ReadTrailer
  <2>1. /\ next = Len(answer) + 1 /\ next' = Len(answer) + 2 /\ pc' = "read" /\ out' = out
        /\ read' = read /\ stream /\ ndjson
    BY <1>1, <1>5 DEF ReadTrailer, LineByLine
  <2>2. read = SubSeq(answer, 1, Len(answer))
    BY <1>0, <1>1, <2>1 DEF ReadInv
  <2>3. SubSeq(answer, 1, Len(answer)) = answer
    BY <1>0, SubSeqFull DEF IsSeq
  <2>4. ReadInv'
    BY <1>0, <1>1, <1>2, <2>1, <2>2, <2>3 DEF ReadInv
  <2> QED BY <1>0, <1>3, <2>1, <2>4
<1>6. CASE ReadFails
  <2>1. Fail(502) /\ next' = next
    BY <1>6 DEF ReadFails
  <2>2. WholeInv' /\ pc' = "closed"
    BY <1>0, <2>1, WholeFail
  <2>3. ReadInv'
    BY <1>0, <1>2, <2>1, <2>2 DEF ReadInv
  <2> QED BY <2>2, <2>3
<1>7. CASE ReadChunk
  <2>0. next \in 1 .. Len(answer) /\ next' = next + 1 /\ stream /\ ndjson
    BY <1>1, <1>7 DEF ReadChunk, LineByLine
  <2>1. CASE \E code \in {502} : Fail(code)
    <3>1. WholeInv' /\ pc' = "closed"
      BY <1>0, <2>1, WholeFail
    <3> QED BY <1>0, <1>2, <2>0, <3>1 DEF ReadInv
  <2>2. CASE ~Fail(502)
    <3>1. share /\ read' = Append(read, answer[next])
      BY <1>7, <2>2 DEF ReadChunk
    <3>2. PICK x : /\ x.kind = "delta"
                   /\ out' = out \/ out' = Append(out, x)
                   /\ pc' = pc
      <4> DEFINE c == answer[next]
      <4>1. CASE IsDelta(c)
        <5> DEFINE x == Shown(c)
        <5>1. x.kind = "delta"
          BY DEF Event, Shown
        <5>2. (out' = out \/ out' = Append(out, x)) /\ pc' = pc
          BY <1>7, <3>1, <4>1 DEF ReadChunk, EmitDelta
        <5> HIDE DEF x
        <5> QED BY <5>1, <5>2
      <4>2. CASE ~IsDelta(c)
        <5>1. EmitText(c.bytes)
          BY <1>7, <3>1, <4>2 DEF ReadChunk
        <5>2. PICK text : /\ out' = out \/ out' = Append(out, Event(text, <<>>, <<>>, None))
                          /\ pc' = pc
          BY <2>2, <5>1 DEF EmitText
        <5> DEFINE x == Event(text, <<>>, <<>>, None)
        <5>3. x.kind = "delta" /\ (out' = out \/ out' = Append(out, x))
          BY <5>2 DEF Event
        <5> HIDE DEF x
        <5> QED BY <5>2, <5>3
      <4> QED BY <4>1, <4>2
    <3>3. NoFinal(out')
      BY <1>0, <3>2, StillQuiet
    <3>4. read' = SubSeq(answer, 1, next)
      <4>1. read = SubSeq(answer, 1, next - 1)
        BY <1>0, <1>1, <2>0 DEF ReadInv
      <4> QED BY <1>0, <2>0, <3>1, <4>1, ReadGrows
    <3>5. ReadInv'
      <4>1. next' - 1 = next /\ next' \in Nat /\ next' # 0 /\ next' # Len(answer) + 2
        BY <1>1, <2>0
      <4>2. read' = SubSeq(answer', 1, next' - 1)
        BY <1>0, <3>4, <4>1
      <4>3. pc' = "read" /\ stream' /\ ndjson' /\ next' # Len(answer') + 2
        BY <1>0, <2>0, <3>2, <4>1
      <4> QED BY <1>2, <4>1, <4>2, <4>3 DEF ReadInv
    <3> QED BY <1>0, <1>3, <3>2, <3>3, <3>5
  <2> QED BY <2>1, <2>2
<1> QED BY <1>4, <1>5, <1>6, <1>7

\* The body ends: line by line, or read to its end.
LEMMA WholeEnd ==
  ASSUME CleanInv, ReadInv, WholeInv, SgxReadEof \/ SgxReadBody
  PROVE  ReadInv' /\ WholeInv'
<1> USE DEF request, relay, bridge
<1>0. /\ framing' = framing /\ pc = "read" /\ NoFinal(out) /\ OutInv
      /\ UNCHANGED <<stream, answer, ndjson, next>> /\ IsSeq(answer)
  BY DEF Detailed, SgxReadEof, SgxReadBody, ReadEof, ReadBody, LineByLine,
         WholeInv, ReadInv, CleanInv
<1>1. Len(answer) \in Nat /\ IsSeq(answer')
  BY <1>0, SeqIs DEF IsSeq
<1>2. ASSUME pc' # "read", pc' \notin {"start", "prepare", "dispatch"} PROVE ReadInv'
  BY <1>0, <1>1, <1>2 DEF ReadInv
<1>3. CASE \E code \in {502} : Fail(code)
  <2>1. WholeInv' /\ pc' = "closed"
    BY <1>0, <1>3, WholeFail
  <2> QED BY <1>2, <2>1
<1>4. CASE ~Fail(502) /\ SgxReadEof
  <2>1. Ends /\ pc' = "finish" /\ out' = out /\ read' = read
    BY <1>4 DEF SgxReadEof, ReadEof
  <2>2. framing = "chunked" => read = answer
    BY <1>0, <2>1, EndOfChunks DEF ReadInv
  <2> QED BY <1>0, <1>2, <2>1, <2>2, WholeAfter DEF WholeInv
<1>5. CASE ~Fail(502) /\ SgxReadBody
  <2>1. pc' = "aggregate" /\ out' = out /\ (Ends \/ read' = answer) /\ ~(stream /\ ndjson)
    BY <1>0, <1>5 DEF SgxReadBody, ReadBody, LineByLine
  <2>2. framing = "chunked" => read' = answer
    <3>1. next \in {0, 1}
      BY <2>1 DEF ReadInv
    <3>2. framing = "chunked" => ~Ends
      BY <1>1, <3>1, EndOfChunks
    <3> QED BY <2>1, <3>2
  <2> QED BY <1>0, <1>2, <2>1, <2>2, WholeAfter DEF WholeInv
<1> QED BY <1>3, <1>4, <1>5

\* The answer is written.
LEMMA WholeWrite ==
  ASSUME CleanInv, ReadInv, WholeInv, Detailed,
         \/ EmitAggregate \/ AnswerWhole
         \/ WriteFinish \/ WriteDone \/ WriteEnd \/ WriteFails
  PROVE  ReadInv' /\ WholeInv'
<1> USE DEF request, relay, bridge
<1>0. /\ framing' = framing /\ UNCHANGED <<stream, answer, ndjson, next, read>>
      /\ pc' \in {"finish", "done", "end", "closed"} /\ IsSeq(answer) /\ IsSeq(out) /\ OutInv
  BY DEF Detailed, EmitAggregate, AnswerWhole, Fail, WriteFinish,
         WriteDone, WriteEnd, WriteFails, ReadInv, CleanInv, OutInv
<1>1. ReadInv'
  <2>1. IsSeq(answer')
    BY <1>0 DEF IsSeq
  <2> QED BY <1>0, <2>1 DEF ReadInv
<1>2. CASE WriteFails
  <2>1. pc' = "closed" /\ out' = out
    BY <1>2 DEF WriteFails
  <2>2. WholeWhenChunked'
    BY <1>0, <2>1 DEF WholeInv, WholeWhenChunked
  <2> QED BY <1>1, <2>1, <2>2 DEF WholeInv
<1>3. CASE ~WriteFails
  <2>1. framing' = "chunked" => read' = answer'
    BY <1>0, <1>3
       DEF WholeInv, EmitAggregate, AnswerWhole, WriteFinish,
           WriteDone, WriteEnd
  <2>2. pc' \notin {"end", "closed"} => NoFinal(out')
    <3>1. CASE EmitAggregate
      <4>1. out' = out \o EventsOf(AggregateAll(read)) /\ NoFinal(out)
        BY <3>1 DEF EmitAggregate, WholeInv
      <4> QED BY <1>0, <4>1, EventsQuiet
    <3>2. CASE WriteFinish
      <4> DEFINE x == Event(<<>>, <<>>, <<>>, "stop")
      <4>1. x.kind = "delta"
        BY DEF Event
      <4>2. (out' = out \/ out' = Append(out, x)) /\ NoFinal(out)
        BY <3>2 DEF WriteFinish, WholeInv
      <4> HIDE DEF x
      <4> QED BY <1>0, <4>1, <4>2, StillQuiet
    <3>3. CASE WriteDone \/ WriteEnd \/ AnswerWhole
      BY <3>3 DEF WriteDone, WriteEnd, AnswerWhole, Fail
    <3> QED BY <1>3, <3>1, <3>2, <3>3
  <2> QED BY <1>0, <1>1, <2>1, <2>2, WholeAfter DEF WholeInv
<1> QED BY <1>2, <1>3

LEMMA WholeNext ==
  StepInv /\ CleanInv /\ ReadInv /\ WholeInv /\ [SgxNext]_sgxVars => ReadInv' /\ WholeInv'
<1> SUFFICES ASSUME StepInv, CleanInv, ReadInv, WholeInv, [SgxNext]_sgxVars
             PROVE  ReadInv' /\ WholeInv'
  OBVIOUS
<1> USE DEF request, relay, bridge
<1>0. /\ turn \in Preparing \cup {"waiting"} => pc = "prepare"
      /\ turn = "dispatch" => pc = "dispatch"
      /\ OutInv
  BY DEF StepInv, PhaseInv, CleanInv
<1>1. CASE SgxBegin
  <2>1. /\ pc = "start" /\ pc' = "prepare" /\ framing' = framing
        /\ UNCHANGED <<stream, answer, ndjson, next, read>>
    BY <1>1 DEF SgxBegin, Begin
  <2>2. NoFinal(out')
    <3>1. CASE stream
      <4> DEFINE h == Status(200)
      <4>1. h.kind = "status" /\ out' = <<h>>
        BY <1>1, <3>1 DEF SgxBegin, Begin, Header, Status
      <4> HIDE DEF h
      <4> QED BY <4>1 DEF NoFinal
    <3>2. CASE ~stream
      BY <1>1, <2>1, <3>2 DEF SgxBegin, Begin, Header, WholeInv, NoFinal
    <3> QED BY <3>1, <3>2
  <2>3. ReadInv'
    BY <2>1 DEF ReadInv, IsSeq
  <2>4. WholeInv'
    BY <2>1, <2>2, WholeAfter DEF WholeInv
  <2> QED BY <2>3, <2>4
<1>2. CASE Enter
  BY <1>0, <1>2, WholeRefuse, WholeStay DEF Enter, Proceed
<1>3. CASE Connect \/ WriteRequest
  BY <1>3, WholeStay DEF Connect, WriteRequest
<1>4. CASE CallFails \/ CallRefused
  <2>1. turn \in Calls \cup {"dispatch"}
    BY <1>4 DEF CallFails, CallRefused, StepInv, PhaseInv
  <2>2. pc \in {"prepare", "dispatch"}
    BY <1>0, <2>1 DEF Calls, Preparing
  <2> QED BY <1>0, <1>4, <2>2, WholeRefuse DEF CallFails, CallRefused
<1>5. CASE Acquire \/ Inventory
  BY <1>0, <1>5, WholeRefuse, WholeStay DEF Acquire, Inventory, Proceed, Preparing
<1>6. ASSUME NEW o \in Offers, Preassign(o) PROVE ReadInv' /\ WholeInv'
  BY <1>0, <1>6, WholeRefuse, WholeStay DEF Preassign, Preparing
<1>7. ASSUME NEW t \in 0 .. MaxTime, ReadFloor(t) PROVE ReadInv' /\ WholeInv'
  BY <1>0, <1>7, WholeRefuse, WholeStay DEF ReadFloor, Proceed, Preparing
<1>8. CASE Truncate \/ WriteFloor
  BY <1>8, WholeStay DEF Truncate, WriteFloor, Proceed
<1>9. CASE FloorFails
  BY <1>0, <1>9, WholeRefuse DEF FloorFails, Preparing
<1>10. CASE CheckExpiry \/ Challenge \/ AcceptRecipient
  BY <1>0, <1>10, WholeRefuse, WholeStay
     DEF CheckExpiry, Challenge, AcceptRecipient, Proceed, Preparing
<1>11. CASE Encrypt
  <2>1. CASE Refuse(500)
    BY <1>0, <1>11, <2>1, WholeRefuse DEF Encrypt, Preparing
  <2>2. CASE ~Refuse(500)
    <3>1. /\ pc = "prepare" /\ pc' = "dispatch"
          /\ UNCHANGED <<stream, answer, ndjson, next, read, out, framing>>
      BY <1>0, <1>11, <2>2 DEF Encrypt, Preparing
    <3>2. ReadInv'
      BY <3>1 DEF ReadInv, IsSeq
    <3>3. NoFinal(out')
      BY <3>1 DEF WholeInv, NoFinal
    <3> QED BY <3>1, <3>2, <3>3, WholeAfter DEF WholeInv
  <2> QED BY <2>1, <2>2
<1>12. CASE SgxDispatch
  <2>1. /\ pc = "dispatch" /\ UNCHANGED <<stream, answer, ndjson, next, read>>
        /\ next \in {0, 1} /\ read = <<>> /\ IsSeq(answer) /\ NoFinal(out)
    BY <1>12 DEF SgxDispatch, Dispatch, ReadInv, WholeInv
  <2>2. IsSeq(answer') /\ Len(answer) \in Nat
    BY <2>1, SeqIs DEF IsSeq
  <2>3. CASE \E code \in {400, 502} : Fail(code)
    <3>1. WholeInv' /\ pc' = "closed"
      BY <1>0, <2>1, <2>3, WholeFail
    <3> QED BY <2>1, <2>2, <3>1 DEF ReadInv
  <2>4. CASE pc' = "read" /\ out' = out
    <3>1. SubSeq(answer, 1, 0) = <<>>
      BY <2>1, SubSeqEmpty DEF IsSeq
    <3>2. ReadInv'
      BY <2>1, <2>2, <2>4, <3>1 DEF ReadInv
    <3> QED BY <2>1, <2>4, <3>2, WholeAfter DEF WholeInv
  <2> QED BY <1>12, <2>3, <2>4 DEF SgxDispatch, Dispatch
<1>13. CASE Answering
  <2>1. CASE SgxReadShare \/ ReadText \/ ReadDelta \/ SgxReadTrailer \/ SgxReadFails
    BY <2>1, WholeRead DEF SgxReadShare, ReadText, ReadDelta, SgxReadTrailer, SgxReadFails
  <2>2. CASE SgxReadEof \/ SgxReadBody
    BY <2>2, WholeEnd
  <2>3. CASE \/ SgxEmitAggregate \/ SgxAnswerWhole
             \/ SgxWriteFinish \/ SgxWriteDone \/ SgxWriteEnd \/ SgxWriteFails
    BY <2>3, WholeWrite
       DEF SgxEmitAggregate, SgxAnswerWhole, SgxWriteFinish, SgxWriteDone, SgxWriteEnd,
           SgxWriteFails
  <2> QED BY <1>13, <2>1, <2>2, <2>3 DEF Answering
<1>14. CASE UNCHANGED sgxVars
  BY <1>14, WholeStay DEF sgxVars
<1> QED
  BY <1>1, <1>2, <1>3, <1>4, <1>5, <1>6, <1>7, <1>8, <1>9, <1>10, <1>11, <1>12, <1>13, <1>14
     DEF SgxNext, Answering

\* If no chunk's size is padded with zeros, a connection that closes between two
\* chunks never passes for the end of the body: [DONE] and a completion are
\* written only when FramedBodyReader has seen the last chunk, and by then every
\* chunk of the answer has been read.
THEOREM ChunkedIsWhole == SgxSpec => []WholeWhenChunked
<1>1. SgxInit => CleanInv
  BY BridgeInit, CleanInit
<1>2. StepInv /\ CleanInv /\ [SgxNext]_sgxVars => CleanInv'
  BY BridgeNext, CleanNext
<1>3. WholeInv => WholeWhenChunked
  BY DEF WholeInv
<1> QED BY <1>1, <1>2, <1>3, StepInvariance, WholeInit, WholeNext, PTL DEF SgxSpec

-----------------------------------------------------------------------------
(***************************************************************************)
(* Sequences put together from sequences.  Induction is over the least     *)
(* number, or the shortest sequence, at which a fact would go wrong.       *)
(***************************************************************************)

LEMMA LeastNat ==
  ASSUME NEW T \in SUBSET Nat, T # {}
  PROVE  \E x \in T : \A y \in T : x <= y
<1> DEFINE R == WF!OpToRel(<, Nat)
<1>0. WF!IsWellFoundedOn(R, Nat)
  BY WF!NatLessThanWellFounded
<1>2. \A x, y \in Nat : y < x => <<y, x>> \in R
  BY DEF WF!OpToRel
<1> HIDE DEF R
<1>1. \E x \in T : \A y \in T : ~(<<y, x>> \in R)
  BY <1>0, WF!WFMin
<1>3. PICK x \in T : \A y \in T : ~(<<y, x>> \in R)
  BY <1>1
<1>4. x \in Nat /\ \A y \in T : y \in Nat
  OBVIOUS
<1>5. \A y \in T : ~(y < x)
  BY <1>2, <1>3, <1>4
<1>6. \A y \in T : x <= y
  BY <1>4, <1>5
<1> QED BY <1>6

\* What holds of 0, and of every number up to n with the one before it.
LEMMA UpTo ==
  ASSUME NEW n \in Nat, NEW T, 0 \in T, \A k \in 1 .. n : k - 1 \in T => k \in T
  PROVE  0 .. n \subseteq T
<1> DEFINE B == {k \in 0 .. n : k \notin T}
<1> SUFFICES ASSUME B # {} PROVE FALSE
  OBVIOUS
<1>1. PICK k \in B : \A y \in B : k <= y
  <2>1. B \in SUBSET Nat
    OBVIOUS
  <2> HIDE DEF B
  <2> QED BY <2>1, LeastNat
<1>2. k \in 0 .. n /\ k \notin T /\ k # 0
  BY <1>1
<1>3. k - 1 \in 0 .. n /\ ~(k <= k - 1)
  BY <1>2
<1>4. k - 1 \in T
  BY <1>1, <1>3
<1> QED BY <1>2, <1>4

LEMMA SeqInduction ==
  ASSUME NEW S, NEW T, <<>> \in T,
         \A s \in Seq(S), e \in S : s \in T => Append(s, e) \in T
  PROVE  Seq(S) \subseteq T
<1> DEFINE N == {Len(s) : s \in Seq(S) \ T}
<1> SUFFICES ASSUME N # {} PROVE FALSE
  OBVIOUS
<1>1. PICK n \in N : \A y \in N : n <= y
  <2>1. N \in SUBSET Nat
    BY LenProperties
  <2> HIDE DEF N
  <2> QED BY <2>1, LeastNat
<1>2. PICK s \in Seq(S) \ T : Len(s) = n
  BY <1>1
<1>3. s # <<>>
  BY <1>2
<1>4. PICK p \in Seq(S), e \in S : s = Append(p, e)
  BY <1>3, SequenceEmptyOrAppend
<1>5. Len(s) = Len(p) + 1 /\ Len(p) \in Nat
  BY <1>4, AppendProperties, LenProperties
<1>6. p \in T
  BY <1>1, <1>2, <1>5
<1> QED BY <1>2, <1>4, <1>6

\* The values of a recursion along a sequence.
Along(f, d, h, s) == f[0] = d /\ \A n \in 1 .. Len(s) : f[n] = h[f[n - 1]][s[n]]

\* There are such values.
LEMMA Recursion ==
  ASSUME NEW D, NEW E, NEW d \in D, NEW h \in [D -> [E -> D]], NEW s \in Seq(E)
  PROVE  \E f \in [0 .. Len(s) -> D] : Along(f, d, h, s)
<1> DEFINE Rec(f, k) == /\ f \in [0 .. k -> D] /\ f[0] = d
                        /\ \A n \in 1 .. k : f[n] = h[f[n - 1]][s[n]]
           T == {k \in 0 .. Len(s) : \E f : Rec(f, k)}
<1>0. Len(s) \in Nat /\ \A k \in 1 .. Len(s) : s[k] \in E
  BY LenProperties, ElementOfSeq
<1>1. 0 \in T
  <2>1. Rec([n \in 0 .. 0 |-> d], 0)
    OBVIOUS
  <2> HIDE DEF Rec
  <2> QED BY <1>0, <2>1
<1>2. ASSUME NEW k \in 1 .. Len(s), k - 1 \in T PROVE k \in T
  <2>1. PICK f : Rec(f, k - 1)
    BY <1>2
  <2> DEFINE g == [n \in 0 .. k |-> IF n = k THEN h[f[k - 1]][s[k]] ELSE f[n]]
  <2>2. \A n \in 0 .. k - 1 : g[n] = f[n] /\ g[n] \in D
    BY <1>0, <2>1
  <2>3. g[k] = h[f[k - 1]][s[k]] /\ g[k] \in D
    <3>1. k - 1 \in 0 .. k - 1 /\ k \in 0 .. k
      BY <1>0
    <3>2. f[k - 1] \in D /\ s[k] \in E
      BY <1>0, <2>1, <3>1
    <3>3. g[k] = h[f[k - 1]][s[k]]
      BY <3>1
    <3> QED BY <3>2, <3>3
  <2>4. DOMAIN g = 0 .. k /\ g = [n \in 0 .. k |-> g[n]]
    OBVIOUS
  <2> HIDE DEF g
  <2>5. g \in [0 .. k -> D] /\ g[0] = d
    <3>1. ASSUME NEW n \in 0 .. k PROVE g[n] \in D
      <4>1. n = k \/ n \in 0 .. k - 1
        BY <1>0
      <4> QED BY <2>2, <2>3, <4>1
    <3>2. g[0] = f[0]
      BY <1>0, <2>2
    <3> QED BY <2>1, <2>4, <3>1, <3>2
  <2>6. ASSUME NEW n \in 1 .. k PROVE g[n] = h[g[n - 1]][s[n]]
    <3>1. g[n - 1] = f[n - 1]
      BY <1>0, <2>2
    <3>2. CASE n = k
      BY <2>3, <3>1, <3>2
    <3>3. CASE n # k
      <4>1. n \in 1 .. k - 1 /\ n \in 0 .. k - 1
        BY <1>0, <3>3
      <4>2. f[n] = h[f[n - 1]][s[n]] /\ g[n] = f[n]
        BY <2>1, <2>2, <4>1
      <4> QED BY <3>1, <4>2
    <3> QED BY <3>2, <3>3
  <2>7. Rec(g, k)
    BY <2>5, <2>6
  <2> HIDE DEF Rec
  <2> QED BY <1>0, <2>7
<1>3. Len(s) \in T
  <2> HIDE DEF T
  <2>1. 0 .. Len(s) \subseteq T
    BY <1>0, <1>1, <1>2, UpTo
  <2> QED BY <1>0, <2>1
<1> QED BY <1>3 DEF Along

\* What FlattenSeq computes, one sequence after the other.
Flattens(f, ss) == f[1] = ss[1] /\ \A n \in 2 .. Len(ss) : f[n] = f[n - 1] \o ss[n]

LEMMA FlattenIs ==
  ASSUME NEW S, NEW ss \in Seq(Seq(S)), ss # <<>>
  PROVE  \E f \in [1 .. Len(ss) -> Seq(S)] : FlattenSeq(ss) = f[Len(ss)] /\ Flattens(f, ss)
<1> DEFINE Flat(f) == f = [i \in 1 .. Len(ss) |-> IF i = 1 THEN ss[i] ELSE f[i - 1] \o ss[i]]
           F == CHOOSE f : Flat(f)
           n == Len(ss)
<1>0. n \in Nat /\ n # 0 /\ \A k \in 1 .. n : ss[k] \in Seq(S)
  BY LenProperties, ElementOfSeq, EmptySeq
<1>1. FlattenSeq(ss) = F[n]
  BY <1>0 DEF FlattenSeq
<1>2. \E f : Flat(f)
  <2> DEFINE D == Seq(S)
             h == [a \in D |-> [b \in D |-> a \o b]]
  <2>1. h \in [D -> [D -> D]] /\ <<>> \in D
    BY ConcatProperties, EmptySeq
  <2>2. \A a, b \in D : h[a][b] = a \o b
    OBVIOUS
  <2>3. ss \in Seq(D)
    OBVIOUS
  <2> HIDE DEF D, h
  <2>4. PICK g \in [0 .. n -> D] : Along(g, <<>>, h, ss)
    BY <2>1, <2>3, Recursion
  <2>5. ASSUME NEW k \in 1 .. n
        PROVE  g[k] = IF k = 1 THEN ss[k] ELSE g[k - 1] \o ss[k]
    <3>0. k - 1 \in 0 .. n
      BY <1>0
    <3>1. g[k - 1] \in D /\ ss[k] \in D
      BY <1>0, <2>4, <3>0 DEF D
    <3>2. g[k] = g[k - 1] \o ss[k]
      BY <2>2, <2>4, <3>1 DEF Along
    <3>3. CASE k = 1
      <4>1. g[k - 1] = <<>>
        BY <2>4, <3>3 DEF Along
      <4> QED BY <3>1, <3>2, <3>3, <4>1, ConcatEmptySeq DEF D
    <3>4. CASE k # 1
      BY <3>2, <3>4
    <3> QED BY <3>3, <3>4
  <2> DEFINE f == [k \in 1 .. n |-> g[k]]
  <2>6. ASSUME NEW k \in 1 .. n
        PROVE  f[k] = IF k = 1 THEN ss[k] ELSE f[k - 1] \o ss[k]
    <3>1. CASE k = 1
      BY <2>5, <3>1
    <3>2. CASE k # 1
      <4>1. k - 1 \in 1 .. n
        BY <1>0, <3>2
      <4>2. f[k] = g[k] /\ f[k - 1] = g[k - 1]
        BY <4>1
      <4> HIDE DEF f
      <4> QED BY <2>5, <3>2, <4>2
    <3> QED BY <3>1, <3>2
  <2>7. DOMAIN f = 1 .. n /\ f = [k \in 1 .. n |-> f[k]]
    OBVIOUS
  <2> HIDE DEF f, n
  <2>8. f = [k \in 1 .. n |-> IF k = 1 THEN ss[k] ELSE f[k - 1] \o ss[k]]
    BY <2>6, <2>7
  <2> QED BY <2>8 DEF n
<1>3. Flat(F)
  BY <1>2
<1> HIDE DEF F
<1>4. /\ F[1] = ss[1]
      /\ \A k \in 2 .. n : F[k] = F[k - 1] \o ss[k]
      /\ DOMAIN F = 1 .. n /\ F = [k \in 1 .. n |-> F[k]]
  <2>1. \A k \in 1 .. n : F[k] = IF k = 1 THEN ss[k] ELSE F[k - 1] \o ss[k]
    BY <1>3
  <2>2. DOMAIN F = 1 .. n /\ F = [k \in 1 .. n |-> F[k]]
    BY <1>3
  <2>3. 1 \in 1 .. n /\ \A k \in 2 .. n : k \in 1 .. n /\ k # 1
    BY <1>0
  <2> HIDE DEF n, Flat
  <2> QED BY <2>1, <2>2, <2>3
<1> HIDE DEF n, Flat
<1>5. \A k \in 1 .. n : F[k] \in Seq(S)
  <2> DEFINE T == {k \in 0 .. n : k = 0 \/ F[k] \in Seq(S)}
  <2>1. 0 \in T
    BY <1>0
  <2>2. ASSUME NEW k \in 1 .. n, k - 1 \in T PROVE k \in T
    <3>1. CASE k = 1
      BY <1>0, <1>4, <3>1
    <3>2. CASE k # 1
      <4>1. k \in 2 .. n /\ F[k - 1] \in Seq(S)
        BY <1>0, <2>2, <3>2
      <4>2. F[k] = F[k - 1] \o ss[k] /\ ss[k] \in Seq(S)
        BY <1>0, <1>4, <4>1
      <4>3. F[k] \in Seq(S)
        BY <4>1, <4>2, ConcatProperties
      <4> QED BY <1>0, <4>3
    <3> QED BY <3>1, <3>2
  <2>3. 0 .. n \subseteq T
    <3> HIDE DEF T
    <3> QED BY <1>0, <2>1, <2>2, UpTo
  <2> QED BY <1>0, <2>3
<1>6. F \in [1 .. n -> Seq(S)]
  BY <1>4, <1>5
<1> QED BY <1>1, <1>4, <1>6 DEF n, Flattens

LEMMA FlattenEmpty == FlattenSeq(<<>>) = <<>>
  BY EmptySeq DEF FlattenSeq

LEMMA FlattenType ==
  ASSUME NEW S, NEW ss \in Seq(Seq(S))
  PROVE  FlattenSeq(ss) \in Seq(S)
<1>1. CASE ss = <<>>
  BY <1>1, FlattenEmpty, EmptySeq
<1>2. CASE ss # <<>>
  <2>1. Len(ss) \in 1 .. Len(ss)
    BY <1>2, EmptySeq
  <2>2. PICK f \in [1 .. Len(ss) -> Seq(S)] : FlattenSeq(ss) = f[Len(ss)]
    BY <1>2, FlattenIs
  <2> QED BY <2>1, <2>2
<1> QED BY <1>1, <1>2

LEMMA FlattenAppend ==
  ASSUME NEW S, NEW ss \in Seq(Seq(S)), NEW x \in Seq(S)
  PROVE  FlattenSeq(Append(ss, x)) = FlattenSeq(ss) \o x
<1> DEFINE tt == Append(ss, x)
           n  == Len(ss)
<1>1. /\ tt \in Seq(Seq(S)) /\ tt # <<>> /\ Len(tt) = n + 1 /\ n \in Nat
      /\ (\A k \in 1 .. n : tt[k] = ss[k]) /\ tt[n + 1] = x
  BY AppendProperties, LenProperties
<1> HIDE DEF tt
<1>a. PICK g \in [1 .. Len(tt) -> Seq(S)] : FlattenSeq(tt) = g[Len(tt)] /\ Flattens(g, tt)
  BY <1>1, FlattenIs
<1>2. /\ FlattenSeq(tt) = g[n + 1] /\ g[1] = tt[1]
      /\ \A k \in 2 .. n + 1 : g[k] = g[k - 1] \o tt[k]
  BY <1>1, <1>a DEF Flattens
<1>3. CASE ss = <<>>
  <2>1. n = 0
    BY <1>3, EmptySeq
  <2>2. FlattenSeq(tt) = x
    BY <1>1, <1>2, <2>1
  <2> QED BY <1>3, <2>2, FlattenEmpty, ConcatEmptySeq DEF tt
<1>4. CASE ss # <<>>
  <2>0. n # 0
    BY <1>4, EmptySeq
  <2>a. PICK f \in [1 .. n -> Seq(S)] : FlattenSeq(ss) = f[n] /\ Flattens(f, ss)
    BY <1>4, FlattenIs
  <2>1. /\ FlattenSeq(ss) = f[n] /\ f[1] = ss[1]
        /\ \A k \in 2 .. n : f[k] = f[k - 1] \o ss[k]
    BY <2>a DEF Flattens
  <2> HIDE DEF n
  <2> DEFINE T == {k \in 0 .. n : k = 0 \/ f[k] = g[k]}
  <2>2. 0 \in T
    BY <1>1
  <2>3. ASSUME NEW k \in 1 .. n, k - 1 \in T PROVE k \in T
    <3>1. CASE k = 1
      BY <1>1, <1>2, <2>1, <3>1
    <3>2. CASE k # 1
      <4>1. k \in 2 .. n /\ k \in 2 .. n + 1 /\ f[k - 1] = g[k - 1]
        BY <1>1, <2>3, <3>2
      <4>2. f[k] = f[k - 1] \o ss[k] /\ g[k] = g[k - 1] \o tt[k] /\ tt[k] = ss[k]
        BY <1>1, <1>2, <2>1, <4>1
      <4>3. f[k] = g[k]
        BY <4>1, <4>2
      <4> QED BY <1>1, <4>3
    <3> QED BY <3>1, <3>2
  <2>4. 0 .. n \subseteq T
    <3> HIDE DEF T
    <3> QED BY <1>1, <2>2, <2>3, UpTo
  <2>5. f[n] = g[n]
    BY <1>1, <2>0, <2>4
  <2>6. g[n + 1] = g[n] \o tt[n + 1]
    <3> DEFINE m == n + 1
    <3>1. m \in 2 .. n + 1 /\ m - 1 = n /\ m = n + 1
      BY <1>1, <2>0
    <3> HIDE DEF m
    <3>2. g[m] = g[m - 1] \o tt[m]
      BY <1>2, <3>1
    <3> QED BY <3>1, <3>2
  <2> QED BY <1>1, <1>2, <2>1, <2>5, <2>6 DEF tt
<1> QED BY <1>3, <1>4

LEMMA FlattenConcat ==
  ASSUME NEW S, NEW ss \in Seq(Seq(S)), NEW tt \in Seq(Seq(S))
  PROVE  FlattenSeq(ss \o tt) = FlattenSeq(ss) \o FlattenSeq(tt)
<1> DEFINE Q == Seq(S)
           T == {t \in Seq(Q) : FlattenSeq(ss \o t) = FlattenSeq(ss) \o FlattenSeq(t)}
<1>0. ss \in Seq(Q) /\ tt \in Seq(Q) /\ \A t \in Seq(Q) : FlattenSeq(t) \in Seq(S)
  BY FlattenType
<1>1. <<>> \in T
  BY <1>0, FlattenEmpty, EmptySeq, ConcatEmptySeq
<1>2. ASSUME NEW t \in Seq(Q), NEW x \in Q, t \in T PROVE Append(t, x) \in T
  <2>1. ss \o t \in Seq(Q) /\ Append(t, x) \in Seq(Q)
    BY <1>0, ConcatProperties, AppendProperties
  <2>2. ss \o Append(t, x) = Append(ss \o t, x)
    <3>1. Append(t, x) = t \o <<x>> /\ Append(ss \o t, x) = (ss \o t) \o <<x>> /\ <<x>> \in Seq(Q)
      BY <2>1, AppendIsConcat
    <3> HIDE DEF Q, T
    <3> QED BY <1>0, <3>1, ConcatAssociative
  <2>3. FlattenSeq(Append(ss \o t, x)) = FlattenSeq(ss \o t) \o x
    BY <2>1, FlattenAppend
  <2>4. FlattenSeq(ss \o t) = FlattenSeq(ss) \o FlattenSeq(t)
    BY <1>2
  <2>5. FlattenSeq(Append(t, x)) = FlattenSeq(t) \o x
    BY FlattenAppend
  <2>6. (FlattenSeq(ss) \o FlattenSeq(t)) \o x = FlattenSeq(ss) \o (FlattenSeq(t) \o x)
    <3> DEFINE u == FlattenSeq(ss)
               v == FlattenSeq(t)
    <3>1. u \in Seq(S) /\ v \in Seq(S) /\ x \in Seq(S)
      BY <1>0
    <3> HIDE DEF T, Q, u, v
    <3>2. (u \o v) \o x = u \o (v \o x)
      BY <3>1, ConcatAssociative, SMTT(60)
    <3> QED BY <3>2 DEF u, v
  <2> QED BY <2>1, <2>2, <2>3, <2>4, <2>5, <2>6
<1>3. Seq(Q) \subseteq T
  <2> HIDE DEF T, Q
  <2> QED BY <1>1, <1>2, SeqInduction
<1> QED BY <1>0, <1>3

\* The pieces that a function gives for the elements of a sequence, in order.
Maps(m, E, Q) == m \in [E -> Q]
Pieces(m, s) == [k \in DOMAIN s |-> m[s[k]]]
Gather(m, s) == FlattenSeq(Pieces(m, s))

LEMMA PiecesAre ==
  ASSUME NEW E, NEW Q, NEW m, Maps(m, E, Q), NEW s \in Seq(E)
  PROVE  /\ Pieces(m, s) \in Seq(Q) /\ Len(Pieces(m, s)) = Len(s)
         /\ \A k \in 1 .. Len(s) : Pieces(m, s)[k] = m[s[k]]
<1>1. Len(s) \in Nat /\ DOMAIN s = 1 .. Len(s) /\ \A k \in 1 .. Len(s) : s[k] \in E
  BY LenProperties, ElementOfSeq
<1> DEFINE t == [k \in 1 .. Len(s) |-> m[s[k]]]
<1>2. t \in [1 .. Len(s) -> Q] /\ \A k \in 1 .. Len(s) : t[k] = m[s[k]]
  BY <1>1 DEF Maps
<1>3. t \in Seq(Q)
  BY <1>1, <1>2, SeqDef
<1>4. Len(t) = Len(s)
  BY <1>1, <1>2
<1>5. Pieces(m, s) = t
  BY <1>1 DEF Pieces
<1> QED BY <1>2, <1>3, <1>4, <1>5

LEMMA PiecesConcat ==
  ASSUME NEW E, NEW Q, NEW m, Maps(m, E, Q), NEW s \in Seq(E), NEW t \in Seq(E)
  PROVE  Pieces(m, s \o t) = Pieces(m, s) \o Pieces(m, t)
<1> DEFINE st == s \o t
           a  == Pieces(m, st)
           b  == Pieces(m, s)
           c  == Pieces(m, t)
<1>1. /\ st \in Seq(E) /\ Len(st) = Len(s) + Len(t)
      /\ \A k \in 1 .. Len(s) + Len(t) : st[k] = IF k <= Len(s) THEN s[k] ELSE t[k - Len(s)]
  BY ConcatProperties
<1>2. Len(s) \in Nat /\ Len(t) \in Nat
  BY LenProperties
<1> HIDE DEF st
<1>3. a \in Seq(Q) /\ Len(a) = Len(st) /\ \A k \in 1 .. Len(st) : a[k] = m[st[k]]
  <2>1. st \in Seq(E)
    BY <1>1
  <2> QED BY <2>1, PiecesAre
<1>4. b \in Seq(Q) /\ Len(b) = Len(s) /\ \A k \in 1 .. Len(s) : b[k] = m[s[k]]
  BY PiecesAre
<1>5. c \in Seq(Q) /\ Len(c) = Len(t) /\ \A k \in 1 .. Len(t) : c[k] = m[t[k]]
  BY PiecesAre
<1> HIDE DEF a, b, c
<1>6. /\ b \o c \in Seq(Q) /\ Len(b \o c) = Len(b) + Len(c)
      /\ \A k \in 1 .. Len(b) + Len(c) : (b \o c)[k] = IF k <= Len(b) THEN b[k] ELSE c[k - Len(b)]
  <2>1. b \in Seq(Q) /\ c \in Seq(Q)
    BY <1>4, <1>5
  <2> QED BY <2>1, ConcatProperties
<1>7. ASSUME NEW k \in 1 .. Len(a) PROVE a[k] = (b \o c)[k]
  <2>1. k \in 1 .. Len(s) + Len(t)
    BY <1>1, <1>3
  <2>2. CASE k <= Len(s)
    <3>1. k \in 1 .. Len(s)
      BY <1>2, <2>1, <2>2
    <3>2. a[k] = m[s[k]]
      BY <1>1, <1>3, <2>1, <2>2
    <3>3. (b \o c)[k] = b[k]
      BY <1>4, <1>5, <1>6, <2>1, <2>2
    <3> QED BY <1>4, <3>1, <3>2, <3>3
  <2>3. CASE ~(k <= Len(s))
    <3>1. k - Len(s) \in 1 .. Len(t)
      BY <1>2, <2>1, <2>3
    <3>2. a[k] = m[t[k - Len(s)]]
      BY <1>1, <1>3, <2>1, <2>3
    <3>3. (b \o c)[k] = c[k - Len(s)]
      BY <1>4, <1>5, <1>6, <2>1, <2>3
    <3> QED BY <1>5, <3>1, <3>2, <3>3
  <2> QED BY <2>2, <2>3
<1>8. Len(a) = Len(b \o c)
  BY <1>1, <1>3, <1>4, <1>5, <1>6
<1>9. a = b \o c
  BY <1>3, <1>6, <1>7, <1>8, SeqEqual
<1> QED BY <1>9 DEF a, b, c, st

Gathers(m, E, S) ==
  /\ <<>> \in Seq(E) /\ Gather(m, <<>>) = <<>>
  /\ \A s \in Seq(E) : Gather(m, s) \in Seq(S)
  /\ \A s, t \in Seq(E) :
       s \o t \in Seq(E) /\ Gather(m, s \o t) = Gather(m, s) \o Gather(m, t)
  /\ \A s \in Seq(E), x \in E :
       Append(s, x) \in Seq(E) /\ Gather(m, Append(s, x)) = Gather(m, s) \o m[x]

LEMMA GatherIs ==
  ASSUME NEW E, NEW S, NEW m, Maps(m, E, Seq(S))
  PROVE  Gathers(m, E, S)
<1> DEFINE Q == Seq(S)
           M(s) == Pieces(m, s)
<1>0. ASSUME NEW s \in Seq(E) PROVE M(s) \in Seq(Q) /\ Len(M(s)) = Len(s)
  BY PiecesAre
<1>1. \A s \in Seq(E) : M(s) \in Seq(Q) /\ Gather(m, s) = FlattenSeq(M(s))
  BY <1>0 DEF Gather
<1>2. M(<<>>) = <<>>
  <2> DEFINE e == << >>
  <2>0. e \in Seq(E) /\ Len(e) = 0
    BY EmptySeq
  <2>1. M(e) \in Seq(Q) /\ Len(M(e)) = 0
    <3> HIDE DEF e, M, Q
    <3> QED BY <1>0, <2>0
  <2>2. \A z \in Seq(Q) : Len(z) = 0 => z = <<>>
    BY EmptySeq
  <2>3. M(e) = <<>>
    <3> HIDE DEF e, M, Q
    <3> QED BY <2>1, <2>2
  <2> QED BY <2>3
<1>3. ASSUME NEW s \in Seq(E), NEW t \in Seq(E) PROVE M(s \o t) = M(s) \o M(t)
  BY PiecesConcat
<1>4. ASSUME NEW s \in Seq(E), NEW x \in E
      PROVE  M(Append(s, x)) = Append(M(s), m[x])
  <2>1. Append(s, x) = s \o <<x>> /\ <<x>> \in Seq(E)
    BY AppendIsConcat
  <2>2. M(s \o <<x>>) = M(s) \o M(<<x>>)
    BY <1>3, <2>1
  <2>3. M(<<x>>) = <<m[x]>>
    BY DEF Pieces
  <2>4. Append(M(s), m[x]) = M(s) \o <<m[x]>>
    <3>1. M(s) \in Seq(Q) /\ m[x] \in Q
      BY <1>1 DEF Maps
    <3> HIDE DEF M, Q
    <3> QED BY <3>1, AppendIsConcat
  <2> HIDE DEF M
  <2> QED BY <2>1, <2>2, <2>3, <2>4
<1>5. \A s, t \in Seq(E) : s \o t \in Seq(E)
  BY ConcatProperties
<1>6. \A s \in Seq(E), x \in E : Append(s, x) \in Seq(E) /\ m[x] \in Seq(S)
  BY AppendProperties DEF Maps
<1>7. <<>> \in Seq(E)
  BY EmptySeq
<1> HIDE DEF M
<1>8. ASSUME NEW s \in Seq(E), NEW t \in Seq(E)
      PROVE  Gather(m, s \o t) = Gather(m, s) \o Gather(m, t)
  <2>1. M(s) \in Seq(Seq(S)) /\ M(t) \in Seq(Seq(S)) /\ s \o t \in Seq(E)
    BY <1>1, <1>5
  <2>2. FlattenSeq(M(s) \o M(t)) = FlattenSeq(M(s)) \o FlattenSeq(M(t))
    BY <2>1, FlattenConcat
  <2> QED BY <1>1, <1>3, <2>1, <2>2
<1>9. ASSUME NEW s \in Seq(E), NEW x \in E
      PROVE  Gather(m, Append(s, x)) = Gather(m, s) \o m[x]
  <2>1. M(s) \in Seq(Seq(S)) /\ m[x] \in Seq(S) /\ Append(s, x) \in Seq(E)
    BY <1>1, <1>6
  <2>2. FlattenSeq(Append(M(s), m[x])) = FlattenSeq(M(s)) \o m[x]
    BY <2>1, FlattenAppend
  <2> QED BY <1>1, <1>4, <2>1, <2>2
<1>10. Gather(m, <<>>) = <<>>
  BY <1>1, <1>2, <1>7, FlattenEmpty
<1>11. ASSUME NEW s \in Seq(E) PROVE Gather(m, s) \in Seq(S)
  BY <1>1, FlattenType
<1> QED BY <1>5, <1>6, <1>7, <1>8, <1>9, <1>10, <1>11 DEF Gathers

-----------------------------------------------------------------------------
(***************************************************************************)
(* What is said in chunks and in items.  TextOf, Args, ArgsOf, Bytes and   *)
(* Chars all gather the pieces that the elements of a sequence give.       *)
(***************************************************************************)

\* The elements of chunks and of items written are what they should be.
ItemOk(x)  == IsDelta(x) => DeltaOk(x)
ChunkOk(x) == IF IsDelta(x) THEN DeltaOk(x) ELSE x.bytes \in Seq(Byte)
Items(s)   == IsSeq(s) /\ \A k \in DOMAIN s : ItemOk(s[k])
Chunks(s)  == IsSeq(s) /\ \A k \in DOMAIN s : ChunkOk(s[k])

\* The pieces of a text, of the bytes and of the arguments of a call.
CharOf       == [b \in Byte |-> IF b.i = b.n THEN <<b.char>> ELSE <<>>]
ArgOf(i)     == [f \in Fragment |-> IF f.index = i THEN <<f.arg>> ELSE <<>>]
Raw(E)       == [x \in E |-> IF IsDelta(x) THEN <<>> ELSE x.bytes]
Spoken(E)    == [x \in E |-> IF IsDelta(x) THEN Says(x) ELSE <<>>]
Called(E, i) == [x \in E |-> IF IsDelta(x) THEN Args(x.tools, i) ELSE <<>>]

LEMMA SingletonIs == ASSUME NEW S, NEW x \in S PROVE <<x>> \in Seq(S)
  OBVIOUS

LEMMA CharsIs ==
  /\ Maps(CharOf, Byte, Seq(Token))
  /\ \A s \in Seq(Byte) : Chars(s) = Gather(CharOf, s)
<1>1. Maps(CharOf, Byte, Seq(Token))
  <2>1. ASSUME NEW b \in Byte
        PROVE  (IF b.i = b.n THEN <<b.char>> ELSE <<>>) \in Seq(Token)
    <3>1. b.char \in Token
      BY DEF Byte
    <3> QED BY <3>1, SingletonIs, EmptySeq
  <2> QED BY <2>1 DEF Maps, CharOf
<1>2. ASSUME NEW s \in Seq(Byte) PROVE Chars(s) = Gather(CharOf, s)
  <2>1. \A k \in DOMAIN s : CharOf[s[k]] = IF s[k].i = s[k].n THEN <<s[k].char>> ELSE <<>>
    BY LenProperties, ElementOfSeq DEF CharOf
  <2>2. Pieces(CharOf, s)
          = [k \in DOMAIN s |-> IF s[k].i = s[k].n THEN <<s[k].char>> ELSE <<>>]
    BY <2>1 DEF Pieces
  <2> QED BY <2>2 DEF Gather, Chars
<1> QED BY <1>1, <1>2

LEMMA ArgsAre ==
  ASSUME NEW i
  PROVE  /\ Maps(ArgOf(i), Fragment, Seq(Token))
         /\ \A s \in Seq(Fragment) : Args(s, i) = Gather(ArgOf(i), s)
<1>1. Maps(ArgOf(i), Fragment, Seq(Token))
  <2>1. ASSUME NEW f \in Fragment
        PROVE  (IF f.index = i THEN <<f.arg>> ELSE <<>>) \in Seq(Token)
    <3>1. f.arg \in Token
      BY DEF Fragment
    <3> QED BY <3>1, SingletonIs, EmptySeq
  <2> QED BY <2>1 DEF Maps, ArgOf
<1>2. ASSUME NEW s \in Seq(Fragment) PROVE Args(s, i) = Gather(ArgOf(i), s)
  <2>1. \A k \in DOMAIN s : ArgOf(i)[s[k]] = IF s[k].index = i THEN <<s[k].arg>> ELSE <<>>
    BY LenProperties, ElementOfSeq DEF ArgOf
  <2>2. Pieces(ArgOf(i), s)
          = [k \in DOMAIN s |-> IF s[k].index = i THEN <<s[k].arg>> ELSE <<>>]
    BY <2>1 DEF Pieces
  <2> QED BY <2>2 DEF Gather, Args
<1> QED BY <1>1, <1>2

LEMMA ArgsFacts ==
  ASSUME NEW i
  PROVE  /\ Args(<<>>, i) = <<>>
         /\ \A s \in Seq(Fragment) : Args(s, i) \in Seq(Token)
         /\ \A s, t \in Seq(Fragment) : Args(s \o t, i) = Args(s, i) \o Args(t, i)
         /\ \A s \in Seq(Fragment), x \in Fragment :
              Args(Append(s, x), i) = Args(s, i) \o ArgOf(i)[x]
<1> DEFINE m == ArgOf(i)
<1>1. Maps(m, Fragment, Seq(Token)) /\ \A s \in Seq(Fragment) : Args(s, i) = Gather(m, s)
  BY ArgsAre
<1> HIDE DEF m
<1>2. Gathers(m, Fragment, Token)
  BY <1>1, GatherIs
<1>3. Args(<<>>, i) = <<>> /\ \A s \in Seq(Fragment) : Args(s, i) \in Seq(Token)
  BY <1>1, <1>2 DEF Gathers
<1>4. ASSUME NEW s \in Seq(Fragment), NEW t \in Seq(Fragment)
      PROVE  Args(s \o t, i) = Args(s, i) \o Args(t, i)
  <2>1. s \o t \in Seq(Fragment) /\ Gather(m, s \o t) = Gather(m, s) \o Gather(m, t)
    BY <1>2 DEF Gathers
  <2> QED BY <1>1, <2>1
<1>5. ASSUME NEW s \in Seq(Fragment), NEW x \in Fragment
      PROVE  Args(Append(s, x), i) = Args(s, i) \o m[x]
  BY <1>1, <1>2 DEF Gathers
<1> QED BY <1>3, <1>4, <1>5 DEF m

LEMMA BytesAre ==
  ASSUME NEW E, \A x \in E : ChunkOk(x)
  PROVE  /\ Maps(Raw(E), E, Seq(Byte))
         /\ \A s \in Seq(E) : Bytes(s) = Gather(Raw(E), s)
<1>1. Maps(Raw(E), E, Seq(Byte))
  <2>1. ASSUME NEW x \in E PROVE (IF IsDelta(x) THEN <<>> ELSE x.bytes) \in Seq(Byte)
    BY EmptySeq DEF ChunkOk
  <2> QED BY <2>1 DEF Maps, Raw
<1>2. ASSUME NEW s \in Seq(E) PROVE Bytes(s) = Gather(Raw(E), s)
  <2>1. \A k \in DOMAIN s : Raw(E)[s[k]] = IF IsDelta(s[k]) THEN <<>> ELSE s[k].bytes
    BY LenProperties, ElementOfSeq DEF Raw
  <2>2. Pieces(Raw(E), s) = [k \in DOMAIN s |-> IF IsDelta(s[k]) THEN <<>> ELSE s[k].bytes]
    BY <2>1 DEF Pieces
  <2> QED BY <2>2 DEF Gather, Bytes
<1> QED BY <1>1, <1>2

LEMMA SaysIs == ASSUME NEW x, DeltaOk(x) PROVE Says(x) \in Seq(Token)
<1>1. x.text \in Seq(Token) /\ x.reasoning \in Seq(Token) /\ x.reasoning_content \in Seq(Token)
  BY DEF DeltaOk
<1>2. x.text \o x.reasoning \in Seq(Token)
  BY <1>1, ConcatProperties
<1> QED BY <1>1, <1>2, ConcatProperties DEF Says

LEMMA TextIs ==
  ASSUME NEW E, \A x \in E : ItemOk(x)
  PROVE  /\ Maps(Spoken(E), E, Seq(Token))
         /\ \A s \in Seq(E) : TextOf(s) = Gather(Spoken(E), s)
<1>1. Maps(Spoken(E), E, Seq(Token))
  <2>1. ASSUME NEW x \in E
        PROVE  (IF IsDelta(x) THEN Says(x) ELSE <<>>) \in Seq(Token)
    BY SaysIs, EmptySeq DEF ItemOk
  <2> QED BY <2>1 DEF Maps, Spoken
<1>2. ASSUME NEW s \in Seq(E) PROVE TextOf(s) = Gather(Spoken(E), s)
  <2>1. \A k \in DOMAIN s :
          Spoken(E)[s[k]] = IF IsDelta(s[k]) THEN Says(s[k]) ELSE <<>>
    BY LenProperties, ElementOfSeq DEF Spoken
  <2>2. Pieces(Spoken(E), s)
          = [k \in DOMAIN s |-> IF IsDelta(s[k]) THEN Says(s[k]) ELSE <<>>]
    BY <2>1 DEF Pieces
  <2> QED BY <2>2 DEF Gather, TextOf, Says
<1> QED BY <1>1, <1>2

LEMMA CallsAre ==
  ASSUME NEW E, \A x \in E : ItemOk(x), NEW i
  PROVE  /\ Maps(Called(E, i), E, Seq(Token))
         /\ \A s \in Seq(E) : ArgsOf(s, i) = Gather(Called(E, i), s)
<1>1. Maps(Called(E, i), E, Seq(Token))
  <2>1. ASSUME NEW x \in E
        PROVE  (IF IsDelta(x) THEN Args(x.tools, i) ELSE <<>>) \in Seq(Token)
    <3>1. IsDelta(x) => x.tools \in Seq(Fragment)
      BY DEF ItemOk, DeltaOk
    <3>2. IsDelta(x) => Args(x.tools, i) \in Seq(Token)
      BY <3>1, ArgsFacts
    <3> QED BY <3>2, EmptySeq
  <2> QED BY <2>1 DEF Maps, Called
<1>2. ASSUME NEW s \in Seq(E) PROVE ArgsOf(s, i) = Gather(Called(E, i), s)
  <2>1. \A k \in DOMAIN s :
          Called(E, i)[s[k]] = IF IsDelta(s[k]) THEN Args(s[k].tools, i) ELSE <<>>
    BY LenProperties, ElementOfSeq DEF Called
  <2>2. Pieces(Called(E, i), s)
          = [k \in DOMAIN s |-> IF IsDelta(s[k]) THEN Args(s[k].tools, i) ELSE <<>>]
    BY <2>1 DEF Pieces
  <2> QED BY <2>2 DEF Gather, ArgsOf
<1> QED BY <1>1, <1>2

LEMMA CharsFacts ==
  /\ Chars(<<>>) = <<>>
  /\ \A s \in Seq(Byte) : Chars(s) \in Seq(Token)
  /\ \A s, t \in Seq(Byte) : Chars(s \o t) = Chars(s) \o Chars(t)
  /\ \A s \in Seq(Byte), x \in Byte : Chars(Append(s, x)) = Chars(s) \o CharOf[x]
<1> DEFINE m == CharOf
<1>1. Maps(m, Byte, Seq(Token)) /\ \A s \in Seq(Byte) : Chars(s) = Gather(m, s)
  BY CharsIs
<1> HIDE DEF m
<1>2. Gathers(m, Byte, Token)
  BY <1>1, GatherIs
<1>3. Chars(<<>>) = <<>> /\ \A s \in Seq(Byte) : Chars(s) \in Seq(Token)
  BY <1>1, <1>2 DEF Gathers
<1>4. ASSUME NEW s \in Seq(Byte), NEW t \in Seq(Byte) PROVE Chars(s \o t) = Chars(s) \o Chars(t)
  <2>1. s \o t \in Seq(Byte) /\ Gather(m, s \o t) = Gather(m, s) \o Gather(m, t)
    BY <1>2 DEF Gathers
  <2> QED BY <1>1, <2>1
<1>5. ASSUME NEW s \in Seq(Byte), NEW x \in Byte PROVE Chars(Append(s, x)) = Chars(s) \o m[x]
  BY <1>1, <1>2 DEF Gathers
<1> QED BY <1>3, <1>4, <1>5 DEF m

LEMMA BytesFacts ==
  ASSUME NEW E, \A x \in E : ChunkOk(x)
  PROVE  /\ Bytes(<<>>) = <<>>
         /\ \A s \in Seq(E) : Bytes(s) \in Seq(Byte)
         /\ \A s, t \in Seq(E) : Bytes(s \o t) = Bytes(s) \o Bytes(t)
         /\ \A s \in Seq(E), x \in E : Bytes(Append(s, x)) = Bytes(s) \o Raw(E)[x]
<1> DEFINE m == Raw(E)
<1>1. Maps(m, E, Seq(Byte)) /\ \A s \in Seq(E) : Bytes(s) = Gather(m, s)
  BY BytesAre
<1> HIDE DEF m
<1>2. Gathers(m, E, Byte)
  BY <1>1, GatherIs
<1>3. Bytes(<<>>) = <<>> /\ \A s \in Seq(E) : Bytes(s) \in Seq(Byte)
  BY <1>1, <1>2 DEF Gathers
<1>4. ASSUME NEW s \in Seq(E), NEW t \in Seq(E) PROVE Bytes(s \o t) = Bytes(s) \o Bytes(t)
  <2>1. s \o t \in Seq(E) /\ Gather(m, s \o t) = Gather(m, s) \o Gather(m, t)
    BY <1>2 DEF Gathers
  <2> QED BY <1>1, <2>1
<1>5. ASSUME NEW s \in Seq(E), NEW x \in E PROVE Bytes(Append(s, x)) = Bytes(s) \o m[x]
  BY <1>1, <1>2 DEF Gathers
<1> QED BY <1>3, <1>4, <1>5 DEF m

LEMMA TextFacts ==
  ASSUME NEW E, \A x \in E : ItemOk(x)
  PROVE  /\ TextOf(<<>>) = <<>>
         /\ \A s \in Seq(E) : TextOf(s) \in Seq(Token)
         /\ \A s, t \in Seq(E) : TextOf(s \o t) = TextOf(s) \o TextOf(t)
         /\ \A s \in Seq(E), x \in E : TextOf(Append(s, x)) = TextOf(s) \o Spoken(E)[x]
<1> DEFINE m == Spoken(E)
<1>1. Maps(m, E, Seq(Token)) /\ \A s \in Seq(E) : TextOf(s) = Gather(m, s)
  BY TextIs
<1> HIDE DEF m
<1>2. Gathers(m, E, Token)
  BY <1>1, GatherIs
<1>3. TextOf(<<>>) = <<>> /\ \A s \in Seq(E) : TextOf(s) \in Seq(Token)
  BY <1>1, <1>2 DEF Gathers
<1>4. ASSUME NEW s \in Seq(E), NEW t \in Seq(E) PROVE TextOf(s \o t) = TextOf(s) \o TextOf(t)
  <2>1. s \o t \in Seq(E) /\ Gather(m, s \o t) = Gather(m, s) \o Gather(m, t)
    BY <1>2 DEF Gathers
  <2> QED BY <1>1, <2>1
<1>5. ASSUME NEW s \in Seq(E), NEW x \in E PROVE TextOf(Append(s, x)) = TextOf(s) \o m[x]
  BY <1>1, <1>2 DEF Gathers
<1> QED BY <1>3, <1>4, <1>5 DEF m

LEMMA CallsFacts ==
  ASSUME NEW E, \A x \in E : ItemOk(x), NEW i
  PROVE  /\ ArgsOf(<<>>, i) = <<>>
         /\ \A s \in Seq(E) : ArgsOf(s, i) \in Seq(Token)
         /\ \A s, t \in Seq(E) : ArgsOf(s \o t, i) = ArgsOf(s, i) \o ArgsOf(t, i)
         /\ \A s \in Seq(E), x \in E : ArgsOf(Append(s, x), i) = ArgsOf(s, i) \o Called(E, i)[x]
<1> DEFINE m == Called(E, i)
<1>1. Maps(m, E, Seq(Token)) /\ \A s \in Seq(E) : ArgsOf(s, i) = Gather(m, s)
  BY CallsAre
<1> HIDE DEF m
<1>2. Gathers(m, E, Token)
  BY <1>1, GatherIs
<1>3. ArgsOf(<<>>, i) = <<>> /\ \A s \in Seq(E) : ArgsOf(s, i) \in Seq(Token)
  BY <1>1, <1>2 DEF Gathers
<1>4. ASSUME NEW s \in Seq(E), NEW t \in Seq(E)
      PROVE  ArgsOf(s \o t, i) = ArgsOf(s, i) \o ArgsOf(t, i)
  <2>1. s \o t \in Seq(E) /\ Gather(m, s \o t) = Gather(m, s) \o Gather(m, t)
    BY <1>2 DEF Gathers
  <2> QED BY <1>1, <2>1
<1>5. ASSUME NEW s \in Seq(E), NEW x \in E PROVE ArgsOf(Append(s, x), i) = ArgsOf(s, i) \o m[x]
  BY <1>1, <1>2 DEF Gathers
<1> QED BY <1>3, <1>4, <1>5 DEF m

LEMMA SeqIn ==
  ASSUME NEW s, IsSeq(s), NEW E, Range(s) \subseteq E
  PROVE  s \in Seq(E)
  BY SeqMonotonic DEF IsSeq

LEMMA ItemsAppend ==
  ASSUME NEW s, Items(s), NEW x, ItemOk(x)
  PROVE  /\ Items(Append(s, x))
         /\ TextOf(s) \in Seq(Token)
         /\ TextOf(Append(s, x)) = TextOf(s) \o (IF IsDelta(x) THEN Says(x) ELSE <<>>)
         /\ \A i : /\ ArgsOf(s, i) \in Seq(Token)
                   /\ ArgsOf(Append(s, x), i)
                        = ArgsOf(s, i) \o (IF IsDelta(x) THEN Args(x.tools, i) ELSE <<>>)
<1> DEFINE E == Range(s) \cup {x}
<1>0. IsSeq(s) /\ \A k \in DOMAIN s : ItemOk(s[k])
  BY DEF Items
<1>1. \A y \in E : ItemOk(y)
  BY <1>0 DEF Range
<1>2. s \in Seq(E) /\ x \in E
  BY <1>0, SeqIn
<1> HIDE DEF E
<1>3. TextOf(s) \in Seq(Token) /\ TextOf(Append(s, x)) = TextOf(s) \o Spoken(E)[x]
  BY <1>1, <1>2, TextFacts
<1>4. Spoken(E)[x] = IF IsDelta(x) THEN Says(x) ELSE <<>>
  BY <1>2 DEF Spoken
<1>5. ASSUME NEW i
      PROVE  /\ ArgsOf(s, i) \in Seq(Token)
             /\ ArgsOf(Append(s, x), i)
                  = ArgsOf(s, i) \o (IF IsDelta(x) THEN Args(x.tools, i) ELSE <<>>)
  <2>1. ArgsOf(s, i) \in Seq(Token) /\ ArgsOf(Append(s, x), i) = ArgsOf(s, i) \o Called(E, i)[x]
    BY <1>1, <1>2, CallsFacts
  <2>2. Called(E, i)[x] = IF IsDelta(x) THEN Args(x.tools, i) ELSE <<>>
    BY <1>2 DEF Called
  <2> QED BY <2>1, <2>2
<1>6. Items(Append(s, x))
  <2>1. /\ IsSeq(Append(s, x)) /\ DOMAIN Append(s, x) = 1 .. Len(s) + 1
        /\ (\A k \in 1 .. Len(s) : Append(s, x)[k] = s[k]) /\ Append(s, x)[Len(s) + 1] = x
        /\ Len(s) \in Nat /\ DOMAIN s = 1 .. Len(s)
    BY <1>0, AppendIs, SeqIs
  <2>2. ASSUME NEW k \in 1 .. Len(s) + 1 PROVE ItemOk(Append(s, x)[k])
    <3>1. k = Len(s) + 1 \/ k \in 1 .. Len(s)
      BY <2>1
    <3> QED BY <1>0, <2>1, <3>1
  <2> QED BY <2>1, <2>2 DEF Items
<1> QED BY <1>3, <1>4, <1>5, <1>6

LEMMA BytesAppend ==
  ASSUME NEW s, Chunks(s), NEW x, ChunkOk(x)
  PROVE  /\ Chunks(Append(s, x))
         /\ Bytes(s) \in Seq(Byte)
         /\ Bytes(Append(s, x)) = Bytes(s) \o (IF IsDelta(x) THEN <<>> ELSE x.bytes)
<1> DEFINE E == Range(s) \cup {x}
<1>0. IsSeq(s) /\ \A k \in DOMAIN s : ChunkOk(s[k])
  BY DEF Chunks
<1>1. \A y \in E : ChunkOk(y)
  BY <1>0 DEF Range
<1>2. s \in Seq(E) /\ x \in E
  BY <1>0, SeqIn
<1> HIDE DEF E
<1>3. Bytes(s) \in Seq(Byte) /\ Bytes(Append(s, x)) = Bytes(s) \o Raw(E)[x]
  BY <1>1, <1>2, BytesFacts
<1>4. Raw(E)[x] = IF IsDelta(x) THEN <<>> ELSE x.bytes
  BY <1>2 DEF Raw
<1>6. Chunks(Append(s, x))
  <2>1. /\ IsSeq(Append(s, x)) /\ DOMAIN Append(s, x) = 1 .. Len(s) + 1
        /\ (\A k \in 1 .. Len(s) : Append(s, x)[k] = s[k]) /\ Append(s, x)[Len(s) + 1] = x
        /\ Len(s) \in Nat /\ DOMAIN s = 1 .. Len(s)
    BY <1>0, AppendIs, SeqIs
  <2>2. ASSUME NEW k \in 1 .. Len(s) + 1 PROVE ChunkOk(Append(s, x)[k])
    <3>1. k = Len(s) + 1 \/ k \in 1 .. Len(s)
      BY <2>1
    <3> QED BY <1>0, <2>1, <3>1
  <2> QED BY <2>1, <2>2 DEF Chunks
<1> QED BY <1>3, <1>4, <1>6

LEMMA ChunksAreItems == ASSUME NEW s, Chunks(s) PROVE Items(s)
  BY DEF Chunks, Items, ChunkOk, ItemOk

LEMMA NoItems ==
  /\ Items(<<>>) /\ Chunks(<<>>)
  /\ TextOf(<<>>) = <<>> /\ Bytes(<<>>) = <<>> /\ Chars(<<>>) = <<>>
  /\ \A i : ArgsOf(<<>>, i) = <<>> /\ Args(<<>>, i) = <<>>
<1>1. IsSeq(<<>>) /\ DOMAIN <<>> = {}
  BY EmptySeq DEF IsSeq
<1>2. Items(<<>>) /\ Chunks(<<>>)
  BY <1>1 DEF Items, Chunks
<1> DEFINE E == {}
<1>3. (\A x \in E : ItemOk(x)) /\ (\A x \in E : ChunkOk(x))
  OBVIOUS
<1> HIDE DEF E
<1>4. TextOf(<<>>) = <<>>
  BY <1>3, TextFacts
<1>5. Bytes(<<>>) = <<>>
  BY <1>3, BytesFacts
<1>6. \A i : ArgsOf(<<>>, i) = <<>>
  BY <1>3, CallsFacts
<1>7. \A i : Args(<<>>, i) = <<>>
  BY ArgsFacts
<1>8. Chars(<<>>) = <<>>
  BY CharsFacts
<1> QED BY <1>2, <1>4, <1>5, <1>6, <1>7, <1>8

\* The arguments of the tool call with an index.
Call(calls, i) == IF i + 1 \in DOMAIN calls THEN calls[i + 1] ELSE <<>>

\* One call's fragments.
OfCall(j) == [x \in Token |-> [index |-> j, arg |-> x]]

LEMMA FragmentsAre ==
  ASSUME NEW j \in Nat, NEW c \in Seq(Token)
  PROVE  /\ Pieces(OfCall(j), c) \in Seq(Fragment)
         /\ \A i : Args(Pieces(OfCall(j), c), i) = IF i = j THEN c ELSE <<>>
<1> DEFINE m == OfCall(j)
           Good(s) == /\ Pieces(m, s) \in Seq(Fragment)
                      /\ \A i : Args(Pieces(m, s), i) = IF i = j THEN s ELSE <<>>
           T == {s \in Seq(Token) : Good(s)}
<1>0. /\ Maps(m, Token, Fragment)
      /\ \A x \in Token : m[x] = [index |-> j, arg |-> x]
  BY DEF Maps, Fragment, OfCall
<1> HIDE DEF m
<1>1. <<>> \in T
  <2>1. Pieces(m, <<>>) = <<>>
    BY DEF Pieces
  <2>2. <<>> \in Seq(Fragment) /\ <<>> \in Seq(Token)
    BY EmptySeq
  <2> QED BY <2>1, <2>2, NoItems
<1>2. ASSUME NEW s \in Seq(Token), NEW x \in Token, s \in T PROVE Append(s, x) \in T
  <2>1. Append(s, x) = s \o <<x>> /\ <<x>> \in Seq(Token) /\ Append(s, x) \in Seq(Token)
    BY AppendIsConcat, AppendProperties
  <2>2. Pieces(m, <<x>>) = <<m[x]>>
    BY DEF Pieces
  <2>3. m[x] \in Fragment /\ m[x].index = j /\ m[x].arg = x
    <3>1. m[x] = [index |-> j, arg |-> x]
      BY <1>0
    <3>2. [index |-> j, arg |-> x] \in Fragment
      BY DEF Fragment
    <3> QED BY <3>1, <3>2
  <2>4. Pieces(m, Append(s, x)) = Pieces(m, s) \o <<m[x]>>
    <3> DEFINE y == <<x>>
    <3>1. Append(s, x) = s \o y /\ y \in Seq(Token) /\ Pieces(m, y) = <<m[x]>>
      BY <2>1, <2>2
    <3> HIDE DEF y
    <3>2. Pieces(m, s \o y) = Pieces(m, s) \o Pieces(m, y)
      <4>1. Maps(m, Token, Fragment) /\ y \in Seq(Token)
        BY <1>0, <3>1
      <4> QED BY <4>1, PiecesConcat
    <3> QED BY <3>1, <3>2
  <2>5. Pieces(m, s) \in Seq(Fragment)
    BY <1>2
  <2>6. Pieces(m, s) \o <<m[x]>> = Append(Pieces(m, s), m[x])
    BY <2>3, <2>5, AppendIsConcat
  <2>7. Pieces(m, Append(s, x)) \in Seq(Fragment)
    BY <2>3, <2>4, <2>5, <2>6, AppendProperties
  <2>8. ASSUME NEW i
        PROVE  Args(Pieces(m, Append(s, x)), i) = IF i = j THEN Append(s, x) ELSE <<>>
    <3>1. Args(Pieces(m, Append(s, x)), i) = Args(Pieces(m, s), i) \o ArgOf(i)[m[x]]
      BY <2>3, <2>4, <2>5, <2>6, ArgsFacts
    <3>2. Args(Pieces(m, s), i) = IF i = j THEN s ELSE <<>>
      BY <1>2
    <3>3. ArgOf(i)[m[x]] = IF i = j THEN <<x>> ELSE <<>>
      BY <2>3 DEF ArgOf
    <3>4. <<>> \o <<>> = <<>>
      BY EmptySeq, ConcatEmptySeq
    <3> QED BY <2>1, <3>1, <3>2, <3>3, <3>4
  <2> QED BY <2>1, <2>7, <2>8
<1>3. Seq(Token) \subseteq T
  <2> HIDE DEF T
  <2> QED BY <1>1, <1>2, SeqInduction
<1> QED BY <1>3 DEF m

-----------------------------------------------------------------------------
(***************************************************************************)
(* Tool calls: merged fragment by fragment, and indexed anew.              *)
(***************************************************************************)

CallsOf == Seq(Seq(Token))

LEMMA IndexedAppend ==
  ASSUME NEW calls \in CallsOf, Indexed(calls) \in Seq(Fragment), NEW c \in Seq(Token)
  PROVE  /\ Indexed(Append(calls, c)) = Indexed(calls) \o Pieces(OfCall(Len(calls)), c)
         /\ Indexed(Append(calls, c)) \in Seq(Fragment)
<1> DEFINE n == Len(calls)
           F(k, s) == [m \in DOMAIN s |-> [index |-> k - 1, arg |-> s[m]]]
           all == Append(calls, c)
           a == [k \in DOMAIN calls |-> F(k, calls[k])]
           b == [k \in DOMAIN all |-> F(k, all[k])]
           z == Pieces(OfCall(n), c)
<1>0. /\ n \in Nat /\ DOMAIN calls = 1 .. n /\ \A k \in 1 .. n : calls[k] \in Seq(Token)
      /\ calls \in Seq(Seq(Token))
  BY LenProperties, ElementOfSeq DEF CallsOf
<1>1. /\ all \in Seq(Seq(Token)) /\ Len(all) = n + 1 /\ DOMAIN all = 1 .. n + 1
      /\ (\A k \in 1 .. n : all[k] = calls[k]) /\ all[n + 1] = c
  BY <1>0, AppendProperties, LenProperties
<1>2. ASSUME NEW k \in 1 .. n, NEW s \in Seq(Token) PROVE F(k, s) = Pieces(OfCall(k - 1), s)
  <2>1. \A m \in DOMAIN s : OfCall(k - 1)[s[m]] = [index |-> k - 1, arg |-> s[m]]
    BY LenProperties, ElementOfSeq DEF OfCall
  <2> QED BY <2>1 DEF Pieces
<1>3. F(n + 1, c) = z
  <2>1. \A m \in DOMAIN c : OfCall(n)[c[m]] = [index |-> n + 1 - 1, arg |-> c[m]]
    BY <1>0, LenProperties, ElementOfSeq DEF OfCall
  <2> QED BY <2>1 DEF Pieces
<1>4. z \in Seq(Fragment)
  BY <1>0, FragmentsAre
<1>5. \A k \in 1 .. n : F(k, calls[k]) \in Seq(Fragment)
  <2> SUFFICES ASSUME NEW k \in 1 .. n PROVE F(k, calls[k]) \in Seq(Fragment)
    OBVIOUS
  <2>1. k - 1 \in Nat /\ calls[k] \in Seq(Token)
    BY <1>0
  <2>2. F(k, calls[k]) = Pieces(OfCall(k - 1), calls[k])
    BY <1>2, <2>1
  <2> HIDE DEF F
  <2> QED BY <2>1, <2>2, FragmentsAre
<1> HIDE DEF all, F, z, n
<1>6. a \in Seq(Seq(Fragment)) /\ Len(a) = n /\ \A k \in 1 .. n : a[k] = F(k, calls[k])
  <2>1. /\ a \in [1 .. n -> Seq(Fragment)] /\ DOMAIN a = 1 .. n
        /\ \A k \in 1 .. n : a[k] = F(k, calls[k])
    BY <1>0, <1>5
  <2> HIDE DEF a
  <2>2. a \in Seq(Seq(Fragment))
    BY <1>0, <2>1, SeqDef
  <2>3. Len(a) = n
    BY <1>0, <2>1, <2>2, LenProperties
  <2> QED BY <2>1, <2>2, <2>3
<1>7. b = Append(a, z)
  <2>1. DOMAIN b = 1 .. n + 1 /\ \A k \in 1 .. n + 1 : b[k] = F(k, all[k])
    BY <1>1
  <2>2. b = [k \in 1 .. n + 1 |-> b[k]]
    BY <1>1
  <2> HIDE DEF a, b
  <2>3. /\ Append(a, z) \in Seq(Seq(Fragment)) /\ Len(Append(a, z)) = n + 1
        /\ (\A k \in 1 .. n : Append(a, z)[k] = a[k]) /\ Append(a, z)[n + 1] = z
    BY <1>4, <1>6, AppendProperties
  <2>4. ASSUME NEW k \in 1 .. n + 1 PROVE b[k] = Append(a, z)[k]
    <3>1. CASE k = n + 1
      BY <1>1, <1>3, <2>1, <2>3, <3>1
    <3>2. CASE k # n + 1
      <4>1. k \in 1 .. n
        BY <1>0, <3>2
      <4> QED BY <1>1, <1>6, <2>1, <2>3, <4>1
    <3> QED BY <3>1, <3>2
  <2>5. DOMAIN Append(a, z) = 1 .. n + 1
    BY <2>3, LenProperties
  <2>6. Append(a, z) = [k \in 1 .. n + 1 |-> Append(a, z)[k]]
    BY <2>3, <2>5, LenProperties
  <2> QED BY <2>2, <2>4, <2>6
<1>8. Indexed(calls) = FlattenSeq(a) /\ Indexed(all) = FlattenSeq(b)
  BY DEF Indexed, F
<1>9. FlattenSeq(Append(a, z)) = FlattenSeq(a) \o z
  <2> HIDE DEF a
  <2> QED BY <1>4, <1>6, FlattenAppend
<1>10. Indexed(all) = Indexed(calls) \o z
  <2> HIDE DEF a, b
  <2> QED BY <1>7, <1>8, <1>9
<1>11. Indexed(calls) \o z \in Seq(Fragment)
  BY <1>4, ConcatProperties
<1> QED BY <1>10, <1>11 DEF all, z, n

\* What EventsOf sends of the tool calls is read back from it, by index.
LEMMA IndexedIs ==
  ASSUME NEW calls \in CallsOf
  PROVE  /\ Indexed(calls) \in Seq(Fragment)
         /\ \A i \in Nat : Args(Indexed(calls), i) = Call(calls, i)
<1> DEFINE S == Seq(Token)
           Good(s) == /\ Indexed(s) \in Seq(Fragment)
                      /\ \A i \in Nat : Args(Indexed(s), i) = Call(s, i)
           T == {s \in Seq(S) : Good(s)}
<1>1. <<>> \in T
  <2>1. Indexed(<<>>) = <<>>
    <3>1. [k \in DOMAIN <<>> |->
             [m \in DOMAIN <<>>[k] |-> [index |-> k - 1, arg |-> <<>>[k][m]]]] = <<>>
      OBVIOUS
    <3> QED BY <3>1, FlattenEmpty DEF Indexed
  <2>2. \A i \in Nat : Call(<<>>, i) = <<>>
    BY DEF Call
  <2>3. <<>> \in Seq(Fragment) /\ <<>> \in Seq(S)
    BY EmptySeq
  <2>4. Good(<<>>)
    BY <2>1, <2>2, <2>3, NoItems
  <2> HIDE DEF Good
  <2> QED BY <2>3, <2>4
<1>2. ASSUME NEW s \in Seq(S), NEW c \in S, s \in T PROVE Append(s, c) \in T
  <2>0. s \in CallsOf /\ Good(s) /\ Len(s) \in Nat /\ DOMAIN s = 1 .. Len(s)
    BY <1>2, LenProperties DEF CallsOf
  <2> DEFINE n == Len(s)
             z == Pieces(OfCall(n), c)
  <2>1. Indexed(Append(s, c)) = Indexed(s) \o z /\ Indexed(Append(s, c)) \in Seq(Fragment)
    BY <2>0, IndexedAppend
  <2>2. z \in Seq(Fragment) /\ \A i : Args(z, i) = IF i = n THEN c ELSE <<>>
    BY <2>0, FragmentsAre
  <2>3. /\ Append(s, c) \in Seq(S) /\ DOMAIN Append(s, c) = 1 .. n + 1
        /\ (\A k \in 1 .. n : Append(s, c)[k] = s[k]) /\ Append(s, c)[n + 1] = c
    BY AppendProperties, LenProperties
  <2>4. ASSUME NEW i \in Nat PROVE Args(Indexed(Append(s, c)), i) = Call(Append(s, c), i)
    <3> HIDE DEF z, n
    <3>1. Args(Indexed(s) \o z, i) = Args(Indexed(s), i) \o Args(z, i)
      BY <2>0, <2>2, ArgsFacts
    <3>2. Args(Indexed(s), i) = Call(s, i) /\ Args(z, i) = IF i = n THEN c ELSE <<>>
      BY <2>0, <2>2
    <3>3. CASE i = n
      <4>1. Call(s, i) = <<>> /\ Call(Append(s, c), i) = c
        BY <2>0, <2>3, <3>3 DEF Call, n
      <4> QED BY <2>1, <3>1, <3>2, <3>3, <4>1, ConcatEmptySeq
    <3>4. CASE i # n
      <4>0. DOMAIN s = 1 .. n /\ n \in Nat
        BY <2>0 DEF n
      <4>1. Call(s, i) = Call(Append(s, c), i)
        <5>1. CASE i + 1 \in 1 .. n
          <6>1. i + 1 \in 1 .. n + 1
            BY <4>0, <5>1
          <6> QED BY <2>3, <4>0, <5>1, <6>1 DEF Call
        <5>2. CASE ~(i + 1 \in 1 .. n)
          <6>1. ~(i + 1 \in 1 .. n + 1)
            BY <3>4, <4>0, <5>2
          <6> QED BY <2>3, <4>0, <5>2, <6>1 DEF Call
        <5> QED BY <5>1, <5>2
      <4>2. Call(s, i) \in Seq(Token)
        BY <2>0, ElementOfSeq, EmptySeq DEF Call
      <4> QED BY <2>1, <3>1, <3>2, <3>4, <4>1, <4>2, ConcatEmptySeq
    <3> QED BY <3>3, <3>4
  <2> QED BY <2>1, <2>3, <2>4
<1>3. Seq(S) \subseteq T
  <2> HIDE DEF T, S
  <2> QED BY <1>1, <1>2, SeqInduction
<1> QED BY <1>3 DEF CallsOf

LEMMA JoinIs ==
  ASSUME NEW S, NEW a \in Seq(S), NEW b \in Seq(S), NEW c \in Seq(S)
  PROVE  (a \o b) \o c = a \o (b \o c) /\ a \o b \in Seq(S) /\ a \o (b \o c) \in Seq(S)
<1>1. (a \o b) \o c = a \o (b \o c)
  BY ConcatAssociative
<1>2. a \o b \in Seq(S) /\ b \o c \in Seq(S)
  BY ConcatProperties
<1>3. a \o (b \o c) \in Seq(S)
  BY <1>2, ConcatProperties
<1> QED BY <1>1, <1>2, <1>3

\* A recursion along a longer sequence goes on from where it was.
LEMMA AlongAppend ==
  ASSUME NEW E, NEW s \in Seq(E), NEW x \in E, NEW d, NEW h, NEW f, NEW g,
         Along(f, d, h, s), Along(g, d, h, Append(s, x))
  PROVE  g[Len(Append(s, x))] = h[f[Len(s)]][x]
<1> DEFINE n == Len(s)
           t == Append(s, x)
           T == {k \in 0 .. n : f[k] = g[k]}
<1>0. /\ n \in Nat /\ Len(t) = n + 1 /\ t[n + 1] = x
      /\ \A k \in 1 .. n : t[k] = s[k]
  BY AppendProperties, LenProperties
<1>1. /\ f[0] = d /\ g[0] = d /\ \A k \in 1 .. n : f[k] = h[f[k - 1]][s[k]]
      /\ \A k \in 1 .. n + 1 : g[k] = h[g[k - 1]][t[k]]
  BY <1>0 DEF Along
<1> HIDE DEF n, t
<1>2. 0 \in T
  BY <1>0, <1>1
<1>3. ASSUME NEW k \in 1 .. n, k - 1 \in T PROVE k \in T
  <2>1. k \in 1 .. n + 1 /\ k \in 0 .. n /\ f[k - 1] = g[k - 1]
    BY <1>0, <1>3
  <2>2. f[k] = g[k]
    BY <1>0, <1>1, <2>1
  <2> QED BY <2>1, <2>2
<1>4. 0 .. n \subseteq T
  <2> HIDE DEF T
  <2> QED BY <1>0, <1>2, <1>3, UpTo
<1>5. f[n] = g[n]
  BY <1>0, <1>4
<1>6. g[n + 1] = h[g[n]][x]
  <2> DEFINE m == n + 1
  <2>1. m \in 1 .. n + 1 /\ m - 1 = n /\ m = n + 1
    BY <1>0
  <2> HIDE DEF m
  <2>2. g[m] = h[g[m - 1]][t[m]]
    BY <1>1, <2>1
  <2> QED BY <1>0, <2>1, <2>2
<1> QED BY <1>0, <1>5, <1>6 DEF n, t


\* An argument is in one of the calls.
Holds(calls, arg) == \E k \in DOMAIN calls : arg \in Range(calls[k])

\* merge_tool_call_deltas loses no argument, and appends to the call with the
\* fragment's index, and to no other.
LEMMA MergeOneIs ==
  ASSUME NEW calls \in CallsOf, NEW f \in Fragment
  PROVE  /\ MergeOne(calls, f) \in CallsOf
         /\ Len(calls) <= Len(MergeOne(calls, f))
         /\ Holds(MergeOne(calls, f), f.arg)
         /\ \A arg : Holds(calls, arg) => Holds(MergeOne(calls, f), arg)
         /\ f.index # None =>
              /\ f.index + 1 \in DOMAIN MergeOne(calls, f)
              /\ \A i \in Nat : Call(MergeOne(calls, f), i) = Call(calls, i) \o ArgOf(i)[f]
<1> DEFINE n == Len(calls)
           at == Place(calls, f)
           size == IF at < n THEN n ELSE at + 1
           O(k) == IF k <= n THEN calls[k] ELSE <<>>
           P(k) == IF k = at + 1 THEN <<f.arg>> ELSE <<>>
           M == MergeOne(calls, f)
<1>0. /\ n \in Nat /\ DOMAIN calls = 1 .. n /\ f.arg \in Token
      /\ \A k \in 1 .. n : calls[k] \in Seq(Token)
  BY LenProperties, ElementOfSeq DEF CallsOf, Fragment
<1>a. at \in Nat /\ (f.index # None => at = f.index)
  BY <1>0 DEF Place, Fragment
<1>1. M = [k \in 1 .. size |-> O(k) \o P(k)]
  BY DEF MergeOne
<1> HIDE DEF at
<1>2. size \in Nat /\ n <= size /\ at + 1 \in 1 .. size
  BY <1>0, <1>a
<1>3. \A k \in 1 .. size : O(k) \in Seq(Token) /\ P(k) \in Seq(Token)
  <2> SUFFICES ASSUME NEW k \in 1 .. size PROVE O(k) \in Seq(Token) /\ P(k) \in Seq(Token)
    OBVIOUS
  <2>1. k <= n => calls[k] \in Seq(Token)
    BY <1>0, <1>2
  <2>2. O(k) \in Seq(Token)
    BY <2>1, EmptySeq
  <2>3. P(k) \in Seq(Token)
    BY <1>0, SingletonIs, EmptySeq
  <2> QED BY <2>2, <2>3
<1>b. /\ \A k \in 1 .. n : k \in 1 .. size /\ O(k) = calls[k]
      /\ P(at + 1) = <<f.arg>>
  BY <1>0, <1>2
<1>c. f.arg \in Range(<<f.arg>>)
  <2> DEFINE one == <<f.arg>>
  <2>1. DOMAIN one = 1 .. 1 /\ one[1] = f.arg
    OBVIOUS
  <2> HIDE DEF one
  <2>2. f.arg \in Range(one)
    BY <2>1 DEF Range
  <2> QED BY <2>2 DEF one
<1> HIDE DEF size, M, n
<1>4. /\ M \in [1 .. size -> Seq(Token)] /\ DOMAIN M = 1 .. size
      /\ \A k \in 1 .. size : M[k] = O(k) \o P(k)
  <2>1. \A k \in 1 .. size : O(k) \o P(k) \in Seq(Token)
    <3> HIDE DEF O, P
    <3> QED BY <1>3, ConcatProperties
  <2> HIDE DEF O, P
  <2> QED BY <1>1, <2>1
<1>5. M \in CallsOf /\ Len(M) = size
  <2>1. M \in Seq(Seq(Token))
    BY <1>2, <1>4, SeqDef
  <2>2. Len(M) = size
    BY <1>2, <1>4, <2>1, LenProperties
  <2> QED BY <2>1, <2>2 DEF CallsOf
<1>d. ASSUME NEW k \in 1 .. size PROVE Range(M[k]) = Range(O(k)) \cup Range(P(k))
  <2> DEFINE o == O(k)
             q == P(k)
  <2>1. o \in Seq(Token) /\ q \in Seq(Token) /\ M[k] = o \o q
    BY <1>3, <1>4
  <2> HIDE DEF o, q
  <2>2. Range(o \o q) = Range(o) \cup Range(q)
    BY <2>1, RangeConcatenation
  <2> QED BY <2>1, <2>2 DEF o, q
<1>7. Holds(M, f.arg)
  <2>1. at + 1 \in DOMAIN M /\ Range(P(at + 1)) \subseteq Range(M[at + 1])
    BY <1>2, <1>4, <1>d
  <2>2. f.arg \in Range(P(at + 1))
    BY <1>b, <1>c
  <2> HIDE DEF P, O
  <2> QED BY <2>1, <2>2 DEF Holds
<1>8. ASSUME NEW arg, Holds(calls, arg) PROVE Holds(M, arg)
  <2>1. PICK k \in 1 .. n : arg \in Range(calls[k])
    BY <1>0, <1>8 DEF Holds
  <2>2. k \in DOMAIN M /\ Range(O(k)) \subseteq Range(M[k]) /\ O(k) = calls[k]
    BY <1>4, <1>b, <1>d
  <2> QED BY <2>1, <2>2 DEF Holds
<1>6. ASSUME f.index # None, NEW i \in Nat PROVE Call(M, i) = Call(calls, i) \o ArgOf(i)[f]
  <2>1. ArgOf(i)[f] = IF at = i THEN <<f.arg>> ELSE <<>>
    BY <1>6, <1>a DEF ArgOf
  <2>2. Call(calls, i) = IF i + 1 <= n THEN calls[i + 1] ELSE <<>>
    BY <1>0 DEF Call
  <2>3. CASE i + 1 \in 1 .. size
    <3>1. Call(M, i) = O(i + 1) \o P(i + 1)
      BY <1>4, <2>3 DEF Call
    <3>2. i + 1 = at + 1 <=> at = i
      BY <1>a
    <3> QED BY <2>1, <2>2, <3>1, <3>2
  <2>4. CASE ~(i + 1 \in 1 .. size)
    <3>1. Call(M, i) = <<>>
      BY <1>4, <2>4 DEF Call
    <3>2. ~(i + 1 <= n) /\ at # i
      BY <1>0, <1>2, <1>a, <2>4
    <3> QED BY <2>1, <2>2, <3>1, <3>2, EmptySeq, ConcatEmptySeq
  <2> QED BY <2>3, <2>4
<1> QED BY <1>2, <1>4, <1>5, <1>6, <1>7, <1>8, <1>a DEF M, n

Merging == [c \in CallsOf |-> [f \in Fragment |-> MergeOne(c, f)]]

LEMMA MergingIs ==
  /\ Merging \in [CallsOf -> [Fragment -> CallsOf]]
  /\ \A c \in CallsOf, f \in Fragment : Merging[c][f] = MergeOne(c, f)
  BY MergeOneIs DEF Merging

LEMMA MergeAllIs ==
  ASSUME NEW calls \in CallsOf, NEW s \in Seq(Fragment)
  PROVE  \E f \in [0 .. Len(s) -> CallsOf] :
           MergeAll(calls, s) = f[Len(s)] /\ Along(f, calls, Merging, s)
<1> DEFINE n == Len(s)
           Rec(f) == f = [k \in 0 .. Len(s) |-> IF k = 0 THEN calls ELSE MergeOne(f[k - 1], s[k])]
           F == CHOOSE f : Rec(f)
<1>0. n \in Nat /\ \A k \in 1 .. n : s[k] \in Fragment
  BY LenProperties, ElementOfSeq
<1>1. MergeAll(calls, s) = F[n]
  BY DEF MergeAll
<1>2. \E f : Rec(f)
  <2>1. PICK g \in [0 .. n -> CallsOf] : Along(g, calls, Merging, s)
    BY MergingIs, Recursion
  <2>2. \A k \in 0 .. n : g[k] = IF k = 0 THEN calls ELSE MergeOne(g[k - 1], s[k])
    <3> SUFFICES ASSUME NEW k \in 0 .. n, k # 0 PROVE g[k] = MergeOne(g[k - 1], s[k])
      BY <2>1 DEF Along
    <3>1. k \in 1 .. n /\ k - 1 \in 0 .. n
      BY <1>0
    <3>2. g[k - 1] \in CallsOf /\ s[k] \in Fragment /\ g[k] = Merging[g[k - 1]][s[k]]
      BY <1>0, <2>1, <3>1 DEF Along
    <3> QED BY <3>2, MergingIs
  <2>3. g = [k \in 0 .. n |-> g[k]]
    BY <2>1
  <2>4. Rec(g)
    BY <2>2, <2>3
  <2> HIDE DEF Rec
  <2> QED BY <2>4
<1>3. Rec(F)
  BY <1>2
<1> HIDE DEF F
<1>4. /\ F[0] = calls /\ \A k \in 1 .. n : F[k] = MergeOne(F[k - 1], s[k])
      /\ F = [k \in 0 .. n |-> F[k]]
  <2>1. \A k \in 0 .. n : F[k] = IF k = 0 THEN calls ELSE MergeOne(F[k - 1], s[k])
    BY <1>3
  <2>2. F = [k \in 0 .. n |-> F[k]]
    BY <1>3
  <2>3. 0 \in 0 .. n /\ \A k \in 1 .. n : k \in 0 .. n /\ k # 0
    BY <1>0
  <2> HIDE DEF n, Rec
  <2> QED BY <2>1, <2>2, <2>3
<1> HIDE DEF n, Rec
<1>5. \A k \in 0 .. n : F[k] \in CallsOf
  <2> DEFINE T == {k \in 0 .. n : F[k] \in CallsOf}
  <2>1. 0 \in T
    BY <1>0, <1>4
  <2>2. ASSUME NEW k \in 1 .. n, k - 1 \in T PROVE k \in T
    <3>a. F[k - 1] \in CallsOf
      BY <2>2
    <3>b. F[k] = MergeOne(F[k - 1], s[k])
      BY <1>4
    <3>c. s[k] \in Fragment
      BY <1>0
    <3>d. k \in 0 .. n
      BY <1>0
    <3>1. /\ F[k] = MergeOne(F[k - 1], s[k])
          /\ F[k - 1] \in CallsOf /\ s[k] \in Fragment /\ k \in 0 .. n
      BY <3>a, <3>b, <3>c, <3>d
    <3>2. F[k] \in CallsOf
      BY <3>1, MergeOneIs
    <3> QED BY <3>1, <3>2
  <2>3. 0 .. n \subseteq T
    <3> HIDE DEF T
    <3> QED BY <1>0, <2>1, <2>2, UpTo
  <2> QED BY <2>3
<1>6. F \in [0 .. n -> CallsOf]
  BY <1>4, <1>5
<1>7. Along(F, calls, Merging, s)
  <2>1. ASSUME NEW k \in 1 .. n PROVE F[k] = Merging[F[k - 1]][s[k]]
    <3>1. k - 1 \in 0 .. n
      BY <1>0
    <3>2. F[k - 1] \in CallsOf /\ s[k] \in Fragment
      BY <1>0, <1>5, <3>1
    <3> QED BY <1>4, <3>2, MergingIs
  <2> QED BY <1>4, <2>1 DEF Along, n
<1> QED BY <1>1, <1>6, <1>7 DEF n

LEMMA MergeAllAppend ==
  ASSUME NEW calls \in CallsOf
  PROVE  /\ MergeAll(calls, <<>>) = calls
         /\ \A s \in Seq(Fragment) : MergeAll(calls, s) \in CallsOf
         /\ \A s \in Seq(Fragment), x \in Fragment :
              MergeAll(calls, Append(s, x)) = MergeOne(MergeAll(calls, s), x)
<1>1. ASSUME NEW s \in Seq(Fragment) PROVE MergeAll(calls, s) \in CallsOf
  <2>1. PICK f \in [0 .. Len(s) -> CallsOf] : MergeAll(calls, s) = f[Len(s)]
    BY MergeAllIs
  <2>2. Len(s) \in 0 .. Len(s)
    BY LenProperties
  <2> QED BY <2>1, <2>2
<1>2. ASSUME NEW s \in Seq(Fragment), NEW x \in Fragment
      PROVE  MergeAll(calls, Append(s, x)) = MergeOne(MergeAll(calls, s), x)
  <2> DEFINE t == Append(s, x)
  <2>0. t \in Seq(Fragment)
    BY AppendProperties
  <2>1. PICK f \in [0 .. Len(s) -> CallsOf] :
          MergeAll(calls, s) = f[Len(s)] /\ Along(f, calls, Merging, s)
    BY MergeAllIs
  <2> HIDE DEF t
  <2>2. PICK g \in [0 .. Len(t) -> CallsOf] :
          MergeAll(calls, t) = g[Len(t)] /\ Along(g, calls, Merging, t)
    BY <2>0, MergeAllIs
  <2>3. g[Len(t)] = Merging[f[Len(s)]][x]
    BY <2>1, <2>2, AlongAppend DEF t
  <2>4. MergeAll(calls, s) \in CallsOf
    BY <1>1
  <2> QED BY <2>1, <2>2, <2>3, <2>4, MergingIs DEF t
<1>3. MergeAll(calls, <<>>) = calls
  <2> DEFINE e == <<>>
  <2>0. e \in Seq(Fragment) /\ Len(e) = 0
    BY EmptySeq
  <2> HIDE DEF e
  <2>1. PICK f \in [0 .. Len(e) -> CallsOf] :
          MergeAll(calls, e) = f[Len(e)] /\ Along(f, calls, Merging, e)
    BY <2>0, MergeAllIs
  <2>2. MergeAll(calls, e) = calls
    BY <2>0, <2>1 DEF Along
  <2> QED BY <2>2 DEF e
<1> QED BY <1>1, <1>2, <1>3

\* All fragments have an index.
Labelled(tools) == \A f \in Range(tools) : f.index # None

\* So all fragments of a frame are merged, each into its call.
LEMMA MergeAllCalls ==
  ASSUME NEW calls \in CallsOf, NEW tools \in Seq(Fragment)
  PROVE  /\ MergeAll(calls, tools) \in CallsOf
         /\ Len(calls) <= Len(MergeAll(calls, tools))
         /\ \A arg : Holds(calls, arg) => Holds(MergeAll(calls, tools), arg)
         /\ \A f \in Range(tools) : Holds(MergeAll(calls, tools), f.arg)
         /\ Labelled(tools) =>
              /\ \A f \in Range(tools) : f.index + 1 \in DOMAIN MergeAll(calls, tools)
              /\ \A i \in Nat : Call(MergeAll(calls, tools), i) = Call(calls, i) \o Args(tools, i)
<1> DEFINE Good(s) ==
             /\ Len(calls) <= Len(MergeAll(calls, s))
             /\ \A arg : Holds(calls, arg) => Holds(MergeAll(calls, s), arg)
             /\ \A f \in Range(s) : Holds(MergeAll(calls, s), f.arg)
             /\ Labelled(s) =>
                  /\ \A f \in Range(s) : f.index + 1 \in DOMAIN MergeAll(calls, s)
                  /\ \A i \in Nat : Call(MergeAll(calls, s), i) = Call(calls, i) \o Args(s, i)
           T == {s \in Seq(Fragment) : Good(s)}
<1>0. ASSUME NEW c \in CallsOf
      PROVE  Len(c) \in Nat /\ DOMAIN c = 1 .. Len(c) /\ \A i \in Nat : Call(c, i) \in Seq(Token)
  <2>1. c \in Seq(Seq(Token))
    BY DEF CallsOf
  <2>2. Len(c) \in Nat /\ DOMAIN c = 1 .. Len(c) /\ \A k \in 1 .. Len(c) : c[k] \in Seq(Token)
    BY <2>1, LenProperties, ElementOfSeq
  <2> QED BY <2>2, EmptySeq DEF Call
<1>1. <<>> \in T
  <2>1. MergeAll(calls, <<>>) = calls /\ \A i : Args(<<>>, i) = <<>>
    BY MergeAllAppend, NoItems
  <2>2. \A i \in Nat : Call(calls, i) \o <<>> = Call(calls, i)
    BY <1>0, ConcatEmptySeq
  <2>3. <<>> \in Seq(Fragment) /\ Range(<<>>) = {}
    BY EmptySeq DEF Range
  <2> DEFINE e == <<>>
  <2>a. /\ e \in Seq(Fragment) /\ Range(e) = {} /\ MergeAll(calls, e) = calls
        /\ \A i \in Nat : Call(calls, i) = Call(calls, i) \o Args(e, i)
    BY <2>1, <2>2, <2>3
  <2> HIDE DEF e
  <2>b. Len(calls) <= Len(calls)
    BY <1>0
  <2>4. Good(e)
    BY <2>a, <2>b
  <2> HIDE DEF Good
  <2>5. e \in T
    BY <2>4, <2>a
  <2> QED BY <2>5 DEF e
<1>2. ASSUME NEW s \in Seq(Fragment), NEW x \in Fragment, s \in T PROVE Append(s, x) \in T
  <2> DEFINE M == MergeAll(calls, s)
             t == Append(s, x)
             N == MergeAll(calls, t)
  <2>1. M \in CallsOf /\ N = MergeOne(M, x) /\ t \in Seq(Fragment) /\ N \in CallsOf
    BY MergeAllAppend, AppendProperties
  <2>2. Good(s)
    BY <1>2
  <2>3. /\ Len(M) <= Len(N) /\ Holds(N, x.arg) /\ \A arg : Holds(M, arg) => Holds(N, arg)
        /\ x.index # None => /\ x.index + 1 \in DOMAIN N
                             /\ \A i \in Nat : Call(N, i) = Call(M, i) \o ArgOf(i)[x]
    BY <2>1, MergeOneIs
  <2>4. Range(t) = Range(s) \cup {x}
    <3>1. IsSeq(s)
      BY SeqOfRange DEF IsSeq
    <3> QED BY <3>1, RangeAppend
  <2>5. \A i : Args(t, i) = Args(s, i) \o ArgOf(i)[x] /\ Args(s, i) \in Seq(Token)
    BY ArgsFacts
  <2>6. \A i : ArgOf(i)[x] \in Seq(Token)
    BY ArgsAre DEF Maps
  <2> HIDE DEF M, N, t
  <2>7. Len(calls) <= Len(N)
    BY <1>0, <2>1, <2>2, <2>3 DEF M
  <2>a. ASSUME NEW arg, Holds(calls, arg) PROVE Holds(N, arg)
    BY <2>2, <2>3, <2>a DEF M
  <2>b. ASSUME NEW f \in Range(t) PROVE Holds(N, f.arg)
    BY <2>2, <2>3, <2>4 DEF M
  <2>c. ASSUME Labelled(t) PROVE Labelled(s) /\ x.index # None
    BY <2>4, <2>c DEF Labelled
  <2>8. ASSUME Labelled(t), NEW f \in Range(t) PROVE f.index + 1 \in DOMAIN N
    <3>1. CASE f = x
      BY <2>3, <2>8, <2>c, <3>1
    <3>2. CASE f \in Range(s)
      <4>1. f.index + 1 \in 1 .. Len(M)
        BY <1>0, <2>1, <2>2, <2>8, <2>c, <3>2 DEF M
      <4>2. Len(M) \in Nat /\ Len(N) \in Nat /\ DOMAIN N = 1 .. Len(N)
        BY <1>0, <2>1
      <4> QED BY <2>3, <4>1, <4>2
    <3> QED BY <2>4, <3>1, <3>2
  <2>9. ASSUME Labelled(t), NEW i \in Nat PROVE Call(N, i) = Call(calls, i) \o Args(t, i)
    <3>1. Call(N, i) = (Call(calls, i) \o Args(s, i)) \o ArgOf(i)[x]
      BY <2>2, <2>3, <2>9, <2>c DEF M
    <3>2. Call(calls, i) \in Seq(Token)
      BY <1>0
    <3> DEFINE a == Call(calls, i)
               b == Args(s, i)
               c == ArgOf(i)[x]
    <3>3. b \in Seq(Token) /\ c \in Seq(Token) /\ Args(t, i) = b \o c
      BY <2>5, <2>6
    <3> HIDE DEF a, b, c
    <3>4. (a \o b) \o c = a \o (b \o c)
      BY <3>2, <3>3, JoinIs DEF a
    <3> QED BY <3>1, <3>3, <3>4 DEF a, b, c
  <2> QED BY <2>1, <2>7, <2>8, <2>9, <2>a, <2>b DEF t, N
<1>3. Seq(Fragment) \subseteq T
  <2> HIDE DEF T
  <2> QED BY <1>1, <1>2, SeqInduction
<1>4. MergeAll(calls, tools) \in CallsOf
  BY MergeAllAppend
<1>5. Good(tools)
  <2>1. tools \in T
    <3> HIDE DEF T
    <3> QED BY <1>3
  <2> HIDE DEF Good
  <2> QED BY <2>1
<1> QED BY <1>4, <1>5

-----------------------------------------------------------------------------
(***************************************************************************)
(* An answer's aggregate, chunk by chunk.                                  *)
(***************************************************************************)

LEMMA FinishIs ==
  /\ None \in Finish /\ "stop" \in Reasons /\ "tool_calls" \in Reasons
  /\ "stop" # None /\ "tool_calls" # None
  /\ \A x : x \in Finish <=> x \in Reasons \/ x = None
<1>1. "stop" \in Reasons /\ "tool_calls" \in Reasons /\ None \notin Reasons
  BY OpeStreamAssumption
<1> QED BY <1>1 DEF Finish

Aggs == [text : Seq(Token), tools : CallsOf, finish : Finish]

\* What append_plain_to_aggregate makes of one chunk.
LEMMA AggregateIs ==
  ASSUME NEW a \in Aggs, NEW c, ChunkOk(c)
  PROVE  /\ Aggregate(a, c) \in Aggs
         /\ Aggregate(a, c).text
              = a.text \o (IF IsDelta(c) THEN Says(c) ELSE Chars(c.bytes))
         /\ Aggregate(a, c).tools = IF IsDelta(c) THEN MergeAll(a.tools, c.tools) ELSE a.tools
         /\ Aggregate(a, c).finish
              = IF IsDelta(c) /\ c.finish # None THEN c.finish ELSE a.finish
<1>0. a.text \in Seq(Token) /\ a.tools \in CallsOf /\ a.finish \in Finish
  BY DEF Aggs
<1>1. CASE IsDelta(c)
  <2>1. Says(c) \in Seq(Token) /\ c.tools \in Seq(Fragment) /\ c.finish \in Finish
    BY <1>1, SaysIs DEF ChunkOk, DeltaOk
  <2> DEFINE x == a.text \o Says(c)
             y == MergeAll(a.tools, c.tools)
             z == IF c.finish # None THEN c.finish ELSE a.finish
  <2>2. x \in Seq(Token)
    BY <1>0, <2>1, ConcatProperties
  <2>3. y \in CallsOf
    BY <1>0, <2>1, MergeAllCalls
  <2>4. z \in Finish
    BY <1>0, <2>1
  <2>5. Aggregate(a, c) = [text |-> x, tools |-> y, finish |-> z]
    BY <1>1 DEF Aggregate
  <2> HIDE DEF x, y, z
  <2> DEFINE F == Finish
             S == Seq(Token)
             r == [text |-> x, tools |-> y, finish |-> z]
  <2>b. x \in S /\ y \in CallsOf /\ z \in F /\ Aggs = [text : S, tools : CallsOf, finish : F]
    BY <2>2, <2>3, <2>4 DEF Aggs
  <2> HIDE DEF F, S
  <2>c. r \in [text : S, tools : CallsOf, finish : F] /\ r.text = x /\ r.tools = y /\ r.finish = z
    BY <2>b
  <2> HIDE DEF r
  <2>6. /\ Aggregate(a, c) \in Aggs
        /\ Aggregate(a, c).text = x /\ Aggregate(a, c).tools = y /\ Aggregate(a, c).finish = z
    BY <2>5, <2>b, <2>c DEF r
  <2> QED BY <1>1, <2>6 DEF x, y, z
<1>2. CASE ~IsDelta(c)
  <2>1. Chars(c.bytes) \in Seq(Token)
    BY <1>2, CharsFacts DEF ChunkOk
  <2> DEFINE x == a.text \o Chars(c.bytes)
  <2>2. x \in Seq(Token)
    BY <1>0, <2>1, ConcatProperties
  <2>3. Aggregate(a, c) = [a EXCEPT !.text = x]
    BY <1>2 DEF Aggregate
  <2> HIDE DEF x
  <2>4. /\ Aggregate(a, c) \in Aggs /\ Aggregate(a, c).text = x
        /\ Aggregate(a, c).tools = a.tools /\ Aggregate(a, c).finish = a.finish
    BY <2>2, <2>3 DEF Aggs
  <2> QED BY <1>2, <2>4 DEF x
<1> QED BY <1>1, <1>2

Aggregating(E) == [a \in Aggs |-> [c \in E |-> Aggregate(a, c)]]

LEMMA AggregatingIs ==
  ASSUME NEW E, \A x \in E : ChunkOk(x)
  PROVE  /\ Aggregating(E) \in [Aggs -> [E -> Aggs]]
         /\ \A a \in Aggs, c \in E : Aggregating(E)[a][c] = Aggregate(a, c)
  BY AggregateIs DEF Aggregating

LEMMA NothingIs ==
  Nothing \in Aggs /\ Nothing.text = <<>> /\ Nothing.tools = <<>> /\ Nothing.finish = None
<1>1. <<>> \in Seq(Token) /\ <<>> \in CallsOf
  BY EmptySeq DEF CallsOf
<1>2. None \in Finish
  BY FinishIs
<1> QED BY <1>1, <1>2 DEF Nothing, Aggs

LEMMA AggregateAllIs ==
  ASSUME NEW E, \A x \in E : ChunkOk(x), NEW s \in Seq(E)
  PROVE  \E f \in [0 .. Len(s) -> Aggs] :
           AggregateAll(s) = f[Len(s)] /\ Along(f, Nothing, Aggregating(E), s)
<1> DEFINE n == Len(s)
           Rec(f) == f = [k \in 0 .. Len(s) |->
                            IF k = 0 THEN Nothing ELSE Aggregate(f[k - 1], s[k])]
           F == CHOOSE f : Rec(f)
<1>0. n \in Nat /\ \A k \in 1 .. n : s[k] \in E
  BY LenProperties, ElementOfSeq
<1>1. AggregateAll(s) = F[n]
  BY DEF AggregateAll
<1>2. \E f : Rec(f)
  <2>1. PICK g \in [0 .. n -> Aggs] : Along(g, Nothing, Aggregating(E), s)
    BY AggregatingIs, NothingIs, Recursion
  <2>2. \A k \in 0 .. n : g[k] = IF k = 0 THEN Nothing ELSE Aggregate(g[k - 1], s[k])
    <3> SUFFICES ASSUME NEW k \in 0 .. n, k # 0 PROVE g[k] = Aggregate(g[k - 1], s[k])
      BY <2>1 DEF Along
    <3>1. k \in 1 .. n /\ k - 1 \in 0 .. n
      BY <1>0
    <3>2. g[k - 1] \in Aggs /\ s[k] \in E /\ g[k] = Aggregating(E)[g[k - 1]][s[k]]
      BY <1>0, <2>1, <3>1 DEF Along
    <3> QED BY <3>2, AggregatingIs
  <2>3. g = [k \in 0 .. n |-> g[k]]
    BY <2>1
  <2>4. Rec(g)
    BY <2>2, <2>3
  <2> HIDE DEF Rec
  <2> QED BY <2>4
<1>3. Rec(F)
  BY <1>2
<1> HIDE DEF F
<1>4. /\ F[0] = Nothing /\ \A k \in 1 .. n : F[k] = Aggregate(F[k - 1], s[k])
      /\ F = [k \in 0 .. n |-> F[k]]
  <2>1. \A k \in 0 .. n : F[k] = IF k = 0 THEN Nothing ELSE Aggregate(F[k - 1], s[k])
    BY <1>3
  <2>2. F = [k \in 0 .. n |-> F[k]]
    BY <1>3
  <2>3. 0 \in 0 .. n /\ \A k \in 1 .. n : k \in 0 .. n /\ k # 0
    BY <1>0
  <2> HIDE DEF n, Rec
  <2> QED BY <2>1, <2>2, <2>3
<1> HIDE DEF n, Rec
<1>5. \A k \in 0 .. n : F[k] \in Aggs
  <2> DEFINE T == {k \in 0 .. n : F[k] \in Aggs}
  <2>1. 0 \in T
    <3>1. F[0] \in Aggs
      BY <1>4, NothingIs
    <3> QED BY <1>0, <3>1
  <2>2. ASSUME NEW k \in 1 .. n, k - 1 \in T PROVE k \in T
    <3>a. F[k - 1] \in Aggs
      BY <2>2
    <3>b. F[k] = Aggregate(F[k - 1], s[k])
      BY <1>4
    <3>c. s[k] \in E
      BY <1>0
    <3>d. k \in 0 .. n
      BY <1>0
    <3>1. F[k] = Aggregate(F[k - 1], s[k]) /\ F[k - 1] \in Aggs /\ s[k] \in E /\ k \in 0 .. n
      BY <3>a, <3>b, <3>c, <3>d
    <3>2. F[k] \in Aggs
      BY <3>1, AggregateIs
    <3> QED BY <3>1, <3>2
  <2>3. 0 .. n \subseteq T
    <3> HIDE DEF T
    <3> QED BY <1>0, <2>1, <2>2, UpTo
  <2> QED BY <2>3
<1>6. F \in [0 .. n -> Aggs]
  BY <1>4, <1>5
<1>7. Along(F, Nothing, Aggregating(E), s)
  <2>1. ASSUME NEW k \in 1 .. n PROVE F[k] = Aggregating(E)[F[k - 1]][s[k]]
    <3>1. k - 1 \in 0 .. n
      BY <1>0
    <3>2. F[k - 1] \in Aggs /\ s[k] \in E
      BY <1>0, <1>5, <3>1
    <3>3. F[k] = Aggregate(F[k - 1], s[k])
      BY <1>4
    <3>4. Aggregating(E)[F[k - 1]][s[k]] = Aggregate(F[k - 1], s[k])
      BY <3>2, AggregatingIs
    <3> QED BY <3>3, <3>4
  <2>2. F[0] = Nothing
    BY <1>4
  <2> QED BY <2>1, <2>2 DEF Along, n
<1> QED BY <1>1, <1>6, <1>7 DEF n

LEMMA AggregateAllAppend ==
  ASSUME NEW E, \A x \in E : ChunkOk(x)
  PROVE  /\ AggregateAll(<<>>) = Nothing
         /\ \A s \in Seq(E) : AggregateAll(s) \in Aggs
         /\ \A s \in Seq(E), x \in E :
              AggregateAll(Append(s, x)) = Aggregate(AggregateAll(s), x)
<1>1. ASSUME NEW s \in Seq(E) PROVE AggregateAll(s) \in Aggs
  <2>1. PICK f \in [0 .. Len(s) -> Aggs] : AggregateAll(s) = f[Len(s)]
    BY AggregateAllIs
  <2>2. Len(s) \in 0 .. Len(s)
    BY LenProperties
  <2> QED BY <2>1, <2>2
<1>2. ASSUME NEW s \in Seq(E), NEW x \in E
      PROVE  AggregateAll(Append(s, x)) = Aggregate(AggregateAll(s), x)
  <2> DEFINE t == Append(s, x)
  <2>0. t \in Seq(E)
    BY AppendProperties
  <2>1. PICK f \in [0 .. Len(s) -> Aggs] :
          AggregateAll(s) = f[Len(s)] /\ Along(f, Nothing, Aggregating(E), s)
    BY AggregateAllIs
  <2> HIDE DEF t
  <2>2. PICK g \in [0 .. Len(t) -> Aggs] :
          AggregateAll(t) = g[Len(t)] /\ Along(g, Nothing, Aggregating(E), t)
    BY <2>0, AggregateAllIs
  <2>3. g[Len(t)] = Aggregating(E)[f[Len(s)]][x]
    BY <2>1, <2>2, AlongAppend DEF t
  <2>4. AggregateAll(s) \in Aggs
    BY <1>1
  <2> QED BY <2>1, <2>2, <2>3, <2>4, AggregatingIs DEF t
<1>3. AggregateAll(<<>>) = Nothing
  <2> DEFINE e == <<>>
  <2>0. e \in Seq(E) /\ Len(e) = 0
    BY EmptySeq
  <2> HIDE DEF e
  <2>1. PICK f \in [0 .. Len(e) -> Aggs] :
          AggregateAll(e) = f[Len(e)] /\ Along(f, Nothing, Aggregating(E), e)
    BY <2>0, AggregateAllIs
  <2>2. AggregateAll(e) = Nothing
    BY <2>0, <2>1 DEF Along
  <2> QED BY <2>2 DEF e
<1> QED BY <1>1, <1>2, <1>3

LEMMA EmptyJoin ==
  ASSUME NEW S, NEW a \in Seq(S), NEW b \in Seq(S), a \o b = <<>>
  PROVE  a = <<>> /\ b = <<>>
<1>1. Len(a \o b) = Len(a) + Len(b) /\ Len(a) \in Nat /\ Len(b) \in Nat
  BY ConcatProperties, LenProperties
<1>2. Len(a \o b) = 0
  BY EmptySeq
<1>3. Len(a) = 0 /\ Len(b) = 0
  BY <1>1, <1>2
<1> QED BY <1>3, EmptySeq

LEMMA FinishingAppend ==
  ASSUME NEW s, IsSeq(s), NEW x
  PROVE  Finishing(Append(s, x))
           = Finishing(s) \cup (IF IsDelta(x) /\ x.finish # None THEN {Len(s) + 1} ELSE {})
<1> DEFINE t == Append(s, x)
           n == Len(s)
<1>1. /\ n \in Nat /\ DOMAIN s = 1 .. n /\ DOMAIN t = 1 .. n + 1
      /\ (\A k \in 1 .. n : t[k] = s[k]) /\ t[n + 1] = x
  BY SeqIs, AppendIs
<1> HIDE DEF t, n
<1>2. \A k : k \in 1 .. n + 1 <=> k \in 1 .. n \/ k = n + 1
  BY <1>1
<1>3. ASSUME NEW k
      PROVE  k \in Finishing(t)
               <=> k \in Finishing(s) \/ (k = n + 1 /\ IsDelta(x) /\ x.finish # None)
  <2>1. CASE k \in 1 .. n
    <3>1. k # n + 1 /\ k \in 1 .. n + 1 /\ t[k] = s[k]
      BY <1>1, <1>2, <2>1
    <3> QED BY <1>1, <2>1, <3>1 DEF Finishing
  <2>2. CASE k = n + 1
    <3>1. k \notin 1 .. n /\ k \in 1 .. n + 1 /\ t[k] = x
      BY <1>1, <2>2
    <3> QED BY <1>1, <2>2, <3>1 DEF Finishing
  <2>3. CASE ~(k \in 1 .. n + 1)
    BY <1>1, <1>2, <2>3 DEF Finishing
  <2> QED BY <1>2, <2>1, <2>2, <2>3
<1> QED BY <1>3 DEF t, n

LEMMA FragmentsAppend ==
  ASSUME NEW s, IsSeq(s), NEW x
  PROVE  Fragments(Append(s, x)) = Fragments(s) \cup (IF IsDelta(x) THEN Range(x.tools) ELSE {})
<1> DEFINE t == Append(s, x)
           n == Len(s)
<1>1. /\ n \in Nat /\ DOMAIN s = 1 .. n /\ DOMAIN t = 1 .. n + 1
      /\ (\A k \in 1 .. n : t[k] = s[k]) /\ t[n + 1] = x
  BY SeqIs, AppendIs
<1> HIDE DEF t, n
<1>2. \A k : k \in 1 .. n + 1 <=> k \in 1 .. n \/ k = n + 1
  BY <1>1
<1>3. ASSUME NEW f PROVE f \in Fragments(s) <=> \E k \in 1 .. n : IsDelta(s[k]) /\ f \in Range(s[k].tools)
  BY <1>1 DEF Fragments
<1>4. ASSUME NEW f PROVE f \in Fragments(t) <=> \E k \in 1 .. n + 1 : IsDelta(t[k]) /\ f \in Range(t[k].tools)
  BY <1>1 DEF Fragments
<1>5. ASSUME NEW f
      PROVE  f \in Fragments(t) <=> f \in Fragments(s) \/ (IsDelta(x) /\ f \in Range(x.tools))
  BY <1>1, <1>2, <1>3, <1>4
<1> QED BY <1>5 DEF t

LEMMA IndicesAppend ==
  ASSUME NEW s, IsSeq(s), NEW x
  PROVE  /\ \A i \in Indices(Append(s, x)) :
              i \in Indices(s) \/ (IsDelta(x) /\ \E f \in Range(x.tools) : i = f.index)
         /\ AllIndexed(Append(s, x)) => AllIndexed(s) /\ (IsDelta(x) => Labelled(x.tools))
  BY FragmentsAppend DEF Indices, AllIndexed, Labelled

\* What is in the arguments of a call comes from a fragment with its index.
LEMMA ArgsRange ==
  ASSUME NEW i, NEW tools \in Seq(Fragment)
  PROVE  \A a : a \in Range(Args(tools, i)) <=> \E f \in Range(tools) : f.index = i /\ f.arg = a
<1> DEFINE Good(s) ==
             \A a : a \in Range(Args(s, i)) <=> \E f \in Range(s) : f.index = i /\ f.arg = a
           T == {s \in Seq(Fragment) : Good(s)}
<1>1. <<>> \in T
  <2>1. <<>> \in Seq(Fragment) /\ Args(<<>>, i) = <<>> /\ Range(<<>>) = {}
    BY EmptySeq, NoItems DEF Range
  <2> QED BY <2>1
<1>2. ASSUME NEW s \in Seq(Fragment), NEW x \in Fragment, s \in T PROVE Append(s, x) \in T
  <2> DEFINE t == Append(s, x)
             p == Args(s, i)
             q == ArgOf(i)[x]
  <2>1. t \in Seq(Fragment) /\ Args(t, i) = p \o q /\ p \in Seq(Token) /\ q \in Seq(Token)
    BY AppendProperties, ArgsFacts, ArgsAre DEF Maps
  <2>2. Range(t) = Range(s) \cup {x}
    <3>1. IsSeq(s)
      BY SeqOfRange DEF IsSeq
    <3> QED BY <3>1, RangeAppend
  <2>3. Range(q) = IF x.index = i THEN {x.arg} ELSE {}
    <3>1. q = IF x.index = i THEN <<x.arg>> ELSE <<>>
      BY DEF ArgOf
    <3> DEFINE one == <<x.arg>>
    <3>2. DOMAIN one = {1} /\ one[1] = x.arg
      OBVIOUS
    <3> HIDE DEF q, one
    <3>3. Range(one) = {x.arg} /\ Range(<<>>) = {}
      BY <3>2 DEF Range
    <3> QED BY <3>1, <3>3 DEF one
  <2>4. Good(s)
    BY <1>2
  <2> HIDE DEF t, p, q
  <2>5. Range(Args(t, i)) = Range(p) \cup Range(q)
    BY <2>1, RangeConcatenation
  <2>6. Good(t)
    BY <2>2, <2>3, <2>4, <2>5 DEF p
  <2> QED BY <2>1, <2>6 DEF t
<1>3. Seq(Fragment) \subseteq T
  <2> HIDE DEF T
  <2> QED BY <1>1, <1>2, SeqInduction
<1> QED BY <1>3

LEMMA ArgsOfRange ==
  ASSUME NEW i, NEW s, Items(s)
  PROVE  \A a : a \in Range(ArgsOf(s, i)) <=> \E f \in Fragments(s) : f.index = i /\ f.arg = a
<1> DEFINE E == Range(s)
           Good(r) ==
             \A a : a \in Range(ArgsOf(r, i)) <=> \E f \in Fragments(r) : f.index = i /\ f.arg = a
           T == {r \in Seq(E) : Good(r)}
<1>0. s \in Seq(E) /\ \A x \in E : ItemOk(x)
  BY DEF Items, IsSeq, Range
<1> HIDE DEF E
<1>a. ASSUME NEW r \in Seq(E) PROVE Items(r)
  <2>1. \A k \in 1 .. Len(r) : r[k] \in E
    BY ElementOfSeq
  <2>2. IsSeq(r) /\ DOMAIN r = 1 .. Len(r)
    BY SeqOfRange, LenProperties DEF IsSeq
  <2> QED BY <1>0, <2>1, <2>2 DEF Items
<1>1. <<>> \in T
  <2>1. <<>> \in Seq(E) /\ ArgsOf(<<>>, i) = <<>> /\ Range(<<>>) = {} /\ Fragments(<<>>) = {}
    BY EmptySeq, NoItems DEF Range, Fragments
  <2> QED BY <2>1
<1>2. ASSUME NEW r \in Seq(E), NEW x \in E, r \in T PROVE Append(r, x) \in T
  <2> DEFINE t == Append(r, x)
             p == ArgsOf(r, i)
             q == IF IsDelta(x) THEN Args(x.tools, i) ELSE <<>>
  <2>0. Items(r) /\ ItemOk(x) /\ IsSeq(r) /\ t \in Seq(E)
    BY <1>0, <1>a, AppendProperties DEF Items
  <2>1. ArgsOf(t, i) = p \o q /\ p \in Seq(Token)
    BY <2>0, ItemsAppend
  <2>2. Fragments(t) = Fragments(r) \cup (IF IsDelta(x) THEN Range(x.tools) ELSE {})
    BY <2>0, FragmentsAppend
  <2>3. /\ q \in Seq(Token)
        /\ \A a : a \in Range(q)
                    <=> IsDelta(x) /\ \E f \in Range(x.tools) : f.index = i /\ f.arg = a
    <3>1. CASE IsDelta(x)
      <4> DEFINE tools == x.tools
      <4>1. tools \in Seq(Fragment) /\ q = Args(tools, i)
        BY <2>0, <3>1 DEF ItemOk, DeltaOk
      <4> HIDE DEF tools, q
      <4>2. Args(tools, i) \in Seq(Token)
        BY <4>1, ArgsFacts, Zenon
      <4>3. ASSUME NEW a
            PROVE  a \in Range(Args(tools, i))
                     <=> \E f \in Range(tools) : f.index = i /\ f.arg = a
        <5>1. tools \in Seq(Fragment)
          BY <4>1
        <5> QED BY <5>1, ArgsRange
      <4> QED BY <3>1, <4>1, <4>2, <4>3 DEF tools
    <3>2. CASE ~IsDelta(x)
      <4> DEFINE e == <<>>
      <4>1. q = e
        BY <3>2
      <4>2. e \in Seq(Token) /\ Range(e) = {}
        BY EmptySeq DEF Range
      <4> HIDE DEF e, q
      <4> QED BY <3>2, <4>1, <4>2
    <3> QED BY <3>1, <3>2
  <2>4. Good(r)
    BY <1>2
  <2> HIDE DEF t, p, q
  <2>5. Range(ArgsOf(t, i)) = Range(p) \cup Range(q)
    BY <2>1, <2>3, RangeConcatenation
  <2>6. Good(t)
    BY <2>2, <2>3, <2>4, <2>5 DEF p
  <2> QED BY <2>0, <2>6 DEF t
<1>3. Seq(E) \subseteq T
  <2> HIDE DEF T
  <2> QED BY <1>1, <1>2, SeqInduction
<1> QED BY <1>0, <1>3

LEMMA OnlyTextAppend ==
  ASSUME NEW s, IsSeq(s), NEW x
  PROVE  OnlyText(Append(s, x)) <=> OnlyText(s) /\ ~IsDelta(x)
<1> DEFINE t == Append(s, x)
           n == Len(s)
<1>1. /\ n \in Nat /\ DOMAIN s = 1 .. n /\ DOMAIN t = 1 .. n + 1
      /\ (\A k \in 1 .. n : t[k] = s[k]) /\ t[n + 1] = x
  BY SeqIs, AppendIs
<1> HIDE DEF t, n
<1>2. \A k : k \in 1 .. n + 1 <=> k \in 1 .. n \/ k = n + 1
  BY <1>1
<1>3. OnlyText(t) <=> OnlyText(s) /\ ~IsDelta(x)
  BY <1>1, <1>2 DEF OnlyText
<1> QED BY <1>3 DEF t


\* What an answer's aggregate has of the chunks.
Gathered(agg, s) ==
  /\ OnlyText(s) => agg.text = Chars(Bytes(s))
  /\ Bytes(s) = <<>> => agg.text = TextOf(s)
  /\ \A f \in Fragments(s) : Holds(agg.tools, f.arg)
  /\ AllIndexed(s) =>
       /\ \A i \in Nat : Call(agg.tools, i) = ArgsOf(s, i)
       /\ \A i \in Indices(s) : i + 1 \in DOMAIN agg.tools
  /\ IF Finishing(s) = {} THEN agg.finish = None
     ELSE \E m \in Finishing(s) : agg.finish = s[m].finish

LEMMA GatheredAppend ==
  ASSUME NEW agg \in Aggs, NEW s, Chunks(s), Gathered(agg, s), NEW x, ChunkOk(x)
  PROVE  Gathered(Aggregate(agg, x), Append(s, x))
<1> DEFINE t == Append(s, x)
           b == Aggregate(agg, x)
           w == IF IsDelta(x) THEN <<>> ELSE x.bytes
<1>0. IsSeq(s) /\ Items(s) /\ ItemOk(x)
  BY ChunksAreItems DEF Chunks, ChunkOk, ItemOk
<1>1. /\ Bytes(s) \in Seq(Byte) /\ Bytes(t) = Bytes(s) \o w /\ w \in Seq(Byte)
  BY BytesAppend, EmptySeq DEF ChunkOk
<1>2. /\ TextOf(s) \in Seq(Token)
      /\ TextOf(t) = TextOf(s) \o (IF IsDelta(x) THEN Says(x) ELSE <<>>)
      /\ \A i : /\ ArgsOf(s, i) \in Seq(Token)
                /\ ArgsOf(t, i) = ArgsOf(s, i) \o (IF IsDelta(x) THEN Args(x.tools, i) ELSE <<>>)
  BY <1>0, ItemsAppend
<1>3. /\ b \in Aggs
      /\ b.text = agg.text \o (IF IsDelta(x) THEN Says(x) ELSE Chars(x.bytes))
      /\ b.tools = (IF IsDelta(x) THEN MergeAll(agg.tools, x.tools) ELSE agg.tools)
      /\ b.finish = (IF IsDelta(x) /\ x.finish # None THEN x.finish ELSE agg.finish)
  BY AggregateIs
<1>4. agg.text \in Seq(Token) /\ agg.tools \in CallsOf
  BY DEF Aggs
<1>5. OnlyText(t) <=> OnlyText(s) /\ ~IsDelta(x)
  BY <1>0, OnlyTextAppend
<1>6. Finishing(t)
        = Finishing(s) \cup (IF IsDelta(x) /\ x.finish # None THEN {Len(s) + 1} ELSE {})
  BY <1>0, FinishingAppend
<1>7. /\ Len(s) \in Nat /\ DOMAIN s = 1 .. Len(s)
      /\ (\A k \in 1 .. Len(s) : t[k] = s[k]) /\ t[Len(s) + 1] = x
  BY <1>0, AppendIs, SeqIs
<1>8. /\ \A i \in Indices(t) :
           i \in Indices(s) \/ (IsDelta(x) /\ \E f \in Range(x.tools) : i = f.index)
      /\ AllIndexed(t) => AllIndexed(s) /\ (IsDelta(x) => Labelled(x.tools))
      /\ Fragments(t) = Fragments(s) \cup (IF IsDelta(x) THEN Range(x.tools) ELSE {})
  BY <1>0, IndicesAppend, FragmentsAppend
<1>9. IsDelta(x) => x.tools \in Seq(Fragment)
  BY DEF ChunkOk, DeltaOk
<1> HIDE DEF t, b
<1>a. ASSUME OnlyText(t) PROVE b.text = Chars(Bytes(t))
  <2>1. agg.text = Chars(Bytes(s)) /\ b.text = agg.text \o Chars(w)
    BY <1>3, <1>5, <1>a DEF Gathered
  <2>2. Chars(Bytes(s) \o w) = Chars(Bytes(s)) \o Chars(w)
    <3> HIDE DEF w
    <3> QED BY <1>1, CharsFacts
  <2> QED BY <1>1, <2>1, <2>2
<1>b. ASSUME Bytes(t) = <<>> PROVE b.text = TextOf(t)
  <2>1. Bytes(s) = <<>> /\ w = <<>>
    <3> HIDE DEF w
    <3> QED BY <1>1, <1>b, EmptyJoin
  <2>2. agg.text = TextOf(s)
    BY <2>1 DEF Gathered
  <2>3. CASE IsDelta(x)
    BY <1>2, <1>3, <2>2, <2>3
  <2>4. CASE ~IsDelta(x)
    <3>1. Chars(x.bytes) = <<>>
      BY <2>1, <2>4, NoItems
    <3> QED BY <1>2, <1>3, <2>2, <2>4, <3>1
  <2> QED BY <2>3, <2>4
<1>f. ASSUME NEW f \in Fragments(t) PROVE Holds(b.tools, f.arg)
  <2>1. f \in Fragments(s) => Holds(agg.tools, f.arg)
    BY DEF Gathered
  <2>2. CASE IsDelta(x)
    BY <1>3, <1>4, <1>8, <1>9, <2>1, <2>2, MergeAllCalls
  <2>3. CASE ~IsDelta(x)
    BY <1>3, <1>8, <2>1, <2>3
  <2> QED BY <2>2, <2>3
<1>c. ASSUME AllIndexed(t), NEW i \in Nat PROVE Call(b.tools, i) = ArgsOf(t, i)
  <2>1. Call(agg.tools, i) = ArgsOf(s, i)
    BY <1>8, <1>c DEF Gathered
  <2>2. CASE IsDelta(x)
    <3>1. Call(b.tools, i) = Call(agg.tools, i) \o Args(x.tools, i)
      <4> DEFINE calls == agg.tools
                 tools == x.tools
      <4>1. /\ calls \in CallsOf /\ tools \in Seq(Fragment) /\ Labelled(tools)
            /\ b.tools = MergeAll(calls, tools)
        BY <1>3, <1>4, <1>8, <1>9, <1>c, <2>2
      <4> HIDE DEF calls, tools
      <4>2. Call(b.tools, i) = Call(calls, i) \o Args(tools, i)
        BY <4>1, MergeAllCalls
      <4> QED BY <4>2 DEF calls, tools
    <3> QED BY <1>2, <2>1, <2>2, <3>1
  <2>3. CASE ~IsDelta(x)
    <3>1. ArgsOf(t, i) = ArgsOf(s, i)
      BY <1>2, <2>3, ConcatEmptySeq
    <3> QED BY <1>3, <2>1, <2>3, <3>1
  <2> QED BY <2>2, <2>3
<1>d. ASSUME AllIndexed(t), NEW i \in Indices(t) PROVE i + 1 \in DOMAIN b.tools
  <2>1. CASE i \in Indices(s) /\ ~IsDelta(x)
    BY <1>3, <1>8, <1>d, <2>1 DEF Gathered
  <2>2. CASE i \in Indices(s) /\ IsDelta(x)
    <3> DEFINE calls == agg.tools
    <3>0. calls \in CallsOf /\ i + 1 \in DOMAIN calls
      BY <1>4, <1>8, <1>d, <2>2 DEF Gathered
    <3> HIDE DEF calls
    <3>1. Len(calls) <= Len(b.tools) /\ b.tools \in CallsOf
      BY <1>3, <1>9, <2>2, <3>0, MergeAllCalls DEF calls
    <3>2. /\ Len(calls) \in Nat /\ DOMAIN calls = 1 .. Len(calls)
          /\ Len(b.tools) \in Nat /\ DOMAIN b.tools = 1 .. Len(b.tools)
      BY <3>0, <3>1, LenProperties DEF CallsOf
    <3> QED BY <3>0, <3>1, <3>2
  <2>3. CASE IsDelta(x) /\ \E f \in Range(x.tools) : i = f.index
    BY <1>3, <1>4, <1>8, <1>9, <1>d, <2>3, MergeAllCalls
  <2> QED BY <1>8, <2>1, <2>2, <2>3
<1>e. IF Finishing(t) = {} THEN b.finish = None
      ELSE \E m \in Finishing(t) : b.finish = t[m].finish
  <2>1. CASE IsDelta(x) /\ x.finish # None
    <3>1. Len(s) + 1 \in Finishing(t) /\ b.finish = t[Len(s) + 1].finish
      BY <1>3, <1>6, <1>7, <2>1
    <3> QED BY <3>1
  <2>2. CASE ~(IsDelta(x) /\ x.finish # None)
    <3>1. Finishing(t) = Finishing(s) /\ b.finish = agg.finish
      BY <1>3, <1>6, <2>2
    <3>2. \A m \in Finishing(s) : t[m] = s[m]
      BY <1>7 DEF Finishing
    <3> QED BY <3>1, <3>2 DEF Gathered
  <2> QED BY <2>1, <2>2
<1> QED BY <1>a, <1>b, <1>c, <1>d, <1>e, <1>f DEF Gathered, t, b

LEMMA AggregateAllGathers ==
  ASSUME NEW s, Chunks(s)
  PROVE  AggregateAll(s) \in Aggs /\ Gathered(AggregateAll(s), s)
<1> DEFINE E == Range(s)
           T == {t \in Seq(E) : Gathered(AggregateAll(t), t)}
<1>0. s \in Seq(E) /\ \A x \in E : ChunkOk(x)
  BY DEF Chunks, IsSeq, Range
<1> HIDE DEF E
<1>a. ASSUME NEW t \in Seq(E) PROVE Chunks(t)
  <2>1. \A k \in 1 .. Len(t) : t[k] \in E
    BY ElementOfSeq
  <2>2. IsSeq(t) /\ DOMAIN t = 1 .. Len(t)
    BY SeqOfRange, LenProperties DEF IsSeq
  <2> QED BY <1>0, <2>1, <2>2 DEF Chunks
<1>1. <<>> \in T
  <2>1. AggregateAll(<<>>) = Nothing
    BY <1>0, AggregateAllAppend
  <2>2. Finishing(<<>>) = {} /\ Fragments(<<>>) = {} /\ Indices(<<>>) = {}
    BY DEF Finishing, Fragments, Indices
  <2>3. \A i \in Nat : Call(<<>>, i) = <<>>
    BY DEF Call
  <2>4. Gathered(Nothing, <<>>)
    BY <2>2, <2>3, NothingIs, NoItems DEF Gathered
  <2> QED BY <2>1, <2>4, EmptySeq
<1>2. ASSUME NEW t \in Seq(E), NEW x \in E, t \in T PROVE Append(t, x) \in T
  <2>1. AggregateAll(t) \in Aggs /\ AggregateAll(Append(t, x)) = Aggregate(AggregateAll(t), x)
    BY <1>0, AggregateAllAppend
  <2>2. Chunks(t) /\ ChunkOk(x) /\ Gathered(AggregateAll(t), t)
    BY <1>0, <1>2, <1>a
  <2>3. Gathered(AggregateAll(Append(t, x)), Append(t, x))
    BY <2>1, <2>2, GatheredAppend
  <2> QED BY <2>3, AppendProperties
<1>3. Seq(E) \subseteq T
  <2> HIDE DEF T
  <2> QED BY <1>1, <1>2, SeqInduction
<1>4. AggregateAll(s) \in Aggs
  BY <1>0, AggregateAllAppend
<1> QED BY <1>0, <1>3, <1>4

-----------------------------------------------------------------------------
(***************************************************************************)
(* Characters and the accumulator.                                         *)
(***************************************************************************)

\* Whole characters after whole characters.
LEMMA WholeJoin ==
  ASSUME NEW S, NEW a \in Seq(S), NEW b \in Seq(S), Whole(a), Whole(b)
  PROVE  Whole(a \o b)
<1> DEFINE s == a \o b
           m == Len(a)
           n == Len(b)
<1>1. /\ m \in Nat /\ n \in Nat /\ Len(s) = m + n /\ DOMAIN s = 1 .. m + n
      /\ DOMAIN a = 1 .. m /\ DOMAIN b = 1 .. n
      /\ \A k \in 1 .. m + n : s[k] = IF k <= m THEN a[k] ELSE b[k - m]
  BY ConcatProperties, LenProperties
<1> HIDE DEF s, m, n
<1>2. \A k \in 1 .. m : s[k] = a[k]
  BY <1>1
<1>3. \A j \in 1 .. n : s[m + j] = b[j]
  <2> SUFFICES ASSUME NEW j \in 1 .. n PROVE s[m + j] = b[j]
    OBVIOUS
  <2> DEFINE k == m + j
  <2>1. k \in 1 .. m + n /\ ~(k <= m) /\ k - m = j
    BY <1>1
  <2> HIDE DEF k
  <2>2. s[k] = b[k - m]
    BY <1>1, <2>1
  <2> QED BY <2>1, <2>2 DEF k
<1>4. ASSUME NEW k \in 1 .. m + n
      PROVE  /\ s[k].i \in 1 .. s[k].n
             /\ IF s[k].i = 1 THEN TRUE ELSE k > 1 /\ s[k - 1] = [s[k] EXCEPT !.i = @ - 1]
             /\ s[k].i < s[k].n => k < m + n /\ s[k + 1] = [s[k] EXCEPT !.i = @ + 1]
  <2>1. CASE k \in 1 .. m
    <3> DEFINE x == a[k]
    <3>1. /\ x.i \in 1 .. x.n
          /\ IF x.i = 1 THEN TRUE ELSE k > 1 /\ a[k - 1] = [x EXCEPT !.i = @ - 1]
          /\ x.i < x.n => k < m /\ a[k + 1] = [x EXCEPT !.i = @ + 1]
      BY <1>1, <2>1 DEF Whole, m
    <3>2. s[k] = x
      BY <1>2, <2>1
    <3> HIDE DEF x
    <3>3. k > 1 => s[k - 1] = a[k - 1]
      BY <1>1, <1>2, <2>1
    <3>4. k < m => s[k + 1] = a[k + 1] /\ k < m + n
      BY <1>1, <1>2, <2>1
    <3> QED BY <3>1, <3>2, <3>3, <3>4
  <2>2. CASE ~(k \in 1 .. m)
    <3> DEFINE j == k - m
    <3>0. j \in 1 .. n /\ k = m + j
      BY <1>1, <2>2
    <3> HIDE DEF j
    <3> DEFINE x == b[j]
    <3>1. /\ x.i \in 1 .. x.n
          /\ IF x.i = 1 THEN TRUE ELSE j > 1 /\ b[j - 1] = [x EXCEPT !.i = @ - 1]
          /\ x.i < x.n => j < n /\ b[j + 1] = [x EXCEPT !.i = @ + 1]
      BY <1>1, <3>0 DEF Whole, n
    <3>2. s[k] = x
      BY <1>3, <3>0
    <3> HIDE DEF x
    <3>3. j > 1 => k > 1 /\ s[k - 1] = b[j - 1]
      <4> SUFFICES ASSUME j > 1 PROVE k > 1 /\ s[k - 1] = b[j - 1]
        OBVIOUS
      <4> DEFINE p == j - 1
      <4>1. p \in 1 .. n /\ m + p = k - 1 /\ k > 1
        BY <1>1, <3>0
      <4>2. s[m + p] = b[p]
        <5> HIDE DEF p
        <5> QED BY <1>3, <4>1
      <4> QED BY <4>1, <4>2
    <3>4. j < n => k < m + n /\ s[k + 1] = b[j + 1]
      <4> SUFFICES ASSUME j < n PROVE k < m + n /\ s[k + 1] = b[j + 1]
        OBVIOUS
      <4> DEFINE p == j + 1
      <4>1. p \in 1 .. n /\ m + p = k + 1 /\ k < m + n
        BY <1>1, <3>0
      <4>2. s[m + p] = b[p]
        <5> HIDE DEF p
        <5> QED BY <1>3, <4>1
      <4> QED BY <4>1, <4>2
    <3> QED BY <3>1, <3>2, <3>3, <3>4
  <2> QED BY <2>1, <2>2
<1>5. Whole(s)
  BY <1>1, <1>4 DEF Whole
<1> QED BY <1>5 DEF s

LEMMA WholeEmpty == Whole(<<>>)
  BY DEF Whole

\* There is a longest prefix of whole characters, and valid_up_to is its length.
LEMMA ValidUpToIs ==
  ASSUME NEW s \in Seq(Byte)
  PROVE  /\ SubSeq(s, 1, ValidUpTo(s)) \in Seq(Byte) /\ Rest(s) \in Seq(Byte)
         /\ Whole(SubSeq(s, 1, ValidUpTo(s)))
         /\ SubSeq(s, 1, ValidUpTo(s)) \o Rest(s) = s
<1> DEFINE n == Len(s)
           W(k) == Whole(SubSeq(s, 1, k))
           Longest(k) == W(k) /\ \A m \in k + 1 .. n : ~W(m)
           T == {d \in 0 .. n : W(n - d)}
           v == ValidUpTo(s)
<1>0. n \in Nat
  BY LenProperties
<1>1. W(0)
  <2>1. SubSeq(s, 1, 0) = <<>>
    BY SubSeqEmpty
  <2> QED BY <2>1, WholeEmpty
<1>a. v = CHOOSE k \in 0 .. n : Longest(k)
  BY DEF ValidUpTo
<1> HIDE DEF n, W, v
<1>2. n \in T
  BY <1>0, <1>1
<1>3. PICK d \in T : \A e \in T : d <= e
  <2>1. T \in SUBSET Nat /\ T # {}
    <3>1. T \in SUBSET Nat
      BY <1>0
    <3> HIDE DEF T
    <3> QED BY <1>2, <3>1
  <2> HIDE DEF T
  <2> QED BY <2>1, LeastNat
<1>4. n - d \in 0 .. n /\ Longest(n - d)
  <2>0. d \in 0 .. n /\ W(n - d)
    BY <1>3
  <2>1. ASSUME NEW m \in (n - d) + 1 .. n, W(m) PROVE FALSE
    <3>1. n - m \in 0 .. n /\ n - (n - m) = m /\ ~(d <= n - m)
      BY <1>0, <2>0, <2>1
    <3>2. n - m \in T
      BY <2>1, <3>1
    <3> QED BY <1>3, <3>1, <3>2
  <2> QED BY <1>0, <2>0, <2>1
<1> HIDE DEF Longest
<1>5. v \in 0 .. n /\ Longest(v)
  BY <1>4, <1>a
<1>6. Whole(SubSeq(s, 1, v))
  BY <1>5 DEF Longest, W
<1>7. /\ SubSeq(s, 1, v) \in Seq(Byte) /\ SubSeq(s, v + 1, n) \in Seq(Byte)
      /\ SubSeq(s, 1, v) \o SubSeq(s, v + 1, n) = s
  <2> DEFINE a == SubSeq(s, 1, v)
             b == SubSeq(s, v + 1, n)
  <2>0. v \in Nat /\ v <= n /\ n = Len(s)
    BY <1>0, <1>5 DEF n
  <2>1. a \in Seq(Byte) /\ Len(a) = v /\ \A k \in 1 .. v : a[k] = s[k]
    BY <2>0, <1>0, SubSeqProperties
  <2>2. b \in Seq(Byte) /\ Len(b) = n - v /\ \A k \in 1 .. n - v : b[k] = s[v + k]
    <3>1. Len(b) = n - v /\ b \in Seq(Byte)
      BY <2>0, <1>0, SubSeqProperties
    <3>2. ASSUME NEW k \in 1 .. n - v PROVE b[k] = s[v + k]
      <4>1. b[k] = s[(v + 1) + k - 1]
        BY <2>0, <1>0, <3>1, SubSeqProperties
      <4>2. (v + 1) + k - 1 = v + k
        BY <2>0, <1>0
      <4> QED BY <4>1, <4>2
    <3> QED BY <3>1, <3>2
  <2> HIDE DEF a, b
  <2>3. /\ a \o b \in Seq(Byte) /\ Len(a \o b) = n
        /\ \A k \in 1 .. n : (a \o b)[k] = IF k <= v THEN a[k] ELSE b[k - v]
    <3>1. /\ a \o b \in Seq(Byte) /\ Len(a \o b) = Len(a) + Len(b)
          /\ \A k \in 1 .. Len(a) + Len(b) :
               (a \o b)[k] = IF k <= Len(a) THEN a[k] ELSE b[k - Len(a)]
      <4>1. a \in Seq(Byte) /\ b \in Seq(Byte)
        BY <2>1, <2>2
      <4> QED BY <4>1, ConcatProperties
    <3>2. Len(a) + Len(b) = n /\ Len(a) = v
      BY <1>0, <2>0, <2>1, <2>2
    <3> QED BY <3>1, <3>2
  <2>4. ASSUME NEW k \in 1 .. n PROVE (a \o b)[k] = s[k]
    <3>1. CASE k <= v
      BY <2>0, <2>1, <2>3, <3>1
    <3>2. CASE ~(k <= v)
      <4>1. k - v \in 1 .. n - v /\ v + (k - v) = k
        BY <1>0, <2>0, <3>2
      <4>2. (a \o b)[k] = b[k - v]
        BY <2>3, <3>2
      <4>3. b[k - v] = s[v + (k - v)]
        BY <2>2, <4>1
      <4> QED BY <4>1, <4>2, <4>3
    <3> QED BY <3>1, <3>2
  <2>5. a \o b = s
    BY <2>0, <2>3, <2>4, SeqEqual
  <2> QED BY <2>1, <2>2, <2>5 DEF a, b
<1> QED BY <1>6, <1>7 DEF v, n, Rest

\* Chunks of whole characters make up whole characters.
LEMMA WholeChunks ==
  ASSUME NEW s, Chunks(s), Aggregates(s)
  PROVE  Whole(Bytes(s))
<1> DEFINE Good(x) == IsDelta(x) \/ Whole(x.bytes)
           E == Range(s)
           T == {t \in Seq(E) : Whole(Bytes(t))}
<1>0. s \in Seq(E) /\ \A x \in E : ChunkOk(x) /\ Good(x)
  BY DEF Chunks, IsSeq, Range, Aggregates
<1> HIDE DEF E
<1>1. <<>> \in T
  BY NoItems, WholeEmpty, EmptySeq
<1>2. ASSUME NEW t \in Seq(E), NEW x \in E, t \in T PROVE Append(t, x) \in T
  <2> DEFINE w == IF IsDelta(x) THEN <<>> ELSE x.bytes
             b == Bytes(t)
  <2>1. b \in Seq(Byte) /\ Bytes(Append(t, x)) = b \o Raw(E)[x]
    BY <1>0, BytesFacts
  <2>2. Raw(E)[x] = w
    BY DEF Raw
  <2>3. w \in Seq(Byte) /\ Whole(w)
    BY <1>0, EmptySeq, WholeEmpty DEF ChunkOk
  <2>4. Whole(b)
    BY <1>2
  <2> HIDE DEF w, b
  <2>5. Whole(b \o w)
    BY <2>1, <2>3, <2>4, WholeJoin
  <2> QED BY <2>1, <2>2, <2>5, AppendProperties
<1>3. Seq(E) \subseteq T
  <2> HIDE DEF T
  <2> QED BY <1>1, <1>2, SeqInduction
<1> QED BY <1>0, <1>3

-----------------------------------------------------------------------------
(***************************************************************************)
(* What items say when they are written.                                   *)
(***************************************************************************)

\* An item that is no event says nothing.
LEMMA Mute ==
  ASSUME NEW s, Items(s), NEW x, ~IsDelta(x)
  PROVE  /\ Items(Append(s, x))
         /\ TextOf(Append(s, x)) = TextOf(s)
         /\ \A i : ArgsOf(Append(s, x), i) = ArgsOf(s, i)
         /\ Finishing(Append(s, x)) = Finishing(s)
<1>1. ItemOk(x) /\ IsSeq(s)
  BY DEF ItemOk, Items
<1>2. /\ Items(Append(s, x)) /\ TextOf(s) \in Seq(Token)
      /\ TextOf(Append(s, x)) = TextOf(s) \o (IF IsDelta(x) THEN Says(x) ELSE <<>>)
      /\ \A i : /\ ArgsOf(s, i) \in Seq(Token)
                /\ ArgsOf(Append(s, x), i)
                     = ArgsOf(s, i) \o (IF IsDelta(x) THEN Args(x.tools, i) ELSE <<>>)
  BY <1>1, ItemsAppend
<1>3. TextOf(Append(s, x)) = TextOf(s)
  BY <1>2, ConcatEmptySeq
<1>4. \A i : ArgsOf(Append(s, x), i) = ArgsOf(s, i)
  BY <1>2, ConcatEmptySeq
<1>5. Finishing(Append(s, x)) = Finishing(s)
  BY <1>1, FinishingAppend
<1> QED BY <1>2, <1>3, <1>4, <1>5

LEMMA EventIs ==
  ASSUME NEW text, NEW reasoning, NEW tools, NEW finish
  PROVE  /\ IsDelta(Event(text, reasoning, tools, finish))
         /\ Event(text, reasoning, tools, finish).text = text
         /\ Event(text, reasoning, tools, finish).reasoning = <<>>
         /\ Event(text, reasoning, tools, finish).reasoning_content = reasoning
         /\ Event(text, reasoning, tools, finish).tools = tools
         /\ Event(text, reasoning, tools, finish).finish = finish
  BY DEF Event, IsDelta

LEMMA ItemsType ==
  ASSUME NEW s, Items(s)
  PROVE  TextOf(s) \in Seq(Token) /\ \A i : ArgsOf(s, i) \in Seq(Token)
<1>1. ItemOk(Done)
  BY DEF Done, IsDelta, ItemOk
<1> QED BY <1>1, ItemsAppend

\* What an event says.
LEMMA Say ==
  ASSUME NEW s, Items(s), NEW x, IsDelta(x), DeltaOk(x)
  PROVE  /\ Items(Append(s, x))
         /\ TextOf(Append(s, x)) = TextOf(s) \o Says(x)
         /\ \A i : ArgsOf(Append(s, x), i) = ArgsOf(s, i) \o Args(x.tools, i)
         /\ Finishing(Append(s, x))
              = Finishing(s) \cup (IF x.finish # None THEN {Len(s) + 1} ELSE {})
<1>1. ItemOk(x) /\ IsSeq(s)
  BY DEF ItemOk, Items
<1>2. /\ Items(Append(s, x))
      /\ TextOf(Append(s, x)) = TextOf(s) \o (IF IsDelta(x) THEN Says(x) ELSE <<>>)
      /\ \A i : ArgsOf(Append(s, x), i)
                     = ArgsOf(s, i) \o (IF IsDelta(x) THEN Args(x.tools, i) ELSE <<>>)
  BY <1>1, ItemsAppend
<1>3. Finishing(Append(s, x))
         = Finishing(s) \cup (IF IsDelta(x) /\ x.finish # None THEN {Len(s) + 1} ELSE {})
  BY <1>1, FinishingAppend
<1> QED BY <1>2, <1>3

\* Events with a text, tool calls or a finish_reason only.
LEMMA SayText ==
  ASSUME NEW s, Items(s), NEW text \in Seq(Token), NEW x, x = Event(text, <<>>, <<>>, None)
  PROVE  /\ Items(Append(s, x)) /\ TextOf(Append(s, x)) = TextOf(s) \o text
         /\ \A i : ArgsOf(Append(s, x), i) = ArgsOf(s, i)
         /\ Finishing(Append(s, x)) = Finishing(s)
<1>1. /\ IsDelta(x) /\ x.text = text /\ x.tools = <<>> /\ x.finish = None
      /\ x.reasoning = <<>> /\ x.reasoning_content = <<>>
  BY EventIs
<1>2. DeltaOk(x)
  <2>1. x.finish \in Finish
    BY <1>1, FinishIs
  <2> QED BY <1>1, <2>1, EmptySeq DEF DeltaOk
<1>3. /\ Items(Append(s, x))
      /\ TextOf(Append(s, x)) = TextOf(s) \o Says(x)
      /\ \A i : ArgsOf(Append(s, x), i) = ArgsOf(s, i) \o Args(x.tools, i)
      /\ Finishing(Append(s, x))
           = Finishing(s) \cup (IF x.finish # None THEN {Len(s) + 1} ELSE {})
  BY <1>1, <1>2, Say
<1>4. Says(x) = text
  BY <1>1, ConcatEmptySeq DEF Says
<1>5. ASSUME NEW i PROVE ArgsOf(Append(s, x), i) = ArgsOf(s, i)
  <2>1. Args(x.tools, i) = <<>> /\ ArgsOf(s, i) \in Seq(Token)
    BY <1>1, NoItems, ItemsType
  <2> QED BY <1>3, <2>1, ConcatEmptySeq
<1> QED BY <1>1, <1>3, <1>4, <1>5

LEMMA SayTools ==
  ASSUME NEW s, Items(s), NEW tools \in Seq(Fragment), NEW x, x = Event(<<>>, <<>>, tools, None)
  PROVE  /\ Items(Append(s, x)) /\ TextOf(Append(s, x)) = TextOf(s)
         /\ \A i : ArgsOf(Append(s, x), i) = ArgsOf(s, i) \o Args(tools, i)
         /\ Finishing(Append(s, x)) = Finishing(s)
<1>1. /\ IsDelta(x) /\ x.text = <<>> /\ x.tools = tools /\ x.finish = None
      /\ x.reasoning = <<>> /\ x.reasoning_content = <<>>
  BY EventIs
<1>2. DeltaOk(x)
  <2>1. x.finish \in Finish
    BY <1>1, FinishIs
  <2> QED BY <1>1, <2>1, EmptySeq DEF DeltaOk
<1>3. /\ Items(Append(s, x))
      /\ TextOf(Append(s, x)) = TextOf(s) \o Says(x)
      /\ \A i : ArgsOf(Append(s, x), i) = ArgsOf(s, i) \o Args(x.tools, i)
      /\ Finishing(Append(s, x))
           = Finishing(s) \cup (IF x.finish # None THEN {Len(s) + 1} ELSE {})
  BY <1>1, <1>2, Say
<1>4. Says(x) = <<>>
  BY <1>1, EmptySeq, ConcatEmptySeq DEF Says
<1>5. TextOf(Append(s, x)) = TextOf(s)
  BY <1>3, <1>4, ItemsType, ConcatEmptySeq
<1> QED BY <1>1, <1>3, <1>5

LEMMA SayFinish ==
  ASSUME NEW s, Items(s), NEW finish \in Reasons, finish # None, NEW x,
         x = Event(<<>>, <<>>, <<>>, finish)
  PROVE  /\ Items(Append(s, x)) /\ TextOf(Append(s, x)) = TextOf(s)
         /\ \A i : ArgsOf(Append(s, x), i) = ArgsOf(s, i)
         /\ Finishing(Append(s, x)) = Finishing(s) \cup {Len(s) + 1}
         /\ x.finish = finish
<1>1. /\ IsDelta(x) /\ x.text = <<>> /\ x.tools = <<>> /\ x.finish = finish
      /\ x.reasoning = <<>> /\ x.reasoning_content = <<>>
  BY EventIs
<1>2. DeltaOk(x)
  <2>1. x.finish \in Finish
    BY <1>1, FinishIs
  <2> QED BY <1>1, <2>1, EmptySeq DEF DeltaOk
<1>3. /\ Items(Append(s, x))
      /\ TextOf(Append(s, x)) = TextOf(s) \o Says(x)
      /\ \A i : ArgsOf(Append(s, x), i) = ArgsOf(s, i) \o Args(x.tools, i)
      /\ Finishing(Append(s, x))
           = Finishing(s) \cup (IF x.finish # None THEN {Len(s) + 1} ELSE {})
  BY <1>1, <1>2, Say
<1>4. Says(x) = <<>>
  BY <1>1, EmptySeq, ConcatEmptySeq DEF Says
<1>5. TextOf(Append(s, x)) = TextOf(s)
  BY <1>3, <1>4, ItemsType, ConcatEmptySeq
<1>6. ASSUME NEW i PROVE ArgsOf(Append(s, x), i) = ArgsOf(s, i)
  <2>1. Args(x.tools, i) = <<>> /\ ArgsOf(s, i) \in Seq(Token)
    BY <1>1, NoItems, ItemsType
  <2> QED BY <1>3, <2>1, ConcatEmptySeq
<1> QED BY <1>1, <1>3, <1>5, <1>6

\* What the events of an aggregate say.
LEMMA EventsSay ==
  ASSUME NEW s, Items(s), NEW agg \in Aggs, NEW t, t = s \o EventsOf(agg)
  PROVE  /\ Items(t)
         /\ TextOf(t) = TextOf(s) \o agg.text
         /\ \A i \in Nat : ArgsOf(t, i) = ArgsOf(s, i) \o Call(agg.tools, i)
         /\ IF FinishOf(agg) = None THEN Finishing(t) = Finishing(s)
            ELSE /\ Finishing(t) = Finishing(s) \cup {Len(t)}
                 /\ t[Len(t)].finish = FinishOf(agg)
<1> DEFINE x == Event(agg.text, <<>>, <<>>, None)
           y == Event(<<>>, <<>>, Indexed(agg.tools), None)
           z == Event(<<>>, <<>>, <<>>, FinishOf(agg))
           S == Range(s) \cup {x, y, z}
           A == IF agg.text = <<>> THEN <<>> ELSE <<x>>
           B == IF agg.tools = <<>> THEN <<>> ELSE <<y>>
           C == IF FinishOf(agg) = None THEN <<>> ELSE <<z>>
           s1 == s \o A
           s2 == s1 \o B
           s3 == s2 \o C
<1>0. /\ agg.text \in Seq(Token) /\ agg.tools \in CallsOf
      /\ agg.finish \in Finish
      /\ <<>> \in Seq(Token) /\ <<>> \in Seq(Fragment)
      /\ Indexed(agg.tools) \in Seq(Fragment)
      /\ \A i \in Nat : Args(Indexed(agg.tools), i) = Call(agg.tools, i)
  <2>1. /\ agg.text \in Seq(Token) /\ agg.tools \in CallsOf
        /\ agg.finish \in Finish
    BY DEF Aggs
  <2> QED BY <2>1, IndexedIs, EmptySeq
<1>1. FinishOf(agg) \in Finish /\ None \in Finish
  BY <1>0, FinishIs DEF FinishOf
<1>2. EventsOf(agg) = (A \o B) \o C
  BY DEF EventsOf
<1>x. x = Event(agg.text, <<>>, <<>>, None)
  OBVIOUS
<1>y. y = Event(<<>>, <<>>, Indexed(agg.tools), None)
  OBVIOUS
<1>z. z = Event(<<>>, <<>>, <<>>, FinishOf(agg))
  OBVIOUS
<1> HIDE DEF x, y, z
<1>3. s \in Seq(S) /\ x \in S /\ y \in S /\ z \in S
  <2>1. IsSeq(s)
    BY DEF Items
  <2>2. Range(s) \subseteq S /\ x \in S /\ y \in S /\ z \in S
    OBVIOUS
  <2> HIDE DEF S
  <2> QED BY <2>1, <2>2, SeqIn
<1> HIDE DEF S
<1>4. A \in Seq(S) /\ B \in Seq(S) /\ C \in Seq(S)
  BY <1>3, SingletonIs, EmptySeq
<1>5. t = s3
  <2> HIDE DEF A, B, C
  <2>s. s \in Seq(S)
    BY <1>3
  <2>a. A \in Seq(S) /\ B \in Seq(S)
    BY <1>4
  <2>c. C \in Seq(S)
    BY <1>4
  <2>1. (A \o B) \in Seq(S) /\ s \o A \in Seq(S)
    BY <1>3, <1>4, ConcatProperties
  <2>2. s \o ((A \o B) \o C) = (s \o (A \o B)) \o C
    <3> DEFINE D == A \o B
    <3> HIDE DEF D
    <3>1. D \in Seq(S)
      BY <2>1 DEF D
    <3>2. s \o (D \o C) = (s \o D) \o C
      BY <2>s, <2>c, <3>1, JoinIs
    <3> QED BY <3>2 DEF D
  <2>3. s \o (A \o B) = (s \o A) \o B
    BY <2>s, <2>a, JoinIs
  <2> QED BY <1>2, <2>2, <2>3
<1>6. s1 \in Seq(S) /\ s2 \in Seq(S)
  <2> HIDE DEF A, B
  <2> QED BY <1>3, <1>4, ConcatProperties
<1>7. /\ s1 = IF agg.text = <<>> THEN s ELSE Append(s, x)
      /\ s2 = IF agg.tools = <<>> THEN s1 ELSE Append(s1, y)
      /\ s3 = IF FinishOf(agg) = None THEN s2 ELSE Append(s2, z)
  <2>1. ASSUME NEW q \in Seq(S), NEW e \in S PROVE q \o <<>> = q /\ q \o <<e>> = Append(q, e)
    BY ConcatEmptySeq, AppendIsConcat
  <2>2. s1 = IF agg.text = <<>> THEN s ELSE Append(s, x)
    BY <1>3, <2>1
  <2> HIDE DEF s1
  <2>3. s2 = IF agg.tools = <<>> THEN s1 ELSE Append(s1, y)
    BY <1>3, <1>6, <2>1
  <2> HIDE DEF s2
  <2>4. s3 = IF FinishOf(agg) = None THEN s2 ELSE Append(s2, z)
    BY <1>3, <1>6, <2>1
  <2> QED BY <2>2, <2>3, <2>4
<1> HIDE DEF s1, s2, s3, A, B, C
<1>8. /\ Items(s1) /\ TextOf(s1) = TextOf(s) \o agg.text
      /\ \A i : ArgsOf(s1, i) = ArgsOf(s, i)
      /\ Finishing(s1) = Finishing(s)
  <2>1. CASE agg.text = <<>>
    BY <1>7, <2>1, ItemsType, ConcatEmptySeq
  <2>2. CASE agg.text # <<>>
    <3>1. s1 = Append(s, x)
      BY <1>7, <2>2
    <3> DEFINE text == agg.text
    <3>2. text \in Seq(Token) /\ x = Event(text, <<>>, <<>>, None)
      BY <1>0, <1>x
    <3> HIDE DEF text
    <3>3. /\ Items(Append(s, x)) /\ TextOf(Append(s, x)) = TextOf(s) \o text
          /\ \A i : ArgsOf(Append(s, x), i) = ArgsOf(s, i)
          /\ Finishing(Append(s, x)) = Finishing(s)
      BY <3>2, SayText
    <3> QED BY <3>1, <3>3 DEF text
  <2> QED BY <2>1, <2>2
<1>9. /\ Items(s2) /\ TextOf(s2) = TextOf(s1)
      /\ \A i \in Nat : ArgsOf(s2, i) = ArgsOf(s1, i) \o Call(agg.tools, i)
      /\ Finishing(s2) = Finishing(s1)
  <2>1. CASE agg.tools = <<>>
    <3>1. \A i \in Nat : Call(agg.tools, i) = <<>>
      BY <2>1 DEF Call
    <3>2. s2 = s1
      BY <1>7, <2>1
    <3> QED BY <1>8, <3>1, <3>2, ItemsType, ConcatEmptySeq
  <2>2. CASE agg.tools # <<>>
    <3>1. s2 = Append(s1, y)
      BY <1>7, <2>2
    <3> DEFINE f == Indexed(agg.tools)
    <3>2. f \in Seq(Fragment) /\ y = Event(<<>>, <<>>, f, None)
      BY <1>0, <1>y
    <3> HIDE DEF f
    <3>a. Items(s1)
      BY <1>8
    <3>b. /\ Items(Append(s1, y)) /\ TextOf(Append(s1, y)) = TextOf(s1)
          /\ \A i : ArgsOf(Append(s1, y), i) = ArgsOf(s1, i) \o Args(f, i)
          /\ Finishing(Append(s1, y)) = Finishing(s1)
      BY <3>2, <3>a, SayTools
    <3>3. /\ Items(s2) /\ TextOf(s2) = TextOf(s1) /\ Finishing(s2) = Finishing(s1)
          /\ \A i : ArgsOf(s2, i) = ArgsOf(s1, i) \o Args(f, i)
      BY <3>1, <3>b
    <3> QED BY <1>0, <3>3 DEF f
  <2> QED BY <2>1, <2>2
<1>10. /\ Items(s3) /\ TextOf(s3) = TextOf(s2)
       /\ \A i : ArgsOf(s3, i) = ArgsOf(s2, i)
       /\ IF FinishOf(agg) = None THEN Finishing(s3) = Finishing(s2)
          ELSE /\ Finishing(s3) = Finishing(s2) \cup {Len(s3)}
               /\ s3[Len(s3)].finish = FinishOf(agg)
  <2>1. CASE FinishOf(agg) = None
    <3>1. s3 = s2
      BY <1>7, <2>1
    <3> QED BY <1>9, <2>1, <3>1
  <2>2. CASE FinishOf(agg) # None
    <3>1. s3 = Append(s2, z)
      BY <1>7, <2>2
    <3> DEFINE f == FinishOf(agg)
    <3>2. f \in Reasons /\ f # None /\ z = Event(<<>>, <<>>, <<>>, f)
      BY <1>1, <1>z, <2>2, FinishIs
    <3> HIDE DEF f
    <3>a. Items(s2)
      BY <1>9
    <3>b. /\ Items(Append(s2, z)) /\ TextOf(Append(s2, z)) = TextOf(s2) /\ z.finish = f
          /\ \A i : ArgsOf(Append(s2, z), i) = ArgsOf(s2, i)
          /\ Finishing(Append(s2, z)) = Finishing(s2) \cup {Len(s2) + 1}
      BY <3>2, <3>a, SayFinish
    <3>3. /\ Items(s3) /\ TextOf(s3) = TextOf(s2)
          /\ Finishing(s3) = Finishing(s2) \cup {Len(s2) + 1}
          /\ z.finish = f /\ \A i : ArgsOf(s3, i) = ArgsOf(s2, i)
      BY <3>1, <3>b
    <3>4. Len(s3) = Len(s2) + 1 /\ s3[Len(s2) + 1] = z
      BY <1>9, <3>1, AppendIs DEF Items
    <3>5. Finishing(s3) = Finishing(s2) \cup {Len(s3)} /\ s3[Len(s3)].finish = f
      BY <3>3, <3>4
    <3> QED BY <2>2, <3>3, <3>5 DEF f
  <2> QED BY <2>1, <2>2
<1> QED BY <1>5, <1>8, <1>9, <1>10

-----------------------------------------------------------------------------
(***************************************************************************)
(* What was read, and what was written of it.                              *)
(***************************************************************************)

\* What was written, o, has of the chunks read, r, all but the bytes pending.
Carries(r, p, o) ==
  \E e \in Seq(Byte) :
    Bytes(r) = e \o p /\ Whole(e) /\ (OnlyText(r) => TextOf(o) = Chars(e))

\* Line by line a frame's reasoning is passed on under one name, and the tool
\* calls as they are.
Same(r, o) ==
  /\ Bytes(r) = <<>> => TextOf(o) = TextOf(Heard(r))
  /\ \A i : ArgsOf(o, i) = ArgsOf(r, i)

\* Of a whole body all text is, and the tool calls by their indices.
Told(r, o) ==
  /\ Bytes(r) = <<>> => TextOf(o) = TextOf(r)
  /\ \A f \in Fragments(r) : \E i \in Nat : f.arg \in Range(ArgsOf(o, i))
  /\ AllIndexed(r) => \A i \in Nat : ArgsOf(o, i) = ArgsOf(r, i)

Faithful(line, r, o) ==
  /\ OnlyText(r) => Whole(Bytes(r)) /\ TextOf(o) = Chars(Bytes(r))
  /\ IF line THEN Same(r, o) ELSE Told(r, o)

\* There is one finish_reason in what was written, and it is the engine's.
OneFinish(r, o) ==
  \E f \in DOMAIN o :
    Finishing(o) = {f} /\ \A m \in Finishing(r) : o[f].finish = r[m].finish
Ending(saw, r, o) ==
  IF saw THEN OneFinish(r, o) ELSE Finishing(r) = {} /\ Finishing(o) = {}

Silent(o) ==
  /\ TextOf(o) = <<>> /\ (\A i : ArgsOf(o, i) = <<>>)
  /\ Finishing(o) = {}

Once(r) == \A k, m \in Finishing(r) : k = m

LEMMA ShownIs ==
  ASSUME NEW c, DeltaOk(c)
  PROVE  /\ IsDelta(Shown(c)) /\ DeltaOk(Shown(c))
         /\ Shown(c).tools = c.tools /\ Shown(c).finish = c.finish
         /\ Empty(c) => Says(Shown(c)) = <<>>
<1> DEFINE one == IF c.reasoning_content # <<>> THEN c.reasoning_content ELSE c.reasoning
           x == Event(c.text, one, c.tools, c.finish)
<1>0. /\ c.text \in Seq(Token) /\ c.reasoning \in Seq(Token) /\ c.reasoning_content \in Seq(Token)
      /\ c.tools \in Seq(Fragment) /\ c.finish \in Finish
  BY DEF DeltaOk
<1>1. x = Shown(c) /\ one \in Seq(Token) /\ (Empty(c) => c.text = <<>> /\ one = <<>>)
  BY <1>0 DEF Shown, Empty
<1> HIDE DEF one
<1>2. /\ IsDelta(x) /\ x.text = c.text /\ x.reasoning = <<>> /\ x.reasoning_content = one
      /\ x.tools = c.tools /\ x.finish = c.finish
  BY EventIs
<1> HIDE DEF x
<1>3. DeltaOk(x)
  BY <1>0, <1>1, <1>2, EmptySeq DEF DeltaOk
<1>4. ASSUME Empty(c) PROVE Says(x) = <<>>
  <2>1. x.text = <<>> /\ x.reasoning = <<>> /\ x.reasoning_content = <<>>
    BY <1>1, <1>2, <1>4
  <2> QED BY <2>1, EmptySeq, ConcatEmptySeq DEF Says
<1> QED BY <1>1, <1>2, <1>3, <1>4

\* What is heard of one chunk more.
LEMMA HeardAppend ==
  ASSUME NEW r, Items(r), NEW c, ItemOk(c), NEW h, h = IF IsDelta(c) THEN Shown(c) ELSE c
  PROVE  Items(Heard(r)) /\ ItemOk(h) /\ Heard(Append(r, c)) = Append(Heard(r), h)
<1> DEFINE n == Len(r)
           t == Append(r, c)
           F(x) == IF IsDelta(x) THEN Shown(x) ELSE x
           H == Heard(r)
           S == {F(r[k]) : k \in 1 .. n}
<1>0. /\ n \in Nat /\ DOMAIN r = 1 .. n /\ DOMAIN t = 1 .. n + 1
      /\ (\A k \in 1 .. n : t[k] = r[k]) /\ t[n + 1] = c /\ \A k \in 1 .. n : ItemOk(r[k])
  BY SeqIs, AppendIs DEF Items
<1>1. H = [k \in 1 .. n |-> F(r[k])] /\ Heard(t) = [k \in 1 .. n + 1 |-> F(t[k])] /\ h = F(c)
  BY <1>0 DEF Heard
<1>2. ASSUME NEW x, ItemOk(x) PROVE ItemOk(F(x))
  BY <1>2, ShownIs DEF ItemOk
<1>3. \A k \in 1 .. n : F(r[k]) \in S
  OBVIOUS
<1> HIDE DEF n, t, F, H, S
<1>4. H \in [1 .. n -> S] /\ DOMAIN H = 1 .. n /\ \A k \in 1 .. n : H[k] = F(r[k])
  BY <1>1, <1>3
<1>5. IsSeq(H) /\ Len(H) = n
  <2>1. H \in Seq(S)
    BY <1>0, <1>4, SeqDef
  <2>2. Len(H) = n
    BY <1>0, <1>4, <2>1, LenProperties
  <2> QED BY <2>1, <2>2, SeqOfRange DEF IsSeq
<1>6. Items(H)
  BY <1>0, <1>2, <1>4, <1>5 DEF Items
<1>7. Heard(t) = Append(H, h)
  <2> DEFINE A == Append(H, h)
  <2>1. /\ IsSeq(A) /\ DOMAIN A = 1 .. n + 1
        /\ (\A k \in 1 .. n : A[k] = H[k]) /\ A[n + 1] = h /\ Len(A) = n + 1
    BY <1>5, AppendIs
  <2> HIDE DEF A
  <2>2. A = [k \in 1 .. n + 1 |-> A[k]]
    <3>1. A \in Seq(Range(A))
      BY <2>1 DEF IsSeq
    <3> QED BY <2>1, <3>1, LenProperties
  <2>3. ASSUME NEW k \in 1 .. n + 1 PROVE A[k] = F(t[k])
    <3>1. k = n + 1 \/ k \in 1 .. n
      BY <1>0
    <3> QED BY <1>0, <1>1, <1>4, <2>1, <3>1
  <2> QED BY <1>1, <2>2, <2>3 DEF A
<1> QED BY <1>1, <1>2, <1>6, <1>7 DEF t, H

LEMMA CarryNothing ==
  ASSUME NEW o, Silent(o)
  PROVE  Carries(<<>>, <<>>, o) /\ Same(<<>>, o) /\ Finishing(<<>>) = {} /\ Finishing(o) = {}
<1>1. /\ Bytes(<<>>) = <<>> \o <<>> /\ Whole(<<>>) /\ TextOf(o) = Chars(<<>>)
      /\ <<>> \in Seq(Byte)
  BY EmptySeq, ConcatEmptySeq, NoItems, WholeEmpty DEF Silent
<1>2. Carries(<<>>, <<>>, o)
  BY <1>1 DEF Carries
<1>3. Same(<<>>, o)
  <2>1. Heard(<<>>) = <<>>
    BY DEF Heard
  <2> QED BY <2>1, NoItems DEF Same, Silent
<1>4. Finishing(<<>>) = {} /\ Finishing(o) = {}
  BY DEF Silent, Finishing
<1> QED BY <1>2, <1>3, <1>4

Emitted(o, c) ==
  IF Empty(c) THEN o ELSE Append(o, Shown(c))

Passed(o, c, w) ==
  /\ Items(w)
  /\ TextOf(w) = TextOf(o) \o Says(Shown(c))
  /\ \A i : ArgsOf(w, i) = ArgsOf(o, i) \o Args(c.tools, i)
  /\ Finishing(w) = Finishing(o) \cup (IF c.finish # None THEN {Len(o) + 1} ELSE {})
  /\ c.finish # None => Len(o) + 1 \in DOMAIN w /\ w[Len(o) + 1].finish = c.finish
  /\ \A k \in DOMAIN o : k \in DOMAIN w /\ w[k] = o[k]

\* emit_openai_delta_frame writes what there is in the frame.
LEMMA Speak ==
  ASSUME NEW o, Items(o), NEW c, IsDelta(c), DeltaOk(c), NEW w, w = Emitted(o, c)
  PROVE  Passed(o, c, w)
<1>1. CASE Empty(c)
  <2>1. w = o /\ c.tools = <<>> /\ c.finish = None
    BY <1>1 DEF Empty, Emitted
  <2>2. TextOf(o) = TextOf(o) \o Says(Shown(c))
    <3>1. Says(Shown(c)) = <<>>
      BY <1>1, ShownIs
    <3> QED BY <3>1, ItemsType, ConcatEmptySeq
  <2>3. ASSUME NEW i PROVE ArgsOf(o, i) = ArgsOf(o, i) \o Args(c.tools, i)
    <3>1. Args(c.tools, i) = <<>> /\ ArgsOf(o, i) \in Seq(Token)
      BY <2>1, NoItems, ItemsType
    <3> QED BY <3>1, ConcatEmptySeq
  <2> QED BY <2>1, <2>2, <2>3 DEF Passed
<1>2. CASE ~Empty(c)
  <2> DEFINE x == Shown(c)
  <2>1. w = Append(o, x)
    BY <1>2 DEF Emitted
  <2>2. IsDelta(x) /\ DeltaOk(x) /\ x.tools = c.tools /\ x.finish = c.finish
    BY ShownIs
  <2> HIDE DEF x
  <2>4. /\ Items(Append(o, x))
        /\ TextOf(Append(o, x)) = TextOf(o) \o Says(x)
        /\ \A i : ArgsOf(Append(o, x), i) = ArgsOf(o, i) \o Args(x.tools, i)
        /\ Finishing(Append(o, x))
             = Finishing(o) \cup (IF x.finish # None THEN {Len(o) + 1} ELSE {})
    BY <2>2, Say
  <2>5. /\ DOMAIN w = 1 .. Len(o) + 1 /\ w[Len(o) + 1] = x
        /\ \A k \in 1 .. Len(o) : w[k] = o[k]
        /\ Len(o) \in Nat /\ DOMAIN o = 1 .. Len(o)
    BY <2>1, AppendIs, SeqIs DEF Items
  <2>6. \A k \in DOMAIN o : k \in DOMAIN w /\ w[k] = o[k]
    BY <2>5
  <2>7. Len(o) + 1 \in DOMAIN w /\ w[Len(o) + 1].finish = c.finish
    BY <2>2, <2>5
  <2>8. /\ Items(w)
        /\ TextOf(w) = TextOf(o) \o Says(Shown(c))
        /\ \A i : ArgsOf(w, i) = ArgsOf(o, i) \o Args(c.tools, i)
        /\ Finishing(w) = Finishing(o) \cup (IF c.finish # None THEN {Len(o) + 1} ELSE {})
    BY <2>1, <2>2, <2>4 DEF x
  <2> QED BY <2>6, <2>7, <2>8 DEF Passed
<1> QED BY <1>1, <1>2

\* A frame, of which the text, the tool calls and the finish_reason are written.
LEMMA CarryDelta ==
  ASSUME NEW r, Chunks(r), NEW p \in Seq(Byte), NEW o, Items(o), Carries(r, p, o), Same(r, o),
         NEW c, IsDelta(c), DeltaOk(c), NEW w, w = Emitted(o, c)
  PROVE  Items(w) /\ Carries(Append(r, c), p, w) /\ Same(Append(r, c), w)
<1> DEFINE t == Append(r, c)
<1>1. /\ Items(w) /\ TextOf(w) = TextOf(o) \o Says(Shown(c))
      /\ \A i : ArgsOf(w, i) = ArgsOf(o, i) \o Args(c.tools, i)
  <2>1. Passed(o, c, w)
    BY Speak
  <2> QED BY <2>1 DEF Passed
<1>2. ChunkOk(c) /\ ItemOk(c) /\ Items(r) /\ IsSeq(r)
  BY ChunksAreItems DEF ChunkOk, ItemOk, Chunks
<1>3. Bytes(t) = Bytes(r)
  <2>1. Bytes(r) \in Seq(Byte) /\ Bytes(t) = Bytes(r) \o (IF IsDelta(c) THEN <<>> ELSE c.bytes)
    BY <1>2, BytesAppend
  <2> QED BY <2>1, ConcatEmptySeq
<1>4. ~OnlyText(t)
  BY <1>2, OnlyTextAppend
<1>5. \A i : ArgsOf(t, i) = ArgsOf(r, i) \o (IF IsDelta(c) THEN Args(c.tools, i) ELSE <<>>)
  BY <1>2, ItemsAppend
<1>8. TextOf(Heard(t)) = TextOf(Heard(r)) \o Says(Shown(c))
  <2> DEFINE h == Shown(c)
  <2>1. IsDelta(h) /\ DeltaOk(h) /\ h = IF IsDelta(c) THEN Shown(c) ELSE c
    BY ShownIs
  <2> HIDE DEF h
  <2>2. Items(Heard(r)) /\ Heard(t) = Append(Heard(r), h)
    BY <1>2, <2>1, HeardAppend
  <2> DEFINE H == Heard(r)
  <2> HIDE DEF H
  <2>3. Items(H) /\ Heard(t) = Append(H, h)
    BY <2>2 DEF H
  <2>4. TextOf(Append(H, h)) = TextOf(H) \o Says(h)
    BY <2>1, <2>3, Say
  <2> QED BY <2>3, <2>4 DEF H, h
<1> HIDE DEF t
<1>6. Carries(t, p, w)
  BY <1>3, <1>4 DEF Carries
<1>7. Same(t, w)
  BY <1>1, <1>3, <1>5, <1>8 DEF Same
<1> QED BY <1>1, <1>6, <1>7 DEF t

\* Text, of which the whole characters are written and the rest is kept.
Voiced(o, s, w) ==
  w = IF Chars(SubSeq(s, 1, ValidUpTo(s))) = <<>> THEN o
      ELSE Append(o, Event(Chars(SubSeq(s, 1, ValidUpTo(s))), <<>>, <<>>, None))
Kept(t, s, o, w) ==
  /\ Items(w) /\ Carries(t, Rest(s), w) /\ Same(t, w)
  /\ Rest(s) \in Seq(Byte) /\ Finishing(w) = Finishing(o)
  /\ \A k \in DOMAIN o : k \in DOMAIN w /\ w[k] = o[k]
LEMMA CarryText ==
  ASSUME NEW r, Chunks(r), NEW p \in Seq(Byte), NEW o, Items(o), Carries(r, p, o), Same(r, o),
         NEW c, ~IsDelta(c), ChunkOk(c), NEW s, s = p \o c.bytes, NEW w, Voiced(o, s, w)
  PROVE  Kept(Append(r, c), s, o, w)
<1> DEFINE text == Chars(SubSeq(s, 1, ValidUpTo(s)))
           t == Append(r, c)
           b == c.bytes
           a == SubSeq(s, 1, ValidUpTo(s))
           q == Rest(s)
<1>0. b \in Seq(Byte) /\ s \in Seq(Byte)
  <2>1. b \in Seq(Byte)
    BY DEF ChunkOk
  <2> QED BY <2>1, ConcatProperties
<1>1. a \in Seq(Byte) /\ q \in Seq(Byte) /\ Whole(a) /\ a \o q = s
  BY <1>0, ValidUpToIs
<1>2. text = Chars(a) /\ text \in Seq(Token)
  BY <1>1, CharsFacts
<1>3. s = p \o b /\ w = IF text = <<>> THEN o ELSE Append(o, Event(text, <<>>, <<>>, None))
  BY DEF Voiced
<1> HIDE DEF a, b, q, text
<1>4. /\ Items(w) /\ TextOf(w) = TextOf(o) \o text
      /\ \A i : ArgsOf(w, i) = ArgsOf(o, i)
      /\ Finishing(w) = Finishing(o)
      /\ \A k \in DOMAIN o : k \in DOMAIN w /\ w[k] = o[k]
  <2>1. CASE text = <<>>
    <3>1. w = o
      BY <1>3, <2>1
    <3> QED BY <2>1, <3>1, ItemsType, ConcatEmptySeq
  <2>2. CASE text # <<>>
    <3> DEFINE x == Event(text, <<>>, <<>>, None)
    <3>1. x = Event(text, <<>>, <<>>, None) /\ w = Append(o, x)
      BY <1>3, <2>2
    <3> HIDE DEF x
    <3>2. /\ Items(w) /\ TextOf(w) = TextOf(o) \o text
          /\ \A i : ArgsOf(w, i) = ArgsOf(o, i)
          /\ Finishing(w) = Finishing(o)
      <4>1. text \in Seq(Token)
        BY <1>2
      <4>2. /\ Items(Append(o, x)) /\ TextOf(Append(o, x)) = TextOf(o) \o text
            /\ \A i : ArgsOf(Append(o, x), i) = ArgsOf(o, i)
            /\ Finishing(Append(o, x)) = Finishing(o)
        BY <3>1, <4>1, SayText
      <4> QED BY <3>1, <4>2
    <3>3. /\ DOMAIN w = 1 .. Len(o) + 1 /\ \A k \in 1 .. Len(o) : w[k] = o[k]
          /\ Len(o) \in Nat /\ DOMAIN o = 1 .. Len(o)
      BY <3>1, AppendIs, SeqIs DEF Items
    <3>4. \A k \in DOMAIN o : k \in DOMAIN w /\ w[k] = o[k]
      BY <3>3
    <3> QED BY <3>2, <3>4
  <2> QED BY <2>1, <2>2
<1>5. Bytes(r) \in Seq(Byte) /\ Bytes(t) = Bytes(r) \o b
  BY BytesAppend DEF b
<1>6. Items(r) /\ ItemOk(c) /\ IsSeq(r)
  BY ChunksAreItems DEF ItemOk, Chunks
<1>7. TextOf(Heard(t)) = TextOf(Heard(r)) /\ \A i : ArgsOf(t, i) = ArgsOf(r, i)
  <2> DEFINE H == Heard(r)
  <2>1. Items(H) /\ Heard(t) = Append(H, c)
    BY <1>6, HeardAppend
  <2> HIDE DEF H
  <2>2. TextOf(Append(H, c)) = TextOf(H)
    BY <2>1, Mute
  <2>3. \A i : ArgsOf(t, i) = ArgsOf(r, i)
    BY <1>6, Mute
  <2> QED BY <2>1, <2>2, <2>3 DEF H
<1>8. OnlyText(t) <=> OnlyText(r)
  BY <1>6, OnlyTextAppend
<1> HIDE DEF t
<1>9. PICK e \in Seq(Byte) :
        Bytes(r) = e \o p /\ Whole(e) /\ (OnlyText(r) => TextOf(o) = Chars(e))
  BY DEF Carries
<1>10. Bytes(t) = (e \o a) \o q /\ e \o a \in Seq(Byte)
  <2>1. (e \o p) \o b = e \o (p \o b)
    BY <1>0, JoinIs
  <2>a. a \in Seq(Byte) /\ q \in Seq(Byte)
    BY <1>1
  <2>2. (e \o a) \o q = e \o (a \o q) /\ e \o a \in Seq(Byte)
    BY <2>a, JoinIs
  <2> QED BY <1>1, <1>3, <1>5, <1>9, <2>1, <2>2
<1>11. Whole(e \o a)
  BY <1>1, <1>9, WholeJoin
<1>12. OnlyText(t) => TextOf(w) = Chars(e \o a)
  <2>1. Chars(e \o a) = Chars(e) \o Chars(a)
    BY <1>1, CharsFacts
  <2> QED BY <1>2, <1>4, <1>8, <1>9, <2>1
<1>13. Carries(t, q, w)
  BY <1>10, <1>11, <1>12 DEF Carries
<1>14. ASSUME Bytes(t) = <<>> PROVE TextOf(w) = TextOf(Heard(t))
  <2>1. Bytes(r) = <<>> /\ b = <<>>
    BY <1>0, <1>5, <1>14, EmptyJoin
  <2>2. p = <<>>
    BY <1>9, <2>1, EmptyJoin
  <2>3. s = <<>>
    BY <1>3, <2>1, <2>2, EmptySeq, ConcatEmptySeq
  <2>4. a = <<>>
    BY <1>1, <2>3, EmptyJoin
  <2>5. text = <<>>
    BY <1>2, <2>4, NoItems
  <2>6. w = o
    BY <1>3, <2>5
  <2> QED BY <1>7, <2>1, <2>6 DEF Same
<1>15. Same(t, w)
  BY <1>4, <1>7, <1>14 DEF Same
<1> QED BY <1>1, <1>4, <1>13, <1>15 DEF t, q, Kept

\* The lines are over, and nothing is pending.
LEMMA CarryAll ==
  ASSUME NEW r, NEW o, Carries(r, <<>>, o), Same(r, o)
  PROVE  Faithful(TRUE, r, o)
<1>1. PICK e \in Seq(Byte) :
        Bytes(r) = e \o <<>> /\ Whole(e) /\ (OnlyText(r) => TextOf(o) = Chars(e))
  BY DEF Carries
<1>2. e \o <<>> = e
  BY ConcatEmptySeq
<1> QED BY <1>1, <1>2 DEF Faithful

\* saw_finish is set once a frame with a finish_reason was read.
Marked(saw, r, o) ==
  /\ saw \in BOOLEAN /\ (saw <=> Finishing(r) # {})
  /\ Ending(saw, r, o)

\* What follows what was read or written leaves a finish_reason where it is.
LEMMA FinishStays ==
  ASSUME NEW saw, NEW r, NEW o, Marked(saw, r, o), NEW t, NEW w,
         Finishing(t) = Finishing(r), \A k \in DOMAIN r : t[k] = r[k],
         Finishing(w) = Finishing(o), \A k \in DOMAIN o : k \in DOMAIN w /\ w[k] = o[k]
  PROVE  Marked(saw, t, w)
<1>1. \A m \in Finishing(r) : t[m] = r[m]
  BY DEF Finishing
<1>2. OneFinish(r, o) => OneFinish(t, w)
  BY <1>1 DEF OneFinish
<1> QED BY <1>2 DEF Marked, Ending

LEMMA MarkDelta ==
  ASSUME NEW saw, NEW r, IsSeq(r), NEW o, Marked(saw, r, o), NEW c, IsDelta(c),
         NEW w, Passed(o, c, w), Once(Append(r, c))
  PROVE  Marked(saw \/ c.finish # None, Append(r, c), w)
<1> DEFINE t == Append(r, c)
<1>1. Finishing(t) = Finishing(r) \cup (IF c.finish # None THEN {Len(r) + 1} ELSE {})
  BY FinishingAppend
<1>2. /\ Len(r) \in Nat /\ DOMAIN r = 1 .. Len(r)
      /\ (\A k \in 1 .. Len(r) : t[k] = r[k]) /\ t[Len(r) + 1] = c
  BY AppendIs, SeqIs
<1>3. saw \in BOOLEAN /\ (saw <=> Finishing(r) # {}) /\ Ending(saw, r, o)
  BY DEF Marked
<1>4. /\ Finishing(w) = Finishing(o) \cup (IF c.finish # None THEN {Len(o) + 1} ELSE {})
      /\ c.finish # None => Len(o) + 1 \in DOMAIN w /\ w[Len(o) + 1].finish = c.finish
      /\ \A k \in DOMAIN o : k \in DOMAIN w /\ w[k] = o[k]
  BY DEF Passed
<1>5. Once(t)
  OBVIOUS
<1> HIDE DEF t
<1>6. CASE c.finish = None
  <2>1. Finishing(t) = Finishing(r) /\ Finishing(w) = Finishing(o)
    BY <1>1, <1>4, <1>6
  <2>2. \A k \in DOMAIN r : t[k] = r[k]
    BY <1>2
  <2>3. Marked(saw, t, w)
    BY <1>4, <2>1, <2>2, FinishStays
  <2>4. (saw \/ c.finish # None) = saw
    BY <1>3, <1>6
  <2> QED BY <2>3, <2>4 DEF t
<1>7. CASE c.finish # None
  <2>1. Len(r) + 1 \in Finishing(t) /\ Finishing(r) \subseteq Finishing(t)
    BY <1>1, <1>7
  <2>2. Finishing(r) = {}
    <3> SUFFICES ASSUME NEW k \in Finishing(r) PROVE FALSE
      OBVIOUS
    <3>1. k = Len(r) + 1
      BY <1>5, <2>1 DEF Once
    <3>2. k \in 1 .. Len(r)
      BY <1>2 DEF Finishing
    <3> QED BY <1>2, <3>1, <3>2
  <2>3. Finishing(o) = {}
    BY <1>3, <2>2 DEF Ending
  <2>4. Finishing(w) = {Len(o) + 1} /\ Finishing(t) = {Len(r) + 1}
    BY <1>1, <1>4, <1>7, <2>2, <2>3
  <2>5. /\ Len(o) + 1 \in DOMAIN w
        /\ \A m \in Finishing(t) : w[Len(o) + 1].finish = t[m].finish
    BY <1>2, <1>4, <1>7, <2>4
  <2>6. OneFinish(t, w)
    BY <2>4, <2>5 DEF OneFinish
  <2>7. (saw \/ c.finish # None) = TRUE
    BY <1>7
  <2>8. Marked(TRUE, t, w)
    BY <2>4, <2>6 DEF Marked, Ending
  <2> QED BY <2>7, <2>8 DEF t
<1> QED BY <1>6, <1>7

-----------------------------------------------------------------------------
(***************************************************************************)
(* A whole body.                                                           *)
(***************************************************************************)

\* A stream's events, made from the aggregate.
LEMMA StreamWhole ==
  ASSUME NEW r, Chunks(r), Aggregates(r), Once(r), NEW o, Items(o), Silent(o),
         NEW w, w = o \o EventsOf(AggregateAll(r))
  PROVE  /\ Items(w) /\ Faithful(FALSE, r, w)
         /\ Ending(FinishOf(AggregateAll(r)) # None, r, w)
<1> DEFINE agg == AggregateAll(r)
<1>1. agg \in Aggs /\ Gathered(agg, r) /\ w = o \o EventsOf(agg)
  BY AggregateAllGathers
<1> HIDE DEF agg
<1>2. /\ Items(w)
      /\ TextOf(w) = TextOf(o) \o agg.text
      /\ \A i \in Nat : ArgsOf(w, i) = ArgsOf(o, i) \o Call(agg.tools, i)
      /\ IF FinishOf(agg) = None THEN Finishing(w) = Finishing(o)
         ELSE /\ Finishing(w) = Finishing(o) \cup {Len(w)}
              /\ w[Len(w)].finish = FinishOf(agg)
  BY <1>1, EventsSay
<1>3. TextOf(o) = <<>> /\ (\A i : ArgsOf(o, i) = <<>>) /\ Finishing(o) = {}
  BY DEF Silent
<1>4. /\ OnlyText(r) => agg.text = Chars(Bytes(r))
      /\ Bytes(r) = <<>> => agg.text = TextOf(r)
      /\ AllIndexed(r) => \A i \in Nat : Call(agg.tools, i) = ArgsOf(r, i)
  BY <1>1 DEF Gathered
<1>5. TextOf(w) = agg.text
  <2>1. agg.text \in Seq(Token)
    BY <1>1 DEF Aggs
  <2> QED BY <1>2, <1>3, <2>1, ConcatEmptySeq
<1>a. agg.tools \in Seq(Seq(Token))
  BY <1>1 DEF Aggs, CallsOf
<1>b. ASSUME NEW i \in Nat PROVE ArgsOf(w, i) = Call(agg.tools, i)
  <2>1. Call(agg.tools, i) \in Seq(Token)
    BY <1>a, LenProperties, ElementOfSeq, EmptySeq DEF Call
  <2>2. ArgsOf(w, i) = <<>> \o Call(agg.tools, i)
    BY <1>2, <1>3
  <2> QED BY <2>1, <2>2, ConcatEmptySeq
<1>6. ASSUME AllIndexed(r), NEW i \in Nat PROVE ArgsOf(w, i) = ArgsOf(r, i)
  BY <1>4, <1>6, <1>b
<1>c. ASSUME NEW f \in Fragments(r) PROVE \E i \in Nat : f.arg \in Range(ArgsOf(w, i))
  <2>1. PICK k \in DOMAIN agg.tools : f.arg \in Range(agg.tools[k])
    BY <1>1 DEF Gathered, Holds
  <2>2. k \in 1 .. Len(agg.tools) /\ Len(agg.tools) \in Nat
    BY <1>a, LenProperties
  <2>3. k - 1 \in Nat /\ (k - 1) + 1 = k
    BY <2>2
  <2>4. Call(agg.tools, k - 1) = agg.tools[k]
    BY <2>3 DEF Call
  <2> QED BY <1>b, <2>1, <2>3, <2>4
<1>7. Whole(Bytes(r))
  BY WholeChunks
<1>8. Faithful(FALSE, r, w)
  BY <1>4, <1>5, <1>6, <1>7, <1>c DEF Faithful, Told
<1>9. IF Finishing(r) = {} THEN agg.finish = None
      ELSE \E m \in Finishing(r) : agg.finish = r[m].finish
  BY <1>1 DEF Gathered
<1>10. CASE FinishOf(agg) = None
  <2>1. agg.finish = None
    BY <1>10 DEF FinishOf
  <2>2. \A m \in Finishing(r) : r[m].finish # None
    BY DEF Finishing
  <2>3. Finishing(r) = {}
    BY <1>9, <2>1, <2>2
  <2>4. Ending(FALSE, r, w)
    BY <1>2, <1>3, <1>10, <2>3 DEF Ending
  <2>5. (FinishOf(agg) # None) = FALSE
    BY <1>10
  <2> QED BY <1>2, <1>8, <2>4, <2>5 DEF agg
<1>11. CASE FinishOf(agg) # None
  <2>1. Finishing(w) = {Len(w)} /\ w[Len(w)].finish = FinishOf(agg)
    BY <1>2, <1>3, <1>11
  <2>2. ASSUME NEW m \in Finishing(r) PROVE FinishOf(agg) = r[m].finish
    <3>1. agg.finish = r[m].finish
      BY <1>9 DEF Once
    <3>2. r[m].finish # None
      BY DEF Finishing
    <3> QED BY <3>1, <3>2 DEF FinishOf
  <2>3. Len(w) \in DOMAIN w
    BY <2>1 DEF Finishing
  <2>4. OneFinish(r, w)
    BY <2>1, <2>2, <2>3 DEF OneFinish
  <2>5. Ending(TRUE, r, w)
    BY <2>4 DEF Ending
  <2>6. (FinishOf(agg) # None) = TRUE
    BY <1>11
  <2> QED BY <1>2, <1>8, <2>5, <2>6 DEF agg
<1> QED BY <1>10, <1>11

\* The body of a completion.
Complete(r, body) ==
  /\ OnlyText(r) => body.text = Chars(Bytes(r))
  /\ Bytes(r) = <<>> => body.text = TextOf(r)
  /\ \A f \in Fragments(r) : \E k \in DOMAIN body.tools : f.arg \in Range(body.tools[k])
  /\ AllIndexed(r) =>
       /\ \A i \in Indices(r) : i + 1 \in DOMAIN body.tools
       /\ \A k \in DOMAIN body.tools : body.tools[k] = ArgsOf(r, k - 1)

LEMMA AnswerComplete ==
  ASSUME NEW r, Chunks(r), NEW finish
  PROVE  Complete(r, [AggregateAll(r) EXCEPT !.finish = finish])
<1> DEFINE agg  == AggregateAll(r)
           body == [agg EXCEPT !.finish = finish]
<1>1. agg \in Aggs /\ Gathered(agg, r)
  BY AggregateAllGathers
<1> HIDE DEF agg
<1>2. body.text = agg.text /\ body.tools = agg.tools
  BY <1>1 DEF Aggs
<1> HIDE DEF body
<1>3. ASSUME AllIndexed(r), NEW k \in DOMAIN agg.tools PROVE agg.tools[k] = ArgsOf(r, k - 1)
  <2>0. agg.tools \in CallsOf
    BY <1>1 DEF Aggs
  <2>1. k \in 1 .. Len(agg.tools) /\ Len(agg.tools) \in Nat
    BY <2>0, LenProperties DEF CallsOf
  <2>2. k - 1 \in Nat /\ (k - 1) + 1 = k
    BY <2>1
  <2>3. Call(agg.tools, k - 1) = ArgsOf(r, k - 1)
    BY <1>1, <1>3, <2>2 DEF Gathered
  <2>4. Call(agg.tools, k - 1) = agg.tools[k]
    BY <1>3, <2>2 DEF Call
  <2> QED BY <2>3, <2>4
<1>4. Complete(r, body)
  BY <1>1, <1>2, <1>3 DEF Gathered, Complete, Holds
<1> QED BY <1>4 DEF body, agg

-----------------------------------------------------------------------------
(***************************************************************************)
(* The bridge's invariant.                                                 *)
(***************************************************************************)

Early == {"start", "prepare", "dispatch", "read"}
Lines == stream /\ ndjson

\* What was read is a beginning of the answer, line by line up to the next line.
LineInv ==
  /\ Chunks(answer) /\ Once(answer)
  /\ next \in Nat /\ pending \in Seq(Byte)
  /\ IsSeq(read) /\ \A k \in DOMAIN read : k \in DOMAIN answer /\ read[k] = answer[k]
  /\ Lines /\ pc \in Early =>
       /\ next = 0 => read = <<>>
       /\ next \in 1 .. Len(answer) + 1 => Len(read) = next - 1

\* What was written says what was read.
SpeechInv ==
  /\ Items(out)
  /\ Lines /\ pc \in Early =>
       Carries(read, pending, out) /\ Same(read, out) /\ Marked(sawFinish, read, out)
  /\ ~Lines /\ pc \in Early \cup {"aggregate"} => Silent(out)
  /\ pc = "aggregate" => ~Lines /\ Aggregates(read)
  /\ pc \in {"finish", "done", "end"} => Faithful(ndjson, read, out)
  /\ pc = "finish" => Ending(sawFinish, read, out)
  /\ pc = "done" => OneFinish(read, out)

\* Nothing final is written too early, and what is then written is right.
FinalInv ==
  /\ pc \notin {"end", "closed"} => NoFinal(out)
  /\ \A k \in DOMAIN out : out[k] = Done => Faithful(ndjson, read, out)
  /\ pc = "end" => \A k \in DOMAIN out : out[k] = Done => k = Len(out)
  /\ DoneFollowsOneFinish
  /\ AggregateIsFaithful

LEMMA LineIs == ASSUME LineInv PROVE Chunks(read) /\ Once(read)
<1>1. \A k \in DOMAIN read : ChunkOk(read[k])
  BY DEF LineInv, Chunks
<1>2. Finishing(read) \subseteq Finishing(answer)
  BY DEF LineInv, Finishing
<1> QED BY <1>1, <1>2 DEF LineInv, Chunks, Once

LEMMA LineInit == Init => LineInv
<1> SUFFICES ASSUME Init PROVE LineInv
  OBVIOUS
<1>1. /\ answer \in Answers /\ next \in {0, 1} /\ read = <<>> /\ pending = <<>>
  BY DEF Init
<1>2. Once(answer)
  BY <1>1, OpeStreamAssumption DEF Once
<1>3. IsSeq(answer)
  BY <1>1, OpeStreamAssumption DEF IsSeq
<1>4. ASSUME NEW k \in DOMAIN answer PROVE ChunkOk(answer[k])
  <2>1. \/ answer[k].kind = "text" /\ answer[k].bytes \in Seq(Byte)
        \/ IsDelta(answer[k]) /\ DeltaOk(answer[k])
    BY <1>1, OpeStreamAssumption
  <2> QED BY <2>1 DEF ChunkOk, IsDelta
<1>5. IsSeq(read) /\ DOMAIN read = {} /\ Len(read) = 0 /\ pending \in Seq(Byte)
  BY <1>1, EmptySeq DEF IsSeq
<1> QED BY <1>1, <1>2, <1>3, <1>4, <1>5 DEF LineInv, Chunks

\* Steps that read nothing.
LEMMA LineStay ==
  ASSUME LineInv, UNCHANGED <<stream, ndjson, answer, next, read, pending>>,
         pc' \in Early => pc \in Early
  PROVE  LineInv'
  BY DEF LineInv, Lines

LEMMA LineRead ==
  ASSUME LineInv, ReadShare \/ ReadTrailer \/ ReadBody
  PROVE  LineInv'
<1> USE DEF request, relay, bridge
<1>0. /\ Chunks(answer) /\ Once(answer) /\ next \in Nat /\ pending \in Seq(Byte)
      /\ IsSeq(read) /\ \A k \in DOMAIN read : k \in DOMAIN answer /\ read[k] = answer[k]
  BY DEF LineInv
<1>a. IsSeq(answer) /\ Len(answer) \in Nat /\ DOMAIN answer = 1 .. Len(answer)
  BY <1>0, SeqIs DEF Chunks
<1>1. CASE ReadShare
  <2>1. next = 0 /\ pc = "read" /\ next' = 1 /\ Lines
    BY <1>1 DEF ReadShare, LineByLine, Lines
  <2>2. UNCHANGED <<stream, ndjson, answer, read, pending, pc>>
    BY <1>1 DEF ReadShare
  <2>3. Len(read) = 0
    BY <2>1, EmptySeq DEF LineInv, Early
  <2> QED BY <1>0, <2>1, <2>2, <2>3 DEF LineInv, Lines
<1>2. CASE ReadTrailer
  <2>1. next' = Len(answer) + 2
    BY <1>a, <1>2 DEF ReadTrailer
  <2>2. UNCHANGED <<stream, ndjson, answer, read, pending, pc>>
    BY <1>2 DEF ReadTrailer
  <2>3. next' \in Nat /\ next' # 0 /\ next' \notin 1 .. Len(answer) + 1
    BY <1>a, <2>1
  <2> QED BY <1>0, <2>2, <2>3 DEF LineInv
<1>3. CASE ReadBody
  <2>1. UNCHANGED <<stream, ndjson, answer, next, pending>> /\ ~Lines
    BY <1>3 DEF ReadBody, LineByLine, Lines
  <2>2. PICK n \in 0 .. Len(answer) : read' = read \/ read' = SubSeq(answer, 1, n)
    BY <1>3 DEF ReadBody
  <2>3. IsSeq(read') /\ \A k \in DOMAIN read' : k \in DOMAIN answer /\ read'[k] = answer[k]
    <3>1. CASE read' = read
      BY <1>0, <3>1
    <3>2. CASE read' = SubSeq(answer, 1, n)
      <4> DEFINE s == SubSeq(answer, 1, n)
                 E == Range(answer)
      <4>1. answer \in Seq(E)
        BY <1>a DEF IsSeq
      <4> HIDE DEF E
      <4>2. s \in Seq(E) /\ Len(s) = n /\ \A k \in 1 .. n : s[k] = answer[k]
        BY <1>a, <4>1, SubSeqProperties
      <4>3. IsSeq(s) /\ DOMAIN s = 1 .. n
        BY <4>2, SeqOfRange, LenProperties DEF IsSeq
      <4> HIDE DEF s
      <4>4. \A k \in 1 .. n : k \in DOMAIN answer
        BY <1>a
      <4> QED BY <3>2, <4>2, <4>3, <4>4 DEF s
    <3> QED BY <2>2, <3>1, <3>2
  <2> QED BY <1>0, <2>1, <2>3 DEF LineInv, Lines
<1> QED BY <1>1, <1>2, <1>3

\* A chunk is read; what becomes of it is left open.
LEMMA LineChunk ==
  ASSUME LineInv, ReadChunk, pending' \in Seq(Byte)
  PROVE  /\ LineInv' /\ ChunkOk(answer[next])
         /\ share => read' = Append(read, answer[next]) /\ Once(Append(read, answer[next]))
<1> USE DEF request, relay, bridge
<1>0. /\ Chunks(answer) /\ Once(answer) /\ next \in Nat
      /\ IsSeq(read) /\ \A k \in DOMAIN read : k \in DOMAIN answer /\ read[k] = answer[k]
  BY DEF LineInv
<1>a. IsSeq(answer) /\ Len(answer) \in Nat /\ DOMAIN answer = 1 .. Len(answer)
  BY <1>0, SeqIs DEF Chunks
<1>1. /\ pc = "read" /\ Lines /\ next \in 1 .. Len(answer) /\ next' = next + 1
      /\ UNCHANGED <<stream, ndjson, answer>>
  BY <1>a DEF ReadChunk, LineByLine, Lines
<1>2. Len(read) = next - 1 /\ ChunkOk(answer[next])
  <2>1. next \in 1 .. Len(answer) + 1
    BY <1>a, <1>1
  <2> QED BY <1>0, <1>1, <1>a, <2>1 DEF LineInv, Chunks, Early
<1>3. CASE ~share
  <2>1. read' = read /\ pc' = "closed"
    BY <1>3 DEF ReadChunk, Fail
  <2>2. pc' \notin Early /\ next' \in Nat
    BY <1>1, <2>1 DEF Early
  <2> QED BY <1>0, <1>1, <1>2, <1>3, <2>1, <2>2 DEF LineInv
<1>4. CASE share
  <2> DEFINE t == Append(read, answer[next])
  <2>1. read' = t
    BY <1>4 DEF ReadChunk
  <2>2. /\ IsSeq(t) /\ Len(t) = Len(read) + 1 /\ DOMAIN t = 1 .. Len(read) + 1
        /\ (\A k \in 1 .. Len(read) : t[k] = read[k]) /\ t[Len(read) + 1] = answer[next]
    BY <1>0, AppendIs
  <2> HIDE DEF t
  <2>3. IsSeq(t) /\ Len(t) = next /\ DOMAIN t = 1 .. next
    BY <1>1, <1>2, <2>2
  <2>4. ASSUME NEW k \in 1 .. next PROVE k \in DOMAIN answer /\ t[k] = answer[k]
    <3>1. k \in DOMAIN answer
      BY <1>1, <1>a
    <3>2. CASE k = next
      BY <1>1, <1>2, <2>2, <3>1, <3>2
    <3>3. CASE k # next
      <4>1. k \in 1 .. Len(read) /\ DOMAIN read = 1 .. Len(read)
        BY <1>0, <1>1, <1>2, <3>3, SeqIs
      <4> QED BY <1>0, <2>2, <3>1, <4>1
    <3> QED BY <3>2, <3>3
  <2>5. Once(t)
    BY <1>0, <2>3, <2>4 DEF Once, Finishing
  <2>6. next' \in Nat /\ next' # 0 /\ next' - 1 = next
    BY <1>1
  <2>7. LineInv'
    BY <1>0, <1>1, <2>1, <2>3, <2>4, <2>6 DEF LineInv
  <2> QED BY <1>2, <1>4, <2>1, <2>5, <2>7 DEF t
<1> QED BY <1>3, <1>4

\* As long as nothing final is written, nothing can be wrong with it.
LEMMA FinalQuiet == ASSUME NoFinal(out'), pc' # "end" PROVE FinalInv'
<1>1. Done.kind = "done"
  BY DEF Done
<1>2. \A k \in DOMAIN out' : out'[k] # Done
  BY <1>1 DEF NoFinal
<1>3. DoneFollowsOneFinish'
  BY <1>2 DEF DoneFollowsOneFinish
<1>4. AggregateIsFaithful'
  <2>1. \A item \in Range(out') : item.kind # "completion"
    BY DEF NoFinal, Range
  <2> QED BY <2>1 DEF AggregateIsFaithful
<1> QED BY <1>2, <1>3, <1>4 DEF FinalInv

LEMMA SpeechInit == Init => SpeechInv /\ FinalInv
<1> SUFFICES ASSUME Init PROVE SpeechInv /\ FinalInv
  OBVIOUS
<1>1. out = <<>> /\ pc = "start" /\ pending = <<>> /\ read = <<>> /\ sawFinish = FALSE
  BY DEF Init
<1>2. Items(<<>>) /\ Silent(<<>>)
  <2>1. Finishing(<<>>) = {}
    BY DEF Finishing
  <2> QED BY <2>1, NoItems DEF Silent
<1>3. /\ Carries(<<>>, <<>>, <<>>) /\ Same(<<>>, <<>>) /\ Finishing(<<>>) = {}
  BY <1>2, CarryNothing
<1>4. Marked(FALSE, <<>>, <<>>)
  BY <1>3 DEF Marked, Ending
<1>5. SpeechInv
  BY <1>1, <1>2, <1>3, <1>4 DEF SpeechInv, Early
<1>6. DOMAIN out = {} /\ Range(out) = {}
  BY <1>1 DEF Range
<1>7. FinalInv
  BY <1>1, <1>6 DEF FinalInv, NoFinal, DoneFollowsOneFinish, AggregateIsFaithful
<1> QED BY <1>5, <1>7

\* A request fails.
LEMMA SpeechFail ==
  ASSUME SpeechInv, FinalInv, pc \notin {"end", "closed"}, NEW code, Fail(code)
  PROVE  SpeechInv' /\ FinalInv'
<1> DEFINE x == Status(code)
<1>1. x.kind = "status" /\ ~IsDelta(x)
  BY DEF Status, IsDelta
<1>2. pc' = "closed" /\ (out' = out \/ out' = Append(out, x))
  BY DEF Fail
<1> HIDE DEF x
<1>3. Items(out) /\ IsSeq(out) /\ NoFinal(out)
  BY DEF SpeechInv, FinalInv, Items
<1>4. Items(Append(out, x)) /\ NoFinal(Append(out, x))
  BY <1>1, <1>3, Mute, StillQuiet
<1>5. Items(out') /\ NoFinal(out')
  BY <1>2, <1>3, <1>4
<1>6. SpeechInv'
  BY <1>2, <1>5 DEF SpeechInv, Early
<1> QED BY <1>2, <1>5, <1>6, FinalQuiet

\* It goes on, and nothing is read or written.
LEMMA SpeechStay ==
  ASSUME SpeechInv, FinalInv, pc \in Early, pc' \in Early,
         UNCHANGED <<stream, ndjson, read, pending, sawFinish, out>>
  PROVE  SpeechInv' /\ FinalInv'
<1>1. NoFinal(out')
  BY DEF FinalInv, Early
<1>2. FinalInv'
  BY <1>1, FinalQuiet DEF Early
<1>3. SpeechInv'
  BY DEF SpeechInv, Early, Lines
<1> QED BY <1>2, <1>3

LEMMA SpeechBegin ==
  ASSUME CleanInv, SpeechInv, FinalInv, Begin
  PROVE  SpeechInv' /\ FinalInv'
<1> USE DEF request, relay, bridge
<1>1. /\ pc = "start" /\ pc' = "prepare" /\ out = <<>> /\ Items(out)
      /\ UNCHANGED <<stream, ndjson, read, pending, sawFinish>>
  BY DEF Begin, CleanInv, OutInv, SpeechInv
<1>2. CASE ~stream
  BY <1>1, <1>2, SpeechStay DEF Begin, Header, Early
<1>3. CASE stream
  <2> DEFINE x == Status(200)
  <2>1. x.kind = "status" /\ ~IsDelta(x)
    BY DEF Status, IsDelta
  <2>2. out' = <<x>>
    BY <1>3 DEF Begin, Header
  <2> HIDE DEF x
  <2>3. out' = Append(out, x)
    BY <1>1, <2>2
  <2>4. /\ Items(out') /\ TextOf(out') = TextOf(out) /\ Finishing(out') = Finishing(out)
        /\ \A i : ArgsOf(out', i) = ArgsOf(out, i)
    BY <1>1, <2>1, <2>3, Mute
  <2>5. NoFinal(out')
    <3>1. NoFinal(out) /\ IsSeq(out)
      BY <1>1 DEF FinalInv, Items
    <3> QED BY <2>1, <2>3, <3>1, StillQuiet
  <2>6. FinalInv'
    BY <1>1, <2>5, FinalQuiet
  <2>7. ASSUME Lines
        PROVE  Carries(read, pending, out') /\ Same(read, out') /\ Marked(sawFinish, read, out')
    <3>1. Carries(read, pending, out) /\ Same(read, out) /\ Marked(sawFinish, read, out)
      BY <1>1, <2>7 DEF SpeechInv, Early
    <3>2. Carries(read, pending, out')
      BY <2>4, <3>1 DEF Carries
    <3>3. Same(read, out')
      BY <2>4, <3>1 DEF Same
    <3>4. \A k \in DOMAIN out : k \in DOMAIN out' /\ out'[k] = out[k]
      BY <1>1
    <3>5. Marked(sawFinish, read, out')
      BY <2>4, <3>1, <3>4, FinishStays
    <3> QED BY <3>2, <3>3, <3>5
  <2>8. ASSUME ~Lines PROVE Silent(out')
    BY <1>1, <2>4, <2>8 DEF SpeechInv, Early, Silent
  <2>9. SpeechInv'
    BY <1>1, <2>4, <2>7, <2>8 DEF SpeechInv, Lines
  <2> QED BY <2>6, <2>9
<1> QED BY <1>2, <1>3

\* A line with a chunk.
LEMMA SpeechChunk ==
  ASSUME LineInv, SpeechInv, FinalInv, ReadChunk
  PROVE  LineInv' /\ SpeechInv' /\ FinalInv'
<1> USE DEF request, relay, bridge
<1> DEFINE c == answer[next]
<1>0. /\ pc = "read" /\ Lines /\ Items(out) /\ Carries(read, pending, out) /\ Same(read, out)
      /\ Marked(sawFinish, read, out) /\ IsSeq(out) /\ NoFinal(out)
      /\ UNCHANGED <<stream, ndjson>> /\ pending \in Seq(Byte)
  BY DEF ReadChunk, LineByLine, Lines, SpeechInv, FinalInv, Early, Items, LineInv
<1>1. Chunks(read) /\ IsSeq(read)
  BY LineIs DEF Chunks
<1>2. CASE \E code \in {502} : Fail(code)
  <2>1. pending' = pending
    <3>1. pc' # pc
      BY <1>0, <1>2 DEF Fail
    <3> QED BY <3>1 DEF ReadChunk, EmitDelta, EmitText
  <2>2. LineInv'
    BY <1>0, <2>1, LineChunk
  <2> QED BY <1>0, <1>2, <2>2, SpeechFail
<1>3. CASE ~Fail(502) /\ IsDelta(c)
  <2> DEFINE saw == (sawFinish \/ c.finish # None)
  <2>1. /\ share /\ pending' = pending /\ pc' = pc
        /\ out' = Emitted(out, c) /\ sawFinish' = saw
    BY <1>3 DEF ReadChunk, EmitDelta, Emitted
  <2>2. /\ LineInv' /\ ChunkOk(c) /\ read' = Append(read, c) /\ Once(Append(read, c))
    BY <1>0, <2>1, LineChunk
  <2> HIDE DEF c
  <2>3. IsDelta(c) /\ DeltaOk(c)
    BY <1>3, <2>2 DEF ChunkOk
  <2>4. Items(out') /\ Carries(Append(read, c), pending, out') /\ Same(Append(read, c), out')
    BY <1>0, <1>1, <2>1, <2>3, CarryDelta
  <2>5. Passed(out, c, out')
    BY <1>0, <2>1, <2>3, Speak
  <2>6. Marked(saw, Append(read, c), out')
    BY <1>0, <1>1, <2>2, <2>3, <2>5, MarkDelta
  <2> HIDE DEF saw
  <2>7. NoFinal(out')
    <3> DEFINE x == Shown(c)
    <3>1. x.kind = "delta"
      BY DEF Event, Shown
    <3>2. out' = out \/ out' = Append(out, x)
      BY <2>1 DEF Emitted
    <3> HIDE DEF x
    <3> QED BY <1>0, <3>1, <3>2, StillQuiet
  <2>8. FinalInv'
    BY <1>0, <2>1, <2>7, FinalQuiet
  <2>9. Carries(read', pending', out') /\ Same(read', out') /\ Marked(sawFinish', read', out')
    BY <2>1, <2>2, <2>4, <2>6
  <2>10. SpeechInv'
    BY <1>0, <2>1, <2>4, <2>9 DEF SpeechInv, Lines
  <2> QED BY <2>2, <2>8, <2>10
<1>4. CASE ~Fail(502) /\ ~IsDelta(c)
  <2> DEFINE s == pending \o c.bytes
  <2>1. /\ share /\ pc' = pc /\ pending' = Rest(s) /\ sawFinish' = sawFinish
        /\ Voiced(out, s, out')
    BY <1>4 DEF ReadChunk, EmitText, Voiced
  <2>a. ChunkOk(c)
    <3>1. Chunks(answer) /\ next \in DOMAIN answer
      BY DEF LineInv, ReadChunk
    <3> QED BY <3>1 DEF Chunks
  <2>b. s = pending \o c.bytes /\ c = answer[next]
    OBVIOUS
  <2> HIDE DEF c, s
  <2>2. /\ Items(out') /\ Carries(Append(read, c), Rest(s), out') /\ Same(Append(read, c), out')
        /\ Rest(s) \in Seq(Byte) /\ Finishing(out') = Finishing(out)
        /\ \A k \in DOMAIN out : k \in DOMAIN out' /\ out'[k] = out[k]
    <3>1. Items(out) /\ Carries(read, pending, out) /\ Same(read, out) /\ pending \in Seq(Byte)
      BY <1>0
    <3>2. Kept(Append(read, c), s, out, out')
      BY <1>1, <1>4, <2>1, <2>a, <2>b, <3>1, CarryText
    <3> QED BY <3>2 DEF Kept
  <2>3. LineInv' /\ read' = Append(read, c)
    BY <2>1, <2>2, <2>b, LineChunk
  <2>4. Marked(sawFinish, Append(read, c), out')
    <3>1. Finishing(Append(read, c)) = Finishing(read)
      BY <1>1, <1>4, FinishingAppend
    <3>2. \A k \in DOMAIN read : Append(read, c)[k] = read[k]
      BY <1>1, SeqIs, AppendIs
    <3> QED BY <1>0, <2>2, <3>1, <3>2, FinishStays
  <2>5. NoFinal(out')
    <3> DEFINE x == Event(Chars(SubSeq(s, 1, ValidUpTo(s))), <<>>, <<>>, None)
    <3>1. x.kind = "delta"
      BY DEF Event
    <3>2. out' = out \/ out' = Append(out, x)
      BY <2>1 DEF Voiced
    <3> HIDE DEF x
    <3> QED BY <1>0, <3>1, <3>2, StillQuiet
  <2>6. FinalInv'
    BY <1>0, <2>1, <2>5, FinalQuiet
  <2>7. Carries(read', pending', out') /\ Same(read', out') /\ Marked(sawFinish', read', out')
    BY <2>1, <2>2, <2>3, <2>4
  <2>8. SpeechInv'
    BY <1>0, <2>1, <2>2, <2>7 DEF SpeechInv, Lines
  <2> QED BY <2>3, <2>6, <2>8
<1> QED BY <1>2, <1>3, <1>4

\* What says the same is as faithful.
LEMMA AsFaithful ==
  ASSUME NEW line, NEW r, NEW o, Faithful(line, r, o), NEW w, TextOf(w) = TextOf(o),
         \A i : ArgsOf(w, i) = ArgsOf(o, i)
  PROVE  Faithful(line, r, w)
  BY DEF Faithful, Same, Told

\* The lines end.
LEMMA SpeechEof ==
  ASSUME SpeechInv, FinalInv, ReadEof
  PROVE  SpeechInv' /\ FinalInv'
<1> USE DEF request, relay, bridge
<1>1. pc = "read" /\ Lines /\ UNCHANGED <<stream, ndjson, read, pending, sawFinish>>
  BY DEF ReadEof, LineByLine, Lines
<1>2. CASE pending = <<>>
  <2>1. pc' = "finish" /\ out' = out
    BY <1>2 DEF ReadEof
  <2>2. /\ Items(out) /\ Carries(read, <<>>, out) /\ Same(read, out)
        /\ Marked(sawFinish, read, out) /\ NoFinal(out)
    BY <1>1, <1>2 DEF SpeechInv, FinalInv, Early
  <2>3. Faithful(ndjson, read, out)
    <3>1. Faithful(TRUE, read, out)
      BY <2>2, CarryAll
    <3> QED BY <1>1, <3>1 DEF Faithful, Lines
  <2>4. Ending(sawFinish, read, out)
    BY <2>2 DEF Marked
  <2>5. SpeechInv'
    BY <1>1, <2>1, <2>2, <2>3, <2>4 DEF SpeechInv, Early
  <2>6. FinalInv'
    BY <2>1, <2>2, FinalQuiet
  <2> QED BY <2>5, <2>6
<1>3. CASE pending # <<>>
  <2>1. Fail(502)
    BY <1>3 DEF ReadEof
  <2> QED BY <1>1, <2>1, SpeechFail
<1> QED BY <1>2, <1>3

\* A body is read at once.
LEMMA SpeechBody ==
  ASSUME SpeechInv, FinalInv, ReadBody
  PROVE  SpeechInv' /\ FinalInv'
<1> USE DEF request, relay, bridge
<1>1. pc = "read" /\ ~Lines /\ UNCHANGED <<stream, ndjson, pending, sawFinish>>
  BY DEF ReadBody, LineByLine, Lines
<1>2. \/ Fail(502)
      \/ Aggregates(read') /\ pc' = "aggregate" /\ out' = out
  BY DEF ReadBody
<1>3. CASE Fail(502)
  BY <1>1, <1>3, SpeechFail
<1>4. CASE Aggregates(read') /\ pc' = "aggregate" /\ out' = out
  <2>1. Items(out) /\ Silent(out) /\ NoFinal(out)
    BY <1>1 DEF SpeechInv, FinalInv, Early
  <2>2. ~Lines'
    BY <1>1 DEF Lines
  <2>3. SpeechInv'
    BY <1>4, <2>1, <2>2 DEF SpeechInv, Early
  <2>4. FinalInv'
    BY <1>4, <2>1, FinalQuiet
  <2> QED BY <2>3, <2>4
<1> QED BY <1>2, <1>3, <1>4

\* The events of a stream, made from a whole body.
LEMMA SpeechAggregate ==
  ASSUME LineInv, SpeechInv, FinalInv, EmitAggregate
  PROVE  SpeechInv' /\ FinalInv'
<1> USE DEF request, relay, bridge
<1> DEFINE saw == (FinishOf(AggregateAll(read)) # None)
<1>1. /\ pc = "aggregate" /\ pc' = "finish" /\ out' = out \o EventsOf(AggregateAll(read))
      /\ sawFinish' = saw /\ read' = read /\ stream /\ ndjson' = ndjson
  BY DEF EmitAggregate
<1>2. /\ Items(out) /\ Silent(out) /\ Aggregates(read) /\ NoFinal(out) /\ IsSeq(out)
      /\ ~ndjson
  BY <1>1 DEF SpeechInv, FinalInv, Items, Lines
<1>3. Chunks(read) /\ Once(read)
  BY LineIs
<1>4. Items(out') /\ Faithful(ndjson, read, out') /\ Ending(saw, read, out')
  <2>1. Items(out') /\ Faithful(FALSE, read, out') /\ Ending(saw, read, out')
    BY <1>1, <1>2, <1>3, StreamWhole
  <2> QED BY <1>2, <2>1 DEF Faithful
<1>5. NoFinal(out')
  BY <1>1, <1>2, EventsQuiet
<1> HIDE DEF saw
<1>6. SpeechInv'
  BY <1>1, <1>4 DEF SpeechInv, Early
<1> QED BY <1>1, <1>5, <1>6, FinalQuiet

\* An answer that is no stream.
LEMMA SpeechWhole ==
  ASSUME LineInv, SpeechInv, FinalInv, AnswerWhole
  PROVE  SpeechInv' /\ FinalInv'
<1> USE DEF request, relay, bridge
<1> DEFINE finish == IF FinishOf(AggregateAll(read)) = None THEN "stop"
                     ELSE FinishOf(AggregateAll(read))
           body == [AggregateAll(read) EXCEPT !.finish = finish]
           x == Status(200)
           y == Completion(body)
<1>1. pc = "aggregate" /\ UNCHANGED <<stream, ndjson, read, pending, sawFinish>>
  BY DEF AnswerWhole
<1>2. \/ \E code \in {400, 502} : Fail(code)
      \/ out' = <<x, y>> /\ pc' = "closed"
  BY DEF AnswerWhole
<1>3. CASE \E code \in {400, 502} : Fail(code)
  BY <1>1, <1>3, SpeechFail
<1>4. CASE out' = <<x, y>> /\ pc' = "closed"
  <2>1. x.kind = "status" /\ y.kind = "completion" /\ y.body = body
    BY DEF Status, Completion
  <2>2. Complete(read, body)
    <3>1. Chunks(read)
      BY LineIs
    <3> HIDE DEF finish
    <3> QED BY <3>1, AnswerComplete
  <2> HIDE DEF x, y, body
  <2>3. /\ DOMAIN out' = {1, 2} /\ out'[1] = x /\ out'[2] = y /\ Range(out') = {x, y}
        /\ IsSeq(out')
    BY <1>4 DEF Range, IsSeq
  <2>4. Items(out')
    BY <2>1, <2>3 DEF Items, ItemOk, IsDelta
  <2>5. SpeechInv'
    BY <1>4, <2>4 DEF SpeechInv, Early
  <2>6. \A k \in DOMAIN out' : out'[k] # Done
    BY <2>1, <2>3 DEF Done
  <2>7. AggregateIsFaithful'
    BY <1>1, <2>1, <2>2, <2>3 DEF AggregateIsFaithful, Complete
  <2>8. DoneFollowsOneFinish'
    BY <2>6 DEF DoneFollowsOneFinish
  <2> QED BY <1>4, <2>5, <2>6, <2>7, <2>8 DEF FinalInv
<1> QED BY <1>2, <1>3, <1>4

\* A finish_reason is made up if the engine sent none.
LEMMA SpeechFinish ==
  ASSUME SpeechInv, FinalInv, WriteFinish
  PROVE  SpeechInv' /\ FinalInv'
<1> USE DEF request, relay, bridge
<1> DEFINE x == Event(<<>>, <<>>, <<>>, "stop")
<1>1. /\ pc = "finish" /\ pc' = "done" /\ read' = read /\ ndjson' = ndjson
      /\ out' = IF sawFinish THEN out ELSE Append(out, x)
  BY DEF WriteFinish
<1>2. x = Event(<<>>, <<>>, <<>>, "stop") /\ x.kind = "delta"
  BY DEF Event
<1> HIDE DEF x
<1>3. /\ Items(out) /\ IsSeq(out) /\ NoFinal(out) /\ Faithful(ndjson, read, out)
      /\ Ending(sawFinish, read, out)
  BY <1>1 DEF SpeechInv, FinalInv, Items
<1>4. Items(out') /\ NoFinal(out') /\ Faithful(ndjson, read, out') /\ OneFinish(read, out')
  <2>1. CASE sawFinish
    BY <1>1, <1>3, <2>1 DEF Ending
  <2>2. CASE ~sawFinish
    <3> DEFINE w == Append(out, x)
    <3>1. /\ Items(w) /\ TextOf(w) = TextOf(out) /\ x.finish = "stop"
          /\ \A i : ArgsOf(w, i) = ArgsOf(out, i)
          /\ Finishing(w) = Finishing(out) \cup {Len(out) + 1}
      <4>1. "stop" # None /\ "stop" \in Reasons
        BY FinishIs
      <4> QED BY <1>2, <1>3, <4>1, SayFinish
    <3>2. Faithful(ndjson, read, w)
      BY <1>3, <3>1, AsFaithful
    <3>3. NoFinal(w)
      BY <1>2, <1>3, StillQuiet
    <3>4. Finishing(read) = {} /\ Finishing(w) = {Len(out) + 1} /\ Len(out) + 1 \in DOMAIN w
      <4>1. Finishing(read) = {} /\ Finishing(out) = {}
        BY <1>3, <2>2 DEF Ending
      <4>2. Len(out) \in Nat /\ DOMAIN w = 1 .. Len(out) + 1
        BY <1>3, SeqIs, AppendIs
      <4> HIDE DEF w
      <4> QED BY <3>1, <4>1, <4>2
    <3> HIDE DEF w
    <3>5. OneFinish(read, w)
      BY <3>4 DEF OneFinish
    <3>6. out' = w
      BY <1>1, <2>2 DEF w
    <3> QED BY <3>1, <3>2, <3>3, <3>5, <3>6
  <2> QED BY <2>1, <2>2
<1>5. SpeechInv'
  BY <1>1, <1>4 DEF SpeechInv, Early
<1> QED BY <1>1, <1>4, <1>5, FinalQuiet

LEMMA SpeechDone ==
  ASSUME SpeechInv, FinalInv, WriteDone
  PROVE  SpeechInv' /\ FinalInv'
<1> USE DEF request, relay, bridge
<1> DEFINE n == Len(out)
<1>1. /\ pc = "done" /\ pc' = "end" /\ read' = read /\ ndjson' = ndjson
      /\ out' = Append(out, Done)
  BY DEF WriteDone
<1>2. /\ Items(out) /\ IsSeq(out) /\ NoFinal(out) /\ Faithful(ndjson, read, out) /\ OneFinish(read, out)
  BY <1>1 DEF SpeechInv, FinalInv, Items
<1>3. Done.kind = "done" /\ ~IsDelta(Done)
  BY DEF Done, IsDelta
<1>4. /\ Items(out') /\ TextOf(out') = TextOf(out) /\ Finishing(out') = Finishing(out)
      /\ \A i : ArgsOf(out', i) = ArgsOf(out, i)
  BY <1>1, <1>2, <1>3, Mute
<1>5. /\ n \in Nat /\ DOMAIN out = 1 .. n /\ Len(out') = n + 1 /\ DOMAIN out' = 1 .. n + 1
      /\ (\A k \in 1 .. n : out'[k] = out[k]) /\ out'[n + 1] = Done
  BY <1>1, <1>2, SeqIs, AppendIs
<1> HIDE DEF n
<1>6. ASSUME NEW k \in 1 .. n PROVE out'[k].kind \notin {"done", "completion"}
  BY <1>2, <1>5 DEF NoFinal
<1>7. ASSUME NEW k \in DOMAIN out', out'[k] = Done PROVE k = n + 1
  BY <1>3, <1>5, <1>6, <1>7
<1>8. Faithful(ndjson, read, out')
  BY <1>2, <1>4, AsFaithful
<1>9. DoneFollowsOneFinish'
  <2>1. PICK f \in 1 .. n :
          Finishing(out) = {f} /\ \A m \in Finishing(read) : out[f].finish = read[m].finish
    BY <1>2, <1>5 DEF OneFinish
  <2>2. /\ Finishing(out') = {f}
        /\ \A m \in Finishing(read') : out'[f].finish = read'[m].finish
    BY <1>1, <1>4, <1>5, <2>1
  <2>3. f \in 1 .. (n + 1) - 1 /\ (n + 1) + 1 .. Len(out') = {}
    BY <1>5
  <2> QED BY <1>7, <2>2, <2>3 DEF DoneFollowsOneFinish
<1>10. AggregateIsFaithful'
  <2>1. ASSUME NEW item \in Range(out') PROVE item.kind # "completion"
    <3>1. PICK k \in DOMAIN out' : item = out'[k]
      BY DEF Range
    <3>2. k \in 1 .. n \/ k = n + 1
      BY <1>5
    <3> QED BY <1>3, <1>5, <1>6, <3>1, <3>2
  <2> QED BY <2>1 DEF AggregateIsFaithful
<1>11. SpeechInv'
  BY <1>1, <1>4, <1>8 DEF SpeechInv, Early
<1>12. \A k \in DOMAIN out' : out'[k] = Done => k = Len(out')
  BY <1>5, <1>7
<1> QED BY <1>1, <1>8, <1>9, <1>10, <1>11, <1>12 DEF FinalInv

LEMMA SpeechEnd ==
  ASSUME SpeechInv, FinalInv, WriteEnd
  PROVE  SpeechInv' /\ FinalInv'
<1> USE DEF request, relay, bridge
<1> DEFINE n == Len(out)
<1>1. /\ pc = "end" /\ pc' = "closed" /\ read' = read /\ ndjson' = ndjson
      /\ out' = Append(out, End)
  BY DEF WriteEnd
<1>2. Items(out) /\ IsSeq(out) /\ Faithful(ndjson, read, out)
  BY <1>1 DEF SpeechInv, Items
<1>3. End.kind = "end" /\ ~IsDelta(End) /\ End # Done
  BY DEF End, Done, IsDelta
<1>4. /\ Items(out') /\ TextOf(out') = TextOf(out) /\ Finishing(out') = Finishing(out)
      /\ \A i : ArgsOf(out', i) = ArgsOf(out, i)
  BY <1>1, <1>2, <1>3, Mute
<1>5. /\ n \in Nat /\ DOMAIN out = 1 .. n /\ Len(out') = n + 1 /\ DOMAIN out' = 1 .. n + 1
      /\ (\A k \in 1 .. n : out'[k] = out[k]) /\ out'[n + 1] = End
  BY <1>1, <1>2, SeqIs, AppendIs
<1>6. Faithful(ndjson, read, out')
  BY <1>2, <1>4, AsFaithful
<1>7. \A k \in DOMAIN out : out[k] = Done => k = n
  BY <1>1 DEF FinalInv
<1> HIDE DEF n
<1>8. ASSUME NEW k \in DOMAIN out', out'[k] = Done PROVE k = n /\ n \in DOMAIN out /\ out[n] = Done
  <2>1. k # n + 1
    BY <1>3, <1>5, <1>8
  <2>2. k \in 1 .. n
    BY <1>5, <2>1
  <2> QED BY <1>5, <1>7, <1>8, <2>2
<1>9. DoneFollowsOneFinish'
  <2> SUFFICES ASSUME NEW k \in DOMAIN out', out'[k] = Done
               PROVE  /\ \E f \in 1 .. k - 1 :
                           /\ Finishing(out') = {f}
                           /\ \A m \in Finishing(read') : out'[f].finish = read'[m].finish
                      /\ \A m \in k + 1 .. Len(out') : out'[m] = End
    BY DEF DoneFollowsOneFinish
  <2>1. k = n /\ n \in DOMAIN out /\ out[n] = Done
    BY <1>8
  <2>2. PICK f \in 1 .. n - 1 :
          Finishing(out) = {f} /\ \A m \in Finishing(read) : out[f].finish = read[m].finish
    BY <2>1 DEF FinalInv, DoneFollowsOneFinish
  <2>3. f \in 1 .. n
    BY <1>5, <2>2
  <2>4. /\ Finishing(out') = {f}
        /\ \A m \in Finishing(read') : out'[f].finish = read'[m].finish
    BY <1>1, <1>4, <1>5, <2>2, <2>3
  <2>5. \A m \in n + 1 .. Len(out') : m = n + 1
    BY <1>5
  <2> QED BY <1>5, <2>1, <2>2, <2>4, <2>5
<1>10. AggregateIsFaithful'
  <2>1. ASSUME NEW item \in Range(out'), item.kind = "completion" PROVE item \in Range(out)
    <3>1. PICK k \in DOMAIN out' : item = out'[k]
      BY DEF Range
    <3>2. k # n + 1
      BY <1>3, <1>5, <2>1, <3>1
    <3>3. k \in 1 .. n
      BY <1>5, <3>2
    <3> QED BY <1>5, <3>1, <3>3 DEF Range
  <2> QED BY <1>1, <2>1 DEF FinalInv, AggregateIsFaithful
<1>11. SpeechInv'
  BY <1>1, <1>4 DEF SpeechInv, Early
<1> QED BY <1>1, <1>6, <1>9, <1>10, <1>11 DEF FinalInv

\* The client is gone, or nothing happens.
LEMMA SpeechClosed ==
  ASSUME SpeechInv, FinalInv, UNCHANGED <<stream, ndjson, read, pending, sawFinish, out>>,
         pc' = pc \/ pc' = "closed"
  PROVE  SpeechInv' /\ FinalInv'
<1>1. DoneFollowsOneFinish' /\ AggregateIsFaithful'
  BY DEF FinalInv, DoneFollowsOneFinish, AggregateIsFaithful
<1>2. FinalInv'
  BY <1>1 DEF FinalInv
<1>3. SpeechInv'
  <2>1. CASE pc' = "closed"
    BY <2>1 DEF SpeechInv, Early
  <2>2. CASE pc' = pc
    BY <2>2 DEF SpeechInv, Early, Lines
  <2> QED BY <2>1, <2>2
<1> QED BY <1>2, <1>3

BridgeInv == CleanInv /\ LineInv /\ SpeechInv /\ FinalInv

LEMMA BridgeInvNext == BridgeInv /\ [Next]_vars => BridgeInv'
<1> SUFFICES ASSUME CleanInv, LineInv, SpeechInv, FinalInv, Next \/ UNCHANGED vars
             PROVE  LineInv' /\ SpeechInv' /\ FinalInv'
  BY CleanNext DEF BridgeInv
<1> USE DEF request, relay, bridge
<1>1. CASE Begin
  <2>1. pc = "start" /\ UNCHANGED <<stream, ndjson, answer, next, read, pending>>
    BY <1>1 DEF Begin
  <2>2. LineInv'
    BY <2>1, LineStay DEF Early
  <2> QED BY <1>1, <2>2, SpeechBegin
<1>2. CASE Prepare \/ Dispatch
  <2>1. /\ UNCHANGED <<stream, ndjson, answer, next, read, pending, sawFinish>>
        /\ pc \in {"prepare", "dispatch"}
    BY <1>2 DEF Prepare, Dispatch
  <2>2. LineInv'
    BY <2>1, LineStay DEF Early
  <2>3. \/ \E code \in {400, 403, 500, 502} : Fail(code)
        \/ pc' \in {"dispatch", "read"} /\ out' = out
    BY <1>2 DEF Prepare, Dispatch
  <2>4. CASE \E code \in {400, 403, 500, 502} : Fail(code)
    BY <2>1, <2>2, <2>4, SpeechFail
  <2>5. CASE pc' \in {"dispatch", "read"} /\ out' = out
    <3>1. pc \in Early /\ pc' \in Early
      BY <2>1, <2>5 DEF Early
    <3> QED BY <2>1, <2>2, <2>5, <3>1, SpeechStay
  <2> QED BY <2>3, <2>4, <2>5
<1>3. CASE ReadShare \/ ReadTrailer
  <2>1. UNCHANGED <<stream, ndjson, read, pending, sawFinish, out, pc>> /\ pc = "read"
    BY <1>3 DEF ReadShare, ReadTrailer, LineByLine
  <2>2. LineInv'
    BY <1>3, LineRead
  <2>3. pc \in Early /\ pc' \in Early
    BY <2>1 DEF Early
  <2> QED BY <2>1, <2>2, <2>3, SpeechStay
<1>4. CASE ReadChunk
  BY <1>4, SpeechChunk
<1>5. CASE ReadEof \/ ReadFails
  <2>1. UNCHANGED <<stream, ndjson, answer, next, read, pending>> /\ pc = "read"
    BY <1>5 DEF ReadEof, ReadFails, LineByLine
  <2>2. LineInv'
    BY <2>1, LineStay DEF Early
  <2>3. CASE ReadFails
    <3>1. Fail(502)
      BY <2>3 DEF ReadFails
    <3> QED BY <2>1, <2>2, <3>1, SpeechFail
  <2> QED BY <1>5, <2>2, <2>3, SpeechEof
<1>6. CASE ReadBody
  BY <1>6, LineRead, SpeechBody
<1>7. CASE EmitAggregate \/ AnswerWhole
  <2>1. /\ UNCHANGED <<stream, ndjson, answer, next, read, pending>>
        /\ pc' \in {"finish", "closed"}
    BY <1>7 DEF EmitAggregate, AnswerWhole, Fail
  <2>2. LineInv'
    BY <2>1, LineStay DEF Early
  <2> QED BY <1>7, <2>2, SpeechAggregate, SpeechWhole
<1>8. CASE WriteFinish \/ WriteDone \/ WriteEnd
  <2>1. /\ UNCHANGED <<stream, ndjson, answer, next, read, pending>>
        /\ pc' \in {"done", "end", "closed"}
    BY <1>8 DEF WriteFinish, WriteDone, WriteEnd
  <2>2. LineInv'
    BY <2>1, LineStay DEF Early
  <2> QED BY <1>8, <2>2, SpeechFinish, SpeechDone, SpeechEnd
<1>9. CASE WriteFails \/ UNCHANGED vars
  <2>1. /\ UNCHANGED <<stream, ndjson, answer, next, read, pending, sawFinish, out>>
        /\ pc' = pc \/ pc' = "closed"
    BY <1>9 DEF WriteFails, vars
  <2>2. LineInv'
    BY <2>1, LineStay DEF Early
  <2> QED BY <2>1, <2>2, SpeechClosed
<1> QED BY <1>1, <1>2, <1>3, <1>4, <1>5, <1>6, <1>7, <1>8, <1>9 DEF Next

LEMMA BridgeInvariance == Spec => []BridgeInv
<1>1. Init => BridgeInv
  BY CleanInit, LineInit, SpeechInit DEF BridgeInv
<1> QED BY <1>1, BridgeInvNext, PTL DEF Spec

\* The calls of chunks and of items have indices from 0 on.
LEMMA IndicesAre == ASSUME NEW s, Items(s) PROVE Indices(s) \subseteq Nat
<1> SUFFICES ASSUME NEW k \in DOMAIN s, IsDelta(s[k]), NEW f \in Range(s[k].tools), f.index # None
             PROVE  f.index \in Nat
  BY DEF Indices, Fragments
<1>1. s[k].tools \in Seq(Fragment)
  BY DEF Items, ItemOk, DeltaOk
<1>2. f \in Fragment
  BY <1>1, RangeOfSeq
<1> QED BY <1>2 DEF Fragment

\* The text and the tool calls of a stream that was ended are those of the chunks
\* read, whatever the engine answers and however its text is cut into chunks: line
\* by line with what is under one name of a frame's reasoning, and from a whole
\* body with what is under both, and the tool calls by index if all have one.
\* No fragment of a tool call is lost.
THEOREM StreamFaithful == Spec => []StreamIsFaithful
<1>1. BridgeInv => StreamIsFaithful
  <2> SUFFICES ASSUME BridgeInv, Done \in Range(out)
               PROVE  /\ OnlyText(read) => Whole(Bytes(read)) /\ TextOf(out) = Chars(Bytes(read))
                      /\ Bytes(read) = <<>> =>
                           TextOf(out) = TextOf(IF ndjson THEN Heard(read) ELSE read)
                      /\ \A i \in Indices(read) \cup Indices(out) :
                           ndjson \/ AllIndexed(read) => ArgsOf(out, i) = ArgsOf(read, i)
                      /\ ndjson => ArgsOf(out, None) = ArgsOf(read, None)
                      /\ \A f \in Fragments(read) : \E g \in Fragments(out) : g.arg = f.arg
    BY DEF StreamIsFaithful
  <2>1. Faithful(ndjson, read, out)
    BY DEF BridgeInv, FinalInv, Range
  <2>2. Items(out) /\ Items(read)
    BY LineIs, ChunksAreItems DEF BridgeInv, SpeechInv
  <2>3. Indices(read) \cup Indices(out) \subseteq Nat
    BY <2>2, IndicesAre
  <2>4. ASSUME NEW f \in Fragments(read) PROVE \E g \in Fragments(out) : g.arg = f.arg
    <3>1. PICK i : f.arg \in Range(ArgsOf(out, i))
      <4>1. CASE ndjson
        <5>1. f.arg \in Range(ArgsOf(read, f.index))
          BY <2>2, ArgsOfRange
        <5> QED BY <2>1, <4>1, <5>1 DEF Faithful, Same
      <4>2. CASE ~ndjson
        BY <2>1, <4>2 DEF Faithful, Told
      <4> QED BY <4>1, <4>2
    <3> QED BY <2>2, <3>1, ArgsOfRange
  <2>5. CASE ndjson
    BY <2>1, <2>4, <2>5 DEF Faithful, Same
  <2>6. CASE ~ndjson
    BY <2>1, <2>3, <2>4, <2>6 DEF Faithful, Told
  <2> QED BY <2>5, <2>6
<1> QED BY <1>1, BridgeInvariance, PTL

\* A buffered answer has the text of all chunks, under both names of a frame's
\* reasoning, and every fragment of a tool call, by index if all have one.
THEOREM AggregateFaithful == Spec => []AggregateIsFaithful
<1>1. BridgeInv => AggregateIsFaithful
  BY DEF BridgeInv, FinalInv
<1> QED BY <1>1, BridgeInvariance, PTL

\* [DONE] follows exactly one finish_reason, the engine's if there is one.
THEOREM DoneAfterOneFinish == Spec => []DoneFollowsOneFinish
<1>1. BridgeInv => DoneFollowsOneFinish
  BY DEF BridgeInv, FinalInv
<1> QED BY <1>1, BridgeInvariance, PTL

\* What the accumulator keeps is less than a character.
FlatInv ==
  /\ stream \in BOOLEAN /\ embeddings \in BOOLEAN /\ ndjson \in BOOLEAN
  /\ answer \in Answers
  /\ reply \in {"none", "ok", "client", "server"}
  /\ pc \in Early \cup {"aggregate", "finish", "done", "end", "closed"}
  /\ next \in 0 .. Len(answer) + 2
  /\ share \in BOOLEAN /\ sawFinish \in BOOLEAN
  /\ Len(pending) < 4

LEMMA FlatInit == Init => FlatInv
<1> SUFFICES ASSUME Init PROVE FlatInv
  OBVIOUS
<1>1. Len(answer) \in Nat
  <2>1. IsSeq(answer)
    BY OpeStreamAssumption DEF Init, IsSeq
  <2> QED BY <2>1, SeqIs
<1>2. Len(pending) = 0
  BY EmptySeq DEF Init
<1>3. next \in 0 .. Len(answer) + 2
  BY <1>1 DEF Init
<1>4. Len(pending) < 4
  BY <1>2
<1>5. share \in BOOLEAN /\ sawFinish \in BOOLEAN
  BY DEF Init
<1> QED BY <1>3, <1>4, <1>5 DEF Init, FlatInv, Early

LEMMA LessThanACharacter ==
  ASSUME NEW s \in Seq(Byte), Incomplete(s)
  PROVE  Len(s) < 4
<1>1. Len(s) \in Nat /\ DOMAIN s = 1 .. Len(s)
  BY LenProperties
<1>2. CASE Len(s) = 0
  BY <1>2
<1>3. CASE Len(s) # 0
  <2>1. Len(s) \in DOMAIN s
    BY <1>1, <1>3
  <2>2. s[Len(s)].n \in 1 .. 4
    <3>1. s[Len(s)] \in Byte
      BY <2>1, <1>1, ElementOfSeq
    <3> QED BY <3>1 DEF Byte
  <2>3. Len(s) < s[Len(s)].n
    BY <2>1 DEF Incomplete
  <2> QED BY <1>1, <2>2, <2>3
<1> QED BY <1>2, <1>3

LEMMA FlatNext == BridgeInv /\ FlatInv /\ [Next]_vars => FlatInv'
<1> SUFFICES ASSUME BridgeInv, FlatInv, Next \/ UNCHANGED vars PROVE FlatInv'
  OBVIOUS
<1> USE DEF request, relay, bridge
<1>0. Len(answer) \in Nat /\ DOMAIN answer = 1 .. Len(answer) /\ pending \in Seq(Byte)
  BY SeqIs DEF BridgeInv, LineInv, Chunks
<1>1. CASE Begin \/ Prepare \/ Dispatch
  BY <1>1 DEF FlatInv, Early, Begin, Prepare, Dispatch, Fail
<1>2. CASE ReadShare \/ ReadTrailer
  <2>1. next' \in 0 .. Len(answer) + 2
    BY <1>0, <1>2 DEF ReadShare, ReadTrailer
  <2> QED BY <1>2, <2>1 DEF FlatInv, ReadShare, ReadTrailer
<1>3. CASE ReadChunk
  <2>1. next' \in 0 .. Len(answer) + 2
    BY <1>0, <1>3 DEF ReadChunk
  <2>2. /\ UNCHANGED <<stream, embeddings, answer, ndjson, reply, share>>
        /\ pc' = pc \/ pc' = "closed"
    BY <1>3 DEF ReadChunk, EmitDelta, EmitText, Fail
  <2>3. sawFinish' \in BOOLEAN
    BY <1>3 DEF ReadChunk, EmitDelta, EmitText, FlatInv
  <2>4. Len(pending') < 4
    <3> DEFINE s == pending \o answer[next].bytes
    <3>1. pending' = pending \/ (pending' = Rest(s) /\ Incomplete(Rest(s)))
      BY <1>3 DEF ReadChunk, EmitDelta, EmitText, Rest
    <3>2. pending' \in Seq(Byte)
      BY BridgeInvNext DEF BridgeInv, LineInv
    <3> HIDE DEF s
    <3>3. CASE pending' = pending
      BY <3>3 DEF FlatInv
    <3>4. CASE Incomplete(pending')
      BY <3>2, <3>4, LessThanACharacter
    <3> QED BY <3>1, <3>3, <3>4
  <2> QED BY <2>1, <2>2, <2>3, <2>4 DEF FlatInv
<1>4. CASE ReadEof \/ ReadFails \/ ReadBody
  <2>1. /\ UNCHANGED <<stream, embeddings, answer, ndjson, reply, next, share, pending, sawFinish>>
        /\ pc' \in {"finish", "aggregate", "closed"}
    BY <1>4 DEF ReadEof, ReadFails, ReadBody, Fail
  <2> QED BY <2>1 DEF FlatInv
<1>5. CASE EmitAggregate \/ AnswerWhole
  <2>1. /\ UNCHANGED <<stream, embeddings, answer, ndjson, reply, next, share, pending>>
        /\ pc' \in {"finish", "closed"}
    BY <1>5 DEF EmitAggregate, AnswerWhole, Fail
  <2>2. sawFinish' = sawFinish \/ sawFinish' = (FinishOf(AggregateAll(read)) # None)
    BY <1>5 DEF EmitAggregate, AnswerWhole
  <2>3. sawFinish' \in BOOLEAN
    BY <2>2 DEF FlatInv
  <2> QED BY <2>1, <2>3 DEF FlatInv
<1>6. CASE WriteFinish \/ WriteDone \/ WriteEnd \/ WriteFails \/ UNCHANGED vars
  BY <1>6 DEF FlatInv, WriteFinish, WriteDone, WriteEnd, WriteFails, vars
<1> QED BY <1>1, <1>2, <1>3, <1>4, <1>5, <1>6 DEF Next

\* The type invariant of the bridge.
THEOREM BridgeTypes == Spec => []TypeOK
<1>1. BridgeInv /\ FlatInv => TypeOK
  <2> SUFFICES ASSUME BridgeInv, FlatInv PROVE TypeOK
    OBVIOUS
  <2>1. IsPrefix(read, answer)
    <3>1. /\ IsSeq(read) /\ IsSeq(answer)
          /\ \A k \in DOMAIN read : k \in DOMAIN answer /\ read[k] = answer[k]
      BY DEF BridgeInv, LineInv, Chunks
    <3>2. /\ Len(read) \in Nat /\ DOMAIN read = 1 .. Len(read)
          /\ Len(answer) \in Nat /\ DOMAIN answer = 1 .. Len(answer)
      BY <3>1, SeqIs
    <3>3. Len(read) <= Len(answer)
      <4>1. CASE Len(read) = 0
        BY <3>2, <4>1
      <4>2. CASE Len(read) # 0
        <5>1. Len(read) \in DOMAIN read
          BY <3>2, <4>2
        <5> QED BY <3>1, <3>2, <5>1
      <4> QED BY <4>1, <4>2
    <3>4. SubSeq(read, 1, Len(read)) = [i \in 1 .. Len(read) |-> read[i]]
      BY <3>2
    <3>5. SubSeq(answer, 1, Len(read)) = [i \in 1 .. Len(read) |-> answer[i]]
      BY <3>2
    <3>6. SubSeq(read, 1, Len(read)) = SubSeq(answer, 1, Len(read))
      BY <3>1, <3>2, <3>4, <3>5
    <3> QED BY <3>3, <3>6 DEF IsPrefix
  <2>2. pending \in Seq(Byte)
    BY DEF BridgeInv, LineInv
  <2>3. out \in Seq(Range(out)) /\ \A item \in Range(out) : IsDelta(item) => DeltaOk(item)
    BY DEF BridgeInv, SpeechInv, Items, ItemOk, IsSeq, Range
  <2> QED BY <2>1, <2>2, <2>3 DEF FlatInv, TypeOK, Early
<1> QED BY <1>1, FlatInit, FlatNext, BridgeInvariance, PTL DEF Spec

-----------------------------------------------------------------------------
(***************************************************************************)
(* In the enclave.                                                         *)
(***************************************************************************)

\* All of it holds in the enclave, through its implementation of the bridge.
THEOREM EnclaveStream ==
  SgxSpec => [](/\ StreamIsFaithful /\ AggregateIsFaithful
                /\ DoneFollowsOneFinish /\ EndedOnlyIfClean)
<1>1. SgxSpec => Spec
  BY RefinesBridge DEF ImplementsBridge
<1> QED BY <1>1, StreamFaithful, AggregateFaithful, DoneAfterOneFinish, EndIsClean, PTL

\* The preparation's own variables ...
DataInv ==
  /\ policy \in Policies /\ offer \in Offers
  /\ floor \in Nat \cup {Absent, Torn} /\ nowMs \in Nat /\ accepted \in Nat

\* ... and how far the request, its preparation and its exchange are.
OrderInv ==
  /\ turn \in Preparing \cup {"idle", "waiting", "dispatch"}
  /\ call \in {"none", "connect", "request", "reply"}
  /\ framing \in Framings \cup {"none"}
  /\ turn \in Preparing \cup {"waiting"} => pc = "prepare"
  /\ turn = "dispatch" <=> pc = "dispatch"
  /\ call # "none" <=> turn \in Calls \cup {"dispatch"}
  /\ pc \in {"read", "aggregate", "finish", "done", "end"} => framing # "none"

LEMMA DataInit == SgxInit => DataInv /\ OrderInv
<1> SUFFICES ASSUME SgxInit PROVE DataInv /\ OrderInv
  OBVIOUS
<1>1. MaxTime \in Nat
  BY SgxUpstreamAssumption DEF Dispatcher!OpeDispatchAssumption
<1>2. DataInv
  BY <1>1 DEF SgxInit, DataInv
<1>3. OrderInv
  BY DEF SgxInit, Init, OrderInv, Preparing, Calls
<1> QED BY <1>2, <1>3

LEMMA DataNext == DataInv /\ [SgxNext]_sgxVars => DataInv'
<1> SUFFICES ASSUME DataInv, [SgxNext]_sgxVars PROVE DataInv'
  OBVIOUS
<1>0. MaxTime \in Nat
  BY SgxUpstreamAssumption DEF Dispatcher!OpeDispatchAssumption
<1> USE DEF trust, clock
<1>1. CASE SgxBegin \/ Connect \/ WriteRequest \/ SgxDispatch \/ UNCHANGED sgxVars
  BY <1>1 DEF SgxBegin, Connect, WriteRequest, SgxDispatch, sgxVars, DataInv
<1>2. CASE Answering
  BY <1>2, AnsweringIs DEF Detailed, DataInv
<1>3. CASE \/ Enter \/ Acquire \/ Inventory \/ CallFails \/ CallRefused \/ FloorFails
           \/ CheckExpiry \/ Challenge \/ AcceptRecipient \/ Encrypt
  BY <1>3 DEF Enter, Acquire, Inventory, CallFails, CallRefused, FloorFails, CheckExpiry,
              Challenge, AcceptRecipient, Encrypt, Proceed, Refuse, DataInv
<1>4. ASSUME NEW o \in Offers, Preassign(o) PROVE DataInv'
  BY <1>4 DEF Preassign, Refuse, DataInv
<1>5. ASSUME NEW t \in 0 .. MaxTime, ReadFloor(t) PROVE DataInv'
  BY <1>0, <1>5 DEF ReadFloor, Proceed, Refuse, DataInv
<1>6. CASE Truncate \/ WriteFloor
  BY <1>6 DEF Truncate, WriteFloor, Proceed, Dispatcher!Later, DataInv
<1> QED BY <1>1, <1>2, <1>3, <1>4, <1>5, <1>6 DEF SgxNext, Answering

LEMMA OrderRefuse == ASSUME OrderInv, NEW code, Refuse(code) PROVE OrderInv'
  BY DEF OrderInv, Refuse, Fail, Preparing, Calls

LEMMA OrderProceed ==
  ASSUME OrderInv, pc = "prepare", NEW point \in Preparing \cup {"waiting"}, Proceed(point)
  PROVE  OrderInv'
<1>1. /\ pc' = pc /\ turn' = point /\ framing' = framing
      /\ call' = IF point \in Calls THEN "connect" ELSE "none"
  BY DEF Proceed, vars
<1>2. point \notin {"idle", "dispatch"}
  BY DEF Preparing
<1> QED BY <1>1, <1>2 DEF OrderInv

\* An answer is written only after the gateway's reply.
LEMMA OrderAnswering ==
  ASSUME Answering
  PROVE  pc' \in {"read", "aggregate", "finish", "done", "end"} =>
           pc \in {"read", "aggregate", "finish", "done", "end"}
<1>1. CASE \/ SgxReadShare \/ ReadText \/ ReadDelta \/ SgxReadTrailer \/ SgxReadEof
           \/ SgxReadFails \/ SgxReadBody
  <2>1. pc = "read"
    BY <1>1, ReadChunkPc
       DEF SgxReadShare, ReadText, ReadDelta, SgxReadTrailer, SgxReadEof, SgxReadFails,
           SgxReadBody, ReadShare, ReadTrailer, ReadEof, ReadFails, ReadBody, LineByLine
  <2> QED BY <2>1
<1>2. CASE \/ SgxEmitAggregate \/ SgxAnswerWhole
           \/ SgxWriteFinish \/ SgxWriteDone \/ SgxWriteEnd \/ SgxWriteFails
  BY <1>2 DEF SgxEmitAggregate, SgxAnswerWhole, SgxWriteFinish, SgxWriteDone, SgxWriteEnd,
              SgxWriteFails, EmitAggregate, AnswerWhole, WriteFinish, WriteDone, WriteEnd,
              WriteFails
<1> QED BY <1>1, <1>2 DEF Answering

LEMMA OrderNext == StepInv /\ OrderInv /\ [SgxNext]_sgxVars => OrderInv'
<1> SUFFICES ASSUME StepInv, OrderInv, [SgxNext]_sgxVars PROVE OrderInv'
  OBVIOUS
<1>0. turn \in Preparing \cup {"waiting"} => pc = "prepare"
  BY DEF OrderInv
<1>1. CASE SgxBegin
  <2>1. pc = "start" /\ pc' = "prepare" /\ turn = "idle" /\ UNCHANGED <<turn, call, framing>>
    BY <1>1 DEF SgxBegin, Begin, StepInv, PhaseInv
  <2> QED BY <2>1 DEF OrderInv, Preparing, Calls
<1>2. CASE Connect \/ WriteRequest
  BY <1>2 DEF Connect, WriteRequest, vars, OrderInv
<1>3. CASE CallFails \/ CallRefused \/ FloorFails
  BY <1>3, OrderRefuse DEF CallFails, CallRefused, FloorFails
<1>4. CASE Enter \/ Acquire \/ Inventory
  BY <1>0, <1>4, OrderRefuse, OrderProceed DEF Enter, Acquire, Inventory, Preparing
<1>5. ASSUME NEW o \in Offers, Preassign(o) PROVE OrderInv'
  <2>1. CASE o.bound
    <3>1. turn = "preassign" /\ turn' = "observe" /\ call' = "none" /\ UNCHANGED <<pc, framing>>
      BY <1>5, <2>1 DEF Preassign, vars
    <3> QED BY <3>1 DEF OrderInv, Preparing, Calls
  <2>2. CASE ~o.bound
    BY <1>5, <2>2, OrderRefuse DEF Preassign
  <2> QED BY <2>1, <2>2
<1>6. ASSUME NEW t \in 0 .. MaxTime, ReadFloor(t) PROVE OrderInv'
  BY <1>0, <1>6, OrderRefuse, OrderProceed DEF ReadFloor, Preparing
<1>7. CASE Truncate \/ WriteFloor
  BY <1>0, <1>7, OrderProceed DEF Truncate, WriteFloor, Preparing
<1>8. CASE CheckExpiry \/ Challenge \/ AcceptRecipient
  BY <1>0, <1>8, OrderRefuse, OrderProceed DEF CheckExpiry, Challenge, AcceptRecipient, Preparing
<1>9. CASE Encrypt
  <2>1. CASE Refuse(500)
    BY <2>1, OrderRefuse
  <2>2. CASE ~Refuse(500)
    <3>1. pc' = "dispatch" /\ turn' = "dispatch" /\ call' = "connect" /\ framing' = framing
      BY <1>9, <2>2 DEF Encrypt
    <3> QED BY <3>1 DEF OrderInv, Preparing
  <2> QED BY <2>1, <2>2
<1>10. CASE SgxDispatch
  <2>1. /\ turn' = "idle" /\ call' = "none"
        /\ \/ pc' = "read" /\ framing' \in Framings
           \/ pc' = "closed" /\ framing' \in Framings \cup {framing}
    BY <1>10 DEF SgxDispatch, Dispatch, Fail
  <2> QED BY <2>1 DEF OrderInv, Preparing, Calls, Framings
<1>11. CASE Answering
  <2>1. UNCHANGED <<turn, call, framing>> /\ pc \notin {"prepare", "dispatch"} /\ pc' # "dispatch"
    BY <1>11, AnsweringIs DEF Detailed
  <2>2. pc' \in {"read", "aggregate", "finish", "done", "end"} => framing # "none"
    BY <1>11, OrderAnswering DEF OrderInv
  <2>3. turn \notin Preparing \cup {"waiting", "dispatch"}
    BY <2>1 DEF OrderInv
  <2> QED BY <2>1, <2>2, <2>3 DEF OrderInv
<1>12. CASE UNCHANGED sgxVars
  BY <1>12 DEF sgxVars, vars, OrderInv
<1> QED
  BY <1>1, <1>2, <1>3, <1>4, <1>5, <1>6, <1>7, <1>8, <1>9, <1>10, <1>11, <1>12
     DEF SgxNext, Answering

\* The type invariant of the enclave's upstream, with the phases of a request.
THEOREM EnclaveTypes == SgxSpec => []SgxTypeOK
<1>1. TypeOK /\ DataInv /\ OrderInv => SgxTypeOK
  <2> SUFFICES ASSUME TypeOK, DataInv, OrderInv PROVE SgxTypeOK
    OBVIOUS
  <2>1. Dispatcher!TypeOK
    BY DEF DataInv, OrderInv, Dispatcher!TypeOK, Dispatcher!Preparing, Preparing
  <2>2. Calls \cup {"dispatch"} = {"inventory", "preassign", "challenge", "dispatch"}
    BY DEF Calls
  <2> QED BY <2>1, <2>2 DEF OrderInv, SgxTypeOK
<1>2. SgxSpec => Spec
  BY RefinesBridge DEF ImplementsBridge
<1>3. SgxSpec => [](DataInv /\ OrderInv)
  BY DataInit, DataNext, OrderNext, StepInvariance, PTL DEF SgxSpec
<1> QED BY <1>1, <1>2, <1>3, BridgeTypes, PTL
=============================================================================
