---------------------------- MODULE SgxUpstream -----------------------------
(***************************************************************************)
(* The encrypted upstream inside the enclave:                              *)
(* crates/openapi-platform-sgx/src/ope_upstream.rs and its gateway client  *)
(* gateway_ope_api.rs.  The wire logic is that of the CVM edge, without    *)
(* the check of AMD's chain, but the HTTP client is the edge's own: every  *)
(* call opens a TLS connection, writes its request, reads the header of    *)
(* the reply byte by byte and its body through FramedBodyReader.           *)
(*                                                                         *)
(* One request is followed from its first byte to the last of its answer.  *)
(* It composes what OpeDispatch and OpeStream describe apart: it extends   *)
(* OpeStream, whose steps the two platforms share, and Dispatcher is       *)
(* OpeDispatch seen by this worker alone.  The module is to implement both *)
(* specifications, Spec of OpeStream and Dispatcher!Spec.                  *)
(***************************************************************************)
EXTENDS OpeStream

CONSTANTS
  MaxTime, Reports, Policies, Offers, Absent, Torn,   \* as in OpeDispatch
  Me, Nobody               \* the worker, and no worker

VARIABLES
  policy, floor, offer, nowMs, accepted,   \* as in OpeDispatch
  turn,      \* where the preparation stands
  call,      \* where the exchange with the gateway stands
  framing    \* how the body of the answer is framed

clock     == <<floor, nowMs, accepted>>
trust     == <<policy, clock, offer>>
sgxVars   == <<vars, trust, turn, call, framing>>

\* BodyFraming: a Content-Length, up to the close, or chunks; the gateway may pad
\* the sizes of its chunks with leading zeros.
Framings == {"length", "close", "chunked", "padded"}

\* Where the guard of OpeDispatchUpstream.lock is alive.
Preparing == {"inventory", "preassign", "observe", "truncate", "write", "expiry",
              "challenge", "recipient", "encrypt"}

\* A request begins its only turn before any time is accepted: peak is 0.
Dispatcher == INSTANCE OpeDispatch WITH
  Workers  <- {Me},
  Genuine  <- {},
  lock     <- IF turn \in Preparing THEN Me ELSE Nobody,
  verified <- {},
  pc       <- [w \in {Me} |-> turn],
  offer    <- [w \in {Me} |-> offer],
  nowMs    <- [w \in {Me} |-> nowMs],
  peak     <- [w \in {Me} |-> 0]

ASSUME SgxUpstreamAssumption == Dispatcher!OpeDispatchAssumption

SgxTypeOK ==
  /\ TypeOK
  /\ Dispatcher!TypeOK
  /\ turn \in Preparing \cup {"idle", "waiting", "dispatch"}
  /\ call \in {"none", "connect", "request", "reply"}
  /\ framing \in Framings \cup {"none"}
  /\ turn \in Preparing \cup {"waiting"} => pc = "prepare"
  /\ turn = "dispatch" <=> pc = "dispatch"
  /\ call # "none" <=> turn \in {"inventory", "preassign", "challenge", "dispatch"}
  /\ pc \in {"read", "aggregate", "finish", "done", "end"} => framing # "none"

\* No chain of AMD's is checked: openapi-attest does not link in the enclave.
SgxInit ==
  /\ Init
  /\ policy \in {p \in Policies : ~p.chain}
  /\ floor \in 0 .. MaxTime \cup {Absent, Torn}
  /\ offer \in Offers
  /\ nowMs = 0 /\ accepted = 0
  /\ turn = "idle" /\ call = "none" /\ framing = "none"

\* The preparation goes on to `point`; some of its steps call the gateway.
Calls == {"inventory", "preassign", "challenge"}
Proceed(point) ==
  /\ turn' = point
  /\ call' = IF point \in Calls THEN "connect" ELSE "none"
  /\ UNCHANGED <<vars, policy, offer, framing>>

\* Mutant: an error is answered with its status, also after the header of a stream.
RefuseAnswers(code) ==
  /\ pc' = "closed" /\ out' = Append(out, Status(code))
  /\ turn' = "idle" /\ call' = "none"
  /\ UNCHANGED <<request, relay, bridge, policy, framing>>

\* The request is answered with an error, and the guard dropped.
Refuse(code) ==
  /\ Fail(code)
  /\ turn' = "idle" /\ call' = "none"
  /\ UNCHANGED <<request, relay, bridge, policy, framing>>

-----------------------------------------------------------------------------
(***************************************************************************)
(* GatewayOpeApiClient: one exchange                                       *)
(***************************************************************************)

Connect ==
  /\ call = "connect"
  /\ call' = "request"
  /\ UNCHANGED <<vars, trust, turn, framing>>

WriteRequest ==
  /\ call = "request"
  /\ call' = "reply"
  /\ UNCHANGED <<vars, trust, turn, framing>>

\* Statuses the gateway refuses a call with, and map_gw.
Refusals == {403, 404, 409, 503}
MapGw(status) ==
  IF status = 403 THEN 403
  ELSE IF status \in 400 .. 499 /\ status # 409 THEN 400 ELSE 502

\* The connection, the header or the body fails, or what came does not decode.
CallFails ==
  /\ call # "none"
  /\ Refuse(502)
  /\ UNCHANGED <<clock, offer>>

\* A status other than 200, to a call of the preparation.
CallRefused ==
  /\ call = "reply" /\ turn \in Calls
  /\ \E status \in Refusals : Refuse(MapGw(status))
  /\ UNCHANGED <<clock, offer>>

-----------------------------------------------------------------------------
(***************************************************************************)
(* prepare                                                                 *)
(***************************************************************************)

\* dispatch_to_writer, then forward_v1_ctx or forward_v1_stream_ctx.
SgxBegin ==
  /\ Begin
  /\ UNCHANGED <<trust, turn, call, framing>>

\* The body is JSON and not a stream of embeddings; the worker queues up.
Enter ==
  /\ pc = "prepare" /\ turn = "idle"
  /\ \/ Refuse(400)
     \/ ~(stream /\ embeddings) /\ Proceed("waiting")
  /\ UNCHANGED <<clock, offer>>

Acquire ==
  /\ turn = "waiting"
  /\ Proceed("inventory")
  /\ UNCHANGED <<clock, offer>>

\* pick_engine finds a healthy engine for the model, or no model is named, or
\* none serves it.
Inventory ==
  /\ turn = "inventory" /\ call = "reply"
  /\ \/ Proceed("preassign")
     \/ \E code \in {400, 502} : Refuse(code)
  /\ UNCHANGED <<clock, offer>>

Preassign(o) ==
  /\ turn = "preassign" /\ call = "reply"
  /\ offer' = o
  /\ IF o.bound
     THEN turn' = "observe" /\ call' = "none" /\ UNCHANGED <<vars, policy, framing>>
     ELSE Refuse(403)
  /\ UNCHANGED clock

\* current_unix_ms: the floor of the sealed clock is read ...
ReadFloor(t) ==
  /\ turn = "observe"
  /\ IF policy.enforce /\ Dispatcher!Rewind(t)
     THEN Refuse(403) /\ UNCHANGED nowMs
     ELSE /\ nowMs' = t
          /\ Proceed(IF policy.enforce /\ floor # t THEN "truncate" ELSE "expiry")
  /\ UNCHANGED <<floor, accepted, offer>>

\* ... and written in place.
Truncate ==
  /\ turn = "truncate"
  /\ floor' = Torn
  /\ Proceed("write")
  /\ UNCHANGED <<nowMs, accepted>>

WriteFloor ==
  /\ turn = "write"
  /\ floor' = nowMs
  /\ accepted' = Dispatcher!Later(accepted, nowMs)
  /\ Proceed("expiry")
  /\ UNCHANGED nowMs

FloorFails ==
  /\ turn \in {"observe", "truncate", "write"}
  /\ Refuse(403)
  /\ UNCHANGED <<clock, offer>>

CheckExpiry ==
  /\ turn = "expiry"
  /\ IF offer.expires > nowMs
     THEN Proceed(IF policy.challenge THEN "challenge" ELSE "recipient")
     ELSE Refuse(403)
  /\ UNCHANGED <<clock, offer>>

\* The engine's answer to the nonce is verified.
Challenge ==
  /\ turn = "challenge" /\ call = "reply"
  /\ Proceed("recipient") \/ Refuse(403)
  /\ UNCHANGED <<clock, offer>>

\* Mutant: the window of the epoch is left to the gateway.
AcceptsAnyWindow ==
  /\ Dispatcher!LaunchDigestOk(offer)
  /\ Dispatcher!ViaEvidence(offer) \/ Dispatcher!ViaIdentity(offer)

\* accept_engine_recipient, of the crate that both platforms share.
Accepts ==
  /\ Dispatcher!EpochActive(Me)
  /\ Dispatcher!LaunchDigestOk(offer)
  /\ Dispatcher!ViaEvidence(offer) \/ Dispatcher!ViaIdentity(offer)

AcceptRecipient ==
  /\ turn = "recipient"
  /\ IF Accepts THEN Proceed("encrypt") ELSE Refuse(403)
  /\ UNCHANGED <<clock, offer>>

\* The body is encrypted, prepare returns, and the envelope is serialized.
Encrypt ==
  /\ turn = "encrypt"
  /\ \/ /\ pc' = "dispatch" /\ turn' = "dispatch" /\ call' = "connect"
        /\ UNCHANGED <<request, relay, bridge, out, policy, framing>>
     \/ Refuse(500)
  /\ UNCHANGED <<clock, offer>>

-----------------------------------------------------------------------------
(***************************************************************************)
(* The answer                                                              *)
(***************************************************************************)

\* dispatch_reader: the header of the answer is here.
SgxDispatch ==
  /\ turn = "dispatch" /\ call = "reply"
  /\ Dispatch
  /\ IF reply' = "ok" THEN framing' \in Framings ELSE UNCHANGED framing
  /\ turn' = "idle" /\ call' = "none"
  /\ UNCHANGED trust

\* All lines of the answer have been read.
AtEnd == next = Len(answer) + 2

\* Mutant: a connection that closes where a chunk's size should be ends the body.
FramedReadLenient(event) ==
  CASE event = "data"  -> IF AtEnd THEN "eof" ELSE "data"
    [] event = "close" -> "eof"
    [] event = "zeros" -> "eof"
    [] event = "fail"  -> IF framing = "length" /\ AtEnd THEN "eof" ELSE "error"

\* What the connection may do: have data, be closed by its peer, also after the
\* zeros that a chunk's size begins with, or fail.
Events == {"data", "close", "fail"} \cup (IF framing = "padded" THEN {"zeros"} ELSE {})

\* FramedBodyReader.read.  A Content-Length that is used up ends the body without
\* a look at the connection; one that is not does not make a close an error.  A
\* close is one in a chunked body, before a size, inside one or in the data, but
\* a size of which only zeros came is 0, that of the last chunk.
FramedRead(event) ==
  CASE event = "data"  -> IF AtEnd THEN "eof" ELSE "data"
    [] event = "close" -> IF framing \in {"chunked", "padded"} THEN "error" ELSE "eof"
    [] event = "zeros" -> "eof"
    [] event = "fail"  -> IF framing = "length" /\ AtEnd THEN "eof" ELSE "error"

Ends == \E event \in Events : FramedRead(event) = "eof"

Detailed == UNCHANGED <<trust, turn, call, framing>>

SgxReadShare == FramedRead("data") = "data" /\ ReadShare /\ Detailed

\* A line with text goes through the UTF-8 accumulator ...
ReadText ==
  /\ FramedRead("data") = "data"
  /\ ReadChunk
  /\ ~IsDelta(answer[next])
  /\ Detailed

\* ... and one with a frame becomes an event.
ReadDelta ==
  /\ FramedRead("data") = "data"
  /\ ReadChunk
  /\ IsDelta(answer[next])
  /\ Detailed

SgxReadTrailer == FramedRead("data") = "data" /\ ReadTrailer /\ Detailed

SgxReadEof == Ends /\ ReadEof /\ Detailed

\* The reader fails, or a line does not parse or decrypt.
SgxReadFails == ReadFails /\ Detailed

\* read_to_end, and the whole body at once.
SgxReadBody ==
  /\ ReadBody
  /\ Ends \/ read' = answer \/ pc' = "closed"
  /\ Detailed

SgxEmitAggregate == EmitAggregate /\ Detailed
SgxAnswerWhole   == AnswerWhole /\ Detailed
SgxWriteFinish   == WriteFinish /\ Detailed
SgxWriteDone     == WriteDone /\ Detailed
SgxWriteEnd      == WriteEnd /\ Detailed
SgxWriteFails    == WriteFails /\ Detailed

SgxNext ==
  \/ SgxBegin \/ Enter \/ Acquire
  \/ Connect \/ WriteRequest \/ CallFails \/ CallRefused
  \/ Inventory
  \/ \E o \in Offers : Preassign(o)
  \/ \E t \in 0 .. MaxTime : ReadFloor(t)
  \/ Truncate \/ WriteFloor \/ FloorFails
  \/ CheckExpiry \/ Challenge \/ AcceptRecipient \/ Encrypt
  \/ SgxDispatch
  \/ SgxReadShare \/ ReadText \/ ReadDelta \/ SgxReadTrailer
  \/ SgxReadEof \/ SgxReadFails \/ SgxReadBody
  \/ SgxEmitAggregate \/ SgxAnswerWhole
  \/ SgxWriteFinish \/ SgxWriteDone \/ SgxWriteEnd \/ SgxWriteFails

SgxSpec == SgxInit /\ [][SgxNext]_sgxVars

-----------------------------------------------------------------------------
(***************************************************************************)
(* Properties.                                                             *)
(***************************************************************************)

\* The enclave's upstream prepares its requests as OpeDispatch describes: it
\* may not skip a check, encrypt without the lock, or write the clock's floor
\* out of turn, though each of its calls is an exchange that can fail halfway.
ImplementsDispatcher == Dispatcher!Spec

\* And it answers as the specification of OpeStream describes, whatever the
\* framing of the body.
ImplementsBridge == Spec

\* Of an answer in chunks whose sizes have no leading zeros, a client gets [DONE]
\* or a completion only if the whole answer has been read: FramedBodyReader takes
\* a connection that is closed before a chunk's size, inside it or in its data
\* for an error, not for the end of the body.  (The zeros of a padded size alone
\* do end the body, wherever they come.)
WholeWhenChunked ==
  framing = "chunked" /\ (\E item \in Range(out) : item.kind \in {"done", "completion"}) =>
    read = answer
=============================================================================
