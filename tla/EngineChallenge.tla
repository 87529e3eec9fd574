-------------------------- MODULE EngineChallenge ---------------------------
(***************************************************************************)
(* The answer of an engine to the edge's challenge:                        *)
(* crates/openapi-platform/src/engine_challenge.rs.                        *)
(*                                                                         *)
(* The engine puts a digest of the nonce, its identity, epoch, keys and    *)
(* measurement into a report of its hardware.  The answer travels through  *)
(* the gateway as a document that repeats those values, with the report in *)
(* one of three wrappings, one of which has the digest in a field of its   *)
(* own; the edge recomputes the digest from the document.  The report's    *)
(* signature is not checked here.  Digests are symbolic: the digest of a   *)
(* value is the value, in a tuple with its label.                          *)
(***************************************************************************)
\* A value that is not there, and one that is not base64 or not 64 hexadecimal
\* digits.
Missing     == "missing"
Undecodable == "undecodable"

\* No GPU evidence counts as 32 zero bytes.
Zeros == "zeros"

GpuHash(doc) == IF doc.gpu = Missing THEN Zeros ELSE doc.gpu

\* measurement_from_wire: whatever is not an enclave has a launch digest.
FromWire(m) ==
  IF m.kind = "mrenclave" THEN [kind |-> "mrenclave", digests |-> <<m.mrenclave>>]
  ELSE [kind |-> "launch_digest", digests |-> <<m.launch, m.image>>]

\* measurement_body: a tag, and the digests that the kind needs.
MeasurementBody(m) ==
  <<IF FromWire(m).kind = "mrenclave" THEN 1 ELSE 2, FromWire(m).digests>>

MeasurementReads(m) ==
  \A i \in DOMAIN FromWire(m).digests : FromWire(m).digests[i] \notin {Missing, Undecodable}

\* build_engine_challenge_report_data
ReportData(nonce, doc) ==
  <<"teechat-engine-challenge-v1", nonce, doc.engine, doc.epoch,
    <<doc.notBefore, 0, doc.notAfter>>, doc.usage, doc.mlkem, doc.x25519,
    GpuHash(doc), doc.policyHash, MeasurementBody(doc.measurement)>>

\* What the keys, digests and the nonce of a document must be to be looked at.
Decodes(doc) ==
  /\ Undecodable \notin {doc.nonce, doc.usage, doc.mlkem, doc.x25519, doc.policyHash, doc.gpu}
  /\ MeasurementReads(doc.measurement)

\* How a report is sent: in a JSON wrapper that gives the report data in a field
\* of its own, in one that does not, bare, or cut short.  A quote has the report
\* data of its report and what the field says.
Wrappings == {"field", "nested", "raw", "short"}

\* Mutant: a wrapper long enough for a report is read as one.
ExtractRawFirst(quote) ==
  CASE quote.wrapping = "raw"                 -> quote.report
    [] quote.wrapping \in {"field", "nested"} -> <<"text of the wrapper">>
    [] quote.wrapping = "short"               -> <<>>

\* extract_report_data_from_quote: where there is the field, nobody looks at the
\* report.
ExtractReportData(quote) ==
  CASE quote.wrapping = "field"            -> quote.field
    [] quote.wrapping \in {"nested", "raw"} -> quote.report
    [] quote.wrapping = "short"            -> <<>>

\* verify_engine_challenge_response
VerifyResponse(nonce, doc) ==
  /\ doc.schema = 1 /\ doc.dataVersion = 1
  /\ Decodes(doc)
  /\ doc.nonce = nonce
  /\ ExtractReportData(doc.quote) = ReportData(nonce, doc)

\* The engine's side, as its report data is pinned: what it answers to a nonce.
EngineAnswer(engine, nonce, wrapping) ==
  LET doc  == [engine EXCEPT !.nonce = nonce]
      data == ReportData(nonce, doc)
  IN  [doc EXCEPT !.quote = [wrapping |-> wrapping, report |-> data, field |-> data]]
=============================================================================
