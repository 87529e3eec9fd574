---------------------------- MODULE EngineUsage -----------------------------
(***************************************************************************)
(* The token counts that a completion reports:                             *)
(* crates/openapi-platform/src/engine_usage.rs, as both platforms'         *)
(* ope_upstream.rs call it.                                                *)
(*                                                                         *)
(* The gateway relays a header in which the engine reports the counts.     *)
(* Where signed usage is required, the report must be the engine's own,    *)
(* about this request, and plausible; elsewhere any header that can be     *)
(* read is believed, and without one the counts are estimated from the     *)
(* length of the texts.  A signature is its key and the bytes it covers; a *)
(* request stands for the hash of its body.                                *)
(***************************************************************************)
EXTENDS Naturals

CONSTANTS
  NoHeader,  \* no x-ope-usage-report
  Refused    \* the request is answered with an error

CountMax == 1023  \* u64::MAX, kept small

SaturatingAdd(m, n) == IF m + n > CountMax THEN CountMax ELSE m + n

\* Mutant: the completion's tokens are not among the signed bytes.
SigningBytesShort(r) ==
  <<r.cached, r.conversation, r.engine, r.prompt, r.request, r.ts>>

\* usage_report_signing_bytes, which the epoch is not part of.
SigningBytes(r) ==
  <<r.cached, r.completion, r.conversation, r.engine, r.prompt, r.request, r.ts>>

Sign(key, r) == [key |-> key, bytes |-> SigningBytes(r)]

Estimate(length) == IF length \div 4 = 0 THEN 1 ELSE length \div 4

\* independent_token_bound
TokenBound(ctx) ==
  LET sum == SaturatingAdd(Estimate(ctx.requestLength), Estimate(ctx.completionLength))
  IN  IF sum * 8 > CountMax THEN CountMax ELSE sum * 8

\* verify_signed_usage_report
VerifyReport(header, ctx) ==
  LET r == header.report
  IN  /\ r.engine = ctx.engine
      /\ r.epoch \in {NoHeader, ctx.epoch}
      /\ r.request = ctx.request
      /\ SaturatingAdd(r.prompt, r.completion) <= TokenBound(ctx)
      /\ header.sig = Sign(ctx.key, r)

\* resolve_usage_tokens where nothing is required.  A header is a signed report,
\* a bare one of older engines, or cannot be read.
Believed(header) ==
  /\ header # NoHeader
  /\ header.form \in {"signed", "bare"}
  /\ header.report.prompt > 0 \/ header.report.completion > 0

\* resolve_usage_or_estimate: the counts of prompt and completion.
ResolveUsage(required, header, ctx) ==
  CASE required ->
         IF header # NoHeader /\ header.form = "signed" /\ VerifyReport(header, ctx)
         THEN <<header.report.prompt, header.report.completion>>
         ELSE Refused
    [] ~required /\ Believed(header) -> <<header.report.prompt, header.report.completion>>
    [] ~required /\ ~Believed(header) ->
         <<Estimate(ctx.requestLength), Estimate(ctx.completionLength)>>
=============================================================================
