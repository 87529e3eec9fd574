----------------------------- MODULE TokenQuota -----------------------------
(***************************************************************************)
(* What the policy of a key lets through: crates/openapi-core/src/quota.rs *)
(* and OpenApiKeyPolicy of authz.rs.                                       *)
(*                                                                         *)
(* The size of a prompt is estimated from the request's body: a body is    *)
(* the content under its "messages", "input" and "prompt", each of which   *)
(* may be missing, and its length.  Text is its number of bytes.           *)
(***************************************************************************)
EXTENDS Naturals, Sequences

TightRemainingTokens == 32000
LargePromptTokens    == 8000

CONSTANT Unset  \* a limit that the policy does not set, a member that a body has not

Max2(m, n) == IF m >= n THEN m ELSE n

\* The sum of a sequence of numbers.
Total(s) ==
  LET sum[n \in 0 .. Len(s)] == IF n = 0 THEN 0 ELSE sum[n - 1] + s[n]
  IN  sum[Len(s)]

\* content_chars: a text, a sequence of parts with or without text (0), or
\* something else, by its length as JSON.
ContentChars(c) == IF c.kind = "parts" THEN Total(c.parts) ELSE c.length

PromptChars(body) ==
  CASE ~body.json                                           -> body.length
    [] body.json /\ body.messages # Unset                   ->
         Total([i \in DOMAIN body.messages |-> ContentChars(body.messages[i])])
    [] body.json /\ body.messages = Unset /\ body.input # Unset ->
         ContentChars(body.input)
    [] body.json /\ body.messages = Unset /\ body.input = Unset ->
         IF body.prompt # Unset THEN ContentChars(body.prompt) ELSE body.length

EstimatePromptTokens(body) == Max2(PromptChars(body) \div 4, 1)

\* Mutant: no tokens left is taken for no limit, as it is for the rates.
EnforceTokenQuotaZero(policy, est) ==
  \/ policy.remaining \in {Unset, 0}
  \/ /\ est <= policy.remaining
     /\ ~(policy.remaining < TightRemainingTokens /\ est >= LargePromptTokens)

\* enforce_token_quota_for_key
EnforceTokenQuota(policy, est) ==
  \/ policy.remaining = Unset
  \/ /\ policy.remaining # 0
     /\ est <= policy.remaining
     /\ ~(policy.remaining < TightRemainingTokens /\ est >= LargePromptTokens)

EnforceMaxContext(policy, est) == policy.maxContext = Unset \/ est <= policy.maxContext

\* allows_model: an empty list denies all.
AllowsModel(policy, model) == policy.models \cap {"*", model} # {}

\* The checks of a request before it goes upstream.
PolicyAdmits(policy, body) ==
  LET est == EstimatePromptTokens(body)
  IN  /\ AllowsModel(policy, body.model)
      /\ EnforceTokenQuota(policy, est)
      /\ EnforceMaxContext(policy, est)
=============================================================================
