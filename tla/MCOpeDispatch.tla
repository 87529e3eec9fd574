--------------------------- MODULE MCOpeDispatch ----------------------------
(* Instances of OpeDispatch for TLC. *)
EXTENDS OpeDispatch

CONSTANTS w1, w2, good, bad

\* Evidence for a short epoch, and what a gateway might offer in its place.
Attested == [bound |-> TRUE, expires |-> MaxTime + 1, notBefore |-> 0, notAfter |-> 1,
             quote |-> "this", report |-> good, listed |-> TRUE, signed |-> FALSE]

MCOffers ==
  { Attested,
    [Attested EXCEPT !.notAfter = MaxTime],
    [Attested EXCEPT !.expires = 1, !.notBefore = 1],
    [Attested EXCEPT !.report = bad],
    [Attested EXCEPT !.quote = "other", !.signed = TRUE],
    [Attested EXCEPT !.quote = "plain", !.signed = TRUE],
    [Attested EXCEPT !.quote = "none", !.listed = FALSE, !.signed = TRUE],
    [Attested EXCEPT !.bound = FALSE] }

Strict == [enforce |-> TRUE, evidence |-> TRUE, launch |-> "listed", chain |-> TRUE,
           challenge |-> TRUE, skew |-> 1]

\* The policies of the cutover, from the identity pins to the strict one.
MCPolicies ==
  { Strict,
    [Strict EXCEPT !.enforce = FALSE, !.evidence = FALSE, !.launch = "off"],
    [Strict EXCEPT !.evidence = FALSE, !.chain = FALSE],
    [Strict EXCEPT !.launch = "empty"] }
=============================================================================
