--------------------------- MODULE MCSgxUpstream ----------------------------
(***************************************************************************)
(* A small instance of SgxUpstream: answers of up to two chunks, offers    *)
(* that pass and that fail each check, and the two ends of the cutover.    *)
(***************************************************************************)
EXTENDS SgxUpstream

CONSTANT report

B(c, i, n) == [char |-> c, i |-> i, n |-> n]
Text(bytes) == [kind |-> "text", bytes |-> bytes]
Delta(text, tools, finish) ==
  [kind |-> "delta", text |-> text, reasoning |-> <<>>, reasoning_content |-> <<>>,
   tools |-> tools, finish |-> finish]

MCAnswers ==
  { <<>>,
    <<Text(<<B("a", 1, 1), B("e", 1, 2)>>), Text(<<B("e", 2, 2)>>)>>,
    <<Delta(<<"t">>, <<>>, None), Delta(<<>>, <<[index |-> 0, arg |-> "p"]>>, "tool_calls")>> }

Attested == [bound |-> TRUE, expires |-> MaxTime + 1, notBefore |-> 0, notAfter |-> MaxTime,
             quote |-> "this", report |-> report, listed |-> TRUE, signed |-> FALSE]

MCOffers ==
  { Attested,
    [Attested EXCEPT !.notAfter = 0],
    [Attested EXCEPT !.expires = 1],
    [Attested EXCEPT !.quote = "other", !.signed = TRUE],
    [Attested EXCEPT !.quote = "none", !.signed = TRUE],
    [Attested EXCEPT !.bound = FALSE] }

Strict == [enforce |-> TRUE, evidence |-> TRUE, launch |-> "listed", chain |-> FALSE,
           challenge |-> TRUE, skew |-> 1]

MCPolicies ==
  {Strict, [Strict EXCEPT !.enforce = FALSE, !.evidence = FALSE, !.launch = "off",
                          !.challenge = FALSE]}
=============================================================================
