---------------------------- MODULE MCEdgeVerify ----------------------------
(***************************************************************************)
(* A verifier and two builds.  The current build cur is on the allowlist   *)
(* of the release after its own; the old build old is on an older          *)
(* allowlist only, which the fallback may replay.  Key k1 was made in a    *)
(* ceremony on golden version g1; k2 is pinned to g2, whose images sync    *)
(* their keys.                                                             *)
(***************************************************************************)
EXTENDS EdgeVerify

CONSTANTS v1, cur, old, k1, k2, g1, g2

MCImage == [b \in Builds |-> IF b = cur THEN g1 ELSE g2]

ARow(b, g, lapsed) == [build |-> b, formats |-> Formats,
                       golden |-> g, lapsed |-> lapsed]
List(epoch, signed, expired, rows) ==
  [epoch |-> epoch, expired |-> expired, signed |-> signed, pinsPolicy |-> TRUE,
   bindSpki |-> TRUE, rejectDebug |-> TRUE, rows |-> rows]

\* The list of the release after cur's own, with a lapsed row for old.
NewList == List(2, FALSE, FALSE, {ARow(cur, g1, FALSE), ARow(old, Unpinned, TRUE)})
OldList == List(1, FALSE, FALSE, {ARow(old, Unpinned, FALSE)})

MCGitHub ==
  [b \in Builds |-> [i \in Attempts |->
     CASE b = old /\ i = 0 -> [list |-> OldList, hasSums |-> TRUE, sums |-> {}]
       [] b = cur /\ i = 0 -> [list |-> OldList, hasSums |-> TRUE, sums |-> {cur}]
       [] b = cur /\ i = 1 -> [list |-> NewList, hasSums |-> TRUE, sums |-> {}]
       [] OTHER            -> Missing]]

\* The fallback: the list in force, the one before it, an expired one, and one
\* nobody signed.
MCWww == {List(2, TRUE, FALSE, {ARow(cur, g1, FALSE)}),
          List(1, TRUE, FALSE, {ARow(old, Unpinned, FALSE)}),
          List(3, TRUE, TRUE, {ARow(old, Unpinned, FALSE)}),
          List(3, FALSE, FALSE, {ARow(old, Unpinned, FALSE)})}

GoldenOf(epoch, signed, versions) ==
  [epoch |-> epoch, signed |-> signed, versions |-> versions, ceremony |-> versions \cap {g1}]
MCGoldens   == {GoldenOf(1, FALSE, {g2})}
MCGoldenWww == {GoldenOf(1, TRUE, {g1}), GoldenOf(2, TRUE, {g1, g2}), GoldenOf(3, FALSE, {g1})}

PinTo(k, g) == [key |-> k, golden |-> g]
MCCeremonies == {[signed |-> TRUE, host |-> TRUE, active |-> {PinTo(k1, g1)},
                  grace |-> {PinTo(k2, g2)}],
                 [signed |-> FALSE, host |-> TRUE, active |-> {PinTo(k2, g1)}, grace |-> {}]}

Call(source, skip, gold, ceremony) ==
  [source |-> source, skipSpki |-> skip, golden |-> gold, ceremony |-> ceremony]
MCOptions == {Call("auto", FALSE, "github", TRUE), Call("www", TRUE, "off", FALSE),
              Call("tag", FALSE, "www", FALSE)}

\* Honest answers of both builds, and answers with one thing wrong each.
Honest(b, k) ==
  [build |-> b, key |-> k, digest |-> "spki", policy |-> TRUE, format |-> "snp_report",
   report |-> [nonce |-> "mine", build |-> b, key |-> k, digest |-> "spki"],
   measures |-> b, genuine |-> TRUE, debug |-> FALSE]
MCAnswers == {Honest(cur, k1), Honest(cur, k2), Honest(old, k1),
              [Honest(cur, k1) EXCEPT !.format = "sgx_dcap_ecdsa"],
              [Honest(cur, k1) EXCEPT !.format = "sgx_report"],
              [Honest(cur, k1) EXCEPT !.digest = "cert", !.report.digest = "cert"],
              [Honest(cur, k1) EXCEPT !.report.nonce = "other"],
              [Honest(cur, k1) EXCEPT !.report.key = k2],
              [Honest(cur, k1) EXCEPT !.measures = old],
              [Honest(old, k1) EXCEPT !.genuine = FALSE],
              [Honest(old, k1) EXCEPT !.policy = FALSE],
              [Honest(old, k1) EXCEPT !.debug = TRUE],
              [Honest(cur, k1) EXCEPT !.format = "sgx_dcap_ecdsa", !.debug = TRUE]}

=============================================================================
