------------------------- MODULE EdgeVerify_proofs --------------------------
(***************************************************************************)
(* Proofs about EdgeVerify, for every set of verifiers, of allowlists,     *)
(* golden manifests and ceremony lists, for every answer an endpoint may   *)
(* give and every way of calling the verifier.                             *)
(***************************************************************************)
EXTENDS EdgeVerify, TLAPS

USE EdgeVerifyAssumption

(***************************************************************************)
(* The inductive invariant.                                                *)
(***************************************************************************)

\* Where a verifier stands: it has verified the quote, passed the ceremony
\* list, compared the evidence, loaded an allowlist.
AfterQuote    == {"readEdge", "truncEdge", "writeEdge", "verdict"}
AfterCeremony == {"sums", "quote"} \cup AfterQuote
AtGolden      == {"readGolden", "truncGolden", "writeGolden"}
AfterEvidence == {"golden", "goldenWww", "ceremony"} \cup AtGolden \cup AfterCeremony
AfterTrust    == {"evidence"} \cup AfterEvidence

\* A list that is in force and comes from a release or is signed.
Trusted(list) ==
  /\ ~list.expired
  /\ list.signed \/ \E b \in Builds, i \in Attempts :
                      GitHub[b][i] # Missing /\ GitHub[b][i].list = list

\* The documents a verifier uses are there, and its allowlist is trusted.
DocumentsInv ==
  \A v \in Verifiers :
    /\ pc[v] \in AfterTrust => bundle[v] # Missing
    /\ bundle[v] # Missing => Trusted(bundle[v].list)
    /\ pc[v] \in AtGolden => golden[v] # Missing

\* The evidence was compared with the documents the verifier still holds.
EvidenceInv ==
  \A v \in Verifiers : pc[v] \in AfterEvidence =>
    /\ ReportDataMatches(answer[v])
    /\ SessionBound(v)
    /\ MatchingReleases(bundle[v].list, answer[v]) # {}

\* A ceremony list and a golden manifest vouched for the key it still holds.
Vouched(a) ==
  \E c \in {d \in Ceremonies : d.signed} :
    \/ c.active = {}
    \/ \E p \in c.active \cup c.grace, g \in Goldens \cup GoldenWww :
         p.key = a.key /\ p.golden \in g.ceremony

CeremonyInv ==
  \A v \in Verifiers : pc[v] \in AfterCeremony /\ opts[v].ceremony => Vouched(answer[v])

\* The quote was verified, and measures the build it claims.
QuoteInv ==
  \A v \in Verifiers : pc[v] \in AfterQuote =>
    answer[v].genuine /\ answer[v].measures = answer[v].build /\ answer[v].format # "sgx_report"

IInv == TypeOK /\ DocumentsInv /\ EvidenceInv /\ CeremonyInv /\ QuoteInv

(***************************************************************************)
(* The epochs.  A file that can be read is not below the highest verdict;  *)
(* one that cannot be read stops every later verification.                 *)
(***************************************************************************)

FileInv ==
  \A k \in Kinds : Readable(k) => FloorOf(k) >= highest[k]

\* The epochs a verifier has admitted, and has in the file or not yet.
EpochInv ==
  \A v \in Verifiers :
    /\ pc[v] \in AfterEvidence => bundle[v].list.epoch >= highest["openapi-edge"]
    /\ pc[v] = "verdict" /\ Readable("openapi-edge") =>
         FloorOf("openapi-edge") >= bundle[v].list.epoch
    /\ pc[v] \in AfterTrust \ (AtGolden \cup {"ceremony"} \cup AfterCeremony) =>
         golden[v] = Missing
    /\ pc[v] \in {"challenge", "trust", "trustBase"} => golden[v] = Missing
    /\ pc[v] \in AtGolden \cup {"ceremony"} \cup AfterCeremony /\ golden[v] # Missing =>
         golden[v].epoch >= highest["golden-digests"]
    /\ /\ pc[v] \in {"ceremony"} \cup AfterCeremony
       /\ golden[v] # Missing
       /\ Readable("golden-digests")
       => FloorOf("golden-digests") >= golden[v].epoch

PeakInv == \A v \in Verifiers : \A k \in Kinds : highest[k] >= peak[v][k]

RollbackInv == FileInv /\ EpochInv /\ PeakInv

-----------------------------------------------------------------------------
(***************************************************************************)
(* Lemmas on the operators of the model.                                   *)
(***************************************************************************)

\* What load_trust_bundle returns: nothing, or a release whose list is trusted.
LEMMA LoadedIsTrusted ==
  ASSUME NEW o \in Options, NEW b \in Builds, NEW i \in Attempts,
         NEW got \in LoadTrustBundle(o, b, i)
  PROVE  got = Missing \/ (got \in Release /\ got # Missing /\ Trusted(got.list))
<1>1. CASE got \in Fallback
  <2>1. PICK list \in Www : SignedManifest(list) /\ got = Unchecked(list)
    BY <1>1 DEF Fallback
  <2>2. got \in Release /\ got.list = list
    BY <2>1 DEF Unchecked, Release
  <2>3. QED
    BY <2>1, <2>2 DEF SignedManifest, Valid, Trusted
<1>2. ASSUME NEW named \in Builds, NEW j \in Attempts, got \in FromGitHub(named, j)
      PROVE  got \in Release /\ got # Missing /\ Trusted(got.list)
  <2>1. got = GitHub[named][j] /\ got # Missing /\ Valid(got.list)
    BY <1>2 DEF FromGitHub
  <2>2. QED
    BY <2>1 DEF Valid, Trusted
<1>3. got \in Fallback \/ got = Missing
        \/ \E named \in Builds, j \in Attempts : got \in FromGitHub(named, j)
  BY DEF LoadTrustBundle
<1>4. QED
  BY <1>1, <1>2, <1>3

\* The three ways a search for a tag goes on.
LEMMA NextTagEffect ==
  ASSUME TypeOK, NEW v \in Verifiers, NEW got, NextTag(v, got)
  PROVE  /\ attempt' \in [Verifiers -> Attempts]
         /\ bundle' = bundle \/ (got # Missing /\ bundle' = [bundle EXCEPT ![v] = got])
         /\ \/ pc' = pc
            \/ \E point \in {"idle", "trustBase"} : Goto(v, point)
            \/ Goto(v, "evidence") /\ bundle'[v] # Missing
<1> USE DEF TypeOK
<1>1. ~LastAttempt(v) => [attempt EXCEPT ![v] = @ + 1] \in [Verifiers -> Attempts]
  BY DEF LastAttempt
<1>2. CASE got = Missing /\ bundle[v] # Missing
  BY <1>2 DEF NextTag
<1>3. CASE got # Missing
  <2>1. /\ bundle' = [bundle EXCEPT ![v] = got]
        /\ \/ ~LastAttempt(v) /\ attempt' = [attempt EXCEPT ![v] = @ + 1] /\ UNCHANGED pc
           \/ Goto(v, "evidence") /\ UNCHANGED attempt
    BY <1>3 DEF NextTag
  <2>2. QED
    BY <1>1, <1>3, <2>1
<1>4. CASE got = Missing /\ bundle[v] = Missing
  <2>1. /\ UNCHANGED bundle
        /\ \/ Goto(v, "idle") /\ UNCHANGED attempt
           \/ Goto(v, "trustBase") /\ UNCHANGED attempt
           \/ ~LastAttempt(v) /\ attempt' = [attempt EXCEPT ![v] = @ + 1] /\ UNCHANGED pc
    BY <1>4 DEF NextTag, OutOfTags
  <2>2. QED
    BY <1>1, <2>1
<1>5. QED
  BY <1>2, <1>3, <1>4

\* One step of load_trust_bundle_for_edge, and its last resort.
LEMMA TrustEffect ==
  ASSUME TypeOK, NEW v \in Verifiers, LoadTrust(v) \/ LoadTrustBase(v)
  PROVE  /\ attempt' \in [Verifiers -> Attempts]
         /\ bundle' = bundle
            \/ \E got \in Release \cup {Missing} :
                 /\ got # Missing => Trusted(got.list)
                 /\ bundle' = [bundle EXCEPT ![v] = got]
         /\ \/ pc' = pc
            \/ \E point \in {"idle", "trustBase"} : Goto(v, point)
            \/ Goto(v, "evidence") /\ bundle'[v] # Missing
         /\ UNCHANGED <<floor, vcek, opts, peer, answer, golden, peak, highest>>
<1> USE DEF TypeOK
<1>1. opts[v] \in Options /\ answer[v].build \in Builds /\ attempt[v] \in Attempts
      /\ 0 \in Attempts
  BY DEF Answer, Attempts
<1>2. CASE LoadTrust(v)
  <2>1. PICK got \in LoadTrustBundle(opts[v], answer[v].build, attempt[v]) :
          IF opts[v].source = "auto"
             /\ (got = Missing \/ MatchingReleases(got.list, answer[v]) = {})
          THEN NextTag(v, got)
          ELSE /\ bundle' = [bundle EXCEPT ![v] = got]
               /\ Goto(v, IF got = Missing THEN "idle" ELSE "evidence")
               /\ UNCHANGED attempt
    BY <1>2 DEF LoadTrust
  <2>2. got = Missing \/ (got \in Release /\ got # Missing /\ Trusted(got.list))
    BY <1>1, LoadedIsTrusted
  <2>3. UNCHANGED <<floor, vcek, opts, peer, answer, golden, peak, highest>>
    BY <1>2 DEF LoadTrust
  <2>4. CASE NextTag(v, got)
    BY <2>2, <2>3, <2>4, NextTagEffect
  <2>5. CASE /\ bundle' = [bundle EXCEPT ![v] = got]
             /\ Goto(v, IF got = Missing THEN "idle" ELSE "evidence")
             /\ UNCHANGED attempt
    BY <2>2, <2>3, <2>5
  <2>6. QED
    BY <2>1, <2>4, <2>5
<1>3. CASE LoadTrustBase(v)
  <2>1. PICK got \in LoadTrustBundle(opts[v], answer[v].build, 0) :
          /\ bundle' = [bundle EXCEPT ![v] = got]
          /\ Goto(v, IF got = Missing THEN "idle" ELSE "evidence")
    BY <1>3 DEF LoadTrustBase
  <2>2. got = Missing \/ (got \in Release /\ got # Missing /\ Trusted(got.list))
    BY <1>1, LoadedIsTrusted
  <2>3. UNCHANGED <<floor, vcek, opts, peer, answer, attempt, golden, peak, highest>>
    BY <1>3 DEF LoadTrustBase
  <2>4. QED
    BY <2>1, <2>2, <2>3
<1>4. QED
  BY <1>2, <1>3

-----------------------------------------------------------------------------
(***************************************************************************)
(* What each step of finish_verify does, in terms of where it leads.       *)
(***************************************************************************)

LEMMA EvidenceEffect ==
  ASSUME TypeOK, NEW v \in Verifiers, CheckEvidence(v)
  PROVE  /\ pc[v] = "evidence"
         /\ UNCHANGED <<floor, vcek, locals, highest>>
         /\ \/ Goto(v, "idle")
            \/ /\ EpochMonotonic("openapi-edge", bundle[v].list.epoch)
               /\ ReportDataMatches(answer[v])
               /\ SessionBound(v)
               /\ MatchingReleases(bundle[v].list, answer[v]) # {}
               /\ Goto(v, "ceremony") \/ Goto(v, "golden") \/ Goto(v, "goldenWww")
<1>1. opts[v].golden \in {"off", "github", "www"}
  BY DEF TypeOK, Option
<1>2. QED
  BY <1>1 DEF CheckEvidence, Proceed, Fail, locals

LEMMA GoldenEffect ==
  ASSUME TypeOK, NEW v \in Verifiers, MatchGolden(v)
  PROVE  /\ pc[v] \in {"golden", "goldenWww"}
         /\ UNCHANGED <<floor, vcek, opts, peer, answer, attempt, bundle, peak, highest>>
         /\ \/ UNCHANGED golden /\ (Goto(v, "goldenWww") \/ Goto(v, "idle"))
            \/ \E g \in Golden :
                 /\ g # Missing
                 /\ golden' = [golden EXCEPT ![v] = g]
                 /\ Goto(v, IF EpochMonotonic("golden-digests", g.epoch) THEN "readGolden"
                            ELSE "idle")
<1>1. PICK g \in GoldenDigests(pc[v] = "goldenWww") :
        IF g # Missing /\ GoldenMatches(v, g)
        THEN /\ golden' = [golden EXCEPT ![v] = g]
             /\ Goto(v, IF EpochMonotonic("golden-digests", g.epoch) THEN "readGolden"
                        ELSE "idle")
             /\ UNCHANGED <<opts, peer, answer, attempt, bundle, peak>>
        ELSE IF g # Missing /\ pc[v] = "golden" THEN Proceed(v, "goldenWww")
        ELSE Fail(v)
  BY DEF MatchGolden
<1>2. g \in Golden \cup {Missing}
  BY <1>1 DEF GoldenDigests
<1>3. pc[v] \in {"golden", "goldenWww"} /\ UNCHANGED <<floor, vcek, highest>>
  BY DEF MatchGolden
<1>4. CASE g # Missing /\ GoldenMatches(v, g)
  BY <1>1, <1>2, <1>3, <1>4
<1>5. CASE ~(g # Missing /\ GoldenMatches(v, g))
  BY <1>1, <1>3, <1>5 DEF Proceed, Fail
<1>6. QED
  BY <1>4, <1>5

\* remember_epoch: the file is read again, truncated, written.
LEMMA RememberGoldenEffect ==
  ASSUME NEW v \in Verifiers, RememberGolden(v)
  PROVE  /\ UNCHANGED <<vcek, locals, highest>>
         /\ \/ /\ pc[v] = "readGolden" /\ UNCHANGED floor
               /\ \/ Goto(v, "idle")
                  \/ Goto(v, "truncGolden")
                  \/ /\ Readable("golden-digests")
                     /\ golden[v].epoch <= FloorOf("golden-digests")
                     /\ Goto(v, "ceremony")
            \/ /\ pc[v] = "truncGolden" /\ Goto(v, "writeGolden")
               /\ floor' = [floor EXCEPT !["golden-digests"] = Torn]
            \/ /\ pc[v] = "writeGolden" /\ Goto(v, "ceremony")
               /\ floor' = [floor EXCEPT !["golden-digests"] = golden[v].epoch]
<1>1. CASE pc[v] = "readGolden"
  BY <1>1 DEF RememberGolden, Remember
<1>2. CASE pc[v] = "truncGolden"
  BY <1>2 DEF RememberGolden, Truncate
<1>3. CASE pc[v] = "writeGolden"
  BY <1>3 DEF RememberGolden, Write
<1>4. QED
  BY <1>1, <1>2, <1>3 DEF RememberGolden

LEMMA RememberEdgeEffect ==
  ASSUME NEW v \in Verifiers, RememberEdge(v)
  PROVE  /\ UNCHANGED <<vcek, locals, highest>>
         /\ \/ /\ pc[v] = "readEdge" /\ UNCHANGED floor
               /\ \/ Goto(v, "idle")
                  \/ Goto(v, "truncEdge")
                  \/ /\ Readable("openapi-edge")
                     /\ bundle[v].list.epoch <= FloorOf("openapi-edge")
                     /\ Goto(v, "verdict")
            \/ /\ pc[v] = "truncEdge" /\ Goto(v, "writeEdge")
               /\ floor' = [floor EXCEPT !["openapi-edge"] = Torn]
            \/ /\ pc[v] = "writeEdge" /\ Goto(v, "verdict")
               /\ floor' = [floor EXCEPT !["openapi-edge"] = bundle[v].list.epoch]
<1>1. CASE pc[v] = "readEdge"
  BY <1>1 DEF RememberEdge, Remember
<1>2. CASE pc[v] = "truncEdge"
  BY <1>2 DEF RememberEdge, Truncate
<1>3. CASE pc[v] = "writeEdge"
  BY <1>3 DEF RememberEdge, Write
<1>4. QED
  BY <1>1, <1>2, <1>3 DEF RememberEdge

\* The ceremony list, if the caller asks for it, vouches for the key.
LEMMA CeremonyEffect ==
  ASSUME NEW v \in Verifiers, CheckCeremony(v)
  PROVE  /\ pc[v] = "ceremony"
         /\ UNCHANGED <<floor, vcek, locals, highest>>
         /\ \/ Goto(v, "idle")
            \/ Goto(v, "sums") /\ (opts[v].ceremony => Vouched(answer[v]))
<1>1. pc[v] = "ceremony" /\ UNCHANGED <<floor, vcek, highest>>
  BY DEF CheckCeremony
<1>2. CASE ~opts[v].ceremony /\ Proceed(v, "sums")
  BY <1>1, <1>2 DEF Proceed, locals
<1>3. ASSUME NEW c \in CeremonyAllowlist, NEW g \in GoldenDigests(opts[v].golden = "www"),
             IF /\ c # Missing
                /\ c.active = {} \/ (c.host /\ g # Missing /\ CeremonyKey(c, g, answer[v]))
             THEN Proceed(v, "sums")
             ELSE Fail(v)
      PROVE  /\ UNCHANGED locals
             /\ Goto(v, "idle") \/ (Goto(v, "sums") /\ Vouched(answer[v]))
  <2>1. CASE Fail(v)
    BY <2>1 DEF Fail, locals
  <2>2. CASE /\ c # Missing
             /\ c.active = {} \/ (c.host /\ g # Missing /\ CeremonyKey(c, g, answer[v]))
    <3>1. c \in {d \in Ceremonies : d.signed}
      BY <2>2 DEF CeremonyAllowlist
    <3>2. CASE c.active = {}
      BY <1>3, <2>2, <3>1, <3>2 DEF Vouched, Proceed, locals
    <3>3. CASE c.active # {}
      <4>1. g \in Goldens \cup GoldenWww
        BY <2>2, <3>3 DEF GoldenDigests
      <4>2. PICK p \in c.active \cup c.grace : p.key = answer[v].key /\ p.golden \in g.ceremony
        BY <2>2, <3>3 DEF CeremonyKey, PinOf
      <4>3. QED
        BY <1>3, <2>2, <3>1, <4>1, <4>2 DEF Vouched, Proceed, locals
    <3>4. QED
      BY <3>2, <3>3
  <2>3. QED
    BY <1>3, <2>1, <2>2
<1>4. QED
  BY <1>1, <1>2, <1>3 DEF CheckCeremony

LEMMA SumsEffect ==
  ASSUME NEW v \in Verifiers, CheckSums(v)
  PROVE  /\ pc[v] = "sums"
         /\ UNCHANGED <<floor, vcek, locals, highest>>
         /\ Goto(v, "quote") \/ Goto(v, "idle")
BY DEF CheckSums, Proceed, Fail, locals

LEMMA QuoteEffect ==
  ASSUME NEW v \in Verifiers, VerifyQuote(v)
  PROVE  /\ pc[v] = "quote"
         /\ UNCHANGED <<floor, locals, highest>>
         /\ vcek' = vcek \/ vcek' \in {Absent, "whole", "cut"}
         /\ \/ Goto(v, "idle")
            \/ /\ Goto(v, "readEdge")
               /\ answer[v].genuine /\ answer[v].measures = answer[v].build
               /\ answer[v].format # "sgx_report"
<1>1. pc[v] = "quote" /\ UNCHANGED <<floor, highest>>
  BY DEF VerifyQuote
<1>2. CASE answer[v].format = "sgx_report"
  BY <1>1, <1>2 DEF VerifyQuote, Fail, locals
<1>3. CASE answer[v].format = "sgx_dcap_ecdsa"
  BY <1>1, <1>3 DEF VerifyQuote, SgxQuoteHolds, Proceed, Fail, locals
<1>4. CASE answer[v].format = "snp_report"
  BY <1>1, <1>4 DEF VerifyQuote, SnpReportHolds, ChipCertificate, Proceed, Fail, locals
<1>5. QED
  BY <1>2, <1>3, <1>4 DEF VerifyQuote

-----------------------------------------------------------------------------
(***************************************************************************)
(* The invariant holds initially and every step preserves it.              *)
(***************************************************************************)

LEMMA InitIInv == Init => IInv
<1> SUFFICES ASSUME Init PROVE IInv
  OBVIOUS
<1>1. TypeOK
  BY DEF Init, TypeOK, Points, Kinds, Attempts
<1>2. \A v \in Verifiers : pc[v] = "idle" /\ bundle[v] = Missing
  BY DEF Init
<1>3. QED
  BY <1>1, <1>2 DEF IInv, DocumentsInv, EvidenceInv, CeremonyInv, QuoteInv, AfterTrust,
                    AfterEvidence, AtGolden, AfterCeremony, AfterQuote

LEMMA TypeNext == IInv /\ [Next]_vars => TypeOK'
<1> SUFFICES ASSUME TypeOK, DocumentsInv, [Next]_vars PROVE TypeOK'
  BY DEF IInv
<1> USE DEF TypeOK, Points, Goto, locals
<1>1. ASSUME NEW v \in Verifiers, NEW o \in Options, NEW k \in Keys, Connect(v, o, k)
      PROVE  TypeOK'
  BY <1>1 DEF Connect, Attempts
<1>2. ASSUME NEW v \in Verifiers, NEW a \in Answers, ChallengeEdge(v, a) PROVE TypeOK'
  BY <1>2 DEF ChallengeEdge
<1>3. ASSUME NEW v \in Verifiers, LoadTrust(v) \/ LoadTrustBase(v) PROVE TypeOK'
  <2>1. bundle' \in [Verifiers -> Release \cup {Missing}]
    <3> HIDE DEF TypeOK, Goto
    <3>1. bundle' = bundle
          \/ \E got \in Release \cup {Missing} : bundle' = [bundle EXCEPT ![v] = got]
      BY <1>3, TrustEffect
    <3>2. QED
      BY <3>1 DEF TypeOK
  <2>2. QED
    BY <1>3, <2>1, TrustEffect
<1>4. ASSUME NEW v \in Verifiers, CheckEvidence(v) PROVE TypeOK'
  BY <1>4, EvidenceEffect
<1>5. ASSUME NEW v \in Verifiers, MatchGolden(v) PROVE TypeOK'
  <2>1. golden' \in [Verifiers -> Golden \cup {Missing}]
    <3> HIDE DEF TypeOK, Goto
    <3>1. golden' = golden \/ \E g \in Golden : golden' = [golden EXCEPT ![v] = g]
      BY <1>5, GoldenEffect
    <3>2. QED
      BY <3>1 DEF TypeOK
  <2>2. pc' \in [Verifiers -> Points]
    BY <1>5, GoldenEffect
  <2>3. QED
    BY <1>5, <2>1, <2>2, GoldenEffect
<1>6. ASSUME NEW v \in Verifiers, RememberGolden(v) PROVE TypeOK'
  <2>1. floor' = floor \/ floor' \in [Kinds -> Nat \cup {Absent, Torn}]
    <3>1. pc[v] = "writeGolden" => golden[v].epoch \in Nat
      BY DEF DocumentsInv, AtGolden, Golden
    <3> HIDE DEF Goto
    <3>2. floor' \in {floor, [floor EXCEPT !["golden-digests"] = Torn]}
          \/ (pc[v] = "writeGolden"
              /\ floor' = [floor EXCEPT !["golden-digests"] = golden[v].epoch])
      BY <1>6, RememberGoldenEffect
    <3>3. QED
      BY <3>1, <3>2
  <2>2. UNCHANGED <<vcek, locals, highest>>
        /\ \E point \in {"idle", "truncGolden", "writeGolden", "ceremony"} : Goto(v, point)
    <3> HIDE DEF TypeOK, Goto, locals
    <3>1. QED
      BY <1>6, RememberGoldenEffect
  <2>3. QED
    BY <2>1, <2>2
<1>7. ASSUME NEW v \in Verifiers, CheckCeremony(v) PROVE TypeOK'
  BY <1>7, CeremonyEffect
<1>8. ASSUME NEW v \in Verifiers, CheckSums(v) PROVE TypeOK'
  BY <1>8, SumsEffect
<1>9. ASSUME NEW v \in Verifiers, VerifyQuote(v) PROVE TypeOK'
  BY <1>9, QuoteEffect
<1>10. ASSUME NEW v \in Verifiers, RememberEdge(v) PROVE TypeOK'
  <2>1. floor' = floor \/ floor' \in [Kinds -> Nat \cup {Absent, Torn}]
    <3>1. pc[v] = "writeEdge" => bundle[v] \in Release
      BY DEF DocumentsInv, AfterTrust, AfterEvidence, AfterCeremony, AfterQuote
    <3>2. pc[v] = "writeEdge" => bundle[v].list.epoch \in Nat
      BY <3>1 DEF Release, Allowlist
    <3>3. floor' \in {floor, [floor EXCEPT !["openapi-edge"] = Torn]}
          \/ (pc[v] = "writeEdge"
              /\ floor' = [floor EXCEPT !["openapi-edge"] = bundle[v].list.epoch])
      BY <1>10, RememberEdgeEffect
    <3>4. QED
      BY <3>2, <3>3
  <2>2. QED
    BY <1>10, <2>1, RememberEdgeEffect
<1>11. ASSUME NEW v \in Verifiers, Verdict(v) PROVE TypeOK'
  <2>1. bundle[v] \in Release /\ golden[v] \in Golden \cup {Missing}
    BY <1>11 DEF Verdict, DocumentsInv, AfterTrust, AfterEvidence, AfterCeremony, AfterQuote
  <2>2. bundle[v].list.epoch \in Nat /\ (golden[v] # Missing => golden[v].epoch \in Nat)
    BY <2>1 DEF Release, Allowlist, Golden
  <2>3. highest' \in [Kinds -> Nat]
    BY <1>11, <2>2 DEF Verdict, Larger, Kinds
  <2>4. QED
    BY <1>11, <2>3 DEF Verdict
<1>12. ASSUME NEW v \in Verifiers, Abort(v) PROVE TypeOK'
  BY <1>12 DEF Abort, Fail
<1>13. CASE UNCHANGED vars
  BY <1>13 DEF vars
<1>14. QED
  BY <1>1, <1>2, <1>3, <1>4, <1>5, <1>6, <1>7, <1>8, <1>9, <1>10, <1>11, <1>12, <1>13
     DEF Next, Step

LEMMA DocumentsNext == IInv /\ [Next]_vars => DocumentsInv'
<1> SUFFICES ASSUME TypeOK, DocumentsInv, [Next]_vars PROVE DocumentsInv'
  BY DEF IInv
<1> USE DEF TypeOK, DocumentsInv, AfterTrust, AfterEvidence, AfterCeremony, AfterQuote, AtGolden,
            Goto, locals
<1>1. ASSUME NEW v \in Verifiers, NEW o \in Options, NEW k \in Keys, Connect(v, o, k)
      PROVE  DocumentsInv'
  BY <1>1 DEF Connect
<1>2. ASSUME NEW v \in Verifiers, NEW a \in Answers, ChallengeEdge(v, a) PROVE DocumentsInv'
  BY <1>2 DEF ChallengeEdge
<1>3. ASSUME NEW v \in Verifiers, LoadTrust(v) \/ LoadTrustBase(v) PROVE DocumentsInv'
  <2>1. pc[v] \in {"trust", "trustBase"}
    BY <1>3 DEF LoadTrust, LoadTrustBase
  <2>2. \A w \in Verifiers : bundle'[w] # Missing => Trusted(bundle'[w].list)
    <3> HIDE DEF TypeOK, DocumentsInv, Goto
    <3>1. bundle' = bundle
          \/ \E got \in Release \cup {Missing} : /\ got # Missing => Trusted(got.list)
                                              /\ bundle' = [bundle EXCEPT ![v] = got]
      BY <1>3, TrustEffect
    <3>2. QED
      BY <3>1 DEF TypeOK, DocumentsInv
  <2>3. \A w \in Verifiers : w # v => bundle'[w] = bundle[w] /\ pc'[w] = pc[w]
    <3>1. /\ bundle' = bundle \/ \E got : bundle' = [bundle EXCEPT ![v] = got]
          /\ pc' = pc \/ \E point : Goto(v, point)
      <4> HIDE DEF TypeOK, DocumentsInv, Goto
      <4>1. QED
        BY <1>3, TrustEffect
    <3>2. QED
      BY <3>1
  <2>4. UNCHANGED golden
        /\ (pc'[v] \in {"idle", "trust", "trustBase"} \/ (pc'[v] = "evidence" /\ bundle'[v] # Missing))
    <3>1. /\ UNCHANGED golden
          /\ \/ pc' = pc
             \/ \E point \in {"idle", "trustBase"} : Goto(v, point)
             \/ Goto(v, "evidence") /\ bundle'[v] # Missing
      <4> HIDE DEF TypeOK, DocumentsInv, Goto
      <4>1. QED
        BY <1>3, TrustEffect
    <3>2. QED
      BY <2>1, <3>1
  <2>5. QED
    BY <2>2, <2>3, <2>4
<1>4. ASSUME NEW v \in Verifiers, CheckEvidence(v) PROVE DocumentsInv'
  BY <1>4, EvidenceEffect
<1>5. ASSUME NEW v \in Verifiers, MatchGolden(v) PROVE DocumentsInv'
  BY <1>5, GoldenEffect
<1>6. ASSUME NEW v \in Verifiers, RememberGolden(v) PROVE DocumentsInv'
  BY <1>6, RememberGoldenEffect
<1>7. ASSUME NEW v \in Verifiers, CheckCeremony(v) PROVE DocumentsInv'
  BY <1>7, CeremonyEffect
<1>8. ASSUME NEW v \in Verifiers, CheckSums(v) PROVE DocumentsInv'
  BY <1>8, SumsEffect
<1>9. ASSUME NEW v \in Verifiers, VerifyQuote(v) PROVE DocumentsInv'
  <2>1. /\ pc[v] = "quote" /\ UNCHANGED locals
        /\ Goto(v, "idle") \/ Goto(v, "readEdge")
    <3> HIDE DEF TypeOK, DocumentsInv, Goto, locals
    <3>1. QED
      BY <1>9, QuoteEffect
  <2>2. QED
    BY <2>1
<1>10. ASSUME NEW v \in Verifiers, RememberEdge(v) PROVE DocumentsInv'
  <2>1. /\ pc[v] \in {"readEdge", "truncEdge", "writeEdge"} /\ UNCHANGED locals
        /\ \E point \in {"idle", "truncEdge", "writeEdge", "verdict"} : Goto(v, point)
    <3> HIDE DEF TypeOK, DocumentsInv, Goto, locals
    <3>1. QED
      BY <1>10, RememberEdgeEffect
  <2>2. QED
    BY <2>1
<1>11. ASSUME NEW v \in Verifiers, Verdict(v) \/ Abort(v) PROVE DocumentsInv'
  BY <1>11 DEF Verdict, Abort, Fail
<1>12. CASE UNCHANGED vars
  BY <1>12 DEF vars
<1>13. QED
  BY <1>1, <1>2, <1>3, <1>4, <1>5, <1>6, <1>7, <1>8, <1>9, <1>10, <1>11, <1>12 DEF Next, Step

\* A verifier that has compared the evidence keeps what it compared, and every
\* later point is reached through the checks before it.
LEMMA Kept ==
  ASSUME TypeOK, [Next]_vars, NEW w \in Verifiers, pc'[w] \in AfterEvidence
  PROVE  /\ opts'[w] = opts[w] /\ peer'[w] = peer[w] /\ answer'[w] = answer[w]
         /\ bundle'[w] = bundle[w]
         /\ pc[w] \in AfterEvidence \/ CheckEvidence(w)
         /\ pc'[w] \in AfterCeremony => pc[w] \in AfterCeremony \/ CheckCeremony(w)
         /\ pc'[w] \in AfterQuote => pc[w] \in AfterQuote \/ VerifyQuote(w)
<1> DEFINE Goal == /\ opts'[w] = opts[w] /\ peer'[w] = peer[w] /\ answer'[w] = answer[w]
                   /\ bundle'[w] = bundle[w]
                   /\ pc[w] \in AfterEvidence \/ CheckEvidence(w)
                   /\ pc'[w] \in AfterCeremony => pc[w] \in AfterCeremony \/ CheckCeremony(w)
                   /\ pc'[w] \in AfterQuote => pc[w] \in AfterQuote \/ VerifyQuote(w)
<1> USE DEF TypeOK, AfterEvidence, AfterCeremony, AfterQuote, AtGolden, Goto, locals
<1>1. ASSUME NEW v \in Verifiers, NEW o \in Options, NEW k \in Keys, Connect(v, o, k)
      PROVE  Goal
  BY <1>1 DEF Connect
<1>2. ASSUME NEW v \in Verifiers, NEW a \in Answers, ChallengeEdge(v, a) PROVE Goal
  BY <1>2 DEF ChallengeEdge
<1>3. ASSUME NEW v \in Verifiers, LoadTrust(v) \/ LoadTrustBase(v) PROVE Goal
  <2>1. pc[v] \in {"trust", "trustBase"}
    BY <1>3 DEF LoadTrust, LoadTrustBase
  <2>2. v # w /\ bundle'[w] = bundle[w] /\ pc'[w] = pc[w]
    <3>1. /\ bundle' = bundle \/ \E got : bundle' = [bundle EXCEPT ![v] = got]
          /\ pc' = pc \/ \E point \in {"idle", "trustBase", "evidence"} : Goto(v, point)
      <4> HIDE DEF TypeOK, Goto
      <4>1. QED
        BY <1>3, TrustEffect
    <3>2. v # w
      BY <2>1, <3>1
    <3>3. QED
      BY <3>1, <3>2
  <2>3. UNCHANGED <<opts, peer, answer>>
    BY <1>3, TrustEffect
  <2>4. QED
    BY <2>2, <2>3
<1>4. ASSUME NEW v \in Verifiers, CheckEvidence(v) PROVE Goal
  <2>1. /\ pc[v] = "evidence" /\ UNCHANGED locals
        /\ \E point \in {"idle", "ceremony", "golden", "goldenWww"} : Goto(v, point)
    <3> HIDE DEF TypeOK, Goto, locals
    <3>1. QED
      BY <1>4, EvidenceEffect
  <2>2. QED
    BY <1>4, <2>1
<1>5. ASSUME NEW v \in Verifiers, MatchGolden(v) PROVE Goal
  <2>1. pc[v] \in {"golden", "goldenWww"} /\ UNCHANGED <<opts, peer, answer, bundle>>
    BY <1>5, GoldenEffect
  <2>2. Goto(v, "goldenWww") \/ Goto(v, "idle") \/ Goto(v, "readGolden")
    BY <1>5, GoldenEffect
  <2>3. QED
    BY <2>1, <2>2
<1>6. ASSUME NEW v \in Verifiers, RememberGolden(v) PROVE Goal
  BY <1>6, RememberGoldenEffect
<1>7. ASSUME NEW v \in Verifiers, CheckCeremony(v) PROVE Goal
  BY <1>7, CeremonyEffect
<1>8. ASSUME NEW v \in Verifiers, CheckSums(v) PROVE Goal
  BY <1>8, SumsEffect
<1>9. ASSUME NEW v \in Verifiers, VerifyQuote(v) PROVE Goal
  BY <1>9, QuoteEffect
<1>10. ASSUME NEW v \in Verifiers, RememberEdge(v) PROVE Goal
  BY <1>10, RememberEdgeEffect
<1>11. ASSUME NEW v \in Verifiers, Verdict(v) \/ Abort(v) PROVE Goal
  BY <1>11 DEF Verdict, Abort, Fail
<1>12. CASE UNCHANGED vars
  BY <1>12 DEF vars
<1>13. QED
  BY <1>1, <1>2, <1>3, <1>4, <1>5, <1>6, <1>7, <1>8, <1>9, <1>10, <1>11, <1>12 DEF Next, Step

LEMMA EvidenceNext == IInv /\ [Next]_vars => EvidenceInv'
<1> SUFFICES ASSUME TypeOK, EvidenceInv, [Next]_vars,
                    NEW w \in Verifiers, pc'[w] \in AfterEvidence
             PROVE  /\ ReportDataMatches(answer'[w])
                    /\ SessionBound(w)'
                    /\ MatchingReleases(bundle'[w].list, answer'[w]) # {}
  BY DEF IInv, EvidenceInv
<1>1. /\ opts'[w] = opts[w] /\ peer'[w] = peer[w] /\ answer'[w] = answer[w]
      /\ bundle'[w] = bundle[w]
      /\ pc[w] \in AfterEvidence \/ CheckEvidence(w)
  BY Kept
<1>2. CheckEvidence(w) => ~Goto(w, "idle")
  BY DEF Goto, TypeOK, AfterEvidence, AtGolden, AfterCeremony, AfterQuote
<1>3. /\ ReportDataMatches(answer[w])
      /\ SessionBound(w)
      /\ MatchingReleases(bundle[w].list, answer[w]) # {}
  BY <1>1, <1>2, EvidenceEffect DEF EvidenceInv
<1>4. QED
  BY <1>1, <1>3 DEF SessionBound

LEMMA CeremonyNext == IInv /\ [Next]_vars => CeremonyInv'
<1> SUFFICES ASSUME TypeOK, CeremonyInv, [Next]_vars,
                    NEW w \in Verifiers, pc'[w] \in AfterCeremony, opts'[w].ceremony
             PROVE  Vouched(answer'[w])
  BY DEF IInv, CeremonyInv, Vouched
<1>1. /\ opts'[w] = opts[w] /\ answer'[w] = answer[w]
      /\ pc[w] \in AfterCeremony \/ CheckCeremony(w)
  BY Kept DEF AfterEvidence
<1>2. CheckCeremony(w) => ~Goto(w, "idle")
  BY DEF Goto, TypeOK, AfterCeremony, AfterQuote
<1>3. QED
  BY <1>1, <1>2, CeremonyEffect DEF CeremonyInv

LEMMA QuoteNext == IInv /\ [Next]_vars => QuoteInv'
<1> SUFFICES ASSUME TypeOK, QuoteInv, [Next]_vars, NEW w \in Verifiers, pc'[w] \in AfterQuote
             PROVE  /\ answer'[w].genuine /\ answer'[w].measures = answer'[w].build
                    /\ answer'[w].format # "sgx_report"
  BY DEF IInv, QuoteInv
<1>1. answer'[w] = answer[w] /\ (pc[w] \in AfterQuote \/ VerifyQuote(w))
  BY Kept DEF AfterEvidence, AfterCeremony
<1>2. VerifyQuote(w) => ~Goto(w, "idle")
  BY DEF Goto, TypeOK, AfterQuote
<1>3. QED
  BY <1>1, <1>2, QuoteEffect DEF QuoteInv

LEMMA Inductive == Spec => []IInv
<1>1. IInv /\ [Next]_vars => IInv'
  BY TypeNext, DocumentsNext, EvidenceNext, CeremonyNext, QuoteNext DEF IInv
<1>2. QED
  BY InitIInv, <1>1, PTL DEF Spec

-----------------------------------------------------------------------------
(***************************************************************************)
(* What a verdict stands for.                                              *)
(***************************************************************************)

\* Every variable keeps its type; the attempts at a tag stay within the loop of
\* load_trust_bundle_for_edge, and an epoch file holds a number, nothing, or
\* half a number.
THEOREM TypeCorrect == Spec => []TypeOK
<1>1. IInv => TypeOK
  BY DEF IInv
<1>2. QED
  BY Inductive, <1>1, PTL

\* finish_verify gives its verdict on what it has checked: no step between a
\* check and the verdict changes the answer, the list or the call, whatever
\* other verifiers do to the files they share.
THEOREM VerdictsAreSound == Spec => []VerdictSound
<1>1. IInv => VerdictSound
  <2> SUFFICES ASSUME IInv, NEW v \in Verifiers, pc[v] = "verdict"
               PROVE  LET a    == answer[v]
                          list == bundle[v].list
                      IN  /\ a.genuine /\ a.report.nonce = "mine" /\ a.format # "sgx_report"
                          /\ a.measures = a.build /\ a.measures = a.report.build
                          /\ ~list.expired
                          /\ list.signed \/ \E b \in Builds, i \in Attempts :
                               GitHub[b][i] # Missing /\ GitHub[b][i].list = list
                          /\ \E r \in list.rows : r.build = a.measures /\ ~r.lapsed
                          /\ (list.bindSpki /\ ~opts[v].skipSpki) => a.report.key = peer[v]
    BY DEF VerdictSound
  <2> USE DEF AfterTrust, AfterEvidence, AfterCeremony, AfterQuote
  <2>1. Trusted(bundle[v].list)
    BY DEF IInv, DocumentsInv
  <2>2. /\ answer[v].genuine /\ answer[v].measures = answer[v].build
        /\ answer[v].format # "sgx_report"
    BY DEF IInv, QuoteInv
  <2>3. /\ answer[v].report.nonce = "mine" /\ answer[v].report.build = answer[v].build
        /\ answer[v].report.key = answer[v].key
    <3>1. ReportDataMatches(answer[v])
      BY DEF IInv, EvidenceInv
    <3>2. QED
      BY <3>1 DEF ReportDataMatches
  <2>4. SessionBound(v)
    BY DEF IInv, EvidenceInv
  <2>5. \E r \in bundle[v].list.rows : r.build = answer[v].build /\ ~r.lapsed
    BY DEF IInv, EvidenceInv, MatchingReleases
  <2>6. QED
    BY <2>1, <2>2, <2>3, <2>4, <2>5 DEF Trusted, SessionBound
<1>2. QED
  BY Inductive, <1>1, PTL

\* A verdict with the ceremony check on is about a key that a signed list pins
\* to a golden version of the right policy, or no pin is in force.
THEOREM CeremonyKeysArePinned == Spec => []CeremonyPinned
<1>1. IInv => CeremonyPinned
  BY DEF IInv, CeremonyInv, Vouched, AfterCeremony, AfterQuote, CeremonyPinned
<1>2. QED
  BY Inductive, <1>1, PTL

-----------------------------------------------------------------------------
(***************************************************************************)
(* No rollback, for one verifier at a time: remember_epoch reads, compares *)
(* and writes without a lock.                                              *)
(***************************************************************************)

OneVerifier == \A v, w \in Verifiers : v = w

LEMMA InitRollback == Init => RollbackInv
<1> SUFFICES ASSUME Init PROVE RollbackInv
  OBVIOUS
<1> USE DEF Init
<1>1. FileInv /\ PeakInv
  BY DEF FileInv, PeakInv, Readable, FloorOf, Kinds
<1>2. EpochInv
  BY DEF EpochInv, AfterTrust, AfterEvidence, AtGolden, AfterCeremony, AfterQuote
<1>3. QED
  BY <1>1, <1>2 DEF RollbackInv

\* An epoch that passes assert_epoch_monotonic is not below any verdict.
LEMMA AdmittedEpoch ==
  ASSUME TypeOK, FileInv, NEW k \in Kinds, NEW e \in Nat, EpochMonotonic(k, e)
  PROVE  e >= highest[k]
<1>1. FloorOf(k) \in Nat /\ highest[k] \in Nat
  BY DEF EpochMonotonic, Readable, FloorOf, TypeOK
<1>2. QED
  BY <1>1 DEF EpochMonotonic, FileInv

\* The epochs of the documents a verifier holds are numbers.
LEMMA EpochsAreNumbers ==
  ASSUME TypeOK, DocumentsInv, NEW v \in Verifiers
  PROVE  /\ pc[v] \in AfterTrust => bundle[v].list.epoch \in Nat
         /\ golden[v] # Missing => golden[v].epoch \in Nat
<1>1. pc[v] \in AfterTrust => bundle[v] \in Release
  BY DEF TypeOK, DocumentsInv
<1>2. QED
  BY <1>1 DEF Release, Allowlist, Golden, TypeOK

LEMMA RollbackNext ==
  ASSUME OneVerifier
  PROVE  IInv /\ RollbackInv /\ [Next]_vars => RollbackInv'
<1> SUFFICES ASSUME TypeOK, DocumentsInv, FileInv, EpochInv, PeakInv, [Next]_vars
             PROVE  RollbackInv'
  BY DEF IInv, RollbackInv
<1> USE DEF RollbackInv, AfterTrust, AfterEvidence, AtGolden, AfterCeremony, AfterQuote, Goto,
            locals
\* Steps that leave the files and the verdicts alone.
<1>1. ASSUME UNCHANGED <<floor, highest, peak>>, EpochInv' PROVE RollbackInv'
  BY <1>1 DEF FileInv, PeakInv, Readable, FloorOf
<1>2. ASSUME NEW v \in Verifiers, NEW o \in Options, NEW k \in Keys, Connect(v, o, k)
      PROVE  RollbackInv'
  <2>1. FileInv'
    BY <1>2 DEF Connect, FileInv, Readable, FloorOf
  <2>2. PeakInv'
    BY <1>2 DEF Connect, PeakInv, TypeOK
  <2>3. EpochInv'
    BY <1>2 DEF Connect, EpochInv, OneVerifier, TypeOK
  <2>4. QED
    BY <2>1, <2>2, <2>3
<1>3. ASSUME NEW v \in Verifiers, NEW a \in Answers, ChallengeEdge(v, a) PROVE RollbackInv'
  <2>1. EpochInv'
    BY <1>3 DEF ChallengeEdge, EpochInv, OneVerifier, TypeOK
  <2>2. QED
    BY <1>1, <1>3, <2>1 DEF ChallengeEdge
<1>4. ASSUME NEW v \in Verifiers, LoadTrust(v) \/ LoadTrustBase(v) PROVE RollbackInv'
  <2>1. pc[v] \in {"trust", "trustBase"}
    BY <1>4 DEF LoadTrust, LoadTrustBase
  <2>2. pc'[v] \in {"idle", "trust", "trustBase", "evidence"}
        /\ UNCHANGED <<floor, highest, peak, golden>>
    BY <1>4, <2>1, TrustEffect DEF TypeOK
  <2>3. EpochInv'
    BY <2>1, <2>2 DEF EpochInv, OneVerifier
  <2>4. QED
    BY <1>1, <2>2, <2>3
<1>5. ASSUME NEW v \in Verifiers, CheckEvidence(v) PROVE RollbackInv'
  <2>1. pc[v] = "evidence" /\ UNCHANGED <<floor, locals, highest>>
    BY <1>5, EvidenceEffect
  <2>2. golden[v] = Missing
    BY <2>1 DEF EpochInv
  <2>3. \/ pc'[v] = "idle"
        \/ /\ pc'[v] \in {"ceremony", "golden", "goldenWww"}
           /\ bundle[v].list.epoch >= highest["openapi-edge"]
    BY <1>5, <2>1, EvidenceEffect, EpochsAreNumbers, AdmittedEpoch DEF TypeOK, Kinds
  <2>4. EpochInv'
    BY <2>1, <2>2, <2>3 DEF EpochInv, OneVerifier
  <2>5. QED
    BY <1>1, <2>1, <2>4
<1>6. ASSUME NEW v \in Verifiers, MatchGolden(v) PROVE RollbackInv'
  <2>1. /\ pc[v] \in {"golden", "goldenWww"}
        /\ UNCHANGED <<floor, bundle, peak, highest>>
    BY <1>6, GoldenEffect
  <2>2. /\ golden[v] = Missing
        /\ bundle[v].list.epoch >= highest["openapi-edge"]
    BY <2>1 DEF EpochInv
  <2>3. \/ pc'[v] = "idle"
        \/ pc'[v] = "goldenWww" /\ golden'[v] = Missing
        \/ pc'[v] = "readGolden" /\ golden'[v].epoch >= highest["golden-digests"]
    <3>1. CASE UNCHANGED golden /\ (Goto(v, "goldenWww") \/ Goto(v, "idle"))
      BY <2>2, <3>1 DEF TypeOK
    <3>2. ASSUME NEW g \in Golden, golden' = [golden EXCEPT ![v] = g],
                 Goto(v, IF EpochMonotonic("golden-digests", g.epoch) THEN "readGolden"
                         ELSE "idle")
          PROVE  \/ pc'[v] = "idle"
                 \/ pc'[v] = "readGolden" /\ golden'[v].epoch >= highest["golden-digests"]
      <4>1. g.epoch \in Nat /\ golden'[v] = g
        BY <3>2 DEF Golden, TypeOK
      <4>2. QED
        BY <3>2, <4>1, AdmittedEpoch DEF TypeOK, Kinds
    <3>3. QED
      BY <1>6, <3>1, <3>2, GoldenEffect
  <2>4. EpochInv'
    BY <2>1, <2>2, <2>3 DEF EpochInv, OneVerifier
  <2>5. QED
    BY <1>1, <2>1, <2>4
<1>7. ASSUME NEW v \in Verifiers, RememberGolden(v) PROVE RollbackInv'
  <2>1. UNCHANGED <<bundle, golden, peak, highest>>
    BY <1>7, RememberGoldenEffect
  <2>2. pc[v] \in AtGolden
    BY <1>7, RememberGoldenEffect
  <2>3. /\ golden[v] # Missing /\ golden[v].epoch \in Nat
        /\ golden[v].epoch >= highest["golden-digests"]
        /\ bundle[v].list.epoch >= highest["openapi-edge"]
    BY <2>2, EpochsAreNumbers DEF DocumentsInv, EpochInv
  <2>4. PeakInv'
    BY <2>1 DEF PeakInv
  <2>5. CASE UNCHANGED floor /\ pc[v] = "readGolden"
    <3>1. FileInv'
      BY <2>1, <2>5 DEF FileInv, Readable, FloorOf
    <3>2. \/ pc'[v] \in {"idle", "truncGolden"}
          \/ pc'[v] = "ceremony" /\ golden[v].epoch <= FloorOf("golden-digests")
      BY <1>7, <2>5, RememberGoldenEffect DEF TypeOK
    <3>3. golden[v].epoch <= FloorOf("golden-digests") /\ Readable("golden-digests")
            => FloorOf("golden-digests") >= golden[v].epoch
      BY <2>3 DEF FloorOf, Readable, TypeOK, Kinds
    <3>4. EpochInv'
      BY <2>1, <2>3, <2>5, <3>2, <3>3 DEF EpochInv, OneVerifier, Readable, FloorOf
    <3>5. QED
      BY <2>4, <3>1, <3>4
  <2>6. CASE pc[v] = "truncGolden"
    <3>1. pc'[v] = "writeGolden" /\ floor' = [floor EXCEPT !["golden-digests"] = Torn]
      BY <1>7, <2>6, RememberGoldenEffect DEF TypeOK
    <3>2. FileInv'
      BY <2>1, <3>1 DEF FileInv, Readable, FloorOf, TypeOK, Kinds
    <3>3. EpochInv'
      BY <2>1, <2>3, <3>1 DEF EpochInv, OneVerifier
    <3>4. QED
      BY <2>4, <3>2, <3>3
  <2>7. CASE pc[v] = "writeGolden"
    <3>1. pc'[v] = "ceremony" /\ floor' = [floor EXCEPT !["golden-digests"] = golden[v].epoch]
      BY <1>7, <2>7, RememberGoldenEffect DEF TypeOK
    <3>2. floor'["golden-digests"] = golden[v].epoch /\ golden[v].epoch # Absent
          /\ \A k \in Kinds : k # "golden-digests" => floor'[k] = floor[k]
      BY <2>3, <3>1 DEF TypeOK, Kinds
    <3>3. FileInv'
      BY <2>1, <2>3, <3>2 DEF FileInv, Readable, FloorOf
    <3>4. FloorOf("golden-digests")' >= golden[v].epoch
      BY <2>3, <3>2 DEF FloorOf
    <3>5. EpochInv'
      BY <2>1, <2>3, <3>1, <3>4 DEF EpochInv, OneVerifier
    <3>6. QED
      BY <2>4, <3>3, <3>5
  <2>8. QED
    BY <1>7, <2>5, <2>6, <2>7, RememberGoldenEffect
<1>8. ASSUME NEW v \in Verifiers, CheckCeremony(v) \/ CheckSums(v) \/ VerifyQuote(v)
      PROVE  RollbackInv'
  <2>1. pc[v] \in {"ceremony", "sums", "quote"} /\ UNCHANGED <<floor, locals, highest>>
    BY <1>8, CeremonyEffect, SumsEffect, QuoteEffect
  <2>2. pc'[v] \in {"idle", "sums", "quote", "readEdge"}
    BY <1>8, CeremonyEffect, SumsEffect, QuoteEffect DEF TypeOK
  <2>3. EpochInv'
    BY <2>1, <2>2 DEF EpochInv, OneVerifier, Readable, FloorOf
  <2>4. QED
    BY <1>1, <2>1, <2>3
<1>9. ASSUME NEW v \in Verifiers, RememberEdge(v) PROVE RollbackInv'
  <2>1. UNCHANGED <<bundle, golden, peak, highest>>
    BY <1>9, RememberEdgeEffect
  <2>2. pc[v] \in {"readEdge", "truncEdge", "writeEdge"}
    BY <1>9, RememberEdgeEffect
  <2>3. /\ bundle[v].list.epoch \in Nat /\ bundle[v].list.epoch >= highest["openapi-edge"]
        /\ golden[v] # Missing => golden[v].epoch >= highest["golden-digests"]
        /\ golden[v] # Missing /\ Readable("golden-digests") =>
             FloorOf("golden-digests") >= golden[v].epoch
    BY <2>2, EpochsAreNumbers DEF EpochInv
  <2>4. PeakInv'
    BY <2>1 DEF PeakInv
  <2>5. CASE UNCHANGED floor /\ pc[v] = "readEdge"
    <3>1. FileInv'
      BY <2>1, <2>5 DEF FileInv, Readable, FloorOf
    <3>2. \/ pc'[v] \in {"idle", "truncEdge"}
          \/ pc'[v] = "verdict" /\ bundle[v].list.epoch <= FloorOf("openapi-edge")
      BY <1>9, <2>5, RememberEdgeEffect DEF TypeOK
    <3>3. bundle[v].list.epoch <= FloorOf("openapi-edge") /\ Readable("openapi-edge")
            => FloorOf("openapi-edge") >= bundle[v].list.epoch
      BY <2>3 DEF FloorOf, Readable, TypeOK, Kinds
    <3>4. EpochInv'
      BY <2>1, <2>3, <2>5, <3>2, <3>3 DEF EpochInv, OneVerifier, Readable, FloorOf
    <3>5. QED
      BY <2>4, <3>1, <3>4
  <2>6. CASE pc[v] = "truncEdge"
    <3>1. pc'[v] = "writeEdge" /\ floor' = [floor EXCEPT !["openapi-edge"] = Torn]
      BY <1>9, <2>6, RememberEdgeEffect DEF TypeOK
    <3>2. FileInv'
      BY <2>1, <3>1 DEF FileInv, Readable, FloorOf, TypeOK, Kinds
    <3>3. floor'["golden-digests"] = floor["golden-digests"]
      BY <3>1 DEF TypeOK, Kinds
    <3>4. EpochInv'
      BY <2>1, <2>3, <3>1, <3>3 DEF EpochInv, OneVerifier, Readable, FloorOf
    <3>5. QED
      BY <2>4, <3>2, <3>4
  <2>7. CASE pc[v] = "writeEdge"
    <3>1. pc'[v] = "verdict" /\ floor' = [floor EXCEPT !["openapi-edge"] = bundle[v].list.epoch]
      BY <1>9, <2>7, RememberEdgeEffect DEF TypeOK
    <3>2. floor'["openapi-edge"] = bundle[v].list.epoch /\ bundle[v].list.epoch # Absent
          /\ \A k \in Kinds : k # "openapi-edge" => floor'[k] = floor[k]
      BY <2>3, <3>1 DEF TypeOK, Kinds
    <3>3. FileInv'
      BY <2>1, <2>3, <3>2 DEF FileInv, Readable, FloorOf
    <3>4. FloorOf("openapi-edge")' >= bundle[v].list.epoch
      BY <2>3, <3>2 DEF FloorOf
    <3>5. floor'["golden-digests"] = floor["golden-digests"]
      BY <3>2 DEF Kinds
    <3>6. EpochInv'
      BY <2>1, <2>3, <3>1, <3>4, <3>5 DEF EpochInv, OneVerifier, Readable, FloorOf
    <3>7. QED
      BY <2>4, <3>3, <3>6
  <2>8. QED
    BY <1>9, <2>5, <2>6, <2>7, RememberEdgeEffect
<1>10. ASSUME NEW v \in Verifiers, Verdict(v) PROVE RollbackInv'
  <2>1. pc[v] = "verdict" /\ pc'[v] = "idle" /\ UNCHANGED <<floor, locals>>
    BY <1>10 DEF Verdict, TypeOK
  <2>2. bundle[v].list.epoch \in Nat /\ (golden[v] # Missing => golden[v].epoch \in Nat)
    BY <2>1, EpochsAreNumbers
  <2>3. /\ highest'["openapi-edge"] \in {highest["openapi-edge"], bundle[v].list.epoch}
        /\ highest'["golden-digests"] = highest["golden-digests"]
           \/ (golden[v] # Missing /\ highest'["golden-digests"] = golden[v].epoch)
    BY <1>10 DEF Verdict, Larger, Kinds
  <2>4. \A k \in Kinds : highest'[k] \in Nat /\ highest'[k] >= highest[k]
    BY <1>10, <2>2 DEF Verdict, Larger, Kinds, TypeOK
  <2>5. FileInv'
    BY <2>1, <2>3 DEF FileInv, EpochInv, Readable, FloorOf, Kinds
  <2>6. PeakInv'
    <3>1. \A w \in Verifiers, k \in Kinds : peak[w][k] \in Nat /\ highest[k] \in Nat
      BY DEF TypeOK
    <3>2. QED
      BY <2>1, <2>4, <3>1 DEF PeakInv
  <2>7. EpochInv'
    BY <2>1 DEF EpochInv, OneVerifier
  <2>8. QED
    BY <2>5, <2>6, <2>7
<1>11. ASSUME NEW v \in Verifiers, Abort(v) PROVE RollbackInv'
  <2>1. pc'[v] = "idle" /\ UNCHANGED <<floor, locals, highest>>
    BY <1>11 DEF Abort, Fail, TypeOK
  <2>2. EpochInv'
    BY <2>1 DEF EpochInv, OneVerifier
  <2>3. QED
    BY <1>1, <2>1, <2>2
<1>12. CASE UNCHANGED vars
  <2>1. EpochInv'
    BY <1>12 DEF vars, EpochInv, Readable, FloorOf
  <2>2. QED
    BY <1>1, <1>12, <2>1 DEF vars
<1>13. QED
  BY <1>2, <1>3, <1>4, <1>5, <1>6, <1>7, <1>8, <1>9, <1>10, <1>11, <1>12 DEF Next, Step

\* The epoch files keep an older allowlist or golden manifest from every later
\* verdict: with one verifier at a time, through any number of errors, crashes
\* and interrupted writings, and for manifests of any epoch.
THEOREM EpochsNeverFall ==
  ASSUME OneVerifier
  PROVE  Spec => []NoRollback
<1>1. IInv /\ RollbackInv => NoRollback
  <2> SUFFICES ASSUME IInv, RollbackInv, NEW v \in Verifiers, pc[v] = "verdict"
               PROVE  /\ bundle[v].list.epoch >= peak[v]["openapi-edge"]
                      /\ golden[v] # Missing => golden[v].epoch >= peak[v]["golden-digests"]
    BY DEF NoRollback
  <2>1. /\ bundle[v].list.epoch \in Nat
        /\ golden[v] # Missing => golden[v].epoch \in Nat
        /\ \A k \in Kinds : peak[v][k] \in Nat /\ highest[k] \in Nat /\ highest[k] >= peak[v][k]
    BY EpochsAreNumbers DEF IInv, RollbackInv, PeakInv, TypeOK, AfterTrust, AfterEvidence,
         AfterCeremony, AfterQuote
  <2>2. /\ bundle[v].list.epoch >= highest["openapi-edge"]
        /\ golden[v] # Missing => golden[v].epoch >= highest["golden-digests"]
    BY DEF RollbackInv, EpochInv, AfterEvidence, AfterCeremony, AfterQuote
  <2>3. QED
    BY <2>1, <2>2 DEF Kinds
<1>2. QED
  BY Inductive, InitRollback, RollbackNext, <1>1, PTL DEF Spec
=============================================================================
