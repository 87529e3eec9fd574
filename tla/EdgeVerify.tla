----------------------------- MODULE EdgeVerify -----------------------------
(***************************************************************************)
(* The verifier of an edge: crates/openapi-attest, its command line        *)
(* bins/teechat-openapi-attest and the challenge binding of                *)
(* crates/openapi-platform/src/challenge.rs.                               *)
(*                                                                         *)
(* A verification looks at the TLS leaf of an endpoint, challenges it,     *)
(* looks for a release allowlist that has the edge on it, and then checks  *)
(* the answer: the nonce, the session key, the allowlist row, the golden   *)
(* image of the row, the ceremony pin of the key, the checksums and the    *)
(* hardware quote.  The highest epochs it accepted are kept in two files,  *)
(* written in place, so that an older allowlist is refused in later runs.  *)
(* The endpoint, the network and the mirrors answer with anything they     *)
(* have; the process may die between any two steps.                        *)
(*                                                                         *)
(* A build stands for the version, code hash and measurement an allowlist  *)
(* row names; a key for a TLS key pair.                                    *)
(***************************************************************************)
EXTENDS Naturals, FiniteSets

CONSTANTS
  Verifiers,     \* processes that verify edges and share the epoch files
  Builds, Keys, Versions,   \* builds, TLS keys, golden versions
  Versioned,     \* the builds whose version is a semantic version
  Image,         \* the golden version whose OS image a build runs on
  Unpinned,      \* a row without golden_version
  Options,       \* how verifiers are called
  Answers,       \* what endpoints answer to a challenge
  GitHub,        \* the release of a build's tag and of the tags after it
  Www,           \* the allowlists the fallback has or may replay
  Goldens,       \* the golden manifests: the pinned release ...
  GoldenWww,     \* ... and those the fallback has or may replay
  Ceremonies,    \* the ceremony manifests that are served
  Missing,       \* no release, no document
  Absent, Torn   \* no epoch file, and one whose writing was interrupted

\* for _ in 0..6
Attempts == 0 .. 5

\* An allowlist row, the allowlist, and a release: the allowlist under a tag
\* with the builds in its SHA256SUMS.
Formats   == {"snp_report", "sgx_dcap_ecdsa", "sgx_report"}
Row       == [build : Builds, formats : SUBSET Formats, golden : Versions \cup {Unpinned},
              lapsed : BOOLEAN]
Allowlist == [epoch : Nat, expired : BOOLEAN, signed : BOOLEAN, pinsPolicy : BOOLEAN,
              bindSpki : BOOLEAN, rejectDebug : BOOLEAN, rows : SUBSET Row]
Release   == [list : Allowlist, hasSums : BOOLEAN, sums : SUBSET Builds]

\* A golden manifest names versions; the key policy baked into some of them is
\* key_ceremony.
Golden    == [epoch : Nat, signed : BOOLEAN, versions : SUBSET Versions,
              ceremony : SUBSET Versions]
\* A pin of a key, with the golden version the key was made on; the pins are
\* active, or retired and still in grace.
Pin       == [key : Keys, golden : Versions]
Ceremony  == [signed : BOOLEAN, host : BOOLEAN, active : SUBSET Pin, grace : SUBSET Pin]

Option    == [source : {"auto", "tag", "www", "local"}, skipSpki : BOOLEAN,
              golden : {"off", "github", "www"}, ceremony : BOOLEAN]

\* What the report data of a quote hashes: the nonce of a challenge, this one's
\* or an older one's, the build and the digest naming the key.  The policy hash
\* is not part of it.
ReportData == [nonce : {"mine", "other"}, build : Builds, key : Keys,
               digest : {"spki", "cert"}]

\* An answer: what it claims (build, key, whether the key is named by its SPKI or
\* by the older digest of the certificate, and whether the policy hash is the
\* one the rows pin) and its quote.
Answer    == [build : Builds, key : Keys, digest : {"spki", "cert"}, policy : BOOLEAN,
              format : Formats, report : ReportData, measures : Builds,
              genuine : BOOLEAN, debug : BOOLEAN]

ASSUME EdgeVerifyAssumption ==
  /\ Versioned \subseteq Builds
  /\ Image \in [Builds -> Versions]
  /\ Unpinned \notin Versions
  /\ Options \subseteq Option
  /\ Answers \subseteq Answer
  /\ GitHub \in [Builds -> [Attempts -> Release \cup {Missing}]]
  /\ Www \subseteq Allowlist
  /\ Goldens \subseteq Golden /\ GoldenWww \subseteq Golden
  /\ Ceremonies \subseteq Ceremony
  /\ Missing \notin Release
  /\ Absent \notin Nat /\ Torn \notin Nat /\ Absent # Torn

VARIABLES
  floor,     \* the epoch files of the two kinds of manifest
  vcek,      \* the cached certificate of the chip that signs the reports
  pc,        \* where each verifier stands
  opts,      \* how it was called
  peer,      \* the key of the TLS leaf it saw
  answer,    \* the challenge response
  attempt,   \* how often the release tag was bumped
  bundle,    \* the allowlist it has loaded, or the last one that did not match
  golden,    \* the golden manifest it has matched
  highest,   \* the highest epochs of any verdict so far
  peak       \* `highest` when the verification began

locals == <<opts, peer, answer, attempt, bundle, golden, peak>>
vars   == <<floor, vcek, pc, locals, highest>>

Kinds  == {"openapi-edge", "golden-digests"}
Points == {"idle", "challenge", "trust", "trustBase", "evidence", "golden", "goldenWww",
           "readGolden", "truncGolden", "writeGolden", "ceremony", "sums", "quote",
           "readEdge", "truncEdge", "writeEdge", "verdict"}

TypeOK ==
  /\ floor \in [Kinds -> Nat \cup {Absent, Torn}]
  /\ vcek \in {Absent, "whole", "cut"}
  /\ pc \in [Verifiers -> Points]
  /\ opts \in [Verifiers -> Options]
  /\ peer \in [Verifiers -> Keys]
  /\ answer \in [Verifiers -> Answers]
  /\ attempt \in [Verifiers -> Attempts]
  /\ bundle \in [Verifiers -> Release \cup {Missing}]
  /\ golden \in [Verifiers -> Golden \cup {Missing}]
  /\ highest \in [Kinds -> Nat] /\ peak \in [Verifiers -> [Kinds -> Nat]]

Init ==
  /\ floor = [k \in Kinds |-> Absent]
  /\ vcek = Absent
  /\ pc = [v \in Verifiers |-> "idle"]
  /\ opts \in [Verifiers -> Options]
  /\ \E k \in Keys : peer = [v \in Verifiers |-> k]
  /\ \E a \in Answers : answer = [v \in Verifiers |-> a]
  /\ attempt = [v \in Verifiers |-> 0]
  /\ bundle = [v \in Verifiers |-> Missing]
  /\ golden = [v \in Verifiers |-> Missing]
  /\ highest = [k \in Kinds |-> 0]
  /\ peak = [v \in Verifiers |-> highest]

Goto(v, point) == pc' = [pc EXCEPT ![v] = point]

\* The error returns from verify_openapi_edge.
Fail(v) ==
  /\ Goto(v, "idle")
  /\ UNCHANGED <<opts, peer, answer, attempt, bundle, golden, peak>>

Proceed(v, point) ==
  /\ Goto(v, point)
  /\ UNCHANGED <<opts, peer, answer, attempt, bundle, golden, peak>>

-----------------------------------------------------------------------------
(***************************************************************************)
(* The endpoint: its TLS leaf and its answer.  They come over two          *)
(* connections, which need not reach the same edge.                        *)
(***************************************************************************)

\* main, and fetch_peer_tls_identity.
Connect(v, o, k) ==
  /\ pc[v] = "idle"
  /\ opts' = [opts EXCEPT ![v] = o]
  /\ peer' = [peer EXCEPT ![v] = k]
  /\ attempt' = [attempt EXCEPT ![v] = 0]
  /\ bundle' = [bundle EXCEPT ![v] = Missing]
  /\ golden' = [golden EXCEPT ![v] = Missing]
  /\ peak' = [peak EXCEPT ![v] = highest]
  /\ Goto(v, "challenge")
  /\ UNCHANGED <<floor, vcek, answer, highest>>

\* generate_nonce and challenge_edge.
ChallengeEdge(v, a) ==
  /\ pc[v] = "challenge"
  /\ answer' = [answer EXCEPT ![v] = a]
  /\ Goto(v, "trust")
  /\ UNCHANGED <<floor, vcek, opts, peer, attempt, bundle, golden, peak, highest>>

-----------------------------------------------------------------------------
(***************************************************************************)
(* The allowlist.                                                          *)
(***************************************************************************)

\* parse_and_validate_manifest
Valid(list) == ~list.expired /\ list.pinsPolicy

\* Mutant: the fallback is believed without its signature.
SignedOrNot(list) == Valid(list)

\* verify_signed_manifest_bytes
SignedManifest(list) == list.signed /\ Valid(list)

Unchecked(list) == [list |-> list, hasSums |-> FALSE, sums |-> {}]

\* load_teechat_fallback, and load_signed_manifest_files: signed, without
\* checksums.
Fallback == {Unchecked(list) : list \in {l \in Www : SignedManifest(l)}}

\* fetch_github_release_trust_resolved: the release of the tag is there and
\* its allowlist is valid.
FromGitHub(b, i) ==
  IF GitHub[b][i] # Missing /\ Valid(GitHub[b][i].list) THEN {GitHub[b][i]} ELSE {}

\* load_trust_bundle: what it may return, Missing standing for its error.  The
\* fallback stands in for GitHub whenever GitHub fails.  A tag that the caller
\* names may be any, whatever the answer's build.
LoadTrustBundle(o, b, i) ==
  Fallback \cup {Missing} \cup
    CASE o.source = "auto" -> FromGitHub(b, i)
      [] o.source = "tag"  -> UNION {FromGitHub(named, j) : named \in Builds, j \in Attempts}
      [] OTHER             -> {}

\* find_matching_releases: the claim is on a row of the hostname's region that
\* is active or retired in grace.
MatchingReleases(list, a) ==
  {r \in list.rows : r.build = a.build /\ a.format \in r.formats /\ a.policy /\ ~r.lapsed}

LastAttempt(v) == attempt[v] + 1 \notin Attempts

\* Mutant: the search begins again.
StartOver(v) == attempt' = [attempt EXCEPT ![v] = 0] /\ UNCHANGED pc

\* The loop ends without a list: the build's own tag is tried once more.
OutOfTags(v) == Goto(v, "trustBase") /\ UNCHANGED attempt

\* No row matches, or the tag did not load: the tag with the next patch number
\* (bump_semver_patch_tag) is tried.  Once some tag has loaded, an error ends
\* the search with it.
NextTag(v, got) ==
  LET versioned == answer[v].build \in Versioned
      bump      == attempt' = [attempt EXCEPT ![v] = @ + 1] /\ UNCHANGED pc
  IN  CASE got = Missing /\ bundle[v] # Missing ->
             Goto(v, "evidence") /\ UNCHANGED <<attempt, bundle>>
        [] got # Missing ->
             /\ bundle' = [bundle EXCEPT ![v] = got]
             /\ IF versioned /\ ~LastAttempt(v) THEN bump
                ELSE Goto(v, "evidence") /\ UNCHANGED attempt
        [] OTHER ->
             /\ CASE ~versioned     -> Goto(v, "idle") /\ UNCHANGED attempt
                  [] LastAttempt(v) -> OutOfTags(v)
                  [] OTHER          -> bump
             /\ UNCHANGED bundle

\* load_trust_bundle_for_edge, one tag at a time.
LoadTrust(v) ==
  /\ pc[v] = "trust"
  /\ \E got \in LoadTrustBundle(opts[v], answer[v].build, attempt[v]) :
       IF opts[v].source = "auto" /\ (got = Missing \/ MatchingReleases(got.list, answer[v]) = {})
       THEN NextTag(v, got)
       ELSE /\ bundle' = [bundle EXCEPT ![v] = got]
            /\ Goto(v, IF got = Missing THEN "idle" ELSE "evidence")
            /\ UNCHANGED attempt
  /\ UNCHANGED <<floor, vcek, opts, peer, answer, golden, peak, highest>>

\* Its last resort, load_trust_bundle(opts).
LoadTrustBase(v) ==
  /\ pc[v] = "trustBase"
  /\ \E got \in LoadTrustBundle(opts[v], answer[v].build, 0) :
       /\ bundle' = [bundle EXCEPT ![v] = got]
       /\ Goto(v, IF got = Missing THEN "idle" ELSE "evidence")
  /\ UNCHANGED <<floor, vcek, opts, peer, answer, attempt, golden, peak, highest>>

-----------------------------------------------------------------------------
(***************************************************************************)
(* The epoch files.                                                        *)
(***************************************************************************)

\* read_epoch_floor: no file reads as 0, one that does not parse is an error.
Readable(kind)  == floor[kind] # Torn
FloorOf(kind)   == IF floor[kind] = Absent THEN 0 ELSE floor[kind]

\* Mutant: the floor is not asked.
AnyEpoch(kind, epoch) == Readable(kind) /\ epoch >= 1

\* assert_epoch_monotonic
EpochMonotonic(kind, epoch) == Readable(kind) /\ epoch >= 1 /\ epoch >= FloorOf(kind)

\* remember_epoch reads the file again ...
Remember(v, kind, epoch, trunc, next) ==
  /\ Goto(v, IF ~Readable(kind) THEN "idle"
             ELSE IF epoch <= FloorOf(kind) THEN next ELSE trunc)
  /\ UNCHANGED floor

\* ... and fs::write truncates it and writes the number.
Truncate(v, kind, write) ==
  /\ floor' = [floor EXCEPT ![kind] = Torn]
  /\ Goto(v, write)

Write(v, kind, epoch, next) ==
  /\ floor' = [floor EXCEPT ![kind] = epoch]
  /\ Goto(v, next)

-----------------------------------------------------------------------------
(***************************************************************************)
(* finish_verify.                                                          *)
(***************************************************************************)

\* verify_challenge_report_data: the report data is the one of this nonce and of
\* the claim.
ReportDataMatches(a) ==
  a.report = [nonce |-> "mine", build |-> a.build, key |-> a.key, digest |-> a.digest]

\* Mutant: the claimed key need not be the one of the connection.
AnySession(v) == TRUE

\* The session key: the claim is one of the two digests of the TLS leaf.
SessionBound(v) ==
  bundle[v].list.bindSpki /\ ~opts[v].skipSpki => answer[v].key = peer[v]

\* From assert_epoch_monotonic to find_matching_releases.
CheckEvidence(v) ==
  /\ pc[v] = "evidence"
  /\ IF /\ EpochMonotonic("openapi-edge", bundle[v].list.epoch)
        /\ ReportDataMatches(answer[v])
        /\ SessionBound(v)
        /\ MatchingReleases(bundle[v].list, answer[v]) # {}
     THEN Proceed(v, CASE opts[v].golden = "off"    -> "ceremony"
                       [] opts[v].golden = "github" -> "golden"
                       [] opts[v].golden = "www"    -> "goldenWww")
     ELSE Fail(v)
  /\ UNCHANGED <<floor, vcek, highest>>

\* load_golden_digests: the pinned release, which is not signed, or the signed
\* document of the fallback, which also stands in for the release.
GoldenDigests(www) ==
  {g \in GoldenWww : g.signed} \cup {Missing} \cup (IF www THEN {} ELSE Goldens)

\* find_golden_release and golden_os_pin_matches, for some candidate row; a row
\* without a golden version matches every document.
GoldenMatches(v, g) ==
  \E r \in MatchingReleases(bundle[v].list, answer[v]) :
    r.golden = Unpinned \/ (r.golden \in g.versions /\ r.golden = Image[r.build])

\* match_golden_for_candidates, for one of its two sources.
MatchGolden(v) ==
  /\ pc[v] \in {"golden", "goldenWww"}
  /\ \E g \in GoldenDigests(pc[v] = "goldenWww") :
       IF g # Missing /\ GoldenMatches(v, g)
       THEN /\ golden' = [golden EXCEPT ![v] = g]
            /\ Goto(v, IF EpochMonotonic("golden-digests", g.epoch) THEN "readGolden"
                       ELSE "idle")
            /\ UNCHANGED <<opts, peer, answer, attempt, bundle, peak>>
       ELSE IF g # Missing /\ pc[v] = "golden" THEN Proceed(v, "goldenWww")
       ELSE Fail(v)
  /\ UNCHANGED <<floor, vcek, highest>>

\* remember_epoch(GOLDEN_EPOCH_KIND, ...)
RememberGolden(v) ==
  /\ CASE pc[v] = "readGolden"  -> Remember(v, "golden-digests", golden[v].epoch,
                                            "truncGolden", "ceremony")
       [] pc[v] = "truncGolden" -> Truncate(v, "golden-digests", "writeGolden")
       [] pc[v] = "writeGolden" -> Write(v, "golden-digests", golden[v].epoch, "ceremony")
       [] OTHER                 -> FALSE
  /\ UNCHANGED <<vcek, locals, highest>>

\* find_ceremony_release_by_spki: a key named by a certificate digest is on no
\* list.
PinOf(c, a) == {p \in c.active \cup c.grace : a.digest = "spki" /\ p.key = a.key}

\* Mutant: any golden version will do.
PinnedAnywhere(c, g, a) == PinOf(c, a) # {}

\* The pin, and the policy of the golden version it names.  Of several pins of
\* one key the code takes the first; here any will do.
CeremonyKey(c, g, a) == \E p \in PinOf(c, a) : p.golden \in g.ceremony

\* load_ceremony_allowlist: a signed list, or an error.
CeremonyAllowlist == {c \in Ceremonies : c.signed} \cup {Missing}

\* The ceremony list: none is required while no pin is active.  The golden
\* manifest is loaded again, without a look at its epoch.
CheckCeremony(v) ==
  /\ pc[v] = "ceremony"
  /\ \/ ~opts[v].ceremony /\ Proceed(v, "sums")
     \/ \E c \in CeremonyAllowlist, g \in GoldenDigests(opts[v].golden = "www") :
          /\ opts[v].ceremony
          /\ IF /\ c # Missing
                /\ c.active = {} \/ (c.host /\ g # Missing /\ CeremonyKey(c, g, answer[v]))
             THEN Proceed(v, "sums")
             ELSE Fail(v)
  /\ UNCHANGED <<floor, vcek, highest>>

\* cross_check_code_hash_against_sha256sums
InSums(release, b) == ~release.hasSums \/ b \in release.sums

\* cross_check_code_hash_for_edge: the checksums of the list's release, or those
\* of the build's own tag.
CheckSums(v) ==
  LET b   == answer[v].build
      own == GitHub[b][0]
  IN  /\ pc[v] = "sums"
      /\ IF InSums(bundle[v], b) \/ (own # Missing /\ own.hasSums /\ InSums(own, b))
         THEN Proceed(v, "quote")
         ELSE Fail(v)
      /\ UNCHANGED <<floor, vcek, highest>>

\* verify_snp_report_with_collateral: the chain from the chip's certificate, and
\* the policy of the report.
SnpReportHolds(a, rejectDebug, cert) ==
  cert = "whole" /\ a.genuine /\ (rejectDebug => ~a.debug)

\* verify_sgx_dcap_quote
SgxQuoteHolds(a, rejectDebug) == a.genuine /\ (rejectDebug => ~a.debug)

\* http_get: the cached certificate, or one that is fetched and then cached; the
\* cache is written in place and its errors are ignored.
ChipCertificate(cert) ==
  IF vcek = Absent THEN cert = "whole" /\ vcek' \in {Absent, "whole", "cut"}
  ELSE cert = vcek /\ UNCHANGED vcek

\* The hardware quote: of a kind that can be verified from afar, and of the
\* build on the matched row.
VerifyQuote(v) ==
  LET a      == answer[v]
      reject == bundle[v].list.rejectDebug
      judge(holds) == IF holds /\ a.measures = a.build THEN Proceed(v, "readEdge") ELSE Fail(v)
  IN  /\ pc[v] = "quote"
      /\ \/ a.format = "sgx_report" /\ Fail(v) /\ UNCHANGED vcek
         \/ a.format = "sgx_dcap_ecdsa" /\ judge(SgxQuoteHolds(a, reject)) /\ UNCHANGED vcek
         \/ \E cert \in {"whole", "cut"} :
              /\ a.format = "snp_report"
              /\ ChipCertificate(cert)
              /\ judge(SnpReportHolds(a, reject, cert))
      /\ UNCHANGED <<floor, highest>>

\* remember_epoch(OPENAPI_EPOCH_KIND, ...)
RememberEdge(v) ==
  /\ CASE pc[v] = "readEdge"  -> Remember(v, "openapi-edge", bundle[v].list.epoch,
                                          "truncEdge", "verdict")
       [] pc[v] = "truncEdge" -> Truncate(v, "openapi-edge", "writeEdge")
       [] pc[v] = "writeEdge" -> Write(v, "openapi-edge", bundle[v].list.epoch, "verdict")
       [] OTHER               -> FALSE
  /\ UNCHANGED <<vcek, locals, highest>>

Larger(m, n) == IF m > n THEN m ELSE n

\* The verdict is printed.
Verdict(v) ==
  /\ pc[v] = "verdict"
  /\ Goto(v, "idle")
  /\ highest' = [k \in Kinds |->
       CASE k = "openapi-edge" -> Larger(highest[k], bundle[v].list.epoch)
         [] OTHER -> IF golden[v] = Missing THEN highest[k]
                     ELSE Larger(highest[k], golden[v].epoch)]
  /\ UNCHANGED <<floor, vcek, locals>>

\* An error of the network or of a file at any step, or the end of the process;
\* what it has written to the epoch files stays.
Abort(v) ==
  /\ pc[v] # "idle"
  /\ Fail(v)
  /\ UNCHANGED <<floor, vcek, highest>>

Step(v) ==
  \/ \E a \in Answers : ChallengeEdge(v, a)
  \/ LoadTrust(v) \/ LoadTrustBase(v)
  \/ CheckEvidence(v)
  \/ MatchGolden(v) \/ RememberGolden(v)
  \/ CheckCeremony(v)
  \/ CheckSums(v)
  \/ VerifyQuote(v) \/ RememberEdge(v)
  \/ Verdict(v)

Next == \E v \in Verifiers :
  \/ \E o \in Options, k \in Keys : Connect(v, o, k)
  \/ Step(v)
  \/ Abort(v)

Spec == Init /\ [][Next]_vars

\* Where a verification waits for the answer to a request, which has no timeout.
Requests == {"challenge", "trust", "trustBase", "golden", "goldenWww", "ceremony", "sums",
             "quote"}

\* The process is scheduled.  That an answer comes is not assumed.
FairSpec == Spec /\ \A v \in Verifiers : WF_vars(pc[v] \notin Requests /\ Step(v))

-----------------------------------------------------------------------------
(***************************************************************************)
(* Properties.                                                             *)
(***************************************************************************)

\* A verdict is never given on an allowlist, or on a golden manifest, older
\* than one a verdict was given on before the verification began, whatever
\* errors and crashes came between (the epoch files; one verifier at a time).
NoRollback ==
  \A v \in Verifiers : pc[v] = "verdict" =>
    /\ bundle[v].list.epoch >= peak[v]["openapi-edge"]
    /\ golden[v] # Missing => golden[v].epoch >= peak[v]["golden-digests"]

\* What a verdict stands for: a genuine quote, over this verification's nonce,
\* of the build it names, on a row of a list that came from the release or is
\* signed; and, unless the caller waived it, the key of the connection.
VerdictSound ==
  \A v \in Verifiers : pc[v] = "verdict" =>
    LET a    == answer[v]
        list == bundle[v].list
    IN  /\ a.genuine /\ a.report.nonce = "mine" /\ a.format # "sgx_report"
        /\ a.measures = a.build /\ a.measures = a.report.build
        /\ ~list.expired
        /\ list.signed \/ \E b \in Builds, i \in Attempts :
                            GitHub[b][i] # Missing /\ GitHub[b][i].list = list
        /\ \E r \in list.rows : r.build = a.measures /\ ~r.lapsed
        /\ (list.bindSpki /\ ~opts[v].skipSpki) => a.report.key = peer[v]

\* With the defaults, a verdict on a key the ceremony lists pin names a key
\* some list pins to a golden version whose policy is key_ceremony; without
\* active pins nothing is required.
CeremonyPinned ==
  \A v \in Verifiers : (pc[v] = "verdict" /\ opts[v].ceremony) =>
    \E c \in {d \in Ceremonies : d.signed} :
      \/ c.active = {}
      \/ \E p \in c.active \cup c.grace, g \in Goldens \cup GoldenWww :
           p.key = answer[v].key /\ p.golden \in g.ceremony

\* A verification ends unless a single request is never answered: it does not go
\* from tag to tag, or from a release to the fallback and back, for ever, though
\* the tag it looks for may not exist.
Terminates ==
  \A v \in Verifiers :
    (\A p \in Requests, i \in Attempts : []<>~(pc[v] = p /\ attempt[v] = i)) =>
      (pc[v] # "idle" ~> pc[v] = "idle")

=============================================================================
