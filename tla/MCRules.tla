------------------------------ MODULE MCRules -------------------------------
(***************************************************************************)
(* The rules that are functions of their input, each over a bounded set of *)
(* inputs that the steps walk through: maintenance manifests as time       *)
(* passes, environments one variable after the other, sealed keys as blobs *)
(* and machines change, the calendar day by day, answers of engines and    *)
(* evidence of peers as parts of them are exchanged, prompts that grow     *)
(* while tokens are spent, usage reports on their way to the edge, and     *)
(* HTTP messages as their bytes come in.                                   *)
(***************************************************************************)
EXTENDS Maintenance, BootPolicy, CivilTime, EngineChallenge, TokenQuota, PeerTrust, EngineUsage,
        Http1, FiniteSets, Sequences

CONSTANTS
  MaxTime,      \* the last time a manifest is looked at
  MaxChanges,   \* how many variables differ from a working environment
  LastYear      \* where the calendar ends

VARIABLES rule, input

-----------------------------------------------------------------------------
(***************************************************************************)
(* Maintenance: every manifest of up to three windows out of a pool.       *)
(***************************************************************************)

Times == 0 .. MaxTime

\* Windows with and without a soft phase, with a legacy end, open-ended, of an
\* engine, and two that do not resolve.
BaseWindow == [scope |-> "fleet", notBefore |-> 1, hard |-> 3, soft |-> 5, legacy |-> None]

Pool ==
  { BaseWindow,
    [BaseWindow EXCEPT !.soft = None],
    [BaseWindow EXCEPT !.hard = None, !.soft = None, !.legacy = 4],
    [BaseWindow EXCEPT !.hard = None, !.legacy = 2],
    [BaseWindow EXCEPT !.hard = 6, !.soft = 7],
    [BaseWindow EXCEPT !.notBefore = 4, !.hard = 5, !.soft = None],
    [BaseWindow EXCEPT !.hard = 2, !.soft = 7, !.legacy = 6],
    [BaseWindow EXCEPT !.scope = "engine", !.hard = 7, !.soft = None],
    [BaseWindow EXCEPT !.hard = 1],
    [BaseWindow EXCEPT !.soft = 3] }

ASSUME PoolAssumption == Pool \subseteq Windows(Times)

Manifests == UNION {[1 .. n -> Pool] : n \in 0 .. 3}

Files == {None} \cup [windows : Manifests, signed : BOOLEAN]

InitMaintenance ==
  /\ rule = "maintenance"
  /\ \E f \in Files : input = [file |-> f, now |-> 0]

TimePasses ==
  /\ rule = "maintenance"
  /\ input.now < MaxTime
  /\ input' = [input EXCEPT !.now = @ + 1]
  /\ UNCHANGED rule

-----------------------------------------------------------------------------
(***************************************************************************)
(* Boot: environments that differ in a few variables from one that works.  *)
(***************************************************************************)

\* A lab CVM with everything at its default, over plain TCP.
CvmDev ==
  [platform |-> "cvm", profile |-> "dev", required |-> TRUE, seed |-> "unset",
   digest |-> "unset", auth |-> "unset", catalog |-> FALSE, l0 |-> TRUE,
   proxy |-> "unset", bench |-> FALSE, launchOverride |-> FALSE, amdKey |-> FALSE,
   snpguest |-> "unset", verity |-> FALSE, exeMeasured |-> FALSE,
   plainKey |-> FALSE, sealedKey |-> FALSE, cert |-> FALSE, helper |-> FALSE,
   sealRoot |-> "unset", artifact |-> "absent",
   policyPath |-> "unset", policyEnv |-> "unset", policyFile |-> "absent",
   listen |-> FALSE, peer |-> FALSE, psk |-> FALSE, allow |-> FALSE,
   breakGlass |-> FALSE, gateway |-> "unset", clientTls |-> "ok", insecure |-> FALSE,
   pins |-> "unset", evidence |-> FALSE, stage5 |-> FALSE, requireLaunch |-> FALSE,
   launchList |-> FALSE, healthy |-> TRUE]

CvmProd ==
  [CvmDev EXCEPT !.profile = "prod", !.digest = "match", !.verity = TRUE, !.exeMeasured = TRUE,
                 !.sealedKey = TRUE, !.cert = TRUE, !.artifact = "tee",
                 !.policyFile = "seal_sync", !.gateway = "https_ip", !.evidence = TRUE]

SgxDev == [CvmDev EXCEPT !.platform = "sgx", !.seed = "ok", !.digest = "match", !.helper = TRUE]

SgxProd ==
  [SgxDev EXCEPT !.profile = "prod", !.artifact = "tee",
                 !.gateway = "https_ip", !.evidence = TRUE]

Working == {CvmDev, CvmProd, SgxDev, SgxProd}

ASSUME WorkingAssumption == \A e \in Working : Serves(e)

InitBoot == rule = "boot" /\ \E e \in Working : input = [base |-> e, env |-> e]

SetVariable ==
  /\ rule = "boot"
  /\ Cardinality({v \in DOMAIN input.env : input.env[v] # input.base[v]}) < MaxChanges
  /\ \E v \in DOMAIN Values \ {"platform"} : \E value \in Values[v] :
       /\ input.env[v] = input.base[v]
       /\ input' = [input EXCEPT !.env[v] = value]
  /\ UNCHANGED rule

-----------------------------------------------------------------------------
(***************************************************************************)
(* Sealing: a key sealed on one machine and opened on one like it or not.  *)
(***************************************************************************)

Machines ==
  [platform : {"cvm", "sgx"}, prod : BOOLEAN, chip : {"c1", "c2"}, build : {"b1", "b2"},
   debug : BOOLEAN, svn : 0 .. 1, digest : {Unknown, "b1", "b2"}, root : {Nil, HostRoot}]

\* The sealer, up to the names of chips and builds.
InitSeal ==
  /\ rule = "seal"
  /\ \E m \in {s \in Machines : s.chip = "c1" /\ s.build = "b1"} :
     \E blob \in {SealTlsKey(m, SealRoot(m)), HostSealTool(m)} :
       /\ SealRootAllowed(m)
       /\ m.platform = "sgx" => RuntimeMrenclave(m)
       /\ blob # Nil
       /\ input = [sealer |-> m, blob |-> blob, damaged |-> FALSE, opener |-> m]

\* The edge restarts elsewhere, as another build, after a TCB update, or with
\* another configuration.
Restart ==
  /\ rule = "seal"
  /\ \E m \in Machines :
       /\ m.platform = input.sealer.platform
       /\ SealRootAllowed(m)
       /\ m.platform = "sgx" => RuntimeMrenclave(m)
       /\ input' = [input EXCEPT !.opener = m]
  /\ input.opener = input.sealer
  /\ UNCHANGED rule

\* The header of the stored blob changes.
Damage ==
  /\ rule = "seal"
  /\ ~input.damaged
  /\ \/ \E version \in 1 .. 3 : input' = [input EXCEPT !.blob.version = version, !.damaged = TRUE]
     \/ \E digest \in {Unknown, "b1", "b2"} :
          input' = [input EXCEPT !.blob.measurement = digest, !.damaged = TRUE]
     \/ \E data \in {Nil} \cup [svn : 0 .. 1, debug : BOOLEAN] :
          input' = [input EXCEPT !.blob.sealData = data, !.damaged = TRUE]
     \/ input' = [input EXCEPT !.blob.amdSp = ~@, !.damaged = TRUE]
  /\ UNCHANGED rule

-----------------------------------------------------------------------------
(***************************************************************************)
(* The calendar, counted day by day from 1 January 1970.                   *)
(***************************************************************************)

LongMonths == {1, 3, 5, 7, 8, 10, 12}

LeapYear(y) == (y % 4 = 0 /\ y % 100 # 0) \/ y % 400 = 0

MonthLength(y, m) ==
  IF m \in LongMonths THEN 31 ELSE IF m # 2 THEN 30 ELSE IF LeapYear(y) THEN 29 ELSE 28

InitCalendar == rule = "calendar" /\ input = [year |-> 1970, month |-> 1, day |-> 1, count |-> 0]

NextDay ==
  LET last == input.day = MonthLength(input.year, input.month)
      turn == last /\ input.month = 12
  IN  /\ rule = "calendar"
      /\ input.year <= LastYear
      /\ input' = [year  |-> IF turn THEN input.year + 1 ELSE input.year,
                   month |-> IF turn THEN 1 ELSE IF last THEN input.month + 1 ELSE input.month,
                   day   |-> IF last THEN 1 ELSE input.day + 1,
                   count |-> input.count + 1]
      /\ UNCHANGED rule

-----------------------------------------------------------------------------
(***************************************************************************)
(* Challenge: an engine's answer, parts of which come from another answer  *)
(* or are spelled otherwise, and wrapped again.                            *)
(***************************************************************************)

Measured(kind, l, i, m) == [kind |-> kind, launch |-> l, image |-> i, mrenclave |-> m]
LaunchDigests(l, i) == Measured("launch_digest", l, i, Missing)

\* An engine in one epoch, and what may replace each part of its answer.
Engine ==
  [schema |-> 1, dataVersion |-> 1, engine |-> "e1", epoch |-> "ep1", notBefore |-> "t1",
   notAfter |-> "t2", usage |-> "u1", mlkem |-> "m1", x25519 |-> "x1", policyHash |-> "p1",
   measurement |-> LaunchDigests("l1", "i1"), gpu |-> Missing, nonce |-> Missing,
   quote |-> [wrapping |-> "raw", report |-> <<>>, field |-> <<>>]]

Engines ==
  { Engine,
    [Engine EXCEPT !.gpu = "g1"],
    [Engine EXCEPT !.measurement = Measured("mrenclave", Missing, Missing, "l1")] }

Parts ==
  [schema |-> {0, 2}, dataVersion |-> {0, 2}, engine |-> {"e2"}, epoch |-> {"ep2"},
   notBefore |-> {"t0", "t2"}, notAfter |-> {"t1", "t3"}, usage |-> {"u2", Undecodable},
   mlkem |-> {"m2", Undecodable}, x25519 |-> {"x2", Undecodable},
   policyHash |-> {"p2", Undecodable}, gpu |-> {Missing, Zeros, "g1", "g2", Undecodable},
   nonce |-> {"n1", "n2", Undecodable},
   measurement |-> {LaunchDigests("l2", "i1"), LaunchDigests("i1", "l1"),
                    LaunchDigests("l1", Missing), LaunchDigests(Undecodable, "i1"),
                    Measured("other", "l1", "i1", "l1"), Measured("mrenclave", "l1", "i1", "l1")}
                   \cup {e.measurement : e \in Engines}]

\* The edge has asked with nonce n1; the engine was asked that or another.
InitChallenge ==
  /\ rule = "challenge"
  /\ \E e \in Engines, n \in {"n1", "n2"}, w \in Wrappings :
       input = [made |-> EngineAnswer(e, n, w), doc |-> EngineAnswer(e, n, w), changes |-> 0]

ExchangePart ==
  /\ rule = "challenge"
  /\ input.changes < 2
  /\ \E p \in DOMAIN Parts : \E value \in Parts[p] :
       input' = [input EXCEPT !.doc[p] = value, !.changes = @ + 1]
  /\ UNCHANGED rule

\* The report in another wrapper, whose field is as it was or as the document
\* would have it.
Rewrap ==
  /\ rule = "challenge"
  /\ input.changes < 2
  /\ \E w \in Wrappings, data \in {input.doc.quote.field, ReportData("n1", input.doc)} :
       input' = [input EXCEPT !.doc.quote.wrapping = w, !.doc.quote.field = data,
                              !.changes = @ + 1]
  /\ UNCHANGED rule

-----------------------------------------------------------------------------
(***************************************************************************)
(* Peers: evidence for a seal-sync, honest, forged, relayed or relabelled. *)
(***************************************************************************)

Spellings == {Raw("a"), Raw("b"), Canonical("a"), Canonical("b")}

SyncConfigs ==
  [platform : {"snp", "dcap"}, prod : BOOLEAN, psk : BOOLEAN, challengeUrl : BOOLEAN,
   legacy : BOOLEAN, allow : {{}, {Raw("a")}, {Canonical("a")}}]

\* A peer: its code and the spelling of it that it announces.
Peers ==
  {p \in [code : {"a", "b"}, measurement : Spellings, genuine : BOOLEAN, debug : BOOLEAN,
          upToDate : BOOLEAN] : p.measurement.code = p.code}

InitPeer ==
  /\ rule = "peer"
  /\ \E cfg \in {c \in SyncConfigs : SyncConfigValid(c)}, p \in Peers,
        role \in {"export", "import"}, channel \in {"here", "there"}, passes \in BOOLEAN :
       input = [cfg |-> cfg, peer |-> p, role |-> role, madeOn |-> channel, passes |-> passes,
                evidence |-> Produce(AttestorKind(cfg), p, channel), honest |-> TRUE]

\* What no hardware has signed may be changed on the way.
Relabel ==
  /\ rule = "peer"
  /\ input.honest
  /\ \E claim \in Spellings :
       input' = [input EXCEPT !.evidence.claim = claim, !.evidence.channel = "here",
                              !.honest = FALSE]
  /\ UNCHANGED rule

-----------------------------------------------------------------------------
(***************************************************************************)
(* Quota: a prompt that grows and a budget that shrinks.                   *)
(***************************************************************************)

Text(n) == [kind |-> "text", length |-> n]

\* Numbers of characters around the bounds, four to a token.
Lengths == {0, 3, 31999, 32000, 127999, 128004}
Budgets == {Unset, 0, 1, 7999, 8000, 31999, 32000, 40000}

BaseBody ==
  [json |-> TRUE, model |-> "m", messages |-> Unset, input |-> Unset, prompt |-> Unset,
   length |-> 200000]

\* A text of a length, as one member of the body or another.
BodiesOf(n) ==
  { [BaseBody EXCEPT !.messages = <<Text(n)>>],
    [BaseBody EXCEPT !.messages = <<Text(5), [kind |-> "parts", parts |-> <<n, 0>>]>>],
    [BaseBody EXCEPT !.input = Text(n), !.prompt = Text(7)],
    [BaseBody EXCEPT !.prompt = Text(n)],
    [BaseBody EXCEPT !.length = n],
    [BaseBody EXCEPT !.json = FALSE, !.length = n] }

Bodies == UNION {BodiesOf(n) : n \in Lengths}

KeyPolicies ==
  [models : {{"*"}, {"other"}}, remaining : Budgets, maxContext : {Unset, 8000, 32000}]

InitQuota ==
  rule = "quota" /\ \E p \in KeyPolicies, b \in Bodies : input = [policy |-> p, body |-> b]

Spend ==
  /\ rule = "quota"
  /\ input.policy.remaining # Unset
  /\ \E left \in Budgets \ {Unset} :
       left < input.policy.remaining /\ input' = [input EXCEPT !.policy.remaining = left]
  /\ UNCHANGED rule

\* Another message, or a text where none was counted.
Lengthen ==
  /\ rule = "quota"
  /\ input.body.messages # Unset
  /\ Len(input.body.messages) < 3
  /\ \E n \in Lengths :
       input' = [input EXCEPT !.body.messages = Append(@, [kind |-> "parts", parts |-> <<n, 1>>])]
  /\ UNCHANGED rule

-----------------------------------------------------------------------------
(***************************************************************************)
(* Usage: the report of an engine, parts of which change on the way.       *)
(***************************************************************************)

\* Two requests of the client, and what the edge knows of the one it answers.
UsageCtx == [engine |-> "e1", epoch |-> "ep1", key |-> "k1", request |-> "r1",
             requestLength |-> 20, completionLength |-> 3]

\* Counts around the bound of 48, and ones whose sum does not fit.
Counts == {0, 1, 5, 43, 44, CountMax}

ReportPool ==
  [request : {"r1", "r2"}, conversation : {"c"}, engine : {"e1", "e2"}, prompt : Counts,
   completion : Counts, cached : {0}, ts : {"t"}, epoch : {NoHeader, "ep1", "ep2"}]

InitUsage ==
  /\ rule = "usage"
  /\ \E r \in ReportPool, required \in BOOLEAN, form \in {"signed", "bare", "unreadable"} :
       LET header == [form |-> form, report |-> r,
                      sig |-> Sign(IF r.engine = "e1" THEN "k1" ELSE "k2", r)]
       IN  input = [required |-> required, made |-> r, header |-> header, changed |-> FALSE]

\* The header is lost, or one member of the report is another.
Relay ==
  /\ rule = "usage"
  /\ ~input.changed
  /\ \/ input' = [input EXCEPT !.header = NoHeader, !.changed = TRUE]
     \/ \E part \in {"request", "engine", "prompt", "completion", "epoch"} :
        \E r \in ReportPool :
          input' = [input EXCEPT !.header.report[part] = r[part], !.changed = TRUE]
  /\ UNCHANGED rule

-----------------------------------------------------------------------------
(***************************************************************************)
(* HTTP: a request that arrives in pieces of any size, and a reply that    *)
(* may end after each of its bytes.                                        *)
(***************************************************************************)

Header(name, wellFormed, number) == [name |-> name, wellFormed |-> wellFormed, number |-> number]
ContentLength(n) == Header("content-length", TRUE, n)
TransferEncoding == Header("transfer-encoding", TRUE, 0)

Headers ==
  {ContentLength(n) : n \in {0, 1, MaxBody, MaxBody + 1}}
  \cup {TransferEncoding, Header("content-length", FALSE, 0), Header("host", TRUE, 0),
        Header("host", FALSE, 0)}

InitRequest ==
  /\ rule = "request"
  /\ \E head \in {1, HeadSlack, Capacity + 1}, n \in 0 .. 3 : \E lines \in [1 .. n -> Headers] :
       input = [head |-> head, lines |-> lines, total |-> 0]

ReadMore ==
  /\ rule = "request"
  /\ Serve(input, input.total) = <<"read">>
  /\ \E total \in input.total + 1 .. Capacity : input' = [input EXCEPT !.total = total]
  /\ UNCHANGED rule

\* Texts that look like parts of the framing.
Contents == {<<"x">>, <<"0", "CR">>, <<"CR", "LF">>, <<"0", "CR", "LF">>}

\* The ways to write a chunk, and a text in chunks of one or two bytes.
CRLF == <<"CR", "LF">>
Digit(n) == IF n = 1 THEN "1" ELSE "2"
WriteChunk(data) ==
  {size \o CRLF \o data \o CRLF :
     size \in {<<Digit(Len(data))>>, <<"0", Digit(Len(data))>>, <<Digit(Len(data)), ";", "x">>}}

Chunked(content) ==
  LET chunks[i \in 1 .. Len(content) + 1] ==
        IF i > Len(content) THEN {<<"0">> \o CRLF \o CRLF}
        ELSE UNION {{chunk \o rest : chunk \in WriteChunk(SubSeq(content, i, i + n - 1)),
                                     rest \in chunks[i + n]} :
                      n \in {k \in 1 .. 2 : i + k - 1 <= Len(content)}}
  IN  chunks[1]

\* What a peer may send for a text, and whether its end can be told.
Sent(content) ==
  [lines : {<<TransferEncoding>>, <<ContentLength(9), TransferEncoding>>},
   full : Chunked(content), delimited : {TRUE}]
  \cup
  [lines : {<<ContentLength(Len(content))>>,
            <<ContentLength(Len(content) + 1), ContentLength(Len(content))>>,
            <<ContentLength(Len(content)), Header("content-length", FALSE, 0)>>},
   full : {content}, delimited : {TRUE}]
  \cup
  [lines : {<<>>, <<Header("transfer-encoding", FALSE, 0)>>},
   full : {content}, delimited : {FALSE}]

InitReply ==
  /\ rule = "reply"
  /\ \E content \in Contents, status \in {200, 401, 500} : \E sent \in Sent(content) :
       input = [status |-> status, lines |-> sent.lines, content |-> content, full |-> sent.full,
                delimited |-> sent.delimited, head |-> FALSE, wire |-> <<>>]

\* The head comes, then the body byte by byte; what has come by now may be all.
BytesCome ==
  /\ rule = "reply"
  /\ IF ~input.head
     THEN input' = [input EXCEPT !.head = TRUE]
     ELSE /\ Len(input.wire) < Len(input.full)
          /\ input' = [input EXCEPT !.wire = SubSeq(input.full, 1, Len(@) + 1)]
  /\ UNCHANGED rule

-----------------------------------------------------------------------------
RulesInit ==
  \/ InitMaintenance \/ InitBoot \/ InitSeal \/ InitCalendar
  \/ InitChallenge \/ InitPeer \/ InitQuota \/ InitUsage
  \/ InitRequest \/ InitReply

RulesNext ==
  \/ TimePasses \/ SetVariable \/ Restart \/ Damage \/ NextDay
  \/ ExchangePart \/ Rewrap \/ Relabel \/ Spend \/ Lengthen \/ Relay
  \/ ReadMore \/ BytesCome

RulesSpec == RulesInit /\ [][RulesNext]_<<rule, input>>

-----------------------------------------------------------------------------
\* A request is refused exactly while some fleet-wide window of a verified file
\* is in its hard phase: no soft window hides a hard one, in whatever order they
\* are listed, and a file that is not verified stops nobody.  Whoever waits for
\* Retry-After has waited until the end of every window that is in the phase
\* now, and less than a second longer than the last of them (select_active,
\* refuse_if_maintenance, retry_after_secs).
RefusedWhileHard ==
  rule = "maintenance" =>
    LET manifest == Loaded(input.file)
        now      == input.now
        active   == SelectActive(manifest, now)
        end(w)   == IF Phase(w, now) = "hard" THEN HardEnd(w) ELSE SoftEnd(w)
        back     == now + Second * RetryAfter(active, now)
    IN  /\ RefuseIfMaintenance(manifest, now) <=>
             /\ input.file # None
             /\ Verified(input.file)
             /\ InPhase(input.file.windows, now, "hard") # {}
        /\ active # None /\ end(active) # None =>
             /\ \A w \in InPhase(manifest, now, Phase(active, now)) : end(w) <= back
             /\ back <= end(active) + Second

\* Whatever else is set, an edge that comes up as prod serves in one way: over
\* TLS, with a key sealed in its own TEE, authenticating with L0, forwarding
\* listed routes only, over OPE, through a gateway whose certificate it checks,
\* to engines it checks; its key policy is the measured one (main, run).
ProdServesOneWay ==
  rule = "boot" =>
    LET e == input.env
    IN  Prod(e) /\ Serves(e) =>
          /\ Effective(e) = [tls |-> "tls", auth |-> "remote", upstream |-> "ope",
                             proxy |-> "allowlist", bench |-> FALSE]
          /\ \/ e.artifact = "tee"
             \/ e.artifact = "absent" /\ SealedInTee(Machine(e), Imported(e))
          /\ e.gateway \in {"https", "https_ip"} /\ ~e.insecure
          /\ e.pins = "some" \/ e.evidence \/ e.stage5
          /\ Cvm(e) => KeyPolicy(e) = e.policyFile /\ e.verity

\* What a prod edge opens was sealed by its own chip for its own code, however
\* the stored header was changed, and what any edge opens was sealed under the
\* measurement it has itself; but a TCB update does not lock an edge out: what
\* it sealed before it opens after, as long as it is the same code on the same
\* chip in the same configuration (unseal_tls_key, and hw::unseal_key, which
\* asks for the blob's own TCB level).
OpensExactlyItsOwn ==
  rule = "seal" =>
    LET opener  == input.opener
        sealer  == input.sealer
        opens   == UnsealTlsKey(opener, input.blob, SealRoot(opener))
        updated == opener = [sealer EXCEPT !.svn = opener.svn] /\ opener.svn >= sealer.svn
    IN  /\ opens =>
             /\ input.blob.measurement = SealingMeasurement(opener)
             /\ opener.prod => /\ SealedInTee(opener, input.blob)
                               /\ sealer.chip = opener.chip
                               /\ sealer.build = opener.build
        /\ /\ ~input.damaged /\ updated
           /\ input.blob = SealTlsKey(sealer, SealRoot(sealer))
           => opens

\* Every crate that reads a date counts the same days, and an offset moves the
\* time across midnight as it should (the three parse_rfc3339 and
\* days_from_civil).
CalendarsAgree ==
  rule = "calendar" =>
    LET at(hour, minute, second, offset) ==
          [year |-> input.year, month |-> input.month, day |-> input.day,
           hour |-> hour, minute |-> minute, second |-> second, offset |-> offset]
        midnight == at(0, 0, 0, 0)
        night    == at(23, 59, 59, 0)
        east     == MaintenanceTime(at(0, 30, 0, 60))
    IN  /\ \A parse \in {EngineTrustTime(midnight), MaintenanceTime(midnight), ReleaseTime(midnight)} :
             parse = <<input.count, 0>>
        /\ \A parse \in {EngineTrustTime(night), MaintenanceTime(night), ReleaseTime(night)} :
             parse = <<input.count, DaySeconds - 1>>
        /\ IF input.count = 0 THEN east = Bad ELSE east = <<input.count - 1, DaySeconds - 1800>>
        /\ MaintenanceTime(at(23, 30, 0, -60)) = <<input.count + 1, 1800>>

\* What the digest in a report binds as it is spelled.
BoundValues ==
  {"engine", "epoch", "notBefore", "notAfter", "usage", "mlkem", "x25519", "policyHash"}

\* A quote is around the report of another, and its field, if it has one, says
\* what that report does.
Around(quote, other) ==
  /\ quote.report = other.report
  /\ quote.wrapping = "field" => quote.field = other.report

\* Given that the report data it finds is that of the engine's report, the edge
\* accepts an answer exactly if it answers this edge's nonce and says what the
\* engine's hardware has reported, in whichever wrapper and spelling.  A field
\* that does not repeat the report is taken at its word, so that is not checked
\* here (verify_engine_challenge_response).
AnswerIsWholeAndFresh ==
  rule = "challenge" =>
    LET doc  == input.doc
        made == input.made
    IN  Around(doc.quote, made.quote) =>
          (VerifyResponse("n1", doc)
             <=> /\ doc.schema = 1 /\ doc.dataVersion = 1
                 /\ doc.nonce = "n1" /\ made.nonce = "n1"
                 /\ doc.quote.wrapping # "short"
                 /\ \A v \in BoundValues : doc[v] = made[v]
                 /\ GpuHash(doc) = GpuHash(made)
                 /\ MeasurementBody(doc.measurement) = MeasurementBody(made.measurement))

\* Without a pre-shared key, which no prod edge has, the TLS key is exchanged
\* with listed code on genuine hardware at the other end of this channel only,
\* whatever the evidence claims; and an honest peer is let in when the spelling
\* of its measurement that it announces is itself listed (the attestors' verify).
KeyOnlyToListedPeer ==
  rule = "peer" =>
    LET cfg       == input.cfg
        peer      == input.peer
        own       == Raw("b")
        exchanges == Exchanges(cfg, own, input.role, input.evidence, "here", input.passes)
    IN  /\ cfg.prod => ~cfg.psk
        /\ exchanges /\ ~cfg.psk =>
             /\ peer.genuine /\ ~peer.debug
             /\ input.madeOn = "here"
             /\ {Raw(peer.code), Canonical(peer.code)} \cap Allowed(cfg, own) # {}
        /\ /\ input.honest /\ input.madeOn = "here" /\ input.passes
           /\ peer.genuine /\ ~peer.debug /\ peer.upToDate
           /\ peer.measurement \in Allowed(cfg, own)
           /\ cfg.platform = "dcap" => peer.measurement = Raw(peer.code)
           => exchanges

\* A refused prompt stays refused when it grows or when tokens are spent: there
\* is no budget at which a key gets through what it did not with a larger one
\* (enforce_token_quota, enforce_max_context).
RefusalsPersist ==
  [][rule = "quota" /\ ~PolicyAdmits(input.policy, input.body)
       => ~PolicyAdmits(input'.policy, input'.body)]_<<rule, input>>

\* Where signed usage is required, the counts of a completion are the ones that
\* the engine itself has signed for this request, and plausible for its length,
\* whatever became of the header on the way; and a report of that kind is
\* accepted.  Elsewhere a completion is never refused for its usage, and never
\* reported as free (resolve_usage_or_estimate).
CountsAreTheEngines ==
  rule = "usage" =>
    LET usage == ResolveUsage(input.required, input.header, UsageCtx)
        made  == input.made
        own   == /\ made.engine = "e1" /\ made.request = "r1"
                 /\ made.prompt + made.completion <= TokenBound(UsageCtx)
    IN  IF input.required
        THEN /\ usage # Refused => own /\ usage = <<made.prompt, made.completion>>
             /\ /\ own /\ made.epoch # "ep2" /\ ~input.changed
                /\ input.header.form = "signed"
                => usage # Refused
        ELSE usage # Refused /\ usage[1] + usage[2] > 0

\* A well-formed request within the limits is read on until its body is there
\* and then dispatched with all of it, in whatever pieces it comes, and no other
\* request is; the edge never reads on without room for another byte, and what
\* it has decided more bytes would not change.
RequestIsWhole(req) ==
  LET lines    == req.lines
      lengths  == {i \in DOMAIN lines : lines[i].name = "content-length"}
      declared == IF lengths = {} THEN 0 ELSE lines[CHOOSE i \in lengths : TRUE].number
      proper   == /\ \A i \in DOMAIN lines : /\ lines[i].wellFormed
                                            /\ lines[i].name # "transfer-encoding"
                  /\ Cardinality(lengths) <= 1
                  /\ declared <= MaxBody
      served   == Serve(req, req.total)
      arrived  == req.total >= req.head + declared
  IN  /\ proper /\ req.head <= HeadSlack =>
           served = IF arrived THEN <<"dispatch", declared>> ELSE <<"read">>
      /\ served[1] = "dispatch" => proper /\ arrived
      /\ served = <<"read">> => req.total < Capacity
      /\ served # <<"read">> =>
           \A total \in req.total .. Capacity : Serve(req, total) = served

\* Of a reply nothing but its text is passed on, all of it where a copy ends
\* well, unless only the end of the connection tells the end; and L0's answer
\* counts only as a whole.
ReplyIsWhole(reply) ==
  LET passed   == ForwardStream(reply)
      answered == Authorize(reply)
      whole    == reply.head /\ reply.wire = reply.full
  IN  /\ passed.body = SubSeq(reply.content, 1, Len(passed.body))
      /\ passed.ok /\ reply.delimited => passed.body = reply.content
      /\ whole /\ reply.status = 200 => passed.ok /\ answered = "authorized"
      /\ answered = "authorized" => reply.status = 200 /\ passed.body = reply.content
      /\ answered = "unauthorized" => reply.status = 401

\* Nobody takes a part of a message for the whole, neither of a request that
\* comes in pieces nor of a reply that is cut off (ParsedRequest::parse,
\* serve_connection, copy_body, TcpL0Client::authorize).
MessagesAreWhole ==
  /\ rule = "request" => RequestIsWhole(input)
  /\ rule = "reply" => ReplyIsWhole(input)
=============================================================================
