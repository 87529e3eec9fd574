# Formal models of the TeeChat OpenAPI edge

TLA+ modules for the parts of `teechat-openapi` in which steps of several actors, crashes,
clocks or limits decide whether the program is right, TLC configurations that check them on
small instances, and TLAPS proofs of the results that matter most. `PROJECT.json` maps every
definition to the lines it models, and lists the hazards each property is aimed at.

## The system

The edge is an OpenAI-compatible HTTPS server that runs inside a confidential VM (or SGX). It
authenticates API keys against L0, applies limits and policies, encrypts each prompt to an
attested engine (OPE) and relays the answer. Its own identity is attested by a hardware quote
over the TLS key it serves.

| Component | State | Operations | Interacts with |
| --- | --- | --- | --- |
| Listener (`openapi-edge`) | bounded channel, receiver mutex, `shed_inflight`, per-IP counts | accept, enqueue, shed with 429, receive, handle, panic | worker threads, handler |
| Handler (`openapi-core/handler.rs`, `limits.rs`, `routes.rs`, `quota.rs`) | three rate limiters, challenge gate, maintenance manifest | one per route: gates in order, then upstream or quote | authenticator, upstream, platform |
| Maintenance (`openapi-core/maintenance.rs`) | one signed manifest, loaded at boot | parse, select the active window | handler |
| Remote authentication (`remote_auth.rs`, `remote_client.rs`) | revoked keys, cached authorizations, `local_epoch`, poll clock | authenticate, convoy, poll, apply a frame | L0 over HTTPS, poller thread |
| OPE dispatch (`ope_upstream.rs`, `gateway_ope_api.rs`, `engine_recipient.rs`, `epoch_evidence.rs`, `engine_trust.rs`) | one lock, cache of verified reports | inventory, preassign, checks, encrypt, dispatch | gateway, engine, sealed clock |
| Sealed clock (`sealed_time.rs`) | a file with the latest accepted time | observe (read, compare, truncate, write) | OPE dispatch, disk |
| Boot and seal-sync (`bins/openapi/main.rs`, `seal_sync.rs`, `tls.rs`) | sealed key file, certificate file, attested SPKI, TLS acceptor | cold import, warm realignment, build the acceptor | peer edge, disk |
| OPE-to-SSE bridge (`ope_upstream.rs`, `openapi-http`) | per answer: share, bytes of half a character, `saw_finish`, the merged tool calls | read a line, decrypt, re-frame, finish | gateway, engine, client |
| HTTP framing (`openapi-http`, `http1_body.rs`) | one receive buffer per connection | read and parse, copy a body | listener, L0, upstream |
| Rules of the boot (`env.rs`, `profile.rs`, `tls_key_policy.rs`, `edge_upstream.rs`) | none: a function of the environment | load, check, choose | everything below |
| Sealing (`seal.rs` of three crates, `seal-tls-key` tools) | blobs on disk | seal, unseal | boot, ceremony, seal-sync |
| Seal-sync peers (`seal_sync.rs`) | lists of measurements | produce and verify evidence, challenge gate | peer edge |
| Engine answers (`engine_challenge.rs`, `engine_usage.rs`) | none | verify a challenge answer, verify a usage report | gateway, engine |
| Key policy (`quota.rs`, `authz.rs`) | none | estimate a prompt, compare with the budget | handler |
| Attestation verifier (`openapi-attest`, its CLI) | two epoch files, cached certificates | connect, challenge, find the release, check, remember | edge, GitHub, mirror, AMD |
| SGX upstream (`openapi-platform-sgx/ope_upstream.rs`, `gateway_ope_api.rs`) | one lock, the sealed clock, one connection per call | as OPE dispatch and bridge, with an HTTP client of its own | gateway |
| ACME client (`openapi-acme-sync`) | one order, tokens on the web root | account, order, place, ready, poll, finalize, download | certificate authority |
| SGX ceremony and boot (`acme_ceremony.rs`, `ceremony_helper.rs`, `openapi-ceremony-helper`, `run.rs`) | key, certificate and account in a slot on the host | issue, renew, boot, import, serve | authority, helper, peer |
| Envelope encryption, plain CVM upstream, file catalog, CVM key ceremony, quotes | see `PROJECT.json` | | |

What is hard in it:

* concurrency: workers, the accept thread, the poller and the background import share state
  behind locks that cover single accesses only (revocation set, cache, epoch, limiters);
* ordering: an authorization that is stored after its key was revoked, epochs stored in the
  order of network answers, the SPKI recorded before the files it describes are replaced;
* failure: panics with permits in hand, threads that cannot be spawned, network errors in
  mid-sync, writes in place that a crash cuts short;
* time: authorizations that expire, epochs that are over, a host clock that may go back,
  windows of limiters and of maintenance;
* limits: the queue and the responders full at once, bursts across two rate windows, a buffer that
  the largest request fills;
* trust in stages: what an engine, a peer, a mirror or an edge says passes through somebody who may
  replay it or mix it, and several fields, some signed and some not, decide together;
* two platforms: SGX repeats the CVM's logic with other calls, and both derive forty settings from
  one environment.

What makes each part correct: a revoked key is refused, at once when the edge knows and within the
TTL when it does not; permits and slots are neither leaked nor returned twice; every accepted socket
is closed; plaintext goes only to keys the policy trusts, in epochs that have never been over; what
is attested is what is served; an address or a key cannot exceed its limits by more than the windows
allow; maintenance is neither missed nor invented; a client gets the engine's answer as it was read,
and a stream that the edge knows to be broken is cut off, not ended; a verifier never goes back to
an older release list; a renewal keeps the key; a prod edge serves in one way, whatever its
environment; and a sealed key opens for its own code on its own chip, and for nobody else.

## Modules

| Module | Models | Composes |
| --- | --- | --- |
| `RemoteAuth`, `RemoteAuth_proofs`, `MCRemoteAuth` | remote authentication and revocation | |
| `EdgeServer`, `EdgeServer_proofs`, `MCEdgeServer` | listener, pool, shedding, per-IP permits | |
| `EdgeStartup`, `MCEdgeStartup` | boot of the CVM edge, seal-sync import, attested SPKI | |
| `OpeDispatch`, `OpeDispatch_proofs`, `MCOpeDispatch` | preparation under the lock, recipient checks, sealed clock | |
| `OpeStream`, `MCOpeStream` | an answer's way from the gateway to the client, streamed or buffered | |
| `SgxUpstream`, `SgxUpstream_proofs`, `MCSgxUpstream` | both of the above inside the enclave, over its own HTTP client | implements `OpeDispatch` and `OpeStream` |
| `Admission`, `Admission_proofs`, `MCAdmission` | the gates of the handler, the limiters, the challenge gate | `Maintenance` |
| `EdgeVerify`, `EdgeVerify_proofs`, `MCEdgeVerify` | a client's verification of an edge | |
| `AcmeOrder` | one certificate order | |
| `SgxCeremony`, `SgxCeremony_proofs`, `MCSgxCeremony` | issue, renewal and the boot of the SGX edge on one artifact slot | `AcmeOrder` |
| `Maintenance`, `BootPolicy`, `Sealing`, `CivilTime`, `EngineChallenge`, `EngineUsage`, `PeerTrust`, `TokenQuota`, `Http1` | rules that are functions of their input | `BootPolicy` uses `Sealing` |
| `MCRules` | walks through the inputs of those rules | all of them |
| `BootAndRules_proofs` | | proofs about `EdgeStartup` and `MCRules` |

The `MC` modules only hold the values of constants and the symmetry sets that a configuration
names, with two exceptions: `MCRules` holds the small machine that walks the rules through their
inputs, and `MCRemoteAuth` the step `Lapse` described below under fairness. Every state machine
but that walk has a type invariant, `TypeOK` (`SgxTypeOK` in `SgxUpstream`), and each is proved.
Definitions commented `Mutant:` change one definition the way a plausible mistake in the code
would. No specification uses them; each shows that a property notices the mistake.

### RemoteAuth

The state is `RemoteAuthenticator`'s: `revocations`, `cache`, `localEpoch` and `due` (the poll
clock), and for every thread where it stands and what it has read. No lock spans two accesses in
the code, so each access is one action: `CheckRevoked`, `CacheLookup`, `L0Authorize` and its
failures, `VerifyAndStore`, `Convoy`; and in a sync, run by a worker or by the poller,
`ReadSince`, `FetchOk`, `ApplyFrame`, `UncacheFrame`, `StoreEpoch`, with `RejectFrame` and
`FetchError` where the code returns early. L0 is external: it authorizes keys it has not revoked,
for less than `TTL`, and answers a pull with every frame after `since`. Its clock and the edge's
are one, and the edge's reading of the time is one step with its lookup in the cache.

### EdgeServer

A connection moves through stages; the channel is a sequence, the receiver's mutex a holder, and
each thread has at most one connection in hand. `Accept`, `Enqueue`, `QueueFull` with the three
outcomes of shedding, `LockReceiver`, `Receive`, `AcquireIp`, `Arrive`, `Dispatch`, `Reject` and
`Panic` follow `run_edge_server`, `handle_stream` and `serve_connection`. `Init` chooses how many
workers could be spawned; with none the accept thread serves the sockets itself. Sockets and TLS
are reduced to the outcomes the code tells apart.

### EdgeStartup

The disk holds two files, written in place: truncated, then written. `main()` reads whether a
sealed key exists, imports if it does not, records the SPKI, realigns in the background or in
line, unseals the key and builds the acceptor from files read again. Crashes come between any two
steps; a supervisor starts the process again. The seal-sync protocol is a library and external:
the peer answers that the announced key is aligned, or sends its own.

### OpeDispatch

A worker takes the lock, asks for inventory and preassignment, observes the time, checks expiry,
challenge, recipient and report chain, encrypts and lets the lock go; `Dispatch` runs without it.
An offer is a record of what the edge can tell of it, the policy a record of the settings that
decide. Signatures, quotes and certificates are reduced to whether they verify. The sealed clock
is modelled with its steps: read and compare, truncate, write. A file cut short does not parse,
and `observe` refuses from then on. The host's clock may read anything. Each call to the gateway may
fail (`CallFails`), which lets the lock go.

### Maintenance and Admission

`Maintenance` translates `resolve_bounds` and `select_active` into operators; the fold over the
windows is a recursive function. `Loaded` is what the boot makes of the file: without a signature
that verifies there is no maintenance. The manifest is loaded once, so the version floor of the code
is never exercised and is left out.

`Admission` is `handle_from_ex`: the route decides the first gate, each gate is a step (each limiter
has a lock of its own), and a refusal answers the request. Buckets follow `check_with_rpm`.
Authentication brings a key and the rpm of its policy at that moment, which may differ between two
requests of one key. The checks of `quota.rs` are a choice between pass and refusal here, and
functions in `TokenQuota`. The wall clock (maintenance) and the monotonic clock (limiters) are one.
`granted` and `authCalls` are history: the events within one window, each with its time, for the
properties.

### OpeStream

One request from the dispatch on; requests share no state there. `Begin` writes the header of a
stream, `Prepare` stands for all of `OpeDispatch`, `Dispatch` for the gateway's reply. Lines of
NDJSON are read one at a time (`ReadShare`, `ReadChunk`, `ReadTrailer`, `ReadEof`); a JSON body, or
the answer to a request that is not streamed, is read as a whole (`ReadBody`) and then emitted
(`EmitAggregate`) or answered (`AnswerWhole`). The gateway is external: it may lose the share, end
early or fail anywhere, keeps the order of the lines, and labels its body with the content type it
has. A character is a sequence of numbered bytes, so that a chunk can end inside one. A tool call is
the sequence of its argument fragments; a fragment carries the index of its call or none, and then
opens a new one (`Place`). `Reasons` are the finish_reasons there are. The assumption on `Answers`
says what chunks are made of and that an engine finishes at most once: the bridge relays each
finish_reason it gets and does not count them. A frame arrives whole in its chunk. What the engine
thinks comes under `reasoning`, under `reasoning_content` or under both. Four differences between
the paths are the code's own: of a frame with both names a stream that is relayed line by line
passes on `reasoning_content` only (`Shown`), while a body that is read as a whole takes both, into
the text (`Says`); a fragment without an index is relayed as it is line by line, and gets the index
of its new call from a whole body; tool calls without a finish_reason end with `stop` line by line
and with `tool_calls` when they are aggregated; and a buffered answer refuses a chunk that ends
inside a character, which a stream accepts. The properties say, for each path, what the client gets,
not that the two agree. `EndedOnlyIfClean` is about what the edge can know: lines that end early
between two chunks are no error to the code, and such a stream gets its `[DONE]` (see below).

### SgxUpstream

One request inside the enclave, on the variables of `OpeStream`, which it extends, and, as one
worker, on those of `OpeDispatch`. Its own steps have the prefix `Sgx` where they differ from the
bridge's. Every call to the gateway is an exchange of its own: connect, write, read the header, read
the body through `FramedBodyReader`, whose three framings end differently. `FramedRead` says what it
makes of data, of a close and of an error. A chunked body may have its sizes padded with zeros: if
the connection closes after the zeros of such a size, the reader takes them for the size of the last
chunk, and the bridge ends the stream. `WholeWhenChunked` therefore speaks of sizes without leading
zeros. The enclave cannot check AMD's chain, so `SgxInit` leaves those policies out.
`ImplementsDispatcher` and `ImplementsBridge` say that the port implements what the CVM edge does;
the refinement mapping gives the lock to this worker while its preparation runs, and hides the
exchanges. Both refinements are proved, so that what `OpeDispatch` proves of plaintext and dead
epochs holds of a request in the enclave too.

### EdgeVerify

`verify_edge` from the TLS leaf to the verdict: `Connect`, `ChallengeEdge`, the search for a release
tag (`LoadTrust`, `LoadTrustBase`) with its retries and the fallback to the mirror, `CheckEvidence`,
`MatchGolden`, `CheckCeremony`, `CheckSums`, `VerifyQuote` and the two epoch files, read, truncated
and written. A tag that the caller fixes may be any release's. Of the ceremony lists any pin of the
key may be the one that is looked at, where the code takes the first: a superset. The edge, GitHub
and the mirror answer with anything they have; `Abort` is an error or a crash between any two steps,
after which the verifier is called again with the files as they are. Two verifiers that share the
files are left out: the code has no lock there, and the floor can go back (`epoch_floor.rs`, hazard
without a property).

### AcmeOrder and SgxCeremony

`AcmeOrder` is `provision_http01`. A request may fail before it arrives or after it was carried out;
the authority answers, probes and issues at its own pace, also after the client gave up.
`SgxCeremony` puts it between the artifact slot and the boot of the edge: `openapi-ceremony-helper`
keeps key, certificate and account as three files, written in place, for a ceremony (`issue` or
`renew`) and an edge that boots, imports from a peer and persists. `Put` has the outcomes of one
request: nothing, done, done with the answer lost, torn. `Import` takes a key and a certificate that
need not belong together: the exporter sends the key it was started with and reads the certificate
again for each export (`openapi-platform-sgx/seal_sync.rs:419`, `:555`), so a ceremony on its slot
without a restart makes it export a mixed pair. `mixed` and `writer` are history for
`MixedOnlyIfInterrupted`. An order that was placed while its answer got lost is left out of `Place`:
it only leaves an order nobody asks for. An import without a certificate is left out too: the
exporter always sends one or fails.

### The rules

* `BootPolicy`: boot is the conjunction of every check the two `main` functions make, over a record
  with a field per variable, file or fact; `Effective` is what an edge that passes then does.
* `Sealing`: the three blob versions with symbolic keys. A key is the tuple of what it is derived
  from, so that it opens exactly where the derivation can be repeated. The metadata
  of an AMD-SP blob, which is not authenticated, is there or is not; what it may ask of the secure
  processor is for the library's `DerivePolicy` to bound, which is external.
* `CivilTime`: the three hand-written RFC 3339 readers, each with its own count of days, over stamps
  split into numbers.
* `EngineChallenge`: the digest over the document, the wrappings of the report, the verdict. A
  wrapping may state the report data in a field of its own (`report_data_b64`), which the code takes
  at its word: it looks neither at the report beside it nor at any signature.
  `AnswerIsWholeAndFresh` has as its hypothesis that the field says what the report does, and then
  covers every wrapping and spelling; for a gateway that writes the field itself the check shows no
  more than that the document agrees with itself.
* `EngineUsage`: the counts of a completion, from a signed report, a bare one or an estimate. The
  key that verifies a report is taken to be the engine's; the code takes it from the preassignment,
  and what vouches for that is the recipient check of `OpeDispatch`, which on the path with epoch
  evidence does not look at the signing key.
* `PeerTrust`: what the attestors of both platforms produce and accept, with the two spellings of an
  SNP measurement.
* `TokenQuota`: the estimate of a prompt from its body, and the gates of the key's policy.
* `Http1`: when a request is complete, and where a reply ends, byte by byte. The symbols of a body
  include the ones that framing is made of.

## Runs

Every bound is a constant of a configuration.

| Run | Instance | Shows |
| --- | --- | --- |
| `RemoteAuth_safety` | 2 keys, one with a frame that does not verify, 2 workers, poller, TTL 1 | `NoAdmissionAfterRevocation`, `EpochIsComplete`, `StalenessBounded` under every interleaving of syncs, stores and checks |
| `RemoteAuth_liveness` | 2 keys, right and wrong secret, 1 worker, poller | `RevocationArrives`: convoys do not postpone the poll for ever; `OnlyRegisteredSecret` |
| `EdgeServer` | 5 connections of 2 addresses, 2 workers, queue 1, 1 responder, 1 per address | `PermitsExact`: per-IP permits, shed slots and open sockets are counted exactly; `AcceptedIsClosed` |
| `EdgeStartup` | blank or prepared disk, 2 crashes, 1 rotation of the peer | `ColdBootAttestsServed`, `ServesUnlessBroken` |
| `EdgeStartup_realign` | prepared disk, peer with another key | *violated* `AttestedIsServed` |
| `OpeDispatch` | 2 workers, every kind of offer, 4 policies, 3 instants, crashes | `PlaintextOnlyToTrusted`, `DeadEpochStaysDead`, `FloorHoldsTime`, `LockIsReleased` |
| `SgxUpstream` | 1 request of every kind, 3 answers of up to two chunks, 6 offers, 2 policies, 4 framings, failures in every exchange | `ImplementsDispatcher`, `ImplementsBridge`, `WholeWhenChunked` |
| `Admission` | 2 workers, 4 kinds of route, window of 2 ticks, 2 per address, policies 1 and 2, gate of 1 with bench bypass, with and without overlapping maintenance | `KeyBurstBounded`, `AuthStormCapped`, `ChallengeGateExact` |
| `OpeStream` | a text of 3 characters and 5 bytes cut twice in 9 ways, half a character, bytes that are no text, 9 answers of frames | `StreamIsFaithful`, `AggregateIsFaithful`, `DoneFollowsOneFinish`, `EndedOnlyIfClean` |
| `EdgeVerify` | 2 builds, one with tags, 2 keys, 2 golden versions, lists of 3 epochs, a mirror that replays, 13 answers of an edge | `NoRollback`, `VerdictSound`, `CeremonyPinned`, `Terminates` |
| `SgxCeremony` | 3 keys, orders of 2 authorizations, 2 issues, any renewals, 1 torn file, edges with and without a peer, dev and prod | `ProbeFindsToken`, `MixedOnlyIfInterrupted`, `ProdServesAttested`, `RenewKeepsSpki` |
| `Rules` | manifests of up to 3 of 10 windows at 9 instants; environments 3 variables away from 4 working ones; 2 chips, builds and TCB levels; every day until 2104; answers with 2 parts exchanged, in each wrapping, and reports with 1; every kind of peer; prompts at the bounds; requests of up to 3 headers in pieces of any size, replies in chunks cut after every byte | `RefusedWhileHard`, `ProdServesOneWay`, `OpensExactlyItsOwn`, `CalendarsAgree`, `AnswerIsWholeAndFresh`, `CountsAreTheEngines`, `KeyOnlyToListedPeer`, `RefusalsPersist`, `MessagesAreWhole` |

Why the bounds are enough. Two workers and the poller give every order of two syncs and a store that
matters to one key; a second key separates frames of one delta. Five connections exceed what
workers, queue, responders and the accept thread hold together. Two crashes cut one persist and the
boot after it. Of two workers on the sealed clock one has been through it when the other begins, and
three instants have one on each side of an epoch's end. Three windows are one that is active and two
that compete. A rate window of two ticks within four instants has a whole window start in the middle
of another. The longest character has two places inside which a chunk can end, and both can be hit
in a row. An epoch below, at and above the floor, and a floor that is torn or absent, are all that a
comparison of epochs tells apart. Two issues and a renewal leave and repair a mixed slot. Three
variables away from a working environment, one wrong setting can be paired with each two that hide
it. 2100 is the first year in which the century matters. The results that hold for every value of
the constants are proved, see below.

The bounds of `Admission` are what fixed windows promise: within one window's length a key is
granted fewer than twice the larger of its limits, and an address reaches authentication fewer
times than twice its limit plus the number of workers.

`EdgeStartup` separates what holds from what does not: an edge that has to import before it can
start attests what it serves (`ColdBootAttestsServed`), one that realigns later may not.

One run shows a disagreement between a comment and the code; `PROJECT.json` quotes the line under
`findings`. A warm realignment lets the edge attest a key it no longer serves until its next boot.
It exposes no plaintext.

Smaller ones met while modelling have no run of their own.

* `local_epoch` can go back when two syncs overlap, which costs a second fetch of the same frames
  and, by `EpochComplete`, loses none.
* The comment on `OpeDispatchUpstream.lock` says that it serializes dispatches; the guard is dropped
  when `prepare` returns, so dispatches overlap. The sealed clock and the cache need no more.
* `ope_upstream.rs:88` is to surface a bad request of the engine; one that is streamed has had its
  200 before the gateway refuses it, so its client sees a body that is cut off.
* A connection that finds both the queue and the responders full is closed without the 429 that
  `openapi-edge/src/lib.rs:226` announces.
* An edge with a certificate but no sealed key announces the certificate's SPKI, so an aligned peer
  sends it nothing and it starts without a key (`seal_sync.rs:505` and `:541`).
* `deploy/sgx/README.md:154` says that the serving SPKI must not change on renew. The ceremony
  compares the new certificate with the key it read at its start, so an import from a peer in
  between is overwritten; `RenewKeepsSpki` is stated for slots that only ceremonies write.
* A development CVM with `OPENAPI_SEAL_ROOT_HEX` seals an imported key without the root and unseals
  with it: its next start fails. Prod does not allow the variable.
* The CVM's `seal_sync.rs` says that prod requires a challenge URL; nothing enforces it.
* `seal_from_acme_live` of the CVM ceremony takes the oldest key of certbot's archive with the newest
  chain.

Not covered by a property: a gateway that ends an answer early, or repeats a line, without an error
(`ope_upstream.rs:857`, `:890`); a connection that closes after the leading zeros of a chunk's size
(`openapi-platform-sgx/gateway_ope_api.rs:606`), or before the end of a `Content-Length` in the
enclave; a worker that waits for ever, for a client that stops reading once its request has arrived
(`openapi-edge/src/lib.rs:384`) or for a call without a read timeout (see below); a cached AMD
certificate written in place (`snp.rs:277`); a gateway that states the report data of a challenge
itself (`engine_challenge.rs:322`).

### Fairness

* `RemoteAuth`: the poller is a thread of its own in an endless loop, so its local steps are
  weakly fair. Its fetch is strongly fair: L0 is reachable again and again. Workers need no
  fairness. The liveness run lets the clock stand still and cache entries lapse instead
  (`LapsingSpec`), so that workers return to L0 for ever and their convoys could postpone the poll
  for ever.
* `EdgeServer`: threads are scheduled, so the accept thread and each thread that does not wait for
  anybody move on. The receiver's mutex is only assumed to be taken by someone. Of clients and
  upstreams nothing is assumed: the socket's timeouts are cleared once a request is parsed
  (`openapi-edge/src/lib.rs:384`), and neither the plain upstream
  (`openapi-platform-cvm/upstream.rs:18`) nor the fetch of AMD's certificates
  (`openapi-attest/snp.rs:262`) has a read timeout. `AcceptedIsClosed` is conditional instead: as
  long as some thread comes free again and again, every accepted socket is closed unless its own
  client or upstream makes it wait for ever. All threads but one may hang.
* `EdgeStartup`: the supervisor starts the process again and `main()` moves on; the steps of the
  import are strongly fair, since a crash can interrupt each of them, but crashes are bounded.
* `EdgeVerify`: a verification is one thread, and its local steps are weakly fair. Its requests have
  no read timeout (`challenge_client.rs:38`, `manifest.rs:288`, `github_release.rs:229`,
  `ceremony.rs:115`, `snp.rs:262`), so no answer is assumed: `Terminates` says that a verification
  ends unless one single request, at one attempt, is never answered.
* `OpeDispatch`: the holder of the lock is scheduled. The client of the gateway has a connect and a
  read timeout, the fetch of AMD's certificates under the same lock has none (`snp.rs:262`); no
  answer is assumed, and `LockIsReleased` says that the lock is let go unless one single answer
  never comes.

## Proofs

The theorems hold for every value of the constants that satisfies the module's assumption. The
assumptions say that absent values are no ordinary ones, that limits are natural numbers, and that
there are finitely many workers where they are counted (`EdgeServer`, `Admission`); each run
evaluates the one of its module. Every theorem `Spec => []P` goes through an invariant that each
action keeps, one step per action. Where `P` alone is not inductive, this is what was added, and why.

* `RemoteAuth_proofs`. `EpochComplete`: a sync stores an epoch it fetched long ago. `SyncInv` adds,
  for each thread in a sync, that the edge knows every revocation up to `since`, and that each one
  in `(since, upto]` is known already or among the frames not yet applied. When the frames are used
  up, `upto` is complete and may be stored, in whatever order syncs end. This is why an epoch that
  goes back does no harm. `StalenessIsBounded`, `RevocationIsFinal` and `SecretIsChecked` come from
  `AdmissionInv`: every cache entry and every answer in a worker's hands expires less than `TTL`
  after the key's revocation, and carries the registered hash if it verifies; the key of a worker
  past its check was not known as revoked when the request began.
* `OpeDispatch_proofs`. `FloorIsKept`: `TimeInv` says that exactly the holder of the lock is between
  its inventory and its encryption (`LockInv`), that the floor is not below an accepted time, with the
  exceptions of the holder that has truncated the file or is about to write (`FloorInv`), and that
  nobody's turn began at a time later than the accepted one (`TurnInv`). Without the lock the read and
  the write of two workers could cross. `EpochsStayDead` follows: the epoch's end is compared with
  the floor, not with a time less the skew. `PlaintextIsSafe`: `TrustInv` says that every cached
  report is genuine or the policy does not ask, and that a worker past a check has an offer that
  passes it.
* `EdgeServer_proofs`. `PermitsAreExact`: a permit is returned by the thread that has the connection,
  so `HandInv` says that every connection that is neither queued nor shed is in the hand of a thread
  that runs, and that the worker that waits on the channel has none; `QueueInv` that the channel
  holds the queued ones, each once. `CountInv` then makes the counters sizes of sets, and the open
  sockets are covered by the threads, the places in the channel and the responders.
* `Admission_proofs`. `KeyBurst` and `AuthStorm`: the windows of a limiter begin with a request, that
  of the property anywhere. `Paced` ties them together: of the events later than the start of the
  bucket there are fewer than it has counted, because the request that started it is not later than
  itself, and what is carried over a restart is fewer than the limit. `IpInv` counts, besides the
  calls made, the workers that were charged and have yet to authenticate, hence the number of workers
  in the bound. `ChallengeGate`: `GateInv` counts the holders of permits.
* `EdgeVerify_proofs`. `VerdictsAreSound` and `CeremonyKeysArePinned` hold for any number of verifiers
  on the same files: `DocumentsInv`, `EvidenceInv`, `CeremonyInv` and `QuoteInv` say of each step what
  has been checked, and of which documents. `EpochsNeverFall` has the hypothesis `OneVerifier`, since
  `remember_epoch` has no lock and two may undo each other (see the hazards). `FileInv` says that a
  file that can be read is not below the highest epoch of a verdict, `EpochInv` that what a verifier
  has admitted is not below it either, and in the file when it is about to say so, and `PeakInv` that
  the highest only rises. A file that cannot be read stops every later verification.
* `SgxCeremony_proofs`. `TokensAreFound`: `TokenInv` follows the tokens of a pending order through
  placing, telling and clearing. `SlotIsAPair` (an import that is no pair counts as mixed),
  `ServesAttested` and `RenewalKeepsSpki` (an action property): `KeyInv` says that the chain is over
  the key of the CSR, which a renewal does not make; `RenewInv` that without a peer nobody else
  writes the slot while a renewal runs; `WriterInv` who has begun a pair; `EdgeInv` what the edge
  has read. `PollInv` keeps the polls within their bounds.
* `SgxUpstream_proofs`. `RefinesDispatcher` and `RefinesBridge`: a step of the enclave is a step of
  `OpeDispatch` and one of `OpeStream`, or leaves their variables alone, under `StepInv`, which ties
  the phase of the request to that of its preparation and of its exchange. What `OpeDispatch_proofs`
  shows of its specification (`EpochsStayDead`, `FloorIsKept`, `PlaintextIsSafe`) is thereby a fact
  about the enclave. `ChunkedIsWhole`: `ReadInv` says which lines of the answer have been read,
  `WholeInv` that they are all of them once a body in chunks, with no padded size, is over.
* The bridge, also in `SgxUpstream_proofs`, for answers of any length. `BridgeInv` has four parts.
  `EndIsClean` needs `CleanInv`: what was written begins with its only status, a reply was good, the
  share is there and no half character is left when the lines are over. `StreamFaithful` adds
  `LineInv`, what has been read is a beginning of the answer, and `SpeechInv`: while lines come, the
  client has all that was read, of each frame the one name that is passed on, but the bytes the
  accumulator keeps, which begin one character; a body that is read as a whole is silent before its
  events. The step from one chunk to the next is that `ValidUpTo` cuts the bytes kept and the new
  ones where all bytes together are cut. `DoneAfterOneFinish` adds `FinalInv`: `saw_finish` says
  whether a finish_reason is among the items, and which. `AggregateFaithful` is what `AggregateAll`
  computes: the text under all names, no fragment of a tool call lost, and, if all have an index,
  under each the arguments in order, since `MergeOne` extends one call and leaves the others alone.
  What `FlattenSeq`, `MergeAll` and `AggregateAll` return is proved by induction on lengths (`UpTo`,
  `SeqInduction`, `Recursion`). `BridgeTypes` needs `FlatInv`, that the accumulator keeps the
  beginning of one character; `EnclaveTypes` adds `DataInv` and `OrderInv` for the exchanges.
  `EnclaveStream` carries the four properties of the bridge over to the enclave.
* `BootAndRules_proofs`. `ColdBootIsAttested`: the SPKI is recorded at one step and the files are read
  again at two later ones. `PhaseInv` says that no import is under way at the first steps, `ColdInv`
  that none starts again between the recorded SPKI and the acceptor of a cold boot, and `IncomingInv`
  that what is being persisted is a pair.

The rules, also in `BootAndRules_proofs`, are functions of an input. TLC looks at a bounded pool of
inputs; the theorems state the same property of every input of its kind, and their hypotheses say
only what an input is: a record with the fields the code reads (`Environment`, `AnyMachine`,
`AnyAnswer`, `AnyReport`, ...), and a marker for an absent value that is no value. Every input of
the run `Rules` satisfies them. `BootIsSafe` covers every environment; `OpensItsOwn` any chips,
builds and TCB levels; `KeyGoesToListedPeer` any peer and claim; `AnswerIsTheEngines` any engine and
any document around its report, in any wrapping whose field, if it has one, repeats the report's
data; `CountsAreSigned` any counts; `RefusedExactly` manifests of any length. `MessagesEndWhole`
covers requests of any headers under any limits, and replies of any text: with a length, up to the
end of the connection, or in chunks of any size. `InChunks` puts the chunks together from the last
one on, each with any line in which the edge reads its size, and the theorem says, for every byte
after which the connection may end, what `copy_chunked` has passed on; the line that is cut off is
never followed by anything, so no size read from it matters. `copy_chunked` is a recursion over
positions, which has values because every line has at least a byte (`StepDepends`, `CopyIs`). The
status of a reply is 200, 401 or a 5xx, in the theorem as in the run; the code takes 404 for 401,
and any other status below 400 for 200. `CalendarsCount` is about the walk day by day, without end:
the three counts are the same from the year 1 on (`CivilIs`, `CopiesAgree`), `CalendarInv` says that
`days_from_civil` is the number of the day, and the step needs that it grows by one at each end of a
month, leap years included. `RefusalsStay` is about the walk with prompts and budgets of any size:
the estimate grows with each message, and the three overlapping conditions are monotone in both.
Induction over data is done by hand with `LeastNat`: a recursive function over a sequence exists and
has its property, or there is a least length at which it has not.

Only model-checked:

* liveness, which is out of the prover's reach: `RevocationArrives`, `AcceptedIsClosed`,
  `ServesUnlessBroken`, `LockIsReleased`, `Terminates`;
* `AttestedIsServed`, which is violated.

## Not modelled

Cryptography, the formatting of responses, and the parsing of text into numbers, lines and JSON are
reduced to their outcomes. Left out are libraries (the seal-sync protocol, httparse, ureq, rustls,
the AMD and Intel verifiers), what a quote is made of, the CVM's one-shot ceremony tools, the signed
file catalog, which is loaded once and then only read, usage signing, and the browser binding of the
verifier. `PROJECT.json` lists each with the reason.

## Plan

Done, in order: `RemoteAuth` with proofs, `EdgeServer`, `EdgeStartup`, `OpeDispatch` with proofs,
`Maintenance`, `Admission`, `OpeStream`, `EdgeVerify`, `SgxUpstream` and its refinements, `AcmeOrder`
and `SgxCeremony`, the rules in `MCRules`, and then the proofs of `EdgeServer`, `Admission`,
`EdgeVerify`, `SgxCeremony`, `SgxUpstream`, `EdgeStartup`, the rules, and last those of the bridge,
`OpeStream`, and of HTTP framing, `Http1`.

Nothing of this plan is left; what TLC alone checks is liveness.
