------------------------------ MODULE PeerTrust -----------------------------
(***************************************************************************)
(* Whom an edge gives its TLS key, or takes one from: the attestors and    *)
(* the challenge gate of crates/openapi-platform-cvm/src/seal_sync.rs and  *)
(* crates/openapi-platform-sgx/src/seal_sync.rs.                           *)
(*                                                                         *)
(* Both ends of a seal-sync show evidence that binds their hardware to the *)
(* channel they talk over.  The seal-sync protocol is a library: it asks   *)
(* the attestor to produce and to verify evidence, and the challenge gate, *)
(* if there is one.  A measurement stands for the code that was launched;  *)
(* an SNP measurement has two spellings, raw and the digest that the       *)
(* challenge uses.                                                         *)
(***************************************************************************)

Raw(code)       == [form |-> "raw", code |-> code]
Canonical(code) == [form |-> "canonical", code |-> code]

\* SealSyncConfig::validate_for_profile
SyncConfigValid(cfg) == cfg.prod => ~cfg.psk /\ cfg.allow # {}

\* SealSyncConfig::use_split_trust_gate
UseSplitTrustGate(cfg) == cfg.challengeUrl /\ ~cfg.psk

\* The list of build_attestor, and allowlisted: an edge trusts its own kind.
Allowed(cfg, local) == cfg.allow \cup {local}

\* build_attestor: whoever has a pre-shared key does without hardware.
AttestorKind(cfg) == IF cfg.psk THEN "mock" ELSE cfg.platform

\* report_data_for_channel
ChannelData(channel) == <<"teechat-seal-sync-v3", channel>>

-----------------------------------------------------------------------------
(***************************************************************************)
(* Evidence: what its maker claims, and what its hardware has signed.      *)
(***************************************************************************)

\* MockAttestor, of the library.
ProduceMock(peer, channel) ==
  [kind |-> "mock", claim |-> peer.measurement, channel |-> channel, psk |-> TRUE]

\* SnpChannelAttestor::produce.  A debug guest can be read by its host.
ProduceSnp(peer, channel) ==
  [kind |-> "snp", claim |-> peer.measurement, channel |-> channel,
   code |-> peer.code, data |-> ChannelData(channel), genuine |-> peer.genuine,
   debug |-> peer.debug]

\* DcapChannelAttestor::produce, with the collateral that the peer's own
\* helper fetched.
ProduceDcap(peer, channel) ==
  [kind |-> "dcap", claim |-> peer.measurement, channel |-> channel,
   code |-> peer.code, data |-> ChannelData(channel), genuine |-> peer.genuine,
   debug |-> peer.debug, schema |-> 3, upToDate |-> peer.upToDate]

\* EdgeSealSyncAttestor::produce
Produce(kind, peer, channel) ==
  CASE kind = "mock" -> ProduceMock(peer, channel)
    [] kind = "snp"  -> ProduceSnp(peer, channel)
    [] kind = "dcap" -> ProduceDcap(peer, channel)

-----------------------------------------------------------------------------
(***************************************************************************)
(* Verification: `allowed` is the list of the verifier.                    *)
(***************************************************************************)

VerifyMock(allowed, e, channel) ==
  e.kind = "mock" /\ e.channel = channel /\ e.claim \in allowed /\ e.psk

\* Mutant: the claim is looked up, and the report need not agree with it.
VerifySnpClaim(allowed, e, channel) ==
  /\ e.kind = "snp"
  /\ e.channel = channel
  /\ e.claim \in allowed
  /\ e.genuine /\ ~e.debug
  /\ e.data = ChannelData(channel)

\* SnpChannelAttestor::verify
VerifySnp(allowed, e, channel) ==
  /\ e.kind = "snp"
  /\ e.channel = channel
  /\ e.claim \in allowed
  /\ e.genuine /\ ~e.debug
  /\ e.data = ChannelData(channel)
  /\ e.claim \in {Raw(e.code), Canonical(e.code)}

\* DcapChannelAttestor::verify
VerifyDcap(allowed, e, channel) ==
  /\ e.kind = "dcap"
  /\ e.channel = channel
  /\ e.claim \in allowed
  /\ e.schema = 3
  /\ e.genuine /\ ~e.debug
  /\ e.data = ChannelData(channel)
  /\ e.claim = Raw(e.code)
  /\ e.upToDate

\* EdgeSealSyncAttestor::verify
VerifyPeer(cfg, local, e, channel) ==
  CASE AttestorKind(cfg) = "mock" -> VerifyMock(Allowed(cfg, local), e, channel)
    [] AttestorKind(cfg) = "snp"  -> VerifySnp(Allowed(cfg, local), e, channel)
    [] AttestorKind(cfg) = "dcap" -> VerifyDcap(Allowed(cfg, local), e, channel)

\* SplitTrustChallengeGate of a CVM; `passes` is the verdict of EdgeVerify on
\* the peer.  An enclave has a gate that lets everybody pass, or none, and a
\* legacy import goes without.
ChallengeGate(cfg, role, passes) ==
  \/ cfg.platform = "dcap"
  \/ ~UseSplitTrustGate(cfg)
  \/ role = "import" /\ cfg.legacy
  \/ passes

\* spawn_seal_sync_server exports the key, or run_seal_sync_client takes it.
Exchanges(cfg, local, role, e, channel, passes) ==
  VerifyPeer(cfg, local, e, channel) /\ ChallengeGate(cfg, role, passes)
=============================================================================
