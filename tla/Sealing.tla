------------------------------ MODULE Sealing -------------------------------
(***************************************************************************)
(* Sealed TLS keys: crates/openapi-platform/src/seal.rs and the sealers of *)
(* the two platforms (openapi-platform-cvm and openapi-platform-sgx,       *)
(* src/seal.rs, with guest_digest.rs and amd_sp_key.rs of the former).     *)
(*                                                                         *)
(* A blob carries a version, the measurement it was sealed under, the      *)
(* parameters its key is derived from, and a ciphertext.  Version 1 derives*)
(* the key by HKDF from the measurement and an optional root; version 2    *)
(* asks the enclave's EGETKEY; version 3 the AMD secure processor.  A key  *)
(* is symbolic: the tuple of what it is derived from.  A ciphertext opens  *)
(* under the key it was made with and no other, and stands for that key.   *)
(*                                                                         *)
(* A machine is one edge as the sealer sees it:                            *)
(*   platform   "cvm" or "sgx"                                             *)
(*   prod       its profile                                                *)
(*   chip, build, debug, svn   what the hardware knows of it: the chip,    *)
(*              the measured code, the debug attribute, the TCB level      *)
(*   digest     OPENAPI_LAUNCH_DIGEST or OPENAPI_MRENCLAVE                 *)
(*   root       OPENAPI_SEAL_ROOT_HEX, or Nil                             *)
(***************************************************************************)
EXTENDS Naturals

CONSTANTS
  Nil   \* an optional value that is not given

\* A root the host supplies, and the digest of an edge that was not told one.
HostRoot == <<"host">>
Unknown  == "unknown"

-----------------------------------------------------------------------------
(***************************************************************************)
(* Keys                                                                    *)
(***************************************************************************)

\* derive_seal_key over measurement_binding_label.
Hkdf(measurement, root) == <<"hkdf", measurement, root>>

\* egetkey: the hardware mixes in the chip, the enclave and its attributes,
\* and derives a key for its own TCB level or an older one.
Egetkey(m, label, svn) == <<"egetkey", m.chip, m.build, m.debug, label, svn>>

\* derive_amd_sp_seal_key: the secure processor mixes in chip and measurement.
AmdSp(m) == <<"amdsp", m.chip, m.build>>

\* expand_egetkey_to_aes256
Expand(key, measurement) == <<"aes", key, measurement>>

\* derive_prod_seal_root: two labels at the current TCB level.
DeriveProdSealRoot(m) ==
  <<"root", Egetkey(m, "teechat-sgx-seal", m.svn), Egetkey(m, "teechat-sgx-root", m.svn)>>

\* sealing_measurement: a CVM declares it, an enclave reads its own report.
SealingMeasurement(m) == IF m.platform = "cvm" THEN m.digest ELSE m.build

\* resolve_seal_root: Nil stands for Err where a root is forbidden, see
\* SealRootAllowed.
SealRoot(m) ==
  CASE m.platform = "cvm" /\ m.prod -> Nil
    [] m.platform = "sgx" /\ m.prod -> DeriveProdSealRoot(m)
    [] OTHER                        -> m.root

SealRootAllowed(m) == m.prod => m.root = Nil

\* verify_launch_digest_attested: the digest is the one in the guest's report.
LaunchDigestAttested(m) == m.digest # Unknown /\ m.digest = m.build

\* runtime_sgx_sealer: the digest is the one in the enclave's report.
RuntimeMrenclave(m) == m.prod \/ m.digest # Unknown => m.digest = m.build

-----------------------------------------------------------------------------
(***************************************************************************)
(* seal_tls_key                                                            *)
(***************************************************************************)

Blob(version, measurement, sealData, amdSp, key) ==
  [version |-> version, measurement |-> measurement, sealData |-> sealData,
   amdSp |-> amdSp, key |-> key]

\* seal_tls_private_key, with the root the caller passes.
SealSoft(m, root) ==
  Blob(1, SealingMeasurement(m), Nil, FALSE, Hkdf(SealingMeasurement(m), root))

\* hw::seal_tls_private_key
SealSgx(m) ==
  Blob(2, m.build, [svn |-> m.svn, debug |-> m.debug], FALSE,
       Expand(Egetkey(m, "teechat-tls-seal", m.svn), m.build))

\* seal_tls_private_key_amd_sp
SealAmdSp(m) == Blob(3, m.digest, Nil, TRUE, AmdSp(m))

\* What a machine's own sealer makes of a key, given a root; Nil if it refuses.
SealTlsKey(m, root) ==
  CASE m.platform = "sgx"                            -> SealSgx(m)
    [] m.platform = "cvm" /\ m.prod                  ->
         IF root = Nil /\ LaunchDigestAttested(m) THEN SealAmdSp(m) ELSE Nil
    [] m.platform = "cvm" /\ ~m.prod                 -> SealSoft(m, root)

\* The host tools seal-tls-key and seal-tls-key-sgx: not for a prod edge.  On
\* the host an enclave's measurement is the one the environment gives.
HostSealTool(m) ==
  IF m.prod THEN Nil
  ELSE Blob(1, m.digest, Nil, FALSE, Hkdf(m.digest, SealRoot(m)))

-----------------------------------------------------------------------------
(***************************************************************************)
(* unseal_tls_key                                                          *)
(***************************************************************************)

\* unseal_tls_private_key
UnsealSoft(m, blob, root) ==
  /\ blob.version = 1
  /\ blob.sealData = Nil
  /\ ~blob.amdSp
  /\ blob.measurement = SealingMeasurement(m)
  /\ blob.key = Hkdf(SealingMeasurement(m), root)

\* hw::unseal_tls_private_key: the key is asked for at the blob's TCB level,
\* which EGETKEY refuses when it is above the machine's own.
UnsealSgx(m, blob) ==
  /\ blob.sealData # Nil
  /\ blob.sealData.debug = m.debug
  /\ blob.sealData.svn <= m.svn
  /\ blob.key = Expand(Egetkey(m, "teechat-tls-seal", blob.sealData.svn), blob.measurement)

\* unseal_tls_private_key_amd_sp, and what the library compares.
UnsealAmdSp(m, blob) ==
  /\ blob.version = 3
  /\ blob.amdSp
  /\ blob.sealData = Nil
  /\ blob.measurement = m.digest
  /\ blob.key = AmdSp(m)

\* Mutant: a prod CVM also opens what was sealed before version 3.
UnsealLegacy(m, blob, root) ==
  \/ m.platform = "cvm" /\ m.prod /\ root = Nil /\ LaunchDigestAttested(m) /\ UnsealAmdSp(m, blob)
  \/ m.platform = "cvm" /\ UnsealSoft(m, blob, root)
  \/ /\ m.platform = "sgx"
     /\ blob.measurement = m.build
     /\ \/ blob.version = 2 /\ UnsealSgx(m, blob)
        \/ blob.version = 1 /\ UnsealSoft(m, blob, root)

\* unseal_tls_key of the machine's sealer.
UnsealTlsKey(m, blob, root) ==
  \/ m.platform = "cvm" /\ m.prod /\ root = Nil /\ LaunchDigestAttested(m) /\ UnsealAmdSp(m, blob)
  \/ m.platform = "cvm" /\ ~m.prod /\ UnsealSoft(m, blob, root)
  \/ /\ m.platform = "sgx"
     /\ blob.measurement = m.build
     /\ \/ blob.version = 2 /\ UnsealSgx(m, blob)
        \/ blob.version = 1 /\ UnsealSoft(m, blob, root)

-----------------------------------------------------------------------------
(***************************************************************************)
(* What sealing promises                                                   *)
(***************************************************************************)

\* The blob is one that this machine's hardware made for this code.
SealedInTee(m, blob) ==
  \/ m.platform = "cvm" /\ blob.key = AmdSp(m)
  \/ /\ m.platform = "sgx"
     /\ \E svn \in 0 .. m.svn :
          blob.key = Expand(Egetkey(m, "teechat-tls-seal", svn), m.build)
=============================================================================
