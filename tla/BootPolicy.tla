----------------------------- MODULE BootPolicy -----------------------------
(***************************************************************************)
(* What an edge makes of its environment at boot: bins/openapi/src/main.rs *)
(* and crates/openapi-platform-sgx/src/run.rs with the env, profile, policy*)
(* and gateway settings they load.                                         *)
(*                                                                         *)
(* An environment is a record, one field for each variable (or file, or    *)
(* fact about the platform) that decides something.  "unset" is a variable *)
(* that is not set or empty; text that is trimmed, lowercased or parsed is *)
(* given by what it parses to.  Every check ends the process when it fails,*)
(* so boot is the conjunction of its checks; what an edge that comes up    *)
(* then does is a function of the environment.                             *)
(***************************************************************************)
EXTENDS Sealing

\* The values of each field.
Values ==
  [platform       |-> {"cvm", "sgx"},
   profile        |-> {"unset", "dev", "prod", "other"},
   required       |-> BOOLEAN,   \* UPSTREAM_BASE_URL, CATALOG_VERIFY_KEY_HEX
   seed           |-> {"unset", "ok", "bad"},
   digest         |-> {"unset", "unknown", "match", "other"},
   auth           |-> {"unset", "remote", "catalog", "other"},
   catalog        |-> BOOLEAN,   \* a catalog that loads
   l0             |-> BOOLEAN,   \* L0_AUTHORIZE_URL and L0_INTERNAL_TOKEN
   proxy          |-> {"unset", "allowlist", "transparent", "other"},
   bench          |-> BOOLEAN,
   launchOverride |-> BOOLEAN,   \* ATTESTED_LAUNCH_DIGEST
   amdKey         |-> BOOLEAN,   \* AMD_SP_DERIVED_KEY_HEX
   snpguest       |-> {"unset", "measured", "unmeasured"},
   verity         |-> BOOLEAN,   \* teechat.app_verity_root on the command line
   exeMeasured    |-> BOOLEAN,   \* the binary is not on a data mount
   plainKey       |-> BOOLEAN,
   sealedKey      |-> BOOLEAN,
   cert           |-> BOOLEAN,
   helper         |-> BOOLEAN,
   sealRoot       |-> {"unset", "ok", "bad"},
   artifact       |-> {"absent", "tee", "tool"},  \* who made the sealed key
   policyPath     |-> {"unset", "key_ceremony", "seal_sync"},
   policyEnv      |-> {"unset", "key_ceremony", "seal_sync", "other"},
   policyFile     |-> {"absent", "key_ceremony", "seal_sync"},
   listen         |-> BOOLEAN,
   peer           |-> BOOLEAN,   \* SEAL_SYNC_PEER, and it answers
   psk            |-> BOOLEAN,
   allow          |-> BOOLEAN,   \* SEAL_SYNC_ALLOWLIST is not empty
   breakGlass     |-> BOOLEAN,
   gateway        |-> {"unset", "http", "https", "https_ip"},
   clientTls      |-> {"ok", "unpaired", "path"},
   insecure       |-> BOOLEAN,
   pins           |-> {"unset", "bad", "empty", "some"},
   evidence       |-> BOOLEAN,
   stage5         |-> BOOLEAN,
   requireLaunch  |-> BOOLEAN,
   launchList     |-> BOOLEAN,
   healthy        |-> BOOLEAN]   \* the gateway answers the health probe

Prod(e) == e.profile = "prod"
Cvm(e)  == e.platform = "cvm"
Sgx(e)  == e.platform = "sgx"

-----------------------------------------------------------------------------
(***************************************************************************)
(* load_edge_env, load_sgx_edge_env                                        *)
(***************************************************************************)

\* parse_edge_profile
LoadEdgeProfile(e) == e.profile \in {"dev", "prod"}

\* OpenApiAuthMode::parse of an enclave: all it does not know is a catalog.
\* The default build of a CVM has no other mode than remote.
AuthMode(e) == IF Sgx(e) /\ e.auth \in {"catalog", "other"} THEN "catalog" ELSE "remote"

LoadEdgeEnv(e) ==
  /\ LoadEdgeProfile(e)
  /\ e.pins # "bad"
  /\ e.auth \in {"unset", "remote"}
  /\ e.required
  /\ e.proxy # "other"

LoadSgxEdgeEnv(e) ==
  /\ LoadEdgeProfile(e)
  /\ e.pins # "bad"
  /\ AuthMode(e) = "catalog" => ~Prod(e) /\ e.catalog
  /\ e.required /\ e.seed # "unset" /\ e.digest # "unset"
  /\ e.proxy # "other"

-----------------------------------------------------------------------------
(***************************************************************************)
(* validate_profile                                                        *)
(***************************************************************************)

\* Mutant: the proxy mode is left to load_edge_env.
ValidateButProxy(e) ==
  Prod(e) =>
    /\ ~e.plainKey
    /\ e.helper \/ (e.sealedKey /\ e.cert)
    /\ e.sealRoot = "unset"
    /\ ~e.launchOverride /\ ~e.amdKey /\ ~e.bench
    /\ e.policyPath = "unset"
    /\ e.snpguest # "unmeasured"

ValidateTlsKeyPolicy(e) ==
  Prod(e) =>
    /\ ~e.plainKey
    /\ e.helper \/ (e.sealedKey /\ e.cert)
    /\ e.sealRoot = "unset"
    /\ ~e.launchOverride /\ ~e.amdKey /\ ~e.bench
    /\ e.proxy # "transparent"
    /\ e.policyPath = "unset"
    /\ e.snpguest # "unmeasured"

ValidateMeasuredAppPath(e) == Prod(e) => e.verity /\ e.exeMeasured

\* validate_profile of a CVM; an enclave's is the first part.
ValidateProfile(e) == ValidateTlsKeyPolicy(e) /\ ValidateMeasuredAppPath(e)

-----------------------------------------------------------------------------
(***************************************************************************)
(* The sealer and its root                                                 *)
(***************************************************************************)

\* The edge as its sealer sees it.
Machine(e) ==
  [platform |-> e.platform, prod |-> Prod(e), chip |-> "chip", build |-> "build",
   debug |-> FALSE, svn |-> 0,
   digest |-> CASE e.digest = "match" -> "build"
                [] e.digest = "other" -> "elsewhere"
                [] OTHER              -> Unknown,
   root |-> IF e.sealRoot = "ok" THEN HostRoot ELSE Nil]

\* No root at all is none that the hardware derives.
ASSUME BootPolicyAssumption ==
  Nil # DeriveProdSealRoot([chip |-> "chip", build |-> "build", debug |-> FALSE, svn |-> 0])

\* seal_root() of a CVM, with parse_seal_root_hex.
SealRootResolves(e) == e.sealRoot # "bad" /\ SealRootAllowed(Machine(e))

\* runtime_sgx_sealer() and seal_root() of an enclave, which in prod does not
\* even look at the variable.
SgxSealerReady(e) == RuntimeMrenclave(Machine(e)) /\ (Prod(e) \/ e.sealRoot # "bad")

-----------------------------------------------------------------------------
(***************************************************************************)
(* The key policy and seal-sync                                            *)
(***************************************************************************)

\* tls_key_policy_path: only a dev edge follows the redirection.
PolicyFile(e) ==
  IF e.profile = "dev" /\ e.policyPath # "unset" THEN e.policyPath ELSE e.policyFile

\* resolve_tls_key_policy_for_profile, and resolve_tls_key_policy_optional of
\* an enclave, which has no file to measure.
KeyPolicy(e) ==
  CASE Sgx(e) /\ e.policyEnv = "unset"                       -> "none"
    [] Sgx(e) /\ e.policyEnv # "unset"                       -> e.policyEnv
    [] Cvm(e) /\ Prod(e) /\ e.policyEnv # "unset"            -> "other"
    [] Cvm(e) /\ Prod(e) /\ e.policyEnv = "unset"            ->
         IF PolicyFile(e) = "absent" THEN "other" ELSE PolicyFile(e)
    [] Cvm(e) /\ ~Prod(e) /\ PolicyFile(e) # "absent"        -> PolicyFile(e)
    [] Cvm(e) /\ ~Prod(e) /\ PolicyFile(e) = "absent"        ->
         IF e.policyEnv = "unset" THEN "seal_sync" ELSE e.policyEnv

SyncEnabled(e) == e.listen \/ e.peer

\* SealSyncConfig::validate_for_profile
SyncValid(e) == Prod(e) => ~e.psk /\ e.allow

\* maybe_start_seal_sync of an edge that has a key, or has none (hasKey).
StartsSync(e, hasKey) ==
  /\ SyncValid(e)
  /\ KeyPolicy(e) = "key_ceremony" => ~e.peer
  /\ Sgx(e) /\ KeyPolicy(e) = "seal_sync" => hasKey \/ e.peer

-----------------------------------------------------------------------------
(***************************************************************************)
(* TLS                                                                     *)
(***************************************************************************)

\* The sealed key that is there at boot was made on this machine, by the
\* edge (or ceremony) in its own profile, or by the host tool for a dev edge.
Artifact(e) ==
  IF e.artifact = "tee" THEN SealTlsKey([Machine(e) EXCEPT !.prod = TRUE, !.digest = "build"], Nil)
  ELSE HostSealTool([Machine(e) EXCEPT !.prod = FALSE])

\* The import seals what it receives: a CVM without a root, whatever it was
\* given (CvmLocalSealer), an enclave in hardware.
Imported(e) == SealTlsKey(Machine(e), Nil)

Unseals(e, blob) == blob # Nil /\ UnsealTlsKey(Machine(e), blob, SealRoot(Machine(e)))

\* An edge that finds no sealed key at its path and may import one does so.
ColdStart(e) ==
  e.sealedKey /\ e.artifact = "absent" /\ e.peer /\ KeyPolicy(e) = "seal_sync"

\* tls_spki_hex and build_tls_acceptor of a CVM, and the seal-sync between
\* them: "refused" if any ends the process, else whether TLS is on.  A warm
\* import in the background only warns when it fails; one in line finds the
\* edge aligned with its peer (module EdgeStartup has the one that does not).
CvmTls(e) ==
  LET blob    == IF ColdStart(e) THEN Imported(e) ELSE Artifact(e)
      present == ColdStart(e) \/ e.artifact # "absent"
      opens   == present /\ Unseals(e, blob)
      cold    == e.cert /\ StartsSync(e, FALSE) /\ Imported(e) # Nil
      warm    == SyncEnabled(e) /\ ~(e.sealedKey /\ e.artifact = "absent" /\ e.peer)
      synced  == /\ e.cert /\ e.sealedKey /\ opens
                 /\ (e.peer /\ ~e.listen) \/ StartsSync(e, TRUE)
  IN  IF (ColdStart(e) /\ ~cold) \/ ((warm \/ e.listen) /\ ~synced) THEN "refused"
      ELSE CASE ~e.cert                               -> IF Prod(e) THEN "refused" ELSE "plain"
             [] e.cert /\ e.sealedKey                 -> IF opens THEN "tls" ELSE "refused"
             [] e.cert /\ ~e.sealedKey /\ e.plainKey  -> IF Prod(e) THEN "refused" ELSE "tls"
             [] e.cert /\ ~e.sealedKey /\ ~e.plainKey -> IF Prod(e) THEN "refused" ELSE "plain"

\* prepare_tls_material and build_tls_acceptor_from_material of an enclave.
\* Files cannot be opened there, so a key at a path never loads.
SgxTls(e) ==
  LET has     == e.artifact # "absent"
      opens   == Unseals(e, Artifact(e))
      defers  == KeyPolicy(e) = "seal_sync" \/ SyncEnabled(e)
      synced  == SyncEnabled(e) => StartsSync(e, has)
      holds   == has \/ (SyncEnabled(e) /\ e.peer)
  IN  IF \/ KeyPolicy(e) = "other"
         \/ e.helper /\ has /\ ~opens
         \/ e.helper /\ ~has /\ ~defers /\ Prod(e)
         \/ e.helper /\ ~synced
      THEN "refused"
      ELSE CASE e.helper /\ holds        -> "tls"
             [] e.helper /\ ~holds       -> IF Prod(e) THEN "refused" ELSE "plain"
             [] ~e.helper /\ ~e.cert     -> IF Prod(e) THEN "refused" ELSE "plain"
             [] ~e.helper /\ e.cert      ->
                  IF Prod(e) \/ e.sealedKey \/ e.plainKey THEN "refused" ELSE "plain"

-----------------------------------------------------------------------------
(***************************************************************************)
(* Authentication and upstream                                             *)
(***************************************************************************)

EdgeAuthenticator(e) == IF AuthMode(e) = "catalog" THEN e.catalog ELSE e.l0

\* GatewayOpeApiConfig::from_env, for a gateway URL that is set: pins may be
\* left out only where something else checks the engines.
EnginesChecked(e) == e.pins # "bad" /\ (e.evidence \/ e.stage5 \/ e.pins = "some")

\* validate_for_profile of a CVM
ValidateForProfile(e) ==
  /\ Prod(e) => ~e.insecure /\ e.gateway # "http" /\ EnginesChecked(e)
  /\ e.requireLaunch => e.launchList

\* from_parts and validate_for_profile of an enclave: it dials an address over
\* TLS or nothing, and takes its certificates from the environment only.
SgxValidateForProfile(e) ==
  /\ e.gateway = "https_ip" /\ e.clientTls # "path"
  /\ Prod(e) => ~e.insecure /\ EnginesChecked(e)
  /\ e.requireLaunch => e.launchList

\* from_parts, build_client_tls_config
ClientTlsLoads(e) == e.clientTls # "unpaired"

GatewayConfig(e) ==
  /\ ClientTlsLoads(e)
  /\ EnginesChecked(e)
  /\ IF Cvm(e) THEN ValidateForProfile(e) ELSE SgxValidateForProfile(e)

\* require_gateway_ope_api_healthy
GatewayHealthy(e) == GatewayConfig(e) /\ e.healthy

\* EdgeUpstream::from_env
Upstream(e) ==
  CASE e.breakGlass                       -> IF Prod(e) THEN "refused" ELSE "clear"
    [] ~e.breakGlass /\ e.gateway = "unset" -> IF Prod(e) THEN "refused" ELSE "clear"
    [] ~e.breakGlass /\ e.gateway # "unset" ->
         IF GatewayConfig(e) /\ GatewayHealthy(e) THEN "ope"
         ELSE IF Prod(e) THEN "refused" ELSE "clear"

-----------------------------------------------------------------------------
(***************************************************************************)
(* main, run: the edge comes up, and with what.                            *)
(***************************************************************************)

Main(e) ==
  /\ LoadEdgeEnv(e)
  /\ ValidateProfile(e)
  /\ SealRootResolves(e)
  /\ KeyPolicy(e) # "other"
  /\ CvmTls(e) # "refused"
  /\ EdgeAuthenticator(e)
  /\ Upstream(e) # "refused"
  /\ e.seed # "bad"

Run(e) ==
  /\ LoadSgxEdgeEnv(e)
  /\ ValidateTlsKeyPolicy(e)
  /\ SgxSealerReady(e)
  /\ SgxTls(e) # "refused"
  /\ Upstream(e) # "refused"
  /\ EdgeAuthenticator(e)
  /\ e.seed # "bad"

Serves(e) == IF Cvm(e) THEN Main(e) ELSE Run(e)

Tls(e) == IF Cvm(e) THEN CvmTls(e) ELSE SgxTls(e)

\* limits(): a prod edge drops the token that lifts the challenge caps.
BenchToken(e) == ~Prod(e) /\ e.bench

\* How the edge that came up treats the requests it will get.
Effective(e) ==
  [tls      |-> Tls(e),
   auth     |-> AuthMode(e),
   upstream |-> Upstream(e),
   proxy    |-> IF e.proxy = "transparent" THEN "transparent" ELSE "allowlist",
   bench    |-> BenchToken(e)]
=============================================================================
