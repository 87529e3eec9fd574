---------------------------- MODULE SgxCeremony -----------------------------
(***************************************************************************)
(* The TLS key of an SGX edge, from the certificate authority to the       *)
(* socket: the ACME ceremony (acme_ceremony.rs) and the boot of the edge   *)
(* (run.rs, seal_sync.rs) of crates/openapi-platform-sgx, two processes    *)
(* that share one artifact slot on the host, kept by                       *)
(* bins/openapi-ceremony-helper.                                           *)
(*                                                                         *)
(* The helper serves one request at a time and writes files in place.  A   *)
(* request may fail before it arrives, and its answer may be lost after it *)
(* was carried out; a helper that dies in the middle leaves a torn file.   *)
(* The seal-sync protocol is a library: its outcome is modelled from how   *)
(* seal_sync.rs uses it.                                                   *)
(***************************************************************************)
EXTENDS AcmeOrder

CONSTANTS
  Absent, Torn,  \* no such file, and one whose writing was interrupted
  Configs,       \* settings: [prod, peer, listen : BOOLEAN, policy : Policies]
  MaxIssues,     \* bound on the ceremonies that make a new key
  MaxTears       \* bound on the deaths of the helper in a write

Policies == {"unset", "key_ceremony", "seal_sync"}
File == Keys \cup {Absent, Torn}

ASSUME SgxCeremonyAssumption ==
  /\ Absent \notin Keys \cup {NoKey} /\ Torn \notin Keys \cup {NoKey} /\ Absent # Torn
  /\ "stored" \notin {Absent, Torn}
  /\ Configs \subseteq [prod : BOOLEAN, peer : BOOLEAN, listen : BOOLEAN, policy : Policies]
  /\ MaxIssues \in Nat /\ MaxTears \in Nat

VARIABLES
  cfg,
  account, sealed, cert,  \* account.json, sealed-key.json and tls.crt of the slot
  mode,                   \* AcmeMode of the ceremony
  prior,                  \* prior_spki
  edge,                   \* where the edge stands
  key, crt,               \* the key and the certificate it holds
  attested,               \* tls_spki
  incoming, incomingCrt,  \* the key and the certificate it imports
  issues, tears,
  writer,                 \* history: who has written a key and no certificate yet
  mixed                   \* history: two writings of the slot got mixed up

slot     == <<account, sealed, cert>>
ceremony == <<mode, prior>>
memory   == <<key, crt, attested, incoming, incomingCrt>>
history  == <<writer, mixed>>
vars == <<orderVars, cfg, slot, ceremony, edge, memory, issues, tears, history>>

CeremonySteps == ProvisionSteps \cup
  {"idle", "load", "readKey", "readCert", "putAccount", "putKey", "putCert"}
EdgeSteps ==
  {"down", "probe", "fetchCert", "fetchKey", "sync", "import", "persistKey", "persistCert",
   "reloadKey", "reloadCert", "listen", "spki", "accept", "serve"}

TypeOK ==
  /\ OrderTypeOK
  /\ cfg \in Configs
  /\ account \in {Absent, Torn, "stored"} /\ sealed \in File /\ cert \in File
  /\ pc \in CeremonySteps /\ mode \in {"none", "issue", "renew"}
  /\ prior \in MaybeKey
  /\ edge \in EdgeSteps
  /\ key \in MaybeKey /\ crt \in MaybeKey \cup {Torn}
  /\ {attested, incoming, incomingCrt} \subseteq MaybeKey
  /\ issues \in 0 .. MaxIssues /\ tears \in 0 .. MaxTears
  /\ writer \in {"none", "ceremony", "edge"} /\ mixed \in BOOLEAN

Init ==
  /\ OrderInit
  /\ cfg \in Configs
  /\ account = Absent /\ sealed = Absent /\ cert = Absent
  /\ pc = "idle" /\ mode = "none" /\ prior = NoKey
  /\ edge = "down" /\ key = NoKey /\ crt = NoKey /\ attested = NoKey
  /\ incoming = NoKey /\ incomingCrt = NoKey
  /\ issues = 0 /\ tears = 0
  /\ writer = "none" /\ mixed = FALSE

-----------------------------------------------------------------------------
(***************************************************************************)
(* The helper                                                              *)
(***************************************************************************)

\* What a PUT leaves in a file, and whether the answer arrives.
Put(old, new) ==
  { [file |-> new, ok |-> TRUE], [file |-> new, ok |-> FALSE], [file |-> old, ok |-> FALSE] }
  \cup IF tears < MaxTears THEN {[file |-> Torn, ok |-> FALSE]} ELSE {}

Tears(old, put) == tears' = IF put.file = Torn /\ old # Torn THEN tears + 1 ELSE tears

\* A key was written by one process, while another may be halfway.
KeyWritten(who, put) ==
  \/ put.ok /\ writer' = who /\ UNCHANGED mixed
  \/ ~put.ok /\ sealed' = sealed /\ UNCHANGED history
  \/ ~put.ok /\ sealed' # sealed /\ writer' = "none" /\ mixed' = TRUE

\* The certificate that completes the pair of the last key, or of another one;
\* what was to be written may not have been a pair.
CertWritten(who, put, pair) ==
  /\ writer' = IF writer = who THEN "none" ELSE writer
  /\ mixed' = ~(put.ok /\ writer = who /\ pair)

\* A process ends with its pair half written.
Halfway(who) ==
  /\ writer' = IF writer = who THEN "none" ELSE writer
  /\ mixed' = (mixed \/ writer = who)

-----------------------------------------------------------------------------
(***************************************************************************)
(* run_acme_ceremony                                                       *)
(***************************************************************************)

edgeVars == <<edge, memory>>

\* The policy allows a renewal everywhere and an issue except under seal_sync.
StartCeremony(m) ==
  /\ pc = "idle"
  /\ m = "issue" => cfg.policy # "seal_sync" /\ issues < MaxIssues
  /\ mode' = m
  /\ issues' = IF m = "issue" THEN issues + 1 ELSE issues
  /\ pc' = "load"
  /\ UNCHANGED <<authority, tokens, client, cfg, slot, prior, edgeVars, tears, history>>

\* The stored account is used if there is one; a torn one does not parse.
LoadAccount ==
  /\ pc = "load"
  /\ account # Torn
  /\ stored' = (account = "stored")
  /\ pc' = IF mode = "renew" THEN "readKey" ELSE "account"
  /\ UNCHANGED <<authority, tokens, at, open, seen, tries, existing, leaf, chain, cfg, slot,
                 ceremony, edgeVars, issues, tears, history>>

\* A renewal unseals the key it will certify again ...
ReadKey ==
  /\ pc = "readKey"
  /\ sealed \in Keys
  /\ existing' = sealed
  /\ pc' = "readCert"
  /\ UNCHANGED <<authority, tokens, at, open, seen, tries, stored, leaf, chain, cfg, slot, ceremony,
                 edgeVars, issues, tears, history>>

\* ... and remembers the SPKI of its certificate.
ReadCert ==
  /\ pc = "readCert"
  /\ cert \in Keys
  /\ prior' = cert
  /\ Goto("account")
  /\ UNCHANGED <<authority, tokens, cfg, slot, mode, edgeVars, issues, tears, history>>

\* provision_http01; a new key is none that is around.
Order ==
  /\ Provision(Keys \ {sealed, cert, key, crt})
  /\ IF pc' = "idle" THEN mode' = "none" /\ prior' = NoKey ELSE UNCHANGED ceremony
  /\ UNCHANGED <<cfg, slot, edgeVars, issues, tears, history>>

\* Mutant: the new certificate is taken as it comes.
AcceptAnySpki ==
  /\ pc = "provisioned"
  /\ Goto("putAccount")
  /\ UNCHANGED <<authority, tokens, cfg, slot, ceremony, edgeVars, issues, tears, history>>

\* A renewal that would change the SPKI ends here.
CheckSpki ==
  /\ pc = "provisioned"
  /\ prior # NoKey => chain = prior
  /\ Goto("putAccount")
  /\ UNCHANGED <<authority, tokens, cfg, slot, ceremony, edgeVars, issues, tears, history>>

\* The end of the ceremony.
Leave == Stop /\ mode' = "none" /\ prior' = NoKey

PutAccount ==
  /\ pc = "putAccount"
  /\ \E put \in Put(account, "stored") :
       /\ account' = put.file
       /\ Tears(account, put)
       /\ IF put.ok THEN Goto("putKey") /\ UNCHANGED ceremony ELSE Leave
  /\ UNCHANGED <<authority, tokens, cfg, sealed, cert, edgeVars, issues, history>>

\* Mutant: a sealed key that is there is kept.
PutKeyIfAbsent ==
  /\ pc = "putKey"
  /\ sealed' = IF sealed = Absent THEN leaf ELSE sealed
  /\ writer' = "ceremony"
  /\ Goto("putCert")
  /\ UNCHANGED <<authority, tokens, cfg, account, cert, ceremony, edgeVars, issues, tears, mixed>>

PutKey ==
  /\ pc = "putKey"
  /\ \E put \in Put(sealed, leaf) :
       /\ sealed' = put.file
       /\ Tears(sealed, put)
       /\ KeyWritten("ceremony", put)
       /\ IF put.ok THEN Goto("putCert") /\ UNCHANGED ceremony ELSE Leave
  /\ UNCHANGED <<authority, tokens, cfg, account, cert, edgeVars, issues>>

PutCert ==
  /\ pc = "putCert"
  /\ \E put \in Put(cert, chain) :
       /\ cert' = put.file
       /\ Tears(cert, put)
       /\ CertWritten("ceremony", put, TRUE)
  /\ Leave
  /\ UNCHANGED <<authority, tokens, cfg, account, sealed, edgeVars, issues>>

\* A file is missing, torn or out of reach, a check fails, the process dies.
CeremonyEnds ==
  /\ pc \in {"load", "readKey", "readCert", "provisioned", "putAccount", "putKey", "putCert"}
  /\ Leave
  /\ Halfway("ceremony")
  /\ UNCHANGED <<authority, tokens, cfg, slot, edgeVars, issues, tears>>

Ceremony ==
  \/ \E m \in {"issue", "renew"} : StartCeremony(m)
  \/ LoadAccount \/ ReadKey \/ ReadCert \/ Order \/ CheckSpki
  \/ PutAccount \/ PutKey \/ PutCert \/ CeremonyEnds

-----------------------------------------------------------------------------
(***************************************************************************)
(* run() of the edge                                                       *)
(***************************************************************************)

rest == <<orderVars, cfg, ceremony, issues>>

Step(to) == edge' = to /\ UNCHANGED <<rest, slot, memory, tears, history>>

Boot == edge = "down" /\ Step("probe")

\* has_sealed_key takes every failure for a missing key.
SyncEnabled == cfg.peer \/ cfg.listen

ProbeKey ==
  /\ edge = "probe"
  /\ \/ sealed # Absent /\ Step("fetchCert")
     \/ SyncEnabled /\ Step("sync")
     \/ ~SyncEnabled /\ (cfg.prod => cfg.policy = "seal_sync") /\ Step("spki")

FetchCert ==
  /\ edge = "fetchCert" /\ cert # Absent
  /\ edge' = "fetchKey" /\ crt' = cert
  /\ UNCHANGED <<rest, slot, key, attested, incoming, incomingCrt, tears, history>>

FetchKey ==
  /\ edge = "fetchKey" /\ sealed \in Keys
  /\ edge' = IF SyncEnabled THEN "sync" ELSE "spki"
  /\ key' = sealed
  /\ UNCHANGED <<rest, slot, crt, attested, incoming, incomingCrt, tears, history>>

\* maybe_start_seal_sync: what the policy forbids, then the local identity.
StartSync ==
  /\ edge = "sync"
  /\ cfg.policy = "key_ceremony" => ~cfg.peer
  /\ cfg.policy = "seal_sync" => key # NoKey \/ cfg.peer
  /\ crt # Torn
  /\ Step(IF cfg.peer THEN "import" ELSE "listen")

\* The peer's pair is the one announced, or it is migrated.  The peer exports the
\* key it was started with and the certificate its slot has now: after a ceremony
\* and no restart, that is the certificate of another key.
Import(k, c) ==
  /\ edge = "import"
  /\ edge' = IF k = crt THEN "reloadKey" ELSE "persistKey"
  /\ incoming' = k /\ incomingCrt' = c
  /\ UNCHANGED <<rest, slot, key, crt, attested, tears, history>>

\* The process ends; it is started again later.
Exit ==
  /\ edge' = "down"
  /\ key' = NoKey /\ crt' = NoKey /\ attested' = NoKey
  /\ incoming' = NoKey /\ incomingCrt' = NoKey

PersistKey ==
  /\ edge = "persistKey"
  /\ \E put \in Put(sealed, incoming) :
       /\ sealed' = put.file
       /\ Tears(sealed, put)
       /\ KeyWritten("edge", put)
       /\ IF put.ok THEN edge' = "persistCert" /\ UNCHANGED memory ELSE Exit
  /\ UNCHANGED <<rest, account, cert>>

PersistCert ==
  /\ edge = "persistCert"
  /\ \E put \in Put(cert, incomingCrt) :
       /\ cert' = put.file
       /\ Tears(cert, put)
       /\ CertWritten("edge", put, incomingCrt = incoming)
       /\ IF put.ok THEN edge' = "reloadKey" /\ UNCHANGED memory ELSE Exit
  /\ UNCHANGED <<rest, account, sealed>>

ReloadKey ==
  /\ edge = "reloadKey" /\ sealed \in Keys
  /\ edge' = "reloadCert" /\ key' = sealed /\ incoming' = NoKey /\ incomingCrt' = NoKey
  /\ UNCHANGED <<rest, slot, crt, attested, tears, history>>

ReloadCert ==
  /\ edge = "reloadCert" /\ cert \in Keys
  /\ edge' = "listen" /\ crt' = cert
  /\ UNCHANGED <<rest, slot, key, attested, incoming, incomingCrt, tears, history>>

\* The seal-sync admin is started with the pair in memory, if there is one.
Listen == edge = "listen" /\ Step("spki")

\* The attestation takes the SPKI of the certificate in memory.
RecordSpki ==
  /\ edge = "spki" /\ crt # Torn
  /\ edge' = "accept" /\ attested' = crt
  /\ UNCHANGED <<rest, slot, key, crt, incoming, incomingCrt, tears, history>>

\* Mutant: an edge without a certificate serves plain TCP in every profile.
AcceptPlain ==
  /\ edge = "accept"
  /\ Step("serve")

\* The acceptor is built from the pair in memory.  An edge without one serves
\* plain TCP, except in prod.  rustls may refuse a key that is not the
\* certificate's (Die), or not find out.
Accept ==
  /\ edge = "accept"
  /\ cfg.prod => key # NoKey /\ crt # NoKey
  /\ Step("serve")

\* An error at any step, or a crash.
Die ==
  /\ edge # "down"
  /\ Exit
  /\ Halfway("edge")
  /\ UNCHANGED <<rest, slot, tears>>

Edge ==
  \/ Boot \/ ProbeKey \/ FetchCert \/ FetchKey \/ StartSync \/ (\E k, c \in Keys : Import(k, c))
  \/ PersistKey \/ PersistCert \/ ReloadKey \/ ReloadCert \/ Listen \/ RecordSpki
  \/ Accept \/ Die

-----------------------------------------------------------------------------

Other == <<cfg, slot, ceremony, edgeVars, issues, tears, history>>

Next == Ceremony \/ Edge \/ (Authority /\ UNCHANGED Other)

Spec == Init /\ [][Next]_vars

-----------------------------------------------------------------------------
\* A renewal changes neither the key nor the SPKI of a slot that only the
\* ceremony writes, whatever an interrupted ceremony has left in it.
RenewKeepsSpki ==
  [][mode = "renew" /\ pc \in {"putKey", "putCert"} /\ ~cfg.peer
       => sealed' \in {sealed, Torn} /\ cert' \in {cert, Torn}]_vars

\* A key next to the certificate of another key has a writing that stopped
\* halfway behind it, two that overlapped, or a peer that exported the two: no
\* ceremony and no import of a pair that runs to its end leaves such a slot, and
\* the next one that does repairs it.
MixedOnlyIfInterrupted ==
  {sealed, cert} \subseteq Keys /\ sealed # cert => writer # "none" \/ mixed

\* In prod an edge serves TLS or not at all, also when the helper failed while
\* it looked for its key, and it attests the certificate it serves.
ProdServesAttested ==
  edge = "serve" /\ cfg.prod => key \in Keys /\ crt \in Keys /\ attested = crt
=============================================================================
