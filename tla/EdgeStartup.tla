---------------------------- MODULE EdgeStartup -----------------------------
(***************************************************************************)
(* How an edge comes up with its TLS key: bins/openapi/src/main.rs and     *)
(* crates/openapi-platform-cvm/src/seal_sync.rs.                           *)
(*                                                                         *)
(* Two files hold the key material: the sealed private key and the         *)
(* certificate.  An edge without a sealed key imports both from its peer   *)
(* before it does anything else (cold start).  An edge that has one runs   *)
(* the import again to realign with its peer: in the background if it only *)
(* imports, in line if it also exports.  main() records the SPKI that the  *)
(* attestation will vouch for, and later builds the TLS acceptor from the  *)
(* files, read again.  Files are written in place, key first, so the       *)
(* process may die between any two of the writes.                          *)
(*                                                                         *)
(* A key pair stands for a private key, its certificate and their SPKI.    *)
(* The seal-sync protocol is a library: its outcome, aligned or migrated,  *)
(* is modelled from how seal_sync.rs uses it.                              *)
(***************************************************************************)
EXTENDS Naturals, FiniteSets

CONSTANTS
  Pairs,         \* key pairs
  Configs,       \* seal-sync settings: [peer : BOOLEAN, listen : BOOLEAN]
  Disks,         \* what an edge may find on its disk at first:
                 \*   [sealed : File, cert : File]
  Absent, Torn,  \* no such file, and one whose writing was interrupted
  NoPair,        \* no key pair
  MaxCrashes,    \* bound on the crashes of the process
  MaxRotations   \* bound on the changes of the peer's key

File == Pairs \cup {Absent, Torn}

ASSUME EdgeStartupAssumption ==
  /\ Absent \notin Pairs /\ Torn \notin Pairs /\ NoPair \notin File
  /\ Configs \subseteq [peer : BOOLEAN, listen : BOOLEAN]
  /\ Disks \subseteq [sealed : File, cert : File]
  /\ MaxCrashes \in Nat /\ MaxRotations \in Nat

VARIABLES
  cfg,        \* the settings of this edge
  sealed,     \* the sealed key file
  cert,       \* the certificate file
  active,     \* the pair the peer serves
  main,       \* where main() stands
  missing,    \* sealed_missing, as read at boot
  attested,   \* tls_spki: the pair the attestation vouches for
  keyRead,    \* the private key build_tls_acceptor has unsealed
  serving,    \* the pair in the TLS acceptor
  importer,   \* where the import stands
  identity,   \* the local SPKI the import announced
  incoming,   \* the pair being persisted
  crashes, rotations

disk    == <<sealed, cert>>
import  == <<importer, identity, incoming>>
process == <<main, missing, attested, keyRead, serving>>
env     == <<cfg, active, crashes, rotations>>
vars    == <<disk, import, process, env>>

\* "cold" and "inline" wait for an import.
Mains == {"down", "boot", "cold", "spki", "warm", "inline", "unseal", "accept", "serve"}
Importers == {"off", "identity", "exchange", "openKey", "writeKey", "openCert", "writeCert"}

MaybePair == Pairs \cup {NoPair}

TypeOK ==
  /\ cfg \in Configs
  /\ sealed \in File /\ cert \in File
  /\ active \in Pairs
  /\ main \in Mains
  /\ missing \in BOOLEAN
  /\ attested \in MaybePair /\ keyRead \in MaybePair /\ serving \in MaybePair
  /\ identity \in MaybePair /\ incoming \in MaybePair
  /\ importer \in Importers
  /\ crashes \in 0 .. MaxCrashes /\ rotations \in 0 .. MaxRotations

Init ==
  /\ cfg \in Configs
  /\ \E d \in Disks : sealed = d.sealed /\ cert = d.cert
  /\ active \in Pairs
  /\ main = "down" /\ missing = FALSE
  /\ attested = NoPair /\ keyRead = NoPair /\ serving = NoPair
  /\ importer = "off" /\ identity = NoPair /\ incoming = NoPair
  /\ crashes = 0 /\ rotations = 0

-----------------------------------------------------------------------------
(***************************************************************************)
(* main()                                                                  *)
(***************************************************************************)

\* The process exits; the threads it started end with it.
Exit ==
  /\ main' = "down" /\ missing' = FALSE
  /\ attested' = NoPair /\ keyRead' = NoPair /\ serving' = NoPair
  /\ importer' = "off" /\ identity' = NoPair /\ incoming' = NoPair
  /\ UNCHANGED disk

\* The supervisor starts the process again.
Start ==
  /\ main = "down"
  /\ main' = "boot"
  /\ UNCHANGED <<disk, import, missing, attested, keyRead, serving, env>>

\* sealed_missing is read; an edge without a key imports one first.
Boot ==
  /\ main = "boot"
  /\ missing' = (sealed = Absent)
  /\ IF sealed = Absent /\ cfg.peer
     THEN main' = "cold" /\ importer' = "identity"
     ELSE main' = "spki" /\ UNCHANGED importer
  /\ UNCHANGED <<disk, identity, incoming, attested, keyRead, serving, env>>

\* rustls refuses a key that is not the certificate's.
Loads(key) == key \in Pairs /\ cert = key

\* tls_spki_hex: the files are loaded and the SPKI recorded.
RecordSpki ==
  /\ main = "spki"
  /\ IF Loads(sealed)
     THEN /\ attested' = cert
          /\ main' = "warm"
          /\ UNCHANGED <<disk, import, missing, keyRead, serving>>
     ELSE Exit
  /\ UNCHANGED env

\* Mutant: a cold import is followed by another one.
WarmAlways ==
  /\ main = "warm"
  /\ main' = IF cfg.peer /\ cfg.listen THEN "inline" ELSE "unseal"
  /\ importer' = IF cfg.peer THEN "identity" ELSE importer
  /\ UNCHANGED <<disk, identity, incoming, missing, attested, keyRead, serving, env>>

\* The seal-sync of a warm start: in line if the edge also listens, else in
\* the background.  After a cold import only a listener runs it again.
Warm ==
  LET syncs == cfg.peer /\ (missing => cfg.listen)
  IN  /\ main = "warm"
      /\ main' = IF syncs /\ cfg.listen THEN "inline" ELSE "unseal"
      /\ importer' = IF syncs THEN "identity" ELSE importer
      /\ UNCHANGED <<disk, identity, incoming, missing, attested, keyRead, serving, env>>

\* build_tls_acceptor unseals the key ...
UnsealKey ==
  /\ main = "unseal"
  /\ IF sealed \in Pairs
     THEN /\ keyRead' = sealed
          /\ main' = "accept"
          /\ UNCHANGED <<disk, import, missing, attested, serving>>
     ELSE Exit
  /\ UNCHANGED env

\* ... and reads the certificate.
BuildAcceptor ==
  /\ main = "accept"
  /\ IF Loads(keyRead)
     THEN /\ serving' = cert
          /\ main' = "serve"
          /\ UNCHANGED <<disk, import, missing, attested, keyRead>>
     ELSE Exit
  /\ UNCHANGED env

-----------------------------------------------------------------------------
(***************************************************************************)
(* maybe_start_seal_sync, run_seal_sync_client and seal_and_persist.       *)
(***************************************************************************)

InBackground == main \notin {"cold", "inline"}

\* The import ends without an error, and the one who waits for it goes on.
ImportReturns ==
  /\ importer' = "off" /\ identity' = NoPair /\ incoming' = NoPair
  /\ main' = IF InBackground THEN main
             ELSE IF main = "inline" THEN "unseal"
             ELSE IF sealed' = Absent THEN "down" ELSE "spki"
  /\ UNCHANGED <<missing, attested, keyRead, serving>>

\* Any step may fail.  Only the background thread survives that.
ImportFails ==
  /\ importer # "off"
  /\ IF InBackground
     THEN /\ importer' = "off" /\ identity' = NoPair /\ incoming' = NoPair
          /\ UNCHANGED <<disk, process>>
     ELSE Exit
  /\ UNCHANGED env

\* The local identity comes from the certificate; without one a placeholder
\* that equals no SPKI is announced.  A torn certificate is an error.
ReadIdentity ==
  /\ importer = "identity"
  /\ cert # Torn
  /\ identity' = IF cert = Absent THEN NoPair ELSE cert
  /\ importer' = "exchange"
  /\ UNCHANGED <<disk, incoming, process, env>>

\* The peer serves the announced SPKI: nothing is sent.
AlreadyAligned ==
  /\ importer = "exchange"
  /\ identity = active
  /\ UNCHANGED disk
  /\ ImportReturns
  /\ UNCHANGED env

\* The peer exports its key and certificate.
Migrate ==
  /\ importer = "exchange"
  /\ identity # active
  /\ incoming' = active
  /\ importer' = "openKey"
  /\ UNCHANGED <<disk, identity, process, env>>

\* Mutant: the certificate is persisted before the key.
PersistCertFirst ==
  \/ /\ importer = "openKey" /\ importer' = "writeKey"
     /\ cert' = Torn /\ UNCHANGED <<sealed, identity, incoming, process>>
  \/ /\ importer = "writeKey" /\ importer' = "openCert"
     /\ cert' = incoming /\ UNCHANGED <<sealed, identity, incoming, process>>
  \/ /\ importer = "openCert" /\ importer' = "writeCert"
     /\ sealed' = Torn /\ UNCHANGED <<cert, identity, incoming, process>>
  \/ /\ importer = "writeCert"
     /\ sealed' = incoming /\ UNCHANGED cert
     /\ ImportReturns

\* seal_and_persist: each file is truncated, then written; the key first.
Persist ==
  \/ /\ importer = "openKey" /\ importer' = "writeKey"
     /\ sealed' = Torn /\ UNCHANGED <<cert, identity, incoming, process>>
  \/ /\ importer = "writeKey" /\ importer' = "openCert"
     /\ sealed' = incoming /\ UNCHANGED <<cert, identity, incoming, process>>
  \/ /\ importer = "openCert" /\ importer' = "writeCert"
     /\ cert' = Torn /\ UNCHANGED <<sealed, identity, incoming, process>>
  \/ /\ importer = "writeCert"
     /\ cert' = incoming /\ UNCHANGED sealed
     /\ ImportReturns

Import == ReadIdentity \/ AlreadyAligned \/ Migrate \/ (Persist /\ UNCHANGED env)

-----------------------------------------------------------------------------
(***************************************************************************)
(* The environment.                                                        *)
(***************************************************************************)

\* The process is killed.
Crash ==
  /\ main # "down"
  /\ crashes < MaxCrashes
  /\ crashes' = crashes + 1
  /\ Exit
  /\ UNCHANGED <<cfg, active, rotations>>

\* The peer gets another key.
Rotate ==
  /\ rotations < MaxRotations
  /\ rotations' = rotations + 1
  /\ active' \in Pairs \ {active}
  /\ UNCHANGED <<disk, import, process, cfg, crashes>>

MainThread == Start \/ Boot \/ RecordSpki \/ Warm \/ UnsealKey \/ BuildAcceptor

Next == MainThread \/ Import \/ ImportFails \/ Crash \/ Rotate

Spec == Init /\ [][Next]_vars

\* The process is restarted and scheduled; an import that is tried again and
\* again gets past each of its steps.
Fairness ==
  /\ WF_vars(MainThread)
  /\ SF_vars(ReadIdentity)
  /\ SF_vars(AlreadyAligned)
  /\ SF_vars(Migrate)
  /\ \A f \in Importers : SF_vars(importer = f /\ Persist /\ UNCHANGED env)

FairSpec == Spec /\ Fairness

-----------------------------------------------------------------------------
(***************************************************************************)
(* Properties.                                                             *)
(***************************************************************************)

\* The attestation vouches for the certificate that the acceptor serves
\* (attestation-challenge.md, server duty 2).
AttestedIsServed == main = "serve" => attested = serving

\* An edge that only imports and came up from a cold import attests what it
\* serves, however often it was killed on the way and whatever its peer did:
\* only a second import of the same boot may come between SPKI and acceptor.
ColdBootAttestsServed ==
  main = "serve" /\ missing /\ ~cfg.listen => attested = serving

\* What a persist that was cut short leaves behind, and nothing repairs: the
\* key file exists, so the edge does not import again, but the files do not
\* load.
DiskBroken == sealed # Absent /\ ~Loads(sealed)

\* An edge comes to serve and goes on serving, unless a persist was cut short.
\* In particular a cold start that is interrupted before the key file is
\* touched is taken up again by the next boot.
ServesUnlessBroken == <>[](main = "serve") \/ <>[]DiskBroken
=============================================================================
