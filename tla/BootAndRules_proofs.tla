------------------------ MODULE BootAndRules_proofs -------------------------
(***************************************************************************)
(* Proofs about how an edge comes up (EdgeStartup), and about the rules    *)
(* that are functions of their input (MCRules), at boot and later.         *)
(*                                                                         *)
(* EdgeStartup: for any set of key pairs, settings and disks, any number   *)
(* of crashes and any number of rotations of the peer.  That a cold boot   *)
(* attests what it serves is not inductive: the SPKI is recorded at one    *)
(* step and the files are read again at two later ones.  The invariant     *)
(* says why nothing can come in between: main() goes past each of its      *)
(* first steps with no import under way (PhaseInv), and from the recorded  *)
(* SPKI to the acceptor of such a boot no import starts again, so that the *)
(* certificate stays what it was (ColdInv).                                *)
(*                                                                         *)
(* The rules: TLC looks at bounded sets of inputs; the theorems state the  *)
(* same properties of every input of the kind, with a hypothesis that says *)
(* what an input is.  Where a rule walks over a sequence, the induction is *)
(* over the least number of steps at which it would go wrong (LeastNat).   *)
(* A reply in chunks is put together from the last chunk on (InChunks),    *)
(* and what is copied of it follows chunk by chunk, wherever it is cut.    *)
(***************************************************************************)
EXTENDS EdgeStartup, MCRules, FiniteSetTheorems, SequenceTheorems, TLAPS

WF == INSTANCE WellFoundedInduction

-----------------------------------------------------------------------------
(***************************************************************************)
(* EdgeStartup                                                             *)
(***************************************************************************)

\* No import is under way when main() starts, boots, and records the SPKI; one
\* that main() waits for in line belongs to an edge that exports too.
PhaseInv ==
  /\ main \in {"down", "boot", "spki", "warm"} => importer = "off"
  /\ main = "inline" => cfg.listen

\* After a cold import the files are left alone, and the SPKI is theirs.
ColdInv ==
  missing /\ ~cfg.listen /\ main \in {"warm", "unseal", "accept", "serve"} =>
    importer = "off" /\ attested = cert

\* What is being persisted is a pair that the peer exported.
IncomingInv ==
  importer \in {"openKey", "writeKey", "openCert", "writeCert"} => incoming \in Pairs

IInv == TypeOK /\ PhaseInv /\ IncomingInv /\ ColdInv /\ ColdBootAttestsServed

-----------------------------------------------------------------------------

LEMMA InitIInv == Init => IInv
<1> SUFFICES ASSUME Init PROVE IInv
  OBVIOUS
<1>1. PICK d \in Disks : sealed = d.sealed /\ cert = d.cert
  BY DEF Init
<1>2. sealed \in File /\ cert \in File
  BY <1>1, EdgeStartupAssumption
<1>3. crashes \in 0 .. MaxCrashes /\ rotations \in 0 .. MaxRotations
  <2>1. MaxCrashes \in Nat /\ MaxRotations \in Nat
    BY EdgeStartupAssumption
  <2> QED BY <2>1 DEF Init
<1>4. cfg \in Configs /\ active \in Pairs /\ main \in Mains /\ missing \in BOOLEAN
  BY DEF Init, Mains
<1>5. /\ attested \in MaybePair /\ keyRead \in MaybePair /\ serving \in MaybePair
      /\ identity \in MaybePair /\ incoming \in MaybePair /\ importer \in Importers
  BY DEF Init, MaybePair, Importers
<1>6. TypeOK
  BY <1>2, <1>3, <1>4, <1>5 DEF TypeOK
<1>7. PhaseInv /\ IncomingInv /\ ColdInv /\ ColdBootAttestsServed
  BY DEF Init, PhaseInv, IncomingInv, ColdInv, ColdBootAttestsServed
<1> QED BY <1>6, <1>7 DEF IInv

\* What every step but one of the environment leaves alone.
LEMMA EnvTypes == ASSUME TypeOK, UNCHANGED env
                  PROVE  /\ cfg' \in Configs /\ cfg' = cfg
                         /\ active' \in Pairs
                         /\ crashes' \in 0 .. MaxCrashes
                         /\ rotations' \in 0 .. MaxRotations
  BY DEF TypeOK, env

\* A process that is down holds nothing that the invariant speaks of.
LEMMA ExitIInv == ASSUME IInv, Exit,
                         cfg' \in Configs, active' \in Pairs,
                         crashes' \in 0 .. MaxCrashes, rotations' \in 0 .. MaxRotations
                  PROVE  IInv'
<1>1. TypeOK'
  BY DEF IInv, TypeOK, Exit, disk, MaybePair, Mains, Importers
<1>2. PhaseInv' /\ IncomingInv' /\ ColdInv' /\ ColdBootAttestsServed'
  BY DEF Exit, PhaseInv, IncomingInv, ColdInv, ColdBootAttestsServed
<1> QED BY <1>1, <1>2 DEF IInv

\* An import that returns sends main() on, and is off when it does.
LEMMA ReturnIInv == ASSUME IInv, importer # "off", ImportReturns, UNCHANGED env,
                           sealed' \in File, cert' \in File
                    PROVE  IInv'
<1>1. TypeOK'
  BY EnvTypes DEF IInv, TypeOK, ImportReturns, MaybePair, Mains, Importers
<1>2. PhaseInv' /\ IncomingInv'
  BY EnvTypes DEF IInv, PhaseInv, IncomingInv, ImportReturns, InBackground
<1>3. ~(missing /\ ~cfg.listen /\ main' \in {"warm", "unseal", "accept", "serve"})
  BY DEF IInv, PhaseInv, ColdInv, ImportReturns, InBackground
<1>4. ColdInv' /\ ColdBootAttestsServed'
  BY <1>3, EnvTypes DEF IInv, ColdInv, ColdBootAttestsServed, ImportReturns
<1> QED BY <1>1, <1>2, <1>4 DEF IInv

\* A step within an import touches the files and the import alone, and then
\* main() waits for it, or the boot was no cold one of an edge that only imports.
LEMMA ImportingIInv == ASSUME IInv, importer # "off", importer' \in Importers,
                              UNCHANGED process, UNCHANGED env,
                              sealed' \in File, cert' \in File,
                              identity' \in MaybePair, incoming' \in MaybePair, IncomingInv'
                       PROVE  IInv'
<1>1. TypeOK'
  BY EnvTypes DEF IInv, TypeOK, process
<1>2. PhaseInv' /\ IncomingInv'
  BY EnvTypes DEF IInv, PhaseInv, IncomingInv, process
<1>3. ColdInv' /\ ColdBootAttestsServed'
  BY EnvTypes DEF IInv, PhaseInv, IncomingInv, ColdInv, ColdBootAttestsServed, process
<1> QED BY <1>1, <1>2, <1>3 DEF IInv

-----------------------------------------------------------------------------

LEMMA NextIInv == IInv /\ [Next]_vars => IInv'
<1> SUFFICES ASSUME IInv, [Next]_vars PROVE IInv'
  OBVIOUS
<1> USE DEF IInv
<1>1. CASE Start
  <2>1. TypeOK'
    BY <1>1, EnvTypes DEF Start, TypeOK, disk, import, Mains
  <2>2. PhaseInv' /\ IncomingInv' /\ ColdInv' /\ ColdBootAttestsServed'
    BY <1>1 DEF Start, PhaseInv, IncomingInv, ColdInv, ColdBootAttestsServed, import
  <2> QED BY <2>1, <2>2
<1>2. CASE Boot
  <2>1. TypeOK'
    BY <1>2, EnvTypes DEF Boot, TypeOK, disk, Mains, Importers
  <2>2. PhaseInv' /\ IncomingInv' /\ ColdInv' /\ ColdBootAttestsServed'
    BY <1>2 DEF Boot, PhaseInv, IncomingInv, ColdInv, ColdBootAttestsServed
  <2> QED BY <2>1, <2>2
<1>3. CASE RecordSpki
  <2>1. CASE Loads(sealed)
    <3>1. TypeOK'
      BY <1>3, <2>1, EnvTypes DEF RecordSpki, TypeOK, disk, import, Mains, Loads, MaybePair
    <3>2. PhaseInv' /\ IncomingInv' /\ ColdInv' /\ ColdBootAttestsServed'
      BY <1>3, <2>1 DEF RecordSpki, PhaseInv, IncomingInv, ColdInv, ColdBootAttestsServed, import, disk
    <3> QED BY <3>1, <3>2
  <2>2. CASE ~Loads(sealed)
    BY <1>3, <2>2, EnvTypes, ExitIInv DEF RecordSpki
  <2> QED BY <2>1, <2>2
<1>4. CASE Warm
  <2>1. TypeOK'
    BY <1>4, EnvTypes DEF Warm, TypeOK, disk, Mains, Importers
  <2>2. PhaseInv' /\ IncomingInv' /\ ColdInv' /\ ColdBootAttestsServed'
    BY <1>4, EnvTypes DEF Warm, PhaseInv, IncomingInv, ColdInv, ColdBootAttestsServed, disk
  <2> QED BY <2>1, <2>2
<1>5. CASE UnsealKey
  <2>1. CASE sealed \in Pairs
    <3>1. TypeOK'
      BY <1>5, <2>1, EnvTypes DEF UnsealKey, TypeOK, disk, import, Mains, MaybePair
    <3>2. PhaseInv' /\ IncomingInv' /\ ColdInv' /\ ColdBootAttestsServed'
      BY <1>5, <2>1, EnvTypes
         DEF UnsealKey, PhaseInv, IncomingInv, ColdInv, ColdBootAttestsServed, import, disk
    <3> QED BY <3>1, <3>2
  <2>2. CASE sealed \notin Pairs
    BY <1>5, <2>2, EnvTypes, ExitIInv DEF UnsealKey
  <2> QED BY <2>1, <2>2
<1>6. CASE BuildAcceptor
  <2>1. CASE Loads(keyRead)
    <3>1. TypeOK'
      BY <1>6, <2>1, EnvTypes DEF BuildAcceptor, TypeOK, disk, import, Mains, Loads, MaybePair
    <3>2. PhaseInv' /\ IncomingInv' /\ ColdInv' /\ ColdBootAttestsServed'
      BY <1>6, <2>1, EnvTypes
         DEF BuildAcceptor, PhaseInv, IncomingInv, ColdInv, ColdBootAttestsServed, import, disk
    <3> QED BY <3>1, <3>2
  <2>2. CASE ~Loads(keyRead)
    BY <1>6, <2>2, EnvTypes, ExitIInv DEF BuildAcceptor
  <2> QED BY <2>1, <2>2
<1>7. CASE ReadIdentity
  <2>1. identity' \in MaybePair
    BY <1>7 DEF ReadIdentity, TypeOK, File, MaybePair
  <2> QED BY <1>7, <2>1, ImportingIInv DEF ReadIdentity, IncomingInv, TypeOK, disk, Importers
<1>8. CASE AlreadyAligned
  BY <1>8, ReturnIInv DEF AlreadyAligned, TypeOK, disk
<1>9. CASE Migrate
  BY <1>9, ImportingIInv DEF Migrate, IncomingInv, TypeOK, disk, Importers, MaybePair
<1>10. CASE Persist /\ UNCHANGED env
  <2>1. importer \in {"openKey", "writeKey", "openCert", "writeCert"} /\ incoming \in Pairs
    BY <1>10 DEF Persist, IncomingInv
  <2>2. sealed' \in File /\ cert' \in File
    BY <1>10, <2>1 DEF Persist, TypeOK, File
  <2>3. CASE importer # "writeCert"
    <3>1. /\ importer' \in Importers /\ UNCHANGED process
          /\ identity' = identity /\ incoming' = incoming
      BY <1>10, <2>3 DEF Persist, Importers
    <3> QED BY <1>10, <2>1, <2>2, <3>1, ImportingIInv DEF TypeOK, IncomingInv
  <2>4. CASE importer = "writeCert"
    BY <1>10, <2>2, <2>4, ReturnIInv DEF Persist
  <2> QED BY <2>3, <2>4
<1>11. CASE ImportFails
  <2>1. CASE InBackground
    BY <1>11, <2>1, ImportingIInv DEF ImportFails, IncomingInv, TypeOK, disk, Importers, MaybePair
  <2>2. CASE ~InBackground
    BY <1>11, <2>2, EnvTypes, ExitIInv DEF ImportFails
  <2> QED BY <2>1, <2>2
<1>12. CASE Crash
  BY <1>12, ExitIInv, EdgeStartupAssumption DEF Crash, TypeOK
<1>13. CASE Rotate
  <2>1. TypeOK'
    BY <1>13, EdgeStartupAssumption DEF Rotate, TypeOK, disk, import, process
  <2>2. PhaseInv' /\ IncomingInv' /\ ColdInv' /\ ColdBootAttestsServed'
    BY <1>13 DEF Rotate, PhaseInv, IncomingInv, ColdInv, ColdBootAttestsServed, disk, import, process
  <2> QED BY <2>1, <2>2
<1>14. CASE UNCHANGED vars
  <2>1. TypeOK'
    BY <1>14 DEF vars, TypeOK, disk, import, process, env
  <2>2. PhaseInv' /\ IncomingInv' /\ ColdInv' /\ ColdBootAttestsServed'
    BY <1>14 DEF vars, PhaseInv, IncomingInv, ColdInv, ColdBootAttestsServed, disk, import, process, env
  <2> QED BY <2>1, <2>2
<1> QED
  BY <1>1, <1>2, <1>3, <1>4, <1>5, <1>6, <1>7, <1>8, <1>9, <1>10, <1>11, <1>12, <1>13, <1>14
     DEF Next, MainThread, Import

-----------------------------------------------------------------------------

LEMMA Invariance == Spec => []IInv
  BY InitIInv, NextIInv, PTL DEF Spec

\* The state of the edge keeps its type: what is persisted, attested and served
\* is a key pair or none, through crashes at every step of an import.
THEOREM TypeCorrect == Spec => []TypeOK
  BY Invariance, PTL DEF IInv

\* An edge that only imports, and came up from a cold import, attests the pair
\* that it serves: main() records the SPKI and reads the files again later, and
\* nothing changes them in between (sealed_missing and maybe_start_seal_sync).
THEOREM ColdBootIsAttested == Spec => []ColdBootAttestsServed
  BY Invariance, PTL DEF IInv

-----------------------------------------------------------------------------
(***************************************************************************)
(* Boot: what an edge makes of its environment                             *)
(***************************************************************************)

\* What the fields of an environment may be.
Environment(e) == \A v \in DOMAIN Values : e[v] \in Values[v]

LEMMA EnvironmentIs ==
  ASSUME NEW e, Environment(e)
  PROVE  /\ e.platform \in {"cvm", "sgx"}
         /\ e.profile \in {"unset", "dev", "prod", "other"}
         /\ e.digest \in {"unset", "unknown", "match", "other"}
         /\ e.auth \in {"unset", "remote", "catalog", "other"}
         /\ e.proxy \in {"unset", "allowlist", "transparent", "other"}
         /\ e.sealRoot \in {"unset", "ok", "bad"}
         /\ e.artifact \in {"absent", "tee", "tool"}
         /\ e.policyEnv \in {"unset", "key_ceremony", "seal_sync", "other"}
         /\ e.policyFile \in {"absent", "key_ceremony", "seal_sync"}
         /\ e.gateway \in {"unset", "http", "https", "https_ip"}
         /\ e.clientTls \in {"ok", "unpaired", "path"}
         /\ e.pins \in {"unset", "bad", "empty", "some"}
  BY DEF Environment, Values

\* A prod CVM that comes up has a key that its own hardware sealed.
LEMMA CvmProd1 ==
  ASSUME NEW e, Environment(e), e.platform = "cvm", Prod(e), Main(e)
  PROVE  /\ CvmTls(e) = "tls"
         /\ \/ e.artifact = "tee"
            \/ e.artifact = "absent" /\ SealedInTee(Machine(e), Imported(e))
<1> DEFINE m == Machine(e)
<1>1. m.platform = "cvm" /\ m.prod /\ m.chip = "chip" /\ m.build = "build"
  BY DEF Machine, Prod
<1>2. /\ CvmTls(e) # "refused" /\ ~e.plainKey
  BY DEF Main, ValidateProfile, ValidateTlsKeyPolicy
<1>3. /\ CvmTls(e) = "tls"
      /\ ColdStart(e) => Imported(e) # Nil
      /\ Unseals(e, IF ColdStart(e) THEN Imported(e) ELSE Artifact(e))
      /\ ColdStart(e) \/ e.artifact # "absent"
  BY <1>2 DEF CvmTls
<1>4. CASE ColdStart(e)
  <2>1. e.artifact = "absent"
    BY <1>4 DEF ColdStart
  <2>2. Imported(e) = SealTlsKey(m, Nil) /\ Imported(e) # Nil
    BY <1>3, <1>4 DEF Imported
  <2>3. Imported(e) = SealAmdSp(m)
    BY <1>1, <2>2 DEF SealTlsKey
  <2>4. SealAmdSp(m).key = AmdSp(m)
    BY DEF SealAmdSp, Blob
  <2> HIDE DEF m
  <2>5. SealedInTee(m, Imported(e))
    BY <1>1, <2>3, <2>4 DEF SealedInTee
  <2> QED BY <1>3, <2>1, <2>5 DEF m
<1>5. CASE ~ColdStart(e)
  <2>1. UnsealTlsKey(m, Artifact(e), SealRoot(m)) /\ e.artifact # "absent"
    BY <1>3, <1>5 DEF Unseals
  <2>2. Artifact(e).amdSp
    BY <1>1, <2>1 DEF UnsealTlsKey, UnsealAmdSp
  <2>3. e.artifact # "tool"
    <3>1. SUFFICES ASSUME e.artifact = "tool" PROVE FALSE
      OBVIOUS
    <3> DEFINE t == [m EXCEPT !.prod = FALSE]
    <3>2. Artifact(e) = HostSealTool(t)
      BY <3>1 DEF Artifact
    <3>3. t.prod = FALSE
      BY DEF Machine
    <3> HIDE DEF t
    <3>4. HostSealTool(t).amdSp = FALSE
      BY <3>3 DEF HostSealTool, Blob
    <3> QED BY <2>2, <3>2, <3>4
  <2> QED BY <1>3, <2>1, <2>3, EnvironmentIs
<1> QED BY <1>4, <1>5

\* So has a prod enclave: what the host tool makes does not open there, since
\* the root of a prod enclave is never the host's.
LEMMA SgxProd1 ==
  ASSUME NEW e, Environment(e), e.platform = "sgx", Prod(e), Run(e)
  PROVE  /\ SgxTls(e) = "tls"
         /\ \/ e.artifact = "tee"
            \/ e.artifact = "absent" /\ SealedInTee(Machine(e), Imported(e))
<1> DEFINE m == Machine(e)
<1>1. /\ m.platform = "sgx" /\ m.prod /\ m.chip = "chip" /\ m.build = "build"
      /\ m.debug = FALSE /\ m.svn = 0 /\ m.root = Nil
  BY DEF Machine, Prod, Run, ValidateTlsKeyPolicy
<1>2. SgxTls(e) # "refused"
  BY DEF Run
<1>3. /\ SgxTls(e) = "tls" /\ e.helper
      /\ e.artifact # "absent" => Unseals(e, Artifact(e))
  BY <1>2 DEF SgxTls
<1>4. CASE e.artifact = "absent"
  <2>1. Imported(e) = SealSgx(m)
    BY <1>1 DEF Imported, SealTlsKey
  <2>2. SealSgx(m).key = Expand(Egetkey(m, "teechat-tls-seal", m.svn), m.build)
    BY DEF SealSgx, Blob
  <2> HIDE DEF m
  <2>3. SealedInTee(m, Imported(e))
    BY <1>1, <2>1, <2>2 DEF SealedInTee
  <2> QED BY <1>3, <1>4, <2>3 DEF m
<1>5. CASE e.artifact = "tool"
  <2> DEFINE t == [m EXCEPT !.prod = FALSE]
  <2>1. Artifact(e) = HostSealTool(t)
    BY <1>5 DEF Artifact
  <2>2. t.prod = FALSE /\ t.root = Nil /\ t.platform = "sgx"
    BY <1>1 DEF Machine
  <2>3. UnsealTlsKey(m, Artifact(e), SealRoot(m))
    BY <1>3, <1>5 DEF Unseals
  <2>4. SealRoot(m) = DeriveProdSealRoot(m)
    BY <1>1 DEF SealRoot
  <2>5. DeriveProdSealRoot(m) # Nil
    BY <1>1, BootPolicyAssumption DEF DeriveProdSealRoot, Egetkey
  <2> HIDE DEF t, m
  <2>6. SealRoot(t) = Nil
    BY <2>2 DEF SealRoot
  <2>7. Artifact(e).version = 1 /\ Artifact(e).key = <<"hkdf", t.digest, Nil>>
    BY <2>1, <2>2, <2>6 DEF HostSealTool, Blob, Hkdf
  <2>8. UnsealSoft(m, Artifact(e), SealRoot(m))
    BY <1>1, <2>3, <2>7 DEF UnsealTlsKey
  <2>9. <<"hkdf", t.digest, Nil>> = <<"hkdf", SealingMeasurement(m), DeriveProdSealRoot(m)>>
    BY <2>4, <2>7, <2>8 DEF UnsealSoft, Hkdf
  <2>10. Nil = DeriveProdSealRoot(m)
    BY <2>9
  <2> QED BY <2>5, <2>10
<1>6. CASE e.artifact = "tee"
  BY <1>3, <1>6
<1> QED BY <1>4, <1>5, <1>6, EnvironmentIs

\* Whatever is set, on either platform: comes up as prod, serves in one way.
\* The run looks at environments that differ in a few variables from a working
\* one; this is about all of them (main, run and what they call).
THEOREM BootIsSafe ==
  ASSUME rule = "boot" => Environment(input.env)
  PROVE  ProdServesOneWay
<1> DEFINE e == input.env
<1> SUFFICES ASSUME rule = "boot", Prod(e), Serves(e)
             PROVE  /\ Effective(e) = [tls |-> "tls", auth |-> "remote", upstream |-> "ope",
                                       proxy |-> "allowlist", bench |-> FALSE]
                    /\ \/ e.artifact = "tee"
                       \/ e.artifact = "absent" /\ SealedInTee(Machine(e), Imported(e))
                    /\ e.gateway \in {"https", "https_ip"} /\ ~e.insecure
                    /\ e.pins = "some" \/ e.evidence \/ e.stage5
                    /\ Cvm(e) => KeyPolicy(e) = e.policyFile /\ e.verity
  BY DEF ProdServesOneWay
<1>0. Environment(e)
  OBVIOUS
<1> HIDE DEF e
<1>1. e.platform \in {"cvm", "sgx"}
  BY <1>0, EnvironmentIs
<1>2. Cvm(e) => Main(e)
  BY DEF Serves
<1>3. ~Cvm(e) => Run(e) /\ e.platform = "sgx"
  BY <1>1 DEF Serves, Cvm
<1>4. /\ Tls(e) = "tls"
      /\ \/ e.artifact = "tee"
         \/ e.artifact = "absent" /\ SealedInTee(Machine(e), Imported(e))
  BY <1>0, <1>2, <1>3, CvmProd1, SgxProd1 DEF Tls, Cvm
<1>5. AuthMode(e) = "remote"
  BY <1>2, <1>3 DEF AuthMode, Run, LoadSgxEdgeEnv, Sgx, Cvm
<1>6. Upstream(e) # "refused" /\ ValidateTlsKeyPolicy(e)
  BY <1>2, <1>3 DEF Main, Run, ValidateProfile
<1>7. Upstream(e) = "ope" /\ GatewayConfig(e) /\ e.gateway # "unset"
  BY <1>6 DEF Upstream
<1>8. /\ e.gateway \in {"https", "https_ip"} /\ ~e.insecure
      /\ e.pins = "some" \/ e.evidence \/ e.stage5
  BY <1>0, <1>7, EnvironmentIs
     DEF GatewayConfig, ValidateForProfile, SgxValidateForProfile, EnginesChecked
<1>9. e.proxy # "transparent" /\ BenchToken(e) = FALSE
  BY <1>6 DEF ValidateTlsKeyPolicy, BenchToken
<1>10. Cvm(e) => KeyPolicy(e) = e.policyFile /\ e.verity
  <2>1. SUFFICES ASSUME Cvm(e) PROVE KeyPolicy(e) = e.policyFile /\ e.verity
    OBVIOUS
  <2>2. /\ e.verity /\ KeyPolicy(e) # "other"
    BY <1>2, <2>1 DEF Main, ValidateProfile, ValidateMeasuredAppPath
  <2>3. PolicyFile(e) = e.policyFile
    BY DEF PolicyFile, Prod
  <2> QED BY <2>1, <2>2, <2>3 DEF KeyPolicy, Sgx, Cvm
<1> QED BY <1>4, <1>5, <1>7, <1>8, <1>9, <1>10 DEF Effective

-----------------------------------------------------------------------------
(***************************************************************************)
(* Sealing                                                                 *)
(***************************************************************************)

\* Machines of any number of chips, builds, digests and TCB levels.
AnyMachine(Chips, Builds, Digests) ==
  [platform : {"cvm", "sgx"}, prod : BOOLEAN, chip : Chips, build : Builds,
   debug : BOOLEAN, svn : Nat, digest : Digests, root : {Nil, HostRoot}]

\* A value that is not given is none that an enclave derives or stores.
NilIsApart(m) == Nil # DeriveProdSealRoot(m) /\ Nil \notin [svn : Nat, debug : BOOLEAN]

\* What is stored is the ciphertext that the machine's own sealer or the host
\* tool made, under a header that may have become any other.
StoredBy(m, blob) ==
  /\ \/ SealTlsKey(m, SealRoot(m)) # Nil /\ blob.key = SealTlsKey(m, SealRoot(m)).key
     \/ HostSealTool(m) # Nil /\ blob.key = HostSealTool(m).key
  /\ blob.sealData \in {Nil} \cup [svn : Nat, debug : BOOLEAN]

\* The three kinds of keys that a ciphertext is made with.
LEMMA StoredKeys ==
  ASSUME NEW Chips, NEW Builds, NEW Digests, NEW m \in AnyMachine(Chips, Builds, Digests),
         NEW blob, StoredBy(m, blob)
  PROVE  \/ blob.key = <<"amdsp", m.chip, m.build>>
         \/ blob.key = <<"aes", <<"egetkey", m.chip, m.build, m.debug, "teechat-tls-seal", m.svn>>,
                         m.build>>
         \/ \E digest : blob.key = <<"hkdf", digest, m.root>>
<1>0. m.platform \in {"cvm", "sgx"} /\ m.prod \in BOOLEAN
  BY DEF AnyMachine
<1>1. CASE HostSealTool(m) # Nil /\ blob.key = HostSealTool(m).key
  <2>1. ~m.prod
    BY <1>1 DEF HostSealTool
  <2>2. blob.key = Hkdf(m.digest, SealRoot(m))
    BY <1>1, <2>1 DEF HostSealTool, Blob
  <2>3. SealRoot(m) = m.root
    BY <2>1 DEF SealRoot
  <2> QED BY <2>2, <2>3 DEF Hkdf
<1>2. CASE SealTlsKey(m, SealRoot(m)) # Nil /\ blob.key = SealTlsKey(m, SealRoot(m)).key
  <2>1. CASE m.platform = "sgx"
    <3>1. blob.key = SealSgx(m).key
      BY <1>2, <2>1 DEF SealTlsKey
    <3> QED BY <3>1 DEF SealSgx, Blob, Expand, Egetkey
  <2>2. CASE m.platform = "cvm" /\ m.prod
    <3>1. blob.key = SealAmdSp(m).key
      BY <1>2, <2>2 DEF SealTlsKey
    <3> QED BY <3>1 DEF SealAmdSp, Blob, AmdSp
  <2>3. CASE m.platform = "cvm" /\ ~m.prod
    <3>1. blob.key = SealSoft(m, SealRoot(m)).key
      BY <1>2, <2>3 DEF SealTlsKey
    <3>2. SealRoot(m) = m.root
      BY <2>3 DEF SealRoot
    <3> QED BY <3>1, <3>2 DEF SealSoft, Blob, Hkdf
  <2> QED BY <1>0, <2>1, <2>2, <2>3
<1> QED BY <1>1, <1>2 DEF StoredBy

\* The opener's part: whose key it was.
LEMMA OpenedIsOwn ==
  ASSUME NEW Chips, NEW Builds, NEW Digests,
         NEW sealer \in AnyMachine(Chips, Builds, Digests),
         NEW opener \in AnyMachine(Chips, Builds, Digests),
         NEW blob, StoredBy(sealer, blob), NilIsApart(opener),
         UnsealTlsKey(opener, blob, SealRoot(opener))
  PROVE  /\ blob.measurement = SealingMeasurement(opener)
         /\ opener.prod => /\ SealedInTee(opener, blob)
                           /\ sealer.chip = opener.chip
                           /\ sealer.build = opener.build
<1>0. /\ opener.platform \in {"cvm", "sgx"} /\ opener.svn \in Nat
      /\ sealer.root \in {Nil, HostRoot}
  BY DEF AnyMachine
<1>1. blob.measurement = SealingMeasurement(opener)
  BY <1>0 DEF UnsealTlsKey, UnsealAmdSp, UnsealSoft, SealingMeasurement
<1>2. ASSUME opener.prod
      PROVE  SealedInTee(opener, blob) /\ sealer.chip = opener.chip /\ sealer.build = opener.build
  <2>1. CASE opener.platform = "cvm"
    <3>1. blob.key = <<"amdsp", opener.chip, opener.build>>
      BY <1>2, <2>1 DEF UnsealTlsKey, UnsealAmdSp, AmdSp
    <3>2. sealer.chip = opener.chip /\ sealer.build = opener.build
      BY <3>1, StoredKeys
    <3> QED BY <2>1, <3>1, <3>2 DEF SealedInTee, AmdSp
  <2>2. CASE opener.platform = "sgx" /\ blob.version = 2
    <3>1. UnsealSgx(opener, blob) /\ blob.measurement = opener.build
      BY <2>2 DEF UnsealTlsKey
    <3> DEFINE svn == blob.sealData.svn
    <3>2. svn \in 0 .. opener.svn
      BY <1>0, <3>1 DEF UnsealSgx, StoredBy
    <3>3. blob.key = Expand(Egetkey(opener, "teechat-tls-seal", svn), opener.build)
      BY <3>1 DEF UnsealSgx
    <3>4. SealedInTee(opener, blob)
      BY <2>2, <3>2, <3>3 DEF SealedInTee
    <3>5. blob.key = <<"aes", <<"egetkey", opener.chip, opener.build, opener.debug,
                                "teechat-tls-seal", svn>>, opener.build>>
      BY <3>3 DEF Expand, Egetkey
    <3> HIDE DEF svn
    <3>6. sealer.chip = opener.chip /\ sealer.build = opener.build
      BY <3>5, StoredKeys
    <3> QED BY <3>4, <3>6
  <2>3. CASE opener.platform = "sgx" /\ blob.version # 2
    <3>1. UnsealSoft(opener, blob, SealRoot(opener))
      BY <2>3 DEF UnsealTlsKey
    <3>2. SealRoot(opener) = DeriveProdSealRoot(opener)
      BY <1>2, <2>3 DEF SealRoot
    <3>3. blob.key = <<"hkdf", SealingMeasurement(opener), DeriveProdSealRoot(opener)>>
      BY <3>1, <3>2 DEF UnsealSoft, Hkdf
    <3>4. DeriveProdSealRoot(opener) # Nil /\ DeriveProdSealRoot(opener) # HostRoot
      BY DEF NilIsApart, DeriveProdSealRoot, HostRoot
    <3> HIDE DEF DeriveProdSealRoot
    <3>5. sealer.root = DeriveProdSealRoot(opener)
      BY <3>3, StoredKeys
    <3> QED BY <1>0, <3>4, <3>5
  <2> QED BY <1>0, <2>1, <2>2, <2>3
<1> QED BY <1>1, <1>2

\* A TCB update does not lock an edge out.
LEMMA OwnIsOpened ==
  ASSUME NEW Chips, NEW Builds, NEW Digests,
         NEW sealer \in AnyMachine(Chips, Builds, Digests),
         NEW opener \in AnyMachine(Chips, Builds, Digests), NilIsApart(opener),
         opener = [sealer EXCEPT !.svn = opener.svn], opener.svn >= sealer.svn,
         NEW blob, blob = SealTlsKey(sealer, SealRoot(sealer)), blob # Nil
  PROVE  UnsealTlsKey(opener, blob, SealRoot(opener))
<1>1. /\ opener.platform = sealer.platform /\ opener.prod = sealer.prod
      /\ opener.chip = sealer.chip /\ opener.build = sealer.build /\ opener.debug = sealer.debug
      /\ opener.digest = sealer.digest /\ opener.root = sealer.root
      /\ sealer.platform \in {"cvm", "sgx"} /\ sealer.svn \in Nat /\ opener.svn \in Nat
      /\ sealer.debug \in BOOLEAN
  BY DEF AnyMachine
<1>2. CASE sealer.platform = "sgx"
  <2>1. blob = SealSgx(sealer)
    BY <1>2 DEF SealTlsKey
  <2>2. /\ blob.version = 2 /\ blob.measurement = sealer.build
        /\ blob.sealData = [svn |-> sealer.svn, debug |-> sealer.debug]
        /\ blob.key = Expand(Egetkey(sealer, "teechat-tls-seal", sealer.svn), sealer.build)
    BY <2>1 DEF SealSgx, Blob
  <2>3. blob.sealData # Nil
    BY <1>1, <2>2 DEF NilIsApart
  <2>4. UnsealSgx(opener, blob)
    BY <1>1, <2>2, <2>3 DEF UnsealSgx, Egetkey
  <2> QED BY <1>1, <1>2, <2>2, <2>4 DEF UnsealTlsKey
<1>3. CASE sealer.platform = "cvm" /\ sealer.prod
  <2>1. blob = SealAmdSp(sealer) /\ LaunchDigestAttested(sealer)
    BY <1>3 DEF SealTlsKey
  <2>2. SealRoot(opener) = Nil
    BY <1>1, <1>3 DEF SealRoot
  <2>3. UnsealAmdSp(opener, blob)
    BY <1>1, <2>1 DEF UnsealAmdSp, SealAmdSp, Blob, AmdSp
  <2> QED BY <1>1, <1>3, <2>1, <2>2, <2>3 DEF UnsealTlsKey, LaunchDigestAttested
<1>4. CASE sealer.platform = "cvm" /\ ~sealer.prod
  <2>1. blob = SealSoft(sealer, sealer.root)
    BY <1>4 DEF SealTlsKey, SealRoot
  <2>2. SealRoot(opener) = sealer.root
    BY <1>1, <1>4 DEF SealRoot
  <2>3. UnsealSoft(opener, blob, sealer.root)
    BY <1>1, <2>1 DEF UnsealSoft, SealSoft, Blob, SealingMeasurement
  <2> QED BY <1>1, <1>4, <2>2, <2>3 DEF UnsealTlsKey
<1> QED BY <1>1, <1>2, <1>3, <1>4

\* An edge opens its own keys and no others: for any chips, builds and TCB
\* levels, however the header of the stored blob has changed (unseal_tls_key).
THEOREM OpensItsOwn ==
  ASSUME NEW Chips, NEW Builds, NEW Digests,
         rule = "seal" =>
           /\ input.sealer \in AnyMachine(Chips, Builds, Digests)
           /\ input.opener \in AnyMachine(Chips, Builds, Digests)
           /\ NilIsApart(input.opener)
           /\ input.blob # Nil
           /\ StoredBy(input.sealer, input.blob)
  PROVE  OpensExactlyItsOwn
  BY OpenedIsOwn, OwnIsOpened DEF OpensExactlyItsOwn

-----------------------------------------------------------------------------
(***************************************************************************)
(* Seal-sync peers                                                         *)
(***************************************************************************)

\* Evidence of a peer, as it comes in: what its hardware did not sign may have
\* been changed to anything, unless the peer and the way are honest.
Received(kind, peer, channel, honest, evidence) ==
  /\ peer.measurement \in {Raw(peer.code), Canonical(peer.code)}
  /\ honest => evidence = Produce(kind, peer, channel)
  /\ \E claim, said :
       evidence = [Produce(kind, peer, channel) EXCEPT !.claim = claim, !.channel = said]

LEMMA SnpExchange ==
  ASSUME NEW conf, NEW own, NEW role, NEW peer, NEW madeOn, NEW passes, NEW honest, NEW evidence,
         AttestorKind(conf) = "snp", Received("snp", peer, madeOn, honest, evidence)
  PROVE  /\ Exchanges(conf, own, role, evidence, "here", passes) =>
              /\ peer.genuine /\ ~peer.debug
              /\ madeOn = "here"
              /\ {Raw(peer.code), Canonical(peer.code)} \cap Allowed(conf, own) # {}
         /\ /\ honest /\ madeOn = "here" /\ passes
            /\ peer.genuine /\ ~peer.debug
            /\ peer.measurement \in Allowed(conf, own)
            => Exchanges(conf, own, role, evidence, "here", passes)
<1> DEFINE made == ProduceSnp(peer, madeOn)
<1>1. Produce("snp", peer, madeOn) = made
  BY DEF Produce
<1>2. PICK claim, said : evidence = [made EXCEPT !.claim = claim, !.channel = said]
  BY <1>1 DEF Received
<1>3. /\ evidence.kind = "snp" /\ evidence.data = ChannelData(madeOn)
      /\ evidence.code = peer.code /\ evidence.genuine = peer.genuine
      /\ evidence.debug = peer.debug
  BY <1>2 DEF ProduceSnp
<1>4. honest => evidence.claim = peer.measurement /\ evidence.channel = madeOn
  <2>1. honest => evidence = made
    BY <1>1 DEF Received
  <2>2. made.claim = peer.measurement /\ made.channel = madeOn
    BY DEF ProduceSnp
  <2> HIDE DEF made
  <2> QED BY <2>1, <2>2
<1>5. ChannelData(madeOn) = ChannelData("here") => madeOn = "here"
  BY DEF ChannelData
<1>6. VerifyPeer(conf, own, evidence, "here") <=> VerifySnp(Allowed(conf, own), evidence, "here")
  BY DEF VerifyPeer
<1> HIDE DEF made
<1>7. ASSUME VerifySnp(Allowed(conf, own), evidence, "here")
      PROVE  /\ peer.genuine /\ ~peer.debug /\ madeOn = "here"
             /\ {Raw(peer.code), Canonical(peer.code)} \cap Allowed(conf, own) # {}
  BY <1>3, <1>5, <1>7 DEF VerifySnp
<1>8. ASSUME honest, madeOn = "here", passes, peer.genuine, ~peer.debug,
             peer.measurement \in Allowed(conf, own)
      PROVE  VerifySnp(Allowed(conf, own), evidence, "here") /\ ChallengeGate(conf, role, passes)
  BY <1>3, <1>4, <1>8 DEF VerifySnp, ChallengeGate, Received
<1> QED BY <1>6, <1>7, <1>8 DEF Exchanges

LEMMA DcapExchange ==
  ASSUME NEW conf, NEW own, NEW role, NEW peer, NEW madeOn, NEW passes, NEW honest, NEW evidence,
         AttestorKind(conf) = "dcap", Received("dcap", peer, madeOn, honest, evidence)
  PROVE  /\ Exchanges(conf, own, role, evidence, "here", passes) =>
              /\ peer.genuine /\ ~peer.debug
              /\ madeOn = "here"
              /\ {Raw(peer.code), Canonical(peer.code)} \cap Allowed(conf, own) # {}
         /\ /\ honest /\ madeOn = "here" /\ passes
            /\ peer.genuine /\ ~peer.debug /\ peer.upToDate
            /\ peer.measurement \in Allowed(conf, own)
            /\ peer.measurement = Raw(peer.code)
            => Exchanges(conf, own, role, evidence, "here", passes)
<1> DEFINE made == ProduceDcap(peer, madeOn)
<1>1. Produce("dcap", peer, madeOn) = made
  BY DEF Produce
<1>2. PICK claim, said : evidence = [made EXCEPT !.claim = claim, !.channel = said]
  BY <1>1 DEF Received
<1>3. /\ evidence.kind = "dcap" /\ evidence.data = ChannelData(madeOn) /\ evidence.schema = 3
      /\ evidence.code = peer.code /\ evidence.genuine = peer.genuine
      /\ evidence.debug = peer.debug /\ evidence.upToDate = peer.upToDate
  BY <1>2 DEF ProduceDcap
<1>4. honest => evidence.claim = peer.measurement /\ evidence.channel = madeOn
  <2>1. honest => evidence = made
    BY <1>1 DEF Received
  <2>2. made.claim = peer.measurement /\ made.channel = madeOn
    BY DEF ProduceDcap
  <2> HIDE DEF made
  <2> QED BY <2>1, <2>2
<1>5. ChannelData(madeOn) = ChannelData("here") => madeOn = "here"
  BY DEF ChannelData
<1>6. VerifyPeer(conf, own, evidence, "here") <=> VerifyDcap(Allowed(conf, own), evidence, "here")
  BY DEF VerifyPeer
<1> HIDE DEF made
<1>7. ASSUME VerifyDcap(Allowed(conf, own), evidence, "here")
      PROVE  /\ peer.genuine /\ ~peer.debug /\ madeOn = "here"
             /\ {Raw(peer.code), Canonical(peer.code)} \cap Allowed(conf, own) # {}
  BY <1>3, <1>5, <1>7 DEF VerifyDcap
<1>8. ASSUME honest, madeOn = "here", passes, peer.genuine, ~peer.debug, peer.upToDate,
             peer.measurement \in Allowed(conf, own), peer.measurement = Raw(peer.code)
      PROVE  VerifyDcap(Allowed(conf, own), evidence, "here") /\ ChallengeGate(conf, role, passes)
  BY <1>3, <1>4, <1>8 DEF VerifyDcap, ChallengeGate, Received
<1> QED BY <1>6, <1>7, <1>8 DEF Exchanges

\* With a pre-shared key an honest peer is let in too.
LEMMA MockExchange ==
  ASSUME NEW conf, NEW own, NEW role, NEW peer, NEW evidence,
         AttestorKind(conf) = "mock", evidence = Produce("mock", peer, "here"),
         peer.measurement \in Allowed(conf, own)
  PROVE  Exchanges(conf, own, role, evidence, "here", TRUE)
<1>1. evidence = ProduceMock(peer, "here")
  BY DEF Produce
<1>2. VerifyMock(Allowed(conf, own), evidence, "here")
  BY <1>1 DEF VerifyMock, ProduceMock
<1> QED BY <1>2 DEF Exchanges, VerifyPeer, ChallengeGate

\* The key is exchanged with listed code on genuine hardware at the other end
\* of this channel, for any peer, any list and any claim, and whatever has been
\* changed on the way; an honest one whose announced spelling is listed is let in
\* (the attestors' verify).
THEOREM KeyGoesToListedPeer ==
  ASSUME rule = "peer" =>
           /\ SyncConfigValid(input.cfg)
           /\ input.cfg.platform \in {"snp", "dcap"}
           /\ Received(AttestorKind(input.cfg), input.peer, input.madeOn, input.honest,
                       input.evidence)
  PROVE  KeyOnlyToListedPeer
<1> SUFFICES ASSUME rule = "peer" PROVE KeyOnlyToListedPeer
  BY DEF KeyOnlyToListedPeer
<1>1. CASE input.cfg.psk
  <2>1. AttestorKind(input.cfg) = "mock"
    BY <1>1 DEF AttestorKind
  <2>2. input.cfg.prod => ~input.cfg.psk
    BY DEF SyncConfigValid
  <2>3. ASSUME input.honest, input.madeOn = "here", input.passes,
               input.peer.measurement \in Allowed(input.cfg, Raw("b"))
        PROVE  Exchanges(input.cfg, Raw("b"), input.role, input.evidence, "here", input.passes)
    <3>1. input.evidence = Produce("mock", input.peer, "here")
      BY <2>1, <2>3 DEF Received
    <3>2. Exchanges(input.cfg, Raw("b"), input.role, input.evidence, "here", TRUE)
      BY <2>1, <2>3, <3>1, MockExchange
    <3> QED BY <2>3, <3>2 DEF Exchanges, ChallengeGate
  <2> QED BY <1>1, <2>2, <2>3 DEF KeyOnlyToListedPeer
<1>2. CASE ~input.cfg.psk /\ input.cfg.platform = "snp"
  <2>1. AttestorKind(input.cfg) = "snp"
    BY <1>2 DEF AttestorKind
  <2> QED BY <1>2, <2>1, SnpExchange DEF KeyOnlyToListedPeer
<1>3. CASE ~input.cfg.psk /\ input.cfg.platform = "dcap"
  <2>1. AttestorKind(input.cfg) = "dcap"
    BY <1>3 DEF AttestorKind
  <2> QED BY <1>3, <2>1, DcapExchange DEF KeyOnlyToListedPeer
<1> QED BY <1>1, <1>2, <1>3

-----------------------------------------------------------------------------
(***************************************************************************)
(* Engine challenges                                                       *)
(***************************************************************************)

\* An engine with any values, that has every one it needs.
AnyEngine(V, Measurements, Quotes) ==
  [schema : Nat, dataVersion : Nat, engine : V, epoch : V, notBefore : V, notAfter : V,
   usage : V, mlkem : V, x25519 : V, policyHash : V, measurement : Measurements,
   gpu : V, nonce : V, quote : Quotes]

Complete(engine) ==
  /\ Undecodable \notin {engine.usage, engine.mlkem, engine.x25519, engine.policyHash, engine.gpu}
  /\ MeasurementReads(engine.measurement)

\* What the digest binds: the values as they are spelled, and what counts of the
\* GPU's evidence and of the measurement.
SameValues(x, y) ==
  /\ \A v \in BoundValues : x[v] = y[v]
  /\ GpuHash(x) = GpuHash(y)
  /\ MeasurementBody(x.measurement) = MeasurementBody(y.measurement)

\* The digest tells nonces and the values it binds apart, and nothing else.
LEMMA ReportTells ==
  ASSUME NEW x, NEW y, NEW m, NEW n
  PROVE  ReportData(m, x) = ReportData(n, y) <=> m = n /\ SameValues(x, y)
<1> DEFINE S == /\ x.engine = y.engine /\ x.epoch = y.epoch
                /\ x.notBefore = y.notBefore /\ x.notAfter = y.notAfter
                /\ x.usage = y.usage /\ x.mlkem = y.mlkem /\ x.x25519 = y.x25519
                /\ GpuHash(x) = GpuHash(y) /\ x.policyHash = y.policyHash
                /\ MeasurementBody(x.measurement) = MeasurementBody(y.measurement)
<1>1. SameValues(x, y) <=> S
  BY DEF SameValues, BoundValues
<1>2. ASSUME ReportData(m, x) = ReportData(n, y) PROVE m = n /\ S
  <2>1. /\ m = n /\ x.engine = y.engine /\ x.epoch = y.epoch
        /\ <<x.notBefore, 0, x.notAfter>> = <<y.notBefore, 0, y.notAfter>>
        /\ x.usage = y.usage /\ x.mlkem = y.mlkem /\ x.x25519 = y.x25519
        /\ GpuHash(x) = GpuHash(y) /\ x.policyHash = y.policyHash
        /\ MeasurementBody(x.measurement) = MeasurementBody(y.measurement)
    BY <1>2 DEF ReportData
  <2>2. x.notBefore = y.notBefore /\ x.notAfter = y.notAfter
    BY <2>1
  <2> QED BY <2>1, <2>2
<1>3. ASSUME m = n, S PROVE ReportData(m, x) = ReportData(n, y)
  BY <1>3 DEF ReportData
<1> QED BY <1>1, <1>2, <1>3

\* What the digest binds is decoded alike.
LEMMA DecodesAlike ==
  ASSUME NEW x, NEW y, Complete(y), SameValues(x, y), x.nonce # Undecodable
  PROVE  Decodes(x)
<1>1. /\ x.usage = y.usage /\ x.mlkem = y.mlkem /\ x.x25519 = y.x25519
      /\ x.policyHash = y.policyHash /\ GpuHash(x) = GpuHash(y)
  BY DEF SameValues, BoundValues
<1>2. x.gpu # Undecodable
  BY <1>1 DEF GpuHash, Complete, Missing, Undecodable, Zeros
<1>3. FromWire(x.measurement).digests = FromWire(y.measurement).digests
  BY DEF SameValues, MeasurementBody
<1>4. MeasurementReads(x.measurement)
  BY <1>3 DEF Complete, MeasurementReads
<1> QED BY <1>1, <1>2, <1>4 DEF Decodes, Complete

\* The edge accepts an answer around the engine's report, whose field says the
\* report's data if it has one, exactly if it is to the edge's nonce and says what
\* the engine has reported, for any engine, any document, wrapper and spelling
\* (verify_engine_challenge_response).
THEOREM AnswerIsTheEngines ==
  ASSUME NEW V, NEW M, NEW Q,
         rule = "challenge" =>
           /\ \E engine \in AnyEngine(V, M, Q), nonce, wrapping \in Wrappings :
                Complete(engine) /\ input.made = EngineAnswer(engine, nonce, wrapping)
           /\ input.doc.quote.wrapping \in Wrappings
  PROVE  AnswerIsWholeAndFresh
<1> DEFINE doc  == input.doc
           made == input.made
<1> SUFFICES ASSUME rule = "challenge", Around(doc.quote, made.quote)
             PROVE  VerifyResponse("n1", doc) <=>
                      /\ doc.schema = 1 /\ doc.dataVersion = 1
                      /\ doc.nonce = "n1" /\ made.nonce = "n1"
                      /\ doc.quote.wrapping # "short"
                      /\ SameValues(doc, made)
  BY DEF AnswerIsWholeAndFresh, SameValues
<1>1. PICK engine \in AnyEngine(V, M, Q), nonce, wrapping \in Wrappings :
        Complete(engine) /\ made = EngineAnswer(engine, nonce, wrapping)
  OBVIOUS
<1> DEFINE asked == [engine EXCEPT !.nonce = nonce]
           quote == [wrapping |-> wrapping, report |-> ReportData(nonce, asked),
                     field |-> ReportData(nonce, asked)]
<1>2. made = [asked EXCEPT !.quote = quote]
  BY <1>1 DEF EngineAnswer
<1>3. /\ made.nonce = nonce /\ made.quote = quote
      /\ Complete(made) /\ SameValues(asked, made)
  BY <1>1, <1>2 DEF AnyEngine, Complete, SameValues, BoundValues, GpuHash
<1>4. made.quote.report = ReportData(nonce, made)
  <2>1. ReportData(nonce, asked) = ReportData(nonce, made)
    BY <1>3, ReportTells
  <2> QED BY <1>3, <2>1
<1> HIDE DEF doc, made, asked, quote
<1>5. ExtractReportData(doc.quote)
        = IF doc.quote.wrapping = "short" THEN <<>> ELSE ReportData(nonce, made)
  <2>1. doc.quote.wrapping \in Wrappings
    BY DEF doc
  <2> QED BY <1>4, <2>1 DEF ExtractReportData, Wrappings, Around
<1>6. <<>> # ReportData("n1", doc)
  BY DEF ReportData
<1>7. ReportData(nonce, made) = ReportData("n1", doc) <=> nonce = "n1" /\ SameValues(doc, made)
  BY ReportTells DEF SameValues
<1>8. doc.nonce = "n1" /\ SameValues(doc, made) => Decodes(doc)
  BY <1>3, DecodesAlike DEF Undecodable
<1> QED BY <1>3, <1>5, <1>6, <1>7, <1>8 DEF VerifyResponse

-----------------------------------------------------------------------------
(***************************************************************************)
(* Usage reports                                                           *)
(***************************************************************************)

\* Reports with any values and any counts.
AnyReport(V) ==
  [request : V, conversation : V, engine : V, prompt : Nat, completion : Nat,
   cached : Nat, ts : V, epoch : {NoHeader, "ep1", "ep2"}]

\* A header as it comes in: lost, or the engine's signature with any report; an
\* engine signs with its own key.
AnyHeader(V, made, header) ==
  \/ header = NoHeader
  \/ /\ header # NoHeader
     /\ header.form \in {"signed", "bare", "unreadable"}
     /\ header.report \in AnyReport(V)
     /\ \E key : (key = "k1" <=> made.engine = "e1") /\ header.sig = Sign(key, made)

\* What is signed is all of a report but its epoch.
LEMMA SignatureCovers ==
  ASSUME NEW V, NEW x \in AnyReport(V), NEW y \in AnyReport(V), NEW j, NEW k,
         Sign(j, x) = Sign(k, y)
  PROVE  /\ j = k /\ x.request = y.request /\ x.engine = y.engine
         /\ x.prompt = y.prompt /\ x.completion = y.completion
<1>1. Sign(j, x).key = j /\ Sign(k, y).key = k
  BY DEF Sign
<1>2. Sign(j, x).bytes = SigningBytes(x) /\ Sign(k, y).bytes = SigningBytes(y)
  BY DEF Sign
<1> HIDE DEF Sign
<1>3. j = k /\ SigningBytes(x) = SigningBytes(y)
  BY <1>1, <1>2
<1> QED BY <1>3 DEF SigningBytes

\* The bound of the request that is answered, and when a sum stays within it.
LEMMA Bound ==
  /\ TokenBound(UsageCtx) = 48
  /\ \A m, n \in Nat : SaturatingAdd(m, n) <= 48 <=> m + n <= 48
  /\ Estimate(UsageCtx.requestLength) = 5 /\ Estimate(UsageCtx.completionLength) = 1
<1>1. Estimate(UsageCtx.requestLength) = 5 /\ Estimate(UsageCtx.completionLength) = 1
  BY DEF Estimate, UsageCtx
<1>2. SaturatingAdd(5, 1) = 6
  BY DEF SaturatingAdd, CountMax
<1>3. TokenBound(UsageCtx) = 48
  BY <1>1, <1>2 DEF TokenBound, CountMax
<1>4. \A m, n \in Nat : SaturatingAdd(m, n) <= 48 <=> m + n <= 48
  BY DEF SaturatingAdd, CountMax
<1> QED BY <1>1, <1>3, <1>4

\* Where it is required, the counts are the engine's own, for any report and
\* any counts, whatever becomes of the header; elsewhere a completion is not
\* refused and not free (resolve_usage_or_estimate).
THEOREM CountsAreSigned ==
  ASSUME NEW V, Refused \notin Nat \X Nat,
         rule = "usage" =>
           /\ input.required \in BOOLEAN
           /\ input.made \in AnyReport(V)
           /\ AnyHeader(V, input.made, input.header)
           /\ ~input.changed => input.header # NoHeader /\ input.header.report = input.made
  PROVE  CountsAreTheEngines
<1> SUFFICES ASSUME rule = "usage" PROVE CountsAreTheEngines
  BY DEF CountsAreTheEngines
<1> DEFINE made   == input.made
           header == input.header
           usage  == ResolveUsage(input.required, header, UsageCtx)
           own    == /\ made.engine = "e1" /\ made.request = "r1"
                     /\ made.prompt + made.completion <= 48
<1>0. /\ made.prompt \in Nat /\ made.completion \in Nat /\ made \in AnyReport(V)
      /\ made.epoch \in {NoHeader, "ep1", "ep2"}
      /\ header # NoHeader => /\ header.report \in AnyReport(V)
                              /\ header.report.prompt \in Nat /\ header.report.completion \in Nat
  BY DEF AnyReport, AnyHeader
<1>1. /\ UsageCtx.engine = "e1" /\ UsageCtx.request = "r1" /\ UsageCtx.key = "k1"
      /\ UsageCtx.epoch = "ep1"
  BY DEF UsageCtx
<1>2. ASSUME input.required, usage # Refused
      PROVE  own /\ usage = <<made.prompt, made.completion>>
  <2>1. /\ header # NoHeader /\ VerifyReport(header, UsageCtx)
        /\ usage = <<header.report.prompt, header.report.completion>>
    BY <1>2 DEF ResolveUsage
  <2>2. PICK key : (key = "k1" <=> made.engine = "e1") /\ header.sig = Sign(key, made)
    BY <2>1 DEF AnyHeader
  <2>3. /\ header.sig = Sign("k1", header.report)
        /\ header.report.engine = "e1" /\ header.report.request = "r1"
        /\ SaturatingAdd(header.report.prompt, header.report.completion) <= 48
    BY <1>1, <2>1, Bound DEF VerifyReport
  <2>4. /\ header.report.request = made.request /\ header.report.engine = made.engine
        /\ header.report.prompt = made.prompt /\ header.report.completion = made.completion
    <3>1. Sign(key, made) = Sign("k1", header.report)
      BY <2>2, <2>3
    <3>2. made \in AnyReport(V) /\ header.report \in AnyReport(V)
      BY <1>0, <2>1
    <3> HIDE DEF made, header
    <3> QED BY <3>1, <3>2, SignatureCovers
  <2> QED BY <1>0, <2>1, <2>3, <2>4, Bound
<1>3. ASSUME input.required, own, made.epoch # "ep2", ~input.changed, header.form = "signed"
      PROVE  usage # Refused
  <2>1. header # NoHeader /\ header.report = made
    BY <1>3
  <2>2. PICK key : (key = "k1" <=> made.engine = "e1") /\ header.sig = Sign(key, made)
    BY <2>1 DEF AnyHeader
  <2>3. VerifyReport(header, UsageCtx)
    BY <1>0, <1>1, <1>3, <2>1, <2>2, Bound DEF VerifyReport
  <2>4. usage = <<made.prompt, made.completion>>
    BY <1>3, <2>1, <2>3 DEF ResolveUsage
  <2> QED BY <1>0, <2>4
<1>4. ASSUME ~input.required PROVE usage # Refused /\ usage[1] + usage[2] > 0
  <2>1. CASE Believed(header)
    <3>1. usage = <<header.report.prompt, header.report.completion>>
      BY <1>4, <2>1 DEF ResolveUsage
    <3>2. header.report.prompt > 0 \/ header.report.completion > 0
      BY <2>1 DEF Believed
    <3>3. header # NoHeader
      BY <2>1 DEF Believed
    <3> HIDE DEF usage
    <3> QED BY <1>0, <3>1, <3>2, <3>3
  <2>2. CASE ~Believed(header)
    <3>1. usage = <<5, 1>>
      BY <1>4, <2>2, Bound DEF ResolveUsage
    <3> HIDE DEF usage
    <3> QED BY <3>1
  <2> QED BY <2>1, <2>2
<1> HIDE DEF usage
<1> QED BY <1>2, <1>3, <1>4, Bound DEF CountsAreTheEngines, usage

-----------------------------------------------------------------------------
(***************************************************************************)
(* The calendar                                                            *)
(***************************************************************************)

\* Days before the March of a year, in the count of DaysFromCivil.
MarchOf(y) ==
  (y \div 400) * 146097 + (y - (y \div 400) * 400) * 365
    + (y - (y \div 400) * 400) \div 4 - (y - (y \div 400) * 400) \div 100

\* Days of a year before a month, if years begin in March.
DaysBefore(m) == (153 * (IF m > 2 THEN m - 3 ELSE m + 9) + 2) \div 5

\* The same days as a sum; January and February belong to the year before.
Civil(y, m, d) == MarchOf(IF m > 2 THEN y ELSE y - 1) + DaysBefore(m) + d - 719469

LEMMA CivilIs ==
  ASSUME NEW y \in Nat, y >= 1, NEW m \in 1 .. 12, NEW d \in Nat
  PROVE  DaysFromCivil(y, m, d) = Civil(y, m, d)
  BY SMT DEF DaysFromCivil, MarchOf, DaysBefore, Civil

\* The other two copies of the count are the same from the year 1 on.
LEMMA EraSum ==
  ASSUME NEW z \in Nat
  PROVE  LET e == z - Era(z) * 400
         IN  /\ Era(z) * 146097 + (e * 365 + e \div 4 - e \div 100) = MarchOf(z)
             /\ e \in Nat /\ Era(z) \in Nat
<1>1. Era(z) = z \div 400
  BY SMT DEF Era
<1> QED BY <1>1, SMT DEF MarchOf

LEMMA CopiesAgree ==
  ASSUME NEW y \in Nat, y >= 1, NEW m \in 1 .. 12, NEW d \in Nat
  PROVE  EngineDays(y, m, d) = Civil(y, m, d) /\ ReleaseDays(y, m, d) = Civil(y, m, d)
<1>1. CASE m <= 2
  <2> DEFINE z == y - 1
             e == z - Era(z) * 400
  <2>1. z \in Nat /\ ~(m > 2)
    BY <1>1, SMT
  <2>2. Era(z) * 146097 + (e * 365 + e \div 4 - e \div 100) = MarchOf(z) /\ e \in Nat /\ Era(z) \in Nat
    BY <2>1, EraSum
  <2>3. /\ EngineDays(y, m, d) = Era(z) * 146097 + (e * 365 + e \div 4 - e \div 100
                                  + ((153 * (m + 9) + 2) \div 5 + d - 1)) - 719468
        /\ ReleaseDays(y, m, d) = EngineDays(y, m, d)
    BY <1>1, <2>1 DEF EngineDays, ReleaseDays
  <2>4. Civil(y, m, d) = MarchOf(z) + (153 * (m + 9) + 2) \div 5 + d - 719469
    BY <2>1 DEF Civil, DaysBefore
  <2> HIDE DEF e, z
  <2> QED BY <2>2, <2>3, <2>4, SMT
<1>2. CASE m > 2
  <2>1. ~(m <= 2) /\ Era(y) = y \div 400
    BY <1>2, SMT DEF Era
  <2> QED BY <1>2, <2>1, SMT DEF EngineDays, ReleaseDays, MarchOf, DaysBefore, Civil
<1> QED BY <1>1, <1>2, SMT

LEMMA SumTypes ==
  /\ \A y \in Nat : MarchOf(y) \in Int
  /\ \A m \in 1 .. 12 : DaysBefore(m) \in Int
  BY DEF MarchOf, DaysBefore

\* From one March to the next there are 365 days, or 366 through a leap day.
LEMMA YearLength ==
  ASSUME NEW y \in Nat
  PROVE  MarchOf(y + 1) = MarchOf(y) + (IF LeapYear(y + 1) THEN 366 ELSE 365)
<1> DEFINE q == y \div 400
           r == y % 400
<1>1. q \in Nat /\ r \in 0 .. 399 /\ y = 400 * q + r
  OBVIOUS
<1>2. MarchOf(y) = q * 146097 + r * 365 + r \div 4 - r \div 100
  BY <1>1 DEF MarchOf
<1> HIDE DEF q, r
<1>3. CASE r = 399
  <2>1. (y + 1) \div 400 = q + 1 /\ (y + 1) % 400 = 0
    BY <1>1, <1>3
  <2>2. MarchOf(y + 1) = (q + 1) * 146097
    BY <1>1, <1>3, <2>1 DEF MarchOf
  <2>3. LeapYear(y + 1)
    BY <2>1 DEF LeapYear
  <2> QED BY <1>1, <1>2, <1>3, <2>2, <2>3
<1>4. CASE r # 399
  <2>1. (y + 1) \div 400 = q /\ (y + 1) % 400 = r + 1
    BY <1>1, <1>4
  <2>2. MarchOf(y + 1) = q * 146097 + (r + 1) * 365 + (r + 1) \div 4 - (r + 1) \div 100
    BY <1>1, <2>1 DEF MarchOf
  <2>3. (y + 1) % 4 = (r + 1) % 4 /\ (y + 1) % 100 = (r + 1) % 100
    BY <1>1
  <2>4. (r + 1) \div 4 = r \div 4 + (IF (r + 1) % 4 = 0 THEN 1 ELSE 0)
    BY <1>1
  <2>5. (r + 1) \div 100 = r \div 100 + (IF (r + 1) % 100 = 0 THEN 1 ELSE 0)
    BY <1>1
  <2>6. (r + 1) % 100 = 0 => (r + 1) % 4 = 0
    BY <1>1
  <2>7. LeapYear(y + 1) <=> (r + 1) % 4 = 0 /\ (r + 1) % 100 # 0
    BY <1>1, <1>4, <2>1, <2>3 DEF LeapYear
  <2> QED BY <1>1, <1>2, <2>2, <2>4, <2>5, <2>6, <2>7
<1> QED BY <1>3, <1>4

\* Each day of a month is counted, and the first of the next month after the
\* last: the months of one year that begins in March, and the next such year.
LEMMA DayCounts ==
  ASSUME NEW y \in Nat, y >= 1, NEW m \in 1 .. 12, NEW d \in Nat
  PROVE  DaysFromCivil(y, m, d + 1) = DaysFromCivil(y, m, d) + 1
<1>1. /\ DaysFromCivil(y, m, d) = Civil(y, m, d)
      /\ DaysFromCivil(y, m, d + 1) = Civil(y, m, d + 1)
  BY CivilIs
<1> DEFINE s == IF m > 2 THEN y ELSE y - 1
<1>2. s \in Nat
  OBVIOUS
<1>3. MarchOf(s) \in Int /\ DaysBefore(m) \in Int
  BY <1>2, SumTypes
<1>4. /\ Civil(y, m, d) = MarchOf(s) + DaysBefore(m) + d - 719469
      /\ Civil(y, m, d + 1) = MarchOf(s) + DaysBefore(m) + (d + 1) - 719469
  BY SMT DEF Civil
<1> HIDE DEF s
<1> QED BY <1>1, <1>3, <1>4, SMT

LEMMA MonthCounts ==
  ASSUME NEW y \in Nat, y >= 1, NEW m \in 1 .. 11
  PROVE  DaysFromCivil(y, m + 1, 1) = DaysFromCivil(y, m, MonthLength(y, m)) + 1
<1>0. m \in 1 .. 12 /\ m + 1 \in 1 .. 12 /\ MonthLength(y, m) \in Nat /\ y - 1 \in Nat
  BY DEF MonthLength
<1>1. /\ DaysFromCivil(y, m + 1, 1) = Civil(y, m + 1, 1)
      /\ DaysFromCivil(y, m, MonthLength(y, m)) = Civil(y, m, MonthLength(y, m))
  BY <1>0, CivilIs
<1>2. MarchOf(y) \in Int /\ MarchOf(y - 1) \in Int /\ DaysBefore(m) \in Int
  BY <1>0, SumTypes
<1>3. CASE m # 2
  <2> DEFINE s == IF m > 2 THEN y ELSE y - 1
  <2>1. DaysBefore(m + 1) = DaysBefore(m) + MonthLength(y, m)
    BY <1>3 DEF DaysBefore, MonthLength, LongMonths
  <2>2. s = (IF m + 1 > 2 THEN y ELSE y - 1)
    BY <1>3
  <2>3. /\ Civil(y, m + 1, 1) = MarchOf(s) + DaysBefore(m + 1) + 1 - 719469
        /\ Civil(y, m, MonthLength(y, m)) = MarchOf(s) + DaysBefore(m) + MonthLength(y, m) - 719469
        /\ MarchOf(s) \in Int
    BY <1>2, <2>2, SMT DEF Civil
  <2> HIDE DEF s
  <2> QED BY <1>0, <1>1, <1>2, <2>1, <2>3, SMT
<1>4. CASE m = 2
  <2> DEFINE n == MonthLength(y, 2)
  <2>1. DaysBefore(2) = 337 /\ DaysBefore(3) = 0 /\ n = IF LeapYear(y) THEN 29 ELSE 28
    BY DEF DaysBefore, MonthLength, LongMonths
  <2>2. /\ Civil(y, 2, n) = MarchOf(y - 1) + 337 + n - 719469
        /\ Civil(y, 3, 1) = MarchOf(y) + 0 + 1 - 719469
    BY <2>1, SMT DEF Civil
  <2>3. MarchOf(y) = MarchOf(y - 1) + (IF LeapYear(y) THEN 366 ELSE 365)
    BY <1>0, YearLength
  <2>4. /\ DaysFromCivil(y, m, MonthLength(y, m)) = Civil(y, 2, n)
        /\ DaysFromCivil(y, m + 1, 1) = Civil(y, 3, 1)
    BY <1>1, <1>4
  <2> HIDE DEF n
  <2>5. CASE LeapYear(y)
    <3>1. n = 29 /\ MarchOf(y) = MarchOf(y - 1) + 366
      BY <2>1, <2>3, <2>5
    <3> QED BY <1>2, <2>2, <2>4, <3>1, SMT
  <2>6. CASE ~LeapYear(y)
    <3>1. n = 28 /\ MarchOf(y) = MarchOf(y - 1) + 365
      BY <2>1, <2>3, <2>6
    <3> QED BY <1>2, <2>2, <2>4, <3>1, SMT
  <2> QED BY <2>5, <2>6
<1> QED BY <1>3, <1>4

LEMMA NewYearCounts ==
  ASSUME NEW y \in Nat, y >= 1
  PROVE  DaysFromCivil(y + 1, 1, 1) = DaysFromCivil(y, 12, 31) + 1
<1>1. DaysBefore(12) = 275 /\ DaysBefore(1) = 306
  BY DEF DaysBefore
<1>2. DaysFromCivil(y, 12, 31) = Civil(y, 12, 31) /\ DaysFromCivil(y + 1, 1, 1) = Civil(y + 1, 1, 1)
  BY CivilIs
<1>3. Civil(y, 12, 31) = MarchOf(y) + 275 + 31 - 719469
  BY <1>1, SMT DEF Civil
<1>4. Civil(y + 1, 1, 1) = MarchOf(y) + 306 + 1 - 719469
  BY <1>1, SMT DEF Civil
<1> QED BY <1>2, <1>3, <1>4, SumTypes, SMT

\* The walk through the calendar is at a date, and has counted its days.
CalendarInv ==
  rule = "calendar" =>
    /\ input = [year |-> input.year, month |-> input.month, day |-> input.day,
                count |-> input.count]
    /\ input.year \in Nat /\ input.year >= 1970
    /\ input.month \in 1 .. 12
    /\ input.day \in 1 .. MonthLength(input.year, input.month)
    /\ input.count \in Nat
    /\ input.count = DaysFromCivil(input.year, input.month, input.day)

LEMMA InitCalendarInv == RulesInit => CalendarInv
<1> SUFFICES ASSUME RulesInit, rule = "calendar" PROVE CalendarInv
  BY DEF CalendarInv
<1>1. InitCalendar
  BY DEF RulesInit, InitMaintenance, InitBoot, InitSeal, InitChallenge, InitPeer, InitQuota,
         InitUsage, InitRequest, InitReply
<1>2. DaysFromCivil(1970, 1, 1) = 0
  BY SMT DEF DaysFromCivil
<1>3. MonthLength(1970, 1) = 31
  BY DEF MonthLength, LongMonths
<1> QED BY <1>1, <1>2, <1>3 DEF InitCalendar, CalendarInv

LEMMA NextCalendarInv == CalendarInv /\ [RulesNext]_<<rule, input>> => CalendarInv'
<1> SUFFICES ASSUME CalendarInv, [RulesNext]_<<rule, input>>, rule' = "calendar"
             PROVE  CalendarInv'
  BY DEF CalendarInv
<1>1. NextDay \/ UNCHANGED <<rule, input>>
  BY DEF RulesNext, TimePasses, SetVariable, Restart, Damage, ExchangePart, Rewrap, Relabel, Spend,
         Lengthen, Relay, ReadMore, BytesCome
<1>2. CASE UNCHANGED <<rule, input>>
  BY <1>2 DEF CalendarInv
<1>3. CASE NextDay
  <2> DEFINE y == input.year
             m == input.month
             d == input.day
  <2>1. /\ y \in Nat /\ y >= 1970 /\ m \in 1 .. 12 /\ d \in 1 .. MonthLength(y, m)
        /\ input.count \in Nat /\ input.count = DaysFromCivil(y, m, d)
    BY <1>3 DEF CalendarInv, NextDay
  <2>2. MonthLength(y, m) \in 28 .. 31 /\ MonthLength(y, 12) = 31 /\ d \in Nat
        /\ \A x, k : MonthLength(x, k) \in 28 .. 31
    BY <2>1 DEF MonthLength, LongMonths
  <2>3. CASE d # MonthLength(y, m)
    <3>1. input' = [year |-> y, month |-> m, day |-> d + 1, count |-> input.count + 1]
      BY <1>3, <2>3 DEF NextDay
    <3>2. d + 1 \in 1 .. MonthLength(y, m)
      BY <2>1, <2>2, <2>3
    <3>3. DaysFromCivil(y, m, d + 1) = DaysFromCivil(y, m, d) + 1
      BY <2>1, <2>2, DayCounts
    <3> HIDE DEF y, m, d
    <3> QED BY <2>1, <3>1, <3>2, <3>3 DEF CalendarInv
  <2>4. CASE d = MonthLength(y, m) /\ m # 12
    <3>1. input' = [year |-> y, month |-> m + 1, day |-> 1, count |-> input.count + 1]
      BY <1>3, <2>4 DEF NextDay
    <3>2. m \in 1 .. 11 /\ m + 1 \in 1 .. 12 /\ 1 \in 1 .. MonthLength(y, m + 1)
      BY <2>1, <2>2, <2>4
    <3>3. DaysFromCivil(y, m + 1, 1) = DaysFromCivil(y, m, d) + 1
      BY <2>1, <2>4, <3>2, MonthCounts
    <3> HIDE DEF y, m, d
    <3> QED BY <2>1, <3>1, <3>2, <3>3 DEF CalendarInv
  <2>5. CASE d = MonthLength(y, m) /\ m = 12
    <3>1. input' = [year |-> y + 1, month |-> 1, day |-> 1, count |-> input.count + 1]
      BY <1>3, <2>5 DEF NextDay
    <3>2. 1 \in 1 .. 12 /\ 1 \in 1 .. MonthLength(y + 1, 1) /\ d = 31
      BY <2>1, <2>2, <2>5
    <3>3. DaysFromCivil(y + 1, 1, 1) = DaysFromCivil(y, m, d) + 1
      BY <2>1, <2>5, <3>2, NewYearCounts
    <3> HIDE DEF y, m, d
    <3> QED BY <2>1, <3>1, <3>2, <3>3 DEF CalendarInv
  <2> QED BY <2>3, <2>4, <2>5
<1> QED BY <1>1, <1>2, <1>3

\* Seconds of the day, of the day before and of the day after.
LEMMA SameDay ==
  ASSUME NEW n \in Nat, NEW s \in Int, s >= 0, s < 86400
  PROVE  Instant(n, s) = <<n, s>>
<1>1. s \div 86400 = 0 /\ s % 86400 = s
  BY SMT
<1> QED BY <1>1, SMT DEF Instant, DaySeconds

LEMMA DayBefore ==
  ASSUME NEW n \in Nat, NEW s \in Int, s < 0, s > -86400
  PROVE  Instant(n, s) = IF n = 0 THEN Bad ELSE <<n - 1, s + 86400>>
<1>1. s \div 86400 = -1 /\ s % 86400 = s + 86400
  BY SMT
<1> QED BY <1>1, SMT DEF Instant, DaySeconds

LEMMA DayAfter ==
  ASSUME NEW n \in Nat, NEW s \in Int, s >= 86400, s < 172800
  PROVE  Instant(n, s) = <<n + 1, s - 86400>>
<1>1. s \div 86400 = 1 /\ s % 86400 = s - 86400
  BY SMT
<1> QED BY <1>1, SMT DEF Instant, DaySeconds

\* On a date whose days are counted, the three parsers agree.
LEMMA ParsersAgree == CalendarInv => CalendarsAgree
<1> SUFFICES ASSUME CalendarInv, rule = "calendar" PROVE CalendarsAgree
  BY DEF CalendarsAgree
<1> DEFINE n == input.count
           at(h, mi, s, o) ==
             [year |-> input.year, month |-> input.month, day |-> input.day,
              hour |-> h, minute |-> mi, second |-> s, offset |-> o]
<1>1. /\ input.year \in Nat /\ input.month \in 1 .. 12 /\ n \in Nat
      /\ input.day \in 1 .. MonthLength(input.year, input.month)
      /\ DaysFromCivil(input.year, input.month, input.day) = n
      /\ input.year >= 1
  BY DEF CalendarInv
<1>2. /\ DaysInMonth(input.year, input.month) = MonthLength(input.year, input.month)
      /\ input.day \in 1 .. 31
  BY <1>1 DEF DaysInMonth, MonthLength, LongMonths, LeapYear
<1>3. /\ Instant(n, 0) = <<n, 0>> /\ Instant(n, 86399) = <<n, 86399>>
      /\ Instant(n, -1800) = (IF n = 0 THEN Bad ELSE <<n - 1, 84600>>)
      /\ Instant(n, 88200) = <<n + 1, 1800>>
  <2>1. Instant(n, 0) = <<n, 0>> /\ Instant(n, 86399) = <<n, 86399>>
    BY <1>1, SameDay, SMT
  <2>2. Instant(n, -1800) = (IF n = 0 THEN Bad ELSE <<n - 1, 84600>>)
    <3>1. -1800 \in Int /\ -1800 < 0 /\ -1800 > -86400 /\ -1800 + 86400 = 84600
      BY SMT
    <3>2. Instant(n, -1800) = (IF n = 0 THEN Bad ELSE <<n - 1, -1800 + 86400>>)
      BY <1>1, <3>1, DayBefore, SMT
    <3> QED BY <3>1, <3>2, SMT
  <2>3. Instant(n, 88200) = <<n + 1, 1800>>
    <3>1. Instant(n, 88200) = <<n + 1, 88200 - 86400>>
      BY <1>1, DayAfter, SMT
    <3> QED BY <3>1, SMT
  <2> QED BY <2>1, <2>2, <2>3, SMT
<1>4. \A h, mi, s \in Nat : h <= 23 /\ mi <= 59 /\ s <= 59 =>
        /\ EngineTrustTime(at(h, mi, s, 0)) = Instant(n, h * 3600 + mi * 60 + s)
        /\ ReleaseTime(at(h, mi, s, 0)) = Instant(n, h * 3600 + mi * 60 + s)
  <2>1. /\ EngineDays(input.year, input.month, input.day) = n
        /\ ReleaseDays(input.year, input.month, input.day) = n
    BY <1>1, <1>2, CivilIs, CopiesAgree, SMT
  <2> QED BY <1>1, <1>2, <2>1, SMT DEF EngineTrustTime, ReleaseTime, TimeOfDay
<1>5. \A h, mi, s \in Nat, o \in Int :
        MaintenanceTime(at(h, mi, s, o)) = Instant(n, h * 3600 + mi * 60 + s - o * 60)
  BY <1>1, <1>2, SMT DEF MaintenanceTime, TimeOfDay
<1>6. /\ EngineTrustTime(at(0, 0, 0, 0)) = <<n, 0>> /\ ReleaseTime(at(0, 0, 0, 0)) = <<n, 0>>
      /\ EngineTrustTime(at(23, 59, 59, 0)) = <<n, 86399>>
      /\ ReleaseTime(at(23, 59, 59, 0)) = <<n, 86399>>
  <2>1. 0 * 3600 + 0 * 60 + 0 = 0 /\ 23 * 3600 + 59 * 60 + 59 = 86399
    BY SMT
  <2> QED BY <1>3, <1>4, <2>1, SMT
<1>7. /\ MaintenanceTime(at(0, 0, 0, 0)) = <<n, 0>>
      /\ MaintenanceTime(at(23, 59, 59, 0)) = <<n, 86399>>
  <2>1. 0 * 3600 + 0 * 60 + 0 - 0 * 60 = 0 /\ 23 * 3600 + 59 * 60 + 59 - 0 * 60 = 86399
    BY SMT
  <2>2. MaintenanceTime(at(0, 0, 0, 0)) = Instant(n, 0)
    BY <1>5, <2>1, SMT
  <2>3. MaintenanceTime(at(23, 59, 59, 0)) = Instant(n, 86399)
    BY <1>5, <2>1, SMT
  <2> QED BY <1>3, <2>2, <2>3, SMT
<1>8. MaintenanceTime(at(0, 30, 0, 60)) = (IF n = 0 THEN Bad ELSE <<n - 1, 84600>>)
  <2>1. 0 * 3600 + 30 * 60 + 0 - 60 * 60 = -1800
    BY SMT
  <2> QED BY <1>3, <1>5, <2>1, SMT
<1>9. MaintenanceTime(at(23, 30, 0, -60)) = <<n + 1, 1800>>
  <2>1. 23 * 3600 + 30 * 60 + 0 - (-60) * 60 = 88200 /\ -60 \in Int
    BY SMT
  <2> QED BY <1>3, <1>5, <2>1, SMT
<1> HIDE DEF n
<1> QED BY <1>6, <1>7, <1>8, <1>9, SMT DEF CalendarsAgree, DaySeconds, n

\* However long the calendar runs, the three parsers of RFC 3339 count its days
\* alike and as it does, and an offset moves a time across midnight: the proof
\* is that days_from_civil grows by one with every day that MonthLength has.
THEOREM CalendarsCount == RulesSpec => []CalendarsAgree
  BY InitCalendarInv, NextCalendarInv, ParsersAgree, PTL DEF RulesSpec

-----------------------------------------------------------------------------
(***************************************************************************)
(* Maintenance windows                                                     *)
(***************************************************************************)

\* Induction, in the only form that takes no operator: a set of numbers that
\* is not empty has a least element.
LEMMA LeastNat ==
  ASSUME NEW T \in SUBSET Nat, T # {}
  PROVE  \E x \in T : \A y \in T : x <= y
<1> DEFINE R == WF!OpToRel(<, Nat)
<1>0. WF!IsWellFoundedOn(R, Nat)
  BY WF!NatLessThanWellFounded
<1>2. \A x, y \in Nat : y < x => <<y, x>> \in R
  BY DEF WF!OpToRel
<1> HIDE DEF R
<1>1. \E x \in T : \A y \in T : ~(<<y, x>> \in R)
  BY <1>0, WF!WFMin
<1>3. PICK x \in T : \A y \in T : ~(<<y, x>> \in R)
  BY <1>1
<1>4. x \in Nat /\ \A y \in T : y \in Nat
  OBVIOUS
<1>5. \A y \in T : ~(y < x)
  BY <1>2, <1>3, <1>4
<1>6. \A y \in T : x <= y
  BY <1>4, <1>5
<1> QED BY <1>6

\* What holds of 0, and of every number up to n with the one before it.
LEMMA UpTo ==
  ASSUME NEW n \in Nat, NEW T, 0 \in T, \A k \in 1 .. n : k - 1 \in T => k \in T
  PROVE  0 .. n \subseteq T
<1> DEFINE B == {k \in 0 .. n : k \notin T}
<1> SUFFICES ASSUME B # {} PROVE FALSE
  OBVIOUS
<1>1. PICK k \in B : \A y \in B : k <= y
  <2>1. B \in SUBSET Nat
    OBVIOUS
  <2> HIDE DEF B
  <2> QED BY <2>1, LeastNat
<1>2. k \in 0 .. n /\ k \notin T /\ k # 0
  BY <1>1
<1>3. k - 1 \in 0 .. n /\ ~(k <= k - 1)
  BY <1>2
<1>4. k - 1 \in T
  BY <1>1, <1>3
<1> QED BY <1>2, <1>4

\* The walk of select_active: what it keeps after n windows, given what it had
\* kept before.
Kept(manifest, t, f, n) ==
  IF n = 0 THEN None
  ELSE IF Candidate(manifest[n], t) /\ (f[n - 1] = None \/ Better(manifest[n], f[n - 1], t))
       THEN manifest[n]
       ELSE f[n - 1]

\* The recursive definition in SelectActive defines something, for manifests of
\* any length.
LEMMA SelectActiveIs ==
  ASSUME NEW manifest, Len(manifest) \in Nat, NEW t
  PROVE  \E best : /\ best = [n \in 0 .. Len(manifest) |-> Kept(manifest, t, best, n)]
                   /\ SelectActive(manifest, t) = best[Len(manifest)]
<1> DEFINE Walk(f, k) == f = [n \in 0 .. k |-> Kept(manifest, t, f, n)]
           Best == CHOOSE f : Walk(f, Len(manifest))
           T == {k \in Nat : ~\E f : Walk(f, k)}
<1>1. SelectActive(manifest, t) = Best[Len(manifest)]
  BY DEF SelectActive, Kept
<1>2. T = {}
  <2>1. SUFFICES ASSUME T # {} PROVE FALSE
    OBVIOUS
  <2>2. PICK k \in T : \A y \in T : k <= y
    <3>1. T \in SUBSET Nat
      OBVIOUS
    <3> HIDE DEF T
    <3> QED BY <2>1, <3>1, LeastNat
  <2>3. CASE k = 0
    <3> DEFINE f == [n \in 0 .. 0 |-> None]
    <3>1. Walk(f, 0)
      BY DEF Kept
    <3> QED BY <2>3, <3>1
  <2>4. CASE k # 0
    <3>1. k \in Nat /\ k - 1 \in Nat /\ k - 1 \notin T
      BY <2>2, <2>4
    <3>2. PICK f : Walk(f, k - 1)
      BY <3>1
    <3> DEFINE g == [n \in 0 .. k |-> IF n = k THEN Kept(manifest, t, f, k) ELSE f[n]]
    <3>3. \A n \in 0 .. k : n # k => g[n] = f[n] /\ f[n] = Kept(manifest, t, f, n)
      BY <3>1, <3>2
    <3>4. \A n \in 0 .. k : g[n] = Kept(manifest, t, f, n)
      BY <3>1, <3>3
    <3>5. \A n \in 0 .. k : Kept(manifest, t, f, n) = Kept(manifest, t, g, n)
      <4>1. SUFFICES ASSUME NEW n \in 0 .. k, n # 0
                     PROVE  Kept(manifest, t, f, n) = Kept(manifest, t, g, n)
        BY DEF Kept
      <4>2. n - 1 \in 0 .. k /\ n - 1 # k
        BY <3>1
      <4>3. g[n - 1] = f[n - 1]
        BY <3>3, <4>2
      <4> HIDE DEF g
      <4> QED BY <4>3 DEF Kept
    <3>6. Walk(g, k)
      BY <3>4, <3>5
    <3> QED BY <3>6
  <2> QED BY <2>3, <2>4
<1>3. \E f : Walk(f, Len(manifest))
  BY <1>2
<1>4. Walk(Best, Len(manifest))
  BY <1>3
<1> HIDE DEF Best
<1> QED BY <1>1, <1>4

\* What the code knows of a window that resolves.
LEMMA WindowFacts ==
  ASSUME NEW w \in Windows(Nat), Resolves(w), NEW t \in Nat
  PROVE  /\ HardEnd(w) \in Nat /\ SoftEnd(w) \in Nat \cup {None}
         /\ Phase(w, t) \in {"none", "hard", "soft"}
         /\ Phase(w, t) = "hard" => t <= HardEnd(w)
         /\ Phase(w, t) = "soft" /\ SoftEnd(w) # None => t <= SoftEnd(w)
<1>1. /\ w.notBefore \in Nat /\ w.hard \in Nat \cup {None} /\ w.soft \in Nat \cup {None}
      /\ w.legacy \in Nat \cup {None}
  BY DEF Windows
<1>2. HardEnd(w) \in Nat
  BY <1>1 DEF Resolves, HardEnd
<1>3. SoftEnd(w) \in Nat \cup {None}
  BY <1>1 DEF SoftEnd
<1>4. /\ Phase(w, t) \in {"none", "hard", "soft"}
      /\ Phase(w, t) = "hard" => t <= HardEnd(w)
      /\ Phase(w, t) = "soft" /\ SoftEnd(w) # None => t <= SoftEnd(w)
  <2>1. CASE t < w.notBefore
    <3>1. ~(w.notBefore <= t) /\ ~(t > HardEnd(w))
      BY <1>1, <1>2, <2>1 DEF Resolves
    <3>2. Phase(w, t) = "none"
      BY <2>1, <3>1 DEF Phase
    <3> QED BY <3>2
  <2>2. CASE w.notBefore <= t /\ t <= HardEnd(w)
    <3>1. Phase(w, t) = "hard"
      BY <1>1, <1>2, <2>2 DEF Phase
    <3> QED BY <2>2, <3>1
  <2>3. CASE ~(t < w.notBefore) /\ t > HardEnd(w)
    <3>1. ~(w.notBefore <= t /\ t <= HardEnd(w))
      BY <1>2, <2>3
    <3>2. Phase(w, t) = IF LegacyOnly(w) THEN "none"
                        ELSE IF SoftEnd(w) = None \/ t <= SoftEnd(w) THEN "soft" ELSE "none"
      BY <2>3, <3>1 DEF Phase
    <3> QED BY <3>2
  <2> QED BY <1>1, <1>2, <2>1, <2>2, <2>3
<1> QED BY <1>2, <1>3, <1>4

\* One window is as good a choice as another.
AsGood(best, w, t) ==
  /\ Phase(w, t) = "hard" => Phase(best, t) = "hard" /\ HardEnd(w) <= HardEnd(best)
  /\ Phase(w, t) = "soft" /\ Phase(best, t) = "soft" /\ SoftEnd(best) # None =>
       SoftEnd(w) # None /\ SoftEnd(w) <= SoftEnd(best)

LEMMA BetterIsAsGood ==
  ASSUME NEW v \in Windows(Nat), NEW w \in Windows(Nat), NEW t \in Nat,
         Resolves(v), Resolves(w), Candidate(v, t), Candidate(w, t)
  PROVE  /\ Better(w, v, t) => AsGood(w, v, t)
         /\ ~Better(w, v, t) => AsGood(v, w, t)
<1>1. /\ HardEnd(v) \in Nat /\ HardEnd(w) \in Nat
      /\ SoftEnd(v) \in Nat \cup {None} /\ SoftEnd(w) \in Nat \cup {None}
      /\ Phase(v, t) \in {"hard", "soft"} /\ Phase(w, t) \in {"hard", "soft"}
  BY WindowFacts DEF Candidate
<1>2. CASE Phase(w, t) = "hard" /\ Phase(v, t) = "hard"
  <2>1. Better(w, v, t) <=> (HardEnd(w) > HardEnd(v))
    BY <1>2 DEF Better
  <2> QED BY <1>1, <1>2, <2>1 DEF AsGood
<1>3. CASE Phase(w, t) = "soft" /\ Phase(v, t) = "soft"
  <2>1. Better(w, v, t) <=> EndsLater(SoftEnd(w), SoftEnd(v))
    BY <1>3 DEF Better
  <2> QED BY <1>1, <1>3, <2>1 DEF AsGood, EndsLater
<1>4. CASE Phase(w, t) = "hard" /\ Phase(v, t) = "soft"
  <2>1. Better(w, v, t)
    BY <1>4 DEF Better
  <2> QED BY <1>4, <2>1 DEF AsGood
<1>5. CASE Phase(w, t) = "soft" /\ Phase(v, t) = "hard"
  <2>1. ~Better(w, v, t)
    BY <1>5 DEF Better
  <2> QED BY <1>5, <2>1 DEF AsGood
<1> QED BY <1>1, <1>2, <1>3, <1>4, <1>5

LEMMA AsGoodIsTransitive ==
  ASSUME NEW u \in Windows(Nat), NEW v \in Windows(Nat), NEW w \in Windows(Nat), NEW t \in Nat,
         Resolves(u), Resolves(v), Resolves(w), Candidate(u, t), Candidate(v, t), Candidate(w, t),
         AsGood(u, v, t), AsGood(v, w, t)
  PROVE  AsGood(u, w, t)
<1>1. \A x \in {u, v, w} :
        /\ HardEnd(x) \in Nat /\ SoftEnd(x) \in Nat \cup {None} /\ Phase(x, t) \in {"hard", "soft"}
  BY WindowFacts DEF Candidate
<1> QED BY <1>1 DEF AsGood

\* What select_active returns: nothing if no window is active, else one that is
\* active and as good as every other.
LEMMA BestOfAll ==
  ASSUME NEW manifest \in Seq(Windows(Nat)), WellFormed(manifest), NEW t \in Nat,
         None \notin Windows(Nat)
  PROVE  LET chosen == SelectActive(manifest, t)
         IN  IF chosen = None THEN \A j \in DOMAIN manifest : ~Candidate(manifest[j], t)
             ELSE /\ \E i \in DOMAIN manifest : chosen = manifest[i]
                  /\ Candidate(chosen, t)
                  /\ \A j \in DOMAIN manifest :
                       Candidate(manifest[j], t) => AsGood(chosen, manifest[j], t)
<1> DEFINE len == Len(manifest)
<1>0. len \in Nat /\ DOMAIN manifest = 1 .. len
  OBVIOUS
<1>1. PICK best : /\ best = [n \in 0 .. len |-> Kept(manifest, t, best, n)]
                  /\ SelectActive(manifest, t) = best[len]
  BY <1>0, SelectActiveIs
<1> DEFINE Good(n) ==
             IF best[n] = None THEN \A j \in 1 .. n : ~Candidate(manifest[j], t)
             ELSE /\ \E i \in 1 .. n : best[n] = manifest[i]
                  /\ Candidate(best[n], t)
                  /\ \A j \in 1 .. n :
                       Candidate(manifest[j], t) => AsGood(best[n], manifest[j], t)
           T == {n \in 0 .. len : ~Good(n)}
<1>2. \A n \in 0 .. len : best[n] = Kept(manifest, t, best, n)
  BY <1>1
<1>3. \A j \in 1 .. len : manifest[j] \in Windows(Nat) /\ Resolves(manifest[j]) /\ manifest[j] # None
  BY <1>0 DEF WellFormed
<1> HIDE DEF len
<1>4. T = {}
  <2>1. SUFFICES ASSUME T # {} PROVE FALSE
    OBVIOUS
  <2>2. PICK n \in T : \A y \in T : n <= y
    <3>1. T \in SUBSET Nat
      BY <1>0
    <3> HIDE DEF T
    <3> QED BY <2>1, <3>1, LeastNat
  <2>3. n \in 0 .. len /\ n \in Nat /\ ~Good(n)
    BY <1>0, <2>2
  <2>4. CASE n = 0
    <3>1. best[0] = None
      BY <1>2, <2>3, <2>4 DEF Kept
    <3> QED BY <2>3, <2>4, <3>1
  <2>5. CASE n # 0
    <3> DEFINE w == manifest[n]
               v == best[n - 1]
    <3>1. n \in 1 .. len /\ n - 1 \in 0 .. len /\ n - 1 \notin T
      BY <1>0, <2>2, <2>3, <2>5
    <3>2. Good(n - 1)
      BY <3>1
    <3>3. /\ w \in Windows(Nat) /\ Resolves(w) /\ w # None
          /\ \A j \in 1 .. n : manifest[j] \in Windows(Nat) /\ Resolves(manifest[j])
          /\ \A j \in 1 .. n : j \in 1 .. n - 1 \/ j = n
      BY <1>0, <1>3, <3>1
    <3>4. best[n] = IF Candidate(w, t) /\ (v = None \/ Better(w, v, t)) THEN w ELSE v
      BY <1>2, <2>3, <2>5 DEF Kept
    <3>5. v # None => v \in Windows(Nat) /\ Resolves(v) /\ Candidate(v, t)
      BY <1>0, <1>3, <3>1, <3>2
    <3> HIDE DEF v, w
    <3>6. CASE ~Candidate(w, t)
      <4>1. best[n] = v
        BY <3>4, <3>6
      <4>2. Good(n)
        BY <3>1, <3>2, <3>3, <3>6, <4>1 DEF v, w
      <4> QED BY <2>3, <4>2
    <3>7. CASE Candidate(w, t) /\ v = None
      <4>1. best[n] = w
        BY <3>4, <3>7
      <4>2. AsGood(w, w, t)
        <5>1. HardEnd(w) \in Nat /\ SoftEnd(w) \in Nat \cup {None}
          BY <3>3, WindowFacts
        <5> QED BY <5>1 DEF AsGood
      <4>3. Good(n)
        BY <3>1, <3>2, <3>3, <3>7, <4>1, <4>2 DEF v, w
      <4> QED BY <2>3, <4>3
    <3>8. CASE Candidate(w, t) /\ v # None /\ Better(w, v, t)
      <4>1. best[n] = w /\ AsGood(w, v, t)
        BY <3>3, <3>4, <3>5, <3>8, BetterIsAsGood
      <4>2. AsGood(w, w, t)
        <5>1. HardEnd(w) \in Nat /\ SoftEnd(w) \in Nat \cup {None}
          BY <3>3, WindowFacts
        <5> QED BY <5>1 DEF AsGood
      <4>3. \A j \in 1 .. n - 1 : Candidate(manifest[j], t) => AsGood(w, manifest[j], t)
        <5>1. SUFFICES ASSUME NEW j \in 1 .. n - 1, Candidate(manifest[j], t)
                       PROVE  AsGood(w, manifest[j], t)
          OBVIOUS
        <5>2. AsGood(v, manifest[j], t) /\ manifest[j] \in Windows(Nat) /\ Resolves(manifest[j])
          BY <3>1, <3>2, <3>3, <3>8, <5>1 DEF v
        <5> QED BY <3>3, <3>5, <3>8, <4>1, <5>1, <5>2, AsGoodIsTransitive
      <4>4. Good(n)
        BY <3>1, <3>3, <3>8, <4>1, <4>2, <4>3 DEF w
      <4> QED BY <2>3, <4>4
    <3>9. CASE Candidate(w, t) /\ v # None /\ ~Better(w, v, t)
      <4>1. best[n] = v /\ AsGood(v, w, t)
        BY <3>3, <3>4, <3>5, <3>9, BetterIsAsGood
      <4>2. Good(n)
        BY <3>1, <3>2, <3>3, <3>9, <4>1 DEF v, w
      <4> QED BY <2>3, <4>2
    <3> QED BY <3>6, <3>7, <3>8, <3>9
  <2> QED BY <2>4, <2>5
<1>5. Good(len)
  BY <1>0, <1>4
<1> QED BY <1>0, <1>1, <1>5

\* A time that is rounded up to seconds is not too short, and not a second too
\* long.
LEMMA Rounding ==
  ASSUME NEW x \in Nat
  PROVE  LET n == AtLeastOne(CeilDiv(x, Second))
         IN  n \in Nat /\ x <= Second * n /\ Second * n <= x + Second
<1> DEFINE a == x + Second - 1
           q == a \div Second
<1>1. Second \in Nat /\ Second >= 1
  BY MaintenanceAssumption
<1>2. a \in Nat
  BY <1>1
<1> HIDE DEF a
<1>3. q \in Nat /\ Second * q <= a /\ a < Second * q + Second
  BY <1>1, <1>2
<1>4. CeilDiv(x, Second) = q
  BY DEF CeilDiv, a
<1> HIDE DEF q
<1>5. x <= Second * q /\ Second * q <= x + Second
  <2>1. Second * q \in Nat
    BY <1>1, <1>3
  <2> QED BY <1>1, <1>3, <2>1 DEF a
<1>6. CASE q < 1
  <2>1. q = 0 /\ AtLeastOne(q) = 1 /\ Second * 1 = Second
    BY <1>1, <1>3, <1>6 DEF AtLeastOne
  <2>2. x <= 0
    BY <1>1, <1>5, <2>1
  <2> QED BY <1>1, <1>4, <2>1, <2>2
<1>7. CASE ~(q < 1)
  BY <1>3, <1>4, <1>5, <1>7 DEF AtLeastOne
<1> QED BY <1>6, <1>7

\* For manifests of any length and any windows in them: requests are refused
\* exactly while a window of a verified file is in its hard phase, and who waits
\* for Retry-After has waited for every window in the phase (select_active,
\* refuse_if_maintenance and retry_after_secs).
THEOREM RefusedExactly ==
  ASSUME None \notin Windows(Nat),
         rule = "maintenance" =>
           /\ input.now \in Nat
           /\ input.file # None => input.file \in [windows : Seq(Windows(Nat)), signed : BOOLEAN]
  PROVE  RefusedWhileHard
<1> SUFFICES ASSUME rule = "maintenance" PROVE RefusedWhileHard
  BY DEF RefusedWhileHard
<1> DEFINE manifest == Loaded(input.file)
           now      == input.now
           chosen   == SelectActive(manifest, now)
           end(w)   == IF Phase(w, now) = "hard" THEN HardEnd(w) ELSE SoftEnd(w)
           back     == now + Second * RetryAfter(chosen, now)
<1>1. /\ now \in Nat /\ manifest \in Seq(Windows(Nat)) /\ WellFormed(manifest)
      /\ manifest = IF input.file # None /\ Verified(input.file) THEN input.file.windows ELSE <<>>
  BY DEF Loaded, Verified, WellFormed
<1> HIDE DEF now, manifest
<1>2. IF chosen = None THEN \A j \in DOMAIN manifest : ~Candidate(manifest[j], now)
      ELSE /\ \E i \in DOMAIN manifest : chosen = manifest[i]
           /\ Candidate(chosen, now)
           /\ \A j \in DOMAIN manifest :
                Candidate(manifest[j], now) => AsGood(chosen, manifest[j], now)
  BY <1>1, BestOfAll
<1>3. \A j \in DOMAIN manifest : manifest[j] \in Windows(Nat) /\ Resolves(manifest[j])
  BY <1>1 DEF WellFormed
<1> HIDE DEF chosen
<1>4. /\ chosen # None => chosen \in Windows(Nat) /\ Resolves(chosen)
      /\ chosen # None => chosen.scope = "fleet" /\ Phase(chosen, now) \in {"hard", "soft"}
  BY <1>1, <1>2, <1>3, WindowFacts DEF Candidate
<1>5. RefuseIfMaintenance(manifest, now) <=> chosen # None /\ Phase(chosen, now) = "hard"
  BY DEF RefuseIfMaintenance, chosen
<1>6. RefuseIfMaintenance(manifest, now) <=> InPhase(manifest, now, "hard") # {}
  <2>1. ASSUME chosen # None, Phase(chosen, now) = "hard" PROVE chosen \in InPhase(manifest, now, "hard")
    BY <1>2, <1>4, <2>1 DEF InPhase
  <2>2. ASSUME NEW w \in InPhase(manifest, now, "hard")
        PROVE  chosen # None /\ Phase(chosen, now) = "hard"
    <3>1. PICK j \in DOMAIN manifest : w = manifest[j] /\ w.scope = "fleet" /\ Phase(w, now) = "hard"
      BY DEF InPhase
    <3>2. Candidate(manifest[j], now)
      BY <3>1 DEF Candidate
    <3> QED BY <1>2, <3>1, <3>2 DEF AsGood
  <2> QED BY <1>5, <2>1, <2>2
<1>7. InPhase(manifest, now, "hard") # {} <=>
        /\ input.file # None
        /\ Verified(input.file)
        /\ InPhase(input.file.windows, now, "hard") # {}
  BY <1>1 DEF InPhase
<1>8. ASSUME chosen # None, end(chosen) # None
      PROVE  /\ end(chosen) \in Nat /\ end(chosen) <= back /\ back \in Nat
             /\ back <= end(chosen) + Second
  <2>1. end(chosen) \in Nat /\ now <= end(chosen)
    BY <1>1, <1>4, <1>8, WindowFacts
  <2> DEFINE x == end(chosen) - now
  <2>2. x \in Nat /\ now + x = end(chosen)
    BY <1>1, <2>1
  <2>3. RetryAfter(chosen, now) = AtLeastOne(CeilDiv(x, Second))
    BY <1>4, <1>8 DEF RetryAfter
  <2> DEFINE r == RetryAfter(chosen, now)
  <2> HIDE DEF x, r
  <2>4. r \in Nat /\ x <= Second * r /\ Second * r <= x + Second
    BY <2>2, <2>3, Rounding DEF r
  <2>5. Second * r \in Nat /\ Second \in Nat
    BY <2>4, MaintenanceAssumption
  <2>6. back = now + Second * r
    BY DEF r
  <2> HIDE DEF back, end
  <2> QED BY <1>1, <2>1, <2>2, <2>4, <2>5, <2>6
<1>9. ASSUME chosen # None, end(chosen) # None,
             NEW w \in InPhase(manifest, now, Phase(chosen, now))
      PROVE  end(w) <= back
  <2>1. PICK j \in DOMAIN manifest :
               w = manifest[j] /\ w.scope = "fleet" /\ Phase(w, now) = Phase(chosen, now)
    BY DEF InPhase
  <2>2. Candidate(w, now) /\ AsGood(chosen, w, now)
    BY <1>2, <1>4, <1>9, <2>1 DEF Candidate
  <2>3. HardEnd(w) \in Nat /\ SoftEnd(w) \in Nat \cup {None}
    BY <1>1, <1>3, <2>1, WindowFacts
  <2>4. end(w) \in Nat /\ end(w) <= end(chosen)
    BY <1>4, <1>9, <2>1, <2>2, <2>3 DEF AsGood
  <2>5. end(chosen) \in Nat /\ end(chosen) <= back /\ back \in Nat
    BY <1>8, <1>9
  <2> HIDE DEF back, end
  <2> QED BY <2>4, <2>5
<1> QED
  BY <1>6, <1>7, <1>8, <1>9 DEF RefusedWhileHard, manifest, now, chosen
-----------------------------------------------------------------------------
(***************************************************************************)
(* The quota                                                               *)
(***************************************************************************)

\* The sum of a sequence is the sum of all but its last, and the last.
LEMMA TotalIs ==
  ASSUME NEW s \in Seq(Nat)
  PROVE  \E sum : /\ sum = [n \in 0 .. Len(s) |-> IF n = 0 THEN 0 ELSE sum[n - 1] + s[n]]
                  /\ Total(s) = sum[Len(s)]
<1> DEFINE Sums(f, k) == f = [n \in 0 .. k |-> IF n = 0 THEN 0 ELSE f[n - 1] + s[n]]
           Sum == CHOOSE f : Sums(f, Len(s))
           T == {k \in Nat : ~\E f : Sums(f, k)}
<1>1. Total(s) = Sum[Len(s)]
  BY DEF Total
<1>2. T = {}
  <2>1. SUFFICES ASSUME T # {} PROVE FALSE
    OBVIOUS
  <2>2. PICK k \in T : \A y \in T : k <= y
    <3>1. T \in SUBSET Nat
      OBVIOUS
    <3> HIDE DEF T
    <3> QED BY <2>1, <3>1, LeastNat
  <2>3. CASE k = 0
    <3> DEFINE f == [n \in 0 .. 0 |-> 0]
    <3>1. Sums(f, 0)
      OBVIOUS
    <3> QED BY <2>3, <3>1
  <2>4. CASE k # 0
    <3>1. k \in Nat /\ k - 1 \in Nat /\ k - 1 \notin T
      <4>1. k \in Nat
        OBVIOUS
      <4> HIDE DEF T
      <4> QED BY <2>2, <2>4, <4>1
    <3>2. PICK f : Sums(f, k - 1)
      BY <3>1
    <3> DEFINE g == [n \in 0 .. k |-> IF n = k THEN f[k - 1] + s[k] ELSE f[n]]
    <3>3. \A n \in 0 .. k : n # k => g[n] = f[n]
      OBVIOUS
    <3>4. \A n \in 0 .. k : n # k => f[n] = IF n = 0 THEN 0 ELSE f[n - 1] + s[n]
      BY <3>1, <3>2
    <3>5. \A n \in 0 .. k : n # 0 => n - 1 \in 0 .. k /\ n - 1 # k
      BY <3>1
    <3>6. \A n \in 0 .. k : n # 0 => g[n - 1] = f[n - 1]
      BY <3>3, <3>5
    <3>7. g[k] = f[k - 1] + s[k]
      BY <3>1
    <3>8. \A n \in 0 .. k : g[n] = IF n = 0 THEN 0 ELSE g[n - 1] + s[n]
      BY <2>4, <3>3, <3>4, <3>6, <3>7
    <3>9. Sums(g, k)
      BY <3>8
    <3> QED BY <3>9
  <2> QED BY <2>3, <2>4
<1>3. \E f : Sums(f, Len(s))
  BY <1>2
<1>4. Sums(Sum, Len(s))
  BY <1>3
<1> HIDE DEF Sum
<1> QED BY <1>1, <1>4

LEMMA TotalType ==
  ASSUME NEW s \in Seq(Nat)
  PROVE  Total(s) \in Nat
<1>1. PICK sum : /\ sum = [n \in 0 .. Len(s) |-> IF n = 0 THEN 0 ELSE sum[n - 1] + s[n]]
                 /\ Total(s) = sum[Len(s)]
  BY TotalIs
<1> DEFINE T == {n \in 0 .. Len(s) : sum[n] \notin Nat}
<1>2. \A n \in 0 .. Len(s) : sum[n] = IF n = 0 THEN 0 ELSE sum[n - 1] + s[n]
  BY <1>1
<1>3. T = {}
  <2>1. SUFFICES ASSUME T # {} PROVE FALSE
    OBVIOUS
  <2>2. PICK n \in T : \A y \in T : n <= y
    <3>1. T \in SUBSET Nat
      OBVIOUS
    <3> HIDE DEF T
    <3> QED BY <2>1, <3>1, LeastNat
  <2>3. n # 0
    BY <1>2, <2>2
  <2>4. n \in 1 .. Len(s) /\ n - 1 \in 0 .. Len(s) /\ n - 1 \notin T
    BY <2>2, <2>3
  <2>5. sum[n - 1] \in Nat /\ s[n] \in Nat /\ sum[n] = sum[n - 1] + s[n]
    BY <1>2, <2>3, <2>4
  <2> QED BY <2>2, <2>5
<1>4. Len(s) \in 0 .. Len(s)
  OBVIOUS
<1>5. sum[Len(s)] \in Nat
  BY <1>3, <1>4
<1> QED BY <1>1, <1>5

LEMMA TotalOfLonger ==
  ASSUME NEW s \in Seq(Nat), NEW x \in Nat
  PROVE  Total(s) <= Total(Append(s, x))
<1> DEFINE l == Append(s, x)
<1>0. l \in Seq(Nat) /\ Len(l) = Len(s) + 1 /\ l[Len(s) + 1] = x /\ Len(s) \in Nat
      /\ \A n \in 1 .. Len(s) : l[n] = s[n]
  OBVIOUS
<1> HIDE DEF l
<1>1. PICK f : /\ f = [n \in 0 .. Len(s) |-> IF n = 0 THEN 0 ELSE f[n - 1] + s[n]]
               /\ Total(s) = f[Len(s)]
  BY TotalIs
<1>2. PICK g : /\ g = [n \in 0 .. Len(l) |-> IF n = 0 THEN 0 ELSE g[n - 1] + l[n]]
               /\ Total(l) = g[Len(l)]
  BY <1>0, TotalIs
<1>3. /\ \A n \in 0 .. Len(s) : f[n] = IF n = 0 THEN 0 ELSE f[n - 1] + s[n]
      /\ \A n \in 0 .. Len(l) : g[n] = IF n = 0 THEN 0 ELSE g[n - 1] + l[n]
  BY <1>1, <1>2
<1> DEFINE T == {n \in 0 .. Len(s) : f[n] # g[n]}
<1>4. T = {}
  <2>1. SUFFICES ASSUME T # {} PROVE FALSE
    OBVIOUS
  <2>2. PICK n \in T : \A y \in T : n <= y
    <3>1. T \in SUBSET Nat
      OBVIOUS
    <3> HIDE DEF T
    <3> QED BY <2>1, <3>1, LeastNat
  <2>3. n \in 0 .. Len(s) /\ n \in 0 .. Len(l) /\ f[n] # g[n]
    BY <1>0, <2>2
  <2>4. n # 0
    BY <1>3, <2>3
  <2>5. n \in 1 .. Len(s) /\ n - 1 \in 0 .. Len(s) /\ n - 1 \notin T
    BY <2>2, <2>3, <2>4
  <2>6. f[n - 1] = g[n - 1] /\ s[n] = l[n]
    BY <1>0, <2>5
  <2>7. f[n] = g[n]
    BY <1>3, <2>3, <2>4, <2>6
  <2> QED BY <2>3, <2>7
<1>5. Total(l) = g[Len(s)] + x
  <2>1. Len(l) \in 0 .. Len(l) /\ Len(l) # 0 /\ Len(l) - 1 = Len(s)
    BY <1>0
  <2>2. g[Len(l)] = g[Len(l) - 1] + l[Len(l)]
    BY <1>3, <2>1
  <2> QED BY <1>0, <1>2, <2>1, <2>2
<1>6. g[Len(s)] = Total(s)
  <2>0. Len(s) \in 0 .. Len(s)
    BY <1>0
  <2>1. Len(s) \in 0 .. Len(s) /\ Len(s) \notin T
    BY <1>4, <2>0
  <2> QED BY <1>1, <2>1
<1>7. Total(s) \in Nat
  BY TotalType
<1> QED BY <1>5, <1>6, <1>7 DEF l

\* The names of models; policies and bodies of any size.
ModelNames == {"*", "m", "other"}

AnyPolicy == [models : SUBSET ModelNames, remaining : Nat \cup {Unset}, maxContext : Nat \cup {Unset}]

AnyContent == [kind : {"text", "other"}, length : Nat] \cup [kind : {"parts"}, parts : Seq(Nat)]

AnyBody ==
  [json : BOOLEAN, model : ModelNames, messages : Seq(AnyContent) \cup {Unset},
   input : AnyContent \cup {Unset}, prompt : AnyContent \cup {Unset}, length : Nat]

LEMMA ContentType == ASSUME NEW c \in AnyContent PROVE ContentChars(c) \in Nat
<1>1. CASE c.kind = "parts"
  <2>1. c.parts \in Seq(Nat)
    BY <1>1 DEF AnyContent
  <2> QED BY <1>1, <2>1, TotalType DEF ContentChars
<1>2. CASE c.kind # "parts"
  <2>1. c.length \in Nat
    BY <1>2 DEF AnyContent
  <2> QED BY <1>2, <2>1 DEF ContentChars
<1> QED BY <1>1, <1>2

\* The lengths of the messages.
Chars(messages) == [i \in DOMAIN messages |-> ContentChars(messages[i])]

LEMMA CharsType ==
  ASSUME NEW s \in Seq(AnyContent), NEW c \in AnyContent
  PROVE  /\ Chars(s) \in Seq(Nat)
         /\ Chars(Append(s, c)) = Append(Chars(s), ContentChars(c))
<1>0. \A x \in AnyContent : ContentChars(x) \in Nat
  BY ContentType
<1>1. Chars(s) \in Seq(Nat) /\ Len(Chars(s)) = Len(s)
  BY <1>0 DEF Chars
<1> DEFINE l == Append(s, c)
           r == Append(Chars(s), ContentChars(c))
<1>2. l \in Seq(AnyContent) /\ DOMAIN l = 1 .. Len(s) + 1 /\ l[Len(s) + 1] = c
      /\ \A i \in 1 .. Len(s) : l[i] = s[i]
  OBVIOUS
<1>3. r \in Seq(Nat) /\ DOMAIN r = 1 .. Len(s) + 1 /\ r[Len(s) + 1] = ContentChars(c)
      /\ \A i \in 1 .. Len(s) : r[i] = Chars(s)[i]
  BY <1>0, <1>1
<1>4. \A i \in 1 .. Len(s) : Chars(s)[i] = ContentChars(s[i])
  BY DEF Chars
<1> HIDE DEF l, r
<1>5. Chars(l) = [i \in 1 .. Len(s) + 1 |-> ContentChars(l[i])]
  BY <1>2 DEF Chars
<1>6. r = [i \in 1 .. Len(s) + 1 |-> r[i]]
  BY <1>3
<1>7. \A i \in 1 .. Len(s) + 1 : r[i] = ContentChars(l[i])
  <2>1. SUFFICES ASSUME NEW i \in 1 .. Len(s) + 1 PROVE r[i] = ContentChars(l[i])
    OBVIOUS
  <2>2. CASE i \in 1 .. Len(s)
    BY <1>2, <1>3, <1>4, <2>2
  <2>3. CASE i = Len(s) + 1
    BY <1>2, <1>3, <2>3
  <2> QED BY <2>2, <2>3
<1>8. Chars(l) = r
  BY <1>5, <1>6, <1>7
<1> QED BY <1>1, <1>8 DEF l, r

\* The estimate grows with the prompt.
LEMMA EstimateGrows ==
  ASSUME NEW body \in AnyBody, NEW c \in AnyContent, body.messages # Unset,
         Unset \notin Seq(AnyContent)
  PROVE  LET longer == [body EXCEPT !.messages = Append(@, c)]
         IN  /\ EstimatePromptTokens(body) \in Nat
             /\ EstimatePromptTokens(longer) \in Nat
             /\ EstimatePromptTokens(body) <= EstimatePromptTokens(longer)
<1> DEFINE s == body.messages
           longer == [body EXCEPT !.messages = Append(@, c)]
<1>1. s \in Seq(AnyContent) /\ body.json \in BOOLEAN /\ body.length \in Nat
  BY DEF AnyBody
<1>2. /\ longer.json = body.json /\ longer.length = body.length
      /\ longer.messages = Append(s, c)
  BY DEF AnyBody
<1>3. Append(s, c) \in Seq(AnyContent) /\ Append(s, c) # Unset
  <2> HIDE DEF s, longer
  <2>1. Append(s, c) \in Seq(AnyContent)
    BY <1>1
  <2> QED BY <2>1
<1>4. ContentChars(c) \in Nat
  BY ContentType
<1> HIDE DEF s, longer
<1>5. /\ Total(Chars(s)) \in Nat /\ Total(Chars(Append(s, c))) \in Nat
      /\ Total(Chars(s)) <= Total(Chars(Append(s, c)))
  <2>1. Chars(s) \in Seq(Nat) /\ Chars(Append(s, c)) = Append(Chars(s), ContentChars(c))
    BY <1>1, CharsType
  <2>2. Append(Chars(s), ContentChars(c)) \in Seq(Nat)
    BY <1>4, <2>1
  <2> QED BY <1>4, <2>1, <2>2, TotalType, TotalOfLonger
<1>6. PromptChars(body) = IF body.json THEN Total(Chars(s)) ELSE body.length
  BY <1>1 DEF PromptChars, Chars, s
<1>7. PromptChars(longer) = IF body.json THEN Total(Chars(Append(s, c))) ELSE body.length
  <2>1. longer.messages # Unset
    BY <1>2, <1>3
  <2>2. CASE body.json
    BY <1>2, <2>1, <2>2 DEF PromptChars, Chars
  <2>3. CASE ~body.json
    BY <1>2, <2>1, <2>3 DEF PromptChars
  <2> QED BY <1>1, <2>2, <2>3
<1>8. /\ PromptChars(body) \in Nat /\ PromptChars(longer) \in Nat
      /\ PromptChars(body) <= PromptChars(longer)
  BY <1>1, <1>5, <1>6, <1>7
<1>9. \A m, n \in Nat : m <= n => /\ Max2(m \div 4, 1) \in Nat /\ Max2(n \div 4, 1) \in Nat
                                  /\ Max2(m \div 4, 1) <= Max2(n \div 4, 1)
  BY DEF Max2
<1> QED BY <1>8, <1>9 DEF EstimatePromptTokens, longer

LEMMA EstimateType ==
  ASSUME NEW body \in AnyBody
  PROVE  EstimatePromptTokens(body) \in Nat
<1>1. PromptChars(body) \in Nat
  <2>1. body.json \in BOOLEAN /\ body.length \in Nat
    BY DEF AnyBody
  <2>2. CASE ~body.json
    BY <2>1, <2>2 DEF PromptChars
  <2>3. CASE body.json /\ body.messages # Unset
    <3>1. body.messages \in Seq(AnyContent)
      BY <2>3 DEF AnyBody
    <3>2. Chars(body.messages) \in Seq(Nat)
      BY <3>1, ContentType DEF Chars
    <3> QED BY <2>3, <3>2, TotalType DEF PromptChars, Chars
  <2>4. CASE body.json /\ body.messages = Unset /\ body.input # Unset
    <3>1. body.input \in AnyContent
      BY <2>4 DEF AnyBody
    <3> QED BY <2>4, <3>1, ContentType DEF PromptChars
  <2>5. CASE body.json /\ body.messages = Unset /\ body.input = Unset
    <3>1. body.prompt # Unset => body.prompt \in AnyContent
      BY DEF AnyBody
    <3> QED BY <2>1, <2>5, <3>1, ContentType DEF PromptChars
  <2> QED BY <2>1, <2>2, <2>3, <2>4, <2>5
<1> QED BY <1>1 DEF EstimatePromptTokens, Max2

\* A smaller budget or a larger prompt does not get through where the other did
\* not: the limit for large prompts on a tight budget does not turn round.
LEMMA QuotaIsMonotone ==
  ASSUME Unset \notin Nat, NEW p \in AnyPolicy, NEW q \in AnyPolicy, NEW m \in Nat, NEW n \in Nat,
         m <= n, q.maxContext = p.maxContext,
         q.remaining = p.remaining
           \/ (p.remaining \in Nat /\ q.remaining \in Nat /\ q.remaining < p.remaining),
         EnforceTokenQuota(q, n), EnforceMaxContext(q, n)
  PROVE  EnforceTokenQuota(p, m) /\ EnforceMaxContext(p, m)
<1>1. p.remaining \in Nat \cup {Unset} /\ p.maxContext \in Nat \cup {Unset}
  BY DEF AnyPolicy
<1>2. EnforceMaxContext(p, m)
  BY <1>1 DEF EnforceMaxContext
<1>3. CASE p.remaining = Unset
  BY <1>2, <1>3 DEF EnforceTokenQuota
<1>4. CASE p.remaining \in Nat
  <2> DEFINE a == p.remaining
             b == q.remaining
  <2>1. a \in Nat /\ b \in Nat /\ b <= a
    BY <1>4
  <2>2. b # 0 /\ n <= b /\ ~(b < 32000 /\ n >= 8000)
    BY <2>1, SMT DEF EnforceTokenQuota, TightRemainingTokens, LargePromptTokens
  <2> HIDE DEF a, b
  <2>3. a # 0 /\ m <= a /\ ~(a < 32000 /\ m >= 8000)
    BY <2>1, <2>2, SMT
  <2> QED BY <1>2, <2>3, SMT DEF EnforceTokenQuota, TightRemainingTokens, LargePromptTokens, a
<1> QED BY <1>1, <1>3, <1>4

QuotaInv ==
  rule = "quota" => input \in [policy : AnyPolicy, body : AnyBody]

LEMMA InitQuotaInv == RulesInit => QuotaInv
<1> SUFFICES ASSUME RulesInit, rule = "quota" PROVE QuotaInv
  BY DEF QuotaInv
<1>1. InitQuota
  BY DEF RulesInit, InitMaintenance, InitBoot, InitSeal, InitChallenge, InitPeer, InitCalendar,
         InitUsage, InitRequest, InitReply
<1>2. PICK p \in KeyPolicies, b \in Bodies : input = [policy |-> p, body |-> b]
  BY <1>1 DEF InitQuota
<1>3. p \in AnyPolicy
  <2>1. /\ p = [models |-> p.models, remaining |-> p.remaining, maxContext |-> p.maxContext]
        /\ p.models \in {{"*"}, {"other"}} /\ p.remaining \in Budgets
        /\ p.maxContext \in {Unset, 8000, 32000}
    BY <1>2, SMT DEF KeyPolicies
  <2>2. Budgets \subseteq Nat \cup {Unset} /\ {Unset, 8000, 32000} \subseteq Nat \cup {Unset}
    BY SMT DEF Budgets
  <2>3. {"*"} \in SUBSET ModelNames /\ {"other"} \in SUBSET ModelNames
    BY DEF ModelNames
  <2>4. p.models \in SUBSET ModelNames
    <3>1. p.models = {"*"} \/ p.models = {"other"}
      BY <2>1
    <3> QED BY <2>3, <3>1
  <2> QED BY <2>1, <2>2, <2>4 DEF AnyPolicy
<1>4. b \in AnyBody
  <2>1. PICK n \in Lengths : b \in BodiesOf(n)
    BY <1>2, Zenon DEF Bodies
  <2>2. n \in Nat
    BY SMT DEF Lengths
  <2>3. /\ Text(n) \in AnyContent /\ Text(5) \in AnyContent /\ Text(7) \in AnyContent
        /\ [kind |-> "parts", parts |-> <<n, 0>>] \in AnyContent
    BY <2>2, SMT DEF Text, AnyContent
  <2>4. /\ <<Text(n)>> \in Seq(AnyContent)
        /\ <<Text(5), [kind |-> "parts", parts |-> <<n, 0>>]>> \in Seq(AnyContent)
    BY <2>3, SMT
  <2>5. BaseBody \in AnyBody
    <3> DEFINE big == 200000
    <3>1. big \in Nat
      BY SMT
    <3>2. "m" \in ModelNames
      BY DEF ModelNames
    <3> HIDE DEF big
    <3>3. [json |-> TRUE, model |-> "m", messages |-> Unset, input |-> Unset, prompt |-> Unset,
           length |-> big] \in AnyBody
      BY <3>1, <3>2, Zenon DEF AnyBody
    <3> QED BY <3>3 DEF BaseBody, big
  <2>6. \A m \in Seq(AnyContent) : [BaseBody EXCEPT !.messages = m] \in AnyBody
    BY <2>5, SMT DEF AnyBody
  <2>7. \A i, r \in AnyContent : [BaseBody EXCEPT !.input = i, !.prompt = r] \in AnyBody
    <3>1. SUFFICES ASSUME NEW i \in AnyContent, NEW r \in AnyContent
                   PROVE  [BaseBody EXCEPT !.input = i, !.prompt = r] \in AnyBody
      OBVIOUS
    <3> DEFINE one == [BaseBody EXCEPT !.input = i]
    <3>2. one \in AnyBody
      BY <2>5, SMT DEF AnyBody
    <3> HIDE DEF one
    <3>3. [one EXCEPT !.prompt = r] \in AnyBody
      BY <3>2, SMT DEF AnyBody
    <3> QED BY <3>3, SMT DEF one
  <2>8. \A r \in AnyContent : [BaseBody EXCEPT !.prompt = r] \in AnyBody
    BY <2>5, SMT DEF AnyBody
  <2>9. /\ [BaseBody EXCEPT !.length = n] \in AnyBody
        /\ [BaseBody EXCEPT !.json = FALSE, !.length = n] \in AnyBody
    <3> DEFINE one == [BaseBody EXCEPT !.json = FALSE]
    <3>0. [BaseBody EXCEPT !.length = n] \in AnyBody
      BY <2>2, <2>5, SMT DEF AnyBody
    <3>1. one \in AnyBody
      BY <2>5, Zenon DEF AnyBody
    <3> HIDE DEF one
    <3>2. [one EXCEPT !.length = n] \in AnyBody
      BY <2>2, <3>1, SMT DEF AnyBody
    <3> QED BY <3>0, <3>2, SMT DEF one
  <2>10. /\ [BaseBody EXCEPT !.messages = <<Text(n)>>] \in AnyBody
         /\ [BaseBody EXCEPT !.messages = <<Text(5), [kind |-> "parts", parts |-> <<n, 0>>]>>]
              \in AnyBody
    BY <2>4, <2>6
  <2>11. /\ [BaseBody EXCEPT !.input = Text(n), !.prompt = Text(7)] \in AnyBody
         /\ [BaseBody EXCEPT !.prompt = Text(n)] \in AnyBody
    BY <2>3, <2>7, <2>8
  <2> QED BY <2>1, <2>9, <2>10, <2>11, Zenon DEF BodiesOf
<1> QED BY <1>2, <1>3, <1>4 DEF QuotaInv

\* What a step of the walk does to a policy or to a body.
LEMMA QuotaStep ==
  ASSUME QuotaInv, [RulesNext]_<<rule, input>>, rule = "quota", Unset \notin Nat,
         input' # input
  PROVE  /\ rule' = "quota"
         /\ \/ \E left \in Nat :
                 /\ input.policy.remaining \in Nat /\ left < input.policy.remaining
                 /\ input'.policy = [input.policy EXCEPT !.remaining = left]
                 /\ input'.body = input.body
            \/ \E c \in AnyContent :
                 /\ input.body.messages # Unset
                 /\ input'.body = [input.body EXCEPT !.messages = Append(@, c)]
                 /\ input'.policy = input.policy
         /\ input' \in [policy : AnyPolicy, body : AnyBody]
<1>0. input \in [policy : AnyPolicy, body : AnyBody]
  BY DEF QuotaInv
<1>1. Spend \/ Lengthen
  BY DEF RulesNext, TimePasses, SetVariable, Restart, Damage, NextDay, ExchangePart, Rewrap, Relabel,
         Relay, ReadMore, BytesCome
<1>2. CASE Spend
  <2>1. PICK left \in Budgets \ {Unset} :
             left < input.policy.remaining /\ input' = [input EXCEPT !.policy.remaining = left]
    BY <1>2 DEF Spend
  <2>2. left \in Nat
    BY <2>1, SMT DEF Budgets
  <2>3. input.policy \in AnyPolicy /\ input.policy.remaining \in Nat
    BY <1>0, <1>2 DEF Spend, AnyPolicy
  <2>4. input'.policy = [input.policy EXCEPT !.remaining = left] /\ input'.body = input.body
    BY <1>0, <2>1
  <2>5. [input.policy EXCEPT !.remaining = left] \in AnyPolicy
    BY <2>2, <2>3 DEF AnyPolicy
  <2>6. input' \in [policy : AnyPolicy, body : AnyBody]
    BY <1>0, <2>1, <2>5
  <2>7. rule' = "quota"
    BY <1>2 DEF Spend
  <2> QED BY <2>1, <2>2, <2>3, <2>4, <2>6, <2>7
<1>3. CASE Lengthen
  <2>1. PICK n \in Lengths :
          input' = [input EXCEPT !.body.messages = Append(@, [kind |-> "parts", parts |-> <<n, 1>>])]
    BY <1>3 DEF Lengthen
  <2> DEFINE c == [kind |-> "parts", parts |-> <<n, 1>>]
  <2>2. c \in AnyContent
    <3>1. n \in Nat
      BY SMT DEF Lengths
    <3> QED BY <3>1 DEF AnyContent
  <2>3. input.body \in AnyBody /\ input.body.messages # Unset /\ rule' = "quota"
    BY <1>0, <1>3 DEF Lengthen
  <2> HIDE DEF c
  <2>4. input' = [input EXCEPT !.body.messages = Append(@, c)]
    BY <2>1 DEF c
  <2>5. /\ input'.body = [input.body EXCEPT !.messages = Append(@, c)]
        /\ input'.policy = input.policy
    BY <1>0, <2>4
  <2>6. [input.body EXCEPT !.messages = Append(@, c)] \in AnyBody
    <3>1. Append(input.body.messages, c) \in Seq(AnyContent)
      BY <2>2, <2>3 DEF AnyBody
    <3> QED BY <2>3, <3>1 DEF AnyBody
  <2>7. input' \in [policy : AnyPolicy, body : AnyBody]
    BY <1>0, <2>4, <2>6
  <2> QED BY <2>2, <2>3, <2>5, <2>7
<1> QED BY <1>1, <1>2, <1>3

LEMMA NextQuotaInv ==
  ASSUME Unset \notin Nat
  PROVE  QuotaInv /\ [RulesNext]_<<rule, input>> => QuotaInv'
<1> SUFFICES ASSUME QuotaInv, [RulesNext]_<<rule, input>>, rule' = "quota" PROVE QuotaInv'
  BY DEF QuotaInv
<1>1. rule = "quota"
  BY DEF RulesNext, TimePasses, SetVariable, Restart, Damage, NextDay, ExchangePart, Rewrap, Relabel,
         Spend, Lengthen, Relay, ReadMore, BytesCome
<1>2. CASE input' = input
  BY <1>1, <1>2 DEF QuotaInv
<1>3. CASE input' # input
  BY <1>1, <1>3, QuotaStep DEF QuotaInv
<1> QED BY <1>2, <1>3

LEMMA RefusalStays ==
  ASSUME Unset \notin Nat, Unset \notin Seq(AnyContent),
         QuotaInv, [RulesNext]_<<rule, input>>, rule = "quota",
         PolicyAdmits(input'.policy, input'.body)
  PROVE  PolicyAdmits(input.policy, input.body)
<1>0. input.policy \in AnyPolicy /\ input.body \in AnyBody
  BY DEF QuotaInv
<1>1. CASE input' = input
  BY <1>1
<1>2. CASE input' # input
  <2> DEFINE p == input.policy
             b == input.body
             q == input'.policy
             l == input'.body
             m == EstimatePromptTokens(b)
             n == EstimatePromptTokens(l)
  <2>1. /\ AllowsModel(q, l.model) /\ EnforceTokenQuota(q, n) /\ EnforceMaxContext(q, n)
    BY DEF PolicyAdmits
  <2>2. q \in AnyPolicy /\ l \in AnyBody
    BY <1>2, QuotaStep
  <2>3. /\ m \in Nat /\ n \in Nat /\ m <= n
        /\ q.maxContext = p.maxContext /\ q.models = p.models /\ l.model = b.model
        /\ \/ q.remaining = p.remaining
           \/ p.remaining \in Nat /\ q.remaining \in Nat /\ q.remaining < p.remaining
    <3>1. CASE \E left \in Nat :
                 /\ p.remaining \in Nat /\ left < p.remaining
                 /\ q = [p EXCEPT !.remaining = left]
                 /\ l = b
      <4>1. m \in Nat /\ n = m
        BY <1>0, <3>1, EstimateType
      <4>2. PICK left \in Nat : p.remaining \in Nat /\ left < p.remaining
                                /\ q = [p EXCEPT !.remaining = left]
        BY <3>1
      <4>3. q.maxContext = p.maxContext /\ q.models = p.models /\ q.remaining = left
        BY <1>0, <4>2 DEF AnyPolicy
      <4> QED BY <3>1, <4>1, <4>2, <4>3
    <3>2. CASE \E c \in AnyContent :
                 /\ b.messages # Unset
                 /\ l = [b EXCEPT !.messages = Append(@, c)]
                 /\ q = p
      <4>1. m \in Nat /\ n \in Nat /\ m <= n
        BY <1>0, <3>2, EstimateGrows
      <4>2. l.model = b.model
        BY <1>0, <3>2 DEF AnyBody
      <4> QED BY <3>2, <4>1, <4>2
    <3> QED BY <1>2, <3>1, <3>2, QuotaStep
  <2> HIDE DEF p, b, q, l, m, n
  <2>4. p \in AnyPolicy
    BY <1>0 DEF p
  <2>5. EnforceTokenQuota(p, m) /\ EnforceMaxContext(p, m)
    BY <2>1, <2>2, <2>3, <2>4, QuotaIsMonotone
  <2>6. AllowsModel(p, b.model)
    BY <2>1, <2>3 DEF AllowsModel
  <2> QED BY <2>5, <2>6 DEF PolicyAdmits, p, b, m
<1> QED BY <1>1, <1>2

\* A refused prompt stays refused: for prompts and budgets of any size less
\* budget or more messages never get it through (enforce_token_quota and
\* enforce_max_context).
THEOREM RefusalsStay ==
  ASSUME Unset \notin Nat, Unset \notin Seq(AnyContent)
  PROVE  RulesSpec => RefusalsPersist
<1>1. RulesInit => QuotaInv
  BY InitQuotaInv
<1>2. QuotaInv /\ [RulesNext]_<<rule, input>> => QuotaInv'
  BY NextQuotaInv
<1>3. QuotaInv /\ [RulesNext]_<<rule, input>> =>
        [rule = "quota" /\ ~PolicyAdmits(input.policy, input.body)
           => ~PolicyAdmits(input'.policy, input'.body)]_<<rule, input>>
  BY RefusalStays
<1> QED BY <1>1, <1>2, <1>3, PTL DEF RulesSpec, RefusalsPersist

-----------------------------------------------------------------------------
(***************************************************************************)
(* Where messages end: requests.                                           *)
(***************************************************************************)

LEMMA MinIs ==
  ASSUME NEW S \in SUBSET Nat, S # {}
  PROVE  Min(S) \in S /\ \A y \in S : Min(S) <= y
<1>1. \E x \in S : \A y \in S : x <= y
  BY LeastNat
<1> QED BY <1>1 DEF Min

\* A header as the edge has parsed it.
AnyLine == [name : STRING, wellFormed : BOOLEAN, number : Nat]

AnyRequest == [head : Nat, lines : Seq(AnyLine), total : Nat]



LEMMA LengthsFinite ==
  ASSUME NEW lines \in Seq(AnyLine)
  PROVE  /\ LengthLines(lines) \in SUBSET Nat
         /\ IsFiniteSet(LengthLines(lines))
<1>1. DOMAIN lines = 1 .. Len(lines) /\ Len(lines) \in Nat
  OBVIOUS
<1>2. IsFiniteSet(DOMAIN lines)
  BY <1>1, FS_Interval
<1>3. LengthLines(lines) \subseteq DOMAIN lines
  BY DEF LengthLines
<1> QED BY <1>1, <1>2, <1>3, FS_Subset

\* Two headers with a length are one too many, whichever way they are counted.
LEMMA OneLength ==
  ASSUME NEW lines \in Seq(AnyLine)
  PROVE  Cardinality(LengthLines(lines)) <= 1 <=>
           \A i, j \in LengthLines(lines) : i = j
<1> DEFINE L == LengthLines(lines)
<1>0. L \in SUBSET Nat /\ IsFiniteSet(L)
  BY LengthsFinite
<1> HIDE DEF L
<1>1. ASSUME NEW i \in L, NEW j \in L, i # j PROVE ~(Cardinality(L) <= 1)
  <2>0. IsFiniteSet({i}) /\ Cardinality({i}) = 1 /\ {i} \cup {j} = {i, j} /\ j \notin {i}
    BY <1>1, FS_Singleton
  <2>1. IsFiniteSet({i, j}) /\ Cardinality({i, j}) = 2
    <3>1. IsFiniteSet({i} \cup {j}) /\ Cardinality({i} \cup {j}) = Cardinality({i}) + 1
      <4> DEFINE S == {i}
      <4>1. IsFiniteSet(S) /\ j \notin S
        BY <2>0
      <4> HIDE DEF S
      <4>2. IsFiniteSet(S \cup {j}) /\ Cardinality(S \cup {j}) = Cardinality(S) + 1
        BY <4>1, FS_AddElement
      <4> QED BY <4>2 DEF S
    <3>2. IsFiniteSet({i, j}) /\ Cardinality({i, j}) = Cardinality({i}) + 1
      BY <2>0, <3>1, Zenon
    <3> QED BY <2>0, <3>2
  <2>2. Cardinality({i, j}) <= Cardinality(L) /\ Cardinality(L) \in Nat
    BY <1>0, FS_Subset, FS_CardinalityType, {i, j} \subseteq L
  <2> QED BY <2>1, <2>2
<1>2. ASSUME \A i, j \in L : i = j PROVE Cardinality(L) <= 1
  <2>1. CASE L = {}
    BY <2>1, FS_EmptySet
  <2>2. CASE L # {}
    <3>1. PICK i \in L : TRUE
      BY <2>2
    <3>2. L = {i}
      BY <1>2, <3>1
    <3>3. Cardinality({i}) = 1
      BY FS_Singleton
    <3> QED BY <3>2, <3>3
  <2> QED BY <2>1, <2>2
<1> QED BY <1>1, <1>2 DEF L

\* What Parse returns, without the order of its cases.
LEMMA ParseIs ==
  ASSUME NEW req \in AnyRequest, NEW total \in Nat
  PROVE  /\ total < req.head => Parse(req, total) = <<"partial">>
         /\ total >= req.head /\ (\E i \in DOMAIN req.lines : Offends(req.lines, i)) =>
              \/ \A t \in Nat : t >= req.head => Parse(req, t) = <<"tooLarge">>
              \/ \A t \in Nat : t >= req.head => Parse(req, t) = <<"invalid">>
         /\ total >= req.head /\ (\A i \in DOMAIN req.lines : ~Offends(req.lines, i)) =>
              LET declared == IF LengthLines(req.lines) = {} THEN 0
                              ELSE req.lines[Min(LengthLines(req.lines))].number
              IN  Parse(req, total) = IF total < req.head + declared THEN <<"partial">>
                                      ELSE <<"complete", declared>>
<1>0. req.head \in Nat
  BY DEF AnyRequest
<1>1. \A t \in Nat : t < req.head => ~(t >= req.head)
  BY <1>0
<1> DEFINE first == Min({i \in DOMAIN req.lines : Offends(req.lines, i)})
           tooLarge == /\ req.lines[first].wellFormed
                       /\ Oversized(req.lines, first) /\ ~Duplicate(req.lines, first)
<1>2. \A t \in Nat :
        t >= req.head /\ {i \in DOMAIN req.lines : Offends(req.lines, i)} # {} =>
          Parse(req, t) = IF tooLarge THEN <<"tooLarge">> ELSE <<"invalid">>
  BY <1>0, <1>1 DEF Parse
<1>3. total < req.head => Parse(req, total) = <<"partial">>
  BY <1>0, <1>1 DEF Parse
<1>4. total >= req.head /\ {i \in DOMAIN req.lines : Offends(req.lines, i)} = {} =>
        LET declared == IF LengthLines(req.lines) = {} THEN 0
                        ELSE req.lines[Min(LengthLines(req.lines))].number
        IN  Parse(req, total) = IF total < req.head + declared THEN <<"partial">>
                                ELSE <<"complete", declared>>
  BY <1>0, <1>1 DEF Parse
<1> HIDE DEF tooLarge, first
<1> QED BY <1>2, <1>3, <1>4

\* The length of a body is the only one declared, or 0.
Declared(lines) == IF LengthLines(lines) = {} THEN 0 ELSE lines[Min(LengthLines(lines))].number

\* What a request must be: no header is malformed, none has a transfer coding,
\* at most one a length, and that one is within the limit.
Proper(lines) ==
  /\ \A i \in DOMAIN lines : lines[i].wellFormed /\ lines[i].name # "transfer-encoding"
  /\ Cardinality(LengthLines(lines)) <= 1
  /\ Declared(lines) <= MaxBody

\* No header offends in exactly the proper requests.
LEMMA ProperIs ==
  ASSUME NEW lines \in Seq(AnyLine), MaxBody \in Nat
  PROVE  /\ Proper(lines) <=> \A i \in DOMAIN lines : ~Offends(lines, i)
         /\ Declared(lines) \in Nat
         /\ Proper(lines) =>
              \A i \in LengthLines(lines) : lines[i].number = Declared(lines)
<1> DEFINE L == LengthLines(lines)
<1>0. /\ DOMAIN lines \in SUBSET Nat
      /\ \A i \in DOMAIN lines : lines[i].number \in Nat
      /\ \A i \in L : i \in DOMAIN lines /\ lines[i].name = "content-length"
      /\ \A i \in DOMAIN lines : lines[i].name = "content-length" => i \in L
      /\ L \in SUBSET Nat
  <2>1. Len(lines) \in Nat /\ DOMAIN lines = 1 .. Len(lines)
    OBVIOUS
  <2>2. \A i \in 1 .. Len(lines) : lines[i] \in AnyLine
    OBVIOUS
  <2>3. DOMAIN lines \in SUBSET Nat
    BY <2>1
  <2>4. \A i \in DOMAIN lines : lines[i].number \in Nat
    BY <2>1, <2>2 DEF AnyLine
  <2> QED BY <2>3, <2>4 DEF LengthLines
<1>1. L # {} => Min(L) \in L /\ \A j \in L : Min(L) <= j
  BY <1>0, MinIs
<1>2. Declared(lines) = IF L = {} THEN 0 ELSE lines[Min(L)].number
  BY DEF Declared
<1>3. Declared(lines) \in Nat
  BY <1>0, <1>1, <1>2
<1>4. Cardinality(L) <= 1 <=> \A i, j \in L : i = j
  BY OneLength
<1> HIDE DEF L
<1>5. ASSUME Proper(lines)
      PROVE  /\ \A i \in DOMAIN lines : ~Offends(lines, i)
             /\ \A i \in L : lines[i].number = Declared(lines)
  <2>0. /\ \A i \in DOMAIN lines : lines[i].wellFormed /\ lines[i].name # "transfer-encoding"
        /\ \A i, j \in L : i = j
        /\ Declared(lines) <= MaxBody
    BY <1>4, <1>5 DEF Proper, L
  <2>1. \A i \in L : lines[i].number = Declared(lines)
    BY <1>0, <1>1, <1>2, <2>0
  <2>2. ASSUME NEW i \in DOMAIN lines PROVE ~Offends(lines, i)
    <3>1. ~Duplicate(lines, i)
      <4> SUFFICES ASSUME lines[i].name = "content-length", NEW j \in L, j < i PROVE FALSE
        BY DEF Duplicate, L
      <4>1. i = j /\ i \in Nat
        BY <1>0, <2>0
      <4> QED BY <4>1
    <3>2. ~Oversized(lines, i)
      <4> SUFFICES ASSUME lines[i].name = "content-length" PROVE ~(lines[i].number > MaxBody)
        BY DEF Oversized
      <4>1. lines[i].number = Declared(lines)
        BY <1>0, <2>1
      <4> QED BY <1>3, <2>0, <4>1
    <3> QED BY <2>0, <3>1, <3>2 DEF Offends
  <2> QED BY <2>1, <2>2
<1>6. ASSUME \A i \in DOMAIN lines : ~Offends(lines, i) PROVE Proper(lines)
  <2>1. \A i, j \in L : i = j
    <3> SUFFICES ASSUME NEW i \in L, NEW j \in L, i < j PROVE FALSE
      BY <1>0
    <3> QED BY <1>0, <1>6 DEF Offends, Duplicate, L
  <2>2. Declared(lines) <= MaxBody
    <3>1. CASE L = {}
      BY <1>2, <3>1
    <3>2. CASE L # {}
      <4>1. Min(L) \in L /\ Min(L) \in DOMAIN lines /\ lines[Min(L)].name = "content-length"
        BY <1>0, <1>1, <3>2
      <4>2. ~(lines[Min(L)].number > MaxBody)
        BY <1>6, <4>1 DEF Offends, Oversized
      <4> QED BY <1>0, <1>2, <3>2, <4>1, <4>2
    <3> QED BY <3>1, <3>2
  <2> QED BY <1>4, <1>6, <2>1, <2>2 DEF Proper, Offends, L
<1> QED BY <1>3, <1>5, <1>6 DEF L

\* While a request is not all there the edge reads on, if there is room.
Waits(total) == IF total < Capacity THEN <<"read">> ELSE <<"error", 413>>

LEMMA ServePartial ==
  ASSUME NEW req, NEW t \in Nat, Capacity \in Nat, Parse(req, t) = <<"partial">>
  PROVE  Serve(req, t) = Waits(t)
<1>1. Parse(req, t)[1] = "partial" /\ (t >= Capacity <=> ~(t < Capacity))
  OBVIOUS
<1>2. t >= Capacity => Serve(req, t) = <<"error", 413>>
  BY <1>1 DEF Serve
<1>3. ~(t >= Capacity) => Serve(req, t) = <<"read">>
  BY <1>1 DEF Serve
<1> QED BY <1>1, <1>2, <1>3, Zenon DEF Waits

LEMMA ServeComplete ==
  ASSUME NEW req, NEW t, NEW n, Parse(req, t) = <<"complete", n>>
  PROVE  Serve(req, t) = <<"dispatch", n>>
<1>1. Parse(req, t)[1] = "complete" /\ Parse(req, t)[2] = n
  OBVIOUS
<1> QED BY <1>1 DEF Serve

LEMMA ServeWrong ==
  ASSUME NEW req, NEW t
  PROVE  /\ Parse(req, t) = <<"tooLarge">> => Serve(req, t) = <<"error", 413>>
         /\ Parse(req, t) = <<"invalid">> => Serve(req, t) = <<"error", 400>>
<1>1. ASSUME Parse(req, t) = <<"tooLarge">> PROVE Serve(req, t) = <<"error", 413>>
  <2>1. Parse(req, t)[1] = "tooLarge"
    BY <1>1
  <2> QED BY <2>1 DEF Serve
<1>2. ASSUME Parse(req, t) = <<"invalid">> PROVE Serve(req, t) = <<"error", 400>>
  <2>1. Parse(req, t)[1] = "invalid"
    BY <1>2
  <2> QED BY <2>1 DEF Serve
<1> QED BY <1>1, <1>2

\* What the edge does with so many bytes of a request.
LEMMA ServeIs ==
  ASSUME NEW req \in AnyRequest, NEW total \in Nat, MaxBody \in Nat, Capacity \in Nat
  PROVE  LET full == req.head + Declared(req.lines)
         IN  /\ Serve(req, total) = <<"read">> => total < Capacity
             /\ Proper(req.lines) =>
                  /\ total >= full => Serve(req, total) = <<"dispatch", Declared(req.lines)>>
                  /\ total < full =>
                       Serve(req, total) = Waits(total)
             /\ ~Proper(req.lines) =>
                  /\ Serve(req, total)[1] # "dispatch"
                  /\ total < req.head => Serve(req, total) = Waits(total)
                  /\ \/ \A t \in Nat : t >= req.head => Serve(req, t) = <<"error", 413>>
                     \/ \A t \in Nat : t >= req.head => Serve(req, t) = <<"error", 400>>
<1> DEFINE lines    == req.lines
           declared == Declared(lines)
           offends  == \E i \in DOMAIN lines : Offends(lines, i)
<1>0. req.head \in Nat /\ lines \in Seq(AnyLine)
  BY DEF AnyRequest
<1>1. declared \in Nat /\ (Proper(lines) <=> ~offends)
  BY <1>0, ProperIs
<1>3. total < req.head => Parse(req, total) = <<"partial">>
  BY ParseIs
<1>4. offends => \/ \A t \in Nat : t >= req.head => Parse(req, t) = <<"tooLarge">>
                 \/ \A t \in Nat : t >= req.head => Parse(req, t) = <<"invalid">>
  <2> SUFFICES ASSUME offends
               PROVE  \/ \A t \in Nat : t >= req.head => Parse(req, t) = <<"tooLarge">>
                      \/ \A t \in Nat : t >= req.head => Parse(req, t) = <<"invalid">>
    OBVIOUS
  <2>1. req.head >= req.head
    BY <1>0
  <2> QED BY <1>0, <2>1, ParseIs
<1>5. ~offends /\ total >= req.head =>
        Parse(req, total) = IF total < req.head + declared THEN <<"partial">>
                            ELSE <<"complete", declared>>
  BY ParseIs DEF Declared
<1> HIDE DEF offends, declared
<1>6. ASSUME Proper(lines)
      PROVE  /\ total >= req.head + declared => Serve(req, total) = <<"dispatch", declared>>
             /\ total < req.head + declared =>
                  Serve(req, total) = Waits(total)
  <2>1. total >= req.head + declared => Parse(req, total) = <<"complete", declared>>
    <3>1. total >= req.head + declared => total >= req.head /\ ~(total < req.head + declared)
      BY <1>0, <1>1
    <3> QED BY <1>1, <1>5, <1>6, <3>1
  <2>2. total < req.head + declared => Parse(req, total) = <<"partial">>
    <3>1. total < req.head \/ total >= req.head
      BY <1>0
    <3> QED BY <1>1, <1>3, <1>5, <1>6, <3>1
  <2>3. total >= req.head + declared => Serve(req, total) = <<"dispatch", declared>>
    BY <2>1, ServeComplete
  <2>4. total < req.head + declared => Serve(req, total) = Waits(total)
    BY <2>2, ServePartial
  <2> QED BY <2>3, <2>4
<1>7. ASSUME ~Proper(lines)
      PROVE  /\ total < req.head => Serve(req, total) = Waits(total)
             /\ \/ \A t \in Nat : t >= req.head => Serve(req, t) = <<"error", 413>>
                \/ \A t \in Nat : t >= req.head => Serve(req, t) = <<"error", 400>>
  <2>1. total < req.head => Serve(req, total) = Waits(total)
    BY <1>3, ServePartial
  <2>2. offends
    BY <1>1, <1>7
  <2>3. CASE \A t \in Nat : t >= req.head => Parse(req, t) = <<"tooLarge">>
    <3>1. \A t \in Nat : t >= req.head => Serve(req, t) = <<"error", 413>>
      BY <2>3, ServeWrong
    <3> QED BY <2>1, <3>1
  <2>4. CASE \A t \in Nat : t >= req.head => Parse(req, t) = <<"invalid">>
    <3>1. \A t \in Nat : t >= req.head => Serve(req, t) = <<"error", 400>>
      BY <2>4, ServeWrong
    <3> QED BY <2>1, <3>1
  <2> QED BY <1>4, <2>2, <2>3, <2>4
<1>8. Serve(req, total) = <<"read">> => total < Capacity
  <2>1. <<"dispatch", declared>> # <<"read">> /\ <<"error", 413>> # <<"read">>
        /\ <<"error", 400>> # <<"read">>
    OBVIOUS
  <2>2. Waits(total) = <<"read">> => total < Capacity
    BY <2>1 DEF Waits
  <2> QED BY <1>0, <1>1, <1>6, <1>7, <2>1, <2>2
<1>9. ~Proper(lines) => Serve(req, total)[1] # "dispatch"
  <2> SUFFICES ASSUME ~Proper(lines) PROVE Serve(req, total)[1] # "dispatch"
    OBVIOUS
  <2>1. \/ Serve(req, total) = Waits(total) \/ Serve(req, total) = <<"error", 413>>
        \/ Serve(req, total) = <<"error", 400>>
    <3>1. total < req.head \/ total >= req.head
      BY <1>0
    <3> QED BY <1>7, <3>1
  <2>2. Waits(total) = <<"read">> \/ Waits(total) = <<"error", 413>>
    BY Zenon DEF Waits
  <2>3. <<"read">>[1] # "dispatch" /\ <<"error", 413>>[1] # "dispatch"
        /\ <<"error", 400>>[1] # "dispatch"
    OBVIOUS
  <2> QED BY <2>1, <2>2, <2>3, Zenon
<1> QED BY <1>6, <1>7, <1>8, <1>9 DEF declared

\* The half of MessagesAreWhole that is about requests: for any headers, any
\* limits and any number of bytes.
LEMMA RequestsAreWhole ==
  ASSUME MaxBody \in Nat, HeadSlack \in Nat, MinBuffer \in Nat, NEW req \in AnyRequest
  PROVE  RequestIsWhole(req)
<1> DEFINE lines    == req.lines
           lengths  == LengthLines(lines)
           declared == IF lengths = {} THEN 0 ELSE lines[CHOOSE i \in lengths : TRUE].number
           proper   == /\ \A i \in DOMAIN lines : /\ lines[i].wellFormed
                                                 /\ lines[i].name # "transfer-encoding"
                       /\ Cardinality(lengths) <= 1
                       /\ declared <= MaxBody
           served   == Serve(req, req.total)
           arrived  == req.total >= req.head + declared
<1>0. /\ req.head \in Nat /\ req.total \in Nat /\ lines \in Seq(AnyLine)
      /\ Capacity \in Nat /\ HeadSlack + MaxBody <= Capacity
  BY DEF AnyRequest, Capacity
<1>1. Declared(lines) \in Nat
  BY <1>0, ProperIs
<1>2. Cardinality(lengths) <= 1 => declared = Declared(lines)
  <2> SUFFICES ASSUME Cardinality(lengths) <= 1, lengths # {}
               PROVE  (CHOOSE i \in lengths : TRUE) = Min(lengths)
    BY DEF Declared
  <2>1. lengths \in SUBSET Nat
    BY <1>0, LengthsFinite
  <2>2. \A i, j \in lengths : i = j
    BY <1>0, OneLength
  <2> HIDE DEF lengths
  <2>3. Min(lengths) \in lengths
    BY <2>1, MinIs
  <2>4. (CHOOSE i \in lengths : TRUE) \in lengths
    OBVIOUS
  <2> QED BY <2>2, <2>3, <2>4
<1>3. proper <=> Proper(lines)
  BY <1>2 DEF Proper
<1>4. proper => declared = Declared(lines) /\ declared <= MaxBody /\ declared \in Nat
  BY <1>1, <1>2
<1>5. /\ served = <<"read">> => req.total < Capacity
      /\ Proper(lines) =>
           /\ req.total >= req.head + Declared(lines) => served = <<"dispatch", Declared(lines)>>
           /\ req.total < req.head + Declared(lines) => served = Waits(req.total)
      /\ ~Proper(lines) => served[1] # "dispatch"
  BY <1>0, ServeIs
<1> HIDE DEF proper, declared
<1>6. ASSUME proper, req.head <= HeadSlack
      PROVE  served = IF arrived THEN <<"dispatch", declared>> ELSE <<"read">>
  <2>1. arrived => served = <<"dispatch", declared>>
    BY <1>3, <1>4, <1>5, <1>6
  <2>2. ~arrived => served = <<"read">>
    <3> SUFFICES ASSUME ~arrived PROVE served = <<"read">>
      OBVIOUS
    <3>1. req.total < req.head + declared /\ req.total < Capacity
      BY <1>0, <1>4, <1>6
    <3> QED BY <1>3, <1>4, <1>5, <1>6, <3>1 DEF Waits
  <2> HIDE DEF served, arrived
  <2> QED BY <2>1, <2>2, Zenon
<1>7. served[1] = "dispatch" => proper /\ arrived
  <2> SUFFICES ASSUME served[1] = "dispatch" PROVE arrived
    BY <1>3, <1>5
  <2>1. proper /\ Proper(lines)
    BY <1>3, <1>5
  <2>2. ~(served = Waits(req.total))
    BY DEF Waits
  <2> QED BY <1>0, <1>1, <1>4, <1>5, <2>1, <2>2
<1>8. ASSUME served # <<"read">>, NEW total \in req.total .. Capacity
      PROVE  Serve(req, total) = served
  <2>0. total \in Nat /\ req.total <= total /\ total <= Capacity
    BY <1>0
  <2>1. CASE ~(req.total < Capacity)
    BY <1>0, <2>0, <2>1
  <2>2. CASE req.total < Capacity
    <3>0. served # Waits(req.total)
      BY <1>8, <2>2 DEF Waits
    <3>1. CASE Proper(lines)
      <4>1. req.total >= req.head + Declared(lines)
        BY <1>0, <1>1, <1>5, <3>0, <3>1
      <4>2. total >= req.head + Declared(lines)
        BY <1>0, <1>1, <2>0, <4>1
      <4>3. Serve(req, total) = <<"dispatch", Declared(lines)>>
        BY <1>0, <2>0, <3>1, <4>2, ServeIs
      <4> QED BY <1>5, <3>1, <4>1, <4>3
    <3>2. CASE ~Proper(lines)
      <4>1. /\ req.total < req.head => served = Waits(req.total)
            /\ \/ \A t \in Nat : t >= req.head => Serve(req, t) = <<"error", 413>>
               \/ \A t \in Nat : t >= req.head => Serve(req, t) = <<"error", 400>>
        BY <1>0, <3>2, ServeIs
      <4>2. req.total >= req.head /\ total >= req.head
        BY <1>0, <2>0, <3>0, <4>1
      <4> QED BY <1>0, <2>0, <4>1, <4>2
    <3> QED BY <3>1, <3>2
  <2> QED BY <2>1, <2>2
<1>9. served = <<"read">> => req.total < Capacity
  BY <1>5
<1>10. {i \in DOMAIN lines : lines[i].name = "content-length"} = lengths
  BY DEF LengthLines
<1> QED BY <1>6, <1>7, <1>8, <1>9, <1>10 DEF RequestIsWhole, proper, declared

-----------------------------------------------------------------------------
(***************************************************************************)
(* Replies.  copy_chunked goes from one line to the next; its recursion    *)
(* ends because a line has at least a byte.                                *)
(***************************************************************************)

LEMMA MaxExists ==
  ASSUME NEW n \in Nat, NEW S \in SUBSET (1 .. n), S # {}
  PROVE  Max(S) \in S /\ \A y \in S : y <= Max(S)
<1> DEFINE T == {n - x : x \in S}
<1>1. T \in SUBSET Nat /\ T # {}
  <2>1. \A x \in S : n - x \in Nat
    OBVIOUS
  <2> QED BY <2>1
<1>2. PICK t \in T : \A u \in T : t <= u
  <2> HIDE DEF T
  <2> QED BY <1>1, LeastNat
<1>3. PICK x \in S : t = n - x
  BY <1>2
<1>4. \A y \in S : x >= y
  <2> SUFFICES ASSUME NEW y \in S PROVE x >= y
    OBVIOUS
  <2>1. n - y \in T /\ x \in 1 .. n /\ y \in 1 .. n
    OBVIOUS
  <2>2. n - x <= n - y
    BY <1>2, <1>3, <2>1
  <2> QED BY <2>1, <2>2
<1>5. Max(S) \in S /\ \A y \in S : Max(S) >= y
  BY <1>4 DEF Max
<1>6. \A y \in S : Max(S) \in 1 .. n /\ y \in 1 .. n
  BY <1>5
<1> QED BY <1>5, <1>6

LEMMA MaxIs ==
  ASSUME NEW n \in Nat, NEW S \in SUBSET (1 .. n), NEW x \in S, \A y \in S : y <= x
  PROVE  Max(S) = x
<1>1. \E z \in S : \A y \in S : z >= y
  <2>1. \A y \in S : x >= y
    OBVIOUS
  <2> QED BY <2>1
<1>2. Max(S) \in S /\ \A y \in S : Max(S) >= y
  BY <1>1 DEF Max
<1>3. Max(S) >= x /\ Max(S) <= x
  BY <1>2, Zenon
<1>4. Max(S) \in 1 .. n /\ x \in 1 .. n
  BY <1>2
<1> QED BY <1>3, <1>4

\* What is on the wire: the two bytes that end a line, and others.
Symbol == {"CR", "LF"} \cup STRING
Wire == Seq(Symbol)

\* One step of copy_chunked, with what the copy does later on.
CopyStep(wire, copy, i) ==
  IF i > Len(wire) THEN Copied(<<>>, FALSE)
  ELSE LET line == Line(wire, i)
           size == SizeText(Trim(line.text))
           from == line.next
           upto == from + Size(size)
           tail == Line(wire, upto)
           rest == IF tail.text \in {<<>>, <<"CR">>} THEN copy[tail.next]
                   ELSE Copied(<<>>, FALSE)
       IN  CASE Trim(line.text) = <<>> -> copy[line.next]
             [] Trim(line.text) # <<>> /\ ~IsSize(size) -> Copied(<<>>, FALSE)
             [] IsSize(size) /\ Size(size) = 0 -> Copied(<<>>, LastLine(wire, from))
             [] IsSize(size) /\ Size(size) > 0 ->
                  IF upto > Len(wire)
                  THEN Copied(SubSeq(wire, from, Len(wire)), FALSE)
                  ELSE Copied(SubSeq(wire, from, upto - 1) \o rest.body, rest.ok)

IsCopy(f, wire) == f = [i \in 1 .. Len(wire) + 1 |-> CopyStep(wire, f, i)]

Copy(wire) == CHOOSE f : IsCopy(f, wire)

LEMMA CopyChunkedIs ==
  ASSUME NEW wire PROVE CopyChunked(wire) = Copy(wire)[1]
BY DEF CopyChunked, Copy, IsCopy, CopyStep

\* Where a line ends from byte i on.
Ends(wire, i) == {j \in i + 1 .. Len(wire) : wire[j - 1] = "CR" /\ wire[j] = "LF"}

LEMMA LineOpen ==
  ASSUME NEW wire, NEW i, Ends(wire, i) = {}
  PROVE  Line(wire, i).text = SubSeq(wire, i, Len(wire)) /\ Line(wire, i).next = Len(wire) + 1
BY DEF Line, Ends

LEMMA LineEnds ==
  ASSUME NEW wire, NEW i, NEW e \in Nat, Ends(wire, i) \in SUBSET Nat,
         e \in Ends(wire, i), \A j \in Ends(wire, i) : e <= j
  PROVE  Line(wire, i).text = SubSeq(wire, i, e - 2) /\ Line(wire, i).next = e + 1
<1> DEFINE S == Ends(wire, i)
<1>1. Min(S) \in S /\ Min(S) <= e
  BY MinIs
<1>2. Min(S) = e
  <2>1. Min(S) \in Nat /\ e <= Min(S)
    BY <1>1
  <2> QED BY <1>1, <2>1
<1>3. /\ Line(wire, i).text = SubSeq(wire, i, Min(S) - 2)
      /\ Line(wire, i).next = Min(S) + 1
  BY <1>1 DEF Line, Ends
<1> HIDE DEF S
<1> QED BY <1>2, <1>3, Zenon

\* A line has at least a byte, and goes no further than what has come.
LEMMA LineNext ==
  ASSUME NEW wire \in Wire, NEW i \in 1 .. Len(wire)
  PROVE  Line(wire, i).next \in i + 1 .. Len(wire) + 1
<1>0. Len(wire) \in Nat /\ Ends(wire, i) \in SUBSET Nat
  BY DEF Ends, Wire
<1>1. CASE Ends(wire, i) = {}
  BY <1>0, <1>1, LineOpen
<1>2. CASE Ends(wire, i) # {}
  <2>1. PICK e \in Ends(wire, i) : \A j \in Ends(wire, i) : e <= j
    BY <1>0, <1>2, LeastNat
  <2>2. Line(wire, i).next = e + 1
    BY <1>0, <2>1, LineEnds
  <2>3. e \in i + 1 .. Len(wire)
    BY <2>1 DEF Ends
  <2> QED BY <1>0, <2>2, <2>3
<1> QED BY <1>1, <1>2

\* The values of a size, digit by digit.
LEMMA SizeType ==
  ASSUME NEW text, IsSize(text), text \in Wire
  PROVE  Size(text) \in Nat
<1> DEFINE Rec(f) == f = [n \in 0 .. Len(text) |->
                            IF n = 0 THEN 0 ELSE 16 * f[n - 1] + Digits[text[n]]]
           F == CHOOSE f : Rec(f)
<1>0. Len(text) \in Nat /\ DOMAIN text = 1 .. Len(text)
  BY DEF Wire
<1>1. \A n \in 1 .. Len(text) : Digits[text[n]] \in Nat
  BY <1>0 DEF IsSize, Digits
<1> DEFINE T == {k \in 0 .. Len(text) :
                   \E f \in [0 .. Len(text) -> Nat] :
                     \A n \in 0 .. k :
                       f[n] = IF n = 0 THEN 0 ELSE 16 * f[n - 1] + Digits[text[n]]}
<1>2. 0 \in T
  <2> DEFINE z == [n \in 0 .. Len(text) |-> 0]
  <2>1. z \in [0 .. Len(text) -> Nat] /\ z[0] = 0
    BY <1>0
  <2> HIDE DEF z
  <2>2. \A n \in 0 .. 0 : z[n] = IF n = 0 THEN 0 ELSE 16 * z[n - 1] + Digits[text[n]]
    BY <2>1
  <2> QED BY <1>0, <2>1, <2>2
<1>3. ASSUME NEW k \in 1 .. Len(text), k - 1 \in T PROVE k \in T
  <2>1. PICK f \in [0 .. Len(text) -> Nat] :
          \A n \in 0 .. k - 1 : f[n] = IF n = 0 THEN 0 ELSE 16 * f[n - 1] + Digits[text[n]]
    BY <1>3
  <2> DEFINE v == 16 * f[k - 1] + Digits[text[k]]
             g == [f EXCEPT ![k] = v]
  <2>2. v \in Nat
    <3>1. k - 1 \in 0 .. Len(text) /\ Digits[text[k]] \in Nat
      BY <1>0, <1>1
    <3>2. f[k - 1] \in Nat
      BY <3>1
    <3> HIDE DEF v
    <3> QED BY <3>1, <3>2 DEF v
  <2>3. g \in [0 .. Len(text) -> Nat] /\ g[k] = v /\ \A n \in 0 .. k - 1 : g[n] = f[n]
    <3> HIDE DEF v
    <3> QED BY <1>0, <2>2
  <2> HIDE DEF g
  <2>4. ASSUME NEW n \in 0 .. k
        PROVE  g[n] = IF n = 0 THEN 0 ELSE 16 * g[n - 1] + Digits[text[n]]
    <3>1. CASE n = k
      BY <1>0, <2>3, <3>1
    <3>2. CASE n # k
      <4>1. n \in 0 .. k - 1 /\ (n # 0 => n - 1 \in 0 .. k - 1)
        BY <1>0, <3>2
      <4> QED BY <2>1, <2>3, <4>1
    <3> QED BY <3>1, <3>2
  <2>5. k \in 0 .. Len(text)
    BY <1>0
  <2>6. \E h \in [0 .. Len(text) -> Nat] :
          \A n \in 0 .. k : h[n] = IF n = 0 THEN 0 ELSE 16 * h[n - 1] + Digits[text[n]]
    <3>1. g \in [0 .. Len(text) -> Nat]
      BY <2>3
    <3> QED BY <2>4, <3>1, Zenon
  <2> QED BY <2>5, <2>6
<1>4. Len(text) \in T
  <2> HIDE DEF T
  <2>1. 0 .. Len(text) \subseteq T
    BY <1>0, <1>2, <1>3, UpTo
  <2> QED BY <1>0, <2>1
<1>5. PICK f \in [0 .. Len(text) -> Nat] :
        \A n \in 0 .. Len(text) :
          f[n] = IF n = 0 THEN 0 ELSE 16 * f[n - 1] + Digits[text[n]]
  BY <1>4
<1>6. Rec(f)
  <2>1. f = [n \in 0 .. Len(text) |-> f[n]]
    BY <1>5
  <2> QED BY <1>5, <2>1
<1>7. Rec(F)
  BY <1>6
<1>8. F[Len(text)] \in Nat
  <2>1. \A n \in 0 .. Len(text) : F[n] = IF n = 0 THEN 0 ELSE 16 * F[n - 1] + Digits[text[n]]
    BY <1>7
  <2> HIDE DEF F
  <2> DEFINE U == {n \in 0 .. Len(text) : F[n] \in Nat}
  <2>2. 0 \in U
    BY <1>0, <2>1
  <2>3. ASSUME NEW n \in 1 .. Len(text), n - 1 \in U PROVE n \in U
    <3>1. n \in 0 .. Len(text) /\ n # 0 /\ F[n - 1] \in Nat /\ Digits[text[n]] \in Nat
      BY <1>0, <1>1, <2>3
    <3>2. F[n] = 16 * F[n - 1] + Digits[text[n]]
      BY <2>1, <3>1
    <3> QED BY <3>1, <3>2
  <2>4. 0 .. Len(text) \subseteq U
    <3> HIDE DEF U
    <3> QED BY <1>0, <2>2, <2>3, UpTo
  <2> QED BY <1>0, <2>4
<1>9. Size(text) = F[Len(text)]
  BY DEF Size
<1> QED BY <1>8, <1>9

\* The bytes from one position to another.
LEMMA Part ==
  ASSUME NEW s \in Wire, NEW m \in 1 .. Len(s) + 1, NEW n \in m - 1 .. Len(s)
  PROVE  /\ SubSeq(s, m, n) \in Wire
         /\ Len(SubSeq(s, m, n)) = n - m + 1
         /\ \A k \in 1 .. n - m + 1 : SubSeq(s, m, n)[k] = s[m + k - 1]
<1>1. /\ SubSeq(s, m, n) \in Seq(Symbol)
      /\ Len(SubSeq(s, m, n)) = n - m + 1
      /\ \A k \in 1 .. n - m + 1 : SubSeq(s, m, n)[k] = s[m + k - 1]
  BY SubSeqProperties DEF Wire
<1> QED BY <1>1 DEF Wire

LEMMA TrimType ==
  ASSUME NEW text \in Wire
  PROVE  Trim(text) \in Wire
<1> DEFINE ink == {i \in DOMAIN text : text[i] \notin Space}
<1>0. Len(text) \in Nat /\ DOMAIN text = 1 .. Len(text) /\ ink \in SUBSET (1 .. Len(text))
      /\ ink \in SUBSET Nat
  BY DEF Wire
<1>1. Trim(text) = IF ink = {} THEN <<>> ELSE SubSeq(text, Min(ink), Max(ink))
  BY DEF Trim
<1> HIDE DEF ink
<1>2. CASE ink = {}
  BY <1>1, <1>2 DEF Wire
<1>3. CASE ink # {}
  <2>1. Min(ink) \in ink /\ Max(ink) \in ink
    BY <1>0, <1>3, MinIs, MaxExists
  <2>2. Min(ink) \in 1 .. Len(text) /\ Max(ink) \in 1 .. Len(text) /\ Min(ink) <= Max(ink)
    BY <1>0, <1>3, <2>1, MinIs
  <2>3. Min(ink) \in 1 .. Len(text) + 1 /\ Max(ink) \in Min(ink) - 1 .. Len(text)
    BY <1>0, <2>2
  <2>4. SubSeq(text, Min(ink), Max(ink)) \in Wire
    BY <2>3, Part
  <2> QED BY <1>1, <1>3, <2>4
<1> QED BY <1>2, <1>3

LEMMA SizeTextType ==
  ASSUME NEW text \in Wire
  PROVE  SizeText(text) \in Wire
<1> DEFINE stops == {i \in DOMAIN text : text[i] = ";"}
<1>0. Len(text) \in Nat /\ stops \in SUBSET (1 .. Len(text)) /\ stops \in SUBSET Nat
  <2>1. Len(text) \in Nat /\ DOMAIN text = 1 .. Len(text)
    BY DEF Wire
  <2>2. stops \subseteq DOMAIN text
    OBVIOUS
  <2> HIDE DEF stops
  <2> QED BY <2>1, <2>2
<1>1. SizeText(text) = IF stops = {} THEN text ELSE Trim(SubSeq(text, 1, Min(stops) - 1))
  BY DEF SizeText
<1> HIDE DEF stops
<1>2. CASE stops = {}
  BY <1>1, <1>2
<1>3. CASE stops # {}
  <2>1. Min(stops) \in 1 .. Len(text)
    BY <1>0, <1>3, MinIs
  <2>2. SubSeq(text, 1, Min(stops) - 1) \in Wire
    <3>1. 1 \in 1 .. Len(text) + 1 /\ Min(stops) - 1 \in 1 - 1 .. Len(text)
      BY <1>0, <2>1
    <3> QED BY <3>1, Part
  <2> QED BY <1>1, <1>3, <2>2, TrimType
<1> QED BY <1>2, <1>3

LEMMA LineType ==
  ASSUME NEW wire \in Wire, NEW i \in 1 .. Len(wire)
  PROVE  Line(wire, i).text \in Wire
<1>0. Len(wire) \in Nat /\ Ends(wire, i) \in SUBSET Nat
  BY DEF Ends, Wire
<1>1. CASE Ends(wire, i) = {}
  <2>1. i \in 1 .. Len(wire) + 1 /\ Len(wire) \in i - 1 .. Len(wire)
    BY <1>0
  <2>2. SubSeq(wire, i, Len(wire)) \in Wire
    BY <2>1, Part
  <2> QED BY <1>1, <2>2, LineOpen
<1>2. CASE Ends(wire, i) # {}
  <2>1. PICK e \in Ends(wire, i) : \A j \in Ends(wire, i) : e <= j
    BY <1>0, <1>2, LeastNat
  <2>2. Line(wire, i).text = SubSeq(wire, i, e - 2)
    BY <1>0, <2>1, LineEnds
  <2>3. e \in i + 1 .. Len(wire)
    BY <2>1 DEF Ends
  <2>4. i \in 1 .. Len(wire) + 1 /\ e - 2 \in i - 1 .. Len(wire)
    BY <1>0, <2>3
  <2> QED BY <2>2, <2>4, Part
<1> QED BY <1>1, <1>2

\* The size in a line is a number.
LEMMA LineSize ==
  ASSUME NEW wire \in Wire, NEW i \in 1 .. Len(wire),
         IsSize(SizeText(Trim(Line(wire, i).text)))
  PROVE  Size(SizeText(Trim(Line(wire, i).text))) \in Nat
BY LineType, TrimType, SizeTextType, SizeType

\* A step looks at what is copied further on, and at nothing else.
LEMMA StepDepends ==
  ASSUME NEW wire \in Wire, NEW i \in 1 .. Len(wire) + 1, NEW f, NEW g,
         \A j \in i + 1 .. Len(wire) + 1 : f[j] = g[j]
  PROVE  CopyStep(wire, f, i) = CopyStep(wire, g, i)
<1>0. Len(wire) \in Nat
  BY DEF Wire
<1>1. CASE i > Len(wire)
  BY <1>1 DEF CopyStep
<1>2. CASE ~(i > Len(wire))
  <2> DEFINE line == Line(wire, i)
             size == SizeText(Trim(line.text))
             from == line.next
             upto == from + Size(size)
             tail == Line(wire, upto)
             rest(h) == IF tail.text \in {<<>>, <<"CR">>} THEN h[tail.next]
                        ELSE Copied(<<>>, FALSE)
  <2>1. i \in 1 .. Len(wire)
    BY <1>0, <1>2
  <2>2. from \in i + 1 .. Len(wire) + 1
    BY <2>1, LineNext
  <2>3. f[from] = g[from]
    BY <2>2
  <2>4. ASSUME IsSize(size), Size(size) > 0, ~(upto > Len(wire)) PROVE rest(f) = rest(g)
    <3>1. Size(size) \in Nat
      BY <2>1, <2>4, LineSize
    <3> HIDE DEF size
    <3>2. upto \in 1 .. Len(wire) /\ i + 1 <= upto
      BY <1>0, <2>2, <2>4, <3>1
    <3> HIDE DEF upto
    <3>3. tail.next \in i + 1 .. Len(wire) + 1
      <4>1. tail.next \in upto + 1 .. Len(wire) + 1
        BY <3>2, LineNext
      <4> QED BY <1>0, <3>2, <4>1
    <3> HIDE DEF tail
    <3> QED BY <3>3
  <2> QED BY <1>2, <2>3, <2>4 DEF CopyStep
<1> QED BY <1>1, <1>2

\* The recursion of copy_chunked has its values, from the last byte back.
LEMMA CopyIs ==
  ASSUME NEW wire \in Wire
  PROVE  IsCopy(Copy(wire), wire)
<1> DEFINE N == Len(wire)
           D == 1 .. N + 1
           Good(f, k) == \A i \in D : i >= N + 1 - k => f[i] = CopyStep(wire, f, i)
           T == {k \in 0 .. N : \E f : f = [i \in D |-> f[i]] /\ Good(f, k)}
<1>0. N \in Nat
  BY DEF Wire
<1> HIDE DEF N
<1>1. 0 \in T
  <2> DEFINE f == [i \in D |-> Copied(<<>>, FALSE)]
  <2>1. f = [i \in D |-> f[i]]
    OBVIOUS
  <2>2. Good(f, 0)
    <3> SUFFICES ASSUME NEW i \in D, i >= N + 1 - 0 PROVE f[i] = CopyStep(wire, f, i)
      OBVIOUS
    <3>1. i > Len(wire)
      BY <1>0 DEF N
    <3>2. CopyStep(wire, f, i) = Copied(<<>>, FALSE)
      <4> HIDE DEF f
      <4> QED BY <3>1 DEF CopyStep
    <3> QED BY <3>2
  <2> HIDE DEF f, Good
  <2> QED BY <1>0, <2>1, <2>2
<1>2. ASSUME NEW k \in 1 .. N, k - 1 \in T PROVE k \in T
  <2>1. PICK f : f = [i \in D |-> f[i]] /\ Good(f, k - 1)
    <3> HIDE DEF Good
    <3> QED BY <1>2
  <2> DEFINE here == N + 1 - k
             v == CopyStep(wire, f, here)
             g == [i \in D |-> IF i = here THEN v ELSE f[i]]
  <2>0. here \in D
    BY <1>0
  <2>2. g = [i \in D |-> g[i]] /\ g[here] = v /\ \A j \in D : j # here => g[j] = f[j]
    <3> HIDE DEF v
    <3> QED BY <2>0
  <2> HIDE DEF g
  <2>3. Good(g, k)
    <3> SUFFICES ASSUME NEW i \in D, i >= N + 1 - k PROVE g[i] = CopyStep(wire, g, i)
      OBVIOUS
    <3>1. \A j \in i + 1 .. N + 1 : f[j] = g[j]
      <4> SUFFICES ASSUME NEW j \in i + 1 .. N + 1 PROVE f[j] = g[j]
        OBVIOUS
      <4>1. j \in D /\ j # here
        BY <1>0
      <4> QED BY <2>2, <4>1
    <3>2. CopyStep(wire, f, i) = CopyStep(wire, g, i)
      BY <3>1, StepDepends DEF N
    <3>3. CASE i = here
      BY <2>2, <3>2, <3>3
    <3>4. CASE i # here
      <4>1. i >= N + 1 - (k - 1)
        BY <1>0, <3>4
      <4>2. f[i] = CopyStep(wire, f, i)
        BY <2>1, <4>1
      <4> QED BY <2>2, <3>2, <3>4, <4>2
    <3> QED BY <3>3, <3>4
  <2>4. k \in 0 .. N
    BY <1>0
  <2> HIDE DEF Good
  <2> QED BY <2>2, <2>3, <2>4
<1>3. N \in T
  <2> HIDE DEF T
  <2>1. 0 .. N \subseteq T
    BY <1>0, <1>1, <1>2, UpTo
  <2> QED BY <1>0, <2>1
<1>4. PICK f : f = [i \in D |-> f[i]] /\ Good(f, N)
  <2> HIDE DEF Good
  <2> QED BY <1>3
<1>5. \A i \in D : f[i] = CopyStep(wire, f, i)
  BY <1>0, <1>4
<1>6. IsCopy(f, wire)
  BY <1>4, <1>5 DEF IsCopy, N
<1> QED BY <1>6 DEF Copy

LEMMA CopyAt ==
  ASSUME NEW wire \in Wire, NEW i \in 1 .. Len(wire) + 1
  PROVE  Copy(wire)[i] = CopyStep(wire, Copy(wire), i)
BY CopyIs DEF IsCopy

LEMMA EmptyIsNoSize ==
  ASSUME NEW text, IsSize(SizeText(text))
  PROVE  text # <<>>
<1> SUFFICES ASSUME text = <<>> PROVE FALSE
  OBVIOUS
<1>1. {i \in DOMAIN text : text[i] = ";"} = {}
  OBVIOUS
<1>2. SizeText(text) = text
  BY <1>1 DEF SizeText
<1> QED BY <1>2 DEF IsSize

\* Nothing has come any more.
LEMMA StepOver ==
  ASSUME NEW wire \in Wire
  PROVE  Copy(wire)[Len(wire) + 1] = Copied(<<>>, FALSE)
<1>1. Len(wire) \in Nat
  BY DEF Wire
<1>2. Len(wire) + 1 \in 1 .. Len(wire) + 1 /\ Len(wire) + 1 > Len(wire)
  BY <1>1
<1> QED BY <1>2, CopyAt DEF CopyStep

\* The chunk of size zero ends the copy, well if a line follows.
LEMMA StepLast ==
  ASSUME NEW wire \in Wire, NEW i \in 1 .. Len(wire),
         IsSize(SizeText(Trim(Line(wire, i).text))),
         Size(SizeText(Trim(Line(wire, i).text))) = 0
  PROVE  Copy(wire)[i] = Copied(<<>>, Line(wire, i).next <= Len(wire))
<1>0. Len(wire) \in Nat /\ i \in 1 .. Len(wire) + 1 /\ ~(i > Len(wire))
  BY DEF Wire
<1>1. Trim(Line(wire, i).text) # <<>>
  BY EmptyIsNoSize
<1>2. Copy(wire)[i] = CopyStep(wire, Copy(wire), i)
  BY <1>0, CopyAt
<1> QED BY <1>0, <1>1, <1>2 DEF CopyStep, LastLine

\* A line with a size that has not ended is not followed by anything.
LEMMA StepOpen ==
  ASSUME NEW wire \in Wire, NEW i \in 1 .. Len(wire), Ends(wire, i) = {}
  PROVE  Copy(wire)[i] = Copied(<<>>, FALSE)
<1> DEFINE line == Line(wire, i)
           trim == Trim(line.text)
           size == SizeText(trim)
           copy == Copy(wire)
<1>0. Len(wire) \in Nat /\ i \in 1 .. Len(wire) + 1 /\ ~(i > Len(wire))
  BY DEF Wire
<1>1. line.next = Len(wire) + 1
  BY LineOpen
<1>2. copy[line.next] = Copied(<<>>, FALSE)
  BY <1>1, StepOver
<1>3. IsSize(size) => trim # <<>> /\ Size(size) \in Nat
  BY LineSize, EmptyIsNoSize
<1>5. IsSize(size) /\ Size(size) > 0 => line.next + Size(size) > Len(wire)
  <2> HIDE DEF size, line
  <2> QED BY <1>0, <1>1, <1>3
<1>6. SubSeq(wire, line.next, Len(wire)) = <<>>
  BY <1>0, <1>1
<1>7. copy[i] = CopyStep(wire, copy, i)
  BY <1>0, CopyAt
<1>8. CASE trim = <<>>
  BY <1>0, <1>2, <1>3, <1>7, <1>8 DEF CopyStep
<1>9. CASE trim # <<>> /\ ~IsSize(size)
  BY <1>0, <1>7, <1>9 DEF CopyStep
<1>10. CASE IsSize(size) /\ Size(size) = 0
  <2>1. copy[i] = Copied(<<>>, line.next <= Len(wire))
    BY <1>10, StepLast
  <2>2. (line.next <= Len(wire)) = FALSE
    BY <1>0, <1>1
  <2> QED BY <2>1, <2>2
<1>11. CASE IsSize(size) /\ Size(size) > 0
  BY <1>0, <1>3, <1>5, <1>6, <1>7, <1>11 DEF CopyStep
<1>12. IsSize(size) => Size(size) = 0 \/ Size(size) > 0
  <2> HIDE DEF size
  <2> QED BY <1>3
<1> QED BY <1>8, <1>9, <1>10, <1>11, <1>12

\* A chunk that has not all come, or is not followed by anything.
LEMMA StepCut ==
  ASSUME NEW wire \in Wire, NEW i \in 1 .. Len(wire), NEW d \in Nat \ {0},
         IsSize(SizeText(Trim(Line(wire, i).text))),
         Size(SizeText(Trim(Line(wire, i).text))) = d,
         Line(wire, i).next + d > Len(wire)
  PROVE  Copy(wire)[i] = Copied(SubSeq(wire, Line(wire, i).next, Len(wire)), FALSE)
<1>0. Len(wire) \in Nat /\ i \in 1 .. Len(wire) + 1 /\ ~(i > Len(wire)) /\ d # 0 /\ d > 0
  BY DEF Wire
<1>1. Trim(Line(wire, i).text) # <<>>
  BY EmptyIsNoSize
<1>2. Copy(wire)[i] = CopyStep(wire, Copy(wire), i)
  BY <1>0, CopyAt
<1> QED BY <1>0, <1>1, <1>2 DEF CopyStep

\* A chunk that has come, with an empty line after it or the beginning of one.
LEMMA StepChunk ==
  ASSUME NEW wire \in Wire, NEW i \in 1 .. Len(wire), NEW d \in Nat \ {0}, NEW upto,
         IsSize(SizeText(Trim(Line(wire, i).text))),
         Size(SizeText(Trim(Line(wire, i).text))) = d,
         upto = Line(wire, i).next + d, ~(upto > Len(wire)),
         Line(wire, upto).text = <<>> \/ Line(wire, upto).text = <<"CR">>
  PROVE  LET rest == Copy(wire)[Line(wire, upto).next]
         IN  Copy(wire)[i] =
               Copied(SubSeq(wire, Line(wire, i).next, upto - 1) \o rest.body, rest.ok)
<1>0. Len(wire) \in Nat /\ i \in 1 .. Len(wire) + 1 /\ ~(i > Len(wire)) /\ d # 0 /\ d > 0
  BY DEF Wire
<1>1. Trim(Line(wire, i).text) # <<>>
  BY EmptyIsNoSize
<1>2. Copy(wire)[i] = CopyStep(wire, Copy(wire), i)
  BY <1>0, CopyAt
<1>3. Line(wire, upto).text \in {<<>>, <<"CR">>}
  OBVIOUS
<1> QED BY <1>0, <1>1, <1>2, <1>3 DEF CopyStep

LEMMA SameWire ==
  ASSUME NEW s \in Wire, NEW t \in Wire, Len(s) = Len(t), \A k \in 1 .. Len(s) : s[k] = t[k]
  PROVE  s = t
BY SeqEqual DEF Wire

\* From byte i on the wire has a beginning of `full`.
Arrived(wire, i, full) ==
  /\ i \in 1 .. Len(wire) + 1
  /\ Len(wire) + 1 - i <= Len(full)
  /\ \A k \in i .. Len(wire) : wire[k] = full[k - i + 1]

\* A line in which the edge reads the size n.
SizeLine(line, n) ==
  /\ line \in Wire
  /\ \A k \in 1 .. Len(line) : line[k] # "CR" /\ line[k] # "LF"
  /\ IsSize(SizeText(Trim(line))) /\ Size(SizeText(Trim(line))) = n

\* The line comes first.
Begins(full, line) ==
  /\ Len(full) >= Len(line) + 2
  /\ \A k \in 1 .. Len(line) : full[k] = line[k]
  /\ full[Len(line) + 1] = "CR" /\ full[Len(line) + 2] = "LF"

\* The line is cut off, or read as it was written.
LEMMA LineComes ==
  ASSUME NEW wire \in Wire, NEW i \in 1 .. Len(wire), NEW full \in Wire, NEW line \in Wire,
         Arrived(wire, i, full), Begins(full, line),
         \A k \in 1 .. Len(line) : line[k] # "CR" /\ line[k] # "LF"
  PROVE  /\ Len(wire) + 1 - i < Len(line) + 2 => Ends(wire, i) = {}
         /\ Len(wire) + 1 - i >= Len(line) + 2 =>
              Line(wire, i).text = line /\ Line(wire, i).next = i + Len(line) + 2
<1> DEFINE s == Len(line)
<1>0. Len(wire) \in Nat /\ s \in Nat /\ Len(full) \in Nat
  BY DEF Wire
<1>1. \A k \in i .. Len(wire) :
        /\ k - i + 1 <= s => wire[k] # "CR" /\ wire[k] # "LF"
        /\ k - i + 1 = s + 1 => wire[k] = "CR"
        /\ k - i + 1 = s + 2 => wire[k] = "LF"
  <2> SUFFICES ASSUME NEW k \in i .. Len(wire)
               PROVE  /\ k - i + 1 <= s => wire[k] # "CR" /\ wire[k] # "LF"
                      /\ k - i + 1 = s + 1 => wire[k] = "CR"
                      /\ k - i + 1 = s + 2 => wire[k] = "LF"
    OBVIOUS
  <2>1. wire[k] = full[k - i + 1]
    BY DEF Arrived
  <2>2. k - i + 1 <= s => k - i + 1 \in 1 .. s
    BY <1>0
  <2> QED BY <2>1, <2>2 DEF Begins
<1>2. ASSUME NEW j \in Ends(wire, i) PROVE j >= i + s + 1
  <2>1. j \in i + 1 .. Len(wire) /\ wire[j] = "LF"
    BY <1>2 DEF Ends
  <2>2. j \in i .. Len(wire) /\ j - i + 1 \in Nat
    BY <1>0, <2>1
  <2>3. ~(j - i + 1 <= s) /\ j - i + 1 # s + 1
    BY <1>1, <2>1, <2>2
  <2> HIDE DEF s
  <2> QED BY <1>0, <2>2, <2>3
<1>3. ASSUME Len(wire) + 1 - i < s + 2 PROVE Ends(wire, i) = {}
  <2> SUFFICES ASSUME NEW j \in Ends(wire, i) PROVE FALSE
    OBVIOUS
  <2>1. j <= Len(wire) /\ j \in Nat
    BY <1>0 DEF Ends
  <2> QED BY <1>0, <1>2, <1>3, <2>1
<1>4. ASSUME Len(wire) + 1 - i >= s + 2
      PROVE  Line(wire, i).text = line /\ Line(wire, i).next = i + s + 2
  <2> DEFINE e == i + s + 1
  <2>1. e \in Nat /\ e \in i + 1 .. Len(wire) /\ e \in i .. Len(wire) /\ e - 1 \in i .. Len(wire)
    BY <1>0, <1>4
  <2>2. wire[e - 1] = "CR" /\ wire[e] = "LF"
    <3>1. e - 1 - i + 1 = s + 1 /\ e - i + 1 = s + 2
      BY <1>0
    <3> QED BY <1>1, <2>1, <3>1
  <2>3. e \in Ends(wire, i) /\ \A j \in Ends(wire, i) : e <= j
    <3>1. e \in Ends(wire, i)
      BY <2>1, <2>2 DEF Ends
    <3>2. \A j \in Ends(wire, i) : j \in Nat
      BY <1>0 DEF Ends
    <3> QED BY <1>0, <1>2, <3>1, <3>2
  <2>4. Ends(wire, i) \in SUBSET Nat
    BY <1>0 DEF Ends
  <2> HIDE DEF e
  <2>5. Line(wire, i).text = SubSeq(wire, i, e - 2) /\ Line(wire, i).next = e + 1
    BY <2>1, <2>3, <2>4, LineEnds
  <2>6. i \in 1 .. Len(wire) + 1 /\ e - 2 \in i - 1 .. Len(wire) /\ e - 2 - i + 1 = s
        /\ e + 1 = i + s + 2
    BY <1>0, <2>1 DEF e
  <2>7. /\ SubSeq(wire, i, e - 2) \in Wire /\ Len(SubSeq(wire, i, e - 2)) = s
        /\ \A k \in 1 .. s : SubSeq(wire, i, e - 2)[k] = wire[i + k - 1]
    BY <2>6, Part
  <2>8. \A k \in 1 .. s : wire[i + k - 1] = line[k]
    <3> SUFFICES ASSUME NEW k \in 1 .. s PROVE wire[i + k - 1] = line[k]
      OBVIOUS
    <3>1. i + k - 1 \in i .. Len(wire) /\ (i + k - 1) - i + 1 = k
      BY <1>0, <1>4
    <3>2. wire[i + k - 1] = full[k]
      BY <3>1 DEF Arrived
    <3> QED BY <3>2 DEF Begins
  <2>9. SubSeq(wire, i, e - 2) = line
    BY <2>7, <2>8, SameWire
  <2> QED BY <2>5, <2>6, <2>9
<1> QED BY <1>3, <1>4

\* What is passed on of a text is a beginning of it, all of it where the copy
\* ends well, which it does once everything has come.
Passes(r, content, whole) ==
  /\ \E m \in 0 .. Len(content) : r.body = SubSeq(content, 1, m)
  /\ r.ok => r.body = content
  /\ whole => r.ok

\* Nothing is a beginning of everything.
LEMMA PassesNone ==
  ASSUME NEW content \in Wire
  PROVE  Passes(Copied(<<>>, FALSE), content, FALSE)
<1>1. Len(content) \in Nat
  BY DEF Wire
<1>2. SubSeq(content, 1, 0) = <<>> /\ 0 \in 0 .. Len(content)
  BY <1>1
<1>3. \E m \in 0 .. Len(content) : <<>> = SubSeq(content, 1, m)
  BY <1>2
<1> QED BY <1>3 DEF Passes, Copied

\* The last chunk, wherever the connection ends.
LEMMA LastComes ==
  ASSUME NEW wire \in Wire, NEW i, NEW full \in Wire, NEW line,
         Arrived(wire, i, full), Begins(full, line), SizeLine(line, 0),
         Len(full) > Len(line) + 2
  PROVE  Passes(Copy(wire)[i], <<>>, Len(wire) + 1 - i = Len(full))
<1> DEFINE n == Len(wire) + 1 - i
<1>0. Len(wire) \in Nat /\ Len(full) \in Nat /\ line \in Wire /\ Len(line) \in Nat
      /\ i \in 1 .. Len(wire) + 1 /\ <<>> \in Wire
  BY DEF Wire, SizeLine, Arrived
<1>1. Passes(Copied(<<>>, FALSE), <<>>, FALSE)
  BY <1>0, PassesNone
<1>2. CASE i = Len(wire) + 1
  <2>1. Copy(wire)[i] = Copied(<<>>, FALSE)
    BY <1>2, StepOver
  <2>2. (n = Len(full)) = FALSE
    BY <1>0, <1>2
  <2> QED BY <1>1, <2>1, <2>2
<1>3. CASE i # Len(wire) + 1 /\ n < Len(line) + 2
  <2>1. i \in 1 .. Len(wire)
    BY <1>0, <1>3
  <2>2. Ends(wire, i) = {}
    BY <1>0, <1>3, <2>1, LineComes DEF SizeLine
  <2>3. Copy(wire)[i] = Copied(<<>>, FALSE)
    BY <2>1, <2>2, StepOpen
  <2>4. (n = Len(full)) = FALSE
    BY <1>0, <1>3
  <2> QED BY <1>1, <2>3, <2>4
<1>4. CASE i # Len(wire) + 1 /\ ~(n < Len(line) + 2)
  <2>1. i \in 1 .. Len(wire) /\ n >= Len(line) + 2
    BY <1>0, <1>4
  <2>2. Line(wire, i).text = line /\ Line(wire, i).next = i + Len(line) + 2
    BY <1>0, <2>1, LineComes DEF SizeLine
  <2>3. Copy(wire)[i] = Copied(<<>>, Line(wire, i).next <= Len(wire))
    BY <2>1, <2>2, StepLast DEF SizeLine
  <2>4. n = Len(full) => Line(wire, i).next <= Len(wire)
    BY <1>0, <2>2
  <2>5. Copy(wire)[i].body = <<>> /\ (n = Len(full) => Copy(wire)[i].ok)
    <3>1. Copy(wire)[i].body = <<>>
      BY <2>3 DEF Copied
    <3>2. ASSUME n = Len(full) PROVE Copy(wire)[i].ok
      <4>1. (Line(wire, i).next <= Len(wire)) = TRUE
        BY <2>4, <3>2
      <4>2. Copy(wire)[i] = Copied(<<>>, TRUE)
        BY <2>3, <4>1
      <4> QED BY <4>2 DEF Copied
    <3> QED BY <3>1, <3>2
  <2>6. \E m \in 0 .. Len(<<>>) : Copy(wire)[i].body = SubSeq(<<>>, 1, m)
    <3>1. 0 \in 0 .. Len(<<>>) /\ SubSeq(<<>>, 1, 0) = <<>>
      OBVIOUS
    <3> QED BY <2>5, <3>1
  <2> QED BY <2>5, <2>6 DEF Passes
<1> QED BY <1>2, <1>3, <1>4

\* A chunk: its line, the data, an empty line, and what comes after it.
Chunk(full, line, data, rest) ==
  LET upto == Len(line) + 2 + Len(data)
  IN  /\ Begins(full, line)
      /\ \A k \in 1 .. Len(data) : full[Len(line) + 2 + k] = data[k]
      /\ full[upto + 1] = "CR" /\ full[upto + 2] = "LF"
      /\ Len(full) = upto + 2 + Len(rest)
      /\ \A k \in 1 .. Len(rest) : full[upto + 2 + k] = rest[k]

\* A beginning of the data, and no more.
LEMMA PassesPart ==
  ASSUME NEW data \in Wire, NEW content \in Wire, NEW m \in 0 .. Len(data)
  PROVE  Passes(Copied(SubSeq(data, 1, m), FALSE), data \o content, FALSE)
<1>0. Len(data) \in Nat /\ Len(content) \in Nat
  BY DEF Wire
<1>1. /\ data \o content \in Wire /\ Len(data \o content) = Len(data) + Len(content)
      /\ \A k \in 1 .. Len(data) : (data \o content)[k] = data[k]
  BY ConcatProperties DEF Wire
<1> DEFINE c == data \o content
<1> HIDE DEF c
<1>2. /\ 1 \in 1 .. Len(data) + 1 /\ m \in 1 - 1 .. Len(data)
      /\ 1 \in 1 .. Len(c) + 1 /\ m \in 1 - 1 .. Len(c) /\ m \in 0 .. Len(c)
      /\ m - 1 + 1 = m /\ m \in Nat
  BY <1>0, <1>1 DEF c
<1>3. /\ SubSeq(data, 1, m) \in Wire /\ Len(SubSeq(data, 1, m)) = m
      /\ \A k \in 1 .. m : SubSeq(data, 1, m)[k] = data[1 + k - 1]
  BY <1>2, Part
<1>4. /\ SubSeq(c, 1, m) \in Wire /\ Len(SubSeq(c, 1, m)) = m
      /\ \A k \in 1 .. m : SubSeq(c, 1, m)[k] = c[1 + k - 1]
  BY <1>1, <1>2, Part DEF c
<1>5. \A k \in 1 .. m : SubSeq(data, 1, m)[k] = SubSeq(c, 1, m)[k]
  <2> SUFFICES ASSUME NEW k \in 1 .. m PROVE SubSeq(data, 1, m)[k] = SubSeq(c, 1, m)[k]
    OBVIOUS
  <2>1. k \in 1 .. Len(data) /\ 1 + k - 1 = k
    BY <1>0
  <2>2. c[k] = data[k]
    BY <1>1, <2>1 DEF c
  <2> QED BY <1>3, <1>4, <2>1, <2>2
<1>6. SubSeq(data, 1, m) = SubSeq(c, 1, m)
  BY <1>3, <1>4, <1>5, SameWire
<1>7. \E k \in 0 .. Len(c) : SubSeq(data, 1, m) = SubSeq(c, 1, k)
  BY <1>2, <1>6
<1>8. Passes(Copied(SubSeq(data, 1, m), FALSE), c, FALSE)
  BY <1>7 DEF Passes, Copied
<1> QED BY <1>8 DEF c

\* All of the data, and what is passed on of the rest.
LEMMA PassesMore ==
  ASSUME NEW data \in Wire, NEW content \in Wire, NEW r, NEW whole, Passes(r, content, whole)
  PROVE  Passes(Copied(data \o r.body, r.ok), data \o content, whole)
<1>0. Len(data) \in Nat /\ Len(content) \in Nat
  BY DEF Wire
<1>1. PICK m \in 0 .. Len(content) : r.body = SubSeq(content, 1, m)
  BY DEF Passes
<1>2. SubSeq(content, 1, m) \in Wire /\ Len(SubSeq(content, 1, m)) = m
      /\ \A k \in 1 .. m : SubSeq(content, 1, m)[k] = content[1 + k - 1]
  <2>1. 1 \in 1 .. Len(content) + 1 /\ m \in 1 - 1 .. Len(content) /\ m - 1 + 1 = m
    BY <1>0
  <2> QED BY <2>1, Part
<1> DEFINE c == data \o content
           b == data \o SubSeq(content, 1, m)
           n == Len(data) + m
<1>3. /\ c \in Wire /\ Len(c) = Len(data) + Len(content)
      /\ \A k \in 1 .. Len(data) + Len(content) :
           c[k] = IF k <= Len(data) THEN data[k] ELSE content[k - Len(data)]
  BY ConcatProperties DEF Wire
<1>4. /\ b \in Wire /\ Len(b) = n
      /\ \A k \in 1 .. n :
           b[k] = IF k <= Len(data) THEN data[k] ELSE SubSeq(content, 1, m)[k - Len(data)]
  BY <1>2, ConcatProperties DEF Wire
<1> HIDE DEF c, b
<1>5. /\ SubSeq(c, 1, n) \in Wire /\ Len(SubSeq(c, 1, n)) = n
      /\ \A k \in 1 .. n : SubSeq(c, 1, n)[k] = c[1 + k - 1]
  <2>1. 1 \in 1 .. Len(c) + 1 /\ n \in 1 - 1 .. Len(c) /\ n - 1 + 1 = n
    BY <1>0, <1>3
  <2> QED BY <1>3, <2>1, Part
<1>6. \A k \in 1 .. n : b[k] = SubSeq(c, 1, n)[k]
  <2> SUFFICES ASSUME NEW k \in 1 .. n PROVE b[k] = c[k]
    BY <1>0, <1>5
  <2>1. k \in 1 .. Len(data) + Len(content) /\ k \in Nat
    BY <1>0
  <2>2. CASE k <= Len(data)
    BY <1>3, <1>4, <2>1, <2>2
  <2>3. CASE ~(k <= Len(data))
    <3>1. k - Len(data) \in 1 .. m /\ 1 + (k - Len(data)) - 1 = k - Len(data)
      BY <1>0, <2>1, <2>3
    <3>2. SubSeq(content, 1, m)[k - Len(data)] = content[k - Len(data)]
      BY <1>2, <3>1
    <3> QED BY <1>3, <1>4, <2>1, <2>3, <3>2
  <2> QED BY <2>2, <2>3
<1>7. b = SubSeq(c, 1, n)
  BY <1>4, <1>5, <1>6, SameWire
<1>8. n \in 0 .. Len(c)
  BY <1>0, <1>3
<1>9. r.ok => b = c
  BY <1>1 DEF Passes, b, c
<1>10. Passes(Copied(b, r.ok), c, whole)
  <2>1. \E k \in 0 .. Len(c) : b = SubSeq(c, 1, k)
    BY <1>7, <1>8
  <2> QED BY <1>9, <2>1 DEF Passes, Copied
<1> QED BY <1>1, <1>10 DEF b, c

\* A chunk and what comes after it, wherever the connection ends.
LEMMA ChunkComes ==
  ASSUME NEW wire \in Wire, NEW i, NEW full \in Wire, NEW line, NEW data \in Wire,
         NEW rest \in Wire, NEW content \in Wire,
         Arrived(wire, i, full), Chunk(full, line, data, rest),
         SizeLine(line, Len(data)), data # <<>>,
         \A k : Arrived(wire, k, rest) =>
                 Passes(Copy(wire)[k], content, Len(wire) + 1 - k = Len(rest))
  PROVE  Passes(Copy(wire)[i], data \o content, Len(wire) + 1 - i = Len(full))
<1> DEFINE n    == Len(wire) + 1 - i
           s    == Len(line)
           d    == Len(data)
           from == i + s + 2
           upto == from + d
<1>0. /\ Len(wire) \in Nat /\ Len(full) \in Nat /\ line \in Wire /\ s \in Nat /\ d \in Nat \ {0}
      /\ Len(rest) \in Nat /\ i \in 1 .. Len(wire) + 1 /\ Begins(full, line)
      /\ Len(full) = s + d + 4 + Len(rest)
  BY DEF Wire, SizeLine, Arrived, Chunk
<1>1. data \o content \in Wire
  BY DEF Wire
<1> DEFINE c == data \o content
<1> HIDE DEF c
<1>2. Passes(Copied(<<>>, FALSE), c, FALSE)
  BY <1>1, PassesNone DEF c
<1>3. CASE i = Len(wire) + 1
  <2>1. Copy(wire)[i] = Copied(<<>>, FALSE)
    BY <1>3, StepOver
  <2>2. (n = Len(full)) = FALSE
    BY <1>0, <1>3
  <2> QED BY <1>2, <2>1, <2>2 DEF c
<1>4. CASE i # Len(wire) + 1 /\ n < s + 2
  <2>1. i \in 1 .. Len(wire)
    BY <1>0, <1>4
  <2>2. Ends(wire, i) = {}
    BY <1>0, <1>4, <2>1, LineComes DEF SizeLine
  <2>3. Copy(wire)[i] = Copied(<<>>, FALSE)
    BY <2>1, <2>2, StepOpen
  <2>4. (n = Len(full)) = FALSE
    BY <1>0, <1>4
  <2> QED BY <1>2, <2>3, <2>4 DEF c
<1>5. ASSUME i # Len(wire) + 1, ~(n < s + 2)
      PROVE  /\ i \in 1 .. Len(wire) /\ from \in 1 .. Len(wire) + 1
             /\ Line(wire, i).text = line /\ Line(wire, i).next = from
             /\ IsSize(SizeText(Trim(Line(wire, i).text)))
             /\ Size(SizeText(Trim(Line(wire, i).text))) = d
  <2>1. i \in 1 .. Len(wire) /\ n >= s + 2
    BY <1>0, <1>5
  <2>2. Line(wire, i).text = line /\ Line(wire, i).next = from
    BY <1>0, <2>1, LineComes DEF SizeLine
  <2>3. from \in 1 .. Len(wire) + 1
    BY <1>0, <2>1
  <2> QED BY <2>1, <2>2, <2>3 DEF SizeLine
\* The bytes of the data that have come.
<1>6. ASSUME i # Len(wire) + 1, ~(n < s + 2), NEW e \in from - 1 .. Len(wire), e < upto
      PROVE  SubSeq(wire, from, e) = SubSeq(data, 1, e - from + 1)
             /\ e - from + 1 \in 0 .. d
  <2>0. from \in 1 .. Len(wire) + 1
    BY <1>5, <1>6
  <2>1. from \in Nat /\ e - from + 1 \in 0 .. d /\ e - from + 1 - 1 + 1 = e - from + 1
    BY <1>0, <1>6, <2>0
  <2> DEFINE m == e - from + 1
  <2>2. /\ SubSeq(wire, from, e) \in Wire /\ Len(SubSeq(wire, from, e)) = m
        /\ \A k \in 1 .. m : SubSeq(wire, from, e)[k] = wire[from + k - 1]
    BY <2>0, Part
  <2>3. /\ SubSeq(data, 1, m) \in Wire /\ Len(SubSeq(data, 1, m)) = m
        /\ \A k \in 1 .. m : SubSeq(data, 1, m)[k] = data[k]
    <3>1. 1 \in 1 .. Len(data) + 1 /\ m \in 1 - 1 .. Len(data) /\ m - 1 + 1 = m
      BY <1>0, <2>1
    <3>2. /\ SubSeq(data, 1, m) \in Wire /\ Len(SubSeq(data, 1, m)) = m
          /\ \A k \in 1 .. m : SubSeq(data, 1, m)[k] = data[1 + k - 1]
      <4> HIDE DEF m
      <4> QED BY <3>1, Part
    <3>3. \A k \in 1 .. m : 1 + k - 1 = k
      OBVIOUS
    <3> QED BY <3>2, <3>3
  <2>4. ASSUME NEW k \in 1 .. m PROVE wire[from + k - 1] = data[k]
    <3>1. /\ from + k - 1 \in i .. Len(wire) /\ (from + k - 1) - i + 1 = s + 2 + k
          /\ k \in 1 .. d
      BY <1>0, <2>0, <2>1
    <3>2. wire[from + k - 1] = full[s + 2 + k]
      BY <3>1 DEF Arrived
    <3> QED BY <3>1, <3>2 DEF Chunk
  <2> HIDE DEF m
  <2>5. SubSeq(wire, from, e) = SubSeq(data, 1, m)
    <3>1. \A k \in 1 .. m : SubSeq(wire, from, e)[k] = SubSeq(data, 1, m)[k]
      BY <2>2, <2>3, <2>4
    <3> DEFINE a == SubSeq(wire, from, e)
               b == SubSeq(data, 1, m)
    <3>2. a \in Wire /\ b \in Wire /\ Len(a) = m /\ Len(b) = m /\ \A k \in 1 .. m : a[k] = b[k]
      BY <2>2, <2>3, <3>1
    <3> HIDE DEF a, b
    <3>3. a = b
      BY <3>2, SameWire
    <3> QED BY <3>3 DEF a, b
  <2> QED BY <2>1, <2>5 DEF m
<1>7. CASE i # Len(wire) + 1 /\ ~(n < s + 2) /\ upto > Len(wire)
  <2>1. Copy(wire)[i] = Copied(SubSeq(wire, from, Len(wire)), FALSE)
    BY <1>0, <1>5, <1>7, StepCut
  <2>2. Len(wire) \in from - 1 .. Len(wire) /\ Len(wire) < upto
    BY <1>0, <1>5, <1>7
  <2>3. /\ SubSeq(wire, from, Len(wire)) = SubSeq(data, 1, Len(wire) - from + 1)
        /\ Len(wire) - from + 1 \in 0 .. d
    BY <1>6, <1>7, <2>2
  <2>4. Passes(Copied(SubSeq(data, 1, Len(wire) - from + 1), FALSE), c, FALSE)
    BY <2>3, PassesPart DEF c
  <2>5. (n = Len(full)) = FALSE
    BY <1>0, <1>7
  <2> QED BY <2>1, <2>3, <2>4, <2>5 DEF c
<1>8. CASE i # Len(wire) + 1 /\ ~(n < s + 2) /\ ~(upto > Len(wire))
  <2>0. upto \in 1 .. Len(wire) /\ upto - 1 \in from - 1 .. Len(wire) /\ upto - 1 < upto
        /\ upto - 1 - from + 1 = d
    BY <1>0, <1>5, <1>8
  <2>1. SubSeq(wire, from, upto - 1) = data
    <3>1. SubSeq(wire, from, upto - 1) = SubSeq(data, 1, d)
      BY <1>6, <1>8, <2>0
    <3>2. SubSeq(data, 1, d) = data
      BY DEF Wire
    <3> QED BY <3>1, <3>2
  <2>2. \A k \in upto .. Len(wire) : wire[k] = full[k - i + 1]
    BY <1>0, <1>5, <1>8 DEF Arrived
  <2>3. wire[upto] = "CR" /\ (upto + 1 <= Len(wire) => wire[upto + 1] = "LF")
    <3>1. upto - i + 1 = s + 2 + d + 1 /\ (upto + 1) - i + 1 = s + 2 + d + 2
      BY <1>0
    <3>2. upto \in upto .. Len(wire) /\ (upto + 1 <= Len(wire) => upto + 1 \in upto .. Len(wire))
      BY <1>0, <2>0
    <3> QED BY <2>2, <3>1, <3>2 DEF Chunk
  <2> HIDE DEF upto
  <2>4. /\ Line(wire, upto).text = <<>> \/ Line(wire, upto).text = <<"CR">>
        /\ upto = Len(wire) => Line(wire, upto).next = Len(wire) + 1
        /\ upto < Len(wire) => Line(wire, upto).next = upto + 2
    <3>1. CASE upto = Len(wire)
      <4>1. Ends(wire, upto) = {}
        BY <1>0, <3>1 DEF Ends
      <4>2. /\ Line(wire, upto).text = SubSeq(wire, upto, Len(wire))
            /\ Line(wire, upto).next = Len(wire) + 1
        BY <4>1, LineOpen
      <4>3. SubSeq(wire, upto, Len(wire)) = <<"CR">>
        <5>1. /\ SubSeq(wire, upto, upto) \in Wire /\ Len(SubSeq(wire, upto, upto)) = 1
              /\ SubSeq(wire, upto, upto)[1] = wire[upto]
          <6>1. upto \in 1 .. Len(wire) + 1 /\ upto \in upto - 1 .. Len(wire)
                /\ upto - upto + 1 = 1 /\ upto + 1 - 1 = upto
            BY <1>0, <2>0
          <6> QED BY <6>1, Part
        <5>2. <<"CR">> \in Wire /\ Len(<<"CR">>) = 1 /\ <<"CR">>[1] = "CR"
          <6>1. "CR" \in Symbol
            BY DEF Symbol
          <6>2. \A S : \A x \in S : <<x>> \in Seq(S) /\ Len(<<x>>) = 1 /\ <<x>>[1] = x
            OBVIOUS
          <6> QED BY <6>1, <6>2 DEF Wire
        <5>3. SubSeq(wire, upto, upto) = <<"CR">>
          <6> DEFINE a == SubSeq(wire, upto, upto)
                     b == <<"CR">>
          <6>1. a \in Wire /\ b \in Wire /\ Len(a) = 1 /\ Len(b) = 1 /\ a[1] = b[1]
            BY <2>3, <5>1, <5>2
          <6> HIDE DEF a, b
          <6>2. \A k \in 1 .. 1 : a[k] = b[k]
            BY <6>1
          <6>3. a = b
            BY <6>1, <6>2, SameWire
          <6> QED BY <6>3 DEF a, b
        <5> QED BY <3>1, <5>3
      <4> QED BY <1>0, <3>1, <4>2, <4>3
    <3>2. CASE upto < Len(wire)
      <4> DEFINE e == upto + 1
      <4>1. /\ e \in Nat /\ e \in upto + 1 .. Len(wire) /\ e - 1 = upto /\ e - 2 = upto - 1
            /\ e + 1 = upto + 2
        BY <1>0, <2>0, <3>2
      <4>2. e \in Ends(wire, upto)
        BY <2>3, <4>1 DEF Ends
      <4>3. /\ Ends(wire, upto) \in SUBSET Nat
            /\ \A j \in Ends(wire, upto) : e <= j
        BY <1>0, <2>0 DEF Ends
      <4>4. Line(wire, upto).text = SubSeq(wire, upto, e - 2) /\ Line(wire, upto).next = e + 1
        <5> HIDE DEF e
        <5> QED BY <4>1, <4>2, <4>3, LineEnds
      <4>5. SubSeq(wire, upto, upto - 1) = <<>>
        BY <2>0
      <4> QED BY <1>0, <2>0, <3>2, <4>1, <4>4, <4>5
    <3> QED BY <1>0, <2>0, <3>1, <3>2
  <2> DEFINE k == Line(wire, upto).next
             r == Copy(wire)[k]
  <2>5. Copy(wire)[i] = Copied(data \o r.body, r.ok)
    <3>1. Copy(wire)[i] = Copied(SubSeq(wire, from, upto - 1) \o r.body, r.ok)
      <4>1. upto = Line(wire, i).next + d /\ ~(upto > Len(wire))
        BY <1>5, <1>8 DEF upto
      <4>2. i \in 1 .. Len(wire) /\ Line(wire, i).next = from
            /\ IsSize(SizeText(Trim(Line(wire, i).text)))
            /\ Size(SizeText(Trim(Line(wire, i).text))) = d
        BY <1>5, <1>8
      <4>3. Copy(wire)[i] =
              Copied(SubSeq(wire, Line(wire, i).next, upto - 1) \o r.body, r.ok)
        BY <1>0, <2>4, <4>1, <4>2, StepChunk
      <4> QED BY <4>2, <4>3
    <3> QED BY <2>1, <3>1
  <2>6. Passes(r, content, n = Len(full))
    <3>1. CASE upto = Len(wire)
      <4>1. r = Copied(<<>>, FALSE)
        BY <2>4, <3>1, StepOver
      <4>2. (n = Len(full)) = FALSE
        BY <1>0, <2>0, <3>1 DEF upto
      <4>3. Passes(Copied(<<>>, FALSE), content, FALSE)
        BY PassesNone
      <4> QED BY <4>1, <4>2, <4>3
    <3>2. CASE upto < Len(wire)
      <4>1. k = upto + 2
        BY <2>4, <3>2
      <4>2. Arrived(wire, k, rest)
        <5>1. k \in 1 .. Len(wire) + 1 /\ Len(wire) + 1 - k <= Len(rest)
          BY <1>0, <2>0, <3>2, <4>1 DEF upto, Arrived
        <5>2. ASSUME NEW j \in k .. Len(wire) PROVE wire[j] = rest[j - k + 1]
          <6>1. /\ j \in upto .. Len(wire) /\ j - k + 1 \in 1 .. Len(rest)
                /\ j - i + 1 = s + 2 + d + 2 + (j - k + 1)
            <7> HIDE DEF k
            <7> QED BY <1>0, <2>0, <4>1, <5>1 DEF upto
          <6>2. wire[j] = full[j - i + 1]
            BY <2>2, <6>1
          <6>3. full[s + 2 + d + 2 + (j - k + 1)] = rest[j - k + 1]
            BY <6>1 DEF Chunk
          <6> QED BY <6>1, <6>2, <6>3
        <5> QED BY <5>1, <5>2 DEF Arrived
      <4>3. (n = Len(full)) <=> (Len(wire) + 1 - k = Len(rest))
        <5>1. k = i + s + 2 + d + 2 /\ i \in Nat
          BY <1>0, <4>1 DEF upto
        <5> HIDE DEF k, s, d
        <5> QED BY <1>0, <5>1
      <4>4. Passes(r, content, Len(wire) + 1 - k = Len(rest))
        BY <4>2
      <4> QED BY <4>3, <4>4 DEF Passes
    <3> QED BY <1>0, <2>0, <3>1, <3>2
  <2>7. Passes(Copied(data \o r.body, r.ok), data \o content, n = Len(full))
    <3> HIDE DEF r
    <3> QED BY <2>6, PassesMore
  <2> QED BY <2>5, <2>7
<1> QED BY <1>3, <1>4, <1>7, <1>8

\* The encoding of a text in chunks, put together from the last chunk on, with
\* chunks of any size and any line in which the edge reads that size.
InChunks(full, content) ==
  \E n \in Nat : \E f \in [0 .. n -> Wire], c \in [0 .. n -> Wire] :
    /\ f[n] = full /\ c[n] = content
    /\ c[0] = <<>> /\ \E line : SizeLine(line, 0) /\ f[0] = line \o CRLF \o CRLF
    /\ \A k \in 1 .. n : \E line : \E data \in Wire :
         /\ SizeLine(line, Len(data)) /\ data # <<>>
         /\ f[k] = line \o CRLF \o data \o CRLF \o f[k - 1]
         /\ c[k] = data \o c[k - 1]

LEMMA CRLFIs ==
  CRLF \in Wire /\ Len(CRLF) = 2 /\ CRLF[1] = "CR" /\ CRLF[2] = "LF"
<1>1. "CR" \in Symbol /\ "LF" \in Symbol
  BY DEF Symbol
<1>2. \A S : \A x, y \in S : /\ <<x, y>> \in Seq(S) /\ Len(<<x, y>>) = 2
                            /\ <<x, y>>[1] = x /\ <<x, y>>[2] = y
  OBVIOUS
<1> QED BY <1>1, <1>2 DEF Wire, CRLF

LEMMA Joined ==
  ASSUME NEW s \in Wire, NEW t \in Wire
  PROVE  /\ s \o t \in Wire /\ Len(s \o t) = Len(s) + Len(t)
         /\ \A k \in 1 .. Len(s) : (s \o t)[k] = s[k]
         /\ \A k \in 1 .. Len(t) : (s \o t)[Len(s) + k] = t[k]
<1>0. Len(s) \in Nat /\ Len(t) \in Nat
  BY DEF Wire
<1>1. /\ s \o t \in Seq(Symbol) /\ Len(s \o t) = Len(s) + Len(t)
      /\ \A k \in 1 .. Len(s) + Len(t) :
           (s \o t)[k] = IF k <= Len(s) THEN s[k] ELSE t[k - Len(s)]
  BY ConcatProperties DEF Wire
<1>2. ASSUME NEW k \in 1 .. Len(s) PROVE (s \o t)[k] = s[k]
  <2>1. k \in 1 .. Len(s) + Len(t) /\ k <= Len(s)
    BY <1>0
  <2> QED BY <1>1, <2>1
<1>3. ASSUME NEW k \in 1 .. Len(t) PROVE (s \o t)[Len(s) + k] = t[k]
  <2>1. Len(s) + k \in 1 .. Len(s) + Len(t) /\ ~(Len(s) + k <= Len(s))
        /\ Len(s) + k - Len(s) = k
    BY <1>0
  <2> QED BY <1>1, <2>1
<1> QED BY <1>1, <1>2, <1>3 DEF Wire

\* A line with its end, and something after it.
LEMMA LineJoined ==
  ASSUME NEW line \in Wire, NEW t \in Wire
  PROVE  LET full == (line \o CRLF) \o t
         IN  /\ full \in Wire /\ Len(full) = Len(line) + 2 + Len(t)
             /\ Begins(full, line)
             /\ \A k \in 1 .. Len(t) : full[Len(line) + 2 + k] = t[k]
<1> DEFINE a == line \o CRLF
           full == a \o t
<1>0. Len(line) \in Nat /\ Len(t) \in Nat
  BY DEF Wire
<1>1. /\ a \in Wire /\ Len(a) = Len(line) + 2
      /\ \A k \in 1 .. Len(line) : a[k] = line[k]
      /\ \A k \in 1 .. 2 : a[Len(line) + k] = CRLF[k]
  <2> DEFINE crlf == CRLF
  <2>1. crlf \in Wire /\ Len(crlf) = 2
    BY CRLFIs
  <2> HIDE DEF crlf
  <2>2. /\ line \o crlf \in Wire /\ Len(line \o crlf) = Len(line) + 2
        /\ \A k \in 1 .. Len(line) : (line \o crlf)[k] = line[k]
        /\ \A k \in 1 .. 2 : (line \o crlf)[Len(line) + k] = crlf[k]
    <3>1. /\ line \o crlf \in Wire /\ Len(line \o crlf) = Len(line) + Len(crlf)
          /\ \A k \in 1 .. Len(line) : (line \o crlf)[k] = line[k]
          /\ \A k \in 1 .. Len(crlf) : (line \o crlf)[Len(line) + k] = crlf[k]
      BY <2>1, Joined
    <3> QED BY <2>1, <3>1
  <2> QED BY <2>2 DEF crlf
<1> HIDE DEF a
<1>2. /\ full \in Wire /\ Len(full) = Len(line) + 2 + Len(t)
      /\ \A k \in 1 .. Len(line) + 2 : full[k] = a[k]
      /\ \A k \in 1 .. Len(t) : full[Len(line) + 2 + k] = t[k]
  <2>1. /\ a \o t \in Wire /\ Len(a \o t) = Len(a) + Len(t)
        /\ \A k \in 1 .. Len(a) : (a \o t)[k] = a[k]
        /\ \A k \in 1 .. Len(t) : (a \o t)[Len(a) + k] = t[k]
    BY <1>1, Joined
  <2> HIDE DEF full
  <2> QED BY <1>1, <2>1 DEF full
<1> HIDE DEF full
<1>3. ASSUME NEW k \in 1 .. Len(line) PROVE full[k] = line[k]
  <2>1. k \in 1 .. Len(line) + 2
    BY <1>0
  <2> QED BY <1>1, <1>2, <2>1
<1>4. full[Len(line) + 1] = "CR" /\ full[Len(line) + 2] = "LF"
  <2>1. Len(line) + 1 \in 1 .. Len(line) + 2 /\ Len(line) + 2 \in 1 .. Len(line) + 2
        /\ 1 \in 1 .. 2 /\ 2 \in 1 .. 2
    BY <1>0
  <2> QED BY <1>1, <1>2, <2>1, CRLFIs
<1>5. Begins(full, line)
  BY <1>0, <1>2, <1>3, <1>4 DEF Begins
<1> QED BY <1>2, <1>5 DEF full, a

LEMMA LastJoined ==
  ASSUME NEW line \in Wire
  PROVE  LET full == line \o CRLF \o CRLF
         IN  full \in Wire /\ Begins(full, line) /\ Len(full) > Len(line) + 2
<1>1. Len(line) \in Nat
  BY DEF Wire
<1>2. LET full == (line \o CRLF) \o CRLF
      IN  full \in Wire /\ Len(full) = Len(line) + 2 + Len(CRLF) /\ Begins(full, line)
  BY CRLFIs, LineJoined
<1> DEFINE full == line \o CRLF \o CRLF
<1>3. full \in Wire /\ Len(full) = Len(line) + 2 + Len(CRLF) /\ Begins(full, line)
  BY <1>2
<1> HIDE DEF full
<1>4. Len(full) > Len(line) + 2
  BY <1>1, <1>3, CRLFIs
<1> QED BY <1>3, <1>4 DEF full

LEMMA ChunkJoined ==
  ASSUME NEW line \in Wire, NEW data \in Wire, NEW rest \in Wire
  PROVE  LET full == line \o CRLF \o data \o CRLF \o rest
         IN  full \in Wire /\ Chunk(full, line, data, rest)
<1> DEFINE s == Len(line)
           d == Len(data)
           a == (line \o CRLF) \o data
           b == a \o CRLF
           full == b \o rest
<1>0. s \in Nat /\ d \in Nat /\ Len(rest) \in Nat
  BY DEF Wire
<1>1. /\ a \in Wire /\ Len(a) = s + 2 + d /\ Begins(a, line)
      /\ \A k \in 1 .. d : a[s + 2 + k] = data[k]
  BY LineJoined
<1> HIDE DEF a
<1>2. /\ full \in Wire /\ Len(full) = Len(a) + 2 + Len(rest) /\ Begins(full, a)
      /\ \A k \in 1 .. Len(rest) : full[Len(a) + 2 + k] = rest[k]
  BY <1>1, LineJoined
<1> HIDE DEF full
<1>3. \A k \in 1 .. s + 2 + d : full[k] = a[k]
  BY <1>1, <1>2 DEF Begins
<1>4. Begins(full, line)
  <2>1. ASSUME NEW k \in 1 .. s PROVE full[k] = line[k]
    <3>1. k \in 1 .. s + 2 + d
      BY <1>0
    <3> QED BY <1>1, <1>3, <3>1 DEF Begins
  <2>2. s + 1 \in 1 .. s + 2 + d /\ s + 2 \in 1 .. s + 2 + d
    BY <1>0
  <2>3. full[s + 1] = "CR" /\ full[s + 2] = "LF"
    BY <1>1, <1>3, <2>2 DEF Begins
  <2>4. Len(full) >= s + 2
    BY <1>0, <1>1, <1>2
  <2> QED BY <2>1, <2>3, <2>4 DEF Begins
<1>5. ASSUME NEW k \in 1 .. d PROVE full[s + 2 + k] = data[k]
  <2>1. s + 2 + k \in 1 .. s + 2 + d
    BY <1>0
  <2> QED BY <1>1, <1>3, <2>1
<1>6. full[s + 2 + d + 1] = "CR" /\ full[s + 2 + d + 2] = "LF"
  BY <1>1, <1>2 DEF Begins
<1>7. /\ Len(full) = s + 2 + d + 2 + Len(rest)
      /\ \A k \in 1 .. Len(rest) : full[s + 2 + d + 2 + k] = rest[k]
  BY <1>1, <1>2
<1>8. full \in Wire /\ Chunk(full, line, data, rest)
  BY <1>2, <1>4, <1>5, <1>6, <1>7 DEF Chunk
<1> QED BY <1>8 DEF full, a

\* Of a text in chunks, however many have come.
LEMMA ChunksCome ==
  ASSUME NEW wire \in Wire, NEW full, NEW content, InChunks(full, content), NEW i,
         Arrived(wire, i, full)
  PROVE  Passes(Copy(wire)[i], content, Len(wire) + 1 - i = Len(full))
<1>1. PICK n \in Nat : \E f \in [0 .. n -> Wire], c \in [0 .. n -> Wire] :
        /\ f[n] = full /\ c[n] = content
        /\ c[0] = <<>> /\ \E line : SizeLine(line, 0) /\ f[0] = line \o CRLF \o CRLF
        /\ \A k \in 1 .. n : \E line : \E data \in Wire :
             /\ SizeLine(line, Len(data)) /\ data # <<>>
             /\ f[k] = line \o CRLF \o data \o CRLF \o f[k - 1]
             /\ c[k] = data \o c[k - 1]
  BY DEF InChunks
<1>2. PICK f \in [0 .. n -> Wire], c \in [0 .. n -> Wire] :
        /\ f[n] = full /\ c[n] = content
        /\ c[0] = <<>> /\ \E line : SizeLine(line, 0) /\ f[0] = line \o CRLF \o CRLF
        /\ \A k \in 1 .. n : \E line : \E data \in Wire :
             /\ SizeLine(line, Len(data)) /\ data # <<>>
             /\ f[k] = line \o CRLF \o data \o CRLF \o f[k - 1]
             /\ c[k] = data \o c[k - 1]
  BY <1>1
<1> DEFINE P(k) == \A j : Arrived(wire, j, f[k]) =>
                           Passes(Copy(wire)[j], c[k], Len(wire) + 1 - j = Len(f[k]))
           T == {k \in 0 .. n : P(k)}
<1>3. 0 \in T
  <2>1. PICK line : SizeLine(line, 0) /\ f[0] = line \o CRLF \o CRLF
    BY <1>2
  <2>2. f[0] \in Wire /\ Begins(f[0], line) /\ Len(f[0]) > Len(line) + 2
    BY <2>1, LastJoined DEF SizeLine
  <2>3. ASSUME NEW j, Arrived(wire, j, f[0])
        PROVE  Passes(Copy(wire)[j], c[0], Len(wire) + 1 - j = Len(f[0]))
    <3>1. Passes(Copy(wire)[j], <<>>, Len(wire) + 1 - j = Len(f[0]))
      BY <2>1, <2>2, <2>3, LastComes
    <3> QED BY <1>2, <3>1
  <2>4. P(0)
    BY <2>3
  <2> HIDE DEF P
  <2> QED BY <2>4
<1>4. ASSUME NEW k \in 1 .. n, k - 1 \in T PROVE k \in T
  <2>1. PICK line : \E data \in Wire :
          /\ SizeLine(line, Len(data)) /\ data # <<>>
          /\ f[k] = line \o CRLF \o data \o CRLF \o f[k - 1]
          /\ c[k] = data \o c[k - 1]
    BY <1>2
  <2>2. PICK data \in Wire :
          /\ SizeLine(line, Len(data)) /\ data # <<>>
          /\ f[k] = line \o CRLF \o data \o CRLF \o f[k - 1]
          /\ c[k] = data \o c[k - 1]
    BY <2>1
  <2>3. k \in 0 .. n /\ k - 1 \in 0 .. n
    OBVIOUS
  <2>4. f[k - 1] \in Wire /\ c[k - 1] \in Wire /\ line \in Wire
    BY <2>2, <2>3 DEF SizeLine
  <2>5. f[k] \in Wire /\ Chunk(f[k], line, data, f[k - 1])
    BY <2>2, <2>4, ChunkJoined
  <2>6. P(k - 1)
    BY <1>4
  <2>7. ASSUME NEW j, Arrived(wire, j, f[k])
        PROVE  Passes(Copy(wire)[j], c[k], Len(wire) + 1 - j = Len(f[k]))
    <3>1. Passes(Copy(wire)[j], data \o c[k - 1], Len(wire) + 1 - j = Len(f[k]))
      BY <2>2, <2>4, <2>5, <2>6, <2>7, ChunkComes
    <3> QED BY <2>2, <3>1
  <2>8. P(k)
    BY <2>7
  <2> HIDE DEF P
  <2> QED BY <2>3, <2>8
<1>5. n \in T
  <2> HIDE DEF T
  <2>1. 0 .. n \subseteq T
    BY <1>3, <1>4, UpTo
  <2> QED BY <2>1
<1> QED BY <1>2, <1>5

\* Whether a reply says that it comes in chunks, or how long it is: the last
\* length that can be read counts.
Coded(lines) == \E i \in DOMAIN lines : lines[i].name = "transfer-encoding" /\ lines[i].wellFormed
Says(lines, n) ==
  \E i \in LengthLines(lines) :
    /\ lines[i].wellFormed /\ lines[i].number = n
    /\ \A j \in LengthLines(lines) : lines[j].wellFormed => j <= i

\* A reply of which some bytes have come: in chunks, of a length it says, or
\* up to the end of the connection.
ReplyOk(reply) ==
  /\ reply.content \in Wire /\ reply.full \in Wire /\ reply.lines \in Seq(AnyLine)
  /\ \E m \in 0 .. Len(reply.full) : reply.wire = SubSeq(reply.full, 1, m)
  /\ \/ Coded(reply.lines) /\ InChunks(reply.full, reply.content)
     \/ /\ ~Coded(reply.lines) /\ reply.full = reply.content
        /\ Says(reply.lines, Len(reply.content))
     \/ /\ ~Coded(reply.lines) /\ reply.full = reply.content /\ ~reply.delimited
        /\ \A i \in LengthLines(reply.lines) : ~reply.lines[i].wellFormed

LEMMA FramingIs ==
  ASSUME NEW lines \in Seq(AnyLine)
  PROVE  /\ Coded(lines) => Framing(lines) = <<"chunked">>
         /\ \A n \in Nat : ~Coded(lines) /\ Says(lines, n) => Framing(lines) = <<"length", n>>
         /\ ~Coded(lines) /\ (\A i \in LengthLines(lines) : ~lines[i].wellFormed) =>
              Framing(lines) = <<"close">>
<1> DEFINE readable == {i \in LengthLines(lines) : lines[i].wellFormed}
<1>0. Len(lines) \in Nat /\ readable \in SUBSET (1 .. Len(lines))
  <2>1. Len(lines) \in Nat /\ DOMAIN lines = 1 .. Len(lines)
    OBVIOUS
  <2>2. readable \subseteq DOMAIN lines
    BY DEF LengthLines
  <2> HIDE DEF readable
  <2> QED BY <2>1, <2>2
<1>1. Coded(lines) => Framing(lines) = <<"chunked">>
  BY DEF Framing, Coded
<1>2. ~Coded(lines) /\ readable # {} => Framing(lines) = <<"length", lines[Max(readable)].number>>
  BY DEF Framing, Coded
<1>3. ~Coded(lines) /\ readable = {} => Framing(lines) = <<"close">>
  BY DEF Framing, Coded
<1>4. ASSUME NEW n \in Nat, ~Coded(lines), Says(lines, n) PROVE Framing(lines) = <<"length", n>>
  <2>1. PICK i \in LengthLines(lines) :
          /\ lines[i].wellFormed /\ lines[i].number = n
          /\ \A j \in LengthLines(lines) : lines[j].wellFormed => j <= i
    BY <1>4 DEF Says
  <2>2. i \in readable /\ \A j \in readable : j <= i
    BY <2>1
  <2> HIDE DEF readable
  <2>3. Max(readable) = i
    BY <1>0, <2>2, MaxIs
  <2> QED BY <1>2, <1>4, <2>1, <2>2, <2>3
<1>5. (\A i \in LengthLines(lines) : ~lines[i].wellFormed) => readable = {}
  OBVIOUS
<1> HIDE DEF readable
<1> QED BY <1>1, <1>3, <1>4, <1>5

\* What is copied of a reply.
LEMMA BodyComes ==
  ASSUME NEW reply, ReplyOk(reply)
  PROVE  LET copied == CopyBody(reply.wire, Framing(reply.lines))
         IN  /\ \E m \in 0 .. Len(reply.content) : copied.body = SubSeq(reply.content, 1, m)
             /\ copied.ok /\ reply.delimited => copied.body = reply.content
             /\ reply.wire = reply.full => copied.ok /\ copied.body = reply.content
<1> DEFINE wire    == reply.wire
           full    == reply.full
           content == reply.content
           framing == Framing(reply.lines)
           copied  == CopyBody(wire, framing)
<1>1. PICK m \in 0 .. Len(full) : wire = SubSeq(full, 1, m)
  BY DEF ReplyOk
<1>2. /\ full \in Wire /\ content \in Wire /\ Len(full) \in Nat /\ Len(content) \in Nat
      /\ reply.lines \in Seq(AnyLine)
  BY DEF ReplyOk, Wire
<1>3. wire \in Wire /\ Len(wire) = m /\ \A k \in 1 .. m : wire[k] = full[k]
  <2>1. 1 \in 1 .. Len(full) + 1 /\ m \in 1 - 1 .. Len(full) /\ m - 1 + 1 = m
    BY <1>2
  <2>2. /\ SubSeq(full, 1, m) \in Wire /\ Len(SubSeq(full, 1, m)) = m
        /\ \A k \in 1 .. m : SubSeq(full, 1, m)[k] = full[1 + k - 1]
    BY <1>2, <2>1, Part
  <2>3. \A k \in 1 .. m : 1 + k - 1 = k
    OBVIOUS
  <2> QED BY <1>1, <2>2, <2>3
<1>4. CASE Coded(reply.lines) /\ InChunks(full, content)
  <2>1. framing = <<"chunked">>
    BY <1>2, <1>4, FramingIs
  <2>2. framing[1] = "chunked"
    BY <2>1
  <2>3. copied = CopyChunked(wire)
    <3> HIDE DEF framing
    <3> QED BY <2>2 DEF CopyBody
  <2>4. copied = Copy(wire)[1]
    BY <2>3, CopyChunkedIs
  <2>5. Arrived(wire, 1, full)
    <3>1. 1 \in 1 .. Len(wire) + 1 /\ Len(wire) + 1 - 1 <= Len(full)
      BY <1>2, <1>3
    <3>2. ASSUME NEW k \in 1 .. Len(wire) PROVE wire[k] = full[k - 1 + 1]
      BY <1>3
    <3> QED BY <3>1, <3>2 DEF Arrived
  <2>6. Passes(Copy(wire)[1], content, Len(wire) + 1 - 1 = Len(full))
    BY <1>3, <1>4, <2>5, ChunksCome
  <2>7. wire = full => Len(wire) + 1 - 1 = Len(full)
    BY <1>2, <1>3
  <2> HIDE DEF copied, wire, full, content
  <2>8. /\ \E k \in 0 .. Len(content) : copied.body = SubSeq(content, 1, k)
        /\ copied.ok => copied.body = content
        /\ wire = full => copied.ok
    BY <2>4, <2>6, <2>7 DEF Passes
  <2> QED BY <2>8 DEF copied, wire, full, content
<1>5. CASE ~Coded(reply.lines) /\ full = content /\ Says(reply.lines, Len(content))
  <2>1. framing = <<"length", Len(content)>>
    BY <1>2, <1>5, FramingIs
  <2>2. framing[1] = "length" /\ framing[2] = Len(content)
    BY <2>1
  <2>3. copied = CopyFixed(wire, Len(content))
    <3> HIDE DEF framing
    <3> QED BY <2>2 DEF CopyBody
  <2>4. CASE Len(wire) < Len(content)
    <3>1. copied = Copied(wire, FALSE)
      BY <2>3, <2>4 DEF CopyFixed
    <3>2. copied.body = wire /\ copied.ok = FALSE
      BY <3>1 DEF Copied
    <3>3. wire # full
      BY <1>2, <1>5, <2>4
    <3> HIDE DEF copied
    <3> QED BY <1>1, <1>5, <3>2, <3>3 DEF copied
  <2>5. CASE ~(Len(wire) < Len(content))
    <3>1. m = Len(content)
      BY <1>2, <1>3, <1>5, <2>5
    <3>2. wire = content /\ SubSeq(wire, 1, Len(content)) = content
      BY <1>1, <1>2, <1>5, <3>1 DEF Wire
    <3>3. copied = Copied(content, TRUE)
      BY <2>3, <2>5, <3>2 DEF CopyFixed
    <3>4. copied.body = content /\ copied.ok = TRUE
      BY <3>3 DEF Copied
    <3>5. SubSeq(content, 1, Len(content)) = content /\ Len(content) \in 0 .. Len(content)
      BY <1>2 DEF Wire
    <3> HIDE DEF copied, content
    <3> QED BY <3>4, <3>5 DEF copied, content
  <2> QED BY <2>4, <2>5
<1>6. CASE /\ ~Coded(reply.lines) /\ full = content /\ ~reply.delimited
           /\ \A i \in LengthLines(reply.lines) : ~reply.lines[i].wellFormed
  <2>1. framing = <<"close">>
    BY <1>2, <1>6, FramingIs
  <2>2. framing[1] = "close"
    BY <2>1
  <2>3. copied = Copied(wire, TRUE)
    <3> HIDE DEF framing
    <3> QED BY <2>2 DEF CopyBody, CopyUntilEof
  <2>4. copied.body = wire /\ copied.ok = TRUE
    BY <2>3 DEF Copied
  <2> HIDE DEF copied
  <2> QED BY <1>1, <1>6, <2>4 DEF copied
<1> QED BY <1>4, <1>5, <1>6 DEF ReplyOk

\* The half of MessagesAreWhole that is about replies.
LEMMA RepliesAreWhole ==
  ASSUME NEW reply, ReplyOk(reply), reply.status \in {200, 401} \cup 500 .. 599
  PROVE  ReplyIsWhole(reply)
<1> DEFINE copied   == CopyBody(reply.wire, Framing(reply.lines))
           content  == reply.content
           passed   == ForwardStream(reply)
           answered == Authorize(reply)
<1>1. /\ \E m \in 0 .. Len(content) : copied.body = SubSeq(content, 1, m)
      /\ copied.ok /\ reply.delimited => copied.body = content
      /\ reply.wire = reply.full => copied.ok /\ copied.body = content
  BY BodyComes
<1>2. content \in Wire /\ Len(content) \in Nat
  BY DEF ReplyOk, Wire
<1>3. copied.body = SubSeq(content, 1, Len(copied.body))
  <2>1. PICK m \in 0 .. Len(content) : copied.body = SubSeq(content, 1, m)
    BY <1>1
  <2>2. 1 \in 1 .. Len(content) + 1 /\ m \in 1 - 1 .. Len(content) /\ m - 1 + 1 = m
    BY <1>2
  <2>3. Len(SubSeq(content, 1, m)) = m
    BY <1>2, <2>2, Part
  <2> HIDE DEF copied
  <2> QED BY <2>1, <2>3
<1>4. reply.status \in Nat /\ reply.status # 0 /\ reply.status # 404
      /\ (reply.status \in 200 .. 299 <=> reply.status = 200)
  <2>1. \A n \in {200, 401} \cup 500 .. 599 :
          /\ n \in Nat /\ n # 0 /\ n # 404 /\ (n \in 200 .. 299 <=> n = 200)
    OBVIOUS
  <2> QED BY <2>1
<1> HIDE DEF copied
<1>5. /\ reply.head /\ reply.status = 200 => passed = copied
      /\ ~(reply.head /\ reply.status = 200) => passed = Copied(<<>>, FALSE)
  <2> DEFINE bad == ~reply.head \/ reply.status \notin 200 .. 299
  <2>1. passed = IF bad THEN Copied(<<>>, FALSE) ELSE copied
    BY Zenon DEF ForwardStream, copied
  <2>2. bad <=> ~(reply.head /\ reply.status = 200)
    BY <1>4
  <2> HIDE DEF bad, passed
  <2> QED BY <2>1, <2>2
<1>6. /\ Copied(<<>>, FALSE).body = <<>> /\ Copied(<<>>, FALSE).ok = FALSE
      /\ SubSeq(content, 1, 0) = <<>> /\ Len(<<>>) = 0
  BY <1>2 DEF Copied
<1>7. ASSUME ~(reply.head /\ copied.ok) PROVE answered = "error"
  <2>1. Exchange(reply) = <<0, <<>>>>
    BY <1>7 DEF Exchange, copied
  <2>2. Exchange(reply)[1] = 0
    BY <2>1
  <2>3. ~(0 \in {401, 404}) /\ ~(0 \in 1 .. 399)
    OBVIOUS
  <2> QED BY <2>2, <2>3 DEF Authorize
<1>8. ASSUME reply.head, copied.ok
      PROVE  /\ reply.status = 200 =>
                  answered = IF copied.body = content THEN "authorized" ELSE "error"
             /\ reply.status = 401 => answered = "unauthorized"
             /\ reply.status \in 500 .. 599 => answered = "error"
  <2>1. Exchange(reply) = <<reply.status, copied.body>>
    BY <1>8 DEF Exchange, copied
  <2>2. Exchange(reply)[1] = reply.status /\ Exchange(reply)[2] = copied.body
    BY <2>1
  <2>3. reply.status = 200 => answered = IF copied.body = content THEN "authorized" ELSE "error"
    BY <2>2 DEF Authorize
  <2>4. reply.status = 401 => answered = "unauthorized"
    BY <2>2 DEF Authorize
  <2>5. reply.status \in 500 .. 599 => answered = "error"
    <3> SUFFICES ASSUME reply.status \in 500 .. 599 PROVE answered = "error"
      OBVIOUS
    <3>1. PICK n \in 500 .. 599 : reply.status = n
      OBVIOUS
    <3>2. ~(n \in {401, 404}) /\ n >= 400 /\ ~(n \in 1 .. 399) /\ Exchange(reply)[1] = n
      BY <2>2, <3>1
    <3> QED BY <3>2 DEF Authorize
  <2> QED BY <2>3, <2>4, <2>5
<1> HIDE DEF passed, answered, content
<1>9. passed.body = SubSeq(content, 1, Len(passed.body))
  BY <1>3, <1>5, <1>6
<1>10. passed.ok /\ reply.delimited => passed.body = content
  <2>1. CASE reply.head /\ reply.status = 200
    BY <1>1, <1>5, <2>1
  <2>2. CASE ~(reply.head /\ reply.status = 200)
    BY <1>5, <1>6, <2>2
  <2> QED BY <2>1, <2>2
<1>11. reply.head /\ reply.wire = reply.full /\ reply.status = 200 =>
         passed.ok /\ answered = "authorized"
  BY <1>1, <1>5, <1>8
<1>12. answered = "authorized" => reply.status = 200 /\ passed.body = content
  <2> SUFFICES ASSUME answered = "authorized" PROVE reply.status = 200 /\ passed.body = content
    OBVIOUS
  <2>1. reply.head /\ copied.ok
    BY <1>7
  <2>2. reply.status # 401 /\ ~(reply.status \in 500 .. 599)
    BY <1>8, <2>1
  <2>3. reply.status = 200
    BY <2>2
  <2>4. copied.body = content
    BY <1>8, <2>1, <2>3
  <2> QED BY <1>5, <2>1, <2>3, <2>4
<1>13. answered = "unauthorized" => reply.status = 401
  BY <1>4, <1>7, <1>8
<1> QED BY <1>9, <1>10, <1>11, <1>12, <1>13 DEF ReplyIsWhole, passed, answered, content

\* Nobody takes a part of a message for the whole: for requests of any headers
\* and any size under any limits, and for replies of any text, in any chunks,
\* however many bytes have come (ParsedRequest::parse, serve_connection,
\* copy_body, TcpL0Client::authorize).
THEOREM MessagesEndWhole ==
  ASSUME MaxBody \in Nat, HeadSlack \in Nat, MinBuffer \in Nat,
         rule = "request" => input \in AnyRequest,
         rule = "reply" => ReplyOk(input) /\ input.status \in {200, 401} \cup 500 .. 599
  PROVE  MessagesAreWhole
<1>1. rule = "request" => RequestIsWhole(input)
  BY RequestsAreWhole
<1>2. rule = "reply" => ReplyIsWhole(input)
  BY RepliesAreWhole
<1> QED BY <1>1, <1>2 DEF MessagesAreWhole
=============================================================================
