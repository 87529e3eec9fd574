------------------------ MODULE SgxCeremony_proofs --------------------------
(***************************************************************************)
(* Proofs about SgxCeremony and the order inside it, for every set of      *)
(* keys, every number of authorizations and of tries, every set of         *)
(* settings and every number of issues and of torn files.                  *)
(***************************************************************************)
EXTENDS SgxCeremony, TLAPS

USE AcmeOrderAssumption, SgxCeremonyAssumption

(***************************************************************************)
(* The inductive invariant.                                                *)
(***************************************************************************)

\* The client is past the point where the order left "pending".
Decided ==
  {"clear", "finalize", "certificate", "provisioned", "putAccount", "putKey", "putCert"}

\* A poll stops at its bound: only an order still in processing is asked for
\* again, and an order that was finalized is never pending or ready again.
PollInv ==
  pc = "certificate" =>
    /\ order \in {"processing", "valid", "invalid"}
    /\ seen = "processing" => tries < CertTries

\* The tokens of a pending order: told after they were placed, and cleared
\* after the order was decided.
TokenInv ==
  /\ order = "pending" => told \subseteq tokens
  /\ pc = "authorizations" => at = 1
  /\ pc = "place" => \A a \in open : a < at => a \in tokens
  /\ pc \in {"setReady", "poll"} => open \subseteq tokens
  /\ pc \in Decided => order # "pending"

\* The certificate is over the key of the CSR, which a renewal does not make.
KeyInv ==
  /\ pc \in {"certificate", "provisioned", "putAccount", "putKey", "putCert"} =>
       leaf \in Keys /\ (existing # NoKey => leaf = existing)
  /\ pc \in {"provisioned", "putAccount", "putKey", "putCert"} => chain = leaf
  /\ mode = "renew" /\ pc \notin {"idle", "load", "readKey"} => existing \in Keys
  /\ mode = "renew" /\ pc \notin {"idle", "load", "readKey", "readCert"} => prior \in Keys
  /\ mode = "renew" /\ pc \in {"putAccount", "putKey", "putCert"} => chain = prior

\* Without a peer the edge writes nothing, and what a renewal has read is what
\* the slot holds.
RenewInv ==
  ~cfg.peer =>
    /\ edge \notin {"import", "persistKey", "persistCert"}
    /\ mode = "renew" /\ pc \notin {"idle", "load", "readKey"} => sealed = existing
    /\ mode = "renew" /\ pc \notin {"idle", "load", "readKey", "readCert"} => cert = prior

\* Whoever wrote the key last, and no certificate yet, is about to write the
\* certificate of that key.
WriterInv ==
  /\ writer = "ceremony" => pc = "putCert" /\ sealed = leaf
  /\ writer = "edge" => edge = "persistCert" /\ sealed = incoming
  /\ MixedOnlyIfInterrupted

\* What is imported is a key and a certificate, and what is attested is what is in memory.
EdgeInv ==
  /\ edge \in {"persistKey", "persistCert"} => {incoming, incomingCrt} \subseteq Keys
  /\ edge \in {"accept", "serve"} => attested = crt
  /\ edge = "serve" /\ cfg.prod => key # NoKey /\ crt # NoKey

IInv == TypeOK /\ PollInv /\ TokenInv /\ KeyInv /\ RenewInv /\ WriterInv /\ EdgeInv

-----------------------------------------------------------------------------
(***************************************************************************)
(* Lemmas on the operators of the model.                                   *)
(***************************************************************************)

\* What a PUT leaves: the old file, the new one or a torn one; an answer that
\* arrives is about the new one, and no more files are torn than the bound.
LEMMA PutOutcome ==
  ASSUME NEW old, NEW new, NEW put \in Put(old, new), new # Torn,
         tears \in 0 .. MaxTears, Tears(old, put)
  PROVE  /\ put.ok \in BOOLEAN
         /\ put.file \in {old, new, Torn}
         /\ put.ok => put.file = new
         /\ tears' \in 0 .. MaxTears
<1>1. CASE put = [file |-> new, ok |-> TRUE]
  <2>1. put.file = new /\ put.ok = TRUE
    BY <1>1
  <2>2. QED
    BY <2>1 DEF Tears
<1>2. CASE put = [file |-> new, ok |-> FALSE] \/ put = [file |-> old, ok |-> FALSE]
  <2>1. put.file \in {old, new} /\ put.ok = FALSE
    BY <1>2
  <2>2. QED
    BY <2>1 DEF Tears
<1>3. CASE put = [file |-> Torn, ok |-> FALSE] /\ tears < MaxTears
  <2>1. put.file = Torn /\ put.ok = FALSE
    BY <1>3
  <2>2. tears' \in {tears, tears + 1}
    BY DEF Tears
  <2>3. QED
    BY <1>3, <2>1, <2>2
<1>4. QED
  BY <1>1, <1>2, <1>3 DEF Put

-----------------------------------------------------------------------------
(***************************************************************************)
(* Type correctness.                                                       *)
(***************************************************************************)

LEMMA InitIInv == Init => IInv
<1> SUFFICES ASSUME Init PROVE IInv
  OBVIOUS
<1>1. TypeOK
  <2> USE DEF Init, OrderInit
  <2>1. OrderTypeOK
    <3>1. authz \in [Ids -> AuthorizationStatus]
      BY DEF AuthorizationStatus
    <3>2. at \in 1 .. N + 1 /\ tries \in 0 .. ReadyTries + CertTries
      OBVIOUS
    <3>3. QED
      BY <3>1, <3>2 DEF OrderTypeOK, OrderStatus, MaybeKey
  <2>2. issues \in 0 .. MaxIssues /\ tears \in 0 .. MaxTears
    OBVIOUS
  <2>3. QED
    BY <2>1, <2>2 DEF TypeOK, File, CeremonySteps, EdgeSteps, MaybeKey
<1>2. PollInv /\ TokenInv /\ KeyInv /\ RenewInv /\ EdgeInv
  BY DEF Init, OrderInit, PollInv, TokenInv, KeyInv, RenewInv, EdgeInv, Decided
<1>3. WriterInv
  BY DEF Init, WriterInv, MixedOnlyIfInterrupted
<1>4. QED
  BY <1>1, <1>2, <1>3 DEF IInv

\* A client that stops has forgotten everything.
LEMMA StopType ==
  ASSUME Stop
  PROVE  /\ pc' \in CeremonySteps
         /\ seen' \in OrderStatus /\ open' \subseteq Ids /\ at' \in 1 .. N + 1
         /\ stored' \in BOOLEAN /\ tries' \in 0 .. ReadyTries + CertTries
         /\ existing' \in MaybeKey /\ leaf' \in MaybeKey /\ chain' \in MaybeKey
<1>1. at' \in 1 .. N + 1 /\ tries' \in 0 .. ReadyTries + CertTries
  BY DEF Stop, Forget
<1>2. QED
  BY <1>1 DEF Stop, Forget, CeremonySteps, OrderStatus, MaybeKey

\* The types of what one order keeps, over the steps of the client.
LEMMA TypeProvision ==
  ASSUME TypeOK, PollInv, NEW fresh \in SUBSET Keys, Provision(fresh)
  PROVE  OrderTypeOK' /\ pc' \in CeremonySteps
<1> USE DEF TypeOK, OrderTypeOK, authority, client, Goto, Advance, CeremonySteps,
            ProvisionSteps, MaybeKey
<1>0. N \in Nat /\ 1 <= N /\ ReadyTries \in Nat /\ CertTries \in Nat
  OBVIOUS
<1>1. CASE RestoreAccount \/ CreateAccount \/ Abort
  BY <1>1, StopType DEF RestoreAccount, CreateAccount, Abort
<1>2. CASE NewOrder
  <2>1. order' \in {"ready", "pending"} /\ seen' = order'
    BY <1>2 DEF NewOrder
  <2>2. QED
    BY <1>0, <1>2, <2>1 DEF NewOrder, OrderStatus, AuthorizationStatus
<1>3. CASE FetchAuthorizations
  BY <1>3 DEF FetchAuthorizations
<1>4. CASE Place
  <2>1. tokens' \subseteq Ids
    BY <1>4 DEF Place
  <2>2. QED
    BY <1>0, <1>4, <2>1 DEF Place
<1>5. CASE SetReady
  <2>1. told' \subseteq Ids
    BY <1>5 DEF SetReady
  <2>2. QED
    BY <1>0, <1>5, <2>1, StopType DEF SetReady
<1>6. CASE Refresh
  <2>1. CASE Stop
    BY <1>6, <2>1, StopType DEF Refresh
  <2>2. CASE ~Stop
    <3>1. tries' \in 0 .. ReadyTries + CertTries
      BY <1>0, <1>6, <2>2 DEF Refresh
    <3>2. QED
      BY <1>0, <1>6, <2>2, <3>1 DEF Refresh
  <2>3. QED
    BY <2>1, <2>2
<1>7. CASE Clear
  BY <1>0, <1>7, StopType DEF Clear
<1>8. CASE Finalize(fresh)
  <2>1. PICK k \in IF existing = NoKey THEN fresh ELSE {existing} :
          /\ order' \in {"processing", "valid"}
          /\ \/ /\ leaf' = k /\ seen' = order' /\ tries' = 0 /\ pc' = "certificate"
                /\ UNCHANGED <<at, open, stored, existing, chain>>
             \/ Stop
    BY <1>8 DEF Finalize
  <2>2. k \in Keys
    BY <2>1
  <2>3. QED
    BY <1>0, <1>8, <2>1, <2>2, StopType DEF Finalize, OrderStatus
<1>9. CASE AwaitCertificate
  <2>1. CASE Stop
    BY <1>9, <2>1, StopType DEF AwaitCertificate
  <2>2. CASE ~Stop
    <3>1. tries < CertTries
      BY <1>9 DEF AwaitCertificate, PollInv
    <3>2. QED
      BY <1>0, <1>9, <2>2, <3>1 DEF AwaitCertificate
  <2>3. QED
    BY <2>1, <2>2
<1>10. CASE Download
  BY <1>10 DEF Download
<1>11. QED
  BY <1>1, <1>2, <1>3, <1>4, <1>5, <1>6, <1>7, <1>8, <1>9, <1>10 DEF Provision

LEMMA TypeNext == IInv /\ [Next]_vars => TypeOK'
<1> SUFFICES ASSUME TypeOK, PollInv, KeyInv, EdgeInv, [Next]_vars PROVE TypeOK'
  BY DEF IInv
<1> USE DEF slot, ceremony, memory, history, edgeVars, authority, client
<1>1. CASE Order
  <2>1. OrderTypeOK' /\ pc' \in CeremonySteps
    BY <1>1, TypeProvision DEF Order
  <2>2. QED
    BY <1>1, <2>1 DEF Order, TypeOK, MaybeKey
<1>2. ASSUME NEW m \in {"issue", "renew"}, StartCeremony(m) PROVE TypeOK'
  <2>1. issues' \in 0 .. MaxIssues
    BY <1>2 DEF StartCeremony, TypeOK
  <2>2. QED
    BY <1>2, <2>1 DEF StartCeremony, TypeOK, OrderTypeOK, CeremonySteps
<1>3. CASE LoadAccount \/ ReadKey \/ ReadCert \/ CheckSpki
  <2> USE DEF Goto, TypeOK, OrderTypeOK, CeremonySteps, ProvisionSteps, MaybeKey
  <2>1. CASE LoadAccount
    BY <2>1 DEF LoadAccount
  <2>2. CASE ReadKey
    BY <2>2 DEF ReadKey
  <2>3. CASE ReadCert
    BY <2>3 DEF ReadCert
  <2>4. CASE CheckSpki
    BY <2>4 DEF CheckSpki
  <2>5. QED
    BY <1>3, <2>1, <2>2, <2>3, <2>4
<1>4. CASE CeremonyEnds
  BY <1>4, StopType DEF CeremonyEnds, Leave, Halfway, TypeOK, OrderTypeOK, MaybeKey
<1>5. CASE PutAccount
  <2>1. PICK put \in Put(account, "stored") :
          /\ account' = put.file
          /\ Tears(account, put)
          /\ IF put.ok THEN Goto("putKey") /\ UNCHANGED ceremony ELSE Leave
    BY <1>5 DEF PutAccount
  <2>2. account' \in {Absent, Torn, "stored"} /\ tears' \in 0 .. MaxTears
    BY <2>1, PutOutcome DEF TypeOK
  <2>3. QED
    BY <1>5, <2>1, <2>2, StopType DEF PutAccount, Leave, Goto, TypeOK, OrderTypeOK,
                                      CeremonySteps, MaybeKey
<1>6. CASE PutKey
  <2>1. PICK put \in Put(sealed, leaf) :
          /\ sealed' = put.file
          /\ Tears(sealed, put)
          /\ KeyWritten("ceremony", put)
          /\ IF put.ok THEN Goto("putCert") /\ UNCHANGED ceremony ELSE Leave
    BY <1>6 DEF PutKey
  <2>2. put.ok \in BOOLEAN /\ sealed' \in {sealed, leaf, Torn} /\ tears' \in 0 .. MaxTears
    BY <2>1, PutOutcome DEF TypeOK, OrderTypeOK, MaybeKey
  <2>3. writer' \in {"none", "ceremony", "edge"} /\ mixed' \in BOOLEAN
    BY <2>1 DEF KeyWritten, TypeOK
  <2>4. leaf \in Keys
    BY <1>6 DEF PutKey, KeyInv
  <2>5. QED
    BY <1>6, <2>1, <2>2, <2>3, <2>4, StopType DEF PutKey, Leave, Goto, TypeOK, OrderTypeOK,
                                            CeremonySteps, MaybeKey, File
<1>7. CASE PutCert
  <2>1. PICK put \in Put(cert, chain) :
          cert' = put.file /\ Tears(cert, put) /\ CertWritten("ceremony", put, TRUE)
    BY <1>7 DEF PutCert
  <2>2. cert' \in {cert, chain, Torn} /\ tears' \in 0 .. MaxTears
    BY <2>1, PutOutcome DEF TypeOK, OrderTypeOK, MaybeKey
  <2>3. writer' \in {"none", "ceremony", "edge"} /\ mixed' \in BOOLEAN
    BY <2>1 DEF CertWritten, TypeOK
  <2>4. chain \in Keys
    BY <1>7 DEF PutCert, KeyInv
  <2>5. QED
    BY <1>7, <2>2, <2>3, <2>4, StopType DEF PutCert, Leave, TypeOK, OrderTypeOK, MaybeKey, File
<1>8. CASE Edge
  <2> USE DEF rest, orderVars, Step, Exit, TypeOK, OrderTypeOK, EdgeSteps, MaybeKey, File
  <2>1. CASE Boot \/ ProbeKey \/ StartSync \/ Listen \/ Accept
    BY <2>1 DEF Boot, ProbeKey, StartSync, Listen, Accept
  <2>2. CASE FetchCert \/ FetchKey \/ ReloadKey \/ ReloadCert \/ RecordSpki
    BY <2>2 DEF FetchCert, FetchKey, ReloadKey, ReloadCert, RecordSpki
  <2>3. ASSUME NEW k \in Keys, NEW c \in Keys, Import(k, c) PROVE TypeOK'
    BY <2>3 DEF Import
  <2>4. CASE PersistKey
    <3>1. PICK put \in Put(sealed, incoming) :
            /\ sealed' = put.file
            /\ Tears(sealed, put)
            /\ KeyWritten("edge", put)
            /\ IF put.ok THEN edge' = "persistCert" /\ UNCHANGED memory ELSE Exit
      BY <2>4 DEF PersistKey
    <3>2. put.ok \in BOOLEAN /\ sealed' \in {sealed, incoming, Torn} /\ tears' \in 0 .. MaxTears
      BY <3>1, PutOutcome
    <3>3. writer' \in {"none", "ceremony", "edge"} /\ mixed' \in BOOLEAN
      BY <3>1 DEF KeyWritten
    <3>4. incoming \in Keys
      BY <2>4 DEF PersistKey, EdgeInv
    <3>5. QED
      BY <2>4, <3>1, <3>2, <3>3, <3>4 DEF PersistKey
  <2>5. CASE PersistCert
    <3>1. PICK put \in Put(cert, incomingCrt) :
            /\ cert' = put.file
            /\ Tears(cert, put)
            /\ CertWritten("edge", put, incomingCrt = incoming)
            /\ IF put.ok THEN edge' = "reloadKey" /\ UNCHANGED memory ELSE Exit
      BY <2>5 DEF PersistCert
    <3>2. cert' \in {cert, incomingCrt, Torn} /\ tears' \in 0 .. MaxTears
      BY <3>1, PutOutcome
    <3>3. writer' \in {"none", "ceremony", "edge"} /\ mixed' \in BOOLEAN
      BY <3>1 DEF CertWritten
    <3>4. incomingCrt \in Keys
      BY <2>5 DEF PersistCert, EdgeInv
    <3>5. QED
      BY <2>5, <3>1, <3>2, <3>3, <3>4 DEF PersistCert
  <2>6. CASE Die
    BY <2>6 DEF Die, Halfway
  <2>7. QED
    BY <1>8, <2>1, <2>2, <2>3, <2>4, <2>5, <2>6 DEF Edge
<1>9. CASE Authority /\ UNCHANGED Other
  <2>1. order' \in OrderStatus /\ authz' \in [Ids -> AuthorizationStatus]
    <3>1. CASE Issue
      BY <3>1 DEF Issue, TypeOK, OrderTypeOK, OrderStatus
    <3>2. ASSUME NEW a \in Ids, Probe(a) PROVE <2>1!:
      <4>1. PICK s \in {"valid", "invalid"} : authz' = [authz EXCEPT ![a] = s]
        BY <3>2 DEF Probe
      <4>2. order' \in {"invalid", "ready", "pending"}
        BY <3>2 DEF Probe
      <4>3. QED
        BY <4>1, <4>2 DEF TypeOK, OrderTypeOK, OrderStatus, AuthorizationStatus
    <3>3. QED
      BY <1>9, <3>1, <3>2 DEF Authority
  <2>2. UNCHANGED <<told, tokens, pc, client>>
    BY <1>9 DEF Authority, Issue, Probe
  <2>3. QED
    BY <1>9, <2>1, <2>2 DEF Other, TypeOK, OrderTypeOK
<1>10. CASE UNCHANGED vars
  BY <1>10 DEF vars, orderVars, TypeOK, OrderTypeOK
<1>11. QED
  BY <1>1, <1>2, <1>3, <1>4, <1>5, <1>6, <1>7, <1>8, <1>9, <1>10 DEF Next, Ceremony

-----------------------------------------------------------------------------
(***************************************************************************)
(* What the parts leave alone.                                             *)
(***************************************************************************)

LEMMA EdgeFrame == Edge => UNCHANGED rest
BY DEF Edge, Boot, ProbeKey, FetchCert, FetchKey, StartSync, Import, PersistKey, PersistCert,
       ReloadKey, ReloadCert, Listen, RecordSpki, Accept, Die, Step

LEMMA CeremonyFrame == Ceremony => UNCHANGED <<cfg, edgeVars>>
BY DEF Ceremony, StartCeremony, LoadAccount, ReadKey, ReadCert, Order, CheckSpki, PutAccount,
       PutKey, PutCert, CeremonyEnds

\* The authority moves an order forward only.
LEMMA AuthorityFrame ==
  Authority => /\ UNCHANGED <<told, tokens, pc, client>>
               /\ order = "pending" \/ order' \in {"valid", "invalid"}
BY DEF Authority, Issue, Probe

\* The steps of the ceremony around its order: the authority and the tokens
\* stay, and only what follows the order leads further in it.
LEMMA AroundOrder ==
  ASSUME Ceremony, ~Order
  PROVE  /\ UNCHANGED <<authority, tokens>>
         /\ \/ pc' \in {"idle", "load", "readKey", "readCert", "account"}
            \/ pc \in Decided /\ pc' \in {"putAccount", "putKey", "putCert"}
<1> USE DEF Leave, Goto, Stop, Decided
<1>1. CASE (\E m \in {"issue", "renew"} : StartCeremony(m)) \/ LoadAccount \/ ReadKey \/ ReadCert
  BY <1>1 DEF StartCeremony, LoadAccount, ReadKey, ReadCert
<1>2. CASE CheckSpki \/ PutCert \/ CeremonyEnds
  BY <1>2 DEF CheckSpki, PutCert, CeremonyEnds
<1>3. CASE PutAccount \/ PutKey
  BY <1>3 DEF PutAccount, PutKey
<1>4. QED
  BY <1>1, <1>2, <1>3 DEF Ceremony

-----------------------------------------------------------------------------
(***************************************************************************)
(* The order and its tokens.                                               *)
(***************************************************************************)

LEMMA PollNext == IInv /\ [Next]_vars => PollInv'
<1> SUFFICES ASSUME TypeOK, PollInv, [Next]_vars PROVE PollInv'
  BY DEF IInv
<1> USE DEF PollInv
<1>1. CASE Order
  <2> SUFFICES ASSUME pc' = "certificate" PROVE PollInv'
    OBVIOUS
  <2>1. PICK fresh : Provision(fresh)
    BY <1>1 DEF Order
  <2>2. CASE Finalize(fresh)
    BY <2>2 DEF Finalize, Stop
  <2>3. CASE AwaitCertificate
    <3>1. order \in {"processing", "valid", "invalid"} /\ tries < CertTries /\ tries \in Nat
      BY <2>3 DEF AwaitCertificate, TypeOK, OrderTypeOK
    <3>2. QED
      BY <2>3, <3>1 DEF AwaitCertificate, Stop, authority
  <2>4. QED
    BY <2>1, <2>2, <2>3 DEF Provision, RestoreAccount, CreateAccount, NewOrder,
         FetchAuthorizations, Place, SetReady, Refresh, Clear, Download, Abort, Goto, Advance,
         Stop
<1>2. CASE Ceremony /\ ~Order
  BY <1>2, AroundOrder
<1>3. CASE Edge
  BY <1>3, EdgeFrame DEF rest, orderVars, authority, client
<1>4. CASE Authority
  BY <1>4, AuthorityFrame DEF client
<1>5. CASE UNCHANGED vars
  BY <1>5 DEF vars, orderVars, authority, client
<1>6. QED
  BY <1>1, <1>2, <1>3, <1>4, <1>5 DEF Next

\* The tokens over the steps of the client: all are placed before one is told,
\* and the first is cleared after the order has been decided.
LEMMA TokenProvision ==
  ASSUME TypeOK, TokenInv, NEW fresh, Provision(fresh)
  PROVE  TokenInv'
<1> USE DEF TokenInv, Decided, authority, client
<1>1. CASE RestoreAccount \/ CreateAccount \/ Abort
  BY <1>1 DEF RestoreAccount, CreateAccount, Abort, Goto, Stop
<1>2. CASE NewOrder
  <2>1. /\ told' = {} /\ at' = 1
        /\ \/ pc' = "authorizations"
           \/ pc' = "finalize" /\ order' # "pending"
    BY <1>2 DEF NewOrder
  <2>2. QED
    BY <2>1
<1>3. CASE FetchAuthorizations
  <2>1. pc' = "place" /\ at' = 1 /\ open' \subseteq Ids /\ UNCHANGED <<order, told, tokens>>
    BY <1>3 DEF FetchAuthorizations
  <2>2. \A a \in open' : ~(a < at')
    BY <2>1 DEF Ids
  <2>3. QED
    BY <2>1, <2>2
<1>4. CASE Place
  <2>1. /\ tokens' = IF at \in open THEN tokens \cup {at} ELSE tokens
        /\ UNCHANGED <<order, told, open>>
    BY <1>4 DEF Place, Advance
  <2>2. CASE at < N
    <3>1. pc' = "place" /\ at' = at + 1
      BY <1>4, <2>2 DEF Place, Advance
    <3>2. \A a \in open' : a < at' => a < at \/ a = at
      BY <2>1, <3>1 DEF TypeOK, OrderTypeOK, Ids
    <3>3. \A a \in open' : a < at' => a \in tokens'
      BY <1>4, <2>1, <3>2 DEF Place
    <3>4. QED
      BY <2>1, <3>1, <3>3
  <2>3. CASE ~(at < N)
    <3>1. pc' = "setReady"
      BY <1>4, <2>3 DEF Place, Advance
    <3>2. \A a \in open : a < at \/ a = at
      BY <2>3 DEF TypeOK, OrderTypeOK, Ids
    <3>3. open' \subseteq tokens'
      BY <1>4, <2>1, <3>2 DEF Place
    <3>4. QED
      BY <2>1, <3>1, <3>3
  <2>4. QED
    BY <2>2, <2>3
<1>5. CASE SetReady
  <2>1. told' \subseteq told \cup open /\ UNCHANGED <<order, tokens>>
    BY <1>5 DEF SetReady
  <2>2. CASE Advance("poll")
    BY <1>5, <2>1, <2>2 DEF SetReady, Advance
  <2>3. CASE Stop
    BY <1>5, <2>1, <2>3 DEF SetReady, Stop
  <2>4. QED
    BY <1>5, <2>2, <2>3 DEF SetReady
<1>6. CASE Refresh
  BY <1>6 DEF Refresh, Stop
<1>7. CASE Clear
  BY <1>7 DEF Clear, Advance, Stop
<1>8. CASE Finalize(fresh)
  BY <1>8 DEF Finalize, Stop
<1>9. CASE AwaitCertificate \/ Download
  BY <1>9 DEF AwaitCertificate, Download, Stop
<1>10. QED
  BY <1>1, <1>2, <1>3, <1>4, <1>5, <1>6, <1>7, <1>8, <1>9 DEF Provision

LEMMA TokenNext == IInv /\ [Next]_vars => TokenInv'
<1> SUFFICES ASSUME TypeOK, TokenInv, [Next]_vars PROVE TokenInv'
  BY DEF IInv
<1>1. CASE Order
  BY <1>1, TokenProvision DEF Order
<1>2. CASE Ceremony /\ ~Order
  BY <1>2, AroundOrder DEF TokenInv, Decided, authority
<1>3. CASE Edge
  BY <1>3, EdgeFrame DEF rest, orderVars, authority, client, TokenInv
<1>4. CASE Authority
  BY <1>4, AuthorityFrame DEF TokenInv, client
<1>5. CASE UNCHANGED vars
  BY <1>5 DEF vars, orderVars, authority, client, TokenInv
<1>6. QED
  BY <1>1, <1>2, <1>3, <1>4, <1>5 DEF Next

-----------------------------------------------------------------------------
(***************************************************************************)
(* Keys and certificates.                                                  *)
(***************************************************************************)

\* An order that goes on keeps the existing key; the key of the CSR is made at
\* its end, and the certificate received is over it.
LEMMA OrderKeys ==
  ASSUME TypeOK, KeyInv, Order, pc' # "idle"
  PROVE  /\ pc \in ProvisionSteps /\ pc' \in ProvisionSteps
         /\ UNCHANGED <<existing, ceremony>>
         /\ pc' \in {"certificate", "provisioned"} =>
              leaf' \in Keys /\ (existing # NoKey => leaf' = existing)
         /\ pc' = "provisioned" => chain' = leaf'
<1> DEFINE fresh == Keys \ {sealed, cert, key, crt}
<1>1. Provision(fresh) /\ UNCHANGED ceremony
  BY DEF Order
<1> HIDE DEF fresh
<1> USE DEF ProvisionSteps, client, ceremony, Goto, Stop, Advance
<1>2. CASE RestoreAccount \/ CreateAccount \/ NewOrder \/ FetchAuthorizations \/ Place
  BY <1>1, <1>2 DEF RestoreAccount, CreateAccount, NewOrder, FetchAuthorizations, Place
<1>3. CASE SetReady \/ Refresh \/ Clear \/ Abort
  BY <1>1, <1>3 DEF SetReady, Refresh, Clear, Abort
<1>4. CASE Finalize(fresh)
  <2>1. PICK k \in IF existing = NoKey THEN fresh ELSE {existing} :
          leaf' = k /\ pc' = "certificate" /\ UNCHANGED existing
    BY <1>4 DEF Finalize
  <2>2. k \in Keys
    BY <2>1 DEF fresh, TypeOK, OrderTypeOK, MaybeKey
  <2>3. QED
    BY <1>1, <1>4, <2>1, <2>2 DEF Finalize
<1>5. CASE AwaitCertificate \/ Download
  BY <1>1, <1>5 DEF AwaitCertificate, Download, KeyInv
<1>6. QED
  BY <1>1, <1>2, <1>3, <1>4, <1>5 DEF Provision

LEMMA KeyNext == IInv /\ [Next]_vars => KeyInv'
<1> SUFFICES ASSUME TypeOK, KeyInv, [Next]_vars PROVE KeyInv'
  BY DEF IInv
<1> USE DEF KeyInv, ceremony, client
<1>1. CASE Order
  <2>1. CASE pc' = "idle"
    BY <1>1, <2>1 DEF Order
  <2>2. CASE pc' # "idle"
    BY <1>1, <2>2, OrderKeys DEF ProvisionSteps
  <2>3. QED
    BY <2>1, <2>2
<1>2. CASE (\E m \in {"issue", "renew"} : StartCeremony(m)) \/ LoadAccount \/ ReadKey \/ ReadCert
  BY <1>2 DEF StartCeremony, LoadAccount, ReadKey, ReadCert, Goto
<1>3. CASE CheckSpki
  BY <1>3 DEF CheckSpki, Goto
<1>4. CASE PutAccount \/ PutKey
  BY <1>4 DEF PutAccount, PutKey, Goto, Leave, Stop
<1>5. CASE PutCert \/ CeremonyEnds
  BY <1>5 DEF PutCert, CeremonyEnds, Leave, Stop
<1>6. CASE Edge
  BY <1>6, EdgeFrame DEF rest, orderVars
<1>7. CASE Authority /\ UNCHANGED Other
  BY <1>7, AuthorityFrame DEF Other
<1>8. CASE UNCHANGED vars
  BY <1>8 DEF vars, orderVars
<1>9. QED
  BY <1>1, <1>2, <1>3, <1>4, <1>5, <1>6, <1>7, <1>8 DEF Next, Ceremony

LEMMA RenewNext == IInv /\ [Next]_vars => RenewInv'
<1> SUFFICES ASSUME TypeOK, KeyInv, RenewInv, [Next]_vars PROVE RenewInv'
  BY DEF IInv
<1> USE DEF RenewInv, ceremony, client, slot, edgeVars
<1>1. CASE Order
  <2>1. CASE pc' = "idle"
    BY <1>1, <2>1 DEF Order
  <2>2. CASE pc' # "idle"
    BY <1>1, <2>2, OrderKeys DEF Order, ProvisionSteps
  <2>3. QED
    BY <2>1, <2>2
<1>2. CASE (\E m \in {"issue", "renew"} : StartCeremony(m)) \/ LoadAccount \/ ReadKey \/ ReadCert
  BY <1>2 DEF StartCeremony, LoadAccount, ReadKey, ReadCert, Goto
<1>3. CASE CheckSpki
  BY <1>3 DEF CheckSpki, Goto
<1>4. CASE PutAccount
  BY <1>4 DEF PutAccount, Goto, Leave, Stop
<1>5. CASE PutKey
  <2>1. PICK put \in Put(sealed, leaf) :
          /\ sealed' = put.file
          /\ Tears(sealed, put)
          /\ IF put.ok THEN Goto("putCert") /\ UNCHANGED ceremony ELSE Leave
    BY <1>5 DEF PutKey
  <2>2. CASE put.ok
    <3>1. sealed' = leaf
      BY <2>1, <2>2, PutOutcome DEF TypeOK, OrderTypeOK, MaybeKey
    <3>2. mode = "renew" => leaf = existing /\ (~cfg.peer => cert = prior)
      BY <1>5 DEF PutKey, KeyInv
    <3>3. QED
      BY <1>5, <2>1, <2>2, <3>1, <3>2 DEF PutKey, Goto
  <2>3. CASE ~put.ok
    BY <1>5, <2>1, <2>3 DEF PutKey, Leave, Stop
  <2>4. QED
    BY <2>2, <2>3
<1>6. CASE PutCert \/ CeremonyEnds
  BY <1>6 DEF PutCert, CeremonyEnds, Leave, Stop
<1>7. CASE Edge
  <2>1. UNCHANGED <<pc, mode, prior, existing, cfg>>
    BY <1>7, EdgeFrame DEF rest, orderVars
  <2> SUFFICES ASSUME ~cfg.peer PROVE RenewInv'
    BY <2>1
  <2>2. UNCHANGED slot /\ edge' \notin {"import", "persistKey", "persistCert"}
    BY <1>7 DEF Edge, Boot, ProbeKey, FetchCert, FetchKey, StartSync, Import, PersistKey,
         PersistCert, ReloadKey, ReloadCert, Listen, RecordSpki, Accept, Die, Step, Exit
  <2>3. QED
    BY <2>1, <2>2
<1>8. CASE Authority /\ UNCHANGED Other
  BY <1>8, AuthorityFrame DEF Other
<1>9. CASE UNCHANGED vars
  BY <1>9 DEF vars, orderVars
<1>10. QED
  BY <1>1, <1>2, <1>3, <1>4, <1>5, <1>6, <1>7, <1>8, <1>9 DEF Next, Ceremony

-----------------------------------------------------------------------------
(***************************************************************************)
(* The two writers of the slot.                                            *)
(***************************************************************************)

LEMMA WriterNext == IInv /\ [Next]_vars => WriterInv'
<1> SUFFICES ASSUME TypeOK, KeyInv, WriterInv, EdgeInv, [Next]_vars PROVE WriterInv'
  BY DEF IInv
<1> USE DEF WriterInv, MixedOnlyIfInterrupted, slot, history
<1>1. CASE Order
  <2>1. pc # "putCert"
    BY <1>1 DEF Order, Provision, RestoreAccount, CreateAccount, NewOrder, FetchAuthorizations,
         Place, SetReady, Refresh, Clear, Finalize, AwaitCertificate, Download, Abort,
         ProvisionSteps
  <2>2. QED
    BY <1>1, <2>1 DEF Order, edgeVars, memory
<1>2. CASE (\E m \in {"issue", "renew"} : StartCeremony(m)) \/ LoadAccount \/ ReadKey
           \/ ReadCert \/ CheckSpki
  BY <1>2 DEF StartCeremony, LoadAccount, ReadKey, ReadCert, CheckSpki, edgeVars, memory
<1>3. CASE PutAccount
  BY <1>3 DEF PutAccount, edgeVars, memory
<1>4. CASE PutKey
  <2>1. PICK put \in Put(sealed, leaf) :
          /\ sealed' = put.file
          /\ Tears(sealed, put)
          /\ KeyWritten("ceremony", put)
          /\ IF put.ok THEN Goto("putCert") /\ UNCHANGED ceremony ELSE Leave
    BY <1>4 DEF PutKey
  <2>2. writer # "ceremony" /\ UNCHANGED <<cert, edge, incoming>>
    BY <1>4 DEF PutKey, edgeVars, memory
  <2>3. CASE put.ok
    <3>1. sealed' = leaf
      BY <2>1, <2>3, PutOutcome DEF TypeOK, OrderTypeOK, MaybeKey
    <3>2. writer' = "ceremony" /\ pc' = "putCert" /\ leaf' = leaf
      BY <2>1, <2>3 DEF KeyWritten, Goto, client
    <3>3. QED
      BY <3>1, <3>2
  <2>4. CASE ~put.ok /\ sealed' = sealed
    BY <2>1, <2>2, <2>4 DEF KeyWritten
  <2>5. CASE ~put.ok /\ sealed' # sealed
    BY <2>1, <2>5 DEF KeyWritten
  <2>6. QED
    BY <2>3, <2>4, <2>5
<1>5. CASE PutCert
  <2>1. PICK put \in Put(cert, chain) :
          cert' = put.file /\ Tears(cert, put) /\ CertWritten("ceremony", put, TRUE)
    BY <1>5 DEF PutCert
  <2>2. UNCHANGED <<sealed, edge, incoming>>
    BY <1>5 DEF PutCert, edgeVars, memory
  <2>3. CASE put.ok /\ writer = "ceremony"
    <3>1. cert' = chain /\ chain = leaf /\ sealed = leaf
      BY <1>5, <2>1, <2>3, PutOutcome DEF PutCert, KeyInv, TypeOK, OrderTypeOK, MaybeKey
    <3>2. writer' = "none"
      BY <2>1, <2>3 DEF CertWritten
    <3>3. QED
      BY <2>2, <3>1, <3>2
  <2>4. CASE ~(put.ok /\ writer = "ceremony")
    <3>1. mixed' = TRUE /\ writer' # "ceremony" /\ (writer' = "edge" => writer = "edge")
      BY <2>1, <2>4 DEF CertWritten
    <3>2. QED
      BY <2>2, <3>1
  <2>5. QED
    BY <2>3, <2>4
<1>6. CASE CeremonyEnds
  <2>1. UNCHANGED <<sealed, cert, edge, incoming>>
    BY <1>6 DEF CeremonyEnds, edgeVars, memory
  <2>2. CASE writer = "ceremony"
    <3>1. writer' = "none" /\ mixed' = TRUE
      BY <1>6, <2>2 DEF CeremonyEnds, Halfway
    <3>2. QED
      BY <3>1
  <2>3. CASE writer # "ceremony"
    <3>1. writer' = writer /\ mixed' = mixed
      BY <1>6, <2>3 DEF CeremonyEnds, Halfway, TypeOK
    <3>2. QED
      BY <2>1, <2>3, <3>1
  <2>4. QED
    BY <2>2, <2>3
<1>7. CASE Edge
  <2>1. UNCHANGED <<pc, leaf>>
    BY <1>7, EdgeFrame DEF rest, orderVars, client
  <2>2. CASE PersistKey
    <3>1. PICK put \in Put(sealed, incoming) :
            /\ sealed' = put.file
            /\ Tears(sealed, put)
            /\ KeyWritten("edge", put)
            /\ IF put.ok THEN edge' = "persistCert" /\ UNCHANGED memory ELSE Exit
      BY <2>2 DEF PersistKey
    <3>2. writer # "edge" /\ UNCHANGED cert
      BY <2>2 DEF PersistKey
    <3>3. CASE put.ok
      <4>1. sealed' = incoming
        BY <2>2, <3>1, <3>3, PutOutcome DEF PersistKey, EdgeInv, TypeOK
      <4>2. writer' = "edge" /\ edge' = "persistCert" /\ incoming' = incoming
        BY <3>1, <3>3 DEF KeyWritten, memory
      <4>3. QED
        BY <4>1, <4>2
    <3>4. CASE ~put.ok /\ sealed' = sealed
      BY <2>1, <3>1, <3>2, <3>4 DEF KeyWritten
    <3>5. CASE ~put.ok /\ sealed' # sealed
      BY <3>1, <3>5 DEF KeyWritten
    <3>6. QED
      BY <3>3, <3>4, <3>5
  <2>3. CASE PersistCert
    <3>1. PICK put \in Put(cert, incomingCrt) :
            /\ cert' = put.file /\ Tears(cert, put)
            /\ CertWritten("edge", put, incomingCrt = incoming)
      BY <2>3 DEF PersistCert
    <3>2. UNCHANGED sealed
      BY <2>3 DEF PersistCert
    <3>3. CASE put.ok /\ writer = "edge" /\ incomingCrt = incoming
      <4>1. cert' = incoming /\ sealed = incoming
        BY <2>3, <3>1, <3>3, PutOutcome DEF PersistCert, EdgeInv, TypeOK
      <4>2. writer' = "none"
        BY <3>1, <3>3 DEF CertWritten
      <4>3. QED
        BY <3>2, <4>1, <4>2
    <3>4. CASE ~(put.ok /\ writer = "edge" /\ incomingCrt = incoming)
      <4>1. mixed' = TRUE /\ writer' # "edge" /\ (writer' = "ceremony" => writer = "ceremony")
        BY <3>1, <3>4 DEF CertWritten
      <4>2. QED
        BY <2>1, <3>2, <4>1
    <3>5. QED
      BY <3>3, <3>4
  <2>4. CASE Die
    <3>1. CASE writer = "edge"
      <4>1. writer' = "none" /\ mixed' = TRUE
        BY <2>4, <3>1 DEF Die, Halfway
      <4>2. QED
        BY <4>1
    <3>2. CASE writer # "edge"
      <4>1. writer' = writer /\ mixed' = mixed /\ UNCHANGED <<sealed, cert>>
        BY <2>4, <3>2 DEF Die, Halfway, TypeOK
      <4>2. QED
        BY <2>1, <3>2, <4>1
    <3>3. QED
      BY <3>1, <3>2
  <2>5. CASE ~(PersistKey \/ PersistCert \/ Die)
    <3>1. edge # "persistCert" /\ UNCHANGED <<sealed, cert, writer, mixed>>
      BY <1>7, <2>5 DEF Edge, Boot, ProbeKey, FetchCert, FetchKey, StartSync, Import, ReloadKey,
           ReloadCert, Listen, RecordSpki, Accept, Step
    <3>2. QED
      BY <2>1, <3>1
  <2>6. QED
    BY <2>2, <2>3, <2>4, <2>5
<1>8. CASE Authority /\ UNCHANGED Other
  BY <1>8, AuthorityFrame DEF Other, client, edgeVars, memory
<1>9. CASE UNCHANGED vars
  BY <1>9 DEF vars, orderVars, client, memory
<1>10. QED
  BY <1>1, <1>2, <1>3, <1>4, <1>5, <1>6, <1>7, <1>8, <1>9 DEF Next, Ceremony

-----------------------------------------------------------------------------
(***************************************************************************)
(* The edge.                                                               *)
(***************************************************************************)

LEMMA EdgeNext == IInv /\ [Next]_vars => EdgeInv'
<1> SUFFICES ASSUME EdgeInv, [Next]_vars PROVE EdgeInv'
  BY DEF IInv
<1> USE DEF EdgeInv, memory
<1>1. CASE Ceremony
  BY <1>1, CeremonyFrame DEF edgeVars
<1>2. CASE Edge
  <2>1. UNCHANGED cfg
    BY <1>2, EdgeFrame DEF rest
  <2>2. CASE Boot \/ ProbeKey \/ FetchCert \/ FetchKey \/ StartSync
    BY <2>2 DEF Boot, ProbeKey, FetchCert, FetchKey, StartSync, Step
  <2>3. CASE \E k, c \in Keys : Import(k, c)
    BY <2>3 DEF Import
  <2>4. CASE PersistKey
    BY <2>4 DEF PersistKey, Exit
  <2>5. CASE PersistCert
    BY <2>5 DEF PersistCert, Exit
  <2>6. CASE ReloadKey \/ ReloadCert \/ Listen \/ RecordSpki
    BY <2>6 DEF ReloadKey, ReloadCert, Listen, RecordSpki, Step
  <2>7. CASE Accept
    BY <2>1, <2>7 DEF Accept, Step
  <2>8. CASE Die
    BY <2>8 DEF Die, Exit
  <2>9. QED
    BY <1>2, <2>2, <2>3, <2>4, <2>5, <2>6, <2>7, <2>8 DEF Edge
<1>3. CASE Authority /\ UNCHANGED Other
  BY <1>3 DEF Other, edgeVars
<1>4. CASE UNCHANGED vars
  BY <1>4 DEF vars
<1>5. QED
  BY <1>1, <1>2, <1>3, <1>4 DEF Next

-----------------------------------------------------------------------------
(***************************************************************************)
(* The theorems.                                                           *)
(***************************************************************************)

LEMMA Inductive == Spec => []IInv
<1>1. IInv /\ [Next]_vars => IInv'
  BY TypeNext, PollNext, TokenNext, KeyNext, RenewNext, WriterNext, EdgeNext DEF IInv
<1>2. QED
  BY InitIInv, <1>1, PTL DEF Spec

\* Every variable keeps its type: what the helper's files, the two processes
\* and the authority may hold, and the bounds of the polls of provision_http01.
THEOREM TypeCorrect == Spec => []TypeOK
<1>1. IInv => TypeOK
  BY DEF IInv
<1>2. QED
  BY Inductive, <1>1, PTL

\* provision_http01 never leaves the authority with a challenge that is called
\* ready, still open, and has no token in the webroot, whatever fails on the
\* way and however many ceremonies were given up before.
THEOREM TokensAreFound == Spec => []ProbeFindsToken
<1>1. IInv => ProbeFindsToken
  BY DEF IInv, TokenInv, ProbeFindsToken
<1>2. QED
  BY Inductive, <1>1, PTL

\* A key next to the certificate of another key in the slot of the helper has
\* an interrupted or an overlapping writing behind it, or a peer that exported the
\* two, with any number of ceremonies, imports and torn files.
THEOREM SlotIsAPair == Spec => []MixedOnlyIfInterrupted
<1>1. IInv => MixedOnlyIfInterrupted
  BY DEF IInv, WriterInv
<1>2. QED
  BY Inductive, <1>1, PTL

\* A production edge that serves has a key and a certificate and attests that
\* certificate, whatever run() found, failed to find or imported.
THEOREM ServesAttested == Spec => []ProdServesAttested
<1>1. IInv => ProdServesAttested
  BY DEF IInv, TypeOK, EdgeInv, ProdServesAttested, MaybeKey
<1>2. QED
  BY Inductive, <1>1, PTL

\* A renewal of a slot without a peer writes the key and the SPKI that were
\* there, or tears a file; the provisioning in between may take any course.
THEOREM RenewalKeepsSpki == Spec => RenewKeepsSpki
<1> DEFINE Kept == mode = "renew" /\ pc \in {"putKey", "putCert"} /\ ~cfg.peer
                     => sealed' \in {sealed, Torn} /\ cert' \in {cert, Torn}
<1>1. IInv /\ [Next]_vars => [Kept]_vars
  <2> SUFFICES ASSUME TypeOK, KeyInv, RenewInv, Next, mode = "renew",
                      pc \in {"putKey", "putCert"}, ~cfg.peer
               PROVE  sealed' \in {sealed, Torn} /\ cert' \in {cert, Torn}
    BY DEF IInv
  <2>1. /\ leaf = sealed /\ chain = cert /\ leaf # Torn /\ chain # Torn
    BY DEF KeyInv, RenewInv
  <2>2. CASE PutKey
    <3>1. PICK put \in Put(sealed, leaf) : sealed' = put.file /\ Tears(sealed, put)
      BY <2>2 DEF PutKey
    <3>2. QED
      BY <2>1, <2>2, <3>1, PutOutcome DEF PutKey, TypeOK
  <2>3. CASE PutCert
    <3>1. PICK put \in Put(cert, chain) : cert' = put.file /\ Tears(cert, put)
      BY <2>3 DEF PutCert
    <3>2. QED
      BY <2>1, <2>3, <3>1, PutOutcome DEF PutCert, TypeOK
  <2>4. CASE CeremonyEnds
    BY <2>4 DEF CeremonyEnds, slot
  <2>5. CASE Edge
    BY <2>5 DEF RenewInv, Edge, Boot, ProbeKey, FetchCert, FetchKey, StartSync, Import,
         PersistKey, PersistCert, ReloadKey, ReloadCert, Listen, RecordSpki, Accept, Die, Step,
         slot
  <2>6. CASE Order
    BY <2>6 DEF Order, slot
  <2>7. CASE Authority /\ UNCHANGED Other
    BY <2>7 DEF Other, slot
  <2>8. QED
    BY <2>2, <2>3, <2>4, <2>5, <2>6, <2>7 DEF Next, Ceremony, StartCeremony, LoadAccount,
         ReadKey, ReadCert, CheckSpki, PutAccount
<1>2. QED
  BY Inductive, <1>1, PTL DEF Spec, RenewKeepsSpki
=============================================================================
