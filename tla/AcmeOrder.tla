----------------------------- MODULE AcmeOrder ------------------------------
(***************************************************************************)
(* One certificate order over HTTP-01: provision_http01 of                 *)
(* crates/openapi-acme-sync, between the certificate authority, which is   *)
(* external, and the webroot in which the challenge tokens are published.  *)
(*                                                                         *)
(* Every request of the client may fail before it arrives or after it has  *)
(* been carried out; the client gives up at the first failure and leaves   *)
(* everything where it is.  The authority answers and probes at its own    *)
(* pace, also after the client has gone.  A key stands for a private key,  *)
(* its CSR, the certificate over it and their SPKI.  Replay nonces, JOSE   *)
(* and the transport are part of what makes a request succeed or fail.     *)
(***************************************************************************)
EXTENDS Naturals

CONSTANTS
  Keys,         \* leaf keys
  NoKey,        \* no key
  N,            \* authorizations of an order
  ReadyTries,   \* refreshes of an order that is not ready (4 in the code)
  CertTries     \* requests for a certificate that is not there (11 in the code)

ASSUME AcmeOrderAssumption ==
  /\ NoKey \notin Keys
  /\ {N, ReadyTries, CertTries} \subseteq Nat \ {0}

VARIABLES
  order,     \* the order's status at the authority
  authz,     \* and the status of each of its authorizations
  told,      \* authorizations whose challenge the client has called ready
  tokens,    \* authorizations of this order whose token is in the webroot
  pc,        \* where the client stands
  at,        \* the authorization it is at
  open,      \* authorizations that were pending when it read them
  seen,      \* order.state(): the status it saw last
  tries,     \* attempts of the current poll
  stored,    \* there are account credentials
  existing,  \* existing_private_key_pem
  leaf,      \* the key of the CSR
  chain      \* the key of the certificate received

authority == <<order, authz, told>>
client    == <<at, open, seen, tries, stored, existing, leaf, chain>>
orderVars == <<authority, tokens, pc, client>>

Ids == 1 .. N
MaybeKey == Keys \cup {NoKey}
OrderStatus == {"none", "pending", "ready", "processing", "valid", "invalid"}
AuthorizationStatus == {"pending", "valid", "invalid"}
ProvisionSteps ==
  {"account", "newOrder", "authorizations", "place", "setReady", "poll", "clear",
   "finalize", "certificate", "provisioned"}

OrderTypeOK ==
  /\ order \in OrderStatus /\ seen \in OrderStatus
  /\ authz \in [Ids -> AuthorizationStatus]
  /\ told \subseteq Ids /\ tokens \subseteq Ids /\ open \subseteq Ids
  /\ at \in 1 .. N + 1
  /\ stored \in BOOLEAN
  /\ tries \in 0 .. ReadyTries + CertTries
  /\ existing \in MaybeKey /\ leaf \in MaybeKey /\ chain \in MaybeKey

OrderInit ==
  /\ order = "none" /\ authz = [a \in Ids |-> "pending"] /\ told = {}
  /\ tokens = {}
  /\ at = 1 /\ open = {} /\ seen = "none" /\ tries = 0
  /\ stored = FALSE /\ existing = NoKey /\ leaf = NoKey /\ chain = NoKey

-----------------------------------------------------------------------------
(***************************************************************************)
(* The authority                                                           *)
(***************************************************************************)

\* A probe finds the token and succeeds or not, or finds none and fails.
Probe(a) ==
  /\ order = "pending" /\ a \in told /\ authz[a] = "pending"
  /\ \E s \in IF a \in tokens THEN {"valid", "invalid"} ELSE {"invalid"} :
       authz' = [authz EXCEPT ![a] = s]
  /\ order' = IF authz'[a] = "invalid" THEN "invalid"
              ELSE IF \A b \in Ids : authz'[b] = "valid" THEN "ready" ELSE "pending"
  /\ UNCHANGED <<told, tokens, pc, client>>

\* The certificate is issued, or refused.
Issue ==
  /\ order = "processing"
  /\ order' \in {"valid", "invalid"}
  /\ UNCHANGED <<authz, told, tokens, pc, client>>

Authority == Issue \/ \E a \in Ids : Probe(a)

-----------------------------------------------------------------------------
(***************************************************************************)
(* The client                                                              *)
(***************************************************************************)

\* The ceremony ends; what it held in memory is gone.
Forget ==
  /\ at' = 1 /\ open' = {} /\ seen' = "none" /\ tries' = 0
  /\ stored' = FALSE /\ existing' = NoKey /\ leaf' = NoKey /\ chain' = NoKey

Stop == pc' = "idle" /\ Forget

Goto(step) == pc' = step /\ UNCHANGED client

\* open_or_create_account: with credentials only the directory is asked ...
RestoreAccount ==
  /\ pc = "account" /\ stored
  /\ Goto("newOrder")
  /\ UNCHANGED <<authority, tokens>>

\* ... without them an account is made.
CreateAccount ==
  /\ pc = "account" /\ ~stored
  /\ Goto("newOrder")
  /\ UNCHANGED <<authority, tokens>>

\* A new order has authorizations of its own; some may still be valid from an
\* earlier order, and an order with no other is ready.
NewOrder ==
  /\ pc = "newOrder"
  /\ authz' \in [Ids -> {"pending", "valid", "invalid"}]
  /\ order' = IF \A a \in Ids : authz'[a] = "valid" THEN "ready" ELSE "pending"
  /\ told' = {} /\ tokens' = {}
  /\ seen' = order' /\ at' = 1 /\ tries' = 0
  /\ pc' = IF order' = "pending" THEN "authorizations" ELSE "finalize"
  /\ UNCHANGED <<open, stored, existing, leaf, chain>>

FetchAuthorizations ==
  /\ pc = "authorizations"
  /\ open' = {a \in Ids : authz[a] = "pending"}
  /\ pc' = "place"
  /\ UNCHANGED <<authority, tokens, at, seen, tries, stored, existing, leaf, chain>>

\* The end of a loop over the authorizations: the next one, or the next step.
Advance(step) ==
  /\ at' = IF at < N THEN at + 1 ELSE 1
  /\ pc' = IF at < N THEN pc ELSE step
  /\ UNCHANGED <<open, seen, tries, stored, existing, leaf, chain>>

\* sink.place for every pending authorization.
Place ==
  /\ pc = "place"
  /\ authz[at] \in {"pending", "valid"}
  /\ tokens' = IF at \in open THEN tokens \cup {at} ELSE tokens
  /\ Advance("setReady")
  /\ UNCHANGED authority

\* set_challenge_ready for every token placed.
SetReady ==
  /\ pc = "setReady"
  /\ told' = IF at \in open THEN told \cup {at} ELSE told
  /\ Advance("poll") \/ Stop
  /\ UNCHANGED <<order, authz, tokens>>

\* Mutant: the tokens are cleared once the authority has been told.
RefreshOnce ==
  /\ pc = "poll"
  /\ seen' = order
  /\ pc' = "clear"
  /\ UNCHANGED <<authority, tokens, at, open, tries, stored, existing, leaf, chain>>

\* The order is refreshed until it is ready, invalid, or the tries are used up.
Refresh ==
  /\ pc = "poll"
  /\ IF order = "invalid" \/ (order = "pending" /\ tries + 1 >= ReadyTries)
     THEN Stop
     ELSE /\ seen' = order
          /\ pc' = IF order = "pending" THEN "poll" ELSE "clear"
          /\ tries' = IF order = "pending" THEN tries + 1 ELSE 0
          /\ UNCHANGED <<at, open, stored, existing, leaf, chain>>
  /\ UNCHANGED <<authority, tokens>>

\* sink.clear for every token placed.
Clear ==
  /\ pc = "clear"
  /\ tokens' = IF at \in open THEN tokens \ {at} ELSE tokens
  /\ Advance("finalize") \/ Stop
  /\ UNCHANGED authority

\* The CSR is made with the existing key or a fresh one, and sent.
Finalize(fresh) ==
  /\ pc = "finalize"
  /\ order = "ready"
  /\ \E k \in IF existing = NoKey THEN fresh ELSE {existing} :
       /\ order' \in {"processing", "valid"}
       /\ \/ /\ leaf' = k /\ seen' = order' /\ tries' = 0 /\ pc' = "certificate"
             /\ UNCHANGED <<at, open, stored, existing, chain>>
          \/ Stop
  /\ UNCHANGED <<authz, told, tokens>>

\* certificate(): an order seen in processing is refreshed first.
AwaitCertificate ==
  /\ pc = "certificate" /\ seen = "processing"
  /\ IF order = "invalid" \/ (order = "processing" /\ tries + 1 >= CertTries)
     THEN Stop
     ELSE /\ seen' = order
          /\ tries' = tries + 1
          /\ UNCHANGED <<pc, at, open, stored, existing, leaf, chain>>
  /\ UNCHANGED <<authority, tokens>>

\* The certificate is over the key of the CSR.
Download ==
  /\ pc = "certificate" /\ seen = "valid"
  /\ chain' = leaf
  /\ pc' = "provisioned"
  /\ UNCHANGED <<authority, tokens, at, open, seen, tries, stored, existing, leaf>>

\* A request fails, the authority refuses it or answers what the client does
\* not expect, or the process dies.
Abort ==
  /\ pc \in ProvisionSteps \ {"provisioned"}
  /\ Stop
  /\ UNCHANGED <<authority, tokens>>

Provision(fresh) ==
  \/ RestoreAccount \/ CreateAccount \/ NewOrder \/ FetchAuthorizations \/ Place
  \/ SetReady \/ Refresh \/ Clear \/ Finalize(fresh) \/ AwaitCertificate \/ Download
  \/ Abort

-----------------------------------------------------------------------------
\* What the authority may probe is there to be found: no token is missing, not
\* yet placed or already cleared, while its challenge has been called ready and
\* not been decided.
ProbeFindsToken ==
  \A a \in told : order = "pending" /\ authz[a] = "pending" => a \in tokens
=============================================================================
