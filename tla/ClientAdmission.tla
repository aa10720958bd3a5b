--------------------------- MODULE ClientAdmission ---------------------------
(***************************************************************************)
(* How clients enter the store: the seeds, POST /oauth/register            *)
(* (auth/dynamic_registration.py), and client ids that are the URL of a    *)
(* metadata document, fetched when such a client is first seen             *)
(* (auth/cimd_integration.py, auth/cimd_resolver.py).                      *)
(*                                                                         *)
(* The other modules take the metadata of a client as given; this one says *)
(* what metadata can get into the store, and from where.                   *)
(*                                                                         *)
(* The resolver is synchronous: while it fetches, the server does nothing  *)
(* else, so an admission is one action.  Each call makes a resolver of its *)
(* own, whose cache is therefore empty.                                    *)
(***************************************************************************)
EXTENDS FiniteSets, Integers

CONSTANTS
  Ids,           \* client ids that registration may draw
  Urls,          \* URLs of documents
  Scheme,        \* "https" or "http", of each
  Host,          \* what the host of each resolves to
  Seeds,         \* records of the seeded clients
  Documents,     \* metadata documents on the web
  Payloads,      \* bodies of registration requests
  RedirectUris,  \* those the resolver accepts
  Scopes,
  ScopeOverrides,
  MaxRedirects,  \* 3 in the code
  MaxAdmitted    \* bound: clients beside the seeds

AuthMethods == {"none", "client_secret_post"}
GrantTypes == {"authorization_code", "refresh_token", "client_credentials",
               "device_code"}

\* A field that is left out.
Absent == {"absent"}

\* Responses of the web: a document, a redirect, or nothing usable (a timeout,
\* an error status, a redirect to nowhere, a body too large or no JSON object).
DocumentAt(d) == [kind |-> "document", document |-> d]
RedirectTo(u) == [kind |-> "redirect", url |-> u]
Unusable == [kind |-> "unusable"]
Responses ==
  {DocumentAt(d) : d \in Documents} \cup {RedirectTo(u) : u \in Urls}
    \cup {Unusable}

ASSUME AdmissionAssumption ==
  /\ Scheme \in [Urls -> {"https", "http"}]
  /\ Host \in [Urls -> {"public", "loopback", "private", "unresolved"}]
  /\ Ids \cap Urls = {}
  /\ DOMAIN Seeds \cap (Ids \cup Urls) = {}
  /\ Scopes \in ScopeOverrides /\ ScopeOverrides \subseteq SUBSET Scopes
  /\ MaxRedirects \in Nat

-----------------------------------------------------------------------------
\* What the authorization and token endpoints serve: no code for a client with
\* a secret, no client credentials for one without, and refresh tokens only
\* out of a code or device exchange.
HasSecret(r) == r.auth = "client_secret_post"

Serves(r, grant) ==
  \/ /\ grant = "authorization_code"
     /\ ~HasSecret(r) /\ "code" \in r.responses /\ r.redirects # {}
  \/ grant = "device_code" /\ ~HasSecret(r)
  \/ grant = "client_credentials" /\ HasSecret(r)

CanAct(r) ==
  \/ r.grants = {}
  \/ \E grant \in r.grants : Serves(r, grant)
  \/ HasSecret(r) /\ "client_credentials" \notin r.grants

\* The seeded clients of the store can be used.
ASSUME SeedsAssumption == \A c \in DOMAIN Seeds : CanAct(Seeds[c])

VARIABLES
  clients,    \* the record of each client in the store
  supported,  \* scopes that validate_scope accepts
  web,        \* what is at each URL
  vouched     \* history, read by no action: <<URL, document>> the web led to
              \* when a client was admitted

admissionVars == <<clients, supported, web, vouched>>

AdmissionInit ==
  /\ clients = Seeds
  /\ supported = Scopes
  /\ web \in [Urls -> Responses]
  /\ vouched = {}

Known(c) == c \in DOMAIN clients

AddClient(c, record) ==
  clients' = [n \in DOMAIN clients \cup {c} |->
                IF n = c THEN record ELSE clients[n]]

-----------------------------------------------------------------------------
(* POST /oauth/register *)

AuthOf(p) == IF p.auth = "absent" THEN "none" ELSE p.auth

GrantsOf(p) == IF p.grants = Absent THEN {"authorization_code"} ELSE p.grants

ResponsesOf(p) ==
  IF p.responses # Absent THEN p.responses
  ELSE IF "authorization_code" \in GrantsOf(p) THEN {"code"} ELSE {}

\* Slip: nobody needs a redirect URI.
NoRedirectNeeded(code, device, redirects) == redirects # {} => code \/ device

RedirectsFit(code, device, redirects) ==
  /\ code /\ ~device => redirects # {}
  /\ redirects # {} => code \/ device

\* The checks of register_dynamic_client; a field of the wrong type fails
\* like an unsupported value.
Accepts(p) ==
  LET code == "authorization_code" \in GrantsOf(p)
      device == "device_code" \in GrantsOf(p)
  IN
  /\ AuthOf(p) \in AuthMethods
  /\ GrantsOf(p) \subseteq GrantTypes
  /\ "refresh_token" \in GrantsOf(p) => code \/ device
  /\ ResponsesOf(p) \subseteq {"code"}
  /\ RedirectsFit(code, device, p.redirects)
  /\ code <=> "code" \in ResponsesOf(p)
  /\ "client_credentials" \in GrantsOf(p) => AuthOf(p) = "client_secret_post"
  /\ device => AuthOf(p) = "none"
  /\ p.scope \in supported

RegisteredRecord(p) ==
  [auth |-> AuthOf(p), grants |-> GrantsOf(p), responses |-> ResponsesOf(p),
   redirects |-> p.redirects]

Room == Cardinality(DOMAIN clients \ DOMAIN Seeds) < MaxAdmitted

Register(id) ==
  /\ ~Known(id) /\ Room
  /\ \E p \in Payloads :
       Accepts(p) /\ AddClient(id, RegisteredRecord(p))
  /\ UNCHANGED <<supported, web, vouched>>

-----------------------------------------------------------------------------
(* Metadata documents *)

\* _validate_cimd_url, for the URL of a client (in development mode, which
\* every endpoint asks for) and for the target of a redirect.  A host without
\* an address ends the request with an error nobody catches, and changes no
\* more than a refusal.
AllowedUrl(u) == Host[u] \in {"public", "loopback"}
AllowedTarget(u) == Scheme[u] = "https" /\ Host[u] = "public"

Failure == [outcome |-> "failure"]
Success(d) == [outcome |-> "success", document |-> d]

\* Slip: gives the last redirect another request.
OneMore(k) == k >= 0

MayFollow(k) == k > 0

\* Slip: looks at no host but the first.
FollowsAnywhere(k, u) == web[u].kind = "redirect" /\ MayFollow(k)

\* A response that sends _fetch_metadata on, with k redirects left.
Redirects(k, u) ==
  /\ web[u].kind = "redirect"
  /\ AllowedTarget(web[u].url)
  /\ MayFollow(k)

\* _fetch_metadata at each URL, with k redirects left.
Fetch[k \in -1..MaxRedirects] ==
  [u \in Urls |->
     IF web[u].kind = "document" THEN Success(web[u].document)
     ELSE IF Redirects(k, u) THEN Fetch[k - 1][web[u].url]
     ELSE Failure]

Resolution(u) ==
  IF AllowedUrl(u) THEN Fetch[MaxRedirects][u] ELSE Failure

\* Slip: takes a document that names another client.
AnyName(u, d) == TRUE

NamesItself(u, d) == d.client_id = u

\* _client_record_from_metadata
ValidDocument(u, d) ==
  /\ NamesItself(u, d)
  /\ d.redirects # {} /\ d.redirects \subseteq RedirectUris
  /\ "authorization_code" \in GrantsOf(d)
  /\ d.responses = Absent \/ "code" \in d.responses
  /\ d.auth \in {"absent", "none"}
  /\ d.scope \in supported

DocumentRecord(d) ==
  [auth |-> "none", grants |-> GrantsOf(d),
   responses |-> IF d.responses = Absent THEN {"code"} ELSE d.responses,
   redirects |-> d.redirects]

\* Slip: fetches the document again for a client it knows.
EveryTime(u) == TRUE

NeedsDocument(u) == ~Known(u)

\* ensure_cimd_client_registered: the first step of every check of a client
\* at the authorization and token endpoints.
Admit(u) ==
  /\ NeedsDocument(u)
  /\ Resolution(u).outcome = "success"
  /\ LET d == Resolution(u).document IN
     /\ ValidDocument(u, d)
     /\ Room \/ Known(u)
     /\ AddClient(u, DocumentRecord(d))
     /\ vouched' = vouched \cup {<<u, d>>}
  /\ UNCHANGED <<supported, web>>

-----------------------------------------------------------------------------
(* The web, the test controls, and the specification *)

Publish(u) ==
  /\ \E r \in Responses : web' = [web EXCEPT ![u] = r]
  /\ UNCHANGED <<clients, supported, vouched>>

OverrideScopes ==
  /\ supported' \in ScopeOverrides
  /\ UNCHANGED <<clients, web, vouched>>

ResetClients ==
  /\ clients' = Seeds
  /\ supported' = Scopes
  /\ vouched' = {}
  /\ UNCHANGED web

AdmissionNext ==
  \/ \E id \in Ids : Register(id)
  \/ \E u \in Urls : Admit(u) \/ Publish(u)
  \/ OverrideScopes
  \/ ResetClients

AdmissionSpec == AdmissionInit /\ [][AdmissionNext]_admissionVars

-----------------------------------------------------------------------------
(* Properties *)

\* Whatever way a client came in, if it has any grant it can get a token with
\* one of them, but for one case: a client with a secret that did not ask for
\* client credentials (registration admits it, the code flow refuses it).
NoDeadClients == \A c \in DOMAIN clients : CanAct(clients[c])

\* The web leads from a URL to a document over at most MaxRedirects redirects,
\* all of them to public https URLs.
LeadsTo(u, d) ==
  /\ AllowedUrl(u)
  /\ \E n \in 0..MaxRedirects : \E path \in [0..n -> Urls] :
       /\ path[0] = u
       /\ web[path[n]] = DocumentAt(d)
       /\ \A i \in 1..n : /\ web[path[i - 1]] = RedirectTo(path[i])
                        /\ AllowedTarget(path[i])

\* The loop of _fetch_metadata finds just the documents the web leads to, with
\* circular redirects and chains of every length around its bound.
FetchFindsDocuments ==
  \A u \in Urls, d \in Documents :
    Resolution(u) = Success(d) <=> LeadsTo(u, d)

\* A client named by a URL is in the store with the metadata of a document
\* that named it and that the web led to when it was admitted, whatever the
\* web says now.
UrlClientsVouched ==
  \A u \in Urls \cap DOMAIN clients :
    \E v \in vouched :
      v[1] = u /\ v[2].client_id = u /\ clients[u] = DocumentRecord(v[2])

\* A client named by a URL comes in only with the metadata of a document that
\* names it and that the web leads to in that very state, however often the
\* web has changed before (ensure_cimd_client_registered).
AdmittedAsFound ==
  [][\A u \in Urls \cap (DOMAIN clients' \ DOMAIN clients) :
       \E d \in Documents : /\ LeadsTo(u, d) /\ d.client_id = u
                            /\ clients'[u] = DocumentRecord(d)]_admissionVars

\* The record of a client never changes while it is in the store: codes and
\* tokens were issued by it.  A document that changes counts for its client
\* only after a reset.
RecordsAreFixed ==
  [][\A c \in DOMAIN clients \cap DOMAIN clients' :
       clients'[c] = clients[c]]_admissionVars
=============================================================================
