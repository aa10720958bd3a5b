----------------------------- MODULE TokenStore -----------------------------
(***************************************************************************)
(* The in-memory store behind the mock authorization server               *)
(* (auth/token_store.py) with the two test controls its operations read:   *)
(* the effective clock and the supported-scope override of                 *)
(* test_endpoints.py.  The store is shared by every grant, so this module  *)
(* holds the tables more than one grant touches and the operations on      *)
(* them; OAuthServer and DeviceGrant extend it with their own tables.      *)
(*                                                                         *)
(* Each dict keyed by a random handle is a set of records.  A handle drawn *)
(* with token_urlsafe is the next number of one counter: fresh, and never  *)
(* drawn again, a reset included.                                          *)
(***************************************************************************)
EXTENDS Integers

CONSTANTS
  Clients,         \* client ids that may be registered
  Seeded,          \* the fixed clients every store starts with
  UrlClients,      \* clients named by the URL of a metadata document
  Metadata,        \* registered metadata of each client
  RedirectUris,
  Scopes,          \* requested scope strings
  ScopeOverrides,  \* the sets of scope strings a /test/configure/scopes allows
  Paths,           \* protected-resource paths clients may name
  Origins,         \* base URLs the one server is reached under
  Time,            \* instants of the effective clock
  AccessTTL,
  RefreshTTL,
  MaxHandles       \* bound: handles drawn in a behaviour

AuthMethods == {"none", "client_secret_post"}
GrantTypes == {"authorization_code", "refresh_token", "client_credentials",
               "device_code"}

\* ClientRecord, reduced to the fields the handlers read.
ClientRecord == [auth_method  : AuthMethods,
                 grants       : SUBSET GrantTypes,
                 redirect_uris: SUBSET RedirectUris]

\* The issuer of a token minted by /test/tokens/expired.
TestIssuer == "test-endpoint"
\* Its handle is a hash of its contents, not a fresh draw.
MintedHandle == 0

ASSUME StoreAssumption ==
  /\ Seeded \subseteq Clients
  /\ UrlClients \subseteq Clients
  /\ Metadata \in [Clients -> ClientRecord]
  /\ Scopes \in ScopeOverrides
  /\ ScopeOverrides \subseteq SUBSET Scopes
  /\ "/mcp/oauth" \in Paths
  /\ TestIssuer \notin Origins
  /\ Time \subseteq Int
  /\ AccessTTL \in Int /\ RefreshTTL \in Int
  /\ MaxHandles \in Nat

VARIABLES
  registered,     \* clients in the store
  accessTokens,
  refreshTokens,
  audit,          \* audit events of the OAuth operations
  supported,      \* scope strings that validate_scope accepts
  lastHandle,     \* handles drawn so far
  now             \* effective server time

\* All but the clients.
tables == <<accessTokens, refreshTokens, audit, supported, lastHandle, now>>
storeVars == <<registered, tables>>

Resources == [origin: Origins, path: Paths]
\* The protected resource of the server as seen under an origin.
OAuthResource(o) == [origin |-> o, path |-> "/mcp/oauth"]

AccessTokenRecord ==
  [id: Nat, client: Clients, scope: Scopes,
   grant: GrantTypes \cup {"test_expired"}, audience: Resources,
   issuer: Origins \cup {TestIssuer}, exp: Int]

RefreshTokenRecord ==
  [id: Nat, client: Clients, scope: Scopes, grant: GrantTypes,
   audience: Resources, issuer: Origins, exp: Int]

\* The audit log as a set: repeated events and their times are not told apart.
AuditEvent ==
  [event: {"registration", "authorization_code_issued", "token_issued",
           "approval"},
   client: Clients, scope: Scopes,
   result: {"registered", "issued", "issued_expired", "approved", "denied"},
   handle: Nat]

StoreTypeOK ==
  /\ registered \subseteq Clients
  /\ accessTokens \subseteq AccessTokenRecord
  /\ refreshTokens \subseteq RefreshTokenRecord
  /\ audit \subseteq AuditEvent
  /\ supported \subseteq Scopes
  /\ lastHandle \in Nat
  /\ now \in Time

StoreInit ==
  /\ registered = Seeded
  /\ accessTokens = {}
  /\ refreshTokens = {}
  /\ audit = {}
  /\ supported = Scopes
  /\ lastHandle = 0
  /\ now \in Time

-----------------------------------------------------------------------------
(* Lookups and validations *)

\* Strict: a record is still good at the very instant it expires.
Expired(r) == r.exp < now

ValidateScope(s) == s \in supported

\* ensure_cimd_client_registered, the first step of every client check: the
\* document of an unknown URL client is fetched and the client added, with no
\* audit event, whether the request is then served or refused.
Known(c) == c \in registered \cup UrlClients
RegisteredAfter(c) == registered \cup ({c} \cap UrlClients)

\* A secret that is neither absent nor the client's own is always refused.
Secrets == {"absent", "correct"}

\* validate_registered_token_client: exists, may use the grant, has the
\* auth method this server requires ({} = no requirement), and presents no
\* secret if it is public and its own secret if it is confidential.
ValidTokenClient(c, grant, secret, required) ==
  /\ Known(c)
  /\ grant \in Metadata[c].grants
  /\ required = {} \/ Metadata[c].auth_method \in required
  /\ secret = IF Metadata[c].auth_method = "none" THEN "absent" ELSE "correct"

\* Slip: refuses an expired token and leaves it in the table.
AccessTokensKept(t) == accessTokens

\* get_access_token drops an expired token it is asked for.
AccessTokensAfterGet(t) ==
  IF Expired(t) THEN accessTokens \ {t} ELSE accessTokens

\* get_refresh_token drops an expired token it is asked for.
RefreshTokensAfterGet(t) ==
  IF Expired(t) THEN refreshTokens \ {t} ELSE refreshTokens

-----------------------------------------------------------------------------
(* Issuing *)

TokenIssued(c, s, result, h) ==
  [event |-> "token_issued", client |-> c, scope |-> s, result |-> result,
   handle |-> h]

NewAccessToken(c, s, grant, aud, iss) ==
  [id |-> lastHandle + 1, client |-> c, scope |-> s, grant |-> grant,
   audience |-> aud, issuer |-> iss, exp |-> now + AccessTTL]

NewRefreshToken(c, s, grant, aud, iss) ==
  [id |-> lastHandle + 2, client |-> c, scope |-> s, grant |-> grant,
   audience |-> aud, issuer |-> iss, exp |-> now + RefreshTTL]

\* issue_access_token
IssueAccessToken(c, s, grant, aud, iss) ==
  /\ accessTokens' = accessTokens \cup {NewAccessToken(c, s, grant, aud, iss)}
  /\ audit' = audit \cup {TokenIssued(c, s, "issued", lastHandle + 1)}

\* An access token alone.
IssueOne(c, s, grant, aud, iss) ==
  /\ lastHandle + 1 <= MaxHandles
  /\ IssueAccessToken(c, s, grant, aud, iss)
  /\ lastHandle' = lastHandle + 1

\* The tail of a code or device exchange: an access token, and a refresh token
\* (which leaves no audit event) if the client registered for that grant.
IssuePair(c, s, grant, aud, iss) ==
  \/ /\ "refresh_token" \notin Metadata[c].grants
     /\ IssueOne(c, s, grant, aud, iss)
     /\ UNCHANGED refreshTokens
  \/ /\ "refresh_token" \in Metadata[c].grants
     /\ lastHandle + 2 <= MaxHandles
     /\ IssueAccessToken(c, s, grant, aud, iss)
     /\ refreshTokens' =
          refreshTokens \cup {NewRefreshToken(c, s, grant, aud, iss)}
     /\ lastHandle' = lastHandle + 2

-----------------------------------------------------------------------------
(* Registration, test controls and reset *)

\* register_client: dynamic registration draws the client id.  A model id that
\* a reset forgot may be drawn again: nothing about it was kept.
RegisterClient(c) ==
  /\ c \in Clients \ (registered \cup UrlClients)
  /\ registered' = registered \cup {c}
  /\ \E s \in supported :
       audit' = audit \cup {[event |-> "registration", client |-> c,
                             scope |-> s, result |-> "registered",
                             handle |-> 0]}
  /\ UNCHANGED <<accessTokens, refreshTokens, supported, lastHandle, now>>

\* All that a request of an unknown URL client leaves when a later check
\* refuses it.
ResolveUrlClient(c) ==
  /\ registered' = RegisteredAfter(c)
  /\ UNCHANGED tables

\* Time passes.
Tick ==
  /\ now + 1 \in Time
  /\ now' = now + 1

\* /test/clock: an advance (of either sign) or a freeze puts the clock at any
\* instant.
ConfigureClock == now' \in Time

\* /test/configure/scopes
ConfigureScopes == supported' \in ScopeOverrides

\* Slip: a reset that forgets one of the tables.
StoreResetButAudit ==
  /\ registered' = Seeded
  /\ accessTokens' = {}
  /\ refreshTokens' = {}
  /\ supported' = Scopes
  /\ now' \in Time
  /\ UNCHANGED <<audit, lastHandle>>

\* reset of the store and of the controls.  The clock returns to wall time.
StoreReset ==
  /\ registered' = Seeded
  /\ accessTokens' = {}
  /\ refreshTokens' = {}
  /\ audit' = {}
  /\ supported' = Scopes
  /\ now' \in Time
  /\ UNCHANGED lastHandle
=============================================================================
