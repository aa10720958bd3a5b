---------------------------- MODULE OAuthServer ----------------------------
(***************************************************************************)
(* The mounted authorization server and protected resource of              *)
(* mcp/oauth_v2_3l.py: authorization with its approval modes, consent, the *)
(* authorization-code, refresh and client-credentials grants of the token  *)
(* endpoint, and the MCP endpoint that accepts the tokens.  The device     *)
(* grant is in DeviceGrant.                                                *)
(*                                                                         *)
(* The server is one asyncio task loop.  A handler reads its body before   *)
(* it touches the store and then runs to its end, so each is one action.   *)
(* The MCP endpoint is the exception: it validates the token, awaits the   *)
(* body, then dispatches, so any other handler may run in between.         *)
(*                                                                         *)
(* A request refused with no change of state is a stuttering step and has  *)
(* no action; every refusal that leaves a trace has one.                   *)
(***************************************************************************)
EXTENDS TokenStore, FiniteSets

CONSTANTS
  AdminScopes,  \* scope strings that include mcp:tools:admin
  Verifiers,    \* PKCE code verifiers
  NonAscii,     \* those that cannot be encoded as ASCII
  CodeTTL,
  MaxApprovals, \* bound: different consent decisions on record
  MaxMinted,    \* bound: different tokens minted as expired in the store
  MaxCalls      \* bound: MCP requests between validation and dispatch

ASSUME ServerAssumption ==
  /\ AdminScopes \subseteq Scopes
  /\ NonAscii \subseteq Verifiers
  /\ CodeTTL \in Int
  /\ MaxApprovals \in Nat /\ MaxMinted \in Nat /\ MaxCalls \in Nat

VARIABLES
  codes,      \* authorization codes in the store
  approvals,  \* consent decisions on record
  calls,      \* MCP requests past token validation, body not read yet
  \* History, read by no action:
  attempted,  \* codes the token endpoint took up
  redeemed,   \* pairs <<code, access token>> of successful exchanges
  lapsed,     \* access and refresh tokens refused because they had expired
  crashed     \* endpoints that ended in an unhandled exception

history == <<attempted, redeemed, lapsed, crashed>>
vars == <<storeVars, codes, approvals, calls, history>>

\* The S256 challenge of a verifier: a hash of its ASCII bytes, and equal to
\* no other verifier's.
S256(v) == [s256 |-> v]
Challenges == {S256(v) : v \in Verifiers \ NonAscii}

NoResource == [path |-> "none"]

AuthorizationCodeRecord ==
  [id: Nat, client: Clients, redirect_uri: RedirectUris, scope: Scopes,
   resource: Resources, challenge: Challenges, exp: Int]

Modes == {"manual", "auto_approve", "auto_deny"}
\* The list of records as a set: equal decisions are not told apart.
ApprovalRecord ==
  [client: Clients, scope: Scopes, decision: {"approved", "denied"},
   mode: Modes, admin_scope_confirmed: BOOLEAN]

Call == [token: AccessTokenRecord, origin: Origins]

TypeOK ==
  /\ StoreTypeOK
  /\ codes \subseteq AuthorizationCodeRecord
  /\ approvals \subseteq ApprovalRecord
  /\ calls \subseteq Call
  /\ attempted \subseteq Nat
  /\ redeemed \subseteq Nat \X Nat
  /\ lapsed \subseteq Nat
  /\ crashed \subseteq {"authorize", "token"}

Init ==
  /\ StoreInit
  /\ codes = {}
  /\ approvals = {}
  /\ calls = {}
  /\ attempted = {}
  /\ redeemed = {}
  /\ lapsed = {}
  /\ crashed = {}

-----------------------------------------------------------------------------
(* GET /oauth/authorize and POST /oauth/authorize/consent *)

HasAdminScope(s) == s \in AdminScopes

\* validate_registered_authorization_client.  Whatever the way a client with
\* the grant was registered, its response types include code.
ValidAuthorizationClient(c, r) ==
  /\ Known(c)
  /\ "authorization_code" \in Metadata[c].grants
  /\ r \in Metadata[c].redirect_uris
  /\ Metadata[c].auth_method = "none"

\* Both endpoints validate the whole request; its resource has to be the one
\* of the origin it came in on.
ValidAuthorizationRequest(c, r, s) ==
  /\ ValidateScope(s)
  /\ ValidAuthorizationClient(c, r)

Approval(c, s, decision, mode, confirmed) ==
  [client |-> c, scope |-> s, decision |-> decision, mode |-> mode,
   admin_scope_confirmed |-> confirmed]

ApprovalEvent(c, s, decision) ==
  [event |-> "approval", client |-> c, scope |-> s, result |-> decision,
   handle |-> 0]

CodeIssuedEvent(c, s, h) ==
  [event |-> "authorization_code_issued", client |-> c, scope |-> s,
   result |-> "issued", handle |-> h]

NewAuthorizationCode(c, r, s, o, ch) ==
  [id |-> lastHandle + 1, client |-> c, redirect_uri |-> r, scope |-> s,
   resource |-> OAuthResource(o), challenge |-> ch, exp |-> now + CodeTTL]

\* record_approval, without its audit event
RecordApproval(a) ==
  /\ approvals' = approvals \cup {a}
  /\ Cardinality(approvals') <= MaxApprovals

\* Records a refusal: no code.
Deny(c, s, mode) ==
  /\ registered' = RegisteredAfter(c)
  /\ RecordApproval(Approval(c, s, "denied", mode, FALSE))
  /\ audit' = audit \cup {ApprovalEvent(c, s, "denied")}
  /\ UNCHANGED <<accessTokens, refreshTokens, supported,
                 lastHandle, now, codes, calls, history>>

\* Issues a code and records the approval behind it.
Approve(c, r, s, o, ch, mode, confirmed) ==
  /\ registered' = RegisteredAfter(c)
  /\ lastHandle + 1 <= MaxHandles
  /\ codes' = codes \cup {NewAuthorizationCode(c, r, s, o, ch)}
  /\ lastHandle' = lastHandle + 1
  /\ RecordApproval(Approval(c, s, "approved", mode, confirmed))
  /\ audit' = audit \cup {CodeIssuedEvent(c, s, lastHandle + 1),
                          ApprovalEvent(c, s, "approved")}
  /\ UNCHANGED <<accessTokens, refreshTokens, supported, now, calls, history>>

AuthorizeAutoDeny(c, r, s) ==
  /\ ValidAuthorizationRequest(c, r, s)
  /\ Deny(c, s, "auto_deny")

\* Slip: auto-approval takes every scope.
AutoApprovesAll(s) == TRUE

AutoApproves(s) == ~HasAdminScope(s)

AuthorizeAutoApprove(c, r, s, o, ch) ==
  /\ ValidAuthorizationRequest(c, r, s)
  /\ AutoApproves(s)
  /\ Approve(c, r, s, o, ch, "auto_approve", FALSE)

\* Auto-approval of an admin scope is to fall back to the consent page, but
\* the call that renders it leaves out its resource argument and raises.
AuthorizeAutoApproveAdmin(c, r, s) ==
  /\ ValidAuthorizationRequest(c, r, s)
  /\ HasAdminScope(s)
  /\ registered' = RegisteredAfter(c)
  /\ crashed' = crashed \cup {"authorize"}
  /\ UNCHANGED <<tables, codes, approvals, calls, attempted, redeemed,
                 lapsed>>

ConsentApproves(s, decision, adminConfirmed) ==
  /\ decision = "approve"
  /\ HasAdminScope(s) => adminConfirmed

AuthorizeConsent(c, r, s, o, ch, decision, adminConfirmed) ==
  /\ ValidAuthorizationRequest(c, r, s)
  /\ \/ /\ ConsentApproves(s, decision, adminConfirmed)
        /\ Approve(c, r, s, o, ch, "manual", HasAdminScope(s))
     \/ /\ ~ConsentApproves(s, decision, adminConfirmed)
        /\ Deny(c, s, "manual")

-----------------------------------------------------------------------------
(* POST /oauth/token *)

\* consume_authorization_code hands a code on only if it is unexpired and the
\* client and redirect URI are its own.
CodeAccepted(code, c, r) ==
  /\ ~Expired(code)
  /\ code.client = c
  /\ code.redirect_uri = r

\* Slip: reads the code and leaves it in the table.
CodesAfterRead(code, c, r) == codes

\* Slip: validates the code first and pops it only if it is good.
CodesAfterLateConsume(code, c, r) ==
  IF CodeAccepted(code, c, r) THEN codes \ {code} ELSE codes

\* It pops the code before it looks at it.
CodesAfterConsume(code, c, r) == codes \ {code}

\* validate_token_resource: required, this server's, and the authorized one.
ValidTokenResource(res, o, authorized) ==
  /\ res = OAuthResource(o)
  /\ res = authorized

\* The client part of the code grant: only public clients redeem codes here.
ValidCodeClient(c, secret) ==
  ValidTokenClient(c, "authorization_code", secret, {"none"})

CodeExchangeSucceeds(code, c, r, o, res, v) ==
  /\ CodeAccepted(code, c, r)
  /\ ValidTokenResource(res, o, code.resource)
  /\ v \notin NonAscii
  /\ S256(v) = code.challenge

TokenAuthorizationCode(code, c, secret, r, o, res, v) ==
  /\ ValidCodeClient(c, secret)
  /\ CodeExchangeSucceeds(code, c, r, o, res, v)
  /\ registered' = RegisteredAfter(c)
  /\ codes' = CodesAfterConsume(code, c, r)
  /\ attempted' = attempted \cup {code.id}
  /\ IssuePair(c, code.scope, "authorization_code", res, o)
  /\ redeemed' = redeemed \cup {<<code.id, lastHandle + 1>>}
  /\ UNCHANGED <<supported, now, approvals, calls, lapsed, crashed>>

\* Every failed exchange that gets past the client check burns the code.  One
\* of them raises: verify_pkce_code_verifier encodes the verifier as ASCII.
TokenAuthorizationCodeFails(code, c, secret, r, o, res, v) ==
  /\ ValidCodeClient(c, secret)
  /\ ~CodeExchangeSucceeds(code, c, r, o, res, v)
  /\ registered' = RegisteredAfter(c)
  /\ codes' = CodesAfterConsume(code, c, r)
  /\ attempted' = attempted \cup {code.id}
  /\ crashed' =
       IF /\ CodeAccepted(code, c, r)
          /\ ValidTokenResource(res, o, code.resource)
          /\ v \in NonAscii
       THEN crashed \cup {"token"} ELSE crashed
  /\ UNCHANGED <<tables, approvals, calls, redeemed, lapsed>>

ValidRefreshClient(c, secret) ==
  ValidTokenClient(c, "refresh_token", secret, {})

\* validate_refresh_resource: an absent resource means the authorized one.
ValidRefreshResource(res, o, authorized) ==
  res = NoResource \/ ValidTokenResource(res, o, authorized)

\* Slip: passes on the resource the request named, absent or not.
RequestedAudience(t, res) == res

\* validate_refresh_resource returns the authorized resource either way.
RefreshedAudience(t, res) == t.audience

\* Slip: the origin of the refresh becomes the issuer.
CurrentIssuer(t, o) == o

\* The issuer of a refreshed token is the one on the refresh record, not the
\* origin the refresh came in on.
RefreshedIssuer(t, o) == t.issuer

\* The refresh token is not rotated and its expiry is not extended.
TokenRefresh(t, c, secret, o, res) ==
  /\ ValidRefreshClient(c, secret)
  /\ ~Expired(t)
  /\ t.client = c
  /\ ValidRefreshResource(res, o, t.audience)
  /\ IssueOne(c, t.scope, t.grant, RefreshedAudience(t, res),
              RefreshedIssuer(t, o))
  /\ registered' = RegisteredAfter(c)
  /\ UNCHANGED <<refreshTokens, supported, now, codes, approvals, calls,
                 history>>

\* An expired refresh token is dropped, whoever presents it.
TokenRefreshExpired(t, c, secret) ==
  /\ ValidRefreshClient(c, secret)
  /\ Expired(t)
  /\ registered' = RegisteredAfter(c)
  /\ refreshTokens' = RefreshTokensAfterGet(t)
  /\ lapsed' = lapsed \cup {t.id}
  /\ UNCHANGED <<accessTokens, audit, supported, lastHandle, now,
                 codes, approvals, calls, attempted, redeemed, crashed>>

TokenClientCredentials(c, s, o) ==
  /\ ValidTokenClient(c, "client_credentials", "correct", {})
  /\ ValidateScope(s)
  /\ registered' = RegisteredAfter(c)
  /\ IssueOne(c, s, "client_credentials", OAuthResource(o), o)
  /\ UNCHANGED <<refreshTokens, supported, now, codes, approvals, calls,
                 history>>

-----------------------------------------------------------------------------
(* POST /mcp/oauth *)

\* Slip: the issuer is not looked at.
AnyIssuer(t, o) == TRUE

\* validate_access_token_issuer
ValidAccessTokenIssuer(t, o) == t.issuer = o

\* The audience check, then the issuer check.
AcceptsToken(t, o) ==
  /\ t.audience = OAuthResource(o)
  /\ ValidAccessTokenIssuer(t, o)

\* The token is checked, then the handler waits for the request body.
McpAuthorize(t, o) ==
  /\ ~Expired(t)
  /\ AcceptsToken(t, o)
  /\ Cardinality(calls) < MaxCalls
  /\ calls' = calls \cup {[token |-> t, origin |-> o]}
  /\ UNCHANGED <<storeVars, codes, approvals, history>>

McpTokenExpired(t) ==
  /\ Expired(t)
  /\ accessTokens' = AccessTokensAfterGet(t)
  /\ lapsed' = lapsed \cup ({t.id} \ {MintedHandle})
  /\ UNCHANGED <<registered, refreshTokens, audit, supported, lastHandle, now,
                 codes, approvals, calls, attempted, redeemed, crashed>>

\* handle_mcp_request goes on, or the client hangs up; no token is looked at.
McpDispatch(call) ==
  /\ calls' = calls \ {call}
  /\ UNCHANGED <<storeVars, codes, approvals, history>>

-----------------------------------------------------------------------------
(* Test controls *)

\* /test/tokens/expired: the same request at the same instant names the same
\* token, so minted tokens are told apart by their contents only.
MintExpiredToken(c, s, aud) ==
  /\ accessTokens' = accessTokens \cup
       {[id |-> MintedHandle, client |-> c, scope |-> s,
         grant |-> "test_expired", audience |-> aud, issuer |-> TestIssuer,
         exp |-> now - 1]}
  /\ Cardinality({t \in accessTokens' : t.id = MintedHandle}) <= MaxMinted
  /\ audit' = audit \cup {TokenIssued(c, s, "issued_expired", MintedHandle)}
  /\ UNCHANGED <<registered, refreshTokens, supported, lastHandle, now, codes,
                 approvals, calls, history>>

\* /test/reset.  A request already past its token check is not recalled.
ResetState ==
  /\ StoreReset
  /\ codes' = {}
  /\ approvals' = {}
  /\ UNCHANGED <<calls, history>>

Registration ==
  /\ \E c \in Clients : RegisterClient(c) \/ ResolveUrlClient(c)
  /\ UNCHANGED <<codes, approvals, calls, history>>

ClockStep ==
  /\ Tick \/ ConfigureClock
  /\ UNCHANGED <<registered, accessTokens, refreshTokens, audit, supported,
                 lastHandle, codes, approvals, calls, history>>

ScopeStep ==
  /\ ConfigureScopes
  /\ UNCHANGED <<registered, accessTokens, refreshTokens, audit, lastHandle,
                 now, codes, approvals, calls, history>>

-----------------------------------------------------------------------------
(* The specification *)

AuthorizationStep ==
  \E c \in Clients, r \in RedirectUris, s \in Scopes :
    \/ AuthorizeAutoDeny(c, r, s)
    \/ AuthorizeAutoApproveAdmin(c, r, s)
    \/ \E o \in Origins, ch \in Challenges :
         \/ AuthorizeAutoApprove(c, r, s, o, ch)
         \/ \E decision \in {"approve", "deny"}, adminConfirmed \in BOOLEAN :
              AuthorizeConsent(c, r, s, o, ch, decision, adminConfirmed)

TokenStep ==
  \E c \in Clients, secret \in Secrets :
    \/ \E code \in codes, r \in RedirectUris, o \in Origins, v \in Verifiers,
          res \in Resources \cup {NoResource} :
         \/ TokenAuthorizationCode(code, c, secret, r, o, res, v)
         \/ TokenAuthorizationCodeFails(code, c, secret, r, o, res, v)
    \/ \E t \in refreshTokens :
         \/ TokenRefreshExpired(t, c, secret)
         \/ \E o \in Origins, res \in Resources \cup {NoResource} :
              TokenRefresh(t, c, secret, o, res)

ServiceTokenStep ==
  \E c \in Clients, s \in Scopes, o \in Origins :
    TokenClientCredentials(c, s, o)

McpStep ==
  \/ \E t \in accessTokens :
       \/ McpTokenExpired(t)
       \/ \E o \in Origins : McpAuthorize(t, o)
  \/ \E call \in calls : McpDispatch(call)

MintStep ==
  \E c \in Clients, s \in Scopes, aud \in Resources :
    MintExpiredToken(c, s, aud)

Next ==
  \/ AuthorizationStep
  \/ TokenStep
  \/ ServiceTokenStep
  \/ McpStep
  \/ MintStep
  \/ ResetState
  \/ Registration
  \/ ClockStep
  \/ ScopeStep

Spec == Init /\ [][Next]_vars

-----------------------------------------------------------------------------
(* Properties *)

\* A code is good for one attempt.  Whatever goes wrong with an exchange that
\* gets past the client check - a lapsed code, somebody else's code, a wrong
\* redirect URI, resource or verifier, even an exception - the code is gone
\* and a second, corrected request cannot use it
\* (consume_authorization_code pops before it validates).
CodeGetsOneAttempt == \A code \in codes : code.id \notin attempted

\* The authority of everything a code flow leaves in the store for this
\* resource, however many refreshes later, goes back to an approval on record
\* for that client and scope; for an admin scope, to a manual one that
\* confirmed the scope (authorize, authorize_consent and the records kept by
\* record_approval).
Consented(x) ==
  \E a \in approvals :
    /\ a.client = x.client
    /\ a.scope = x.scope
    /\ a.decision = "approved"
    /\ HasAdminScope(x.scope) => a.mode = "manual" /\ a.admin_scope_confirmed

CodeFlowTokens(tokens) == {t \in tokens : t.grant = "authorization_code"}

IsOAuthResource(res) == \E o \in Origins : res = OAuthResource(o)

TokensBackedByConsent ==
  /\ \A code \in codes : IsOAuthResource(code.resource) => Consented(code)
  /\ \A t \in CodeFlowTokens(accessTokens) \cup CodeFlowTokens(refreshTokens) :
       IsOAuthResource(t.audience) => Consented(t)

\* A token once refused because it had expired stays refused, although the
\* test clock may be turned back to before its expiry (get_access_token and
\* get_refresh_token drop what they find expired).  Tokens minted expired are
\* exempt: minting one again brings back the same handle.
ExpiryIsFinal ==
  \A t \in accessTokens \cup refreshTokens : t.id \notin lapsed

\* The server accepts what it issues: every token it hands out, by exchange or
\* by refresh under another origin, carries an audience and an issuer that
\* agree on one origin, so the MCP endpoint under that origin takes it.
IssuedTokensUsable ==
  \A t \in {x \in accessTokens : x.id # MintedHandle} :
    \E o \in Origins : AcceptsToken(t, o)

\* No request is served on the authority of a token minted as expired, even
\* once the clock has been turned back so far that it is not expired at all:
\* it fails the issuer check of the MCP endpoint.
CallsHoldIssuedTokens ==
  \A call \in calls : call.token.id # MintedHandle

\* The audit log accounts for the store: a code or access token in it has its
\* event, with the same client and scope, and the approval events are exactly
\* those of the approvals on record, reset included.
Accounted(x, kind) ==
  \E e \in audit : /\ e.event = kind
                   /\ e.handle = x.id
                   /\ e.client = x.client
                   /\ e.scope = x.scope

AuditAccountsForStore ==
  /\ \A code \in codes : Accounted(code, "authorization_code_issued")
  /\ \A t \in accessTokens : Accounted(t, "token_issued")
  /\ {e \in audit : e.event = "approval"} =
     {ApprovalEvent(a.client, a.scope, a.decision) : a \in approvals}

\* Codes and what they buy are a ledger of grants.  No interleaving of
\* exchanges, failures, expiries and resets redeems a code twice or brings
\* back one that was taken up or forgotten, an exchange that fails leaves no
\* token, and there is no token of a code flow but by an exchange or a refresh
\* (issue_authorization_code, consume_authorization_code, token).
Ledger == INSTANCE GrantLedger WITH
  Handle   <- 1..MaxHandles,
  used     <- 1..lastHandle,
  pending  <- {code.id : code \in codes},
  redeemed <- redeemed,
  access   <- {t.id : t \in CodeFlowTokens(accessTokens)},
  refresh  <- {t.id : t \in CodeFlowTokens(refreshTokens)}

ImplementsLedger == Ledger!LedgerSpec

\* An authorization request is answered: "Admin scopes always require explicit
\* manual consent" (oauth_v2_3l.py:277), so auto-approval of one renders the
\* consent page.
AuthorizeAnswers == "authorize" \notin crashed
=============================================================================
