-------------------------- MODULE AlternateRouters --------------------------
(***************************************************************************)
(* The server of OAuthServer with the alternate routers mounted beside it: *)
(* the OAuth 2.1 router (mcp/oauth_v21.py, auth/oauth_v21.py) and the      *)
(* protected resources of one grant each (mcp/oauth_v2_2l.py,              *)
(* mcp/device_flow.py).  app.py leaves them out; whoever includes them     *)
(* gets routers that share one token store.                                *)
(*                                                                         *)
(* The OAuth 2.1 router has codes, access and refresh tokens in the same   *)
(* tables as the other one, under the same handles, but keeps no record of *)
(* approvals: only the resource a code or token was made for tells them    *)
(* apart.                                                                  *)
(***************************************************************************)
EXTENDS OAuthServer

ASSUME V21Assumption == "/mcp/oauth-v21" \in Paths

\* _oauth_v21_resource
V21Resource(o) == [origin |-> o, path |-> "/mcp/oauth-v21"]

-----------------------------------------------------------------------------
(* GET /oauth-v21/authorize, POST /oauth-v21/authorize/consent *)

NewV21Code(c, r, s, o, ch) ==
  [id |-> lastHandle + 1, client |-> c, redirect_uri |-> r, scope |-> s,
   resource |-> V21Resource(o), challenge |-> ch, exp |-> now + CodeTTL]

\* validate_oauth_v21_authorization_request: the rules of the other router,
\* and the resource, which may not be absent, has to be this router's own.
V21ValidAuthorizationRequest(c, r, s) ==
  /\ ValidateScope(s)
  /\ ValidAuthorizationClient(c, r)

\* A code, for any scope and without an approval on record: at once if the
\* request says auto_approve=true, otherwise when the consent page is answered.
\* A denial only redirects.
V21Authorize(c, r, s, o, ch) ==
  /\ V21ValidAuthorizationRequest(c, r, s)
  /\ registered' = RegisteredAfter(c)
  /\ lastHandle + 1 <= MaxHandles
  /\ codes' = codes \cup {NewV21Code(c, r, s, o, ch)}
  /\ lastHandle' = lastHandle + 1
  /\ audit' = audit \cup {CodeIssuedEvent(c, s, lastHandle + 1)}
  /\ UNCHANGED <<accessTokens, refreshTokens, supported, now, approvals,
                 calls, history>>

-----------------------------------------------------------------------------
(* POST /oauth-v21/token *)

\* validate_oauth_v21_token_resource
V21ValidTokenResource(res, o, authorized) ==
  /\ res = V21Resource(o)
  /\ res = authorized

V21ExchangeSucceeds(code, c, r, o, res, v) ==
  /\ CodeAccepted(code, c, r)
  /\ V21ValidTokenResource(res, o, code.resource)
  /\ v \notin NonAscii
  /\ S256(v) = code.challenge

V21TokenAuthorizationCode(code, c, secret, r, o, res, v) ==
  /\ ValidCodeClient(c, secret)
  /\ V21ExchangeSucceeds(code, c, r, o, res, v)
  /\ registered' = RegisteredAfter(c)
  /\ codes' = CodesAfterConsume(code, c, r)
  /\ attempted' = attempted \cup {code.id}
  /\ IssuePair(c, code.scope, "authorization_code", res, o)
  /\ redeemed' = redeemed \cup {<<code.id, lastHandle + 1>>}
  /\ UNCHANGED <<supported, now, approvals, calls, lapsed, crashed>>

\* The other router's code is popped as well before its resource is looked at.
V21TokenAuthorizationCodeFails(code, c, secret, r, o, res, v) ==
  /\ ValidCodeClient(c, secret)
  /\ ~V21ExchangeSucceeds(code, c, r, o, res, v)
  /\ registered' = RegisteredAfter(c)
  /\ codes' = CodesAfterConsume(code, c, r)
  /\ attempted' = attempted \cup {code.id}
  /\ crashed' =
       IF /\ CodeAccepted(code, c, r)
          /\ V21ValidTokenResource(res, o, code.resource)
          /\ v \in NonAscii
       THEN crashed \cup {"token"} ELSE crashed
  /\ UNCHANGED <<tables, approvals, calls, redeemed, lapsed>>

\* Slip: the grant of the request instead of the one behind the token.
RequestGrant(t) == "refresh_token"

V21RefreshedGrant(t) == t.grant

\* validate_oauth_v21_refresh_resource: an absent resource means the
\* authorized one, whichever router authorized it.
V21RefreshedAudience(t) == t.audience

\* An expired refresh token is dropped here, too: TokenRefreshExpired.
V21TokenRefresh(t, c, secret, o, res) ==
  /\ ValidTokenClient(c, "refresh_token", secret, {"none"})
  /\ ~Expired(t)
  /\ t.client = c
  /\ res = NoResource \/ V21ValidTokenResource(res, o, t.audience)
  /\ IssueOne(c, t.scope, V21RefreshedGrant(t), V21RefreshedAudience(t),
              RefreshedIssuer(t, o))
  /\ registered' = RegisteredAfter(c)
  /\ UNCHANGED <<refreshTokens, supported, now, codes, approvals, calls,
                 history>>

-----------------------------------------------------------------------------
(* The alternate protected resources *)

\* POST /mcp/oauth-v21
V21AcceptsToken(t, o) ==
  /\ t.grant = "authorization_code"
  /\ t.audience = V21Resource(o)
  /\ ValidAccessTokenIssuer(t, o)

\* POST /mcp/oauth-v2-client-creds and POST /mcp/device-flow ask for a grant
\* only, not for an audience or an issuer.
SingleGrantAccepts(t, grant) == t.grant = grant
SingleGrants == {"client_credentials", "device_code"}

-----------------------------------------------------------------------------
(* The specification *)

V21AuthorizationStep ==
  \E c \in Clients, r \in RedirectUris, s \in Scopes, o \in Origins,
     ch \in Challenges :
    V21Authorize(c, r, s, o, ch)

V21TokenStep ==
  \E c \in Clients, secret \in Secrets, o \in Origins,
     res \in Resources \cup {NoResource} :
    \/ \E code \in codes, r \in RedirectUris, v \in Verifiers :
         \/ V21TokenAuthorizationCode(code, c, secret, r, o, res, v)
         \/ V21TokenAuthorizationCodeFails(code, c, secret, r, o, res, v)
    \/ \E t \in refreshTokens : V21TokenRefresh(t, c, secret, o, res)

RoutersNext == Next \/ V21AuthorizationStep \/ V21TokenStep

RoutersSpec == Init /\ [][RoutersNext]_vars

-----------------------------------------------------------------------------
(* Properties *)

\* Whichever router issued or refreshed it, an access token stays good for
\* some endpoint under some origin: its grant, audience and issuer agree.  The
\* refresh endpoints serve each other's tokens when the request names no
\* resource (validate_refresh_resource, validate_oauth_v21_refresh_resource).
RoutedTokensUsable ==
  \A t \in {x \in accessTokens : x.id # MintedHandle} :
    \/ \E o \in Origins : AcceptsToken(t, o) \/ V21AcceptsToken(t, o)
    \/ \E grant \in SingleGrants : SingleGrantAccepts(t, grant)
=============================================================================
