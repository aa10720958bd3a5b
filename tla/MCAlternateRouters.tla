------------------------- MODULE MCAlternateRouters -------------------------
(***************************************************************************)
(* Values for model checking AlternateRouters: a client and a resource     *)
(* that both routers deal with.                                            *)
(***************************************************************************)
EXTENDS AlternateRouters

CONSTANTS
  web,      \* public, code and refresh grants (phase-7-public-client)
  service,  \* confidential, client credentials (phase-6-service-client)
  webUri,
  otherUri  \* nobody's redirect URI

MCClient(method, grants, uris) ==
  [auth_method |-> method, grants |-> grants, redirect_uris |-> uris]

MCMetadata == [c \in Clients |->
  CASE c = web -> MCClient("none", {"authorization_code", "refresh_token"},
                           {webUri})
    [] c = service -> MCClient("client_secret_post", {"client_credentials"},
                               {})]

OneInstant == {0}
FixedScopes == {Scopes}
=============================================================================
