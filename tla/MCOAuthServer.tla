--------------------------- MODULE MCOAuthServer ---------------------------
(***************************************************************************)
(* Values for model checking OAuthServer: the one client whose tokens live *)
(* long enough to be refreshed, and small ranges of time.                  *)
(***************************************************************************)
EXTENDS OAuthServer

CONSTANTS
  web,      \* public, code and refresh grants (phase-5-public-client)
  webUri

MCMetadata == [c \in Clients |->
  [auth_method   |-> "none",
   grants        |-> {"authorization_code", "refresh_token"},
   redirect_uris |-> {webUri}]]

OneInstant == {0}
ShortTime == 0..2
FixedScopes == {Scopes}
AnyScopes == SUBSET Scopes
=============================================================================
