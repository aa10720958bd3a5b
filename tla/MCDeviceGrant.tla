--------------------------- MODULE MCDeviceGrant ---------------------------
(***************************************************************************)
(* Values for model checking the device grant: the seeded device client,   *)
(* and one that a login registers itself.                                  *)
(***************************************************************************)
EXTENDS ObservedLogins

CONSTANTS
  device,   \* phase-11-device-client
  cli,      \* registered by _register_client
  la, lb    \* runs of the CLI

MCMetadata == [c \in Clients |->
  [auth_method   |-> "none",
   grants        |-> {"device_code", "refresh_token"},
   redirect_uris |-> {}]]

MCLoginClient == [l \in Logins |-> IF l = la THEN device ELSE cli]
MCLoginScope == [l \in Logins |-> "read"]

OneInstant == {0}
TwoInstants == 0..1
FixedScopes == {Scopes}
=============================================================================
