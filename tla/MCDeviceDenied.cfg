\* A denial at the verification page, and what an approval after it does.
SPECIFICATION ObservedSpec
CONSTANTS
  cli = cli
  device = device
  la = la
  lb = lb
  Clients = {device, cli}
  Seeded = {device}
  UrlClients = {}
  Metadata <- MCMetadata
  RedirectUris = {}
  Scopes = {"read"}
  ScopeOverrides <- FixedScopes
  Paths = {"/mcp/oauth"}
  Origins = {"o1"}
  Time <- OneInstant
  AccessTTL = 1
  RefreshTTL = 1
  MaxHandles = 6
  UserCodes = {"u1"}
  DeviceTTL = 0
  Logins = {la}
  LoginClient <- MCLoginClient
  LoginScope <- MCLoginScope
  MaxPolls = 2
INVARIANT
  DenialIsFinal
CHECK_DEADLOCK FALSE
