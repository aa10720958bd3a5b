\* Two logins, one of them with a client it registers, and user codes that
\* may collide; foreign polls, lost answers, resets and a clock that goes back.
SPECIFICATION ObservedSpec
CONSTANTS
  cli = cli
  device = device
  la = la
  lb = lb
  Clients = {device, cli}
  Seeded = {device}
  UrlClients = {}
  Metadata <- MCMetadata
  RedirectUris = {}
  Scopes = {"read"}
  ScopeOverrides <- FixedScopes
  Paths = {"/mcp/oauth"}
  Origins = {"o1"}
  Time <- TwoInstants
  AccessTTL = 1
  RefreshTTL = 1
  MaxHandles = 6
  UserCodes = {"u1"}
  DeviceTTL = 0
  Logins = {la, lb}
  LoginClient <- MCLoginClient
  LoginScope <- MCLoginScope
  MaxPolls = 2
INVARIANTS
  DeviceTypeOK
  UserCodesResolve
  DeviceTokensApproved
  ExpiredAnswerIsFinal
PROPERTIES
  ImplementsDeviceLedger
  LoginEnds
  ApprovedLoginSucceeds
  ApprovalIsKept
CHECK_DEADLOCK FALSE
