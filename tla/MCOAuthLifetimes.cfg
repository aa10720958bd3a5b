\* Tokens over time: refresh under two origins, a clock that goes back, tokens
\* minted as expired, requests in flight, scope overrides.
SPECIFICATION Spec
CONSTANTS
  web = web
  webUri = webUri
  Clients = {web}
  Seeded = {}
  UrlClients = {web}
  Metadata <- MCMetadata
  RedirectUris = {webUri}
  Scopes = {"read"}
  AdminScopes = {}
  ScopeOverrides <- AnyScopes
  Paths = {"/mcp/oauth"}
  Origins = {"o1", "o2"}
  Verifiers = {"v1"}
  NonAscii = {}
  Time <- ShortTime
  CodeTTL = 0
  AccessTTL = 0
  RefreshTTL = 1
  MaxHandles = 4
  MaxApprovals = 1
  MaxMinted = 1
  MaxCalls = 1
INVARIANTS
  TypeOK
  ExpiryIsFinal
  IssuedTokensUsable
  CallsHoldIssuedTokens
  AuditAccountsForStore
CHECK_DEADLOCK FALSE
