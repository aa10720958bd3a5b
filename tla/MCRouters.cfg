\* Both authorization routers on one store: consent, codes and their exchange
\* or its failure, plain and admin scopes, a service client, resets.
SPECIFICATION RoutersSpec
CONSTANTS
  web = web
  service = service
  webUri = webUri
  otherUri = otherUri
  Clients = {web, service}
  Seeded = {service}
  UrlClients = {}
  Metadata <- MCMetadata
  RedirectUris = {webUri, otherUri}
  Scopes = {"read", "admin"}
  AdminScopes = {"admin"}
  ScopeOverrides <- FixedScopes
  Paths = {"/mcp/oauth", "/mcp/oauth-v21"}
  Origins = {"o1"}
  Verifiers = {"v1", "v2"}
  NonAscii = {"v2"}
  Time <- OneInstant
  CodeTTL = 1
  AccessTTL = 1
  RefreshTTL = 1
  MaxHandles = 4
  MaxApprovals = 1
  MaxMinted = 0
  MaxCalls = 0
INVARIANTS
  CodeGetsOneAttempt
  TokensBackedByConsent
  RoutedTokensUsable
  AuditAccountsForStore
PROPERTY
  ImplementsLedger
CHECK_DEADLOCK FALSE
