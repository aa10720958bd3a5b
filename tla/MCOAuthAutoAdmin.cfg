\* Auto-approval of an admin scope: the consent page that never comes.
SPECIFICATION Spec
CONSTANTS
  web = web
  webUri = webUri
  Clients = {web}
  Seeded = {web}
  UrlClients = {}
  Metadata <- MCMetadata
  RedirectUris = {webUri}
  Scopes = {"read", "admin"}
  AdminScopes = {"admin"}
  ScopeOverrides <- FixedScopes
  Paths = {"/mcp/oauth"}
  Origins = {"o1"}
  Verifiers = {"v1"}
  NonAscii = {}
  Time <- OneInstant
  CodeTTL = 1
  AccessTTL = 1
  RefreshTTL = 1
  MaxHandles = 3
  MaxApprovals = 2
  MaxMinted = 0
  MaxCalls = 0
INVARIANT
  AuthorizeAnswers
CHECK_DEADLOCK FALSE
