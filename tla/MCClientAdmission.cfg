\* Registrations of every shape, and URL clients over a web of documents and
\* redirects that changes at any time.
SPECIFICATION AdmissionSpec
CONSTANTS
  id = id
  a = a
  b = b
  plain = plain
  lan = lan
  Ids = {id}
  Urls = {a, b, plain, lan}
  Scheme <- MCScheme
  Host <- MCHost
  Seeds <- MCSeeds
  Documents <- MCDocuments
  Payloads <- MCPayloads
  RedirectUris = {"https"}
  Scopes = {"read"}
  ScopeOverrides <- MCOverrides
  MaxRedirects = 1
  MaxAdmitted = 1
INVARIANTS
  NoDeadClients
  FetchFindsDocuments
  UrlClientsVouched
PROPERTIES
  RecordsAreFixed
  AdmittedAsFound
CHECK_DEADLOCK FALSE
