\* Two logins that share a port and two connections, each of which sends
\* something or is closed sooner or later.
SPECIFICATION PromptSpec
CONSTANTS
  l1 = l1
  l2 = l2
  c1 = c1
  c2 = c2
  Logins = {l1, l2}
  Conns = {c1, c2}
  Redirects <- MCRedirects
INVARIANTS
  OwnRedirectOnly
  NoFalseTimeout
  ServesItsOwnLogin
PROPERTIES
  LoginEnds
  RedirectGoesThrough
  RedirectIsKept
CHECK_DEADLOCK FALSE
