\* A connection that is opened and left idle, as a browser may do.
SPECIFICATION LoopbackSpec
CONSTANTS
  l1 = l1
  l2 = l2
  c1 = c1
  c2 = c2
  Logins = {l1, l2}
  Conns = {c1}
  Redirects <- MCRedirects
PROPERTY
  LoginEnds
CHECK_DEADLOCK FALSE
