\* Commands overlap: what a logout removed is saved again by a call that had
\* loaded it before.
SPECIFICATION ProfileSpec
CONSTANTS
  x = x
  z = z
  r = r
  s = s
  Procs = {t1, t2}
  Profiles = {x}
  Resources = {r}
  ResourceOf <- MCResourceOf
  OneAtATime = FALSE
INVARIANT
  LoggedOutStaysOut
