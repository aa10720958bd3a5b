\* One command at a time changes profiles, others read them, and any of them
\* may be killed at any step.
SPECIFICATION ProfileSpec
CONSTANTS
  x = x
  z = z
  r = r
  s = s
  Procs = {t1, t2}
  Profiles = {x, z}
  Resources = {r, s}
  ResourceOf <- MCResourceOf
  OneAtATime = TRUE
INVARIANTS
  FileIsWhole
  ActiveProfilesExist
  LoggedOutStaysOut
PROPERTY
  ImplementsProfileLedger
