\* Two requests in flight: faults, tokens that expire, notes, a clock that
\* stops and moves, resets.
SPECIFICATION BearerSpec
CONSTANTS
  k1 = k1
  r1 = r1
  r2 = r2
  Keys = {k1}
  Requests = {r1, r2}
  Endpoints = {"mcp", "mint", "faults", "clock", "reset"}
  Faulty = {"mcp", "reset"}
  Behaviors = {"delay", "reject"}
  Instants = {0}
  Intervals <- BackAndForth
  MaxWall = 1
  MaxShift = 1
  MaxFaults = 2
  TokenTTL = 1
  MaxTokens = 1
SYMMETRY InFlight
INVARIANTS
  ClockAddsUp
  FaultsStrikeOnce
  NotesAsReported
PROPERTY
  RevokedStaysRefused
CHECK_DEADLOCK FALSE
