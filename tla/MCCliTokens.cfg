\* Two commands that overlap, clocks that differ, lost answers and resets.
SPECIFICATION CliSpec
CONSTANTS
  c1 = c1
  c2 = c2
  Commands = {c1, c2}
  Skew = 2
  AccessTTL = 3
  RefreshTTL = 4
  Offsets <- OnTimeOrAhead
  MaxTime = 3
  MaxHandles = 3
  MaxLogin = 1
SYMMETRY AnyOrder
INVARIANTS
  RefreshTokenSurvives
  CallsInTime
CHECK_DEADLOCK FALSE
