SPECIFICATION Spec
CONSTANTS
  Sensors = {1, 2}
  MaxTime = 4
  HourOf <- MCHourOf
  GapLen = 1
  MaxIngests = 3
  MaxKills = 1
  MaxUntold = 0
INVARIANT StaleIsMarked
CHECK_DEADLOCK FALSE
