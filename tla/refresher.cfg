SPECIFICATION FairSpec
CONSTANTS
  Sensors = {1, 2}
  MaxTime = 4
  HourOf <- MCHourOf
  GapLen = 1
  MaxIngests = 2
  MaxKills = 1
  MaxUntold = 1
INVARIANTS
  OneWindowPerMishap
  LagOneRound
PROPERTY EventuallyFresh
