SPECIFICATION Spec
CONSTANTS
  Beacons <- MCBeacons
  Drifts <- MCDrifts
  PollsPerHour = 2
  Overlap = 1
  BatchPolls = 2
  OldVersions = {0, 6}
  RollBacks = {7}
  MaxPolls = 3
  MaxBoots = 2
  MaxFaults = 1
CONSTRAINT Apart
INVARIANTS
  OpensComplete
  EveryHearingObserved
  LoadReachesServer
  
CHECK_DEADLOCK FALSE
