SPECIFICATION MCSpec
CONSTANTS
  MaxPolls = 3
  MaxBoots = 2
  MaxBuffers = 1
  MaxStateLosses = 0
  MaxLate = 1
  BatchPolls = 2
  Kinds = {"heard", "failed"}
  Drifts = {4}
  Errs = {0, 1}
  LateNtp = FALSE
  HeardInRetention = TRUE
  None = None
  LineBoots = {1, 2}
  Skews <- MCSkews
  Start = 10
  End = 13
  LinePolls = 3
  MinTs = 7
  Future = 2
  MinShift = 2
  Margin = 3
  SentBoots = 1
  CatchUp = 2
  Int2 = 8
  Int4 = 16
  Int8 = 32
  Clock = 12
  Short = 50
  Long = 90
  Sizes <- MCSizes
  Backlog = 2
  CatchUpPolls = 4
  MaxBatchBytes = 4
  MaxBody = 4
  MaxJson = 5
  MaxRows = 5
  MaxSent = 8
  Base = 2
  HeartbeatS = 5
  BackoffMax = 8
  Watch = 1
  Fault = 2
INVARIANTS
  ObservationsFollow
  UnverifiedNeverStored
  OneRowPerPoll
  PlacedTruly
  TimesArePlaced
  ShapedIsAccepted
  SilenceIsShort
PROPERTY
  DeliveryPromise
CHECK_DEADLOCK FALSE
