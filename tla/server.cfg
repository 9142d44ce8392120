SPECIFICATION MCSpec
CONSTANTS
  Slots = {r1, r2}
  None = None
  Sensors = {"s1"}
  PoolSize = 2
  Payloads <- MCPayloads
  RejectCount = 2
  AuthFailCount = 2
  Persist = 1
  Rate = 1
  Burst = 2
  FailLimit = 2
  FailSpan = 1
  Block = 1
  MaxArrivals = 4
  MaxNow = 1
  Summaries = {"m1"}
  Events = {"e1"}
  List = "list"
  Feed = "feed"
  MaxBytes = 2
  Share = 2
  MaxSize = 1
  MaxEdits = 1
  MaxBegun = 2
  MaxAsked = 3
  ImportTimes = {1, 2, 3}
  ImportAps = {"ap"}
  Clients = {"client"}
  Written = 9
  Accepted = {7}
  MaxImports = 2
  MaxBatches = 2
  Zones <- MCZones
  From = 960
  To = 1780
  TrialTimes = {0, 1, 2, 3, 4}
  Bssids = {"x", "y"}
  Durations = {0, 2}
  Stagings <- MCStagings
  Type = "flood"
  Pre = 1
  Post = 0
  Guard = 2
  EvalFrom = 1
  EvalTo = 3
  Edge = 1
  MaxTrials = 2
  MaxDetections = 2
  EventIds = {1, 2, 3, 4}
  Stamps = {1, 2}
  Groups = {"g"}
  OwnRow = "own"
  Labels = {"open", "benign"}
  PageRows = 2
  MaxChanges = 2
  FloodAps = {"ap1"}
  FloodEvents <- MCEvents
  FloodWindows <- MCWindows
  FloodGap = 1
  CounterGap = 4
  Lookback = 4
  MinBursts = 1
  BurstWindow = 2
  Sustain = 3
  MinActive = 2
  Background <- MCBackground
  CdfUnit = 100
  Alpha = 5
  TrustedAps = {"ap1"}
  MaxRuns = 3
  TwinAps = {1, 2}
  Baselines <- MCMeta
  Readings <- MCReadings
  WindowW = 3
  ShiftK = 6
  ShiftFloor = 10
  SdFloor = 1
  SpreadK = 3
  SpreadFloor = 6
  TwinGap = 2
  Persistence = 2
  PersistWindow = 3
  MedDev = 12
  HighDev = 20
  MaxFloorShare = 35
  PersistSpan = 2
  PersistObs = 20
  CloseDbm <- MCClose
  StrongDb = 10
  Inventory <- MCInventory
  MaxRows <- MCMaxRows
  MaxTs = 5
SYMMETRY Symmetry
INVARIANTS
  EventsTellTheStalls
  BoundaryBetweenAdapters
  EditsAreSeen
  FreshWhenOrdered
  PagingIsComplete
  BucketsTile
  DayIsAccountedFor
  CommittedIsCovered
  OneRowPerEpisode
  DeviationsAreTrue
  SustainedShiftFires
  ReportIsHonest
PROPERTIES
  EpochNamesBoundaries
  WholeEpisodeStored
CHECK_DEADLOCK FALSE
