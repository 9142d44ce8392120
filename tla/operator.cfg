SPECIFICATION MCSpec
CONSTANTS
  a = a
  b = b
  c = c
  Configs = {a, b, c}
  Installed = a
  ListOf <- MCListOf
  PollOf <- MCPollOf
  None = None
  MaxDeliveries = 3
  MaxCuts = 2
  Saved = {x1, x2}
  Undelivered = "first"
  VerifyPolls = 1
  MaxVersions = 2
  MaxPolls = 2
  MaxBuffers = 2
  MaxReboots = 1
  Lists <- MCLists
  OwnList = OwnList
  Missing = Missing
  MaxRewrites = 2
  MaxCrashes = 2
  MaxFaults = 2
  MaxStops = 1
  BackoffAfter = 3
  Requests <- MCRequests
  Slots = {"o1", "o2"}
  Events = {"e1", "e2"}
  Keys = {"k1", "k2"}
  Nets = {1, 2, 3}
  Numbers = {1, 2, 3}
  Dates = {1}
  MaxRequests = 3
SYMMETRY Symmetry
INVARIANTS
  SafeToBoot
  AppliedIsRunning
  NoTryForgotten
  ReportIsTrue
  BoundariesAreTrue
  OneTryPerSave
  StoredIsApplied
  RestoredByOneCheck
  JournalExplains
