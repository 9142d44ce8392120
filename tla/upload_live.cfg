SPECIFICATION FairSpec
CONSTANTS
  MaxPolls = 3
  MaxBoots = 2
  MaxBuffers = 2
  MaxStateLosses = 1
  MaxLate = 1
  BatchPolls = 2
  Kinds = {"heard"}
  Drifts = {4}
  Errs = {1}
  LateNtp = FALSE
  HeardInRetention = TRUE
INVARIANT FirstBufferSafe
PROPERTY Drained
CHECK_DEADLOCK FALSE
