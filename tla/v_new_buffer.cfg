SPECIFICATION Spec
CONSTANTS
  MaxPolls = 3
  MaxBoots = 1
  MaxBuffers = 2
  MaxStateLosses = 0
  MaxLate = 0
  BatchPolls = 2
  Kinds = {"heard", "failed"}
  Drifts = {0}
  Errs = {1}
  LateNtp = FALSE
  HeardInRetention = TRUE
INVARIANT NothingSkipped
CHECK_DEADLOCK FALSE
