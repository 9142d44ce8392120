SPECIFICATION Spec
CONSTANTS
  MaxPolls = 3
  MaxBoots = 1
  MaxBuffers = 1
  MaxStateLosses = 0
  MaxLate = 0
  BatchPolls = 2
  Kinds = {"heard", "failed"}
  Drifts = {0}
  Errs = {1}
  LateNtp = TRUE
  HeardInRetention = TRUE
INVARIANT OneRowPerPoll
CHECK_DEADLOCK FALSE
