SPECIFICATION Spec
CONSTANTS
  a = a
  b = b
  c = c
  Configs = {a, b, c}
  Installed = a
  ListOf <- MCListOf
  PollOf <- MCPollOf
  None = None
  MaxDeliveries = 3
  MaxCuts = 2
INVARIANTS
  BootsOnVerified
