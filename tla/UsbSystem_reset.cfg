SPECIFICATION Spec
CONSTANTS
  EP = {0, 1, 2}
  Dev = {0, 1}
  Payload <- MCPayload
  Stale <- MCStale
  DEPTH = 4
  Descriptor <- MCDescriptor
  MAXP = 3
  MAXDATA = 4
  Request <- Requests
  Line0 <- MCLine0
  Data0 <- MCData0
  Buffer0 <- MCBuffer0
  Scenario <- Reset
INVARIANTS ReadsWhatCame
