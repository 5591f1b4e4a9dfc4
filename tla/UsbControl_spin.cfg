SPECIFICATION FairSpec
CONSTANTS
  EP = {0}
  Dev = {0, 1}
  Payload <- MCPayload
  NoByte <- MCNoByte
  Request <- One
  Line0 <- MCLine0
  Data0 <- MCData0
  Buffer0 <- MCBuffer0
  Descriptor <- MCDescriptor
  MAXP = 2
  MAXDATA = 2
  Patient = FALSE
  DEPTH = 4
  RESET_CNT_W = 3
  LEN_W = 3
  Scenario <- Calm
  Gaps = {5}
  IPG = 8
  TIMEOUT = 14
PROPERTIES SendStatusReturns
