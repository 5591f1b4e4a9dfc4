SPECIFICATION Spec
CONSTANTS
  EP = {0}
  Dev = {0, 1}
  Payload <- MCPayload
  NoByte <- MCNoByte
  Request <- LineCoding
  Line0 <- MCLine0
  Data0 <- MCData0
  Buffer0 <- MCBuffer0
  Descriptor <- MCDescriptor
  MAXP = 2
  MAXDATA = 2
  Patient = FALSE
  DEPTH = 4
  RESET_CNT_W = 3
  LEN_W = 3
  Scenario <- Lossy
  Gaps = {5}
  IPG = 8
  TIMEOUT = 14
INVARIANTS FlagTellsSetup DoneMeansDone AddressAgreed
