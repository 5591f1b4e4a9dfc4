SPECIFICATION Spec
CONSTANTS
  a = a b = b x = x
  EP = {0, 1}
  Dev = {0, 1}
  Payload <- MCPayload
  NoByte <- MCNoByte
  Scenario <- Damaged
  N = 3
  SEP = 0
  DEPTH = 4
  RESET_CNT_W = 3
  LEN_W = 3
  Gaps = {5}
  IPG = 8
  TIMEOUT = 14
PROPERTIES DamageReported
