CONSTANTS
  f1 = f1  f2 = f2  f3 = f3
  FIP = {f1, f2, f3}
  None = None
  TTL = 3
  Latency = 1
  ListTimeout = 1
  Cases <- MCCases
  Two = {{"delete", "fail"}, {"delete", "fault"}, {"crash"}}
  Room = {{"retire", "fault"}}
  Three = {{"delete", "fault"}}
SYMMETRY Alike
SPECIFICATION Spec
INVARIANTS
  TypeOK
  QuotaRespected
  SettledStatus
CHECK_DEADLOCK FALSE
