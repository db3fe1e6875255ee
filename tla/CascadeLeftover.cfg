CONSTANTS
  f1 = f1  f2 = f2  f3 = f3
  FIP = {f1, f2, f3}
  None = None
  TTL = 3
  Latency = 1
  ListTimeout = 1
  Cases <- MCCases
  Two = {}
  Room = {{"retire"}}
  Three = {}
SYMMETRY Alike
SPECIFICATION Spec
INVARIANTS
  CascadeComplete
CHECK_DEADLOCK FALSE
