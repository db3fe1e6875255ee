CONSTANTS
  p1 = p1  p2 = p2
  Project = {p1, p2}
  Home = p1
  Token = {"t1", "t2", "t3", "t4"}
  FIP = {"f1", "f2"}
  Cases <- MCCases
  Charts = {}
  Metal = {{"create", "sweep"}}
  Both = {}
  Guest = {}
  Shared = {}
SPECIFICATION Spec
PROPERTIES
  LiveKeepsSecret
CHECK_DEADLOCK FALSE
