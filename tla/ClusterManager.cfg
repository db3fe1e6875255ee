CONSTANTS
  p1 = p1  p2 = p2
  Project = {p1, p2}
  Home = p1
  Token = {"t1", "t2", "t3", "t4"}
  FIP = {"f1", "f2"}
  Cases <- MCCases
  Charts = {{"fresh", "fault", "fault2", "crash", "relabel", "junk"}, {"fault", "fault2", "bump", "junk"}, {"teardown", "release", "claim", "fault"}, {"disable"}, {"create", "sweep"}}
  Metal = {{"create", "delete", "fault"}, {"old", "delete", "outage", "crash"}, {"orphan", "sweep", "fault"}}
  Both = {{"old", "sweep", "delete", "fault"}}
  Guest = {{"loss", "fault"}, {"blank", "fault"}, {"fault", "edit"}, {"old", "create", "delete"}, {"crash", "delete"}}
  Shared = {{"old", "delete", "sweep"}}
SPECIFICATION FairSpec
INVARIANTS
  TypeOK
  OneLoadBalancer
PROPERTIES
  LiveKeepsSecret
  ForeignClaimKept
  ChartsConverge
  SecretsConverge
  DeletionFinishes
  ClaimsReleased
CHECK_DEADLOCK FALSE
