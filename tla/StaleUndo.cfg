CONSTANTS
  s1 = s1  s2 = s2  a1 = a1  a2 = a2  p1 = p1  p2 = p2  grp = grp
  NoIP = NoIP  None = None
  Service = {s1, s2}
  Addr = {a1, a2}
  Group = {grp}
  Worker = {p1, p2}
  Cases <- MCCases
  Shared = {}
  Apart = {}
  Alone = {"fault", "lag"}
SPECIFICATION Spec
INVARIANT AdvertisedIsClaimed
CHECK_DEADLOCK FALSE
