CONSTANTS
  a1 = a1  a2 = a2  p1 = p1  p2 = p2  g1 = g1  g2 = g2  g3 = g3  h1 = h1  h2 = h2  k1 = k1  k2 = k2  s1 = s1  s2 = s2  s3 = s3  s4 = s4  s5 = s5  grp = grp
  NoIP = NoIP  None = None
  Addr = {a1, a2}
  Pool = {p1, p2}
  Subnet <- TwoSubnets
  Gen = {g1, g2, g3}
  Preset = {g1}
  ReleaseAs <- Releases
  Drop = {a2}
  Group = {grp}
  Handler = {h1, h2}
  Client <- TwoClusters
  Ask <- PinnedAsk
  Bounds <- ThreeRequests
SYMMETRY Alike
SPECIFICATION Spec
INVARIANTS
  ApprovedAlwaysKeepsClaim
CHECK_DEADLOCK FALSE
