SPECIFICATION Spec
CONSTANTS
  Sessions = {s1, s2}
  Instances = {i1, i2}
  Images = {m1, m2}
  None = None
  Provs = {p1, p2}
  Deleters = {d1}
  Reaper = reaper
  Conns = {}
  Reqs = {r1}
  MaxSessions = 0
  MaxPersistentSessions = 0
  CullStopped = FALSE
  Tunnelled = FALSE
  StoreMayFail = TRUE
  ProviderMayFail = FALSE
  MaxCrashes = 0
  MaxToken = 0
SYMMETRY Symmetry
INVARIANT InstanceFindable
