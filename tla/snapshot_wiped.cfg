SPECIFICATION Spec
CONSTANTS
  Sessions = {s1}
  Instances = {i1, i2}
  Images = {m1, m2}
  None = None
  Provs = {p1, p2}
  Deleters = {}
  Reaper = reaper
  Conns = {}
  Reqs = {r1}
  MaxSessions = 0
  MaxPersistentSessions = 0
  CullStopped = FALSE
  Tunnelled = TRUE
  StoreMayFail = FALSE
  ProviderMayFail = FALSE
  MaxCrashes = 0
  MaxToken = 1
SYMMETRY Symmetry
PROPERTY RestoreKeepsSnapshot
