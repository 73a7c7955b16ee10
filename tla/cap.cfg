SPECIFICATION Spec
CONSTANTS
  Sessions = {s1, s2, s3}
  Instances = {i1}
  Images = {m1}
  None = None
  Provs = {p1, p2, p3}
  Deleters = {}
  Reaper = reaper
  Conns = {}
  Reqs = {r1, r2}
  MaxSessions = 1
  MaxPersistentSessions = 1
  CullStopped = FALSE
  Tunnelled = TRUE
  StoreMayFail = FALSE
  ProviderMayFail = FALSE
  MaxCrashes = 0
  MaxToken = 0
SYMMETRY Symmetry
INVARIANT CapOvershoot
