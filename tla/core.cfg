SPECIFICATION Spec
CONSTANTS
  Sessions = {s1}
  Instances = {i1, i2}
  Images = {m1, m2}
  None = None
  Provs = {p1, p2}
  Deleters = {d1}
  Reaper = reaper
  Conns = {}
  Reqs = {r1}
  MaxSessions = 0
  MaxPersistentSessions = 0
  CullStopped = FALSE
  Tunnelled = TRUE
  StoreMayFail = FALSE
  ProviderMayFail = TRUE
  MaxCrashes = 1
  MaxToken = 1
SYMMETRY Symmetry
INVARIANT SnapshotResolvable
PROPERTY NoUnsavedDestroy
