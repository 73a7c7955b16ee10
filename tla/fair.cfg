SPECIFICATION FairSpec
CONSTANTS
  Sessions = {s1}
  Instances = {i1}
  Images = {m1}
  None = None
  Provs = {p1}
  Deleters = {d1}
  Reaper = reaper
  Conns = {c1}
  Reqs = {r1}
  MaxSessions = 0
  MaxPersistentSessions = 0
  CullStopped = TRUE
  Tunnelled = TRUE
  StoreMayFail = FALSE
  ProviderMayFail = FALSE
  MaxCrashes = 1
  MaxToken = 0
PROPERTY OrphanReaped
PROPERTY CullFinished
