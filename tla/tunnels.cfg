SPECIFICATION Spec
CONSTANTS
  Sessions = {s1}
  Instances = {i1}
  Images = {m1}
  None = None
  Provs = {p1}
  Deleters = {d1}
  Reaper = reaper
  Conns = {c1, c2}
  Reqs = {r1}
  MaxSessions = 0
  MaxPersistentSessions = 0
  CullStopped = FALSE
  Tunnelled = TRUE
  StoreMayFail = TRUE
  ProviderMayFail = FALSE
  MaxCrashes = 0
  MaxToken = 0
SYMMETRY Symmetry
INVARIANT TypeOK
INVARIANT OneOpenTunnel
INVARIANT InstanceFindable
