SPECIFICATION Spec
CONSTANTS
  Sessions = {s1}
  Instances = {i1}
  Images = {m1}
  None = None
  Provs = {p1}
  Deleters = {d1}
  Reaper = reaper
  Conns = {}
  Reqs = {r1}
  MaxSessions = 0
  MaxPersistentSessions = 0
  CullStopped = FALSE
  Tunnelled = TRUE
  StoreMayFail = FALSE
  ProviderMayFail = FALSE
  MaxCrashes = 0
  MaxToken = 0
SYMMETRY Symmetry
INVARIANT TerminatedOwnsNothing
