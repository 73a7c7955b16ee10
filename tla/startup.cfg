SPECIFICATION Spec
CONSTANTS
  Builtin <- MCBuiltin
  HetznerNames = {"hetzner", "Hetzner"}
  LocalNames = {"local"}
  TrimSpace <- MCTrimSpace
  Envs <- MCEnvs
  Files <- MCFiles
  Answer = "typed"
  Host = "host"
  MaxLaunches = 2
  Sessions = {s1, s2}
  None = None
  ViewTokenTTL = 2
  MaxTime = 3
  MaxTokens = 2
CHECK_DEADLOCK FALSE
INVARIANT StartupTypeOK
INVARIANT RunsComplete
INVARIANT SettingsLast
INVARIANT SchemaComplete
INVARIANT WatchScoped
PROPERTY DisabledStays
PROPERTY HeadlessDecides
