SPECIFICATION ServicesSpec
CONSTANTS
  MaxRetries = 4
  BaseDelay = 1
  MaxDelay = 3
  Floor = 5
  Timeout = 6
  Grace = 1
  Budget = 9
  RetryAfters = {0, 1, 4, 12}
  Threads = {"serve", "monitor"}
  Cooldown401 = 3
  TokenFaults = {"unreadable", "job"}
  Jobs = {1, 2}
  Runs = {1, 2}
  PollAttempts = 2
  ReaperFaults = {"list", "cancel", "force", "jobs", "delete"}
  Children = {"c1", "c2", "c3"}
  ActiveCap = 2
  CommandTime = 2
  Reserve = 1
  Stuckable = {"c1"}
  Boxes = {"b1", "b2", "b3"}
  Ours = {"b1", "b2"}
  Width = 1
  TopLimit = 1
  PassLimit = 2
  Strikes = 2
  AlertAfter = 2
  WindowSize = 2
  Levels = {0, 1, 2}
  TooHigh = 1
  Sources = {"slice", "cgroup"}
  HostReserve = FALSE
  Daemons = {1, 2}
  Hard = 7
  RunnerCap <- Caps
  Wanted <- Wants
  MaxLate = 1
  Configs <- SomeConfigs
  HostMemory = 8
  DaemonSizes = {4, 6}
  ProbeTTL = 2
  Resizes = 1
  Count = 2
  Ids = {i1, i2, i3}
  None = none
  Reserved = reserved
  Garbled = garbled
  Siblings = {i3}
  Faults = {"ps", "delete", "write"}
  DrainBudget = 3
  DockerTimeout = 9
  GhTimeout = 9
  GhGrace = 1
  StopLimit = 6
  Rounds = 2
  Setups = {p1, p2}
  Loaders = {l1}
  Requests <- SomeRequests
  HostSizes <- SomeHosts
  EngineSizes <- SomeEngines
  Typos <- SomeTypos
  MaxTypos = 1
  Boxnames = {n1, n2}
  Usages = {1, 2}
  Debounce = 1
  RingCap = 1
  MaxDecisions = 2
  MaxInstalls = 2
  Berths = {1, 2}
  Strays = {3}
  Sealable = {2}
INVARIANTS ServicesTypeOK GithubCallsPaced DeleteAfterJobOver EveryChildHeld FleetToldTruly MemoryFits RollbackRestores
PROPERTIES GatesHold StopLosesNothing CommandsHold ServicesProgress
CHECK_DEADLOCK FALSE
