SPECIFICATION DaemonSpec
CONSTANTS
  Count = 2
  ServeTick = 2
  PollTick = 1
  RestartNap = 2
  MaxPolls = 5
  MaxSettle = 5
  Sustain = 4
  Threshold = 2
  DeadmanAfter = 4
  PassTime = 1
  ProbeBudget = 1
  Faults = {"pause", "start", "probe", "ensure", "alert"}
  StartBudget = 8
  Retry = 2
  Quick = 1
  CommandCeiling = 8
  MinBudget = 3
  Margin = 1
  HealthCeiling = 2
  Cooldown = 4
  Window = 9
  MaxAttempts = 2
  Commands = 2
  ProbeTime = 1
  Outages = {"down", "weak"}
  Hosts = {"native", "declared", "vm"}
  WaitLimit = 4
  RestartRest = 1
  LimitInterval = 10
  LimitBurst = 5
  MaxCrashes = 1
  Endpoints = {"native", "lima"}
  Unset = unset
  MaxFlips = 2
  ProbeLimit = 2
  Processes = {p1, p2}
  Rows = {r1, r2}
  Nobody = nobody
  FileFaults = {"kill", "power", "damage", "write"}
  MaxHarms = 1
  Runners = {a, b, c, d, e}
  PageSize = 2
  MaxChurn = 2
  NoTotal = none
  Settings <- SomeSettings
  ContainFaults = {"probe", "run", "inspect", "rm", "host"}
  MaxFaults = 2
  WatchdogTimes = {0, 6, 12}
  LeastBeat = 1
  MostBeat = 3
  WaitTime = 3
  CheckTime = 1
  StartTimeout = 5
  LateBy = 1
INVARIANTS DaemonTypeOK StartBounded HostHolds ListingExact
PROPERTIES DoubtNeedsCount LoopProgress ServiceComesUp StateSurvives
CHECK_DEADLOCK FALSE
