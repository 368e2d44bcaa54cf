SPECIFICATION WatchersSpec
CONSTANTS
  ServeTick = 2
  CheckEvery = 3
  SampleEvery = 5
  HitThreshold = 2
  SkipTicks = 2
  AlertAfter = 2
  Quiet = 5
  MonitorFaults = {"low", "unknown", "fetch", "report", "spawn", "panic"}
  CanaryEvery = 9
  StartSlo = 3
  PollTimeout = 6
  PollEvery = 2
  CanaryFaults = {"dispatch", "list", "history", "panic"}
  MaxRun = 4
  Age <- AgeOf
  RunningAges = {0, 6}
  PageSize = 3
  JobCap = 2
  Expected = 1
  StaleAge = 8
  TailWarn = 4
  TooOld = 5
  AlertFrom = 1
  Senders = {"serve", "monitor"}
  Keys = {"dead", "tail"}
  DeadmanKey = "dead"
  KeyOwner <- Owner
  Cooldown = 2
  SendLimit = 1
  Deadline = 3
  Settings <- AllSettings
  FirstDays <- SomeDays
  MaxDays = 3
  MaxJobs = 3
  StaleAfter = 2
  WarnAfter = 1
INVARIANTS WatchersTypeOK SilenceIsGood SamplesTruthful
PROPERTIES BackgroundWorkPaced DeliveriesHonest AlertsHeard
CHECK_DEADLOCK FALSE
