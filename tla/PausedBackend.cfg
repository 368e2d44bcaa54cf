SPECIFICATION RecoverySpec
CONSTANTS
  StartBudget = 8
  Retry = 2
  Quick = 1
  CommandCeiling = 8
  MinBudget = 3
  Margin = 1
  HealthCeiling = 2
  Cooldown = 4
  Window = 9
  MaxAttempts = 2
  Commands = 2
  ProbeTime = 1
  Outages = {"down", "weak"}
PROPERTY UnreachableBackendStarted
CHECK_DEADLOCK FALSE
