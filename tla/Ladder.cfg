SPECIFICATION LadderSpec
CONSTANTS
  Count = 3
  None = None
  Threshold = 2
  Window = 2
  SlotCooldown = 4
  FleetOpenSlots = 2
  FleetCooldown = 3
  Broken = {}
  Budgets <- AnyBatch
  Gaps <- AnyGap
  StartTimes <- ShortStarts
  Faults = {"crash", "load", "save", "preflight", "gate", "flaky"}
INVARIANTS TypeOK NoUnrecordedStart RetryBudgetLeft StormPauses
PROPERTIES StartsAdmitted LadderServes
