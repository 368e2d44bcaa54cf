CONSTANTS
  Count = 1
  Ids = {i1, i2}
  None = None
  Reserved = Reserved
  Faults = {"crash", "list", "probe", "delete", "lost", "jit", "run", "ancestry",
            "write", "limits", "gate", "partition", "drop",
            "quarantine_write", "quarantine_corrupt"}
SPECIFICATION OneSlotSpec
INVARIANTS QuarantineHoldsSlot
PROPERTIES OneSlotSafe PoolHeals PoolTidies
