CONSTANTS
  Count = 1
  Ids = {i1, i2}
  None = None
  Reserved = Reserved
  Faults = {}
SPECIFICATION LockSpec
PROPERTIES QuarantineClearedWhenGone
