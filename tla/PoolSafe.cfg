CONSTANTS
  Count = 2
  Ids = {i1, i2, i3}
  None = None
  Reserved = Reserved
  Faults = {"crash", "lost", "run"}
SPECIFICATION PoolSafeSpec
SYMMETRY Symmetry
INVARIANTS TypeOK RowHoldsRunner PreRmSparesRunners
PROPERTIES GraceShieldsNewRunners NoLiveRunnerDeregistered
