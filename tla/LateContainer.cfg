CONSTANTS
  Count = 2
  Ids = {i1, i2, i3}
  None = None
  Reserved = Reserved
  Faults = {"timeout"}
SPECIFICATION Spec
SYMMETRY Symmetry
INVARIANTS PreRmSparesRunners
