CONSTANTS
  Count = 2
  Ids = {i1, i2, i3}
  None = None
  Reserved = Reserved
  Faults = {"shift"}
SPECIFICATION Spec
SYMMETRY Symmetry
INVARIANTS PreRmSparesRunners
