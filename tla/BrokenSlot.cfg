CONSTANTS
  Count = 2
  Ids = {i1, i2, i3, i4}
  None = None
  Reserved = Reserved
  Faults = {}
SPECIFICATION BrokenSlotSpec
PROPERTIES SiblingsRefilled
