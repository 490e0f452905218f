CONSTANTS
  Cells = {f1, f2, f3}
  Items = {i1, i2, i3, i4}
  None = None
SPECIFICATION CellsSpec
PROPERTY OneTapOneEvent
