CONSTANTS
  Heights = {162, 200, 216, 260, 291, 336, 346}
  Phones <- MCPhones
SPECIFICATION KeyboardSpec
INVARIANTS NotCovered NoCreep
