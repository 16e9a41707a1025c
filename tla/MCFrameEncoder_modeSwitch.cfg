SPECIFICATION TightSpec
CONSTANTS
  K64 = 2
  HashUnit = 2
  Modes = {"compressed", "uncompressed"}
  PrefSet = {}
  DictLengths = {0, 1, 2, 3}
  SrcSizes = {0, 1, 2, 3}
  Caps = {100}
  MaxFed = 10
INVARIANT CapacityRespected
