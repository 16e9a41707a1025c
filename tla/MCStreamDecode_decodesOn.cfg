SPECIFICATION MCSpec
CONSTANTS
  Window = 24
  MaxBlock = 16
  Blocks <- AnyBlock
  Dicts <- MCDicts
  DictAt = 60
  Places = {30, 95}
  MemSize = 115
  Callers = {"free", "ring"}
  MaxCalls = 6
PROPERTY KeepsPromise
