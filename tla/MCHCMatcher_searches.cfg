SPECIFICATION MCSpec
CONSTANTS
  Window = 12
  Trigger = 1
  Hash <- MCHash
  Calls = {}
INVARIANT TrueMatches
INVARIANT NonePassedOver
INVARIANT HistoryShared
INVARIANT DictionarySeen
