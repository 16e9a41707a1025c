SPECIFICATION AcrossSpec
CONSTANTS
  Window = 12
  Trigger = 1
  Hash <- MCHash
  Calls = {}
INVARIANT RunsAreMatches
