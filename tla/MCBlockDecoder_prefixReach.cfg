SPECIFICATION OverSpec
CONSTANTS
  Window = 24
  Calls <- OverreachingCalls
INVARIANT MatchInHistory
