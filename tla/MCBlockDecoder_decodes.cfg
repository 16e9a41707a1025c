SPECIFICATION MCSpec
CONSTANTS
  Window = 24
  Calls <- AnyCall
INVARIANT InBounds
INVARIANT Sound
INVARIANT Complete
INVARIANT PartialExact
INVARIANT FastDecodes
