SPECIFICATION MCSpec
CONSTANTS
  Window = 16
  Fast = 1024
  Half = 2048
  Wrap = 4096
  Large = 20
  HashSize = 16
  SkipTrigger = 2
  Hash <- MCHash
  Jobs <- OneShot
  Places <- StreamPlaces
  SafePlace = 64
  Words <- StreamWords
  Dicts <- StreamDicts
  MemSize = 80
  Offsets = {0}
  MaxCalls = 3
INVARIANT RoundTrip
INVARIANT BlocksFit
INVARIANT EveryTableHonest
INVARIANT EveryDecodable
INVARIANT Remembered
