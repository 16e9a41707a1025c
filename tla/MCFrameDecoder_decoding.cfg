SPECIFICATION MCSpec
CONSTANTS
  K64 = 2
  Frames <- AllFrames
  DictLength = 3
  Pieces = {}
  Rooms = {}
  MaxFrames = 3
  MaxAsks = 1
  Files <- AnyFile
  Sizes = {0, 1, 3, 20}
  ShortReads = {0, 5, 12}
  MaxFaults = 1
INVARIANT TypeOK
INVARIANT StaysInFrame
INVARIANT HistorySeeded
INVARIANT FileReadInOrder
INVARIANT FileShortMeansEnd
PROPERTY DeliversInOrder
PROPERTY Decides
PROPERTY ReadReturns
