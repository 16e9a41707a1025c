SPECIFICATION MCSpec
CONSTANTS
  InputEnd = 22
  OptNum = 10
  Sufficient = 8
  RunMask = 4
  MLMask = 2
  FavoredLength = 5
INVARIANT SequencesFollow
INVARIANT NeverDearer
INVARIANT OutputFits
INVARIANT MidRoundTrip
PROPERTY ParserEnds
