SPECIFICATION LinkSpec
CONSTANTS
  Txns = {1, 2, 3, 4}
  Books <- SomeBooks
  BatchSize = 1
  MaxPairs = 3
  Factors = {100}
  MaxRuns = 3
  MaxVerbs = 1
  LinksWhileAsking = TRUE
INVARIANT LinksAreSound
PROPERTY RefusedStaysUnlinked
PROPERTY LegsFindEachOther
CHECK_DEADLOCK FALSE
