CONSTANTS
  Docs = {1, 2, 3}
  Txns = {1, 2, 3}
  Books <- MCBooks
  MaxRounds = 3
  AmountAgent = TRUE
  Labels = {9000}
  Narrowings = {{2}, {1, 3}}
  Floor = 6000
  MaxDateDays = 45
SPECIFICATION MatchSpec
CHECK_DEADLOCK FALSE
INVARIANT RunsRepeat
INVARIANT TwinsAllMatched
INVARIANT MatchesAreEarned
PROPERTY HeldIsKept
