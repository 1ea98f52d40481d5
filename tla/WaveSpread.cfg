\* Spreads far below and far above a median of 20 ms with a deviation of 5 ms.
SPECIFICATION WaveSpec
CONSTANTS
  Collectors = {1, 2, 3}
  Position <- MCPosition
  Times = {0, 1, 4, 9, 40}
  Entries <- MCEntries
INVARIANT SmallSpreadScoresAsHigh
CHECK_DEADLOCK FALSE
