\* explain against positions on the same cache.
SPECIFICATION Spec
CONSTANTS
  Syncers = {s1}
  Fetchers = {f1}
  N = 2
  AgeFlags <- Flags
  DefaultAge = 1
  Time = {0, 1, 2, 3}
  NoRow = NoRow
  ReadError = ReadError
SYMMETRY Symmetry
INVARIANT ExplainShowsWhy
\* Every run of a command ends and the clock is bounded.
CHECK_DEADLOCK FALSE
