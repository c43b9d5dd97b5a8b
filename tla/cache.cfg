\* Two sync-metadata runs and one positions run over three namespaces.
SPECIFICATION Spec
CONSTANTS
  Syncers = {s1, s2}
  Fetchers = {f1}
  N = 3
  AgeFlags <- Flags
  DefaultAge = 1
  Time = {0, 1, 2, 3}
  NoRow = NoRow
  ReadError = ReadError
SYMMETRY Symmetry
INVARIANTS TypeOK ParentsNotOlder NoStampRegression NoContentRegression MixedOnlyIfRaced
PROPERTY SyncThenPositions
\* Every run of a command ends and the clock is bounded.
CHECK_DEADLOCK FALSE
