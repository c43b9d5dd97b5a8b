\* uniswap-v3: one query per chunk, two providers that may lag, every pool or two.
SPECIFICATION Spec
CONSTANTS
  MaxUint = 5
  NumProviders = 2
  NumQueries = 1
  Limits = {0, 2}
  NullAnswers = TRUE
  LogSets <- UpToThreeLogs
INVARIANTS TypeOK Accounted LimitedIsPrefix
\* A scan ends.
CHECK_DEADLOCK FALSE
