\* uniswap-v2: two queries per chunk; every chunk size, wrapping ones included.
SPECIFICATION FairSpec
CONSTANTS
  MaxUint = 4
  NumProviders = 1
  NumQueries = 2
  Limits = {0}
  NullAnswers = FALSE
  LogSets <- UpToTwoLogs
PROPERTIES Ends AtomicSpec
\* A scan ends.
CHECK_DEADLOCK FALSE
