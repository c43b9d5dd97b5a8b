\* A sync from the logs or a scoped one, followed by positions.
SPECIFICATION Spec
CONSTANTS
  t1 = t1
  t2 = t2
  t3 = t3
  p1 = p1
  p2 = p2
  Tokens = {t1, t2, t3}
  Pools = {p1, p2}
  poolOf <- TwoPools
  BatchSize = 3
  MaxLag = 0
  MaxPools = 1
  LogStarts = {1}
  MaxBlocks = 2
  MaxRuns = 2
SYMMETRY Symmetry
INVARIANT NoSilentLoss
\* The number of commands and of blocks is bounded.
CHECK_DEADLOCK FALSE
