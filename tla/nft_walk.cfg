\* Two batches per phase, providers that lag by one block.
SPECIFICATION Spec
CONSTANTS
  t1 = t1
  t2 = t2
  t3 = t3
  p1 = p1
  p2 = p2
  Tokens = {t1, t2, t3}
  Pools = {p1, p2}
  poolOf <- TwoPools
  BatchSize = 2
  MaxLag = 1
  MaxPools = 1
  LogStarts = {1, 2}
  MaxBlocks = 3
  MaxRuns = 2
SYMMETRY Symmetry
INVARIANTS TypeOK WalkIsExact UnknownPoolHasCause
\* The number of commands and of blocks is bounded.
CHECK_DEADLOCK FALSE
