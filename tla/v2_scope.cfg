\* Syncs of every mode and positions, providers that lag by one block.
SPECIFICATION Spec
CONSTANTS
  p1 = p1
  p2 = p2
  x1 = x1
  f1 = f1
  Pairs = {p1, p2}
  Others = {x1}
  Lookalikes = {x1}
  Farms = {f1}
  pairOf <- FarmOfFirst
  SeedPairs = {x1}
  MaxPairs = 1
  Modes = {"user", "full", "limited", "seed"}
  Sources = {""}
  PageSize = 1
  MaxPages = 2
  LogStarts = {0, 4}
  MaxLag = 1
  MaxBlocks = 4
  MaxRuns = 2
INVARIANTS TypeOK OnlyFactoryPairs ScopeComplete NothingMissed CountedOnce
\* The number of commands and of blocks is bounded.
CHECK_DEADLOCK FALSE
