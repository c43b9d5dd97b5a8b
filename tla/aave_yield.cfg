\* A sync and positions while the wallet moves between the market and its vaults.
SPECIFICATION AaveSpec
CONSTANTS
  r1 = r1
  r2 = r2
  v1 = v1
  v2 = v2
  t1 = t1
  Reserves = {r1, r2}
  Stata = {v1}
  Legacy = {v2}
  assetOf <- AssetOf
  Tokens = {t1}
  MaxBalance = 1
  MaxMoves = 3
  MaxCommands = 2
INVARIANTS AaveTypeOK ResultsMatch HoldingsAddUp CountedOnce
\* The number of events and of commands is bounded.
CHECK_DEADLOCK FALSE
