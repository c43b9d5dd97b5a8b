\* One tick below, one inside and one above the range; counters that wrap at 3.
SPECIFICATION Spec
CONSTANTS
  Modulus = 3
  Q = 2
  FirstGrowths = {2}
  Ticks = {0, 1, 2}
  Lower = 1
  Upper = 2
  MaxLiquidity = 1
  MaxOwed = 1
  MaxTurns = 2
  MaxElapsed = 2
  Ratio <- RatioOf
  Prices <- SomePrices
  Q96 = 8
  Splits = {2, 4, 6}
INVARIANTS TypeOK FormulaExact FeesExact AmountsArePayout
\* A fetch ends.
CHECK_DEADLOCK FALSE
