\* The wallet supplies collateral and borrows while prices move and fail.
SPECIFICATION Spec
CONSTANTS
  a1 = a1
  a2 = a2
  base = base
  Assets = {a1, a2}
  Lists <- MCLists
  fa = fa
  fb = fb
  Feeds = {fa, fb}
  FeedsOf <- MCFeedsOf
  StartFeeds <- MCStartFeeds
  Factors <- MCFactors
  Prices = {0, 2, 5}
  StartFactors <- MCStartFactors
  StartPrices <- MCStartPrices
  Amounts = {3}
  Scale = 2
  FactorScale = 10
  MaxBlocks = 5
  MaxRuns = 2
INVARIANTS TypeOK VerdictsAgree DebtIsPriced NothingHidden
\* The number of events and of commands is bounded.
CHECK_DEADLOCK FALSE
