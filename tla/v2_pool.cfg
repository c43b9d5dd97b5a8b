\* One pair over up to four blocks; its calls are divided between three batches.
SPECIFICATION Spec
CONSTANTS
  Starts <- MCStarts
  Deposits <- MCDeposits
  Burns = {5}
  Swaps <- MCSwaps
  Indices = {299}
  BatchSize = 500
  MaxLag = 1
  MaxBlocks = 4
INVARIANTS TypeOK ShownIsPayout
PROPERTIES NeverDiluted
\* The number of blocks is bounded.
CHECK_DEADLOCK FALSE
