------------------------------- MODULE V3Fees -------------------------------
(***************************************************************************)
(* The tokens in one uniswap-v3 position and its unclaimed swap fees, the  *)
(* fees for one of the two tokens.  The fetcher reads the position from    *)
(* the position manager, then, in a later eth_call, the pool: slot0, the   *)
(* fee growth and the two ticks of the range.  These six calls per position*)
(* are cut into batches of 500 without regard to where a position begins,  *)
(* so the 84th position of a wallet has its slot0 in one batch and the     *)
(* rest in the next, the 167th its two ticks.  Each batch is answered at   *)
(* its own block, by a provider that may be one block behind.              *)
(*                                                                         *)
(* Fee growth is a counter that wraps at Modulus (2^256) and may start     *)
(* anywhere.  The pool and the position manager are external: a record per *)
(* block, with what the contracts do not store kept as history (earned,    *)
(* mark, epoch, turns).  The price within a tick only matters where slot0  *)
(* is read: it is any the tick allows.  The ratio at a tick, for which the *)
(* code has 512-bit arithmetic, is a constant.                             *)
(***************************************************************************)
EXTENDS Integers

CONSTANTS
  Modulus,      \* 2^256
  Q,            \* 2^128, the denominator of fee growth
  FirstGrowths, \* how much of it a pool may have had before
  Ticks,        \* the ticks the pool moves over
  Lower, Upper, \* tickLower and tickUpper of the position
  MaxLiquidity, \* bound on the position's liquidity
  MaxOwed,      \* bound on what withdrawals leave owed
  MaxTurns,     \* bound on crossings, openings and closings of the range
  MaxElapsed,   \* bound on the blocks produced during the fetch
  Ratio,        \* Ratio[t]: the square root of the price at tick t, times Q96
  Prices,       \* the values of sqrtPriceX96
  Q96,          \* 2^96
  Splits        \* where a batch may end: after 2, 4 or all 6 of the calls

\* The ticks between which the price may be, and those of the range.
Bounds == Ticks \cup {t + 1 : t \in Ticks} \cup {Lower, Upper}

ASSUME FeesAssumption ==
  /\ Modulus \in Nat \ {0}
  /\ Q \in Nat \ {0}
  /\ FirstGrowths \subseteq 0..(Modulus - 1)
  /\ Ticks \subseteq Int
  /\ Lower \in Int /\ Upper \in Int /\ Lower < Upper
  /\ MaxLiquidity \in Nat
  /\ MaxOwed \in Nat
  /\ MaxTurns \in Nat
  /\ MaxElapsed \in Nat
  /\ Splits \subseteq {2, 4, 6} /\ 6 \in Splits

ASSUME RatioAssumption ==
  /\ Ratio \in [Bounds -> Nat \ {0}]
  /\ \A t, u \in Bounds : t < u => Ratio[t] < Ratio[u]
  /\ Prices \subseteq Nat
  /\ Q96 \in Nat \ {0}

Growth == 0..(Modulus - 1)

VARIABLES
  block,    \* the latest block: the pool and the position
  parent,   \* the block before it
  elapsed,  \* blocks since the fetch began
  pc,       \* the call it makes next, at the end "done" or "leftOut"
  position, \* the block positions(tokenId) was answered at
  split,    \* how many of the pool's six calls are in the first batch
  first,    \* the block the first batch was answered at
  second,   \* the block the calls after it were answered at
  price,    \* slot0().sqrtPriceX96, read with the first batch
  amounts,  \* amount0 and amount1 of the position, once done
  fee       \* fee0 of the position, once done

reader == <<pc, position, split, first, second, price, amounts, fee>>
vars == <<block, parent, elapsed, reader>>

Ended == {"done", "leftOut"}

Blocks == [
  tick      : Ticks,  \* slot0().tick
  global    : Growth, \* feeGrowthGlobal0X128()
  lower     : Growth, \* ticks(tickLower).feeGrowthOutside0X128
  upper     : Growth, \* ticks(tickUpper).feeGrowthOutside0X128
  liquidity : 0..MaxLiquidity, \* of the position, with its last and owed
  last      : Growth,
  owed      : Nat,
  \* history
  earned    : Growth, \* growth the range has earned, counted without wrapping
  mark      : Growth, \* earned when the position's fees were last settled
  epoch     : 1..(MaxTurns + 1), \* openings and closings of the range's ticks
  turns     : 0..MaxTurns] \* all changes to lower and upper

TypeOK ==
  /\ {block, parent, position, first, second} \subseteq Blocks
  /\ elapsed \in 0..MaxElapsed
  /\ pc \in {"position", "pool", "rest"} \cup Ended
  /\ split \in Splits
  /\ price \in Prices \cup {0}
  /\ fee \in Nat

-----------------------------------------------------------------------------
(* The arithmetic of math.go. *)

\* A broken variant of subUint256: it does not wrap.
subWithoutWrap(a, b) == a - b

\* Subtraction of 256-bit words.
subUint256(a, b) == IF a < b THEN a - b + Modulus ELSE a - b

\* Broken variants of feeGrowthInside: the upper tick counts as in range; the
\* lower one does not.
feeGrowthInsideUpToUpper(tick, global, lower, upper) ==
  LET below == IF tick < Lower THEN subUint256(global, lower) ELSE lower
      above == IF tick > Upper THEN subUint256(global, upper) ELSE upper
  IN subUint256(subUint256(global, below), above)

feeGrowthInsideAfterLower(tick, global, lower, upper) ==
  LET below == IF tick <= Lower THEN subUint256(global, lower) ELSE lower
      above == IF tick >= Upper THEN subUint256(global, upper) ELSE upper
  IN subUint256(subUint256(global, below), above)

feeGrowthInside(tick, global, lower, upper) ==
  LET below == IF tick < Lower THEN subUint256(global, lower) ELSE lower
      above == IF tick >= Upper THEN subUint256(global, upper) ELSE upper
  IN subUint256(subUint256(global, below), above)

uncollectedFees(liquidity, inside, insideLast, tokensOwed) ==
  (liquidity * subUint256(inside, insideLast)) \div Q + tokensOwed

amount0ForLiquidity(a, b, liquidity) == ((liquidity * Q96 * (b - a)) \div b) \div a
amount1ForLiquidity(a, b, liquidity) == (liquidity * (b - a)) \div Q96

\* A broken variant of amountsForLiquidity: in range the whole range counts as
\* token0.
amountsOfWholeRange(sqrtPrice, sqrtLower, sqrtUpper, liquidity) ==
  IF sqrtPrice <= sqrtLower
    THEN <<amount0ForLiquidity(sqrtLower, sqrtUpper, liquidity), 0>>
  ELSE IF sqrtPrice < sqrtUpper
    THEN <<amount0ForLiquidity(sqrtLower, sqrtUpper, liquidity),
           amount1ForLiquidity(sqrtLower, sqrtPrice, liquidity)>>
  ELSE <<0, amount1ForLiquidity(sqrtLower, sqrtUpper, liquidity)>>

\* The cases are told apart by the price, not by slot0's tick.
amountsForLiquidity(sqrtPrice, sqrtLower, sqrtUpper, liquidity) ==
  IF sqrtPrice <= sqrtLower
    THEN <<amount0ForLiquidity(sqrtLower, sqrtUpper, liquidity), 0>>
  ELSE IF sqrtPrice < sqrtUpper
    THEN <<amount0ForLiquidity(sqrtPrice, sqrtUpper, liquidity),
           amount1ForLiquidity(sqrtLower, sqrtPrice, liquidity)>>
  ELSE <<0, amount1ForLiquidity(sqrtLower, sqrtUpper, liquidity)>>

\* rangeStatus is told by the tick.
rangeStatus(tick) ==
  IF tick < Lower THEN "below-range"
  ELSE IF tick >= Upper THEN "above-range"
  ELSE "in-range"

-----------------------------------------------------------------------------
(* The contracts. *)

\* The prices a pool may have at a tick.  The upper bound is reached by a swap
\* that stops there on its way down: slot0's tick is then already the one
\* below.
PricesAt(tick) == {x \in Prices : Ratio[tick] <= x /\ x <= Ratio[tick + 1]}

\* What the pool pays out for liquidity of the range: it goes by the tick.
Delta0(low, high, liquidity) == ((liquidity * Q96 * (high - low)) \div high) \div low
Delta1(low, high, liquidity) == (liquidity * (high - low)) \div Q96
Burnt(tick, x, liquidity) ==
  IF tick < Lower THEN <<Delta0(Ratio[Lower], Ratio[Upper], liquidity), 0>>
  ELSE IF tick < Upper THEN <<Delta0(x, Ratio[Upper], liquidity),
                              Delta1(Ratio[Lower], x, liquidity)>>
  ELSE <<0, Delta1(Ratio[Lower], Ratio[Upper], liquidity)>>

\* The EVM's subtraction, and what the pool takes the growth between the ticks
\* of the range to be at block b.
Sub(x, y) == IF x >= y THEN x - y ELSE x + Modulus - y
Inside(b) ==
  LET below == IF b.tick >= Lower THEN b.lower ELSE Sub(b.global, b.lower)
      above == IF b.tick < Upper THEN b.upper ELSE Sub(b.global, b.upper)
  IN Sub(Sub(b.global, below), above)

\* The ticks of the range are initialised: some position provides liquidity.
Open(b) == b.epoch % 2 = 1

NewBlock(b) ==
  /\ pc \notin Ended
  /\ elapsed' = IF pc = "position" THEN 0 ELSE elapsed + 1
  /\ elapsed' <= MaxElapsed
  /\ block' = b
  /\ parent' = block
  /\ UNCHANGED reader

\* Swaps pay fees to the liquidity at the current tick.  A range never earns
\* 2^256 of growth; here the limit also bounds the model.
Accrue ==
  LET inRange == Lower <= block.tick /\ block.tick < Upper
      global  == IF block.global + 1 = Modulus THEN 0 ELSE block.global + 1
      earned  == IF inRange THEN block.earned + 1 ELSE block.earned
  IN /\ earned < Modulus
     /\ NewBlock([block EXCEPT !.global = global, !.earned = earned])

\* The price moves.  An initialised tick that is crossed has its growth
\* outside flipped.
Crossed(boundary, tick) == Open(block) /\ (block.tick < boundary) # (tick < boundary)
Flip(outside) == Sub(block.global, outside)

Move(tick) ==
  LET crossLower == Crossed(Lower, tick)
      crossUpper == Crossed(Upper, tick)
      turns == IF crossLower \/ crossUpper THEN block.turns + 1 ELSE block.turns
  IN /\ tick # block.tick
     /\ turns <= MaxTurns
     /\ NewBlock([block EXCEPT
          !.tick  = tick,
          !.lower = IF crossLower THEN Flip(block.lower) ELSE block.lower,
          !.upper = IF crossUpper THEN Flip(block.upper) ELSE block.upper,
          !.turns = turns])

\* The first liquidity at a tick initialises it: all growth so far counts as
\* having happened below it.
Initialise ==
  /\ ~Open(block)
  /\ block.turns < MaxTurns
  /\ NewBlock([block EXCEPT
       !.lower = IF block.tick >= Lower THEN block.global ELSE 0,
       !.upper = IF block.tick >= Upper THEN block.global ELSE 0,
       !.epoch = block.epoch + 1,
       !.turns = block.turns + 1])

\* The last liquidity to leave clears it.
Clear ==
  /\ Open(block)
  /\ block.liquidity = 0
  /\ block.turns < MaxTurns
  /\ NewBlock([block EXCEPT
       !.lower = 0, !.upper = 0,
       !.epoch = block.epoch + 1,
       !.turns = block.turns + 1])

\* Every operation on the position settles its fees first.
Settled == [block EXCEPT
  !.owed = @ + (block.liquidity * Sub(Inside(block), block.last)) \div Q,
  !.last = Inside(block),
  !.mark = block.earned]

\* increaseLiquidity or decreaseLiquidity, which leaves the tokens withdrawn in
\* the position, owed like the fees, until they are collected.
SetLiquidity(liquidity) ==
  LET withdrawn == IF liquidity < block.liquidity THEN Settled.owed..MaxOwed ELSE {}
  IN /\ Open(block)
     /\ liquidity # block.liquidity
     /\ \E owed \in {Settled.owed} \cup withdrawn :
          NewBlock([Settled EXCEPT !.liquidity = liquidity, !.owed = owed])

Collect ==
  \/ block.liquidity > 0 /\ NewBlock([Settled EXCEPT !.owed = 0])
  \/ block.liquidity = 0 /\ block.owed > 0 /\ NewBlock([block EXCEPT !.owed = 0])

Chain ==
  \/ Accrue
  \/ \E tick \in Ticks : Move(tick)
  \/ \E liquidity \in 0..MaxLiquidity : SetLiquidity(liquidity)
  \/ Initialise
  \/ Clear
  \/ Collect

-----------------------------------------------------------------------------
(* The fetcher. *)

\* The block a call is answered at.
Answering == {block, parent}

Positions(b) ==
  /\ pc = "position"
  /\ position' = b
  /\ pc' = "pool"
  /\ UNCHANGED <<block, parent, elapsed, split, first, second, price, amounts, fee>>

\* The first batch that holds a call about the pool; with a split of 6, the
\* only one.
PoolBatch(b) ==
  /\ pc = "pool"
  /\ split' \in Splits
  /\ first' = b
  /\ second' = b
  /\ price' \in PricesAt(b.tick)
  /\ pc' = "rest"
  /\ UNCHANGED <<block, parent, elapsed, position, amounts, fee>>

\* slot0 and liquidity come first, then the two growths, then the two ticks.
GrowthBlock(one, two) == IF split = 2 THEN two ELSE one

\* buildLiquidityPosition leaves a position out that holds nothing.
Empty == position.liquidity = 0 /\ position.owed = 0

\* The rest of the calls is answered, amounts and fees are computed.
Fetched(b) ==
  LET rest == IF split = 6 THEN first ELSE b
      inside == feeGrowthInside(first.tick, GrowthBlock(first, rest).global,
                                rest.lower, rest.upper)
  IN /\ pc = "rest"
     /\ second' = rest
     /\ IF Empty
          THEN pc' = "leftOut" /\ UNCHANGED <<amounts, fee>>
          ELSE /\ pc' = "done"
               /\ amounts' = amountsForLiquidity(price, Ratio[Lower], Ratio[Upper],
                                                position.liquidity)
               /\ fee' = uncollectedFees(position.liquidity, inside,
                                         position.last, position.owed)
     /\ UNCHANGED <<block, parent, elapsed, position, split, first, price>>

Fetch == \E b \in Answering : Positions(b) \/ PoolBatch(b) \/ Fetched(b)

\* A pool that has traded before; somebody else has just initialised the
\* ticks of the range.
Init ==
  /\ \E tick \in Ticks, global \in FirstGrowths :
       block = [tick |-> tick, global |-> global,
                lower |-> IF tick >= Lower THEN global ELSE 0,
                upper |-> IF tick >= Upper THEN global ELSE 0,
                liquidity |-> 0, last |-> 0, owed |-> 0,
                earned |-> 0, mark |-> 0, epoch |-> 1, turns |-> 0]
  /\ parent = block
  /\ elapsed = 0
  /\ pc = "position"
  /\ position = block
  /\ split = 6
  /\ first = block
  /\ second = block
  /\ price = 0
  /\ amounts = <<0, 0>>
  /\ fee = 0

Next == Chain \/ Fetch

Spec == Init /\ [][Next]_vars

-----------------------------------------------------------------------------
(* Properties *)

\* What a fetch answered entirely at block b computes, and what the position
\* has really earned.
FeesAt(b) ==
  uncollectedFees(b.liquidity, feeGrowthInside(b.tick, b.global, b.lower, b.upper),
                  b.last, b.owed)
EarnedAt(b) == b.owed + (b.liquidity * (b.earned - b.mark)) \div Q

\* The fee formula is exact at every block, on either side of the range and on
\* its boundaries, however often the counters have wrapped and however the
\* price has moved since the position was settled.
FormulaExact == FeesAt(block) = EarnedAt(block)

\* The pool was read in one piece: no tick of the range changed between the
\* two batches.
Whole == first.turns = second.turns

\* The fees are exact for the block the growths come from, although position
\* and pool are read at different blocks, provided that the range stayed
\* initialised in between, that none of its ticks changed between the two
\* batches, and that the pool is not from before the last settlement.
FeesExact ==
  LET growth == GrowthBlock(first, second)
  IN (/\ pc = "done"
      /\ Whole
      /\ growth.epoch = position.epoch
      /\ growth.earned >= position.mark)
     => fee = position.owed
              + (position.liquidity * (growth.earned - position.mark)) \div Q

\* The tokens shown are those that withdrawing the position would pay at the
\* block of slot0, although the code tells the cases apart by the price and the
\* pool by the tick, which disagree where a swap has stopped on a boundary on
\* its way down; and the status shown with them does not contradict them.
AmountsArePayout ==
  pc = "done" =>
    /\ amounts = Burnt(first.tick, price, position.liquidity)
    /\ rangeStatus(first.tick) = "below-range" => amounts[2] = 0
    /\ rangeStatus(first.tick) = "above-range" => amounts[1] = 0
=============================================================================
