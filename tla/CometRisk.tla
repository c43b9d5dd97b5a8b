----------------------------- MODULE CometRisk -----------------------------
(***************************************************************************)
(* The risk of a loan that compound-v3 shows: one Comet market.            *)
(*                                                                         *)
(* `sync-metadata` reads the price feed of the base token and the number   *)
(* of collateral assets, then their feeds and factors, then the reward     *)
(* configuration, in three batches, and caches them.  `positions` reads    *)
(* the wallet's balances, the prices of the cached feeds and Comet's own   *)
(* verdicts on the account in one batch, and computes borrow capacity and  *)
(* liquidation health with the cached factors.  Comet's verdicts use the   *)
(* feeds it has now.  A price that Comet refuses counts as zero, and a     *)
(* reward call that fails as no rewards.                                   *)
(*                                                                         *)
(* Comet is external: it keeps the debt of the last accrual, against which *)
(* its verdicts are computed, while borrowBalanceOf includes the interest  *)
(* that has not been accrued yet.  Its verdicts stop reading prices as     *)
(* soon as the collateral suffices.  MetadataCache is about several        *)
(* commands at a time; here they run one after the other.                  *)
(*                                                                         *)
(* A batch of the sync is answered at the newest block or, by a provider   *)
(* that lags, at the one before, so that a later batch may know less than  *)
(* an earlier one.  positions sends one batch: answered a block late it    *)
(* sees what it would have seen if sent a block earlier.                   *)
(***************************************************************************)
EXTENDS Integers, SequencesExt, FiniteSetsExt

CONSTANTS
  Assets,       \* tokens that may become collateral
  Lists,        \* Comet's collateral assets to start with, in their order
  Feeds,        \* price feeds
  FeedsOf,      \* those that governance may choose for a token
  Factors,      \* pairs of a borrow and a liquidation factor
  Prices,       \* what a feed may say; for price 0 getPrice reverts
  StartFactors, \* factors to start with
  StartFeeds,   \* feeds to start with
  StartPrices,  \* prices to start with
  Amounts,      \* what the wallet supplies, withdraws, borrows or repays
  base,         \* the base token
  Scale,        \* units of a token
  FactorScale,  \* units of a factor (10^18)
  MaxBlocks,    \* bound on the number of events on chain
  MaxRuns       \* bound on the number of commands

ASSUME CometAssumption ==
  /\ base \notin Assets
  /\ Lists \subseteq Seq(Assets)
  /\ Factors \subseteq [borrow : 0..FactorScale, liquidate : 0..FactorScale]
  /\ \A f \in Factors : f.borrow <= f.liquidate
  /\ Prices \subseteq Nat
  /\ StartFactors \subseteq [Assets -> Factors]
  /\ FeedsOf \in [Assets \cup {base} -> SUBSET Feeds]
  /\ StartFeeds \subseteq [Assets \cup {base} -> Feeds]
  /\ StartPrices \subseteq [Feeds -> Prices]
  /\ Amounts \subseteq Nat \ {0}
  /\ Scale \in Nat \ {0} /\ FactorScale \in Nat \ {0}
  /\ MaxBlocks \in Nat /\ MaxRuns \in Nat

VARIABLES
  listed,    \* Comet's collateral assets, in the order of their index
  factors,   \* their factors
  rewarded,  \* CometRewards is configured for this market
  feed,      \* the price feeds that Comet uses
  price,     \* what the price feeds say
  principal, \* of the wallet: base supplied, or negative the debt accrued
  interest,  \* debt that has not been accrued yet
  coll,      \* the wallet's collateral
  owed,      \* the wallet has rewards to claim
  past,      \* what was configured before the newest block
  blocks,    \* how many events there were
  runs,      \* how many commands have been run
  pc,        \* the batch the command sends next, at the end its verdict
  count,     \* numAssets, as the sync read it
  baseFeed,  \* and the feed of the base token
  infos,     \* what it read of the assets: a set of [asset, feed, borrow, liquidate]
  supported, \* and of the rewards
  cached,    \* the cached rows
  synced,    \* whether they exist
  seen,      \* the chain at the block positions was answered at
  answered,  \* getRewardOwed did not fail in that batch
  \* History variables: no action of the code reads them.
  before,    \* what every provider knew to be configured when the sync began, and
             \* whether its rewardConfig was answered
  basis      \* the same of the sync that wrote the rows

comet == <<listed, factors, rewarded, feed, price, principal, interest, coll, owed>>
command == <<runs, pc, count, baseFeed, infos, supported, cached, synced, seen, answered, before, basis>>
vars == <<comet, past, blocks, command>>

Ended == {"idle", "synced", "shown", "failed"}
Configs == [listed : SUBSET Assets, rewarded : BOOLEAN, answered : BOOLEAN]
Info == [asset : Assets, feed : Feeds, borrow : 0..FactorScale, liquidate : 0..FactorScale]
Rows == [infos : SUBSET Info, feed : Feeds, supported : BOOLEAN]

\* What governance has configured, and the first n assets of a configuration.
Config == [listed |-> listed, factors |-> factors, rewarded |-> rewarded, feed |-> feed]
InfosOf(c, n) ==
  {[asset |-> c.listed[i], feed |-> c.feed[c.listed[i]],
    borrow |-> c.factors[c.listed[i]].borrow,
    liquidate |-> c.factors[c.listed[i]].liquidate] : i \in 1..n}

Chain == [listed |-> listed,
          rows |-> [infos |-> InfosOf(Config, Len(listed)), feed |-> feed[base],
                    supported |-> rewarded],
          price |-> price, principal |-> principal, interest |-> interest,
          coll |-> coll, owed |-> owed]

NoChain == [listed |-> <<>>, rows |-> <<>>, price |-> <<>>, principal |-> 0,
            interest |-> 0, coll |-> <<>>, owed |-> FALSE]

TypeOK ==
  /\ listed \in Seq(Assets)
  /\ factors \in [Assets -> Factors]
  /\ rewarded \in BOOLEAN
  /\ feed \in [Assets \cup {base} -> Feeds]
  /\ price \in [Feeds -> Prices]
  /\ principal \in Int
  /\ interest \in Nat
  /\ coll \in [Assets -> Nat]
  /\ owed \in BOOLEAN
  /\ past.listed \in Seq(Assets) /\ past.factors \in [Assets -> Factors] /\ past.rewarded \in BOOLEAN
  /\ past.feed \in [Assets \cup {base} -> Feeds]
  /\ blocks \in 0..MaxBlocks
  /\ runs \in 0..MaxRuns
  /\ pc \in Ended \cup {"basics", "assets", "rewards", "save", "batch"}
  /\ count \in 0..Len(listed)
  /\ baseFeed \in Feeds
  /\ infos \in SUBSET Info
  /\ supported \in BOOLEAN
  /\ cached \in Rows
  /\ synced \in BOOLEAN
  /\ answered \in BOOLEAN
  /\ {before, basis} \subseteq Configs

-----------------------------------------------------------------------------
(* Values, as the code and Comet compute them. *)

value(amount, p) == (amount * p) \div Scale
factorValue(v, factor) == (v * factor) \div FactorScale

\* isBorrowCollateralized and isLiquidatable add up the collateral, in the
\* order of the assets, until it covers the debt; a price that is not needed is
\* not read.
Capacity(c, which, i) ==
  SumFunctionOnSet(
    [info \in c.rows.infos |->
       factorValue(value(c.coll[info.asset], c.price[info.feed]), info[which])],
    {info \in c.rows.infos : \E j \in 1..i : c.listed[j] = info.asset})

StoredDebt(c) == value(Max({0, -c.principal}), c.price[c.rows.feed])
Covers(c, which, i) == Capacity(c, which, i) >= StoredDebt(c)
Covered(c, which) == \E i \in 0..Len(c.listed) : Covers(c, which, i)

\* Comet reverts where it has to read a price that its feed does not have.
Reverts(c, which) ==
  /\ c.principal < 0
  /\ \/ c.price[c.rows.feed] = 0
     \/ \E i \in DOMAIN c.listed, info \in c.rows.infos :
          /\ info.asset = c.listed[i]
          /\ c.coll[info.asset] > 0
          /\ c.price[info.feed] = 0
          /\ \A j \in 0..(i - 1) : ~Covers(c, which, j)

isBorrowCollateralized(c) == c.principal >= 0 \/ Covered(c, "borrow")
isLiquidatable(c) == c.principal < 0 /\ ~Covered(c, "liquidate")

baseSupply(c) == Max({0, c.principal})
baseDebt(c) == Max({0, -c.principal}) + c.interest

-----------------------------------------------------------------------------
(* The chain. *)

\* Events are bounded by MaxBlocks, and by MaxRuns: what happens after the last
\* command, nothing sees.
Event ==
  /\ blocks < MaxBlocks
  /\ runs < MaxRuns \/ pc \notin Ended
  /\ blocks' = blocks + 1
  /\ past' = Config
  /\ UNCHANGED command

SetPrice ==
  /\ \E f \in Feeds, p \in Prices : p # price[f] /\ price' = [price EXCEPT ![f] = p]
  /\ Event
  /\ UNCHANGED <<listed, factors, rewarded, feed, principal, interest, coll, owed>>

\* Governance lists an asset, changes factors, replaces a price feed, or
\* configures rewards.
Configure ==
  /\ \/ \E a \in Assets : /\ a \notin ToSet(listed)
                          /\ listed' = Append(listed, a)
                          /\ UNCHANGED <<factors, rewarded, feed>>
     \/ \E a \in ToSet(listed), f \in Factors :
          /\ f # factors[a]
          /\ factors' = [factors EXCEPT ![a] = f]
          /\ UNCHANGED <<listed, rewarded, feed>>
     \/ \E t \in ToSet(listed) \cup {base} : \E f \in FeedsOf[t] :
          /\ f # feed[t]
          /\ feed' = [feed EXCEPT ![t] = f]
          /\ UNCHANGED <<listed, factors, rewarded>>
     \/ ~rewarded /\ rewarded' = TRUE /\ UNCHANGED <<listed, factors, feed>>
  /\ Event
  /\ UNCHANGED <<price, principal, interest, coll, owed>>

\* Time passes; interest is accrued by the next use of Comet, by anyone.
Interest ==
  /\ \/ principal < 0 /\ interest' = interest + 1 /\ UNCHANGED principal
     \/ interest > 0 /\ principal' = principal - interest /\ interest' = 0
  /\ Event
  /\ UNCHANGED <<listed, factors, rewarded, feed, price, coll, owed>>

\* The wallet uses Comet, which accrues first and refuses what leaves the
\* account under-collateralized.
Use(newPrincipal, newColl, checked) ==
  LET after == [Chain EXCEPT !.principal = newPrincipal, !.interest = 0, !.coll = newColl]
  IN /\ checked => ~Reverts(after, "borrow") /\ isBorrowCollateralized(after)
     /\ principal' = newPrincipal
     /\ interest' = 0
     /\ coll' = newColl
     /\ owed' \in {owed, rewarded}
     /\ Event
     /\ UNCHANGED <<listed, factors, rewarded, feed, price>>

Account ==
  \E n \in Amounts :
    \/ Use(principal - interest + n, coll, FALSE)
    \/ Use(principal - interest - n, coll, TRUE)
    \/ \E a \in ToSet(listed) :
         \/ Use(principal - interest, [coll EXCEPT ![a] = @ + n], FALSE)
         \/ coll[a] >= n /\ Use(principal - interest, [coll EXCEPT ![a] = @ - n], TRUE)

\* A liquidator absorbs the account.
Absorb ==
  /\ ~Reverts(Chain, "liquidate") /\ isLiquidatable(Chain)
  /\ Use(0, [a \in Assets |-> 0], FALSE)

-----------------------------------------------------------------------------
(* sync-metadata and positions *)

Init ==
  /\ listed \in Lists
  /\ factors \in StartFactors
  /\ rewarded = FALSE
  /\ feed \in StartFeeds
  /\ price \in StartPrices
  /\ principal = 0
  /\ interest = 0
  /\ coll = [a \in Assets |-> 0]
  /\ owed = FALSE
  /\ past = Config
  /\ blocks = 0
  /\ runs = 0
  /\ pc = "idle"
  /\ count = 0
  /\ baseFeed = feed[base]
  /\ infos = {}
  /\ supported = FALSE
  /\ cached = [infos |-> {}, feed |-> baseFeed, supported |-> FALSE]
  /\ synced = FALSE
  /\ seen = NoChain
  /\ answered = FALSE
  /\ before = [listed |-> {}, rewarded |-> FALSE, answered |-> FALSE]
  /\ basis = before

Begin ==
  /\ pc \in Ended
  /\ runs < MaxRuns
  /\ runs' = runs + 1
  /\ pc' \in {"basics", IF synced THEN "batch" ELSE "failed"}
  /\ count' = 0 /\ baseFeed' = cached.feed /\ infos' = {} /\ supported' = FALSE
  /\ seen' = NoChain /\ answered' = FALSE
  /\ UNCHANGED <<comet, past, blocks, cached, synced, before, basis>>

\* The configurations a batch may be answered from.
Answering == {Config, past}

\* A broken variant of MarketBasics: one asset too many.
MarketBasicsOneMore ==
  /\ pc = "basics"
  /\ \E c \in Answering : count' = Len(c.listed) + 1 /\ baseFeed' = c.feed[base]
  /\ before' = [listed |-> ToSet(past.listed), rewarded |-> past.rewarded, answered |-> FALSE]
  /\ pc' = "assets"
  /\ UNCHANGED <<comet, past, blocks, runs, infos, supported, cached, synced, seen, answered, basis>>

\* loadMarketBasics: numAssets and baseTokenPriceFeed among others.
MarketBasics ==
  /\ pc = "basics"
  /\ \E c \in Answering : count' = Len(c.listed) /\ baseFeed' = c.feed[base]
  /\ before' = [listed |-> ToSet(past.listed), rewarded |-> past.rewarded, answered |-> FALSE]
  /\ pc' = "assets"
  /\ UNCHANGED <<comet, past, blocks, runs, infos, supported, cached, synced, seen, answered, basis>>

\* A broken variant of CollateralSeeds: the last asset is left out.
CollateralSeedsButLast ==
  /\ pc = "assets"
  /\ \E c \in Answering : infos' = InfosOf(c, IF count > Len(c.listed) THEN 0 ELSE count - 1)
  /\ pc' = "rewards"
  /\ UNCHANGED <<comet, past, blocks, runs, count, baseFeed, supported, cached, synced, seen, answered,
                 before, basis>>

\* getAssetInfo(0) to getAssetInfo(numAssets - 1), in a batch of their own: it
\* fails where there is no such asset yet.
CollateralSeeds ==
  /\ pc = "assets"
  /\ \E c \in Answering :
       IF count <= Len(c.listed)
         THEN infos' = InfosOf(c, count) /\ pc' = "rewards"
         ELSE pc' = "failed" /\ UNCHANGED infos
  /\ UNCHANGED <<comet, past, blocks, runs, count, baseFeed, supported, cached, synced, seen, answered,
                 before, basis>>

\* rewardConfig: a market without rewards is kept as unsupported, and so is one
\* whose call fails.
RewardSeeds ==
  /\ pc = "rewards"
  /\ \E c \in Answering, success \in BOOLEAN :
       /\ supported' = (success /\ c.rewarded)
       /\ before' = [before EXCEPT !.answered = success]
  /\ pc' = "save"
  /\ UNCHANGED <<comet, past, blocks, runs, count, baseFeed, infos, cached, synced, seen,
                 answered, basis>>

Save ==
  /\ pc = "save"
  /\ cached' = [infos |-> infos, feed |-> baseFeed, supported |-> supported]
  /\ synced' = TRUE
  /\ pc' = "synced"
  /\ basis' = before
  /\ UNCHANGED <<comet, past, blocks, runs, count, baseFeed, infos, supported, seen, answered,
                 before>>

\* A broken variant of MarketState: the verdicts may fail, like a price.
MarketStateTolerant ==
  /\ pc = "batch"
  /\ pc' = "shown"
  /\ seen' = Chain
  /\ answered' \in BOOLEAN
  /\ UNCHANGED <<comet, past, blocks, runs, count, baseFeed, infos, supported, cached, synced,
                 before, basis>>

\* The batch of fetchMarketState.  A price or getRewardOwed may fail, the verdicts
\* may not.
MarketState ==
  /\ pc = "batch"
  /\ IF Reverts(Chain, "borrow") \/ Reverts(Chain, "liquidate")
       THEN pc' = "failed" /\ UNCHANGED <<seen, answered>>
       ELSE pc' = "shown" /\ seen' = Chain /\ answered' \in BOOLEAN
  /\ UNCHANGED <<comet, past, blocks, runs, count, baseFeed, infos, supported, cached, synced,
                 before, basis>>

\* A batch fails at every provider, and what the command has read is lost.
Fails ==
  /\ pc \notin Ended
  /\ pc' = "failed"
  /\ count' = 0 /\ baseFeed' = cached.feed /\ infos' = {} /\ supported' = FALSE
  /\ before' = basis
  /\ UNCHANGED <<comet, past, blocks, runs, cached, synced, seen, answered, basis>>

Next ==
  \/ SetPrice \/ Configure \/ Interest \/ Account \/ Absorb
  \/ Begin \/ MarketBasics \/ CollateralSeeds \/ RewardSeeds \/ Save
  \/ MarketState
  \/ Fails

Spec == Init /\ [][Next]_vars

-----------------------------------------------------------------------------
(* What positions shows, from the cached rows and what it has seen. *)

collaterals == {info \in cached.infos : seen.coll[info.asset] > 0}

\* A broken variant of capacity: the factors are taken the wrong way round.
capacitySwapped(which) ==
  SumFunctionOnSet(
    [info \in cached.infos |->
       factorValue(value(seen.coll[info.asset], seen.price[info.feed]),
                   IF which = "borrow" THEN info.liquidate ELSE info.borrow)],
    collaterals)

capacity(which) ==
  SumFunctionOnSet(
    [info \in cached.infos |->
       factorValue(value(seen.coll[info.asset], seen.price[info.feed]), info[which])],
    collaterals)

lending == pc = "shown" /\ (collaterals # {} \/ baseDebt(seen) > 0)
baseDebtValue == value(baseDebt(seen), seen.price[cached.feed])
availableBorrow == capacity("borrow") - baseDebtValue
ratioRaw(numerator, denominator) ==
  IF denominator = 0 THEN 0 ELSE (numerator * FactorScale) \div denominator
health == ratioRaw(capacity("liquidate"), baseDebtValue)

reward == pc = "shown" /\ cached.supported /\ answered /\ seen.owed

-----------------------------------------------------------------------------
(* Properties *)

\* Comet's assets, their factors and the feeds are those that were cached.
Current == cached.infos = seen.rows.infos /\ cached.feed = seen.rows.feed

\* With current rows, the numbers shown agree with the verdicts shown beside
\* them, prices that failed included: a loan with credit left is collateralized,
\* and one that can be liquidated has debt and a health below one.  The converse
\* holds when no interest waits to be accrued.
VerdictsAgree ==
  (lending /\ Current) =>
    LET healthy == baseDebtValue = 0 \/ health >= FactorScale
    IN /\ availableBorrow >= 0 => isBorrowCollateralized(seen)
       /\ isLiquidatable(seen) => ~healthy
       /\ seen.interest = 0 => /\ isBorrowCollateralized(seen) => availableBorrow >= 0
                               /\ ~healthy => isLiquidatable(seen)

\* Debt is shown at the value zero for want of a price only where governance has
\* replaced the base token's feed since the sync: a batch that finds no price in
\* the feed that Comet itself uses fails with its verdicts.
DebtIsPriced ==
  (lending /\ baseDebt(seen) > 0 /\ seen.price[cached.feed] = 0) => cached.feed # seen.rows.feed

\* All the wallet's collateral is shown that every provider knew Comet to list
\* when the sync that wrote the rows began.  Its rewards are missing only if they
\* were not configured everywhere at that time, or a reward call was not answered,
\* in that sync or in this batch.
NothingHidden ==
  pc = "shown" =>
    /\ \A a \in basis.listed : seen.coll[a] > 0 => \E info \in collaterals : info.asset = a
    /\ (seen.owed /\ ~reward) => ~basis.rewarded \/ ~basis.answered \/ ~answered
=============================================================================
