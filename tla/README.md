# Verification of dpr (defi-position-reader)

TLA+ models of `dpr`, their TLC runs and TLAPS proofs. `dpr` is a Go command line program that reads
what a wallet holds in DeFi protocols. It has two commands that matter:

* `sync-metadata` discovers a protocol's public data on chain (markets, pools, reserves ...) and stores
  it in a SQLite cache, one row per *namespace*;
* `positions` loads that data from the cache, refuses it when it is missing or too old, reads the
  wallet's balances on chain in batches and computes its positions.

A third, `explain`, shows what `positions` would do and the state of the cache.

## 1. Inventory

| component | state | operations | correct when |
|---|---|---|---|
| cache `src/pkg/cache` | SQLite rows keyed by (chain, protocol, namespace), each with value and `UpdatedAt` | `Set` (upsert), `Get` | readers get usable rows, and know when they do not |
| service, registry `src/pkg/service`, `src/pkg/adapter` | registered protocols | `FetchPositions`, `SyncMetadata`, `Resolve` | one protocol's failure neither hides nor fakes another's result |
| RPC client `src/pkg/evm/client.go` | list of RPC URLs | `CallContract`, `BlockNumber`, `FilterLogs`, `AssetTransfers`, each tried over the URLs in order | a failed call is never taken for an empty answer |
| Multicall `src/pkg/evm/multicall.go` | none | `Aggregate3`: a batch of sub-calls as one `eth_call` | results keep the order of the calls |
| uniswap-v3 syncer | none of its own | full or limited log scan, or the wallet's pools | every pool the positions need is in the cache |
| uniswap-v3 fetcher, math | none of its own | walk of the wallet's NFTs, pool state, amounts and fees | every position once, with exact fees |
| uniswap-v2 syncer | none of its own | factory list, seeds, or the wallet's transfers; farming pools | the same |
| uniswap-v2 fetcher | none of its own | LP balances, pair state, farming pools | share of the reserves, diluted by the unminted fee |
| aave-v3, compound-v3 | none of their own | reserves, vaults, collateral, rewards | joins between namespaces, valuation |
| demo | none | offline fixtures | - |
| CLI `src/cmd/dpr` | none | the commands, tables, traces | it reports what happened |

**How they interact.** The CLI builds a registry and a store and calls the service; the service calls a
protocol's `Syncer` or `Fetcher`; those call the RPC client directly or through Multicall, and the
store. Processes share only the SQLite file. There are no threads inside a process: concurrency is
between processes (cron `sync-metadata`, interactive `positions`), and between a process and the chain,
which advances between any two of its calls.

**What is hard.** (1) The namespaces of one protocol are written and read by separate statements outside
a transaction. (2) Every RPC call and every batch of calls is answered at a block of its own, by a
provider that may be behind the previous one. (3) A cache scoped to one wallet is read for another.
(4) Integers wrap: fee growth by design, block numbers if a user sets an extreme chunk size.
`PROJECT.json` lists every hazard at its line.

## 2. Modules

Paths below are relative to `src/`. Every module says in its header what it takes from the code and what
it leaves out; `PROJECT.json` "map" gives the lines of each definition.

| module | models | external part | composed with |
|---|---|---|---|
| `MetadataCache` | `pkg/cache/sqlite_store.go`, the Set and Get loops of the four real protocols, ages, `explain` | - | - |
| `Commands` | `sync-metadata` and `positions` over several protocols: `cmd/dpr/main.go`, `inspectMetadata` of `output.go`, `pkg/service`, `pkg/adapter/registry.go`, `protocols/demo` | reads on chain | every protocol that checks its metadata implements `MetadataCache` |
| `LogScan` | the chunked log scan of both uniswap syncers over `pkg/evm/client.go` | RPC providers | implements `AtomicDiscovery` |
| `AtomicDiscovery` | what the rest of the program takes a log scan to be (abstract) | - | - |
| `NftScan` | the wallet walk of `protocols/uniswapv3`, in the scoped sync and in `positions` | ERC-721 enumeration, pool factory | - |
| `V3Fees` | `feeGrowthInside`, `uncollectedFees`, `amountsForLiquidity`, `rangeStatus` and the reads they get | pool, position manager | - |
| `V2Scope` | the four discovery modes of `protocols/uniswapv2/syncer.go`, and what its `Fetch` then reads | pairs, factory, farming pools, indexer | - |
| `V2Pool` | the amounts of one pair in `protocols/uniswapv2/fetcher.go` | `UniswapV2Pair` | - |
| `CometRisk` | one market of `protocols/compoundv3` | Comet, CometRewards | - |
| `AaveYield` | one market and its vaults in `protocols/aavev3` | Pool, vault factories, vaults | - |

`MC<Module>` instantiates a module for TLC; `<Module>Proofs` holds its theorems; `LendingProofs`
holds those of CometRisk and AaveYield. Definitions commented
"a broken variant of ..." are plausible bugs; no specification uses them. They show that every property
can fail.

**MetadataCache.** A run of a command is a process. `spc`, `fpc` are where it is; `rows` is the table,
a row named by the run that wrote it, so `stamp[rows[n]]` is its `UpdatedAt` and `seen[rows[n]]` the age
of its data. Discover, Stamp, Set (one per namespace) are `Sync`; StartFetch, Get, Decide are
`loadMetadata`; SyncFails is any error or a killed process at any statement. Decide keeps the order of
the code's checks: missing, read error, expired. One module stands for four protocols because their
loops have the same control and differ in the number of namespaces, N.

**Commands.** A process runs one command from its flags to its output: Begin (Resolve of what `-protocol`
names), Discover, Stamp, Set and SyncFails for one protocol after the other in registry order, Inspect
(one Get per namespace, for the snapshot that is printed), StartFetch, Get, Decide and AppendPositions or
ChainFails, again protocol by protocol. `sync-metadata` inspects after its sync, `positions` before its
fetch. An error ends the command and drops all it has gathered. `Unchecked` protocols (demo) ask no age
and no address and replace what is missing. `Cache(p)` instantiates `MetadataCache` with the variables of
one protocol; CachePerProtocol says that `Cache(p)` starts in its initial states and takes its steps, or
none, whatever the commands do. The safety properties of `MetadataCache`, proved for any number of
processes, therefore hold of each protocol here. A command that dies is a SyncFails, as in
`MetadataCache`: a killed process and one that reports an error leave the same rows.

**LogScan.** One action per RPC call: HeadAnswered, LogsAnswered, and ProviderFails for the next URL.
Each provider has its own head and advances when it likes; block numbers wrap at `MaxUint` like `uint64`.
`maxItems` is the limited mode, which only uniswap-v3 has, so a scan with a limit makes one query per
chunk. A provider may also answer with null, which `json.Unmarshal` decodes as an empty list and the code
does not tell from one. `lost` remembers what a provider withheld from a range, because it answered without
having seen it or with null.

**NftScan.** BalanceOf, TokensOfOwner, Details, GetPool are the batches, each answered at some block
at most `MaxLag` behind; Finish replaces the pool list. Between any two of them tokens arrive, leave or
are burned, with the swap-with-last of ERC-721 enumeration. SyncLogs and SyncOther are whole runs that do
not walk this wallet; what they share is SyncElsewhere. SyncLogs is the full or limited discovery from
PoolCreated logs: from a first block (the market's or `DPR_UNISWAP_V3_LOG_FROM_BLOCK`; above the head there
is nothing and no error), over providers that lag, cut off at `DPR_UNISWAP_V3_MAX_POOLS` where it is set.
SyncOther is a run for another wallet or for none, or a scan with an answer of null: it may cache any pools.
`cover` remembers where the cached pools come from, which UnknownPoolHasCause needs. The walk says which
positions are read; `buildLiquidityPosition` then drops those with no liquidity and nothing owed.

**V3Fees.** Positions, PoolBatch, Fetched are three eth_calls at blocks of their own. The six calls of a
position do not divide 500, so `split` places a batch boundary wherever the code can put one. The chain
accrues, crosses, initialises and clears ticks, and settles the position, where a decrease of its
liquidity also credits the principal to what is owed. The price read with slot0 is any
that its tick allows, the upper boundary included, where a swap on its way down may stop; the amounts
computed from it are compared with what the pool's own `burn` would pay, which goes by the tick. `Ratio`,
the result of `sqrtRatioAtTick`, is any strictly increasing table.

**V2Scope.** `chain` is the list of events that concern the wallet. AssetTransfers reads one page;
AssetTransfersFail drops what was read and falls back to TransferLogs (here one step; its chunks are
`LogScan`), from the market's first block or `DPR_UNISWAP_V2_USER_LOG_FROM_BLOCK`, and empty without an
error if that is above the head; PairTokens and GetPair verify; ActiveFarms, Build, SetPairs, SetFarms write.
A page or a scan answered with null counts as read at block 0, when the wallet had no transfers. Build adds
the pairs of the farming pools kept and any of the contracts named by `DPR_UNISWAP_V2_SEED_PAIRS`: neither
is verified, so a look-alike named there is cached. PairBalances and FarmStakes are the two reads of `Fetch`.
In the sync and in `Fetch` a call of `earned` may fail and counts as zero (Active). `gaps` remembers what a
command did not read or check, `lo` the oldest block it was answered at; `hi` and `ordered` follow the two
reads of `Fetch` only. A pair's staked tokens are a sum over the finite set of its
farming pools.

**V2Pool.** The six calls of a pair and the batches they fall into (`BatchOf`), each answered at a block
of its own. `pendingProtocolLiquidity` and the amounts are the code's; Owed, Minted and Payout are
the pair's own `_mintFee` and `burn`, written separately and compared. The pair has had its first deposit
(`Live`): of every first deposit the pair locks some liquidity for ever, so a wallet never holds all of
it, and a pair without liquidity has no share to show.

**CometRisk.** MarketBasics, CollateralSeeds, RewardSeeds, Save are the sync, MarketState the one batch of
`positions`; capacities and health are the code's formulas over the cached factors (sums over the finite
set of cached collateral), and are compared
with `isBorrowCollateralized` and `isLiquidatable` as Comet computes them, early exit of its price loop
and unaccrued interest included. Governance may replace the price feed of an asset or of the base token: the
code asks the feeds that were cached (`cached.feed`, `info.feed`), Comet's verdicts its own, and a price
belongs to a feed. The calls of `rewardConfig` and `getRewardOwed` may fail without failing their batch; the
market then counts as one without rewards, or shows none. A batch of the sync is answered with the
newest configuration or the one before, so that a later batch may know less than an earlier one.
`positions` sends one batch per market: answered a block late it sees what it would have seen a block
earlier.

**AaveYield.** ReserveSeeds, VaultSeeds, VaultBasics, SaveRows are the sync; MarketPosition, VaultBalances,
VaultValues the three batches of `positions`, each answered at the newest block or the one before; BatchFails
is any error. Account totals are sums over the finite set of reserves.
The third returns one flat list, in which every result remembers the call it answers, and WalkVault
walks it with one index like the code.

## 3. Runs

| run | asks | bounds, and why they are enough |
|---|---|---|
| `cache` | what rows may look like after interleaved and dying syncs, and what a reader makes of them | 2 syncs, 1 reader, 3 namespaces, clock 0..3, age limit 1 or none. Every hazard is a relation of two syncs, or of two syncs and one reader; 3 namespaces give a first, a middle and a last; the theorems cover all sizes |
| `cache_explain` | does `explain` show why `positions` refuses? (violated) | 1 sync, 1 reader |
| `commands` | what do commands over several protocols refresh and print, do they end, and does each protocol's cache implement `MetadataCache`? | 2 syncs (one of all protocols, one of the checked one), 1 positions with every kind of address and an unknown id, 2 protocols of which one is demo, one namespace each, the instants 0 and 2, age limit 1 (at the instant 2 a row of the instant 0 is too old, one of the instant 2 is not; the default age and ages on the boundary are in `cache`), 1 failing call, 2 commands at a time. Several namespaces of one protocol are the subject of `cache`; here the hazards lie between protocols, between snapshot and use, and between two processes |
| `scan_pools` | is a log lost, or the limit missed? | block numbers 0..5, every start, chunk size and head, 2 providers that may answer null, up to 3 logs, no limit or 2. All wrapping sums and all positions of a log against a chunk boundary occur |
| `scan_transfers` | does the scan end, and is it an atomic read? | block numbers 0..4, 2 queries, 1 provider that never answers null: with two, or with null, the refinement is false, which is what `lost` is about |
| `nft_walk` | is a wallet that changes during the walk reported exactly, and does an unknown pool have a cause? | 3 tokens in 2 pools, batches of 2 (so one or two batches), lag 1, 3 blocks, 2 commands, log scans with the limit 1 or none and from block 1 or 2: enough for a sync of either kind that leaves a pool out, a move, and a walk with a move inside |
| `nft_silent` | is something left out silently? (violated) | the same tokens and pools, one batch, 2 blocks, no lag |
| `v2_scope` | what reaches the cache in each mode, what `positions` reports, and what is counted twice | 2 pairs, 1 token that imitates a pair and may be named by the environment, 1 farming pool, pages of 1, at most 2 pages, the indexer first and then logs (the other two sources are prefixes of that), from block 0 or 4, lag 1, 4 events, 2 commands: create, receive, stake, withdraw fit, as does a page too few or a first block above the head; the farming pool's pair may be the only pair the sync has to keep |
| `v2_pool` | is the share shown what a burn would pay? | small reserves with and without an owed fee; the pair is the 299th, the one whose calls are divided over three batches; batches answered at one block cover the undivided case |
| `comet_risk` | do numbers and verdicts agree? | 2 assets, 2 feeds (the base token may change from one to the other), prices 0 (unreadable), 2 and 5, two pairs of factors, reward calls that fail, 5 events, lag 1, 2 commands: a sync, a loan, a change of feeds and a price that fails fit; events end with the last command, which sees none after it |
| `aave_yield` | does every amount come from its call, and what is counted twice? | 2 reserves, a vault of either factory, 0 to 1 reward tokens each, balances up to 1, 3 events, 2 commands: a vault with and one without rewards, in both orders |
| `fees` | are fees exact although read at different blocks, and amounts at every price? | liquidity 0 or 1, principal up to 1, prices on, between and below the ratios of the range's boundaries, counters modulo 3 that start at 2, one before they wrap, 3 ticks (below, in, above the range), 2 crossings or openings, 2 blocks during the fetch, a batch boundary after 2 or 4 calls or none (6) |

Deadlock checking is off throughout: commands end and events are bounded.
TypeOK is more than types where it can be: it bounds indexes and counters the code relies on (`Batch`
never beyond the balance, a page never beyond the cap, a fee never negative).

## 4. Fairness

`scan_transfers` needs WF on `Step`, the scan's own next step, and `commands` WF on SyncStep and FetchStep,
the next statement of a command that has been started. `pkg/evm/client.go:19` gives every HTTP request a
timeout of 20 s (used at line 73), so every call ends, with an answer or an error; SQLite returns an error
when the file is locked (no busy timeout is set); and no loop waits for another process. So a process
that runs goes on. (One that is killed has ended too.) Nothing is assumed of the providers: they may fail
for ever or never advance. Nothing obliges a user to start a command. All other specifications are safety
only.

## 5. Proofs

TLAPS proves the following for every value of the constants allowed by the modules' ASSUMEs.

* `MetadataCacheProofs`, under `CacheAssumption` (at least one namespace; any number of syncs, readers,
  ages): TypeOK, ParentsNotOlder, NoStampRegression, NoContentRegression, MixedOnlyIfRaced and
  SyncThenPositions. The properties are not inductive: they speak of finished runs, while a running one
  has set a prefix of the namespaces. The invariant therefore says, for every run, what a namespace
  it *has* set may hold now (Landed, LandedContent), that runs which write together know each other (Met),
  that two complete rows are related (StoreMix), that what a reader holds is related both to the rest of
  it and to what is stored now (ReaderInv), and what a reader that began after a sync can hold (AfterInv).
* `LogScanProofs`, under `ScanAssumption`: TypeOK, Accounted, LimitedIsPrefix, and that the scan implements
  `AtomicDiscovery` if there is one provider, no limit and no answer of null. The invariant says what has been asked for so
  far: all chunks before `fromBlock`, and in the current one the queries before the current. The
  lemma `ToRange` (a chunk is never empty and never passes the head, even when its end wraps) is what makes
  it inductive. LimitedIsPrefix rests on the same invariant: what a scan that stops early has found are the
  logs of the chunks it has asked for.
* `NftScanProofs`, under `NftAssumption` (any number of tokens, batch size, lag and blocks): TypeOK,
  WalkIsExact, UnknownPoolHasCause and OnlyEmptyListIsSilent. The invariant has three layers. ChainInv compares the wallet's
  enumeration at any two blocks: if nothing left in between, the earlier one begins the later one; and a
  token that stays never moves to a higher index, which is what swap-with-last guarantees. WindowInv says
  that the balance and each id were read at some block between `lo` and `hi`. CacheInv says which blocks the
  cached pools, and those about to be cached, stand for: after a log scan, all the pools created from its
  first block to the block the most lagging provider was at, or as many as its limit.
  OnlyEmptyListIsSilent delimits a finding of section 6: with a pool cached, the property that
  `nft_silent` violates holds, because a run that succeeds has walked the wallet (DoneHasWalked).
* `V2ScopeProofs`, under `ScopeAssumption` (any pairs, look-alikes, finite set of farming pools, pages and
  lag): TypeOK, OnlyFactoryPairs, ScopeComplete, NothingMissed and CountedOnce. ChainInv: no balance is
  negative and nothing moves a pair's tokens before the factory created it. PagingInv: what has been read of
  the transfers is everything from `cursor` on, up to the oldest block answered at. SyncInv, ScopeInv: what
  the pairs found, and then the cached rows, cover. PositionsInv: the two blocks at which `positions` has
  read. The exceptions the statements name are real: what the environment names is cached unverified
  (OnlyFactoryPairs); the page cap, a later first block and an answer of null cut a wallet's history off
  (ScopeComplete, NothingMissed); where `earned` failed, rewards without a stake are missed. CountedOnce needs that a sum over a finite set grows with its terms (SumMonotone and the lemmas
  before it).
* `V2PoolProofs`, under `PoolAssumption` (any pair, amounts, number of pairs and batch size): TypeOK,
  ShownIsPayout and NeverDiluted. The invariant is that a pair stays Live: a wallet never holds the whole
  supply and balances never fall below the reserves. So the divisions are never by zero, and what the code
  adds to the supply is what `_mintFee` would mint; NeverDiluted, an action property, is the arithmetic of
  burns and mints by others that round in the pool's favour.
* `LendingProofs` holds the two protocols whose positions are sums, which share their lemmas.
  - CometRisk, under `CometAssumption` (any assets, prices, factors and amounts): TypeOK, DebtIsPriced,
    NothingHidden and VerdictsAgree. ChainInv: a provider that lags knows a prefix of the asset list. SyncInv:
    the sync reads what every provider knew when it began. SeenInv: what `positions` has seen is one block
    at which Comet answered. DebtIsPriced allows a debt at the price zero only where Comet's base feed is
    no longer the cached one: otherwise Comet's own verdicts revert on the missing price and fail the batch.
    NothingHidden names the failed calls that hide rewards. VerdictsAgree holds while the cached rows are
    Comet's: with factors or feeds changed since the sync numbers and verdicts may disagree. It compares the code's sum over the cached assets with Comet's
    sum over a prefix of its list, where it stops once the debt is covered (SumSplit, SumSubset).
  - AaveYield, under `AaveAssumption` (any finite sets of reserves and vaults, any reward tokens, balances,
    moves and commands): AaveTypeOK, ResultsMatch, HoldingsAddUp and CountedOnce. HistoryInv: only what is
    listed has amounts, and the block before the newest differs from it as its move says. KnownInv: the sync
    reads what every provider knew when it began. MarketInv: the first batch saw one block, and shares grow
    or shrink from there to any block that may answer the second, in the direction of the moves in between.
    SharesInv: the second batch lists every cached vault with shares once. PositionsInv: what is shown of a
    vault matches its shares and its own results. The hard step is VaultValues: WalkMatches follows the
    running index over the flat list, vault by vault and reward by reward, and shows that it is always at
    the first result of the next vault. HoldingsAddUp turns the sum over the list of positions into one
    over the set of vaults (SumReindex); CountedOnce follows from the order of the two blocks (MarketInv)
    and from what an amount contributes to a sum (SumMonotone).
* `V3FeesProofs`, under `FeesAssumption` and `RatioAssumption`: TypeOK, FormulaExact, FeesExact and
  AmountsArePayout, for every modulus, range, increasing table of ratios and number of blocks. Growth inside minus what the range earned is constant modulo `Modulus` during an
  epoch; since blocks are not read in order, the invariant compares all blocks the state refers to
  pairwise. For the amounts the invariant adds that the price is one that slot0's tick allows (PriceRead);
  AmountsLemma then compares the code's cases, told apart by price, with the pool's, told apart by tick.
* `CommandsProofs`, under `CommandsAssumption` (any number of commands, protocols and namespaces): all of
  Commands' safety: TypeOK, CachePerProtocol, ReportIsWhole, RefreshedInOrder and SnapshotExplained.
  - CachePerProtocol: one lemma per action. Seen through `Cache(p)`,
    an action that works on p is an action of `MetadataCache`, and one that works on another protocol is a
    stutter. It needs only that the variables are functions of runs and protocols (Shape), that a Get
    returns a row, its absence or an error (GotTyped), and that the flags of a run are read once and before
    it fetches (Flags). So what is proved of one cache holds of every checked
    protocol's: MetadataCache's own assumption follows from `CommandsAssumption` (CacheAssumed).
  - ReportIsWhole: the invariant adds that a row is there only after its run has stamped it (Backed), that
    such a run never stamps again (StepStamped), and so that what sufficed when it was accepted suffices when
    it is printed.
  - TypeOK and the two below: a command goes through its protocols in order and through the namespaces of
    each (Ordered). For that, First must pick the least protocol left, which is proved from the
    well-foundedness of the subset ordering of finite sets (LeastNat).
  - RefreshedInOrder: RefreshInv says that stamps are not in the future (Timely), that a run which writes
    beside another either stamped later or is known to it (Met), so that what a sync has set holds its own
    row or one as good (Refreshed), and while it runs its own or one set meanwhile (OwnRows, OwnShown).
  - SnapshotExplained: ShownInv follows a snapshot from its reading on: what was read was in the table
    (ShownBacked), what is in the table now, or was got, is what was shown or was set meanwhile (StillShown,
    GotShown), and what was accepted is explained by the snapshot (AcceptedExplained).

**Sums, folds and least elements.** The library's induction theorems take an operator as a parameter, which
the installed provers cannot instantiate. Where a sum over a finite set (SumFunctionOnSet) is reasoned about,
a function on its subsets is shown to exist for the set in question by taking a smallest subset
without one, which the well-foundedness of the subset ordering provides as a set and not as an operator.
The walks of AaveYield (FoldLeft, FlattenSeq) are treated likewise: each is shown to satisfy its step
equation along the list in question, and what the walk preserves by taking the least index at which it would
not (LeastNat).

**Only model-checked.** Every safety property of the passing runs is proved. What is left to TLC:
* CommandsEnd and Ends: liveness under fairness is out of this prover's reach, as is ENABLED.
* The two violations of section 6, which are counterexamples.
* What a recursive definition computes for every input, in general: the two points above are proved of the
  sums and lists that occur in the model.

## 6. Findings

* `explain` inspects the cache with age 0 (`cmd/dpr/main.go:274`), so it reports as hit what `positions`
  refuses as expired. `docs/cli-design.md:91` recommends it for "metadata missing / stale". Run
  `cache_explain`.
* `uniswap-v3` returns no position and no error on an empty pool list (`fetcher.go:54`), which a scoped
  sync of any wallet without positions writes for all wallets. `docs/architecture.md:57` says the
  protocol fails rather than silently leave assets out. Run `nft_silent`.

## 7. Not modelled

* ABI and chain tables, type declarations, demo's fixture: no behaviour.
* Parsing of flags, tables, JSON output, traces, the `protocols` listing: formatting.
* `sqrtRatioAtTick`: one product of up to twenty 128-bit constants, beyond TLC's 32-bit integers, and scaled
  down it would no longer be this code. What the amounts need of it, that ratios increase with the tick,
  is an assumption.
* That one multicall returns as many results as it got calls: Multicall3 does, and the code checks
  the total. A batch is one answer in every module.
* Token metadata and its fallbacks, sort orders, several markets of one protocol (fetched one after the
  other): data the properties do not tell apart.
* In LogScan, several logs of one query in one block: a limit that falls inside a block cuts between logs the
  properties do not tell apart.
* A negative age, which switches the check of ages off, beyond the age limit "none" of `cache`; no property
  is about reading the flag wrongly.
* Markets of compound-v3 without a rewards contract: data, no reward call is made for them.
* Amounts torn by batches at different blocks (V2Pool) are not excluded: the code does not, and ShownIsPayout
  says when they are exact.
* Chain reorganisations: the code reads the latest block and does not handle them.

## 8. Plan

Done, in this order: MetadataCache, LogScan with its refinement, NftScan, V3Fees, V2Scope, V2Pool, CometRisk,
AaveYield, Commands with its refinement, the amounts of V3Fees, providers that lag in CometRisk; the proofs of
MetadataCache, LogScan, V3Fees, of Commands' refinement and whole reports; then those of NftScan, V2Scope,
V2Pool, CometRisk, LimitedIsPrefix, and the rest of Commands' safety.

Then AaveYield's safety, with its flat list of results, and that the violation of `nft_silent` needs an empty
pool list. Liveness stays with TLC.

Last, what the environment and single failing calls change: limits, first blocks and named contracts of the
discoveries, answers of null, `earned`, `rewardConfig` and `getRewardOwed` that fail, price feeds that are
replaced.
