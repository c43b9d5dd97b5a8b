----------------------------- MODULE AaveYield -----------------------------
(***************************************************************************)
(* What a wallet has in one Aave market and in the vaults that wrap its    *)
(* aTokens, and what aave-v3 shows of it.                                  *)
(*                                                                         *)
(* `sync-metadata` lists the reserves, then the vaults of two factories,   *)
(* then the reward tokens of every vault, each in a batch of its own.      *)
(* `positions` reads the market's account totals and reserves in a first   *)
(* batch, the wallet's shares of every vault in a second, and, for the     *)
(* vaults with shares, three values and one claim per reward token in a    *)
(* third, whose flat list of results it walks with one index.              *)
(*                                                                         *)
(* Aave is external.  A vault pays one asset per share here: interest      *)
(* changes no amount between two batches, and every asset has price one.   *)
(* Reserves, vaults and reward tokens are only added.  Each batch is       *)
(* answered by a provider that may be a block behind.  One command runs    *)
(* at a time: MetadataCache is about several.  Names that CometRisk has too *)
(* are different here: LendingProofs extends both.                         *)
(***************************************************************************)
EXTENDS Integers, SequencesExt, FiniteSetsExt

CONSTANTS
  Reserves,     \* assets of the market
  Stata,        \* vaults that the factory makes
  Legacy,       \* vaults that the legacy factory makes
  assetOf,      \* assetOf[v]: the asset whose aToken vault v wraps
  Tokens,       \* reward tokens
  MaxBalance,   \* bound on balances
  MaxMoves,     \* bound on the number of events on chain
  MaxCommands   \* bound on the number of commands

Vaults == Stata \cup Legacy

ASSUME AaveAssumption ==
  /\ Stata \cap Legacy = {}
  /\ IsFiniteSet(Reserves) /\ IsFiniteSet(Vaults)
  /\ assetOf \in [Vaults -> Reserves]
  /\ {MaxBalance, MaxMoves, MaxCommands} \subseteq Nat

VARIABLES
  chain,       \* the newest block
  older,       \* the block before it
  moves,       \* what the wallet did in each block
  commands,    \* how many commands have been run
  stage,       \* the batch that the command sends next, at the end its verdict
  row,         \* what the sync has read so far
  stored,      \* the cached rows
  saved,       \* whether they exist
  market,      \* the market's position: amounts by reserve and account totals
  active,      \* vaults with shares, in the order of the rows, and the shares
  results,     \* the third batch: the calls and what they return
  positions,   \* the vaults' positions
  \* History variables: no action of the code reads them.
  known,       \* what every provider knew when the latest sync began
  knownStored, \* the same of the sync that wrote the rows
  readAt       \* the blocks of the first two batches of positions, and their numbers

rows == <<row, stored, saved, known, knownStored>>
reads == <<market, active, results, positions, readAt>>
aaveVars == <<chain, older, moves, commands, stage, rows, reads>>

Finished == {"idle", "synced", "shown", "failed"}
Moves == {"supply", "withdraw", "deposit", "redeem", "other"}
NoAmounts == [r \in Reserves |-> 0]
NoRow == [reserves |-> {}, vaults |-> {}, rewards |-> [v \in Vaults |-> <<>>]]
NoMarket == [supply |-> NoAmounts, debt |-> NoAmounts]
Sum(amounts, over) == SumFunctionOnSet(amounts, over)

Blocks == [listed : SUBSET Reserves, vaults : SUBSET Vaults, rewards : [Vaults -> Seq(Tokens)],
           supply : [Reserves -> Nat], debt : [Reserves -> Nat], shares : [Vaults -> Nat],
           claim : [Vaults -> [Tokens -> BOOLEAN]], liquid : BOOLEAN]
AaveRows == [reserves : SUBSET Reserves, vaults : SUBSET Vaults, rewards : [Vaults -> Seq(Tokens)]]
Item == [vault : Vaults, shares : Nat \ {0}]

AaveTypeOK ==
  /\ {chain, older} \subseteq Blocks
  /\ moves \in Seq(Moves) /\ Len(moves) <= MaxMoves
  /\ commands \in 0..MaxCommands
  /\ stage \in Finished \cup {"reserves", "vaults", "basics", "save", "market", "balances", "values"}
  /\ {row, stored, known, knownStored} \subseteq AaveRows
  /\ saved \in BOOLEAN
  /\ market \in [supply : [Reserves -> Nat], debt : [Reserves -> Nat]]
  /\ active \in Seq(Item)
  /\ readAt \in [market : Blocks, balances : Blocks, first : Nat, second : Nat]

-----------------------------------------------------------------------------
(* The chain. *)

Block(move, next) ==
  /\ Len(moves) < MaxMoves
  /\ moves' = Append(moves, move)
  /\ chain' = next
  /\ older' = chain
  /\ UNCHANGED <<commands, stage, rows, reads>>

\* Aave lists a reserve, deploys a vault or registers a reward token, runs out
\* of liquidity or regains it, and rewards accrue.
Governance ==
  \/ \E r \in Reserves \ chain.listed : Block("other", [chain EXCEPT !.listed = @ \cup {r}])
  \/ \E v \in Vaults \ chain.vaults :
       assetOf[v] \in chain.listed /\ Block("other", [chain EXCEPT !.vaults = @ \cup {v}])
  \/ \E v \in chain.vaults, t \in Tokens :
       /\ t \notin ToSet(chain.rewards[v])
       /\ Block("other", [chain EXCEPT !.rewards[v] = Append(@, t)])
  \/ \E v \in chain.vaults : \E t \in ToSet(chain.rewards[v]) :
       /\ chain.shares[v] > 0 /\ ~chain.claim[v][t]
       /\ Block("other", [chain EXCEPT !.claim[v][t] = TRUE])
  \/ Block("other", [chain EXCEPT !.liquid = ~@])

\* The wallet supplies, withdraws, borrows and repays, and moves aTokens into
\* and out of vaults.
Wallet ==
  LET backed == Sum(chain.debt, Reserves) < Sum(chain.supply, Reserves)
      free   == backed /\ chain.liquid
  IN \/ \E r \in chain.listed :
          \/ chain.supply[r] < MaxBalance /\ Block("supply", [chain EXCEPT !.supply[r] = @ + 1])
          \/ chain.supply[r] > 0 /\ free /\ Block("withdraw", [chain EXCEPT !.supply[r] = @ - 1])
          \/ free /\ Block("other", [chain EXCEPT !.debt[r] = @ + 1])
          \/ chain.debt[r] > 0 /\ Block("other", [chain EXCEPT !.debt[r] = @ - 1])
     \/ \E v \in chain.vaults :
          LET a == assetOf[v]
          IN \/ /\ chain.supply[a] > 0 /\ backed
                /\ Block("deposit", [chain EXCEPT !.supply[a] = @ - 1, !.shares[v] = @ + 1])
             \/ /\ chain.shares[v] > 0
                /\ Block("redeem", [chain EXCEPT !.supply[a] = @ + 1, !.shares[v] = @ - 1])

\* The number of the block at.
Number(at) == IF at = chain THEN Len(moves) ELSE Len(moves) - 1

AaveInit ==
  /\ chain \in [listed : {{r} : r \in Reserves}, vaults : SUBSET Vaults,
               rewards : [Vaults -> {<<>>} \cup {<<t>> : t \in Tokens}],
               supply : [Reserves -> 0..MaxBalance], debt : {NoAmounts},
               shares : [Vaults -> {0, 1}], claim : {[v \in Vaults |-> [t \in Tokens |-> FALSE]]},
               liquid : {TRUE}]
  /\ \A r \in Reserves : chain.supply[r] > 0 => r \in chain.listed
  /\ \A v \in chain.vaults : assetOf[v] \in chain.listed
  /\ \A v \in Vaults \ chain.vaults : chain.shares[v] = 0 /\ chain.rewards[v] = <<>>
  /\ older = chain
  /\ moves = <<>>
  /\ commands = 0
  /\ stage = "idle"
  /\ row = NoRow
  /\ stored = NoRow
  /\ saved = FALSE
  /\ market = NoMarket
  /\ active = <<>>
  /\ results = <<>>
  /\ positions = <<>>
  /\ known = NoRow
  /\ knownStored = NoRow
  /\ readAt = [market |-> chain, balances |-> chain, first |-> 0, second |-> 0]

-----------------------------------------------------------------------------
(* sync-metadata *)

syncing == <<chain, older, moves, commands, stored, saved, reads, knownStored>>

\* Fetch of positions fails without rows and skips what it has no rows of.
BeginAave ==
  /\ stage \in Finished
  /\ commands < MaxCommands
  /\ commands' = commands + 1
  /\ stage' \in {"reserves", IF ~saved THEN "failed"
                          ELSE IF stored.reserves # {} THEN "market"
                          ELSE IF stored.vaults # {} THEN "balances" ELSE "shown"}
  /\ row' = NoRow
  /\ market' = NoMarket
  /\ active' = <<>>
  /\ results' = <<>>
  /\ positions' = <<>>
  /\ UNCHANGED <<chain, older, moves, stored, saved, known, knownStored, readAt>>

\* getAllReservesTokens; the addresses, configuration and symbols that are read
\* of each reserve in two more batches do not change.
ReserveSeeds ==
  /\ stage = "reserves"
  /\ \E at \in {older, chain} : row' = [row EXCEPT !.reserves = at.listed]
  /\ known' = [reserves |-> older.listed, vaults |-> older.vaults, rewards |-> older.rewards]
  /\ stage' = "vaults"
  /\ UNCHANGED syncing

\* A broken variant of VaultSeeds: the legacy factory is not asked.
VaultSeedsOneFactory ==
  /\ stage = "vaults"
  /\ \E at \in {older, chain} : row' = [row EXCEPT !.vaults = at.vaults \cap Stata]
  /\ stage' = "basics"
  /\ UNCHANGED <<syncing, known>>

\* getStataTokens and getStaticATokens.
VaultSeeds ==
  /\ stage = "vaults"
  /\ \E at \in {older, chain} : row' = [row EXCEPT !.vaults = at.vaults]
  /\ stage' = "basics"
  /\ UNCHANGED <<syncing, known>>

\* asset, aToken and rewardTokens of each vault, and the tokens' metadata.  A
\* provider that does not know the vault yet has no answer that decodes.
VaultBasics ==
  /\ stage = "basics"
  /\ \E at \in {older, chain} :
       /\ row.vaults \subseteq at.vaults
       /\ row' = [row EXCEPT !.rewards =
                   [v \in Vaults |-> IF v \in row.vaults THEN at.rewards[v] ELSE <<>>]]
  /\ stage' = "save"
  /\ UNCHANGED <<syncing, known>>

SaveRows ==
  /\ stage = "save"
  /\ stored' = row
  /\ saved' = TRUE
  /\ knownStored' = known
  /\ stage' = "synced"
  /\ UNCHANGED <<chain, older, moves, commands, row, reads, known>>

\* A batch fails at every provider.
BatchFails ==
  /\ stage \notin Finished
  /\ stage' = "failed"
  /\ UNCHANGED <<syncing, row, known>>

-----------------------------------------------------------------------------
(* positions *)

fetching == <<chain, older, moves, commands, rows>>

\* A broken variant of AmountsOf: debt is set off against the supply.
AmountsOfNet(at) ==
  [supply |-> [r \in Reserves |->
                IF r \in stored.reserves THEN at.supply[r] - at.debt[r] ELSE 0],
   debt |-> NoAmounts]

\* What getUserReserveData answers for the cached reserves.
AmountsOf(at) ==
  [supply |-> [r \in Reserves |-> IF r \in stored.reserves THEN at.supply[r] ELSE 0],
   debt |-> [r \in Reserves |-> IF r \in stored.reserves THEN at.debt[r] ELSE 0]]

\* getUserAccountData and getUserReserveData of every cached reserve, which fails
\* for a reserve that the provider does not know.
MarketPosition ==
  /\ stage = "market"
  /\ \E at \in {older, chain} :
       /\ stored.reserves \subseteq at.listed
       /\ market' = AmountsOf(at)
       /\ readAt' = [readAt EXCEPT !.market = at, !.first = Number(at)]
  /\ stage' = IF stored.vaults = {} THEN "shown" ELSE "balances"
  /\ UNCHANGED <<fetching, active, results, positions>>

\* balanceOf of every cached vault; the rows are sorted by symbol, in an order of
\* their own.
VaultBalances ==
  /\ stage = "balances"
  /\ \E at \in {older, chain} :
       /\ stored.vaults \subseteq at.vaults
       /\ \E order \in SetToSeqs({v \in stored.vaults : at.shares[v] > 0}) :
            active' = [i \in DOMAIN order |->
                        [vault |-> order[i], shares |-> at.shares[order[i]]]]
       /\ readAt' = [readAt EXCEPT !.balances = at, !.second = Number(at)]
  /\ stage' = IF active' = <<>> THEN "shown" ELSE "values"
  /\ UNCHANGED <<fetching, market, results, positions>>

\* The calls for one vault and what they return at a block.
Values(item, at) ==
  LET v == item.vault
      result(call, token, amount) ==
        [vault |-> v, call |-> call, token |-> token, value |-> amount]
      can == IF at.liquid THEN at.shares[v] ELSE 0
      claimable(t) == IF at.claim[v][t] THEN 1 ELSE 0
  IN <<result("previewRedeem", "", item.shares), result("maxWithdraw", "", can),
       result("maxRedeem", "", can)>>
     \o [i \in DOMAIN stored.rewards[v] |->
           result("reward", stored.rewards[v][i], claimable(stored.rewards[v][i]))]

\* A broken variant of WalkReward: a reward of zero does not advance the index.
WalkRewardSkipsZero(list, acc, token) ==
  LET result == list[acc.next]
  IN IF result.value = 0 THEN acc
     ELSE [next |-> acc.next + 1,
           shown |-> Append(acc.shown, [token |-> token, result |-> result])]

\* Rewards of zero are not shown.
WalkReward(list, acc, token) ==
  LET result == list[acc.next]
  IN [next |-> acc.next + 1,
      shown |-> IF result.value = 0 THEN acc.shown
                ELSE Append(acc.shown, [token |-> token, result |-> result])]

\* A broken variant of WalkVault: what can be withdrawn is shown as underlying.
WalkVaultWithdrawable(list, acc, item) ==
  LET claims == FoldLeft(LAMBDA a, t : WalkReward(list, a, t),
                         [next |-> acc.next + 3, shown |-> <<>>], stored.rewards[item.vault])
  IN [next |-> claims.next,
      shown |-> Append(acc.shown, [vault |-> item.vault, shares |-> item.shares,
                                   underlying |-> list[acc.next + 1],
                                   rewards |-> claims.shown])]

\* The walk takes three results of a vault and one per reward token.
WalkVault(list, acc, item) ==
  LET claims == FoldLeft(LAMBDA a, t : WalkReward(list, a, t),
                         [next |-> acc.next + 3, shown |-> <<>>], stored.rewards[item.vault])
  IN [next |-> claims.next,
      shown |-> Append(acc.shown, [vault |-> item.vault, shares |-> item.shares,
                                   underlying |-> list[acc.next], rewards |-> claims.shown])]

VaultValues ==
  /\ stage = "values"
  /\ \E at \in {older, chain} :
       /\ stored.vaults \subseteq at.vaults
       /\ results' = FlattenSeq([i \in DOMAIN active |-> Values(active[i], at)])
  /\ positions' = FoldLeft(LAMBDA a, item : WalkVault(results', a, item),
                           [next |-> 1, shown |-> <<>>], active).shown
  /\ stage' = "shown"
  /\ UNCHANGED <<fetching, market, active, readAt>>

AaveNext ==
  \/ Governance \/ Wallet
  \/ BeginAave \/ ReserveSeeds \/ VaultSeeds \/ VaultBasics \/ SaveRows
  \/ MarketPosition \/ VaultBalances \/ VaultValues
  \/ BatchFails

AaveSpec == AaveInit /\ [][AaveNext]_aaveVars

-----------------------------------------------------------------------------
(* Properties *)

\* Every amount is taken from the result of the call that was made for it, and
\* no reward is left out, whatever vaults have shares, in whatever order, with
\* however many reward tokens and claims of zero.
ResultsMatch ==
  stage = "shown" =>
    \A i \in DOMAIN positions :
      LET p == positions[i]
          claims == {p.rewards[j].result : j \in DOMAIN p.rewards}
      IN /\ p.underlying.vault = p.vault /\ p.underlying.call = "previewRedeem"
         /\ \A j \in DOMAIN p.rewards : p.rewards[j].token = p.rewards[j].result.token
         /\ claims = {c \in ToSet(results) :
                          c.vault = p.vault /\ c.call = "reward" /\ c.value > 0}

\* What is shown adds up to what the wallet had in the block of the first batch
\* and in that of the second, if every provider knew its reserves and vaults
\* when the sync that wrote the rows began.
HoldingsAddUp ==
  stage = "shown" =>
    /\ (stored.reserves # {} /\ readAt.market.listed \subseteq knownStored.reserves) =>
         /\ Sum(market.supply, Reserves) = Sum(readAt.market.supply, Reserves)
         /\ Sum(market.debt, Reserves) = Sum(readAt.market.debt, Reserves)
    /\ (stored.vaults # {} /\ readAt.balances.vaults \subseteq knownStored.vaults) =>
         Sum([i \in DOMAIN positions |-> positions[i].shares], DOMAIN positions)
           = Sum(readAt.balances.shares, Vaults)

\* aTokens that move into a vault between the two batches are counted twice but
\* never lost, and ones that move out are lost but never counted twice; the other
\* way round if the second batch is answered with the older block.
CountedOnce ==
  LET first    == readAt.first
      second   == readAt.second
      between  == {moves[i] : i \in (Min({first, second}) + 1)..Max({first, second})}
      owned    == Sum(readAt.market.supply, Reserves) + Sum(readAt.market.shares, Vaults)
      reported == Sum(market.supply, Reserves)
                  + Sum([i \in DOMAIN positions |-> positions[i].underlying.value],
                        DOMAIN positions)
      gained   == IF first <= second THEN "deposit" ELSE "redeem"
      lost     == IF first <= second THEN "redeem" ELSE "deposit"
  IN (/\ stage = "shown" /\ stored.reserves # {} /\ stored.vaults # {}
      /\ readAt.market.listed \subseteq stored.reserves
      /\ readAt.market.vaults \cup readAt.balances.vaults \subseteq stored.vaults)
     => /\ lost \notin between => reported >= owned
        /\ gained \notin between => reported <= owned
=============================================================================
