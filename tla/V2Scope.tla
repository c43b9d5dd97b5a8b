------------------------------ MODULE V2Scope ------------------------------
(***************************************************************************)
(* Which LP tokens and farming pools of a wallet uniswap-v2 sees.          *)
(*                                                                         *)
(* `sync-metadata` collects pairs in one of four modes: the factory's list *)
(* (full, or limited to its first MaxPairs), nothing of it (seed), or, for *)
(* a wallet, the contracts its ERC-20 transfers name (user), taken from an *)
(* indexer page by page or, failing that, from event logs, and verified    *)
(* against the factory.  It adds the pairs of the farming pools it keeps   *)
(* and, unverified, those that the environment names, and replaces the     *)
(* rows of pairs and of farming pools one after the other.  `positions`    *)
(* reads the wallet's balance of every cached pair and then its stake in   *)
(* every cached farming pool.                                              *)
(*                                                                         *)
(* The chain is external: a sequence of events of the wallet and of the    *)
(* factory; its prefix of length b is the state at block b.  Every call is *)
(* answered at a block of its own, at most MaxLag behind.  A log scan is   *)
(* one atomic read here: LogScan refines AtomicDiscovery.  A page or a     *)
(* scan that is answered with null, which decodes as an empty list, counts *)
(* as read at block 0, before the wallet had any transfers.  One command   *)
(* runs at a time; MetadataCache is about several.                         *)
(***************************************************************************)
EXTENDS Integers, FiniteSets, SequencesExt

CONSTANTS
  Pairs,        \* pair contracts of the factory
  Others,       \* other ERC-20 contracts
  Lookalikes,   \* those of Others that answer token0 and token1 like a pair
  Farms,        \* farmingPoolConfigs
  pairOf,       \* pairOf[f]: the pair that is staked in f
  SeedPairs,    \* contracts that DPR_UNISWAP_V2_SEED_PAIRS may name
  MaxPairs,     \* DPR_UNISWAP_V2_MAX_PAIRS
  Modes,        \* modes of sync-metadata that are tried
  Sources,      \* DPR_UNISWAP_V2_USER_DISCOVERY_SOURCE: "", "alchemy" or "logs"
  PageSize,     \* MaxCount of a page of transfers (1000)
  MaxPages,     \* DPR_UNISWAP_V2_USER_TRANSFER_PAGES (5)
  LogStarts,    \* first blocks of a log scan: the market's StartBlock or
                \* DPR_UNISWAP_V2_USER_LOG_FROM_BLOCK
  MaxLag,       \* how many blocks a provider may be behind
  MaxBlocks,    \* bound on the length of the chain
  MaxRuns       \* bound on the number of commands

ASSUME ScopeAssumption ==
  /\ Lookalikes \subseteq Others
  /\ Pairs \cap Others = {}
  /\ IsFiniteSet(Farms)
  /\ pairOf \in [Farms -> Pairs]
  /\ SeedPairs \subseteq Pairs \cup Others
  /\ Modes \subseteq {"user", "full", "limited", "seed"}
  /\ Sources \subseteq {"", "alchemy", "logs"}
  /\ {MaxPairs, MaxLag, MaxRuns} \subseteq Nat
  /\ LogStarts \subseteq Nat
  /\ MaxBlocks \in Nat \ {0}
  /\ PageSize \in Nat \ {0}
  /\ MaxPages \in Nat \ {0}

VARIABLES
  chain,      \* the events, oldest first
  pairs,      \* the cached pairs
  farms,      \* the cached farming pools
  synced,     \* whether every row exists
  runs,       \* how many commands have been run
  mode,       \* the mode of the sync, or "positions"
  source,     \* where a user sync looks for transfers
  pc,         \* the call the command makes next, at the end its verdict
  direction,  \* "from" or "to": the transfers being paged
  page,       \* pages read in this direction
  cursor,     \* the page key: transfers at or after it have been read
  count,      \* how many entries of the factory's list are asked for
  found,      \* contracts or pairs collected so far
  active,     \* the farming pools the sync keeps or positions shows
  direct,     \* direct[c]: the wallet's balance of LP token c, as positions read it
  staked,     \* staked[f]: its stake in f, as positions read it
  \* History variables: no action of the code reads them.
  lo,         \* the oldest block the command was answered at
  hi,         \* the newest block positions was answered at
  ordered,    \* no answer of it was older than one before
  gaps,       \* what the command did not read or check, see Gaps
  scope       \* where the cached rows come from

walk == <<mode, source, pc, direction, page, cursor, count, found, active,
          direct, staked, lo, hi, ordered, gaps>>
vars == <<chain, pairs, farms, synced, runs, walk, scope>>

Contracts == Pairs \cup Others
Ended == {"idle", "done", "failed"}
SyncCalls == {"page", "logs", "tokens", "getPair", "activeFarms", "length", "list",
              "build", "setPairs", "setFarms"}
Reads == {"balances", "stakes"}

\* capped: a page key was left over when the last page of received transfers
\* was read; since: the first block of the log scan; silent: the farming pools
\* with rewards whose `earned` failed; named: the contracts taken from the
\* environment.
Gaps == [capped : BOOLEAN, since : LogStarts \cup {0}, silent : SUBSET Farms,
         named : SUBSET SeedPairs]
NoGaps == [capped |-> FALSE, since |-> 0, silent |-> {}, named |-> {}]

Events ==
  [kind : {"create"}, on : Pairs] \cup
  [kind : {"receive", "send"}, on : Contracts] \cup
  [kind : {"stake", "withdraw", "claim"}, on : Farms]

TypeOK ==
  /\ chain \in Seq(Events)
  /\ pairs \subseteq Contracts
  /\ farms \subseteq Farms
  /\ synced \in BOOLEAN
  /\ runs \in 0..MaxRuns
  /\ mode \in Modes \cup {"positions"}
  /\ source \in Sources
  /\ pc \in Ended \cup SyncCalls \cup Reads
  /\ direction \in {"from", "to"}
  /\ page \in 0..(MaxPages - 1)
  /\ cursor \in 1..(MaxBlocks + 1)
  /\ count \in 0..MaxBlocks
  /\ found \subseteq Contracts
  /\ active \subseteq Farms
  /\ direct \in [Contracts -> Nat]
  /\ staked \in [Farms -> Nat]
  /\ lo \in 0..MaxBlocks /\ hi \in 0..Len(chain)
  /\ ordered \in BOOLEAN
  /\ gaps \in Gaps
  /\ scope \in [kind : {"none", "torn", "user", "other"}, lo : 0..MaxBlocks, gaps : Gaps]

-----------------------------------------------------------------------------
(* What the chain says at block b. *)

Latest == Len(chain)
Answering == {b \in 0..Latest : b + MaxLag >= Latest}

Times(kind, on, b) == Cardinality({i \in 1..b : chain[i] = [kind |-> kind, on |-> on]})

Created(b) == {c \in Pairs : Times("create", c, b) > 0}

\* allPairs lists the pairs in the order of their creation.
Creations(b) == {i \in 1..b : chain[i].kind = "create"}
PairCount(b) == Cardinality(Creations(b))
FirstPairs(n, b) ==
  {chain[i].on : i \in {j \in Creations(b) : Cardinality({k \in Creations(b) : k <= j}) <= n}}

Staked(f, b) == Times("stake", f, b) - Times("withdraw", f, b)
Stakes(b) == [f \in Farms |-> Staked(f, b)]
FarmsOf(c) == {f \in Farms : pairOf[f] = c}

\* The wallet's balance of contract c.
Held(c, b) ==
  Times("receive", c, b) - Times("send", c, b)
  - SumFunctionOnSet(Stakes(b), FarmsOf(c))

\* Rewards accrue while something is staked and stay until they are claimed.
Earned(f, b) ==
  \/ Staked(f, b) > 0
  \/ \E i \in 1..b : /\ chain[i] = [kind |-> "withdraw", on |-> f]
                     /\ [kind |-> "claim", on |-> f] \notin ToSet(SubSeq(chain, i + 1, b))

\* The ERC-20 transfers of the wallet: what it receives and what it sends,
\* staking included.
TransferKinds(dir) == IF dir = "to" THEN {"receive", "withdraw"} ELSE {"send", "stake"}
Contract(e) == IF e.kind \in {"stake", "withdraw"} THEN pairOf[e.on] ELSE e.on

-----------------------------------------------------------------------------
(* The chain moves on. *)

Event(kind, on) ==
  /\ Latest < MaxBlocks
  /\ chain' = Append(chain, [kind |-> kind, on |-> on])
  /\ UNCHANGED <<pairs, farms, synced, runs, walk, scope>>

Chain ==
  \/ \E c \in Pairs \ Created(Latest) : Event("create", c)
  \/ \E c \in Created(Latest) \cup Others : Event("receive", c)
  \/ \E c \in Contracts : Held(c, Latest) > 0 /\ Event("send", c)
  \/ \E f \in Farms :
       \/ Held(pairOf[f], Latest) > 0 /\ Event("stake", f)
       \/ Staked(f, Latest) > 0 /\ Event("withdraw", f)
       \/ Earned(f, Latest) /\ Event("claim", f)

\* The factory has created a pair before the wallet does anything.
Init ==
  /\ chain \in {<<[kind |-> "create", on |-> c]>> : c \in Pairs}
  /\ pairs = {}
  /\ farms = {}
  /\ synced = FALSE
  /\ runs = 0
  /\ mode = "positions"
  /\ source \in Sources
  /\ pc = "idle"
  /\ direction = "from"
  /\ page = 0
  /\ cursor = MaxBlocks + 1
  /\ count = 0
  /\ found = {}
  /\ active = {}
  /\ direct = [c \in Contracts |-> 0]
  /\ staked = [f \in Farms |-> 0]
  /\ lo = MaxBlocks /\ hi = 0
  /\ ordered = TRUE
  /\ gaps = NoGaps
  /\ scope = [kind |-> "none", lo |-> 0, gaps |-> NoGaps]

-----------------------------------------------------------------------------
(* sync-metadata *)

cache == <<chain, pairs, farms, synced, runs, scope>>

\* A call was answered at block b: of a sync only the oldest block is remembered.
SyncSaw(b) ==
  /\ lo' = Min({lo, b})
  /\ UNCHANGED <<hi, ordered>>

Saw(b) ==
  /\ lo' = Min({lo, b})
  /\ hi' = Max({hi, b})
  /\ ordered' = (ordered /\ b >= hi)

\* What a command keeps in memory is empty at first and gone when it ends.
Fresh ==
  /\ direction' = "from"
  /\ page' = 0
  /\ cursor' = MaxBlocks + 1
  /\ count' = 0
  /\ found' = {}
  /\ direct' = [c \in Contracts |-> 0]
  /\ staked' = [f \in Farms |-> 0]
  /\ lo' = MaxBlocks /\ hi' = 0
  /\ ordered' = TRUE
  /\ gaps' = NoGaps

Begin(m) ==
  /\ pc \in Ended
  /\ runs < MaxRuns
  /\ runs' = runs + 1
  /\ mode' = m
  /\ pc' = CASE m = "user" -> IF source = "logs" THEN "logs" ELSE "page"
             [] m \in {"full", "limited"} -> "length"
             [] m = "seed" -> "build"
             [] m = "positions" -> IF ~synced THEN "failed"
                                   ELSE IF pairs = {} THEN "done"
                                   ELSE "balances"
  /\ Fresh
  /\ active' = IF m \in {"user", "positions"} THEN {} ELSE Farms
  /\ UNCHANGED <<chain, pairs, farms, synced, source, scope>>

\* Where a user sync goes once it knows the contracts: without any it skips
\* their verification.
AfterTransfers(contracts) == IF contracts = {} THEN "activeFarms" ELSE "tokens"

\* A page of an indexer at block b, newest transfers first; the page key names
\* the oldest transfer of the page.
Older(b) == {i \in 1..b : i < cursor /\ chain[i].kind \in TransferKinds(direction)}
PageOf(b) == {i \in Older(b) : Cardinality({j \in Older(b) : j >= i}) <= PageSize}

\* Broken variants of MorePages.
MorePagesOneLess == page + 2 < MaxPages
MorePagesOneMore == page < MaxPages

\* Whether another page is read while a page key is left over.
MorePages == page + 1 < MaxPages

\* The code pages through what the wallet sent and then through what it
\* received, each until no page key is left or MaxPages have been read.
AssetTransfers(b) ==
  LET more == Older(b) \ PageOf(b) # {}
  IN /\ pc = "page"
     /\ SyncSaw(b)
     /\ found' = found \cup {Contract(chain[i]) : i \in PageOf(b)}
     /\ gaps' = [gaps EXCEPT !.capped = @ \/ (direction = "to" /\ more /\ page + 1 = MaxPages)]
     /\ IF more /\ MorePages
          THEN /\ page' = page + 1
               /\ cursor' = Min(PageOf(b))
               /\ UNCHANGED <<direction, pc>>
          ELSE /\ page' = 0
               /\ cursor' = MaxBlocks + 1
               /\ direction' = "to"
               /\ pc' = IF direction = "from" THEN pc ELSE AfterTransfers(found')
     /\ UNCHANGED <<mode, source, count, active, direct, staked, cache>>

\* No provider is an indexer, or one stops answering half way: what was read is
\* dropped and the logs are scanned, unless the user insists on the indexer.
AssetTransfersFail ==
  /\ pc = "page"
  /\ pc' = IF source = "alchemy" THEN "failed" ELSE "logs"
  /\ found' = {}
  /\ gaps' = NoGaps
  /\ UNCHANGED <<mode, source, direction, page, cursor, count, active, direct, staked, lo,
                 hi, ordered, cache>>

\* The transfers from a first block to the latest; none, and no error, if the
\* first block is above the latest.
TransferLogs(b) ==
  /\ pc = "logs"
  /\ SyncSaw(b)
  /\ \E start \in LogStarts :
       /\ found' = {Contract(chain[i]) :
                      i \in {j \in 1..b : /\ j >= start
                                        /\ chain[j].kind \in TransferKinds("from") \cup TransferKinds("to")}}
       /\ gaps' = [gaps EXCEPT !.since = start]
  /\ pc' = AfterTransfers(found')
  /\ UNCHANGED <<mode, source, direction, page, cursor, count, active, direct, staked, cache>>

\* token0 and token1 of every candidate; a candidate that does not answer is
\* left out.
PairTokens(b) ==
  /\ pc = "tokens"
  /\ SyncSaw(b)
  /\ found' = found \cap (Created(b) \cup Lookalikes)
  /\ pc' = IF found' = {} THEN "activeFarms" ELSE "getPair"
  /\ UNCHANGED <<mode, source, direction, page, cursor, count, active, direct, staked,
                 gaps, cache>>

\* A broken variant of GetPair: candidates are not compared with the answer.
GetPairUnchecked(b) ==
  /\ pc = "getPair"
  /\ SyncSaw(b)
  /\ pc' = "activeFarms"
  /\ UNCHANGED <<mode, source, direction, page, cursor, count, found, active, direct,
                 staked, gaps, cache>>

\* A candidate must be the pair its factory knows for its tokens.
GetPair(b) ==
  /\ pc = "getPair"
  /\ SyncSaw(b)
  /\ found' = found \cap Created(b)
  /\ pc' = "activeFarms"
  /\ UNCHANGED <<mode, source, direction, page, cursor, count, active, direct, staked,
                 gaps, cache>>

\* Whether a farming pool is kept or shown: `earned` may fail without failing
\* the batch, and counts as 0 then.
Active(f, b, silent) == Staked(f, b) > 0 \/ (f \notin silent /\ Earned(f, b))

\* A user sync keeps the farming pools in which the wallet has a stake or
\* rewards.
ActiveFarms(b) ==
  /\ pc = "activeFarms"
  /\ SyncSaw(b)
  /\ \E silent \in SUBSET {f \in Farms : Earned(f, b)} :
       /\ active' = {f \in Farms : Active(f, b, silent)}
       /\ gaps' = [gaps EXCEPT !.silent = silent]
  /\ pc' = "build"
  /\ UNCHANGED <<mode, source, direction, page, cursor, count, found, direct, staked, cache>>

\* allPairsLength, capped in limited mode.
AllPairsLength(b) ==
  /\ pc = "length"
  /\ SyncSaw(b)
  /\ count' = IF mode = "limited" THEN Min({MaxPairs, PairCount(b)})
              ELSE PairCount(b)
  /\ pc' = "list"
  /\ UNCHANGED <<mode, source, direction, page, cursor, found, active, direct, staked,
                 gaps, cache>>

\* allPairs(0) to allPairs(count - 1); an index the factory does not have yet
\* fails the sync.
AllPairsList(b) ==
  /\ pc = "list"
  /\ SyncSaw(b)
  /\ IF count > PairCount(b)
       THEN pc' = "failed" /\ UNCHANGED found
       ELSE /\ pc' = "build"
            /\ found' = FirstPairs(count, b)
  /\ UNCHANGED <<mode, source, direction, page, cursor, count, active, direct, staked,
                 gaps, cache>>

\* The pairs of the farming pools and those the user names are added; neither
\* is compared with the factory's answer.
NeededPairs(named) == found \cup {pairOf[f] : f \in active} \cup named

\* The contracts that answer token0, token1 and balanceOf.
Responding(b) == Created(b) \cup Lookalikes

\* A broken variant of Build: the pairs of the farming pools are not added.
BuildWithoutFarmPairs(b) ==
  /\ pc = "build"
  /\ SyncSaw(b)
  /\ \E named \in SUBSET SeedPairs :
       /\ found' = found \cup named
       /\ gaps' = [gaps EXCEPT !.named = named]
  /\ pc' = IF found' \subseteq Responding(b) THEN "setPairs" ELSE "failed"
  /\ UNCHANGED <<mode, source, direction, page, cursor, count, active, direct, staked, cache>>

\* Then token0 and token1 of every pair, the farming pools and the token
\* metadata are read, and the rows built.  Only tokens may fail to answer.
Build(b) ==
  /\ pc = "build"
  /\ SyncSaw(b)
  /\ \E named \in SUBSET SeedPairs :
       /\ found' = NeededPairs(named)
       /\ gaps' = [gaps EXCEPT !.named = named]
  /\ pc' = IF found' \subseteq Responding(b) THEN "setPairs" ELSE "failed"
  /\ UNCHANGED <<mode, source, direction, page, cursor, count, active, direct, staked, cache>>

SetPairs ==
  /\ pc = "setPairs"
  /\ pairs' = found
  /\ scope' = [kind |-> "torn", lo |-> 0, gaps |-> gaps]
  /\ pc' = "setFarms"
  /\ UNCHANGED <<chain, farms, synced, runs, mode, source, direction, page, cursor, count,
                 found, active, direct, staked, lo, hi, ordered, gaps>>

SetFarms ==
  /\ pc = "setFarms"
  /\ farms' = active
  /\ synced' = TRUE
  /\ scope' = [kind |-> IF mode = "user" THEN "user" ELSE "other", lo |-> lo, gaps |-> gaps]
  /\ pc' = "done"
  /\ Fresh
  /\ active' = {}
  /\ UNCHANGED <<chain, pairs, runs, mode, source>>

\* Every provider failed to answer a call, a Set failed, or the process died.
Fails ==
  /\ pc \in SyncCalls \cup Reads
  /\ pc' = "failed"
  /\ Fresh
  /\ active' = {}
  /\ UNCHANGED <<mode, source, cache>>

-----------------------------------------------------------------------------
(* positions *)

\* The wallet's balance of every cached pair; one that does not answer fails
\* the fetch.
PairBalances(b) ==
  /\ pc = "balances"
  /\ Saw(b)
  /\ IF pairs \subseteq Responding(b)
       THEN /\ direct' = [c \in Contracts |-> IF c \in pairs THEN Held(c, b) ELSE 0]
            /\ pc' = "stakes"
       ELSE pc' = "failed" /\ UNCHANGED direct
  /\ UNCHANGED <<mode, source, direction, page, cursor, count, found, active, staked,
                 gaps, cache>>

\* A broken variant of FarmStakes: a pool with rewards alone shows a stake.
FarmStakesWithRewards(b) ==
  /\ pc = "stakes"
  /\ Saw(b)
  /\ active' = {f \in farms : Earned(f, b)}
  /\ staked' = [f \in Farms |-> IF f \in active' THEN Max({1, Staked(f, b)}) ELSE 0]
  /\ pc' = "done"
  /\ UNCHANGED <<mode, source, direction, page, cursor, count, found, direct, gaps, cache>>

\* Its stake in every cached farming pool.
FarmStakes(b) ==
  /\ pc = "stakes"
  /\ Saw(b)
  /\ staked' = [f \in Farms |-> IF f \in farms THEN Staked(f, b) ELSE 0]
  /\ \E silent \in SUBSET {f \in Farms : Earned(f, b)} :
       /\ active' = {f \in farms : Active(f, b, silent)}
       /\ gaps' = [gaps EXCEPT !.silent = silent]
  /\ pc' = "done"
  /\ UNCHANGED <<mode, source, direction, page, cursor, count, found, direct, cache>>

Next ==
  \/ Chain
  \/ \E m \in Modes \cup {"positions"} : Begin(m)
  \/ \E b \in Answering :
       \/ PairTokens(b) \/ GetPair(b)
       \/ ActiveFarms(b) \/ AllPairsLength(b) \/ AllPairsList(b) \/ Build(b)
       \/ PairBalances(b) \/ FarmStakes(b)
  \/ \E b \in Answering \cup {0} : AssetTransfers(b) \/ TransferLogs(b)
  \/ AssetTransfersFail
  \/ SetPairs
  \/ SetFarms
  \/ Fails

Spec == Init /\ [][Next]_vars

-----------------------------------------------------------------------------
(* Properties *)

\* Only pairs that the factory has created reach the cache, whatever contracts
\* the wallet has dealt with and however they answer; the one exception is a
\* contract that the environment named to the very sync that wrote the rows and
\* that answers like a pair: the sync does not compare it with the factory.
OnlyFactoryPairs == pairs \subseteq Created(Latest) \cup (scope.gaps.named \cap Lookalikes)

\* Whether the wallet received LP tokens of c from block `first` to block `last`.
ReceivedIn(c, first, last) ==
  \E i \in 1..last : /\ i >= first
                     /\ chain[i].kind \in TransferKinds("to")
                     /\ Contract(chain[i]) = c

\* A sync for a wallet finds every pair the wallet held when the sync read its
\* first block, however the transfers were paged, whichever source answered in
\* the end and whatever happened meanwhile.  Only these things make it miss one:
\* more pages of received transfers than MaxPages, a log scan that starts after
\* the wallet last received the pair, or an answer of null, after which the first
\* block is one at which the wallet held nothing.
ScopeComplete ==
  (scope.kind = "user" /\ ~scope.gaps.capped) =>
    \A c \in Pairs : Held(c, scope.lo) > 0 =>
      c \in pairs \/ ~ReceivedIn(c, scope.gaps.since, scope.lo)

\* From a sync for a wallet to its positions: what the wallet held, or had
\* rewards of, from the oldest block that the sync or positions was answered at
\* to the end of positions is reported.  Pairs are missed for the reasons above
\* alone, a stake never, and rewards only where nothing is staked while one of
\* the two calls of `earned` fails.
NothingMissed ==
  (pc = "done" /\ mode = "positions" /\ scope.kind = "user" /\ ~scope.gaps.capped) =>
    LET window == Min({scope.lo, lo})..Latest
        silent == scope.gaps.silent \cup gaps.silent
    IN /\ \A c \in Pairs :
            (/\ \A b \in window : Held(c, b) > 0
             /\ ReceivedIn(c, scope.gaps.since, scope.lo)) => direct[c] > 0
       /\ \A f \in Farms :
            /\ (\A b \in window : Active(f, b, silent)) => f \in active
            /\ (\A b \in window : Staked(f, b) > 0) => staked[f] > 0

\* LP tokens are read in the wallet first and in the farming pools afterwards.
\* So, when the second answer is not older than the first, tokens that are staked
\* between the two reads are counted twice but never lost, and tokens that are
\* withdrawn are lost but never counted twice.
CountedOnce ==
  (pc = "done" /\ mode = "positions" /\ lo <= hi /\ ordered) =>
    \A c \in pairs :
      LET pools    == FarmsOf(c)
          owned    == Held(c, lo) + SumFunctionOnSet(Stakes(lo), pools)
          reported == direct[c] + SumFunctionOnSet(staked, pools)
          during   == ToSet(SubSeq(chain, lo + 1, hi))
          moved    == \E e \in during : e.kind \in {"receive", "send"} /\ e.on = c
          some(kind) == \E e \in during : e.kind = kind /\ e.on \in pools
      IN (~moved /\ pools \subseteq farms) =>
           /\ ~some("withdraw") => reported >= owned
           /\ ~some("stake") => reported <= owned
=============================================================================
