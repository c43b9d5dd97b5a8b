------------------------------ MODULE NftScan ------------------------------
(***************************************************************************)
(* Which NFT positions of a wallet uniswap-v3 sees.  Two commands walk the *)
(* wallet the same way: balanceOf, then tokenOfOwnerByIndex for each index *)
(* below the balance, then positions for each token.  `sync-metadata       *)
(* -address` goes on to getPool and replaces the cached pools by those of  *)
(* the wallet; `positions` looks every token's pool up in the cache and    *)
(* fails on one it does not find.  What it finds it may still leave out of *)
(* its report: buildLiquidityPosition drops a position with no liquidity   *)
(* and nothing owed, which is no part of this model.                       *)
(*                                                                         *)
(* The calls of a phase are sent in batches of BatchSize sub-calls; a      *)
(* batch is one eth_call, answered at one block.  Nothing ties two batches *)
(* to the same block, and each may be answered by another RPC provider,    *)
(* at most MaxLag blocks behind.  No sub-call may fail: a revert fails the *)
(* batch and the command.                                                  *)
(*                                                                         *)
(* The chain is external: the wallet's ERC-721 enumeration and the         *)
(* contracts it refers to.  Interleavings at the cache are the subject of  *)
(* MetadataCache: here one command runs at a time.                         *)
(***************************************************************************)
EXTENDS Naturals, FiniteSets, SequencesExt

CONSTANTS
  Tokens,     \* NFT ids of the position manager
  Pools,
  poolOf,     \* poolOf[t]: the pool position t provides liquidity to
  BatchSize,  \* defaultMulticallBatchSz (500)
  MaxLag,     \* how many blocks a provider may be behind
  MaxPools,   \* DPR_UNISWAP_V3_MAX_POOLS, of the syncs that set it
  LogStarts,  \* first blocks of a log scan: the market's StartBlock and
              \* values of DPR_UNISWAP_V3_LOG_FROM_BLOCK
  MaxBlocks,  \* bound on the length of the chain
  MaxRuns     \* bound on the number of commands

ASSUME NftAssumption ==
  /\ IsFiniteSet(Tokens)
  /\ poolOf \in [Tokens -> Pools]
  /\ BatchSize \in Nat \ {0}
  /\ MaxLag \in Nat
  /\ MaxPools \in Nat \ {0}
  /\ LogStarts \subseteq Nat
  /\ MaxBlocks \in Nat \ {0}
  /\ MaxRuns \in Nat

VARIABLES
  chain,   \* one snapshot per block: the wallet's tokens and their status
  synced,  \* whether the pools namespace has a row
  cached,  \* the pools in it
  runs,    \* how many commands have been run
  mode,    \* the command: "sync" (for this wallet) or "positions"
  pc,      \* the call it makes next, at the end its verdict
  balance, \* what balanceOf returned
  ids,     \* the token ids collected so far
  read,    \* how many of them positions (or getPool) has been read for
  seeds,   \* the pools getPool returned
  \* History variables: no action of the code reads them.
  lo, hi,  \* the oldest and the newest block the walk was answered at
  ordered, \* no answer of it was older than one before
  cover    \* where the cached pools come from

command == <<mode, pc, balance, ids, read, seeds, lo, hi, ordered>>
vars == <<chain, synced, cached, runs, command, cover>>

Ended == {"idle", "missing", "done", "unknownPool", "failed"}
Calls == {"balance", "index", "details", "getPool", "finish"}
Statuses == {"unborn", "live", "burned"}
Snapshots == [owned : Seq(Tokens), status : [Tokens -> Statuses]]
Covers == [kind : {"none", "logs", "own", "other"}, lo : 0..MaxBlocks, hi : 0..MaxBlocks,
           first : LogStarts \cup {0}, limited : BOOLEAN]
Walked(first, last) ==
  [kind |-> "own", lo |-> first, hi |-> last, first |-> 0, limited |-> FALSE]

Latest == Len(chain)
Owned(b) == chain[b].owned
Holds(b) == ToSet(Owned(b))
Live(t, b) == chain[b].status[t] = "live"

\* A pool is created no later than its first position.
PoolsAt(b) == {poolOf[t] : t \in {u \in Tokens : chain[b].status[u] # "unborn"}}

CreatedBefore(first) == {p \in Pools : \E b \in 1..Latest : b < first /\ p \in PoolsAt(b)}

\* The blocks a call may be answered at.
Answering == {b \in 1..Latest : b + MaxLag >= Latest}

TypeOK ==
  /\ chain \in Seq(Snapshots)
  /\ synced \in BOOLEAN
  /\ cached \in SUBSET Pools
  /\ runs \in 0..MaxRuns
  /\ mode \in {"sync", "positions"}
  /\ pc \in Ended \cup Calls
  /\ balance \in 0..Cardinality(Tokens)
  /\ ids \in Seq(Tokens) /\ Len(ids) <= balance
  /\ read \in 0..balance
  /\ seeds \in SUBSET Pools
  /\ lo \in 0..Latest
  /\ hi \in 0..Latest
  /\ ordered \in BOOLEAN
  /\ cover \in Covers

Init ==
  /\ \E born \in SUBSET Tokens : \E held \in SUBSET born : \E s \in SetToSeqs(held) :
       chain = << [owned |-> s,
                   status |-> [t \in Tokens |-> IF t \in born THEN "live"
                                                ELSE "unborn"]] >>
  /\ synced = FALSE
  /\ cached = {}
  /\ runs = 0
  /\ mode = "sync"
  /\ pc = "idle"
  /\ balance = 0
  /\ ids = <<>>
  /\ read = 0
  /\ seeds = {}
  /\ lo = 0
  /\ hi = 0
  /\ ordered = TRUE
  /\ cover = [kind |-> "none", lo |-> 0, hi |-> 0, first |-> 0, limited |-> FALSE]

-----------------------------------------------------------------------------
(* The chain. *)

Block(owned, status) ==
  /\ Latest < MaxBlocks
  /\ chain' = Append(chain, [owned |-> owned, status |-> status])
  /\ UNCHANGED <<synced, cached, runs, command, cover>>

\* The wallet mints a position or is sent one.
Receive(t) ==
  /\ t \notin Holds(Latest)
  /\ chain[Latest].status[t] # "burned"
  /\ Block(Append(Owned(Latest), t), [chain[Latest].status EXCEPT ![t] = "live"])

\* It sends a position away or burns it: ERC721Enumerable moves the last token
\* of the wallet to the index that becomes free.
Leave(t, status) ==
  /\ t \in Holds(Latest)
  /\ LET old  == Owned(Latest)
         gap  == CHOOSE i \in DOMAIN old : old[i] = t
     IN Block(Front([old EXCEPT ![gap] = Last(old)]),
              [chain[Latest].status EXCEPT ![t] = status])

-----------------------------------------------------------------------------
(* The walk of one command over the wallet. *)

\* Broken variants of Batch: the last batch is not cut; every call is sent alone.
BatchUncut(done) == (done + 1)..(done + BatchSize)
BatchOfOne(done) == {done + 1}

\* The next batch of a phase that has handled `done` of its calls.
Batch(done) == (done + 1)..Min({done + BatchSize, balance})

\* A call was answered at block b.
Saw(b) ==
  /\ lo' = IF lo = 0 THEN b ELSE Min({lo, b})
  /\ hi' = Max({hi, b})
  /\ ordered' = (ordered /\ b >= hi)

\* positions works on the pools it finds in the cache.  Without any it returns
\* no position and makes no call.
Begin(m) ==
  /\ pc \in Ended
  /\ runs < MaxRuns
  /\ runs' = runs + 1
  /\ mode' = m
  /\ pc' = IF m = "sync" THEN "balance"
           ELSE IF ~synced THEN "missing"
           ELSE IF cached = {} THEN "done"
           ELSE "balance"
  /\ balance' = 0
  /\ ids' = <<>>
  /\ read' = 0
  /\ seeds' = {}
  /\ lo' = 0
  /\ hi' = 0
  /\ ordered' = TRUE
  /\ UNCHANGED <<chain, synced, cached, cover>>

\* Where the walk goes once positions has been read for every token.
AfterDetails(tokens) ==
  IF mode = "sync" THEN (IF tokens = {} THEN "finish" ELSE "getPool")
  ELSE IF {poolOf[t] : t \in tokens} \subseteq cached THEN "done" ELSE "unknownPool"

BalanceOf(b) ==
  /\ pc = "balance"
  /\ balance' = Len(Owned(b))
  /\ pc' = IF balance' = 0 THEN AfterDetails({}) ELSE "index"
  /\ Saw(b)
  /\ UNCHANGED <<chain, synced, cached, runs, mode, ids, read, seeds, cover>>

\* tokenOfOwnerByIndex reverts on an index the wallet does not have.
TokensOfOwner(b) ==
  LET last == Max(Batch(Len(ids)))
      more == SubSeq(Owned(b), Len(ids) + 1, last)
  IN /\ pc = "index"
     /\ Saw(b)
     /\ IF last > Len(Owned(b))
          THEN pc' = "failed" /\ UNCHANGED ids
          ELSE /\ ids' = ids \o more
               /\ pc' = IF last = balance THEN "details" ELSE pc
     /\ UNCHANGED <<chain, synced, cached, runs, mode, balance, read, seeds, cover>>

\* positions reverts on a token that is not minted yet or burned.
Details(b) ==
  /\ pc = "details"
  /\ IF \E i \in Batch(read) : ~Live(ids[i], b)
       THEN pc' = "failed" /\ UNCHANGED read
       ELSE IF Max(Batch(read)) = balance
         THEN pc' = AfterDetails(ToSet(ids)) /\ read' = 0
         ELSE pc' = pc /\ read' = Max(Batch(read))
  /\ UNCHANGED <<chain, synced, cached, runs, mode, balance, ids, seeds, lo, hi, ordered, cover>>

\* A broken variant of GetPool: only the first batch is sent.
GetPoolOneBatch(b) ==
  /\ pc = "getPool"
  /\ seeds' = seeds \cup ({poolOf[ids[i]] : i \in Batch(read)} \cap PoolsAt(b))
  /\ Saw(b)
  /\ read' = Max(Batch(read))
  /\ pc' = "finish"
  /\ UNCHANGED <<chain, synced, cached, runs, mode, balance, ids, cover>>

\* getPool returns the zero address for a pool the factory does not know at
\* that block, and the pool is left out.
GetPool(b) ==
  /\ pc = "getPool"
  /\ seeds' = seeds \cup ({poolOf[ids[i]] : i \in Batch(read)} \cap PoolsAt(b))
  /\ Saw(b)
  /\ read' = Max(Batch(read))
  /\ pc' = IF read' = balance THEN "finish" ELSE pc
  /\ UNCHANGED <<chain, synced, cached, runs, mode, balance, ids, cover>>

\* tickSpacing and the token metadata are read (which may fail) and the pools
\* namespace is replaced.
Finish ==
  /\ pc = "finish"
  /\ synced' = TRUE
  /\ cached' = seeds
  /\ cover' = Walked(lo, hi)
  /\ pc' = "done"
  /\ UNCHANGED <<chain, runs, mode, balance, ids, read, seeds, lo, hi, ordered>>

\* Every provider failed to answer a call.
Fails ==
  /\ pc \in Calls
  /\ pc' = "failed"
  /\ UNCHANGED <<chain, synced, cached, runs, mode, balance, ids, read, seeds, lo, hi, ordered, cover>>

\* MaxPools of the pools in a list of logs: the list is in the order of the
\* blocks, and the scan stops when it has as many.
Limited(logs) ==
  {s \in SUBSET logs :
     /\ Cardinality(s) = MaxPools
     /\ \A p \in s, q \in logs \ s, b \in 1..Latest : q \in PoolsAt(b) => p \in PoolsAt(b)}

\* A whole run of sync-metadata that does not walk this wallet.  The verdict of
\* the command before it is history.
SyncElsewhere ==
  /\ pc \in Ended
  /\ runs < MaxRuns
  /\ runs' = runs + 1
  /\ synced' = TRUE
  /\ pc' = "idle"
  /\ UNCHANGED <<chain, mode, balance, ids, read, seeds, lo, hi, ordered>>

\* The PoolCreated logs from block first up to the head one provider reports,
\* where the provider that lags most when a chunk is read is at block seen.
\* From a first block above the head there are none.
SyncLogs ==
  /\ SyncElsewhere
  /\ \E first \in LogStarts, seen, head \in Answering, limited \in BOOLEAN :
       \E logs \in SUBSET (PoolsAt(head) \ CreatedBefore(first)) :
         /\ seen <= head
         /\ PoolsAt(seen) \ CreatedBefore(first) \subseteq logs
         /\ IF limited /\ Cardinality(logs) > MaxPools
              THEN cached' \in Limited(logs)
              ELSE cached' = logs
         /\ cover' = [kind |-> "logs", lo |-> seen, hi |-> head,
                      first |-> first, limited |-> limited]

\* A sync that may cache any of the pools: that of another wallet, or of none
\* (DPR_UNISWAP_V3_DISCOVERY_MODE=user without an address), or a log scan one of
\* whose chunks is answered with null, which decodes as an empty list.
SyncOther ==
  /\ SyncElsewhere
  /\ \E b \in Answering :
       /\ cached' \in SUBSET PoolsAt(b)
       /\ cover' = [kind |-> "other", lo |-> b, hi |-> b, first |-> 0, limited |-> FALSE]

Next ==
  \/ \E t \in Tokens : Receive(t)
  \/ \E t \in Tokens, status \in {"live", "burned"} : Leave(t, status)
  \/ \E m \in {"sync", "positions"} : Begin(m)
  \/ \E b \in Answering : BalanceOf(b) \/ TokensOfOwner(b) \/ Details(b) \/ GetPool(b)
  \/ Finish
  \/ Fails
  \/ SyncLogs
  \/ SyncOther

Spec == Init /\ [][Next]_vars

-----------------------------------------------------------------------------
(* Properties *)

\* The tokens that are in the wallet at every block of a window, and those
\* that leave it, or enter it, inside the window.
Kept(first, last) == {t \in Tokens : \A b \in first..last : t \in Holds(b)}
Left(first, last) == {t \in Tokens : \E b \in first..(last - 1) :
                                       t \in Holds(b) \ Holds(b + 1)}
Entered(first, last) == {t \in Tokens : \E b \in first..(last - 1) :
                                          t \in Holds(b + 1) \ Holds(b)}

WalkDone == pc = "done" /\ mode = "positions" /\ lo > 0

\* When nothing leaves the wallet while it is walked, `positions` reads every
\* token that was there throughout, and none twice, however many batches and
\* providers the walk took: tokens that arrive meanwhile do no harm.
\*
\* When the wallet's tokens fit one batch and no answer is older than the one
\* before, tokens that leave do no harm either: no token is read twice and
\* none that stays is missed, because the enumeration only ever moves a token
\* to a lower index.
WalkIsExact ==
  LET unmoved  == Left(lo, hi) = {}
      oneBatch == balance <= BatchSize /\ ordered
  IN /\ (WalkDone /\ (unmoved \/ oneBatch)) =>
          IsInjective(ids) /\ Kept(lo, hi) \subseteq ToSet(ids)
     /\ (WalkDone /\ unmoved) => ToSet(ids) \subseteq Holds(hi)

\* `positions` fails for want of a pool only if the cache was scoped to another
\* wallet or comes from logs that were answered with null, or the wallet changed
\* since the sync that walked it began, or the log scan left out the pool of one
\* of the tokens: it stopped at the limit, or the pool is older than the block it
\* began at, or younger than the block the provider that lagged most was at.
UnknownPoolHasCause ==
  pc = "unknownPool" =>
    CASE cover.kind = "other" -> TRUE
      [] cover.kind = "own"   ->
           LET first == Min({lo, cover.lo})
               last  == Max({hi, cover.hi})
           IN Left(first, last) \cup Entered(first, last) # {}
      [] cover.kind = "logs"  ->
           \E t \in ToSet(ids) :
             /\ poolOf[t] \notin cached
             /\ \/ cover.limited /\ Cardinality(cached) = MaxPools
                \/ poolOf[t] \in CreatedBefore(cover.first)
                \/ poolOf[t] \notin PoolsAt(cover.lo)

\* What the documentation promises: uniswap-v3 refuses to run on unusable
\* metadata rather than silently leave assets out.  A run that succeeds and saw
\* nothing change reads every position the wallet holds.
NoSilentLoss ==
  (pc = "done" /\ mode = "positions" /\ Latest = 1) => Holds(1) \subseteq ToSet(ids)
=============================================================================
