------------------------------- MODULE V2Pool -------------------------------
(***************************************************************************)
(* The share of a uniswap-v2 pair that positions shows for LP tokens.      *)
(*                                                                         *)
(* fetchPairRuntimeStates asks for feeTo of the factory and then, for each *)
(* pair, for getReserves, totalSupply, kLast and the pair's balance of     *)
(* token0 and of token1, in batches of BatchSize calls, each answered at a *)
(* block of its own; the LP tokens were read in an earlier batch.  The     *)
(* amounts are the shares of the two balances in a total supply that is    *)
(* increased by the liquidity the pair owes to feeTo.                      *)
(*                                                                         *)
(* The pair is external: UniswapV2Pair, whose burn says what LP tokens are *)
(* worth.  hist holds its state after each block.                          *)
(***************************************************************************)
EXTENDS Integers, Sequences, FiniteSetsExt

CONSTANTS
  Starts,     \* states of the pair and its factory to start from
  Deposits,   \* amounts <<a0, a1>> that are added to the pair
  Burns,      \* LP tokens that are burnt
  Swaps,      \* changes <<d0, d1>> of the balances by a swap
  Indices,    \* positions of the pair among the pairs that are fetched
  BatchSize,  \* defaultMulticallBatchSz (500)
  MaxLag,     \* how many blocks a provider may be behind
  MaxBlocks   \* bound on the number of blocks

PairState ==
  [res0 : Nat, res1 : Nat, bal0 : Nat, bal1 : Nat, supply : Nat, kLast : Nat,
   feeTo : BOOLEAN, mine : Nat,
   event : {"start", "mint", "burn", "own", "swap", "donate", "sync", "feeTo"}]

\* A pair after its first deposit, of which some liquidity is locked for ever.
Live(p) ==
  /\ p.mine < p.supply
  /\ 0 < p.res0 /\ p.res0 <= p.bal0
  /\ 0 < p.res1 /\ p.res1 <= p.bal1

ASSUME PoolAssumption ==
  /\ Starts \subseteq {p \in PairState : Live(p)}
  /\ Deposits \subseteq (Nat \X Nat)
  /\ Burns \subseteq Nat \ {0}
  /\ Swaps \subseteq (Int \X Int)
  /\ Indices \subseteq Nat
  /\ BatchSize \in Nat \ {0}
  /\ MaxLag \in Nat /\ MaxBlocks \in Nat \ {0}

VARIABLES
  hist,   \* hist[b]: the pair at block b
  index,  \* the position of the pair among those fetched
  at,     \* at[c]: the block call c was answered at, 0 before
  batch,  \* the number of the batch that is sent next
  pc      \* what the fetch does next, at the end its verdict

read == <<index, at, batch, pc>>
vars == <<hist, read>>

\* The calls for one pair, in the order they are sent, after "lp" and "feeTo".
PairCalls == <<"reserves", "totalSupply", "kLast", "token0", "token1">>
Calls == {"lp", "feeTo", "reserves", "totalSupply", "kLast", "token0", "token1"}

\* One feeTo for the factory and five calls for every pair.
BatchOf(c) ==
  IF c = "feeTo" THEN 0
  ELSE (1 + 5 * index + (CHOOSE i \in DOMAIN PairCalls : PairCalls[i] = c) - 1) \div BatchSize

Batches == {BatchOf(c) : c \in Calls \ {"lp"}}

TypeOK ==
  /\ hist \in Seq(PairState)
  /\ Len(hist) \in 1..MaxBlocks
  /\ index \in Indices
  /\ at \in [Calls -> 0..Len(hist)]
  /\ batch \in Batches
  /\ pc \in {"lp", "batches", "done", "none", "failed"}

Latest == hist[Len(hist)]
Answering == {b \in DOMAIN hist : b + MaxLag >= Len(hist)}

-----------------------------------------------------------------------------
(* Amounts, as the code computes them. *)

\* big.Int.Sqrt
Sqrt(n) == CHOOSE r \in 0..n : r * r <= n /\ n < (r + 1) * (r + 1)

\* A broken variant of pendingProtocolLiquidity: a kLast of zero is a value
\* like any other.
pendingWithoutKLast(supply, res0, res1, kLast, feeTo) ==
  LET rootK     == Sqrt(res0 * res1)
      rootKLast == Sqrt(kLast)
  IN IF feeTo /\ supply > 0 /\ rootK > rootKLast
       THEN (supply * (rootK - rootKLast)) \div (rootK * 5 + rootKLast)
       ELSE 0

\* A broken variant of pendingProtocolLiquidity: it is left out.
pendingIgnored(supply, res0, res1, kLast, feeTo) == 0

pendingProtocolLiquidity(supply, res0, res1, kLast, feeTo) ==
  LET rootK     == Sqrt(res0 * res1)
      rootKLast == Sqrt(kLast)
  IN IF feeTo /\ kLast > 0 /\ supply > 0 /\ res0 > 0 /\ res1 > 0 /\ rootK > rootKLast
       THEN (supply * (rootK - rootKLast)) \div (rootK * 5 + rootKLast)
       ELSE 0

mulDiv(a, b, d) == IF d = 0 THEN 0 ELSE (a * b) \div d

Tokens == {"token0", "token1"}
Balance(t, b) == IF t = "token0" THEN hist[b].bal0 ELSE hist[b].bal1

\* The amount of token t, when call c is answered at block seen[c].
Amount(t, seen) ==
  LET res     == hist[seen["reserves"]]
      supply  == hist[seen["totalSupply"]].supply
      pending == pendingProtocolLiquidity(supply, res.res0, res.res1,
                   hist[seen["kLast"]].kLast, hist[seen["feeTo"]].feeTo)
  IN mulDiv(hist[seen["lp"]].mine, Balance(t, seen[t]), supply + pending)

AmountAt(t, b) == Amount(t, [c \in Calls |-> b])

-----------------------------------------------------------------------------
(* The pair. *)

\* _mintFee: the liquidity that mint and burn create for feeTo before anything
\* else.
Owed(p) ==
  LET rootK     == Sqrt(p.res0 * p.res1)
      rootKLast == Sqrt(p.kLast)
  IN IF p.feeTo /\ p.kLast # 0 /\ rootK > rootKLast
       THEN (p.supply * (rootK - rootKLast)) \div (5 * rootK + rootKLast)
       ELSE 0

\* _update and kLast at the end of mint and burn.
Settled(p) ==
  [p EXCEPT !.res0 = p.bal0, !.res1 = p.bal1,
            !.kLast = IF p.feeTo THEN p.bal0 * p.bal1 ELSE 0]

\* The liquidity that mint creates for what the balances exceed the reserves by.
Minted(p) ==
  LET supply == p.supply + Owed(p)
  IN Min({((p.bal0 - p.res0) * supply) \div p.res0, ((p.bal1 - p.res1) * supply) \div p.res1})

\* What burn pays for some liquidity.
Payout(t, liquidity, p) ==
  (liquidity * (IF t = "token0" THEN p.bal0 ELSE p.bal1)) \div (p.supply + Owed(p))

AfterMint(p, deposit, event, own) ==
  LET paid == [p EXCEPT !.bal0 = @ + deposit[1], !.bal1 = @ + deposit[2]]
  IN Settled([paid EXCEPT !.supply = @ + Owed(p) + Minted(paid),
                          !.mine = IF own THEN @ + Minted(paid) ELSE @,
                          !.event = event])

AfterBurn(p, liquidity, event, own) ==
  Settled([p EXCEPT !.supply = @ + Owed(p) - liquidity,
                    !.mine = IF own THEN @ - liquidity ELSE @,
                    !.bal0 = @ - Payout("token0", liquidity, p),
                    !.bal1 = @ - Payout("token1", liquidity, p),
                    !.event = event])

Block(p) ==
  /\ Len(hist) < MaxBlocks
  /\ hist' = Append(hist, p)
  /\ UNCHANGED read

Mint(deposit, own) ==
  /\ Minted([Latest EXCEPT !.bal0 = @ + deposit[1], !.bal1 = @ + deposit[2]]) > 0
  /\ Block(AfterMint(Latest, deposit, IF own THEN "own" ELSE "mint", own))

\* Some liquidity of the first deposit can never be burnt.
Burn(liquidity, own) ==
  /\ liquidity <= IF own THEN Latest.mine ELSE Latest.supply - Latest.mine - 1
  /\ \A t \in Tokens : Payout(t, liquidity, Latest) > 0
  /\ Block(AfterBurn(Latest, liquidity, IF own THEN "own" ELSE "burn", own))

\* A swap does not lower the product of the reserves; it settles the balances.
Swap(d) ==
  LET p == [Latest EXCEPT !.bal0 = @ + d[1], !.bal1 = @ + d[2], !.event = "swap"]
  IN /\ p.bal0 > 0 /\ p.bal1 > 0
     /\ p.bal0 * p.bal1 >= p.res0 * p.res1
     /\ Block([p EXCEPT !.res0 = p.bal0, !.res1 = p.bal1])

Donate(deposit) ==
  Block([Latest EXCEPT !.bal0 = @ + deposit[1], !.event = "donate"])

Sync ==
  Block([Latest EXCEPT !.res0 = Latest.bal0, !.res1 = Latest.bal1, !.event = "sync"])

\* The factory's feeTo is set or cleared.
SetFeeTo ==
  Block([Latest EXCEPT !.feeTo = ~Latest.feeTo, !.event = "feeTo"])

Chain ==
  \/ \E deposit \in Deposits : Donate(deposit) \/ \E own \in BOOLEAN : Mint(deposit, own)
  \/ \E liquidity \in Burns, own \in BOOLEAN : Burn(liquidity, own)
  \/ \E d \in Swaps : Swap(d)
  \/ Sync
  \/ SetFeeTo

-----------------------------------------------------------------------------
(* positions *)

Init ==
  /\ hist \in {<<p>> : p \in Starts}
  /\ index \in Indices
  /\ at = [c \in Calls |-> 0]
  /\ batch = 0
  /\ pc = "lp"

\* fetchPairBalances, or the stake in a farming pool: without LP tokens the
\* pair is left out.
LpBalance(b) ==
  /\ pc = "lp"
  /\ at' = [at EXCEPT !["lp"] = b]
  /\ pc' = IF hist[b].mine = 0 THEN "none" ELSE "batches"
  /\ UNCHANGED <<hist, index, batch>>

\* A broken variant of Batch: no call is looked for in the next batch.
BatchPlusOne(b) ==
  /\ pc = "batches"
  /\ at' = [c \in Calls |-> IF c # "lp" /\ BatchOf(c) = batch THEN b ELSE at[c]]
  /\ IF batch = Max(Batches)
       THEN pc' = "done" /\ UNCHANGED batch
       ELSE batch' = batch + 1 /\ UNCHANGED pc
  /\ UNCHANGED <<hist, index>>

\* The batches that hold a call for this pair, one after the other.
Batch(b) ==
  /\ pc = "batches"
  /\ at' = [c \in Calls |-> IF c # "lp" /\ BatchOf(c) = batch THEN b ELSE at[c]]
  /\ IF batch = Max(Batches)
       THEN pc' = "done" /\ UNCHANGED batch
       ELSE batch' = Min({n \in Batches : n > batch}) /\ UNCHANGED pc
  /\ UNCHANGED <<hist, index>>

\* A call failed at every provider, or inside the batch.
Fails ==
  /\ pc \in {"lp", "batches"}
  /\ pc' = "failed"
  /\ UNCHANGED <<hist, index, at, batch>>

Next ==
  \/ Chain
  \/ \E b \in Answering : LpBalance(b) \/ Batch(b)
  \/ Fails

Spec == Init /\ [][Next]_vars

-----------------------------------------------------------------------------
(* Properties *)

\* What block b answers to a call that token t's amount depends on.
Reply(c, b) ==
  CASE c = "lp" -> hist[b].mine
    [] c = "feeTo" -> hist[b].feeTo
    [] c = "reserves" -> <<hist[b].res0, hist[b].res1>>
    [] c = "totalSupply" -> hist[b].supply
    [] c = "kLast" -> hist[b].kLast
    [] c \in Tokens -> Balance(c, b)

\* A shown amount is what burning the LP tokens would have paid, protocol fee
\* included, at any block that answers the calls as they were answered; the
\* other token's balance may have been read elsewhere.
ShownIsPayout ==
  pc = "done" =>
    \A t \in Tokens, b \in DOMAIN hist :
      (\A c \in (Calls \ Tokens) \cup {t} : Reply(c, at[c]) = Reply(c, b))
        => Amount(t, at) = Payout(t, hist[b].mine, hist[b])

\* Another's mint or burn never lowers what the wallet is shown, although it
\* creates the liquidity owed to feeTo: the shown amounts have already paid it.
\* (What is donated to the pair goes to the next to mint.)
NeverDiluted ==
  [][(hist' # hist /\ Latest'.event \in {"mint", "burn"}
        /\ Latest.bal0 = Latest.res0 /\ Latest.bal1 = Latest.res1)
     => \A t \in Tokens : AmountAt(t, Len(hist))' >= AmountAt(t, Len(hist))]_hist
=============================================================================
