---------------------------- MODULE V2PoolProofs ----------------------------
(***************************************************************************)
(* The share of a uniswap-v2 pair for every pair, amount and division of   *)
(* the calls into batches.  The pair stays live: its supply exceeds what   *)
(* the wallet holds and its balances are at least the reserves, which are  *)
(* positive.  So the liquidity the code adds to the supply is what the     *)
(* pair owes to feeTo, and the code divides as burn does.                  *)
(***************************************************************************)
EXTENDS V2Pool, FiniteSetTheorems, TLAPS

\* Every call of a batch that has been sent was answered.
ReadInv ==
  /\ pc = "lp" => batch = 0
  /\ pc = "batches" => /\ at["lp"] \in DOMAIN hist
                       /\ \A c \in Calls \ {"lp"} : BatchOf(c) < batch => at[c] \in DOMAIN hist
  /\ pc = "done" => \A c \in Calls : at[c] \in DOMAIN hist

LiveInv == \A b \in DOMAIN hist : Live(hist[b])

IInv == TypeOK /\ LiveInv /\ ReadInv

-----------------------------------------------------------------------------
(* Arithmetic. *)

\* What integer division rounds to.
LEMMA DivFacts ==
  ASSUME NEW n \in Nat, NEW d \in Nat, d > 0
  PROVE  /\ n \div d \in Nat
         /\ (n \div d) * d <= n
         /\ \A q \in Nat : q * d <= n => q <= n \div d
OBVIOUS

\* Products are ordered as their factors.
LEMMA ProductFacts ==
  ASSUME NEW a \in Nat, NEW b \in Nat, NEW c \in Nat
  PROVE  /\ a * b \in Nat /\ a * b = b * a
         /\ a <= b => a * c <= b * c
         /\ c > 0 /\ a * c <= b * c => a <= b
         /\ (a * b) * c = a * (b * c)
         /\ (a + b) * c = a * c + b * c
OBVIOUS

\* A share does not fall when the amount falls by no more than the supply.
LEMMA ShareGrows ==
  ASSUME NEW m \in Nat, NEW x \in Nat, NEW y \in Nat, NEW s \in Nat, NEW u \in Nat,
         s > 0, u > 0, x * u <= y * s
  PROVE  (m * x) \div s <= (m * y) \div u
<1> DEFINE q == (m * x) \div s
<1>1. m * x \in Nat /\ m * y \in Nat
  BY ProductFacts
<1>2. q \in Nat /\ q * s <= m * x
  BY <1>1, DivFacts
<1> HIDE DEF q
<1>3. (q * s) * u <= (m * x) * u
  BY <1>1, <1>2, ProductFacts
<1>4. (m * x) * u = m * (x * u) /\ m * (x * u) <= m * (y * s) /\ m * (y * s) = (m * y) * s
  <2>1. x * u \in Nat /\ y * s \in Nat
    BY ProductFacts
  <2>2. (x * u) * m <= (y * s) * m
    BY <2>1, ProductFacts
  <2>3. QED
    BY <2>1, <2>2, ProductFacts
<1>5. (q * s) * u = (q * u) * s
  BY <1>2, ProductFacts
<1>6. q * u \in Nat
  BY <1>2, ProductFacts
<1>7. (q * u) * s <= (m * y) * s
  <2>1. /\ (q * u) * s \in Nat /\ (m * x) * u \in Nat
        /\ m * (y * s) \in Nat /\ (m * y) * s \in Nat
    BY <1>1, <1>6, ProductFacts
  <2>2. QED
    BY <2>1, <1>3, <1>4, <1>5
<1>8. q * u <= m * y
  BY <1>1, <1>6, <1>7, ProductFacts
<1>9. q <= (m * y) \div u
  BY <1>1, <1>2, <1>8, DivFacts
<1>10. QED
  BY <1>9 DEF q

\* A set of natural numbers has a least element, a bounded one a greatest.
LEMMA LeastNat ==
  ASSUME NEW T, T \subseteq Nat, T # {}
  PROVE  \E x \in T : \A y \in T : x <= y
<1> DEFINE F == {0..n : n \in T}
<1>1. \A n \in T : n \in Nat /\ 0..n \in FiniteSubsetsOf(Nat)
  BY FS_Interval, SMT DEF FiniteSubsetsOf
<1>2. F \subseteq FiniteSubsetsOf(Nat) /\ F # {}
  BY <1>1
<1>3. \E X \in F : \A Y \in F : ~ (<<Y, X>> \in StrictSubsetOrdering(Nat))
  BY <1>2, WFMin, FS_StrictSubsetOrderingWellFounded
<1>4. PICK n \in T : \A m \in T : ~ (<<0..m, 0..n>> \in StrictSubsetOrdering(Nat))
  BY <1>3
<1>5. ASSUME NEW m \in T, m < n
      PROVE  FALSE
  <2>1. 0..m \subseteq 0..n /\ 0..m # 0..n /\ 0..m \subseteq Nat /\ 0..n \subseteq Nat
    BY <1>5
  <2>2. <<0..m, 0..n>> \in StrictSubsetOrdering(Nat)
    BY <2>1 DEF StrictSubsetOrdering
  <2>3. QED
    BY <2>2, <1>4
<1>6. QED
  BY <1>5

\* A bounded set of natural numbers has a greatest element.
LEMMA GreatestNat ==
  ASSUME NEW b \in Nat, NEW T, T \subseteq 0..b, T # {}
  PROVE  \E x \in T : \A y \in T : y <= x
<1> DEFINE D == {b - x : x \in T}
<1>1. \A y \in T : y \in Nat /\ b - y \in Nat /\ b - y \in D
  OBVIOUS
<1>2. D \subseteq Nat /\ D # {}
  BY <1>1
<1> HIDE DEF D
<1>3. PICK d \in D : \A e \in D : d <= e
  BY <1>2, LeastNat
<1>4. PICK x \in T : d = b - x
  BY DEF D
<1>5. \A y \in T : b - x <= b - y
  BY <1>1, <1>3, <1>4
<1>6. \A y \in T : y <= x
  BY <1>1, <1>5
<1>7. QED
  BY <1>6

\* Every natural number has an integer root.
LEMMA RootExists ==
  ASSUME NEW n \in Nat
  PROVE  /\ Sqrt(n) \in Nat
         /\ Sqrt(n) * Sqrt(n) <= n
         /\ n < (Sqrt(n) + 1) * (Sqrt(n) + 1)
<1> DEFINE T == {r \in 0..n : r * r <= n}
<1>1. T \subseteq 0..n /\ 0 \in T
  OBVIOUS
<1> HIDE DEF T
<1>2. PICK r \in T : \A y \in T : y <= r
  BY <1>1, GreatestNat
<1>3. r \in Nat /\ r \in 0..n /\ r * r <= n
  BY DEF T
<1>4. n < (r + 1) * (r + 1)
  <2>1. SUFFICES ASSUME (r + 1) * (r + 1) <= n
                 PROVE  FALSE
    BY <1>3
  <2>2. r + 1 <= n
    BY <1>3, <2>1
  <2>3. r + 1 \in T
    BY <1>3, <2>1, <2>2 DEF T
  <2>4. QED
    BY <1>2, <1>3, <2>3
<1>5. \E x \in 0..n : x * x <= n /\ n < (x + 1) * (x + 1)
  BY <1>3, <1>4
<1>6. Sqrt(n) \in 0..n /\ Sqrt(n) * Sqrt(n) <= n /\ n < (Sqrt(n) + 1) * (Sqrt(n) + 1)
  BY <1>5 DEF Sqrt
<1>7. QED
  BY <1>6

\* The lesser of two.
LEMMA MinOfTwo ==
  ASSUME NEW a \in Nat, NEW b \in Nat
  PROVE  Min({a, b}) = IF a <= b THEN a ELSE b
<1>1. \E x \in {a, b} : \A y \in {a, b} : x <= y
  OBVIOUS
<1>2. QED
  BY <1>1 DEF Min

-----------------------------------------------------------------------------
(* The pair. *)

Bal(t, p) == IF t = "token0" THEN p.bal0 ELSE p.bal1

\* The code's formula for the pending liquidity is the pair's for a live pair.
LEMMA OwedFacts ==
  ASSUME NEW p \in PairState, Live(p)
  PROVE  /\ Owed(p) \in Nat
         /\ pendingProtocolLiquidity(p.supply, p.res0, p.res1, p.kLast, p.feeTo) = Owed(p)
<1> DEFINE rootK == Sqrt(p.res0 * p.res1)
           rootKLast == Sqrt(p.kLast)
<1>1. /\ p.res0 \in Nat /\ p.res1 \in Nat /\ p.kLast \in Nat /\ p.supply \in Nat /\ p.mine \in Nat
      /\ p.feeTo \in BOOLEAN
  BY DEF PairState
<1>2. p.res0 * p.res1 \in Nat
  BY <1>1, ProductFacts
<1>3. rootK \in Nat /\ rootKLast \in Nat
  BY <1>1, <1>2, RootExists
<1>4. p.supply > 0 /\ p.res0 > 0 /\ p.res1 > 0
  BY <1>1 DEF Live
<1>5. p.kLast # 0 <=> p.kLast > 0
  BY <1>1
<1>6. rootK * 5 + rootKLast = 5 * rootK + rootKLast
  BY <1>3
<1>7. pendingProtocolLiquidity(p.supply, p.res0, p.res1, p.kLast, p.feeTo) = Owed(p)
  BY <1>4, <1>5, <1>6 DEF pendingProtocolLiquidity, Owed
<1>8. ASSUME rootK > rootKLast
      PROVE  (p.supply * (rootK - rootKLast)) \div (5 * rootK + rootKLast) \in Nat
  <2>1. rootK - rootKLast \in Nat /\ 5 * rootK + rootKLast \in Nat /\ 5 * rootK + rootKLast > 0
    BY <1>3, <1>8
  <2>2. p.supply * (rootK - rootKLast) \in Nat
    BY <1>1, <2>1, ProductFacts
  <2> HIDE DEF rootK, rootKLast
  <2>3. QED
    BY <2>1, <2>2, DivFacts
<1>9. Owed(p) \in Nat
  BY <1>8 DEF Owed
<1>10. QED
  BY <1>7, <1>9

\* Settling leaves nothing owed.
LEMMA NothingOwed ==
  ASSUME NEW p \in PairState, p.feeTo => p.kLast = p.res0 * p.res1
  PROVE  Owed(p) = 0
<1>1. p.res0 * p.res1 \in Nat
  BY ProductFacts DEF PairState
<1>2. Sqrt(p.res0 * p.res1) \in Nat
  BY <1>1, RootExists
<1>3. QED
  BY <1>2 DEF Owed

\* What burn pays leaves the others at least their share, and some of each token.
LEMMA PayoutFacts ==
  ASSUME NEW p \in PairState, Live(p), NEW l \in Nat, l < p.supply, NEW t \in Tokens,
         NEW s \in Nat, s = p.supply + Owed(p)
  PROVE  /\ Payout(t, l, p) \in Nat
         /\ Payout(t, l, p) < Bal(t, p)
         /\ Bal(t, p) * (s - l) <= (Bal(t, p) - Payout(t, l, p)) * s
<1> DEFINE x == Bal(t, p)
           q == Payout(t, l, p)
<1>1. s > 0 /\ l < s
  BY OwedFacts DEF PairState, Live
<1>2. x \in Nat /\ x > 0
  BY DEF PairState, Live, Bal
<1>3. q = (l * x) \div s
  BY DEF Payout, Bal
<1> HIDE DEF x, q
<1>4. l * x \in Nat
  BY <1>2, ProductFacts
<1>5. q \in Nat /\ q * s <= l * x
  BY <1>1, <1>3, <1>4, DivFacts
<1>6. l * x < s * x
  BY <1>1, <1>2
<1>7. q < x
  BY <1>1, <1>2, <1>5, <1>6
<1>8. x * (s - l) <= (x - q) * s
  <2>1. x * (s - l) = x * s - x * l /\ (x - q) * s = x * s - q * s /\ x * l = l * x
    BY <1>1, <1>2, <1>5
  <2>2. QED
    BY <2>1, <1>1, <1>2, <1>4, <1>5
<1>9. QED
  BY <1>5, <1>7, <1>8 DEF x, q

\* What mint creates is no more than the share of either token that is added.
LEMMA MintedFacts ==
  ASSUME NEW p \in PairState, Live(p)
  PROVE  /\ Minted(p) \in Nat
         /\ Minted(p) * p.res0 <= (p.bal0 - p.res0) * (p.supply + Owed(p))
         /\ Minted(p) * p.res1 <= (p.bal1 - p.res1) * (p.supply + Owed(p))
<1> DEFINE s == p.supply + Owed(p)
           m0 == ((p.bal0 - p.res0) * s) \div p.res0
           m1 == ((p.bal1 - p.res1) * s) \div p.res1
<1>1. s \in Nat
  BY OwedFacts DEF PairState
<1>2. /\ p.res0 \in Nat /\ p.res0 > 0 /\ p.bal0 - p.res0 \in Nat
      /\ p.res1 \in Nat /\ p.res1 > 0 /\ p.bal1 - p.res1 \in Nat
  BY DEF PairState, Live
<1>3. Minted(p) = Min({m0, m1})
  BY DEF Minted
<1> HIDE DEF s
<1>4. (p.bal0 - p.res0) * s \in Nat /\ (p.bal1 - p.res1) * s \in Nat
  BY <1>1, <1>2, ProductFacts
<1>5. /\ m0 \in Nat /\ m0 * p.res0 <= (p.bal0 - p.res0) * s
      /\ m1 \in Nat /\ m1 * p.res1 <= (p.bal1 - p.res1) * s
  BY <1>2, <1>4, DivFacts
<1> HIDE DEF m0, m1
<1>6. Minted(p) \in Nat /\ Minted(p) <= m0 /\ Minted(p) <= m1
  BY <1>3, <1>5, MinOfTwo
<1>7. Minted(p) * p.res0 <= m0 * p.res0 /\ Minted(p) * p.res1 <= m1 * p.res1
  BY <1>2, <1>5, <1>6, ProductFacts
<1>8. /\ Minted(p) * p.res0 \in Nat /\ m0 * p.res0 \in Nat
      /\ Minted(p) * p.res1 \in Nat /\ m1 * p.res1 \in Nat
  BY <1>2, <1>5, <1>6, ProductFacts
<1>9. QED
  BY <1>4, <1>5, <1>6, <1>7, <1>8 DEF s

\* A pair with balances b0 and b1 and its reserves settled to them.
SettledPair(p, b0, b1, supply, mine, event) ==
  [res0 |-> b0, res1 |-> b1, bal0 |-> b0, bal1 |-> b1, supply |-> supply,
   kLast |-> IF p.feeTo THEN b0 * b1 ELSE 0, feeTo |-> p.feeTo, mine |-> mine, event |-> event]

\* A pair that has settled is live and owes no fee.
LEMMA SettledPairFacts ==
  ASSUME NEW p \in PairState, NEW b0 \in Nat, NEW b1 \in Nat, NEW u \in Nat, NEW w \in Nat,
         NEW event \in {"mint", "burn", "own"}, 0 < b0, 0 < b1, w < u
  PROVE  /\ SettledPair(p, b0, b1, u, w, event) \in PairState
         /\ Live(SettledPair(p, b0, b1, u, w, event))
         /\ Owed(SettledPair(p, b0, b1, u, w, event)) = 0
<1>1. PICK q : q = SettledPair(p, b0, b1, u, w, event)
  OBVIOUS
<1>2. /\ q.bal0 = b0 /\ q.bal1 = b1 /\ q.res0 = b0 /\ q.res1 = b1 /\ q.supply = u /\ q.mine = w
      /\ q.event = event /\ q.feeTo = p.feeTo /\ q.kLast = IF p.feeTo THEN b0 * b1 ELSE 0
  BY <1>1 DEF SettledPair
<1>3. b0 * b1 \in Nat /\ p.feeTo \in BOOLEAN
  BY ProductFacts DEF PairState
<1>4. (IF p.feeTo THEN b0 * b1 ELSE 0) \in Nat
  BY <1>3
<1>5. q \in PairState
  BY <1>1, <1>3, <1>4 DEF SettledPair, PairState
<1>6. Live(q)
  BY <1>2 DEF Live
<1>7. q.feeTo => q.kLast = q.res0 * q.res1
  BY <1>2
<1>8. Owed(q) = 0
  BY <1>5, <1>7, NothingOwed
<1>9. QED
  BY <1>1, <1>5, <1>6, <1>8

\* The pair that a deposit was transferred to.
Paid(p, deposit) == [p EXCEPT !.bal0 = @ + deposit[1], !.bal1 = @ + deposit[2]]

\* A deposit that is paid in changes the balances only.
LEMMA PaidFacts ==
  ASSUME NEW p \in PairState, Live(p), NEW deposit \in Nat \X Nat, NEW q, q = Paid(p, deposit)
  PROVE  /\ q \in PairState /\ Live(q) /\ Owed(q) = Owed(p)
         /\ q.bal0 = p.bal0 + deposit[1] /\ q.bal1 = p.bal1 + deposit[2]
         /\ q.res0 = p.res0 /\ q.res1 = p.res1 /\ q.supply = p.supply
<1>1. deposit[1] \in Nat /\ deposit[2] \in Nat
  OBVIOUS
<1>2. /\ q.bal0 = p.bal0 + deposit[1] /\ q.bal1 = p.bal1 + deposit[2]
      /\ q.res0 = p.res0 /\ q.res1 = p.res1 /\ q.supply = p.supply /\ q.mine = p.mine
      /\ q.feeTo = p.feeTo /\ q.kLast = p.kLast
  BY DEF Paid, PairState
<1>3. q \in PairState
  <2>1. p.bal0 \in Nat /\ p.bal1 \in Nat
    BY DEF PairState
  <2>2. p.bal0 + deposit[1] \in Nat /\ p.bal1 + deposit[2] \in Nat
    BY <1>1, <2>1
  <2>3. q = [p EXCEPT !.bal0 = p.bal0 + deposit[1], !.bal1 = p.bal1 + deposit[2]]
    BY DEF Paid
  <2>4. QED
    BY <2>2, <2>3 DEF PairState
<1>4. Live(q)
  BY <1>1, <1>2 DEF Live, PairState
<1>5. Owed(q) = Owed(p)
  BY <1>2 DEF Owed
<1>6. QED
  BY <1>2, <1>3, <1>4, <1>5

\* What a mint leaves.
LEMMA AfterMintFacts ==
  ASSUME NEW p \in PairState, Live(p), NEW deposit \in Nat \X Nat, NEW own \in BOOLEAN,
         NEW event \in {"mint", "own"}, NEW q, q = AfterMint(p, deposit, event, own),
         NEW m, m = Minted(Paid(p, deposit))
  PROVE  /\ q \in PairState /\ Live(q) /\ Owed(q) = 0 /\ m \in Nat
         /\ q.event = event
         /\ q.supply = p.supply + Owed(p) + m
         /\ q.mine = IF own THEN p.mine + m ELSE p.mine
         /\ q.bal0 = p.bal0 + deposit[1] /\ q.bal1 = p.bal1 + deposit[2]
<1> DEFINE s == p.supply + Owed(p) + m
           mine == IF own THEN p.mine + m ELSE p.mine
           b0 == p.bal0 + deposit[1]
           b1 == p.bal1 + deposit[2]
<1>1. deposit[1] \in Nat /\ deposit[2] \in Nat /\ Owed(p) \in Nat
  BY OwedFacts
<1>2. m \in Nat
  BY PaidFacts, MintedFacts
<1>3. q = SettledPair(p, b0, b1, s, mine, event)
  BY DEF AfterMint, Settled, SettledPair, Paid, PairState
<1>4. /\ b0 \in Nat /\ b1 \in Nat /\ s \in Nat /\ mine \in Nat
      /\ 0 < b0 /\ 0 < b1 /\ mine < s
  BY <1>1, <1>2 DEF PairState, Live
<1> HIDE DEF s, mine, b0, b1
<1>5. /\ q \in PairState /\ Live(q) /\ Owed(q) = 0
      /\ q.bal0 = b0 /\ q.bal1 = b1 /\ q.supply = s /\ q.mine = mine /\ q.event = event
  <2>1. event \in {"mint", "burn", "own"}
    OBVIOUS
  <2>2. /\ q.bal0 = b0 /\ q.bal1 = b1 /\ q.supply = s /\ q.mine = mine /\ q.event = event
    BY <1>3 DEF SettledPair
  <2>3. SettledPair(p, b0, b1, s, mine, event) \in PairState
    BY <1>4, <2>1, SettledPairFacts
  <2>4. Live(SettledPair(p, b0, b1, s, mine, event))
    BY <1>4, <2>1, SettledPairFacts
  <2>5. Owed(q) = 0
    <3>1. q.feeTo => q.kLast = q.res0 * q.res1
      BY <1>3 DEF SettledPair
    <3>2. QED
      BY <1>3, <2>3, <3>1, NothingOwed
  <2>6. QED
    BY <1>3, <2>2, <2>3, <2>4, <2>5
<1>6. QED
  BY <1>2, <1>5 DEF s, mine, b0, b1

\* What a burn leaves: some liquidity stays locked.
LEMMA AfterBurnFacts ==
  ASSUME NEW p \in PairState, Live(p), NEW l \in Nat, NEW own \in BOOLEAN,
         l <= IF own THEN p.mine ELSE p.supply - p.mine - 1,
         NEW event \in {"burn", "own"}, NEW q, q = AfterBurn(p, l, event, own)
  PROVE  /\ q \in PairState /\ Live(q) /\ Owed(q) = 0
         /\ q.event = event /\ l < p.supply
         /\ q.supply = p.supply + Owed(p) - l
         /\ q.mine = IF own THEN p.mine - l ELSE p.mine
         /\ q.bal0 = p.bal0 - Payout("token0", l, p) /\ q.bal1 = p.bal1 - Payout("token1", l, p)
<1> DEFINE s == p.supply + Owed(p) - l
           mine == IF own THEN p.mine - l ELSE p.mine
           b0 == p.bal0 - Payout("token0", l, p)
           b1 == p.bal1 - Payout("token1", l, p)
<1>1. /\ p.supply \in Nat /\ p.mine \in Nat /\ p.mine < p.supply /\ Owed(p) \in Nat
      /\ p.bal0 \in Nat /\ p.bal1 \in Nat
  BY OwedFacts DEF PairState, Live
<1>2. l < p.supply
  BY <1>1
<1>3. /\ Payout("token0", l, p) \in Nat /\ Payout("token0", l, p) < p.bal0
      /\ Payout("token1", l, p) \in Nat /\ Payout("token1", l, p) < p.bal1
  <2>1. \A t \in Tokens : Payout(t, l, p) \in Nat /\ Payout(t, l, p) < Bal(t, p)
    <3>1. PICK u \in Nat : u = p.supply + Owed(p)
      BY <1>1
    <3>2. QED
      BY <1>2, <3>1, PayoutFacts
  <2>2. QED
    BY <2>1 DEF Tokens, Bal
<1>4. q = SettledPair(p, b0, b1, s, mine, event)
  BY DEF AfterBurn, Settled, SettledPair, PairState
<1>5. /\ b0 \in Nat /\ b1 \in Nat /\ s \in Nat /\ mine \in Nat
      /\ 0 < b0 /\ 0 < b1 /\ mine < s
  BY <1>1, <1>2, <1>3
<1> HIDE DEF s, mine, b0, b1
<1>6. /\ q \in PairState /\ Live(q) /\ Owed(q) = 0
      /\ q.bal0 = b0 /\ q.bal1 = b1 /\ q.supply = s /\ q.mine = mine /\ q.event = event
  <2>1. event \in {"mint", "burn", "own"}
    OBVIOUS
  <2>2. /\ q.bal0 = b0 /\ q.bal1 = b1 /\ q.supply = s /\ q.mine = mine /\ q.event = event
    BY <1>4 DEF SettledPair
  <2>3. QED
    BY <1>4, <1>5, <2>1, <2>2, SettledPairFacts
<1>7. QED
  BY <1>2, <1>6 DEF s, mine, b0, b1

-----------------------------------------------------------------------------
(* Batches. *)

\* Max is the greatest element of a bounded set.
LEMMA MaxFacts ==
  ASSUME NEW b \in Nat, NEW T, T \subseteq 0..b, T # {}
  PROVE  Max(T) \in T /\ \A y \in T : y <= Max(T)
<1>1. \E x \in T : \A y \in T : x >= y
  BY GreatestNat
<1>2. Max(T) \in T /\ \A y \in T : Max(T) >= y
  BY <1>1 DEF Max
<1>3. QED
  BY <1>2

\* Min is the least element of a set of natural numbers.
LEMMA MinFacts ==
  ASSUME NEW T, T \subseteq Nat, T # {}
  PROVE  Min(T) \in T /\ \A y \in T : Min(T) <= y
<1>1. \E x \in T : \A y \in T : x <= y
  BY LeastNat
<1>2. QED
  BY <1>1 DEF Min

\* feeTo is in the first batch, and the calls of a pair in one of the few after
\* it.
LEMMA BatchFacts ==
  ASSUME index \in Nat
  PROVE  /\ \A c \in Calls \ {"lp"} : BatchOf(c) \in 0..(5 * index + 5)
         /\ BatchOf("feeTo") = 0
<1>1. BatchSize \in Nat /\ BatchSize > 0
  BY PoolAssumption
<1>2. BatchOf("feeTo") = 0
  BY DEF BatchOf
<1>3. ASSUME NEW c \in Calls \ {"lp", "feeTo"}
      PROVE  BatchOf(c) \in 0..(5 * index + 5)
  <2> DEFINE k == CHOOSE i \in DOMAIN PairCalls : PairCalls[i] = c
             x == 1 + 5 * index + k - 1
  <2>1. k \in 1..5
    <3>1. \E i \in DOMAIN PairCalls : PairCalls[i] = c
      <4>1. /\ DOMAIN PairCalls = 1..5
            /\ PairCalls[1] = "reserves" /\ PairCalls[2] = "totalSupply" /\ PairCalls[3] = "kLast"
            /\ PairCalls[4] = "token0" /\ PairCalls[5] = "token1"
        BY DEF PairCalls
      <4>2. QED
        BY <4>1 DEF Calls
    <3>2. DOMAIN PairCalls = 1..5
      BY DEF PairCalls
    <3>3. QED
      BY <3>1, <3>2
  <2>2. BatchOf(c) = x \div BatchSize
    BY DEF BatchOf
  <2> HIDE DEF k
  <2>3. x \in Nat /\ x <= 5 * index + 5
    BY <2>1
  <2> HIDE DEF x
  <2>4. /\ x \div BatchSize \in Nat
        /\ (x \div BatchSize) * BatchSize <= x
    BY <1>1, <2>3, DivFacts
  <2>5. x \div BatchSize <= (x \div BatchSize) * BatchSize
    BY <1>1, <2>4
  <2>6. (x \div BatchSize) * BatchSize \in Nat
    BY <1>1, <2>4, ProductFacts
  <2>7. QED
    BY <2>2, <2>3, <2>4, <2>5, <2>6
<1>4. QED
  BY <1>2, <1>3

\* The batches in the order they are sent; none that holds a call is passed over.
LEMMA BatchesFacts ==
  ASSUME index \in Nat
  PROVE  /\ 0 \in Batches
         /\ \A c \in Calls \ {"lp"} : BatchOf(c) \in Nat /\ BatchOf(c) <= Max(Batches)
         /\ \A n \in Batches : n # Max(Batches)
              => /\ Min({k \in Batches : k > n}) \in Batches
                 /\ \A c \in Calls \ {"lp"} : BatchOf(c) < Min({k \in Batches : k > n})
                                                => BatchOf(c) <= n
<1>1. Batches \subseteq 0..(5 * index + 5)
  BY BatchFacts DEF Batches
<1>2. 0 \in Batches
  BY BatchFacts DEF Batches, Calls
<1>3. 5 * index + 5 \in Nat
  OBVIOUS
<1>4. Max(Batches) \in Batches /\ \A y \in Batches : y <= Max(Batches)
  BY <1>1, <1>2, <1>3, MaxFacts
<1>5. \A c \in Calls \ {"lp"} : BatchOf(c) \in Batches
  BY DEF Batches
<1> DEFINE top == Max(Batches)
<1> HIDE DEF top
<1>8. /\ top \in Batches /\ top \in Nat
      /\ \A y \in Batches : y \in Nat /\ y <= top
  <2>1. \A y \in Batches : y \in Nat
    BY <1>1
  <2>2. top \in Batches /\ \A y \in Batches : y <= top
    BY <1>4 DEF top
  <2>3. QED
    BY <2>1, <2>2
<1>6. ASSUME NEW n \in Batches, n # top
      PROVE  /\ Min({k \in Batches : k > n}) \in Batches
             /\ \A c \in Calls \ {"lp"} : BatchOf(c) < Min({k \in Batches : k > n})
                                            => BatchOf(c) <= n
  <2> DEFINE T == {k \in Batches : k > n}
  <2>1. T \subseteq Nat /\ T # {}
    <3>1. n \in Nat /\ top > n
      BY <1>6, <1>8
    <3>2. QED
      BY <1>8, <3>1
  <2>2. Min(T) \in T /\ \A y \in T : Min(T) <= y
    <3> HIDE DEF T
    <3>1. QED
      BY <2>1, MinFacts
  <2>3. ASSUME NEW c \in Calls \ {"lp"}, BatchOf(c) < Min(T)
        PROVE  BatchOf(c) <= n
    <3> DEFINE next == Min(T)
    <3>1. BatchOf(c) \in Nat /\ n \in Nat /\ next \in Nat
      BY <1>5, <1>8, <2>1, <2>2
    <3>2. next \in T /\ (BatchOf(c) > n => BatchOf(c) \in T)
      BY <1>5, <2>2
    <3>3. BatchOf(c) < next /\ \A y \in T : next <= y
      BY <2>2, <2>3
    <3> HIDE DEF next, T
    <3>4. QED
      BY <3>1, <3>2, <3>3
  <2>4. QED
    BY <2>2, <2>3
<1>7. QED
  BY <1>2, <1>5, <1>6, <1>8 DEF top

-----------------------------------------------------------------------------
(* The invariant. *)

\* Every block has a pair that is live.
LEMMA LatestFacts ==
  ASSUME IInv
  PROVE  /\ Len(hist) \in Nat /\ Len(hist) > 0 /\ DOMAIN hist = 1..Len(hist)
         /\ Latest \in PairState /\ Live(Latest)
         /\ \A b \in DOMAIN hist : hist[b] \in PairState /\ Live(hist[b])
<1>1. Len(hist) \in 1..MaxBlocks /\ MaxBlocks \in Nat /\ hist \in Seq(PairState)
  BY PoolAssumption DEF IInv, TypeOK
<1>2. Len(hist) \in Nat /\ Len(hist) > 0 /\ DOMAIN hist = 1..Len(hist)
  BY <1>1
<1>3. \A b \in DOMAIN hist : hist[b] \in PairState
  BY <1>1
<1>4. \A b \in DOMAIN hist : Live(hist[b])
  BY DEF IInv, LiveInv
<1>5. QED
  BY <1>2, <1>3, <1>4 DEF Latest

\* Before the fetch nothing is read.
LEMMA InitInv == Init => IInv
<1> SUFFICES ASSUME Init PROVE IInv
  OBVIOUS
<1>2. PICK p \in Starts : hist = <<p>>
  BY DEF Init
<1>3. p \in PairState /\ Live(p)
  BY PoolAssumption
<1>4. MaxBlocks \in Nat /\ MaxBlocks > 0 /\ Indices \subseteq Nat
  BY PoolAssumption
<1>5. hist \in Seq(PairState) /\ Len(hist) = 1 /\ DOMAIN hist = 1..1 /\ hist[1] = p
  BY <1>2, <1>3
<1>6. index \in Indices /\ index \in Nat /\ batch \in Batches
  <2>1. index \in Indices /\ index \in Nat
    BY <1>4 DEF Init
  <2>2. QED
    BY <2>1, BatchesFacts DEF Init
<1>7. TypeOK
  BY <1>4, <1>5, <1>6 DEF Init, TypeOK
<1>8. LiveInv
  BY <1>3, <1>5 DEF LiveInv
<1>9. ReadInv
  BY DEF Init, ReadInv
<1>10. QED
  BY <1>7, <1>8, <1>9 DEF IInv

\* A block whose pair is live keeps the invariant.
LEMMA BlockStep ==
  ASSUME IInv, NEW q \in PairState, Live(q), Block(q)
  PROVE  IInv' /\ Latest' = q /\ Len(hist') = Len(hist) + 1
<1>1. /\ Len(hist) \in Nat /\ Len(hist) > 0 /\ DOMAIN hist = 1..Len(hist)
      /\ hist \in Seq(PairState) /\ Len(hist) < MaxBlocks /\ MaxBlocks \in Nat
  BY LatestFacts, PoolAssumption DEF Block, IInv, TypeOK
<1>2. hist' = Append(hist, q) /\ index' = index /\ at' = at /\ batch' = batch /\ pc' = pc
  BY DEF Block, read
<1>3. /\ hist' \in Seq(PairState) /\ Len(hist') = Len(hist) + 1
      /\ hist'[Len(hist) + 1] = q /\ \A b \in 1..Len(hist) : hist'[b] = hist[b]
      /\ DOMAIN hist' = 1..(Len(hist) + 1)
  BY <1>1, <1>2
<1>4. Batches' = Batches /\ \A c \in Calls : BatchOf(c)' = BatchOf(c)
  BY <1>2 DEF Batches, BatchOf
<1>5. TypeOK'
  <2>1. Len(hist') \in 1..MaxBlocks
    BY <1>1, <1>3
  <2>2. at' \in [Calls -> 0..Len(hist')]
    BY <1>1, <1>2, <1>3 DEF IInv, TypeOK
  <2>3. index' \in Indices /\ batch' \in Batches' /\ pc' \in {"lp", "batches", "done", "none", "failed"}
    BY <1>2, <1>4 DEF IInv, TypeOK
  <2>4. QED
    BY <1>3, <2>1, <2>2, <2>3 DEF TypeOK
<1>6. LiveInv'
  <2>1. ASSUME NEW b \in DOMAIN hist' PROVE Live(hist'[b])
    <3>1. CASE b = Len(hist) + 1
      BY <1>3, <3>1
    <3>2. CASE b # Len(hist) + 1
      <4>1. b \in DOMAIN hist /\ hist'[b] = hist[b]
        BY <1>1, <1>3, <3>2
      <4>2. QED
        BY <4>1 DEF IInv, LiveInv
    <3>3. QED
      BY <3>1, <3>2
  <2>2. QED
    BY <2>1 DEF LiveInv
<1>7. ReadInv'
  <2>1. DOMAIN hist \subseteq DOMAIN hist'
    BY <1>1, <1>3
  <2>2. \A c \in Calls \ {"lp"} : BatchOf(c)' < batch' <=> BatchOf(c) < batch
    BY <1>2, <1>4
  <2>3. QED
    BY <1>2, <2>1, <2>2 DEF IInv, ReadInv
<1>8. Latest' = q
  BY <1>3 DEF Latest
<1>9. QED
  BY <1>3, <1>5, <1>6, <1>7, <1>8 DEF IInv

-----------------------------------------------------------------------------
(* The steps. *)

\* A mint keeps the pair live.
LEMMA MintStep ==
  ASSUME IInv, NEW deposit \in Deposits, NEW own \in BOOLEAN, Mint(deposit, own)
  PROVE  IInv'
<1> DEFINE event == IF own THEN "own" ELSE "mint"
           q == AfterMint(Latest, deposit, event, own)
<1>1. deposit \in Nat \X Nat
  BY PoolAssumption
<1>2. event \in {"mint", "own"}
  OBVIOUS
<1>3. Block(q)
  BY DEF Mint
<1>4. Latest \in PairState /\ Live(Latest)
  BY LatestFacts
<1> HIDE DEF event
<1>5. q \in PairState /\ Live(q)
  BY <1>1, <1>2, <1>4, AfterMintFacts
<1> HIDE DEF q
<1>6. QED
  BY <1>3, <1>5, BlockStep

\* A burn keeps the pair live.
LEMMA BurnStep ==
  ASSUME IInv, NEW l \in Burns, NEW own \in BOOLEAN, Burn(l, own)
  PROVE  IInv'
<1> DEFINE event == IF own THEN "own" ELSE "burn"
           q == AfterBurn(Latest, l, event, own)
<1>1. l \in Nat
  BY PoolAssumption
<1>2. event \in {"burn", "own"}
  OBVIOUS
<1>3. Block(q) /\ l <= IF own THEN Latest.mine ELSE Latest.supply - Latest.mine - 1
  BY DEF Burn
<1>4. Latest \in PairState /\ Live(Latest)
  BY LatestFacts
<1> HIDE DEF event
<1>5. q \in PairState /\ Live(q)
  BY <1>1, <1>2, <1>3, <1>4, AfterBurnFacts
<1> HIDE DEF q
<1>6. QED
  BY <1>3, <1>5, BlockStep

\* A swap keeps the pair live.
LEMMA SwapStep ==
  ASSUME IInv, NEW d \in Swaps, Swap(d)
  PROVE  IInv'
<1>1. PICK p \in PairState : p = Latest /\ Live(p)
  BY LatestFacts
<1>2. d[1] \in Int /\ d[2] \in Int
  BY PoolAssumption
<1> DEFINE b0 == p.bal0 + d[1]
           b1 == p.bal1 + d[2]
           q == [p EXCEPT !.bal0 = b0, !.bal1 = b1, !.event = "swap", !.res0 = b0, !.res1 = b1]
<1>3. Block(q) /\ b0 > 0 /\ b1 > 0
  BY <1>1 DEF Swap, PairState
<1>4. b0 \in Nat /\ b1 \in Nat
  <2>1. p.bal0 \in Nat /\ p.bal1 \in Nat
    BY DEF PairState
  <2>2. QED
    BY <1>2, <1>3, <2>1
<1> HIDE DEF b0, b1
<1>5. q \in PairState
  BY <1>4 DEF PairState
<1>6. q.bal0 = b0 /\ q.bal1 = b1 /\ q.res0 = b0 /\ q.res1 = b1 /\ q.mine = p.mine /\ q.supply = p.supply
  BY DEF PairState
<1>7. Live(q)
  BY <1>1, <1>3, <1>4, <1>6 DEF Live
<1> HIDE DEF q
<1>8. QED
  BY <1>3, <1>5, <1>7, BlockStep

\* Tokens that are given to it do.
LEMMA DonateStep ==
  ASSUME IInv, NEW deposit \in Deposits, Donate(deposit)
  PROVE  IInv'
<1>1. PICK p \in PairState : p = Latest /\ Live(p)
  BY LatestFacts
<1> DEFINE b0 == p.bal0 + deposit[1]
           q == [p EXCEPT !.bal0 = b0, !.event = "donate"]
<1>2. deposit[1] \in Nat
  BY PoolAssumption
<1>3. Block(q)
  BY <1>1 DEF Donate
<1>4. b0 \in Nat /\ p.bal0 <= b0 /\ p.res0 <= b0
  BY <1>1, <1>2 DEF PairState, Live
<1> HIDE DEF b0
<1>5. q \in PairState
  BY <1>4 DEF PairState
<1>6. Live(q)
  BY <1>1, <1>4 DEF Live, PairState
<1> HIDE DEF q
<1>7. QED
  BY <1>3, <1>5, <1>6, BlockStep

\* So does sync.
LEMMA SyncStep ==
  ASSUME IInv, Sync
  PROVE  IInv'
<1>1. PICK p \in PairState : p = Latest /\ Live(p)
  BY LatestFacts
<1> DEFINE q == [p EXCEPT !.res0 = p.bal0, !.res1 = p.bal1, !.event = "sync"]
<1>2. Block(q)
  BY <1>1 DEF Sync
<1>3. q \in PairState
  BY DEF PairState
<1>4. Live(q)
  BY <1>1 DEF Live, PairState
<1> HIDE DEF q
<1>5. QED
  BY <1>2, <1>3, <1>4, BlockStep

\* So does the switch of the fee.
LEMMA SetFeeToStep ==
  ASSUME IInv, SetFeeTo
  PROVE  IInv'
<1>1. PICK p \in PairState : p = Latest /\ Live(p)
  BY LatestFacts
<1> DEFINE q == [p EXCEPT !.feeTo = ~p.feeTo, !.event = "feeTo"]
<1>2. Block(q)
  BY <1>1 DEF SetFeeTo
<1>3. q \in PairState
  BY DEF PairState
<1>4. Live(q)
  BY <1>1 DEF Live, PairState
<1> HIDE DEF q
<1>5. QED
  BY <1>2, <1>3, <1>4, BlockStep

\* A step of the fetch leaves the pair alone.
LEMMA ReadStep ==
  ASSUME IInv, UNCHANGED <<hist, index>>,
         at' \in [Calls -> 0..Len(hist)], batch' \in Batches,
         pc' \in {"batches", "done", "none", "failed"},
         pc' = "batches" => /\ at'["lp"] \in DOMAIN hist
                            /\ \A c \in Calls \ {"lp"} : BatchOf(c) < batch'
                                                           => at'[c] \in DOMAIN hist,
         pc' = "done" => \A c \in Calls : at'[c] \in DOMAIN hist
  PROVE  IInv'
<1>1. hist' = hist /\ index' = index
  OBVIOUS
<1>2. Batches' = Batches /\ \A c \in Calls : BatchOf(c)' = BatchOf(c)
  BY <1>1 DEF Batches, BatchOf
<1>3. TypeOK'
  BY <1>1, <1>2 DEF IInv, TypeOK
<1>4. LiveInv'
  BY <1>1 DEF IInv, LiveInv
<1>5. ReadInv'
  BY <1>1, <1>2 DEF ReadInv
<1>6. QED
  BY <1>3, <1>4, <1>5 DEF IInv

\* The balance is answered at a block there is.
LEMMA LpBalanceStep ==
  ASSUME IInv, NEW b \in Answering, LpBalance(b)
  PROVE  IInv'
<1>1. b \in DOMAIN hist /\ DOMAIN hist = 1..Len(hist)
  BY LatestFacts DEF Answering
<1>2. at \in [Calls -> 0..Len(hist)] /\ batch \in Batches /\ "lp" \in Calls
  BY DEF IInv, TypeOK, Calls
<1>3. at' \in [Calls -> 0..Len(hist)] /\ at'["lp"] = b
  BY <1>1, <1>2 DEF LpBalance
<1>4. batch' = batch /\ pc' \in {"none", "batches"} /\ hist' = hist /\ index' = index
  BY DEF LpBalance
<1>5. index \in Nat /\ batch = 0
  BY PoolAssumption DEF IInv, TypeOK, ReadInv, LpBalance
<1>6. \A c \in Calls \ {"lp"} : ~ BatchOf(c) < batch'
  BY <1>4, <1>5, BatchesFacts
<1>7. at'["lp"] \in DOMAIN hist /\ UNCHANGED <<hist, index>> /\ batch' \in Batches
  BY <1>1, <1>2, <1>3, <1>4
<1>8. QED
  BY <1>3, <1>4, <1>6, <1>7, ReadStep

\* A batch answers its calls at one block.
LEMMA BatchStep ==
  ASSUME IInv, NEW b \in Answering, Batch(b)
  PROVE  IInv'
<1>1. b \in DOMAIN hist /\ DOMAIN hist = 1..Len(hist)
  BY LatestFacts DEF Answering
<1>2. at \in [Calls -> 0..Len(hist)] /\ batch \in Batches /\ index \in Nat
  BY PoolAssumption DEF IInv, TypeOK
<1>3. /\ at["lp"] \in DOMAIN hist
      /\ \A c \in Calls \ {"lp"} : BatchOf(c) < batch => at[c] \in DOMAIN hist
  BY DEF IInv, ReadInv, Batch
<1>4. /\ hist' = hist /\ index' = index
      /\ at' = [c \in Calls |-> IF c # "lp" /\ BatchOf(c) = batch THEN b ELSE at[c]]
  BY DEF Batch
<1>5. at' \in [Calls -> 0..Len(hist)]
  BY <1>1, <1>2, <1>4
<1>6. \A c \in Calls \ {"lp"} : BatchOf(c) \in Nat /\ BatchOf(c) <= Max(Batches)
  BY <1>2, BatchesFacts
<1>7. batch \in Nat
  <2>1. Batches \subseteq Nat
    BY <1>6 DEF Batches
  <2>2. QED
    BY <1>2, <2>1
<1>8. at'["lp"] \in DOMAIN hist
  BY <1>3, <1>4 DEF Calls
<1>9. \A c \in Calls \ {"lp"} : BatchOf(c) <= batch => at'[c] \in DOMAIN hist
  <2>1. SUFFICES ASSUME NEW c \in Calls \ {"lp"}, BatchOf(c) <= batch
                 PROVE  at'[c] \in DOMAIN hist
    OBVIOUS
  <2>2. CASE BatchOf(c) = batch
    BY <1>1, <1>4, <2>2
  <2>3. CASE BatchOf(c) # batch
    <3>1. BatchOf(c) < batch
      BY <1>6, <1>7, <2>1, <2>3
    <3>2. QED
      BY <1>3, <1>4, <2>3, <3>1
  <2>4. QED
    BY <2>2, <2>3
<1>10. CASE batch = Max(Batches)
  <2>1. pc' = "done" /\ batch' = batch
    BY <1>10 DEF Batch
  <2>2. \A c \in Calls : at'[c] \in DOMAIN hist
    <3>1. \A c \in Calls \ {"lp"} : at'[c] \in DOMAIN hist
      BY <1>6, <1>9, <1>10
    <3>2. QED
      BY <1>8, <3>1
  <2>3. QED
    BY <1>2, <1>4, <1>5, <2>1, <2>2, ReadStep
<1>11. CASE batch # Max(Batches)
  <2>1. pc' = "batches" /\ batch' = Min({n \in Batches : n > batch})
    BY <1>11 DEF Batch, IInv, ReadInv
  <2>2. /\ batch' \in Batches
        /\ \A c \in Calls \ {"lp"} : BatchOf(c) < batch' => BatchOf(c) <= batch
    BY <1>2, <1>11, <2>1, BatchesFacts
  <2>3. \A c \in Calls \ {"lp"} : BatchOf(c) < batch' => at'[c] \in DOMAIN hist
    BY <1>9, <2>2
  <2>4. QED
    BY <1>4, <1>5, <1>8, <2>1, <2>2, <2>3, ReadStep
<1>12. QED
  BY <1>10, <1>11

\* A batch that fails ends the fetch.
LEMMA FailsStep ==
  ASSUME IInv, Fails
  PROVE  IInv'
<1>1. /\ hist' = hist /\ index' = index /\ at' = at /\ batch' = batch /\ pc' = "failed"
  BY DEF Fails
<1>2. at' \in [Calls -> 0..Len(hist)] /\ batch' \in Batches
  BY <1>1 DEF IInv, TypeOK
<1>3. UNCHANGED <<hist, index>> /\ pc' \in {"batches", "done", "none", "failed"}
  BY <1>1
<1>4. pc' # "batches" /\ pc' # "done"
  BY <1>1
<1>5. QED
  BY <1>2, <1>3, <1>4, ReadStep

\* Every step keeps the invariant.
LEMMA NextInv == IInv /\ [Next]_vars => IInv'
<1> SUFFICES ASSUME IInv, [Next]_vars PROVE IInv'
  OBVIOUS
<1>1. CASE \E deposit \in Deposits : Donate(deposit) \/ \E own \in BOOLEAN : Mint(deposit, own)
  BY <1>1, DonateStep, MintStep
<1>2. CASE \E liquidity \in Burns, own \in BOOLEAN : Burn(liquidity, own)
  BY <1>2, BurnStep
<1>3. CASE \E d \in Swaps : Swap(d)
  BY <1>3, SwapStep
<1>4. CASE Sync
  BY <1>4, SyncStep
<1>5. CASE SetFeeTo
  BY <1>5, SetFeeToStep
<1>6. CASE \E b \in Answering : LpBalance(b) \/ Batch(b)
  BY <1>6, LpBalanceStep, BatchStep
<1>7. CASE Fails
  BY <1>7, FailsStep
<1>8. CASE UNCHANGED vars
  <2>1. /\ hist' = hist /\ index' = index /\ at' = at /\ batch' = batch /\ pc' = pc
    BY <1>8 DEF vars, read
  <2>2. Batches' = Batches /\ \A c \in Calls : BatchOf(c)' = BatchOf(c)
    BY <2>1 DEF Batches, BatchOf
  <2>3. TypeOK'
    BY <2>1, <2>2 DEF IInv, TypeOK
  <2>4. LiveInv' /\ ReadInv'
    BY <2>1, <2>2 DEF IInv, LiveInv, ReadInv
  <2>5. QED
    BY <2>3, <2>4 DEF IInv
<1>9. QED
  BY <1>1, <1>2, <1>3, <1>4, <1>5, <1>6, <1>7, <1>8 DEF Next, Chain

\* The inductive invariant: the pair is live at every block, and what is read of
\* it comes from one of them.
THEOREM PoolInvariant == Spec => []IInv
<1>1. Init => IInv
  BY InitInv
<1>2. IInv /\ [Next]_vars => IInv'
  BY NextInv
<1>3. QED
  BY <1>1, <1>2, PTL DEF Spec

\* The pair, the positions of its calls and the blocks they were answered at
\* have the types stated in V2Pool.
THEOREM PoolTypeOK == Spec => []TypeOK
<1>1. IInv => TypeOK
  BY DEF IInv
<1>2. QED
  BY <1>1, PoolInvariant, PTL

-----------------------------------------------------------------------------
(* What is shown. *)

\* What is computed from calls of one block is what burning would pay there.
LEMMA ShownStep == IInv => ShownIsPayout
<1> SUFFICES ASSUME IInv, pc = "done", NEW t \in Tokens, NEW b \in DOMAIN hist,
                    \A c \in (Calls \ Tokens) \cup {t} : Reply(c, at[c]) = Reply(c, b)
             PROVE  Amount(t, at) = Payout(t, hist[b].mine, hist[b])
  BY DEF ShownIsPayout
<1>1. PICK p \in PairState : p = hist[b] /\ Live(p)
  BY LatestFacts
<1>2. t \in {"token0", "token1"}
  BY DEF Tokens
<1>3. /\ hist[at["lp"]].mine = p.mine
      /\ hist[at["feeTo"]].feeTo = p.feeTo
      /\ hist[at["totalSupply"]].supply = p.supply
      /\ hist[at["kLast"]].kLast = p.kLast
  <2>1. \A c \in {"lp", "feeTo", "totalSupply", "kLast"} : Reply(c, at[c]) = Reply(c, b)
    BY DEF Calls, Tokens
  <2>2. hist[at["lp"]].mine = p.mine
    BY <1>1, <2>1 DEF Reply, Tokens
  <2>3. Reply("feeTo", at["feeTo"]) = Reply("feeTo", b)
    BY <2>1
  <2>4. /\ Reply("feeTo", at["feeTo"]) = hist[at["feeTo"]].feeTo
        /\ Reply("feeTo", b) = hist[b].feeTo
    BY DEF Reply, Tokens
  <2>5. hist[at["feeTo"]].feeTo = p.feeTo
    BY <1>1, <2>3, <2>4, Zenon
  <2>6. hist[at["totalSupply"]].supply = p.supply
    BY <1>1, <2>1 DEF Reply, Tokens
  <2>7. hist[at["kLast"]].kLast = p.kLast
    BY <1>1, <2>1 DEF Reply, Tokens
  <2>8. QED
    BY <2>2, <2>5, <2>6, <2>7
<1>4. <<hist[at["reserves"]].res0, hist[at["reserves"]].res1>> = <<p.res0, p.res1>>
  BY <1>1 DEF Reply, Calls, Tokens
<1>5. hist[at["reserves"]].res0 = p.res0 /\ hist[at["reserves"]].res1 = p.res1
  BY <1>4
<1>6. Balance(t, at[t]) = Bal(t, p)
  BY <1>1, <1>2 DEF Reply, Tokens, Balance, Bal
<1> DEFINE s == p.supply + Owed(p)
<1>7. s \in Nat /\ s # 0
  BY <1>1, OwedFacts DEF PairState, Live
<1>8. pendingProtocolLiquidity(p.supply, p.res0, p.res1, p.kLast, p.feeTo) = Owed(p)
  BY <1>1, OwedFacts
<1>9. Amount(t, at) = mulDiv(p.mine, Bal(t, p), s)
  BY <1>3, <1>5, <1>6, <1>8 DEF Amount
<1>10. Payout(t, p.mine, p) = (p.mine * Bal(t, p)) \div s
  BY DEF Payout, Bal
<1> HIDE DEF s
<1>11. QED
  BY <1>1, <1>7, <1>9, <1>10 DEF mulDiv

\* An amount that positions shows is what burning the wallet's LP tokens would
\* have paid, the protocol fee taken, at any block that gives the answers that
\* the code read, for every pair and every division of the calls into batches.
THEOREM PayoutIsShown == Spec => []ShownIsPayout
<1>1. IInv => ShownIsPayout
  BY ShownStep
<1>2. QED
  BY <1>1, PoolInvariant, PTL

-----------------------------------------------------------------------------
(* What another's mint or burn does to it. *)

\* The amount shown for a live pair is the wallet's share, the fee taken.
LEMMA SharedFacts ==
  ASSUME NEW p \in PairState, Live(p), NEW n, hist[n] = p, NEW t \in Tokens
  PROVE  AmountAt(t, n) = (p.mine * Bal(t, p)) \div (p.supply + Owed(p))
<1> DEFINE s == p.supply + Owed(p)
<1>1. s \in Nat /\ s # 0
  BY OwedFacts DEF PairState, Live
<1>2. pendingProtocolLiquidity(p.supply, p.res0, p.res1, p.kLast, p.feeTo) = Owed(p)
  BY OwedFacts
<1>3. AmountAt(t, n) = mulDiv(p.mine, Bal(t, p), s)
  BY <1>2 DEF AmountAt, Amount, Balance, Bal, Calls, Tokens
<1> HIDE DEF s
<1>4. AmountAt(t, n) = (p.mine * Bal(t, p)) \div s
  BY <1>1, <1>3 DEF mulDiv
<1>5. QED
  BY <1>4 DEF s

\* The share in the newest block, from the pair in it.
LEMMA SharedFactsPrime ==
  ASSUME NEW p \in PairState, Live(p), NEW n \in Nat, n = Len(hist)', hist'[n] = p, NEW t \in Tokens
  PROVE  AmountAt(t, Len(hist))' = (p.mine * Bal(t, p)) \div (p.supply + Owed(p))
<1> DEFINE s == p.supply + Owed(p)
<1>1. s \in Nat /\ s # 0
  BY OwedFacts DEF PairState, Live
<1>2. pendingProtocolLiquidity(p.supply, p.res0, p.res1, p.kLast, p.feeTo) = Owed(p)
  BY OwedFacts
<1>3. AmountAt(t, Len(hist))' = mulDiv(p.mine, Bal(t, p), s)
  BY <1>2 DEF AmountAt, Amount, Balance, Bal, Calls, Tokens
<1> HIDE DEF s
<1>4. AmountAt(t, Len(hist))' = (p.mine * Bal(t, p)) \div s
  BY <1>1, <1>3 DEF mulDiv
<1>5. QED
  BY <1>4 DEF s

\* A deposit of d brings at least the share of the balance x that is minted.
LEMMA MintShare ==
  ASSUME NEW x \in Nat, NEW d \in Nat, NEW s \in Nat, NEW m \in Nat, m * x <= d * s
  PROVE  x * (s + m) <= (x + d) * s
<1>1. x * (s + m) = x * s + m * x /\ (x + d) * s = x * s + d * s
  OBVIOUS
<1>2. x * s \in Nat /\ m * x \in Nat /\ d * s \in Nat
  BY ProductFacts
<1>3. QED
  BY <1>1, <1>2

\* Somebody else's mint rounds in favour of those who are there.
LEMMA MintKeepsShare ==
  ASSUME NEW p \in PairState, Live(p), p.bal0 = p.res0, p.bal1 = p.res1,
         NEW deposit \in Nat \X Nat, NEW own \in BOOLEAN, ~ own,
         NEW q, q = AfterMint(p, deposit, "mint", own),
         NEW t \in Tokens
  PROVE  (p.mine * Bal(t, p)) \div (p.supply + Owed(p))
           <= (q.mine * Bal(t, q)) \div (q.supply + Owed(q))
<1> DEFINE paid == Paid(p, deposit)
           m == Minted(paid)
           s == p.supply + Owed(p)
           d == IF t = "token0" THEN deposit[1] ELSE deposit[2]
           x == Bal(t, p)
<1>1. /\ p.supply \in Nat /\ p.supply > 0 /\ p.mine \in Nat /\ Owed(p) \in Nat
      /\ p.bal0 \in Nat /\ p.bal1 \in Nat
  BY OwedFacts DEF PairState, Live
<1>2. s \in Nat /\ s > 0
  BY <1>1
<1>3. deposit[1] \in Nat /\ deposit[2] \in Nat
  OBVIOUS
<1>4. d \in Nat /\ x \in Nat
  BY <1>1, <1>3 DEF Bal
<1>5. /\ paid \in PairState /\ Live(paid) /\ Owed(paid) = Owed(p)
      /\ paid.bal0 = p.bal0 + deposit[1] /\ paid.bal1 = p.bal1 + deposit[2]
      /\ paid.res0 = p.bal0 /\ paid.res1 = p.bal1 /\ paid.supply = p.supply
  BY PaidFacts
<1>6. /\ m \in Nat
      /\ m * paid.res0 <= (paid.bal0 - paid.res0) * (paid.supply + Owed(paid))
      /\ m * paid.res1 <= (paid.bal1 - paid.res1) * (paid.supply + Owed(paid))
  <2> HIDE DEF paid
  <2>1. QED
    BY <1>5, MintedFacts
<1>7. /\ q.supply = s + m /\ Owed(q) = 0 /\ q.mine = p.mine
      /\ q.bal0 = p.bal0 + deposit[1] /\ q.bal1 = p.bal1 + deposit[2]
  <2>1. "mint" \in {"mint", "own"} /\ m = Minted(Paid(p, deposit))
    OBVIOUS
  <2> HIDE DEF m
  <2>2. /\ Owed(q) = 0 /\ q.supply = p.supply + Owed(p) + m
        /\ q.mine = IF own THEN p.mine + m ELSE p.mine
        /\ q.bal0 = p.bal0 + deposit[1] /\ q.bal1 = p.bal1 + deposit[2]
    BY <2>1, AfterMintFacts
  <2>3. QED
    BY <2>2
<1>8. m * x <= d * s
  <2>1. paid.bal0 - paid.res0 = deposit[1] /\ paid.bal1 - paid.res1 = deposit[2]
    BY <1>1, <1>3, <1>5
  <2>2. m * p.bal0 <= deposit[1] * s /\ m * p.bal1 <= deposit[2] * s
    BY <1>5, <1>6, <2>1
  <2>3. QED
    BY <2>2 DEF Bal
<1>9. Bal(t, q) = x + d
  BY <1>7 DEF Bal
<1> HIDE DEF paid, m, s, d, x
<1>10. x * (s + m) <= (x + d) * s
  BY <1>2, <1>4, <1>6, <1>8, MintShare
<1>11. (p.mine * x) \div s <= (p.mine * (x + d)) \div (s + m)
  <2>1. x + d \in Nat /\ s + m \in Nat /\ s + m > 0
    BY <1>2, <1>4, <1>6
  <2>2. QED
    BY <1>1, <1>2, <1>4, <1>10, <2>1, ShareGrows
<1>12. q.supply + Owed(q) = s + m
  <2>1. q.supply = s + m /\ Owed(q) = 0
    BY <1>7
  <2>2. s + m \in Nat
    BY <1>2, <1>6
  <2>3. QED
    BY <2>1, <2>2
<1>13. QED
  BY <1>7, <1>9, <1>11, <1>12 DEF s, x

\* Somebody else's burn rounds in favour of those who stay.
LEMMA BurnKeepsShare ==
  ASSUME NEW p \in PairState, Live(p), NEW l \in Nat, l <= p.supply - p.mine - 1,
         NEW own \in BOOLEAN, ~ own, NEW q, q = AfterBurn(p, l, "burn", own), NEW t \in Tokens
  PROVE  (p.mine * Bal(t, p)) \div (p.supply + Owed(p))
           <= (q.mine * Bal(t, q)) \div (q.supply + Owed(q))
<1>1. PICK s \in Nat : s = p.supply + Owed(p)
  BY OwedFacts DEF PairState
<1>2. /\ q.supply = s - l /\ Owed(q) = 0 /\ q.mine = p.mine /\ l < p.supply
      /\ q.bal0 = p.bal0 - Payout("token0", l, p) /\ q.bal1 = p.bal1 - Payout("token1", l, p)
  <2>1. "burn" \in {"burn", "own"}
        /\ l <= IF own THEN p.mine ELSE p.supply - p.mine - 1
    OBVIOUS
  <2>2. /\ Owed(q) = 0 /\ l < p.supply /\ q.supply = p.supply + Owed(p) - l
        /\ q.mine = IF own THEN p.mine - l ELSE p.mine
        /\ q.bal0 = p.bal0 - Payout("token0", l, p) /\ q.bal1 = p.bal1 - Payout("token1", l, p)
    BY <2>1, AfterBurnFacts
  <2>3. q.mine = p.mine
    BY <2>2
  <2>4. q.supply = s - l
    <3>1. q.supply = p.supply + Owed(p) - l
      BY <2>2
    <3>2. QED
      BY <1>1, <3>1, OwedFacts DEF PairState
  <2>5. QED
    BY <2>2, <2>3, <2>4
<1>3. p.mine \in Nat /\ p.supply \in Nat /\ Owed(p) \in Nat
  BY OwedFacts DEF PairState
<1>4. l < s /\ s > 0
  BY <1>1, <1>2, <1>3
<1> DEFINE x == Bal(t, p)
           y == Payout(t, l, p)
<1>5. /\ y \in Nat /\ y < x /\ x * (s - l) <= (x - y) * s
  BY <1>1, <1>2, PayoutFacts
<1>6. Bal(t, q) = x - y /\ x \in Nat
  BY <1>2 DEF Bal, Tokens, PairState
<1> HIDE DEF x, y
<1>7. PICK u \in Nat : u = s - l /\ u > 0
  BY <1>4
<1>8. PICK z \in Nat : z = x - y
  BY <1>5, <1>6
<1>9. (p.mine * x) \div s <= (p.mine * z) \div u
  BY <1>3, <1>4, <1>5, <1>6, <1>7, <1>8, ShareGrows
<1>10. q.supply + Owed(q) = u
  <2>1. q.supply = u /\ Owed(q) = 0
    BY <1>2, <1>7
  <2>2. QED
    BY <2>1
<1>11. QED
  BY <1>1, <1>2, <1>6, <1>8, <1>9, <1>10 DEF x

\* The block that another's mint or burn makes.
LEMMA OthersBlock ==
  ASSUME IInv, Next, hist' # hist, Latest'.event \in {"mint", "burn"}
  PROVE  \E own \in BOOLEAN :
           /\ ~ own
           /\ \/ \E deposit \in Deposits : Block(AfterMint(Latest, deposit, "mint", own))
              \/ \E l \in Burns : /\ l <= Latest.supply - Latest.mine - 1
                                  /\ Block(AfterBurn(Latest, l, "burn", own))
<1>1. PICK p \in PairState : p = Latest /\ Live(p)
  BY LatestFacts
<1>2. ASSUME NEW q, Block(q)
      PROVE  Latest' = q
  <2>1. hist \in Seq(PairState) /\ hist' = Append(hist, q)
    BY <1>2 DEF Block, IInv, TypeOK
  <2>2. QED
    BY <2>1 DEF Latest
<1>3. ASSUME NEW deposit \in Deposits, NEW own \in BOOLEAN, Mint(deposit, own)
      PROVE  ~ own /\ Block(AfterMint(Latest, deposit, "mint", own))
  <2>1. CASE own
    <3>1. Block(AfterMint(Latest, deposit, "own", own))
      BY <1>3, <2>1 DEF Mint
    <3>2. AfterMint(p, deposit, "own", own).event = "own"
      BY DEF AfterMint, Settled, PairState
    <3>3. QED
      BY <1>1, <1>2, <3>1, <3>2
  <2>2. CASE ~ own
    BY <1>3, <2>2 DEF Mint
  <2>3. QED
    BY <2>1, <2>2
<1>4. ASSUME NEW l \in Burns, NEW own \in BOOLEAN, Burn(l, own)
      PROVE  /\ ~ own
             /\ l <= Latest.supply - Latest.mine - 1
             /\ Block(AfterBurn(Latest, l, "burn", own))
  <2>1. CASE own
    <3>1. Block(AfterBurn(Latest, l, "own", own))
      BY <1>4, <2>1 DEF Burn
    <3>2. AfterBurn(p, l, "own", own).event = "own"
      BY DEF AfterBurn, Settled, PairState
    <3>3. QED
      BY <1>1, <1>2, <3>1, <3>2
  <2>2. CASE ~ own
    BY <1>4, <2>2 DEF Burn
  <2>3. QED
    BY <2>1, <2>2
<1>5. ASSUME NEW deposit \in Deposits, Donate(deposit)
      PROVE  FALSE
  <2>1. Block([p EXCEPT !.bal0 = @ + deposit[1], !.event = "donate"])
    BY <1>1, <1>5 DEF Donate
  <2>2. Latest'.event = "donate"
    BY <1>2, <2>1 DEF PairState
  <2>3. QED
    BY <2>2
<1>6. ASSUME NEW d \in Swaps, Swap(d)
      PROVE  FALSE
  <2> DEFINE r == [p EXCEPT !.bal0 = @ + d[1], !.bal1 = @ + d[2], !.event = "swap"]
  <2>1. Block([r EXCEPT !.res0 = r.bal0, !.res1 = r.bal1])
    BY <1>1, <1>6 DEF Swap
  <2>2. [r EXCEPT !.res0 = r.bal0, !.res1 = r.bal1].event = "swap"
    BY DEF PairState
  <2>3. QED
    BY <1>2, <2>1, <2>2
<1>7. ASSUME Sync
      PROVE  FALSE
  <2>1. Block([p EXCEPT !.res0 = p.bal0, !.res1 = p.bal1, !.event = "sync"])
    BY <1>1, <1>7 DEF Sync
  <2>2. Latest'.event = "sync"
    BY <1>2, <2>1 DEF PairState
  <2>3. QED
    BY <2>2
<1>8. ASSUME SetFeeTo
      PROVE  FALSE
  <2>1. Block([p EXCEPT !.feeTo = ~p.feeTo, !.event = "feeTo"])
    BY <1>1, <1>8 DEF SetFeeTo
  <2>2. Latest'.event = "feeTo"
    BY <1>2, <2>1 DEF PairState
  <2>3. QED
    BY <2>2
<1>9. Chain
  BY DEF Next, LpBalance, Batch, Fails
<1>10. QED
  BY <1>3, <1>4, <1>5, <1>6, <1>7, <1>8, <1>9 DEF Chain

\* A step that mints or burns leaves the wallet no less.
LEMMA DilutionStep ==
  ASSUME IInv, Next, hist' # hist, Latest'.event \in {"mint", "burn"},
         Latest.bal0 = Latest.res0, Latest.bal1 = Latest.res1, NEW t \in Tokens
  PROVE  AmountAt(t, Len(hist))' >= AmountAt(t, Len(hist))
<1>1. PICK p \in PairState : p = Latest /\ Live(p)
  BY LatestFacts
<1>2. AmountAt(t, Len(hist)) = (p.mine * Bal(t, p)) \div (p.supply + Owed(p))
  BY <1>1, SharedFacts DEF Latest
<1>3. ASSUME NEW q \in PairState, Live(q), Block(q),
             (p.mine * Bal(t, p)) \div (p.supply + Owed(p))
               <= (q.mine * Bal(t, q)) \div (q.supply + Owed(q))
      PROVE  AmountAt(t, Len(hist))' >= AmountAt(t, Len(hist))
  <2>1. Latest' = q /\ Len(hist') = Len(hist) + 1 /\ Len(hist) \in Nat
    BY <1>3, BlockStep, LatestFacts
  <2>2. PICK n \in Nat : n = Len(hist') /\ hist'[n] = q
    BY <2>1 DEF Latest
  <2>3. AmountAt(t, Len(hist))' = (q.mine * Bal(t, q)) \div (q.supply + Owed(q))
    BY <1>3, <2>2, SharedFactsPrime
  <2>4. QED
    BY <1>2, <1>3, <2>3
<1> PICK own \in BOOLEAN :
      /\ ~ own
      /\ \/ \E deposit \in Deposits : Block(AfterMint(Latest, deposit, "mint", own))
         \/ \E l \in Burns : /\ l <= Latest.supply - Latest.mine - 1
                             /\ Block(AfterBurn(Latest, l, "burn", own))
  BY OthersBlock
<1>4. CASE \E deposit \in Deposits : Block(AfterMint(Latest, deposit, "mint", own))
  <2>1. PICK deposit \in Deposits : Block(AfterMint(p, deposit, "mint", own))
    BY <1>1, <1>4
  <2>2. deposit \in Nat \X Nat
    BY PoolAssumption
  <2>3. PICK q : q = AfterMint(p, deposit, "mint", own)
    OBVIOUS
  <2>4. q \in PairState /\ Live(q)
    BY <1>1, <2>2, <2>3, AfterMintFacts
  <2>5. (p.mine * Bal(t, p)) \div (p.supply + Owed(p))
          <= (q.mine * Bal(t, q)) \div (q.supply + Owed(q))
    BY <1>1, <2>2, <2>3, MintKeepsShare
  <2>6. QED
    BY <1>3, <2>1, <2>3, <2>4, <2>5
<1>5. CASE \E l \in Burns : /\ l <= Latest.supply - Latest.mine - 1
                            /\ Block(AfterBurn(Latest, l, "burn", own))
  <2>1. PICK l \in Burns : l <= p.supply - p.mine - 1 /\ Block(AfterBurn(p, l, "burn", own))
    BY <1>1, <1>5
  <2>2. l \in Nat
    BY PoolAssumption
  <2>3. PICK q : q = AfterBurn(p, l, "burn", own)
    OBVIOUS
  <2>4. q \in PairState /\ Live(q)
    BY <1>1, <2>1, <2>2, <2>3, AfterBurnFacts
  <2>5. (p.mine * Bal(t, p)) \div (p.supply + Owed(p))
          <= (q.mine * Bal(t, q)) \div (q.supply + Owed(q))
    BY <1>1, <2>1, <2>2, <2>3, BurnKeepsShare
  <2>6. QED
    BY <1>3, <2>1, <2>3, <2>4, <2>5
<1>6. QED
  BY <1>4, <1>5

\* No mint or burn by others lowers an amount that positions shows, whatever
\* the pair's balances, the amounts and the fee that is owed: the code has taken
\* the fee before the pair does.
THEOREM ShareNeverDiluted == Spec => NeverDiluted
<1>1. IInv /\ [Next]_vars
        => [(hist' # hist /\ Latest'.event \in {"mint", "burn"}
               /\ Latest.bal0 = Latest.res0 /\ Latest.bal1 = Latest.res1)
            => \A t \in Tokens : AmountAt(t, Len(hist))' >= AmountAt(t, Len(hist))]_hist
  <2> SUFFICES ASSUME IInv, [Next]_vars, hist' # hist, Latest'.event \in {"mint", "burn"},
                      Latest.bal0 = Latest.res0, Latest.bal1 = Latest.res1, NEW t \in Tokens
               PROVE  AmountAt(t, Len(hist))' >= AmountAt(t, Len(hist))
    OBVIOUS
  <2>1. Next
    BY DEF vars
  <2>2. QED
    BY <2>1, DilutionStep
<1>2. QED
  BY <1>1, PoolInvariant, PTL DEF Spec, NeverDiluted

=============================================================================
