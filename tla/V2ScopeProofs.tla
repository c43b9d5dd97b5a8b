--------------------------- MODULE V2ScopeProofs ---------------------------
(***************************************************************************)
(* The scope of a wallet in uniswap-v2 for every number of pairs, farming  *)
(* pools, pages and lagging providers.  The invariant says which transfers *)
(* a sync has accounted for so far, what the cached rows therefore cover,  *)
(* and at which blocks positions has read what it shows.                   *)
(***************************************************************************)
EXTENDS V2Scope, FiniteSetTheorems, TLAPS

Received(i) == chain[i].kind \in TransferKinds("to")
Moved(i) == chain[i].kind \in TransferKinds("from") \cup TransferKinds("to")

\* No balance is negative, and nothing moves a pair's tokens before the factory
\* created it.
ChainInv ==
  /\ Latest <= MaxBlocks
  /\ \A b \in 0..Latest : /\ \A f \in Farms : Staked(f, b) >= 0
                          /\ \A c \in Contracts : Held(c, b) >= 0
  /\ \A i \in 1..Latest : (Moved(i) /\ Contract(chain[i]) \in Pairs)
                            => Contract(chain[i]) \in Created(i)

\* Every pair that the wallet received from a block up to another is in a set.
Covers(block, since, set) ==
  \A i \in 1..Latest : (/\ since <= i /\ i <= block
                        /\ Received(i) /\ Contract(chain[i]) \in Pairs)
                         => Contract(chain[i]) \in set

\* At some block since `block` nothing outside a set was to be seen in the farming
\* pools.
Farmed(block, silent, set) ==
  \E a \in block..Latest : \A f \in Farms : Active(f, a, silent) => f \in set

\* What may be cached: pairs of the factory, and what was named and looks like one.
Known(named) == Created(Latest) \cup (named \cap Lookalikes)

Answered == lo <= Latest

PagingInv ==
  (pc = "page" /\ direction = "to") =>
    /\ Answered
    /\ \A i \in 1..Latest :
         (i <= lo /\ i >= cursor /\ Received(i)) => Contract(chain[i]) \in found

SyncInv ==
  /\ pc \in {"page", "logs", "tokens", "getPair", "activeFarms"} => mode = "user"
  /\ pc \in SyncCalls => mode # "positions"
  /\ pc \in {"length", "list"} => mode # "user"
  /\ (pc \in {"tokens", "getPair", "activeFarms", "build", "setPairs", "setFarms"} /\ mode = "user") =>
       Answered /\ (~gaps.capped => Covers(lo, gaps.since, found))
  /\ (pc \in {"build", "setPairs", "setFarms"} /\ mode = "user") => Farmed(lo, gaps.silent, active)
  /\ pc \in {"activeFarms", "build"} => found \subseteq Pairs
  /\ pc \in {"setPairs", "setFarms"} =>
       /\ Answered
       /\ found \subseteq Known(gaps.named)
       /\ \A f \in active : pairOf[f] \in found
  /\ pc = "setFarms" => pairs = found /\ scope.kind = "torn"

ScopeInv ==
  /\ pairs \subseteq Known(scope.gaps.named)
  /\ scope.kind = "user" =>
       /\ scope.lo <= Latest
       /\ ~scope.gaps.capped => Covers(scope.lo, scope.gaps.since, pairs)
       /\ Farmed(scope.lo, scope.gaps.silent, farms)
       /\ \A f \in farms : pairOf[f] \in pairs

\* What positions shows was read at block d (pairs) and at block e (farms).
ReadAt(d, e) ==
  /\ \A c \in pairs : direct[c] = Held(c, d)
  /\ \A f \in farms : staked[f] = Staked(f, e)
  /\ active = {f \in farms : Active(f, e, gaps.silent)}

PositionsInv ==
  /\ pc \in Reads => mode = "positions"
  /\ pc = "balances" => lo = MaxBlocks /\ hi = 0
  /\ pc = "stakes" => /\ lo = hi /\ hi <= Latest
                      /\ \A c \in pairs : direct[c] = Held(c, lo)
  /\ (pc = "done" /\ mode = "positions") =>
       \/ pairs = {}
       \/ /\ lo <= hi /\ hi <= Latest
          /\ \E d, e \in lo..hi : ReadAt(d, e) /\ (ordered => d = lo /\ e = hi)

IInv == TypeOK /\ ChainInv /\ PagingInv /\ SyncInv /\ ScopeInv /\ PositionsInv

-----------------------------------------------------------------------------
(* Sums over finite sets. *)

\* A function that adds up g over every subset of S, one element at a time.
Adds(g, S, h) ==
  h = [s \in SUBSET S |->
         IF s = {} THEN 0
         ELSE g[CHOOSE x \in s : TRUE] + h[s \ {CHOOSE x \in s : TRUE}]]

\* The sum that SumFunctionOnSet chooses is the value of such a function.
LEMMA SumIsChosen ==
  ASSUME NEW g, NEW S
  PROVE  SumFunctionOnSet(g, S) = (CHOOSE h : Adds(g, S, h))[S]
BY Zenon DEF SumFunctionOnSet, FoldFunctionOnSet, MapThenFoldSet, Adds

\* A family of subsets of a finite set has a member that includes no other.
LEMMA LeastSet ==
  ASSUME NEW S, IsFiniteSet(S), NEW F, F \subseteq SUBSET S, F # {}
  PROVE  \E T \in F : \A U \in F : U \subseteq T => U = T
<1>1. F \subseteq FiniteSubsetsOf(S)
  BY FS_FiniteSubsetsOfFinite
<1>2. \E T \in F : \A U \in F : ~ (<<U, T>> \in StrictSubsetOrdering(S))
  BY <1>1, WFMin, FS_StrictSubsetOrderingWellFounded
<1>3. PICK T \in F : \A U \in F : ~ (<<U, T>> \in StrictSubsetOrdering(S))
  BY <1>2
<1>4. ASSUME NEW U \in F, U \subseteq T PROVE U = T
  <2>1. U \in SUBSET S /\ T \in SUBSET S
    OBVIOUS
  <2>2. U # T => <<U, T>> \in StrictSubsetOrdering(S)
    BY <2>1, <1>4 DEF StrictSubsetOrdering
  <2>3. QED
    BY <2>2, <1>3
<1>5. QED
  BY <1>4

\* Two functions that add up agree where both are defined.
LEMMA AddsAgree ==
  ASSUME NEW g, NEW S, IsFiniteSet(S), NEW T \in SUBSET S,
         NEW h, NEW k, Adds(g, S, h), Adds(g, T, k)
  PROVE  \A U \in SUBSET T : h[U] = k[U]
<1> DEFINE c(s) == CHOOSE x \in s : TRUE
           F == {U \in SUBSET T : h[U] # k[U]}
<1>1. SUFFICES ASSUME F # {}
               PROVE  FALSE
  OBVIOUS
<1>2. F \subseteq SUBSET S
  OBVIOUS
<1> HIDE DEF F
<1>3. PICK U \in F : \A V \in F : V \subseteq U => V = U
  BY <1>1, <1>2, LeastSet
<1> USE DEF F
<1>4. \A V \in SUBSET T : h[V] = IF V = {} THEN 0 ELSE g[c(V)] + h[V \ {c(V)}]
  BY DEF Adds
<1>5. \A V \in SUBSET T : k[V] = IF V = {} THEN 0 ELSE g[c(V)] + k[V \ {c(V)}]
  BY DEF Adds
<1>6. CASE U = {}
  BY <1>4, <1>5, <1>6
<1>7. CASE U # {}
  <2>1. c(U) \in U
    BY <1>7
  <2> HIDE DEF c
  <2>2. U \ {c(U)} \in SUBSET T /\ U \ {c(U)} # U
    BY <2>1
  <2>3. h[U \ {c(U)}] = k[U \ {c(U)}]
    BY <2>2, <1>3
  <2>4. QED
    BY <2>3, <1>4, <1>5, <1>7
<1>8. QED
  BY <1>6, <1>7

\* There is such a function: on a least set without one it could be defined from
\* the functions of smaller sets.
LEMMA SumExists ==
  ASSUME NEW g, NEW S, IsFiniteSet(S)
  PROVE  \E h : Adds(g, S, h)
<1> DEFINE c(s) == CHOOSE x \in s : TRUE
           F == {T \in SUBSET S : ~ \E h : Adds(g, T, h)}
           Total(U) == (CHOOSE h : Adds(g, U, h))[U]
<1>1. SUFFICES ASSUME F # {}
               PROVE  FALSE
  OBVIOUS
<1>2. PICK T \in F : \A V \in F : V \subseteq T => V = T
  <2>1. F \subseteq SUBSET S
    OBVIOUS
  <2> HIDE DEF F
  <2>2. QED
    BY <1>1, <2>1, LeastSet
<1>3. \A V \in SUBSET T : V # T => Adds(g, V, CHOOSE h : Adds(g, V, h))
  BY <1>2
<1> DEFINE k == [s \in SUBSET T |-> IF s = {} THEN 0 ELSE g[c(s)] + Total(s \ {c(s)})]
<1>4. ASSUME NEW s \in SUBSET T, s # {}
      PROVE  k[s \ {c(s)}] = Total(s \ {c(s)})
  <2> DEFINE U == s \ {c(s)}
             d == U \ {c(U)}
             hU == CHOOSE h : Adds(g, U, h)
             hd == CHOOSE h : Adds(g, d, h)
  <2>1. c(s) \in s
    BY <1>4
  <2> HIDE DEF c
  <2>2. U \in SUBSET T /\ U # T /\ Adds(g, U, hU)
    BY <2>1, <1>3
  <2>3. Total(U) = IF U = {} THEN 0 ELSE g[c(U)] + hU[d]
    BY <2>2 DEF Adds, c
  <2>4. d \in SUBSET U /\ d # T /\ Adds(g, d, hd)
    BY <2>1, <1>3
  <2>5. IsFiniteSet(U)
    BY <2>2, FS_Subset
  <2>6. hU[d] = hd[d]
    BY <2>2, <2>4, <2>5, AddsAgree
  <2>7. k[U] = IF U = {} THEN 0 ELSE g[c(U)] + hd[d]
    BY <2>2
  <2>8. QED
    BY <2>3, <2>6, <2>7
<1>5. Adds(g, T, k)
  <2> DEFINE m(s) == IF s = {} THEN 0 ELSE g[c(s)] + k[s \ {c(s)}]
  <2>1. ASSUME NEW s \in SUBSET T
        PROVE  k[s] = m(s)
    <3> HIDE DEF c, Total
    <3>1. k[s] = IF s = {} THEN 0 ELSE g[c(s)] + Total(s \ {c(s)})
      OBVIOUS
    <3> HIDE DEF k
    <3>2. QED
      BY <3>1, <1>4
  <2>2. k = [s \in SUBSET T |-> k[s]]
    OBVIOUS
  <2> HIDE DEF k
  <2>3. k = [s \in SUBSET T |-> m(s)]
    BY <2>1, <2>2, Zenon
  <2>4. QED
    BY <2>3, Zenon DEF Adds
<1>6. QED
  BY <1>5

\* A sum, taken apart at the element that is chosen first.
LEMMA SumChosen ==
  ASSUME NEW g, NEW S, IsFiniteSet(S)
  PROVE  /\ SumFunctionOnSet(g, {}) = 0
         /\ S # {} => \E x \in S :
              SumFunctionOnSet(g, S) = g[x] + SumFunctionOnSet(g, S \ {x})
<1> DEFINE c(s) == CHOOSE x \in s : TRUE
           h == CHOOSE f : Adds(g, S, f)
           R == S \ {c(S)}
           k == CHOOSE f : Adds(g, R, f)
<1>1. Adds(g, S, h) /\ SumFunctionOnSet(g, S) = h[S]
  BY SumExists, SumIsChosen
<1>2. SumFunctionOnSet(g, {}) = 0
  <2> DEFINE e == CHOOSE f : Adds(g, {}, f)
  <2>1. Adds(g, {}, e) /\ SumFunctionOnSet(g, {}) = e[{}]
    BY SumExists, SumIsChosen, FS_EmptySet
  <2>2. QED
    BY <2>1 DEF Adds
<1>3. ASSUME S # {}
      PROVE  SumFunctionOnSet(g, S) = g[c(S)] + SumFunctionOnSet(g, R) /\ c(S) \in S
  <2>1. c(S) \in S
    BY <1>3
  <2>2. h[S] = g[c(S)] + h[R]
    BY <1>1, <1>3 DEF Adds
  <2>3. IsFiniteSet(R) /\ R \in SUBSET S
    BY FS_Subset
  <2>4. Adds(g, R, k) /\ SumFunctionOnSet(g, R) = k[R]
    BY <2>3, SumExists, SumIsChosen
  <2>5. h[R] = k[R]
    BY <1>1, <2>3, <2>4, AddsAgree
  <2>6. QED
    BY <1>1, <2>1, <2>2, <2>4, <2>5
<1>4. QED
  BY <1>2, <1>3

\* A sum, taken apart at any element.
LEMMA SumSplit ==
  ASSUME NEW S, IsFiniteSet(S), NEW g \in [S -> Int]
  PROVE  /\ SumFunctionOnSet(g, {}) = 0
         /\ \A T \in SUBSET S :
              /\ SumFunctionOnSet(g, T) \in Int
              /\ \A x \in T : SumFunctionOnSet(g, T) = g[x] + SumFunctionOnSet(g, T \ {x})
<1> DEFINE Sm(T) == SumFunctionOnSet(g, T)
           Good(T) == /\ Sm(T) \in Int
                      /\ \A x \in T : Sm(T) = g[x] + Sm(T \ {x})
           F == {T \in SUBSET S : ~Good(T)}
<1>1. Sm({}) = 0
  BY SumChosen, FS_EmptySet
<1>2. ASSUME NEW T \in SUBSET S, T # {}
      PROVE  \E y \in T : Sm(T) = g[y] + Sm(T \ {y})
  BY <1>2, SumChosen, FS_Subset
<1>3. ASSUME F # {}
      PROVE  FALSE
  <2>1. F \subseteq SUBSET S
    OBVIOUS
  <2> HIDE DEF F
  <2>2. PICK T \in F : \A V \in F : V \subseteq T => V = T
    BY <1>3, <2>1, LeastSet
  <2> USE DEF F
  <2> HIDE DEF Sm
  <2>3. \A V \in SUBSET T : V # T => Good(V)
    BY <2>2
  <2>4. T # {}
    <3>1. SUFFICES ASSUME T = {}
                   PROVE  FALSE
      OBVIOUS
    <3>2. Sm(T) = 0
      BY <3>1, <1>1
    <3>3. Good(T)
      BY <3>1, <3>2
    <3>4. QED
      BY <3>3, <2>2
  <2>5. PICK y \in T : Sm(T) = g[y] + Sm(T \ {y})
    BY <1>2, <2>4
  <2>6. Good(T \ {y}) /\ g[y] \in Int
    BY <2>3
  <2>7. Sm(T) \in Int
    BY <2>5, <2>6
  <2>8. ASSUME NEW x \in T
        PROVE  Sm(T) = g[x] + Sm(T \ {x})
    <3>1. CASE x = y
      BY <3>1, <2>5
    <3>2. CASE x # y
      <4>1. Good(T \ {x}) /\ x \in T \ {y} /\ y \in T \ {x}
        BY <3>2, <2>3
      <4>2. (T \ {y}) \ {x} = (T \ {x}) \ {y}
        OBVIOUS
      <4>3. /\ Sm(T \ {y}) = g[x] + Sm((T \ {y}) \ {x})
            /\ Sm(T \ {x}) = g[y] + Sm((T \ {x}) \ {y})
        BY <4>1, <2>6
      <4>4. Good((T \ {x}) \ {y})
        BY <2>3
      <4>5. Sm((T \ {x}) \ {y}) \in Int /\ g[x] \in Int
        BY <4>4
      <4>6. QED
        BY <4>2, <4>3, <4>5, <2>5, <2>6
    <3>3. QED
      BY <3>1, <3>2
  <2>9. QED
    BY <2>2, <2>7, <2>8
<1>4. QED
  BY <1>1, <1>3

\* A sum does not fall where no term does.
LEMMA SumMonotone ==
  ASSUME NEW S, IsFiniteSet(S), NEW f \in [S -> Int], NEW g \in [S -> Int], NEW T \in SUBSET S,
         \A x \in T : f[x] <= g[x]
  PROVE  SumFunctionOnSet(f, T) <= SumFunctionOnSet(g, T)
<1> DEFINE Sf(U) == SumFunctionOnSet(f, U)
           Sg(U) == SumFunctionOnSet(g, U)
           F == {U \in SUBSET T : ~ (Sf(U) <= Sg(U))}
<1>1. /\ Sf({}) = 0 /\ Sg({}) = 0
      /\ \A U \in SUBSET T :
           /\ Sf(U) \in Int /\ Sg(U) \in Int
           /\ \A x \in U : Sf(U) = f[x] + Sf(U \ {x}) /\ Sg(U) = g[x] + Sg(U \ {x})
  BY SumSplit
<1>2. ASSUME F # {}
      PROVE  FALSE
  <2>1. F \subseteq SUBSET S
    OBVIOUS
  <2> HIDE DEF F
  <2>2. PICK U \in F : \A V \in F : V \subseteq U => V = U
    BY <1>2, <2>1, LeastSet
  <2> USE DEF F
  <2> HIDE DEF Sf, Sg
  <2>3. PICK x \in U : TRUE
    <3>1. SUFFICES ASSUME U = {}
                   PROVE  FALSE
      OBVIOUS
    <3>2. Sf(U) = 0 /\ Sg(U) = 0
      BY <3>1, <1>1
    <3>3. QED
      BY <3>2, <2>2
  <2>4. U \ {x} \in SUBSET T /\ U \ {x} # U
    BY <2>3
  <2>5. Sf(U \ {x}) <= Sg(U \ {x})
    BY <2>2, <2>4
  <2>6. f[x] <= g[x] /\ f[x] \in Int /\ g[x] \in Int
    BY <2>3
  <2>7. Sf(U) <= Sg(U)
    BY <1>1, <2>3, <2>4, <2>5, <2>6
  <2>8. QED
    BY <2>2, <2>7
<1>3. QED
  BY <1>2

\* A sum of terms of which one is changed.
LEMMA SumChanged ==
  ASSUME NEW S, IsFiniteSet(S), NEW f \in [S -> Int], NEW g \in [S -> Int], NEW T \in SUBSET S,
         NEW x \in S, \A y \in S : y # x => f[y] = g[y]
  PROVE  /\ SumFunctionOnSet(f, T) \in Int
         /\ SumFunctionOnSet(g, T) = SumFunctionOnSet(f, T) + (IF x \in T THEN g[x] - f[x] ELSE 0)
<1>1. \A U \in SUBSET S : x \notin U => SumFunctionOnSet(f, U) = SumFunctionOnSet(g, U)
  <2>1. TAKE U \in SUBSET S
  <2>2. HAVE x \notin U
  <2>3. \A y \in U : f[y] <= g[y] /\ g[y] <= f[y]
    BY <2>2
  <2>4. SumFunctionOnSet(f, U) \in Int /\ SumFunctionOnSet(g, U) \in Int
    BY SumSplit
  <2>5. SumFunctionOnSet(f, U) <= SumFunctionOnSet(g, U)
    BY <2>3, SumMonotone
  <2>6. SumFunctionOnSet(g, U) <= SumFunctionOnSet(f, U)
    BY <2>3, SumMonotone
  <2>7. QED
    BY <2>4, <2>5, <2>6
<1>2. SumFunctionOnSet(f, T) \in Int /\ SumFunctionOnSet(g, T) \in Int
  BY SumSplit
<1>3. CASE x \notin T
  BY <1>1, <1>2, <1>3
<1>4. CASE x \in T
  <2>1. SumFunctionOnSet(f, T) = f[x] + SumFunctionOnSet(f, T \ {x})
    BY <1>4, SumSplit
  <2>2. SumFunctionOnSet(g, T) = g[x] + SumFunctionOnSet(g, T \ {x})
    BY <1>4, SumSplit
  <2>3. T \ {x} \in SUBSET S /\ f[x] \in Int /\ g[x] \in Int
    OBVIOUS
  <2>4. SumFunctionOnSet(f, T \ {x}) \in Int
    BY <2>3, SumSplit
  <2>5. SumFunctionOnSet(f, T \ {x}) = SumFunctionOnSet(g, T \ {x})
    BY <1>1, <2>3
  <2>6. QED
    BY <2>1, <2>2, <2>3, <2>4, <2>5, <1>4
<1>5. QED
  BY <1>3, <1>4

\* A sum of zeros is zero, and one of natural numbers is a natural number.
LEMMA SumZero ==
  ASSUME NEW S, IsFiniteSet(S), NEW f \in [S -> Int], NEW T \in SUBSET S, \A x \in T : f[x] = 0
  PROVE  SumFunctionOnSet(f, T) = 0
<1> DEFINE F == {U \in SUBSET T : SumFunctionOnSet(f, U) # 0}
<1>1. SUFFICES ASSUME F # {}
               PROVE  FALSE
  OBVIOUS
<1>2. F \subseteq SUBSET S
  OBVIOUS
<1> HIDE DEF F
<1>3. PICK U \in F : \A V \in F : V \subseteq U => V = U
  BY <1>1, <1>2, LeastSet
<1> USE DEF F
<1>4. PICK x \in U : TRUE
  <2>1. SUFFICES ASSUME U = {}
                 PROVE  FALSE
    OBVIOUS
  <2>2. SumFunctionOnSet(f, {}) = 0
    BY SumSplit
  <2>3. QED
    BY <2>1, <2>2, <1>3
<1>5. SumFunctionOnSet(f, U) = f[x] + SumFunctionOnSet(f, U \ {x})
  BY <1>3, SumSplit
<1>6. U \ {x} \in SUBSET T /\ U \ {x} # U /\ f[x] = 0
  BY <1>4
<1>7. SumFunctionOnSet(f, U \ {x}) = 0
  BY <1>3, <1>6
<1>8. QED
  BY <1>3, <1>5, <1>6, <1>7

\* A sum of natural numbers is one.
LEMMA SumNatural ==
  ASSUME NEW S, IsFiniteSet(S), NEW f \in [S -> Int], NEW T \in SUBSET S, \A x \in T : f[x] >= 0
  PROVE  SumFunctionOnSet(f, T) \in Nat
<1> DEFINE z == [x \in S |-> 0]
<1>1. z \in [S -> Int] /\ \A x \in T : z[x] = 0 /\ z[x] <= f[x]
  OBVIOUS
<1> HIDE DEF z
<1>2. SumFunctionOnSet(z, T) = 0
  BY <1>1, SumZero
<1>3. SumFunctionOnSet(z, T) <= SumFunctionOnSet(f, T)
  BY <1>1, SumMonotone
<1>4. SumFunctionOnSet(f, T) \in Int
  BY SumSplit
<1>5. QED
  BY <1>2, <1>3, <1>4

-----------------------------------------------------------------------------
(* Counting events. *)

E(kind, on) == [kind |-> kind, on |-> on]

\* Events are equal if their kinds and their objects are.
LEMMA EqualEvents ==
  ASSUME NEW k, NEW x, NEW m, NEW y
  PROVE  /\ E(k, x) = E(m, y) <=> k = m /\ x = y
         /\ E(k, x).kind = k /\ E(k, x).on = x
<1>1. E(k, x).kind = k /\ E(k, x).on = x /\ E(m, y).kind = m /\ E(m, y).on = y
  BY DEF E
<1>2. QED
  BY <1>1

\* How often an event has happened is a number, above 0 if it has.
LEMMA TimesFacts ==
  ASSUME NEW kind, NEW on, NEW b \in Nat
  PROVE  /\ IsFiniteSet({i \in 1..b : chain[i] = E(kind, on)})
         /\ Times(kind, on, b) = Cardinality({i \in 1..b : chain[i] = E(kind, on)})
         /\ Times(kind, on, b) \in Nat
         /\ Times(kind, on, b) > 0 <=> \E i \in 1..b : chain[i] = E(kind, on)
<1> DEFINE T == {i \in 1..b : chain[i] = E(kind, on)}
<1>1. IsFiniteSet(T)
  <2>1. IsFiniteSet(1..b) /\ T \in SUBSET (1..b)
    BY FS_Interval
  <2>2. QED
    BY <2>1, FS_Subset
<1>2. Times(kind, on, b) = Cardinality(T)
  BY DEF Times, E
<1>3. Cardinality(T) \in Nat /\ (Cardinality(T) = 0 <=> T = {})
  BY <1>1, FS_CardinalityType, FS_EmptySet
<1>4. T # {} <=> \E i \in 1..b : chain[i] = E(kind, on)
  OBVIOUS
<1>5. QED
  BY <1>1, <1>2, <1>3, <1>4

\* The count grows with the block, and only by events of its kind.
LEMMA TimesMonotone ==
  ASSUME NEW kind, NEW on, NEW a \in Nat, NEW b \in Nat, a <= b
  PROVE  /\ Times(kind, on, a) <= Times(kind, on, b)
         /\ (\A i \in (a + 1)..b : chain[i] # E(kind, on)) => Times(kind, on, a) = Times(kind, on, b)
<1> DEFINE T(n) == {i \in 1..n : chain[i] = E(kind, on)}
<1>1. \A n \in Nat : IsFiniteSet(T(n)) /\ Times(kind, on, n) = Cardinality(T(n))
  BY TimesFacts
<1>2. T(a) \in SUBSET T(b)
  OBVIOUS
<1>3. (\A i \in (a + 1)..b : chain[i] # E(kind, on)) => T(a) = T(b)
  <2>1. HAVE \A i \in (a + 1)..b : chain[i] # E(kind, on)
  <2>2. \A i \in 1..b : i \in 1..a \/ i \in (a + 1)..b
    OBVIOUS
  <2>3. QED
    BY <1>2, <2>1, <2>2
<1> HIDE DEF T
<1>4. QED
  BY <1>1, <1>2, <1>3, FS_Subset

\* Stakes and what is held are numbers.
LEMMA StakesType ==
  ASSUME NEW b \in Nat
  PROVE  /\ \A f \in Farms : Staked(f, b) \in Int
         /\ Stakes(b) \in [Farms -> Int]
         /\ \A f \in Farms : Stakes(b)[f] = Staked(f, b)
         /\ \A c \in Contracts : FarmsOf(c) \in SUBSET Farms /\ Held(c, b) \in Int
<1>1. ASSUME NEW f \in Farms
      PROVE  Staked(f, b) \in Int
  <2>1. Times("stake", f, b) \in Nat /\ Times("withdraw", f, b) \in Nat
    BY TimesFacts
  <2>2. QED
    BY <2>1 DEF Staked
<1>2. Stakes(b) \in [Farms -> Int] /\ \A f \in Farms : Stakes(b)[f] = Staked(f, b)
  BY <1>1 DEF Stakes
<1>3. ASSUME NEW c \in Contracts
      PROVE  FarmsOf(c) \in SUBSET Farms /\ Held(c, b) \in Int
  <2>1. FarmsOf(c) \in SUBSET Farms
    BY DEF FarmsOf
  <2>2. SumFunctionOnSet(Stakes(b), FarmsOf(c)) \in Int
    BY <1>2, <2>1, ScopeAssumption, SumSplit
  <2>3. Times("receive", c, b) \in Nat /\ Times("send", c, b) \in Nat
    BY TimesFacts
  <2>4. QED
    BY <2>1, <2>2, <2>3 DEF Held
<1>4. QED
  BY <1>1, <1>2, <1>3

\* What the wallet holds it has received.
LEMMA HeldReceived ==
  ASSUME ChainInv, NEW b \in 0..Latest, Latest \in Nat, NEW c \in Contracts, Held(c, b) > 0
  PROVE  \E i \in 1..b : chain[i] = E("receive", c)
<1>1. b \in Nat
  OBVIOUS
<1>2. Stakes(b) \in [Farms -> Int] /\ FarmsOf(c) \in SUBSET Farms
      /\ \A f \in FarmsOf(c) : Stakes(b)[f] >= 0
  BY <1>1, StakesType DEF ChainInv
<1>3. SumFunctionOnSet(Stakes(b), FarmsOf(c)) \in Nat
  BY <1>2, ScopeAssumption, SumNatural
<1>4. Times("receive", c, b) \in Nat /\ Times("send", c, b) \in Nat
  BY <1>1, TimesFacts
<1>5. Times("receive", c, b) > 0
  BY <1>3, <1>4 DEF Held
<1>6. QED
  BY <1>1, <1>5, TimesFacts

\* Pairs are only created.
LEMMA CreatedMonotone ==
  ASSUME NEW a \in Nat, NEW b \in Nat, a <= b
  PROVE  Created(a) \subseteq Created(b)
<1>1. ASSUME NEW c \in Created(a)
      PROVE  c \in Created(b)
  <2>1. c \in Pairs /\ Times("create", c, a) > 0
    BY DEF Created
  <2>2. Times("create", c, a) \in Nat /\ Times("create", c, b) \in Nat
    BY TimesFacts
  <2>3. Times("create", c, a) <= Times("create", c, b)
    BY TimesMonotone
  <2>4. QED
    BY <2>1, <2>2, <2>3 DEF Created
<1>2. QED
  BY <1>1

-----------------------------------------------------------------------------
(* The chain grows. *)

\* A new block changes nothing about the old ones.
LEMMA OldBlocks ==
  ASSUME chain \in Seq(Events), NEW e, chain' = Append(chain, e)
  PROVE  /\ Latest \in Nat /\ Latest' = Latest + 1
         /\ chain'[Latest + 1] = e
         /\ \A i \in 1..Latest : chain'[i] = chain[i]
         /\ \A b \in 0..Latest :
              /\ \A kind, on : Times(kind, on, b)' = Times(kind, on, b)
              /\ Created(b)' = Created(b)
              /\ Stakes(b)' = Stakes(b)
              /\ \A f : Staked(f, b)' = Staked(f, b) /\ Earned(f, b)' = Earned(f, b)
              /\ \A c : Held(c, b)' = Held(c, b)
<1>1. /\ Latest = Len(chain) /\ Latest \in Nat /\ Latest' = Latest + 1
      /\ chain'[Latest + 1] = e
      /\ \A i \in 1..Latest : chain'[i] = chain[i]
  BY DEF Latest
<1>2. ASSUME NEW b \in 0..Latest
      PROVE  /\ \A kind, on : Times(kind, on, b)' = Times(kind, on, b)
             /\ Created(b)' = Created(b)
             /\ Stakes(b)' = Stakes(b)
             /\ \A f : Staked(f, b)' = Staked(f, b) /\ Earned(f, b)' = Earned(f, b)
             /\ \A c : Held(c, b)' = Held(c, b)
  <2>1. \A i \in 1..b : chain'[i] = chain[i]
    BY <1>1
  <2>2. ASSUME NEW kind, NEW on
        PROVE  Times(kind, on, b)' = Times(kind, on, b)
    BY <2>1 DEF Times
  <2>3. Created(b)' = Created(b) /\ \A f : Staked(f, b)' = Staked(f, b)
    BY <2>2 DEF Created, Staked
  <2>4. Stakes(b)' = Stakes(b)
    BY <2>3 DEF Stakes
  <2>5. \A c : Held(c, b)' = Held(c, b)
    BY <2>2, <2>4 DEF Held
  <2>6. ASSUME NEW f
        PROVE  Earned(f, b)' = Earned(f, b)
    <3>1. ASSUME NEW i \in 1..b
          PROVE  SubSeq(chain', i + 1, b) = SubSeq(chain, i + 1, b)
      <4>1. b \in Nat /\ i \in Nat /\ b <= Len(chain) /\ Len(chain') = Len(chain) + 1
        BY <1>1 DEF Latest
      <4>2. \A j \in 1..(b - i) : chain'[i + j] = chain[i + j]
        BY <2>1, <4>1
      <4>3. QED
        BY <4>1, <4>2
    <3>2. (Staked(f, b) > 0)' <=> Staked(f, b) > 0
      BY <2>3
    <3>3. ASSUME NEW i \in 1..b
          PROVE  /\ chain'[i] = [kind |-> "withdraw", on |-> f]
                 /\ [kind |-> "claim", on |-> f] \notin ToSet(SubSeq(chain', i + 1, b))
                 <=>
                 /\ chain[i] = [kind |-> "withdraw", on |-> f]
                 /\ [kind |-> "claim", on |-> f] \notin ToSet(SubSeq(chain, i + 1, b))
      BY <2>1, <3>1
    <3>4. QED
      BY <3>2, <3>3, Zenon DEF Earned
  <2>7. QED
    BY <2>2, <2>3, <2>4, <2>5, <2>6
<1>3. QED
  BY <1>1, <1>2

\* A new block counts for its own event.
LEMMA NewBlock ==
  ASSUME chain \in Seq(Events), NEW e, chain' = Append(chain, e), NEW L \in Nat, L = Latest,
         NEW kind, NEW on
  PROVE  Times(kind, on, L + 1)' = Times(kind, on, L) + (IF e = E(kind, on) THEN 1 ELSE 0)
<1> DEFINE T == {i \in 1..L : chain[i] = E(kind, on)}
           N == {i \in 1..(L + 1) : chain'[i] = E(kind, on)}
<1>1. chain'[L + 1] = e /\ \A i \in 1..L : chain'[i] = chain[i]
  BY OldBlocks
<1>2. Times(kind, on, L + 1)' = Cardinality(N) /\ Times(kind, on, L) = Cardinality(T)
  BY DEF Times, E
<1>3. IsFiniteSet(T)
  BY TimesFacts
<1>4. L + 1 \notin T
  OBVIOUS
<1>5. /\ \A i : i \in 1..(L + 1) <=> i = L + 1 \/ i \in 1..L
      /\ L + 1 \notin 1..L
  OBVIOUS
<1>6. \A i : i \in N <=> i \in T \/ (i = L + 1 /\ e = E(kind, on))
  BY <1>1, <1>5, Zenon
<1>7. Cardinality(T \cup {L + 1}) = Cardinality(T) + 1 /\ Cardinality(T) \in Nat
  BY <1>3, <1>4, FS_AddElement, FS_CardinalityType
<1> HIDE DEF T, N
<1>8. N = IF e = E(kind, on) THEN T \cup {L + 1} ELSE T
  BY <1>6
<1>9. QED
  BY <1>2, <1>7, <1>8

\* What one more event does to the balances.
LEMMA NewBalances ==
  ASSUME chain \in Seq(Events), NEW e, chain' = Append(chain, e), NEW L \in Nat, L = Latest
  PROVE  /\ \A f \in Farms :
              Staked(f, L + 1)' = Staked(f, L) + (IF e = E("stake", f) THEN 1 ELSE 0)
                                               - (IF e = E("withdraw", f) THEN 1 ELSE 0)
         /\ \A c \in Contracts :
              Held(c, L + 1)' >= Held(c, L)
                - (IF e = E("send", c) \/ \E f \in Farms : e = E("stake", f) /\ c = pairOf[f]
                     THEN 1 ELSE 0)
<1> DEFINE S == Stakes(L)
           N == Stakes(L + 1)'
<1>1. ASSUME NEW f \in Farms
      PROVE  Staked(f, L + 1)' = Staked(f, L) + (IF e = E("stake", f) THEN 1 ELSE 0)
                                              - (IF e = E("withdraw", f) THEN 1 ELSE 0)
  <2>1. /\ Times("stake", f, L + 1)' = Times("stake", f, L) + (IF e = E("stake", f) THEN 1 ELSE 0)
        /\ Times("withdraw", f, L + 1)' = Times("withdraw", f, L) + (IF e = E("withdraw", f) THEN 1 ELSE 0)
    BY NewBlock
  <2>2. Times("stake", f, L) \in Nat /\ Times("withdraw", f, L) \in Nat
    BY TimesFacts
  <2>3. QED
    BY <2>1, <2>2 DEF Staked
<1>2. /\ \A f \in Farms : Staked(f, L) \in Int
      /\ S \in [Farms -> Int]
      /\ \A f \in Farms : S[f] = Staked(f, L)
      /\ \A c \in Contracts : FarmsOf(c) \in SUBSET Farms /\ Held(c, L) \in Int
  BY StakesType
<1>3. N \in [Farms -> Int] /\ \A f \in Farms : N[f] = Staked(f, L + 1)'
  <2>1. \A f \in Farms : Staked(f, L + 1)' \in Int
    BY <1>1, <1>2
  <2>2. N = [f \in Farms |-> Staked(f, L + 1)']
    BY DEF Stakes
  <2>3. QED
    BY <2>1, <2>2
<1> HIDE DEF S, N
<1>4. ASSUME NEW c \in Contracts
      PROVE  /\ SumFunctionOnSet(S, FarmsOf(c)) \in Int
             /\ SumFunctionOnSet(N, FarmsOf(c)) \in Int
             /\ SumFunctionOnSet(N, FarmsOf(c)) <= SumFunctionOnSet(S, FarmsOf(c)) +
                  (IF \E f \in Farms : e = E("stake", f) /\ c = pairOf[f] THEN 1 ELSE 0)
  <2> DEFINE T == FarmsOf(c)
  <2>1. T \in SUBSET Farms /\ \A f \in Farms : f \in T <=> c = pairOf[f]
    BY DEF FarmsOf
  <2> HIDE DEF T
  <2>2. SumFunctionOnSet(S, T) \in Int /\ SumFunctionOnSet(N, T) \in Int
    BY <1>2, <1>3, <2>1, ScopeAssumption, SumSplit
  <2>3. CASE \E f \in Farms : e = E("stake", f)
    <3>1. PICK x \in Farms : e = E("stake", x)
      BY <2>3
    <3>2. \A f \in Farms : (e = E("stake", f) <=> f = x) /\ e # E("withdraw", f)
      BY <3>1, EqualEvents
    <3>3. \A f \in Farms : f # x => S[f] = N[f]
      BY <3>2, <1>1, <1>2, <1>3
    <3>4. N[x] = S[x] + 1 /\ S[x] \in Int
      BY <3>2, <1>1, <1>2, <1>3
    <3>5. SumFunctionOnSet(N, T) = SumFunctionOnSet(S, T) + (IF x \in T THEN N[x] - S[x] ELSE 0)
      <4>1. IsFiniteSet(Farms)
        BY ScopeAssumption
      <4>2. QED
        BY <4>1, <1>2, <1>3, <2>1, <3>3, SumChanged
    <3>6. x \in T <=> \E f \in Farms : e = E("stake", f) /\ c = pairOf[f]
      BY <2>1, <3>2
    <3>7. QED
      BY <2>2, <3>4, <3>5, <3>6 DEF T
  <2>4. CASE ~ \E f \in Farms : e = E("stake", f)
    <3>1. ASSUME NEW f \in T
          PROVE  N[f] <= S[f]
      <4>1. f \in Farms /\ e # E("stake", f)
        BY <2>1, <2>4
      <4>2. Staked(f, L + 1)' = Staked(f, L) - (IF e = E("withdraw", f) THEN 1 ELSE 0)
        BY <4>1, <1>1, <1>2
      <4>3. Staked(f, L) \in Int /\ S[f] = Staked(f, L) /\ N[f] = Staked(f, L + 1)'
        BY <4>1, <1>2, <1>3
      <4>4. QED
        BY <4>2, <4>3
    <3>2. SumFunctionOnSet(N, T) <= SumFunctionOnSet(S, T)
      BY <1>2, <1>3, <2>1, <3>1, ScopeAssumption, SumMonotone
    <3>3. QED
      BY <2>2, <2>4, <3>2 DEF T
  <2>5. QED
    BY <2>3, <2>4
<1>5. ASSUME NEW c \in Contracts
      PROVE  Held(c, L + 1)' >= Held(c, L)
                - (IF e = E("send", c) \/ \E f \in Farms : e = E("stake", f) /\ c = pairOf[f]
                     THEN 1 ELSE 0)
  <2> DEFINE stakes == \E f \in Farms : e = E("stake", f) /\ c = pairOf[f]
  <2>1. /\ Times("receive", c, L + 1)' = Times("receive", c, L) + (IF e = E("receive", c) THEN 1 ELSE 0)
        /\ Times("send", c, L + 1)' = Times("send", c, L) + (IF e = E("send", c) THEN 1 ELSE 0)
    BY NewBlock
  <2>2. Times("receive", c, L) \in Nat /\ Times("send", c, L) \in Nat
    BY TimesFacts
  <2>3. Held(c, L) = Times("receive", c, L) - Times("send", c, L) - SumFunctionOnSet(S, FarmsOf(c))
    BY DEF Held, S
  <2>4. Held(c, L + 1)' = Times("receive", c, L + 1)' - Times("send", c, L + 1)'
                          - SumFunctionOnSet(N, FarmsOf(c))
    BY DEF Held, N, FarmsOf
  <2>5. e = E("send", c) => ~stakes
    BY EqualEvents
  <2>6. /\ SumFunctionOnSet(S, FarmsOf(c)) \in Int
        /\ SumFunctionOnSet(N, FarmsOf(c)) \in Int
        /\ SumFunctionOnSet(N, FarmsOf(c)) <= SumFunctionOnSet(S, FarmsOf(c)) + (IF stakes THEN 1 ELSE 0)
    BY <1>4
  <2> HIDE DEF stakes
  <2>7. Held(c, L + 1)' >= Held(c, L) - (IF e = E("send", c) \/ stakes THEN 1 ELSE 0)
    BY <2>1, <2>2, <2>3, <2>4, <2>5, <2>6
  <2>8. QED
    BY <2>7 DEF stakes
<1>6. QED
  BY <1>1, <1>5

\* What the wallet holds or has staked of a pair was created before.
LEMMA MovedCreated ==
  ASSUME TypeOK, ChainInv
  PROVE  /\ \A c \in Pairs : Held(c, Latest) > 0 => c \in Created(Latest)
         /\ \A f \in Farms : Staked(f, Latest) > 0 => pairOf[f] \in Created(Latest)
<1>1. Latest \in Nat
  BY DEF TypeOK, Latest
<1>2. ASSUME NEW i \in 1..Latest, Moved(i), Contract(chain[i]) \in Pairs
      PROVE  Contract(chain[i]) \in Created(Latest)
  BY <1>1, <1>2, CreatedMonotone DEF ChainInv
<1>3. ASSUME NEW c \in Pairs, Held(c, Latest) > 0
      PROVE  c \in Created(Latest)
  <2>1. PICK i \in 1..Latest : chain[i] = E("receive", c)
    BY <1>1, <1>3, HeldReceived DEF Contracts
  <2>2. Moved(i) /\ Contract(chain[i]) = c
    BY <2>1 DEF E, Moved, TransferKinds, Contract
  <2>3. QED
    BY <1>2, <2>2
<1>4. ASSUME NEW f \in Farms, Staked(f, Latest) > 0
      PROVE  pairOf[f] \in Created(Latest)
  <2>1. Times("stake", f, Latest) \in Nat /\ Times("withdraw", f, Latest) \in Nat
    BY <1>1, TimesFacts
  <2>2. Times("stake", f, Latest) > 0
    BY <1>4, <2>1 DEF Staked
  <2>3. PICK i \in 1..Latest : chain[i] = E("stake", f)
    BY <1>1, <2>2, TimesFacts
  <2>4. Moved(i) /\ Contract(chain[i]) = pairOf[f]
    BY <2>3 DEF E, Moved, TransferKinds, Contract
  <2>5. QED
    BY <1>2, <2>4, ScopeAssumption
<1>5. QED
  BY <1>3, <1>4

\* The events that the wallet and the factory can cause.
Legal(e) ==
  /\ e \in Events
  /\ \A c \in Pairs : e = E("receive", c) => c \in Created(Latest)
  /\ \A c \in Contracts : e = E("send", c) => Held(c, Latest) > 0
  /\ \A f \in Farms : /\ e = E("stake", f) => Held(pairOf[f], Latest) > 0
                      /\ e = E("withdraw", f) => Staked(f, Latest) > 0

\* A step of the chain adds one event that may happen, and disturbs no command.
LEMMA ChainIsLegal ==
  ASSUME TypeOK, Chain
  PROVE  \E e : /\ Legal(e) /\ chain' = Append(chain, e) /\ Latest < MaxBlocks
                /\ UNCHANGED <<pairs, farms, synced, runs, walk, scope>>
<1> DEFINE Goal(e) == /\ Legal(e) /\ chain' = Append(chain, e) /\ Latest < MaxBlocks
                      /\ UNCHANGED <<pairs, farms, synced, runs, walk, scope>>
<1>1. Pairs \cap Others = {} /\ Contracts = Pairs \cup Others
  BY ScopeAssumption DEF Contracts
<1>2. ASSUME NEW kind, NEW on, Event(kind, on), Legal(E(kind, on))
      PROVE  \E e : Goal(e)
  BY <1>2 DEF Event, E
<1>3. ASSUME NEW kind, NEW on, E(kind, on) \in Events,
             kind = "receive" => (on \in Pairs => on \in Created(Latest)),
             kind = "send" => Held(on, Latest) > 0,
             kind = "stake" => Held(pairOf[on], Latest) > 0,
             kind = "withdraw" => Staked(on, Latest) > 0
      PROVE  Legal(E(kind, on))
  BY <1>3, EqualEvents DEF Legal
<1> HIDE DEF Goal
<1>4. ASSUME NEW c \in Pairs \ Created(Latest), Event("create", c)
      PROVE  \E e : Goal(e)
  <2>1. E("create", c) \in Events
    BY DEF E, Events
  <2>2. QED
    BY <2>1, <1>2, <1>3, <1>4
<1>5. ASSUME NEW c \in Created(Latest) \cup Others, Event("receive", c)
      PROVE  \E e : Goal(e)
  <2>1. E("receive", c) \in Events /\ (c \in Pairs => c \in Created(Latest))
    BY <1>1 DEF E, Events, Created
  <2>2. QED
    BY <2>1, <1>2, <1>3, <1>5
<1>6. ASSUME NEW c \in Contracts, Held(c, Latest) > 0, Event("send", c)
      PROVE  \E e : Goal(e)
  <2>1. E("send", c) \in Events
    BY DEF E, Events
  <2>2. QED
    BY <2>1, <1>2, <1>3, <1>6
<1>7. ASSUME NEW f \in Farms, Held(pairOf[f], Latest) > 0, Event("stake", f)
      PROVE  \E e : Goal(e)
  <2>1. E("stake", f) \in Events
    BY DEF E, Events
  <2>2. QED
    BY <2>1, <1>2, <1>3, <1>7
<1>8. ASSUME NEW f \in Farms, Staked(f, Latest) > 0, Event("withdraw", f)
      PROVE  \E e : Goal(e)
  <2>1. E("withdraw", f) \in Events
    BY DEF E, Events
  <2>2. QED
    BY <2>1, <1>2, <1>3, <1>8
<1>9. ASSUME NEW f \in Farms, Event("claim", f)
      PROVE  \E e : Goal(e)
  <2>1. E("claim", f) \in Events
    BY DEF E, Events
  <2>2. QED
    BY <2>1, <1>2, <1>3, <1>9
<1>10. \E e : Goal(e)
  BY <1>4, <1>5, <1>6, <1>7, <1>8, <1>9 DEF Chain
<1>11. QED
  BY <1>10 DEF Goal

\* Such an event keeps the chain sound.
LEMMA ChainInvKept ==
  ASSUME TypeOK, ChainInv, NEW e, Legal(e), chain' = Append(chain, e), Latest < MaxBlocks,
         NEW L \in Nat, L = Latest
  PROVE  ChainInv'
<1>1. chain \in Seq(Events) /\ MaxBlocks \in Nat
  BY ScopeAssumption DEF TypeOK
<1>2. /\ Latest' = L + 1
      /\ chain'[L + 1] = e
      /\ \A i \in 1..L : chain'[i] = chain[i]
      /\ \A b \in 0..L : /\ Created(b)' = Created(b)
                         /\ \A f : Staked(f, b)' = Staked(f, b)
                         /\ \A c : Held(c, b)' = Held(c, b)
  BY <1>1, OldBlocks
<1>3. (Latest <= MaxBlocks)'
  BY <1>1, <1>2
<1>4. ASSUME NEW f \in Farms
      PROVE  Staked(f, L + 1)' >= 0
  <2>1. Staked(f, L + 1)' = Staked(f, L) + (IF e = E("stake", f) THEN 1 ELSE 0)
                                         - (IF e = E("withdraw", f) THEN 1 ELSE 0)
    BY <1>1, NewBalances
  <2>2. Staked(f, L) \in Int /\ Staked(f, L) >= 0
    BY StakesType DEF ChainInv
  <2>3. e = E("withdraw", f) => Staked(f, L) > 0
    BY DEF Legal
  <2>4. QED
    BY <2>1, <2>2, <2>3
<1>5. ASSUME NEW c \in Contracts
      PROVE  Held(c, L + 1)' >= 0
  <2> DEFINE falls == e = E("send", c) \/ \E f \in Farms : e = E("stake", f) /\ c = pairOf[f]
  <2>1. Held(c, L + 1)' >= Held(c, L) - (IF falls THEN 1 ELSE 0)
    BY <1>1, NewBalances
  <2>2. Held(c, L) \in Int /\ Held(c, L) >= 0
    BY StakesType DEF ChainInv
  <2>3. falls => Held(c, L) > 0
    BY DEF Legal
  <2>4. Held(c, L + 1)' \in Int
    <3>1. Times("receive", c, L + 1)' \in Int /\ Times("send", c, L + 1)' \in Int
      <4>1. /\ Times("receive", c, L + 1)' = Times("receive", c, L) + (IF e = E("receive", c) THEN 1 ELSE 0)
            /\ Times("send", c, L + 1)' = Times("send", c, L) + (IF e = E("send", c) THEN 1 ELSE 0)
        BY <1>1, NewBlock
      <4>2. Times("receive", c, L) \in Nat /\ Times("send", c, L) \in Nat
        BY TimesFacts
      <4>3. QED
        BY <4>1, <4>2
    <3>2. SumFunctionOnSet(Stakes(L + 1)', FarmsOf(c)) \in Int
      <4>1. \A f \in Farms : Staked(f, L + 1)' \in Int
        <5>1. TAKE f \in Farms
        <5>2. Staked(f, L + 1)' = Staked(f, L) + (IF e = E("stake", f) THEN 1 ELSE 0)
                                         - (IF e = E("withdraw", f) THEN 1 ELSE 0)
          BY <1>1, NewBalances
        <5>3. Staked(f, L) \in Int
          BY StakesType
        <5>4. QED
          BY <5>2, <5>3
      <4>2. Stakes(L + 1)' \in [Farms -> Int]
        BY <4>1 DEF Stakes
      <4>3. FarmsOf(c) \in SUBSET Farms
        BY DEF FarmsOf
      <4>4. IsFiniteSet(Farms)
        BY ScopeAssumption
      <4>5. QED
        BY <4>2, <4>3, <4>4, SumSplit
    <3>3. QED
      BY <3>1, <3>2 DEF Held, FarmsOf
  <2> HIDE DEF falls
  <2>5. QED
    BY <2>1, <2>2, <2>3, <2>4
<1>6. \A b \in 0..(L + 1) : /\ \A f \in Farms : Staked(f, b)' >= 0
                            /\ \A c \in Contracts : Held(c, b)' >= 0
  <2>1. TAKE b \in 0..(L + 1)
  <2>2. CASE b = L + 1
    BY <2>2, <1>4, <1>5
  <2>3. CASE b \in 0..L
    BY <2>3, <1>2 DEF ChainInv
  <2>4. QED
    BY <2>2, <2>3
<1>7. \A i \in 1..(L + 1) : (Moved(i)' /\ Contract(chain'[i]) \in Pairs)
                               => Contract(chain'[i]) \in Created(i)'
  <2>1. TAKE i \in 1..(L + 1)
  <2>2. CASE i \in 1..L
    <3>1. i \in 0..L /\ i \in 1..Latest
      BY <2>2
    <3>2. Created(i)' = Created(i) /\ chain'[i] = chain[i]
      BY <2>2, <3>1, <1>2
    <3>3. Moved(i)' <=> Moved(i)
      BY <3>2 DEF Moved, TransferKinds
    <3>4. (Moved(i) /\ Contract(chain[i]) \in Pairs) => Contract(chain[i]) \in Created(i)
      BY <3>1 DEF ChainInv
    <3>5. QED
      BY <3>2, <3>3, <3>4
  <2>3. CASE i = L + 1
    <3>1. ASSUME NEW c \in Created(L)
          PROVE  c \in Created(L + 1)'
      <4>1. c \in Pairs /\ Times("create", c, L) > 0
        BY DEF Created
      <4>2. Times("create", c, L + 1)' = Times("create", c, L) + (IF e = E("create", c) THEN 1 ELSE 0)
        BY <1>1, NewBlock
      <4>3. Times("create", c, L) \in Nat
        BY TimesFacts
      <4>4. QED
        BY <4>1, <4>2, <4>3 DEF Created
    <3>2. ASSUME e.kind \in TransferKinds("from") \cup TransferKinds("to"), Contract(e) \in Pairs
          PROVE  Contract(e) \in Created(L)
      <4>1. e = E(e.kind, e.on) /\ e.kind \in {"receive", "send", "stake", "withdraw"}
            /\ (e.kind \in {"receive", "send"} => e.on \in Contracts)
            /\ (e.kind \in {"stake", "withdraw"} => e.on \in Farms)
        BY <3>2 DEF Legal, E, Events, TransferKinds
      <4>2. CASE e.kind = "receive"
        BY <4>1, <4>2, <3>2 DEF Legal, Contract
      <4>3. CASE e.kind = "send"
        BY <4>1, <4>3, <3>2, MovedCreated DEF Legal, Contract
      <4>4. CASE e.kind = "stake"
        BY <4>1, <4>4, <3>2, MovedCreated DEF Legal, Contract
      <4>5. CASE e.kind = "withdraw"
        BY <4>1, <4>5, <3>2, MovedCreated DEF Legal, Contract
      <4>6. QED
        BY <4>1, <4>2, <4>3, <4>4, <4>5
    <3>3. Moved(i)' <=> e.kind \in TransferKinds("from") \cup TransferKinds("to")
      BY <2>3, <1>2 DEF Moved, TransferKinds
    <3>4. QED
      BY <2>3, <3>1, <3>2, <3>3, <1>2
  <2>4. i = L + 1 \/ i \in 1..L
    OBVIOUS
  <2>5. QED
    BY <2>2, <2>3, <2>4, Zenon
<1>8. QED
  <2>1. (\A b \in 0..Latest : /\ \A f \in Farms : Staked(f, b) >= 0
                              /\ \A c \in Contracts : Held(c, b) >= 0)'
    BY <1>2, <1>6
  <2>2. (\A i \in 1..Latest : (Moved(i) /\ Contract(chain[i]) \in Pairs)
                                => Contract(chain[i]) \in Created(i))'
    BY <1>2, <1>7 DEF Contract
  <2>3. QED
    BY <1>3, <2>1, <2>2 DEF ChainInv

\* A new event leaves what was read at earlier blocks as it was.
LEMMA ChainStep ==
  ASSUME IInv, Chain
  PROVE  IInv'
<1>1. PICK e : /\ Legal(e) /\ chain' = Append(chain, e) /\ Latest < MaxBlocks
               /\ UNCHANGED <<pairs, farms, synced, runs, walk, scope>>
  BY ChainIsLegal DEF IInv
<1>2. TypeOK /\ ChainInv /\ chain \in Seq(Events) /\ e \in Events
  BY <1>1 DEF IInv, TypeOK, Legal
<1>3. PICK L \in Nat : L = Latest
  BY <1>2 DEF Latest
<1>4. /\ Latest' = L + 1
      /\ \A i \in 1..L : chain'[i] = chain[i]
      /\ \A b \in 0..L : /\ Created(b)' = Created(b)
                         /\ \A f : Staked(f, b)' = Staked(f, b) /\ Earned(f, b)' = Earned(f, b)
                         /\ \A f, q : Active(f, b, q)' <=> Active(f, b, q)
                         /\ \A c : Held(c, b)' = Held(c, b)
  BY <1>1, <1>2, <1>3, OldBlocks DEF Active
<1>5. UNCHANGED <<pairs, farms, synced, runs, scope, mode, source, pc, direction, page, cursor,
                  count, found, active, direct, staked, lo, hi, ordered, gaps>>
  BY <1>1 DEF walk
<1>6. lo \in Nat /\ hi \in Nat /\ scope.lo \in Nat /\ scope' = scope
  BY <1>2, <1>5, <1>3 DEF TypeOK, Latest
<1>7. ChainInv'
  BY <1>1, <1>2, <1>3, ChainInvKept
<1>8. TypeOK'
  <2>1. chain' \in Seq(Events)
    BY <1>1, <1>2
  <2>2. (hi \in 0..Len(chain))'
    BY <1>2, <1>3, <1>4, <1>5 DEF TypeOK, Latest
  <2>3. QED
    BY <2>1, <2>2, <1>2, <1>5 DEF TypeOK
<1>9. ASSUME NEW b \in Nat, b <= L, NEW n, NEW set, Covers(b, n, set)
      PROVE  \A i \in 1..(L + 1) : (n <= i /\ i <= b /\ Received(i)' /\ Contract(chain'[i]) \in Pairs)
                                     => Contract(chain'[i]) \in set
  <2>1. TAKE i \in 1..(L + 1)
  <2>2. HAVE n <= i /\ i <= b /\ Received(i)' /\ Contract(chain'[i]) \in Pairs
  <2>3. i \in 1..L
    BY <2>2, <1>9
  <2>4. chain'[i] = chain[i] /\ Received(i)
    BY <2>2, <2>3, <1>4 DEF Received, TransferKinds
  <2>5. QED
    BY <2>2, <2>3, <2>4, <1>3, <1>9 DEF Covers
<1>10. ASSUME NEW b \in Nat, NEW q, NEW set, Farmed(b, q, set)
       PROVE  \E a \in b..(L + 1) : \A f \in Farms : Active(f, a, q)' => f \in set
  <2>1. PICK a \in b..L : \A f \in Farms : Active(f, a, q) => f \in set
    BY <1>10, <1>3 DEF Farmed
  <2>2. a \in b..(L + 1) /\ a \in 0..L
    BY <1>10
  <2>3. \A f \in Farms : Active(f, a, q)' <=> Active(f, a, q)
    BY <2>2, <1>4
  <2>4. QED
    BY <2>1, <2>2, <2>3
<1>11. Answered => Answered' /\ lo <= L
  BY <1>3, <1>4, <1>5, <1>6 DEF Answered
<1>17. Created(Latest) \subseteq Created(Latest)'
  <2>1. ASSUME NEW c \in Created(L)
        PROVE  c \in Created(L + 1)'
    <3>1. c \in Pairs /\ Times("create", c, L) > 0
      BY DEF Created
    <3>2. Times("create", c, L + 1)' = Times("create", c, L) + (IF e = E("create", c) THEN 1 ELSE 0)
      BY <1>1, <1>2, <1>3, NewBlock
    <3>3. Times("create", c, L) \in Nat
      BY TimesFacts
    <3>4. QED
      BY <3>1, <3>2, <3>3 DEF Created
  <2>2. QED
    BY <2>1, <1>3, <1>4 DEF Created, Times
<1>12. PagingInv'
  <2>1. SUFFICES ASSUME (pc = "page" /\ direction = "to")'
                 PROVE  /\ Answered'
                        /\ \A i \in 1..(L + 1) : (i <= lo /\ i >= cursor /\ Received(i)')
                                                   => Contract(chain'[i]) \in found
    BY <1>4, <1>5 DEF PagingInv, Contract
  <2>2. /\ Answered
        /\ \A i \in 1..L : (i <= lo /\ i >= cursor /\ Received(i)) => Contract(chain[i]) \in found
    BY <2>1, <1>3, <1>5 DEF IInv, PagingInv
  <2>3. ASSUME NEW i \in 1..(L + 1), i <= lo, i >= cursor, Received(i)'
        PROVE  Contract(chain'[i]) \in found
    <3>1. i \in 1..L
      BY <2>2, <2>3, <1>6, <1>11
    <3>2. chain'[i] = chain[i] /\ Received(i)
      BY <2>3, <3>1, <1>4 DEF Received, TransferKinds
    <3>3. QED
      BY <2>2, <2>3, <3>1, <3>2
  <2>4. QED
    BY <2>2, <2>3, <1>11
<1>13. SyncInv'
  <2>1. ASSUME Answered, Covers(lo, gaps.since, found)
        PROVE  Covers(lo, gaps.since, found)'
    <3>1. \A i \in 1..(L + 1) : (gaps.since <= i /\ i <= lo /\ Received(i)' /\ Contract(chain'[i]) \in Pairs)
                                  => Contract(chain'[i]) \in found
      BY <2>1, <1>6, <1>9, <1>11
    <3>2. QED
      BY <3>1, <1>4, <1>5 DEF Covers, Contract
  <2>2. ASSUME Farmed(lo, gaps.silent, active)
        PROVE  Farmed(lo, gaps.silent, active)'
    <3>1. \E a \in lo..(L + 1) : \A f \in Farms : Active(f, a, gaps.silent)' => f \in active
      BY <2>2, <1>6, <1>10, <1>5 DEF Active
    <3>2. QED
      BY <3>1, <1>4, <1>5 DEF Farmed, Active
  <2>3. found \subseteq Known(gaps.named) => found' \subseteq Known(gaps.named)'
    BY <1>17, <1>5 DEF Known
  <2>4. QED
    BY <2>1, <2>2, <2>3, <1>5, <1>11 DEF IInv, SyncInv
<1>14. ScopeInv'
  <2>1. ASSUME scope.lo <= L, Covers(scope.lo, scope.gaps.since, pairs)
        PROVE  Covers(scope.lo, scope.gaps.since, pairs)'
    <3>1. \A i \in 1..(L + 1) : (scope.gaps.since <= i /\ i <= scope.lo /\ Received(i)' /\ Contract(chain'[i]) \in Pairs)
                                  => Contract(chain'[i]) \in pairs
      BY <2>1, <1>6, <1>9
    <3>2. QED
      BY <3>1, <1>4, <1>5, <1>6 DEF Covers, Contract
  <2>2. ASSUME Farmed(scope.lo, scope.gaps.silent, farms)
        PROVE  Farmed(scope.lo, scope.gaps.silent, farms)'
    <3>1. \E a \in scope.lo..(L + 1) : \A f \in Farms : Active(f, a, scope.gaps.silent)' => f \in farms
      BY <2>2, <1>6, <1>10 DEF Active
    <3>2. QED
      BY <3>1, <1>4, <1>5, <1>6 DEF Farmed, Active
  <2>3. scope.lo <= L => (scope.lo <= Latest)'
    BY <1>4, <1>6
  <2>4. pairs' \subseteq Known(scope.gaps.named)'
    BY <1>17, <1>5, <1>6 DEF Known, IInv, ScopeInv
  <2>5. QED
    BY <2>1, <2>2, <2>3, <2>4, <1>3, <1>5 DEF IInv, ScopeInv
<1>15. PositionsInv'
  <2>1. (pc = "stakes")' => /\ (lo = hi /\ hi <= Latest)'
                            /\ (\A c \in pairs : direct[c] = Held(c, lo))'
    <3>1. HAVE (pc = "stakes")'
    <3>2. lo = hi /\ hi <= L /\ \A c \in pairs : direct[c] = Held(c, lo)
      BY <3>1, <1>3, <1>5 DEF IInv, PositionsInv
    <3>3. lo \in 0..L
      BY <3>2, <1>6
    <3>4. \A c : Held(c, lo)' = Held(c, lo)
      <4>1. PICK b \in 0..L : b = lo
        BY <3>3
      <4>2. \A c : Held(c, b)' = Held(c, b)
        BY <1>4
      <4>3. Stakes(lo)' = Stakes(b)' /\ \A k, c : Times(k, c, lo)' = Times(k, c, b)'
        BY <4>1, <1>5 DEF Stakes, Staked, Times
      <4>4. \A c : Held(c, lo)' = Held(c, b)'
        BY <4>3 DEF Held, FarmsOf
      <4>5. QED
        BY <4>1, <4>2, <4>4
    <3>5. (\A c \in pairs : direct[c] = Held(c, lo))'
      <4>1. \A c \in pairs : direct'[c] = Held(c, lo)'
        BY <3>2, <3>4, <1>5
      <4>2. QED
        BY <4>1, <1>5
    <3>6. QED
      BY <3>2, <3>5, <1>4, <1>5, <1>6
  <2>2. ASSUME NEW d \in 0..L, NEW g \in 0..L, ReadAt(d, g)
        PROVE  ReadAt(d, g)'
    <3>1. /\ \A c : Held(c, d)' = Held(c, d)
          /\ \A f : Staked(f, g)' = Staked(f, g)
          /\ \A f, q : Active(f, g, q)' <=> Active(f, g, q)
      BY <1>4
    <3>2. {f \in farms : Active(f, g, gaps.silent)'} = {f \in farms : Active(f, g, gaps.silent)}
      BY <3>1, <1>5 DEF Active
    <3>3. QED
      BY <2>2, <3>1, <3>2, <1>5 DEF ReadAt
  <2>3. ASSUME (pc = "done" /\ mode = "positions" /\ pairs # {})'
        PROVE  (/\ lo <= hi /\ hi <= Latest
                /\ \E d, g \in lo..hi : ReadAt(d, g) /\ (ordered => d = lo /\ g = hi))'
    <3>1. lo <= hi /\ hi <= L /\ \E d, g \in lo..hi : ReadAt(d, g) /\ (ordered => d = lo /\ g = hi)
      BY <2>3, <1>3, <1>5 DEF IInv, PositionsInv
    <3>2. PICK d \in lo..hi, g \in lo..hi : ReadAt(d, g) /\ (ordered => d = lo /\ g = hi)
      BY <3>1
    <3>3. d \in 0..L /\ g \in 0..L
      BY <3>1, <1>3, <1>6
    <3>4. ReadAt(d, g)'
      BY <2>2, <3>2, <3>3
    <3>5. QED
      BY <3>1, <3>2, <3>4, <1>3, <1>4, <1>5, <1>6
  <2>4. QED
    BY <2>1, <2>3, <1>5 DEF IInv, PositionsInv
<1>16. QED
  BY <1>7, <1>8, <1>12, <1>13, <1>14, <1>15 DEF IInv

-----------------------------------------------------------------------------
(* Pages of transfers. *)

\* The lesser and the greater of two.
LEMMA MinMaxOfTwo ==
  ASSUME NEW a \in Nat, NEW b \in Nat
  PROVE  /\ Min({a, b}) = IF a <= b THEN a ELSE b
         /\ Max({a, b}) = IF a >= b THEN a ELSE b
<1>1. \E x \in {a, b} : \A y \in {a, b} : x <= y
  OBVIOUS
<1>2. \E x \in {a, b} : \A y \in {a, b} : x >= y
  OBVIOUS
<1>3. QED
  BY <1>1, <1>2 DEF Min, Max

\* A set of natural numbers has a least element.
LEMMA LeastNat ==
  ASSUME NEW T, T \subseteq Nat, T # {}
  PROVE  \E x \in T : \A y \in T : x <= y
<1> DEFINE F == {0..n : n \in T}
<1>1. \A n \in T : n \in Nat /\ 0..n \in FiniteSubsetsOf(Nat)
  BY FS_Interval, SMT DEF FiniteSubsetsOf
<1>2. F \subseteq FiniteSubsetsOf(Nat) /\ F # {}
  BY <1>1
<1>3. \E X \in F : \A Y \in F : ~ (<<Y, X>> \in StrictSubsetOrdering(Nat))
  BY <1>2, WFMin, FS_StrictSubsetOrderingWellFounded
<1>4. PICK n \in T : \A m \in T : ~ (<<0..m, 0..n>> \in StrictSubsetOrdering(Nat))
  BY <1>3
<1>5. ASSUME NEW m \in T, m < n
      PROVE  FALSE
  <2>1. 0..m \subseteq 0..n /\ 0..m # 0..n /\ 0..m \subseteq Nat /\ 0..n \subseteq Nat
    BY <1>5
  <2>2. <<0..m, 0..n>> \in StrictSubsetOrdering(Nat)
    BY <2>1 DEF StrictSubsetOrdering
  <2>3. QED
    BY <2>2, <1>4
<1>6. QED
  BY <1>5

\* A bounded one has a greatest.
LEMMA GreatestNat ==
  ASSUME NEW b \in Nat, NEW T, T \subseteq 0..b, T # {}
  PROVE  \E x \in T : \A y \in T : y <= x
<1> DEFINE D == {b - x : x \in T}
<1>1. \A y \in T : y \in Nat /\ b - y \in Nat /\ b - y \in D
  OBVIOUS
<1>2. D \subseteq Nat /\ D # {}
  BY <1>1
<1> HIDE DEF D
<1>3. PICK d \in D : \A e \in D : d <= e
  BY <1>2, LeastNat
<1>4. PICK x \in T : d = b - x
  BY DEF D
<1>5. \A y \in T : b - x <= b - y
  BY <1>1, <1>3, <1>4
<1>6. \A y \in T : y <= x
  BY <1>1, <1>5
<1>7. QED
  BY <1>6

\* A page ends at its oldest transfer: it has what is not older, and when no
\* page key is left over it has everything.
LEMMA PageShape ==
  ASSUME TypeOK, NEW b \in Nat
  PROVE  /\ Older(b) # {} => /\ Min(PageOf(b)) \in 1..b
                             /\ Min(PageOf(b)) < cursor
                             /\ \A i \in Older(b) : i >= Min(PageOf(b)) => i \in PageOf(b)
         /\ PageOf(b) \subseteq Older(b)
         /\ \A i : i \in Older(b) <=> i \in 1..b /\ i < cursor /\ chain[i].kind \in TransferKinds(direction)
<1> DEFINE O == Older(b)
           P == PageOf(b)
           From(i) == {j \in O : j >= i}
<1>1. \A i : i \in O <=> i \in 1..b /\ i < cursor /\ chain[i].kind \in TransferKinds(direction)
  BY DEF Older
<1>2. O \subseteq 0..b /\ O \subseteq 1..b /\ IsFiniteSet(O)
  BY <1>1, FS_Interval, FS_Subset
<1>3. P = {i \in O : Cardinality(From(i)) <= PageSize}
  BY DEF PageOf
<1> HIDE DEF O, P
<1>4. \A i \in O : IsFiniteSet(From(i)) /\ Cardinality(From(i)) \in Nat
  BY <1>2, FS_Subset, FS_CardinalityType
<1>5. ASSUME O # {}
      PROVE  /\ Min(P) \in 1..b /\ Min(P) < cursor
             /\ \A i \in O : i >= Min(P) => i \in P
  <2>1. PICK x \in O : \A y \in O : y <= x
    BY <1>2, <1>5, GreatestNat
  <2>2. From(x) = {x}
    <3>1. \A j \in O : j \in Nat
      BY <1>2
    <3>2. \A j \in O : j >= x <=> j = x
      BY <2>1, <3>1
    <3>3. QED
      BY <3>2
  <2>3. Cardinality(From(x)) = 1
    BY <2>2, FS_Singleton
  <2>4. PageSize \in Nat \ {0}
    BY ScopeAssumption
  <2>5. x \in P
    BY <1>3, <2>3, <2>4
  <2>6. P \subseteq O /\ P \subseteq Nat
    <3>1. P \subseteq O
      BY <1>3
    <3>2. QED
      BY <3>1, <1>2
  <2>7. \E y \in P : \A z \in P : y <= z
    BY <2>5, <2>6, LeastNat
  <2>8. Min(P) \in P /\ \A z \in P : Min(P) <= z
    BY <2>7 DEF Min
  <2>9. ASSUME NEW i \in O, i >= Min(P)
        PROVE  i \in P
    <3>1. Min(P) \in O /\ Cardinality(From(Min(P))) <= PageSize
      BY <2>8, <1>3
    <3>2. From(i) \subseteq From(Min(P))
      <4>1. \A j \in O : j \in Nat
        BY <1>2
      <4>2. i \in Nat /\ Min(P) \in Nat
        BY <4>1, <3>1
      <4>3. \A j \in O : j >= i => j >= Min(P)
        BY <2>9, <4>1, <4>2
      <4>4. QED
        BY <4>3
    <3>3. Cardinality(From(i)) <= Cardinality(From(Min(P)))
      BY <3>1, <3>2, <1>4, FS_Subset
    <3>4. Cardinality(From(i)) \in Nat /\ Cardinality(From(Min(P))) \in Nat
      BY <3>1, <1>4
    <3>5. QED
      BY <3>1, <3>3, <3>4, <2>4, <1>3
  <2>10. QED
    BY <1>1, <1>2, <2>6, <2>8, <2>9
<1>6. P \subseteq O
  BY <1>3
<1>7. QED
  BY <1>1, <1>5, <1>6 DEF O, P

\* The factory's list at a block is no longer than the chain.
LEMMA ListShape ==
  ASSUME TypeOK, NEW b \in 0..Latest
  PROVE  /\ PairCount(b) \in 0..b
         /\ \A n : FirstPairs(n, b) \subseteq Pairs
<1>1. Latest = Len(chain) /\ Latest \in Nat /\ b \in Nat /\ b <= Latest
      /\ \A i \in 1..b : chain[i] \in Events
  BY DEF TypeOK, Latest
<1>2. Creations(b) \subseteq 1..b
  BY DEF Creations
<1>3. IsFiniteSet(1..b) /\ Cardinality(1..b) = b
  BY <1>1, FS_Interval
<1>4. IsFiniteSet(Creations(b)) /\ Cardinality(Creations(b)) <= b
  BY <1>2, <1>3, FS_Subset
<1>5. PairCount(b) \in 0..b
  BY <1>1, <1>4, FS_CardinalityType DEF PairCount
<1>6. \A i \in Creations(b) : chain[i].on \in Pairs
  BY <1>1 DEF Creations, Events
<1>7. \A n : FirstPairs(n, b) \subseteq Pairs
  BY <1>6 DEF FirstPairs
<1>8. QED
  BY <1>5, <1>7

\* A transfer is of a contract.
LEMMA MovedContract ==
  ASSUME TypeOK, NEW i \in 1..Latest
  PROVE  /\ Received(i) => Moved(i)
         /\ \A dir \in {"from", "to"} : chain[i].kind \in TransferKinds(dir) => Moved(i)
         /\ Moved(i) => Contract(chain[i]) \in Contracts
<1>1. chain[i] \in Events
  BY DEF TypeOK, Latest
<1>2. Moved(i) => Contract(chain[i]) \in Contracts
  <2>1. HAVE Moved(i)
  <2>2. chain[i].kind \in {"receive", "send", "stake", "withdraw"}
    BY <2>1 DEF Moved, TransferKinds
  <2>3. CASE chain[i].kind \in {"receive", "send"}
    BY <1>1, <2>3 DEF Events, Contract
  <2>4. CASE chain[i].kind \in {"stake", "withdraw"}
    <3>1. chain[i].on \in Farms
      BY <1>1, <2>4 DEF Events
    <3>2. QED
      BY <2>4, <3>1, ScopeAssumption DEF Contract, Contracts
  <2>5. QED
    BY <2>2, <2>3, <2>4
<1>3. QED
  BY <1>2 DEF Received, Moved, TransferKinds

-----------------------------------------------------------------------------
(* What a call of the command leaves alone. *)

\* One part of the account changes at a time.
LEMMA GapsChanged ==
  ASSUME gaps \in Gaps
  PROVE  /\ \A x \in BOOLEAN : LET g == [gaps EXCEPT !.capped = x]
              IN g \in Gaps /\ g.capped = x /\ g.since = gaps.since /\ g.silent = gaps.silent /\ g.named = gaps.named
         /\ \A x \in LogStarts : LET g == [gaps EXCEPT !.since = x]
              IN g \in Gaps /\ g.since = x /\ g.capped = gaps.capped /\ g.silent = gaps.silent /\ g.named = gaps.named
         /\ \A x \in SUBSET Farms : LET g == [gaps EXCEPT !.silent = x]
              IN g \in Gaps /\ g.silent = x /\ g.capped = gaps.capped /\ g.since = gaps.since /\ g.named = gaps.named
         /\ \A x \in SUBSET SeedPairs : LET g == [gaps EXCEPT !.named = x]
              IN g \in Gaps /\ g.named = x /\ g.capped = gaps.capped /\ g.since = gaps.since /\ g.silent = gaps.silent
BY DEF Gaps

\* What is said of a chain that stays is still so.
LEMMA SameChain ==
  ASSUME chain' = chain
  PROVE  /\ Latest' = Latest
         /\ ChainInv' <=> ChainInv
         /\ Covers(lo, gaps.since, found)' <=> Covers(lo', gaps'.since, found')
         /\ Covers(scope.lo, scope.gaps.since, pairs)' <=> Covers(scope'.lo, scope'.gaps.since, pairs')
         /\ Farmed(lo, gaps.silent, active)' <=> Farmed(lo', gaps'.silent, active')
         /\ Farmed(scope.lo, scope.gaps.silent, farms)' <=> Farmed(scope'.lo, scope'.gaps.silent, farms')
         /\ \A f, b, q : Active(f, b, q)' <=> Active(f, b, q)
         /\ \A n : Known(n)' = Known(n)
         /\ Answered' <=> lo' <= Latest
<1>1. /\ Latest' = Latest
      /\ \A b : Created(b)' = Created(b)
      /\ \A f, b : Staked(f, b)' = Staked(f, b)
      /\ \A i : (Received(i)' <=> Received(i)) /\ (Moved(i)' <=> Moved(i))
  BY DEF Latest, Created, Times, Staked, Received, Moved, TransferKinds
<1>2. \A c, b : Held(c, b)' = Held(c, b)
  BY DEF Held, Times, Stakes, Staked, FarmsOf
<1>3. /\ \A f, b, q : Active(f, b, q)' <=> Active(f, b, q)
      /\ \A n : Known(n)' = Known(n)
  <2>1. \A f, b : Earned(f, b)' <=> Earned(f, b)
    BY DEF Earned, Staked, Times
  <2>2. QED
    BY <2>1, <1>1 DEF Active, Known
<1>4. ChainInv' <=> ChainInv
  BY <1>1, <1>2 DEF ChainInv, Contract
<1>5. /\ Covers(lo, gaps.since, found)' <=> Covers(lo', gaps'.since, found')
      /\ Covers(scope.lo, scope.gaps.since, pairs)' <=> Covers(scope'.lo, scope'.gaps.since, pairs')
  BY <1>1 DEF Covers, Contract
<1>6. /\ Farmed(lo, gaps.silent, active)' <=> Farmed(lo', gaps'.silent, active')
      /\ Farmed(scope.lo, scope.gaps.silent, farms)' <=> Farmed(scope'.lo, scope'.gaps.silent, farms')
  BY <1>1, <1>3 DEF Farmed
<1>7. QED
  BY <1>1, <1>3, <1>4, <1>5, <1>6 DEF Answered

\* What covers a block covers the blocks before it, and more covers no less.
LEMMA Narrower ==
  ASSUME NEW a \in Nat, NEW b \in Nat, a <= b, NEW n, NEW q, NEW s, NEW t, s \subseteq t
  PROVE  /\ Covers(b, n, s) => Covers(a, n, t)
         /\ Farmed(b, q, s) => Farmed(a, q, t)
<1>1. Covers(b, n, s) => Covers(a, n, t)
  BY DEF Covers
<1>2. Farmed(b, q, s) => Farmed(a, q, t)
  <2>1. HAVE Farmed(b, q, s)
  <2>2. PICK x \in b..Latest : \A f \in Farms : Active(f, x, q) => f \in s
    BY <2>1 DEF Farmed
  <2>3. x \in a..Latest
    OBVIOUS
  <2>4. QED
    BY <2>2, <2>3 DEF Farmed
<1>3. QED
  BY <1>1, <1>2

\* No call of a sync was answered before lo.
LEMMA SyncSawBlock ==
  ASSUME TypeOK, ChainInv, NEW b \in 0..Latest, SyncSaw(b)
  PROVE  /\ lo' \in 0..MaxBlocks /\ hi' \in 0..Latest
         /\ lo' <= lo /\ lo' <= b /\ lo' \in {lo, b} /\ lo' <= Latest
         /\ ordered' = ordered
         /\ b \in Nat /\ lo \in Nat /\ Latest \in Nat
<1>1. lo \in 0..MaxBlocks /\ hi \in 0..Latest /\ Latest \in Nat /\ Latest <= MaxBlocks
      /\ MaxBlocks \in Nat
  <2>1. MaxBlocks \in Nat
    BY ScopeAssumption
  <2>2. Latest \in Nat
    BY DEF TypeOK, Latest
  <2>3. lo \in 0..MaxBlocks /\ hi \in 0..Latest
    BY DEF TypeOK, Latest
  <2>4. Latest <= MaxBlocks
    BY DEF ChainInv
  <2>5. QED
    BY <2>1, <2>2, <2>3, <2>4
<1>2. lo' = (IF lo <= b THEN lo ELSE b) /\ hi' = hi /\ ordered' = ordered
  BY <1>1, MinMaxOfTwo DEF SyncSaw
<1>3. QED
  BY <1>1, <1>2

\* The blocks that positions has seen so far lie between lo and hi.
LEMMA SawBlock ==
  ASSUME TypeOK, ChainInv, NEW b \in 0..Latest, Saw(b)
  PROVE  /\ lo' \in 0..MaxBlocks /\ hi' \in 0..Latest
         /\ lo' <= lo /\ lo' <= b /\ lo' \in {lo, b}
         /\ hi' >= hi /\ hi' >= b /\ hi' \in {hi, b}
         /\ lo' <= hi' /\ hi' <= Latest
         /\ ordered' = (ordered /\ b >= hi)
         /\ b \in Nat /\ lo \in Nat /\ hi \in Nat /\ Latest \in Nat
<1>1. lo \in 0..MaxBlocks /\ hi \in 0..Latest /\ Latest \in Nat /\ Latest <= MaxBlocks
      /\ MaxBlocks \in Nat
  <2>1. MaxBlocks \in Nat
    BY ScopeAssumption
  <2>2. Latest \in Nat
    BY DEF TypeOK, Latest
  <2>3. lo \in 0..MaxBlocks /\ hi \in 0..Latest
    BY DEF TypeOK, Latest
  <2>4. Latest <= MaxBlocks
    BY DEF ChainInv
  <2>5. QED
    BY <2>1, <2>2, <2>3, <2>4
<1>2. /\ lo' = (IF lo <= b THEN lo ELSE b)
      /\ hi' = (IF hi >= b THEN hi ELSE b)
  BY <1>1, MinMaxOfTwo DEF Saw
<1>3. ordered' = (ordered /\ b >= hi)
  BY DEF Saw
<1>4. QED
  BY <1>1, <1>2, <1>3

-----------------------------------------------------------------------------
(* The calls of sync-metadata. *)

\* A call that writes no row.
LEMMA NoRowWritten ==
  ASSUME IInv, UNCHANGED cache, TypeOK', PagingInv', SyncInv',
         pc' \notin Reads, pc' = "done" => mode' # "positions"
  PROVE  IInv'
<1>1. ChainInv'
  BY SameChain DEF IInv, cache
<1>2. ScopeInv'
  <2>1. chain' = chain /\ pairs' = pairs /\ farms' = farms /\ scope' = scope
    BY DEF cache
  <2>2. /\ Latest' = Latest
        /\ Covers(scope.lo, scope.gaps.since, pairs)' <=> Covers(scope.lo, scope.gaps.since, pairs)
        /\ Farmed(scope.lo, scope.gaps.silent, farms)' <=> Farmed(scope.lo, scope.gaps.silent, farms)
        /\ Known(scope.gaps.named)' = Known(scope.gaps.named)
    BY <2>1, SameChain DEF Known, Created, Times
  <2>3. QED
    BY <2>1, <2>2 DEF IInv, ScopeInv
<1>3. PositionsInv'
  BY DEF PositionsInv, Reads
<1>4. QED
  BY <1>1, <1>2, <1>3 DEF IInv

\* An empty account is one of the accounts.
LEMMA NoGapsType == NoGaps \in Gaps
<1>1. /\ FALSE \in BOOLEAN /\ 0 \in LogStarts \cup {0}
      /\ {} \in SUBSET Farms /\ {} \in SUBSET SeedPairs
  OBVIOUS
<1>2. QED
  BY <1>1 DEF NoGaps, Gaps

\* What a command begins and ends with is well formed.
LEMMA FreshType ==
  ASSUME Fresh
  PROVE  /\ direction' \in {"from", "to"} /\ page' \in 0..(MaxPages - 1)
         /\ cursor' \in 1..(MaxBlocks + 1) /\ count' \in 0..MaxBlocks
         /\ found' \subseteq Contracts
         /\ direct' \in [Contracts -> Nat] /\ staked' \in [Farms -> Nat]
         /\ lo' \in 0..MaxBlocks /\ ordered' \in BOOLEAN /\ gaps' \in Gaps
         /\ hi' = 0 /\ lo' = MaxBlocks /\ direction' = "from" /\ found' = {} /\ gaps' = NoGaps
<1>1. MaxBlocks \in Nat /\ MaxPages - 1 \in Nat
  <2>1. MaxBlocks \in Nat /\ MaxPages \in Nat \ {0}
    BY ScopeAssumption
  <2>2. QED
    BY <2>1
<1>2. 0 \in 0..(MaxPages - 1) /\ 0 \in 0..MaxBlocks /\ MaxBlocks + 1 \in 1..(MaxBlocks + 1)
      /\ MaxBlocks \in 0..MaxBlocks
  BY <1>1
<1>3. QED
  BY <1>2, NoGapsType DEF Fresh

\* A command begins with nothing found.
LEMMA BeginStep ==
  ASSUME IInv, NEW m \in Modes \cup {"positions"}, Begin(m)
  PROVE  IInv'
<1>1. /\ m \in {"user", "full", "limited", "seed", "positions"} /\ MaxBlocks \in Nat
      /\ MaxRuns \in Nat /\ MaxPages - 1 \in Nat
  <2>1. m \in {"user", "full", "limited", "seed", "positions"}
    BY ScopeAssumption
  <2>2. MaxBlocks \in Nat /\ MaxPages \in Nat \ {0} /\ {MaxPairs, MaxLag, MaxRuns} \subseteq Nat
    BY ScopeAssumption
  <2>3. QED
    BY <2>1, <2>2
<1>2. /\ UNCHANGED <<chain, pairs, farms, synced, source, scope>>
      /\ mode' = m /\ direction' = "from" /\ found' = {} /\ lo' = MaxBlocks /\ hi' = 0
      /\ pc' \in {"logs", "page", "length", "build", "failed", "done", "balances"}
      /\ m = "user" => pc' \in {"logs", "page"}
      /\ m \in {"full", "limited"} => pc' = "length"
      /\ m = "seed" => pc' = "build"
      /\ m = "positions" => pc' \in {"failed", "balances"} \/ (pc' = "done" /\ pairs' = {})
  BY <1>1 DEF Begin, Fresh
<1>3. TypeOK'
  <2>1. /\ chain' \in Seq(Events) /\ pairs' \subseteq Contracts /\ farms' \subseteq Farms
        /\ synced' \in BOOLEAN /\ source' \in Sources
        /\ (scope \in [kind : {"none", "torn", "user", "other"}, lo : 0..MaxBlocks, gaps : Gaps])'
        /\ (hi \in 0..Len(chain))'
    BY <1>2 DEF IInv, TypeOK
  <2>2. runs' \in 0..MaxRuns
    BY <1>1 DEF IInv, TypeOK, Begin
  <2>3. /\ mode' \in Modes \cup {"positions"} /\ direction' \in {"from", "to"}
        /\ found' \subseteq Contracts /\ lo' \in 0..MaxBlocks
        /\ pc' \in Ended \cup SyncCalls \cup Reads
    BY <1>1, <1>2 DEF Ended, SyncCalls, Reads
  <2>4. /\ page' \in 0..(MaxPages - 1) /\ cursor' \in 1..(MaxBlocks + 1) /\ count' \in 0..MaxBlocks
        /\ ordered' \in BOOLEAN /\ gaps' \in Gaps
        /\ direct' \in [Contracts -> Nat] /\ staked' \in [Farms -> Nat]
    BY FreshType DEF Begin
  <2>5. active' \subseteq Farms
    BY DEF Begin
  <2>6. QED
    BY <2>1, <2>2, <2>3, <2>4, <2>5 DEF TypeOK
<1>4. ChainInv'
  BY <1>2, SameChain DEF IInv
<1>5. PagingInv'
  BY <1>2 DEF PagingInv
<1>6. SyncInv'
  BY <1>1, <1>2 DEF SyncInv, SyncCalls
<1>7. ScopeInv'
  <2>1. /\ Latest' = Latest
        /\ Covers(scope.lo, scope.gaps.since, pairs)' <=> Covers(scope.lo, scope.gaps.since, pairs)
        /\ Farmed(scope.lo, scope.gaps.silent, farms)' <=> Farmed(scope.lo, scope.gaps.silent, farms)
        /\ Known(scope.gaps.named)' = Known(scope.gaps.named)
    BY <1>2, SameChain DEF Known, Created, Times
  <2>2. QED
    BY <1>2, <2>1 DEF IInv, ScopeInv
<1>8. PositionsInv'
  BY <1>1, <1>2 DEF PositionsInv, Reads
<1>9. QED
  BY <1>3, <1>4, <1>5, <1>6, <1>7, <1>8 DEF IInv

\* Pages that fail leave the logs to be asked.
LEMMA PagesFail ==
  ASSUME IInv, AssetTransfersFail
  PROVE  IInv'
<1>1. /\ UNCHANGED <<mode, source, direction, page, cursor, count, active, direct, staked, lo,
                     hi, ordered, cache>>
      /\ pc = "page" /\ pc' \in {"failed", "logs"} /\ found' = {} /\ gaps' = NoGaps
  BY DEF AssetTransfersFail
<1>2. TypeOK'
  BY <1>1, NoGapsType DEF IInv, TypeOK, cache, Ended, SyncCalls
<1>3. PagingInv'
  BY <1>1 DEF PagingInv
<1>4. mode' = "user"
  BY <1>1 DEF IInv, SyncInv
<1>5. SyncInv'
  BY <1>1, <1>4 DEF SyncInv, SyncCalls
<1>6. QED
  BY <1>1, <1>2, <1>3, <1>5, NoRowWritten DEF Reads

\* The logs show every pair the wallet ever received.
LEMMA LogsStep ==
  ASSUME IInv, NEW b \in Answering \cup {0}, TransferLogs(b)
  PROVE  IInv'
<1>1. PICK start \in LogStarts :
      /\ UNCHANGED <<mode, source, direction, page, cursor, count, active, direct, staked, cache>>
      /\ pc = "logs" /\ SyncSaw(b)
      /\ found' = {Contract(chain[i]) : i \in {j \in 1..b : j >= start /\ Moved(j)}}
      /\ gaps' = [gaps EXCEPT !.since = start]
      /\ pc' = IF found' = {} THEN "activeFarms" ELSE "tokens"
  BY DEF TransferLogs, AfterTransfers, Moved
<1>2. TypeOK /\ ChainInv /\ SyncInv /\ b \in 0..Latest /\ chain' = chain
  <2>1. TypeOK /\ ChainInv /\ SyncInv
    BY DEF IInv
  <2>2. Latest \in Nat
    BY <2>1 DEF TypeOK, Latest
  <2>3. QED
    BY <1>1, <2>1, <2>2 DEF Answering, cache
<1>3. /\ lo' \in 0..MaxBlocks /\ hi' \in 0..Latest /\ lo' <= b /\ lo' <= Latest
      /\ Latest \in Nat /\ ordered' = ordered
  BY <1>1, <1>2, SyncSawBlock
<1>4. found' \subseteq Contracts
  BY <1>1, <1>2, <1>3, MovedContract
<1>5. TypeOK'
  <2>1. gaps' \in Gaps
    BY <1>1, <1>2, GapsChanged DEF TypeOK
  <2>2. QED
    BY <2>1, <1>1, <1>2, <1>3, <1>4 DEF TypeOK, cache, Ended, SyncCalls, Latest
<1>6. PagingInv'
  BY <1>1 DEF PagingInv
<1>7. Covers(lo', gaps'.since, found')
  <2>1. gaps'.since = start /\ start \in Nat
    BY <1>1, <1>2, GapsChanged, ScopeAssumption DEF TypeOK
  <2>2. ASSUME NEW i \in 1..Latest, start <= i, i <= lo', Received(i)
        PROVE  Contract(chain[i]) \in found'
    BY <2>1, <2>2, <1>1, <1>2, <1>3, MovedContract
  <2>3. QED
    BY <2>1, <2>2 DEF Covers
<1>8. mode' = "user" /\ Answered' /\ Covers(lo, gaps.since, found)'
  BY <1>1, <1>2, <1>3, <1>7, SameChain DEF SyncInv
<1>9. SyncInv'
  BY <1>1, <1>8 DEF SyncInv, SyncCalls
<1>10. QED
  BY <1>1, <1>5, <1>6, <1>9, NoRowWritten DEF Reads

\* The pairs that the wallet received before the oldest answer exist in any later one.
LEMMA CandidatesStay ==
  ASSUME TypeOK, ChainInv, NEW b \in 0..Latest, NEW l \in Nat, l <= lo, l <= b, NEW s,
         NEW n, Covers(lo, n, found), found \cap Created(b) \subseteq s
  PROVE  Covers(l, n, s)
<1>1. Latest \in Nat /\ lo \in Nat /\ b \in Nat
  BY DEF TypeOK, Latest
<1>2. ASSUME NEW i \in 1..Latest, n <= i, i <= l, Received(i), Contract(chain[i]) \in Pairs
      PROVE  Contract(chain[i]) \in s
  <2>1. i \in Nat /\ i <= lo /\ i <= b
    BY <1>1, <1>2
  <2>2. Contract(chain[i]) \in found
    BY <1>2, <2>1 DEF Covers
  <2>3. Contract(chain[i]) \in Created(i)
    BY <1>2, MovedContract DEF ChainInv
  <2>4. Created(i) \subseteq Created(b)
    BY <1>1, <2>1, CreatedMonotone
  <2>5. QED
    BY <2>2, <2>3, <2>4
<1>3. QED
  BY <1>2 DEF Covers

\* What is not a pair is dropped.
LEMMA TokensStep ==
  ASSUME IInv, NEW b \in Answering, PairTokens(b)
  PROVE  IInv'
<1>1. /\ UNCHANGED <<mode, source, direction, page, cursor, count, active, direct, staked,
                     gaps, cache>>
      /\ pc = "tokens" /\ SyncSaw(b)
      /\ found' = found \cap (Created(b) \cup Lookalikes)
      /\ pc' = IF found' = {} THEN "activeFarms" ELSE "getPair"
  BY DEF PairTokens
<1>2. TypeOK /\ ChainInv /\ SyncInv /\ b \in 0..Latest /\ chain' = chain
  BY <1>1 DEF IInv, Answering, cache
<1>3. /\ lo' \in 0..MaxBlocks /\ hi' \in 0..Latest /\ lo' <= lo /\ lo' <= b
      /\ lo' <= Latest /\ Latest \in Nat /\ ordered' = ordered
  BY <1>1, <1>2, SyncSawBlock
<1>4. TypeOK'
  BY <1>1, <1>2, <1>3 DEF TypeOK, cache, Ended, SyncCalls, Latest
<1>5. PagingInv'
  BY <1>1 DEF PagingInv
<1>6. mode = "user" /\ mode' = "user" /\ Answered'
  BY <1>1, <1>2, <1>3, SameChain DEF SyncInv
<1>7. ~gaps'.capped => Covers(lo, gaps.since, found)'
  <2>1. HAVE ~gaps'.capped
  <2>2. Covers(lo, gaps.since, found)
    BY <2>1, <1>1, <1>2, <1>6 DEF SyncInv
  <2>3. Covers(lo', gaps'.since, found')
    BY <2>2, <1>1, <1>2, <1>3, CandidatesStay
  <2>4. QED
    BY <2>3, <1>2, SameChain
<1>8. SyncInv'
  BY <1>1, <1>6, <1>7 DEF SyncInv, SyncCalls
<1>9. QED
  BY <1>1, <1>4, <1>5, <1>8, NoRowWritten DEF Reads

\* So is what the factory does not know.
LEMMA GetPairStep ==
  ASSUME IInv, NEW b \in Answering, GetPair(b)
  PROVE  IInv'
<1>1. /\ UNCHANGED <<mode, source, direction, page, cursor, count, active, direct, staked,
                     gaps, cache>>
      /\ pc = "getPair" /\ SyncSaw(b)
      /\ found' = found \cap Created(b)
      /\ pc' = "activeFarms"
  BY DEF GetPair
<1>2. TypeOK /\ ChainInv /\ SyncInv /\ b \in 0..Latest /\ chain' = chain
  BY <1>1 DEF IInv, Answering, cache
<1>3. /\ lo' \in 0..MaxBlocks /\ hi' \in 0..Latest /\ lo' <= lo /\ lo' <= b
      /\ lo' <= Latest /\ Latest \in Nat /\ ordered' = ordered
  BY <1>1, <1>2, SyncSawBlock
<1>4. TypeOK'
  BY <1>1, <1>2, <1>3 DEF TypeOK, cache, Ended, SyncCalls, Latest
<1>5. PagingInv'
  BY <1>1 DEF PagingInv
<1>6. mode = "user" /\ mode' = "user" /\ Answered'
  BY <1>1, <1>2, <1>3, SameChain DEF SyncInv
<1>7. ~gaps'.capped => Covers(lo, gaps.since, found)'
  <2>1. HAVE ~gaps'.capped
  <2>2. Covers(lo, gaps.since, found)
    BY <2>1, <1>1, <1>2, <1>6 DEF SyncInv
  <2>3. Covers(lo', gaps'.since, found')
    BY <2>2, <1>1, <1>2, <1>3, CandidatesStay
  <2>4. QED
    BY <2>3, <1>2, SameChain
<1>8. found' \subseteq Pairs
  BY <1>1 DEF Created
<1>9. SyncInv'
  BY <1>1, <1>6, <1>7, <1>8 DEF SyncInv, SyncCalls
<1>10. QED
  BY <1>1, <1>4, <1>5, <1>9, NoRowWritten DEF Reads

\* Farms with a stake are found with their pairs.
LEMMA FarmsStep ==
  ASSUME IInv, NEW b \in Answering, ActiveFarms(b)
  PROVE  IInv'
<1>1. PICK silent \in SUBSET Farms :
      /\ UNCHANGED <<mode, source, direction, page, cursor, count, found, direct, staked, cache>>
      /\ pc = "activeFarms" /\ SyncSaw(b)
      /\ active' = {f \in Farms : Active(f, b, silent)}
      /\ gaps' = [gaps EXCEPT !.silent = silent]
      /\ pc' = "build"
  BY DEF ActiveFarms
<1>2. TypeOK /\ ChainInv /\ SyncInv /\ b \in 0..Latest /\ chain' = chain
  BY <1>1 DEF IInv, Answering, cache
<1>3. /\ lo' \in 0..MaxBlocks /\ hi' \in 0..Latest /\ lo' <= lo /\ lo' <= b
      /\ lo' <= Latest /\ Latest \in Nat /\ ordered' = ordered /\ lo \in Nat
  BY <1>1, <1>2, SyncSawBlock
<1>11. gaps' \in Gaps /\ gaps'.silent = silent /\ gaps'.capped = gaps.capped /\ gaps'.since = gaps.since
  BY <1>1, <1>2, GapsChanged DEF TypeOK
<1>4. TypeOK'
  BY <1>1, <1>2, <1>3, <1>11 DEF TypeOK, cache, Ended, SyncCalls, Latest
<1>5. PagingInv'
  BY <1>1 DEF PagingInv
<1>6. mode = "user" /\ mode' = "user" /\ Answered' /\ found' \subseteq Pairs
  BY <1>1, <1>2, <1>3, SameChain DEF SyncInv
<1>7. ~gaps'.capped => Covers(lo, gaps.since, found)'
  <2>1. HAVE ~gaps'.capped
  <2>2. Covers(lo, gaps.since, found)
    BY <2>1, <1>1, <1>2, <1>6, <1>11 DEF SyncInv
  <2>3. Covers(lo', gaps'.since, found')
    BY <2>2, <1>1, <1>3, <1>11, Narrower
  <2>4. QED
    BY <2>3, <1>2, SameChain
<1>8. Farmed(lo, gaps.silent, active)'
  <2>1. b \in lo'..Latest
    BY <1>2, <1>3
  <2>2. \A f \in Farms : Active(f, b, silent) => f \in active'
    BY <1>1
  <2>3. Farmed(lo', gaps'.silent, active')
    BY <2>1, <2>2, <1>11 DEF Farmed
  <2>4. QED
    BY <2>3, <1>2, SameChain
<1>9. SyncInv'
  BY <1>1, <1>6, <1>7, <1>8 DEF SyncInv, SyncCalls
<1>10. QED
  BY <1>1, <1>4, <1>5, <1>9, NoRowWritten DEF Reads

\* The factory says how many pairs there are.
LEMMA LengthStep ==
  ASSUME IInv, NEW b \in Answering, AllPairsLength(b)
  PROVE  IInv'
<1>1. /\ UNCHANGED <<mode, source, direction, page, cursor, found, active, direct, staked,
                     gaps, cache>>
      /\ pc = "length" /\ SyncSaw(b)
      /\ count' \in {Min({MaxPairs, PairCount(b)}), PairCount(b)}
      /\ pc' = "list"
  BY DEF AllPairsLength
<1>2. TypeOK /\ ChainInv /\ SyncInv /\ b \in 0..Latest /\ chain' = chain
  BY <1>1 DEF IInv, Answering, cache
<1>3. /\ lo' \in 0..MaxBlocks /\ hi' \in 0..Latest /\ Latest \in Nat /\ b \in Nat
      /\ ordered' = ordered
  BY <1>1, <1>2, SyncSawBlock
<1>4. count' \in 0..MaxBlocks
  <2>1. PairCount(b) \in 0..b
    BY <1>2, ListShape
  <2>2. {MaxPairs, MaxLag, MaxRuns} \subseteq Nat /\ MaxBlocks \in Nat
    BY ScopeAssumption
  <2>3. b <= MaxBlocks
    BY <1>2, <1>3, <2>2 DEF ChainInv
  <2>4. Min({MaxPairs, PairCount(b)}) = IF MaxPairs <= PairCount(b) THEN MaxPairs ELSE PairCount(b)
    BY <1>3, <2>1, <2>2, MinMaxOfTwo
  <2>5. QED
    BY <1>1, <1>3, <2>1, <2>2, <2>3, <2>4
<1>5. TypeOK'
  BY <1>1, <1>2, <1>3, <1>4 DEF TypeOK, cache, Ended, SyncCalls, Latest
<1>6. PagingInv'
  BY <1>1 DEF PagingInv
<1>7. SyncInv'
  BY <1>1, <1>2 DEF SyncInv, SyncCalls
<1>8. QED
  BY <1>1, <1>5, <1>6, <1>7, NoRowWritten DEF Reads

\* It lists them from the first.
LEMMA ListStep ==
  ASSUME IInv, NEW b \in Answering, AllPairsList(b)
  PROVE  IInv'
<1>1. /\ UNCHANGED <<mode, source, direction, page, cursor, count, active, direct, staked,
                     gaps, cache>>
      /\ pc = "list" /\ SyncSaw(b)
      /\ (pc' = "failed" /\ found' = found) \/ (pc' = "build" /\ found' = FirstPairs(count, b))
  BY DEF AllPairsList
<1>2. TypeOK /\ ChainInv /\ SyncInv /\ b \in 0..Latest /\ chain' = chain
  BY <1>1 DEF IInv, Answering, cache
<1>3. /\ lo' \in 0..MaxBlocks /\ hi' \in 0..Latest /\ Latest \in Nat
      /\ ordered' = ordered
  BY <1>1, <1>2, SyncSawBlock
<1>4. /\ found' \subseteq Contracts
      /\ pc' = "build" => found' \subseteq Pairs
  BY <1>1, <1>2, ListShape DEF TypeOK, Contracts
<1>5. TypeOK'
  BY <1>1, <1>2, <1>3, <1>4 DEF TypeOK, cache, Ended, SyncCalls, Latest
<1>6. PagingInv'
  BY <1>1 DEF PagingInv
<1>7. mode' # "user" /\ mode' # "positions"
  BY <1>1, <1>2 DEF SyncInv, SyncCalls
<1>8. SyncInv'
  BY <1>1, <1>4, <1>7 DEF SyncInv, SyncCalls
<1>9. QED
  BY <1>1, <1>5, <1>6, <1>8, NoRowWritten DEF Reads

\* The rows are built from what was found.
LEMMA BuildStep ==
  ASSUME IInv, NEW b \in Answering, Build(b)
  PROVE  IInv'
<1>1. PICK named \in SUBSET SeedPairs :
      /\ UNCHANGED <<mode, source, direction, page, cursor, count, active, direct, staked, cache>>
      /\ pc = "build" /\ SyncSaw(b)
      /\ found' = found \cup {pairOf[f] : f \in active} \cup named
      /\ gaps' = [gaps EXCEPT !.named = named]
      /\ pc' \in {"setPairs", "failed"}
      /\ pc' = "setPairs" => found' \subseteq Created(b) \cup Lookalikes
  BY DEF Build, NeededPairs, Responding
<1>2. TypeOK /\ ChainInv /\ SyncInv /\ b \in 0..Latest /\ chain' = chain
  BY <1>1 DEF IInv, Answering, cache
<1>3. /\ lo' \in 0..MaxBlocks /\ hi' \in 0..Latest /\ lo' <= lo /\ lo' <= Latest
      /\ Latest \in Nat /\ ordered' = ordered /\ lo \in Nat
  BY <1>1, <1>2, SyncSawBlock
<1>4. /\ found \subseteq found' /\ found' \subseteq Contracts
      /\ \A f \in active : pairOf[f] \in found'
      /\ found' \subseteq Pairs \cup named
  <2>1. found \subseteq Pairs /\ active \subseteq Farms
    BY <1>1, <1>2 DEF SyncInv, TypeOK
  <2>2. SeedPairs \subseteq Contracts /\ \A f \in Farms : pairOf[f] \in Pairs
    BY ScopeAssumption DEF Contracts
  <2>3. QED
    BY <1>1, <2>1, <2>2 DEF Contracts
<1>11. /\ gaps' \in Gaps /\ gaps'.named = named /\ gaps'.capped = gaps.capped
       /\ gaps'.since = gaps.since /\ gaps'.silent = gaps.silent
  BY <1>1, <1>2, GapsChanged DEF TypeOK
<1>12. pc' = "setPairs" => found' \subseteq Known(gaps.named)'
  <2>1. HAVE pc' = "setPairs"
  <2>2. b \in Nat /\ Latest \in Nat /\ b <= Latest
    BY <1>2, <1>3
  <2>3. Created(b) \subseteq Created(Latest)
    BY <2>2, CreatedMonotone
  <2>4. Pairs \cap Lookalikes = {}
    BY ScopeAssumption
  <2>5. found' \subseteq Created(Latest) \cup (named \cap Lookalikes)
    BY <2>1, <2>3, <2>4, <1>1, <1>4
  <2>6. Created(Latest)' = Created(Latest)
    BY <1>2 DEF Created, Times, Latest
  <2>7. QED
    BY <2>5, <2>6, <1>11 DEF Known
<1>5. TypeOK'
  BY <1>1, <1>2, <1>3, <1>4, <1>11 DEF TypeOK, cache, Ended, SyncCalls, Latest
<1>6. PagingInv'
  BY <1>1 DEF PagingInv
<1>7. Answered' /\ mode' # "positions"
  BY <1>1, <1>2, <1>3, SameChain DEF SyncInv, SyncCalls
<1>8. ASSUME mode' = "user"
      PROVE  (~gaps'.capped => Covers(lo, gaps.since, found)') /\ Farmed(lo, gaps.silent, active)'
  <2>1. (~gaps.capped => Covers(lo, gaps.since, found)) /\ Farmed(lo, gaps.silent, active)
    BY <1>1, <1>2, <1>8 DEF SyncInv
  <2>2. (~gaps'.capped => Covers(lo', gaps'.since, found')) /\ Farmed(lo', gaps'.silent, active')
    BY <2>1, <1>1, <1>3, <1>4, <1>11, Narrower
  <2>3. QED
    BY <2>2, <1>2, SameChain
<1>9. SyncInv'
  BY <1>1, <1>4, <1>7, <1>8, <1>12 DEF SyncInv, SyncCalls
<1>10. QED
  BY <1>1, <1>5, <1>6, <1>9, NoRowWritten DEF Reads

\* The first Set writes the pairs.
LEMMA SetPairsStep ==
  ASSUME IInv, SetPairs
  PROVE  IInv'
<1>1. /\ UNCHANGED <<chain, farms, synced, runs, mode, source, direction, page, cursor, count,
                     found, active, direct, staked, lo, hi, ordered, gaps>>
      /\ pc = "setPairs" /\ pc' = "setFarms" /\ pairs' = found
      /\ scope' = [kind |-> "torn", lo |-> 0, gaps |-> gaps]
  BY DEF SetPairs
<1>2. TypeOK /\ ChainInv /\ SyncInv
  BY DEF IInv
<1>3. /\ found \subseteq Known(gaps.named) /\ mode # "positions"
      /\ scope'.kind = "torn" /\ scope'.gaps = gaps
  BY <1>1, <1>2 DEF SyncInv, SyncCalls
<1>4. TypeOK'
  <2>1. (scope \in [kind : {"none", "torn", "user", "other"}, lo : 0..MaxBlocks, gaps : Gaps])'
    <3>1. MaxBlocks \in Nat
      BY ScopeAssumption
    <3>2. 0 \in 0..MaxBlocks
      BY <3>1
    <3>3. gaps \in Gaps
      BY <1>2 DEF TypeOK
    <3>4. QED
      BY <3>2, <3>3, <1>1
  <2>2. QED
    BY <2>1, <1>1, <1>2 DEF TypeOK, Ended, SyncCalls
<1>5. ChainInv'
  BY <1>1, <1>2, SameChain
<1>6. PagingInv'
  BY <1>1 DEF PagingInv
<1>7. SyncInv'
  <2>1. /\ Covers(lo, gaps.since, found)' <=> Covers(lo, gaps.since, found)
        /\ Farmed(lo, gaps.silent, active)' <=> Farmed(lo, gaps.silent, active)
        /\ Answered' <=> Answered
        /\ Known(gaps.named)' = Known(gaps.named)
    BY <1>1, SameChain DEF Answered, Known
  <2>2. QED
    BY <2>1, <1>1, <1>2, <1>3 DEF SyncInv, SyncCalls
<1>8. ScopeInv'
  <2>1. \A n : Known(n)' = Known(n)
    BY <1>1, SameChain
  <2>2. Known(scope.gaps.named)' = Known(gaps.named)
    BY <1>3, <2>1 DEF Known, Created, Times, Latest
  <2>3. QED
    BY <2>2, <1>1, <1>3 DEF ScopeInv
<1>9. PositionsInv'
  BY <1>1 DEF PositionsInv, Reads
<1>10. QED
  BY <1>4, <1>5, <1>6, <1>7, <1>8, <1>9 DEF IInv

\* The second writes the farms.
LEMMA SetFarmsStep ==
  ASSUME IInv, SetFarms
  PROVE  IInv'
<1>1. /\ UNCHANGED <<chain, pairs, runs, mode, source>>
      /\ Fresh /\ active' = {}
      /\ pc = "setFarms" /\ pc' = "done" /\ farms' = active /\ synced' = TRUE
      /\ scope' = [kind |-> IF mode = "user" THEN "user" ELSE "other", lo |-> lo, gaps |-> gaps]
  BY DEF SetFarms
<1>2. TypeOK /\ ChainInv /\ SyncInv
  BY DEF IInv
<1>3. found \subseteq Known(gaps.named) /\ mode # "positions" /\ pairs = found /\ Answered
      /\ \A f \in active : pairOf[f] \in found
  BY <1>1, <1>2 DEF SyncInv, SyncCalls
<1>4. /\ scope'.lo = lo /\ scope'.gaps = gaps /\ scope'.kind = "user" <=> mode = "user"
      /\ scope'.kind \in {"user", "other"}
  BY <1>1
<1>5. TypeOK'
  <2>1. lo \in 0..MaxBlocks /\ gaps \in Gaps
    BY <1>2 DEF TypeOK
  <2>2. (scope \in [kind : {"none", "torn", "user", "other"}, lo : 0..MaxBlocks, gaps : Gaps])'
    BY <1>1, <2>1
  <2>3. (hi \in 0..Len(chain))'
    BY <1>1, <1>2, FreshType DEF TypeOK
  <2>4. QED
    BY <2>2, <2>3, <1>1, <1>2, FreshType DEF TypeOK, Ended, SyncCalls
<1>6. ChainInv'
  BY <1>1, <1>2, SameChain
<1>7. PagingInv'
  BY <1>1 DEF PagingInv
<1>8. SyncInv'
  BY <1>1, <1>3 DEF SyncInv, SyncCalls
<1>9. ScopeInv'
  <2>1. mode = "user" => (~gaps.capped => Covers(lo, gaps.since, found)) /\ Farmed(lo, gaps.silent, active)
    BY <1>1, <1>2 DEF SyncInv
  <2>2. /\ Covers(scope.lo, scope.gaps.since, pairs)' <=> Covers(lo, gaps.since, found)
        /\ Farmed(scope.lo, scope.gaps.silent, farms)' <=> Farmed(lo, gaps.silent, active)
        /\ Latest' = Latest
        /\ Known(scope.gaps.named)' = Known(gaps.named)
    BY <1>1, <1>3, <1>4, SameChain DEF Known, Created, Times
  <2>3. lo <= Latest
    BY <1>2, <1>3 DEF Answered, TypeOK, Latest
  <2>4. QED
    BY <2>1, <2>2, <2>3, <1>1, <1>3, <1>4 DEF ScopeInv
<1>10. PositionsInv'
  BY <1>1, <1>3 DEF PositionsInv, Reads
<1>11. QED
  BY <1>5, <1>6, <1>7, <1>8, <1>9, <1>10 DEF IInv

\* A call that fails leaves the rows as they are.
LEMMA FailsStep ==
  ASSUME IInv, Fails
  PROVE  IInv'
<1>1. UNCHANGED <<mode, source, cache>> /\ Fresh /\ active' = {} /\ pc' = "failed"
  BY DEF Fails
<1>2. TypeOK'
  <2>1. (hi \in 0..Len(chain))'
    BY <1>1, FreshType DEF IInv, TypeOK, cache
  <2>2. QED
    BY <2>1, <1>1, FreshType DEF IInv, TypeOK, cache, Ended
<1>3. PagingInv' /\ SyncInv'
  BY <1>1 DEF PagingInv, SyncInv, SyncCalls
<1>4. QED
  BY <1>1, <1>2, <1>3, NoRowWritten DEF Reads

\* What a page adds: everything received since the new cursor, or everything,
\* unless the last page left some over.
LEMMA PageCovers ==
  ASSUME TypeOK, ChainInv, PagingInv, NEW b \in 0..Latest, pc = "page", SyncSaw(b),
         direction = "to",
         found' = found \cup {Contract(chain[i]) : i \in PageOf(b)}
  PROVE  /\ Older(b) # {} => \A i \in 1..Latest :
              (i <= lo' /\ i >= Min(PageOf(b)) /\ Received(i)) => Contract(chain[i]) \in found'
         /\ Older(b) \subseteq PageOf(b) => \A n : Covers(lo', n, found')
<1>1. /\ lo' \in 0..MaxBlocks /\ lo' <= lo /\ lo' <= b /\ lo \in Nat /\ b \in Nat /\ Latest \in Nat
  BY SyncSawBlock
<1>2. /\ Older(b) # {} => \A i \in Older(b) : i >= Min(PageOf(b)) => i \in PageOf(b)
      /\ \A i : i \in Older(b) <=> i \in 1..b /\ i < cursor /\ chain[i].kind \in TransferKinds(direction)
  BY <1>1, PageShape
<1>3. cursor \in Nat
  <2>1. MaxBlocks \in Nat
    BY ScopeAssumption
  <2>2. QED
    BY <2>1 DEF TypeOK
<1>4. ASSUME NEW i \in 1..Latest, i <= lo', Received(i)
      PROVE  Contract(chain[i]) \in found' \/ i \in Older(b)
  <2>1. CASE i >= cursor
    <3>1. i <= lo
      BY <1>1, <1>4
    <3>2. Contract(chain[i]) \in found
      BY <2>1, <3>1, <1>4 DEF PagingInv
    <3>3. QED
      BY <3>2
  <2>2. CASE i < cursor
    <3>1. i \in 1..b
      BY <1>1, <1>4
    <3>2. chain[i].kind \in TransferKinds(direction)
      BY <1>4 DEF Received
    <3>3. QED
      BY <2>2, <3>1, <3>2, <1>2
  <2>3. QED
    BY <1>3, <2>1, <2>2
<1>5. ASSUME NEW i \in PageOf(b)
      PROVE  Contract(chain[i]) \in found'
  BY <1>5
<1>6. ASSUME Older(b) # {}, NEW i \in 1..Latest, i <= lo', i >= Min(PageOf(b)), Received(i)
      PROVE  Contract(chain[i]) \in found'
  BY <1>2, <1>4, <1>5, <1>6
<1>7. ASSUME Older(b) \subseteq PageOf(b)
      PROVE  \A n : Covers(lo', n, found')
  BY <1>4, <1>5, <1>7 DEF Covers
<1>8. QED
  BY <1>6, <1>7

\* The pages show every pair the wallet ever received.
LEMMA PageStep ==
  ASSUME IInv, NEW b \in Answering \cup {0}, AssetTransfers(b)
  PROVE  IInv'
<1> DEFINE more == Older(b) \ PageOf(b) # {}
<1>1. /\ UNCHANGED <<mode, source, count, active, direct, staked, cache>>
      /\ pc = "page" /\ SyncSaw(b)
      /\ found' = found \cup {Contract(chain[i]) : i \in PageOf(b)}
      /\ gaps' = [gaps EXCEPT !.capped = @ \/ (direction = "to" /\ more /\ page + 1 = MaxPages)]
  BY DEF AssetTransfers
<1>2. \/ /\ more /\ page + 1 < MaxPages
         /\ page' = page + 1 /\ cursor' = Min(PageOf(b))
         /\ direction' = direction /\ pc' = pc
      \/ /\ ~(more /\ page + 1 < MaxPages)
         /\ page' = 0 /\ cursor' = MaxBlocks + 1 /\ direction' = "to"
         /\ pc' = IF direction = "from" THEN pc
                  ELSE IF found' = {} THEN "activeFarms" ELSE "tokens"
  BY DEF AssetTransfers, MorePages, AfterTransfers
<1> HIDE DEF more
<1>3. TypeOK /\ ChainInv /\ SyncInv /\ PagingInv /\ b \in 0..Latest /\ chain' = chain
  <2>1. TypeOK /\ ChainInv /\ SyncInv /\ PagingInv
    BY DEF IInv
  <2>2. Latest \in Nat
    BY <2>1 DEF TypeOK, Latest
  <2>3. QED
    BY <1>1, <2>1, <2>2 DEF Answering, cache
<1>4. /\ lo' \in 0..MaxBlocks /\ hi' \in 0..Latest /\ lo' <= Latest
      /\ Latest \in Nat /\ ordered' = ordered /\ b \in Nat
  BY <1>1, <1>3, SyncSawBlock
<1>5. /\ more => Older(b) # {} /\ Min(PageOf(b)) \in 1..b
      /\ ~more => Older(b) \subseteq PageOf(b)
      /\ PageOf(b) \subseteq Older(b)
      /\ \A i \in Older(b) : i \in 1..Latest /\ chain[i].kind \in TransferKinds(direction)
  <2>1. /\ Older(b) # {} => Min(PageOf(b)) \in 1..b
        /\ PageOf(b) \subseteq Older(b)
        /\ \A i : i \in Older(b) <=> i \in 1..b /\ i < cursor /\ chain[i].kind \in TransferKinds(direction)
    BY <1>3, <1>4, PageShape
  <2>2. \A i \in 1..b : i \in 1..Latest
    BY <1>3, <1>4
  <2>3. QED
    BY <2>1, <2>2 DEF more
<1>6. direction \in {"from", "to"} /\ MaxBlocks \in Nat /\ MaxPages \in Nat \ {0} /\ b <= MaxBlocks
      /\ page \in 0..(MaxPages - 1)
      /\ gaps' \in Gaps /\ gaps'.since = gaps.since
      /\ gaps'.capped = (gaps.capped \/ (direction = "to" /\ more /\ page + 1 = MaxPages))
  <2>1. MaxBlocks \in Nat /\ MaxPages \in Nat \ {0}
    BY ScopeAssumption
  <2>2. b <= MaxBlocks
    BY <1>3, <1>4, <2>1 DEF ChainInv
  <2>3. direction \in {"from", "to"} /\ page \in 0..(MaxPages - 1) /\ gaps \in Gaps
    BY <1>3 DEF TypeOK
  <2> DEFINE x == gaps.capped \/ (direction = "to" /\ more /\ page + 1 = MaxPages)
  <2>4. x \in BOOLEAN
    <3>1. gaps.capped \in BOOLEAN
      BY <2>3 DEF Gaps
    <3>2. QED
      BY <3>1, Zenon
  <2>5. gaps' = [gaps EXCEPT !.capped = x]
    BY <1>1
  <2> HIDE DEF x
  <2>6. gaps' \in Gaps /\ gaps'.since = gaps.since /\ gaps'.capped = x
    BY <2>3, <2>4, <2>5, GapsChanged
  <2>7. QED
    BY <2>1, <2>2, <2>3, <2>6 DEF x
<1>7. TypeOK'
  <2>1. found' \subseteq Contracts
    <3>1. \A i \in PageOf(b) : Contract(chain[i]) \in Contracts
      BY <1>3, <1>5, <1>6, MovedContract
    <3>2. QED
      BY <3>1, <1>1, <1>3 DEF TypeOK
  <2>2. page' \in 0..(MaxPages - 1)
    BY <1>2, <1>6
  <2>3. cursor' \in 1..(MaxBlocks + 1)
    BY <1>2, <1>4, <1>5, <1>6
  <2>4. direction' \in {"from", "to"} /\ pc' \in Ended \cup SyncCalls \cup Reads
    BY <1>1, <1>2, <1>6 DEF SyncCalls
  <2>5. ordered' \in BOOLEAN /\ gaps' \in Gaps
    BY <1>1, <1>3, <1>4, <1>6 DEF TypeOK
  <2>6. QED
    BY <2>1, <2>2, <2>3, <2>4, <2>5, <1>1, <1>3, <1>4 DEF TypeOK, cache, Latest
<1>8. Answered'
  BY <1>3, <1>4, SameChain
<1>9. PagingInv'
  <2>1. SUFFICES ASSUME (pc = "page" /\ direction = "to")'
                 PROVE  \A i \in 1..Latest :
                          (i <= lo' /\ i >= cursor' /\ Received(i)) => Contract(chain[i]) \in found'
    <3>1. Latest' = Latest /\ \A i : Received(i)' <=> Received(i)
      BY <1>3 DEF Latest, Received, TransferKinds
    <3>2. QED
      BY <3>1, <1>3, <1>8 DEF PagingInv, Contract
  <2>2. CASE more /\ page + 1 < MaxPages
    <3>1. cursor' = Min(PageOf(b)) /\ direction = "to" /\ Older(b) # {}
      BY <2>1, <2>2, <1>2, <1>5
    <3>2. QED
      BY <3>1, <1>1, <1>3, PageCovers
  <2>3. CASE ~(more /\ page + 1 < MaxPages)
    <3>1. cursor' = MaxBlocks + 1
      BY <2>3, <1>2
    <3>2. ASSUME NEW i \in 1..Latest, i <= lo', i >= cursor'
          PROVE  FALSE
      BY <3>1, <3>2, <1>4, <1>6
    <3>3. QED
      BY <3>2
  <2>4. QED
    BY <2>2, <2>3
<1>10. mode' = "user"
  BY <1>1, <1>3 DEF SyncInv
<1>11. ASSUME pc' # "page", ~gaps'.capped
       PROVE  Covers(lo, gaps.since, found)'
  <2>1. direction = "to" /\ ~(more /\ page + 1 < MaxPages)
    BY <1>1, <1>2, <1>6, <1>11
  <2>2. ~more
    <3>1. page + 1 < MaxPages \/ page + 1 = MaxPages
      BY <1>6
    <3>2. QED
      BY <3>1, <2>1, <1>6, <1>11, Zenon
  <2>3. Covers(lo', gaps'.since, found')
    BY <2>1, <2>2, <1>1, <1>3, <1>5, PageCovers
  <2>4. QED
    BY <2>3, <1>3, SameChain
<1>12. pc' \in {"page", "tokens", "activeFarms"} /\ (pc' = "activeFarms" => found' = {})
  BY <1>1, <1>2
<1>13. SyncInv'
  BY <1>8, <1>10, <1>11, <1>12 DEF SyncInv, SyncCalls
<1>14. QED
  BY <1>1, <1>7, <1>9, <1>12, <1>13, NoRowWritten DEF Reads

-----------------------------------------------------------------------------
(* The calls of positions. *)

\* Positions reads a balance of every cached pair.
LEMMA BalancesStep ==
  ASSUME IInv, NEW b \in Answering, PairBalances(b)
  PROVE  IInv'
<1>1. /\ UNCHANGED <<mode, source, direction, page, cursor, count, found, active, staked,
                     gaps, cache>>
      /\ pc = "balances" /\ Saw(b)
      /\ \/ /\ direct' = [c \in Contracts |-> IF c \in pairs THEN Held(c, b) ELSE 0]
            /\ pc' = "stakes"
         \/ pc' = "failed" /\ direct' = direct
  BY DEF PairBalances
<1>2. TypeOK /\ ChainInv /\ PositionsInv /\ ScopeInv /\ b \in 0..Latest /\ chain' = chain
      /\ pairs' = pairs /\ farms' = farms /\ scope' = scope
  BY <1>1 DEF IInv, Answering, cache
<1>3. /\ lo' \in 0..MaxBlocks /\ hi' \in 0..Latest /\ lo' <= b /\ hi' \in {hi, b} /\ lo' \in {lo, b}
      /\ Latest \in Nat /\ ordered' = (ordered /\ b >= hi) /\ b \in Nat /\ hi' >= b /\ hi' <= Latest
  BY <1>1, <1>2, SawBlock
<1>4. mode' = "positions" /\ lo' = b /\ hi' = b
  <2>1. mode = "positions" /\ lo = MaxBlocks /\ hi = 0
    BY <1>1, <1>2 DEF PositionsInv, Reads
  <2>2. b <= MaxBlocks /\ MaxBlocks \in Nat
    <3>1. MaxBlocks \in Nat
      BY ScopeAssumption
    <3>2. QED
      BY <3>1, <1>2, <1>3 DEF ChainInv
  <2>3. QED
    BY <2>1, <2>2, <1>1, <1>3
<1>5. direct' \in [Contracts -> Nat]
  <2>1. \A c \in Contracts : Held(c, b) \in Nat
    BY <1>2, <1>3, StakesType DEF ChainInv, Contracts
  <2>2. QED
    BY <2>1, <1>1, <1>2 DEF TypeOK
<1>6. TypeOK'
  BY <1>1, <1>2, <1>3, <1>5 DEF TypeOK, cache, Ended, Reads, Latest
<1>7. ChainInv'
  BY <1>2, SameChain
<1>8. PagingInv' /\ SyncInv'
  BY <1>1 DEF PagingInv, SyncInv, SyncCalls
<1>9. ScopeInv'
  <2>1. /\ Latest' = Latest
        /\ Covers(scope.lo, scope.gaps.since, pairs)' <=> Covers(scope.lo, scope.gaps.since, pairs)
        /\ Farmed(scope.lo, scope.gaps.silent, farms)' <=> Farmed(scope.lo, scope.gaps.silent, farms)
        /\ Known(scope.gaps.named)' = Known(scope.gaps.named)
    BY <1>2, SameChain DEF Known, Created, Times
  <2>2. QED
    BY <1>2, <2>1 DEF ScopeInv
<1>10. PositionsInv'
  <2>1. pc' = "stakes" => \A c \in pairs : direct'[c] = Held(c, b)
    BY <1>1, <1>2 DEF TypeOK
  <2>2. pc' = "stakes" => (\A c \in pairs : direct[c] = Held(c, lo))'
    BY <2>1, <1>2, <1>4 DEF Held, Times, Stakes, Staked, FarmsOf
  <2>3. (hi <= Latest)'
    BY <1>2, <1>3 DEF Latest
  <2>4. QED
    BY <2>2, <2>3, <1>1, <1>4 DEF PositionsInv, Reads
<1>11. QED
  BY <1>6, <1>7, <1>8, <1>9, <1>10 DEF IInv

\* And a stake in every cached farm.
LEMMA StakesStep ==
  ASSUME IInv, NEW b \in Answering, FarmStakes(b)
  PROVE  IInv'
<1>1. PICK silent \in SUBSET Farms :
      /\ UNCHANGED <<mode, source, direction, page, cursor, count, found, direct, cache>>
      /\ pc = "stakes" /\ Saw(b)
      /\ staked' = [f \in Farms |-> IF f \in farms THEN Staked(f, b) ELSE 0]
      /\ active' = {f \in farms : Active(f, b, silent)}
      /\ gaps' = [gaps EXCEPT !.silent = silent]
      /\ pc' = "done"
  BY DEF FarmStakes
<1>2. TypeOK /\ ChainInv /\ PositionsInv /\ ScopeInv /\ b \in 0..Latest /\ chain' = chain
      /\ pairs' = pairs /\ farms' = farms /\ scope' = scope
  BY <1>1 DEF IInv, Answering, cache
<1>3. /\ lo' \in 0..MaxBlocks /\ hi' \in 0..Latest /\ lo' <= b /\ lo' <= lo /\ hi' \in {hi, b}
      /\ lo' \in {lo, b} /\ hi' >= hi /\ hi' >= b /\ lo' <= hi' /\ hi' <= Latest
      /\ Latest \in Nat /\ ordered' = (ordered /\ b >= hi) /\ b \in Nat /\ lo \in Nat /\ hi \in Nat
  BY <1>1, <1>2, SawBlock
<1>4. mode' = "positions" /\ lo = hi /\ \A c \in pairs : direct[c] = Held(c, lo)
  BY <1>1, <1>2 DEF PositionsInv, Reads
<1>5. farms \subseteq Farms /\ staked' \in [Farms -> Nat] /\ gaps' \in Gaps /\ gaps'.silent = silent
  <2>1. \A f \in Farms : Staked(f, b) \in Nat
    BY <1>2, <1>3, StakesType DEF ChainInv
  <2>2. QED
    BY <2>1, <1>1, <1>2, GapsChanged DEF TypeOK
<1>6. TypeOK'
  BY <1>1, <1>2, <1>3, <1>5 DEF TypeOK, cache, Ended, Latest
<1>7. ChainInv'
  BY <1>2, SameChain
<1>8. PagingInv' /\ SyncInv'
  BY <1>1 DEF PagingInv, SyncInv, SyncCalls
<1>9. ScopeInv'
  <2>1. /\ Latest' = Latest
        /\ Covers(scope.lo, scope.gaps.since, pairs)' <=> Covers(scope.lo, scope.gaps.since, pairs)
        /\ Farmed(scope.lo, scope.gaps.silent, farms)' <=> Farmed(scope.lo, scope.gaps.silent, farms)
        /\ Known(scope.gaps.named)' = Known(scope.gaps.named)
    BY <1>2, SameChain DEF Known, Created, Times
  <2>2. QED
    BY <1>2, <2>1 DEF ScopeInv
<1>10. PositionsInv'
  <2>1. PICK d \in Nat : d = lo
    BY <1>3
  <2>2. ReadAt(d, b)'
    <3>1. /\ \A c \in pairs : direct'[c] = Held(c, d)
          /\ \A f \in farms : staked'[f] = Staked(f, b)
          /\ active' = {f \in farms : Active(f, b, silent)}
      BY <2>1, <1>1, <1>4, <1>5
    <3>2. /\ \A c : Held(c, d)' = Held(c, d)
          /\ \A f : Staked(f, b)' = Staked(f, b)
          /\ \A f : Active(f, b, silent)' <=> Active(f, b, silent)
      BY <1>2, SameChain DEF Held, Times, Stakes, Staked, FarmsOf
    <3>3. {f \in farms : Active(f, b, gaps.silent)'} = {f \in farms : Active(f, b, silent)}
      BY <3>2, <1>5 DEF Active, Earned, Staked, Times
    <3>4. QED
      BY <3>1, <3>2, <3>3, <1>1, <1>2 DEF ReadAt
  <2>3. d \in lo'..hi' /\ b \in lo'..hi' /\ (ordered' => d = lo' /\ b = hi')
    <3>1. d \in lo'..hi' /\ b \in lo'..hi' /\ (b >= hi => d = lo' /\ b = hi')
      BY <2>1, <1>3, <1>4
    <3>2. ordered' => b >= hi
      BY <1>3, Zenon
    <3>3. QED
      BY <3>1, <3>2, Zenon
  <2>4. (\E d1, e \in lo..hi : ReadAt(d1, e) /\ (ordered => d1 = lo /\ e = hi))'
    BY <2>2, <2>3
  <2>5. (lo <= hi /\ hi <= Latest)'
    BY <1>2, <1>3, SameChain
  <2>6. QED
    BY <2>4, <2>5, <1>1, <1>4 DEF PositionsInv, Reads
<1>11. QED
  BY <1>6, <1>7, <1>8, <1>9, <1>10 DEF IInv

-----------------------------------------------------------------------------
(* The invariant. *)

\* Before the first command nothing is found.
LEMMA InitInv == Init => IInv
<1> SUFFICES ASSUME Init
             PROVE  IInv
  OBVIOUS
<1>1. /\ chain \in {<<[kind |-> "create", on |-> c]>> : c \in Pairs}
      /\ pairs = {} /\ farms = {} /\ synced = FALSE /\ runs = 0 /\ mode = "positions"
      /\ source \in Sources /\ pc = "idle" /\ direction = "from" /\ page = 0
      /\ cursor = MaxBlocks + 1
      /\ count = 0 /\ found = {} /\ active = {} /\ direct = [c \in Contracts |-> 0]
      /\ staked = [f \in Farms |-> 0] /\ lo = MaxBlocks /\ hi = 0 /\ ordered = TRUE
      /\ gaps = NoGaps /\ scope = [kind |-> "none", lo |-> 0, gaps |-> NoGaps]
  BY DEF Init
<1>2. MaxBlocks \in Nat \ {0} /\ MaxPages \in Nat \ {0} /\ MaxRuns \in Nat
  <2>1. MaxBlocks \in Nat \ {0} /\ MaxPages \in Nat \ {0} /\ {MaxPairs, MaxLag, MaxRuns} \subseteq Nat
    BY ScopeAssumption
  <2>2. QED
    BY <2>1
<1>3. /\ chain \in Seq(Events) /\ Latest \in {0, 1}
      /\ \A i \in 1..Latest : chain[i].kind = "create"
  <2>1. CASE chain = <<>>
    BY <2>1 DEF Latest
  <2>2. CASE \E c \in Pairs : chain = <<[kind |-> "create", on |-> c]>>
    <3>1. PICK c \in Pairs : chain = <<[kind |-> "create", on |-> c]>>
      BY <2>2
    <3>2. [kind |-> "create", on |-> c] \in Events
      BY DEF Events
    <3>3. chain \in Seq(Events) /\ Len(chain) = 1 /\ chain[1] = [kind |-> "create", on |-> c]
      BY <3>1, <3>2
    <3>4. QED
      BY <3>3 DEF Latest
  <2>3. QED
    BY <1>1, <2>1, <2>2
<1>4. TypeOK
  <2>1. scope \in [kind : {"none", "torn", "user", "other"}, lo : 0..MaxBlocks, gaps : Gaps]
    BY <1>1, <1>2, NoGapsType
  <2>2. hi \in 0..Len(chain) /\ runs \in 0..MaxRuns /\ page \in 0..(MaxPages - 1)
        /\ cursor \in 1..(MaxBlocks + 1) /\ count \in 0..MaxBlocks /\ lo \in 0..MaxBlocks
    BY <1>1, <1>2, <1>3 DEF Latest
  <2>3. direct \in [Contracts -> Nat] /\ staked \in [Farms -> Nat]
    BY <1>1
  <2>4. QED
    BY <2>1, <2>2, <2>3, <1>1, <1>3, NoGapsType DEF TypeOK, Ended
<1>5. ASSUME NEW b \in 0..Latest, NEW kind, NEW on, kind # "create"
      PROVE  Times(kind, on, b) = 0
  <2>1. b \in Nat /\ \A i \in 1..b : i \in 1..Latest
    BY <1>3
  <2>2. \A i \in 1..b : chain[i] # E(kind, on)
    BY <2>1, <1>3, <1>5, EqualEvents
  <2>3. Times(kind, on, b) \in Nat /\ ~(Times(kind, on, b) > 0)
    BY <2>1, <2>2, TimesFacts
  <2>4. QED
    BY <2>3
<1>6. ASSUME NEW b \in 0..Latest
      PROVE  (\A f \in Farms : Staked(f, b) = 0) /\ (\A c \in Contracts : Held(c, b) = 0)
  <2>1. \A f \in Farms : Staked(f, b) = 0
    BY <1>5 DEF Staked
  <2>2. ASSUME NEW c \in Contracts
        PROVE  Held(c, b) = 0
    <3>1. b \in Nat /\ IsFiniteSet(Farms)
      <4>1. b \in Nat
        BY <1>3
      <4>2. QED
        BY <4>1, ScopeAssumption
    <3>2. FarmsOf(c) \in SUBSET Farms
          /\ Stakes(b) \in [Farms -> Int] /\ \A f \in Farms : Stakes(b)[f] = 0
      BY <2>1, <3>1, StakesType
    <3>3. SumFunctionOnSet(Stakes(b), FarmsOf(c)) = 0
      BY <3>1, <3>2, SumZero
    <3>4. QED
      BY <3>3, <1>5 DEF Held
  <2>3. QED
    BY <2>1, <2>2
<1>7. ChainInv
  <2>1. Latest <= MaxBlocks
    BY <1>2, <1>3
  <2>2. \A b \in 0..Latest : /\ \A f \in Farms : Staked(f, b) >= 0
                             /\ \A c \in Contracts : Held(c, b) >= 0
    BY <1>6
  <2>3. \A i \in 1..Latest : ~Moved(i)
    BY <1>3 DEF Moved, TransferKinds
  <2>4. QED
    BY <2>1, <2>2, <2>3 DEF ChainInv
<1>8. PagingInv /\ SyncInv /\ ScopeInv /\ PositionsInv
  BY <1>1 DEF PagingInv, SyncInv, SyncCalls, ScopeInv, PositionsInv, Reads
<1>9. QED
  BY <1>4, <1>7, <1>8 DEF IInv

\* Where nothing changes, nothing is lost.
LEMMA StutterStep ==
  ASSUME IInv, UNCHANGED vars
  PROVE  IInv'
<1>1. UNCHANGED <<chain, pairs, farms, synced, runs, mode, source, pc, direction, page, cursor,
                  count, found, active, direct, staked, lo, hi, ordered, gaps, scope>>
  BY DEF vars, walk
<1>2. TypeOK'
  BY <1>1 DEF IInv, TypeOK
<1>3. /\ Latest' = Latest
      /\ \A b : Created(b)' = Created(b)
      /\ \A f, b : Staked(f, b)' = Staked(f, b)
      /\ \A i : (Received(i)' <=> Received(i)) /\ (Moved(i)' <=> Moved(i))
  BY <1>1 DEF Latest, Created, Times, Staked, Received, Moved, TransferKinds
<1>4. \A c, b : Held(c, b)' = Held(c, b)
  BY <1>1 DEF Held, Times, Stakes, Staked, FarmsOf
<1>5. \A f, b, q : Active(f, b, q)' <=> Active(f, b, q)
  BY <1>1, SameChain
<1>6. ChainInv' <=> ChainInv
  BY <1>1, SameChain
<1>7. PagingInv' <=> PagingInv
  BY <1>1, <1>3 DEF PagingInv, Answered, Contract
<1>8. /\ Covers(lo, gaps.since, found)' <=> Covers(lo, gaps.since, found)
      /\ Covers(scope.lo, scope.gaps.since, pairs)' <=> Covers(scope.lo, scope.gaps.since, pairs)
      /\ Farmed(lo, gaps.silent, active)' <=> Farmed(lo, gaps.silent, active)
      /\ Farmed(scope.lo, scope.gaps.silent, farms)' <=> Farmed(scope.lo, scope.gaps.silent, farms)
      /\ Known(gaps.named)' = Known(gaps.named)
      /\ Known(scope.gaps.named)' = Known(scope.gaps.named)
      /\ Answered' <=> Answered
  BY <1>1, SameChain DEF Answered, Known, Created, Times
<1>9. (SyncInv' <=> SyncInv) /\ (ScopeInv' <=> ScopeInv)
  BY <1>1, <1>3, <1>8 DEF SyncInv, ScopeInv
<1>10. \A d, e : ReadAt(d, e)' <=> ReadAt(d, e)
  <2>1. TAKE d, e
  <2>2. {f \in farms : Active(f, e, gaps.silent)'} = {f \in farms : Active(f, e, gaps.silent)}
    BY <1>1, <1>5 DEF Active, Earned, Staked, Times
  <2>3. QED
    BY <2>2, <1>1, <1>3, <1>4 DEF ReadAt
<1>11. \A c : Held(c, lo)' = Held(c, lo)
  BY <1>1 DEF Held, Times, Stakes, Staked, FarmsOf
<1>12. PositionsInv' <=> PositionsInv
  BY <1>1, <1>3, <1>8, <1>10, <1>11 DEF PositionsInv
<1>13. QED
  BY <1>2, <1>6, <1>7, <1>9, <1>12 DEF IInv

\* Every step keeps the invariant.
LEMMA NextInv == IInv /\ [Next]_vars => IInv'
<1> SUFFICES ASSUME IInv, [Next]_vars
             PROVE  IInv'
  OBVIOUS
<1>1. CASE Chain
  BY <1>1, ChainStep
<1>2. CASE \E m \in Modes \cup {"positions"} : Begin(m)
  BY <1>2, BeginStep
<1>3. CASE \E b \in Answering :
             \/ PairTokens(b) \/ GetPair(b)
             \/ ActiveFarms(b) \/ AllPairsLength(b) \/ AllPairsList(b) \/ Build(b)
             \/ PairBalances(b) \/ FarmStakes(b)
  <2>1. PICK b \in Answering :
             \/ PairTokens(b) \/ GetPair(b)
             \/ ActiveFarms(b) \/ AllPairsLength(b) \/ AllPairsList(b) \/ Build(b)
             \/ PairBalances(b) \/ FarmStakes(b)
    BY <1>3
  <2>2. QED
    BY <2>1, TokensStep, GetPairStep, FarmsStep, LengthStep, ListStep,
       BuildStep, BalancesStep, StakesStep
<1>4. CASE AssetTransfersFail
  BY <1>4, PagesFail
<1>5. CASE SetPairs
  BY <1>5, SetPairsStep
<1>6. CASE SetFarms
  BY <1>6, SetFarmsStep
<1>7. CASE Fails
  BY <1>7, FailsStep
<1>8. CASE UNCHANGED vars
  BY <1>8, StutterStep
<1>9. CASE \E b \in Answering \cup {0} : AssetTransfers(b) \/ TransferLogs(b)
  BY <1>9, PageStep, LogsStep
<1>10. QED
  BY <1>1, <1>2, <1>3, <1>4, <1>5, <1>6, <1>7, <1>8, <1>9 DEF Next

\* The accounts of the header hold at every step of the chain, of a sync and of
\* positions.
THEOREM ScopeInvariant == Spec => []IInv
BY InitInv, NextInv, PTL DEF Spec

-----------------------------------------------------------------------------
(* What the invariant says of the cache and of positions. *)

\* Every variable of the model keeps its type: among others a page that is left
\* has an oldest transfer to name the next one, and no balance that positions
\* reads is negative.
THEOREM ScopeTypeOK == Spec => []TypeOK
<1>1. IInv => TypeOK
  BY DEF IInv
<1>2. QED
  BY <1>1, ScopeInvariant, PTL

\* Only pairs that the factory has created reach the cache, whatever contracts the
\* wallet has dealt with and however they answer, but for what the environment
\* named to the sync.
THEOREM OnlyPairsCached == Spec => []OnlyFactoryPairs
<1>1. IInv => OnlyFactoryPairs
  BY DEF IInv, ScopeInv, Known, OnlyFactoryPairs
<1>2. QED
  BY <1>1, ScopeInvariant, PTL

\* What the wallet received in the blocks that a sync read is among the cached pairs.
LEMMA ReceivedCovered ==
  ASSUME IInv, scope.kind = "user", ~scope.gaps.capped, NEW c \in Pairs,
         ReceivedIn(c, scope.gaps.since, scope.lo)
  PROVE  c \in pairs
<1>1. TypeOK /\ ScopeInv
  BY DEF IInv
<1>2. Latest \in Nat /\ scope.lo \in Nat /\ scope.lo <= Latest
      /\ Covers(scope.lo, scope.gaps.since, pairs)
  BY <1>1 DEF TypeOK, ScopeInv, Latest
<1>3. PICK i \in 1..(scope.lo) : /\ i >= scope.gaps.since
                                /\ chain[i].kind \in TransferKinds("to")
                                /\ Contract(chain[i]) = c
  BY DEF ReceivedIn
<1>4. Received(i) /\ i \in 1..Latest /\ i <= scope.lo /\ scope.gaps.since <= i
  <2>1. scope.gaps.since \in Nat
    <3>1. scope.gaps \in Gaps
      BY <1>1 DEF TypeOK
    <3>2. scope.gaps.since \in LogStarts \cup {0}
      BY <3>1 DEF Gaps
    <3>3. LogStarts \subseteq Nat
      BY ScopeAssumption
    <3>4. \A x \in LogStarts \cup {0} : x \in Nat
      BY <3>3
    <3>5. QED
      BY <3>2, <3>4, Zenon
  <2>2. QED
    BY <2>1, <1>2, <1>3 DEF Received
<1>5. QED
  BY <1>2, <1>3, <1>4 DEF Covers

\* A sync for a wallet that no cap cut short cached every pair the wallet held at
\* the oldest block the sync was answered at and received in the blocks it read,
\* for every page size, number of pages, first block of a log scan and lag of the
\* providers.
THEOREM ScopeIsComplete == Spec => []ScopeComplete
<1>1. IInv => ScopeComplete
  BY ReceivedCovered DEF ScopeComplete
<1>2. QED
  BY <1>1, ScopeInvariant, PTL

\* What the wallet held, or had rewards of, all through a sync and the positions
\* read after it is reported, for the same parameters, unless the sync did not
\* read that far back or `earned` failed where nothing was staked.
THEOREM NothingIsMissed == Spec => []NothingMissed
<1>1. ASSUME IInv, pc = "done", mode = "positions", scope.kind = "user", ~scope.gaps.capped
      PROVE  LET window == Min({scope.lo, lo})..Latest
                 silent == scope.gaps.silent \cup gaps.silent
             IN /\ \A c \in Pairs :
                     (/\ \A b \in window : Held(c, b) > 0
                      /\ ReceivedIn(c, scope.gaps.since, scope.lo)) => direct[c] > 0
                /\ \A f \in Farms :
                     /\ (\A b \in window : Active(f, b, silent)) => f \in active
                     /\ (\A b \in window : Staked(f, b) > 0) => staked[f] > 0
  <2> DEFINE window == Min({scope.lo, lo})..Latest
             silent == scope.gaps.silent \cup gaps.silent
  <2>1. TypeOK /\ ScopeInv /\ PositionsInv
    BY <1>1 DEF IInv
  <2>2. Latest \in Nat /\ scope.lo \in Nat /\ lo \in Nat /\ hi \in Nat /\ scope.lo <= Latest
    BY <1>1, <2>1 DEF TypeOK, ScopeInv, Latest
  <2>3. /\ scope.lo \in window
        /\ \A b \in (scope.lo)..Latest : b \in window
        /\ hi <= Latest => \A b \in lo..hi : b \in window
    <3>1. Min({scope.lo, lo}) = IF scope.lo <= lo THEN scope.lo ELSE lo
      BY <2>2, MinMaxOfTwo
    <3>2. QED
      BY <2>2, <3>1
  <2> HIDE DEF window
  <2>4. pairs # {} => hi <= Latest /\ \E d, e \in lo..hi : ReadAt(d, e)
    BY <1>1, <2>1 DEF PositionsInv
  <2>5. ASSUME NEW c \in Pairs, \A b \in window : Held(c, b) > 0,
               ReceivedIn(c, scope.gaps.since, scope.lo)
        PROVE  direct[c] > 0
    <3>1. c \in pairs
      BY <1>1, <2>5, ReceivedCovered
    <3>2. PICK d \in lo..hi, e \in lo..hi : ReadAt(d, e)
      BY <2>4, <3>1
    <3>3. d \in window
      BY <2>3, <2>4, <3>1
    <3>4. direct[c] = Held(c, d)
      BY <3>1, <3>2 DEF ReadAt
    <3>5. QED
      BY <2>5, <3>3, <3>4
  <2>6. ASSUME NEW f \in Farms, \A b \in window : Active(f, b, silent)
        PROVE  /\ f \in farms
               /\ \E d, e \in lo..hi : ReadAt(d, e) /\ e \in window
    <3>1. PICK a \in (scope.lo)..Latest : \A g \in Farms : Active(g, a, scope.gaps.silent) => g \in farms
      BY <1>1, <2>1 DEF ScopeInv, Farmed
    <3>2. Active(f, a, scope.gaps.silent)
      BY <2>3, <2>6, <3>1 DEF Active
    <3>3. f \in farms
      BY <3>1, <3>2
    <3>4. pairs # {}
      BY <1>1, <2>1, <3>3 DEF ScopeInv
    <3>5. PICK d \in lo..hi, e \in lo..hi : ReadAt(d, e)
      BY <2>4, <3>4
    <3>6. QED
      BY <2>3, <2>4, <3>3, <3>4, <3>5
  <2>7. ASSUME NEW f \in Farms, \A b \in window : Active(f, b, silent)
        PROVE  f \in active
    <3>1. PICK d \in lo..hi, e \in lo..hi : ReadAt(d, e) /\ e \in window
      BY <2>6, <2>7
    <3>2. Active(f, e, gaps.silent)
      BY <2>7, <3>1 DEF Active
    <3>3. QED
      BY <2>6, <2>7, <3>1, <3>2 DEF ReadAt
  <2>8. ASSUME NEW f \in Farms, \A b \in window : Staked(f, b) > 0
        PROVE  staked[f] > 0
    <3>1. \A b \in window : Active(f, b, silent)
      BY <2>8 DEF Active
    <3>2. PICK d \in lo..hi, e \in lo..hi : ReadAt(d, e) /\ e \in window
      BY <2>6, <3>1
    <3>3. staked[f] = Staked(f, e)
      BY <2>6, <3>1, <3>2 DEF ReadAt
    <3>4. QED
      BY <2>8, <3>2, <3>3
  <2>9. QED
    BY <2>5, <2>7, <2>8 DEF window
<1>2. IInv => NothingMissed
  BY <1>1 DEF NothingMissed
<1>3. QED
  BY <1>2, ScopeInvariant, PTL

\* The stake in a pool between two blocks, when nothing is withdrawn from it or
\* nothing staked.
LEMMA StakedBetween ==
  ASSUME TypeOK, NEW a \in 0..Latest, NEW b \in 0..Latest, a <= b, NEW f \in Farms
  PROVE  LET during == ToSet(SubSeq(chain, a + 1, b))
         IN /\ E("withdraw", f) \notin during => Staked(f, a) <= Staked(f, b)
            /\ E("stake", f) \notin during => Staked(f, a) >= Staked(f, b)
<1> DEFINE during == ToSet(SubSeq(chain, a + 1, b))
<1>1. a \in Nat /\ b \in Nat /\ Latest \in Nat /\ Latest = Len(chain) /\ chain \in Seq(Events)
  BY DEF TypeOK, Latest
<1>2. \A i \in (a + 1)..b : chain[i] \in during
  <2>1. TAKE i \in (a + 1)..b
  <2> DEFINE s == SubSeq(chain, a + 1, b)
  <2>2. i - a \in 1..Len(s) /\ s[i - a] = chain[i]
    BY <1>1
  <2> HIDE DEF s
  <2>3. chain[i] \in ToSet(s)
    BY <2>2 DEF ToSet
  <2>4. QED
    BY <2>3 DEF s
<1> HIDE DEF during
<1>3. /\ Times("stake", f, a) \in Nat /\ Times("stake", f, b) \in Nat
      /\ Times("withdraw", f, a) \in Nat /\ Times("withdraw", f, b) \in Nat
  BY <1>1, TimesFacts
<1>4. /\ Times("stake", f, a) <= Times("stake", f, b)
      /\ Times("withdraw", f, a) <= Times("withdraw", f, b)
  BY <1>1, TimesMonotone
<1>5. E("withdraw", f) \notin during => Staked(f, a) <= Staked(f, b)
  <2>1. HAVE E("withdraw", f) \notin during
  <2>2. \A i \in (a + 1)..b : chain[i] # E("withdraw", f)
    BY <1>2, <2>1
  <2>3. Times("withdraw", f, a) = Times("withdraw", f, b)
    BY <1>1, <2>2, TimesMonotone
  <2>4. QED
    BY <1>3, <1>4, <2>3 DEF Staked
<1>6. E("stake", f) \notin during => Staked(f, a) >= Staked(f, b)
  <2>1. HAVE E("stake", f) \notin during
  <2>2. \A i \in (a + 1)..b : chain[i] # E("stake", f)
    BY <1>2, <2>1
  <2>3. Times("stake", f, a) = Times("stake", f, b)
    BY <1>1, <2>2, TimesMonotone
  <2>4. QED
    BY <1>3, <1>4, <2>3 DEF Staked
<1>7. QED
  BY <1>5, <1>6 DEF during

\* Between the read of the balances and that of the stakes, staking counts tokens
\* twice but loses none, and withdrawing loses tokens but counts none twice, for
\* every pair and whatever pools it is staked in.
THEOREM EachCountedOnce == Spec => []CountedOnce
<1>1. ASSUME IInv, pc = "done", mode = "positions", lo <= hi, ordered, NEW c \in pairs,
             FarmsOf(c) \subseteq farms
      PROVE  LET pools    == FarmsOf(c)
                 owned    == Held(c, lo) + SumFunctionOnSet(Stakes(lo), pools)
                 reported == direct[c] + SumFunctionOnSet(staked, pools)
                 during   == ToSet(SubSeq(chain, lo + 1, hi))
                 some(kind) == \E e \in during : e.kind = kind /\ e.on \in pools
             IN /\ ~some("withdraw") => reported >= owned
                /\ ~some("stake") => reported <= owned
  <2> DEFINE pools    == FarmsOf(c)
             owned    == Held(c, lo) + SumFunctionOnSet(Stakes(lo), pools)
             reported == direct[c] + SumFunctionOnSet(staked, pools)
             during   == ToSet(SubSeq(chain, lo + 1, hi))
             some(kind) == \E e \in during : e.kind = kind /\ e.on \in pools
  <2>1. TypeOK /\ ScopeInv /\ PositionsInv /\ c \in Contracts /\ pools \in SUBSET Farms
    BY <1>1 DEF IInv, TypeOK, FarmsOf
  <2>2. lo <= hi /\ hi <= Latest /\ ReadAt(lo, hi)
    BY <1>1, <2>1 DEF PositionsInv
  <2>3. lo \in Nat /\ hi \in Nat /\ lo <= hi /\ lo \in 0..Latest /\ hi \in 0..Latest
    BY <2>1, <2>2 DEF TypeOK, Latest
  <2>4. /\ direct[c] = Held(c, lo) /\ Held(c, lo) \in Int
        /\ \A f \in pools : f \in Farms /\ staked[f] = Staked(f, hi)
    BY <1>1, <2>1, <2>2, <2>3, StakesType DEF ReadAt
  <2>5. /\ Stakes(lo) \in [Farms -> Int] /\ staked \in [Farms -> Int]
        /\ \A f \in Farms : Stakes(lo)[f] = Staked(f, lo)
    <3>1. staked \in [Farms -> Nat]
      BY <2>1 DEF TypeOK
    <3>2. QED
      BY <3>1, <2>3, StakesType
  <2>6. IsFiniteSet(Farms)
    BY ScopeAssumption
  <2>7. \A f \in pools : E("withdraw", f) \in during => some("withdraw")
    BY EqualEvents
  <2>8. \A f \in pools : E("stake", f) \in during => some("stake")
    BY EqualEvents
  <2>9. \A f \in pools : /\ E("withdraw", f) \notin during => Staked(f, lo) <= Staked(f, hi)
                         /\ E("stake", f) \notin during => Staked(f, lo) >= Staked(f, hi)
    BY <2>1, <2>3, <2>4, StakedBetween
  <2> HIDE DEF pools, during, some
  <2>10. SumFunctionOnSet(Stakes(lo), pools) \in Int /\ SumFunctionOnSet(staked, pools) \in Int
    BY <2>1, <2>5, <2>6, SumSplit
  <2>11. ~some("withdraw") => reported >= owned
    <3>1. HAVE ~some("withdraw")
    <3>2. \A f \in pools : Stakes(lo)[f] <= staked[f]
      BY <2>4, <2>5, <2>7, <2>9, <3>1
    <3>3. SumFunctionOnSet(Stakes(lo), pools) <= SumFunctionOnSet(staked, pools)
      BY <2>1, <2>5, <2>6, <3>2, SumMonotone
    <3>4. QED
      BY <2>4, <2>10, <3>3
  <2>12. ~some("stake") => reported <= owned
    <3>1. HAVE ~some("stake")
    <3>2. \A f \in pools : staked[f] <= Stakes(lo)[f]
      <4>1. \A f \in pools : Staked(f, lo) >= Staked(f, hi)
        BY <2>8, <2>9, <3>1
      <4>2. \A f \in pools : Staked(f, lo) \in Int /\ Staked(f, hi) \in Int
        BY <2>3, <2>4, StakesType
      <4>3. QED
        BY <4>1, <4>2, <2>4, <2>5
    <3>3. SumFunctionOnSet(staked, pools) <= SumFunctionOnSet(Stakes(lo), pools)
      BY <2>1, <2>5, <2>6, <3>2, SumMonotone
    <3>4. QED
      BY <2>4, <2>10, <3>3
  <2>13. QED
    BY <2>11, <2>12 DEF pools, during, some
<1>2. IInv => CountedOnce
  BY <1>1 DEF CountedOnce
<1>3. QED
  BY <1>2, ScopeInvariant, PTL

=============================================================================
