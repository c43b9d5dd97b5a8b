---------------------------- MODULE LendingProofs ----------------------------
(***************************************************************************)
(* The two lending protocols, whose positions are sums.                    *)
(*                                                                         *)
(* A compound-v3 loan for every number of assets, every price, factor and  *)
(* amount, and any length of run: debt is shown without its price only     *)
(* after the feed was replaced, nothing is hidden that was configured when *)
(* the sync began and asked for without a failure, and the numbers agree   *)
(* with the verdicts shown beside them.                                    *)
(*                                                                         *)
(* An aave-v3 position for every set of reserves, vaults and reward        *)
(* tokens: every amount is from the result of the call that was made for   *)
(* it, what is shown adds up to what the wallet has in what is cached, and *)
(* what the wallet moves between two batches is counted twice or lost in   *)
(* one direction only.                                                     *)
(***************************************************************************)
EXTENDS CometRisk, AaveYield, FiniteSetTheorems, SequenceTheorems, TLAPS

-----------------------------------------------------------------------------
(* Comet: the invariant. *)

\* What a provider that lags knows is older: assets are only added, and rewards
\* stay configured.
Extends(s, t) == Len(s) <= Len(t) /\ \A i \in 1..Len(s) : t[i] = s[i]

ChainInv ==
  /\ interest > 0 => principal < 0
  /\ Extends(past.listed, listed)
  /\ past.rewarded => rewarded

\* The sync has read, or will read, what was known everywhere when it began.
SyncInv ==
  /\ pc = "assets" => \A a \in before.listed :
                        \E i \in 1..Len(past.listed) : i <= count /\ past.listed[i] = a
  /\ pc \in {"rewards", "save"} => \A a \in before.listed : \E info \in infos : info.asset = a
  /\ pc \in {"assets", "rewards"} => (before.rewarded => past.rewarded)
  /\ pc = "save" => (before.rewarded /\ before.answered => supported)
  /\ \A a \in basis.listed : \E info \in cached.infos : info.asset = a
  /\ basis.rewarded /\ basis.answered => cached.supported

\* The chain as one block has it.
Observed(c) ==
  /\ c.rows.infos \subseteq Info /\ IsFiniteSet(c.rows.infos)
  /\ Len(c.listed) \in Nat
  /\ \A info \in c.rows.infos : \E j \in 1..Len(c.listed) : c.listed[j] = info.asset
  /\ c.price \in [Feeds -> Nat] /\ c.rows.feed \in Feeds
  /\ c.principal \in Int /\ c.interest \in Nat
  /\ c.coll \in [Assets -> Nat]
  /\ c.interest > 0 => c.principal < 0

SeenInv == pc = "shown" => Observed(seen) /\ ~ Reverts(seen, "borrow")

IInv == TypeOK /\ ChainInv /\ SyncInv /\ SeenInv

-----------------------------------------------------------------------------
(* Sums over finite sets. *)

\* A function that adds up g over every subset of S, one element at a time.
Adds(g, S, h) ==
  h = [s \in SUBSET S |->
         IF s = {} THEN 0
         ELSE g[CHOOSE x \in s : TRUE] + h[s \ {CHOOSE x \in s : TRUE}]]

\* The sum that SumFunctionOnSet chooses is the value of such a function.
LEMMA SumIsChosen ==
  ASSUME NEW g, NEW S
  PROVE  SumFunctionOnSet(g, S) = (CHOOSE h : Adds(g, S, h))[S]
BY Zenon DEF SumFunctionOnSet, FoldFunctionOnSet, MapThenFoldSet, Adds

\* A family of subsets of a finite set has a member that includes no other.
LEMMA LeastSet ==
  ASSUME NEW S, IsFiniteSet(S), NEW F, F \subseteq SUBSET S, F # {}
  PROVE  \E T \in F : \A U \in F : U \subseteq T => U = T
<1>1. F \subseteq FiniteSubsetsOf(S)
  BY FS_FiniteSubsetsOfFinite
<1>2. \E T \in F : \A U \in F : ~ (<<U, T>> \in StrictSubsetOrdering(S))
  BY <1>1, WFMin, FS_StrictSubsetOrderingWellFounded
<1>3. PICK T \in F : \A U \in F : ~ (<<U, T>> \in StrictSubsetOrdering(S))
  BY <1>2
<1>4. ASSUME NEW U \in F, U \subseteq T PROVE U = T
  <2>1. U \in SUBSET S /\ T \in SUBSET S
    OBVIOUS
  <2>2. U # T => <<U, T>> \in StrictSubsetOrdering(S)
    BY <2>1, <1>4 DEF StrictSubsetOrdering
  <2>3. QED
    BY <2>2, <1>3
<1>5. QED
  BY <1>4

\* Two functions that add up agree where both are defined.
LEMMA AddsAgree ==
  ASSUME NEW g, NEW S, IsFiniteSet(S), NEW T \in SUBSET S,
         NEW h, NEW k, Adds(g, S, h), Adds(g, T, k)
  PROVE  \A U \in SUBSET T : h[U] = k[U]
<1> DEFINE c(s) == CHOOSE x \in s : TRUE
           F == {U \in SUBSET T : h[U] # k[U]}
<1>1. SUFFICES ASSUME F # {}
               PROVE  FALSE
  OBVIOUS
<1>2. F \subseteq SUBSET S
  OBVIOUS
<1> HIDE DEF F
<1>3. PICK U \in F : \A V \in F : V \subseteq U => V = U
  BY <1>1, <1>2, LeastSet
<1> USE DEF F
<1>4. \A V \in SUBSET T : h[V] = IF V = {} THEN 0 ELSE g[c(V)] + h[V \ {c(V)}]
  BY DEF Adds
<1>5. \A V \in SUBSET T : k[V] = IF V = {} THEN 0 ELSE g[c(V)] + k[V \ {c(V)}]
  BY DEF Adds
<1>6. CASE U = {}
  BY <1>4, <1>5, <1>6
<1>7. CASE U # {}
  <2>1. c(U) \in U
    BY <1>7
  <2> HIDE DEF c
  <2>2. U \ {c(U)} \in SUBSET T /\ U \ {c(U)} # U
    BY <2>1
  <2>3. h[U \ {c(U)}] = k[U \ {c(U)}]
    BY <2>2, <1>3
  <2>4. QED
    BY <2>3, <1>4, <1>5, <1>7
<1>8. QED
  BY <1>6, <1>7

\* There is such a function: on a least set without one it could be defined from
\* the functions of smaller sets.
LEMMA SumExists ==
  ASSUME NEW g, NEW S, IsFiniteSet(S)
  PROVE  \E h : Adds(g, S, h)
<1> DEFINE c(s) == CHOOSE x \in s : TRUE
           F == {T \in SUBSET S : ~ \E h : Adds(g, T, h)}
           Total(U) == (CHOOSE h : Adds(g, U, h))[U]
<1>1. SUFFICES ASSUME F # {}
               PROVE  FALSE
  OBVIOUS
<1>2. PICK T \in F : \A V \in F : V \subseteq T => V = T
  <2>1. F \subseteq SUBSET S
    OBVIOUS
  <2> HIDE DEF F
  <2>2. QED
    BY <1>1, <2>1, LeastSet
<1>3. \A V \in SUBSET T : V # T => Adds(g, V, CHOOSE h : Adds(g, V, h))
  BY <1>2
<1> DEFINE k == [s \in SUBSET T |-> IF s = {} THEN 0 ELSE g[c(s)] + Total(s \ {c(s)})]
<1>4. ASSUME NEW s \in SUBSET T, s # {}
      PROVE  k[s \ {c(s)}] = Total(s \ {c(s)})
  <2> DEFINE U == s \ {c(s)}
             d == U \ {c(U)}
             hU == CHOOSE h : Adds(g, U, h)
             hd == CHOOSE h : Adds(g, d, h)
  <2>1. c(s) \in s
    BY <1>4
  <2> HIDE DEF c
  <2>2. U \in SUBSET T /\ U # T /\ Adds(g, U, hU)
    BY <2>1, <1>3
  <2>3. Total(U) = IF U = {} THEN 0 ELSE g[c(U)] + hU[d]
    BY <2>2 DEF Adds, c
  <2>4. d \in SUBSET U /\ d # T /\ Adds(g, d, hd)
    BY <2>1, <1>3
  <2>5. IsFiniteSet(U)
    BY <2>2, FS_Subset
  <2>6. hU[d] = hd[d]
    BY <2>2, <2>4, <2>5, AddsAgree
  <2>7. k[U] = IF U = {} THEN 0 ELSE g[c(U)] + hd[d]
    BY <2>2
  <2>8. QED
    BY <2>3, <2>6, <2>7
<1>5. Adds(g, T, k)
  <2> DEFINE m(s) == IF s = {} THEN 0 ELSE g[c(s)] + k[s \ {c(s)}]
  <2>1. ASSUME NEW s \in SUBSET T
        PROVE  k[s] = m(s)
    <3> HIDE DEF c, Total
    <3>1. k[s] = IF s = {} THEN 0 ELSE g[c(s)] + Total(s \ {c(s)})
      OBVIOUS
    <3> HIDE DEF k
    <3>2. QED
      BY <3>1, <1>4
  <2>2. k = [s \in SUBSET T |-> k[s]]
    OBVIOUS
  <2> HIDE DEF k
  <2>3. k = [s \in SUBSET T |-> m(s)]
    BY <2>1, <2>2, Zenon
  <2>4. QED
    BY <2>3, Zenon DEF Adds
<1>6. QED
  BY <1>5

\* A sum, taken apart at the element that is chosen first.
LEMMA SumChosen ==
  ASSUME NEW g, NEW S, IsFiniteSet(S)
  PROVE  /\ SumFunctionOnSet(g, {}) = 0
         /\ S # {} => \E x \in S :
              SumFunctionOnSet(g, S) = g[x] + SumFunctionOnSet(g, S \ {x})
<1> DEFINE c(s) == CHOOSE x \in s : TRUE
           h == CHOOSE f : Adds(g, S, f)
           R == S \ {c(S)}
           k == CHOOSE f : Adds(g, R, f)
<1>1. Adds(g, S, h) /\ SumFunctionOnSet(g, S) = h[S]
  BY SumExists, SumIsChosen
<1>2. SumFunctionOnSet(g, {}) = 0
  <2> DEFINE e == CHOOSE f : Adds(g, {}, f)
  <2>1. Adds(g, {}, e) /\ SumFunctionOnSet(g, {}) = e[{}]
    BY SumExists, SumIsChosen, FS_EmptySet
  <2>2. QED
    BY <2>1 DEF Adds
<1>3. ASSUME S # {}
      PROVE  SumFunctionOnSet(g, S) = g[c(S)] + SumFunctionOnSet(g, R) /\ c(S) \in S
  <2>1. c(S) \in S
    BY <1>3
  <2>2. h[S] = g[c(S)] + h[R]
    BY <1>1, <1>3 DEF Adds
  <2>3. IsFiniteSet(R) /\ R \in SUBSET S
    BY FS_Subset
  <2>4. Adds(g, R, k) /\ SumFunctionOnSet(g, R) = k[R]
    BY <2>3, SumExists, SumIsChosen
  <2>5. h[R] = k[R]
    BY <1>1, <2>3, <2>4, AddsAgree
  <2>6. QED
    BY <1>1, <2>1, <2>2, <2>4, <2>5
<1>4. QED
  BY <1>2, <1>3

\* A sum, taken apart at any element.
LEMMA SumSplit ==
  ASSUME NEW S, IsFiniteSet(S), NEW g \in [S -> Int]
  PROVE  /\ SumFunctionOnSet(g, {}) = 0
         /\ \A T \in SUBSET S :
              /\ SumFunctionOnSet(g, T) \in Int
              /\ \A x \in T : SumFunctionOnSet(g, T) = g[x] + SumFunctionOnSet(g, T \ {x})
<1> DEFINE Sm(T) == SumFunctionOnSet(g, T)
           Good(T) == /\ Sm(T) \in Int
                      /\ \A x \in T : Sm(T) = g[x] + Sm(T \ {x})
           F == {T \in SUBSET S : ~Good(T)}
<1>1. Sm({}) = 0
  BY SumChosen, FS_EmptySet
<1>2. ASSUME NEW T \in SUBSET S, T # {}
      PROVE  \E y \in T : Sm(T) = g[y] + Sm(T \ {y})
  BY <1>2, SumChosen, FS_Subset
<1>3. ASSUME F # {}
      PROVE  FALSE
  <2>1. F \subseteq SUBSET S
    OBVIOUS
  <2> HIDE DEF F
  <2>2. PICK T \in F : \A V \in F : V \subseteq T => V = T
    BY <1>3, <2>1, LeastSet
  <2> USE DEF F
  <2> HIDE DEF Sm
  <2>3. \A V \in SUBSET T : V # T => Good(V)
    BY <2>2
  <2>4. T # {}
    <3>1. SUFFICES ASSUME T = {}
                   PROVE  FALSE
      OBVIOUS
    <3>2. Sm(T) = 0
      BY <3>1, <1>1
    <3>3. Good(T)
      BY <3>1, <3>2
    <3>4. QED
      BY <3>3, <2>2
  <2>5. PICK y \in T : Sm(T) = g[y] + Sm(T \ {y})
    BY <1>2, <2>4
  <2>6. Good(T \ {y}) /\ g[y] \in Int
    BY <2>3
  <2>7. Sm(T) \in Int
    BY <2>5, <2>6
  <2>8. ASSUME NEW x \in T
        PROVE  Sm(T) = g[x] + Sm(T \ {x})
    <3>1. CASE x = y
      BY <3>1, <2>5
    <3>2. CASE x # y
      <4>1. Good(T \ {x}) /\ x \in T \ {y} /\ y \in T \ {x}
        BY <3>2, <2>3
      <4>2. (T \ {y}) \ {x} = (T \ {x}) \ {y}
        OBVIOUS
      <4>3. /\ Sm(T \ {y}) = g[x] + Sm((T \ {y}) \ {x})
            /\ Sm(T \ {x}) = g[y] + Sm((T \ {x}) \ {y})
        BY <4>1, <2>6
      <4>4. Good((T \ {x}) \ {y})
        BY <2>3
      <4>5. Sm((T \ {x}) \ {y}) \in Int /\ g[x] \in Int
        BY <4>4
      <4>6. QED
        BY <4>2, <4>3, <4>5, <2>5, <2>6
    <3>3. QED
      BY <3>1, <3>2
  <2>9. QED
    BY <2>2, <2>7, <2>8
<1>4. QED
  BY <1>1, <1>3

\* A part of a sum of natural numbers is no more than the sum, and is the sum
\* when the other terms are zero.
LEMMA SumSubset ==
  ASSUME NEW S, IsFiniteSet(S), NEW f \in [S -> Nat], NEW U \in SUBSET S
  PROVE  /\ SumFunctionOnSet(f, U) \in Nat
         /\ \A T \in SUBSET U :
              /\ SumFunctionOnSet(f, T) <= SumFunctionOnSet(f, U)
              /\ (\A x \in U \ T : f[x] = 0) => SumFunctionOnSet(f, T) = SumFunctionOnSet(f, U)
<1> DEFINE Sm(T) == SumFunctionOnSet(f, T)
           Good(V) == /\ Sm(V) \in Nat
                      /\ \A T \in SUBSET V :
                           /\ Sm(T) <= Sm(V)
                           /\ (\A x \in V \ T : f[x] = 0) => Sm(T) = Sm(V)
           F == {V \in SUBSET S : ~ Good(V)}
<1>1. /\ Sm({}) = 0
      /\ \A V \in SUBSET S : Sm(V) \in Int /\ \A x \in V : Sm(V) = f[x] + Sm(V \ {x})
  <2>1. f \in [S -> Int]
    OBVIOUS
  <2>2. QED
    BY <2>1, SumSplit
<1> HIDE DEF Sm
<1>2. ASSUME F # {}
      PROVE  FALSE
  <2>1. F \subseteq SUBSET S
    OBVIOUS
  <2> HIDE DEF F
  <2>2. PICK V \in F : \A W \in F : W \subseteq V => W = V
    BY <1>2, <2>1, LeastSet
  <2> USE DEF F
  <2>3. \A W \in SUBSET V : W # V => Good(W)
    BY <2>2
  <2>4. Sm(V) \in Nat
    <3>1. CASE V = {}
      BY <1>1, <3>1
    <3>2. CASE V # {}
      <4>1. PICK x \in V : TRUE
        BY <3>2
      <4>2. V \ {x} \in SUBSET V /\ V \ {x} # V
        BY <4>1
      <4>3. Sm(V \ {x}) \in Nat /\ f[x] \in Nat /\ Sm(V) = f[x] + Sm(V \ {x})
        BY <1>1, <2>3, <4>2
      <4>4. QED
        BY <4>3
    <3>3. QED
      BY <3>1, <3>2
  <2>5. ASSUME NEW T \in SUBSET V
        PROVE  /\ Sm(T) <= Sm(V)
               /\ (\A x \in V \ T : f[x] = 0) => Sm(T) = Sm(V)
    <3>1. CASE T = V
      BY <2>4, <3>1
    <3>2. CASE T # V
      <4>1. PICK x \in V \ T : TRUE
        BY <3>2
      <4>2. V \ {x} \in SUBSET V /\ V \ {x} # V /\ T \in SUBSET (V \ {x})
        BY <4>1
      <4>3. Good(V \ {x})
        BY <2>3, <4>2
      <4>4. Sm(T) \in Int /\ Sm(V \ {x}) \in Nat /\ f[x] \in Nat /\ Sm(V) = f[x] + Sm(V \ {x})
        BY <1>1, <4>1, <4>3
      <4>5. Sm(T) <= Sm(V \ {x})
        BY <4>2, <4>3
      <4>6. (\A y \in V \ T : f[y] = 0) => Sm(T) = Sm(V \ {x}) /\ f[x] = 0
        BY <4>1, <4>2, <4>3
      <4>7. QED
        BY <4>4, <4>5, <4>6
    <3>3. QED
      BY <3>1, <3>2
  <2>6. QED
    BY <2>2, <2>4, <2>5
<1>3. Good(U)
  BY <1>2
<1>4. QED
  BY <1>3 DEF Sm

\* A sum does not fall where no term does.
LEMMA SumMonotone ==
  ASSUME NEW S, IsFiniteSet(S), NEW f \in [S -> Int], NEW g \in [S -> Int], NEW T \in SUBSET S,
         \A x \in T : f[x] <= g[x]
  PROVE  SumFunctionOnSet(f, T) <= SumFunctionOnSet(g, T)
<1> DEFINE Sf(U) == SumFunctionOnSet(f, U)
           Sg(U) == SumFunctionOnSet(g, U)
           F == {U \in SUBSET T : ~ (Sf(U) <= Sg(U))}
<1>1. /\ Sf({}) = 0 /\ Sg({}) = 0
      /\ \A U \in SUBSET T :
           /\ Sf(U) \in Int /\ Sg(U) \in Int
           /\ \A x \in U : Sf(U) = f[x] + Sf(U \ {x}) /\ Sg(U) = g[x] + Sg(U \ {x})
  BY SumSplit
<1>2. ASSUME F # {}
      PROVE  FALSE
  <2>1. F \subseteq SUBSET S
    OBVIOUS
  <2> HIDE DEF F
  <2>2. PICK U \in F : \A V \in F : V \subseteq U => V = U
    BY <1>2, <2>1, LeastSet
  <2> USE DEF F
  <2> HIDE DEF Sf, Sg
  <2>3. PICK x \in U : TRUE
    <3>1. SUFFICES ASSUME U = {}
                   PROVE  FALSE
      OBVIOUS
    <3>2. Sf(U) = 0 /\ Sg(U) = 0
      BY <3>1, <1>1
    <3>3. QED
      BY <3>2, <2>2
  <2>4. U \ {x} \in SUBSET T /\ U \ {x} # U
    BY <2>3
  <2>5. Sf(U \ {x}) <= Sg(U \ {x})
    BY <2>2, <2>4
  <2>6. f[x] <= g[x] /\ f[x] \in Int /\ g[x] \in Int
    BY <2>3
  <2>7. Sf(U) <= Sg(U)
    BY <1>1, <2>3, <2>4, <2>5, <2>6
  <2>8. QED
    BY <2>2, <2>7
<1>3. QED
  BY <1>2

-----------------------------------------------------------------------------
(* Arithmetic. *)

\* What integer division rounds to.
LEMMA DivFacts ==
  ASSUME NEW n \in Nat, NEW d \in Nat, d > 0
  PROVE  /\ n \div d \in Nat
         /\ (n \div d) * d <= n
         /\ \A q \in Nat : q * d <= n => q <= n \div d
OBVIOUS

\* Products are ordered as their factors.
LEMMA ProductFacts ==
  ASSUME NEW a \in Nat, NEW b \in Nat, NEW c \in Nat
  PROVE  /\ a * b \in Nat
         /\ a <= b => a * c <= b * c
         /\ c > 0 /\ a * c <= b * c => a <= b
OBVIOUS

\* The greater of two.
LEMMA MaxOfTwo ==
  ASSUME NEW a \in Int, NEW b \in Int
  PROVE  Max({a, b}) = IF a <= b THEN b ELSE a
<1>1. \E x \in {a, b} : \A y \in {a, b} : x >= y
  OBVIOUS
<1>2. Max({a, b}) \in {a, b} /\ \A y \in {a, b} : Max({a, b}) >= y
  BY <1>1 DEF Max
<1>3. QED
  BY <1>2

\* A value is a natural number that does not fall when the amount grows.
LEMMA ValueFacts ==
  ASSUME NEW a \in Nat, NEW b \in Nat, NEW p \in Nat, a <= b
  PROVE  /\ value(a, p) \in Nat /\ value(b, p) \in Nat
         /\ value(a, p) <= value(b, p)
         /\ value(0, p) = 0
<1>1. Scale \in Nat /\ Scale > 0
  BY CometAssumption
<1>2. a * p \in Nat /\ b * p \in Nat /\ a * p <= b * p
  BY ProductFacts
<1>3. value(a, p) \in Nat /\ value(b, p) \in Nat /\ value(a, p) * Scale <= a * p
  BY <1>1, <1>2, DivFacts DEF value
<1>4. value(a, p) * Scale <= b * p
  <2>1. value(a, p) * Scale \in Nat
    BY <1>1, <1>3, ProductFacts
  <2>2. QED
    BY <1>2, <1>3, <2>1
<1>5. value(a, p) <= value(b, p)
  BY <1>1, <1>2, <1>3, <1>4, DivFacts DEF value
<1>6. value(0, p) = 0
  <2>1. 0 * p = 0 /\ 0 \div Scale = 0
    BY <1>1
  <2>2. QED
    BY <2>1 DEF value
<1>7. QED
  BY <1>3, <1>5, <1>6

\* A factor of an amount is an amount, and of nothing is nothing.
LEMMA FactorFacts ==
  ASSUME NEW v \in Nat, NEW f \in Nat
  PROVE  factorValue(v, f) \in Nat /\ factorValue(0, f) = 0
<1>1. FactorScale \in Nat /\ FactorScale > 0
  BY CometAssumption
<1>2. v * f \in Nat
  BY ProductFacts
<1>3. 0 * f = 0 /\ 0 \div FactorScale = 0
  BY <1>1
<1>4. QED
  BY <1>1, <1>2, <1>3, DivFacts DEF factorValue

-----------------------------------------------------------------------------
(* What one block says of a loan. *)

\* The terms that Comet adds up, and the code.
Weight(c, which) ==
  [info \in c.rows.infos |->
     factorValue(value(c.coll[info.asset], c.price[info.feed]), info[which])]

\* What counts for an asset is an amount, and nothing if none of it is supplied.
LEMMA WeightFacts ==
  ASSUME NEW c, Observed(c), NEW which \in {"borrow", "liquidate"}
  PROVE  /\ Weight(c, which) \in [c.rows.infos -> Nat]
         /\ \A info \in c.rows.infos :
              ~ c.coll[info.asset] > 0 => Weight(c, which)[info] = 0
<1>1. FactorScale \in Nat
  BY CometAssumption
<1>2. ASSUME NEW info \in c.rows.infos
      PROVE  /\ info.asset \in Assets /\ info[which] \in Nat
             /\ c.coll[info.asset] \in Nat /\ c.price[info.feed] \in Nat
  <2>1. info \in Info
    BY DEF Observed
  <2>2. /\ info.asset \in Assets /\ info.feed \in Feeds
        /\ info.borrow \in 0..FactorScale /\ info.liquidate \in 0..FactorScale
    BY <2>1 DEF Info
  <2>3. info["borrow"] = info.borrow /\ info["liquidate"] = info.liquidate
    OBVIOUS
  <2>4. info[which] \in Nat
    BY <1>1, <2>2, <2>3
  <2>5. QED
    BY <2>2, <2>4 DEF Observed
<1>3. ASSUME NEW info \in c.rows.infos
      PROVE  /\ Weight(c, which)[info] \in Nat
             /\ ~ c.coll[info.asset] > 0 => Weight(c, which)[info] = 0
  <2> DEFINE v == value(c.coll[info.asset], c.price[info.feed])
  <2>1. v \in Nat /\ (c.coll[info.asset] = 0 => v = 0)
    <3>1. \A a, p \in Nat : value(a, p) \in Nat /\ value(0, p) = 0
      BY ValueFacts
    <3>2. QED
      BY <1>2, <3>1
  <2>2. Weight(c, which)[info] = factorValue(v, info[which])
    BY DEF Weight
  <2> HIDE DEF v
  <2>3. Weight(c, which)[info] \in Nat /\ (v = 0 => Weight(c, which)[info] = 0)
    BY <1>2, <2>1, <2>2, FactorFacts
  <2>4. ~ c.coll[info.asset] > 0 => c.coll[info.asset] = 0
    BY <1>2
  <2>5. QED
    BY <2>1, <2>3, <2>4
<1>4. Weight(c, which) = [info \in c.rows.infos |-> Weight(c, which)[info]]
  BY DEF Weight
<1>5. QED
  BY <1>3, <1>4

\* Comet's sum, as far as it went, is a part of the sum over all collateral.
LEMMA CapacityFacts ==
  ASSUME NEW c, Observed(c), NEW which \in {"borrow", "liquidate"},
         NEW held, held = {info \in c.rows.infos : c.coll[info.asset] > 0}
  PROVE  /\ SumFunctionOnSet(Weight(c, which), held) \in Nat
         /\ \A i \in 0..Len(c.listed) : /\ Capacity(c, which, i) \in Nat
                                        /\ Capacity(c, which, i) <= SumFunctionOnSet(Weight(c, which), held)
         /\ Capacity(c, which, Len(c.listed)) = SumFunctionOnSet(Weight(c, which), held)
<1> DEFINE S == c.rows.infos
           f == Weight(c, which)
           Upto(i) == {info \in S : \E j \in 1..i : c.listed[j] = info.asset}
<1>1. f \in [S -> Nat] /\ IsFiniteSet(S) /\ \A x \in S \ held : f[x] = 0
  BY WeightFacts DEF Observed
<1>2. \A i : Capacity(c, which, i) = SumFunctionOnSet(f, Upto(i))
  BY DEF Capacity, Weight
<1>3. S \in SUBSET S /\ held \in SUBSET S /\ \A i : Upto(i) \in SUBSET S
  OBVIOUS
<1>4. Upto(Len(c.listed)) = S
  BY DEF Observed
<1> HIDE DEF S, f, Upto
<1>5. /\ SumFunctionOnSet(f, S) \in Nat
      /\ \A T \in SUBSET S : SumFunctionOnSet(f, T) \in Nat /\ SumFunctionOnSet(f, T) <= SumFunctionOnSet(f, S)
      /\ SumFunctionOnSet(f, held) = SumFunctionOnSet(f, S)
  BY <1>1, <1>3, SumSubset
<1>6. QED
  BY <1>2, <1>3, <1>4, <1>5 DEF f

\* The debt that is shown is no less than the debt Comet judges by, and is that
\* debt when no interest waits.
LEMMA DebtFacts ==
  ASSUME NEW c, Observed(c)
  PROVE  /\ baseDebt(c) \in Nat
         /\ StoredDebt(c) \in Nat /\ value(baseDebt(c), c.price[c.rows.feed]) \in Nat
         /\ StoredDebt(c) <= value(baseDebt(c), c.price[c.rows.feed])
         /\ c.interest = 0 => StoredDebt(c) = value(baseDebt(c), c.price[c.rows.feed])
         /\ c.principal >= 0 => value(baseDebt(c), c.price[c.rows.feed]) = 0
         /\ baseDebt(c) > 0 => c.principal < 0
<1>1. c.principal \in Int /\ c.interest \in Nat /\ c.price[c.rows.feed] \in Nat
  BY DEF Observed
<1>1a. PICK p \in Nat : p = c.price[c.rows.feed]
  BY <1>1
<1>2. PICK m \in Nat : m = Max({0, -c.principal}) /\ (c.principal >= 0 <=> m = 0)
  BY <1>1, MaxOfTwo
<1>3. baseDebt(c) = m + c.interest /\ m + c.interest \in Nat
  BY <1>1, <1>2 DEF baseDebt
<1>4. StoredDebt(c) = value(m, p)
  BY <1>1a, <1>2 DEF StoredDebt
<1>5. /\ value(m, p) \in Nat /\ value(m + c.interest, p) \in Nat
      /\ value(m, p) <= value(m + c.interest, p)
      /\ value(0, p) = 0
  <2>1. \A a, b, q \in Nat : a <= b => /\ value(a, q) \in Nat /\ value(b, q) \in Nat
                                       /\ value(a, q) <= value(b, q) /\ value(0, q) = 0
    BY ValueFacts
  <2>2. m <= m + c.interest
    BY <1>1, <1>2
  <2>3. QED
    BY <1>1, <1>2, <1>3, <2>1, <2>2
<1>6. c.principal >= 0 => m + c.interest = 0
  BY <1>1, <1>2 DEF Observed
<1>7. c.interest = 0 => m + c.interest = m
  BY <1>2
<1>8. QED
  BY <1>1a, <1>1, <1>3, <1>4, <1>5, <1>6, <1>7

-----------------------------------------------------------------------------
(* The chain. *)

\* Comet's list only grows, and what is configured is what Config says.
LEMMA ConfigFacts ==
  ASSUME IInv
  PROVE  /\ Len(listed) \in Nat /\ Len(past.listed) \in Nat
         /\ \A i \in 1..Len(listed) : listed[i] \in Assets
         /\ \A i \in 1..Len(past.listed) : past.listed[i] \in Assets
         /\ \A i \in 1..Len(past.listed) : i <= Len(listed) /\ listed[i] = past.listed[i]
         /\ Config.listed = listed /\ Config.factors = factors /\ Config.rewarded = rewarded
         /\ Config.feed = feed
<1>1. listed \in Seq(Assets) /\ past.listed \in Seq(Assets) /\ Extends(past.listed, listed)
  BY DEF IInv, TypeOK, ChainInv
<1>2. Len(listed) \in Nat /\ Len(past.listed) \in Nat
  BY <1>1
<1>3. \A i \in 1..Len(past.listed) : i <= Len(listed) /\ listed[i] = past.listed[i]
  BY <1>1, <1>2 DEF Extends
<1>4. QED
  BY <1>1, <1>2, <1>3 DEF Config

\* An event on chain keeps the invariant when it leaves values of the right
\* type, adds to what is configured and lets no interest grow without debt.
LEMMA ChainStep ==
  ASSUME IInv, Event,
         listed' \in Seq(Assets), factors' \in [Assets -> Factors], rewarded' \in BOOLEAN,
         feed' \in [Assets \cup {base} -> Feeds], price' \in [Feeds -> Prices], principal' \in Int,
         interest' \in Nat, coll' \in [Assets -> Nat], owed' \in BOOLEAN,
         Extends(listed, listed'), rewarded => rewarded', interest' > 0 => principal' < 0
  PROVE  IInv'
<1>1. past' = Config /\ blocks' = blocks + 1 /\ blocks < MaxBlocks
  BY DEF Event
<1>2. /\ runs' = runs /\ pc' = pc /\ count' = count /\ infos' = infos /\ supported' = supported
      /\ baseFeed' = baseFeed /\ answered' = answered
      /\ cached' = cached /\ synced' = synced /\ seen' = seen /\ before' = before /\ basis' = basis
  BY DEF Event, command
<1>3. past'.listed = listed /\ past'.factors = factors /\ past'.rewarded = rewarded
      /\ past'.feed = feed
  BY <1>1 DEF Config
<1>4. TypeOK'
  <2>1. past'.listed \in Seq(Assets) /\ past'.factors \in [Assets -> Factors] /\ past'.rewarded \in BOOLEAN
        /\ past'.feed \in [Assets \cup {base} -> Feeds]
    BY <1>3 DEF IInv, TypeOK
  <2>2. blocks' \in 0..MaxBlocks
    BY <1>1, CometAssumption DEF IInv, TypeOK
  <2>3. count' \in 0..Len(listed')
    BY <1>2 DEF IInv, TypeOK, Extends
  <2>4. /\ runs' \in 0..MaxRuns /\ pc' \in Ended \cup {"basics", "assets", "rewards", "save", "batch"}
        /\ infos' \in SUBSET Info /\ supported' \in BOOLEAN /\ cached' \in Rows
        /\ synced' \in BOOLEAN /\ baseFeed' \in Feeds
      /\ answered' \in BOOLEAN /\ {before', basis'} \subseteq Configs
    BY <1>2 DEF IInv, TypeOK
  <2>5. QED
    BY <2>1, <2>2, <2>3, <2>4 DEF TypeOK
<1>5. ChainInv'
  BY <1>3 DEF ChainInv
<1>6. SyncInv'
  <2>1. SyncInv /\ past.rewarded => rewarded
    BY DEF IInv, ChainInv
  <2>2. pc = "assets" => \A a \in before.listed : \E i \in 1..Len(listed) : i <= count /\ listed[i] = a
    <3>1. SUFFICES ASSUME pc = "assets", NEW a \in before.listed
                   PROVE  \E i \in 1..Len(listed) : i <= count /\ listed[i] = a
      OBVIOUS
    <3>2. PICK i \in 1..Len(past.listed) : i <= count /\ past.listed[i] = a
      BY <3>1 DEF IInv, SyncInv
    <3>3. QED
      <4>1. /\ Len(listed) \in Nat /\ Len(past.listed) \in Nat
            /\ \A j \in 1..Len(past.listed) : j <= Len(listed) /\ listed[j] = past.listed[j]
        BY ConfigFacts
      <4>2. i \in 1..Len(listed) /\ listed[i] = past.listed[i]
        BY <3>2, <4>1
      <4>3. QED
        BY <3>2, <4>2
  <2>3. pc \in {"assets", "rewards"} => (before.rewarded => rewarded)
    BY DEF IInv, SyncInv, ChainInv
  <2>4. QED
    BY <1>2, <1>3, <2>2, <2>3 DEF SyncInv, IInv
<1>7. SeenInv'
  BY <1>2 DEF IInv, SeenInv
<1>8. QED
  BY <1>4, <1>5, <1>6, <1>7 DEF IInv

\* A list that stays extends itself.
LEMMA ExtendsItself ==
  ASSUME IInv, listed' = listed
  PROVE  Extends(listed, listed')
BY ConfigFacts DEF Extends

\* A price that changes disturbs nothing that is configured or read.
LEMMA SetPriceStep ==
  ASSUME IInv, SetPrice
  PROVE  IInv'
<1>1. price' \in [Feeds -> Prices] /\ Event
  BY DEF SetPrice, IInv, TypeOK
<1>2. /\ listed' = listed /\ factors' = factors /\ rewarded' = rewarded /\ feed' = feed
      /\ principal' = principal /\ interest' = interest /\ coll' = coll /\ owed' = owed
  BY DEF SetPrice
<1>3. /\ listed' \in Seq(Assets) /\ factors' \in [Assets -> Factors] /\ rewarded' \in BOOLEAN
      /\ feed' \in [Assets \cup {base} -> Feeds]
      /\ principal' \in Int /\ interest' \in Nat /\ coll' \in [Assets -> Nat] /\ owed' \in BOOLEAN
  BY <1>2 DEF IInv, TypeOK
<1>4. (rewarded => rewarded') /\ (interest' > 0 => principal' < 0) /\ Extends(listed, listed')
  BY <1>2, ExtendsItself DEF IInv, ChainInv
<1>5. QED
  BY <1>1, <1>3, <1>4, ChainStep

\* A new asset, new factors or rewards: what was listed stays so.
LEMMA ConfigureStep ==
  ASSUME IInv, Configure
  PROVE  IInv'
<1>1. /\ price' = price /\ principal' = principal /\ interest' = interest
      /\ coll' = coll /\ owed' = owed /\ Event
  BY DEF Configure
<1>2. /\ price' \in [Feeds -> Prices] /\ principal' \in Int /\ interest' \in Nat
      /\ coll' \in [Assets -> Nat] /\ owed' \in BOOLEAN /\ (interest' > 0 => principal' < 0)
  BY <1>1 DEF IInv, TypeOK, ChainInv
<1>3. /\ listed \in Seq(Assets) /\ factors \in [Assets -> Factors] /\ rewarded \in BOOLEAN
      /\ feed \in [Assets \cup {base} -> Feeds]
  BY DEF IInv, TypeOK
<1>4. /\ listed' \in Seq(Assets) /\ factors' \in [Assets -> Factors] /\ rewarded' \in BOOLEAN
      /\ feed' \in [Assets \cup {base} -> Feeds]
      /\ Extends(listed, listed') /\ (rewarded => rewarded')
  <2>1. ASSUME NEW a \in Assets, listed' = Append(listed, a), UNCHANGED <<factors, rewarded, feed>>
        PROVE  /\ listed' \in Seq(Assets) /\ factors' \in [Assets -> Factors]
               /\ rewarded' \in BOOLEAN /\ feed' \in [Assets \cup {base} -> Feeds]
               /\ Extends(listed, listed') /\ (rewarded => rewarded')
    <3>1. listed' \in Seq(Assets) /\ Extends(listed, listed')
      BY <1>3, <2>1 DEF Extends
    <3>2. QED
      BY <1>3, <2>1, <3>1
  <2>2. ASSUME NEW a \in ToSet(listed), NEW f \in Factors, factors' = [factors EXCEPT ![a] = f],
               UNCHANGED <<listed, rewarded, feed>>
        PROVE  /\ listed' \in Seq(Assets) /\ factors' \in [Assets -> Factors]
               /\ rewarded' \in BOOLEAN /\ feed' \in [Assets \cup {base} -> Feeds]
               /\ Extends(listed, listed') /\ (rewarded => rewarded')
    <3>1. factors' \in [Assets -> Factors]
      BY <1>3, <2>2
    <3>2. QED
      BY <1>3, <2>2, <3>1, ExtendsItself
  <2>3. ASSUME rewarded' = TRUE, UNCHANGED <<listed, factors, feed>>
        PROVE  /\ listed' \in Seq(Assets) /\ factors' \in [Assets -> Factors]
               /\ rewarded' \in BOOLEAN /\ feed' \in [Assets \cup {base} -> Feeds]
               /\ Extends(listed, listed') /\ (rewarded => rewarded')
    BY <1>3, <2>3, ExtendsItself
  <2>4. ASSUME NEW t \in ToSet(listed) \cup {base}, NEW f \in FeedsOf[t],
               feed' = [feed EXCEPT ![t] = f], UNCHANGED <<listed, factors, rewarded>>
        PROVE  /\ listed' \in Seq(Assets) /\ factors' \in [Assets -> Factors]
               /\ rewarded' \in BOOLEAN /\ feed' \in [Assets \cup {base} -> Feeds]
               /\ Extends(listed, listed') /\ (rewarded => rewarded')
    <3>1. t \in Assets \cup {base}
      BY ConfigFacts, <1>3 DEF ToSet
    <3>2. f \in Feeds
      BY <3>1, CometAssumption
    <3>3. feed' \in [Assets \cup {base} -> Feeds]
      BY <1>3, <2>4, <3>2
    <3>4. QED
      BY <1>3, <2>4, <3>3, ExtendsItself
  <2>5. QED
    BY <2>1, <2>2, <2>3, <2>4 DEF Configure
<1>5. QED
  BY <1>1, <1>2, <1>4, ChainStep

\* Debt that grows disturbs nothing that is configured or read.
LEMMA InterestStep ==
  ASSUME IInv, Interest
  PROVE  IInv'
<1>1. /\ listed' = listed /\ factors' = factors /\ rewarded' = rewarded /\ feed' = feed /\ price' = price
      /\ coll' = coll /\ owed' = owed /\ Event
  BY DEF Interest
<1>2. /\ listed' \in Seq(Assets) /\ factors' \in [Assets -> Factors] /\ rewarded' \in BOOLEAN
      /\ feed' \in [Assets \cup {base} -> Feeds]
      /\ price' \in [Feeds -> Prices] /\ coll' \in [Assets -> Nat] /\ owed' \in BOOLEAN
      /\ (rewarded => rewarded')
  BY <1>1 DEF IInv, TypeOK
<1>3. principal \in Int /\ interest \in Nat
  BY DEF IInv, TypeOK
<1>4. principal' \in Int /\ interest' \in Nat /\ (interest' > 0 => principal' < 0)
  BY <1>3 DEF Interest
<1>5. QED
  BY <1>1, <1>2, <1>4, ExtendsItself, ChainStep

\* Nor does the wallet, whatever it supplies, withdraws or borrows.
LEMMA UseStep ==
  ASSUME IInv, NEW p \in Int, NEW c \in [Assets -> Nat], NEW checked \in BOOLEAN,
         Use(p, c, checked)
  PROVE  IInv'
<1>1. /\ listed' = listed /\ factors' = factors /\ rewarded' = rewarded /\ feed' = feed /\ price' = price
      /\ principal' = p /\ interest' = 0 /\ coll' = c /\ owed' \in {owed, rewarded} /\ Event
  BY DEF Use
<1>2. /\ listed' \in Seq(Assets) /\ factors' \in [Assets -> Factors] /\ rewarded' \in BOOLEAN
      /\ feed' \in [Assets \cup {base} -> Feeds]
      /\ price' \in [Feeds -> Prices] /\ (rewarded => rewarded')
  BY <1>1 DEF IInv, TypeOK
<1>3. owed' \in BOOLEAN
  BY <1>1 DEF IInv, TypeOK
<1>4. principal' \in Int /\ interest' \in Nat /\ coll' \in [Assets -> Nat]
      /\ (interest' > 0 => principal' < 0)
  BY <1>1
<1>5. QED
  BY <1>1, <1>2, <1>3, <1>4, ExtendsItself, ChainStep

\* Each use that Comet allows.
LEMMA AccountStep ==
  ASSUME IInv, Account
  PROVE  IInv'
<1>1. /\ principal \in Int /\ interest \in Nat /\ coll \in [Assets -> Nat]
      /\ ToSet(listed) \subseteq Assets
  BY ConfigFacts DEF IInv, TypeOK, ToSet
<1>2. PICK n \in Amounts :
        \/ Use(principal - interest + n, coll, FALSE)
        \/ Use(principal - interest - n, coll, TRUE)
        \/ \E a \in ToSet(listed) :
             \/ Use(principal - interest, [coll EXCEPT ![a] = @ + n], FALSE)
             \/ coll[a] >= n /\ Use(principal - interest, [coll EXCEPT ![a] = @ - n], TRUE)
  BY DEF Account
<1>3. n \in Nat
  BY CometAssumption
<1>4. /\ principal - interest + n \in Int /\ principal - interest - n \in Int
      /\ principal - interest \in Int
  BY <1>1, <1>3
<1>5. CASE \/ Use(principal - interest + n, coll, FALSE)
           \/ Use(principal - interest - n, coll, TRUE)
  BY <1>1, <1>4, <1>5, UseStep
<1>6. ASSUME NEW a \in ToSet(listed),
             \/ Use(principal - interest, [coll EXCEPT ![a] = @ + n], FALSE)
             \/ coll[a] >= n /\ Use(principal - interest, [coll EXCEPT ![a] = @ - n], TRUE)
      PROVE  IInv'
  <2>1. coll[a] \in Nat
    BY <1>1
  <2>2. [coll EXCEPT ![a] = @ + n] \in [Assets -> Nat]
    BY <1>1, <1>3, <2>1
  <2>3. coll[a] >= n => [coll EXCEPT ![a] = @ - n] \in [Assets -> Nat]
    BY <1>1, <1>3, <2>1
  <2>4. QED
    BY <1>4, <1>6, <2>2, <2>3, UseStep
<1>7. QED
  BY <1>2, <1>5, <1>6

\* Comet takes over the collateral and the debt.
LEMMA AbsorbStep ==
  ASSUME IInv, Absorb
  PROVE  IInv'
<1>1. Use(0, [a \in Assets |-> 0], FALSE)
  BY DEF Absorb
<1>2. [a \in Assets |-> 0] \in [Assets -> Nat]
  OBVIOUS
<1>3. 0 \in Int /\ FALSE \in BOOLEAN
  OBVIOUS
<1>4. QED
  BY <1>1, <1>2, <1>3, UseStep, Zenon

-----------------------------------------------------------------------------
(* The commands. *)

\* What a provider answers of the first n assets describes them all and no
\* others.
LEMMA InfosFacts ==
  ASSUME IInv, NEW c \in Answering, NEW n \in Nat, n <= Len(c.listed)
  PROVE  /\ InfosOf(c, n) \subseteq Info /\ IsFiniteSet(InfosOf(c, n))
         /\ \A info \in InfosOf(c, n) : \E i \in 1..n : c.listed[i] = info.asset
         /\ \A i \in 1..n : \E info \in InfosOf(c, n) : info.asset = c.listed[i]
<1> DEFINE at(i) == [asset |-> c.listed[i], feed |-> c.feed[c.listed[i]],
                     borrow |-> c.factors[c.listed[i]].borrow,
                     liquidate |-> c.factors[c.listed[i]].liquidate]
<1>1. /\ Len(c.listed) \in Nat /\ c.factors \in [Assets -> Factors]
      /\ c.feed \in [Assets \cup {base} -> Feeds]
      /\ \A i \in 1..Len(c.listed) : c.listed[i] \in Assets
  BY ConfigFacts DEF Answering, IInv, TypeOK
<1>2. InfosOf(c, n) = {at(i) : i \in 1..n}
  BY DEF InfosOf
<1>3. ASSUME NEW i \in 1..n
      PROVE  at(i) \in Info /\ at(i).asset = c.listed[i]
  <2>1. c.listed[i] \in Assets /\ c.feed[c.listed[i]] \in Feeds
    BY <1>1
  <2>2. c.factors[c.listed[i]] \in [borrow : 0..FactorScale, liquidate : 0..FactorScale]
    BY <1>1, <2>1, CometAssumption
  <2>3. QED
    BY <2>1, <2>2 DEF Info
<1> HIDE DEF at
<1>4. IsFiniteSet(InfosOf(c, n))
  <2> DEFINE g == [i \in 1..n |-> at(i)]
  <2>1. IsFiniteSet(1..n)
    BY FS_Interval
  <2>2. g \in Surjection(1..n, InfosOf(c, n))
    BY <1>2 DEF Surjection
  <2> HIDE DEF g
  <2>3. QED
    BY <2>1, <2>2, FS_Surjection
<1>5. QED
  BY <1>2, <1>3, <1>4

\* A step of a command leaves the chain alone.
LEMMA CommandStep ==
  ASSUME IInv, UNCHANGED <<comet, past, blocks>>,
         runs' \in 0..MaxRuns, pc' \in Ended \cup {"basics", "assets", "rewards", "save", "batch"},
         count' \in 0..Len(listed), infos' \in SUBSET Info, supported' \in BOOLEAN,
         cached' \in Rows, synced' \in BOOLEAN, baseFeed' \in Feeds, answered' \in BOOLEAN,
         {before', basis'} \subseteq Configs,
         SyncInv', SeenInv'
  PROVE  IInv'
<1>1. /\ listed' = listed /\ factors' = factors /\ rewarded' = rewarded /\ feed' = feed /\ price' = price
      /\ principal' = principal /\ interest' = interest /\ coll' = coll /\ owed' = owed
      /\ past' = past /\ blocks' = blocks
  BY DEF comet
<1>2. TypeOK'
  BY <1>1 DEF IInv, TypeOK
<1>3. ChainInv'
  BY <1>1 DEF IInv, ChainInv
<1>4. QED
  BY <1>2, <1>3 DEF IInv

\* A command begins with what is cached.
LEMMA BeginStep ==
  ASSUME IInv, Begin
  PROVE  IInv'
<1>1. /\ UNCHANGED <<comet, past, blocks, cached, synced, before, basis>>
      /\ pc' \in {"basics", "batch", "failed"} /\ count' = 0 /\ infos' = {} /\ supported' = FALSE
      /\ baseFeed' = cached.feed /\ answered' = FALSE
      /\ runs' = runs + 1 /\ runs < MaxRuns
  BY DEF Begin
<1>2. runs' \in 0..MaxRuns
  BY <1>1, CometAssumption DEF IInv, TypeOK
<1>3. count' \in 0..Len(listed)
  BY <1>1, ConfigFacts
<1>4. /\ pc' \in Ended \cup {"basics", "assets", "rewards", "save", "batch"}
      /\ infos' \in SUBSET Info /\ supported' \in BOOLEAN
      /\ cached' \in Rows /\ synced' \in BOOLEAN /\ baseFeed' \in Feeds
      /\ answered' \in BOOLEAN /\ {before', basis'} \subseteq Configs
  BY <1>1 DEF IInv, TypeOK, Ended, Rows
<1>5. SyncInv' /\ SeenInv'
  BY <1>1 DEF IInv, SyncInv, SeenInv
<1>6. UNCHANGED <<comet, past, blocks>>
  BY <1>1
<1>7. QED
  BY <1>2, <1>3, <1>4, <1>5, <1>6, CommandStep

\* The sync learns how many assets there are at its block.
LEMMA MarketBasicsStep ==
  ASSUME IInv, MarketBasics
  PROVE  IInv'
<1>1. /\ UNCHANGED <<comet, past, blocks, runs, infos, supported, cached, synced, seen, answered, basis>>
      /\ pc' = "assets"
      /\ before' = [listed |-> ToSet(past.listed), rewarded |-> past.rewarded,
                  answered |-> FALSE]
  BY DEF MarketBasics
<1>2. PICK c \in Answering : count' = Len(c.listed) /\ baseFeed' = c.feed[base]
  BY DEF MarketBasics
<1>3. /\ count' \in 0..Len(listed) /\ Len(past.listed) <= count'
      /\ Len(past.listed) \in Nat /\ count' \in Nat
  <2>1. /\ Len(listed) \in Nat /\ Len(past.listed) \in Nat /\ Len(past.listed) <= Len(listed)
        /\ Config.listed = listed
    BY ConfigFacts DEF IInv, ChainInv, Extends
  <2>2. QED
    BY <1>2, <2>1 DEF Answering
<1>4. before' \in Configs
  <2>1. ToSet(past.listed) \subseteq Assets
    BY ConfigFacts DEF ToSet, IInv, TypeOK
  <2>2. past.rewarded \in BOOLEAN
    BY DEF IInv, TypeOK
  <2>3. [listed |-> ToSet(past.listed), rewarded |-> past.rewarded, answered |-> FALSE] \in Configs
    BY <2>1, <2>2 DEF Configs
  <2>4. QED
    BY <1>1, <2>3
<1>5. SyncInv'
  <2>1. /\ past' = past /\ cached' = cached /\ basis' = basis
        /\ before'.listed = ToSet(past.listed) /\ before'.rewarded = past.rewarded
    BY <1>1
  <2>2. \A a \in ToSet(past.listed) : \E i \in 1..Len(past.listed) : i <= count' /\ past.listed[i] = a
    <3>1. SUFFICES ASSUME NEW a \in ToSet(past.listed)
                   PROVE  \E i \in 1..Len(past.listed) : i <= count' /\ past.listed[i] = a
      OBVIOUS
    <3>2. PICK i \in 1..Len(past.listed) : past.listed[i] = a
      <4>1. DOMAIN past.listed = 1..Len(past.listed)
        BY DEF IInv, TypeOK
      <4>2. QED
        BY <3>1, <4>1, Zenon DEF ToSet
    <3>3. i <= count'
      BY <1>3
    <3>4. QED
      BY <3>2, <3>3
  <2>3. \A a \in basis.listed : \E info \in cached.infos : info.asset = a
    BY DEF IInv, SyncInv
  <2>4. basis.rewarded /\ basis.answered => cached.supported
    BY DEF IInv, SyncInv
  <2>5. QED
    BY <1>1, <2>1, <2>2, <2>3, <2>4 DEF SyncInv
<1>6. SeenInv'
  BY <1>1 DEF SeenInv
<1>6a. baseFeed' \in Feeds
  <2>1. past.feed[base] \in Feeds /\ feed[base] \in Feeds /\ Config.feed = feed
    BY ConfigFacts DEF IInv, TypeOK
  <2>2. QED
    BY <1>2, <2>1 DEF Answering
<1>7. /\ runs' \in 0..MaxRuns /\ infos' \in SUBSET Info /\ supported' \in BOOLEAN
      /\ cached' \in Rows /\ synced' \in BOOLEAN /\ baseFeed' \in Feeds
      /\ answered' \in BOOLEAN /\ {before', basis'} \subseteq Configs
      /\ pc' \in Ended \cup {"basics", "assets", "rewards", "save", "batch"}
  BY <1>1, <1>4, <1>6a DEF IInv, TypeOK
<1>8. UNCHANGED <<comet, past, blocks>>
  BY <1>1
<1>9. QED
  BY <1>3, <1>5, <1>6, <1>7, <1>8, CommandStep

\* It reads each of them.
LEMMA CollateralSeedsStep ==
  ASSUME IInv, CollateralSeeds
  PROVE  IInv'
<1>1. /\ UNCHANGED <<comet, past, blocks, runs, count, baseFeed, supported, cached, synced, seen,
                   answered, before, basis>>
      /\ pc' \in {"rewards", "failed"} /\ pc = "assets"
  BY DEF CollateralSeeds
<1>2. PICK c \in Answering : IF count <= Len(c.listed)
                               THEN infos' = InfosOf(c, count) /\ pc' = "rewards"
                               ELSE pc' = "failed" /\ UNCHANGED infos
  BY DEF CollateralSeeds
<1>3. count \in Nat
  BY ConfigFacts DEF IInv, TypeOK
<1>4. infos' \in SUBSET Info
  BY <1>2, <1>3, InfosFacts DEF IInv, TypeOK
<1>5. pc' = "rewards" => \A a \in before.listed : \E info \in infos' : info.asset = a
  <2>1. SUFFICES ASSUME pc' = "rewards", NEW a \in before.listed
                 PROVE  \E info \in infos' : info.asset = a
    OBVIOUS
  <2>2. count <= Len(c.listed) /\ infos' = InfosOf(c, count)
    BY <1>2, <2>1
  <2>3. PICK i \in 1..Len(past.listed) : i <= count /\ past.listed[i] = a
    BY <1>1, <2>1 DEF IInv, SyncInv
  <2>4. c.listed[i] = a /\ i \in 1..count
    BY <1>3, <2>3, ConfigFacts DEF Answering
  <2>5. QED
    BY <1>3, <2>2, <2>4, InfosFacts
<1>6. SyncInv'
  <2>1. /\ past' = past /\ before' = before /\ cached' = cached /\ basis' = basis
    BY <1>1
  <2>2. /\ (before.rewarded => past.rewarded)
        /\ \A a \in basis.listed : \E info \in cached.infos : info.asset = a
        /\ basis.rewarded /\ basis.answered => cached.supported
    BY <1>1 DEF IInv, SyncInv
  <2>3. QED
    BY <1>1, <1>5, <2>1, <2>2 DEF SyncInv
<1>7. SeenInv'
  BY <1>1 DEF SeenInv
<1>8. /\ runs' \in 0..MaxRuns /\ count' \in 0..Len(listed) /\ supported' \in BOOLEAN
      /\ cached' \in Rows /\ synced' \in BOOLEAN /\ baseFeed' \in Feeds
      /\ answered' \in BOOLEAN /\ {before', basis'} \subseteq Configs
      /\ pc' \in Ended \cup {"basics", "assets", "rewards", "save", "batch"}
  BY <1>1 DEF IInv, TypeOK, Ended
<1>9. UNCHANGED <<comet, past, blocks>>
  BY <1>1
<1>10. QED
  BY <1>4, <1>6, <1>7, <1>8, <1>9, CommandStep

\* It reads whether there are rewards.
LEMMA RewardSeedsStep ==
  ASSUME IInv, RewardSeeds
  PROVE  IInv'
<1>1. /\ UNCHANGED <<comet, past, blocks, runs, count, baseFeed, infos, cached, synced, seen, answered, basis>>
      /\ pc' = "save" /\ pc = "rewards"
  BY DEF RewardSeeds
<1>2. PICK c \in Answering, success \in BOOLEAN :
        supported' = (success /\ c.rewarded) /\ before' = [before EXCEPT !.answered = success]
  BY DEF RewardSeeds
<1>3. /\ past.rewarded \in BOOLEAN /\ rewarded \in BOOLEAN /\ (past.rewarded => rewarded)
      /\ Config.rewarded = rewarded
  BY DEF IInv, TypeOK, ChainInv, Config
<1>4. c.rewarded \in BOOLEAN /\ (past.rewarded => c.rewarded)
  BY <1>3 DEF Answering
<1>5. /\ supported' \in BOOLEAN /\ before' \in Configs
      /\ before'.listed = before.listed /\ before'.rewarded = before.rewarded
      /\ (past.rewarded /\ before'.answered => supported')
  <2>1. before \in Configs
    BY DEF IInv, TypeOK
  <2>2. /\ before' \in Configs /\ before'.listed = before.listed
        /\ before'.rewarded = before.rewarded /\ before'.answered = success
    BY <1>2, <2>1 DEF Configs
  <2>3. QED
    BY <1>2, <1>4, <2>2
<1>6. SyncInv'
  <2>1. /\ before.rewarded => past.rewarded
        /\ \A a \in before.listed : \E info \in infos : info.asset = a
        /\ \A a \in basis.listed : \E info \in cached.infos : info.asset = a
        /\ basis.rewarded /\ basis.answered => cached.supported
    BY <1>1 DEF IInv, SyncInv
  <2>2. QED
    BY <1>1, <1>5, <2>1 DEF SyncInv
<1>7. SeenInv'
  BY <1>1 DEF SeenInv
<1>8. /\ runs' \in 0..MaxRuns /\ count' \in 0..Len(listed) /\ infos' \in SUBSET Info
      /\ cached' \in Rows /\ synced' \in BOOLEAN /\ baseFeed' \in Feeds
      /\ answered' \in BOOLEAN /\ {before', basis'} \subseteq Configs
      /\ pc' \in Ended \cup {"basics", "assets", "rewards", "save", "batch"}
  BY <1>1, <1>5 DEF IInv, TypeOK
<1>9. UNCHANGED <<comet, past, blocks>>
  BY <1>1
<1>10. QED
  BY <1>5, <1>6, <1>7, <1>8, <1>9, CommandStep

\* What it has read becomes the rows.
LEMMA SaveStep ==
  ASSUME IInv, Save
  PROVE  IInv'
<1>1. /\ UNCHANGED <<comet, past, blocks, runs, count, baseFeed, infos, supported, seen, answered, before>>
      /\ pc' = "synced" /\ pc = "save" /\ synced' = TRUE /\ basis' = before
      /\ cached' = [infos |-> infos, feed |-> baseFeed, supported |-> supported]
  BY DEF Save
<1>2. cached'.infos = infos /\ cached'.supported = supported
  BY <1>1
<1>3. cached' \in Rows
  BY <1>1 DEF IInv, TypeOK, Rows
<1>4. SyncInv'
  <2>1. /\ before.rewarded /\ before.answered => supported
        /\ \A a \in before.listed : \E info \in infos : info.asset = a
    BY <1>1 DEF IInv, SyncInv
  <2>2. QED
    BY <1>1, <1>2, <2>1 DEF SyncInv
<1>5. SeenInv'
  BY <1>1 DEF SeenInv
<1>6. /\ runs' \in 0..MaxRuns /\ count' \in 0..Len(listed) /\ infos' \in SUBSET Info
      /\ supported' \in BOOLEAN /\ synced' \in BOOLEAN /\ baseFeed' \in Feeds
      /\ answered' \in BOOLEAN /\ {before', basis'} \subseteq Configs
      /\ pc' \in Ended \cup {"basics", "assets", "rewards", "save", "batch"}
  BY <1>1 DEF IInv, TypeOK, Ended
<1>7. UNCHANGED <<comet, past, blocks>>
  BY <1>1
<1>8. QED
  BY <1>3, <1>4, <1>5, <1>6, <1>7, CommandStep

\* What one block says is what Observed expects.
LEMMA ChainObserved ==
  ASSUME IInv
  PROVE  Observed(Chain)
<1>1. /\ Len(listed) \in Nat /\ Config \in Answering /\ Config.listed = listed
  BY ConfigFacts DEF Answering
<1>2. /\ InfosOf(Config, Len(listed)) \subseteq Info /\ IsFiniteSet(InfosOf(Config, Len(listed)))
      /\ \A info \in InfosOf(Config, Len(listed)) :
           \E i \in 1..Len(listed) : listed[i] = info.asset
  BY <1>1, InfosFacts
<1>3. /\ Chain.listed = listed /\ Chain.rows.infos = InfosOf(Config, Len(listed))
      /\ Chain.price = price /\ Chain.principal = principal /\ Chain.interest = interest
      /\ Chain.coll = coll /\ Chain.rows.feed = feed[base]
  BY DEF Chain
<1>4. price \in [Feeds -> Nat] /\ feed[base] \in Feeds
  BY CometAssumption DEF IInv, TypeOK
<1>5. /\ principal \in Int /\ interest \in Nat /\ coll \in [Assets -> Nat]
      /\ interest > 0 => principal < 0
  BY DEF IInv, TypeOK, ChainInv
<1>6. QED
  BY <1>1, <1>2, <1>3, <1>4, <1>5 DEF Observed

\* Positions reads one block of the market that is cached.
LEMMA MarketStateStep ==
  ASSUME IInv, MarketState
  PROVE  IInv'
<1>1. /\ UNCHANGED <<comet, past, blocks, runs, count, baseFeed, infos, supported, cached, synced,
                   before, basis>>
      /\ \/ pc' = "failed" /\ seen' = seen /\ answered' = answered
         \/ /\ pc' = "shown" /\ seen' = Chain /\ answered' \in BOOLEAN
            /\ ~ Reverts(Chain, "borrow")
  BY DEF MarketState
<1>2. SyncInv'
  BY <1>1 DEF IInv, SyncInv
<1>3. SeenInv'
  BY <1>1, ChainObserved DEF SeenInv
<1>4. /\ runs' \in 0..MaxRuns /\ count' \in 0..Len(listed) /\ infos' \in SUBSET Info
      /\ supported' \in BOOLEAN /\ cached' \in Rows /\ synced' \in BOOLEAN /\ baseFeed' \in Feeds /\ answered' \in BOOLEAN
      /\ {before', basis'} \subseteq Configs
      /\ pc' \in Ended \cup {"basics", "assets", "rewards", "save", "batch"}
  BY <1>1 DEF IInv, TypeOK, Ended
<1>5. UNCHANGED <<comet, past, blocks>>
  BY <1>1
<1>6. QED
  BY <1>2, <1>3, <1>4, <1>5, CommandStep

\* A batch that fails leaves the rows alone.
LEMMA FailsStep ==
  ASSUME IInv, Fails
  PROVE  IInv'
<1>1. /\ UNCHANGED <<comet, past, blocks, runs, cached, synced, seen, answered, basis>>
      /\ pc' = "failed"
      /\ count' = 0 /\ baseFeed' = cached.feed /\ infos' = {} /\ supported' = FALSE
      /\ before' = basis
  BY DEF Fails
<1>2. SyncInv' /\ SeenInv'
  BY <1>1 DEF IInv, SyncInv, SeenInv
<1>3. /\ runs' \in 0..MaxRuns /\ count' \in 0..Len(listed) /\ infos' \in SUBSET Info
      /\ supported' \in BOOLEAN /\ cached' \in Rows /\ synced' \in BOOLEAN /\ baseFeed' \in Feeds /\ answered' \in BOOLEAN
      /\ {before', basis'} \subseteq Configs
      /\ pc' \in Ended \cup {"basics", "assets", "rewards", "save", "batch"}
  <2>1. /\ runs \in 0..MaxRuns /\ cached \in Rows /\ synced \in BOOLEAN /\ answered \in BOOLEAN
        /\ before \in Configs /\ basis \in Configs /\ count \in 0..Len(listed)
    BY DEF IInv, TypeOK
  <2>2. cached.feed \in Feeds
    BY <2>1 DEF Rows
  <2>3. 0 \in 0..Len(listed)
    BY <2>1
  <2>4. QED
    BY <1>1, <2>1, <2>2, <2>3 DEF Ended
<1>4. UNCHANGED <<comet, past, blocks>>
  BY <1>1
<1>5. QED
  BY <1>2, <1>3, <1>4, CommandStep

-----------------------------------------------------------------------------
(* The theorems. *)

\* Before the first command nothing is cached.
LEMMA InitInv == Init => IInv
<1> SUFFICES ASSUME Init PROVE IInv
  OBVIOUS
<1>1. /\ listed \in Seq(Assets) /\ factors \in [Assets -> Factors]
      /\ feed \in [Assets \cup {base} -> Feeds] /\ price \in [Feeds -> Prices]
      /\ MaxBlocks \in Nat /\ MaxRuns \in Nat
  BY CometAssumption DEF Init
<1>2. past.listed = listed /\ past.factors = factors /\ past.rewarded = FALSE /\ rewarded = FALSE
      /\ past.feed = feed
  BY DEF Init, Config
<1>3. /\ baseFeed \in Feeds /\ cached \in Rows /\ cached.infos = {} /\ basis = before
      /\ before = [listed |-> {}, rewarded |-> FALSE, answered |-> FALSE]
  BY <1>1 DEF Init, Rows
<1>4. before \in Configs
  BY <1>3 DEF Configs
<1>5. TypeOK
  <2>1. /\ principal \in Int /\ interest \in Nat /\ coll \in [Assets -> Nat] /\ owed \in BOOLEAN
        /\ blocks \in 0..MaxBlocks /\ runs \in 0..MaxRuns /\ pc \in Ended
        /\ infos \in SUBSET Info /\ supported \in BOOLEAN /\ synced \in BOOLEAN
        /\ answered \in BOOLEAN
    <3>1. principal \in Int /\ interest \in Nat /\ coll \in [Assets -> Nat]
      BY DEF Init
    <3>2. blocks \in 0..MaxBlocks /\ runs \in 0..MaxRuns
      BY <1>1 DEF Init
    <3>3. owed \in BOOLEAN /\ supported \in BOOLEAN /\ synced \in BOOLEAN /\ answered \in BOOLEAN
      BY DEF Init
    <3>4. pc \in Ended /\ infos \in SUBSET Info
      BY DEF Init, Ended
    <3>5. QED
      BY <3>1, <3>2, <3>3, <3>4
  <2>2. count \in 0..Len(listed)
    BY <1>1 DEF Init
  <2>3. past.rewarded \in BOOLEAN /\ rewarded \in BOOLEAN
    BY <1>2
  <2>4. QED
    BY <1>1, <1>2, <1>3, <1>4, <2>1, <2>2, <2>3 DEF TypeOK
<1>6. ChainInv
  BY <1>1, <1>2 DEF Init, ChainInv, Extends
<1>7. SyncInv
  BY <1>3 DEF Init, SyncInv
<1>8. SeenInv
  BY DEF Init, SeenInv
<1>9. QED
  BY <1>5, <1>6, <1>7, <1>8 DEF IInv

\* Every step keeps the invariant.
LEMMA NextInv == IInv /\ [Next]_vars => IInv'
<1> SUFFICES ASSUME IInv, [Next]_vars PROVE IInv'
  OBVIOUS
<1>1. CASE SetPrice
  BY <1>1, SetPriceStep
<1>2. CASE Configure
  BY <1>2, ConfigureStep
<1>3. CASE Interest
  BY <1>3, InterestStep
<1>4. CASE Account
  BY <1>4, AccountStep
<1>5. CASE Absorb
  BY <1>5, AbsorbStep
<1>6. CASE Begin
  BY <1>6, BeginStep
<1>7. CASE MarketBasics
  BY <1>7, MarketBasicsStep
<1>8. CASE CollateralSeeds
  BY <1>8, CollateralSeedsStep
<1>9. CASE RewardSeeds
  BY <1>9, RewardSeedsStep
<1>10. CASE Save
  BY <1>10, SaveStep
<1>11. CASE MarketState
  BY <1>11, MarketStateStep
<1>12. CASE Fails
  BY <1>12, FailsStep
<1>13. CASE UNCHANGED vars
  <2>1. /\ UNCHANGED <<comet, past, blocks>>
        /\ runs' = runs /\ pc' = pc /\ count' = count /\ infos' = infos /\ supported' = supported
        /\ baseFeed' = baseFeed /\ answered' = answered
        /\ cached' = cached /\ synced' = synced /\ seen' = seen /\ before' = before /\ basis' = basis
    BY <1>13 DEF vars, command
  <2>2. SyncInv' /\ SeenInv'
    BY <2>1 DEF IInv, SyncInv, SeenInv
  <2>3. /\ runs' \in 0..MaxRuns /\ count' \in 0..Len(listed) /\ infos' \in SUBSET Info
        /\ supported' \in BOOLEAN /\ cached' \in Rows /\ synced' \in BOOLEAN /\ baseFeed' \in Feeds
        /\ answered' \in BOOLEAN
        /\ {before', basis'} \subseteq Configs
        /\ pc' \in Ended \cup {"basics", "assets", "rewards", "save", "batch"}
    BY <2>1 DEF IInv, TypeOK
  <2>4. QED
    BY <2>1, <2>2, <2>3, CommandStep
<1>14. QED
  BY <1>1, <1>2, <1>3, <1>4, <1>5, <1>6, <1>7, <1>8, <1>9, <1>10, <1>11, <1>12, <1>13 DEF Next

\* The sync has read what every provider knew when it began, and what positions
\* has seen is one block at which Comet gave its verdicts.
THEOREM RiskInvariant == Spec => []IInv
<1>1. Init => IInv
  BY InitInv
<1>2. IInv /\ [Next]_vars => IInv'
  BY NextInv
<1>3. QED
  BY <1>1, <1>2, PTL DEF Spec

\* The market, the loan and the rows have the types stated in CometRisk.
THEOREM RiskTypeOK == Spec => []TypeOK
<1>1. IInv => TypeOK
  BY DEF IInv
<1>2. QED
  BY <1>1, RiskInvariant, PTL

\* positions shows debt at the value zero for want of a price only where the base
\* token's feed was replaced since the sync: where Comet itself finds no price, the
\* batch fails with its verdicts.
THEOREM DebtAlwaysPriced == Spec => []DebtIsPriced
<1>1. IInv => DebtIsPriced
  <2> SUFFICES ASSUME IInv, pc = "shown", baseDebt(seen) > 0, cached.feed = seen.rows.feed
               PROVE  seen.price[cached.feed] # 0
    BY DEF DebtIsPriced, lending
  <2>1. Observed(seen) /\ ~ Reverts(seen, "borrow")
    BY DEF IInv, SeenInv
  <2>2. seen.principal < 0
    BY <2>1, DebtFacts
  <2>3. QED
    BY <2>1, <2>2 DEF Reverts
<1>2. QED
  BY <1>1, RiskInvariant, PTL

\* Collateral and rewards that every provider knew of when the sync began that
\* wrote the rows are shown, however the batches of the sync and the events on
\* chain interleave, unless a call for the rewards was not answered.
THEOREM NothingIsHidden == Spec => []NothingHidden
<1>1. IInv => NothingHidden
  <2> SUFFICES ASSUME IInv, pc = "shown"
               PROVE  /\ \A a \in basis.listed :
                           seen.coll[a] > 0 => \E info \in collaterals : info.asset = a
                      /\ seen.owed /\ basis.rewarded /\ basis.answered /\ answered => reward
    BY DEF NothingHidden
  <2>1. /\ \A a \in basis.listed : \E info \in cached.infos : info.asset = a
        /\ basis.rewarded /\ basis.answered => cached.supported
    BY DEF IInv, SyncInv
  <2>2. ASSUME NEW a \in basis.listed, seen.coll[a] > 0
        PROVE  \E info \in collaterals : info.asset = a
    BY <2>1, <2>2 DEF collaterals
  <2>3. QED
    BY <2>1, <2>2 DEF reward
<1>2. QED
  BY <1>1, RiskInvariant, PTL

-----------------------------------------------------------------------------
(* The verdicts. *)

\* A ratio is at least one just when the numerator covers the denominator.
LEMMA RatioFacts ==
  ASSUME NEW n \in Nat, NEW d \in Nat, d # 0
  PROVE  ratioRaw(n, d) >= FactorScale <=> n >= d
<1>1. FactorScale \in Nat /\ FactorScale > 0 /\ d > 0
  BY CometAssumption
<1>2. n * FactorScale \in Nat /\ d * FactorScale \in Nat /\ FactorScale * d = d * FactorScale
  BY <1>1, ProductFacts
<1> DEFINE r == (n * FactorScale) \div d
<1>3. ratioRaw(n, d) = r
  BY DEF ratioRaw
<1>4. r \in Nat /\ r * d <= n * FactorScale
      /\ (FactorScale * d <= n * FactorScale => FactorScale <= r)
  BY <1>1, <1>2, DivFacts
<1> HIDE DEF r
<1>5. ASSUME n >= d
      PROVE  r >= FactorScale
  <2>1. d * FactorScale <= n * FactorScale
    BY <1>1, <1>5, ProductFacts
  <2>2. QED
    BY <1>1, <1>2, <1>4, <2>1
<1>6. ASSUME r >= FactorScale
      PROVE  n >= d
  <2>1. FactorScale * d <= r * d /\ r * d \in Nat /\ FactorScale * d \in Nat
    BY <1>1, <1>4, <1>6, ProductFacts
  <2>2. d * FactorScale <= n * FactorScale
    BY <1>2, <1>4, <2>1
  <2>3. QED
    BY <1>1, <2>2, ProductFacts
<1>7. QED
  BY <1>3, <1>5, <1>6

\* The numbers of a position and its verdicts say the same.
LEMMA VerdictsStep == IInv => VerdictsAgree
<1> SUFFICES ASSUME IInv, pc = "shown", Current
             PROVE  LET healthy == baseDebtValue = 0 \/ health >= FactorScale
                    IN /\ availableBorrow >= 0 => isBorrowCollateralized(seen)
                       /\ isLiquidatable(seen) => ~healthy
                       /\ seen.interest = 0 => /\ isBorrowCollateralized(seen) => availableBorrow >= 0
                                               /\ ~healthy => isLiquidatable(seen)
  BY DEF VerdictsAgree, lending
<1>1. Observed(seen) /\ cached.infos = seen.rows.infos /\ cached.feed = seen.rows.feed
  BY DEF IInv, SeenInv, Current
<1>2. \A which \in {"borrow", "liquidate"} :
        /\ capacity(which) \in Nat
        /\ \A i \in 0..Len(seen.listed) : /\ Capacity(seen, which, i) \in Nat
                                          /\ Capacity(seen, which, i) <= capacity(which)
        /\ Capacity(seen, which, Len(seen.listed)) = capacity(which)
  <2>1. TAKE which \in {"borrow", "liquidate"}
  <2>2. PICK held : held = {info \in seen.rows.infos : seen.coll[info.asset] > 0}
    OBVIOUS
  <2>3. capacity(which) = SumFunctionOnSet(Weight(seen, which), held)
    BY <1>1, <2>2 DEF capacity, Weight, collaterals
  <2>4. QED
    BY <1>1, <2>2, <2>3, CapacityFacts
<1>3. PICK debt \in Nat : debt = baseDebtValue
  BY <1>1, DebtFacts DEF baseDebtValue
<1>4. PICK accrued \in Nat : accrued = StoredDebt(seen)
  BY <1>1, DebtFacts
<1>5. /\ accrued <= debt
      /\ seen.interest = 0 => accrued = debt
      /\ seen.principal >= 0 => debt = 0
      /\ seen.principal \in Int
  BY <1>1, <1>3, <1>4, DebtFacts DEF baseDebtValue, Observed
<1>6. \A which \in {"borrow", "liquidate"} : Covered(seen, which) <=> capacity(which) >= accrued
  <2>1. TAKE which \in {"borrow", "liquidate"}
  <2>2. Len(seen.listed) \in 0..Len(seen.listed)
    BY <1>1 DEF Observed
  <2>3. ASSUME Covered(seen, which)
        PROVE  capacity(which) >= accrued
    <3>1. PICK i \in 0..Len(seen.listed) : Capacity(seen, which, i) >= accrued
      BY <1>4, <2>3 DEF Covered, Covers
    <3>2. /\ Capacity(seen, which, i) \in Nat /\ capacity(which) \in Nat
          /\ Capacity(seen, which, i) <= capacity(which)
      BY <1>2
    <3>3. QED
      BY <3>1, <3>2
  <2>4. ASSUME capacity(which) >= accrued
        PROVE  Covered(seen, which)
    BY <1>2, <1>4, <2>2, <2>4 DEF Covered, Covers
  <2>5. QED
    BY <2>3, <2>4
<1>7. PICK b \in Nat : b = capacity("borrow") /\ (Covered(seen, "borrow") <=> b >= accrued)
  BY <1>2, <1>6
<1>8. PICK l \in Nat : l = capacity("liquidate") /\ (Covered(seen, "liquidate") <=> l >= accrued)
  BY <1>2, <1>6
<1>9. availableBorrow = b - debt
  BY <1>3, <1>7 DEF availableBorrow
<1>10. (baseDebtValue = 0 \/ health >= FactorScale) <=> l >= debt
  <2>1. debt # 0 => (ratioRaw(l, debt) >= FactorScale <=> l >= debt)
    BY RatioFacts
  <2>2. health = ratioRaw(l, debt) /\ baseDebtValue = debt
    BY <1>3, <1>8 DEF health
  <2>3. debt = 0 => l >= debt
    OBVIOUS
  <2>4. QED
    BY <2>1, <2>2, <2>3
<1>11. isBorrowCollateralized(seen) <=> (seen.principal >= 0 \/ b >= accrued)
  BY <1>7 DEF isBorrowCollateralized
<1>12. isLiquidatable(seen) <=> (seen.principal < 0 /\ ~ (l >= accrued))
  BY <1>8 DEF isLiquidatable
<1>13. availableBorrow >= 0 => isBorrowCollateralized(seen)
  BY <1>5, <1>9, <1>11
<1>14. isLiquidatable(seen) => ~ (l >= debt)
  BY <1>5, <1>12
<1>15. ASSUME seen.interest = 0
       PROVE  /\ isBorrowCollateralized(seen) => availableBorrow >= 0
              /\ ~ (l >= debt) => isLiquidatable(seen)
  <2>1. accrued = debt
    BY <1>5, <1>15
  <2>2. isBorrowCollateralized(seen) => b >= debt
    BY <1>5, <1>11, <2>1
  <2>3. ~ (l >= debt) => seen.principal < 0
    BY <1>5
  <2>4. QED
    BY <1>9, <1>12, <2>1, <2>2, <2>3
<1>16. QED
  BY <1>10, <1>13, <1>14, <1>15

\* With current rows the numbers of a loan agree with Comet's verdicts beside
\* them, for any number of assets, any prices and factors, although Comet stops
\* adding up as soon as the debt is covered and works with the debt that was
\* last accrued.
THEOREM NumbersMatchVerdicts == Spec => []VerdictsAgree
<1>1. IInv => VerdictsAgree
  BY VerdictsStep
<1>2. QED
  BY <1>1, RiskInvariant, PTL

-----------------------------------------------------------------------------
(* Aave: the invariant. *)

\* Only what is listed is supplied, borrowed or wrapped.
WellFormed(b) ==
  /\ \A r \in Reserves : b.supply[r] > 0 \/ b.debt[r] > 0 => r \in b.listed
  /\ \A v \in Vaults : IF v \in b.vaults THEN assetOf[v] \in b.listed ELSE b.shares[v] = 0

\* What the wallet did after block m, up to block n, and what it did to its shares,
\* if these are its moves.
Between(made, m, n) == {made[i] : i \in (m + 1)..n}
Compared(made, x, m, y, n) ==
  /\ "redeem" \notin Between(made, m, n) => \A v \in Vaults : x.shares[v] <= y.shares[v]
  /\ "deposit" \notin Between(made, m, n) => \A v \in Vaults : y.shares[v] <= x.shares[v]
Related(made, x, m, y, n) ==
  (m <= n => Compared(made, x, m, y, n)) /\ (n <= m => Compared(made, y, n, x, m))

HistoryInv ==
  /\ WellFormed(chain) /\ WellFormed(older)
  /\ older.listed \subseteq chain.listed /\ older.vaults \subseteq chain.vaults
  /\ moves = <<>> => older = chain
  /\ older # chain => Compared(moves, older, Len(moves) - 1, chain, Len(moves))

\* The sync has read, or will read, what every provider knew when it began.
KnownInv ==
  /\ stage \in {"vaults", "basics", "save"} => known.reserves \subseteq row.reserves
  /\ stage = "vaults" => known.vaults \subseteq older.vaults
  /\ stage \in {"basics", "save"} => known.vaults \subseteq row.vaults
  /\ knownStored.reserves \subseteq stored.reserves
  /\ knownStored.vaults \subseteq stored.vaults

\* The first batch: the block it saw, and how the blocks that may answer the
\* second, or the one that has, are related to it.
MarketInv ==
  (stored.reserves # {} /\ stage \in {"balances", "values", "shown"}) =>
    /\ WellFormed(readAt.market)
    /\ market = AmountsOf(readAt.market)
    /\ readAt.first \in 0..Len(moves)
    /\ stage = "balances" =>
         \A b \in {older, chain} : Related(moves, readAt.market, readAt.first, b, Number(b))
    /\ (stage # "balances" /\ stored.vaults # {}) =>
         /\ readAt.second \in 0..Len(moves)
         /\ Related(moves, readAt.market, readAt.first, readAt.balances, readAt.second)

\* The second batch: every cached vault with shares, once, with its shares.
SharesInv ==
  /\ stage \in {"market", "balances"} => active = <<>>
  /\ (stored.vaults # {} /\ stage \in {"values", "shown"}) =>
       /\ WellFormed(readAt.balances)
       /\ \A i, j \in DOMAIN active : i # j => active[i].vault # active[j].vault
       /\ \A i \in DOMAIN active : active[i].shares = readAt.balances.shares[active[i].vault]
       /\ \A v \in stored.vaults : readAt.balances.shares[v] > 0 =>
            \E i \in DOMAIN active : active[i].vault = v

\* The third: what is shown of a vault with shares, and the results it is from.
Matches(item, position, list) ==
  /\ position.vault = item.vault
  /\ position.shares = item.shares
  /\ position.underlying =
       [vault |-> item.vault, call |-> "previewRedeem", token |-> "", value |-> item.shares]
  /\ \A j \in DOMAIN position.rewards :
       position.rewards[j].token = position.rewards[j].result.token
  /\ {position.rewards[j].result : j \in DOMAIN position.rewards}
       = {c \in ToSet(list) : c.vault = item.vault /\ c.call = "reward" /\ c.value > 0}

PositionsInv ==
  /\ stage \in {"market", "balances", "values"} => positions = <<>>
  /\ stage = "values" => active # <<>> /\ stored.vaults # {}
  /\ stage = "shown" => /\ DOMAIN positions = DOMAIN active
                        /\ \A i \in DOMAIN active : Matches(active[i], positions[i], results)

AaveInv == AaveTypeOK /\ HistoryInv /\ KnownInv /\ MarketInv /\ SharesInv /\ PositionsInv

-----------------------------------------------------------------------------
(* Aave: lists of results. *)

\* A set of natural numbers has a least element.
LEMMA LeastNat ==
  ASSUME NEW T, T \subseteq Nat, T # {}
  PROVE  \E x \in T : \A y \in T : x <= y
<1> DEFINE F == {0..n : n \in T}
<1>1. \A n \in T : n \in Nat /\ 0..n \in FiniteSubsetsOf(Nat)
  BY FS_Interval, SMT DEF FiniteSubsetsOf
<1>2. F \subseteq FiniteSubsetsOf(Nat) /\ F # {}
  BY <1>1
<1>3. \E X \in F : \A Y \in F : ~ (<<Y, X>> \in StrictSubsetOrdering(Nat))
  BY <1>2, WFMin, FS_StrictSubsetOrderingWellFounded
<1>4. PICK n \in T : \A m \in T : ~ (<<0..m, 0..n>> \in StrictSubsetOrdering(Nat))
  BY <1>3
<1>5. ASSUME NEW m \in T, m < n
      PROVE  FALSE
  <2>1. 0..m \subseteq 0..n /\ 0..m # 0..n /\ 0..m \subseteq Nat /\ 0..n \subseteq Nat
    BY <1>5
  <2>2. <<0..m, 0..n>> \in StrictSubsetOrdering(Nat)
    BY <2>1 DEF StrictSubsetOrdering
  <2>3. QED
    BY <2>2, <1>4
<1>6. QED
  BY <1>5

\* A function that joins the first lists of some, one more at a time.
Joins(seqs, n, h) ==
  h = [i \in 1..n |-> IF i = 1 THEN seqs[i] ELSE h[i - 1] \o seqs[i]]

\* There is one for every number of lists.
LEMMA JoinExists ==
  ASSUME NEW seqs, NEW n \in Nat
  PROVE  \E h : Joins(seqs, n, h)
<1> DEFINE F == {m \in Nat : ~ \E h : Joins(seqs, m, h)}
<1>1. SUFFICES ASSUME F # {}
               PROVE  FALSE
  OBVIOUS
<1>2. PICK m \in F : \A k \in F : m <= k
  <2>1. F \subseteq Nat
    OBVIOUS
  <2> HIDE DEF F
  <2>2. QED
    BY <1>1, <2>1, LeastNat
<1>3. CASE m = 0
  <2> DEFINE e == [i \in 1..0 |-> IF i = 1 THEN seqs[i] ELSE seqs]
  <2>1. Joins(seqs, 0, e)
    BY DEF Joins
  <2>2. QED
    BY <2>1, <1>2, <1>3
<1>4. CASE m # 0
  <2>1. m - 1 \in Nat /\ m - 1 < m
    BY <1>4
  <2>2. PICK h : Joins(seqs, m - 1, h)
    BY <2>1, <1>2
  <2> DEFINE k == [i \in 1..m |-> IF i = m THEN (IF i = 1 THEN seqs[i] ELSE h[i - 1] \o seqs[i])
                                  ELSE h[i]]
             o(i) == IF i = 1 THEN seqs[i] ELSE k[i - 1] \o seqs[i]
  <2>3. \A i \in 1..m : k[i] = o(i)
    <3>1. TAKE i \in 1..m
    <3>2. i # 1 => k[i - 1] = h[i - 1]
      BY <1>4
    <3>3. CASE i = m
      BY <3>2, <3>3
    <3>4. CASE i # m
      <4>1. i \in 1..(m - 1)
        BY <3>4
      <4>2. h[i] = IF i = 1 THEN seqs[i] ELSE h[i - 1] \o seqs[i]
        BY <2>2, <4>1 DEF Joins
      <4>3. QED
        BY <3>2, <3>4, <4>2
    <3>5. QED
      BY <3>3, <3>4
  <2>4. k = [i \in 1..m |-> k[i]]
    OBVIOUS
  <2> HIDE DEF k
  <2>5. k = [i \in 1..m |-> o(i)]
    BY <2>3, <2>4, Zenon
  <2>6. Joins(seqs, m, k)
    BY <2>5, Zenon DEF Joins
  <2>7. QED
    BY <2>6, <1>2
<1>5. QED
  BY <1>3, <1>4

\* FlattenSeq returns the last value of such a function.
LEMMA FlattenChosen ==
  ASSUME NEW seqs, Len(seqs) \in Nat, Len(seqs) # 0
  PROVE  \E h : Joins(seqs, Len(seqs), h) /\ FlattenSeq(seqs) = h[Len(seqs)]
<1> DEFINE h == CHOOSE f : Joins(seqs, Len(seqs), f)
<1>1. Joins(seqs, Len(seqs), h)
  BY JoinExists
<1>2. FlattenSeq(seqs) = h[Len(seqs)]
  BY Zenon DEF FlattenSeq, Joins
<1>3. QED
  BY <1>1, <1>2

\* Where each list begins in the joined one, and that there is nothing else in it.
Flattened(seqs, n, first) ==
  /\ first \in [1..(n + 1) -> Nat]
  /\ first[1] = 1
  /\ \A i \in 1..n : first[i + 1] = first[i] + Len(seqs[i])
  /\ \A i \in 1..n : \A k \in 1..Len(seqs[i]) :
       FlattenSeq(seqs)[first[i] + (k - 1)] = seqs[i][k]
  /\ ToSet(FlattenSeq(seqs)) = UNION {ToSet(seqs[i]) : i \in 1..n}

\* There are such places.
LEMMA FlattenFacts ==
  ASSUME NEW T, NEW n \in Nat, n # 0, NEW seqs \in [1..n -> Seq(T)]
  PROVE  \E first : Flattened(seqs, n, first)
<1>1. DOMAIN seqs = 1..n /\ Len(seqs) = n
  OBVIOUS
<1>2. PICK h : Joins(seqs, n, h) /\ FlattenSeq(seqs) = h[n]
  BY <1>1, FlattenChosen
<1>3. \A i \in 1..n : h[i] = IF i = 1 THEN seqs[i] ELSE h[i - 1] \o seqs[i]
  BY <1>2 DEF Joins
<1> DEFINE Whole(i) == /\ h[i] \in Seq(T)
                       /\ ToSet(h[i]) = UNION {ToSet(seqs[j]) : j \in 1..i}
                       /\ \A j \in 1..i : Len(h[j]) <= Len(h[i])
                       /\ \A j \in 1..i : \A m \in 1..Len(h[j]) : h[i][m] = h[j][m]
           F == {i \in 1..n : ~ Whole(i)}
<1>4. \A i \in 1..n : Whole(i)
  <2>1. SUFFICES ASSUME F # {}
                 PROVE  FALSE
    OBVIOUS
  <2>2. PICK i \in F : \A j \in F : i <= j
    <3>1. F \subseteq Nat
      OBVIOUS
    <3> HIDE DEF F
    <3>2. QED
      BY <2>1, <3>1, LeastNat
  <2> HIDE DEF Whole
  <2>0. i \in 1..n /\ ~ Whole(i) /\ \A j \in 1..n : j < i => Whole(j)
    BY <2>2
  <2>3. CASE i = 1
    <3>1. h[i] = seqs[1] /\ seqs[1] \in Seq(T)
      BY <1>3, <2>3
    <3>2. {ToSet(seqs[j]) : j \in 1..1} = {ToSet(seqs[1])}
      OBVIOUS
    <3>3. Whole(i)
      BY <2>3, <3>1, <3>2 DEF Whole
    <3>4. QED
      BY <2>0, <3>3
  <2>4. CASE i # 1
    <3>1. i - 1 \in 1..n /\ i - 1 < i
      BY <2>4
    <3>2. Whole(i - 1)
      BY <2>0, <3>1
    <3>3. h[i] = h[i - 1] \o seqs[i] /\ seqs[i] \in Seq(T)
      BY <1>3, <2>4
    <3> DEFINE g == h[i - 1]
               s == seqs[i]
    <3>4. g \in Seq(T) /\ s \in Seq(T) /\ h[i] = g \o s
      BY <3>2, <3>3 DEF Whole
    <3>5. /\ h[i] \in Seq(T) /\ Len(h[i]) = Len(g) + Len(s)
          /\ \A m \in 1..Len(g) : h[i][m] = g[m]
          /\ \A m \in 1..Len(s) : h[i][Len(g) + m] = s[m]
      <4> HIDE DEF g, s
      <4>1. QED
        BY <3>4
    <3>6. ToSet(h[i]) = ToSet(g) \cup ToSet(s)
      <4> HIDE DEF g, s
      <4>1. /\ DOMAIN h[i] = 1..(Len(g) + Len(s)) /\ DOMAIN g = 1..Len(g) /\ DOMAIN s = 1..Len(s)
            /\ Len(g) \in Nat /\ Len(s) \in Nat
        BY <3>4, <3>5
      <4>2. ASSUME NEW x \in ToSet(h[i])
            PROVE  x \in ToSet(g) \cup ToSet(s)
        <5>1. PICK m \in 1..(Len(g) + Len(s)) : x = h[i][m]
          BY <4>1, <4>2 DEF ToSet
        <5>2. CASE m <= Len(g)
          <6>1. m \in 1..Len(g)
            BY <4>1, <5>1, <5>2
          <6>2. x = g[m] /\ m \in DOMAIN g
            BY <3>5, <4>1, <5>1, <6>1
          <6>3. QED
            BY <6>2 DEF ToSet
        <5>3. CASE m > Len(g)
          <6>1. m - Len(g) \in 1..Len(s) /\ m = Len(g) + (m - Len(g))
            BY <4>1, <5>3
          <6>2. x = s[m - Len(g)]
            BY <3>5, <5>1, <6>1
          <6>3. QED
            BY <4>1, <6>1, <6>2 DEF ToSet
        <5>4. QED
          BY <4>1, <5>2, <5>3
      <4>3. ASSUME NEW m \in 1..Len(g)
            PROVE  g[m] \in ToSet(h[i])
        <5>1. m \in 1..(Len(g) + Len(s)) /\ h[i][m] = g[m]
          BY <3>5, <4>1
        <5>2. QED
          BY <4>1, <5>1 DEF ToSet
      <4>4. ASSUME NEW m \in 1..Len(s)
            PROVE  s[m] \in ToSet(h[i])
        <5>1. Len(g) + m \in 1..(Len(g) + Len(s)) /\ h[i][Len(g) + m] = s[m]
          BY <3>5, <4>1
        <5>2. QED
          BY <4>1, <5>1 DEF ToSet
      <4>5. QED
        BY <4>1, <4>2, <4>3, <4>4 DEF ToSet
    <3>7. UNION {ToSet(seqs[j]) : j \in 1..i}
            = (UNION {ToSet(seqs[j]) : j \in 1..(i - 1)}) \cup ToSet(s)
      <4>1. \A j : j \in 1..i <=> j \in 1..(i - 1) \/ j = i
        BY <3>1
      <4>2. QED
        BY <4>1
    <3>8. ASSUME NEW j \in 1..i
          PROVE  Len(h[j]) <= Len(h[i]) /\ \A m \in 1..Len(h[j]) : h[i][m] = h[j][m]
      <4>0. Len(h[i]) \in Nat /\ i \in Nat
        BY <2>0, <3>5
      <4>1. CASE j = i
        BY <4>0, <4>1
      <4>2. CASE j # i
        <5>1. j \in 1..(i - 1)
          BY <3>1, <4>0, <4>2
        <5>2. Len(h[j]) <= Len(g) /\ \A m \in 1..Len(h[j]) : g[m] = h[j][m]
          BY <3>2, <5>1 DEF Whole
        <5>3. Len(g) \in Nat /\ Len(s) \in Nat
          BY <3>4
        <5>4. j \in 1..n /\ j < i
          BY <3>1, <4>0, <5>1
        <5>5. Whole(j)
          BY <2>0, <5>4
        <5>6. Len(h[j]) \in Nat
          BY <5>5 DEF Whole
        <5>7. \A m \in 1..Len(h[j]) : m \in 1..Len(g)
          BY <5>2, <5>3, <5>6
        <5> HIDE DEF g, s
        <5>8. QED
          BY <3>5, <5>2, <5>3, <5>6, <5>7
      <4>3. QED
        BY <4>1, <4>2
    <3>9. Whole(i)
      BY <3>2, <3>5, <3>6, <3>7, <3>8 DEF Whole
    <3>10. QED
      BY <2>0, <3>9
  <2>5. QED
    BY <2>3, <2>4
<1>5. \A i \in 1..n : Len(h[i]) \in Nat
  BY <1>4
<1> DEFINE first == [i \in 1..(n + 1) |-> IF i = 1 THEN 1 ELSE Len(h[i - 1]) + 1]
<1>6. first \in [1..(n + 1) -> Nat] /\ first[1] = 1
  <2>1. \A i \in 1..(n + 1) : i # 1 => i - 1 \in 1..n
    OBVIOUS
  <2>2. QED
    BY <1>5, <2>1
<1>7. ASSUME NEW i \in 1..n
      PROVE  /\ first[i + 1] = first[i] + Len(seqs[i])
             /\ \A k \in 1..Len(seqs[i]) :
                  /\ h[i][first[i] + (k - 1)] = seqs[i][k]
                  /\ first[i] + (k - 1) \in 1..Len(h[i])
  <2>1. i + 1 \in 1..(n + 1) /\ i + 1 # 1 /\ (i + 1) - 1 = i
    OBVIOUS
  <2>2. first[i + 1] = Len(h[i]) + 1
    BY <2>1
  <2>3. seqs[i] \in Seq(T) /\ Len(seqs[i]) \in Nat
    OBVIOUS
  <2>4. CASE i = 1
    <3>1. h[i] = seqs[i] /\ first[i] = 1
      BY <1>3, <2>4
    <3>2. Len(h[i]) = Len(seqs[i]) /\ h[i] = seqs[i]
      BY <3>1
    <3> HIDE DEF first
    <3>3. \A k \in 1..Len(seqs[i]) : first[i] + (k - 1) = k
      BY <2>3, <3>1
    <3>4. first[i + 1] = first[i] + Len(seqs[i])
      BY <2>2, <2>3, <3>1, <3>2
    <3>5. QED
      BY <3>2, <3>3, <3>4
  <2>5. CASE i # 1
    <3>1. i - 1 \in 1..n
      BY <2>5
    <3>2. h[i] = h[i - 1] \o seqs[i] /\ h[i - 1] \in Seq(T)
      BY <1>3, <1>4, <2>5, <3>1
    <3>3. first[i] = Len(h[i - 1]) + 1 /\ Len(h[i - 1]) \in Nat
      BY <1>5, <2>5, <3>1
    <3> DEFINE g == h[i - 1]
               s == seqs[i]
    <3> HIDE DEF first, g, s
    <3>4. g \in Seq(T) /\ s \in Seq(T) /\ h[i] = g \o s /\ first[i] = Len(g) + 1
      BY <2>3, <3>2, <3>3 DEF g, s
    <3>5. /\ Len(h[i]) = Len(g) + Len(s) /\ Len(g) \in Nat /\ Len(s) \in Nat
          /\ \A m \in 1..Len(s) : h[i][Len(g) + m] = s[m]
      BY <3>4
    <3>6. \A k \in 1..Len(s) : first[i] + (k - 1) = Len(g) + k /\ Len(g) + k \in 1..Len(h[i])
      BY <3>4, <3>5
    <3>7. first[i + 1] = first[i] + Len(s)
      BY <2>2, <3>4, <3>5
    <3>8. QED
      BY <3>5, <3>6, <3>7 DEF s
  <2>6. QED
    BY <2>4, <2>5
<1>8. ASSUME NEW i \in 1..n, NEW k \in 1..Len(seqs[i])
      PROVE  h[n][first[i] + (k - 1)] = seqs[i][k]
  <2>1. n \in 1..n
    OBVIOUS
  <2>2. Whole(n)
    BY <1>4, <2>1
  <2> HIDE DEF first
  <2>3. \A m \in 1..Len(h[i]) : h[n][m] = h[i][m]
    BY <2>2
  <2>4. QED
    BY <1>7, <2>3
<1>9. ToSet(h[n]) = UNION {ToSet(seqs[i]) : i \in 1..n}
  <2>1. n \in 1..n
    OBVIOUS
  <2>2. QED
    BY <1>4, <2>1
<1> HIDE DEF first
<1> DEFINE all == FlattenSeq(seqs)
<1>10. all = h[n]
  BY <1>2
<1> HIDE DEF all
<1>11. Flattened(seqs, n, first)
  <2>1. /\ \A i \in 1..n : \A k \in 1..Len(seqs[i]) : all[first[i] + (k - 1)] = seqs[i][k]
        /\ ToSet(all) = UNION {ToSet(seqs[i]) : i \in 1..n}
    BY <1>8, <1>9, <1>10
  <2>2. \A i \in 1..n : first[i + 1] = first[i] + Len(seqs[i])
    BY <1>7
  <2>3. QED
    BY <1>6, <2>1, <2>2 DEF Flattened, all
<1>12. QED
  BY <1>11

-----------------------------------------------------------------------------
(* Aave: the walk over the results. *)

\* The greatest of some numbers up to n that include it is n.
LEMMA GreatestOf ==
  ASSUME NEW n \in Nat, NEW S \in SUBSET (1..n), n \in S
  PROVE  Max(S) = n
<1>1. \A y \in S : n >= y
  OBVIOUS
<1>2. Max(S) \in S /\ \A y \in S : Max(S) >= y
  BY <1>1 DEF Max
<1>3. Max(S) \in 1..n
  BY <1>2
<1>4. QED
  BY <1>2, <1>3

\* A function that walks over every subset of some reward tokens, the last one
\* last.
WalksRewards(list, origin, toks, n, h) ==
  h = [s \in SUBSET (1..n) |->
         IF s = {} THEN origin ELSE WalkReward(list, h[s \ {Max(s)}], toks[Max(s)])]

\* There is one for every number of tokens.
LEMMA RewardsExists ==
  ASSUME NEW list, NEW origin, NEW toks, NEW n \in Nat
  PROVE  \E h : WalksRewards(list, origin, toks, n, h)
<1> DEFINE F == {m \in Nat : ~ \E h : WalksRewards(list, origin, toks, m, h)}
<1>1. SUFFICES ASSUME F # {}
               PROVE  FALSE
  OBVIOUS
<1>2. PICK m \in F : \A k \in F : m <= k
  <2>1. F \subseteq Nat
    OBVIOUS
  <2> HIDE DEF F
  <2>2. QED
    BY <1>1, <2>1, LeastNat
<1>3. CASE m = 0
  <2> DEFINE e == [s \in SUBSET (1..0) |-> origin]
  <2>1. \A s \in SUBSET (1..0) : s = {}
    OBVIOUS
  <2>2. e = [s \in SUBSET (1..0) |->
               IF s = {} THEN origin ELSE WalkReward(list, e[s \ {Max(s)}], toks[Max(s)])]
    BY <2>1
  <2> HIDE DEF e
  <2>3. WalksRewards(list, origin, toks, 0, e)
    BY <2>2, Zenon DEF WalksRewards
  <2>4. QED
    BY <2>3, <1>2, <1>3
<1>4. CASE m # 0
  <2>1. m - 1 \in Nat /\ m - 1 < m
    BY <1>4
  <2>2. PICK h : WalksRewards(list, origin, toks, m - 1, h)
    BY <2>1, <1>2
  <2>3. \A s \in SUBSET (1..(m - 1)) :
          h[s] = IF s = {} THEN origin ELSE WalkReward(list, h[s \ {Max(s)}], toks[Max(s)])
    BY <2>2 DEF WalksRewards
  <2> DEFINE k == [s \in SUBSET (1..m) |->
                     IF m \in s THEN WalkReward(list, h[s \ {m}], toks[m]) ELSE h[s]]
             o(s) == IF s = {} THEN origin ELSE WalkReward(list, k[s \ {Max(s)}], toks[Max(s)])
  <2>4. ASSUME NEW s \in SUBSET (1..m)
        PROVE  k[s] = o(s)
    <3>1. \A t \in SUBSET (1..m) : m \notin t => t \in SUBSET (1..(m - 1)) /\ k[t] = h[t]
      BY <1>4
    <3>2. CASE m \in s
      <4>1. Max(s) = m
        BY <3>2, GreatestOf
      <4>2. s \ {m} \in SUBSET (1..m) /\ m \notin s \ {m} /\ s # {}
        BY <3>2
      <4>3. k[s \ {m}] = h[s \ {m}]
        BY <3>1, <4>2
      <4>4. k[s] = WalkReward(list, h[s \ {m}], toks[m])
        BY <3>2
      <4> HIDE DEF k
      <4>5. QED
        BY <4>1, <4>2, <4>3, <4>4
    <3>3. CASE m \notin s
      <4>1. s \in SUBSET (1..(m - 1)) /\ k[s] = h[s]
        BY <3>1, <3>3
      <4>2. s \ {Max(s)} \in SUBSET (1..m) /\ m \notin s \ {Max(s)}
        BY <3>3
      <4>3. k[s \ {Max(s)}] = h[s \ {Max(s)}]
        BY <3>1, <4>2
      <4> HIDE DEF k
      <4>4. QED
        BY <2>3, <4>1, <4>3
    <3>4. QED
      BY <3>2, <3>3
  <2>5. k = [s \in SUBSET (1..m) |-> k[s]]
    OBVIOUS
  <2> HIDE DEF k
  <2>6. k = [s \in SUBSET (1..m) |-> o(s)]
    BY <2>4, <2>5, Zenon
  <2>7. WalksRewards(list, origin, toks, m, k)
    BY <2>6, Zenon DEF WalksRewards
  <2>8. QED
    BY <2>7, <1>2
<1>5. QED
  BY <1>3, <1>4

\* The walk over the reward tokens of a vault, token by token.
RewardsWalked(list, origin, toks) == FoldLeft(LAMBDA a, t : WalkReward(list, a, t), origin, toks)
RewardsSteps(list, origin, toks, n, run) ==
  /\ run[0] = origin
  /\ \A j \in 1..n : run[j] = WalkReward(list, run[j - 1], toks[j])
  /\ RewardsWalked(list, origin, toks) = run[n]

\* It takes one step per token.
LEMMA RewardsRun ==
  ASSUME NEW list, NEW origin, NEW toks, NEW n \in Nat, DOMAIN toks = 1..n
  PROVE  \E run : RewardsSteps(list, origin, toks, n, run)
<1> DEFINE h == CHOOSE f : WalksRewards(list, origin, toks, n, f)
           run == [j \in 0..n |-> h[1..j]]
<1>1. WalksRewards(list, origin, toks, n, h)
  BY RewardsExists
<1>2. RewardsWalked(list, origin, toks) = h[1..n]
  BY Zenon DEF RewardsWalked, FoldLeft, MapThenFoldSet, WalksRewards
<1> HIDE DEF h
<1>3. \A s \in SUBSET (1..n) :
        h[s] = IF s = {} THEN origin ELSE WalkReward(list, h[s \ {Max(s)}], toks[Max(s)])
  BY <1>1 DEF WalksRewards
<1>4. run[0] = origin
  <2>1. 1..0 = {} /\ 0 \in 0..n
    OBVIOUS
  <2>2. QED
    BY <1>3, <2>1
<1>5. ASSUME NEW j \in 1..n
      PROVE  run[j] = WalkReward(list, run[j - 1], toks[j])
  <2>1. /\ 1..j \in SUBSET (1..n) /\ j \in 1..j
        /\ (1..j) \ {j} = 1..(j - 1) /\ j \in 0..n /\ j - 1 \in 0..n
    OBVIOUS
  <2>2. Max(1..j) = j
    BY <2>1, GreatestOf
  <2>3. h[1..j] = WalkReward(list, h[1..(j - 1)], toks[j])
    BY <1>3, <2>1, <2>2
  <2>4. QED
    BY <2>1, <2>3
<1>6. run[n] = h[1..n]
  OBVIOUS
<1> HIDE DEF run
<1>7. QED
  BY <1>2, <1>4, <1>5, <1>6 DEF RewardsSteps

\* The same over vaults.
WalksVaults(list, origin, items, n, h) ==
  h = [s \in SUBSET (1..n) |->
         IF s = {} THEN origin ELSE WalkVault(list, h[s \ {Max(s)}], items[Max(s)])]

\* There is one for every number of vaults.
LEMMA VaultsExists ==
  ASSUME NEW list, NEW origin, NEW items, NEW n \in Nat
  PROVE  \E h : WalksVaults(list, origin, items, n, h)
<1> DEFINE F == {m \in Nat : ~ \E h : WalksVaults(list, origin, items, m, h)}
<1>1. SUFFICES ASSUME F # {}
               PROVE  FALSE
  OBVIOUS
<1>2. PICK m \in F : \A k \in F : m <= k
  <2>1. F \subseteq Nat
    OBVIOUS
  <2> HIDE DEF F
  <2>2. QED
    BY <1>1, <2>1, LeastNat
<1>3. CASE m = 0
  <2> DEFINE e == [s \in SUBSET (1..0) |-> origin]
  <2>1. \A s \in SUBSET (1..0) : s = {}
    OBVIOUS
  <2>2. e = [s \in SUBSET (1..0) |->
               IF s = {} THEN origin ELSE WalkVault(list, e[s \ {Max(s)}], items[Max(s)])]
    BY <2>1
  <2> HIDE DEF e
  <2>3. WalksVaults(list, origin, items, 0, e)
    BY <2>2, Zenon DEF WalksVaults
  <2>4. QED
    BY <2>3, <1>2, <1>3
<1>4. CASE m # 0
  <2>1. m - 1 \in Nat /\ m - 1 < m
    BY <1>4
  <2>2. PICK h : WalksVaults(list, origin, items, m - 1, h)
    BY <2>1, <1>2
  <2>3. \A s \in SUBSET (1..(m - 1)) :
          h[s] = IF s = {} THEN origin ELSE WalkVault(list, h[s \ {Max(s)}], items[Max(s)])
    BY <2>2 DEF WalksVaults
  <2> DEFINE k == [s \in SUBSET (1..m) |->
                     IF m \in s THEN WalkVault(list, h[s \ {m}], items[m]) ELSE h[s]]
             o(s) == IF s = {} THEN origin ELSE WalkVault(list, k[s \ {Max(s)}], items[Max(s)])
  <2>4. ASSUME NEW s \in SUBSET (1..m)
        PROVE  k[s] = o(s)
    <3>1. \A t \in SUBSET (1..m) : m \notin t => t \in SUBSET (1..(m - 1)) /\ k[t] = h[t]
      BY <1>4
    <3>2. CASE m \in s
      <4>1. Max(s) = m
        BY <3>2, GreatestOf
      <4>2. s \ {m} \in SUBSET (1..m) /\ m \notin s \ {m} /\ s # {}
        BY <3>2
      <4>3. k[s \ {m}] = h[s \ {m}]
        BY <3>1, <4>2
      <4>4. k[s] = WalkVault(list, h[s \ {m}], items[m])
        BY <3>2
      <4> HIDE DEF k
      <4>5. QED
        BY <4>1, <4>2, <4>3, <4>4
    <3>3. CASE m \notin s
      <4>1. s \in SUBSET (1..(m - 1)) /\ k[s] = h[s]
        BY <3>1, <3>3
      <4>2. s \ {Max(s)} \in SUBSET (1..m) /\ m \notin s \ {Max(s)}
        BY <3>3
      <4>3. k[s \ {Max(s)}] = h[s \ {Max(s)}]
        BY <3>1, <4>2
      <4> HIDE DEF k
      <4>4. QED
        BY <2>3, <4>1, <4>3
    <3>4. QED
      BY <3>2, <3>3
  <2>5. k = [s \in SUBSET (1..m) |-> k[s]]
    OBVIOUS
  <2> HIDE DEF k
  <2>6. k = [s \in SUBSET (1..m) |-> o(s)]
    BY <2>4, <2>5, Zenon
  <2>7. WalksVaults(list, origin, items, m, k)
    BY <2>6, Zenon DEF WalksVaults
  <2>8. QED
    BY <2>7, <1>2
<1>5. QED
  BY <1>3, <1>4

\* The walk over the vaults, vault by vault.
VaultsWalked(list, origin, items) == FoldLeft(LAMBDA a, item : WalkVault(list, a, item), origin, items)
VaultsSteps(list, origin, items, n, run) ==
  /\ run[0] = origin
  /\ \A j \in 1..n : run[j] = WalkVault(list, run[j - 1], items[j])
  /\ VaultsWalked(list, origin, items) = run[n]

\* It takes one step per vault.
LEMMA VaultsRun ==
  ASSUME NEW list, NEW origin, NEW items, NEW n \in Nat, DOMAIN items = 1..n
  PROVE  \E run : VaultsSteps(list, origin, items, n, run)
<1> DEFINE h == CHOOSE f : WalksVaults(list, origin, items, n, f)
           run == [j \in 0..n |-> h[1..j]]
<1>1. WalksVaults(list, origin, items, n, h)
  BY VaultsExists
<1>2. VaultsWalked(list, origin, items) = h[1..n]
  BY Zenon DEF VaultsWalked, FoldLeft, MapThenFoldSet, WalksVaults
<1> HIDE DEF h
<1>3. \A s \in SUBSET (1..n) :
        h[s] = IF s = {} THEN origin ELSE WalkVault(list, h[s \ {Max(s)}], items[Max(s)])
  BY <1>1 DEF WalksVaults
<1>4. run[0] = origin
  <2>1. 1..0 = {} /\ 0 \in 0..n
    OBVIOUS
  <2>2. QED
    BY <1>3, <2>1
<1>5. ASSUME NEW j \in 1..n
      PROVE  run[j] = WalkVault(list, run[j - 1], items[j])
  <2>1. /\ 1..j \in SUBSET (1..n) /\ j \in 1..j
        /\ (1..j) \ {j} = 1..(j - 1) /\ j \in 0..n /\ j - 1 \in 0..n
    OBVIOUS
  <2>2. Max(1..j) = j
    BY <2>1, GreatestOf
  <2>3. h[1..j] = WalkVault(list, h[1..(j - 1)], items[j])
    BY <1>3, <2>1, <2>2
  <2>4. QED
    BY <2>1, <2>3
<1>6. run[n] = h[1..n]
  OBVIOUS
<1> HIDE DEF run
<1>7. QED
  BY <1>2, <1>4, <1>5, <1>6 DEF VaultsSteps

\* Induction over the numbers up to n.
LEMMA UpTo ==
  ASSUME NEW n \in Nat, NEW S, 0 \in S, \A j \in 1..n : j - 1 \in S => j \in S
  PROVE  \A j \in 0..n : j \in S
<1> DEFINE F == {j \in 0..n : j \notin S}
<1>1. SUFFICES ASSUME F # {}
               PROVE  FALSE
  OBVIOUS
<1>2. PICK m \in F : \A k \in F : m <= k
  <2>1. F \subseteq Nat
    OBVIOUS
  <2> HIDE DEF F
  <2>2. QED
    BY <1>1, <2>1, LeastNat
<1>3. m \in 1..n /\ m - 1 \in 0..n /\ ~ (m <= m - 1)
  BY <1>2
<1>4. m - 1 \in S
  BY <1>2, <1>3
<1>5. QED
  BY <1>2, <1>3, <1>4

\* Two lists joined.
LEMMA JoinedLists ==
  ASSUME NEW T, NEW g \in Seq(T), NEW s \in Seq(T)
  PROVE  /\ g \o s \in Seq(T) /\ Len(g \o s) = Len(g) + Len(s)
         /\ \A m \in 1..Len(g) : (g \o s)[m] = g[m]
         /\ \A m \in 1..Len(s) : (g \o s)[Len(g) + m] = s[m]
OBVIOUS

\* What a call returns, and what is shown of a claim.
Result == [vault : Vaults, call : {"previewRedeem", "maxWithdraw", "maxRedeem", "reward"},
           token : Tokens \cup {""}, value : Nat]
Claim == [token : Tokens, result : Result]

\* What the calls for one vault return.
Returned(item, toks, s) ==
  /\ s \in Seq(Result)
  /\ Len(s) = 3 + Len(toks)
  /\ s[1] = [vault |-> item.vault, call |-> "previewRedeem", token |-> "", value |-> item.shares]
  /\ \A k \in 1..Len(s) : s[k].vault = item.vault /\ (s[k].call = "reward" => k > 3)
  /\ \A j \in 1..Len(toks) : s[3 + j].call = "reward" /\ s[3 + j].token = toks[j]

\* They return it at every block.
LEMMA ValuesFacts ==
  ASSUME stored \in AaveRows, NEW item \in Item, NEW at \in Blocks
  PROVE  Returned(item, stored.rewards[item.vault], Values(item, at))
<1> DEFINE v == item.vault
           toks == stored.rewards[v]
           can == IF at.liquid THEN at.shares[v] ELSE 0
           claimable(t) == IF at.claim[v][t] THEN 1 ELSE 0
           head == <<[vault |-> v, call |-> "previewRedeem", token |-> "", value |-> item.shares],
                     [vault |-> v, call |-> "maxWithdraw", token |-> "", value |-> can],
                     [vault |-> v, call |-> "maxRedeem", token |-> "", value |-> can]>>
           tail == [i \in DOMAIN toks |-> [vault |-> v, call |-> "reward", token |-> toks[i],
                                           value |-> claimable(toks[i])]]
<1>1. Values(item, at) = head \o tail
  BY DEF Values
<1>2. v \in Vaults /\ item.shares \in Nat /\ toks \in Seq(Tokens) /\ can \in Nat
  BY DEF Item, Blocks, AaveRows
<1>3. \A t \in Tokens : claimable(t) \in Nat
  OBVIOUS
<1>4. \A i \in DOMAIN toks : toks[i] \in Tokens
  BY <1>2
<1> HIDE DEF v, toks, can, claimable
<1>5. /\ head \in Seq(Result) /\ Len(head) = 3
      /\ head[1] = [vault |-> v, call |-> "previewRedeem", token |-> "", value |-> item.shares]
      /\ \A k \in 1..3 : head[k].vault = v /\ head[k].call # "reward"
  <2>1. \A k \in 1..3 : k = 1 \/ k = 2 \/ k = 3
    OBVIOUS
  <2>2. head[1] \in Result /\ head[2] \in Result /\ head[3] \in Result
    BY <1>2 DEF Result
  <2>3. head \in Seq(Result) /\ Len(head) = 3
    <3>1. Len(head) = 3 /\ DOMAIN head = 1..3
      OBVIOUS
    <3>2. head = <<head[1], head[2], head[3]>>
      OBVIOUS
    <3> HIDE DEF head
    <3>3. <<head[1], head[2], head[3]>> \in Seq(Result)
      BY <2>2
    <3>4. QED
      BY <3>1, <3>2, <3>3
  <2>4. /\ head[1].vault = v /\ head[2].vault = v /\ head[3].vault = v
        /\ head[1].call # "reward" /\ head[2].call # "reward" /\ head[3].call # "reward"
        /\ head[1] = [vault |-> v, call |-> "previewRedeem", token |-> "", value |-> item.shares]
    OBVIOUS
  <2> HIDE DEF head
  <2>5. QED
    BY <2>1, <2>3, <2>4
<1>6. \A i \in DOMAIN toks : tail[i] \in Result
  BY <1>2, <1>3, <1>4 DEF Result
<1>7. DOMAIN toks = 1..Len(toks) /\ Len(toks) \in Nat
  BY <1>2
<1>8. tail \in Seq(Result) /\ Len(tail) = Len(toks)
  BY <1>6, <1>7
<1>9. \A j \in 1..Len(toks) : /\ tail[j].vault = v /\ tail[j].call = "reward"
                              /\ tail[j].token = toks[j]
  BY <1>7
<1> HIDE DEF head, tail
<1> DEFINE s == Values(item, at)
<1>10. /\ s \in Seq(Result) /\ Len(s) = 3 + Len(toks)
       /\ \A k \in 1..3 : s[k] = head[k]
       /\ \A j \in 1..Len(toks) : s[3 + j] = tail[j]
  <2>1. s = head \o tail
    BY <1>1
  <2>2. head \in Seq(Result) /\ tail \in Seq(Result) /\ Len(head) = 3 /\ Len(tail) \in Nat
    BY <1>5, <1>7, <1>8
  <2> HIDE DEF s
  <2>3. /\ s \in Seq(Result) /\ Len(s) = Len(head) + Len(tail)
        /\ \A k \in 1..Len(head) : s[k] = head[k]
        /\ \A j \in 1..Len(tail) : s[Len(head) + j] = tail[j]
    <3>1. head \in Seq(Result) /\ tail \in Seq(Result)
      BY <2>2
    <3>2. head \o tail \in Seq(Result)
      BY <3>1, JoinedLists
    <3>3. Len(head \o tail) = Len(head) + Len(tail)
      BY <3>1, JoinedLists
    <3>4. \A k \in 1..Len(head) : (head \o tail)[k] = head[k]
      BY <3>1, JoinedLists
    <3>5. \A j \in 1..Len(tail) : (head \o tail)[Len(head) + j] = tail[j]
      BY <3>1, JoinedLists
    <3>6. QED
      BY <2>1, <3>2, <3>3, <3>4, <3>5
  <2>4. QED
    BY <2>2, <2>3, <1>8
<1> HIDE DEF s
<1>11. ASSUME NEW k \in 1..Len(s)
       PROVE  s[k].vault = v /\ (s[k].call = "reward" => k > 3)
  <2>1. CASE k <= 3
    <3>1. k \in 1..3
      BY <2>1
    <3>2. QED
      BY <1>5, <1>10, <3>1
  <2>2. CASE k > 3
    <3>1. k - 3 \in 1..Len(toks) /\ k = 3 + (k - 3)
      BY <1>7, <1>10, <2>2
    <3>2. s[k] = tail[k - 3]
      BY <1>10, <3>1
    <3>3. QED
      BY <1>9, <2>2, <3>1, <3>2
  <2>3. k \in Nat
    BY <1>7, <1>10
  <2>4. QED
    BY <2>1, <2>2, <2>3
<1>12. \A j \in 1..Len(toks) : s[3 + j].call = "reward" /\ s[3 + j].token = toks[j]
  BY <1>9, <1>10
<1>13. s[1] = [vault |-> v, call |-> "previewRedeem", token |-> "", value |-> item.shares]
  <2>1. 1 \in 1..3
    OBVIOUS
  <2>2. QED
    BY <1>5, <1>10, <2>1
<1>14. QED
  BY <1>10, <1>11, <1>12, <1>13 DEF s, v, toks, Returned

\* What is shown of the claims: those above zero with the token they are of.
ClaimsShown(list, start, toks, claims) ==
  /\ claims.next = start + Len(toks)
  /\ claims.shown \in Seq(Claim)
  /\ \A k \in DOMAIN claims.shown : claims.shown[k].token = claims.shown[k].result.token
  /\ {claims.shown[k].result : k \in DOMAIN claims.shown}
       = {list[start + (j - 1)] : j \in {i \in 1..Len(toks) : list[start + (i - 1)].value > 0}}

\* The walk over the claims of a vault takes one result per reward token.
LEMMA RewardsShown ==
  ASSUME NEW list, NEW start \in Nat, NEW toks \in Seq(Tokens),
         \A j \in 1..Len(toks) : /\ list[start + (j - 1)] \in Result
                                 /\ list[start + (j - 1)].token = toks[j]
  PROVE  ClaimsShown(list, start, toks, RewardsWalked(list, [next |-> start, shown |-> <<>>], toks))
<1> DEFINE n == Len(toks)
           origin == [next |-> start, shown |-> <<>>]
           at(j) == list[start + (j - 1)]
           Above(j) == {i \in 1..j : at(i).value > 0}
<1>1. n \in Nat /\ DOMAIN toks = 1..n
  OBVIOUS
<1>2. PICK run : RewardsSteps(list, origin, toks, n, run)
  <2> HIDE DEF n, origin
  <2>1. QED
    BY <1>1, RewardsRun
<1>2a. /\ run[0] = origin
      /\ \A j \in 1..n : run[j] = WalkReward(list, run[j - 1], toks[j])
      /\ RewardsWalked(list, origin, toks) = run[n]
  BY <1>2 DEF RewardsSteps
<1> DEFINE Walked(j) ==
             /\ run[j].next = start + j
             /\ run[j].shown \in Seq(Claim)
             /\ \A k \in DOMAIN run[j].shown : run[j].shown[k].token = run[j].shown[k].result.token
             /\ {run[j].shown[k].result : k \in DOMAIN run[j].shown} = {at(i) : i \in Above(j)}
           S == {j \in 0..n : Walked(j)}
<1>3. 0 \in S
  <2>1. Above(0) = {}
    OBVIOUS
  <2>2. run[0].next = start /\ run[0].shown = <<>>
    BY <1>2a
  <2>3. {run[0].shown[k].result : k \in DOMAIN run[0].shown} = {}
    BY <2>2
  <2>4. QED
    <3>1. run[0].next = start + 0
      BY <2>2
    <3>2. run[0].shown \in Seq(Claim) /\ DOMAIN run[0].shown = {}
      BY <2>2
    <3>3. {run[0].shown[k].result : k \in DOMAIN run[0].shown} = {at(i) : i \in Above(0)}
      BY <2>1, <2>3
    <3>4. QED
      BY <1>1, <3>1, <3>2, <3>3
<1>4. ASSUME NEW j \in 1..n, j - 1 \in S
      PROVE  j \in S
  <2> DEFINE r == run[j - 1]
  <2>1. Walked(j - 1)
    BY <1>4
  <2>2. r.next = start + (j - 1)
    BY <2>1
  <2>3. run[j] = [next |-> r.next + 1,
                  shown |-> IF at(j).value = 0 THEN r.shown
                            ELSE Append(r.shown, [token |-> toks[j], result |-> at(j)])]
    BY <1>2a, <2>2 DEF WalkReward
  <2>4. at(j) \in Result /\ at(j).token = toks[j] /\ toks[j] \in Tokens /\ at(j).value \in Nat
    <3>1. at(j) \in Result /\ at(j).token = toks[j] /\ toks[j] \in Tokens
      BY <1>1
    <3> HIDE DEF at
    <3>2. QED
      BY <3>1 DEF Result
  <2>5. run[j].next = start + j
    BY <2>2, <2>3
  <2>6. CASE at(j).value = 0
    <3>1. run[j].shown = r.shown
      BY <2>3, <2>6
    <3>2. Above(j) = Above(j - 1)
      <4>1. \A i : i \in 1..j <=> i \in 1..(j - 1) \/ i = j
        BY <1>1
      <4>2. QED
        BY <4>1, <2>6
    <3> HIDE DEF at, Above
    <3>3. QED
      <4>1. j \in 0..n
        BY <1>1
      <4>2. Walked(j)
        BY <2>1, <2>5, <3>1, <3>2
      <4>3. QED
        BY <4>1, <4>2
  <2>7. CASE at(j).value # 0
    <3> DEFINE q == [token |-> toks[j], result |-> at(j)]
               g == r.shown
               s == run[j].shown
    <3>1. s = Append(g, q) /\ q \in Claim /\ g \in Seq(Claim)
      BY <2>1, <2>3, <2>4, <2>7 DEF Claim
    <3>2. q.token = q.result.token /\ q.result = at(j)
      BY <2>4
    <3>3. Above(j) = Above(j - 1) \cup {j}
      <4>1. \A i : i \in 1..j <=> i \in 1..(j - 1) \/ i = j
        BY <1>1
      <4>2. at(j).value > 0
        BY <2>4, <2>7
      <4>3. QED
        BY <4>1, <4>2
    <3>4. {at(i) : i \in Above(j)} = {at(i) : i \in Above(j - 1)} \cup {at(j)}
      BY <3>3
    <3>5. /\ \A k \in DOMAIN g : g[k].token = g[k].result.token
          /\ {g[k].result : k \in DOMAIN g} = {at(i) : i \in Above(j - 1)}
      BY <2>1
    <3> HIDE DEF q, g, s, at, Above
    <3>6. /\ s \in Seq(Claim) /\ DOMAIN s = 1..(Len(g) + 1) /\ DOMAIN g = 1..Len(g) /\ Len(g) \in Nat
          /\ \A k \in 1..Len(g) : s[k] = g[k]
          /\ s[Len(g) + 1] = q
      BY <3>1
    <3>7. \A k : k \in DOMAIN s <=> k \in DOMAIN g \/ k = Len(g) + 1
      BY <3>6
    <3>8. \A k \in DOMAIN s : s[k].token = s[k].result.token
      BY <3>2, <3>5, <3>6, <3>7
    <3>9. {s[k].result : k \in DOMAIN s} = {g[k].result : k \in DOMAIN g} \cup {at(j)}
      BY <3>2, <3>6, <3>7
    <3>10. {s[k].result : k \in DOMAIN s} = {at(i) : i \in Above(j)}
      BY <3>4, <3>5, <3>9
    <3>11. QED
      <4>1. j \in 0..n
        BY <1>1
      <4>2. Walked(j)
        BY <2>5, <3>6, <3>8, <3>10 DEF s
      <4>3. QED
        BY <4>1, <4>2
  <2>8. QED
    BY <2>6, <2>7
<1>5. n \in S
  <2> HIDE DEF S
  <2>1. \A j \in 0..n : j \in S
    BY <1>1, <1>3, <1>4, UpTo
  <2>2. QED
    BY <1>1, <2>1
<1>6. Walked(n)
  BY <1>5
<1> DEFINE claims == RewardsWalked(list, origin, toks)
<1>7. claims = run[n]
  <2> HIDE DEF n, origin, Walked, S, at, Above
  <2>1. RewardsWalked(list, origin, toks) = run[n]
    BY <1>2 DEF RewardsSteps
  <2>2. QED
    BY <2>1
<1>8. {at(i) : i \in Above(n)}
        = {list[start + (j - 1)] : j \in {i \in 1..Len(toks) : list[start + (i - 1)].value > 0}}
  OBVIOUS
<1> HIDE DEF claims, Above, at
<1>9. /\ claims.next = start + Len(toks)
      /\ claims.shown \in Seq(Claim)
      /\ \A k \in DOMAIN claims.shown : claims.shown[k].token = claims.shown[k].result.token
      /\ {claims.shown[k].result : k \in DOMAIN claims.shown}
           = {list[start + (j - 1)] : j \in {i \in 1..Len(toks) :
                                               list[start + (i - 1)].value > 0}}
  BY <1>6, <1>7, <1>8
<1>10. QED
  BY <1>9 DEF claims, ClaimsShown

\* A step of the walk over the vaults, in terms of the walk over the claims.
LEMMA VaultStep ==
  ASSUME NEW list, NEW acc, NEW item
  PROVE  WalkVault(list, acc, item) =
           LET claims == RewardsWalked(list, [next |-> acc.next + 3, shown |-> <<>>],
                                       stored.rewards[item.vault])
           IN [next |-> claims.next,
               shown |-> Append(acc.shown, [vault |-> item.vault, shares |-> item.shares,
                                            underlying |-> list[acc.next],
                                            rewards |-> claims.shown])]
BY Zenon DEF WalkVault, RewardsWalked

\* A list one longer.
LEMMA OneMore ==
  ASSUME NEW T, NEW j \in Nat, j # 0, NEW f \in [1..j -> T]
  PROVE  Append([i \in 1..(j - 1) |-> f[i]], f[j]) = [i \in 1..j |-> f[i]]
<1> DEFINE g == [i \in 1..(j - 1) |-> f[i]]
           h == [i \in 1..j |-> f[i]]
<1>1. g \in Seq(T) /\ Len(g) = j - 1 /\ f[j] \in T
  OBVIOUS
<1>2. \A i \in 1..(j - 1) : g[i] = f[i]
  OBVIOUS
<1> HIDE DEF g
<1>3. /\ Append(g, f[j]) \in Seq(T) /\ Len(Append(g, f[j])) = j
      /\ \A i \in 1..(j - 1) : Append(g, f[j])[i] = g[i]
      /\ Append(g, f[j])[j] = f[j]
  BY <1>1
<1>4. h \in Seq(T) /\ Len(h) = j /\ \A i \in 1..j : h[i] = f[i]
  OBVIOUS
<1> HIDE DEF h
<1>5. \A i \in 1..j : Append(g, f[j])[i] = h[i]
  BY <1>2, <1>3, <1>4
<1>6. QED
  BY <1>3, <1>4, <1>5, SeqEqual DEF g, h

\* Every position that the walk shows is of the vault in its place, from the results
\* of the calls that were made for it.
LEMMA WalkMatches ==
  ASSUME stored \in AaveRows, NEW at \in Blocks, NEW items \in Seq(Item), items # <<>>,
         \A i, j \in DOMAIN items : i # j => items[i].vault # items[j].vault
  PROVE  LET list == FlattenSeq([i \in DOMAIN items |-> Values(items[i], at)])
             shown == VaultsWalked(list, [next |-> 1, shown |-> <<>>], items).shown
         IN /\ DOMAIN shown = DOMAIN items
            /\ \A i \in DOMAIN items : Matches(items[i], shown[i], list)
<1> DEFINE n == Len(items)
           seqs == [i \in DOMAIN items |-> Values(items[i], at)]
           toks(i) == stored.rewards[items[i].vault]
           list == FlattenSeq(seqs)
           origin == [next |-> 1, shown |-> <<>>]
<1>1. /\ n \in Nat /\ n # 0 /\ DOMAIN items = 1..n
      /\ \A i \in 1..n : items[i] \in Item /\ toks(i) \in Seq(Tokens)
  <2>1. n \in Nat /\ n # 0 /\ DOMAIN items = 1..n /\ \A i \in 1..n : items[i] \in Item
    OBVIOUS
  <2>2. \A i \in 1..n : toks(i) \in Seq(Tokens)
    <3>1. TAKE i \in 1..n
    <3>2. items[i].vault \in Vaults
      BY <2>1 DEF Item
    <3>3. stored.rewards \in [Vaults -> Seq(Tokens)]
      BY DEF AaveRows
    <3>4. QED
      BY <3>2, <3>3
  <2>3. QED
    BY <2>1, <2>2
<1> DEFINE Called(i) == Returned(items[i], toks(i), seqs[i])
<1>2. \A i \in 1..n : Called(i)
  <2>1. TAKE i \in 1..n
  <2>2. items[i] \in Item /\ seqs[i] = Values(items[i], at)
    BY <1>1
  <2> HIDE DEF seqs
  <2>3. QED
    BY <2>2, ValuesFacts
<1>3. seqs \in [1..n -> Seq(Result)]
  <2>1. \A i \in 1..n : seqs[i] \in Seq(Result)
    BY <1>2 DEF Returned
  <2>2. DOMAIN seqs = 1..n
    BY <1>1
  <2>3. seqs = [i \in DOMAIN seqs |-> seqs[i]]
    OBVIOUS
  <2> HIDE DEF seqs
  <2>4. QED
    BY <2>1, <2>2, <2>3
<1> HIDE DEF n, seqs, origin
<1>4. PICK first : Flattened(seqs, n, first)
  BY <1>1, <1>3, FlattenFacts
<1>5. /\ first \in [1..(n + 1) -> Nat] /\ first[1] = 1
      /\ \A i \in 1..n : first[i + 1] = first[i] + Len(seqs[i])
      /\ \A i \in 1..n : \A k \in 1..Len(seqs[i]) : list[first[i] + (k - 1)] = seqs[i][k]
      /\ ToSet(list) = UNION {ToSet(seqs[i]) : i \in 1..n}
  BY <1>4 DEF Flattened
<1> HIDE DEF list
<1>6. PICK run : VaultsSteps(list, origin, items, n, run)
  BY <1>1, VaultsRun
<1> DEFINE claims(i) == RewardsWalked(list, [next |-> first[i] + 3, shown |-> <<>>], toks(i))
           position(i) == [vault |-> items[i].vault, shares |-> items[i].shares,
                           underlying |-> list[first[i]], rewards |-> claims(i).shown]
<1>7. ASSUME NEW i \in 1..n
      PROVE  /\ claims(i).next = first[i + 1]
             /\ Matches(items[i], position(i), list)
  <2> DEFINE item == items[i]
             ts == toks(i)
             s == seqs[i]
             start == first[i] + 3
             walked == RewardsWalked(list, [next |-> start, shown |-> <<>>], ts)
             c(j) == list[start + (j - 1)]
             shown == walked.shown
  <2>1. /\ first[i] \in Nat /\ ts \in Seq(Tokens) /\ Returned(item, ts, s)
        /\ first[i + 1] = first[i] + Len(s)
        /\ \A k \in 1..Len(s) : list[first[i] + (k - 1)] = s[k]
        /\ ToSet(s) \subseteq ToSet(list)
    BY <1>1, <1>2, <1>5
  <2>2. claims(i) = walked
    OBVIOUS
  <2> HIDE DEF item, ts, s, start, walked
  <2>3. s \in Seq(Result) /\ Len(s) = 3 + Len(ts)
    BY <2>1, Zenon DEF Returned
  <2>3a. s[1] = [vault |-> item.vault, call |-> "previewRedeem", token |-> "",
                value |-> item.shares]
    BY <2>1, Zenon DEF Returned
  <2>3b. \A k \in 1..Len(s) : s[k].vault = item.vault /\ (s[k].call = "reward" => k > 3)
    BY <2>1, Zenon DEF Returned
  <2>3c. \A j \in 1..Len(ts) : s[3 + j].call = "reward" /\ s[3 + j].token = ts[j]
    BY <2>1, Zenon DEF Returned
  <2>3d. first[i] \in Nat /\ ts \in Seq(Tokens) /\ first[i + 1] = first[i] + Len(s)
    BY <2>1
  <2>3e. Len(ts) \in Nat
    BY <2>3d
  <2>3f. Len(s) = 3 + Len(ts) /\ first[i] \in Nat /\ first[i + 1] = first[i] + Len(s)
    BY <2>3, <2>3d
  <2>3g. start = first[i] + 3
    BY DEF start
  <2>4. start \in Nat /\ first[i + 1] = start + Len(ts)
    <3> DEFINE l == Len(ts)
               m == Len(s)
               p == first[i]
               q == first[i + 1]
    <3>1. l \in Nat /\ m = 3 + l /\ p \in Nat /\ q = p + m /\ start = p + 3
      BY <2>3e, <2>3f, <2>3g
    <3> HIDE DEF l, m, p, q
    <3>2. start \in Nat /\ q = start + l
      BY <3>1
    <3>3. QED
      BY <3>2 DEF l, q
  <2>5. list[first[i]] = s[1]
    <3>1. 1 \in 1..Len(s) /\ first[i] + (1 - 1) = first[i]
      BY <2>3, <2>3d, <2>3e
    <3>2. QED
      BY <2>1, <3>1
  <2>6. ASSUME NEW j \in 1..Len(ts)
        PROVE  /\ 3 + j \in 1..Len(s) /\ c(j) = s[3 + j]
               /\ c(j) \in Result /\ c(j).token = ts[j]
               /\ c(j).call = "reward" /\ c(j).vault = item.vault
    <3>1. 3 + j \in 1..Len(s) /\ first[i] + ((3 + j) - 1) = start + (j - 1)
      <4> DEFINE l == Len(ts)
                 m == Len(s)
                 p == first[i]
      <4>1. l \in Nat /\ j \in 1..l /\ p \in Nat /\ start = p + 3 /\ m = 3 + l
        BY <2>3e, <2>3f, <2>3g
      <4> HIDE DEF l, m, p
      <4>2. 3 + j \in 1..m /\ p + ((3 + j) - 1) = start + (j - 1)
        BY <4>1
      <4>3. QED
        BY <4>2 DEF m, p
    <3>2. c(j) = s[3 + j]
      BY <2>1, <3>1
    <3> HIDE DEF c
    <3>3. s[3 + j] \in Result
      BY <2>3, <3>1
    <3>4. QED
      BY <2>3b, <2>3c, <3>1, <3>2, <3>3
  <2>7. ClaimsShown(list, start, ts, walked)
    BY <2>3d, <2>4, <2>6, RewardsShown DEF walked
  <2>8. /\ walked.next = start + Len(ts)
        /\ \A k \in DOMAIN shown : shown[k].token = shown[k].result.token
        /\ {shown[k].result : k \in DOMAIN shown}
             = {c(j) : j \in {m \in 1..Len(ts) : c(m).value > 0}}
    BY <2>7 DEF ClaimsShown
  <2>9. claims(i).next = first[i + 1]
    BY <2>2, <2>4, <2>8
  <2>10. {c(j) : j \in {m \in 1..Len(ts) : c(m).value > 0}}
           = {x \in ToSet(list) : x.vault = item.vault /\ x.call = "reward" /\ x.value > 0}
    <3>1. ASSUME NEW j \in 1..Len(ts), c(j).value > 0
          PROVE  c(j) \in {x \in ToSet(list) :
                             x.vault = item.vault /\ x.call = "reward" /\ x.value > 0}
      <4>1. 3 + j \in DOMAIN s
        BY <2>3, <2>3e, <2>6
      <4>2. s[3 + j] \in ToSet(s)
        BY <4>1 DEF ToSet
      <4> HIDE DEF c
      <4>3. c(j) \in ToSet(list)
        BY <2>1, <2>6, <4>2
      <4>4. QED
        BY <2>6, <3>1, <4>3
    <3>2. ASSUME NEW x \in ToSet(list), x.vault = item.vault, x.call = "reward", x.value > 0
          PROVE  \E j \in 1..Len(ts) : c(j).value > 0 /\ x = c(j)
      <4>1. PICK o \in 1..n : x \in ToSet(seqs[o])
        BY <1>5
      <4>2. PICK k \in DOMAIN seqs[o] : x = seqs[o][k]
        BY <4>1 DEF ToSet
      <4>3. Called(o)
        BY <1>2
      <4>4. k \in 1..Len(seqs[o]) /\ x.vault = items[o].vault /\ k > 3
        <5>1. seqs[o] \in Seq(Result)
          BY <4>3, Zenon DEF Returned
        <5>2. k \in 1..Len(seqs[o])
          BY <4>2, <5>1
        <5>3. seqs[o][k].vault = items[o].vault /\ (seqs[o][k].call = "reward" => k > 3)
          BY <4>3, <5>2, Zenon DEF Returned
        <5>4. QED
          BY <3>2, <4>2, <5>2, <5>3
      <4>5. o = i
        BY <1>1, <3>2, <4>4 DEF item
      <4>6. k \in 1..Len(s) /\ x = s[k]
        BY <4>2, <4>4, <4>5 DEF s
      <4>7. k - 3 \in 1..Len(ts) /\ 3 + (k - 3) = k
        BY <2>3, <2>3e, <4>4, <4>6
      <4>8. x = c(k - 3)
        BY <2>6, <4>6, <4>7
      <4> HIDE DEF c
      <4>9. QED
        BY <3>2, <4>7, <4>8
    <3> HIDE DEF c
    <3>3. QED
      BY <3>1, <3>2
  <2>11. Matches(item, position(i), list)
    <3>1. position(i) = [vault |-> item.vault, shares |-> item.shares,
                         underlying |-> list[first[i]], rewards |-> shown]
      BY <2>2 DEF item
    <3> HIDE DEF c, position, shown
    <3>2. /\ position(i).rewards = shown /\ position(i).underlying = s[1]
          /\ position(i).vault = item.vault /\ position(i).shares = item.shares
      BY <2>5, <3>1
    <3>3. QED
      BY <2>3a, <2>8, <2>10, <3>2, Zenon DEF Matches
  <2>12. QED
    BY <2>9, <2>11 DEF item
<1> HIDE DEF position
<1> DEFINE f == [i \in 1..n |-> position(i)]
           Walked(j) == run[j].next = first[j + 1] /\ run[j].shown = [i \in 1..j |-> f[i]]
           S == {j \in 0..n : Walked(j)}
<1>8. /\ run[0] = origin
      /\ \A j \in 1..n : run[j] = WalkVault(list, run[j - 1], items[j])
      /\ VaultsWalked(list, origin, items) = run[n]
  BY <1>6 DEF VaultsSteps
<1>9. 0 \in S
  <2>1. run[0].next = 1 /\ run[0].shown = <<>>
    BY <1>8 DEF origin
  <2>2. [i \in 1..0 |-> f[i]] = <<>>
    OBVIOUS
  <2>3. run[0].next = first[0 + 1]
    BY <1>5, <2>1
  <2> HIDE DEF f
  <2>4. QED
    BY <1>1, <2>1, <2>2, <2>3
<1>10. ASSUME NEW j \in 1..n, j - 1 \in S
       PROVE  j \in S
  <2>1. j \in Nat /\ j # 0 /\ (j - 1) + 1 = j /\ j \in 0..n
    BY <1>1
  <2>2. run[j - 1].next = first[j] /\ run[j - 1].shown = [i \in 1..(j - 1) |-> f[i]]
    <3> HIDE DEF f
    <3>1. QED
      BY <1>10, <2>1
  <2>3. run[j] = [next |-> claims(j).next, shown |-> Append(run[j - 1].shown, position(j))]
    BY <1>8, <2>2, VaultStep DEF position
  <2>4. f[j] = position(j) /\ f \in [1..n -> {f[i] : i \in 1..n}]
    OBVIOUS
  <2> DEFINE g == [i \in 1..j |-> f[i]]
  <2>5. g \in [1..j -> {f[i] : i \in 1..n}] /\ \A i \in 1..j : g[i] = f[i]
    BY <1>1
  <2> HIDE DEF f
  <2>6. [i \in 1..(j - 1) |-> f[i]] = [i \in 1..(j - 1) |-> g[i]]
    BY <2>1, <2>5
  <2>7. Append([i \in 1..(j - 1) |-> g[i]], g[j]) = [i \in 1..j |-> g[i]]
    <3> HIDE DEF g
    <3>1. QED
      BY <2>1, <2>5, OneMore
  <2>8. run[j].shown = [i \in 1..j |-> f[i]]
    <3>1. run[j].shown = Append([i \in 1..(j - 1) |-> g[i]], g[j])
      <4>1. j \in 1..j
        BY <2>1
      <4> HIDE DEF g
      <4>2. g[j] = position(j)
        BY <2>4, <2>5, <4>1
      <4>3. QED
        BY <2>2, <2>3, <2>6, <4>2
    <3>2. QED
      BY <2>7, <3>1
  <2>9. run[j].next = first[j + 1]
    BY <1>7, <2>3
  <2>10. QED
    BY <2>1, <2>8, <2>9
<1>11. run[n].shown = f
  <2> HIDE DEF S
  <2>1. \A j \in 0..n : j \in S
    BY <1>1, <1>9, <1>10, UpTo
  <2>2. n \in S
    BY <1>1, <2>1
  <2>3. QED
    BY <2>2 DEF S
<1>12. VaultsWalked(list, origin, items).shown = f
  BY <1>8, <1>11
<1>13. /\ DOMAIN VaultsWalked(list, origin, items).shown = DOMAIN items
       /\ \A i \in DOMAIN items : Matches(items[i], VaultsWalked(list, origin, items).shown[i], list)
  BY <1>1, <1>7, <1>12
<1>14. QED
  BY <1>13 DEF list, seqs, origin

-----------------------------------------------------------------------------
(* Aave: sums over a numbering, and orders. *)

\* The sum over any subset of S splits at any of its elements.
Splits(g, S) ==
  /\ SumFunctionOnSet(g, {}) = 0
  /\ \A T \in SUBSET S :
       /\ SumFunctionOnSet(g, T) \in Int
       /\ \A x \in T : SumFunctionOnSet(g, T) = g[x] + SumFunctionOnSet(g, T \ {x})

\* Every sum over a finite set does.
LEMMA SumSplits ==
  ASSUME NEW S, IsFiniteSet(S), NEW g \in [S -> Int]
  PROVE  Splits(g, S)
BY SumSplit DEF Splits

\* The terms g[1], ..., g[n] are those of f at different elements p[1], ..., p[n] of S,
\* and f is zero at the others.
Numbered(f, S, p, g, n) ==
  /\ f \in [S -> Nat] /\ p \in [1..n -> S] /\ g \in [1..n -> Nat]
  /\ \A i, j \in 1..n : i # j => p[i] # p[j]
  /\ \A i \in 1..n : g[i] = f[p[i]]
  /\ \A x \in S : f[x] > 0 => \E i \in 1..n : p[i] = x

\* Then they have the same sum.
LEMMA SumReindex ==
  ASSUME NEW S, IsFiniteSet(S), NEW n \in Nat, NEW f, NEW p, NEW g, Numbered(f, S, p, g, n)
  PROVE  SumFunctionOnSet(g, 1..n) = SumFunctionOnSet(f, S)
<1>0. /\ f \in [S -> Nat] /\ p \in [1..n -> S] /\ g \in [1..n -> Nat]
      /\ \A i, j \in 1..n : i # j => p[i] # p[j]
      /\ \A i \in 1..n : g[i] = f[p[i]]
      /\ \A x \in S : f[x] > 0 => \E i \in 1..n : p[i] = x
  BY DEF Numbered
<1> DEFINE Sf(T) == SumFunctionOnSet(f, T)
           Sg(T) == SumFunctionOnSet(g, T)
           P(j) == {p[i] : i \in 1..j}
           N == {j \in 0..n : Sg(1..j) = Sf(P(j))}
<1>1. /\ Sf({}) = 0
      /\ \A T \in SUBSET S : Sf(T) \in Int /\ \A x \in T : Sf(T) = f[x] + Sf(T \ {x})
  <2>1. f \in [S -> Int]
    BY <1>0
  <2>2. QED
    BY <2>1, SumSplit
<1>2. /\ Sg({}) = 0
      /\ \A T \in SUBSET (1..n) : Sg(T) \in Int /\ \A x \in T : Sg(T) = g[x] + Sg(T \ {x})
  <2>1. g \in [1..n -> Int] /\ IsFiniteSet(1..n)
    BY <1>0, FS_Interval
  <2>2. Splits(g, 1..n)
    BY <2>1, SumSplits
  <2>3. QED
    BY <2>2 DEF Splits
<1>3. Sf(P(n)) = Sf(S)
  <2>1. P(n) \in SUBSET S /\ S \in SUBSET S
    BY <1>0
  <2>2. \A x \in S \ P(n) : f[x] = 0
    BY <1>0
  <2> HIDE DEF P
  <2>3. QED
    BY <1>0, <2>1, <2>2, SumSubset
<1> HIDE DEF Sf, Sg
<1>4. 0 \in N
  <2>1. 1..0 = {} /\ P(0) = {}
    OBVIOUS
  <2> HIDE DEF P
  <2>2. QED
    <3>1. 0 \in 0..n
      OBVIOUS
    <3>2. Sg(1..0) = Sf(P(0))
      BY <1>1, <1>2, <2>1
    <3>3. QED
      BY <3>1, <3>2
<1>5. ASSUME NEW j \in 1..n, j - 1 \in N
      PROVE  j \in N
  <2>1. /\ 1..j \in SUBSET (1..n) /\ j \in 1..j /\ (1..j) \ {j} = 1..(j - 1) /\ j \in 0..n
    OBVIOUS
  <2>2. P(j) \in SUBSET S /\ p[j] \in P(j)
    BY <1>0, <2>1
  <2>3. P(j) \ {p[j]} = P(j - 1)
    <3>1. \A i : i \in 1..j <=> i \in 1..(j - 1) \/ i = j
      OBVIOUS
    <3>2. \A i \in 1..(j - 1) : i \in 1..n /\ i # j
      OBVIOUS
    <3>3. QED
      BY <1>0, <3>1, <3>2
  <2>4. Sg(1..(j - 1)) = Sf(P(j - 1))
    BY <1>5
  <2> HIDE DEF P
  <2>5. Sg(1..j) = g[j] + Sg(1..(j - 1))
    <3> DEFINE T == 1..j
    <3>1. T \in SUBSET (1..n) /\ j \in T /\ T \ {j} = 1..(j - 1)
      BY <2>1
    <3> HIDE DEF T
    <3>2. Sg(T) = g[j] + Sg(T \ {j})
      BY <1>2, <3>1
    <3>3. QED
      BY <3>1, <3>2 DEF T
  <2>6. Sf(P(j)) = f[p[j]] + Sf(P(j - 1))
    BY <1>1, <2>2, <2>3
  <2>7. QED
    BY <1>0, <2>1, <2>4, <2>5, <2>6
<1>6. Sg(1..n) = Sf(P(n))
  <2> HIDE DEF N
  <2>1. \A j \in 0..n : j \in N
    BY <1>4, <1>5, UpTo
  <2>2. n \in N
    BY <2>1
  <2>3. QED
    BY <2>2 DEF N
<1>7. QED
  BY <1>3, <1>6 DEF Sf, Sg

\* An order of a finite set has each of its elements once.
LEMMA OrderFacts ==
  ASSUME NEW S, IsFiniteSet(S), NEW order \in SetToSeqs(S)
  PROVE  /\ order \in Seq(S)
         /\ \A i, j \in DOMAIN order : i # j => order[i] # order[j]
         /\ \A x \in S : \E i \in DOMAIN order : order[i] = x
<1> DEFINE n == Cardinality(S)
<1>1. n \in Nat
  BY FS_CardinalityType
<1>2. order \in [1..n -> S] /\ \A i, j \in 1..n : i # j => order[i] # order[j]
  BY DEF SetToSeqs
<1> HIDE DEF n
<1>3. order \in Seq(S) /\ DOMAIN order = 1..n
  BY <1>1, <1>2
<1>4. order \in Injection(1..n, S)
  BY <1>2 DEF Injection, IsInjective
<1>5. Cardinality(1..n) = n
  BY <1>1, FS_Interval
<1>6. order \in Surjection(1..n, S)
  BY <1>4, <1>5, FS_Injection DEF n
<1>7. \A x \in S : \E i \in 1..n : order[i] = x
  BY <1>6 DEF Surjection
<1>8. QED
  BY <1>2, <1>3, <1>7

-----------------------------------------------------------------------------
(* Aave: the chain. *)

\* A block is mined, in which the wallet made the move, and nothing is forgotten.
Mined(move) ==
  /\ moves' = Append(moves, move) /\ Len(moves') <= MaxMoves
  /\ older' = chain
  /\ UNCHANGED <<commands, stage, rows, reads>>
  /\ chain' \in Blocks /\ WellFormed(chain')
  /\ chain.listed \subseteq chain'.listed /\ chain.vaults \subseteq chain'.vaults
  /\ move # "redeem" => \A v \in Vaults : chain.shares[v] <= chain'.shares[v]
  /\ move # "deposit" => \A v \in Vaults : chain'.shares[v] <= chain.shares[v]

\* What a block has.
LEMMA BlockParts ==
  ASSUME NEW b \in Blocks
  PROVE  /\ b.listed \subseteq Reserves /\ b.vaults \subseteq Vaults
         /\ b.rewards \in [Vaults -> Seq(Tokens)]
         /\ b.supply \in [Reserves -> Nat] /\ b.debt \in [Reserves -> Nat]
         /\ b.shares \in [Vaults -> Nat]
         /\ b.claim \in [Vaults -> [Tokens -> BOOLEAN]] /\ b.liquid \in BOOLEAN
BY DEF Blocks

\* The block that Block mines is one, if its number is within the bound.
LEMMA BlockEvent ==
  ASSUME AaveTypeOK, NEW move \in Moves, NEW STATE next, Block(move, next),
         next \in Blocks, WellFormed(next),
         chain.listed \subseteq next.listed, chain.vaults \subseteq next.vaults,
         move # "redeem" => \A v \in Vaults : chain.shares[v] <= next.shares[v],
         move # "deposit" => \A v \in Vaults : next.shares[v] <= chain.shares[v]
  PROVE  Mined(move)
<1>1. moves \in Seq(Moves) /\ Len(moves) < MaxMoves /\ MaxMoves \in Nat
  BY AaveAssumption DEF AaveTypeOK, Block
<1>2. moves' = Append(moves, move) /\ Len(moves') <= MaxMoves
  BY <1>1 DEF Block
<1>3. QED
  BY <1>2 DEF Block, Mined

\* Events of governance.
LEMMA GovernanceEvent ==
  ASSUME AaveTypeOK, HistoryInv, Governance
  PROVE  \E move \in Moves : Mined(move)
<1>0. chain \in Blocks /\ WellFormed(chain) /\ "other" \in Moves
  BY DEF AaveTypeOK, HistoryInv, Moves
<1>1. /\ chain.listed \subseteq Reserves /\ chain.vaults \subseteq Vaults
      /\ chain.rewards \in [Vaults -> Seq(Tokens)]
      /\ chain.supply \in [Reserves -> Nat] /\ chain.debt \in [Reserves -> Nat]
      /\ chain.shares \in [Vaults -> Nat]
      /\ chain.claim \in [Vaults -> [Tokens -> BOOLEAN]] /\ chain.liquid \in BOOLEAN
  BY <1>0, BlockParts
<1>2. \A v \in Vaults : chain.shares[v] <= chain.shares[v]
  BY <1>1
<1>3. CASE \E r \in Reserves \ chain.listed :
             Block("other", [chain EXCEPT !.listed = @ \cup {r}])
  <2>1. PICK r \in Reserves \ chain.listed :
               Block("other", [chain EXCEPT !.listed = @ \cup {r}])
    BY <1>3
  <2> DEFINE next == [chain EXCEPT !.listed = @ \cup {r}]
  <2>2. /\ next \in Blocks /\ next.listed = chain.listed \cup {r}
        /\ next.vaults = chain.vaults /\ next.supply = chain.supply
        /\ next.debt = chain.debt /\ next.shares = chain.shares
    BY <1>0, <1>1 DEF Blocks
  <2>3. Block("other", next)
    BY <2>1
  <2> HIDE DEF next
  <2>4. WellFormed(next)
    BY <1>0, <2>2 DEF WellFormed
  <2>5. Mined("other")
    BY <1>0, <1>2, <2>2, <2>3, <2>4, BlockEvent
  <2>6. QED
    BY <1>0, <2>5
<1>4. CASE \E v \in Vaults \ chain.vaults :
             assetOf[v] \in chain.listed /\ Block("other", [chain EXCEPT !.vaults = @ \cup {v}])
  <2>1. PICK v \in Vaults \ chain.vaults :
             assetOf[v] \in chain.listed /\ Block("other", [chain EXCEPT !.vaults = @ \cup {v}])
    BY <1>4
  <2> DEFINE next == [chain EXCEPT !.vaults = @ \cup {v}]
  <2>2. /\ next \in Blocks /\ next.vaults = chain.vaults \cup {v}
        /\ next.listed = chain.listed /\ next.supply = chain.supply
        /\ next.debt = chain.debt /\ next.shares = chain.shares
    BY <1>0, <1>1 DEF Blocks
  <2>3. Block("other", next)
    BY <2>1
  <2> HIDE DEF next
  <2>4. WellFormed(next)
    BY <1>0, <2>1, <2>2 DEF WellFormed
  <2>5. Mined("other")
    BY <1>0, <1>2, <2>2, <2>3, <2>4, BlockEvent
  <2>6. QED
    BY <1>0, <2>5
<1>5. ASSUME NEW rewards \in [Vaults -> Seq(Tokens)],
             NEW claim \in [Vaults -> [Tokens -> BOOLEAN]], NEW liquid \in BOOLEAN,
             Block("other", [chain EXCEPT !.rewards = rewards, !.claim = claim, !.liquid = liquid])
      PROVE  Mined("other")
  <2> DEFINE next == [chain EXCEPT !.rewards = rewards, !.claim = claim, !.liquid = liquid]
  <2>1. /\ next \in Blocks /\ next.vaults = chain.vaults
        /\ next.listed = chain.listed /\ next.supply = chain.supply
        /\ next.debt = chain.debt /\ next.shares = chain.shares
    BY <1>0, <1>1 DEF Blocks
  <2>2. Block("other", next)
    BY <1>5
  <2> HIDE DEF next
  <2>3. WellFormed(next)
    BY <1>0, <2>1 DEF WellFormed
  <2>4. QED
    BY <1>0, <1>2, <2>1, <2>2, <2>3, BlockEvent
<1>6. CASE \E v \in chain.vaults, t \in Tokens :
             /\ t \notin ToSet(chain.rewards[v])
             /\ Block("other", [chain EXCEPT !.rewards[v] = Append(@, t)])
  <2>1. PICK v \in chain.vaults, t \in Tokens :
               Block("other", [chain EXCEPT !.rewards[v] = Append(@, t)])
    BY <1>6
  <2> DEFINE rewards == [chain.rewards EXCEPT ![v] = Append(@, t)]
  <2>2. rewards \in [Vaults -> Seq(Tokens)]
    BY <1>1
  <2>3. [chain EXCEPT !.rewards[v] = Append(@, t)]
          = [chain EXCEPT !.rewards = rewards, !.claim = chain.claim, !.liquid = chain.liquid]
    BY <1>0, <1>1 DEF Blocks
  <2> HIDE DEF rewards
  <2>4. QED
    BY <1>0, <1>1, <1>5, <2>1, <2>2, <2>3
<1>7. CASE \E v \in chain.vaults : \E t \in ToSet(chain.rewards[v]) :
             /\ chain.shares[v] > 0 /\ ~chain.claim[v][t]
             /\ Block("other", [chain EXCEPT !.claim[v][t] = TRUE])
  <2>1. PICK v \in chain.vaults : \E t \in ToSet(chain.rewards[v]) :
               Block("other", [chain EXCEPT !.claim[v][t] = TRUE])
    BY <1>7
  <2>2. PICK t \in ToSet(chain.rewards[v]) :
               Block("other", [chain EXCEPT !.claim[v][t] = TRUE])
    BY <2>1
  <2> DEFINE claim == [chain.claim EXCEPT ![v][t] = TRUE]
  <2>3. claim \in [Vaults -> [Tokens -> BOOLEAN]]
    BY <1>1
  <2>4. [chain EXCEPT !.claim[v][t] = TRUE]
          = [chain EXCEPT !.rewards = chain.rewards, !.claim = claim, !.liquid = chain.liquid]
    BY <1>0, <1>1 DEF Blocks
  <2> HIDE DEF claim
  <2>5. QED
    BY <1>0, <1>1, <1>5, <2>2, <2>3, <2>4
<1>8. CASE Block("other", [chain EXCEPT !.liquid = ~@])
  <2>1. [chain EXCEPT !.liquid = ~@]
          = [chain EXCEPT !.rewards = chain.rewards, !.claim = chain.claim, !.liquid = ~ chain.liquid]
    BY <1>0, <1>1 DEF Blocks
  <2>2. QED
    BY <1>0, <1>1, <1>5, <1>8, <2>1
<1>9. QED
  BY <1>3, <1>4, <1>6, <1>7, <1>8 DEF Governance

\* Amounts that a move of the wallet may lead to.
Possible(move, supply, debt, shares) ==
  /\ supply \in [Reserves -> Nat] /\ debt \in [Reserves -> Nat] /\ shares \in [Vaults -> Nat]
  /\ \A r \in Reserves : supply[r] > 0 \/ debt[r] > 0 => r \in chain.listed
  /\ \A v \in Vaults : v \notin chain.vaults => shares[v] = 0
  /\ move # "redeem" => \A v \in Vaults : chain.shares[v] <= shares[v]
  /\ move # "deposit" => \A v \in Vaults : shares[v] <= chain.shares[v]

\* A move of the wallet changes its amounts.
LEMMA AmountsEvent ==
  ASSUME AaveTypeOK, HistoryInv, NEW move \in Moves,
         NEW STATE supply, NEW STATE debt, NEW STATE shares, Possible(move, supply, debt, shares),
         Block(move, [chain EXCEPT !.supply = supply, !.debt = debt, !.shares = shares])
  PROVE  Mined(move)
<1> DEFINE next == [chain EXCEPT !.supply = supply, !.debt = debt, !.shares = shares]
<1>1. chain \in Blocks /\ WellFormed(chain)
  BY DEF AaveTypeOK, HistoryInv
<1>2. /\ next \in Blocks /\ next.vaults = chain.vaults /\ next.listed = chain.listed
      /\ next.supply = supply /\ next.debt = debt /\ next.shares = shares
  BY <1>1 DEF Blocks, Possible
<1>3. Block(move, next)
  OBVIOUS
<1> HIDE DEF next
<1>4. WellFormed(next)
  BY <1>1, <1>2 DEF WellFormed, Possible
<1>5. /\ move # "redeem" => \A v \in Vaults : chain.shares[v] <= next.shares[v]
      /\ move # "deposit" => \A v \in Vaults : next.shares[v] <= chain.shares[v]
  BY <1>2 DEF Possible
<1>6. QED
  BY <1>2, <1>3, <1>4, <1>5, BlockEvent

\* Moves of the wallet.
LEMMA WalletEvent ==
  ASSUME AaveTypeOK, HistoryInv, Wallet
  PROVE  \E move \in Moves : Mined(move)
<1>0. /\ chain \in Blocks /\ WellFormed(chain)
      /\ {"supply", "withdraw", "deposit", "redeem", "other"} = Moves
  BY DEF AaveTypeOK, HistoryInv, Moves
<1>1. /\ chain.listed \subseteq Reserves /\ chain.vaults \subseteq Vaults
      /\ chain.supply \in [Reserves -> Nat] /\ chain.debt \in [Reserves -> Nat]
      /\ chain.shares \in [Vaults -> Nat]
  BY <1>0, BlockParts
<1>2. /\ \A r \in Reserves : chain.supply[r] > 0 \/ chain.debt[r] > 0 => r \in chain.listed
      /\ \A v \in Vaults : v \notin chain.vaults => chain.shares[v] = 0
      /\ \A v \in Vaults : v \in chain.vaults => assetOf[v] \in chain.listed
      /\ \A v \in Vaults : chain.shares[v] <= chain.shares[v]
  BY <1>0, <1>1 DEF WellFormed
<1>3. ASSUME NEW r \in chain.listed,
             Block("supply", [chain EXCEPT !.supply[r] = @ + 1])
      PROVE  Mined("supply")
  <2> DEFINE supply == [chain.supply EXCEPT ![r] = @ + 1]
  <2>1. supply \in [Reserves -> Nat]
    BY <1>1
  <2>2. \A x \in Reserves : supply[x] > 0 \/ chain.debt[x] > 0 => x \in chain.listed
    BY <1>1, <1>2
  <2>3. [chain EXCEPT !.supply[r] = @ + 1]
          = [chain EXCEPT !.supply = supply, !.debt = chain.debt, !.shares = chain.shares]
    BY <1>0, <1>1 DEF Blocks
  <2> HIDE DEF supply
  <2>4. Possible("supply", supply, chain.debt, chain.shares)
    BY <1>1, <1>2, <2>1, <2>2 DEF Possible
  <2>5. Block("supply", [chain EXCEPT !.supply = supply, !.debt = chain.debt, !.shares = chain.shares])
    BY <1>3, <2>3
  <2>6. QED
    BY <1>0, <2>4, <2>5, AmountsEvent
<1>4. ASSUME NEW r \in chain.listed, chain.supply[r] > 0,
             Block("withdraw", [chain EXCEPT !.supply[r] = @ - 1])
      PROVE  Mined("withdraw")
  <2> DEFINE supply == [chain.supply EXCEPT ![r] = @ - 1]
  <2>1. supply \in [Reserves -> Nat]
    BY <1>1, <1>4
  <2>2. \A x \in Reserves : supply[x] > 0 \/ chain.debt[x] > 0 => x \in chain.listed
    BY <1>1, <1>2
  <2>3. [chain EXCEPT !.supply[r] = @ - 1]
          = [chain EXCEPT !.supply = supply, !.debt = chain.debt, !.shares = chain.shares]
    BY <1>0, <1>1 DEF Blocks
  <2> HIDE DEF supply
  <2>4. Possible("withdraw", supply, chain.debt, chain.shares)
    BY <1>1, <1>2, <2>1, <2>2 DEF Possible
  <2>5. Block("withdraw", [chain EXCEPT !.supply = supply, !.debt = chain.debt, !.shares = chain.shares])
    BY <1>4, <2>3
  <2>6. QED
    BY <1>0, <2>4, <2>5, AmountsEvent
<1>5. ASSUME NEW r \in chain.listed,
             Block("other", [chain EXCEPT !.debt[r] = @ + 1])
      PROVE  Mined("other")
  <2> DEFINE debt == [chain.debt EXCEPT ![r] = @ + 1]
  <2>1. debt \in [Reserves -> Nat]
    BY <1>1
  <2>2. \A x \in Reserves : chain.supply[x] > 0 \/ debt[x] > 0 => x \in chain.listed
    BY <1>1, <1>2
  <2>3. [chain EXCEPT !.debt[r] = @ + 1]
          = [chain EXCEPT !.supply = chain.supply, !.debt = debt, !.shares = chain.shares]
    BY <1>0, <1>1 DEF Blocks
  <2> HIDE DEF debt
  <2>4. Possible("other", chain.supply, debt, chain.shares)
    BY <1>1, <1>2, <2>1, <2>2 DEF Possible
  <2>5. Block("other", [chain EXCEPT !.supply = chain.supply, !.debt = debt, !.shares = chain.shares])
    BY <1>5, <2>3
  <2>6. QED
    BY <1>0, <2>4, <2>5, AmountsEvent
<1>6. ASSUME NEW r \in chain.listed, chain.debt[r] > 0,
             Block("other", [chain EXCEPT !.debt[r] = @ - 1])
      PROVE  Mined("other")
  <2> DEFINE debt == [chain.debt EXCEPT ![r] = @ - 1]
  <2>1. debt \in [Reserves -> Nat]
    BY <1>1, <1>6
  <2>2. \A x \in Reserves : chain.supply[x] > 0 \/ debt[x] > 0 => x \in chain.listed
    BY <1>1, <1>2
  <2>3. [chain EXCEPT !.debt[r] = @ - 1]
          = [chain EXCEPT !.supply = chain.supply, !.debt = debt, !.shares = chain.shares]
    BY <1>0, <1>1 DEF Blocks
  <2> HIDE DEF debt
  <2>4. Possible("other", chain.supply, debt, chain.shares)
    BY <1>1, <1>2, <2>1, <2>2 DEF Possible
  <2>5. Block("other", [chain EXCEPT !.supply = chain.supply, !.debt = debt, !.shares = chain.shares])
    BY <1>6, <2>3
  <2>6. QED
    BY <1>0, <2>4, <2>5, AmountsEvent
<1>7. ASSUME NEW v \in chain.vaults, chain.supply[assetOf[v]] > 0,
             Block("deposit", [chain EXCEPT !.supply[assetOf[v]] = @ - 1, !.shares[v] = @ + 1])
      PROVE  Mined("deposit")
  <2> DEFINE a == assetOf[v]
             supply == [chain.supply EXCEPT ![a] = @ - 1]
             shares == [chain.shares EXCEPT ![v] = @ + 1]
  <2>0. v \in Vaults /\ a \in chain.listed /\ a \in Reserves
    BY <1>1, <1>2
  <2>1. supply \in [Reserves -> Nat] /\ shares \in [Vaults -> Nat]
    BY <1>1, <1>7, <2>0
  <2>2. \A x \in Reserves : supply[x] > 0 \/ chain.debt[x] > 0 => x \in chain.listed
    BY <1>1, <1>2, <2>0
  <2>3. \A x \in Vaults : x \notin chain.vaults => shares[x] = 0
    BY <1>1, <1>2
  <2>4. \A x \in Vaults : chain.shares[x] <= shares[x]
    BY <1>1
  <2>5. [chain EXCEPT !.supply[a] = @ - 1, !.shares[v] = @ + 1]
          = [chain EXCEPT !.supply = supply, !.debt = chain.debt, !.shares = shares]
    BY <1>0, <1>1 DEF Blocks
  <2> HIDE DEF supply, shares
  <2>6. Possible("deposit", supply, chain.debt, shares)
    BY <1>1, <2>1, <2>2, <2>3, <2>4 DEF Possible
  <2>7. Block("deposit", [chain EXCEPT !.supply = supply, !.debt = chain.debt, !.shares = shares])
    BY <1>7, <2>5
  <2>8. QED
    BY <1>0, <2>6, <2>7, AmountsEvent
<1>8. ASSUME NEW v \in chain.vaults, chain.shares[v] > 0,
             Block("redeem", [chain EXCEPT !.supply[assetOf[v]] = @ + 1, !.shares[v] = @ - 1])
      PROVE  Mined("redeem")
  <2> DEFINE a == assetOf[v]
             supply == [chain.supply EXCEPT ![a] = @ + 1]
             shares == [chain.shares EXCEPT ![v] = @ - 1]
  <2>0. v \in Vaults /\ a \in chain.listed /\ a \in Reserves
    BY <1>1, <1>2
  <2>1. supply \in [Reserves -> Nat] /\ shares \in [Vaults -> Nat]
    BY <1>1, <1>8, <2>0
  <2>2. \A x \in Reserves : supply[x] > 0 \/ chain.debt[x] > 0 => x \in chain.listed
    BY <1>1, <1>2, <2>0
  <2>3. \A x \in Vaults : x \notin chain.vaults => shares[x] = 0
    BY <1>1, <1>2
  <2>4. \A x \in Vaults : shares[x] <= chain.shares[x]
    BY <1>1
  <2>5. [chain EXCEPT !.supply[a] = @ + 1, !.shares[v] = @ - 1]
          = [chain EXCEPT !.supply = supply, !.debt = chain.debt, !.shares = shares]
    BY <1>0, <1>1 DEF Blocks
  <2> HIDE DEF supply, shares
  <2>6. Possible("redeem", supply, chain.debt, shares)
    BY <1>1, <2>1, <2>2, <2>3, <2>4 DEF Possible
  <2>7. Block("redeem", [chain EXCEPT !.supply = supply, !.debt = chain.debt, !.shares = shares])
    BY <1>8, <2>5
  <2>8. QED
    BY <1>0, <2>6, <2>7, AmountsEvent
<1>9. QED
  BY <1>0, <1>3, <1>4, <1>5, <1>6, <1>7, <1>8 DEF Wallet

\* What is said of earlier blocks stays true when a block is mined.
LEMMA MovesKept ==
  ASSUME NEW made \in Seq(Moves), NEW move \in Moves
  PROVE  /\ Append(made, move) \in Seq(Moves) /\ Len(Append(made, move)) = Len(made) + 1
         /\ \A m \in Nat, n \in 0..Len(made) :
              Between(Append(made, move), m, n) = Between(made, m, n)
         /\ \A m \in 0..Len(made) :
              Between(Append(made, move), m, Len(made) + 1)
                = Between(made, m, Len(made)) \cup {move}
<1> DEFINE l == Append(made, move)
           k == Len(made)
<1>1. /\ k \in Nat /\ l \in Seq(Moves) /\ Len(l) = k + 1
      /\ \A i \in 1..k : l[i] = made[i]
      /\ l[k + 1] = move
  OBVIOUS
<1> HIDE DEF l, k
<1>2. ASSUME NEW m \in Nat, NEW n \in 0..k
      PROVE  Between(l, m, n) = Between(made, m, n)
  <2>1. \A i \in (m + 1)..n : i \in 1..k
    BY <1>1
  <2>2. QED
    BY <1>1, <2>1 DEF Between
<1>3. ASSUME NEW m \in 0..k
      PROVE  Between(l, m, k + 1) = Between(made, m, k) \cup {move}
  <2>1. \A i : i \in (m + 1)..(k + 1) <=> i \in (m + 1)..k \/ i = k + 1
    BY <1>1
  <2>2. \A i \in (m + 1)..k : i \in 1..k
    BY <1>1
  <2>3. QED
    BY <1>1, <2>1, <2>2 DEF Between
<1>4. QED
  BY <1>1, <1>2, <1>3 DEF l, k

\* A block is related to itself.
LEMMA RelatedSelf ==
  ASSUME NEW made, NEW x \in Blocks, NEW m
  PROVE  Related(made, x, m, x, m)
<1>1. \A v \in Vaults : x.shares[v] <= x.shares[v]
  BY BlockParts
<1>2. QED
  BY <1>1 DEF Related, Compared

\* What is said of two blocks is said of them both ways.
LEMMA RelatedBack ==
  ASSUME NEW made, NEW x, NEW y, NEW m, NEW n, Related(made, x, m, y, n)
  PROVE  Related(made, y, n, x, m)
BY DEF Related

\* Two blocks stay related.
LEMMA RelatedKept ==
  ASSUME NEW made \in Seq(Moves), NEW move \in Moves, NEW x, NEW y,
         NEW m \in 0..Len(made), NEW n \in 0..Len(made), Related(made, x, m, y, n)
  PROVE  Related(Append(made, move), x, m, y, n)
<1>1. m \in Nat /\ n \in Nat
  OBVIOUS
<1>2. /\ Between(Append(made, move), m, n) = Between(made, m, n)
      /\ Between(Append(made, move), n, m) = Between(made, n, m)
  BY <1>1, MovesKept
<1>3. QED
  BY <1>2 DEF Related, Compared

\* A block that is related to the newest one is related to the next.
LEMMA RelatedNext ==
  ASSUME NEW made \in Seq(Moves), NEW move \in Moves,
         NEW x \in Blocks, NEW y \in Blocks, NEW z \in Blocks,
         NEW m \in 0..Len(made), Related(made, x, m, y, Len(made)),
         move # "redeem" => \A v \in Vaults : y.shares[v] <= z.shares[v],
         move # "deposit" => \A v \in Vaults : z.shares[v] <= y.shares[v]
  PROVE  Related(Append(made, move), x, m, z, Len(made) + 1)
<1> DEFINE k == Len(made)
<1>1. k \in Nat /\ m <= k /\ ~ (k + 1 <= m) /\ m \in 0..k
  OBVIOUS
<1>2. Between(Append(made, move), m, k + 1) = Between(made, m, k) \cup {move}
  BY <1>1, MovesKept
<1>3. Compared(made, x, m, y, k)
  BY <1>1 DEF Related
<1>4. x.shares \in [Vaults -> Nat] /\ y.shares \in [Vaults -> Nat] /\ z.shares \in [Vaults -> Nat]
  BY BlockParts
<1> HIDE DEF k
<1>5. Compared(Append(made, move), x, m, z, k + 1)
  <2>1. ASSUME "redeem" \notin Between(Append(made, move), m, k + 1), NEW v \in Vaults
        PROVE  x.shares[v] <= z.shares[v]
    <3>1. move # "redeem" /\ "redeem" \notin Between(made, m, k)
      BY <1>2, <2>1
    <3>2. x.shares[v] <= y.shares[v] /\ y.shares[v] <= z.shares[v]
      BY <1>3, <3>1 DEF Compared
    <3>3. QED
      BY <1>4, <3>2
  <2>2. ASSUME "deposit" \notin Between(Append(made, move), m, k + 1), NEW v \in Vaults
        PROVE  z.shares[v] <= x.shares[v]
    <3>1. move # "deposit" /\ "deposit" \notin Between(made, m, k)
      BY <1>2, <2>2
    <3>2. y.shares[v] <= x.shares[v] /\ z.shares[v] <= y.shares[v]
      BY <1>3, <3>1 DEF Compared
    <3>3. QED
      BY <1>4, <3>2
  <2>3. QED
    BY <2>1, <2>2 DEF Compared
<1>6. QED
  BY <1>1, <1>5 DEF Related, k

\* The number of the block b, if the blocks and the moves are these.
LEMMA NumberFacts ==
  ASSUME AaveTypeOK, HistoryInv, NEW STATE b, b \in {older, chain}
  PROVE  Number(b) \in 0..Len(moves) /\ Number(chain) = Len(moves)
<1>1. moves \in Seq(Moves) /\ Len(moves) \in Nat
  BY DEF AaveTypeOK
<1>2. older # chain => Len(moves) > 0
  BY <1>1 DEF HistoryInv
<1>3. QED
  BY <1>1, <1>2 DEF Number

\* The two blocks that a provider may have are related.
LEMMA LatestRelated ==
  ASSUME AaveTypeOK, HistoryInv
  PROVE  \A x, y \in {older, chain} : Related(moves, x, Number(x), y, Number(y))
<1>1. older \in Blocks /\ chain \in Blocks /\ moves \in Seq(Moves) /\ Len(moves) \in Nat
  BY DEF AaveTypeOK
<1>2. older # chain => Related(moves, older, Number(older), chain, Number(chain))
  BY <1>1 DEF HistoryInv, Number, Related
<1>3. TAKE x, y \in {older, chain}
<1>4. CASE x = y
  <2>1. x \in Blocks
    BY <1>1
  <2>2. QED
    BY <1>4, <2>1, RelatedSelf
<1>5. CASE x # y
  <2>1. (x = older /\ y = chain) \/ (x = chain /\ y = older)
    BY <1>5
  <2>2. QED
    BY <1>2, <1>5, <2>1, RelatedBack
<1>6. QED
  BY <1>4, <1>5

\* A block keeps the invariant.
LEMMA EventStep ==
  ASSUME AaveInv, NEW move \in Moves, Mined(move)
  PROVE  AaveInv'
<1>0. AaveTypeOK /\ HistoryInv /\ KnownInv /\ MarketInv /\ SharesInv /\ PositionsInv
  BY DEF AaveInv
<1>1. /\ moves \in Seq(Moves) /\ Len(moves) \in Nat /\ chain \in Blocks /\ older \in Blocks
      /\ moves' = Append(moves, move) /\ older' = chain /\ chain' \in Blocks
  BY <1>0 DEF AaveTypeOK, Mined
<1>2. moves' \in Seq(Moves) /\ Len(moves') = Len(moves) + 1
  BY <1>1, MovesKept
<1>3. /\ commands' = commands /\ stage' = stage /\ row' = row /\ stored' = stored
      /\ saved' = saved /\ known' = known /\ knownStored' = knownStored /\ market' = market
      /\ active' = active /\ results' = results /\ positions' = positions /\ readAt' = readAt
  BY DEF Mined, rows, reads
<1>4. AaveTypeOK'
  BY <1>0, <1>1, <1>2, <1>3 DEF AaveTypeOK, Mined
<1>5. HistoryInv'
  <2>1. /\ WellFormed(chain)' /\ WellFormed(older)'
        /\ (older.listed \subseteq chain.listed)' /\ (older.vaults \subseteq chain.vaults)'
    BY <1>0, <1>1 DEF HistoryInv, Mined
  <2>2. moves' # <<>>
    BY <1>1, <1>2
  <2>3. Compared(moves', chain, Len(moves), chain', Len(moves) + 1)
    <3>1. Related(moves, chain, Len(moves), chain, Len(moves))
      BY <1>1, RelatedSelf
    <3>2. Len(moves) \in 0..Len(moves) /\ Len(moves) <= Len(moves) + 1
      BY <1>1
    <3>3. Related(moves', chain, Len(moves), chain', Len(moves) + 1)
      BY <1>1, <3>1, <3>2, RelatedNext DEF Mined
    <3>4. QED
      BY <3>2, <3>3 DEF Related
  <2>4. Len(moves') - 1 = Len(moves)
    BY <1>1, <1>2
  <2>5. QED
    BY <1>1, <1>2, <2>1, <2>2, <2>3, <2>4 DEF HistoryInv
<1>6. KnownInv'
  <2>1. older.vaults \subseteq older'.vaults
    BY <1>0, <1>1 DEF HistoryInv
  <2>2. QED
    BY <1>0, <1>3, <2>1 DEF KnownInv
<1>7. MarketInv'
  <2>1. SUFFICES ASSUME stored.reserves # {}, stage \in {"balances", "values", "shown"}
                 PROVE  (/\ WellFormed(readAt.market)
                         /\ market = AmountsOf(readAt.market)
                         /\ readAt.first \in 0..Len(moves)
                         /\ stage = "balances" =>
                              \A b \in {older, chain} :
                                Related(moves, readAt.market, readAt.first, b, Number(b))
                         /\ (stage # "balances" /\ stored.vaults # {}) =>
                              /\ readAt.second \in 0..Len(moves)
                              /\ Related(moves, readAt.market, readAt.first,
                                         readAt.balances, readAt.second))'
    BY <1>3 DEF MarketInv
  <2>2. /\ WellFormed(readAt.market) /\ market = AmountsOf(readAt.market)
        /\ readAt.first \in 0..Len(moves)
    BY <1>0, <2>1 DEF MarketInv
  <2>3. AmountsOf(readAt.market)' = AmountsOf(readAt.market)
    BY <1>3 DEF AmountsOf
  <2>4. readAt.first \in 0..Len(moves')
    BY <1>1, <1>2, <2>2
  <2>5. readAt.market \in Blocks /\ readAt.balances \in Blocks
    BY <1>0 DEF AaveTypeOK
  <2>6. ASSUME stage = "balances"
        PROVE  (\A b \in {older, chain} :
                  Related(moves, readAt.market, readAt.first, b, Number(b)))'
    <3>1. Related(moves, readAt.market, readAt.first, chain, Len(moves))
      BY <1>0, <2>1, <2>6, NumberFacts DEF MarketInv
    <3>2. Related(moves', readAt.market, readAt.first, chain', Len(moves) + 1)
      BY <1>1, <2>2, <2>5, <3>1, RelatedNext DEF Mined
    <3>3. Related(moves', readAt.market, readAt.first, chain, Len(moves))
      <4>1. Len(moves) \in 0..Len(moves)
        BY <1>1
      <4>2. QED
        BY <1>1, <2>2, <3>1, <4>1, RelatedKept
    <3>4. Number(chain)' = Len(moves) + 1
      BY <1>1, <1>2 DEF Number
    <3>5. chain # chain' => Number(older)' = Len(moves)
      BY <1>1, <1>2 DEF Number
    <3>6. QED
      BY <1>1, <1>3, <3>2, <3>3, <3>4, <3>5
  <2>7. ASSUME stage # "balances", stored.vaults # {}
        PROVE  /\ readAt.second \in 0..Len(moves')
               /\ Related(moves', readAt.market, readAt.first, readAt.balances, readAt.second)
    <3>1. /\ readAt.second \in 0..Len(moves)
          /\ Related(moves, readAt.market, readAt.first, readAt.balances, readAt.second)
      BY <1>0, <2>1, <2>7 DEF MarketInv
    <3>2. QED
      BY <1>1, <1>2, <2>2, <3>1, RelatedKept
  <2>8. QED
    BY <1>3, <2>2, <2>3, <2>4, <2>6, <2>7
<1>8. SharesInv'
  BY <1>0, <1>3 DEF SharesInv
<1>9. PositionsInv'
  BY <1>0, <1>3 DEF PositionsInv
<1>10. QED
  BY <1>4, <1>5, <1>6, <1>7, <1>8, <1>9 DEF AaveInv

\* The initial states satisfy it.
LEMMA AaveInitInv ==
  ASSUME AaveInit
  PROVE  AaveInv
<1> DEFINE Sequenced == {<<>>} \cup {<<t>> : t \in Tokens}
           Listed == {{r} : r \in Reserves}
           NoClaims == [v \in Vaults |-> [t \in Tokens |-> FALSE]]
<1>0. /\ Sequenced \subseteq Seq(Tokens) /\ Listed \subseteq SUBSET Reserves
      /\ NoClaims \in [Vaults -> [Tokens -> BOOLEAN]] /\ NoAmounts \in [Reserves -> Nat]
      /\ MaxBalance \in Nat
  <2>1. \A t \in Tokens : <<t>> \in Seq(Tokens)
    OBVIOUS
  <2>2. Sequenced \subseteq Seq(Tokens)
    <3>1. <<>> \in Seq(Tokens)
      OBVIOUS
    <3>2. ASSUME NEW x \in Sequenced
          PROVE  x \in Seq(Tokens)
      <4>1. x = <<>> \/ \E t \in Tokens : x = <<t>>
        BY Zenon
      <4>2. QED
        BY <2>1, <3>1, <4>1, Zenon
    <3>3. QED
      BY <3>2, Zenon
  <2>3. Listed \subseteq SUBSET Reserves
    OBVIOUS
  <2>4. NoClaims \in [Vaults -> [Tokens -> BOOLEAN]] /\ NoAmounts \in [Reserves -> Nat]
    BY DEF NoAmounts
  <2>5. QED
    BY <2>2, <2>3, <2>4, AaveAssumption
<1>1. /\ chain \in [listed : Listed, vaults : SUBSET Vaults, rewards : [Vaults -> Sequenced],
                    supply : [Reserves -> 0..MaxBalance], debt : {NoAmounts},
                    shares : [Vaults -> {0, 1}], claim : {NoClaims}, liquid : {TRUE}]
      /\ older = chain /\ moves = <<>>
  BY DEF AaveInit
<1> HIDE DEF Sequenced, Listed, NoClaims
<1>1a. chain \in Blocks /\ chain.debt = NoAmounts
  <2>1. /\ [Vaults -> Sequenced] \subseteq [Vaults -> Seq(Tokens)]
        /\ [Reserves -> 0..MaxBalance] \subseteq [Reserves -> Nat]
        /\ [Vaults -> {0, 1}] \subseteq [Vaults -> Nat]
    BY <1>0
  <2> DEFINE R == [Vaults -> Sequenced]
             S == [Reserves -> 0..MaxBalance]
             H == [Vaults -> {0, 1}]
  <2>2. /\ chain = [listed |-> chain.listed, vaults |-> chain.vaults, rewards |-> chain.rewards,
                    supply |-> chain.supply, debt |-> chain.debt, shares |-> chain.shares,
                    claim |-> chain.claim, liquid |-> chain.liquid]
        /\ chain.listed \in Listed /\ chain.vaults \subseteq Vaults /\ chain.rewards \in R
        /\ chain.supply \in S /\ chain.debt = NoAmounts /\ chain.shares \in H
        /\ chain.claim = NoClaims /\ chain.liquid = TRUE
    BY <1>1
  <2> HIDE DEF R, S, H
  <2>3. /\ chain.listed \subseteq Reserves /\ chain.rewards \in [Vaults -> Seq(Tokens)]
        /\ chain.supply \in [Reserves -> Nat] /\ chain.debt \in [Reserves -> Nat]
        /\ chain.shares \in [Vaults -> Nat]
        /\ chain.claim \in [Vaults -> [Tokens -> BOOLEAN]] /\ chain.liquid \in BOOLEAN
    BY <1>0, <2>1, <2>2 DEF R, S, H
  <2>4. QED
    BY <2>2, <2>3 DEF Blocks
<1>2. WellFormed(chain)
  <2>1. /\ chain.supply \in [Reserves -> Nat] /\ chain.debt = [r \in Reserves |-> 0]
    BY <1>1a, BlockParts DEF NoAmounts
  <2>2. /\ \A r \in Reserves : chain.supply[r] > 0 => r \in chain.listed
        /\ \A v \in chain.vaults : assetOf[v] \in chain.listed
        /\ \A v \in Vaults \ chain.vaults : chain.shares[v] = 0
    BY DEF AaveInit
  <2>3. QED
    BY <2>1, <2>2 DEF WellFormed
<1>3. AaveTypeOK
  <2>1. NoRow \in AaveRows /\ NoMarket \in [supply : [Reserves -> Nat], debt : [Reserves -> Nat]]
    BY DEF NoRow, AaveRows, NoMarket, NoAmounts
  <2>2. /\ commands = 0 /\ stage = "idle" /\ row = NoRow /\ stored = NoRow /\ saved = FALSE
        /\ market = NoMarket /\ active = <<>> /\ known = NoRow /\ knownStored = NoRow
        /\ readAt = [market |-> chain, balances |-> chain, first |-> 0, second |-> 0]
    BY DEF AaveInit
  <2>3. /\ active \in Seq(Item) /\ moves \in Seq(Moves) /\ Len(moves) <= MaxMoves
        /\ commands \in 0..MaxCommands
    BY <1>1, <2>2, AaveAssumption
  <2>4. readAt \in [market : Blocks, balances : Blocks, first : Nat, second : Nat]
    BY <1>1a, <2>2
  <2>5. QED
    BY <1>1, <1>1a, <2>1, <2>2, <2>3, <2>4 DEF AaveTypeOK, Finished
<1>4. HistoryInv
  BY <1>1, <1>1a, <1>2 DEF HistoryInv
<1>5. KnownInv /\ MarketInv /\ SharesInv /\ PositionsInv
  BY DEF AaveInit, KnownInv, MarketInv, SharesInv, PositionsInv, NoRow
<1>6. QED
  BY <1>3, <1>4, <1>5 DEF AaveInv

-----------------------------------------------------------------------------
(* Aave: the steps of the commands. *)

\* A command begins.
LEMMA BeginAaveStep ==
  ASSUME AaveInv, BeginAave
  PROVE  AaveInv'
<1>0. AaveTypeOK /\ HistoryInv /\ KnownInv
  BY DEF AaveInv
<1>1. /\ chain' = chain /\ older' = older /\ moves' = moves /\ stored' = stored
      /\ saved' = saved /\ known' = known /\ knownStored' = knownStored /\ readAt' = readAt
      /\ row' = NoRow /\ market' = NoMarket /\ active' = <<>> /\ results' = <<>>
      /\ positions' = <<>> /\ commands < MaxCommands /\ commands' = commands + 1
  BY DEF BeginAave
<1>2. \/ stage' \in {"reserves", "failed"}
      \/ stage' = "market" /\ stored.reserves # {}
      \/ stage' = "balances" /\ stored.reserves = {} /\ stored.vaults # {}
      \/ stage' = "shown" /\ stored.reserves = {} /\ stored.vaults = {}
  BY DEF BeginAave
<1>3. AaveTypeOK'
  <2>1. NoRow \in AaveRows /\ NoMarket \in [supply : [Reserves -> Nat], debt : [Reserves -> Nat]]
    BY DEF NoRow, AaveRows, NoMarket, NoAmounts
  <2>2. commands' \in 0..MaxCommands /\ active' \in Seq(Item)
    BY <1>0, <1>1, AaveAssumption DEF AaveTypeOK
  <2>3. stage' \in Finished \cup {"reserves", "vaults", "basics", "save", "market", "balances", "values"}
    BY <1>2 DEF Finished
  <2>4. QED
    BY <1>0, <1>1, <2>1, <2>2, <2>3 DEF AaveTypeOK
<1>4. HistoryInv'
  BY <1>0, <1>1 DEF HistoryInv
<1>5. KnownInv'
  BY <1>0, <1>1, <1>2 DEF KnownInv
<1>6. MarketInv'
  BY <1>1, <1>2 DEF MarketInv
<1>7. SharesInv'
  BY <1>1, <1>2 DEF SharesInv
<1>8. PositionsInv'
  BY <1>1, <1>2 DEF PositionsInv
<1>9. QED
  BY <1>3, <1>4, <1>5, <1>6, <1>7, <1>8 DEF AaveInv

\* The sync changes nothing of what positions has read, and is never at the end of it.
LEMMA SyncingStep ==
  ASSUME AaveInv, UNCHANGED <<chain, older, moves, commands, reads>>,
         {row', stored', known', knownStored'} \subseteq AaveRows, saved' \in BOOLEAN,
         stage' \in {"vaults", "basics", "save", "synced", "failed"}, KnownInv'
  PROVE  AaveInv'
<1>0. AaveTypeOK /\ HistoryInv
  BY DEF AaveInv
<1>1. AaveTypeOK'
  BY <1>0 DEF AaveTypeOK, Finished, reads
<1>2. HistoryInv'
  BY <1>0 DEF HistoryInv
<1>3. MarketInv' /\ SharesInv' /\ PositionsInv'
  BY DEF MarketInv, SharesInv, PositionsInv
<1>4. QED
  BY <1>1, <1>2, <1>3 DEF AaveInv

\* The sync reads the reserves, the vaults and their reward tokens, and saves them.
LEMMA SyncStep ==
  ASSUME AaveInv, ReserveSeeds \/ VaultSeeds \/ VaultBasics \/ SaveRows \/ BatchFails
  PROVE  AaveInv'
<1>0. AaveTypeOK /\ HistoryInv /\ KnownInv
  BY DEF AaveInv
<1>1. /\ chain \in Blocks /\ older \in Blocks /\ row \in AaveRows /\ stored \in AaveRows
      /\ known \in AaveRows /\ knownStored \in AaveRows /\ saved \in BOOLEAN
  BY <1>0 DEF AaveTypeOK
<1>2. \A at \in {older, chain} :
         /\ at.listed \subseteq Reserves /\ at.vaults \subseteq Vaults
         /\ at.rewards \in [Vaults -> Seq(Tokens)]
         /\ older.listed \subseteq at.listed /\ older.vaults \subseteq at.vaults
  BY <1>0, <1>1, BlockParts DEF HistoryInv
<1>3. /\ row.reserves \subseteq Reserves /\ row.vaults \subseteq Vaults
      /\ row.rewards \in [Vaults -> Seq(Tokens)]
  BY <1>1 DEF AaveRows
<1>4. CASE ReserveSeeds
  <2>1. PICK at \in {older, chain} : row' = [row EXCEPT !.reserves = at.listed]
    BY <1>4 DEF ReserveSeeds
  <2>2. row' \in AaveRows /\ row'.reserves = at.listed
    BY <1>1, <1>2, <2>1 DEF AaveRows
  <2>3. /\ known' = [reserves |-> older.listed, vaults |-> older.vaults, rewards |-> older.rewards]
        /\ stage' = "vaults" /\ UNCHANGED syncing
    BY <1>4 DEF ReserveSeeds
  <2>4. known' \in AaveRows
    BY <1>2, <2>3 DEF AaveRows
  <2>5. /\ known'.reserves \subseteq row'.reserves /\ known'.vaults \subseteq older.vaults
    BY <1>2, <2>2, <2>3
  <2>6. KnownInv'
    BY <1>0, <2>3, <2>5 DEF KnownInv, syncing
  <2>7. QED
    BY <1>1, <2>2, <2>3, <2>4, <2>6, SyncingStep DEF syncing
<1>5. CASE VaultSeeds
  <2>1. PICK at \in {older, chain} : row' = [row EXCEPT !.vaults = at.vaults]
    BY <1>5 DEF VaultSeeds
  <2>2. row' \in AaveRows /\ row'.vaults = at.vaults /\ row'.reserves = row.reserves
    BY <1>1, <1>2, <2>1 DEF AaveRows
  <2>3. stage = "vaults" /\ stage' = "basics" /\ UNCHANGED <<syncing, known>>
    BY <1>5 DEF VaultSeeds
  <2>4. /\ known.reserves \subseteq row'.reserves /\ known.vaults \subseteq row'.vaults
    BY <1>0, <1>2, <2>2, <2>3 DEF KnownInv
  <2>5. KnownInv'
    BY <1>0, <2>3, <2>4 DEF KnownInv, syncing
  <2>6. QED
    BY <1>1, <2>2, <2>3, <2>5, SyncingStep DEF syncing
<1>6. CASE VaultBasics
  <2> DEFINE rewards(at) == [v \in Vaults |-> IF v \in row.vaults THEN at.rewards[v] ELSE <<>>]
  <2>1. PICK at \in {older, chain} : row' = [row EXCEPT !.rewards = rewards(at)]
    BY <1>6 DEF VaultBasics
  <2>2. rewards(at) \in [Vaults -> Seq(Tokens)]
    BY <1>2
  <2>3. row' \in AaveRows /\ row'.vaults = row.vaults /\ row'.reserves = row.reserves
    <3> HIDE DEF rewards
    <3>1. QED
      BY <1>1, <2>1, <2>2 DEF AaveRows
  <2>4. stage = "basics" /\ stage' = "save" /\ UNCHANGED <<syncing, known>>
    BY <1>6 DEF VaultBasics
  <2>5. KnownInv'
    BY <1>0, <2>3, <2>4 DEF KnownInv, syncing
  <2>6. QED
    BY <1>1, <2>3, <2>4, <2>5, SyncingStep DEF syncing
<1>7. CASE SaveRows
  <2>1. /\ stage = "save" /\ stored' = row /\ saved' = TRUE /\ knownStored' = known
        /\ stage' = "synced"
        /\ UNCHANGED <<chain, older, moves, commands, row, reads, known>>
    BY <1>7 DEF SaveRows
  <2>2. KnownInv'
    BY <1>0, <2>1 DEF KnownInv
  <2>3. QED
    BY <1>1, <2>1, <2>2, SyncingStep
<1>8. CASE BatchFails
  <2>1. stage' = "failed" /\ UNCHANGED <<syncing, row, known>>
    BY <1>8 DEF BatchFails
  <2>2. KnownInv'
    BY <1>0, <2>1 DEF KnownInv, syncing
  <2>3. QED
    BY <1>1, <2>1, <2>2, SyncingStep DEF syncing
<1>9. QED
  BY <1>4, <1>5, <1>6, <1>7, <1>8

\* The first batch of positions.
LEMMA MarketStep ==
  ASSUME AaveInv, MarketPosition
  PROVE  AaveInv'
<1>0. AaveTypeOK /\ HistoryInv /\ KnownInv /\ SharesInv /\ PositionsInv
  BY DEF AaveInv
<1>1. /\ chain \in Blocks /\ older \in Blocks /\ stored \in AaveRows
      /\ readAt \in [market : Blocks, balances : Blocks, first : Nat, second : Nat]
      /\ moves \in Seq(Moves) /\ Len(moves) \in Nat
  BY <1>0 DEF AaveTypeOK
<1>2. PICK at \in {older, chain} :
             /\ market' = AmountsOf(at)
             /\ readAt' = [readAt EXCEPT !.market = at, !.first = Number(at)]
  BY DEF MarketPosition
<1>3. /\ stage = "market" /\ stage' = IF stored.vaults = {} THEN "shown" ELSE "balances"
      /\ chain' = chain /\ older' = older /\ moves' = moves /\ commands' = commands
      /\ row' = row /\ stored' = stored /\ saved' = saved /\ known' = known
      /\ knownStored' = knownStored /\ active' = active /\ results' = results
      /\ positions' = positions
  BY DEF MarketPosition, fetching, rows
<1>4. at \in Blocks /\ WellFormed(at) /\ Number(at) \in 0..Len(moves)
  BY <1>0, <1>1, NumberFacts DEF HistoryInv
<1>5. /\ readAt'.market = at /\ readAt'.first = Number(at)
      /\ readAt' \in [market : Blocks, balances : Blocks, first : Nat, second : Nat]
  <2>1. Number(at) \in Nat
    BY <1>1, <1>4
  <2>2. readAt' = [market |-> at, balances |-> readAt.balances,
                   first |-> Number(at), second |-> readAt.second]
    BY <1>1, <1>2
  <2>3. readAt.balances \in Blocks /\ readAt.second \in Nat
    BY <1>1
  <2>4. QED
    BY <1>4, <2>1, <2>2, <2>3
<1>6. AmountsOf(at) \in [supply : [Reserves -> Nat], debt : [Reserves -> Nat]]
  <2>1. at.supply \in [Reserves -> Nat] /\ at.debt \in [Reserves -> Nat]
    BY <1>4, BlockParts
  <2>2. QED
    BY <2>1 DEF AmountsOf
<1>7. AaveTypeOK'
  BY <1>0, <1>2, <1>3, <1>5, <1>6 DEF AaveTypeOK, Finished
<1>8. HistoryInv'
  BY <1>0, <1>3 DEF HistoryInv
<1>9. KnownInv'
  BY <1>0, <1>3 DEF KnownInv
<1>10. MarketInv'
  <2>1. \A b \in {older, chain} : Related(moves, at, Number(at), b, Number(b))
    BY <1>0, LatestRelated
  <2>2. \A b \in {older, chain} : Number(b)' = Number(b)
    BY <1>3 DEF Number
  <2>3. (\A b \in {older, chain} :
           Related(moves, readAt.market, readAt.first, b, Number(b)))'
    BY <1>3, <1>5, <2>1, <2>2
  <2>4. AmountsOf(readAt.market)' = AmountsOf(at)
    BY <1>3, <1>5 DEF AmountsOf
  <2>5. QED
    BY <1>2, <1>3, <1>4, <1>5, <2>3, <2>4 DEF MarketInv
<1>11. SharesInv'
  BY <1>0, <1>3 DEF SharesInv
<1>12. PositionsInv'
  <2>1. active = <<>> /\ positions = <<>>
    BY <1>0, <1>3 DEF SharesInv, PositionsInv
  <2>2. QED
    BY <1>3, <2>1 DEF PositionsInv
<1>13. QED
  BY <1>7, <1>8, <1>9, <1>10, <1>11, <1>12 DEF AaveInv

\* The second.
LEMMA BalancesStep ==
  ASSUME AaveInv, VaultBalances
  PROVE  AaveInv'
<1>0. AaveTypeOK /\ HistoryInv /\ KnownInv /\ MarketInv /\ PositionsInv
  BY DEF AaveInv
<1>1. /\ chain \in Blocks /\ older \in Blocks /\ stored \in AaveRows
      /\ readAt \in [market : Blocks, balances : Blocks, first : Nat, second : Nat]
      /\ moves \in Seq(Moves) /\ Len(moves) \in Nat
  BY <1>0 DEF AaveTypeOK
<1> DEFINE With(at) == {v \in stored.vaults : at.shares[v] > 0}
           Items(order, at) ==
             [i \in DOMAIN order |-> [vault |-> order[i], shares |-> at.shares[order[i]]]]
<1>2. PICK at \in {older, chain} :
             /\ \E order \in SetToSeqs(With(at)) : active' = Items(order, at)
             /\ readAt' = [readAt EXCEPT !.balances = at, !.second = Number(at)]
  BY DEF VaultBalances
<1>3. PICK order \in SetToSeqs(With(at)) : active' = Items(order, at)
  BY <1>2
<1>4. /\ stage = "balances" /\ stage' = IF active' = <<>> THEN "shown" ELSE "values"
      /\ chain' = chain /\ older' = older /\ moves' = moves /\ commands' = commands
      /\ row' = row /\ stored' = stored /\ saved' = saved /\ known' = known
      /\ knownStored' = knownStored /\ market' = market /\ results' = results
      /\ positions' = positions
  BY DEF VaultBalances, fetching, rows
<1>5. at \in Blocks /\ WellFormed(at) /\ Number(at) \in 0..Len(moves)
  BY <1>0, <1>1, NumberFacts DEF HistoryInv
<1>6. /\ readAt'.balances = at /\ readAt'.second = Number(at)
      /\ readAt'.market = readAt.market /\ readAt'.first = readAt.first
      /\ readAt' \in [market : Blocks, balances : Blocks, first : Nat, second : Nat]
  <2>1. Number(at) \in Nat
    BY <1>1, <1>5
  <2>2. readAt' = [market |-> readAt.market, balances |-> at,
                   first |-> readAt.first, second |-> Number(at)]
    BY <1>1, <1>2
  <2>3. readAt.market \in Blocks /\ readAt.first \in Nat
    BY <1>1
  <2>4. QED
    BY <1>5, <2>1, <2>2, <2>3
<1>7. stored.vaults \subseteq Vaults /\ at.shares \in [Vaults -> Nat]
  BY <1>1, <1>5, BlockParts DEF AaveRows
<1>8. /\ order \in Seq(With(at))
      /\ \A i, j \in DOMAIN order : i # j => order[i] # order[j]
      /\ \A v \in With(at) : \E i \in DOMAIN order : order[i] = v
  <2>1. With(at) \subseteq Vaults
    BY <1>7
  <2>2. IsFiniteSet(With(at))
    BY <2>1, AaveAssumption, FS_Subset
  <2> HIDE DEF With
  <2>3. QED
    BY <2>2, OrderFacts
<1>9. /\ DOMAIN active' = DOMAIN order
      /\ \A i \in DOMAIN order : /\ order[i] \in With(at) /\ active'[i].vault = order[i]
                                 /\ active'[i].shares = at.shares[order[i]]
                                 /\ active'[i] \in Item
  <2>1. \A i \in DOMAIN order : order[i] \in With(at)
    <3> HIDE DEF With
    <3>1. QED
      BY <1>8
  <2>2. QED
    BY <1>3, <1>7, <2>1 DEF Item
<1>10. active' \in Seq(Item)
  <2>1. DOMAIN order = 1..Len(order) /\ Len(order) \in Nat
    <3> HIDE DEF With
    <3>1. QED
      BY <1>8
  <2>2. active' = [i \in DOMAIN active' |-> active'[i]]
    BY <1>3
  <2>3. active' \in [1..Len(order) -> Item]
    BY <1>9, <2>1, <2>2
  <2>4. QED
    BY <2>1, <2>3
<1>11. AaveTypeOK'
  BY <1>0, <1>4, <1>6, <1>10 DEF AaveTypeOK, Finished
<1>12. HistoryInv'
  BY <1>0, <1>4 DEF HistoryInv
<1>13. KnownInv'
  BY <1>0, <1>4 DEF KnownInv
<1>14. MarketInv'
  <2>1. stored.reserves # {} =>
          /\ WellFormed(readAt.market) /\ market = AmountsOf(readAt.market)
          /\ readAt.first \in 0..Len(moves)
          /\ Related(moves, readAt.market, readAt.first, at, Number(at))
    BY <1>0, <1>4 DEF MarketInv
  <2>2. AmountsOf(readAt.market)' = AmountsOf(readAt.market)
    BY <1>4, <1>6 DEF AmountsOf
  <2>3. QED
    BY <1>4, <1>5, <1>6, <2>1, <2>2 DEF MarketInv
<1>15. SharesInv'
  <2>1. \A i, j \in DOMAIN active' : i # j => active'[i].vault # active'[j].vault
    BY <1>8, <1>9
  <2>2. \A i \in DOMAIN active' : active'[i].shares = at.shares[active'[i].vault]
    BY <1>9
  <2>3. \A v \in stored.vaults : at.shares[v] > 0 => \E i \in DOMAIN active' : active'[i].vault = v
    <3>1. TAKE v \in stored.vaults
    <3>2. HAVE at.shares[v] > 0
    <3>3. v \in With(at)
      BY <3>2
    <3> HIDE DEF With
    <3>4. PICK i \in DOMAIN order : order[i] = v
      BY <1>8, <3>3
    <3>5. QED
      BY <1>9, <3>4
  <2>4. stage' \notin {"market", "balances"}
    BY <1>4
  <2>5. QED
    BY <1>4, <1>5, <1>6, <2>1, <2>2, <2>3, <2>4 DEF SharesInv
<1>16. PositionsInv'
  <2>1. positions = <<>>
    BY <1>0, <1>4 DEF PositionsInv
  <2>2. active' # <<>> => stored.vaults # {}
    <3>1. ASSUME active' # <<>>
          PROVE  stored.vaults # {}
      <4>1. Len(active') # 0 /\ Len(active') \in Nat /\ DOMAIN active' = 1..Len(active')
        BY <1>10, <3>1
      <4>2. 1 \in DOMAIN active'
        BY <4>1
      <4>3. order[1] \in With(at)
        BY <1>9, <4>2
      <4>4. QED
        BY <4>3
    <3>2. QED
      BY <3>1
  <2>3. CASE active' = <<>>
    BY <1>4, <2>1, <2>3 DEF PositionsInv
  <2>4. CASE active' # <<>>
    BY <1>4, <2>1, <2>2, <2>4 DEF PositionsInv
  <2>5. QED
    BY <2>3, <2>4
<1>17. QED
  BY <1>11, <1>12, <1>13, <1>14, <1>15, <1>16 DEF AaveInv

\* The third.
LEMMA ValuesStep ==
  ASSUME AaveInv, VaultValues
  PROVE  AaveInv'
<1>0. AaveTypeOK /\ HistoryInv /\ KnownInv /\ MarketInv /\ SharesInv /\ PositionsInv
  BY DEF AaveInv
<1> DEFINE origin == [next |-> 1, shown |-> <<>>]
           list(at) == FlattenSeq([i \in DOMAIN active |-> Values(active[i], at)])
<1>1. PICK at \in {older, chain} : results' = list(at)
  BY DEF VaultValues
<1>2. positions' = VaultsWalked(results', origin, active).shown
  BY Zenon DEF VaultValues, VaultsWalked
<1>3. /\ stage = "values" /\ stage' = "shown"
      /\ chain' = chain /\ older' = older /\ moves' = moves /\ commands' = commands
      /\ row' = row /\ stored' = stored /\ saved' = saved /\ known' = known
      /\ knownStored' = knownStored /\ market' = market /\ active' = active
      /\ readAt' = readAt
  BY DEF VaultValues, fetching, rows
<1>4. AaveTypeOK'
  BY <1>0, <1>3 DEF AaveTypeOK, Finished
<1>5. HistoryInv'
  BY <1>0, <1>3 DEF HistoryInv
<1>6. KnownInv'
  BY <1>0, <1>3 DEF KnownInv
<1>7. MarketInv'
  <2>1. AmountsOf(readAt.market)' = AmountsOf(readAt.market)
    BY <1>3 DEF AmountsOf
  <2>2. QED
    BY <1>0, <1>3, <2>1 DEF MarketInv
<1>8. SharesInv'
  BY <1>0, <1>3 DEF SharesInv
<1>9. PositionsInv'
  <2>1. /\ stored \in AaveRows /\ at \in Blocks /\ active \in Seq(Item)
        /\ active # <<>> /\ stored.vaults # {}
    BY <1>0, <1>3 DEF AaveTypeOK, PositionsInv
  <2>2. \A i, j \in DOMAIN active : i # j => active[i].vault # active[j].vault
    BY <1>0, <1>3, <2>1 DEF SharesInv
  <2>3. /\ DOMAIN VaultsWalked(list(at), origin, active).shown = DOMAIN active
        /\ \A i \in DOMAIN active :
             Matches(active[i], VaultsWalked(list(at), origin, active).shown[i], list(at))
    BY <2>1, <2>2, WalkMatches
  <2> HIDE DEF list, origin
  <2>4. /\ DOMAIN positions' = DOMAIN active
        /\ \A i \in DOMAIN active : Matches(active[i], positions'[i], results')
    BY <1>1, <1>2, <2>3
  <2>5. QED
    BY <1>3, <2>4 DEF PositionsInv
<1>10. QED
  BY <1>4, <1>5, <1>6, <1>7, <1>8, <1>9 DEF AaveInv

-----------------------------------------------------------------------------
(* Aave: the theorems. *)

\* Every step keeps the invariant.
LEMMA AaveStep ==
  ASSUME AaveInv, [AaveNext]_aaveVars
  PROVE  AaveInv'
<1>0. AaveTypeOK /\ HistoryInv
  BY DEF AaveInv
<1>1. CASE Governance
  BY <1>0, <1>1, GovernanceEvent, EventStep
<1>2. CASE Wallet
  BY <1>0, <1>2, WalletEvent, EventStep
<1>3. CASE BeginAave
  BY <1>3, BeginAaveStep
<1>4. CASE ReserveSeeds \/ VaultSeeds \/ VaultBasics \/ SaveRows \/ BatchFails
  BY <1>4, SyncStep
<1>5. CASE MarketPosition
  BY <1>5, MarketStep
<1>6. CASE VaultBalances
  BY <1>6, BalancesStep
<1>7. CASE VaultValues
  BY <1>7, ValuesStep
<1>8. CASE UNCHANGED aaveVars
  <2>1. /\ chain' = chain /\ older' = older /\ moves' = moves /\ commands' = commands
        /\ stage' = stage /\ row' = row /\ stored' = stored /\ saved' = saved
        /\ known' = known /\ knownStored' = knownStored /\ market' = market
        /\ active' = active /\ results' = results /\ positions' = positions /\ readAt' = readAt
    BY <1>8 DEF aaveVars, rows, reads
  <2>2. AmountsOf(readAt.market)' = AmountsOf(readAt.market)
    BY <2>1 DEF AmountsOf
  <2>3. \A b \in {older, chain} : Number(b)' = Number(b)
    BY <2>1 DEF Number
  <2>4. AaveTypeOK' /\ HistoryInv' /\ KnownInv'
    BY <2>1 DEF AaveInv, AaveTypeOK, HistoryInv, KnownInv
  <2>5. MarketInv'
    BY <2>1, <2>2, <2>3 DEF AaveInv, MarketInv
  <2>6. SharesInv' /\ PositionsInv'
    BY <2>1 DEF AaveInv, SharesInv, PositionsInv
  <2>7. QED
    BY <2>4, <2>5, <2>6 DEF AaveInv
<1>9. QED
  BY <1>1, <1>2, <1>3, <1>4, <1>5, <1>6, <1>7, <1>8 DEF AaveNext

\* The invariant holds in every reachable state, for every set of reserves, vaults and
\* reward tokens and every bound.
THEOREM AaveInvariant == AaveSpec => []AaveInv
<1>1. AaveInit => AaveInv
  BY AaveInitInv
<1>2. AaveInv /\ [AaveNext]_aaveVars => AaveInv'
  BY AaveStep
<1>3. QED
  BY <1>1, <1>2, PTL DEF AaveSpec

\* What is cached and shown of Aave always has its type.
THEOREM AaveTypeCorrect == AaveSpec => []AaveTypeOK
<1>1. AaveInv => AaveTypeOK
  BY DEF AaveInv
<1>2. QED
  BY <1>1, AaveInvariant, PTL

\* Every amount that aave-v3 shows of a vault is from the result of the call that was
\* made for it, and no claim is left out (Fetch, the walk over the third batch).
THEOREM ResultsAlwaysMatch == AaveSpec => []ResultsMatch
<1>1. AaveInv => ResultsMatch
  <2>1. SUFFICES ASSUME AaveInv, stage = "shown", NEW i \in DOMAIN positions
                 PROVE  LET p == positions[i]
                            claims == {p.rewards[j].result : j \in DOMAIN p.rewards}
                        IN /\ p.underlying.vault = p.vault /\ p.underlying.call = "previewRedeem"
                           /\ \A j \in DOMAIN p.rewards :
                                p.rewards[j].token = p.rewards[j].result.token
                           /\ claims = {c \in ToSet(results) :
                                          c.vault = p.vault /\ c.call = "reward" /\ c.value > 0}
    BY DEF ResultsMatch
  <2>2. Matches(active[i], positions[i], results)
    BY <2>1 DEF AaveInv, PositionsInv
  <2> DEFINE p == positions[i]
             item == active[i]
  <2> HIDE DEF p, item
  <2>3. /\ p.vault = item.vault
        /\ p.underlying = [vault |-> item.vault, call |-> "previewRedeem", token |-> "",
                           value |-> item.shares]
        /\ \A j \in DOMAIN p.rewards : p.rewards[j].token = p.rewards[j].result.token
        /\ {p.rewards[j].result : j \in DOMAIN p.rewards}
             = {c \in ToSet(results) : c.vault = item.vault /\ c.call = "reward" /\ c.value > 0}
    BY <2>2, Zenon DEF Matches, p, item
  <2>4. p.underlying.vault = p.vault /\ p.underlying.call = "previewRedeem"
    <3> DEFINE u == p.underlying
    <3>1. u = [vault |-> item.vault, call |-> "previewRedeem", token |-> "", value |-> item.shares]
      BY <2>3, Zenon
    <3> HIDE DEF u
    <3>2. u.vault = item.vault /\ u.call = "previewRedeem"
      BY <3>1
    <3>3. QED
      BY <2>3, <3>2, Zenon DEF u
  <2>5. QED
    BY <2>3, <2>4 DEF p
<1>2. QED
  BY <1>1, AaveInvariant, PTL

\* What is read of the cached reserves is all that the wallet has in the market, if
\* every listed reserve is cached.
LEMMA NothingUnlisted ==
  ASSUME AaveInv, stage = "shown", stored.reserves # {},
         readAt.market.listed \subseteq stored.reserves
  PROVE  market.supply = readAt.market.supply /\ market.debt = readAt.market.debt
<1> DEFINE b == readAt.market
<1>1. b \in Blocks /\ WellFormed(b) /\ market = AmountsOf(b)
  BY DEF AaveInv, AaveTypeOK, MarketInv
<1>2. b.supply \in [Reserves -> Nat] /\ b.debt \in [Reserves -> Nat]
  BY <1>1, BlockParts
<1>3. \A r \in Reserves : r \notin stored.reserves => b.supply[r] = 0 /\ b.debt[r] = 0
  BY <1>1, <1>2 DEF WellFormed
<1> HIDE DEF b
<1>4. /\ market.supply = [r \in Reserves |-> IF r \in stored.reserves THEN b.supply[r] ELSE 0]
      /\ market.debt = [r \in Reserves |-> IF r \in stored.reserves THEN b.debt[r] ELSE 0]
  BY <1>1 DEF AmountsOf
<1>5. QED
  BY <1>2, <1>3, <1>4 DEF b

\* What is shown of the vaults adds up to what the wallet has in them, if every vault
\* of the block is cached: what it shows of their shares and of their underlying.
LEMMA VaultsAddUp ==
  ASSUME AaveInv, stage = "shown", stored.vaults # {},
         readAt.balances.vaults \subseteq stored.vaults
  PROVE  /\ Sum([i \in DOMAIN positions |-> positions[i].shares], DOMAIN positions)
              = Sum(readAt.balances.shares, Vaults)
         /\ Sum([i \in DOMAIN positions |-> positions[i].underlying.value], DOMAIN positions)
              = Sum(readAt.balances.shares, Vaults)
<1> DEFINE b == readAt.balances
           n == Len(active)
           p == [i \in 1..n |-> active[i].vault]
           g == [i \in 1..n |-> active[i].shares]
<1>1. /\ b \in Blocks /\ WellFormed(b)
      /\ active \in Seq(Item) /\ n \in Nat /\ DOMAIN active = 1..n
      /\ \A i, j \in 1..n : i # j => active[i].vault # active[j].vault
      /\ \A i \in 1..n : active[i].shares = b.shares[active[i].vault]
      /\ \A v \in stored.vaults : b.shares[v] > 0 => \E i \in 1..n : active[i].vault = v
  <2>1. b \in Blocks /\ active \in Seq(Item)
    BY DEF AaveInv, AaveTypeOK
  <2>2. n \in Nat /\ DOMAIN active = 1..n
    BY <2>1
  <2> HIDE DEF n
  <2>3. QED
    BY <2>1, <2>2 DEF AaveInv, SharesInv
<1>2. /\ DOMAIN positions = 1..n
      /\ \A i \in 1..n : /\ positions[i].shares = active[i].shares
                         /\ positions[i].underlying.value = active[i].shares
  <2>1. /\ DOMAIN positions = DOMAIN active
        /\ \A i \in DOMAIN active : Matches(active[i], positions[i], results)
    BY DEF AaveInv, PositionsInv
  <2>2. ASSUME NEW i \in DOMAIN active
        PROVE  /\ positions[i].shares = active[i].shares
               /\ positions[i].underlying.value = active[i].shares
    <3>1. /\ positions[i].shares = active[i].shares
          /\ positions[i].underlying = [vault |-> active[i].vault, call |-> "previewRedeem",
                                        token |-> "", value |-> active[i].shares]
      BY <2>1, Zenon DEF Matches
    <3> DEFINE u == positions[i].underlying
    <3> HIDE DEF u
    <3>2. u = [vault |-> active[i].vault, call |-> "previewRedeem", token |-> "",
               value |-> active[i].shares]
      BY <3>1, Zenon DEF u
    <3>3. u.value = active[i].shares
      BY <3>2
    <3>4. QED
      BY <3>1, <3>3, Zenon DEF u
  <2>3. QED
    BY <1>1, <2>1, <2>2
<1>3. b.shares \in [Vaults -> Nat] /\ b.vaults \subseteq Vaults
  BY <1>1, BlockParts
<1>4. \A v \in Vaults : b.shares[v] > 0 => \E i \in 1..n : active[i].vault = v
  <2>1. \A v \in Vaults : v \notin b.vaults => b.shares[v] = 0
    BY <1>1 DEF WellFormed
  <2>2. QED
    BY <1>1, <1>3, <2>1
<1>5. \A i \in 1..n : active[i].vault \in Vaults /\ active[i].shares \in Nat
  <2>1. \A i \in 1..n : active[i] \in Item
    BY <1>1
  <2>2. QED
    BY <2>1 DEF Item
<1> DEFINE f == b.shares
<1> HIDE DEF n, b
<1>6. Numbered(f, Vaults, p, g, n)
  BY <1>1, <1>3, <1>4, <1>5 DEF Numbered
<1>7. /\ [i \in DOMAIN positions |-> positions[i].shares] = g
      /\ [i \in DOMAIN positions |-> positions[i].underlying.value] = g
  BY <1>2
<1> HIDE DEF p, g, f
<1>8. SumFunctionOnSet(g, 1..n) = SumFunctionOnSet(f, Vaults)
  BY <1>1, <1>6, AaveAssumption, SumReindex
<1>9. QED
  BY <1>2, <1>7, <1>8 DEF Sum, f, b

\* What aave-v3 shows adds up to what the wallet had, in the block of each batch, in
\* the reserves and vaults that were known when the sync that wrote the rows began.
THEOREM HoldingsAlwaysAddUp == AaveSpec => []HoldingsAddUp
<1>1. AaveInv => HoldingsAddUp
  <2>1. SUFFICES ASSUME AaveInv, stage = "shown"
                 PROVE  /\ (stored.reserves # {}
                            /\ readAt.market.listed \subseteq knownStored.reserves) =>
                             /\ Sum(market.supply, Reserves) = Sum(readAt.market.supply, Reserves)
                             /\ Sum(market.debt, Reserves) = Sum(readAt.market.debt, Reserves)
                        /\ (stored.vaults # {}
                            /\ readAt.balances.vaults \subseteq knownStored.vaults) =>
                             Sum([i \in DOMAIN positions |-> positions[i].shares], DOMAIN positions)
                               = Sum(readAt.balances.shares, Vaults)
    BY DEF HoldingsAddUp
  <2>2. /\ knownStored.reserves \subseteq stored.reserves
        /\ knownStored.vaults \subseteq stored.vaults
    BY <2>1 DEF AaveInv, KnownInv
  <2>3. ASSUME stored.reserves # {}, readAt.market.listed \subseteq knownStored.reserves
        PROVE  market.supply = readAt.market.supply /\ market.debt = readAt.market.debt
    BY <2>1, <2>2, <2>3, NothingUnlisted
  <2>4. ASSUME stored.vaults # {}, readAt.balances.vaults \subseteq knownStored.vaults
        PROVE  Sum([i \in DOMAIN positions |-> positions[i].shares], DOMAIN positions)
                 = Sum(readAt.balances.shares, Vaults)
    BY <2>1, <2>2, <2>4, VaultsAddUp
  <2>5. QED
    BY <2>3, <2>4
<1>2. QED
  BY <1>1, AaveInvariant, PTL

\* The lesser and the greater of two numbers.
LEMMA LesserGreater ==
  ASSUME NEW m \in Nat, NEW n \in Nat, m <= n
  PROVE  /\ Min({m, n}) = m /\ Max({m, n}) = n /\ Min({n, m}) = m /\ Max({n, m}) = n
<1>1. {n, m} = {m, n}
  OBVIOUS
<1>2. Min({m, n}) = m
  <2>1. Min({m, n}) \in {m, n} /\ \A y \in {m, n} : Min({m, n}) <= y
    BY DEF Min
  <2>2. QED
    BY <2>1
<1>3. Max({m, n}) = n
  <2>1. Max({m, n}) \in {m, n} /\ \A y \in {m, n} : Max({m, n}) >= y
    BY DEF Max
  <2>2. QED
    BY <2>1
<1>4. QED
  BY <1>1, <1>2, <1>3

\* aTokens that the wallet moves between the two batches are counted twice or lost,
\* but not both: which of them depends only on the direction of the move and on
\* which batch was answered with the earlier block.
THEOREM AaveCountedOnce == AaveSpec => []CountedOnce
<1>1. AaveInv => CountedOnce
  <2> DEFINE rm == readAt.market
             rb == readAt.balances
             first == readAt.first
             second == readAt.second
             between == {moves[i] : i \in (Min({first, second}) + 1)..Max({first, second})}
             shown == [i \in DOMAIN positions |-> positions[i].underlying.value]
             owned == Sum(rm.supply, Reserves) + Sum(rm.shares, Vaults)
             reported == Sum(market.supply, Reserves) + Sum(shown, DOMAIN positions)
             gained == IF first <= second THEN "deposit" ELSE "redeem"
             lost == IF first <= second THEN "redeem" ELSE "deposit"
  <2>1. SUFFICES ASSUME AaveInv, stage = "shown", stored.reserves # {}, stored.vaults # {},
                        rm.listed \subseteq stored.reserves,
                        rm.vaults \cup rb.vaults \subseteq stored.vaults
                 PROVE  /\ lost \notin between => reported >= owned
                        /\ gained \notin between => reported <= owned
    BY DEF CountedOnce
  <2>2. /\ rm \in Blocks /\ rb \in Blocks /\ first \in Nat /\ second \in Nat
        /\ Related(moves, rm, first, rb, second)
    BY <2>1 DEF AaveInv, AaveTypeOK, MarketInv
  <2>3. market.supply = rm.supply /\ Sum(shown, DOMAIN positions) = Sum(rb.shares, Vaults)
    BY <2>1, NothingUnlisted, VaultsAddUp
  <2> HIDE DEF rm, rb, first, second, shown
  <2>4. /\ rm.supply \in [Reserves -> Nat]
        /\ rm.shares \in [Vaults -> Nat] /\ rb.shares \in [Vaults -> Nat]
    BY <2>2, BlockParts
  <2> DEFINE s == Sum(rm.supply, Reserves)
             x == Sum(rm.shares, Vaults)
             y == Sum(rb.shares, Vaults)
  <2>5. s \in Nat /\ x \in Nat /\ y \in Nat
    <3>1. Reserves \in SUBSET Reserves /\ Vaults \in SUBSET Vaults
      OBVIOUS
    <3>2. QED
      BY <2>4, <3>1, SumSubset, AaveAssumption DEF Sum
  <2>6. owned = s + x /\ reported = s + y
    BY <2>3
  <2>7. ASSUME \A v \in Vaults : rm.shares[v] <= rb.shares[v]
        PROVE  x <= y
    <3>1. rm.shares \in [Vaults -> Int] /\ rb.shares \in [Vaults -> Int] /\ Vaults \in SUBSET Vaults
      BY <2>4
    <3>2. QED
      BY <2>7, <3>1, SumMonotone, AaveAssumption DEF Sum
  <2>8. ASSUME \A v \in Vaults : rb.shares[v] <= rm.shares[v]
        PROVE  y <= x
    <3>1. rm.shares \in [Vaults -> Int] /\ rb.shares \in [Vaults -> Int] /\ Vaults \in SUBSET Vaults
      BY <2>4
    <3>2. QED
      BY <2>8, <3>1, SumMonotone, AaveAssumption DEF Sum
  <2>9. (lost \notin between => x <= y) /\ (gained \notin between => y <= x)
    <3>1. CASE first <= second
      <4>1. between = Between(moves, first, second)
        BY <2>2, <3>1, LesserGreater DEF Between
      <4>2. Compared(moves, rm, first, rb, second)
        BY <2>2, <3>1 DEF Related
      <4>3. QED
        BY <2>7, <2>8, <3>1, <4>1, <4>2 DEF Compared
    <3>2. CASE ~ (first <= second)
      <4>1. second <= first
        BY <2>2, <3>2
      <4>2. between = Between(moves, second, first)
        BY <2>2, <4>1, LesserGreater DEF Between
      <4>3. Compared(moves, rb, second, rm, first)
        BY <2>2, <4>1 DEF Related
      <4>4. QED
        BY <2>7, <2>8, <3>2, <4>2, <4>3 DEF Compared
    <3>3. QED
      BY <3>1, <3>2
  <2> HIDE DEF owned, reported, s, x, y, lost, gained, between
  <2>10. QED
    BY <2>5, <2>6, <2>9
<1>2. QED
  BY <1>1, AaveInvariant, PTL

=============================================================================
