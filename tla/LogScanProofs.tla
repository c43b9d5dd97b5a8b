--------------------------- MODULE LogScanProofs ---------------------------
(***************************************************************************)
(* The chunked scan for every width of block numbers, every chunk size and *)
(* every number of providers.  The invariant says what has been asked for  *)
(* so far: all the chunks before fromBlock, and of the current chunk the   *)
(* queries before the one the scan is at; a scan with a limit that goes on *)
(* has kept everything it was shown and is still below the limit.          *)
(***************************************************************************)
EXTENDS LogScan, FiniteSetTheorems, TLAPS

USE DEF Blocks, Providers, Queries

Asked ==
  {l \in logs : \/ l[1] \in start..(from - 1)
                \/ l[1] \in from..To /\ l[2] < query}

ScanInv ==
  /\ pc = "head" => out = {} /\ lost = {} /\ query = 1
  /\ pc = "scan" => start <= from /\ from <= latest
  /\ pc = "scan" => out \cup lost = Asked
  /\ (pc = "scan" /\ Limited) => Cardinality(out) < maxItems
  /\ Accounted
  /\ LimitedIsPrefix

\* A single provider never goes back behind the head it gave.
SingleInv ==
  (NumProviders = 1 /\ ~NullAnswers) => lost = {} /\ (pc = "scan" => latest <= head[1])

IInv == TypeOK /\ ScanInv /\ SingleInv

-----------------------------------------------------------------------------

\* A log is a block and a query.
LEMMA LogType ==
  ASSUME TypeOK, NEW l \in logs
  PROVE  l[1] \in Blocks /\ l[2] \in Queries
BY DEF TypeOK

\* The chunk is never empty and never reaches beyond the head, also when its
\* end wraps around: this is what makes the scan advance.
LEMMA ToRange ==
  ASSUME TypeOK, from <= latest
  PROVE  To \in Blocks /\ from <= To /\ To <= latest
BY ScanAssumption DEF TypeOK, To, Wrap

\* There are finitely many logs.
LEMMA LogsFinite ==
  ASSUME TypeOK
  PROVE  /\ IsFiniteSet(logs)
         /\ \A S \in SUBSET logs : IsFiniteSet(S) /\ Cardinality(S) \in Nat
<1>1. MaxUint \in Nat /\ NumQueries \in Nat
  BY ScanAssumption
<1>2. IsFiniteSet(0..MaxUint) /\ IsFiniteSet(1..NumQueries)
  BY <1>1, FS_Interval
<1>3. IsFiniteSet((0..MaxUint) \X (1..NumQueries))
  BY <1>2, FS_Product
<1>4. IsFiniteSet(logs)
  BY <1>3, FS_Subset DEF TypeOK
<1>5. QED
  BY <1>4, FS_Subset, FS_CardinalityType

\* A set of natural numbers has a least element, a bounded one a greatest.
LEMMA LeastNat ==
  ASSUME NEW T, T \subseteq Nat, T # {}
  PROVE  \E x \in T : \A y \in T : x <= y
<1> DEFINE F == {0..n : n \in T}
<1>1. \A n \in T : n \in Nat /\ 0..n \in FiniteSubsetsOf(Nat)
  BY FS_Interval, SMT DEF FiniteSubsetsOf
<1>2. F \subseteq FiniteSubsetsOf(Nat) /\ F # {}
  BY <1>1
<1>3. \E X \in F : \A Y \in F : ~ (<<Y, X>> \in StrictSubsetOrdering(Nat))
  BY <1>2, WFMin, FS_StrictSubsetOrderingWellFounded
<1>4. PICK n \in T : \A m \in T : ~ (<<0..m, 0..n>> \in StrictSubsetOrdering(Nat))
  BY <1>3
<1>5. ASSUME NEW m \in T, m < n
      PROVE  FALSE
  <2>1. 0..m \subseteq 0..n /\ 0..m # 0..n /\ 0..m \subseteq Nat /\ 0..n \subseteq Nat
    BY <1>5
  <2>2. <<0..m, 0..n>> \in StrictSubsetOrdering(Nat)
    BY <2>1 DEF StrictSubsetOrdering
  <2>3. QED
    BY <2>2, <1>4
<1>6. QED
  BY <1>5

\* A bounded set of natural numbers has a greatest element.
LEMMA GreatestNat ==
  ASSUME NEW b \in Nat, NEW T, T \subseteq 0..b, T # {}
  PROVE  \E x \in T : \A y \in T : y <= x
<1> DEFINE D == {b - x : x \in T}
<1>1. \A y \in T : y \in Nat /\ b - y \in Nat /\ b - y \in D
  OBVIOUS
<1>2. D \subseteq Nat /\ D # {}
  BY <1>1
<1> HIDE DEF D
<1>3. PICK d \in D : \A e \in D : d <= e
  BY <1>2, LeastNat
<1>4. PICK x \in T : d = b - x
  BY DEF D
<1>5. \A y \in T : b - x <= b - y
  BY <1>1, <1>3, <1>4
<1>6. \A y \in T : y <= x
  BY <1>1, <1>5
<1>7. QED
  BY <1>6

\* The logs that are kept of an answer that exceeds the room: as many as fit,
\* and with each of them every log of an earlier block.
LEMMA FirstOfShape ==
  ASSUME TypeOK, NumQueries = 1, NEW ls \in SUBSET logs, NEW n \in Nat, Cardinality(ls) >= n
  PROVE  /\ FirstOf(ls, n) \subseteq ls
         /\ Cardinality(FirstOf(ls, n)) = n
         /\ \A l \in FirstOf(ls, n), m \in ls : m[1] < l[1] => m \in FirstOf(ls, n)
<1> DEFINE F == FirstOf(ls, n)
           UpTo(l) == {m \in ls : m[1] <= l[1]}
<1>1. /\ \A l \in ls : l[1] \in Nat /\ l[1] <= MaxUint
      /\ \A l, m \in ls : l[1] = m[1] => l = m
  <2>1. \A l \in ls : l \in (0..MaxUint) \X {1}
    BY DEF TypeOK
  <2>2. QED
    BY <2>1
<1>2. /\ IsFiniteSet(ls) /\ Cardinality(ls) \in Nat
      /\ \A S \in SUBSET ls : IsFiniteSet(S) /\ Cardinality(S) \in Nat
  BY LogsFinite
<1>3. F = {l \in ls : Cardinality(UpTo(l)) <= n}
  BY DEF FirstOf
<1>4. F \in SUBSET ls /\ \A l \in ls : UpTo(l) \in SUBSET ls
  BY <1>3
<1> HIDE DEF F
<1>5. ASSUME NEW l \in F, NEW m \in ls, m[1] < l[1]
      PROVE  m \in F
  <2>1. UpTo(m) \subseteq UpTo(l)
    <3>1. l[1] \in Nat /\ m[1] \in Nat
      BY <1>1, <1>4
    <3>2. \A k \in ls : k[1] <= m[1] => k[1] <= l[1]
      BY <1>1, <1>5, <3>1
    <3>3. QED
      BY <3>2
  <2>2. Cardinality(UpTo(m)) <= Cardinality(UpTo(l))
    BY <2>1, <1>2, <1>4, FS_Subset
  <2>3. /\ Cardinality(UpTo(m)) \in Nat /\ Cardinality(UpTo(l)) \in Nat
        /\ Cardinality(UpTo(l)) <= n
    BY <1>2, <1>3, <1>4
  <2>4. Cardinality(UpTo(m)) <= n
    BY <2>2, <2>3
  <2>5. QED
    BY <2>4, <1>3
<1>6. Cardinality(F) <= n
  <2>1. CASE F = {}
    BY <2>1, FS_EmptySet
  <2>2. CASE F # {}
    <3> DEFINE B == {l[1] : l \in F}
    <3>1. B \subseteq 0..MaxUint /\ B # {} /\ MaxUint \in Nat
      <4>1. MaxUint \in Nat
        BY ScanAssumption
      <4>2. \A l \in F : l[1] \in 0..MaxUint
        BY <1>1, <1>4, <4>1
      <4>3. QED
        BY <2>2, <4>1, <4>2
    <3> HIDE DEF B
    <3>2. PICK x \in B : \A y \in B : y <= x
      BY <3>1, GreatestNat
    <3>3. PICK g \in F : x = g[1]
      BY DEF B
    <3>4. F \subseteq UpTo(g)
      <4>1. \A l \in F : l[1] <= g[1]
        BY <3>2, <3>3 DEF B
      <4>2. QED
        BY <4>1, <1>4
    <3>5. Cardinality(F) <= Cardinality(UpTo(g))
      BY <3>4, <1>2, <1>4, FS_Subset
    <3>6. /\ Cardinality(UpTo(g)) <= n
          /\ Cardinality(F) \in Nat /\ Cardinality(UpTo(g)) \in Nat
      BY <1>2, <1>3, <1>4
    <3>7. QED
      BY <3>5, <3>6
  <2>3. QED
    BY <2>1, <2>2
<1>7. ASSUME Cardinality(F) < n
      PROVE  FALSE
  <2> DEFINE B == {l[1] : l \in ls \ F}
  <2>1. ls \ F # {}
    <3>1. SUFFICES ASSUME ls \ F = {}
                   PROVE  FALSE
      OBVIOUS
    <3>2. F = ls
      BY <3>1, <1>4
    <3>3. QED
      BY <3>2, <1>2, <1>7
  <2>2. B \subseteq Nat /\ B # {}
    BY <2>1, <1>1
  <2> HIDE DEF B
  <2>3. PICK x \in B : \A y \in B : x <= y
    BY <2>2, LeastNat
  <2>4. PICK l \in ls \ F : x = l[1]
    BY DEF B
  <2>5. UpTo(l) \subseteq F \cup {l}
    <3>1. \A m \in ls \ F : l[1] <= m[1]
      BY <2>3, <2>4 DEF B
    <3>2. ASSUME NEW m \in ls, m[1] <= l[1], m \notin F
          PROVE  m = l
      <4>1. m[1] \in Nat /\ l[1] \in Nat /\ l[1] <= m[1]
        BY <3>1, <3>2, <1>1
      <4>2. m[1] = l[1]
        BY <3>2, <4>1
      <4>3. QED
        BY <4>2, <1>1
    <3>3. QED
      BY <3>2
  <2>6. IsFiniteSet(F) /\ Cardinality(F) \in Nat /\ l \notin F
    BY <1>2, <1>4
  <2>7. IsFiniteSet(F \cup {l}) /\ Cardinality(F \cup {l}) = Cardinality(F) + 1
    BY <2>6, FS_AddElement
  <2>8. Cardinality(UpTo(l)) <= Cardinality(F \cup {l})
    BY <2>5, <2>7, FS_Subset
  <2>9. Cardinality(UpTo(l)) \in Nat
    BY <1>2, <1>4
  <2>10. Cardinality(UpTo(l)) <= n
    BY <2>6, <2>7, <2>8, <2>9, <1>7
  <2>11. QED
    BY <2>10, <1>3
<1>8. Cardinality(F) = n
  BY <1>2, <1>4, <1>6, <1>7
<1>9. QED
  BY <1>4, <1>5, <1>8 DEF F

\* Before the scan nothing is found.
LEMMA ScanInit == Init => IInv
<1> SUFFICES ASSUME Init PROVE IInv
  OBVIOUS
<1>1. TypeOK
  BY ScanAssumption DEF Init, TypeOK
<1>2. ScanInv /\ SingleInv
  BY DEF Init, ScanInv, SingleInv, Accounted, LimitedIsPrefix
<1>3. QED
  BY <1>1, <1>2 DEF IInv

\* A provider that catches up disturbs no scan.
LEMMA AdvanceStep ==
  ASSUME IInv, NEW p \in Providers, Advance(p)
  PROVE  IInv'
<1> USE ScanAssumption DEF IInv, inputs, client
<1>1. TypeOK'
  BY DEF Advance, TypeOK
<1>2. ScanInv'
  BY DEF Advance, ScanInv, Accounted, LimitedIsPrefix, Asked, To, InRange, Limited
<1>3. SingleInv'
  BY DEF Advance, SingleInv, TypeOK
<1>4. QED
  BY <1>1, <1>2, <1>3

\* A provider that fails is not asked again for the call.
LEMMA FailsStep ==
  ASSUME IInv, ProviderFails
  PROVE  IInv'
<1> USE ScanAssumption DEF IInv, inputs
<1>1. TypeOK'
  BY DEF ProviderFails, TypeOK
<1>2. pc' \in {pc, "error"}
  BY DEF ProviderFails
<1>3. ScanInv'
  BY <1>2 DEF ProviderFails, ScanInv, Accounted, LimitedIsPrefix, Asked, To, InRange, Limited
<1>4. SingleInv'
  BY <1>2 DEF ProviderFails, SingleInv
<1>5. QED
  BY <1>1, <1>3, <1>4

\* The head that is answered is where the scan ends.
LEMMA HeadStep ==
  ASSUME IInv, HeadAnswered
  PROVE  IInv'
<1> USE ScanAssumption DEF IInv, inputs
<1>1. TypeOK'
  BY DEF HeadAnswered, TypeOK
<1>2. out = {} /\ lost = {} /\ query = 1
  BY DEF HeadAnswered, ScanInv
<1>3. CASE start > latest'
  <2>1. pc' = "done" /\ InRange' = {}
    BY <1>3, LogType DEF HeadAnswered, InRange, TypeOK
  <2>2. LimitedIsPrefix'
    <3>1. out' = {} /\ lost' = {} /\ Cardinality(out') = 0
      BY <1>2, FS_EmptySet DEF HeadAnswered
    <3>2. maxItems' \in Nat
      BY <1>1, ScanAssumption DEF TypeOK
    <3>3. (Limited => Cardinality(out) <= maxItems)'
      BY <3>1, <3>2 DEF Limited
    <3>4. QED
      BY <2>1, <3>1, <3>3 DEF LimitedIsPrefix
  <2>3. ScanInv'
    BY <1>2, <2>1, <2>2 DEF HeadAnswered, ScanInv, Accounted
  <2>4. SingleInv'
    BY <1>2, <2>1 DEF HeadAnswered, SingleInv
  <2>5. QED
    BY <1>1, <2>3, <2>4
<1>4. CASE ~(start > latest')
  <2>1. pc' = "scan" /\ from' = start /\ start <= latest' /\ query' = 1
    BY <1>2, <1>4 DEF HeadAnswered, TypeOK
  <2>2. Asked' = {}
    BY <2>1, LogType DEF HeadAnswered, Asked, TypeOK
  <2>3. ScanInv'
    <3>1. (Limited => Cardinality(out) < maxItems)'
      <4>1. Cardinality(out') = 0 /\ maxItems' \in Nat
        BY <1>1, <1>2, FS_EmptySet, ScanAssumption DEF HeadAnswered, TypeOK
      <4>2. QED
        BY <4>1 DEF Limited
    <3>2. QED
      BY <1>1, <1>2, <2>1, <2>2, <3>1 DEF HeadAnswered, ScanInv, Accounted, LimitedIsPrefix, TypeOK
  <2>4. NumProviders = 1 => latest' = head'[1]
    BY DEF HeadAnswered, TypeOK
  <2>5. SingleInv'
    BY <1>1, <1>2, <2>1, <2>4 DEF HeadAnswered, SingleInv, TypeOK
  <2>6. QED
    BY <1>1, <2>3, <2>5
<1>5. QED
  BY <1>3, <1>4

\* What is answered for a range is added, or the range is halved.
LEMMA LogsStep ==
  ASSUME IInv, NEW answer \in Answers, LogsAnswered(answer)
  PROVE  IInv'
<1> USE ScanAssumption DEF IInv, inputs
<1>0. pc = "scan" /\ start <= from /\ from <= latest
  BY DEF LogsAnswered, ScanInv
<1>1. To \in Blocks /\ from <= To /\ To <= latest
  BY <1>0, ToRange
<1>2. answer \subseteq Wanted /\ Wanted \subseteq logs
  BY DEF Answers, Known, Wanted
<1>3. out' \in SUBSET logs
  BY <1>2 DEF LogsAnswered, FirstOf, TypeOK
<1>4. TypeOK'
  <2>1. from' \in Blocks /\ query' \in Queries
    BY <1>1 DEF LogsAnswered, TypeOK
  <2>2. QED
    BY <1>2, <1>3, <2>1 DEF LogsAnswered, TypeOK
<1>5. ~Full(answer) => out' = out \cup answer /\ out' \cup lost' = out \cup lost \cup Wanted
  BY <1>2 DEF LogsAnswered
<1>6. ~Full(answer) => out' \cup lost' =
        {l \in logs : l[1] \in start..(from - 1) \/ (l[1] \in from..To /\ l[2] <= query)}
  BY <1>0, <1>5, LogType DEF ScanInv, Asked, Wanted, TypeOK
<1>7. ~Full(answer) /\ Limited => Cardinality(out') < maxItems
  <2>1. HAVE ~Full(answer) /\ Limited
  <2>2. /\ IsFiniteSet(out) /\ IsFiniteSet(answer) /\ IsFiniteSet(out')
        /\ Cardinality(out) \in Nat /\ Cardinality(answer) \in Nat /\ Cardinality(out') \in Nat
    BY <1>2, <1>3, LogsFinite DEF TypeOK
  <2>3. Cardinality(out) + Cardinality(answer) < maxItems /\ maxItems \in Nat
    BY <2>1, <2>2 DEF Full, TypeOK
  <2>4. Cardinality(out \cup answer) = Cardinality(out) + Cardinality(answer) - Cardinality(out \cap answer)
    BY <2>2, FS_Union
  <2>5. Cardinality(out \cap answer) \in Nat
    BY <2>2, FS_Intersection, FS_CardinalityType
  <2>6. out' = out \cup answer
    BY <2>1, <1>5
  <2>7. Cardinality(out') <= Cardinality(out) + Cardinality(answer)
    BY <2>2, <2>4, <2>5, <2>6
  <2>8. QED
    BY <2>2, <2>3, <2>7
<1>8. Full(answer) => /\ Limited /\ Cardinality(out') = maxItems
               /\ \A l \in out', m \in InRange : m[1] < l[1] => m \in out' \cup lost'
  <2>1. HAVE Full(answer)
  <2> DEFINE n == maxItems - Cardinality(out)
             kept == FirstOf(answer, n)
  <2>2. Limited /\ maxItems > 0 /\ NumQueries = 1 /\ query = 1 /\ maxItems \in Nat
    <3>1. Limited /\ maxItems > 0 /\ maxItems \in Limits
      BY <2>1 DEF Full, Limited, TypeOK
    <3>2. NumQueries \in Nat \ {0} /\ Limits \subseteq Nat /\ (NumQueries > 1 => Limits = {0})
      BY ScanAssumption
    <3>3. NumQueries = 1
      BY <3>1, <3>2
    <3>4. query \in Queries
      BY DEF TypeOK
    <3>5. QED
      BY <3>1, <3>2, <3>3, <3>4
  <2>3. Cardinality(out) < maxItems /\ out \cup lost = Asked
    BY <1>0, <2>2 DEF ScanInv
  <2>4. /\ IsFiniteSet(out) /\ IsFiniteSet(answer) /\ answer \in SUBSET logs
        /\ Cardinality(out) \in Nat /\ Cardinality(answer) \in Nat
    BY <1>2, LogsFinite DEF TypeOK
  <2>5. n \in Nat /\ Cardinality(answer) >= n
    BY <2>1, <2>2, <2>3, <2>4 DEF Full
  <2>6. out' = out \cup kept
    BY <2>1 DEF LogsAnswered
  <2> HIDE DEF n
  <2>7. /\ kept \subseteq answer /\ Cardinality(kept) = n
        /\ \A l \in kept, m \in answer : m[1] < l[1] => m \in kept
    BY <2>2, <2>4, <2>5, FirstOfShape
  <2> HIDE DEF kept
  <2>8. \A l \in out : l[1] < from
    BY <2>2, <2>3, LogType DEF Asked, TypeOK
  <2>9. \A l \in answer : l[1] >= from /\ l[1] <= To
    BY <1>1, <1>2, LogType DEF Wanted, TypeOK
  <2>10. Cardinality(out') = maxItems
    <3>1. \A l \in logs : l[1] \in Nat
      BY LogType, ScanAssumption
    <3>2. out \cap kept = {}
      <4>1. \A l \in kept : ~(l[1] < from)
        BY <2>7, <2>9, <3>1, <1>2 DEF TypeOK
      <4>2. QED
        BY <4>1, <2>8
    <3>3. IsFiniteSet(kept)
      BY <2>4, <2>7, FS_Subset
    <3>4. Cardinality(out \cup kept) = Cardinality(out) + Cardinality(kept) - Cardinality(out \cap kept)
      BY <2>4, <3>3, FS_Union
    <3>5. Cardinality(out \cap kept) = 0
      BY <3>2, FS_EmptySet
    <3>6. QED
      BY <2>2, <2>4, <2>6, <2>7, <3>4, <3>5 DEF n
  <2>11. ASSUME NEW l \in out', NEW m \in InRange, m[1] < l[1]
         PROVE  m \in out' \cup lost'
    <3>1. /\ m \in logs /\ m[1] \in Blocks /\ m[2] \in Queries /\ start <= m[1] /\ m[1] <= latest
          /\ l \in logs /\ l[1] \in Blocks
      <4>1. m \in logs /\ l \in logs /\ m[1] \in start..latest
        BY <1>3, <2>11 DEF InRange
      <4>2. m[1] \in Blocks /\ m[2] \in Queries /\ l[1] \in Blocks
        BY <4>1, LogType
      <4>3. QED
        BY <4>1, <4>2
    <3>2. m[2] = query
      BY <2>2, <3>1
    <3>3. CASE m[1] < from
      <4>1. m \in Asked
        BY <3>1, <3>3 DEF Asked, TypeOK
      <4>2. out \subseteq out' /\ lost \subseteq lost'
        BY <2>6 DEF LogsAnswered
      <4>3. QED
        BY <4>1, <4>2, <2>3
    <3>4. CASE ~(m[1] < from)
      <4>1. from \in Nat /\ To \in Nat /\ m[1] \in Nat /\ l[1] \in Nat
        BY <1>1, <3>1, ScanAssumption DEF TypeOK
      <4>2. l \in kept
        <5>1. ~(l[1] < from)
          BY <3>4, <2>11, <4>1
        <5>2. QED
          BY <5>1, <2>6, <2>8, <2>11
      <4>3. m[1] \in from..To
        BY <4>1, <4>2, <2>7, <2>9, <2>11, <3>4
      <4>4. m \in Wanted
        BY <4>3, <3>1, <3>2 DEF Wanted
      <4>5. m \in answer => m \in kept
        BY <4>2, <2>7, <2>11
      <4>6. Wanted \ answer \subseteq lost'
        BY DEF LogsAnswered
      <4>7. QED
        BY <4>4, <4>5, <4>6, <2>6
    <3>5. QED
      BY <3>3, <3>4
  <2>12. QED
    BY <2>2, <2>10, <2>11
<1>9. SingleInv'
  <2>1. ASSUME NumProviders = 1, ~NullAnswers PROVE lost' = {} /\ latest' <= head'[1]
    <3>1. provider = 1 /\ lost = {} /\ latest <= head[1]
      BY <1>0, <2>1 DEF SingleInv, TypeOK
    <3>2. \A l \in Wanted : l[1] <= head[provider]
      BY <1>1, <1>2, <3>1, LogType DEF Wanted, TypeOK
    <3>3. Wanted \ answer = {}
      BY <3>2, <2>1 DEF Known, Answers
    <3>4. QED
      BY <3>1, <3>3 DEF LogsAnswered
  <2>2. QED
    BY <2>1 DEF SingleInv
<1>10. CASE Full(answer) \/ (query = NumQueries /\ To = latest)
  <2>1. pc' = "done" /\ UNCHANGED <<logs, start, maxItems, latest>>
    BY <1>10 DEF LogsAnswered
  <2>2. ~Full(answer) => out' \cup lost' = InRange
    BY <1>0, <1>1, <1>5, <1>6, <1>10, LogType DEF InRange, TypeOK
  <2>3. ~Limited => ~Full(answer)
    BY DEF Full
  <2>4. InRange' = InRange /\ (Limited' <=> Limited) /\ maxItems' = maxItems
    BY <2>1 DEF InRange, Limited
  <2>5. Limited => /\ Cardinality(out') <= maxItems
                   /\ \A l \in out', m \in InRange : m[1] < l[1] => m \in out' \cup lost'
                   /\ Cardinality(out') < maxItems => out' \cup lost' = InRange
    <3>1. HAVE Limited
    <3>2. maxItems \in Nat /\ Cardinality(out') \in Nat
      BY <1>3, LogsFinite DEF TypeOK
    <3>3. CASE Full(answer)
      BY <3>2, <3>3, <1>8
    <3>4. CASE ~Full(answer)
      <4>1. Cardinality(out') < maxItems
        BY <3>1, <3>4, <1>7
      <4>2. out' \cup lost' = InRange
        BY <3>4, <2>2
      <4>3. QED
        BY <4>1, <4>2, <3>2
    <3>5. QED
      BY <3>3, <3>4
  <2>6. LimitedIsPrefix'
    BY <2>1, <2>4, <2>5 DEF LimitedIsPrefix
  <2>7. ScanInv'
    BY <2>1, <2>2, <2>3, <2>4, <2>6 DEF ScanInv, Accounted
  <2>8. QED
    BY <1>4, <1>9, <2>7
<1>11. CASE ~Full(answer) /\ ~(query = NumQueries /\ To = latest)
  <2>1. pc' = "scan" /\ UNCHANGED <<logs, start, chunk, maxItems, latest>>
    BY <1>0, <1>11 DEF LogsAnswered
  <2>0. out' \cup lost' =
          {l \in logs : l[1] \in start..(from - 1) \/ (l[1] \in from..To /\ l[2] <= query)}
    BY <1>6, <1>11
  <2>2. ASSUME query < NumQueries PROVE ScanInv'
    <3>1. query' = query + 1 /\ from' = from
      BY <1>11, <2>2 DEF LogsAnswered
    <3>2. To' = To
      BY <2>1, <3>1 DEF To
    <3>3. out' \cup lost' = Asked'
      BY <2>0, <2>1, <3>1, <3>2, LogType DEF Asked, TypeOK
    <3>4. QED
      BY <1>0, <1>11, <1>7, <2>1, <3>1, <3>3 DEF ScanInv, Accounted, LimitedIsPrefix, Limited
  <2>3. ASSUME ~(query < NumQueries) PROVE ScanInv'
    <3>1. query' = 1 /\ from' = To + 1 /\ query = NumQueries /\ To < latest
      BY <1>1, <1>11, <2>3 DEF LogsAnswered, TypeOK
    <3>2. out' \cup lost' = Asked'
      BY <1>0, <1>1, <2>0, <2>1, <3>1, LogType DEF Asked, TypeOK
    <3>3. start <= from' /\ from' <= latest'
      BY <1>0, <1>1, <2>1, <3>1 DEF TypeOK
    <3>4. QED
      BY <1>11, <1>7, <2>1, <3>1, <3>2, <3>3 DEF ScanInv, Accounted, LimitedIsPrefix, Limited
  <2>4. ScanInv'
    BY <2>2, <2>3
  <2>5. QED
    BY <1>4, <1>9, <2>4
<1>12. QED
  BY <1>10, <1>11

\* Every step keeps the invariant.
LEMMA ScanStep == IInv /\ [Next]_vars => IInv'
<1> SUFFICES ASSUME IInv, [Next]_vars PROVE IInv'
  OBVIOUS
<1>1. CASE UNCHANGED vars
  BY <1>1 DEF vars, inputs, client, IInv, TypeOK, ScanInv, SingleInv, Accounted,
              LimitedIsPrefix, Asked, To, InRange, Limited
<1>2. QED
  BY <1>1, AdvanceStep, FailsStep, HeadStep, LogsStep DEF Next, Step

\* The inductive invariant holds.
LEMMA Invariance == Spec => []IInv
<1>1. QED
  BY ScanInit, ScanStep, PTL DEF Spec

\* Every variable keeps its type: no block number leaves its range.
THEOREM ScanTypeCorrect == Spec => []TypeOK
<1>1. IInv => TypeOK
  BY DEF IInv
<1>2. QED
  BY <1>1, Invariance, PTL

\* A successful unlimited scan has asked for every log of its range.
THEOREM AccountedHolds == Spec => []Accounted
<1>1. IInv => Accounted
  BY DEF IInv, ScanInv
<1>2. QED
  BY <1>1, Invariance, PTL

\* A limited scan that succeeds returns a prefix of the chain, never more than
\* its limit, and less only when there is no more, wherever the chunks end.
THEOREM LimitedIsPrefixHolds == Spec => []LimitedIsPrefix
<1>1. IInv => LimitedIsPrefix
  BY DEF IInv, ScanInv
<1>2. QED
  BY <1>1, Invariance, PTL

-----------------------------------------------------------------------------
(* Refinement. *)

\* A scan begins as one that is atomic.
LEMMA AtomicInit == Init => Atomic!AInit
BY DEF Init, Atomic!AInit

\* With one provider that never answers null, and no limit, every step of a scan is a step of an atomic
\* one, or none.
LEMMA AtomicStep ==
  ASSUME NumProviders = 1, ~NullAnswers, Limits = {0}, IInv, IInv', [Next]_vars
  PROVE  [Atomic!Succeed \/ Atomic!Fail]_(Atomic!absVars)
<1> USE ScanAssumption
<1>1. UNCHANGED <<start, logs>>
  BY DEF Next, Step, Advance, ProviderFails, HeadAnswered, LogsAnswered, vars, inputs
<1>2. CASE pc \in {"head", "scan"} /\ pc' = "done"
  <2>0. ~Limited'
    BY DEF IInv, TypeOK, Limited
  <2>1. out' = {l \in logs : l[1] \in start..latest'}
    BY <1>1, <1>2, <2>0 DEF IInv, ScanInv, SingleInv, Accounted, InRange
  <2>2. latest' \in 0..MaxUint
    BY DEF IInv, TypeOK
  <2>3. QED
    BY <1>1, <1>2, <2>1, <2>2 DEF Atomic!Succeed
<1>3. CASE pc \in {"head", "scan"} /\ pc' = "error"
  BY <1>1, <1>3 DEF Atomic!Fail
<1>4. CASE pc \in {"head", "scan"} /\ pc' \in {"head", "scan"}
  BY <1>1, <1>4 DEF Atomic!absVars
<1>5. CASE pc \in {"done", "error"}
  <2>1. UNCHANGED <<pc, out>>
    BY <1>5 DEF Next, Step, Advance, ProviderFails, HeadAnswered, LogsAnswered, vars,
                inputs, client
  <2>2. QED
    BY <1>1, <2>1 DEF Atomic!absVars
<1>6. QED
  BY <1>2, <1>3, <1>4, <1>5 DEF IInv, TypeOK

\* With one provider that never answers null, and no limit, the scan is an atomic read of the chain.
THEOREM ScanIsAtomic ==
  ASSUME NumProviders = 1, ~NullAnswers, Limits = {0}
  PROVE  Spec => AtomicSpec
<1>1. IInv /\ IInv' /\ [Next]_vars => [Atomic!Succeed \/ Atomic!Fail]_(Atomic!absVars)
  BY AtomicStep
<1>2. QED
  BY <1>1, AtomicInit, Invariance, PTL DEF Spec, AtomicSpec, Atomic!ASpec
=============================================================================
