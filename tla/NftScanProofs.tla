--------------------------- MODULE NftScanProofs ---------------------------
(***************************************************************************)
(* The walk over a wallet for every number of tokens, batch size, lag and  *)
(* length of the chain.  The invariant has three layers: how the wallet's  *)
(* enumeration at one block relates to that at a later one, which block    *)
(* each collected id was read at, and which tokens the cached pools stand  *)
(* for.                                                                    *)
(***************************************************************************)
EXTENDS NftScan, FiniteSetTheorems, TLAPS

\* Nothing left the wallet, or nothing changed in it, between two blocks.
Unmoved(first, last) == Left(first, last) = {}
Unchanged(first, last) == Left(first, last) = {} /\ Entered(first, last) = {}

\* The enumeration at one block is the beginning of that at another.
Begins(first, last) ==
  /\ Len(Owned(first)) <= Len(Owned(last))
  /\ \A i \in 1..Len(Owned(first)) : Owned(last)[i] = Owned(first)[i]

\* A token that stays never moves to a higher index.
Sinks(first, last) ==
  \A t \in Kept(first, last) : \A i \in DOMAIN Owned(first), j \in DOMAIN Owned(last) :
    Owned(first)[i] = t /\ Owned(last)[j] = t => j <= i

ChainInv ==
  /\ Latest \in 1..MaxBlocks
  /\ \A b \in 1..Latest : IsInjective(Owned(b)) /\ \A t \in Holds(b) : Live(t, b)
  /\ \A first, last \in 1..Latest : first <= last =>
       /\ Unmoved(first, last) => Begins(first, last)
       /\ Unchanged(first, last) => Owned(first) = Owned(last)
       /\ Sinks(first, last)

\* Where the balance and each id were read.
WindowInv ==
  /\ lo = 0 => hi = 0 /\ ids = <<>> /\ balance = 0
  /\ lo > 0 =>
       /\ lo <= hi
       /\ \E b \in lo..hi : balance = Len(Owned(b))
       /\ \A i \in DOMAIN ids : \E b \in lo..hi :
            i <= Len(Owned(b)) /\ ids[i] = Owned(b)[i]
       /\ ordered => balance = Len(Owned(lo))
       /\ (ordered /\ balance <= BatchSize /\ ids # <<>>) =>
            \E b \in lo..hi : /\ balance <= Len(Owned(b))
                              /\ ids = SubSeq(Owned(b), 1, balance)

\* How far the command has come.
PhaseInv ==
  /\ pc = "balance" => lo = 0 /\ read = 0 /\ seeds = {}
  /\ pc \in {"index", "details", "getPool", "finish", "unknownPool"} => lo > 0
  /\ pc = "index" => Len(ids) < balance /\ read = 0 /\ seeds = {}
  /\ pc \in {"details", "getPool"} => Len(ids) = balance /\ read < balance
  /\ pc = "details" => seeds = {}
  /\ pc \in {"finish", "done", "unknownPool"} /\ lo > 0 => Len(ids) = balance
  /\ pc \in {"getPool", "finish"} => mode = "sync"
  /\ pc = "unknownPool" => mode = "positions"

\* What the cached pools, and those about to be cached, stand for.
CacheInv ==
  /\ synced = (cover.kind # "none")
  /\ cover.kind # "none" => 1 <= cover.lo /\ cover.lo <= cover.hi /\ cover.hi <= Latest
  /\ cover.kind = "logs" => \/ cover.limited /\ Cardinality(cached) = MaxPools
                            \/ PoolsAt(cover.lo) \ CreatedBefore(cover.first) \subseteq cached
  /\ (cover.kind = "own" /\ Unchanged(cover.lo, cover.hi)) =>
       \A t \in Holds(cover.lo) : poolOf[t] \in cached
  /\ (pc = "getPool" /\ Unchanged(lo, hi)) => \A i \in 1..read : poolOf[ids[i]] \in seeds
  /\ (pc = "finish" /\ Unchanged(lo, hi)) => \A i \in DOMAIN ids : poolOf[ids[i]] \in seeds
  /\ (mode = "positions" /\ pc \in {"balance", "index", "details", "unknownPool"}) => synced
  /\ pc = "unknownPool" => \E t \in ToSet(ids) : poolOf[t] \notin cached

IInv == TypeOK /\ ChainInv /\ WindowInv /\ PhaseInv /\ CacheInv

-----------------------------------------------------------------------------
(* Sets of two numbers, batches and enumerations. *)

\* The lesser and the greater of two.
LEMMA MinMaxOfTwo ==
  ASSUME NEW a \in Nat, NEW b \in Nat
  PROVE  /\ Min({a, b}) = IF a <= b THEN a ELSE b
         /\ Max({a, b}) = IF a >= b THEN a ELSE b
<1>1. \E x \in {a, b} : \A y \in {a, b} : x <= y
  OBVIOUS
<1>2. \E x \in {a, b} : \A y \in {a, b} : x >= y
  OBVIOUS
<1>3. QED
  BY <1>1, <1>2 DEF Min, Max

\* A batch that starts inside the phase is not empty and ends at the latest
\* with the phase; one batch is enough for a phase of at most BatchSize calls.
LEMMA BatchShape ==
  ASSUME TypeOK, NEW done \in Nat, done < balance
  PROVE  /\ Max(Batch(done)) \in (done + 1)..balance
         /\ Batch(done) = (done + 1)..Max(Batch(done))
         /\ done = 0 /\ balance <= BatchSize => Max(Batch(done)) = balance
<1> DEFINE m == IF done + BatchSize <= balance THEN done + BatchSize ELSE balance
<1> USE NftAssumption DEF TypeOK
<1>1. balance \in Nat /\ BatchSize \in Nat \ {0}
  BY FS_CardinalityType
<1>2. Batch(done) = (done + 1)..m /\ m \in (done + 1)..balance
  BY <1>1, MinMaxOfTwo DEF Batch
<1> HIDE DEF TypeOK
<1>3. Max(Batch(done)) = m
  <2>1. m \in Batch(done) /\ \A y \in Batch(done) : y \in Nat /\ m >= y
    BY <1>1, <1>2
  <2>2. \A x \in Batch(done) : (\A y \in Batch(done) : x >= y) => x = m
    <3>1. TAKE x \in Batch(done)
    <3>2. HAVE \A y \in Batch(done) : x >= y
    <3>3. x >= m /\ m >= x /\ x \in Nat /\ m \in Nat
      BY <2>1, <3>1, <3>2
    <3>4. QED
      BY <3>3
  <2>3. QED
    BY <2>1, <2>2 DEF Max
<1>4. QED
  BY <1>1, <1>2, <1>3

\* No more positions than there are tokens.
LEMMA InjectiveLen ==
  ASSUME NEW s \in Seq(Tokens), IsInjective(s)
  PROVE  Len(s) <= Cardinality(Tokens)
<1>1. Len(s) \in Nat /\ s \in [1..Len(s) -> Tokens]
  OBVIOUS
<1>2. s \in Injection(1..Len(s), Tokens)
  BY <1>1 DEF Injection
<1>3. Cardinality(1..Len(s)) <= Cardinality(Tokens)
  BY <1>2, NftAssumption, FS_Injection
<1>4. Cardinality(1..Len(s)) = Len(s)
  BY <1>1, FS_Interval
<1>5. QED
  BY <1>3, <1>4

\* What the wallet owns at a block is a list of tokens.
LEMMA SnapshotType ==
  ASSUME TypeOK, NEW b \in 1..Latest
  PROVE  /\ Owned(b) \in Seq(Tokens)
         /\ Len(Owned(b)) \in Nat
         /\ chain[b].status \in [Tokens -> Statuses]
         /\ Holds(b) \subseteq Tokens
<1>1. chain[b] \in Snapshots
  BY DEF TypeOK, Latest
<1>2. QED
  BY <1>1 DEF Snapshots, Owned, Holds, ToSet

-----------------------------------------------------------------------------
(* The chain grows: what a new block leaves as it was. *)

\* A new block changes nothing about the old ones.
LEMMA OldBlocks ==
  ASSUME TypeOK, NEW r, chain' = Append(chain, r)
  PROVE  /\ Latest \in Nat /\ Latest' = Latest + 1
         /\ chain'[Latest + 1] = r
         /\ \A b \in 1..Latest : /\ chain'[b] = chain[b]
                                 /\ Owned(b)' = Owned(b)
                                 /\ Holds(b)' = Holds(b)
                                 /\ PoolsAt(b)' = PoolsAt(b)
                                 /\ \A t \in Tokens : Live(t, b)' = Live(t, b)
<1>1. chain \in Seq(Snapshots) /\ Latest = Len(chain) /\ Latest \in Nat
  BY DEF TypeOK, Latest
<1>2. Latest' = Latest + 1 /\ chain'[Latest + 1] = r
      /\ \A b \in 1..Latest : chain'[b] = chain[b]
  BY <1>1 DEF Latest
<1>3. ASSUME NEW b \in 1..Latest
      PROVE  /\ Owned(b)' = Owned(b)
             /\ Holds(b)' = Holds(b)
             /\ PoolsAt(b)' = PoolsAt(b)
             /\ \A t \in Tokens : Live(t, b)' = Live(t, b)
  BY <1>2 DEF Owned, Holds, PoolsAt, Live
<1>4. QED
  BY <1>1, <1>2, <1>3

\* A window of old blocks looks as it did.
LEMMA OldWindows ==
  ASSUME TypeOK, NEW r, chain' = Append(chain, r),
         NEW first \in 1..Latest, NEW last \in 1..Latest
  PROVE  /\ Left(first, last)' = Left(first, last)
         /\ Entered(first, last)' = Entered(first, last)
         /\ Unmoved(first, last)' = Unmoved(first, last)
         /\ Unchanged(first, last)' = Unchanged(first, last)
<1>1. \A b \in first..last : b \in 1..Latest
  BY OldBlocks
<1>2. \A b \in first..(last - 1) : b \in 1..Latest /\ b + 1 \in 1..Latest
  BY OldBlocks
<1>3. \A b \in 1..Latest : Holds(b)' = Holds(b)
  BY OldBlocks
<1>4. Left(first, last)' = Left(first, last) /\ Entered(first, last)' = Entered(first, last)
  BY <1>2, <1>3 DEF Left, Entered
<1>5. QED
  BY <1>4 DEF Unmoved, Unchanged

\* A shorter window sees no more.
LEMMA SmallerWindow ==
  ASSUME TypeOK, NEW first \in Nat, NEW last \in Nat, NEW a \in first..last, NEW b \in first..last
  PROVE  /\ Left(a, b) \subseteq Left(first, last)
         /\ Entered(a, b) \subseteq Entered(first, last)
         /\ Kept(first, last) \subseteq Kept(a, b)
<1>1. \A c \in a..(b - 1) : c \in first..(last - 1)
  OBVIOUS
<1>2. \A c \in a..b : c \in first..last
  OBVIOUS
<1>3. QED
  BY <1>1, <1>2 DEF Left, Entered, Kept

\* What a block does to the enumeration: a token that stays does not move up;
\* if none leaves the old enumeration is the beginning of the new one; if
\* besides none enters it is the same.
Follows(old, new) ==
  /\ new \in Seq(Tokens) /\ IsInjective(new)
  /\ \A i \in DOMAIN old, j \in DOMAIN new : old[i] = new[j] => j <= i
  /\ ToSet(old) \subseteq ToSet(new) =>
       /\ Len(old) <= Len(new) /\ \A i \in 1..Len(old) : new[i] = old[i]
       /\ ToSet(new) \subseteq ToSet(old) => new = old

\* A block that follows the one before keeps the chain sound.
LEMMA ChainStep ==
  ASSUME TypeOK, ChainInv, NEW new, NEW status, Block(new, status),
         status \in [Tokens -> Statuses],
         NEW L \in Nat, L = Latest,
         Follows(Owned(L), new),
         \A t \in ToSet(new) : status[t] = "live"
  PROVE  ChainInv'
<1> DEFINE r == [owned |-> new, status |-> status]
<1>1. chain' = Append(chain, r)
  BY DEF Block
<1>2. /\ L \in Nat /\ Latest' = L + 1 /\ L >= 1 /\ chain'[L + 1] = r
      /\ \A b \in 1..L : /\ Owned(b)' = Owned(b) /\ Holds(b)' = Holds(b)
                         /\ \A t \in Tokens : Live(t, b)' = Live(t, b)
  <2>1. L >= 1
    BY NftAssumption DEF ChainInv
  <2>2. QED
    BY <2>1, <1>1, OldBlocks
<1>3. Owned(L + 1)' = new /\ Holds(L + 1)' = ToSet(new)
  BY <1>2 DEF Owned, Holds
<1>4. \A t \in Holds(L + 1)' : Live(t, L + 1)'
  BY <1>2, <1>3 DEF Live
<1>5. \A b \in 1..(L + 1) : b = L + 1 \/ b \in 1..L
  BY <1>2
<1>6. ASSUME NEW b \in 1..(L + 1)
      PROVE  IsInjective(Owned(b))' /\ \A t \in Holds(b)' : Live(t, b)'
  <2>1. CASE b = L + 1
    BY <2>1, <1>3, <1>4 DEF Follows, IsInjective
  <2>2. CASE b \in 1..L
    <3>1. IsInjective(Owned(b)) /\ Holds(b) \subseteq Tokens /\ \A t \in Holds(b) : Live(t, b)
      BY <2>2, SnapshotType DEF ChainInv
    <3>2. QED
      BY <3>1, <2>2, <1>2 DEF IsInjective
  <2>3. QED
    BY <2>1, <2>2, <1>5
<1>7. ASSUME NEW first \in 1..(L + 1), NEW last \in 1..(L + 1), first <= last
      PROVE  /\ Unmoved(first, last)' => Begins(first, last)'
             /\ Unchanged(first, last)' => Owned(first)' = Owned(last)'
             /\ Sinks(first, last)'
  <2>1. CASE last \in 1..L
    <3>1. first \in 1..L
      BY <2>1, <1>2, <1>7
    <3>2. /\ Unmoved(first, last) => Begins(first, last)
          /\ Unchanged(first, last) => Owned(first) = Owned(last)
          /\ Sinks(first, last)
      BY <3>1, <2>1, <1>7 DEF ChainInv
    <3>3. Unmoved(first, last)' = Unmoved(first, last)
          /\ Unchanged(first, last)' = Unchanged(first, last)
      BY <3>1, <2>1, <1>1, OldWindows
    <3>4. Begins(first, last)' = Begins(first, last)
      BY <3>1, <2>1, <1>2 DEF Begins
    <3>5. \A b \in first..last : b \in 1..L
      BY <3>1, <2>1
    <3>6. Kept(first, last)' = Kept(first, last)
      BY <3>5, <1>2 DEF Kept
    <3>7. Sinks(first, last)' = Sinks(first, last)
      BY <3>6, <3>1, <2>1, <1>2 DEF Sinks
    <3>8. QED
      BY <3>1, <2>1, <1>2, <3>2, <3>3, <3>4, <3>7
  <2>2. CASE last = L + 1 /\ first = L + 1
    <3>1. Begins(first, last)' /\ Owned(first)' = Owned(last)'
      BY <2>2, <1>3 DEF Begins, Follows
    <3>2. Sinks(first, last)'
      BY <2>2, <1>3 DEF Sinks, Follows, IsInjective
    <3>3. QED
      BY <3>1, <3>2
  <2>3. CASE last = L + 1 /\ first \in 1..L
    <3> DEFINE old == Owned(L)
               f == Owned(first)
    <3>1. /\ Owned(first)' = f /\ Owned(last)' = new /\ Holds(L)' = ToSet(old)
          /\ f \in Seq(Tokens) /\ old \in Seq(Tokens) /\ new \in Seq(Tokens)
      BY <2>3, <1>2, <1>3, SnapshotType DEF Holds, Follows
    <3>2. /\ Unmoved(first, L) => Begins(first, L)
          /\ Unchanged(first, L) => f = old
          /\ Sinks(first, L)
      BY <2>3, <1>2 DEF ChainInv
    <3>3. \A b \in first..(L - 1) : b \in first..(last - 1)
      BY <2>3, <1>2
    <3>4. L \in first..(last - 1) /\ last \in first..last /\ L + 1 = last
      BY <2>3, <1>2
    <3>5. Left(first, last)' = {} => Left(first, L)' = {} /\ ToSet(old) \subseteq ToSet(new)
      <4>1. Left(first, L)' \subseteq Left(first, last)'
        BY <3>3 DEF Left
      <4>2. ASSUME Left(first, last)' = {}, NEW t \in ToSet(old), t \notin ToSet(new)
            PROVE  FALSE
        <5>1. t \in Tokens /\ t \in Holds(L)' \ Holds(L + 1)'
          BY <4>2, <3>1, <1>3 DEF ToSet
        <5>2. t \in Left(first, last)'
          BY <5>1, <3>4 DEF Left
        <5>3. QED
          BY <5>2, <4>2
      <4>3. QED
        BY <4>1, <4>2
    <3>6. Entered(first, last)' = {} => Entered(first, L)' = {} /\ ToSet(new) \subseteq ToSet(old)
      <4>1. Entered(first, L)' \subseteq Entered(first, last)'
        BY <3>3 DEF Entered
      <4>2. ASSUME Entered(first, last)' = {}, NEW t \in ToSet(new), t \notin ToSet(old)
            PROVE  FALSE
        <5>1. t \in Tokens /\ t \in Holds(L + 1)' \ Holds(L)'
          BY <4>2, <3>1, <1>3 DEF ToSet
        <5>2. t \in Entered(first, last)'
          BY <5>1, <3>4 DEF Entered
        <5>3. QED
          BY <5>2, <4>2
      <4>3. QED
        BY <4>1, <4>2
    <3>7. Left(first, L)' = Left(first, L) /\ Entered(first, L)' = Entered(first, L)
      BY <2>3, <1>1, <1>2, OldWindows
    <3>8. Unmoved(first, last)' => Begins(first, last)'
      <4>1. HAVE Unmoved(first, last)'
      <4>2. Begins(first, L) /\ ToSet(old) \subseteq ToSet(new)
        BY <4>1, <3>2, <3>5, <3>7 DEF Unmoved
      <4>3. Len(f) <= Len(old) /\ \A i \in 1..Len(f) : old[i] = f[i]
        BY <4>2 DEF Begins
      <4>4. Len(old) <= Len(new) /\ \A i \in 1..Len(old) : new[i] = old[i]
        BY <4>2 DEF Follows
      <4>5. Len(f) <= Len(new) /\ \A i \in 1..Len(f) : new[i] = f[i]
        BY <4>3, <4>4, <3>1
      <4>6. QED
        BY <4>5, <3>1 DEF Begins
    <3>9. Unchanged(first, last)' => Owned(first)' = Owned(last)'
      <4>1. HAVE Unchanged(first, last)'
      <4>2. f = old /\ ToSet(old) \subseteq ToSet(new) /\ ToSet(new) \subseteq ToSet(old)
        BY <4>1, <3>2, <3>5, <3>6, <3>7 DEF Unchanged
      <4>3. QED
        BY <4>2, <3>1 DEF Follows
    <3>10. Sinks(first, last)'
      <4>1. SUFFICES ASSUME NEW t \in Kept(first, last)',
                            NEW i \in DOMAIN f, NEW j \in DOMAIN new, f[i] = t, new[j] = t
                     PROVE  j <= i
        BY <3>1 DEF Sinks
      <4>2. \A b \in first..L : b \in first..last /\ b \in 1..L
        BY <2>3, <1>2
      <4>3. \A b \in first..last : t \in Holds(b)'
        BY <4>1 DEF Kept
      <4>4. t \in Tokens /\ \A b \in first..L : t \in Holds(b)
        BY <4>2, <4>3, <1>2 DEF Kept
      <4>5. t \in Kept(first, L) /\ t \in Holds(L)
        BY <4>4, <2>3, <1>2 DEF Kept
      <4>6. PICK k \in DOMAIN old : old[k] = t
        BY <4>5 DEF Holds, ToSet
      <4>7. k <= i
        BY <4>5, <4>6, <4>1, <3>2 DEF Sinks
      <4>8. j <= k
        BY <4>6, <4>1 DEF Follows
      <4>9. i \in Nat /\ j \in Nat /\ k \in Nat
        BY <3>1
      <4>10. QED
        BY <4>7, <4>8, <4>9
    <3>11. QED
      BY <3>8, <3>9, <3>10
  <2>4. QED
    BY <2>1, <2>2, <2>3, <1>5
<1>8. Latest' \in 1..MaxBlocks
  BY <1>2, NftAssumption DEF Block
<1>9. QED
  BY <1>2, <1>6, <1>7, <1>8 DEF ChainInv

\* A token received is listed last.
LEMMA ReceivedLast ==
  ASSUME NEW old \in Seq(Tokens), IsInjective(old), NEW t \in Tokens, t \notin ToSet(old)
  PROVE  Follows(old, Append(old, t)) /\ ToSet(Append(old, t)) = ToSet(old) \cup {t}
<1> DEFINE new == Append(old, t)
<1>1. /\ Len(old) \in Nat /\ new \in Seq(Tokens) /\ Len(new) = Len(old) + 1
      /\ DOMAIN old = 1..Len(old) /\ DOMAIN new = 1..(Len(old) + 1)
      /\ new[Len(old) + 1] = t
      /\ \A i \in 1..Len(old) : new[i] = old[i]
  OBVIOUS
<1> HIDE DEF new
<1>2. \A i \in DOMAIN new : i \in DOMAIN old \/ i = Len(old) + 1
  BY <1>1
<1>3. ToSet(new) = ToSet(old) \cup {t}
  BY <1>1, <1>2 DEF ToSet
<1>4. IsInjective(new)
  BY <1>1, <1>2 DEF IsInjective, ToSet
<1>5. ASSUME NEW i \in DOMAIN old, NEW j \in DOMAIN new, old[i] = new[j]
      PROVE  j <= i
  <2>1. old[i] \in ToSet(old)
    BY DEF ToSet
  <2>2. j \in DOMAIN old /\ old[j] = old[i]
    BY <1>1, <1>2, <1>5, <2>1
  <2>3. QED
    BY <2>2, <1>1 DEF IsInjective
<1>6. t \in ToSet(new)
  BY <1>3
<1>7. Follows(old, new)
  BY <1>1, <1>4, <1>5, <1>6 DEF Follows
<1>8. QED
  BY <1>3, <1>7 DEF new

\* A token that leaves is replaced by the last one.
LEMMA LeftReplaced ==
  ASSUME NEW old \in Seq(Tokens), IsInjective(old), NEW gap \in DOMAIN old
  PROVE  /\ Follows(old, Front([old EXCEPT ![gap] = Last(old)]))
         /\ ToSet(Front([old EXCEPT ![gap] = Last(old)])) = ToSet(old) \ {old[gap]}
<1> DEFINE n == Len(old)
           moved == [old EXCEPT ![gap] = Last(old)]
           new == Front(moved)
<1>1. n \in Nat /\ DOMAIN old = 1..n /\ gap \in 1..n
  OBVIOUS
<1>2. moved \in Seq(Tokens) /\ Len(moved) = n
  BY <1>1 DEF Last
<1>3. new \in Seq(Tokens) /\ Len(new) = n - 1 /\ DOMAIN new = 1..(n - 1)
  BY <1>1, <1>2 DEF Front
<1>4. \A i \in 1..(n - 1) : new[i] = moved[i]
  BY <1>1, <1>2 DEF Front
<1>5. \A i \in 1..(n - 1) : new[i] = IF i = gap THEN old[n] ELSE old[i]
  <2>1. \A i \in 1..n : moved[i] = IF i = gap THEN old[n] ELSE old[i]
    BY <1>1 DEF Last
  <2> HIDE DEF moved, new, n
  <2>2. QED
    BY <1>1, <1>4, <2>1
<1> HIDE DEF new, n, moved
<1>6. \A i, j \in 1..n : old[i] = old[j] => i = j
  BY <1>1 DEF IsInjective
<1>7. IsInjective(new)
  BY <1>1, <1>3, <1>5, <1>6 DEF IsInjective
<1>8. ASSUME NEW i \in DOMAIN old, NEW j \in DOMAIN new, old[i] = new[j]
      PROVE  j <= i
  BY <1>1, <1>3, <1>5, <1>6, <1>8
<1>9. old[gap] \notin ToSet(new)
  <2>1. ASSUME NEW i \in 1..(n - 1), new[i] = old[gap]
        PROVE  FALSE
    BY <2>1, <1>1, <1>5, <1>6
  <2>2. QED
    BY <2>1, <1>3 DEF ToSet
<1>10. ToSet(new) \subseteq ToSet(old)
  <2>1. ASSUME NEW i \in 1..(n - 1)
        PROVE  \E j \in 1..n : new[i] = old[j]
    BY <1>1, <1>5
  <2>2. QED
    BY <2>1, <1>1, <1>3 DEF ToSet
<1>11. ASSUME NEW i \in 1..n, i # gap
       PROVE  \E j \in 1..(n - 1) : new[j] = old[i]
  <2>1. CASE i = n
    BY <2>1, <1>1, <1>5, <1>11
  <2>2. CASE i # n
    BY <2>2, <1>1, <1>5, <1>11
  <2>3. QED
    BY <2>1, <2>2
<1>12. ToSet(new) = ToSet(old) \ {old[gap]}
  <2>1. ASSUME NEW i \in 1..n, old[i] # old[gap]
        PROVE  old[i] \in ToSet(new)
    BY <2>1, <1>3, <1>11 DEF ToSet
  <2>2. QED
    BY <2>1, <1>1, <1>9, <1>10 DEF ToSet
<1>13. ~ (ToSet(old) \subseteq ToSet(new))
  BY <1>9, <1>1 DEF ToSet
<1>14. QED
  BY <1>3, <1>7, <1>8, <1>12, <1>13 DEF Follows, new, moved

-----------------------------------------------------------------------------
(* A new block disturbs neither the walk nor the cache. *)

\* A new block disturbs no walk and no row.
LEMMA BlockKeepsRest ==
  ASSUME IInv, NEW new \in Seq(Tokens), NEW status \in [Tokens -> Statuses], Block(new, status)
  PROVE  TypeOK' /\ WindowInv' /\ PhaseInv' /\ CacheInv'
<1> DEFINE r == [owned |-> new, status |-> status]
<1>1. /\ chain' = Append(chain, r)
      /\ Latest < MaxBlocks
      /\ UNCHANGED <<synced, cached, runs, mode, pc, balance, ids, read, seeds, lo, hi, ordered, cover>>
  BY DEF Block, command
<1>2. TypeOK /\ ChainInv /\ WindowInv /\ PhaseInv /\ CacheInv
  BY DEF IInv
<1>3. Latest \in Nat /\ Latest' = Latest + 1 /\ \A b \in 1..Latest : Owned(b)' = Owned(b)
      /\ Holds(b)' = Holds(b) /\ PoolsAt(b)' = PoolsAt(b)
  BY <1>1, <1>2, OldBlocks
<1>4. lo \in Nat /\ hi \in Nat /\ lo <= Latest /\ hi <= Latest
  BY <1>2, <1>3 DEF TypeOK
<1>5. TypeOK'
  <2>1. r \in Snapshots
    BY DEF Snapshots
  <2>2. chain' \in Seq(Snapshots)
    BY <1>1, <1>2, <2>1 DEF TypeOK
  <2>3. lo' \in 0..Latest' /\ hi' \in 0..Latest'
    BY <1>1, <1>3, <1>4
  <2>4. QED
    BY <1>1, <1>2, <2>2, <2>3 DEF TypeOK
<1>6. PhaseInv'
  BY <1>1, <1>2 DEF PhaseInv
<1>7. WindowInv'
  <2>1. \A b \in lo..hi : lo > 0 => b \in 1..Latest /\ Owned(b)' = Owned(b)
    BY <1>3, <1>4
  <2>2. lo > 0 => lo \in 1..Latest /\ Owned(lo)' = Owned(lo)
    <3>1. lo > 0 => lo \in 1..Latest
      BY <1>3, <1>4
    <3>2. lo > 0 => chain'[lo] = chain[lo]
      BY <3>1, <1>1, <1>2, OldBlocks
    <3>3. QED
      BY <3>1, <3>2, <1>1 DEF Owned
  <2>3. QED
    BY <1>1, <1>2, <2>1, <2>2 DEF WindowInv
<1>8. CacheInv'
  <2>1. lo > 0 => Unchanged(lo, hi)' = Unchanged(lo, hi)
    <3>1. lo > 0 => \A b \in lo..(hi - 1) : Holds(b)' = Holds(b) /\ Holds(b + 1)' = Holds(b + 1)
      BY <1>3, <1>4
    <3>2. lo > 0 => Left(lo, hi)' = Left(lo, hi) /\ Entered(lo, hi)' = Entered(lo, hi)
      BY <3>1, <1>1 DEF Left, Entered
    <3>3. QED
      BY <3>2 DEF Unchanged
  <2> DEFINE known == cover.kind # "none"
             c == cover.lo
             d == cover.hi
  <2>2. known => c \in 1..Latest /\ d \in 1..Latest
    BY <1>2, <1>3 DEF CacheInv, TypeOK, Covers
  <2>3. known => /\ Unchanged(cover.lo, cover.hi)' = Unchanged(cover.lo, cover.hi)
                 /\ Holds(cover.lo)' = Holds(cover.lo)
                 /\ PoolsAt(cover.lo)' = PoolsAt(cover.lo)
    <3>1. known => \A b \in c..(d - 1) : Holds(b)' = Holds(b) /\ Holds(b + 1)' = Holds(b + 1)
      BY <2>2, <1>3
    <3>2. known => /\ Left(cover.lo, cover.hi)' = Left(cover.lo, cover.hi)
                   /\ Entered(cover.lo, cover.hi)' = Entered(cover.lo, cover.hi)
      BY <3>1, <1>1 DEF Left, Entered
    <3>3. known => chain'[c] = chain[c] /\ chain'[d] = chain[d]
      BY <2>2, <1>1, <1>2, OldBlocks
    <3>4. known => Holds(cover.lo)' = Holds(cover.lo) /\ PoolsAt(cover.lo)' = PoolsAt(cover.lo)
      BY <3>3, <1>1 DEF Holds, Owned, PoolsAt
    <3>5. QED
      BY <3>2, <3>4 DEF Unchanged
  <2>4. /\ synced' = (cover'.kind # "none")
        /\ cover'.kind # "none" => 1 <= cover'.lo /\ cover'.lo <= cover'.hi /\ cover'.hi <= Latest'
    BY <1>1, <1>2, <1>3, <2>2 DEF CacheInv, TypeOK, Covers
  <2>8. CreatedBefore(cover.first) \subseteq CreatedBefore(cover.first)'
    <3>1. \A k \in 1..Latest : k \in 1..Latest' /\ PoolsAt(k)' = PoolsAt(k)
      BY <1>3
    <3>2. cover' = cover
      BY <1>1
    <3>3. QED
      BY <3>1, <3>2 DEF CreatedBefore
  <2>5. /\ cover'.kind = "logs" =>
             \/ cover'.limited /\ Cardinality(cached') = MaxPools
             \/ PoolsAt(cover.lo)' \ CreatedBefore(cover.first)' \subseteq cached'
        /\ (cover'.kind = "own" /\ Unchanged(cover.lo, cover.hi)') =>
             \A t \in Holds(cover.lo)' : poolOf[t] \in cached'
    BY <1>1, <1>2, <2>3, <2>8 DEF CacheInv
  <2>6. pc \in {"getPool", "finish"} => lo > 0
    BY <1>2 DEF PhaseInv
  <2>7. QED
    BY <1>1, <1>2, <2>1, <2>4, <2>5, <2>6 DEF CacheInv
<1>9. QED
  BY <1>5, <1>6, <1>7, <1>8

-----------------------------------------------------------------------------
(* The steps of a walk leave the chain as it is. *)

\* What is said of a chain that stays is still so.
LEMMA SameChain ==
  ASSUME chain' = chain
  PROVE  /\ Latest' = Latest
         /\ ChainInv' = ChainInv
         /\ Unchanged(lo, hi)' = Unchanged(lo', hi')
         /\ Unchanged(cover.lo, cover.hi)' = Unchanged(cover'.lo, cover'.hi)
         /\ Holds(cover.lo)' = Holds(cover'.lo)
         /\ PoolsAt(cover.lo)' = PoolsAt(cover'.lo)
         /\ CreatedBefore(cover.first)' = CreatedBefore(cover'.first)
         /\ \A b : Owned(b)' = Owned(b)
<1>1. /\ Latest' = Latest
      /\ \A b : Owned(b)' = Owned(b)
      /\ \A b : Holds(b)' = Holds(b)
      /\ \A b, t : Live(t, b)' = Live(t, b)
  BY DEF Latest, Owned, Holds, Live
<1>2. \A f, l : Left(f, l)' = Left(f, l) /\ Entered(f, l)' = Entered(f, l) /\ Kept(f, l)' = Kept(f, l)
  BY <1>1 DEF Left, Entered, Kept
<1>3. \A f, l : /\ Unmoved(f, l)' = Unmoved(f, l)
                /\ Unchanged(f, l)' = Unchanged(f, l)
                /\ Begins(f, l)' = Begins(f, l)
                /\ Sinks(f, l)' = Sinks(f, l)
  BY <1>1, <1>2 DEF Unmoved, Unchanged, Begins, Sinks
<1>4. ChainInv' = ChainInv
  BY <1>1, <1>3 DEF ChainInv, IsInjective
<1>5. /\ Unchanged(lo, hi)' = Unchanged(lo', hi')
      /\ Unchanged(cover.lo, cover.hi)' = Unchanged(cover'.lo, cover'.hi)
  BY DEF Unchanged, Left, Entered, Holds, Owned
<1>6. Holds(cover.lo)' = Holds(cover'.lo) /\ PoolsAt(cover.lo)' = PoolsAt(cover'.lo)
      /\ CreatedBefore(cover.first)' = CreatedBefore(cover'.first)
  BY DEF Holds, Owned, PoolsAt, CreatedBefore, Latest
<1>7. QED
  BY <1>1, <1>4, <1>5, <1>6

\* If nothing changes in a window, every block of it lists the same tokens.
LEMMA UnchangedWindow ==
  ASSUME TypeOK, ChainInv, NEW first \in 1..Latest, NEW last \in 1..Latest,
         Unchanged(first, last), NEW a \in first..last, NEW b \in first..last
  PROVE  Owned(a) = Owned(b)
<1>1. Latest \in Nat
  BY DEF TypeOK, Latest
<1>2. /\ Left(a, b) = {} /\ Entered(a, b) = {}
      /\ Left(b, a) = {} /\ Entered(b, a) = {}
  BY <1>1, SmallerWindow DEF Unchanged
<1>3. a \in 1..Latest /\ b \in 1..Latest /\ (a <= b \/ b <= a)
  BY <1>1
<1>4. QED
  BY <1>2, <1>3 DEF Unchanged, ChainInv

\* An answer widens the window just so far that it includes its block.
LEMMA SawWidens ==
  ASSUME TypeOK, WindowInv, NEW b \in Answering, Saw(b)
  PROVE  /\ b \in 1..Latest
         /\ lo' \in 1..Latest /\ hi' \in 1..Latest
         /\ lo' <= b /\ b <= hi'
         /\ lo > 0 => lo' <= lo /\ hi <= hi'
         /\ lo = 0 => lo' = b /\ hi' = b
         /\ ordered' \in BOOLEAN
         /\ ordered' => ordered /\ (lo > 0 => lo' = lo)
<1>1. b \in 1..Latest /\ lo \in Nat /\ hi \in Nat /\ Latest \in Nat /\ lo <= Latest /\ hi <= Latest
  BY DEF Answering, TypeOK, Latest
<1>2. /\ lo' = IF lo = 0 THEN b ELSE IF lo <= b THEN lo ELSE b
      /\ hi' = IF hi >= b THEN hi ELSE b
  BY <1>1, MinMaxOfTwo DEF Saw
<1>3. (lo > 0 => lo <= hi) /\ (lo = 0 => hi = 0)
  BY DEF WindowInv
<1>4. ordered' \in BOOLEAN /\ (ordered' => ordered /\ b >= hi)
  BY Zenon DEF Saw
<1>5. /\ lo' \in 1..Latest /\ hi' \in 1..Latest /\ lo' <= b /\ b <= hi'
      /\ lo > 0 => lo' <= lo /\ hi <= hi'
      /\ lo = 0 => lo' = b /\ hi' = b
      /\ b >= hi /\ lo > 0 => lo' = lo
  BY <1>1, <1>2, <1>3
<1>6. QED
  BY <1>1, <1>4, <1>5

-----------------------------------------------------------------------------
(* One lemma per step. *)

\* Before the first command nothing is read.
LEMMA InitInv == Init => IInv
<1> SUFFICES ASSUME Init
             PROVE  IInv
  OBVIOUS
<1>1. PICK born \in SUBSET Tokens : \E held \in SUBSET born : \E s \in SetToSeqs(held) :
         chain = << [owned |-> s,
                     status |-> [t \in Tokens |-> IF t \in born THEN "live" ELSE "unborn"]] >>
  BY DEF Init
<1>2. PICK held \in SUBSET born : \E s \in SetToSeqs(held) :
         chain = << [owned |-> s,
                     status |-> [t \in Tokens |-> IF t \in born THEN "live" ELSE "unborn"]] >>
  BY <1>1
<1>3. PICK s \in SetToSeqs(held) :
         chain = << [owned |-> s,
                     status |-> [t \in Tokens |-> IF t \in born THEN "live" ELSE "unborn"]] >>
  BY <1>2
<1> DEFINE st == [t \in Tokens |-> IF t \in born THEN "live" ELSE "unborn"]
           n == Cardinality(held)
<1>4. n \in Nat
  BY NftAssumption, FS_Subset, FS_CardinalityType
<1>5. s \in [1..n -> held] /\ \A i, j \in 1..n : i # j => s[i] # s[j]
  BY <1>3 DEF SetToSeqs
<1>6. s \in Seq(Tokens) /\ IsInjective(s) /\ ToSet(s) \subseteq held
  <2>1. s \in Seq(held)
    BY <1>4, <1>5
  <2>2. s \in Seq(Tokens)
    BY <2>1, <1>4, <1>5
  <2>3. QED
    BY <2>2, <1>5 DEF IsInjective, ToSet
<1>7. st \in [Tokens -> Statuses] /\ \A t \in held : st[t] = "live"
  BY DEF Statuses
<1>8. [owned |-> s, status |-> st] \in Snapshots
  BY <1>6, <1>7 DEF Snapshots
<1> HIDE DEF st
<1>9. /\ chain \in Seq(Snapshots) /\ Latest = 1
      /\ Owned(1) = s /\ Holds(1) = ToSet(s) /\ \A t \in held : Live(t, 1)
  BY <1>3, <1>7, <1>8 DEF Latest, Owned, Holds, Live, st
<1>10. TypeOK
  <2>1. Cardinality(Tokens) \in Nat
    BY NftAssumption, FS_CardinalityType
  <2>2. cover \in Covers
    BY NftAssumption DEF Init, Covers
  <2>3. synced \in BOOLEAN /\ cached \in SUBSET Pools /\ runs \in 0..MaxRuns
        /\ mode \in {"sync", "positions"} /\ pc \in Ended \cup Calls
    <3>1. synced = FALSE /\ cached = {} /\ runs = 0 /\ mode = "sync" /\ pc = "idle"
      BY DEF Init
    <3>2. runs \in 0..MaxRuns
      BY <3>1, NftAssumption
    <3>3. pc \in Ended \cup Calls
      BY <3>1 DEF Ended
    <3>4. synced \in BOOLEAN
      BY <3>1, Zenon
    <3>5. QED
      BY <3>1, <3>2, <3>3, <3>4
  <2>4. balance \in 0..Cardinality(Tokens) /\ ids \in Seq(Tokens) /\ Len(ids) <= balance
        /\ read \in 0..balance /\ seeds \in SUBSET Pools
    BY <2>1 DEF Init
  <2>5. lo \in 0..Latest /\ hi \in 0..Latest /\ ordered \in BOOLEAN
    BY <1>9 DEF Init
  <2>6. QED
    BY <1>9, <2>2, <2>3, <2>4, <2>5 DEF TypeOK
<1>11. ChainInv
  <2>1. \A b \in 1..Latest : b = 1
    BY <1>9
  <2>2. IsInjective(Owned(1)) /\ \A t \in Holds(1) : Live(t, 1)
    BY <1>6, <1>9
  <2>3. Begins(1, 1) /\ Sinks(1, 1)
    BY <2>2, <1>6, <1>9 DEF Begins, Sinks, IsInjective
  <2>4. Latest \in 1..MaxBlocks
    BY <1>9, NftAssumption
  <2>5. QED
    BY <1>9, <2>1, <2>2, <2>3, <2>4 DEF ChainInv
<1>12. WindowInv /\ PhaseInv /\ CacheInv
  <2>1. pc = "idle" /\ lo = 0 /\ hi = 0 /\ ids = <<>> /\ balance = 0
        /\ synced = FALSE /\ cover.kind = "none"
    BY DEF Init
  <2>2. WindowInv /\ PhaseInv
    BY <2>1 DEF WindowInv, PhaseInv
  <2>3. synced = (cover.kind # "none")
    BY <2>1, Zenon
  <2>4. QED
    BY <2>1, <2>2, <2>3 DEF CacheInv
<1>13. QED
  BY <1>10, <1>11, <1>12 DEF IInv

\* A token that comes in is the last of the list.
LEMMA ReceiveStep ==
  ASSUME IInv, NEW t \in Tokens, Receive(t)
  PROVE  IInv'
<1>1. TypeOK /\ ChainInv /\ Latest \in Nat /\ Latest \in 1..Latest
  BY DEF IInv, ChainInv, TypeOK, Latest
<1> DEFINE old == Owned(Latest)
           new == Append(old, t)
           status == [chain[Latest].status EXCEPT ![t] = "live"]
<1>2. old \in Seq(Tokens) /\ IsInjective(old) /\ chain[Latest].status \in [Tokens -> Statuses]
      /\ \A u \in ToSet(old) : u \in Tokens /\ chain[Latest].status[u] = "live"
  BY <1>1, SnapshotType DEF ChainInv, Holds, Live
<1>3. Block(new, status) /\ t \notin ToSet(old)
  BY DEF Receive, Holds
<1>4. Follows(old, new) /\ ToSet(new) = ToSet(old) \cup {t}
  BY <1>2, <1>3, ReceivedLast
<1>5. status \in [Tokens -> Statuses] /\ \A u \in ToSet(new) : status[u] = "live"
  BY <1>2, <1>4 DEF Statuses
<1> HIDE DEF status, new
<1>6. ChainInv'
  BY <1>1, <1>3, <1>4, <1>5, ChainStep
<1>7. TypeOK' /\ WindowInv' /\ PhaseInv' /\ CacheInv'
  BY <1>3, <1>4, <1>5, BlockKeepsRest DEF Follows
<1>8. QED
  BY <1>6, <1>7 DEF IInv

\* One that leaves makes room for the last.
LEMMA LeaveStep ==
  ASSUME IInv, NEW t \in Tokens, NEW fate \in {"live", "burned"}, Leave(t, fate)
  PROVE  IInv'
<1>1. TypeOK /\ ChainInv /\ Latest \in Nat /\ Latest \in 1..Latest
  BY DEF IInv, ChainInv, TypeOK, Latest
<1> DEFINE old == Owned(Latest)
           gap == CHOOSE i \in DOMAIN old : old[i] = t
           new == Front([old EXCEPT ![gap] = Last(old)])
           status == [chain[Latest].status EXCEPT ![t] = fate]
<1>2. old \in Seq(Tokens) /\ IsInjective(old) /\ chain[Latest].status \in [Tokens -> Statuses]
      /\ \A u \in ToSet(old) : u \in Tokens /\ chain[Latest].status[u] = "live"
  BY <1>1, SnapshotType DEF ChainInv, Holds, Live
<1>3. Block(new, status) /\ t \in ToSet(old)
  BY DEF Leave, Holds
<1>4. gap \in DOMAIN old /\ old[gap] = t
  BY <1>3 DEF ToSet
<1> HIDE DEF gap
<1>5. Follows(old, new) /\ ToSet(new) = ToSet(old) \ {t}
  BY <1>2, <1>4, LeftReplaced
<1>6. status \in [Tokens -> Statuses] /\ \A u \in ToSet(new) : status[u] = "live"
  BY <1>2, <1>5 DEF Statuses
<1> HIDE DEF status, new
<1>7. ChainInv'
  BY <1>1, <1>3, <1>5, <1>6, ChainStep
<1>8. TypeOK' /\ WindowInv' /\ PhaseInv' /\ CacheInv'
  BY <1>3, <1>5, <1>6, BlockKeepsRest DEF Follows
<1>9. QED
  BY <1>7, <1>8 DEF IInv

\* A command begins with what is cached.
LEMMA BeginStep ==
  ASSUME IInv, NEW m \in {"sync", "positions"}, Begin(m)
  PROVE  IInv'
<1>1. TypeOK /\ ChainInv /\ WindowInv /\ PhaseInv /\ CacheInv
  BY DEF IInv
<1>2. pc' \in {"balance", "missing", "done"}
  BY DEF Begin
<1>3. chain' = chain
  BY DEF Begin
<1>4. ChainInv' /\ Latest' = Latest
  BY <1>1, <1>3, SameChain
<1>5. TypeOK'
  <2>1. Latest \in Nat /\ Cardinality(Tokens) \in Nat
    BY <1>1, NftAssumption, FS_CardinalityType DEF TypeOK, Latest
  <2>2. runs' \in 0..MaxRuns
    BY <1>1, NftAssumption DEF Begin, TypeOK
  <2>3. QED
    BY <1>1, <1>2, <1>4, <2>1, <2>2 DEF Begin, TypeOK, Ended, Calls
<1>6. WindowInv' /\ PhaseInv'
  BY <1>2 DEF Begin, WindowInv, PhaseInv
<1>7. CacheInv'
  BY <1>1, <1>2, <1>3, <1>4, SameChain DEF Begin, CacheInv
<1>8. QED
  BY <1>4, <1>5, <1>6, <1>7 DEF IInv

\* A batch that fails ends the walk.
LEMMA FailsStep ==
  ASSUME IInv, Fails
  PROVE  IInv'
<1>1. TypeOK /\ ChainInv /\ WindowInv /\ PhaseInv /\ CacheInv
  BY DEF IInv
<1>2. /\ pc' = "failed"
      /\ UNCHANGED <<chain, synced, cached, runs, mode, balance, ids, read, seeds, lo, hi, ordered, cover>>
  BY DEF Fails
<1>3. ChainInv' /\ Latest' = Latest
  BY <1>1, <1>2, SameChain
<1>4. TypeOK'
  BY <1>1, <1>2, <1>3 DEF TypeOK, Ended
<1>5. PhaseInv'
  BY <1>2 DEF PhaseInv
<1>6. WindowInv'
  BY <1>1, <1>2, SameChain DEF WindowInv, Owned
<1>7. CacheInv'
  BY <1>1, <1>2, <1>3, SameChain DEF CacheInv
<1>8. QED
  BY <1>3, <1>4, <1>5, <1>6, <1>7 DEF IInv

\* The walk learns how many tokens there are.
LEMMA BalanceStep ==
  ASSUME IInv, NEW b \in Answering, BalanceOf(b)
  PROVE  IInv'
<1>1. TypeOK /\ ChainInv /\ WindowInv /\ PhaseInv /\ CacheInv
  BY DEF IInv
<1>2. /\ pc = "balance" /\ lo = 0 /\ ids = <<>> /\ read = 0 /\ seeds = {}
      /\ Saw(b) /\ chain' = chain /\ balance' = Len(Owned(b))
      /\ UNCHANGED <<synced, cached, runs, mode, ids, read, seeds, cover>>
  BY <1>1 DEF BalanceOf, PhaseInv, WindowInv
<1>3. b \in 1..Latest /\ lo' = b /\ hi' = b /\ ordered' \in BOOLEAN
  BY <1>1, <1>2, SawWidens
<1>4. ChainInv' /\ Latest' = Latest /\ Owned(b)' = Owned(b) /\ Latest \in Nat
  BY <1>1, <1>2, SameChain DEF TypeOK, Latest
<1>5. pc' = IF balance' = 0 THEN (IF mode = "sync" THEN "finish" ELSE "done") ELSE "index"
  BY DEF BalanceOf, AfterDetails
<1>6. TypeOK'
  <2>1. balance' \in 0..Cardinality(Tokens)
    <3>1. Owned(b) \in Seq(Tokens) /\ IsInjective(Owned(b)) /\ Len(Owned(b)) \in Nat
      BY <1>1, <1>3, SnapshotType DEF ChainInv
    <3>2. Cardinality(Tokens) \in Nat
      BY NftAssumption, FS_CardinalityType
    <3>3. QED
      BY <1>2, <3>1, <3>2, InjectiveLen
  <2>2. pc' \in Ended \cup Calls
    BY <1>5 DEF Ended, Calls
  <2>3. ids' \in Seq(Tokens) /\ Len(ids') <= balance' /\ read' \in 0..balance'
    BY <1>2, <2>1
  <2>4. lo' \in 0..Latest' /\ hi' \in 0..Latest'
    BY <1>3, <1>4
  <2>5. QED
    BY <1>1, <1>2, <1>3, <2>1, <2>2, <2>3, <2>4 DEF TypeOK
<1>7. WindowInv'
  <2>1. balance' = Len(Owned(b)') /\ b \in lo'..hi' /\ ids' = <<>> /\ lo' = b /\ lo' > 0 /\ hi' = b
    BY <1>2, <1>3, <1>4
  <2>2. balance' = Len(Owned(lo)')
    BY <2>1 DEF Owned
  <2>3. QED
    BY <2>1, <2>2 DEF WindowInv
<1>8. PhaseInv'
  <2>1. balance' \in Nat /\ lo' > 0 /\ Len(ids') = 0 /\ read' = 0 /\ seeds' = {}
    BY <1>2, <1>3, <1>6 DEF TypeOK
  <2>2. mode' \in {"sync", "positions"} /\ mode' = mode
    BY <1>1, <1>2 DEF TypeOK
  <2>3. QED
    BY <1>5, <2>1, <2>2 DEF PhaseInv
<1>9. CacheInv'
  <2>1. ids' = <<>>
    BY <1>2
  <2>2. pc' \in {"finish", "done", "index"}
    BY <1>5
  <2>3. QED
    BY <1>1, <1>2, <1>4, <2>1, <2>2, SameChain DEF CacheInv
<1>10. QED
  BY <1>4, <1>6, <1>7, <1>8, <1>9 DEF IInv

\* It reads one token by its index.
LEMMA IndexStep ==
  ASSUME IInv, NEW b \in Answering, TokensOfOwner(b)
  PROVE  IInv'
<1> DEFINE done == Len(ids)
           last == Max(Batch(done))
           more == SubSeq(Owned(b), done + 1, last)
           fails == last > Len(Owned(b))
<1>1. TypeOK /\ ChainInv /\ WindowInv /\ PhaseInv /\ CacheInv
  BY DEF IInv
<1>2. /\ pc = "index" /\ lo > 0 /\ done < balance /\ read = 0 /\ seeds = {}
      /\ Saw(b) /\ chain' = chain
      /\ UNCHANGED <<synced, cached, runs, mode, balance, read, seeds, cover>>
      /\ IF fails THEN pc' = "failed" /\ ids' = ids
         ELSE ids' = ids \o more /\ pc' = IF last = balance THEN "details" ELSE pc
  BY <1>1 DEF TokensOfOwner, PhaseInv
<1>3. /\ b \in 1..Latest /\ lo' \in 1..Latest /\ hi' \in 1..Latest /\ lo' <= b /\ b <= hi'
      /\ lo' <= lo /\ hi <= hi' /\ ordered' \in BOOLEAN
      /\ ordered' => ordered /\ lo' = lo
  BY <1>1, <1>2, SawWidens
<1>4. ChainInv' /\ Latest' = Latest /\ Latest \in Nat /\ \A c : Owned(c)' = Owned(c)
  BY <1>1, <1>2, SameChain DEF TypeOK, Latest
<1>5. ids \in Seq(Tokens) /\ done \in Nat /\ balance \in Nat /\ lo \in Nat /\ hi \in Nat
  BY <1>1, <1>4, NftAssumption, FS_CardinalityType DEF TypeOK
<1>6. /\ last \in (done + 1)..balance
      /\ done = 0 /\ balance <= BatchSize => last = balance
  BY <1>1, <1>2, <1>5, BatchShape
<1>7. Owned(b) \in Seq(Tokens) /\ Len(Owned(b)) \in Nat
  BY <1>1, <1>3, SnapshotType
<1> HIDE DEF last
<1>8. ~fails => /\ ids' \in Seq(Tokens) /\ Len(ids') = last
                /\ \A i \in 1..done : ids'[i] = ids[i]
                /\ \A i \in (done + 1)..last : ids'[i] = Owned(b)[i]
  <2> SUFFICES ASSUME ~fails
               PROVE  /\ ids' \in Seq(Tokens) /\ Len(ids') = last
                      /\ \A i \in 1..done : ids'[i] = ids[i]
                      /\ \A i \in (done + 1)..last : ids'[i] = Owned(b)[i]
    OBVIOUS
  <2>1. more \in Seq(Tokens) /\ Len(more) = last - done
        /\ \A i \in 1..(last - done) : more[i] = Owned(b)[done + i]
    BY <1>5, <1>6, <1>7
  <2>2. ids' = ids \o more
    BY <1>2
  <2> HIDE DEF more
  <2>3. ids' \in Seq(Tokens) /\ Len(ids') = last
        /\ \A i \in 1..last : ids'[i] = IF i <= done THEN ids[i] ELSE more[i - done]
    BY <2>1, <2>2, <1>5, <1>6
  <2>4. ASSUME NEW i \in (done + 1)..last
        PROVE  ids'[i] = Owned(b)[i]
    <3>1. i \in 1..last /\ ~ (i <= done) /\ i - done \in 1..(last - done) /\ done + (i - done) = i
      BY <1>5, <1>6
    <3>2. ids'[i] = more[i - done] /\ more[i - done] = Owned(b)[done + (i - done)]
      BY <3>1, <2>1, <2>3
    <3>3. QED
      BY <3>1, <3>2
  <2>5. \A i \in 1..done : i \in 1..last /\ i <= done
    BY <1>5, <1>6
  <2>6. QED
    BY <2>3, <2>4, <2>5
<1>9. pc' \in {"failed", "details", "index"}
  BY <1>2
<1>10. TypeOK'
  <2>1. lo' \in 0..Latest' /\ hi' \in 0..Latest'
    BY <1>3, <1>4
  <2>2. ids' \in Seq(Tokens) /\ Len(ids') <= balance'
    BY <1>2, <1>5, <1>6, <1>8
  <2>3. pc' \in Ended \cup Calls
    BY <1>9 DEF Ended, Calls
  <2>4. QED
    BY <1>1, <1>2, <1>3, <2>1, <2>2, <2>3 DEF TypeOK
<1>11. WindowInv'
  <2>1. lo' > 0 /\ lo' <= hi' /\ b \in lo'..hi' /\ \A c \in lo..hi : c \in lo'..hi'
    BY <1>2, <1>3, <1>5
  <2>2. \E c \in lo'..hi' : balance' = Len(Owned(c))
    BY <1>1, <1>2, <2>1 DEF WindowInv
  <2>3. \A i \in DOMAIN ids' : \E c \in lo'..hi' : i <= Len(Owned(c)) /\ ids'[i] = Owned(c)[i]
    <3>1. \A i \in DOMAIN ids : \E c \in lo'..hi' : i <= Len(Owned(c)) /\ ids[i] = Owned(c)[i]
      BY <1>1, <1>2, <2>1 DEF WindowInv
    <3>2. CASE fails
      BY <3>1, <3>2, <1>2
    <3>3. CASE ~fails
      <4>1. ASSUME NEW i \in 1..last
            PROVE  \E c \in lo'..hi' : i <= Len(Owned(c)) /\ ids'[i] = Owned(c)[i]
        <5>1. CASE i <= done
          <6>1. i \in DOMAIN ids /\ ids'[i] = ids[i]
            BY <5>1, <3>3, <1>5, <1>6, <1>8
          <6>2. QED
            BY <6>1, <3>1
        <5>2. CASE i > done
          <6>1. ids'[i] = Owned(b)[i] /\ i <= Len(Owned(b))
            BY <5>2, <3>3, <1>5, <1>6, <1>7, <1>8
          <6>2. QED
            BY <6>1, <2>1
        <5>3. QED
          BY <5>1, <5>2, <1>5, <1>6
      <4>2. DOMAIN ids' = 1..last
        BY <3>3, <1>8
      <4>3. QED
        BY <4>1, <4>2
    <3>4. QED
      BY <3>2, <3>3
  <2>4. ordered' => balance' = Len(Owned(lo'))
    BY <1>1, <1>2, <1>3 DEF WindowInv
  <2>5. ASSUME ordered', balance' <= BatchSize, ids' # <<>>
        PROVE  \E c \in lo'..hi' : balance' <= Len(Owned(c)) /\ ids' = SubSeq(Owned(c), 1, balance')
    <3>1. ids = <<>>
      <4>1. SUFFICES ASSUME ids # <<>>
                     PROVE  FALSE
        OBVIOUS
      <4>2. PICK c \in lo..hi : balance <= Len(Owned(c)) /\ ids = SubSeq(Owned(c), 1, balance)
        BY <4>1, <2>5, <1>1, <1>2, <1>3 DEF WindowInv
      <4>3. c \in 1..Latest
        BY <1>1, <1>2, <1>4, <1>5 DEF TypeOK
      <4>4. Owned(c) \in Seq(Tokens)
        BY <4>3, <1>1, SnapshotType
      <4>5. Len(ids) = balance
        BY <4>2, <4>4, <1>5
      <4>6. QED
        BY <4>5, <1>2, <1>5
    <3>2. ~fails /\ done = 0 /\ last = balance
      BY <3>1, <2>5, <1>2, <1>6
    <3>3. balance <= Len(Owned(b)) /\ ids' = SubSeq(Owned(b), 1, balance)
      BY <3>1, <3>2, <1>2, <1>5, <1>6, <1>7
    <3>4. QED
      BY <3>3, <2>1, <1>2
  <2>6. Owned(lo)' = Owned(lo')
    BY <1>2 DEF Owned
  <2>7. QED
    BY <2>1, <2>2, <2>3, <2>4, <2>5, <2>6, <1>4 DEF WindowInv
<1>12. PhaseInv'
  <2>1. CASE fails
    BY <2>1, <1>2 DEF PhaseInv
  <2>2. CASE ~fails
    <3>1. Len(ids') = last /\ balance' = balance /\ read' = 0 /\ seeds' = {} /\ lo' > 0
      BY <2>2, <1>2, <1>3, <1>8
    <3>2. pc' = IF last = balance THEN "details" ELSE "index"
      BY <2>2, <1>2
    <3>3. last <= balance /\ balance > 0 /\ last \in Nat /\ (last # balance => last < balance)
      BY <1>2, <1>5, <1>6
    <3>4. QED
      BY <3>1, <3>2, <3>3 DEF PhaseInv
  <2>3. QED
    BY <2>1, <2>2
<1>13. CacheInv'
  BY <1>1, <1>2, <1>4, <1>9, SameChain DEF CacheInv
<1>14. QED
  BY <1>4, <1>10, <1>11, <1>12, <1>13 DEF IInv

\* It reads one position.
LEMMA DetailsStep ==
  ASSUME IInv, NEW b \in Answering, Details(b)
  PROVE  IInv'
<1> DEFINE next == Max(Batch(read))
<1>1. TypeOK /\ ChainInv /\ WindowInv /\ PhaseInv /\ CacheInv
  BY DEF IInv
<1>2. /\ pc = "details" /\ lo > 0 /\ Len(ids) = balance /\ read < balance /\ seeds = {}
      /\ UNCHANGED <<chain, synced, cached, runs, mode, balance, ids, seeds, lo, hi, ordered, cover>>
  BY <1>1 DEF Details, PhaseInv
<1>3. balance \in Nat /\ read \in Nat /\ ids \in Seq(Tokens)
  BY <1>1, NftAssumption, FS_CardinalityType DEF TypeOK
<1>4. next \in (read + 1)..balance
  BY <1>1, <1>2, <1>3, BatchShape
<1>5. \/ pc' = "failed" /\ read' = read
      \/ pc' = AfterDetails(ToSet(ids)) /\ read' = 0
      \/ pc' = "details" /\ read' = next /\ next # balance
  BY <1>2 DEF Details
<1> HIDE DEF next
<1>6. ToSet(ids) # {}
  <2>1. 1 \in DOMAIN ids
    BY <1>2, <1>3
  <2>2. QED
    BY <2>1 DEF ToSet
<1>7. AfterDetails(ToSet(ids)) \in
        IF mode = "sync" THEN {"getPool"} ELSE {"done", "unknownPool"}
  BY <1>6 DEF AfterDetails
<1>8. ChainInv' /\ Latest' = Latest
  BY <1>1, <1>2, SameChain
<1>9. TypeOK'
  <2>1. read' \in 0..balance'
    BY <1>2, <1>3, <1>4, <1>5
  <2>2. pc' \in Ended \cup Calls
    BY <1>5, <1>7 DEF Ended, Calls
  <2>3. QED
    BY <1>1, <1>2, <1>8, <2>1, <2>2 DEF TypeOK
<1>10. WindowInv'
  BY <1>1, <1>2, SameChain DEF WindowInv, Owned
<1>11. PhaseInv'
  <2>1. mode \in {"sync", "positions"}
    BY <1>1 DEF TypeOK
  <2>2. read' < balance'
    BY <1>2, <1>3, <1>4, <1>5
  <2>3. /\ pc' \in {"failed", "details", "getPool", "done", "unknownPool"}
        /\ pc' = "getPool" => mode = "sync"
        /\ pc' = "unknownPool" => mode = "positions"
    BY <1>5, <1>7, <2>1
  <2>4. QED
    BY <1>2, <2>2, <2>3 DEF PhaseInv
<1>12. CacheInv'
  <2>1. pc' = "getPool" => read' = 0
    BY <1>5
  <2>2. pc' # "finish"
    BY <1>5, <1>7
  <2>3. pc' = "unknownPool" => \E t \in ToSet(ids') : poolOf[t] \notin cached'
    <3>1. ASSUME pc' = "unknownPool"
          PROVE  \E t \in ToSet(ids') : poolOf[t] \notin cached'
      <4>1. ~ ({poolOf[t] : t \in ToSet(ids)} \subseteq cached)
        BY <3>1, <1>5 DEF AfterDetails
      <4>2. QED
        BY <4>1, <1>2
    <3>2. QED
      BY <3>1
  <2>4. QED
    BY <1>1, <1>2, <1>8, <2>1, <2>2, <2>3, SameChain DEF CacheInv
<1>13. QED
  BY <1>8, <1>9, <1>10, <1>11, <1>12 DEF IInv

\* The sync asks for the pool of a position.
LEMMA GetPoolStep ==
  ASSUME IInv, NEW b \in Answering, GetPool(b)
  PROVE  IInv'
<1> DEFINE next == Max(Batch(read))
           found == {poolOf[ids[i]] : i \in Batch(read)} \cap PoolsAt(b)
<1>1. TypeOK /\ ChainInv /\ WindowInv /\ PhaseInv /\ CacheInv
  BY DEF IInv
<1>2. /\ pc = "getPool" /\ lo > 0 /\ Len(ids) = balance /\ read < balance /\ mode = "sync"
      /\ seeds' = seeds \cup found /\ Saw(b) /\ read' = next
      /\ pc' = IF read' = balance THEN "finish" ELSE pc
      /\ UNCHANGED <<chain, synced, cached, runs, mode, balance, ids, cover>>
  BY <1>1 DEF GetPool, PhaseInv
<1>3. /\ b \in 1..Latest /\ lo' \in 1..Latest /\ hi' \in 1..Latest /\ lo' <= b /\ b <= hi'
      /\ lo' <= lo /\ hi <= hi' /\ ordered' \in BOOLEAN
      /\ ordered' => ordered /\ lo' = lo
  BY <1>1, <1>2, SawWidens
<1>4. ChainInv' /\ Latest' = Latest /\ Latest \in Nat /\ \A c : Owned(c)' = Owned(c)
  BY <1>1, <1>2, SameChain DEF TypeOK, Latest
<1>5. ids \in Seq(Tokens) /\ read \in Nat /\ balance \in Nat /\ lo \in Nat /\ hi \in Nat
  BY <1>1, <1>4, NftAssumption, FS_CardinalityType DEF TypeOK
<1>6. next \in (read + 1)..balance /\ Batch(read) = (read + 1)..next
  BY <1>1, <1>2, <1>5, BatchShape
<1> HIDE DEF next
<1>7. TypeOK'
  <2>1. lo' \in 0..Latest' /\ hi' \in 0..Latest'
    BY <1>3, <1>4
  <2>2. read' \in 0..balance' /\ pc' \in Ended \cup Calls
    BY <1>2, <1>5, <1>6 DEF Calls
  <2>3. found \subseteq Pools
    BY NftAssumption DEF PoolsAt
  <2>4. seeds' \in SUBSET Pools
    BY <1>1, <1>2, <2>3 DEF TypeOK
  <2>5. QED
    BY <1>1, <1>2, <1>3, <2>1, <2>2, <2>4 DEF TypeOK
<1>8. WindowInv'
  <2>1. lo' > 0 /\ lo' <= hi' /\ \A c \in lo..hi : c \in lo'..hi'
    BY <1>2, <1>3, <1>5
  <2>2. \E c \in lo'..hi' : balance' = Len(Owned(c))
    BY <1>1, <1>2, <2>1 DEF WindowInv
  <2>3. \A i \in DOMAIN ids' : \E c \in lo'..hi' : i <= Len(Owned(c)) /\ ids'[i] = Owned(c)[i]
    BY <1>1, <1>2, <2>1 DEF WindowInv
  <2>4. ordered' => balance' = Len(Owned(lo'))
    BY <1>1, <1>2, <1>3 DEF WindowInv
  <2>5. (ordered' /\ balance' <= BatchSize /\ ids' # <<>>) =>
          \E c \in lo'..hi' : balance' <= Len(Owned(c)) /\ ids' = SubSeq(Owned(c), 1, balance')
    BY <1>1, <1>2, <1>3, <2>1 DEF WindowInv
  <2>6. Owned(lo)' = Owned(lo')
    BY <1>2 DEF Owned
  <2>7. QED
    BY <2>1, <2>2, <2>3, <2>4, <2>5, <2>6, <1>4 DEF WindowInv
<1>9. PhaseInv'
  <2>1. read' # balance' => read' < balance'
    BY <1>2, <1>5, <1>6
  <2>2. lo' > 0 /\ Len(ids') = balance' /\ mode' = "sync"
        /\ pc' = IF read' = balance' THEN "finish" ELSE "getPool"
    BY <1>2, <1>3
  <2>3. QED
    BY <2>1, <2>2 DEF PhaseInv
<1>10. Unchanged(lo', hi') => \A i \in 1..read' : poolOf[ids'[i]] \in seeds'
  <2> SUFFICES ASSUME Unchanged(lo', hi'), NEW i \in 1..read'
               PROVE  poolOf[ids[i]] \in seeds'
    BY <1>2
  <2>1. i \in Nat /\ (i <= read \/ i \in Batch(read)) /\ i \in DOMAIN ids
    BY <1>2, <1>5, <1>6
  <2>2. \A c \in lo..hi : c \in lo'..hi'
    BY <1>3, <1>5, <1>4
  <2>3. CASE i <= read
    <3>1. Unchanged(lo, hi)
      <4>1. lo \in lo'..hi' /\ hi \in lo'..hi'
        BY <1>1, <1>2, <1>3, <1>4, <1>5 DEF WindowInv
      <4>2. QED
        BY <4>1, <1>1, <1>3, <1>4, SmallerWindow DEF Unchanged
    <3>2. poolOf[ids[i]] \in seeds
      BY <3>1, <2>1, <2>3, <1>1, <1>2, <1>5 DEF CacheInv
    <3>3. QED
      BY <3>2, <1>2
  <2>4. CASE i \in Batch(read)
    <3>1. PICK c \in lo..hi : i <= Len(Owned(c)) /\ ids[i] = Owned(c)[i]
      BY <2>1, <1>1, <1>2 DEF WindowInv
    <3>2. c \in lo'..hi' /\ b \in lo'..hi'
      BY <2>2, <1>3, <1>4
    <3>3. Owned(c) = Owned(b)
      BY <3>2, <1>1, <1>3, UnchangedWindow
    <3>4. Owned(b) \in Seq(Tokens)
      BY <1>1, <1>3, SnapshotType
    <3>5. ids[i] \in Holds(b) /\ ids[i] \in Tokens
      BY <3>1, <3>3, <3>4, <2>1 DEF Holds, ToSet
    <3>6. Live(ids[i], b)
      BY <3>5, <1>1, <1>3 DEF ChainInv
    <3>7. poolOf[ids[i]] \in PoolsAt(b)
      BY <3>5, <3>6 DEF Live, PoolsAt
    <3>8. QED
      BY <3>7, <2>4, <1>2
  <2>5. QED
    BY <2>1, <2>3, <2>4
<1>11. CacheInv'
  <2>1. pc' = "finish" => \A i \in DOMAIN ids' : i \in 1..read'
    BY <1>2, <1>5
  <2>2. pc' \in {"getPool", "finish"}
    BY <1>2
  <2>3. QED
    BY <1>1, <1>2, <1>4, <1>10, <2>1, <2>2, SameChain DEF CacheInv
<1>12. QED
  BY <1>4, <1>7, <1>8, <1>9, <1>11 DEF IInv

\* The walk ends with what it has read.
LEMMA FinishStep ==
  ASSUME IInv, Finish
  PROVE  IInv'
<1>1. TypeOK /\ ChainInv /\ WindowInv /\ PhaseInv /\ CacheInv
  BY DEF IInv
<1>2. /\ pc = "finish" /\ lo > 0 /\ Len(ids) = balance /\ mode = "sync"
      /\ synced' = TRUE /\ cached' = seeds /\ cover' = Walked(lo, hi)
      /\ pc' = "done"
      /\ UNCHANGED <<chain, runs, mode, balance, ids, read, seeds, lo, hi, ordered>>
  BY <1>1 DEF Finish, PhaseInv
<1>3. ChainInv' /\ Latest' = Latest /\ Latest \in Nat
  BY <1>1, <1>2, SameChain DEF TypeOK, Latest
<1>4. lo \in 1..Latest /\ hi \in 1..Latest /\ lo <= hi /\ Latest <= MaxBlocks
  BY <1>1, <1>2, <1>3, NftAssumption DEF TypeOK, WindowInv, ChainInv
<1>5. cover' \in Covers /\ cover'.kind = "own" /\ cover'.lo = lo /\ cover'.hi = hi
  <2>1. lo \in 0..MaxBlocks /\ hi \in 0..MaxBlocks
    BY <1>3, <1>4, NftAssumption
  <2>2. QED
    BY <1>2, <2>1 DEF Covers, Walked
<1>6. TypeOK'
  BY <1>1, <1>2, <1>3, <1>5 DEF TypeOK, Ended
<1>7. WindowInv'
  BY <1>1, <1>2, SameChain DEF WindowInv, Owned
<1>8. PhaseInv'
  BY <1>2 DEF PhaseInv
<1>9. Unchanged(lo, hi) => \A t \in Holds(lo) : poolOf[t] \in seeds
  <2> SUFFICES ASSUME Unchanged(lo, hi), NEW t \in Holds(lo)
               PROVE  poolOf[t] \in seeds
    OBVIOUS
  <2>1. \A c \in lo..hi : Owned(c) = Owned(lo)
    <3>1. lo \in lo..hi
      BY <1>4
    <3>2. QED
      BY <3>1, <1>1, <1>4, UnchangedWindow
  <2>2. balance = Len(Owned(lo))
    BY <2>1, <1>1, <1>2 DEF WindowInv
  <2>3. Owned(lo) \in Seq(Tokens) /\ ids \in Seq(Tokens)
    BY <1>1, <1>4, SnapshotType DEF TypeOK
  <2>4. PICK k \in DOMAIN Owned(lo) : Owned(lo)[k] = t
    BY DEF Holds, ToSet
  <2>5. k \in DOMAIN ids
    BY <2>2, <2>3, <1>2
  <2>6. PICK c \in lo..hi : ids[k] = Owned(c)[k]
    BY <2>5, <1>1, <1>2 DEF WindowInv
  <2>7. ids[k] = t
    BY <2>1, <2>4, <2>6
  <2>8. QED
    BY <2>5, <2>7, <1>1, <1>2 DEF CacheInv
<1>10. CacheInv'
  <2>1. synced' = (cover'.kind # "none")
    BY <1>2, <1>5
  <2>2. 1 <= cover'.lo /\ cover'.lo <= cover'.hi /\ cover'.hi <= Latest'
    BY <1>3, <1>4, <1>5
  <2>3. Unchanged(cover'.lo, cover'.hi) => \A t \in Holds(cover'.lo) : poolOf[t] \in cached'
    BY <1>2, <1>5, <1>9
  <2>4. QED
    BY <1>2, <1>5, <2>1, <2>2, <2>3, SameChain DEF CacheInv
<1>11. QED
  BY <1>3, <1>6, <1>7, <1>8, <1>10 DEF IInv

\* A sync that does not walk the wallet keeps the invariant if the pools it
\* caches are what it says they stand for.
LEMMA ElsewhereStep ==
  ASSUME IInv, SyncElsewhere,
         cached' \in SUBSET Pools, cover' \in Covers,
         cover'.kind \in {"logs", "other"},
         cover'.lo \in 1..Latest, cover'.hi \in 1..Latest, cover'.lo <= cover'.hi,
         cover'.kind = "logs" =>
           \/ cover'.limited /\ Cardinality(cached') = MaxPools
           \/ PoolsAt(cover'.lo) \ CreatedBefore(cover'.first) \subseteq cached'
  PROVE  IInv'
<1>1. TypeOK /\ ChainInv /\ WindowInv /\ PhaseInv /\ CacheInv
  BY DEF IInv
<1>2. /\ pc' = "idle" /\ synced' = TRUE /\ runs' = runs + 1 /\ runs < MaxRuns
      /\ UNCHANGED <<chain, mode, balance, ids, read, seeds, lo, hi, ordered>>
  BY DEF SyncElsewhere
<1>3. ChainInv' /\ Latest' = Latest /\ Latest \in Nat
  BY <1>1, <1>2, SameChain DEF TypeOK, Latest
<1>4. TypeOK'
  <2>1. runs' \in 0..MaxRuns
    BY <1>1, <1>2, NftAssumption DEF TypeOK
  <2>2. QED
    BY <1>1, <1>2, <1>3, <2>1 DEF TypeOK, Ended
<1>5. WindowInv'
  BY <1>1, <1>2, SameChain DEF WindowInv, Owned
<1>6. PhaseInv'
  BY <1>2 DEF PhaseInv
<1>7. CacheInv'
  <2>1. synced' = (cover'.kind # "none")
    BY <1>2
  <2>2. 1 <= cover'.lo /\ cover'.lo <= cover'.hi /\ cover'.hi <= Latest'
    BY <1>3
  <2>3. QED
    BY <1>2, <2>1, <2>2, SameChain DEF CacheInv
<1>8. QED
  BY <1>3, <1>4, <1>5, <1>6, <1>7 DEF IInv

\* A scan of the logs caches every pool between its first block and the head of
\* the provider that lags most, or as many as the limit allows.
LEMMA LogsStep ==
  ASSUME IInv, SyncLogs
  PROVE  IInv'
<1>1. TypeOK /\ Latest \in 1..MaxBlocks
  BY DEF IInv, ChainInv
<1>2. PICK first \in LogStarts, seen \in Answering, head \in Answering, limited \in BOOLEAN :
        \E logs \in SUBSET (PoolsAt(head) \ CreatedBefore(first)) :
          /\ seen <= head
          /\ PoolsAt(seen) \ CreatedBefore(first) \subseteq logs
          /\ IF limited /\ Cardinality(logs) > MaxPools
               THEN cached' \in Limited(logs)
               ELSE cached' = logs
          /\ cover' = [kind |-> "logs", lo |-> seen, hi |-> head,
                       first |-> first, limited |-> limited]
  BY DEF SyncLogs
<1>3. PICK logs \in SUBSET (PoolsAt(head) \ CreatedBefore(first)) :
          /\ seen <= head
          /\ PoolsAt(seen) \ CreatedBefore(first) \subseteq logs
          /\ IF limited /\ Cardinality(logs) > MaxPools
               THEN cached' \in Limited(logs)
               ELSE cached' = logs
          /\ cover' = [kind |-> "logs", lo |-> seen, hi |-> head,
                       first |-> first, limited |-> limited]
  BY <1>2
<1>4. seen \in 1..Latest /\ head \in 1..Latest
  BY DEF Answering
<1>5. cover' \in Covers
  <2>1. seen \in 0..MaxBlocks /\ head \in 0..MaxBlocks
    BY <1>1, <1>4, NftAssumption
  <2>2. QED
    BY <1>3, <2>1 DEF Covers
<1>6. cached' \subseteq logs /\ logs \subseteq Pools
  <2>1. PoolsAt(head) \subseteq Pools
    BY NftAssumption DEF PoolsAt
  <2>2. QED
    BY <1>3, <2>1 DEF Limited
<1>7. (limited /\ Cardinality(cached') = MaxPools) \/ cached' = logs
  BY <1>3 DEF Limited
<1>8. \/ cover'.limited /\ Cardinality(cached') = MaxPools
      \/ PoolsAt(cover'.lo) \ CreatedBefore(cover'.first) \subseteq cached'
  BY <1>3, <1>7
<1>9. cover'.kind = "logs" /\ cover'.lo = seen /\ cover'.hi = head
  BY <1>3
<1>10. SyncElsewhere
  BY DEF SyncLogs
<1>11. QED
  BY <1>3, <1>4, <1>5, <1>6, <1>8, <1>9, <1>10, ElsewhereStep

\* The sync of another wallet.
LEMMA OtherStep ==
  ASSUME IInv, SyncOther
  PROVE  IInv'
<1>1. TypeOK /\ Latest \in 1..MaxBlocks
  BY DEF IInv, ChainInv
<1>2. PICK b \in Answering :
        /\ cached' \in SUBSET PoolsAt(b)
        /\ cover' = [kind |-> "other", lo |-> b, hi |-> b, first |-> 0, limited |-> FALSE]
  BY DEF SyncOther
<1>3. b \in 1..Latest
  BY DEF Answering
<1>4. cover' \in Covers
  <2>1. b \in 0..MaxBlocks
    BY <1>1, <1>3, NftAssumption
  <2>2. QED
    BY <1>2, <2>1 DEF Covers
<1>5. cached' \in SUBSET Pools
  <2>1. PoolsAt(b) \subseteq Pools
    BY NftAssumption DEF PoolsAt
  <2>2. QED
    BY <1>2, <2>1
<1>6. cover'.kind = "other" /\ cover'.lo = b /\ cover'.hi = b /\ b <= b
  BY <1>2, <1>3
<1>7. SyncElsewhere
  BY DEF SyncOther
<1>8. QED
  BY <1>3, <1>4, <1>5, <1>6, <1>7, ElsewhereStep

-----------------------------------------------------------------------------
(* The invariant, and what follows from it. *)

\* Every step keeps the invariant.
LEMMA NextStep ==
  ASSUME IInv, [Next]_vars
  PROVE  IInv'
<1>1. CASE \E t \in Tokens : Receive(t)
  BY <1>1, ReceiveStep
<1>2. CASE \E t \in Tokens, status \in {"live", "burned"} : Leave(t, status)
  BY <1>2, LeaveStep
<1>3. CASE \E m \in {"sync", "positions"} : Begin(m)
  BY <1>3, BeginStep
<1>4. ASSUME NEW b \in Answering, BalanceOf(b) \/ TokensOfOwner(b) \/ Details(b) \/ GetPool(b)
      PROVE  IInv'
  BY <1>4, BalanceStep, IndexStep, DetailsStep, GetPoolStep
<1>5. CASE Finish
  BY <1>5, FinishStep
<1>6. CASE Fails
  BY <1>6, FailsStep
<1>7. CASE SyncLogs \/ SyncOther
  BY <1>7, LogsStep, OtherStep
<1>8. CASE UNCHANGED vars
  <2>1. UNCHANGED <<chain, synced, cached, runs, mode, pc, balance, ids, read, seeds, lo, hi, ordered, cover>>
    BY <1>8 DEF vars, command
  <2>2. TypeOK /\ ChainInv /\ WindowInv /\ PhaseInv /\ CacheInv
    BY DEF IInv
  <2>3. ChainInv' /\ Latest' = Latest
    BY <2>1, <2>2, SameChain
  <2>4. TypeOK' /\ PhaseInv'
    BY <2>1, <2>2, <2>3 DEF TypeOK, PhaseInv
  <2>5. WindowInv'
    BY <2>1, <2>2, SameChain DEF WindowInv, Owned
  <2>6. CacheInv'
    BY <2>1, <2>2, <2>3, SameChain DEF CacheInv
  <2>7. QED
    BY <2>3, <2>4, <2>5, <2>6 DEF IInv
<1>9. QED
  BY <1>1, <1>2, <1>3, <1>4, <1>5, <1>6, <1>7, <1>8 DEF Next

\* The inductive invariant holds.
LEMMA Invariance == Spec => []IInv
<1>1. Init => IInv
  BY InitInv
<1>2. IInv /\ [Next]_vars => IInv'
  BY NextStep
<1>3. QED
  BY <1>1, <1>2, PTL DEF Spec

\* The state of a command and of the cache is well formed: no more ids than the
\* balance, no more positions than there are tokens, windows inside the chain.
THEOREM NftTypeOK == Spec => []TypeOK
<1>1. IInv => TypeOK
  BY DEF IInv
<1>2. QED
  BY <1>1, Invariance, PTL

\* What `positions` reports when no token left the wallet while it was walked.
LEMMA UnmovedIsExact ==
  ASSUME IInv, WalkDone, Unmoved(lo, hi)
  PROVE  IsInjective(ids) /\ Kept(lo, hi) \subseteq ToSet(ids) /\ ToSet(ids) \subseteq Holds(hi)
<1>1. TypeOK /\ ChainInv /\ WindowInv /\ PhaseInv
  BY DEF IInv
<1>2. lo > 0 /\ Len(ids) = balance
  BY <1>1 DEF WalkDone, PhaseInv
<1>3. Latest \in Nat /\ lo \in 1..Latest /\ hi \in 1..Latest /\ lo <= hi /\ ids \in Seq(Tokens)
  BY <1>1, <1>2 DEF TypeOK, WindowInv, Latest
<1>4. \A b, c \in lo..hi : b <= c => Begins(b, c)
  <2>1. TAKE b, c \in lo..hi
  <2>2. HAVE b <= c
  <2>3. Unmoved(b, c) /\ b \in 1..Latest /\ c \in 1..Latest
    BY <1>1, <1>3, SmallerWindow DEF Unmoved
  <2>4. QED
    BY <2>2, <2>3, <1>1 DEF ChainInv
<1>5. \A b \in lo..hi : b \in 1..Latest /\ Owned(b) \in Seq(Tokens) /\ Len(Owned(b)) \in Nat
  BY <1>1, <1>3, SnapshotType
<1>6. \A i \in DOMAIN ids : i \in DOMAIN Owned(hi) /\ ids[i] = Owned(hi)[i]
  <2>1. TAKE i \in DOMAIN ids
  <2>2. PICK b \in lo..hi : i <= Len(Owned(b)) /\ ids[i] = Owned(b)[i]
    BY <1>1, <1>2 DEF WindowInv
  <2>3. Begins(b, hi) /\ hi \in lo..hi
    BY <1>3, <1>4
  <2>4. i \in 1..Len(Owned(b)) /\ Len(Owned(b)) <= Len(Owned(hi)) /\ Owned(hi)[i] = Owned(b)[i]
    BY <2>2, <2>3, <1>3, <1>5 DEF Begins
  <2>5. QED
    BY <2>2, <2>3, <2>4, <1>5
<1>7. IsInjective(Owned(hi))
  BY <1>1, <1>3 DEF ChainInv
<1>8. IsInjective(ids)
  BY <1>6, <1>7 DEF IsInjective
<1>9. ToSet(ids) \subseteq Holds(hi)
  BY <1>6 DEF ToSet, Holds
<1>10. ASSUME NEW t \in Kept(lo, hi)
       PROVE  t \in ToSet(ids)
  <2>1. PICK b \in lo..hi : balance = Len(Owned(b))
    BY <1>1, <1>2 DEF WindowInv
  <2>2. t \in Holds(b)
    BY DEF Kept
  <2>3. PICK i \in DOMAIN Owned(b) : Owned(b)[i] = t
    BY <2>2 DEF Holds, ToSet
  <2>4. i \in DOMAIN ids /\ i \in 1..Len(Owned(b))
    BY <2>1, <1>2, <1>3, <1>5
  <2>5. Owned(hi)[i] = Owned(b)[i]
    BY <2>4, <1>3, <1>4 DEF Begins
  <2>6. ids[i] = t
    BY <2>3, <2>4, <2>5, <1>6
  <2>7. QED
    BY <2>4, <2>6 DEF ToSet
<1>11. QED
  BY <1>8, <1>9, <1>10

\* What it reports when all the wallet's tokens were listed by one answer.
LEMMA OneBatchIsExact ==
  ASSUME IInv, WalkDone, balance <= BatchSize, ordered
  PROVE  IsInjective(ids) /\ Kept(lo, hi) \subseteq ToSet(ids)
<1>1. TypeOK /\ ChainInv /\ WindowInv /\ PhaseInv
  BY DEF IInv
<1>2. lo > 0 /\ Len(ids) = balance
  BY <1>1 DEF WalkDone, PhaseInv
<1>3. Latest \in Nat /\ lo \in 1..Latest /\ hi \in 1..Latest /\ lo <= hi /\ ids \in Seq(Tokens)
      /\ Owned(lo) \in Seq(Tokens) /\ Len(Owned(lo)) \in Nat
  BY <1>1, <1>2, SnapshotType DEF TypeOK, WindowInv, Latest
<1>4. balance = Len(Owned(lo))
  BY <1>1, <1>2 DEF WindowInv
<1>5. CASE ids = <<>>
  <2>1. DOMAIN Owned(lo) = {}
    BY <1>2, <1>3, <1>4, <1>5
  <2>2. lo \in lo..hi /\ Holds(lo) = {}
    BY <2>1, <1>3 DEF Holds, ToSet
  <2>3. Kept(lo, hi) = {}
    BY <2>2 DEF Kept
  <2>4. QED
    BY <2>3, <1>5 DEF IsInjective
<1>6. CASE ids # <<>>
  <2>1. PICK b \in lo..hi : balance <= Len(Owned(b)) /\ ids = SubSeq(Owned(b), 1, balance)
    BY <1>1, <1>2, <1>6 DEF WindowInv
  <2>2. b \in 1..Latest /\ lo <= b
    BY <1>3
  <2>3. Owned(b) \in Seq(Tokens) /\ Len(Owned(b)) \in Nat /\ IsInjective(Owned(b)) /\ Sinks(lo, b)
    BY <2>2, <1>1, <1>3, SnapshotType DEF ChainInv
  <2>4. \A i \in 1..balance : i \in DOMAIN ids /\ i \in DOMAIN Owned(b) /\ ids[i] = Owned(b)[i]
    BY <2>1, <2>3, <1>3, <1>4
  <2>5. DOMAIN ids = 1..balance
    BY <1>2, <1>3
  <2>6. IsInjective(ids)
    BY <2>3, <2>4, <2>5 DEF IsInjective
  <2>7. ASSUME NEW t \in Kept(lo, hi)
        PROVE  t \in ToSet(ids)
    <3>1. lo \in lo..hi /\ b \in lo..hi /\ lo \in lo..b /\ \A c \in lo..b : c \in lo..hi
      BY <2>2, <1>3
    <3>2. t \in Holds(lo) /\ t \in Holds(b) /\ t \in Kept(lo, b)
      BY <3>1 DEF Kept
    <3>3. PICK i \in DOMAIN Owned(lo), j \in DOMAIN Owned(b) : Owned(lo)[i] = t /\ Owned(b)[j] = t
      BY <3>2 DEF Holds, ToSet
    <3>4. j <= i
      BY <3>2, <3>3, <2>3 DEF Sinks
    <3>5. j \in 1..balance
      BY <3>3, <3>4, <2>3, <1>3, <1>4
    <3>6. QED
      BY <3>3, <3>5, <2>4 DEF ToSet
  <2>8. QED
    BY <2>6, <2>7
<1>7. QED
  BY <1>5, <1>6

\* Whatever the number of batches, of lagging providers and of tokens that
\* arrive meanwhile, a walk during which nothing leaves the wallet misses no
\* token and reads none twice; neither does one that one answer lists, even
\* when tokens leave.
THEOREM WalkExact == Spec => []WalkIsExact
<1>1. IInv => WalkIsExact
  BY UnmovedIsExact, OneBatchIsExact DEF WalkIsExact, Unmoved
<1>2. QED
  BY <1>1, Invariance, PTL

\* `positions` fails for want of a pool only for one of the causes named.
THEOREM UnknownPoolCause == Spec => []UnknownPoolHasCause
<1>1. IInv => UnknownPoolHasCause
  <2> SUFFICES ASSUME IInv, pc = "unknownPool"
               PROVE  UnknownPoolHasCause
    BY DEF UnknownPoolHasCause
  <2>1. TypeOK /\ ChainInv /\ WindowInv /\ PhaseInv /\ CacheInv
    BY DEF IInv
  <2>2. mode = "positions" /\ lo > 0
    BY <2>1 DEF PhaseInv
  <2>3. synced /\ cover.kind # "none" /\ cover.kind \in {"logs", "own", "other"}
    BY <2>1, <2>2 DEF CacheInv, TypeOK, Covers
  <2>4. PICK t \in ToSet(ids) : poolOf[t] \notin cached
    BY <2>1 DEF CacheInv
  <2>5. cover.kind = "logs" =>
          \/ cover.limited /\ Cardinality(cached) = MaxPools
          \/ poolOf[t] \in CreatedBefore(cover.first)
          \/ poolOf[t] \notin PoolsAt(cover.lo)
    BY <2>1, <2>4 DEF CacheInv
  <2>6. ASSUME cover.kind = "own", NEW first, NEW last,
               first = Min({lo, cover.lo}), last = Max({hi, cover.hi}), Unchanged(first, last)
        PROVE  FALSE
    <3>1. Latest \in Nat /\ lo \in 1..Latest /\ hi \in 1..Latest /\ lo <= hi
          /\ cover.lo \in 1..Latest /\ cover.hi \in 1..Latest /\ cover.lo <= cover.hi
      BY <2>1, <2>2, <2>3 DEF TypeOK, WindowInv, CacheInv, Latest, Covers
    <3>2. first = (IF lo <= cover.lo THEN lo ELSE cover.lo)
          /\ last = (IF hi >= cover.hi THEN hi ELSE cover.hi)
      <4>1. lo \in Nat /\ hi \in Nat /\ cover.lo \in Nat /\ cover.hi \in Nat
        BY <3>1
      <4>2. Min({lo, cover.lo}) = (IF lo <= cover.lo THEN lo ELSE cover.lo)
        BY <4>1, MinMaxOfTwo
      <4>3. Max({hi, cover.hi}) = (IF hi >= cover.hi THEN hi ELSE cover.hi)
        BY <4>1, MinMaxOfTwo
      <4>4. QED
        BY <2>6, <4>2, <4>3
    <3>3. first \in 1..Latest /\ last \in 1..Latest
          /\ cover.lo \in first..last /\ cover.hi \in first..last
          /\ \A c \in lo..hi : c \in first..last
      BY <3>1, <3>2
    <3>4. Unchanged(cover.lo, cover.hi)
      <4>1. first \in Nat /\ last \in Nat
        BY <3>1, <3>3
      <4>2. /\ Left(cover.lo, cover.hi) \subseteq Left(first, last)
            /\ Entered(cover.lo, cover.hi) \subseteq Entered(first, last)
        BY <4>1, <3>3, <2>1, SmallerWindow
      <4>3. QED
        BY <4>2, <2>6 DEF Unchanged
    <3>5. \A u \in Holds(cover.lo) : poolOf[u] \in cached
      BY <3>4, <2>6, <2>1 DEF CacheInv
    <3>6. PICK i \in DOMAIN ids : ids[i] = t
      BY DEF ToSet
    <3>7. PICK c \in lo..hi : i <= Len(Owned(c)) /\ ids[i] = Owned(c)[i]
      BY <2>1, <2>2 DEF WindowInv
    <3>8. Owned(c) = Owned(cover.lo) /\ Owned(cover.lo) \in Seq(Tokens)
      <4>1. c \in first..last
        BY <3>3
      <4>2. Owned(c) = Owned(cover.lo)
        BY <4>1, <3>3, <2>6, <2>1, UnchangedWindow
      <4>3. QED
        BY <4>2, <3>1, <2>1, SnapshotType
    <3>9. i \in DOMAIN Owned(cover.lo) /\ Owned(cover.lo)[i] = t
      BY <3>6, <3>7, <3>8, <2>1 DEF TypeOK
    <3>10. t \in Holds(cover.lo)
      BY <3>9 DEF Holds, ToSet
    <3>11. QED
      BY <3>5, <3>10, <2>4
  <2>7. cover.kind = "own" =>
          LET first == Min({lo, cover.lo})
              last  == Max({hi, cover.hi})
          IN Left(first, last) \cup Entered(first, last) # {}
    BY <2>6 DEF Unchanged
  <2>8. QED
    BY <2>3, <2>4, <2>5, <2>7 DEF UnknownPoolHasCause
<1>2. QED
  BY <1>1, Invariance, PTL


\* positions walks the wallet whenever it has found pools in the cache (the early
\* return of Fetch is the only way to succeed without a call).
DoneHasWalked == (pc = "done" /\ mode = "positions" /\ cached # {}) => lo > 0

\* Every action keeps it: a command that walks has been answered at some block.
LEMMA WalkedStep ==
  ASSUME IInv, DoneHasWalked, [Next]_vars
  PROVE  DoneHasWalked'
<1>1. TypeOK /\ PhaseInv
  BY DEF IInv
<1>2. ASSUME NEW t \in Tokens, Receive(t)
      PROVE  DoneHasWalked'
  BY <1>2 DEF Receive, Block, command, DoneHasWalked
<1>3. ASSUME NEW t \in Tokens, NEW status \in {"live", "burned"}, Leave(t, status)
      PROVE  DoneHasWalked'
  BY <1>3 DEF Leave, Block, command, DoneHasWalked
<1>4. ASSUME NEW m \in {"sync", "positions"}, Begin(m)
      PROVE  DoneHasWalked'
  BY <1>4 DEF Begin, DoneHasWalked
<1>5. ASSUME NEW b \in Answering, BalanceOf(b)
      PROVE  DoneHasWalked'
  <2>1. lo = 0 /\ lo' = b
    BY <1>1, <1>5 DEF BalanceOf, Saw, PhaseInv
  <2>2. b \in Nat /\ b > 0
    BY <1>1 DEF Answering, Latest, TypeOK
  <2>3. QED
    BY <2>1, <2>2 DEF DoneHasWalked
<1>6. ASSUME NEW b \in Answering, TokensOfOwner(b)
      PROVE  DoneHasWalked'
  <2>1. pc' # "done"
    BY <1>6 DEF TokensOfOwner
  <2>2. QED
    BY <2>1 DEF DoneHasWalked
<1>7. ASSUME NEW b \in Answering, Details(b)
      PROVE  DoneHasWalked'
  BY <1>1, <1>7 DEF Details, PhaseInv, DoneHasWalked
<1>8. ASSUME NEW b \in Answering, GetPool(b)
      PROVE  DoneHasWalked'
  BY <1>1, <1>8 DEF GetPool, PhaseInv, DoneHasWalked
<1>9. CASE Finish
  BY <1>1, <1>9 DEF Finish, PhaseInv, DoneHasWalked
<1>10. CASE Fails \/ SyncLogs \/ SyncOther
  BY <1>10 DEF Fails, SyncLogs, SyncOther, SyncElsewhere, DoneHasWalked
<1>11. CASE UNCHANGED vars
  BY <1>11 DEF vars, command, DoneHasWalked
<1>12. QED
  BY <1>2, <1>3, <1>4, <1>5, <1>6, <1>7, <1>8, <1>9, <1>10, <1>11 DEF Next

\* The empty pool list is the only way to lose positions silently: as soon as a pool
\* is cached, a positions run that succeeds while the wallet stays as it was reads
\* every token (Fetch, which returns early on an empty list and fails on an unknown
\* pool).
THEOREM OnlyEmptyListIsSilent == Spec => [](cached # {} => NoSilentLoss)
<1>1. Init => DoneHasWalked
  BY DEF Init, DoneHasWalked
<1>2. IInv /\ DoneHasWalked /\ [Next]_vars => DoneHasWalked'
  BY WalkedStep
<1>3. IInv /\ DoneHasWalked => (cached # {} => NoSilentLoss)
  <2> SUFFICES ASSUME IInv, DoneHasWalked, cached # {},
                      pc = "done", mode = "positions", Latest = 1
               PROVE  Holds(1) \subseteq ToSet(ids)
    BY DEF NoSilentLoss
  <2>1. TypeOK
    BY DEF IInv
  <2>2. lo > 0 /\ WalkDone
    BY DEF DoneHasWalked, WalkDone
  <2>3. lo = 1 /\ hi = 1
    BY <2>1, <2>2 DEF TypeOK, IInv, WindowInv
  <2>4. Left(1, 1) = {}
    BY DEF Left
  <2>5. Kept(1, 1) \subseteq ToSet(ids)
    BY <2>2, <2>3, <2>4, UnmovedIsExact DEF Unmoved
  <2>6. Holds(1) \subseteq Tokens
    <3>1. 1 \in 1..Latest
      OBVIOUS
    <3>2. Owned(1) \in Seq(Tokens)
      BY <2>1, <3>1, SnapshotType
    <3>3. QED
      BY <3>2 DEF Holds, ToSet
  <2>7. Holds(1) \subseteq Kept(1, 1)
    BY <2>6 DEF Kept
  <2>8. QED
    BY <2>5, <2>7
<1>4. QED
  BY <1>1, <1>2, <1>3, Invariance, PTL DEF Spec
=============================================================================
