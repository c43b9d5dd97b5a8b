---------------------------- MODULE V3FeesProofs ----------------------------
(***************************************************************************)
(* Proofs about V3Fees for every modulus, range and number of blocks.      *)
(*                                                                         *)
(* The growth between the ticks of the range, minus what the range has     *)
(* earned, is the same number modulo Modulus at all blocks of one epoch    *)
(* (Base).  So the blocks the fetcher reads, which need not be in order,   *)
(* are compared pairwise: two blocks of one epoch have congruent bases     *)
(* (SameEpoch), two blocks without a turn in between have the same ticks   *)
(* (SameTurns).                                                            *)
(***************************************************************************)
EXTENDS V3Fees, TLAPS

USE FeesAssumption

Congruent(x, y) == x = y \/ x = y + Modulus \/ y = x + Modulus

Base(b) == Inside(b) - b.earned

\* A position with liquidity keeps its range open, and its last settlement
\* has the base of the block.
Sound(b) ==
  /\ b.mark <= b.earned
  /\ b.epoch <= b.turns + 1
  /\ b.liquidity > 0 => Open(b) /\ Congruent(b.last - b.mark, Base(b))

SameEpoch(x, y) == x.epoch = y.epoch /\ Open(x) => Congruent(Base(x), Base(y))

SameTurns(x, y) ==
  x.turns = y.turns =>
    /\ x.epoch = y.epoch
    /\ x.lower = y.lower
    /\ x.upper = y.upper
    /\ Open(x) => /\ x.tick < Lower <=> y.tick < Lower
                  /\ x.tick < Upper <=> y.tick < Upper

Related(x, y) == SameEpoch(x, y) /\ SameTurns(x, y)
NotAfter(x, y) == x.epoch <= y.epoch /\ x.turns <= y.turns

\* The blocks the state refers to.
Seen == {block, parent, position, first, second}

IInv ==
  /\ TypeOK
  /\ \A x \in Seen : Sound(x) /\ NotAfter(x, block)
  /\ \A x, y \in Seen : Related(x, y)
  /\ FeesExact

-----------------------------------------------------------------------------
(* Arithmetic. *)

\* A difference of words is a word.
LEMMA SubType == \A x, y \in Growth : Sub(x, y) \in Growth
  BY SMT DEF Sub, Growth

\* The code's subtraction is the EVM's.
LEMMA SubIsSub == \A x, y \in Growth : subUint256(x, y) = Sub(x, y)
  BY SMT DEF Sub, subUint256, Growth

\* A quotient is a natural number.
LEMMA DivType == \A x \in Nat : x \div Q \in Nat
  BY SMT

\* A product is a natural number.
LEMMA MulType == \A x, y \in Nat : x * y \in Nat
  BY SMT

\* Growth inside the range is a word.
LEMMA InsideType == \A b \in Blocks : Inside(b) \in Growth
<1> SUFFICES ASSUME NEW b \in Blocks PROVE Inside(b) \in Growth
  OBVIOUS
<1>1. {b.global, b.lower, b.upper} \subseteq Growth
  BY DEF Blocks
<1>. QED
  BY <1>1, SubType DEF Inside

\* The code's formula and the contract's agree.
LEMMA InsideIsInside ==
  \A b \in Blocks : feeGrowthInside(b.tick, b.global, b.lower, b.upper) = Inside(b)
<1> SUFFICES ASSUME NEW b \in Blocks
             PROVE  feeGrowthInside(b.tick, b.global, b.lower, b.upper) = Inside(b)
  OBVIOUS
<1>1. {b.global, b.lower, b.upper} \subseteq Growth /\ b.tick \in Int
  BY DEF Blocks
<1>2. (b.tick < Lower <=> ~(b.tick >= Lower)) /\ (b.tick < Upper <=> ~(b.tick >= Upper))
  BY <1>1, SMT
<1>. DEFINE below == IF b.tick >= Lower THEN b.lower ELSE Sub(b.global, b.lower)
            above == IF b.tick < Upper THEN b.upper ELSE Sub(b.global, b.upper)
<1>3. below \in Growth /\ above \in Growth
  BY <1>1, SubType
<1>4. feeGrowthInside(b.tick, b.global, b.lower, b.upper)
        = subUint256(subUint256(b.global, below), above)
  BY <1>1, <1>2, SubIsSub DEF feeGrowthInside
<1>5. Sub(b.global, below) \in Growth
  BY <1>1, <1>3, SubType
<1>. QED
  BY <1>1, <1>3, <1>4, <1>5, SubIsSub DEF Inside

\* Two differences that are congruent and both in range are equal.
LEMMA CongruentMeansEqual ==
  ASSUME NEW in \in Growth, NEW earned \in Growth, NEW last \in Growth, NEW mark \in Growth,
         earned >= mark, Congruent(last - mark, in - earned)
  PROVE  Sub(in, last) = earned - mark
  BY SMT DEF Sub, Growth, Congruent

\* Differences that are congruent to the same are congruent.
LEMMA CongruentTransitive ==
  ASSUME NEW a \in Growth, NEW b \in Growth, NEW c \in Growth,
         NEW d \in Growth, NEW e \in Growth, NEW f \in Growth,
         Congruent(a - b, c - d), Congruent(c - d, e - f)
  PROVE  Congruent(a - b, e - f)
  BY SMT DEF Growth, Congruent

-----------------------------------------------------------------------------
(* What one block adds. *)

\* n is a block that may come after the latest one.
Follows(n) ==
  /\ n \in Blocks
  /\ Sound(n)
  /\ Related(block, n)
  /\ NotAfter(block, n)

\* Blocks that are related to the latest one are related to the next.
LEMMA RelatedToNext ==
  ASSUME block \in Blocks, NEW x \in Blocks, NEW n \in Blocks,
         Related(x, block), NotAfter(x, block), Related(block, n), NotAfter(block, n)
  PROVE  Related(x, n) /\ Related(n, x) /\ NotAfter(x, n)
<1>1. x.epoch \in Int /\ block.epoch \in Int /\ n.epoch \in Int
  BY DEF Blocks
<1>2. x.turns \in Int /\ block.turns \in Int /\ n.turns \in Int
  BY DEF Blocks
<1>3. NotAfter(x, n)
  BY <1>1, <1>2, SMT DEF NotAfter
<1>4. SameEpoch(x, n)
  <2> SUFFICES ASSUME x.epoch = n.epoch, Open(x) PROVE Congruent(Base(x), Base(n))
    BY DEF SameEpoch
  <2>1. x.epoch = block.epoch /\ block.epoch = n.epoch
    BY <1>1, SMT DEF NotAfter
  <2>2. Open(block)
    BY <2>1 DEF Open
  <2>3. Congruent(Base(x), Base(block)) /\ Congruent(Base(block), Base(n))
    BY <2>1, <2>2 DEF Related, SameEpoch
  <2>4. {x.earned, block.earned, n.earned} \subseteq Growth
    BY DEF Blocks
  <2>5. Inside(x) \in Growth /\ Inside(block) \in Growth /\ Inside(n) \in Growth
    BY InsideType
  <2>. QED
    BY <2>3, <2>4, <2>5, CongruentTransitive DEF Base
<1>5. SameTurns(x, n)
  <2> SUFFICES ASSUME x.turns = n.turns
               PROVE  /\ x.epoch = n.epoch /\ x.lower = n.lower /\ x.upper = n.upper
                      /\ Open(x) => /\ x.tick < Lower <=> n.tick < Lower
                                    /\ x.tick < Upper <=> n.tick < Upper
    BY DEF SameTurns
  <2>1. x.turns = block.turns /\ block.turns = n.turns
    BY <1>2, SMT DEF NotAfter
  <2>2. Open(x) => Open(block)
    BY <2>1 DEF Related, SameTurns, Open
  <2>. QED
    BY <2>1, <2>2 DEF Related, SameTurns
<1>6. Congruent(Base(x), Base(n)) => Congruent(Base(n), Base(x))
  BY DEF Congruent
<1>7. x.epoch = n.epoch => (Open(x) <=> Open(n))
  BY DEF Open
<1>8. SameEpoch(n, x)
  BY <1>4, <1>6, <1>7 DEF SameEpoch
<1>9. SameTurns(n, x)
  BY <1>5, <1>7 DEF SameTurns
<1>. QED
  BY <1>3, <1>4, <1>5, <1>8, <1>9 DEF Related

\* The invariant survives any block that follows.
LEMMA BlockStep ==
  ASSUME IInv, NewBlock(block'), Follows(block')
  PROVE  IInv'
<1>1. /\ parent' = block /\ pc' = pc /\ position' = position /\ split' = split
      /\ first' = first /\ second' = second /\ price' = price /\ fee' = fee
      /\ pc \notin Ended
      /\ elapsed' \in 0..MaxElapsed
  <2>1. elapsed \in 0..MaxElapsed
    BY DEF IInv, TypeOK
  <2>. QED
    BY <2>1, SMT DEF NewBlock, reader
<1>2. block' \in Blocks
  BY DEF Follows
<1>3. TypeOK'
  BY <1>1, <1>2 DEF IInv, TypeOK
<1>4. Seen' \subseteq Seen \cup {block'}
  BY <1>1 DEF Seen
<1>5. Seen \subseteq Blocks /\ block \in Seen
  BY DEF Seen, IInv, TypeOK
<1>6. \A x \in Seen : Related(x, block') /\ Related(block', x) /\ NotAfter(x, block')
  BY <1>2, <1>5, RelatedToNext DEF IInv, Follows
<1>7. NotAfter(block', block') /\ Related(block', block')
  <2>1. block'.epoch \in Int /\ block'.turns \in Int
    BY <1>2 DEF Blocks
  <2>. QED
    BY <2>1, SMT DEF NotAfter, Related, SameEpoch, SameTurns, Congruent
<1>8. \A x \in Seen \cup {block'} : Sound(x) /\ NotAfter(x, block')
  BY <1>6, <1>7 DEF IInv, Follows
<1>9. \A x, y \in Seen \cup {block'} : Related(x, y)
  BY <1>6, <1>7 DEF IInv
<1>10. FeesExact'
  BY <1>1 DEF FeesExact, Ended
<1>11. (\A x \in Seen : Sound(x) /\ NotAfter(x, block))'
  BY <1>4, <1>8 DEF Sound, NotAfter, Open, Base, Inside
<1>12. (\A x, y \in Seen : Related(x, y))'
  BY <1>4, <1>9 DEF Related, SameEpoch, SameTurns, Open, Base, Inside
<1>. QED
  BY <1>3, <1>10, <1>11, <1>12 DEF IInv

-----------------------------------------------------------------------------
(* One lemma per action of the chain. *)

\* Fee growth and a crossing, as seen between the ticks.
LEMMA GrowthOutOfRange ==
  ASSUME NEW g \in Growth, NEW h \in Growth, NEW lo \in Growth, NEW up \in Growth
  PROVE  /\ Sub(Sub(g, Sub(g, lo)), up) = Sub(Sub(h, Sub(h, lo)), up)
         /\ Sub(Sub(g, lo), Sub(g, up)) = Sub(Sub(h, lo), Sub(h, up))
<1>1. Sub(g, Sub(g, lo)) = lo /\ Sub(h, Sub(h, lo)) = lo
  BY SMT DEF Sub, Growth
<1>2. Sub(Sub(g, lo), Sub(g, up)) = Sub(up, lo) /\ Sub(Sub(h, lo), Sub(h, up)) = Sub(up, lo)
  BY SMT DEF Sub, Growth
<1>. QED
  BY <1>1, <1>2

\* Growth within the range goes up by one, or wraps.
LEMMA GrowthInRange ==
  ASSUME NEW g \in Growth, NEW h \in Growth, NEW lo \in Growth, NEW up \in Growth,
         h = IF g + 1 = Modulus THEN 0 ELSE g + 1
  PROVE  Sub(Sub(h, lo), up) = Sub(Sub(g, lo), up) + 1
           \/ Sub(Sub(h, lo), up) + Modulus = Sub(Sub(g, lo), up) + 1
  BY SMT DEF Sub, Growth

\* A fee counts for the range exactly if the price is in it.
LEMMA AccrueFollows ==
  ASSUME block \in Blocks, Sound(block), Accrue
  PROVE  Follows(block')
<1>. DEFINE inRange == Lower <= block.tick /\ block.tick < Upper
            global  == IF block.global + 1 = Modulus THEN 0 ELSE block.global + 1
            earned  == IF inRange THEN block.earned + 1 ELSE block.earned
<1>1. earned < Modulus /\ block' = [block EXCEPT !.global = global, !.earned = earned]
  BY DEF Accrue, NewBlock
<1>2. /\ block.global \in Growth /\ block.earned \in Growth /\ block.tick \in Int
      /\ block.lower \in Growth /\ block.upper \in Growth
  BY DEF Blocks
<1>3. global \in Growth /\ earned \in Growth
  BY <1>1, <1>2, SMT DEF Growth
<1>4. /\ block' \in Blocks /\ block'.global = global /\ block'.earned = earned
      /\ block'.tick = block.tick /\ block'.lower = block.lower
      /\ block'.upper = block.upper /\ block'.liquidity = block.liquidity
      /\ block'.last = block.last /\ block'.mark = block.mark
      /\ block'.epoch = block.epoch /\ block'.turns = block.turns
  BY <1>1, <1>3 DEF Blocks
<1>. HIDE DEF global, earned
<1>5. Congruent(Base(block), Base(block'))
  <2>1. CASE inRange
    <3>1. /\ Inside(block) = Sub(Sub(block.global, block.lower), block.upper)
          /\ Inside(block') = Sub(Sub(global, block.lower), block.upper)
      BY <2>1, <1>2, <1>4, SMT DEF Inside
    <3>2. Inside(block') = Inside(block) + 1 \/ Inside(block') + Modulus = Inside(block) + 1
      BY <3>1, <1>2, <1>3, GrowthInRange DEF global
    <3>3. block'.earned = block.earned + 1
      BY <2>1, <1>4 DEF earned
    <3>4. Inside(block) \in Int /\ Inside(block') \in Int /\ block.earned \in Int
      BY <1>2, <1>4, InsideType DEF Growth
    <3>. QED
      BY <3>2, <3>3, <3>4, SMT DEF Base, Congruent
  <2>2. CASE block.tick < Lower
    <3>1. /\ Inside(block) = Sub(Sub(block.global, Sub(block.global, block.lower)), block.upper)
          /\ Inside(block') = Sub(Sub(global, Sub(global, block.lower)), block.upper)
      BY <2>2, <1>2, <1>4, SMT DEF Inside
    <3>2. block'.earned = block.earned
      BY <2>2, <1>2, <1>4, SMT DEF earned
    <3>. QED
      BY <3>1, <3>2, <1>2, <1>3, GrowthOutOfRange DEF Base, Congruent
  <2>3. CASE block.tick >= Upper
    <3>1. /\ Inside(block) = Sub(Sub(block.global, block.lower), Sub(block.global, block.upper))
          /\ Inside(block') = Sub(Sub(global, block.lower), Sub(global, block.upper))
      BY <2>3, <1>2, <1>4, SMT DEF Inside
    <3>2. block'.earned = block.earned
      BY <2>3, <1>2, <1>4, SMT DEF earned
    <3>. QED
      BY <3>1, <3>2, <1>2, <1>3, GrowthOutOfRange DEF Base, Congruent
  <2>. QED
    BY <2>1, <2>2, <2>3, <1>2, SMT
<1>6. Open(block') <=> Open(block)
  BY <1>4 DEF Open
<1>7. Related(block, block')
  BY <1>4, <1>5 DEF Related, SameEpoch, SameTurns
<1>8. NotAfter(block, block')
  BY <1>4, SMT DEF NotAfter, Blocks
<1>9. Sound(block')
  <2>1. block.mark <= block'.earned
    BY <1>2, <1>4, SMT DEF earned, Sound, Growth, Blocks
  <2>2. ASSUME block.liquidity > 0
        PROVE  Congruent(block.last - block.mark, Base(block'))
    <3>1. Congruent(block.last - block.mark, Base(block))
      BY <2>2 DEF Sound
    <3>2. block.last \in Growth /\ block.mark \in Growth /\ block'.earned \in Growth
      BY <1>4 DEF Blocks
    <3>3. Inside(block) \in Growth /\ Inside(block') \in Growth
      BY <1>4, InsideType
    <3>. QED
      BY <3>1, <3>2, <3>3, <1>2, <1>5, CongruentTransitive DEF Base
  <2>3. block'.epoch <= block'.turns + 1
    BY <1>4 DEF Sound
  <2>. QED
    BY <2>1, <2>2, <2>3, <1>4, <1>6 DEF Sound
<1>. QED
  BY <1>4, <1>7, <1>8, <1>9 DEF Follows

\* A tick that is crossed is flipped, which leaves the growth inside as it was.
LEMMA MoveFollows ==
  ASSUME block \in Blocks, Sound(block), NEW tick \in Ticks, Move(tick)
  PROVE  Follows(block')
<1>. DEFINE crossLower == Crossed(Lower, tick)
            crossUpper == Crossed(Upper, tick)
            turns == IF crossLower \/ crossUpper THEN block.turns + 1 ELSE block.turns
            lower == IF crossLower THEN Flip(block.lower) ELSE block.lower
            upper == IF crossUpper THEN Flip(block.upper) ELSE block.upper
<1>1. /\ turns <= MaxTurns
      /\ block' = [block EXCEPT !.tick = tick, !.lower = lower, !.upper = upper,
                                !.turns = turns]
  BY DEF Move, NewBlock
<1>2. /\ block.global \in Growth /\ block.tick \in Int /\ tick \in Int
      /\ block.lower \in Growth /\ block.upper \in Growth /\ block.turns \in 0..MaxTurns
  BY DEF Blocks
<1>3. lower \in Growth /\ upper \in Growth /\ turns \in 0..MaxTurns /\ block.turns <= turns
  <2>1. Flip(block.lower) \in Growth /\ Flip(block.upper) \in Growth
    BY <1>2, SubType DEF Flip
  <2>2. lower \in Growth /\ upper \in Growth
    BY <2>1, <1>2
  <2>3. turns = block.turns \/ turns = block.turns + 1
    OBVIOUS
  <2>4. turns \in 0..MaxTurns /\ block.turns <= turns
    BY <2>3, <1>1, <1>2, SMT
  <2>. QED
    BY <2>2, <2>4
<1>4. /\ block' \in Blocks /\ block'.tick = tick /\ block'.lower = lower
      /\ block'.upper = upper /\ block'.turns = turns
      /\ block'.global = block.global /\ block'.earned = block.earned
      /\ block'.liquidity = block.liquidity /\ block'.last = block.last
      /\ block'.mark = block.mark /\ block'.epoch = block.epoch
  BY <1>1, <1>3 DEF Blocks
<1>5. Open(block') <=> Open(block)
  BY <1>4 DEF Open
<1>6. \A x \in Growth : Sub(block.global, Sub(block.global, x)) = x
  BY <1>2, SMT DEF Sub, Growth
<1>7. ASSUME Open(block) PROVE Inside(block') = Inside(block)
  <2>1. /\ crossLower <=> ((block.tick < Lower) # (tick < Lower))
        /\ crossUpper <=> ((block.tick < Upper) # (tick < Upper))
    BY <1>7 DEF Crossed
  <2>2. (IF tick >= Lower THEN lower ELSE Sub(block.global, lower))
          = (IF block.tick >= Lower THEN block.lower ELSE Sub(block.global, block.lower))
    <3>1. CASE tick >= Lower
      BY <3>1, <2>1, <1>2, SMT DEF Flip
    <3>2. CASE tick < Lower
      <4>1. CASE block.tick >= Lower
        <5>1. lower = Sub(block.global, block.lower)
          BY <4>1, <3>2, <2>1, <1>2, SMT DEF Flip
        <5>. QED
          BY <5>1, <4>1, <3>2, <1>2, <1>6, SMT
      <4>2. CASE block.tick < Lower
        <5>1. lower = block.lower
          BY <4>2, <3>2, <2>1, <1>2, SMT DEF Flip
        <5>. QED
          BY <5>1, <4>2, <3>2, <1>2, SMT
      <4>. QED
        BY <4>1, <4>2, <1>2, SMT
    <3>. QED
      BY <3>1, <3>2, <1>2, SMT
  <2>3. (IF tick < Upper THEN upper ELSE Sub(block.global, upper))
          = (IF block.tick < Upper THEN block.upper ELSE Sub(block.global, block.upper))
    <3>1. CASE tick < Upper
      BY <3>1, <2>1, <1>2, SMT DEF Flip
    <3>2. CASE tick >= Upper
      <4>1. CASE block.tick < Upper
        <5>1. upper = Sub(block.global, block.upper)
          BY <4>1, <3>2, <2>1, <1>2, SMT DEF Flip
        <5>. QED
          BY <5>1, <4>1, <3>2, <1>2, <1>6, SMT
      <4>2. CASE block.tick >= Upper
        <5>1. upper = block.upper
          BY <4>2, <3>2, <2>1, <1>2, SMT DEF Flip
        <5>. QED
          BY <5>1, <4>2, <3>2, <1>2, SMT
      <4>. QED
        BY <4>1, <4>2, <1>2, SMT
    <3>. QED
      BY <3>1, <3>2, <1>2, SMT
  <2>. QED
    BY <2>2, <2>3, <1>4 DEF Inside
<1>8. SameEpoch(block, block')
  BY <1>4, <1>7 DEF SameEpoch, Congruent, Base
<1>9. SameTurns(block, block')
  <2> SUFFICES ASSUME block.turns = turns
               PROVE  /\ block.lower = lower /\ block.upper = upper
                      /\ Open(block) => /\ block.tick < Lower <=> tick < Lower
                                        /\ block.tick < Upper <=> tick < Upper
    BY <1>4 DEF SameTurns
  <2>1. ~crossLower /\ ~crossUpper
    BY <1>2, SMT
  <2>. QED
    BY <2>1, <1>2, SMT DEF Crossed
<1>10. NotAfter(block, block')
  <2>1. block.epoch <= block.epoch
    BY SMT DEF Blocks
  <2>. QED
    BY <2>1, <1>3, <1>4 DEF NotAfter
<1>11. Sound(block')
  <2>1. block'.epoch <= block'.turns + 1
    <3>1. block.epoch \in Int /\ block.epoch <= block.turns + 1
      BY DEF Sound, Blocks
    <3>. QED
      BY <3>1, <1>2, <1>3, <1>4, SMT
  <2>. QED
    BY <2>1, <1>4, <1>5, <1>7 DEF Sound, Base
<1>. QED
  BY <1>4, <1>8, <1>9, <1>10, <1>11 DEF Follows, Related

\* The ticks of the range are initialised or cleared: a new epoch begins.
LEMMA NewEpochFollows ==
  ASSUME block \in Blocks, Sound(block), block.liquidity = 0, block.turns < MaxTurns,
         NEW lower \in Growth, NEW upper \in Growth,
         block' = [block EXCEPT !.lower = lower, !.upper = upper,
                                !.epoch = block.epoch + 1, !.turns = block.turns + 1]
  PROVE  Follows(block')
<1>1. /\ block.epoch \in 1..(MaxTurns + 1) /\ block.turns \in 0..MaxTurns
      /\ block.epoch <= block.turns + 1
  BY DEF Blocks, Sound
<1>2. /\ block.epoch + 1 \in 1..(MaxTurns + 1) /\ block.turns + 1 \in 0..MaxTurns
      /\ block.epoch # block.epoch + 1 /\ block.turns # block.turns + 1
      /\ block.epoch <= block.epoch + 1 /\ block.turns <= block.turns + 1
  BY <1>1, SMT
<1>3. /\ block' \in Blocks /\ block'.epoch = block.epoch + 1
      /\ block'.turns = block.turns + 1 /\ block'.liquidity = block.liquidity
      /\ block'.earned = block.earned /\ block'.mark = block.mark
  BY <1>2 DEF Blocks
<1>4. Related(block, block') /\ NotAfter(block, block')
  BY <1>2, <1>3 DEF Related, SameEpoch, SameTurns, NotAfter
<1>5. Sound(block')
  <2>1. ~(block'.liquidity > 0)
    BY <1>3, SMT
  <2>2. block'.epoch <= block'.turns + 1
    BY <1>1, <1>3, SMT
  <2>. QED
    BY <2>1, <2>2, <1>3 DEF Sound
<1>. QED
  BY <1>3, <1>4, <1>5 DEF Follows

\* The position is settled, then gets another liquidity or is paid out.
LEMMA SettledFollows ==
  ASSUME block \in Blocks, Sound(block), Open(block),
         NEW liquidity \in 0..MaxLiquidity, NEW owed \in Nat,
         block' = [block EXCEPT !.liquidity = liquidity, !.owed = owed,
                                !.last = Inside(block), !.mark = block.earned]
  PROVE  Follows(block')
<1>1. Inside(block) \in Growth /\ block.earned \in Growth
  BY InsideType DEF Blocks
<1>2. /\ block' \in Blocks /\ block'.liquidity = liquidity /\ block'.owed = owed
      /\ block'.last = Inside(block) /\ block'.mark = block.earned
      /\ block'.tick = block.tick /\ block'.global = block.global
      /\ block'.lower = block.lower /\ block'.upper = block.upper
      /\ block'.earned = block.earned /\ block'.epoch = block.epoch
      /\ block'.turns = block.turns
  BY <1>1 DEF Blocks
<1>3. Inside(block') = Inside(block)
  BY <1>2 DEF Inside
<1>4. Open(block')
  BY <1>2 DEF Open
<1>5. Related(block, block')
  BY <1>2, <1>3 DEF Related, SameEpoch, SameTurns, Congruent, Base
<1>6. NotAfter(block, block')
  BY <1>2, SMT DEF NotAfter, Blocks
<1>7. Sound(block')
  <2>1. block'.mark <= block'.earned
    BY <1>1, <1>2, SMT DEF Growth
  <2>2. block'.epoch <= block'.turns + 1
    BY <1>2 DEF Sound
  <2>. QED
    BY <2>1, <2>2, <1>2, <1>3, <1>4 DEF Sound, Congruent, Base
<1>. QED
  BY <1>2, <1>5, <1>6, <1>7 DEF Follows

\* What is owed is a natural number.
LEMMA OwedType ==
  ASSUME block \in Blocks
  PROVE  block.owed + (block.liquidity * Sub(Inside(block), block.last)) \div Q \in Nat
<1>1. /\ block.owed \in Nat /\ block.liquidity \in Nat /\ block.last \in Growth
      /\ Inside(block) \in Growth
  BY InsideType, SMT DEF Blocks
<1>2. Sub(Inside(block), block.last) \in Nat
  <2>1. Sub(Inside(block), block.last) \in Growth
    BY <1>1, SubType
  <2>. QED
    BY <2>1, SMT DEF Growth
<1>3. block.liquidity * Sub(Inside(block), block.last) \in Nat
  BY <1>1, <1>2, MulType
<1>4. (block.liquidity * Sub(Inside(block), block.last)) \div Q \in Nat
  BY <1>3, DivType
<1>. QED
  BY <1>1, <1>4, SMT

\* Every block follows from the one before.
LEMMA ChainStep ==
  ASSUME IInv, Chain
  PROVE  IInv'
<1>1. block \in Blocks /\ Sound(block)
  BY DEF IInv, TypeOK, Seen
<1>2. ASSUME Accrue PROVE IInv'
  <2>1. NewBlock(block')
    BY <1>2 DEF Accrue, NewBlock
  <2>. QED
    BY <2>1, <1>1, <1>2, AccrueFollows, BlockStep
<1>3. ASSUME NEW tick \in Ticks, Move(tick) PROVE IInv'
  <2>1. NewBlock(block')
    BY <1>3 DEF Move, NewBlock
  <2>. QED
    BY <2>1, <1>1, <1>3, MoveFollows, BlockStep
<1>4. ASSUME NEW liquidity \in 0..MaxLiquidity, SetLiquidity(liquidity) PROVE IInv'
  <2>. DEFINE settled == block.owed + (block.liquidity * Sub(Inside(block), block.last)) \div Q
  <2>1. settled \in Nat
    BY <1>1, OwedType
  <2>2. Settled = [block EXCEPT !.owed = settled, !.last = Inside(block), !.mark = block.earned]
    BY DEF Settled
  <2>. HIDE DEF settled
  <2>3. Settled.owed = settled
    BY <2>2, <1>1 DEF Blocks
  <2>4. PICK owed \in {settled} \cup (settled..MaxOwed) :
          NewBlock([Settled EXCEPT !.liquidity = liquidity, !.owed = owed])
    BY <1>4, <2>3 DEF SetLiquidity
  <2>5. owed \in Nat
    BY <2>1, FeesAssumption
  <2>6. NewBlock(block') /\ Open(block)
    BY <1>4, <2>4 DEF SetLiquidity, NewBlock
  <2>7. block' = [block EXCEPT !.liquidity = liquidity, !.owed = owed,
                               !.last = Inside(block), !.mark = block.earned]
    BY <1>1, <2>2, <2>4 DEF NewBlock, Blocks
  <2>. QED
    BY <2>5, <2>6, <2>7, <1>1, SettledFollows, BlockStep
<1>5. ASSUME Initialise PROVE IInv'
  <2>1. NewBlock(block') /\ ~Open(block) /\ block.turns < MaxTurns
    BY <1>5 DEF Initialise, NewBlock
  <2>2. block.liquidity = 0
    BY <2>1, <1>1, SMT DEF Sound, Blocks
  <2>. DEFINE lower == IF block.tick >= Lower THEN block.global ELSE 0
              upper == IF block.tick >= Upper THEN block.global ELSE 0
  <2>3. lower \in Growth /\ upper \in Growth
    BY <1>1, SMT DEF Blocks, Growth
  <2>4. block' = [block EXCEPT !.lower = lower, !.upper = upper,
                               !.epoch = block.epoch + 1, !.turns = block.turns + 1]
    BY <1>5 DEF Initialise, NewBlock
  <2>. HIDE DEF lower, upper
  <2>. QED
    BY <2>1, <2>2, <2>3, <2>4, <1>1, NewEpochFollows, BlockStep
<1>6. ASSUME Clear PROVE IInv'
  <2>1. NewBlock(block') /\ block.liquidity = 0 /\ block.turns < MaxTurns
    BY <1>6 DEF Clear, NewBlock
  <2>2. 0 \in Growth
    BY SMT DEF Growth
  <2>3. block' = [block EXCEPT !.lower = 0, !.upper = 0,
                               !.epoch = block.epoch + 1, !.turns = block.turns + 1]
    BY <1>6 DEF Clear, NewBlock
  <2>. QED
    BY <2>1, <2>2, <2>3, <1>1, NewEpochFollows, BlockStep
<1>7. ASSUME Collect PROVE IInv'
  <2>1. CASE block.liquidity > 0 /\ NewBlock([Settled EXCEPT !.owed = 0])
    <3>1. NewBlock(block') /\ Open(block)
      BY <2>1, <1>1 DEF NewBlock, Sound
    <3>2. block' = [block EXCEPT !.liquidity = block.liquidity, !.owed = 0,
                                 !.last = Inside(block), !.mark = block.earned]
      BY <2>1, <1>1 DEF NewBlock, Settled, Blocks
    <3>3. block.liquidity \in 0..MaxLiquidity /\ 0 \in Nat
      BY <1>1 DEF Blocks
    <3>. QED
      BY <3>1, <3>2, <3>3, <1>1, SettledFollows, BlockStep
  <2>2. CASE block.liquidity = 0 /\ NewBlock([block EXCEPT !.owed = 0])
    <3>1. NewBlock(block')
      BY <2>2 DEF NewBlock
    <3>2. block' = [block EXCEPT !.owed = 0]
      BY <2>2 DEF NewBlock
    <3>3. /\ block' \in Blocks /\ Inside(block') = Inside(block)
          /\ block'.lower = block.lower /\ block'.upper = block.upper
          /\ block'.tick = block.tick /\ block'.earned = block.earned
          /\ block'.mark = block.mark /\ block'.last = block.last
          /\ block'.liquidity = block.liquidity
          /\ block'.epoch = block.epoch /\ block'.turns = block.turns
      BY <3>2, <1>1 DEF Blocks, Inside
    <3>4. Related(block, block')
      BY <3>3 DEF Related, SameEpoch, SameTurns, Congruent, Base
    <3>5. NotAfter(block, block')
      BY <3>3, <1>1, SMT DEF NotAfter, Blocks
    <3>6. Sound(block')
      BY <3>3, <1>1 DEF Sound, Open, Base
    <3>. QED
      BY <3>1, <3>3, <3>4, <3>5, <3>6, BlockStep DEF Follows
  <2>. QED
    BY <1>7, <2>1, <2>2 DEF Collect
<1>. QED
  BY <1>2, <1>3, <1>4, <1>5, <1>6, <1>7 DEF Chain

-----------------------------------------------------------------------------
(* The fetcher's steps, and the theorems. *)

\* A call that is answered at a block already seen.
LEMMA ReadStep ==
  ASSUME IInv, Seen' \subseteq Seen, block' = block, TypeOK', FeesExact'
  PROVE  IInv'
<1>1. (\A x \in Seen : Sound(x) /\ NotAfter(x, block))'
  BY DEF IInv, Sound, NotAfter, Open, Base, Inside
<1>2. (\A x, y \in Seen : Related(x, y))'
  BY DEF IInv, Related, SameEpoch, SameTurns, Open, Base, Inside
<1>. QED
  BY <1>1, <1>2 DEF IInv

\* The formula applied to one block gives what the position has earned.
LEMMA FormulaLemma ==
  ASSUME NEW x \in Blocks, NEW g \in Blocks, Sound(x), Related(x, g),
         g.epoch = x.epoch, g.earned >= x.mark
  PROVE  uncollectedFees(x.liquidity, Inside(g), x.last, x.owed)
           = x.owed + (x.liquidity * (g.earned - x.mark)) \div Q
<1>1. /\ x.liquidity \in Nat /\ x.owed \in Nat
      /\ x.mark \in Nat /\ g.earned \in Nat
      /\ x.last \in Growth /\ x.mark \in Growth /\ x.earned \in Growth /\ g.earned \in Growth
      /\ Inside(x) \in Growth /\ Inside(g) \in Growth
  <2>1. /\ x.liquidity \in 0..MaxLiquidity /\ x.owed \in Nat
        /\ x.last \in Growth /\ x.mark \in Growth /\ x.earned \in Growth /\ g.earned \in Growth
    BY DEF Blocks
  <2>2. x.liquidity \in Nat /\ x.mark \in Nat /\ g.earned \in Nat
    BY <2>1, SMT DEF Growth
  <2>. QED
    BY <2>1, <2>2, InsideType
<1>2. g.earned - x.mark \in Nat
  BY <1>1, SMT
<1>. DEFINE delta == Sub(Inside(g), x.last)
<1>3. subUint256(Inside(g), x.last) = delta /\ delta \in Growth
  BY <1>1, SubIsSub, SubType
<1>4. delta \in Nat
  BY <1>3, SMT DEF Growth
<1>5. x.liquidity * delta = x.liquidity * (g.earned - x.mark)
  <2>1. CASE x.liquidity = 0
    <3>1. x.liquidity * delta = 0 /\ x.liquidity * (g.earned - x.mark) = 0
      BY <2>1, <1>2, <1>4, SMT
    <3>. QED
      BY <3>1
  <2>2. CASE x.liquidity > 0
    <3>1. Open(x) /\ Congruent(x.last - x.mark, Base(x))
      BY <2>2 DEF Sound
    <3>2. Congruent(Base(x), Base(g))
      BY <3>1 DEF Related, SameEpoch
    <3>3. Congruent(x.last - x.mark, Base(g))
      BY <3>1, <3>2, <1>1, CongruentTransitive DEF Base
    <3>4. delta = g.earned - x.mark
      BY <3>3, <1>1, CongruentMeansEqual DEF Base
    <3>. QED
      BY <3>4
  <2>. QED
    BY <2>1, <2>2, <1>1, SMT
<1>6. (x.liquidity * delta) \div Q \in Nat
  BY <1>1, <1>4, MulType, DivType
<1>. HIDE DEF delta
<1>7. uncollectedFees(x.liquidity, Inside(g), x.last, x.owed)
        = (x.liquidity * delta) \div Q + x.owed
  BY <1>3 DEF uncollectedFees
<1>8. (x.liquidity * delta) \div Q + x.owed = x.owed + (x.liquidity * delta) \div Q
  BY <1>1, <1>6, SMT
<1>. QED
  BY <1>5, <1>7, <1>8

\* A fee is a natural number.
LEMMA FeeType ==
  ASSUME NEW x \in Blocks, NEW inside \in Growth
  PROVE  uncollectedFees(x.liquidity, inside, x.last, x.owed) \in Nat
<1>1. x.liquidity \in Nat /\ x.owed \in Nat /\ x.last \in Growth
  <2>1. x.liquidity \in 0..MaxLiquidity /\ x.owed \in Nat /\ x.last \in Growth
    BY DEF Blocks
  <2>. QED
    BY <2>1, SMT
<1>2. subUint256(inside, x.last) \in Growth
  BY <1>1, SubIsSub, SubType
<1>3. subUint256(inside, x.last) \in Nat
  BY <1>2, SMT DEF Growth
<1>4. (x.liquidity * subUint256(inside, x.last)) \div Q \in Nat
  BY <1>1, <1>3, MulType, DivType
<1>. QED
  BY <1>1, <1>4, SMT DEF uncollectedFees

\* The growth between the ticks, computed from two blocks, is a growth.
LEMMA MixedInsideType ==
  ASSUME NEW x \in Blocks, NEW y \in Blocks, NEW z \in Blocks
  PROVE  feeGrowthInside(x.tick, y.global, z.lower, z.upper) \in Growth
<1>1. {y.global, z.lower, z.upper} \subseteq Growth
  BY DEF Blocks
<1>2. \A a, b \in Growth : subUint256(a, b) \in Growth
  BY SubIsSub, SubType
<1>. QED
  BY <1>1, <1>2 DEF feeGrowthInside

\* The fee is computed from blocks that were read.
LEMMA FetchedStep ==
  ASSUME IInv, NEW b \in Answering, Fetched(b)
  PROVE  IInv'
<1>. DEFINE rest   == IF split = 6 THEN first ELSE b
            growth == GrowthBlock(first, rest)
            inside == feeGrowthInside(first.tick, growth.global, rest.lower, rest.upper)
<1>1. /\ block' = block /\ parent' = parent /\ position' = position /\ first' = first
      /\ split' = split /\ elapsed' = elapsed /\ second' = rest /\ price' = price
  BY DEF Fetched
<1>2. rest \in Seen /\ growth \in Seen /\ first \in Seen /\ position \in Seen
  BY DEF Seen, Answering, GrowthBlock
<1>3. Seen \subseteq Blocks
  BY DEF Seen, IInv, TypeOK
<1>4. Seen' \subseteq Seen
  BY <1>1, <1>2 DEF Seen
<1>5. inside \in Growth
  BY <1>2, <1>3, MixedInsideType
<1>6. CASE Empty
  <2>1. pc' = "leftOut" /\ fee' = fee
    BY <1>6 DEF Fetched
  <2>2. TypeOK'
    BY <1>1, <1>2, <1>3, <2>1 DEF IInv, TypeOK, Ended
  <2>3. FeesExact'
    BY <2>1 DEF FeesExact
  <2>. QED
    BY <1>1, <1>4, <2>2, <2>3, ReadStep
<1>7. CASE ~Empty
  <2>1. /\ pc' = "done"
        /\ fee' = uncollectedFees(position.liquidity, inside, position.last, position.owed)
    BY <1>7 DEF Fetched
  <2>2. fee' \in Nat
    BY <2>1, <1>2, <1>3, <1>5, FeeType
  <2>3. TypeOK'
    BY <1>1, <1>2, <1>3, <2>1, <2>2 DEF IInv, TypeOK, Ended
  <2>. HIDE DEF rest, inside
  <2>4. ASSUME first.turns = rest.turns, growth.epoch = position.epoch,
               growth.earned >= position.mark
        PROVE  fee' = position.owed
                        + (position.liquidity * (growth.earned - position.mark)) \div Q
    <3>1. Sound(position) /\ Related(position, growth) /\ Related(first, rest)
      BY <1>2 DEF IInv
    <3>2. CASE position.liquidity = 0
      <4>1. position.owed \in Nat /\ growth.earned - position.mark \in Nat
        <5>1. /\ position.owed \in Nat /\ growth.earned \in Growth
              /\ position.mark \in Growth
          BY <1>2, <1>3 DEF Blocks
        <5>. QED
          BY <5>1, <2>4, SMT DEF Growth
      <4>2. subUint256(inside, position.last) \in Nat
        <5>1. position.last \in Growth
          BY <1>2, <1>3 DEF Blocks
        <5>2. subUint256(inside, position.last) \in Growth
          BY <5>1, <1>5, SubIsSub, SubType
        <5>. QED
          BY <5>2, SMT DEF Growth
      <4>. HIDE DEF growth
      <4>3. /\ position.liquidity * subUint256(inside, position.last) = 0
            /\ position.liquidity * (growth.earned - position.mark) = 0
        BY <3>2, <4>1, <4>2, SMT
      <4>4. 0 \div Q \in Nat
        BY DivType
      <4>. QED
        BY <2>1, <4>1, <4>3, <4>4, SMT DEF uncollectedFees
    <3>3. CASE position.liquidity > 0
      <4>1. Open(position) /\ Open(growth)
        BY <3>1, <3>3, <2>4 DEF Sound, Open
      <4>2. /\ first.epoch = rest.epoch /\ first.lower = rest.lower /\ first.upper = rest.upper
            /\ Open(first) => /\ first.tick < Lower <=> rest.tick < Lower
                              /\ first.tick < Upper <=> rest.tick < Upper
        BY <3>1, <2>4 DEF Related, SameTurns
      <4>3. growth = rest \/ growth = first
        BY DEF GrowthBlock
      <4>4. Open(first)
        BY <4>1, <4>2, <4>3 DEF Open
      <4>5. /\ first.tick < Lower <=> growth.tick < Lower
            /\ first.tick < Upper <=> growth.tick < Upper
            /\ rest.lower = growth.lower /\ rest.upper = growth.upper
        BY <4>2, <4>3, <4>4
      <4>6. first.tick >= Upper <=> growth.tick >= Upper
        <5>1. first.tick \in Int /\ growth.tick \in Int
          BY <1>2, <1>3 DEF Blocks
        <5>. QED
          BY <4>5, <5>1, SMT
      <4>7. inside = feeGrowthInside(growth.tick, growth.global, growth.lower, growth.upper)
        BY <4>5, <4>6 DEF feeGrowthInside, inside
      <4>8. inside = Inside(growth)
        BY <4>7, <1>2, <1>3, InsideIsInside
      <4>. QED
        BY <2>1, <2>4, <3>1, <4>8, <1>2, <1>3, FormulaLemma
    <3>4. position.liquidity \in Nat
      <4>1. position.liquidity \in 0..MaxLiquidity
        BY <1>2, <1>3 DEF Blocks
      <4>. QED
        BY <4>1, SMT
    <3>. QED
      BY <3>2, <3>3, <3>4, SMT
  <2>5. FeesExact'
    BY <1>1, <2>4 DEF FeesExact, Whole, GrowthBlock
  <2>. QED
    BY <1>1, <1>4, <2>3, <2>5, ReadStep
<1>. QED
  BY <1>6, <1>7

\* The pool starts sound.
LEMMA InitInv == Init => IInv
<1> SUFFICES ASSUME Init PROVE IInv
  OBVIOUS
<1>1. PICK tick \in Ticks, global \in FirstGrowths :
        block = [tick |-> tick, global |-> global,
                 lower |-> IF tick >= Lower THEN global ELSE 0,
                 upper |-> IF tick >= Upper THEN global ELSE 0,
                 liquidity |-> 0, last |-> 0, owed |-> 0,
                 earned |-> 0, mark |-> 0, epoch |-> 1, turns |-> 0]
  BY DEF Init
<1>. DEFINE lower == IF tick >= Lower THEN global ELSE 0
            upper == IF tick >= Upper THEN global ELSE 0
<1>2. 0 \in Growth /\ global \in Growth /\ 0 \in 0..MaxLiquidity /\ 1 \in 1..(MaxTurns + 1) /\ 0 \in 0..MaxTurns
      /\ 0 \in 0..MaxElapsed
  BY SMT DEF Growth
<1>3. lower \in Growth /\ upper \in Growth
  BY <1>2
<1>4. block \in Blocks
  BY <1>1, <1>2, <1>3 DEF Blocks
<1>5. parent = block /\ position = block /\ first = block /\ second = block
  BY DEF Init
<1>6. TypeOK
  BY <1>2, <1>4, <1>5 DEF Init, TypeOK
<1>7. Sound(block)
  BY <1>1, SMT DEF Sound
<1>8. NotAfter(block, block) /\ Related(block, block)
  BY <1>1, SMT DEF NotAfter, Related, SameEpoch, SameTurns, Congruent
<1>9. FeesExact
  BY DEF Init, FeesExact
<1>. QED
  BY <1>5, <1>6, <1>7, <1>8, <1>9 DEF IInv, Seen

\* Every step keeps the invariant.
LEMMA StepInv == IInv /\ [Next]_vars => IInv'
<1> SUFFICES ASSUME IInv, [Next]_vars PROVE IInv'
  OBVIOUS
<1>1. CASE Chain
  BY <1>1, ChainStep
<1>2. ASSUME NEW b \in Answering, Positions(b) PROVE IInv'
  <2>1. b \in Blocks /\ Seen' \subseteq Seen /\ block' = block
    BY <1>2 DEF Positions, Answering, Seen, IInv, TypeOK
  <2>2. TypeOK'
    BY <1>2, <2>1 DEF Positions, IInv, TypeOK
  <2>3. FeesExact'
    BY <1>2 DEF Positions, FeesExact
  <2>. QED
    BY <2>1, <2>2, <2>3, ReadStep
<1>3. ASSUME NEW b \in Answering, PoolBatch(b) PROVE IInv'
  <2>1. b \in Blocks /\ Seen' \subseteq Seen /\ block' = block
    BY <1>3 DEF PoolBatch, Answering, Seen, IInv, TypeOK
  <2>2. TypeOK'
    BY <1>3, <2>1 DEF PoolBatch, PricesAt, IInv, TypeOK
  <2>3. FeesExact'
    BY <1>3 DEF PoolBatch, FeesExact
  <2>. QED
    BY <2>1, <2>2, <2>3, ReadStep
<1>4. ASSUME NEW b \in Answering, Fetched(b) PROVE IInv'
  BY <1>4, FetchedStep
<1>5. CASE UNCHANGED vars
  <2>1. Seen' = Seen /\ TypeOK' /\ FeesExact' /\ block' = block
    BY <1>5 DEF vars, reader, Seen, IInv, TypeOK, FeesExact, Whole, GrowthBlock
  <2>. QED
    BY <2>1, ReadStep
<1>. QED
  BY <1>1, <1>2, <1>3, <1>4, <1>5 DEF Next, Fetch

\* The inductive invariant holds.
LEMMA Invariant == Spec => []IInv
  BY InitInv, StepInv, PTL DEF Spec

\* Every state of the fetch and of the chain it reads is well formed; in
\* particular the fees are never negative.
THEOREM FeesTypeCorrect == Spec => []TypeOK
<1>1. IInv => TypeOK
  BY DEF IInv
<1>. QED
  BY <1>1, Invariant, PTL

\* The fee formula is exact at every block, for every modulus, range and
\* history of swaps, crossings and settlements.
THEOREM FormulaExactHolds == Spec => []FormulaExact
<1>1. IInv => FormulaExact
  <2> SUFFICES ASSUME IInv PROVE FormulaExact
    OBVIOUS
  <2>1. block \in Blocks /\ Sound(block) /\ Related(block, block)
    BY DEF IInv, TypeOK, Seen
  <2>2. block.earned >= block.mark
    BY <2>1, SMT DEF Sound, Blocks, Growth
  <2>. QED
    BY <2>1, <2>2, FormulaLemma, InsideIsInside DEF FormulaExact, FeesAt, EarnedAt
<1>. QED
  BY <1>1, Invariant, PTL

\* Reading position and pool at different blocks, even older ones, leaves the
\* fees exact under the conditions that FeesExact names.
THEOREM FeesExactHolds == Spec => []FeesExact
<1>1. IInv => FeesExact
  BY DEF IInv
<1>. QED
  BY <1>1, Invariant, PTL

-----------------------------------------------------------------------------
(* Amounts. *)

\* The price was read with the tick of slot0.
PriceRead == pc \in {"rest", "done"} => price \in PricesAt(first.tick)

\* The price that was read lies at the tick that was read.
LEMMA PriceReadStep ==
  ASSUME TypeOK, PriceRead, [Next]_vars
  PROVE  PriceRead'
<1>1. CASE Chain
  <2>1. UNCHANGED <<pc, price, first>>
    BY <1>1 DEF Chain, Accrue, Move, SetLiquidity, Initialise, Clear, Collect, NewBlock, reader
  <2>. QED
    BY <2>1 DEF PriceRead, PricesAt
<1>2. ASSUME NEW b \in Answering, Positions(b) PROVE PriceRead'
  BY <1>2 DEF Positions, PriceRead
<1>3. ASSUME NEW b \in Answering, PoolBatch(b) PROVE PriceRead'
  BY <1>3 DEF PoolBatch, PriceRead, PricesAt
<1>4. ASSUME NEW b \in Answering, Fetched(b) PROVE PriceRead'
  BY <1>4 DEF Fetched, PriceRead, PricesAt
<1>5. CASE UNCHANGED vars
  BY <1>5 DEF vars, reader, PriceRead, PricesAt
<1>. QED
  BY <1>1, <1>2, <1>3, <1>4, <1>5 DEF Next, Fetch

\* At every price a tick allows, the code's cases give what the pool pays,
\* and the status does not contradict the amounts.
LEMMA AmountsLemma ==
  ASSUME NEW tick \in Ticks, NEW x \in PricesAt(tick), NEW liquidity \in Nat
  PROVE  LET shown == amountsForLiquidity(x, Ratio[Lower], Ratio[Upper], liquidity)
         IN /\ shown = Burnt(tick, x, liquidity)
            /\ rangeStatus(tick) = "below-range" => shown[2] = 0
            /\ rangeStatus(tick) = "above-range" => shown[1] = 0
<1>. DEFINE low == Ratio[Lower]
            high == Ratio[Upper]
<1>1. /\ tick \in Int /\ tick \in Bounds /\ tick + 1 \in Bounds
      /\ Lower \in Bounds /\ Upper \in Bounds
  BY DEF Bounds
<1>2. /\ x \in Int /\ low \in Int /\ high \in Int /\ low < high
      /\ Ratio[tick] <= x /\ x <= Ratio[tick + 1]
      /\ Ratio[tick] \in Int /\ Ratio[tick + 1] \in Int
  BY <1>1, RatioAssumption DEF PricesAt
<1>3. CASE tick < Lower
  <2>1. Ratio[tick + 1] <= low
    BY <1>1, <1>2, <1>3, RatioAssumption
  <2>2. x <= low
    BY <1>2, <2>1
  <2>. QED
    BY <1>3, <2>2 DEF amountsForLiquidity, Burnt, amount0ForLiquidity, Delta0, rangeStatus
<1>4. CASE tick >= Lower /\ tick < Upper
  <2>1. low <= Ratio[tick] /\ Ratio[tick + 1] <= high
    BY <1>1, <1>2, <1>4, RatioAssumption
  <2>2. low <= x /\ x <= high
    BY <1>2, <2>1
  <2>3. rangeStatus(tick) = "in-range"
    BY <1>1, <1>4 DEF rangeStatus
  <2>4. Burnt(tick, x, liquidity) = <<Delta0(x, high, liquidity), Delta1(low, x, liquidity)>>
    BY <1>1, <1>4 DEF Burnt
  <2>5. CASE x = low
    <3>1. Delta1(low, x, liquidity) = 0
      <4>1. liquidity * (x - low) = 0
        BY <1>2, <2>5
      <4>. QED
        BY <4>1, RatioAssumption DEF Delta1
    <3>. QED
      BY <2>3, <2>4, <2>5, <3>1, <1>2 DEF amountsForLiquidity, amount0ForLiquidity, Delta0
  <2>6. CASE low < x /\ x < high
    BY <2>3, <2>4, <2>6, <1>2
       DEF amountsForLiquidity, amount0ForLiquidity, amount1ForLiquidity, Delta0, Delta1
  <2>7. CASE x = high
    <3>1. Delta0(x, high, liquidity) = 0
      <4>1. liquidity * Q96 * (high - x) = 0
        BY <1>2, <2>7, RatioAssumption
      <4>2. high > 0 /\ x > 0
        BY <1>1, <1>2, <2>7, RatioAssumption
      <4>. QED
        BY <4>1, <4>2, <1>2 DEF Delta0
    <3>. QED
      BY <2>3, <2>4, <2>7, <3>1, <1>2 DEF amountsForLiquidity, amount1ForLiquidity, Delta1
  <2>. QED
    BY <1>2, <2>2, <2>5, <2>6, <2>7
<1>5. CASE tick >= Upper
  <2>1. high <= Ratio[tick]
    BY <1>1, <1>2, <1>5, RatioAssumption
  <2>2. high <= x
    BY <1>2, <2>1
  <2>3. ~(tick < Lower) /\ ~(tick < Upper)
    BY <1>1, <1>5
  <2>. QED
    BY <1>2, <1>5, <2>2, <2>3
       DEF amountsForLiquidity, Burnt, amount1ForLiquidity, Delta1, rangeStatus
<1>. QED
  BY <1>1, <1>3, <1>4, <1>5

\* The amounts are computed once, from that price.
LEMMA AmountsStep ==
  ASSUME TypeOK, PriceRead, AmountsArePayout, [Next]_vars
  PROVE  AmountsArePayout'
<1>1. CASE Chain
  <2>1. pc' \notin Ended
    BY <1>1 DEF Chain, Accrue, Move, SetLiquidity, Initialise, Clear, Collect, NewBlock, reader
  <2>. QED
    BY <2>1 DEF AmountsArePayout, Ended
<1>2. ASSUME NEW b \in Answering, Positions(b) PROVE AmountsArePayout'
  BY <1>2 DEF Positions, AmountsArePayout
<1>3. ASSUME NEW b \in Answering, PoolBatch(b) PROVE AmountsArePayout'
  BY <1>3 DEF PoolBatch, AmountsArePayout
<1>4. ASSUME NEW b \in Answering, Fetched(b) PROVE AmountsArePayout'
  <2>1. CASE Empty
    BY <1>4, <2>1 DEF Fetched, AmountsArePayout
  <2>2. CASE ~Empty
    <3>1. /\ pc = "rest" /\ UNCHANGED <<first, position, price>>
          /\ amounts' = amountsForLiquidity(price, Ratio[Lower], Ratio[Upper], position.liquidity)
      BY <1>4, <2>2 DEF Fetched
    <3>2. first.tick \in Ticks /\ position.liquidity \in Nat
      BY DEF TypeOK, Blocks
    <3>3. price \in PricesAt(first.tick)
      BY <3>1 DEF PriceRead
    <3>. DEFINE shown == amountsForLiquidity(price, Ratio[Lower], Ratio[Upper], position.liquidity)
    <3>4. /\ shown = Burnt(first.tick, price, position.liquidity)
          /\ rangeStatus(first.tick) = "below-range" => shown[2] = 0
          /\ rangeStatus(first.tick) = "above-range" => shown[1] = 0
      BY <3>2, <3>3, AmountsLemma
    <3>5. amounts' = shown
      BY <3>1
    <3>. HIDE DEF shown
    <3>6. /\ Burnt(first.tick, price, position.liquidity)' = Burnt(first.tick, price, position.liquidity)
          /\ rangeStatus(first.tick)' = rangeStatus(first.tick)
      BY <3>1 DEF Burnt, Delta0, Delta1, rangeStatus
    <3>. QED
      BY <3>4, <3>5, <3>6 DEF AmountsArePayout
  <2>. QED
    BY <2>1, <2>2
<1>5. CASE UNCHANGED vars
  BY <1>5 DEF vars, reader, AmountsArePayout, Burnt, Delta0, Delta1, rangeStatus
<1>. QED
  BY <1>1, <1>2, <1>3, <1>4, <1>5 DEF Next, Fetch

\* The tokens shown are what a withdrawal at the block of slot0 would pay, for
\* every range, price and liquidity.
THEOREM AmountsArePayoutHold == Spec => []AmountsArePayout
<1>1. Init => PriceRead /\ AmountsArePayout
  BY DEF Init, PriceRead, AmountsArePayout
<1>2. TypeOK /\ PriceRead /\ AmountsArePayout /\ [Next]_vars => (PriceRead /\ AmountsArePayout)'
  BY PriceReadStep, AmountsStep
<1>. QED
  BY <1>1, <1>2, FeesTypeCorrect, PTL DEF Spec
=============================================================================
