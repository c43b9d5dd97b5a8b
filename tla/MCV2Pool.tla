------------------------------ MODULE MCV2Pool ------------------------------
(* A pair of 12 x 12 with 12 LP tokens, five of them the wallet's.  The large *)
(* swap makes the pair owe one LP token to feeTo.                             *)
EXTENDS V2Pool

Pair(feeTo, k, own) ==
  [res0 |-> 12, res1 |-> 12, bal0 |-> 12, bal1 |-> 12, supply |-> 12, kLast |-> k,
   feeTo |-> feeTo, mine |-> own, event |-> "start"]

MCStarts == {Pair(TRUE, 144, 5), Pair(FALSE, 0, 5)}
MCDeposits == {<<6, 6>>, <<2, 20>>}
MCSwaps == {<<30, -1>>, <<-3, 20>>}
=============================================================================
