------------------------------ MODULE MCV3Fees ------------------------------
(* Instances of V3Fees for TLC. *)
EXTENDS V3Fees

\* A range wide enough for both amounts to be counted; the prices are on the
\* boundaries of the range and between the ticks.
RatioOf == [tick \in 0..3 |-> CASE tick = 0 -> 2 [] tick = 1 -> 4 [] tick = 2 -> 32 [] tick = 3 -> 64]
SomePrices == {3, 4, 16, 32}
=============================================================================
