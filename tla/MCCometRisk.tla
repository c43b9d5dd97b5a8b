---------------------------- MODULE MCCometRisk ----------------------------
(* A collateral asset, a second that may be listed, and two feeds, between which the base token has
   a choice; units of two, factors in tenths. *)
EXTENDS CometRisk

CONSTANTS a1, a2, fa, fb

Factor(b, l) == [borrow |-> b, liquidate |-> l]
MCFactors == {Factor(5, 8), Factor(8, 9)}
MCFeedsOf == [t \in {a1, a2, base} |-> IF t = base THEN {fa, fb} ELSE IF t = a1 THEN {fa} ELSE {fb}]
MCStartFeeds == {[t \in {a1, a2, base} |-> IF t = a1 THEN fa ELSE fb]}
MCStartPrices == {[f \in {fa, fb} |-> IF f = fa THEN 5 ELSE 2]}
MCStartFactors == {[a \in {a1, a2} |-> Factor(5, 8)]}
MCLists == {<<a1>>}
=============================================================================
