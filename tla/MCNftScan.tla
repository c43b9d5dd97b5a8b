----------------------------- MODULE MCNftScan -----------------------------
(* Instances of NftScan for TLC. *)
EXTENDS NftScan

CONSTANTS t1, t2, t3, p1, p2

\* Two positions in one pool and one in another.
TwoPools == [t \in {t1, t2, t3} |-> IF t = t3 THEN p2 ELSE p1]

\* The two positions of the first pool are interchangeable.
Symmetry == Permutations({t1, t2})
=============================================================================
