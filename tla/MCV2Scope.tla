----------------------------- MODULE MCV2Scope -----------------------------
(* Small wallets for V2Scope: two pairs, one token that looks like a pair. *)
EXTENDS V2Scope, TLC

CONSTANTS p1, p2, x1, f1

FarmOfFirst == f1 :> p1
=============================================================================
