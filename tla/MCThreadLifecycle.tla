--------------------------- MODULE MCThreadLifecycle ---------------------------
(* Instances of ThreadLifecycle for TLC: two objects that main() owns, or   *)
(* one of them and another that its tasks own.                              *)
EXTENDS ThreadLifecycle, TLC

CONSTANTS A, B, w1, w2, w3

TwoObjects   == {A, B}
TwoWorkers   == {w1, w2}
ThreeWorkers == {w1, w2, w3}

Flat   == [o \in TwoObjects |-> Main]
Nested == [o \in TwoObjects |-> IF o = A THEN Main ELSE A]

SymTwo   == Permutations(TwoWorkers)
SymThree == Permutations(ThreeWorkers)
=============================================================================
