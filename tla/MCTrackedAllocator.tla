-------------------------- MODULE MCTrackedAllocator --------------------------
(* An instance of TrackedAllocator for TLC: a base of one unit and a        *)
(* derived type of two.                                                     *)
EXTENDS TrackedAllocator, TLC

CONSTANTS t1, t2, b1, b2, B, D

TwoThreads  == {t1, t2}
TwoBlocks   == {b1, b2}
TwoTypes    == {B, D}
Sizes       == [T \in TwoTypes |-> IF T = B THEN 1 ELSE 2]
DerivedBase == {<<D, B>>}
UpToTwo     == {0, 1, 2}

Sym == Permutations(TwoThreads) \cup Permutations(TwoBlocks)
=============================================================================
