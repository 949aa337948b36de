------------------------------ MODULE MCThread ------------------------------
(* Instances of Thread for TLC.  Clients are interchangeable, and so are   *)
(* the tasks when none of them is empty.                                   *)
EXTENDS Thread, TLC

CONSTANTS c1, c2, t1, t2, t3

OneClient   == {c1}
TwoClients  == {c1, c2}
OneTask     == {t1}
TwoTasks    == {t1, t2}
ThreeTasks  == {t1, t2, t3}
NoTasks     == {}

DelaysFrom0 == {0, 2}
DelaysFrom1 == {1, 2}

Forever    == {kForever}
AnyTimeout == {kForever, 0, 1}

SymClientsTasks == Permutations(TwoClients) \cup Permutations(ThreeTasks)
=============================================================================
