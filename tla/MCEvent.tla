-------------------------------- MODULE MCEvent --------------------------------
(* An instance of Event for TLC: -1 is an invalid timespec, 0 and 2 are     *)
(* times long past.                                                         *)
EXTENDS Event

CONSTANTS w1, w2

TwoWaiters   == {w1, w2}
SomeTimeouts == {-1, 2}
=============================================================================
