-------------------------- MODULE MCNullSocketServer --------------------------
(* An instance of NullSocketServer for TLC. *)
EXTENDS NullSocketServer

JustLoop == {Loop}
AnyWait  == {kForever, 0, 1, 2}
=============================================================================
