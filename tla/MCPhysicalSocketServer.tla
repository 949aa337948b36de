----------------------- MODULE MCPhysicalSocketServer -----------------------
(* Instance of PhysicalSocketServer for TLC. *)
EXTENDS PhysicalSocketServer

CONSTANTS w1, d1, d2, f1, f2, in

OneWorker  == {w1}
TwoSockets == {d1, d2}
TwoFds     == {f1, f2}
JustIn     == {in}
Both       == {"epoll", "select"}
=============================================================================
