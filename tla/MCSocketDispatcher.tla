------------------------- MODULE MCSocketDispatcher -------------------------
(* Instances of SocketDispatcher for TLC. *)
EXTENDS SocketDispatcher

AllRoles   == {"listener", "server", "client"}
JustServer == {"server"}
=============================================================================
