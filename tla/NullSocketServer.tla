--------------------------- MODULE NullSocketServer ---------------------------
(***************************************************************************)
(* class NullSocketServer (net/null_socket_server.cpp), the SocketServer   *)
(* of a Thread that has no sockets: Wait and WakeUp are those of an Event  *)
(* that resets itself.  Wait always calls Event::Wait(int64_t), with       *)
(* kForever too, and returns true whatever that returns.                   *)
(***************************************************************************)
EXTENDS Event

CONSTANT Loop     \* the thread that calls Wait

kForever == -1

ASSUME NullAssumption == Waiters = {Loop} /\ kForever \in Timeouts

NSSInit == Init /\ ~manual_reset_ /\ ~event_status_

NSSWait(max_wait_duration) == Wait(Loop, max_wait_duration)

NSSWakeUp == Set

NSSNext == \/ \E d \in Timeouts : NSSWait(d)
           \/ NSSWakeUp
           \/ Waiter(Loop) \/ Wait_Back(Loop)
           \/ Tick

NSSSpec == NSSInit /\ [][NSSNext]_vars

(* It keeps the contract of SocketServer: a WakeUp is remembered until a   *)
(* Wait takes notice of it, which then returns.  (That a Wait returns      *)
(* without any reason, as this one does all the time, the contract does    *)
(* not rule out.)                                                          *)
Contract == INSTANCE SocketServer WITH
  signaled <- event_status_,
  waiting <- CASE pc[Loop] = "out" -> "no"
               [] pc[Loop] = "taken" -> "woken"
               [] OTHER -> IF give_up_after[Loop] = kForever THEN "forever" ELSE "timed"

ImplementsSocketServer == Contract!SSSpec
=============================================================================
