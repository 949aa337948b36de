---------------------------- MODULE SocketServer ----------------------------
(***************************************************************************)
(* The contract of class SocketServer (net/socket_server.h), the interface *)
(* a Thread blocks on: Wait(max_wait_duration, process_io) and WakeUp().   *)
(*                                                                         *)
(* The header fixes the signatures and the meaning of kForever only.  What *)
(* Thread::Get needs from an implementation is that a WakeUp is never      *)
(* lost, whether it comes before the Wait or during it: it is remembered   *)
(* until some Wait takes notice of it, and the Wait that does so returns   *)
(* instead of blocking again.  A Wait may also return without a WakeUp     *)
(* (its time is up, it handled I/O, or it failed).                         *)
(***************************************************************************)

VARIABLES
  signaled,   \* a WakeUp no Wait has taken notice of yet
  waiting     \* "no" outside Wait; "forever" or "timed" while Wait may
              \* block; "woken" once it took notice of a WakeUp

ssVars == <<signaled, waiting>>

Blocked == {"forever", "timed"}

SSTypeOK == /\ signaled \in BOOLEAN
            /\ waiting \in Blocked \cup {"no", "woken"}

SSInit == signaled = FALSE /\ waiting = "no"

(* WakeUp(), from any thread, before, during or after a Wait. *)
WakeUp == signaled' = TRUE /\ UNCHANGED waiting

(* Wait is called; mode is "forever" for kForever and "timed" otherwise. *)
WaitEnter(mode) == /\ waiting = "no"
                   /\ waiting' = mode
                   /\ UNCHANGED signaled

(* The Wait in progress takes notice of a WakeUp. *)
Consume == /\ waiting \in Blocked
           /\ signaled
           /\ signaled' = FALSE
           /\ waiting' = "woken"

(* Wait returns, woken or not. *)
WaitReturn == /\ waiting # "no"
              /\ waiting' = "no"
              /\ UNCHANGED signaled

SSNext == \/ WakeUp
          \/ \E mode \in Blocked : WaitEnter(mode)
          \/ Consume
          \/ WaitReturn

SSSpec == SSInit /\ [][SSNext]_ssVars
=============================================================================
