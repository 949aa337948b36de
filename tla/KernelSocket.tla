----------------------------- MODULE KernelSocket ----------------------------
(***************************************************************************)
(* One non-blocking TCP or UDP socket of the kernel, as far as             *)
(* SocketDispatcher can tell: the results of the system calls it makes on  *)
(* the socket, what epoll reports of it, and what the peer may do to it    *)
(* meanwhile.  None of this is code of the repository; it is Linux as the  *)
(* code uses it.                                                           *)
(*                                                                         *)
(* Data, datagrams, room in the send buffer and the backlog of a listening *)
(* socket are counted in units.                                            *)
(***************************************************************************)
EXTENDS Integers

CONSTANTS
  MaxPending,   \* bound: unread units, or connections in the backlog
  MaxSpace,     \* units the send buffer holds
  MaxArrivals   \* bound: data and connections the peers send in all

ASSUME EndpointAssumption == {MaxPending, MaxSpace, MaxArrivals} \subseteq Nat \ {0}

VARIABLES
  conn,       \* "none": no descriptor; "dead": reset by the peer
  pending,    \* unread data, or connections not accepted yet
  fin,        \* the peer sent its last data
  so_error,   \* SO_ERROR is set
  space,      \* room in the send buffer
  arrivals    \* what may still arrive

kernelVars == <<conn, pending, fin, so_error, space, arrivals>>

(* A UDP socket without and with a peer to send to. *)
Datagrams == {"datagram", "datagram_peer"}

ConnStates == {"none", "fresh", "listening", "connecting", "established", "dead", "refused"}
                \cup Datagrams

(* What was a connection, or was to be one, and is over. *)
Over == {"dead", "refused"}

EndpointTypeOK ==
  /\ conn \in ConnStates
  /\ pending \in 0..MaxPending
  /\ fin \in BOOLEAN /\ so_error \in BOOLEAN
  /\ space \in 0..MaxSpace
  /\ arrivals \in 0..MaxArrivals

(* A new descriptor, or none. *)
Endpoint(state) == /\ conn' = state
                   /\ pending' = 0 /\ fin' = FALSE /\ so_error' = FALSE
                   /\ space' = MaxSpace
                   /\ UNCHANGED arrivals

-----------------------------------------------------------------------------
(* The peer and the network.                                               *)

Arrival == /\ conn \in {"established", "listening"} \cup Datagrams /\ ~fin
           /\ pending < MaxPending /\ arrivals > 0
           /\ pending' = pending + 1 /\ arrivals' = arrivals - 1
           /\ UNCHANGED <<conn, fin, so_error, space>>

Finish == /\ conn = "established" /\ ~fin
          /\ fin' = TRUE
          /\ UNCHANGED <<conn, pending, so_error, space, arrivals>>

Reset == /\ conn = "established"
         /\ conn' = "dead" /\ so_error' = TRUE
         /\ UNCHANGED <<pending, fin, space, arrivals>>

PeerReads == /\ conn \in {"established"} \cup Datagrams /\ space < MaxSpace
             /\ space' = space + 1
             /\ UNCHANGED <<conn, pending, fin, so_error, arrivals>>

ConnectResult == /\ conn = "connecting"
                 /\ \/ conn' = "established" /\ UNCHANGED so_error
                    \/ conn' = "refused" /\ so_error' = TRUE
                 /\ UNCHANGED <<pending, fin, space, arrivals>>

(* A datagram sent earlier comes back as undeliverable. *)
Unreachable == /\ conn = "datagram_peer" /\ ~so_error /\ arrivals > 0
               /\ so_error' = TRUE /\ arrivals' = arrivals - 1
               /\ UNCHANGED <<conn, pending, fin, space>>

Network == Arrival \/ Finish \/ Reset \/ PeerReads \/ ConnectResult \/ Unreachable

-----------------------------------------------------------------------------
(* epoll.  A socket that was never connected, or is so no longer, is       *)
(* reported as hung up, whatever was asked for.                            *)

Readable == \/ conn \in {"established", "listening"} \cup Datagrams /\ pending > 0
            \/ conn = "established" /\ fin
            \/ conn \in Over
Writable == \/ conn \in Over \cup {"fresh"}
            \/ conn \in {"established"} \cup Datagrams /\ space > 0
ErrorOrHangup == so_error \/ conn \in Over \cup {"fresh"}

-----------------------------------------------------------------------------
(* System calls.  A pending error is reported by the first call that looks *)
(* at it, and by that one only.                                            *)

SmallerOf(m, n) == IF m < n THEN m ELSE n

(* What recv reports: data first, then the end of the peer's data or the   *)
(* error, whichever came first, then the end that a dead connection is.    *)
(* Of UDP the error comes first.                                           *)
RecvResult == IF conn \in {"fresh", "listening"} THEN "not_connected"
              ELSE IF conn \in Datagrams /\ so_error THEN "error"
              ELSE IF pending > 0 THEN "data"
              ELSE IF fin THEN "eof"
              ELSE IF so_error THEN "error"
              ELSE IF conn \in Over THEN "eof" ELSE "would_block"

ErrorAfterRecv == so_error /\ RecvResult # "error"

(* What send and sendto return for n units, -1 on an error.  A datagram is *)
(* sent as a whole.                                                        *)
Sent(n) ==
  IF conn \in Datagrams THEN (IF so_error \/ space = 0 THEN -1 ELSE n)
  ELSE IF conn # "established" \/ (space = 0 /\ n > 0) THEN -1 ELSE SmallerOf(n, space)

SendWouldBlock == conn \in {"established", "connecting"} \/ (conn \in Datagrams /\ ~so_error)

SendCall(n) == /\ space' = IF Sent(n) > 0 THEN space - SmallerOf(Sent(n), space) ELSE space
               /\ so_error' = (so_error /\ conn \notin Over \cup Datagrams)
               /\ UNCHANGED <<conn, pending, fin, arrivals>>
=============================================================================
