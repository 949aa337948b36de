--------------------------- MODULE SocketDispatcher ---------------------------
(***************************************************************************)
(* class SocketDispatcher and its base PhysicalSocket (net/dispatchers,    *)
(* net/sockets): one socket that PhysicalSocketServer watches with epoll   *)
(* and whose events the loop thread delivers, with ProcessEvents           *)
(* (net/physical_socket_server.cpp), which picks them, and the handlers of *)
(* main.cpp's HTTPServer, which answer them.                               *)
(*                                                                         *)
(* The socket is used on the loop thread only.  The kernel's side is       *)
(* KernelSocket.tla; s_ is INVALID_SOCKET when conn is "none", and udp_ is *)
(* conn \in Datagrams.  The peer moves between any two system calls made  *)
(* in a handler.                                                           *)
(*                                                                         *)
(* What the socket is for is its role: HTTPServer's "listener", a          *)
(* "server" connection it accepted, or a "client" that connects, has       *)
(* OnRead and OnClose for handlers too, answers nothing, and sends         *)
(* requests or datagrams of its own.                                       *)
(***************************************************************************)
EXTENDS KernelSocket, FiniteSets

CONSTANTS
  Roles,          \* the roles to look at
  Length,         \* units of a response or request
  MaxAccept,      \* kMaxAcceptPerCall
  AcceptMayFail,  \* accept() may fail with connections waiting (EMFILE)
  EarlySend,      \* a client may send before it is told it is connected
  None            \* -1 in saved_enabled_events_; no epoll entry

ASSUME DispatcherAssumption ==
  /\ Roles \subseteq {"listener", "server", "client"}
  /\ {Length, MaxAccept} \subseteq Nat \ {0}
  /\ {AcceptMayFail, EarlySend} \subseteq BOOLEAN
  /\ \A S \in SUBSET {"read", "write", "connect", "close", "accept", "in", "out"} : None # S

DE_READ == "read"  DE_WRITE == "write"  DE_CONNECT == "connect"
DE_CLOSE == "close"  DE_ACCEPT == "accept"
DispatcherEvent == {DE_READ, DE_WRITE, DE_CONNECT, DE_CLOSE, DE_ACCEPT}

VARIABLES
  role,
  state_, enabled_events_, saved_enabled_events_,
  interest,       \* events of the socket's entry in epoll, or None
  pc,             \* where the loop thread is, see below
  reported,       \* what epoll_wait reported of the socket
  ff, errcode,    \* arguments of OnEvent; ff: what is still to be signalled
  calls,          \* round of OnAccept's loop
  received,       \* OnRead: received > 0
  unsent,         \* OnWrite: response_length - read_idx
  write_slots,    \* how often OnWrite is connected to SignalWriteEvent
  emitting,       \* slots SignalWriteEvent has still to call, its mutex held
  cut_short,      \* history: the last Send stopped at a full buffer
  told            \* history: what a client heard of its Connect

eventVars   == <<enabled_events_, saved_enabled_events_, interest>>
onEventVars == <<reported, ff, errcode>>
handlerVars == <<calls, received, unsent, write_slots, emitting>>
vars == <<role, state_, eventVars, pc, onEventVars, handlerVars, cut_short, told, kernelVars>>

(* The loop thread: "new": the object was constructed; "idle": between     *)
(* batches or in a task; "event": epoll_wait returned; "signal": in        *)
(* OnEvent; in OnAccept, OnRead, OnWrite or OnClose.                       *)
PCs == {"new", "idle", "event", "signal", "OnAccept", "OnRead", "OnWrite", "OnClose"}

TypeOK ==
  /\ EndpointTypeOK
  /\ role \in Roles
  /\ state_ \in {"CS_CLOSED", "CS_CONNECTING", "CS_CONNECTED"}
  /\ enabled_events_ \subseteq DispatcherEvent
  /\ saved_enabled_events_ = None \/ saved_enabled_events_ \subseteq DispatcherEvent
  /\ interest = None \/ interest \subseteq {"in", "out"}
  /\ pc \in PCs
  /\ reported \subseteq {"in", "out", "error"}
  /\ ff \subseteq DispatcherEvent /\ errcode \in BOOLEAN
  /\ calls \in 0..MaxAccept
  /\ received \in BOOLEAN
  /\ unsent \in 0..Length
  /\ write_slots \in Nat /\ emitting \in 0..write_slots
  /\ cut_short \in BOOLEAN
  /\ told \in {"nothing", "pending", "connected", "false_connected", "failed"}

(* The constructor asks for reading and writing, and nothing is added yet. *)
Init ==
  /\ conn = "none" /\ pending = 0 /\ fin = FALSE /\ so_error = FALSE
  /\ space = MaxSpace /\ arrivals = MaxArrivals
  /\ role \in Roles
  /\ state_ = IF role = "server" THEN "CS_CONNECTED" ELSE "CS_CLOSED"
  /\ enabled_events_ = {DE_READ, DE_WRITE} /\ saved_enabled_events_ = None
  /\ interest = None
  /\ pc = "new"
  /\ reported = {} /\ ff = {} /\ errcode = FALSE
  /\ calls = 0 /\ received = FALSE /\ unsent = 0 /\ write_slots = 0 /\ emitting = 0
  /\ cut_short = FALSE /\ told = "nothing"

-----------------------------------------------------------------------------
(* Requested events and epoll's interest list.                             *)

GetEpollEvents(events) ==
  (IF events \cap {DE_READ, DE_ACCEPT} # {} THEN {"in"} ELSE {}) \cup
  (IF events \cap {DE_WRITE, DE_CONNECT} # {} THEN {"out"} ELSE {})

(* AddEpoll makes no entry that asks for nothing, UpdateEpoll neither.     *)
Watch(entry, events) == IF entry = None /\ GetEpollEvents(events) = {} THEN None
                        ELSE GetEpollEvents(events)

(* MayBeUpdateDispatcher: inside OnEvent epoll is not told. *)
Update(entry, old_events, events) ==
  IF GetEpollEvents(events) # GetEpollEvents(old_events) /\ saved_enabled_events_ = None
  THEN Watch(entry, events) ELSE entry

RequestEvents(events) ==
  /\ enabled_events_' = events
  /\ interest' = Update(interest, enabled_events_, events)
  /\ UNCHANGED saved_enabled_events_

EnableEvents(events)  == RequestEvents(enabled_events_ \cup events)
DisableEvents(events) == RequestEvents(enabled_events_ \ events)

(* Mutant: only what changed since the last update is looked at. *)
FinishBatchedEventUpdates_NoUpdate ==
  /\ saved_enabled_events_' = None
  /\ UNCHANGED <<enabled_events_, interest>>

(* The end of OnEvent: epoll is told of what changed in between. *)
FinishBatchedEventUpdates ==
  /\ saved_enabled_events_' = None
  /\ interest' = IF /\ GetEpollEvents(enabled_events_) # GetEpollEvents(saved_enabled_events_)
                    /\ conn # "none"
                 THEN Watch(interest, enabled_events_) ELSE interest
  /\ UNCHANGED enabled_events_

-----------------------------------------------------------------------------
(* Operations called by tasks, and by OnClose of a client.                 *)

(* Create and Initialize of a dispatcher end with adding it to the server. *)
Added == Watch(None, enabled_events_)

(* CreateSocket, and WrapSocket with what accept() returned. *)
CreateSocket ==
  /\ pc = "new"
  /\ pc' = "idle"
  /\ \/ role = "server" /\ Endpoint("established")
     \/ role # "server" /\ Endpoint("fresh")
     \/ role = "client" /\ Endpoint("datagram")
  /\ interest' = Added
  /\ UNCHANGED <<role, state_, enabled_events_, saved_enabled_events_, onEventVars, handlerVars,
                 cut_short, told>>

(* Mutant: a connection in progress is not waited for. *)
ConnectEvents_NotWaitedFor(result) ==
  IF result \in {"no_socket", "failed"} THEN {} ELSE {DE_READ, DE_WRITE}

ConnectEvents(result) == CASE result = "in_progress" -> {DE_READ, DE_WRITE, DE_CONNECT}
                           [] result = "done"        -> {DE_READ, DE_WRITE}
                           [] OTHER                  -> {}

Results == {"no_socket", "in_progress", "done", "failed"}

(* Connect, DoConnect: in progress, done at once, as UDP is, or refused at *)
(* once.  A socket that was closed is created again, for TCP; when socket()*)
(* fails, it stays closed.                                                 *)
Connect(result) ==
  /\ role = "client" /\ pc \in {"idle", "OnClose"}
  /\ state_ = "CS_CLOSED" /\ conn \in {"none", "fresh", "datagram"}
  /\ conn = "datagram" => result = "done"
  /\ result = "no_socket" => conn = "none"
  /\ pc' = IF pc = "OnClose" THEN "signal" ELSE "idle"
  /\ LET entry  == IF conn = "none" /\ result # "no_socket" THEN Added ELSE interest
         events == enabled_events_ \cup ConnectEvents(result)
     IN  /\ enabled_events_' = events
         /\ interest' = Update(entry, enabled_events_, events)
         /\ UNCHANGED saved_enabled_events_
  /\ CASE result = "no_socket" ->
            told' = "failed" /\ UNCHANGED <<state_, kernelVars>>
       [] result = "in_progress" ->
            Endpoint("connecting") /\ state_' = "CS_CONNECTING" /\ told' = "pending"
       [] result = "done" ->
            /\ IF conn # "datagram" THEN Endpoint("established")
               ELSE /\ conn' = "datagram_peer"
                    /\ UNCHANGED <<pending, fin, so_error, space, arrivals>>
            /\ state_' = "CS_CONNECTED" /\ told' = "connected"
       [] result = "failed" ->
            Endpoint("fresh") /\ told' = "failed" /\ UNCHANGED state_
  /\ UNCHANGED <<role, onEventVars, handlerVars, cut_short>>

(* Close: Remove, ::close and SetEnabledEvents(0); inside OnEvent there is *)
(* nothing left to be updated at its end.                                  *)
CloseSocket ==
  /\ Endpoint("none")
  /\ interest' = None
  /\ enabled_events_' = {}
  /\ saved_enabled_events_' = IF saved_enabled_events_ = None THEN None ELSE {}
  /\ cut_short' = FALSE

(* HTTPServer::Initialize, from Bind on: what is neither an any nor a       *)
(* loopback address Bind itself refuses; a listener that was not bound or  *)
(* cannot listen is closed.                                                *)
Bind(address, result) == IF address = "other" THEN -1 ELSE result

Initialize(address, bound, listens) ==
  /\ pc = "idle" /\ role = "listener" /\ conn = "fresh"
  /\ IF Bind(address, bound) = 0 /\ listens
     THEN /\ conn' = "listening" /\ state_' = "CS_CONNECTING"
          /\ EnableEvents({DE_ACCEPT})
          /\ UNCHANGED <<cut_short, pending, fin, so_error, space, arrivals>>
     ELSE CloseSocket /\ state_' = "CS_CLOSED"
  /\ UNCHANGED <<role, pc, onEventVars, handlerVars, told>>

Close ==
  /\ pc = "idle" /\ role # "server" /\ conn # "none"
  /\ CloseSocket
  /\ state_' = "CS_CLOSED" /\ told' = "nothing"
  /\ UNCHANGED <<role, pc, onEventVars, handlerVars>>

IsBlocking(n) == Sent(n) < 0 /\ SendWouldBlock

(* Mutant: the condition the comment above it describes. *)
Send_Repaired(n) ==
  /\ SendCall(n)
  /\ cut_short' = (IsBlocking(n) \/ (Sent(n) > 0 /\ Sent(n) < n))
  /\ IF (Sent(n) > 0 /\ Sent(n) < n) \/ (Sent(n) < 0 /\ IsBlocking(n))
     THEN EnableEvents({DE_WRITE}) ELSE UNCHANGED eventVars

Send(n) ==
  /\ SendCall(n)
  /\ cut_short' = (IsBlocking(n) \/ (Sent(n) > 0 /\ Sent(n) < n))
  /\ IF (Sent(n) > 0 /\ Sent(n) < n) /\ (Sent(n) < 0 /\ IsBlocking(n))
     THEN EnableEvents({DE_WRITE}) ELSE UNCHANGED eventVars

(* SendTo differs from Send in the system call only. *)
SendTo(n) == conn = "datagram" /\ Send(n)

(* A client sends a request or a datagram. *)
SendRequest ==
  /\ pc = "idle" /\ role = "client" /\ conn # "none"
  /\ \/ told \in {"connected"} \cup (IF EarlySend THEN {"pending"} ELSE {}) /\ Send(Length)
     \/ SendTo(Length)
  /\ UNCHANGED <<role, state_, pc, onEventVars, handlerVars, told>>

-----------------------------------------------------------------------------
(* An event of the socket: epoll_wait, ProcessEvents, OnEvent.             *)

EpollWait ==
  /\ pc = "idle" /\ interest # None
  /\ reported' = (IF Readable /\ "in" \in interest THEN {"in"} ELSE {}) \cup
                 (IF Writable /\ "out" \in interest THEN {"out"} ELSE {}) \cup
                 (IF ErrorOrHangup THEN {"error"} ELSE {})
  /\ reported' # {}
  /\ pc' = "event"
  /\ UNCHANGED <<role, state_, eventVars, ff, errcode, handlerVars, cut_short, told, kernelVars>>

(* Mutant: the end of the peer's data is nothing special. *)
IsDescriptorClosed_ErrorOnly == RecvResult = "error" /\ conn # "refused"

(* Mutant: a connection that is over is closed, whatever is still unread. *)
IsDescriptorClosed_Over == RecvResult = "eof" \/ conn = "dead"

(* recv with MSG_PEEK; ECONNREFUSED does not count.  UDP has no end.       *)
IsDescriptorClosed == /\ conn \notin Datagrams
                      /\ \/ RecvResult = "eof"
                         \/ RecvResult = "error" /\ conn # "refused"

(* ff in ProcessEvents, from what was reported and what is asked for.      *)
EventsIn(error) ==
  IF "in" \notin reported THEN {}
  ELSE IF error \/ IsDescriptorClosed THEN {DE_CLOSE}
  ELSE IF DE_ACCEPT \in enabled_events_ THEN {DE_ACCEPT} ELSE {DE_READ}

(* Mutant: an error does not keep a connection from being reported. *)
EventsOut_ErrorIgnored(error) ==
  IF "out" \notin reported THEN {}
  ELSE IF DE_CONNECT \in enabled_events_ THEN {DE_CONNECT} ELSE {DE_WRITE}

EventsOut(error) ==
  IF "out" \notin reported THEN {}
  ELSE IF DE_CONNECT \notin enabled_events_ THEN {DE_WRITE}
  ELSE IF error THEN {} ELSE {DE_CONNECT}

RequestedEvents(error) ==
  EventsIn(error) \cup EventsOut(error) \cup (IF error THEN {DE_CLOSE} ELSE {})

(* The beginning of OnEvent. *)
StateAt(events) == IF DE_CLOSE \in events THEN "CS_CLOSED"
                   ELSE IF DE_CONNECT \in events THEN "CS_CONNECTED" ELSE state_

StartBatchedEventUpdates == saved_enabled_events_' = enabled_events_

(* ProcessEvents and the beginning of OnEvent.  SO_ERROR is read, and with *)
(* that cleared, only if an error was reported; the peek clears it too.    *)
ProcessEvents ==
  /\ pc = "event"
  /\ LET error == "error" \in reported /\ so_error
     IN  /\ errcode' = error
         /\ so_error' = (/\ so_error /\ ~error
                         /\ ~("in" \in reported /\ conn \notin Datagrams
                              /\ RecvResult = "error"))
         /\ ff' = RequestedEvents(error)
  /\ reported' = {}
  /\ IF ff' = {} THEN pc' = "idle" /\ UNCHANGED <<state_, saved_enabled_events_>>
     ELSE /\ pc' = "signal"
          /\ state_' = StateAt(ff')
          /\ StartBatchedEventUpdates
  /\ UNCHANGED <<role, enabled_events_, interest, handlerVars, cut_short, told,
                 conn, pending, fin, space, arrivals>>

Order == <<DE_CONNECT, DE_ACCEPT, DE_READ, DE_WRITE, DE_CLOSE>>

(* OnEvent's next if: the event is disabled, then signalled. *)
NextSignal(event) ==
  /\ pc = "signal" /\ event \in ff
  /\ \E i \in 1..5 : Order[i] = event /\ \A j \in 1..(i - 1) : Order[j] \notin ff
  /\ ff' = ff \ {event}
  /\ UNCHANGED <<role, state_, reported, errcode>>

SignalConnectEvent ==
  /\ NextSignal(DE_CONNECT)
  /\ DisableEvents({DE_CONNECT})
  /\ told' = IF conn = "refused" THEN "false_connected" ELSE "connected"
  /\ UNCHANGED <<pc, handlerVars, cut_short, kernelVars>>

SignalReadEvent ==
  /\ \E event \in {DE_ACCEPT, DE_READ} : NextSignal(event) /\ DisableEvents({event})
  /\ IF role = "listener" THEN pc' = "OnAccept" /\ calls' = 0 /\ UNCHANGED received
     ELSE pc' = "OnRead" /\ received' = FALSE /\ UNCHANGED calls
  /\ UNCHANGED <<unsent, write_slots, emitting, cut_short, told, kernelVars>>

SignalWriteEvent ==
  /\ NextSignal(DE_WRITE)
  /\ DisableEvents({DE_WRITE})
  /\ emitting' = write_slots
  /\ IF write_slots = 0 THEN pc' = "signal" /\ UNCHANGED unsent
     ELSE pc' = "OnWrite" /\ unsent' = Length
  /\ cut_short' = FALSE
  /\ UNCHANGED <<calls, received, write_slots, told, kernelVars>>

(* HTTPServer connects nothing to a listener's SignalCloseEvent. *)
SignalCloseEvent ==
  /\ NextSignal(DE_CLOSE)
  /\ IF role = "listener"
     THEN /\ DisableEvents({DE_CLOSE})
          /\ UNCHANGED <<pc, cut_short, told, kernelVars>>
     ELSE /\ CloseSocket      \* OnClose
          /\ pc' = IF role = "client" THEN "OnClose" ELSE "signal"
          /\ told' = IF told = "pending" THEN "failed" ELSE told
  /\ UNCHANGED handlerVars

OnEvent_Returns ==
  /\ pc = "signal" /\ ff = {}
  /\ pc' = "idle" /\ errcode' = FALSE
  /\ FinishBatchedEventUpdates
  /\ UNCHANGED <<role, state_, reported, ff, handlerVars, cut_short, told, kernelVars>>

-----------------------------------------------------------------------------
(* HTTPServer's handlers.                                                  *)

(* Mutant: off by one in OnAccept's for loop. *)
Accept_OneMore ==
  /\ pc = "OnAccept" /\ calls <= MaxAccept
  /\ EnableEvents({DE_ACCEPT})
  /\ \/ pending > 0 /\ pending' = pending - 1 /\ calls' = calls + 1 /\ UNCHANGED pc
     \/ AcceptMayFail /\ calls' = calls + 1 /\ UNCHANGED <<pc, pending>>
     \/ /\ pending = 0 \/ AcceptMayFail
        /\ pc' = "signal" /\ UNCHANGED <<calls, pending>>
  /\ UNCHANGED <<role, state_, onEventVars, received, unsent, write_slots, emitting, cut_short,
                 told, conn, fin, so_error, space, arrivals>>

(* Mutant: the next connection is asked for when there is none left. *)
Accept_WhenEmpty ==
  /\ pc = "OnAccept" /\ calls < MaxAccept
  /\ IF pending > 0
     THEN pending' = pending - 1 /\ calls' = calls + 1 /\ UNCHANGED <<pc, eventVars>>
     ELSE EnableEvents({DE_ACCEPT}) /\ pc' = "signal" /\ UNCHANGED <<calls, pending>>
  /\ UNCHANGED <<role, state_, onEventVars, received, unsent, write_slots, emitting, cut_short,
                 told, conn, fin, so_error, space, arrivals>>

(* One round of OnAccept's loop: Accept, which asks for the next one first *)
(* of all; it may be interrupted, and fail with connections waiting.       *)
Accept ==
  /\ pc = "OnAccept" /\ calls < MaxAccept
  /\ EnableEvents({DE_ACCEPT})
  /\ \/ pending > 0 /\ pending' = pending - 1 /\ calls' = calls + 1 /\ UNCHANGED pc
     \/ AcceptMayFail /\ calls' = calls + 1 /\ UNCHANGED <<pc, pending>>
     \/ /\ pending = 0 \/ AcceptMayFail
        /\ pc' = "signal" /\ UNCHANGED <<calls, pending>>
  /\ UNCHANGED <<role, state_, onEventVars, received, unsent, write_slots, emitting, cut_short,
                 told, conn, fin, so_error, space, arrivals>>

OnAccept_Returns ==
  /\ pc = "OnAccept" /\ calls = MaxAccept
  /\ pc' = "signal"
  /\ UNCHANGED <<role, state_, eventVars, onEventVars, handlerVars, cut_short, told, kernelVars>>

(* Mutant: an error is an error, of UDP too. *)
EventsAfterRecv_NoUdp == IF RecvResult \in {"data", "eof", "would_block"} THEN {DE_READ} ELSE {}

(* Recv and RecvFrom ask for the next event unless they failed, and in     *)
(* spite of a failure when it is UDP.                                      *)
EventsAfterRecv ==
  IF conn \in Datagrams \/ RecvResult \in {"data", "eof", "would_block"} THEN {DE_READ} ELSE {}

(* One round of OnRead's loop, which goes on while there is data. *)
Recv ==
  /\ pc = "OnRead" /\ RecvResult = "data" /\ conn \notin Datagrams
  /\ EnableEvents(EventsAfterRecv)
  /\ pending' \in 0..(pending - 1)
  /\ received' = TRUE
  /\ UNCHANGED <<role, state_, pc, onEventVars, calls, unsent, write_slots, emitting, cut_short,
                 told, conn, fin, so_error, space, arrivals>>

(* The same with RecvFrom: it takes one datagram; an empty one is a 0,     *)
(* which ends the loop.                                                    *)
RecvFrom ==
  /\ pc = "OnRead" /\ RecvResult = "data" /\ conn \in Datagrams
  /\ EnableEvents(EventsAfterRecv)
  /\ pending' = pending - 1
  /\ \/ received' = TRUE /\ UNCHANGED pc
     \/ pc' = "signal" /\ UNCHANGED received
  /\ UNCHANGED <<role, state_, onEventVars, calls, unsent, write_slots, emitting, cut_short,
                 told, conn, fin, so_error, space, arrivals>>

(* The last round, and the connect and OnWrite after it. *)
Recv_Last ==
  /\ pc = "OnRead" /\ RecvResult # "data"
  /\ EnableEvents(EventsAfterRecv)
  /\ so_error' = ErrorAfterRecv
  /\ IF received /\ role = "server"
     THEN pc' = "OnWrite" /\ unsent' = Length /\ write_slots' = write_slots + 1
     ELSE pc' = "signal" /\ UNCHANGED <<unsent, write_slots>>
  /\ UNCHANGED <<role, state_, onEventVars, calls, received, emitting, cut_short, told,
                 conn, pending, fin, space, arrivals>>

(* One round of OnWrite's loop, which goes on while Send sends. *)
OnWrite ==
  /\ pc = "OnWrite" /\ Sent(unsent) > 0
  /\ Send(unsent)
  /\ unsent' = unsent - Sent(unsent)
  /\ UNCHANGED <<role, state_, pc, onEventVars, calls, received, write_slots, emitting, told>>

(* The last round.  If anything was sent, OnWrite disconnects itself, one  *)
(* connection of it, which takes the mutex that an emission holds.         *)
OnWrite_Last ==
  /\ pc = "OnWrite" /\ Sent(unsent) <= 0
  /\ unsent < Length => emitting = 0
  /\ Send(unsent)
  /\ write_slots' = IF unsent < Length THEN write_slots - 1 ELSE write_slots
  /\ IF emitting > 1 THEN emitting' = emitting - 1 /\ unsent' = Length /\ UNCHANGED pc
     ELSE emitting' = 0 /\ unsent' = 0 /\ pc' = "signal"
  /\ UNCHANGED <<role, state_, onEventVars, calls, received, told>>

(* A client that does not connect again. *)
OnClose_Returns ==
  /\ pc = "OnClose"
  /\ pc' = "signal"
  /\ UNCHANGED <<role, state_, eventVars, onEventVars, handlerVars, cut_short, told, kernelVars>>

-----------------------------------------------------------------------------
Peer == /\ Network
        /\ UNCHANGED <<role, state_, eventVars, pc, onEventVars, handlerVars, cut_short, told>>

(* The loop thread between epoll_wait and the end of OnEvent. *)
LoopStep ==
  \/ EpollWait \/ ProcessEvents \/ OnEvent_Returns
  \/ SignalConnectEvent \/ SignalReadEvent \/ SignalWriteEvent \/ SignalCloseEvent
  \/ Accept \/ OnAccept_Returns \/ Recv \/ RecvFrom \/ Recv_Last \/ OnWrite \/ OnWrite_Last
  \/ OnClose_Returns

Next ==
  \/ CreateSocket \/ Close \/ SendRequest
  \/ \E address \in {"any", "loopback", "other"}, bound \in {0, -1}, listens \in BOOLEAN :
       Initialize(address, bound, listens)
  \/ \E result \in Results : Connect(result)
  \/ LoopStep
  \/ Peer

Spec == Init /\ [][Next]_vars

(* The loop thread runs, accept does not fail for ever, and an attempt to  *)
(* connect comes to an end.  No task is ever run, and the peer does        *)
(* nothing more, unless they want to.                                      *)
FairSpec == /\ Spec
            /\ WF_vars(LoopStep)
            /\ SF_vars(Accept /\ pending' # pending)
            /\ WF_vars(Peer /\ conn = "connecting")

-----------------------------------------------------------------------------
(* Properties.                                                             *)

Outside == pc \in {"idle", "event"}

(* Outside OnEvent epoll watches the socket for what it asks for, however  *)
(* often its handlers changed that, closed the socket or connected it      *)
(* again in the meantime (MayBeUpdateDispatcher, FinishBatchedEventUpdates *)
(* and Close with saved_enabled_events_).                                  *)
InterestFollows ==
  Outside => /\ saved_enabled_events_ = None
             /\ interest = None \/ interest = GetEpollEvents(enabled_events_)
             /\ interest = None => conn = "none" \/ GetEpollEvents(enabled_events_) = {}

(* A connection that is up and a UDP socket are always waiting for data, a *)
(* listener for connections, though every event switches itself off: Recv, *)
(* RecvFrom and Accept switch it on again on every path the handlers take, *)
(* and what does not come to a handler does not switch it off.             *)
ReadWatched ==
  Outside => /\ conn \in {"established"} \cup Datagrams => DE_READ \in enabled_events_
             /\ conn = "listening" => DE_ACCEPT \in enabled_events_

(* Unless the connection failed, it is closed only after all that the peer *)
(* sent was read (ProcessEvents, IsDescriptorClosed).                      *)
NoDataDropped == (DE_CLOSE \in ff /\ ~errcode) => pending = 0

(* A connection that was refused is not reported as made ("connected",     *)
(* says socket.h of SignalConnectEvent).                                   *)
ConnectTruth == told # "false_connected"

(* OnWrite does not call disconnect on SignalWriteEvent while that signal  *)
(* calls it: both take the signal's mutex, which is not recursive.         *)
NoSelfDeadlock == ~(pc = "OnWrite" /\ emitting > 0 /\ unsent < Length)

(* What Send says of itself: with data left, or after EAGAIN, it goes on   *)
(* listening for the socket to become writable.                            *)
WriteWatched ==
  (Outside /\ conn = "established" /\ cut_short) => DE_WRITE \in enabled_events_

(* All data, datagrams and connections that come are taken, whatever the   *)
(* limit of connections OnAccept takes at a time, and though an empty      *)
(* datagram looks like the last one (Recv, RecvFrom, Accept, OnAccept).    *)
AllTaken == LET waits == conn \in {"established", "listening"} \cup Datagrams /\ pending > 0
            IN  waits ~> ~waits

(* Who asked for a connection hears how it went. *)
ConnectAnswered == (told = "pending") ~> (told # "pending")

(* A connection that the peer ended, once all was read, or that was reset  *)
(* or refused is closed, though the error is reported only once and        *)
(* perhaps to Send or Recv, which do not tell anybody, and though a        *)
(* hang-up alone signals nothing (ProcessEvents).                          *)
Ended == conn \in Over \/ (conn = "established" /\ fin)
EndCloses == Ended ~> ~Ended
=============================================================================
