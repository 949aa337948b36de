------------------------ MODULE SocketDispatcherProofs ------------------------
(***************************************************************************)
(* Proofs about SocketDispatcher, for any roles, sizes and numbers of      *)
(* arrivals.                                                               *)
(***************************************************************************)
EXTENDS SocketDispatcher, TLAPS

(* TypeOK in parts. *)
EventTypes ==
  /\ enabled_events_ \subseteq DispatcherEvent
  /\ saved_enabled_events_ = None \/ saved_enabled_events_ \subseteq DispatcherEvent
  /\ interest = None \/ interest \subseteq {"in", "out"}

LoopTypes ==
  /\ role \in Roles /\ state_ \in {"CS_CLOSED", "CS_CONNECTING", "CS_CONNECTED"}
  /\ pc \in PCs
  /\ reported \subseteq {"in", "out", "error"}
  /\ ff \subseteq DispatcherEvent /\ errcode \in BOOLEAN

HandlerTypes ==
  /\ calls \in 0..MaxAccept
  /\ received \in BOOLEAN
  /\ unsent \in 0..Length
  /\ write_slots \in Nat /\ emitting \in 0..write_slots

HistoryTypes ==
  /\ cut_short \in BOOLEAN
  /\ told \in {"nothing", "pending", "connected", "false_connected", "failed"}

Types == EndpointTypeOK /\ EventTypes /\ LoopTypes /\ HandlerTypes /\ HistoryTypes

Inside == pc \in {"signal", "OnAccept", "OnRead", "OnWrite", "OnClose"}

(* What may still become a connection with data, or is one. *)
Live == {"connecting", "established"} \cup Datagrams

(* Which variables mean something where the loop thread is. *)
PhaseInv ==
  /\ Inside <=> saved_enabled_events_ # None
  /\ pc # "event" => reported = {}
  /\ ~Inside => ff = {}
  /\ pc = "new" => /\ conn = "none"
                   /\ interest = None /\ enabled_events_ = {DE_READ, DE_WRITE}
                   /\ write_slots = 0
  /\ pc = "event" => conn \notin {"none", "connecting"}
  /\ "in" \in reported => conn \notin {"none", "fresh", "connecting"}
  /\ "out" \in reported => "out" \in interest /\ interest # None

(* epoll's entry follows what was asked for when OnEvent began; a socket   *)
(* that is closed inside has nothing left to ask for or to be signalled.   *)
InterestInv ==
  /\ conn = "none" => interest = None
  /\ pc = "OnClose" => conn = "none"
  /\ pc \in {"OnAccept", "OnRead", "OnWrite"} => conn # "none"
  /\ (Inside /\ conn = "none") => /\ enabled_events_ = {} /\ saved_enabled_events_ = {}
                                  /\ ff = {}
  /\ pc # "new" =>
       LET events == IF Inside THEN saved_enabled_events_ ELSE enabled_events_
       IN  /\ interest = None \/ interest = GetEpollEvents(events)
           /\ interest = None => conn = "none" \/ GetEpollEvents(events) = {}

(* What each role's socket can be. *)
RoleInv ==
  /\ role = "listener" => /\ conn \in {"none", "fresh", "listening"}
                          /\ pc \notin {"OnRead", "OnWrite", "OnClose"}
  /\ role = "server" => /\ conn \in {"none", "established", "dead"}
                        /\ pc # "new" /\ conn = "none" => enabled_events_ = {}
                        /\ DE_CONNECT \notin enabled_events_
                        /\ pc \notin {"OnAccept", "OnClose"}
  /\ role = "client" => conn # "listening" /\ pc \notin {"OnAccept", "OnWrite"}
  /\ role # "server" => write_slots = 0
  /\ role # "listener" => DE_ACCEPT \notin enabled_events_ \cup ff
  /\ so_error => conn \in Over \cup {"datagram_peer"}
  /\ DE_CONNECT \in enabled_events_ => conn \in Over \cup {"connecting", "established"}

(* Where an event was switched off and is not switched on again yet. *)
ReadInv ==
  /\ pc \notin {"new", "OnRead"} /\ conn \in Live => DE_READ \in enabled_events_
  /\ conn = "listening" /\ (pc = "OnAccept" => calls > 0) => DE_ACCEPT \in enabled_events_

(* Nothing arrives between the peek and SignalCloseEvent. *)
CloseInv == (DE_CLOSE \in ff /\ ~errcode) => pending = 0 /\ (fin \/ conn \in Over)

(* A server's DE_WRITE is signalled once, before anything was sent, or in  *)
(* the OnEvent that sends first.                                           *)
WriteInv ==
  /\ pc \in {"OnRead", "OnWrite"} => DE_READ \notin ff
  /\ pc # "OnWrite" => emitting = 0
  /\ pc = "OnWrite" => write_slots > 0
  /\ emitting > 0 => conn # "established" /\ unsent = Length
                     /\ DE_WRITE \notin enabled_events_ \cup ff
  /\ role = "server" /\ DE_WRITE \in enabled_events_ =>
       /\ pc = "event" => "out" \in reported
       /\ Inside => DE_WRITE \in ff
  /\ role = "server" /\ conn = "established" /\ DE_WRITE \in enabled_events_ \cup ff =>
       /\ pc = "OnWrite" => write_slots = 1 /\ (unsent = Length => space = MaxSpace)
       /\ pc # "OnWrite" => write_slots = 0
       /\ pc \in {"idle", "event", "OnRead"} \/ DE_READ \in ff => space = MaxSpace

IInv == Types /\ PhaseInv /\ InterestInv /\ RoleInv /\ ReadInv /\ CloseInv /\ WriteInv

(* A connection attempt that failed has its error still to be reported.    *)
ConnectInv ==
  /\ told # "false_connected"
  /\ DE_CONNECT \in ff => conn \in {"established", "dead"}
  /\ conn \in {"connecting", "refused"} =>
       /\ told = "pending" /\ pc \in {"idle", "event", "signal"}
       /\ pc = "event" => "error" \in reported
  /\ conn = "connecting" => ff = {}
  /\ conn = "refused" => \/ so_error /\ ff = {}
                         \/ errcode /\ DE_CLOSE \in ff /\ ff \subseteq {DE_CLOSE, DE_WRITE}

LEMMA Constants ==
  /\ MaxPending \in Nat \ {0} /\ MaxSpace \in Nat \ {0} /\ MaxArrivals \in Nat \ {0}
  /\ Length \in Nat \ {0} /\ MaxAccept \in Nat \ {0}
  /\ Roles \subseteq {"listener", "server", "client"}
  /\ AcceptMayFail \in BOOLEAN /\ EarlySend \in BOOLEAN
BY DispatcherAssumption, EndpointAssumption

LEMMA NoneIsNoSet == /\ \A S : S \subseteq DispatcherEvent => S # None
                     /\ \A S : S \subseteq {"in", "out"} => S # None
<1> DEFINE all == {"read", "write", "connect", "close", "accept", "in", "out"}
<1>1. DispatcherEvent \subseteq all /\ {"in", "out"} \subseteq all
  BY DEF DispatcherEvent, DE_READ, DE_WRITE, DE_CONNECT, DE_CLOSE, DE_ACCEPT
<1>2. \A S \in SUBSET all : S # None
  BY DispatcherAssumption
<1> QED BY <1>1, <1>2

USE Constants, NoneIsNoSet
    DEF eventVars, onEventVars, handlerVars, kernelVars, Over, Datagrams, Inside, Live, 
        DE_READ, DE_WRITE, DE_CONNECT, DE_CLOSE, DE_ACCEPT

LEMMA EndpointTypes ==
  ASSUME EndpointTypeOK, NEW state \in ConnStates, Endpoint(state)
  PROVE  EndpointTypeOK'
<1>1. space' \in 0..MaxSpace /\ pending' \in 0..MaxPending
  BY DEF Endpoint
<1>2. conn' \in ConnStates /\ arrivals' \in 0..MaxArrivals
  BY DEF Endpoint, EndpointTypeOK
<1>3. fin' \in BOOLEAN /\ so_error' \in BOOLEAN
  BY DEF Endpoint
<1> QED BY <1>1, <1>2, <1>3 DEF EndpointTypeOK

LEMMA EpollEventsType == \A events : GetEpollEvents(events) \subseteq {"in", "out"}
BY DEF GetEpollEvents

(* Inside OnEvent epoll is not told of anything. *)
LEMMA RequestInside ==
  ASSUME saved_enabled_events_ # None, NEW events, RequestEvents(events)
  PROVE  /\ enabled_events_' = events
         /\ interest' = interest /\ saved_enabled_events_' = saved_enabled_events_
BY DEF RequestEvents, Update

(* Send asks for nothing: a number is not above and below 0. *)
LEMMA SendAsksForNothing ==
  ASSUME EndpointTypeOK, NEW n \in 0..Length, Send(n)
  PROVE  /\ EndpointTypeOK'
         /\ UNCHANGED <<eventVars, conn, pending, fin, arrivals>>
         /\ cut_short' \in BOOLEAN
         /\ so_error' => so_error
         /\ Sent(n) \in -1..n
         /\ Sent(n) > 0 => conn \in {"established"} \cup Datagrams
         /\ conn = "established" /\ space > 0 /\ n > 0 => Sent(n) > 0
<1>1. /\ Sent(n) \in -1..n
      /\ Sent(n) > 0 => conn \in {"established"} \cup Datagrams
      /\ conn = "established" /\ space > 0 /\ n > 0 => Sent(n) > 0
  BY DEF EndpointTypeOK, Sent, SmallerOf
<1>2. UNCHANGED eventVars
  BY <1>1 DEF Send
<1>3. UNCHANGED <<conn, pending, fin, arrivals>> /\ (so_error' => so_error) /\ so_error' \in BOOLEAN
  BY DEF Send, SendCall
<1>4. cut_short' \in BOOLEAN
  BY DEF Send
<1>5. space' \in 0..MaxSpace
  BY <1>1 DEF Send, SendCall, SmallerOf, EndpointTypeOK
<1> QED BY <1>1, <1>2, <1>3, <1>4, <1>5 DEF EndpointTypeOK

LEMMA EpollWait_Step == ASSUME IInv, EpollWait PROVE IInv'
<1>1. EndpointTypeOK'
  BY DEF IInv, Types, EndpointTypeOK, ConnStates, EpollWait, Readable
<1>2. EventTypes'
  BY DEF IInv, Types, EventTypes, DispatcherEvent, EpollWait, Readable
<1>3. LoopTypes'
  BY DEF IInv, Types, LoopTypes, PCs, DispatcherEvent, EpollWait, Readable
<1>4. HandlerTypes'
  BY DEF IInv, Types, HandlerTypes, EpollWait, Readable
<1>5. HistoryTypes'
  BY DEF IInv, Types, HistoryTypes, EpollWait, Readable
<1>6. PhaseInv'
  BY DEF IInv, PhaseInv, InterestInv, RoleInv, ReadInv, CloseInv, WriteInv, EpollWait,
         Readable, Writable, ErrorOrHangup
<1>7. InterestInv'
  BY DEF IInv, InterestInv, EpollWait, Readable
<1>8. RoleInv'
  BY DEF IInv, RoleInv, EpollWait, Readable
<1>9. ReadInv'
  BY DEF IInv, ReadInv, EpollWait, Readable
<1>10. CloseInv'
  BY DEF IInv, CloseInv, EpollWait, Readable
<1>11. WriteInv'
  <2>1. ASSUME role = "server", DE_WRITE \in enabled_events_ PROVE "out" \in reported'
    <3>1. conn \in {"established", "dead"} /\ interest # None
      BY <2>1 DEF IInv, RoleInv, EpollWait
    <3>2. "out" \in interest
      BY <2>1, <3>1 DEF IInv, InterestInv, EpollWait, GetEpollEvents
    <3>3. conn = "established" => space = MaxSpace
      BY <2>1 DEF IInv, WriteInv, EpollWait
    <3> QED BY <3>1, <3>2, <3>3 DEF EpollWait, Writable
  <2> QED BY <2>1 DEF IInv, Types, LoopTypes, PhaseInv, WriteInv, EpollWait
<1> QED BY <1>1, <1>2, <1>3, <1>4, <1>5, <1>6, <1>7, <1>8, <1>9, <1>10, <1>11
           DEF IInv, Types

LEMMA ProcessEvents_Step == ASSUME IInv, ProcessEvents PROVE IInv'
<1>1. EndpointTypeOK'
  BY DEF IInv, Types, EndpointTypeOK, ConnStates, ProcessEvents, RequestedEvents,
         EventsIn, EventsOut, StateAt, StartBatchedEventUpdates
<1>2. EventTypes'
  BY DEF IInv, Types, EventTypes, DispatcherEvent, ProcessEvents, RequestedEvents,
         EventsIn, EventsOut, StateAt, StartBatchedEventUpdates
<1>3. LoopTypes'
  BY DEF IInv, Types, LoopTypes, PCs, DispatcherEvent, ProcessEvents, RequestedEvents,
         EventsIn, EventsOut, StateAt, StartBatchedEventUpdates
<1>4. HandlerTypes'
  BY DEF IInv, Types, HandlerTypes, ProcessEvents, RequestedEvents, EventsIn, EventsOut,
         StateAt, StartBatchedEventUpdates
<1>5. HistoryTypes'
  BY DEF IInv, Types, HistoryTypes, ProcessEvents, RequestedEvents, EventsIn, EventsOut,
         StateAt, StartBatchedEventUpdates
<1>6. PhaseInv'
  BY DEF IInv, Types, EndpointTypeOK, EventTypes, LoopTypes, HandlerTypes, HistoryTypes,
         PCs, ConnStates, DispatcherEvent, PhaseInv, InterestInv, RoleInv, ReadInv,
         CloseInv, WriteInv, ProcessEvents, RequestedEvents, EventsIn, EventsOut,
         StateAt, StartBatchedEventUpdates
<1>7. InterestInv'
  BY DEF IInv, PhaseInv, InterestInv, RoleInv, ReadInv, CloseInv, WriteInv,
         ProcessEvents, RequestedEvents, EventsIn, EventsOut, StateAt,
         StartBatchedEventUpdates
<1>8. RoleInv'
  BY DEF IInv, RoleInv, ProcessEvents, RequestedEvents, EventsIn, EventsOut, StateAt,
         StartBatchedEventUpdates
<1>9. ReadInv'
  BY DEF IInv, ReadInv, ProcessEvents, RequestedEvents, EventsIn, EventsOut, StateAt,
         StartBatchedEventUpdates
<1>10. CloseInv'
  BY DEF IInv, Types, EndpointTypeOK, EventTypes, LoopTypes, HandlerTypes, HistoryTypes,
         PCs, ConnStates, DispatcherEvent, PhaseInv, InterestInv, RoleInv, ReadInv,
         CloseInv, WriteInv, ProcessEvents, RequestedEvents, EventsIn, EventsOut,
         IsDescriptorClosed, RecvResult, StateAt, StartBatchedEventUpdates
<1>11. WriteInv'
  <2>1. pc = "event" /\ ff = {} /\ pc' \in {"idle", "signal"}
    BY DEF IInv, PhaseInv, ProcessEvents, StateAt, StartBatchedEventUpdates
  <2>2. ASSUME role = "server", DE_WRITE \in enabled_events_ PROVE DE_WRITE \in ff' /\ pc' = "signal"
    <3>1. "out" \in reported /\ DE_CONNECT \notin enabled_events_
      BY <2>1, <2>2 DEF IInv, WriteInv, RoleInv
    <3> QED BY <3>1
               DEF ProcessEvents, RequestedEvents, EventsOut, StateAt,
                   StartBatchedEventUpdates
  <2>3. ASSUME role = "server", DE_WRITE \in ff' PROVE DE_WRITE \in enabled_events_
    <3>1. "out" \in reported
      BY <2>1, <2>3
         DEF ProcessEvents, RequestedEvents, EventsIn, EventsOut, StateAt,
             StartBatchedEventUpdates
    <3>2. "out" \in GetEpollEvents(enabled_events_)
      BY <2>1, <3>1 DEF IInv, PhaseInv, InterestInv
    <3> QED BY <2>3, <3>2 DEF IInv, RoleInv, GetEpollEvents
  <2> QED BY <2>1, <2>2, <2>3
             DEF IInv, WriteInv, ProcessEvents, StateAt, StartBatchedEventUpdates
<1> QED BY <1>1, <1>2, <1>3, <1>4, <1>5, <1>6, <1>7, <1>8, <1>9, <1>10, <1>11
           DEF IInv, Types

LEMMA SignalConnectEvent_Step == ASSUME IInv, SignalConnectEvent PROVE IInv'
<1>0. /\ saved_enabled_events_ # None /\ DE_CONNECT \in ff /\ ff' = ff \ {DE_CONNECT}
      /\ enabled_events_' = enabled_events_ \ {DE_CONNECT}
      /\ interest' = interest /\ saved_enabled_events_' = saved_enabled_events_
  BY RequestInside DEF IInv, PhaseInv, SignalConnectEvent, NextSignal, DisableEvents
<1>1. EndpointTypeOK'
  BY <1>0 DEF IInv, Types, EndpointTypeOK, ConnStates, SignalConnectEvent
<1>2. EventTypes'
  BY <1>0 DEF IInv, Types, EventTypes, DispatcherEvent
<1>3. LoopTypes'
  BY <1>0 DEF IInv, Types, LoopTypes, PCs, DispatcherEvent, SignalConnectEvent, NextSignal
<1>4. HandlerTypes'
  BY <1>0 DEF IInv, Types, HandlerTypes, SignalConnectEvent
<1>5. HistoryTypes'
  BY <1>0 DEF IInv, Types, HistoryTypes, SignalConnectEvent
<1>6. PhaseInv'
  BY <1>0 DEF IInv, PhaseInv, SignalConnectEvent, NextSignal
<1>7. InterestInv'
  BY <1>0 DEF IInv, InterestInv, SignalConnectEvent, NextSignal
<1>8. RoleInv'
  BY <1>0 DEF IInv, RoleInv, SignalConnectEvent, NextSignal
<1>9. ReadInv'
  BY <1>0 DEF IInv, ReadInv, SignalConnectEvent
<1>10. CloseInv'
  BY <1>0 DEF IInv, CloseInv, SignalConnectEvent, NextSignal
<1>11. WriteInv'
  BY <1>0 DEF IInv, WriteInv, SignalConnectEvent, NextSignal
<1> QED BY <1>1, <1>2, <1>3, <1>4, <1>5, <1>6, <1>7, <1>8, <1>9, <1>10, <1>11
           DEF IInv, Types

LEMMA SignalReadEvent_Step == ASSUME IInv, SignalReadEvent PROVE IInv'
<1> PICK event \in {DE_ACCEPT, DE_READ} : NextSignal(event) /\ DisableEvents({event})
  BY DEF SignalReadEvent
<1>0. /\ saved_enabled_events_ # None /\ event \in ff /\ ff' = ff \ {event}
      /\ enabled_events_' = enabled_events_ \ {event}
      /\ interest' = interest /\ saved_enabled_events_' = saved_enabled_events_
      /\ UNCHANGED <<role, state_, reported, errcode>>
  BY RequestInside DEF IInv, PhaseInv, NextSignal, DisableEvents
<1>a. /\ IF role = "listener" THEN pc' = "OnAccept" /\ calls' = 0 /\ UNCHANGED received
         ELSE pc' = "OnRead" /\ received' = FALSE /\ UNCHANGED calls
      /\ UNCHANGED <<unsent, write_slots, emitting, cut_short, told, kernelVars>>
  BY DEF SignalReadEvent
<1>b. role # "listener" => event = DE_READ
  BY <1>0 DEF IInv, RoleInv
<1>1. EndpointTypeOK'
  BY <1>0, <1>a, <1>b DEF IInv, Types, EndpointTypeOK
<1>2. EventTypes'
  BY <1>0, <1>a, <1>b DEF IInv, Types, EventTypes
<1>3. LoopTypes'
  BY <1>0, <1>a, <1>b DEF IInv, Types, LoopTypes, PCs
<1>4. HandlerTypes'
  <2>1. calls' \in 0..MaxAccept
    BY <1>a DEF IInv, Types, HandlerTypes
  <2>2. received' \in BOOLEAN
    BY <1>a DEF IInv, Types, HandlerTypes
  <2> QED BY <1>a, <2>1, <2>2 DEF IInv, Types, HandlerTypes
<1>5. HistoryTypes'
  BY <1>0, <1>a, <1>b DEF IInv, Types, HistoryTypes
<1>6. PhaseInv'
  BY <1>0, <1>a, <1>b DEF IInv, PhaseInv
<1>7. InterestInv'
  BY <1>0, <1>a, <1>b DEF IInv, PhaseInv, InterestInv, RoleInv, ReadInv
<1>8. RoleInv'
  BY <1>0, <1>a, <1>b DEF IInv, PhaseInv, InterestInv, RoleInv, ReadInv
<1>9. ReadInv'
  BY <1>0, <1>a, <1>b
     DEF IInv, Types, EndpointTypeOK, EventTypes, LoopTypes, HandlerTypes, HistoryTypes,
         PCs, ConnStates, DispatcherEvent, PhaseInv, InterestInv, RoleInv, ReadInv
<1>10. CloseInv'
  BY <1>0, <1>a, <1>b DEF IInv, CloseInv
<1>11. WriteInv'
  BY <1>0, <1>a, <1>b DEF IInv, PhaseInv, WriteInv, RoleInv
<1> QED BY <1>1, <1>2, <1>3, <1>4, <1>5, <1>6, <1>7, <1>8, <1>9, <1>10, <1>11
           DEF IInv, Types

LEMMA SignalWriteEvent_Step == ASSUME IInv, SignalWriteEvent PROVE IInv'
<1>0. /\ saved_enabled_events_ # None /\ DE_WRITE \in ff /\ ff' = ff \ {DE_WRITE}
      /\ enabled_events_' = enabled_events_ \ {DE_WRITE}
      /\ interest' = interest /\ saved_enabled_events_' = saved_enabled_events_
      /\ DE_READ \notin ff
  BY RequestInside DEF IInv, PhaseInv, SignalWriteEvent, NextSignal, DisableEvents, Order
<1>1. EndpointTypeOK'
  BY <1>0 DEF IInv, Types, EndpointTypeOK, ConnStates, SignalWriteEvent
<1>2. EventTypes'
  BY <1>0 DEF IInv, Types, EventTypes, DispatcherEvent
<1>3. LoopTypes'
  BY <1>0 DEF IInv, Types, LoopTypes, PCs, DispatcherEvent, SignalWriteEvent, NextSignal
<1>4. HandlerTypes'
  BY <1>0 DEF IInv, Types, HandlerTypes, SignalWriteEvent
<1>5. HistoryTypes'
  BY <1>0 DEF IInv, Types, HistoryTypes, SignalWriteEvent
<1>6. PhaseInv'
  BY <1>0 DEF IInv, PhaseInv, SignalWriteEvent, NextSignal
<1>7. InterestInv'
  BY <1>0 DEF IInv, InterestInv, SignalWriteEvent, NextSignal
<1>8. RoleInv'
  BY <1>0 DEF IInv, RoleInv, SignalWriteEvent, NextSignal
<1>9. ReadInv'
  BY <1>0 DEF IInv, ReadInv, SignalWriteEvent, NextSignal
<1>10. CloseInv'
  BY <1>0 DEF IInv, CloseInv, SignalWriteEvent, NextSignal
<1>11. WriteInv'
  BY <1>0
     DEF IInv, Types, EndpointTypeOK, EventTypes, LoopTypes, HandlerTypes, HistoryTypes,
         PCs, ConnStates, DispatcherEvent, PhaseInv, InterestInv, RoleInv, ReadInv,
         CloseInv, WriteInv, SignalWriteEvent, NextSignal
<1> QED BY <1>1, <1>2, <1>3, <1>4, <1>5, <1>6, <1>7, <1>8, <1>9, <1>10, <1>11
           DEF IInv, Types

LEMMA SignalCloseEvent_Step == ASSUME IInv, SignalCloseEvent PROVE IInv'
<1>0. /\ saved_enabled_events_ # None /\ DE_CLOSE \in ff /\ ff' = ff \ {DE_CLOSE} /\ pc = "signal"
      /\ UNCHANGED <<role, state_, reported, errcode>>
  BY DEF IInv, PhaseInv, SignalCloseEvent, NextSignal
<1>a. role = "listener" => /\ enabled_events_' = enabled_events_ \ {DE_CLOSE}
                           /\ interest' = interest
                           /\ saved_enabled_events_' = saved_enabled_events_
  BY <1>0, RequestInside DEF SignalCloseEvent, DisableEvents
<1>b. ff' = {}
  BY <1>0 DEF IInv, Types, LoopTypes, DispatcherEvent, SignalCloseEvent, NextSignal, Order
<1>1. EndpointTypeOK'
  <2>1. CASE role = "listener"
    BY <2>1 DEF IInv, Types, EndpointTypeOK, SignalCloseEvent
  <2>2. CASE role # "listener"
    BY <2>2, EndpointTypes DEF IInv, Types, ConnStates, SignalCloseEvent, CloseSocket
  <2> QED BY <2>1, <2>2
<1>2. EventTypes'
  BY <1>0, <1>a, <1>b
     DEF IInv, Types, EventTypes, DispatcherEvent, SignalCloseEvent, CloseSocket
<1>3. LoopTypes'
  BY <1>0, <1>a, <1>b DEF IInv, Types, LoopTypes, PCs, DispatcherEvent, SignalCloseEvent
<1>4. HandlerTypes'
  BY <1>0, <1>a, <1>b DEF IInv, Types, HandlerTypes, SignalCloseEvent
<1>5. HistoryTypes'
  BY <1>0, <1>a, <1>b DEF IInv, Types, HistoryTypes, SignalCloseEvent, CloseSocket
<1>6. PhaseInv'
  BY <1>0, <1>a, <1>b DEF IInv, PhaseInv, SignalCloseEvent, CloseSocket
<1>7. InterestInv'
  BY <1>0, <1>a, <1>b DEF IInv, InterestInv, SignalCloseEvent, CloseSocket, Endpoint
<1>8. RoleInv'
  BY <1>0, <1>a, <1>b DEF IInv, RoleInv, SignalCloseEvent, CloseSocket, Endpoint
<1>9. ReadInv'
  BY <1>0, <1>a, <1>b DEF IInv, ReadInv, SignalCloseEvent, CloseSocket, Endpoint
<1>10. CloseInv'
  BY <1>0, <1>a, <1>b DEF IInv, CloseInv, SignalCloseEvent
<1>11. WriteInv'
  BY <1>0, <1>a, <1>b DEF IInv, WriteInv, SignalCloseEvent, CloseSocket
<1> QED BY <1>1, <1>2, <1>3, <1>4, <1>5, <1>6, <1>7, <1>8, <1>9, <1>10, <1>11
           DEF IInv, Types

LEMMA OnEvent_Returns_Step == ASSUME IInv, OnEvent_Returns PROVE IInv'
<1>1. EndpointTypeOK'
  BY DEF IInv, Types, EndpointTypeOK, ConnStates, OnEvent_Returns, FinishBatchedEventUpdates
<1>2. EventTypes'
  BY DEF IInv, Types, EventTypes, DispatcherEvent, OnEvent_Returns,
         FinishBatchedEventUpdates, Watch, GetEpollEvents
<1>3. LoopTypes'
  BY DEF IInv, Types, LoopTypes, PCs, DispatcherEvent, OnEvent_Returns,
         FinishBatchedEventUpdates
<1>4. HandlerTypes'
  BY DEF IInv, Types, HandlerTypes, OnEvent_Returns, FinishBatchedEventUpdates
<1>5. HistoryTypes'
  BY DEF IInv, Types, HistoryTypes, OnEvent_Returns, FinishBatchedEventUpdates
<1>6. PhaseInv'
  BY DEF IInv, PhaseInv, OnEvent_Returns, FinishBatchedEventUpdates
<1>7. InterestInv'
  BY DEF IInv, InterestInv, OnEvent_Returns, FinishBatchedEventUpdates, Watch,
         GetEpollEvents
<1>8. RoleInv'
  BY DEF IInv, RoleInv, OnEvent_Returns, FinishBatchedEventUpdates
<1>9. ReadInv'
  BY DEF IInv, ReadInv, OnEvent_Returns, FinishBatchedEventUpdates
<1>10. CloseInv'
  BY DEF IInv, CloseInv, OnEvent_Returns, FinishBatchedEventUpdates
<1>11. WriteInv'
  BY DEF IInv, WriteInv, OnEvent_Returns, FinishBatchedEventUpdates
<1> QED BY <1>1, <1>2, <1>3, <1>4, <1>5, <1>6, <1>7, <1>8, <1>9, <1>10, <1>11
           DEF IInv, Types

LEMMA Accept_Step == ASSUME IInv, Accept PROVE IInv'
<1>0. /\ saved_enabled_events_ # None
      /\ enabled_events_' = enabled_events_ \cup {DE_ACCEPT}
      /\ interest' = interest /\ saved_enabled_events_' = saved_enabled_events_
  BY RequestInside DEF IInv, PhaseInv, Accept, EnableEvents
<1>1. EndpointTypeOK'
  BY <1>0 DEF IInv, Types, EndpointTypeOK, Accept
<1>2. EventTypes'
  BY <1>0 DEF IInv, Types, EventTypes, DispatcherEvent
<1>3. LoopTypes'
  BY <1>0 DEF IInv, Types, LoopTypes, PCs, Accept
<1>4. HandlerTypes'
  BY <1>0 DEF IInv, Types, HandlerTypes, Accept
<1>5. HistoryTypes'
  BY <1>0 DEF IInv, Types, HistoryTypes, Accept
<1>6. PhaseInv'
  BY <1>0 DEF IInv, PhaseInv, Accept
<1>7. InterestInv'
  BY <1>0 DEF IInv, InterestInv, Accept
<1>8. RoleInv'
  BY <1>0
     DEF IInv, Types, EndpointTypeOK, EventTypes, LoopTypes, HandlerTypes, HistoryTypes,
         PCs, ConnStates, DispatcherEvent, PhaseInv, InterestInv, RoleInv, ReadInv,
         CloseInv, Accept
<1>9. ReadInv'
  BY <1>0 DEF IInv, ReadInv, Accept
<1>10. CloseInv'
  BY <1>0 DEF IInv, CloseInv, Accept
<1>11. WriteInv'
  BY <1>0 DEF IInv, WriteInv, Accept
<1> QED BY <1>1, <1>2, <1>3, <1>4, <1>5, <1>6, <1>7, <1>8, <1>9, <1>10, <1>11
           DEF IInv, Types

LEMMA OnAccept_Returns_Step == ASSUME IInv, OnAccept_Returns PROVE IInv'
<1>1. EndpointTypeOK'
  BY DEF IInv, Types, EndpointTypeOK, OnAccept_Returns
<1>2. EventTypes'
  BY DEF IInv, Types, EventTypes, OnAccept_Returns
<1>3. LoopTypes'
  BY DEF IInv, Types, LoopTypes, PCs, OnAccept_Returns
<1>4. HandlerTypes'
  BY DEF IInv, Types, HandlerTypes, OnAccept_Returns
<1>5. HistoryTypes'
  BY DEF IInv, Types, HistoryTypes, OnAccept_Returns
<1>6. PhaseInv'
  BY DEF IInv, PhaseInv, OnAccept_Returns
<1>7. InterestInv'
  BY DEF IInv, InterestInv, OnAccept_Returns
<1>8. RoleInv'
  BY DEF IInv, RoleInv, OnAccept_Returns
<1>9. ReadInv'
  BY DEF IInv, ReadInv, OnAccept_Returns
<1>10. CloseInv'
  BY DEF IInv, CloseInv, OnAccept_Returns
<1>11. WriteInv'
  BY DEF IInv, WriteInv, OnAccept_Returns
<1> QED BY <1>1, <1>2, <1>3, <1>4, <1>5, <1>6, <1>7, <1>8, <1>9, <1>10, <1>11
           DEF IInv, Types

LEMMA Recv_Step == ASSUME IInv, Recv PROVE IInv'
<1>0. /\ saved_enabled_events_ # None
      /\ enabled_events_' = enabled_events_ \cup {DE_READ}
      /\ interest' = interest /\ saved_enabled_events_' = saved_enabled_events_
  BY RequestInside DEF IInv, PhaseInv, Recv, EnableEvents, EventsAfterRecv
<1>1. EndpointTypeOK'
  BY DEF IInv, Types, EndpointTypeOK, Recv
<1>2. EventTypes'
  BY <1>0 DEF IInv, Types, EventTypes, DispatcherEvent
<1>3. LoopTypes'
  BY <1>0 DEF IInv, Types, LoopTypes, PCs, Recv
<1>4. HandlerTypes'
  BY <1>0 DEF IInv, Types, HandlerTypes, Recv
<1>5. HistoryTypes'
  BY <1>0 DEF IInv, Types, HistoryTypes, Recv
<1>6. PhaseInv'
  BY <1>0 DEF IInv, PhaseInv, Recv
<1>7. InterestInv'
  BY <1>0 DEF IInv, InterestInv, Recv
<1>8. RoleInv'
  BY <1>0 DEF IInv, RoleInv, InterestInv, Recv
<1>9. ReadInv'
  BY <1>0 DEF IInv, ReadInv, Recv
<1>10. CloseInv'
  BY DEF IInv, CloseInv, Recv
<1>11. WriteInv'
  BY <1>0 DEF IInv, WriteInv, Recv
<1> QED BY <1>1, <1>2, <1>3, <1>4, <1>5, <1>6, <1>7, <1>8, <1>9, <1>10, <1>11
           DEF IInv, Types

LEMMA RecvFrom_Step == ASSUME IInv, RecvFrom PROVE IInv'
<1>0. /\ saved_enabled_events_ # None
      /\ enabled_events_' = enabled_events_ \cup {DE_READ}
      /\ interest' = interest /\ saved_enabled_events_' = saved_enabled_events_
  BY RequestInside DEF IInv, PhaseInv, RecvFrom, EnableEvents, EventsAfterRecv
<1>1. EndpointTypeOK'
  BY DEF IInv, Types, EndpointTypeOK, RecvResult, RecvFrom
<1>2. EventTypes'
  BY <1>0 DEF IInv, Types, EventTypes, DispatcherEvent
<1>3. LoopTypes'
  BY <1>0 DEF IInv, Types, LoopTypes, PCs, RecvFrom
<1>4. HandlerTypes'
  BY <1>0 DEF IInv, Types, HandlerTypes, RecvFrom
<1>5. HistoryTypes'
  BY <1>0 DEF IInv, Types, HistoryTypes, RecvFrom
<1>6. PhaseInv'
  BY <1>0 DEF IInv, PhaseInv, RecvFrom
<1>7. InterestInv'
  BY <1>0 DEF IInv, InterestInv, RecvFrom
<1>8. RoleInv'
  BY <1>0 DEF IInv, RoleInv, RecvFrom
<1>9. ReadInv'
  BY <1>0 DEF IInv, ReadInv, RecvFrom
<1>10. CloseInv'
  BY DEF IInv, CloseInv, RecvResult, RecvFrom
<1>11. WriteInv'
  BY <1>0 DEF IInv, WriteInv, RecvFrom
<1> QED BY <1>1, <1>2, <1>3, <1>4, <1>5, <1>6, <1>7, <1>8, <1>9, <1>10, <1>11
           DEF IInv, Types

LEMMA Recv_Last_Step == ASSUME IInv, Recv_Last PROVE IInv'
<1>0. /\ saved_enabled_events_ # None
      /\ enabled_events_' = enabled_events_ \cup EventsAfterRecv
      /\ interest' = interest /\ saved_enabled_events_' = saved_enabled_events_
  BY RequestInside DEF IInv, PhaseInv, Recv_Last, EnableEvents
<1>a. EventsAfterRecv \subseteq {DE_READ}
  BY DEF EventsAfterRecv
<1>b. conn \in Live => EventsAfterRecv = {DE_READ}
  BY DEF EventsAfterRecv, RecvResult, IInv, RoleInv
<1>1. EndpointTypeOK'
  BY <1>0, <1>a, <1>b DEF IInv, Types, EndpointTypeOK, ConnStates, Recv_Last, ErrorAfterRecv
<1>2. EventTypes'
  BY <1>0, <1>a, <1>b DEF IInv, Types, EventTypes, DispatcherEvent
<1>3. LoopTypes'
  BY <1>0, <1>a, <1>b DEF IInv, Types, LoopTypes, PCs, DispatcherEvent, Recv_Last
<1>4. HandlerTypes'
  BY <1>0, <1>a, <1>b DEF IInv, Types, HandlerTypes, Recv_Last
<1>5. HistoryTypes'
  BY <1>0, <1>a, <1>b DEF IInv, Types, HistoryTypes, Recv_Last
<1>6. PhaseInv'
  BY <1>0, <1>a, <1>b DEF IInv, PhaseInv, Recv_Last
<1>7. InterestInv'
  BY <1>0, <1>a DEF IInv, InterestInv, Recv_Last
<1>8. RoleInv'
  BY <1>0, <1>a DEF IInv, RoleInv, InterestInv, PhaseInv, Recv_Last, ErrorAfterRecv
<1>9. ReadInv'
  BY <1>0, <1>a, <1>b DEF IInv, ReadInv, Recv_Last
<1>10. CloseInv'
  BY <1>0, <1>a, <1>b DEF IInv, CloseInv, Recv_Last
<1>11. WriteInv'
  BY <1>0, <1>a, <1>b
     DEF IInv, Types, EndpointTypeOK, EventTypes, LoopTypes, HandlerTypes, HistoryTypes,
         PCs, ConnStates, DispatcherEvent, PhaseInv, InterestInv, RoleInv, ReadInv,
         CloseInv, WriteInv, Recv_Last
<1> QED BY <1>1, <1>2, <1>3, <1>4, <1>5, <1>6, <1>7, <1>8, <1>9, <1>10, <1>11
           DEF IInv, Types

LEMMA OnWrite_Step == ASSUME IInv, OnWrite PROVE IInv'
<1>0. unsent \in 0..Length /\ EndpointTypeOK /\ role = "server" /\ conn \notin Datagrams
  BY DEF IInv, Types, HandlerTypes, LoopTypes, RoleInv, OnWrite
<1>a. /\ EndpointTypeOK'
      /\ UNCHANGED <<eventVars, conn, pending, fin, arrivals>>
      /\ cut_short' \in BOOLEAN
      /\ so_error' => so_error
      /\ Sent(unsent) \in -1..unsent
      /\ Sent(unsent) > 0 => conn = "established"
      /\ conn = "established" /\ space > 0 /\ unsent > 0 => Sent(unsent) > 0
  BY <1>0, SendAsksForNothing DEF OnWrite
<1>1. EndpointTypeOK'
  BY <1>a
<1>2. EventTypes'
  BY <1>0, <1>a DEF IInv, Types, EventTypes
<1>3. LoopTypes'
  BY <1>0, <1>a DEF IInv, Types, LoopTypes, PCs, OnWrite
<1>4. HandlerTypes'
  BY <1>0, <1>a DEF IInv, Types, HandlerTypes, OnWrite
<1>5. HistoryTypes'
  BY <1>0, <1>a DEF IInv, Types, HistoryTypes, OnWrite
<1>6. PhaseInv'
  BY <1>0, <1>a DEF IInv, PhaseInv, OnWrite
<1>7. InterestInv'
  BY <1>0, <1>a DEF IInv, InterestInv, OnWrite
<1>8. RoleInv'
  BY <1>0, <1>a DEF IInv, RoleInv, OnWrite
<1>9. ReadInv'
  BY <1>0, <1>a DEF IInv, ReadInv, OnWrite
<1>10. CloseInv'
  BY <1>0, <1>a DEF IInv, CloseInv, OnWrite
<1>11. WriteInv'
  BY <1>0, <1>a DEF IInv, WriteInv, OnWrite
<1> QED BY <1>1, <1>2, <1>3, <1>4, <1>5, <1>6, <1>7, <1>8, <1>9, <1>10, <1>11
           DEF IInv, Types

LEMMA OnWrite_Last_Step == ASSUME IInv, OnWrite_Last PROVE IInv'
<1>0. unsent \in 0..Length /\ EndpointTypeOK /\ role = "server" /\ conn \notin Datagrams
  BY DEF IInv, Types, HandlerTypes, LoopTypes, RoleInv, OnWrite_Last
<1>a. /\ EndpointTypeOK'
      /\ UNCHANGED <<eventVars, conn, pending, fin, arrivals>>
      /\ cut_short' \in BOOLEAN
      /\ so_error' => so_error
      /\ Sent(unsent) \in -1..unsent
      /\ Sent(unsent) > 0 => conn = "established"
      /\ conn = "established" /\ space > 0 /\ unsent > 0 => Sent(unsent) > 0
  BY <1>0, SendAsksForNothing DEF OnWrite_Last
<1>1. EndpointTypeOK'
  BY <1>a
<1>2. EventTypes'
  BY <1>0, <1>a DEF IInv, Types, EventTypes
<1>3. LoopTypes'
  BY <1>0, <1>a DEF IInv, Types, LoopTypes, PCs, OnWrite_Last
<1>4. HandlerTypes'
  BY <1>0, <1>a DEF IInv, Types, EndpointTypeOK, HandlerTypes, WriteInv, OnWrite_Last
<1>5. HistoryTypes'
  BY <1>0, <1>a DEF IInv, Types, HistoryTypes, OnWrite_Last
<1>6. PhaseInv'
  BY <1>0, <1>a DEF IInv, PhaseInv, OnWrite_Last
<1>7. InterestInv'
  BY <1>0, <1>a DEF IInv, InterestInv, OnWrite_Last
<1>8. RoleInv'
  BY <1>0, <1>a DEF IInv, RoleInv, OnWrite_Last
<1>9. ReadInv'
  BY <1>0, <1>a DEF IInv, ReadInv, OnWrite_Last
<1>10. CloseInv'
  BY <1>0, <1>a DEF IInv, CloseInv, OnWrite_Last
<1>11. WriteInv'
  BY <1>0, <1>a
     DEF IInv, Types, EndpointTypeOK, HandlerTypes, RoleInv, WriteInv, OnWrite_Last
<1> QED BY <1>1, <1>2, <1>3, <1>4, <1>5, <1>6, <1>7, <1>8, <1>9, <1>10, <1>11
           DEF IInv, Types

LEMMA OnClose_Returns_Step == ASSUME IInv, OnClose_Returns PROVE IInv'
<1>1. EndpointTypeOK'
  BY DEF IInv, Types, EndpointTypeOK, OnClose_Returns
<1>2. EventTypes'
  BY DEF IInv, Types, EventTypes, OnClose_Returns
<1>3. LoopTypes'
  BY DEF IInv, Types, LoopTypes, PCs, OnClose_Returns
<1>4. HandlerTypes'
  BY DEF IInv, Types, HandlerTypes, OnClose_Returns
<1>5. HistoryTypes'
  BY DEF IInv, Types, HistoryTypes, OnClose_Returns
<1>6. PhaseInv'
  BY DEF IInv, PhaseInv, OnClose_Returns
<1>7. InterestInv'
  BY DEF IInv, InterestInv, OnClose_Returns
<1>8. RoleInv'
  BY DEF IInv, RoleInv, OnClose_Returns
<1>9. ReadInv'
  BY DEF IInv, ReadInv, OnClose_Returns
<1>10. CloseInv'
  BY DEF IInv, CloseInv, OnClose_Returns
<1>11. WriteInv'
  BY DEF IInv, WriteInv, OnClose_Returns
<1> QED BY <1>1, <1>2, <1>3, <1>4, <1>5, <1>6, <1>7, <1>8, <1>9, <1>10, <1>11
           DEF IInv, Types

LEMMA CreateSocket_Step == ASSUME IInv, CreateSocket PROVE IInv'
<1>1. EndpointTypeOK'
  BY EndpointTypes DEF IInv, Types, ConnStates, CreateSocket, Added
<1>2. EventTypes'
  BY DEF IInv, Types, EventTypes, DispatcherEvent, CreateSocket, Endpoint, Watch,
         GetEpollEvents, Added
<1>3. LoopTypes'
  BY DEF IInv, Types, LoopTypes, PCs, DispatcherEvent, CreateSocket, Endpoint, Added
<1>4. HandlerTypes'
  BY DEF IInv, Types, HandlerTypes, CreateSocket, Endpoint, Added
<1>5. HistoryTypes'
  BY DEF IInv, Types, HistoryTypes, CreateSocket, Endpoint, Added
<1>6. PhaseInv'
  BY DEF IInv, PhaseInv, CreateSocket, Endpoint, Added
<1>7. InterestInv'
  BY DEF IInv, InterestInv, CreateSocket, Endpoint, Watch, GetEpollEvents, Added
<1>8. RoleInv'
  BY DEF IInv, PhaseInv, InterestInv, RoleInv, ReadInv, CloseInv, WriteInv, CreateSocket,
         Endpoint, Added
<1>9. ReadInv'
  BY DEF IInv, PhaseInv, InterestInv, RoleInv, ReadInv, CloseInv, WriteInv, CreateSocket,
         Endpoint, Added
<1>10. CloseInv'
  BY DEF IInv, PhaseInv, InterestInv, RoleInv, ReadInv, CloseInv, WriteInv, CreateSocket,
         Endpoint, Added
<1>11. WriteInv'
  BY DEF IInv, PhaseInv, InterestInv, RoleInv, ReadInv, CloseInv, WriteInv, CreateSocket,
         Endpoint, Added
<1> QED BY <1>1, <1>2, <1>3, <1>4, <1>5, <1>6, <1>7, <1>8, <1>9, <1>10, <1>11
           DEF IInv, Types

LEMMA Close_Step == ASSUME IInv, Close PROVE IInv'
<1>1. EndpointTypeOK'
  BY EndpointTypes DEF IInv, Types, ConnStates, Close, CloseSocket
<1>2. EventTypes'
  BY DEF IInv, Types, EventTypes, DispatcherEvent, Close, CloseSocket
<1>3. LoopTypes'
  BY DEF IInv, Types, LoopTypes, PCs, DispatcherEvent, Close
<1>4. HandlerTypes'
  BY DEF IInv, Types, HandlerTypes, Close
<1>5. HistoryTypes'
  BY DEF IInv, Types, HistoryTypes, Close, CloseSocket
<1>6. PhaseInv'
  BY DEF IInv, PhaseInv, Close, CloseSocket
<1>7. InterestInv'
  BY DEF IInv, InterestInv, Close, CloseSocket, Endpoint
<1>8. RoleInv'
  BY DEF IInv, RoleInv, Close, CloseSocket, Endpoint
<1>9. ReadInv'
  BY DEF IInv, ReadInv, Close, CloseSocket, Endpoint
<1>10. CloseInv'
  BY DEF IInv, PhaseInv, InterestInv, RoleInv, ReadInv, CloseInv, WriteInv, Close
<1>11. WriteInv'
  BY DEF IInv, WriteInv, Close
<1> QED BY <1>1, <1>2, <1>3, <1>4, <1>5, <1>6, <1>7, <1>8, <1>9, <1>10, <1>11
           DEF IInv, Types

LEMMA SendRequest_Step == ASSUME IInv, SendRequest PROVE IInv'
<1>0. EndpointTypeOK /\ Length \in 0..Length /\ Send(Length)
  BY DEF IInv, Types, SendRequest, SendTo
<1>a. /\ EndpointTypeOK'
      /\ UNCHANGED <<eventVars, conn, pending, fin, arrivals>>
      /\ cut_short' \in BOOLEAN
      /\ so_error' => so_error
  BY <1>0, SendAsksForNothing
<1>1. EndpointTypeOK'
  BY <1>a
<1>2. EventTypes'
  BY <1>a DEF IInv, Types, EventTypes
<1>3. LoopTypes'
  BY <1>a DEF IInv, Types, LoopTypes, PCs, SendRequest
<1>4. HandlerTypes'
  BY <1>a DEF IInv, Types, HandlerTypes, SendRequest
<1>5. HistoryTypes'
  BY <1>a DEF IInv, Types, HistoryTypes, SendRequest
<1>6. PhaseInv'
  BY <1>a DEF IInv, PhaseInv, SendRequest
<1>7. InterestInv'
  BY <1>a DEF IInv, InterestInv, SendRequest
<1>8. RoleInv'
  BY <1>a DEF IInv, RoleInv, SendRequest
<1>9. ReadInv'
  BY <1>a DEF IInv, ReadInv, SendRequest
<1>10. CloseInv'
  BY <1>a DEF IInv, CloseInv, SendRequest
<1>11. WriteInv'
  BY <1>a DEF IInv, WriteInv, SendRequest
<1> QED BY <1>1, <1>2, <1>3, <1>4, <1>5, <1>6, <1>7, <1>8, <1>9, <1>10, <1>11
           DEF IInv, Types

LEMMA Initialize_Step ==
  ASSUME IInv, NEW address, NEW bound, NEW listens, Initialize(address, bound, listens)
  PROVE  IInv'
<1>0. \/ /\ conn' = "listening" /\ state_' = "CS_CONNECTING" /\ EnableEvents({DE_ACCEPT})
         /\ UNCHANGED <<cut_short, pending, fin, so_error, space, arrivals>>
      \/ CloseSocket /\ state_' = "CS_CLOSED"
  BY DEF Initialize
<1>1. EndpointTypeOK'
  BY <1>0, EndpointTypes DEF IInv, Types, EndpointTypeOK, ConnStates, CloseSocket
<1>2. EventTypes'
  BY <1>0
     DEF IInv, Types, EventTypes, DispatcherEvent, Initialize, EnableEvents,
         RequestEvents, Update, Watch, GetEpollEvents, CloseSocket
<1>3. LoopTypes'
  BY <1>0
     DEF IInv, Types, LoopTypes, PCs, DispatcherEvent, Initialize, EnableEvents,
         RequestEvents, Update, Watch, GetEpollEvents
<1>4. HandlerTypes'
  BY <1>0
     DEF IInv, Types, HandlerTypes, Initialize, EnableEvents, RequestEvents, Update,
         Watch, GetEpollEvents
<1>5. HistoryTypes'
  BY <1>0
     DEF IInv, Types, HistoryTypes, Initialize, EnableEvents, RequestEvents, Update,
         Watch, GetEpollEvents, CloseSocket
<1>6. PhaseInv'
  BY <1>0
     DEF IInv, PhaseInv, Initialize, EnableEvents, RequestEvents, Update, Watch,
         GetEpollEvents, CloseSocket
<1>7. InterestInv'
  BY <1>0
     DEF IInv, PhaseInv, InterestInv, RoleInv, ReadInv, CloseInv, WriteInv, Initialize,
         EnableEvents, RequestEvents, Update, Watch, GetEpollEvents, CloseSocket
<1>8. RoleInv'
  BY <1>0
     DEF IInv, RoleInv, Initialize, EnableEvents, RequestEvents, Update, Watch,
         GetEpollEvents, CloseSocket, Endpoint
<1>9. ReadInv'
  BY <1>0
     DEF IInv, ReadInv, Initialize, EnableEvents, RequestEvents, Update, Watch,
         GetEpollEvents, CloseSocket, Endpoint
<1>10. CloseInv'
  BY <1>0
     DEF IInv, PhaseInv, InterestInv, RoleInv, ReadInv, CloseInv, WriteInv, Initialize,
         EnableEvents, RequestEvents, Update, Watch, GetEpollEvents
<1>11. WriteInv'
  BY <1>0
     DEF IInv, WriteInv, Initialize, EnableEvents, RequestEvents, Update, Watch,
         GetEpollEvents
<1> QED BY <1>1, <1>2, <1>3, <1>4, <1>5, <1>6, <1>7, <1>8, <1>9, <1>10, <1>11
           DEF IInv, Types

LEMMA Connect_Step ==
  ASSUME IInv, NEW result \in Results, Connect(result)
  PROVE  IInv'
<1>1. EndpointTypeOK'
  BY EndpointTypes DEF Results, kernelVars, IInv, Types, EndpointTypeOK, ConnStates, Connect, Added
<1>2. EventTypes'
  BY DEF Results, kernelVars, IInv, Types, EventTypes, DispatcherEvent, Connect, ConnectEvents, Update, Watch,
         GetEpollEvents, Added
<1>3. LoopTypes'
  BY DEF Results, kernelVars, IInv, Types, LoopTypes, PCs, DispatcherEvent, Connect, ConnectEvents, Update,
         Watch, Added
<1>4. HandlerTypes'
  BY DEF Results, kernelVars, IInv, Types, HandlerTypes, Connect, ConnectEvents, Update, Watch, Added
<1>5. HistoryTypes'
  BY DEF Results, kernelVars, IInv, Types, HistoryTypes, Connect, ConnectEvents, Update, Watch, Added
<1>6. PhaseInv'
  BY DEF Results, kernelVars, IInv, PhaseInv, Connect, ConnectEvents, Update, Watch, Added
<1>7. InterestInv'
  BY DEF Results, kernelVars, IInv, PhaseInv, InterestInv, RoleInv, ReadInv, CloseInv, WriteInv, Connect,
         ConnectEvents, Update, Watch, GetEpollEvents, Endpoint, Added
<1>8. RoleInv'
  BY DEF Results, kernelVars, IInv, RoleInv, Connect, ConnectEvents, Update, Watch, Endpoint, Added
<1>9. ReadInv'
  BY DEF Results, kernelVars, IInv, ReadInv, Connect, ConnectEvents, Update, Watch, Endpoint, Added
<1>10. CloseInv'
  BY DEF Results, kernelVars, IInv, PhaseInv, InterestInv, RoleInv, ReadInv, CloseInv, WriteInv, Connect,
         ConnectEvents, Update, Watch, Added
<1>11. WriteInv'
  BY DEF Results, kernelVars, IInv, WriteInv, Connect, ConnectEvents, Update, Watch, Added
<1> QED BY <1>1, <1>2, <1>3, <1>4, <1>5, <1>6, <1>7, <1>8, <1>9, <1>10, <1>11
           DEF IInv, Types

LEMMA Peer_Step == ASSUME IInv, Peer PROVE IInv'
<1>1. EndpointTypeOK'
  <2>1. CASE Arrival
    BY <2>1 DEF IInv, Types, EndpointTypeOK, Arrival
  <2>2. CASE Finish
    BY <2>2 DEF IInv, Types, EndpointTypeOK, Finish
  <2>3. CASE Reset
    BY <2>3 DEF IInv, Types, EndpointTypeOK, ConnStates, Reset
  <2>4. CASE PeerReads
    BY <2>4 DEF IInv, Types, EndpointTypeOK, PeerReads
  <2>5. CASE ConnectResult
    BY <2>5 DEF IInv, Types, EndpointTypeOK, ConnStates, ConnectResult
  <2>6. CASE Unreachable
    BY <2>6 DEF IInv, Types, EndpointTypeOK, Unreachable
  <2> QED BY <2>1, <2>2, <2>3, <2>4, <2>5, <2>6 DEF Peer, Network
<1>2. EventTypes'
  BY DEF IInv, Types, EventTypes, DispatcherEvent, Peer, Network, Arrival, Finish, Reset,
         PeerReads
<1>3. LoopTypes'
  BY DEF IInv, Types, LoopTypes, PCs, DispatcherEvent, Peer, Network, Arrival, Finish,
         Reset, PeerReads
<1>4. HandlerTypes'
  BY DEF IInv, Types, HandlerTypes, Peer, Network, Arrival, Finish, Reset, PeerReads
<1>5. HistoryTypes'
  BY DEF IInv, Types, HistoryTypes, Peer, Network, Arrival, Finish, Reset, PeerReads
<1>6. PhaseInv'
  BY DEF IInv, PhaseInv, Peer, Network, Arrival, Finish, Reset, PeerReads, ConnectResult,
         Unreachable
<1>7. InterestInv'
  BY DEF IInv, InterestInv, Peer, Network, Arrival, Finish, Reset, PeerReads,
         ConnectResult, Unreachable
<1>8. RoleInv'
  BY DEF IInv, RoleInv, Peer, Network, Arrival, Finish, Reset, PeerReads, ConnectResult,
         Unreachable
<1>9. ReadInv'
  BY DEF IInv, ReadInv, Peer, Network, Arrival, Finish, Reset, PeerReads, ConnectResult,
         Unreachable
<1>10. CloseInv'
  BY DEF IInv, CloseInv, Peer, Network, Arrival, Finish, Reset, PeerReads, ConnectResult,
         Unreachable
<1>11. WriteInv'
  BY DEF IInv, PhaseInv, InterestInv, RoleInv, ReadInv, CloseInv, WriteInv, Peer,
         Network, Arrival, Finish, Reset, PeerReads, ConnectResult, Unreachable
<1> QED BY <1>1, <1>2, <1>3, <1>4, <1>5, <1>6, <1>7, <1>8, <1>9, <1>10, <1>11
           DEF IInv, Types

LEMMA Inductive == IInv /\ [Next]_vars => IInv'
<1> SUFFICES ASSUME IInv, [Next]_vars PROVE IInv'
  OBVIOUS
<1>1. CASE CreateSocket
  BY <1>1, CreateSocket_Step
<1>2. CASE Close
  BY <1>2, Close_Step
<1>3. CASE SendRequest
  BY <1>3, SendRequest_Step
<1>4. ASSUME NEW address \in {"any", "loopback", "other"}, NEW bound \in {0, -1},
             NEW listens \in BOOLEAN, Initialize(address, bound, listens)
      PROVE  IInv'
  BY <1>4, Initialize_Step
<1>5. ASSUME NEW result \in Results, Connect(result) PROVE IInv'
  BY <1>5, Connect_Step
<1>6. CASE LoopStep
  BY <1>6, EpollWait_Step, ProcessEvents_Step, OnEvent_Returns_Step,
     SignalConnectEvent_Step, SignalReadEvent_Step, SignalWriteEvent_Step,
     SignalCloseEvent_Step, Accept_Step, OnAccept_Returns_Step, Recv_Step, RecvFrom_Step,
     Recv_Last_Step, OnWrite_Step, OnWrite_Last_Step, OnClose_Returns_Step
     DEF LoopStep
<1>7. CASE Peer
  BY <1>7, Peer_Step
<1>8. CASE UNCHANGED vars
  BY <1>8
     DEF vars, IInv, Types, EndpointTypeOK, EventTypes, LoopTypes, HandlerTypes,
         HistoryTypes, PhaseInv, InterestInv, RoleInv, ReadInv, CloseInv, WriteInv
<1> QED BY <1>1, <1>2, <1>3, <1>4, <1>5, <1>6, <1>7, <1>8 DEF Next

LEMMA Initially == Init => IInv
<1> SUFFICES ASSUME Init PROVE IInv
  OBVIOUS
<1>1. Types
  <2>0. /\ 0 \in 0..MaxPending /\ MaxSpace \in 0..MaxSpace /\ MaxArrivals \in 0..MaxArrivals
        /\ 0 \in 0..MaxAccept /\ 0 \in 0..Length /\ 0 \in 0..0
    BY Constants
  <2>1. EndpointTypeOK
    BY <2>0 DEF Init, EndpointTypeOK, ConnStates
  <2>2. EventTypes /\ LoopTypes
    BY DEF Init, EventTypes, LoopTypes, PCs, DispatcherEvent
  <2>3. HandlerTypes /\ HistoryTypes
    BY <2>0 DEF Init, HandlerTypes, HistoryTypes
  <2> QED BY <2>1, <2>2, <2>3 DEF Types
<1>2. PhaseInv /\ InterestInv /\ RoleInv /\ ReadInv /\ CloseInv /\ WriteInv
  BY DEF Init, PhaseInv, InterestInv, RoleInv, ReadInv, CloseInv, WriteInv
<1> QED BY <1>1, <1>2 DEF IInv

LEMMA Invariant == Spec => []IInv
BY Initially, Inductive, PTL DEF Spec

-----------------------------------------------------------------------------
(* The state keeps its type: the counts stay in their bounds, and OnWrite  *)
(* is never disconnected more often than it was connected.                 *)
THEOREM DispatcherTypeCorrect == Spec => []TypeOK
<1>1. IInv => TypeOK
  BY DEF IInv, Types, EventTypes, LoopTypes, HandlerTypes, HistoryTypes, TypeOK
<1> QED BY <1>1, Invariant, PTL

(* Outside OnEvent epoll watches the socket for what it asks for, whatever *)
(* the handlers did (SocketDispatcher::MayBeUpdateDispatcher,              *)
(* FinishBatchedEventUpdates, Close).                                      *)
THEOREM InterestAlwaysFollows == Spec => []InterestFollows
<1>1. IInv => InterestFollows
  BY DEF IInv, PhaseInv, InterestInv, InterestFollows, Outside
<1> QED BY <1>1, Invariant, PTL

(* Reading, and accepting, is always asked for again (PhysicalSocket::Recv, *)
(* RecvFrom, Accept).                                                       *)
THEOREM ReadingIsWatched == Spec => []ReadWatched
<1>1. IInv => ReadWatched
  BY DEF IInv, RoleInv, ReadInv, PhaseInv, ReadWatched, Outside
<1> QED BY <1>1, Invariant, PTL

(* No connection is closed with data unread, unless it failed              *)
(* (ProcessEvents, SocketDispatcher::IsDescriptorClosed).                  *)
THEOREM NothingIsDropped == Spec => []NoDataDropped
<1>1. IInv => NoDataDropped
  BY DEF IInv, CloseInv, NoDataDropped
<1> QED BY <1>1, Invariant, PTL

(* OnWrite never waits for the mutex of the signal that calls it           *)
(* (HTTPServer::OnWrite).                                                  *)
THEOREM OnWriteNeverBlocks == Spec => []NoSelfDeadlock
<1>1. IInv => NoSelfDeadlock
  BY DEF IInv, WriteInv, NoSelfDeadlock
<1> QED BY <1>1, Invariant, PTL

-----------------------------------------------------------------------------
LEMMA ConnectInductive ==
  ASSUME EarlySend = FALSE
  PROVE  IInv /\ ConnectInv /\ [Next]_vars => ConnectInv'
<1> SUFFICES ASSUME IInv, ConnectInv, [Next]_vars PROVE ConnectInv'
  OBVIOUS
<1> USE DEF ConnectInv
<1>1. CASE CreateSocket \/ Close
  BY <1>1 DEF IInv, PhaseInv, CreateSocket, Close, CloseSocket, Endpoint, Added
<1>2. CASE SendRequest
  BY <1>2, SendAsksForNothing DEF IInv, Types, SendRequest, SendTo, Send, SendCall, Sent
<1>3. ASSUME NEW address, NEW bound, NEW listens, Initialize(address, bound, listens)
      PROVE  ConnectInv'
  BY <1>3 DEF IInv, PhaseInv, Initialize, CloseSocket, Endpoint
<1>4. ASSUME NEW result \in Results, Connect(result)
      PROVE  ConnectInv'
  BY <1>4 DEF IInv, PhaseInv, InterestInv, Connect, Results, kernelVars, Endpoint, Added
<1>5. CASE EpollWait
  BY <1>5 DEF IInv, PhaseInv, EpollWait, Readable, Writable, ErrorOrHangup
<1>6. CASE ProcessEvents
  <2>1. pc = "event" /\ conn \notin {"none", "connecting"} /\ ff = {}
    BY <1>6 DEF IInv, PhaseInv, ProcessEvents, StateAt, StartBatchedEventUpdates
  <2>2. CASE conn = "refused"
    <3>1. "error" \in reported /\ so_error
      BY <2>1, <2>2
    <3> QED BY <1>6, <2>1, <2>2, <3>1
               DEF ProcessEvents, RequestedEvents, EventsIn, EventsOut, StateAt,
                   StartBatchedEventUpdates
  <2>3. CASE conn # "refused"
    <3>1. DE_CONNECT \in ff' => conn \in {"established", "dead"}
      BY <1>6, <2>1, <2>3
         DEF IInv, RoleInv, ProcessEvents, RequestedEvents, EventsIn, EventsOut, StateAt,
             StartBatchedEventUpdates
    <3> QED BY <1>6, <2>1, <2>3, <3>1 DEF ProcessEvents, StateAt, StartBatchedEventUpdates
  <2> QED BY <2>2, <2>3
<1>7. CASE SignalConnectEvent
  BY <1>7 DEF SignalConnectEvent, NextSignal
<1>8. CASE SignalReadEvent
  BY <1>8 DEF SignalReadEvent, NextSignal
<1>9. CASE SignalWriteEvent
  <2>1. conn \in {"connecting", "refused"} => write_slots = 0
    BY DEF IInv, RoleInv, Types, LoopTypes
  <2> QED BY <1>9, <2>1 DEF IInv, SignalWriteEvent, NextSignal
<1>10. CASE SignalCloseEvent
  <2>1. DE_CONNECT \notin ff'
    BY <1>10 DEF SignalCloseEvent, NextSignal, Order
  <2>2. role = "listener" => conn \notin {"connecting", "refused"}
    BY DEF IInv, RoleInv
  <2> QED BY <1>10, <2>1, <2>2 DEF SignalCloseEvent, NextSignal, CloseSocket, Endpoint
<1>11. CASE OnEvent_Returns \/ OnClose_Returns
  BY <1>11 DEF IInv, InterestInv, OnEvent_Returns, OnClose_Returns
<1>12. CASE Accept \/ OnAccept_Returns \/ Recv \/ RecvFrom \/ Recv_Last
  BY <1>12 DEF Accept, OnAccept_Returns, Recv, RecvFrom, Recv_Last
<1>13. CASE OnWrite \/ OnWrite_Last
  <2>1. conn \notin {"connecting", "refused"}
    BY <1>13 DEF OnWrite, OnWrite_Last
  <2> QED BY <1>13, <2>1 DEF OnWrite, OnWrite_Last, Send, SendCall
<1>14. CASE Peer
  BY <1>14
     DEF IInv, PhaseInv, Peer, Network, Arrival, Finish, Reset, PeerReads, ConnectResult,
         Unreachable
<1>15. CASE UNCHANGED vars
  BY <1>15 DEF vars
<1> QED BY <1>1, <1>2, <1>3, <1>4, <1>5, <1>6, <1>7, <1>8, <1>9, <1>10, <1>11, <1>12, <1>13,
   <1>14,
           <1>15 DEF Next, LoopStep

(* A client that waits to be told before it sends is never told that a     *)
(* connection was made that was refused (ProcessEvents).                   *)
THEOREM ConnectsToldTruly == ASSUME EarlySend = FALSE PROVE Spec => []ConnectTruth
<1>1. Init => ConnectInv
  BY DEF Init, ConnectInv
<1>2. ConnectInv => ConnectTruth
  BY DEF ConnectInv, ConnectTruth
<1> QED BY <1>1, <1>2, Invariant, ConnectInductive, PTL DEF Spec

-----------------------------------------------------------------------------
(* What state_ and the client know.                                        *)

(* No connection, none begun. *)
Unconnected == {"none", "fresh", "datagram"}

(* Outside OnEvent state_ is CS_CLOSED exactly when the kernel's socket    *)
(* has no connection, none that ended either, so that Connect accepts a    *)
(* socket when it is free for it and only then; and it is CS_CONNECTING    *)
(* exactly as long as a client waits to hear of its Connect.               *)
StateFollows ==
  Outside =>
    /\ state_ = "CS_CLOSED" <=> conn \in Unconnected
    /\ conn = "connecting" => state_ = "CS_CONNECTING"
    /\ role = "client" => (state_ = "CS_CONNECTING" <=> told = "pending")

(* Inside, state_ is what it will be when the events still to be signalled *)
(* have been.                                                              *)
StateInv ==
  /\ pc = "new" /\ role = "server" => state_ = "CS_CONNECTED"
  /\ conn \in Unconnected /\ (pc = "new" => role # "server") => state_ = "CS_CLOSED"
  /\ conn = "connecting" => state_ = "CS_CONNECTING" /\ ff = {}
  /\ conn \notin Unconnected /\ state_ = "CS_CLOSED" => DE_CLOSE \in ff
  /\ DE_CLOSE \in ff => state_ = "CS_CLOSED" /\ role # "listener"
  /\ DE_CONNECT \in ff => state_ # "CS_CONNECTING"
  /\ role = "client" /\ state_ = "CS_CONNECTING" => told = "pending"
  /\ told = "pending" => /\ role = "client"
                         /\ state_ = "CS_CONNECTING" \/ DE_CONNECT \in ff \/ DE_CLOSE \in ff

LEMMA StateInductive == IInv /\ StateInv /\ [Next]_vars => StateInv'
<1> SUFFICES ASSUME IInv, StateInv, [Next]_vars PROVE StateInv'
  OBVIOUS
<1> USE DEF StateInv, Unconnected
<1>1. CASE CreateSocket \/ Close
  BY <1>1 DEF IInv, PhaseInv, CreateSocket, Close, CloseSocket, Endpoint, Added
<1>2. CASE SendRequest
  BY <1>2, SendAsksForNothing DEF IInv, Types, SendRequest, SendTo, Send, SendCall, Sent
<1>3. ASSUME NEW address, NEW bound, NEW listens, Initialize(address, bound, listens)
      PROVE  StateInv'
  BY <1>3 DEF IInv, PhaseInv, Initialize, CloseSocket, Endpoint
<1>4. ASSUME NEW result \in Results, Connect(result)
      PROVE  StateInv'
  BY <1>4 DEF IInv, PhaseInv, InterestInv, Connect, Results, kernelVars, Endpoint, Added
<1>5. CASE EpollWait
  BY <1>5 DEF EpollWait, Readable, Writable, ErrorOrHangup
<1>6. CASE ProcessEvents
  <2>1. /\ pc = "event" /\ conn \notin {"none", "connecting"} /\ ff = {}
        /\ UNCHANGED <<role, conn, told>> /\ pc' # "new"
    BY <1>6 DEF IInv, PhaseInv, ProcessEvents
  <2>2. state_' = StateAt(ff')
    BY <1>6, <2>1 DEF ProcessEvents, StateAt
  <2>3. PICK error \in BOOLEAN : ff' = RequestedEvents(error) /\ (error => so_error)
    <3> DEFINE error == "error" \in reported /\ so_error
    <3>1. error \in BOOLEAN /\ ff' = RequestedEvents(error) /\ (error => so_error)
      BY <1>6 DEF IInv, Types, EndpointTypeOK, ProcessEvents
    <3> QED BY <3>1
  <2>4. DE_CLOSE \in ff' => conn \notin Unconnected /\ role # "listener"
    BY <2>1, <2>3
       DEF IInv, PhaseInv, RoleInv, RequestedEvents, EventsIn, EventsOut, IsDescriptorClosed, RecvResult
  <2>5. DE_CONNECT \in ff' => conn \in Over \cup {"established"}
    BY <2>1, <2>3 DEF IInv, RoleInv, RequestedEvents, EventsIn, EventsOut
  <2> QED BY <2>1, <2>2, <2>4, <2>5 DEF StateAt
<1>7. CASE SignalConnectEvent
  BY <1>7 DEF SignalConnectEvent, NextSignal
<1>8. CASE SignalReadEvent
  BY <1>8 DEF SignalReadEvent, NextSignal
<1>9. CASE SignalWriteEvent
  BY <1>9 DEF SignalWriteEvent, NextSignal
<1>10. CASE SignalCloseEvent
  <2>1. DE_CONNECT \notin ff' /\ DE_CLOSE \in ff /\ pc = "signal"
    BY <1>10 DEF SignalCloseEvent, NextSignal, Order
  <2> QED BY <1>10, <2>1 DEF SignalCloseEvent, NextSignal, CloseSocket, Endpoint
<1>11. CASE OnEvent_Returns \/ OnClose_Returns
  BY <1>11 DEF OnEvent_Returns, OnClose_Returns
<1>12. CASE Accept \/ OnAccept_Returns \/ Recv \/ RecvFrom \/ Recv_Last
  BY <1>12 DEF Accept, OnAccept_Returns, Recv, RecvFrom, Recv_Last
<1>13. CASE OnWrite \/ OnWrite_Last
  BY <1>13 DEF OnWrite, OnWrite_Last, Send, SendCall
<1>14. CASE Peer
  BY <1>14
     DEF IInv, PhaseInv, Peer, Network, Arrival, Finish, Reset, PeerReads, ConnectResult,
         Unreachable
<1>15. CASE UNCHANGED vars
  BY <1>15 DEF vars
<1> QED BY <1>1, <1>2, <1>3, <1>4, <1>5, <1>6, <1>7, <1>8, <1>9, <1>10, <1>11, <1>12, <1>13,
   <1>14, <1>15 DEF Next, LoopStep

(* state_ never disagrees with the kernel for longer than an OnEvent, on   *)
(* any path: refused at once or later, closed by either side, connected    *)
(* again in OnClose; and whoever asked for a connection has heard of it    *)
(* when state_ moves on (Connect, OnEvent, Close, SetState).               *)
THEOREM StateIsTrue == Spec => []StateFollows
<1>1. Init => StateInv
  BY DEF Init, StateInv, Unconnected
<1>2. IInv /\ StateInv => StateFollows
  BY DEF IInv, PhaseInv, StateInv, StateFollows, Outside
<1> QED BY <1>1, <1>2, Invariant, StateInductive, PTL DEF Spec
=============================================================================
