---------------------- MODULE PhysicalSocketServerProofs ----------------------
(***************************************************************************)
(* Theorems about PhysicalSocketServer.tla, for any number of threads,     *)
(* sockets, descriptors and keys, both backends and any size of the event  *)
(* array.                                                                  *)
(***************************************************************************)
EXTENDS PhysicalSocketServer, FiniteSetTheorems, TLAPS

(* TypeOK in two halves: what the operations on sockets change, and what   *)
(* Wait and WakeUp change.                                                 *)
RegistryType ==
  /\ next_dispatcher_key_ \in 0..(MaxKey + 1)
  /\ key_by_dispatcher_ \in [Dispatchers -> Keys \cup {NoKey}]
  /\ dispatcher_by_key_ \in [Keys -> Dispatchers \cup {None}]
  /\ s_ \in [Dispatchers -> Fds \cup {SignalFd, None}]
  /\ enabled \in [Dispatchers -> SUBSET Events]
  /\ saved_enabled_events_ \in [of : Sockets, events : SUBSET Events] \cup {None}
  /\ epoll \in [Fds \cup {SignalFd} -> Entry \cup {None}]
  /\ op \in [Threads -> {Idle} \cup [step : Steps, on : Sockets]]
  /\ gen \in [Dispatchers -> Nat]

WaitType ==
  /\ pipe \in Nat
  /\ f_signaled_ \in BOOLEAN
  /\ signal_mutex \in Threads \cup {None}
  /\ flag_wait_ \in BOOLEAN
  /\ pc \in {"out", "collect", "poll", "lock", "batch", "signaler", "callback", "again"}
  /\ cms_wait \in {"forever", "timed"}
  /\ process_io \in BOOLEAN
  /\ batch \subseteq Event
  /\ fd_sets \subseteq Fds \cup {SignalFd}
  /\ current_dispatcher_keys_ \subseteq Keys /\ keys_left \subseteq Keys
  /\ backend \in {"epoll", "select"}

(* The threads that have a key to come: the bound on keys leaves one each. *)
Adders == {t \in Threads : op[t].step = "add"}
KeyRoom == next_dispatcher_key_ + Cardinality(Adders) <= MaxKey + 1

(* The two maps are inverse to each other, and keys are handed out once.   *)
Registry ==
  /\ \A d \in Dispatchers : key_by_dispatcher_[d] # NoKey =>
       /\ key_by_dispatcher_[d] < next_dispatcher_key_
       /\ dispatcher_by_key_[key_by_dispatcher_[d]] = d
  /\ \A k \in Keys : dispatcher_by_key_[k] # None =>
       key_by_dispatcher_[dispatcher_by_key_[k]] = k
  /\ key_by_dispatcher_[Signaler] = 0

(* No two sockets share a descriptor; one that is added has one.           *)
Descriptors ==
  /\ s_[Signaler] = SignalFd
  /\ \A d \in Sockets : s_[d] \in Fds \cup {None}
  /\ \A d, e \in Sockets : s_[d] = s_[e] /\ s_[d] # None => d = e
  /\ \A d \in Sockets : key_by_dispatcher_[d] # NoKey => s_[d] # None

(* A socket is being created or closed by one thread at a time; before Add *)
(* and after Remove it is not in the maps.                                 *)
Owning(t) == op[t].step \in {"add", "remove", "close"}
Operations ==
  /\ \A t \in Threads : Owning(t) => s_[op[t].on] # None
  /\ \A t \in Threads : op[t].step \in {"add", "close"} => key_by_dispatcher_[op[t].on] = NoKey
  /\ \A t, u \in Threads : Owning(t) /\ Owning(u) /\ op[t].on = op[u].on => t = u

SignalerWatched == backend = "epoll" => epoll[SignalFd] = [key |-> 0, events |-> Events]

(* What an OnEvent found is kept until it ends.  A socket that is removed  *)
(* in its OnEvent, or has no key there, was closed in it; the loop thread  *)
(* has no Update of its own to make there.                                 *)
SavedInv ==
  /\ saved_enabled_events_ # None => pc = "callback" /\ backend = "epoll"
  /\ \A d \in Sockets : InOnEvent(d) =>
       /\ ~(op[Loop].step = "update" /\ op[Loop].on = d)
       /\ \/ saved_enabled_events_.events = {}
          \/ key_by_dispatcher_[d] # NoKey /\ ~(op[Loop].step = "remove" /\ op[Loop].on = d)

(* In its OnEvent epoll watches a socket for what it watched at the start, *)
(* or for something if the socket was closed and opened again.             *)
Synced(d) ==
  IF InOnEvent(d) THEN \/ Watched(d) = saved_enabled_events_.events
                       \/ saved_enabled_events_.events = {} /\ enabled[d] # {}
                  ELSE Watched(d) = enabled[d]

InterestInv ==
  \A d \in Sockets : (backend = "epoll" /\ key_by_dispatcher_[d] # NoKey /\ ~Updating(d)) => Synced(d)

SocketsInv == /\ RegistryType /\ KeyRoom /\ Registry /\ Descriptors /\ Operations
              /\ EpollSound /\ SavedInv /\ InterestInv /\ SignalerWatched

-----------------------------------------------------------------------------
LEMMA AddersFinite == IsFiniteSet(Adders) /\ Cardinality(Adders) \in Nat
<1>1. IsFiniteSet(Threads)
  BY PSSAssumption, FS_AddElement DEF Threads
<1>2. Adders \subseteq Threads
  BY DEF Adders
<1> QED
  BY <1>1, <1>2, FS_Subset, FS_CardinalityType

(* A thread in an operation works on a socket. *)
LEMMA OpOnSocket ==
  ASSUME RegistryType, NEW t \in Threads, op[t].step # "idle"
  PROVE  /\ op[t] \in [step : Steps, on : Sockets]
         /\ op[t].step \in Steps /\ op[t].on \in Sockets
         /\ op[t].on \in Dispatchers /\ op[t].on # Signaler
  BY PSSAssumption DEF RegistryType, Idle, Dispatchers

(* An operation other than Create and Add changes nothing for KeyRoom.     *)
LEMMA RoomKept ==
  ASSUME RegistryType, KeyRoom, NEW t \in Threads, NEW x, op' = [op EXCEPT ![t] = x],
         x.step # "add", op[t].step # "add", next_dispatcher_key_' = next_dispatcher_key_
  PROVE  KeyRoom'
<1>1. Adders' = Adders
  BY DEF Adders, RegistryType
<1> QED
  BY <1>1 DEF KeyRoom

(* A socket's OnEvent runs with recursive_mutex_ held.                     *)
LEMMA LockedOnEvent ==
  ASSUME SavedInv, NEW d \in Sockets, InOnEvent(d), NEW t \in Threads, MayLock(t)
  PROVE  t = Loop
  BY DEF SavedInv, InOnEvent, MayLock, BatchLocked

(* An operation after which the loop thread neither updates nor removes,   *)
(* and no socket is without a key that had one.                            *)
LEMMA SavedKept ==
  ASSUME SavedInv, UNCHANGED <<saved_enabled_events_, pc, backend>>,
         op'[Loop] = op[Loop] \/ op'[Loop].step \notin {"update", "remove"},
         \A d \in Sockets : (InOnEvent(d) /\ key_by_dispatcher_'[d] = NoKey) =>
           key_by_dispatcher_[d] = NoKey \/ saved_enabled_events_.events = {}
  PROVE  SavedInv'
  BY DEF SavedInv, InOnEvent

(* The entries of the interest list: whose they are.                       *)
LEMMA EntryOwner ==
  ASSUME RegistryType, Registry, Descriptors, EpollSound, NEW d \in Dispatchers,
         s_[d] # None, epoll[s_[d]] # None
  PROVE  key_by_dispatcher_[d] = epoll[s_[d]].key /\ key_by_dispatcher_[d] # NoKey
<1>1. s_[d] \in Fds \cup {SignalFd}
  BY DEF RegistryType
<1>2. PICK e \in Dispatchers : s_[e] = s_[d] /\ key_by_dispatcher_[e] = epoll[s_[d]].key
  BY <1>1 DEF EpollSound
<1>3. e = d
  BY <1>2, PSSAssumption DEF Descriptors, Dispatchers
<1>4. epoll[s_[d]].key \in Keys
  BY <1>1 DEF RegistryType, Entry
<1>5. NoKey \notin Keys
  BY PSSAssumption DEF NoKey, Keys
<1> QED
  BY <1>2, <1>3, <1>4, <1>5

(* Each operation keeps what the sockets and the registry rest on.         *)
LEMMA CreateStep ==
  ASSUME SocketsInv, NEW t \in Threads, NEW d \in Sockets, NEW fd \in Fds, Create(t, d, fd)
  PROVE  SocketsInv'
<1> USE DEF SocketsInv
<1>1. /\ op[t] = Idle /\ s_[d] = None /\ d \in Dispatchers /\ d # Signaler /\ fd # None /\ fd # SignalFd
      /\ \A e \in Sockets : s_[e] # fd
      /\ next_dispatcher_key_ + Cardinality(Adders) <= MaxKey
      /\ s_' = [s_ EXCEPT ![d] = fd]
      /\ enabled' \in [Dispatchers -> SUBSET Events]
      /\ \A e \in Dispatchers \ {d} : enabled'[e] = enabled[e]
      /\ op' = [op EXCEPT ![t] = [step |-> "add", on |-> d]]
      /\ UNCHANGED <<next_dispatcher_key_, key_by_dispatcher_, dispatcher_by_key_, epoll, gen, backend>>
      /\ UNCHANGED <<saved_enabled_events_, pc>>
  BY PSSAssumption DEF Create, Free, Dispatchers, RegistryType, registryVars, waitVars, Adders
<1>2. op[t].step = "idle"
  BY <1>1 DEF Idle
<1>3. RegistryType'
  BY <1>1 DEF RegistryType, Steps
<1>4. KeyRoom'
  <2>1. Adders' = Adders \cup {t} /\ t \notin Adders
    BY <1>1, <1>2 DEF Adders, RegistryType
  <2>2. Cardinality(Adders') = Cardinality(Adders) + 1
    BY <2>1, AddersFinite, FS_AddElement
  <2> QED
    BY <2>2, <1>1, AddersFinite, PSSAssumption DEF KeyRoom, RegistryType
<1>5. Registry'
  BY <1>1 DEF Registry
<1>6. Descriptors'
  BY <1>1, PSSAssumption DEF Descriptors, RegistryType, Dispatchers
<1>7. key_by_dispatcher_[d] = NoKey
  BY <1>1 DEF Descriptors
<1>8. \A u \in Threads : Owning(u) => op[u].on # d
  BY <1>1 DEF Operations
<1>9. Operations'
  <2>1. \A u \in Threads \ {t} : op'[u] = op[u]
    BY <1>1 DEF RegistryType
  <2>2. op'[t].step = "add" /\ op'[t].on = d
    BY <1>1 DEF RegistryType
  <2>3. \A u \in Threads \ {t} : Owning(u)' => Owning(u) /\ op[u].on # d /\ op[u].on \in Dispatchers
    BY <2>1, <1>8, OpOnSocket DEF Owning
  <2>4. \A e \in Dispatchers \ {d} : s_'[e] = s_[e]
    BY <1>1 DEF RegistryType
  <2>5. s_'[d] = fd
    BY <1>1 DEF RegistryType
  <2>6. \A u \in Threads : Owning(u)' => s_'[op'[u].on] # None
    BY <2>1, <2>2, <2>3, <2>4, <2>5, <1>1 DEF Operations
  <2>7. \A u \in Threads : op'[u].step \in {"add", "close"} => key_by_dispatcher_'[op'[u].on] = NoKey
    BY <2>1, <2>2, <1>1, <1>7 DEF Operations
  <2>8. \A u, v \in Threads : Owning(u)' /\ Owning(v)' /\ op'[u].on = op'[v].on => u = v
    BY <2>1, <2>2, <2>3 DEF Operations
  <2> QED
    BY <2>6, <2>7, <2>8 DEF Operations, Owning
<1>10. EpollSound'
  <2>1. \A e \in Dispatchers \ {d} : s_'[e] = s_[e]
    BY <1>1 DEF RegistryType
  <2>2. None \notin Fds \cup {SignalFd}
    BY PSSAssumption
  <2> QED
    BY <2>1, <2>2, <1>1 DEF EpollSound
<1>11. InterestInv'
  <2> SUFFICES ASSUME NEW e \in Sockets, backend = "epoll", key_by_dispatcher_[e] # NoKey, ~Updating(e)'
               PROVE  Synced(e)'
    BY <1>1 DEF InterestInv
  <2>1. e # d
    BY <1>7
  <2>2. e \in Dispatchers /\ s_'[e] = s_[e] /\ enabled'[e] = enabled[e]
    BY <2>1, <1>1 DEF RegistryType, Dispatchers
  <2>3. ~Updating(e)
    BY <1>1, <1>2 DEF Updating, RegistryType
  <2> QED
    BY <2>2, <2>3, <1>1 DEF InterestInv, Synced, Watched, InOnEvent
<1>12. SignalerWatched'
  BY <1>1 DEF SignalerWatched
<1>13. SavedInv'
  <2>1. op'[Loop] = op[Loop] \/ op'[Loop].step \notin {"update", "remove"}
    BY <1>1 DEF RegistryType, Threads
  <2> QED
    BY <2>1, <1>1, SavedKept
<1> QED
  BY <1>3, <1>4, <1>5, <1>6, <1>9, <1>10, <1>11, <1>12, <1>13

LEMMA AddStep ==
  ASSUME SocketsInv, NEW t \in Threads, Add(t)
  PROVE  SocketsInv'
<1> USE DEF SocketsInv
<1>sock. PICK d \in Sockets : d = op[t].on
  BY OpOnSocket DEF Add
<1>1. /\ op[t].step = "add" /\ d \in Dispatchers /\ d # Signaler /\ d # None
      /\ s_[d] \in Fds /\ key_by_dispatcher_[d] = NoKey
  BY <1>sock, OpOnSocket, PSSAssumption DEF Add, Operations, Owning, Descriptors
<1>2. t \in Adders /\ Adders' = Adders \ {t}
  BY <1>1 DEF Add, Adders, RegistryType, Idle
<1>3. Cardinality(Adders') = Cardinality(Adders) - 1 /\ Cardinality(Adders) \in Nat
  BY <1>2, AddersFinite, FS_RemoveElement
<1>4. Cardinality(Adders') \in Nat
  BY <1>2, AddersFinite, FS_RemoveElement, FS_CardinalityType
<1>key. PICK key : key = next_dispatcher_key_
  OBVIOUS
<1>5. /\ key \in Keys /\ next_dispatcher_key_' = key + 1 /\ KeyRoom'
      /\ next_dispatcher_key_' \in 0..(MaxKey + 1)
  BY <1>key, <1>3, <1>4, PSSAssumption DEF KeyRoom, RegistryType, Add, Keys
<1>6. /\ key_by_dispatcher_' = [key_by_dispatcher_ EXCEPT ![d] = key]
      /\ dispatcher_by_key_' = [dispatcher_by_key_ EXCEPT ![key] = d]
      /\ epoll' = IF enabled[d] = {} \/ backend = "select" THEN epoll
                  ELSE [epoll EXCEPT ![s_[d]] = [key |-> key, events |-> enabled[d]]]
      /\ gen' = [gen EXCEPT ![d] = @ + 1]
      /\ op' = [op EXCEPT ![t] = Idle]
      /\ UNCHANGED <<s_, enabled, saved_enabled_events_, pc, backend>>
  BY <1>sock, <1>key DEF Add, socketVars, waitVars
<1>7. [key |-> key, events |-> enabled[d]] \in Entry /\ key # NoKey
  BY <1>1, <1>5, PSSAssumption DEF Entry, RegistryType, Keys, NoKey
<1>8. RegistryType'
  BY <1>1, <1>5, <1>6, <1>7, PSSAssumption DEF RegistryType
<1>9. /\ \A e \in Dispatchers \ {d} : key_by_dispatcher_'[e] = key_by_dispatcher_[e]
      /\ key_by_dispatcher_'[d] = key
      /\ \A k \in Keys \ {key} : dispatcher_by_key_'[k] = dispatcher_by_key_[k]
      /\ dispatcher_by_key_'[key] = d
      /\ \A u \in Threads \ {t} : op'[u] = op[u]
      /\ op'[t].step = "idle"
  BY <1>1, <1>5, <1>6 DEF RegistryType, Idle
<1>10. /\ \A e \in Dispatchers : key_by_dispatcher_[e] \in Keys \cup {NoKey}
       /\ \A k \in Keys : dispatcher_by_key_[k] \in Dispatchers \cup {None}
       /\ \A k \in Keys : k \in Nat
       /\ None \notin Dispatchers /\ key \in Nat
  BY <1>5, PSSAssumption DEF RegistryType, Keys
<1>11. Registry'
  <2>1. \A e \in Dispatchers : key_by_dispatcher_'[e] # NoKey =>
          key_by_dispatcher_'[e] < next_dispatcher_key_' /\ dispatcher_by_key_'[key_by_dispatcher_'[e]] = e
    <3> SUFFICES ASSUME NEW e \in Dispatchers, key_by_dispatcher_'[e] # NoKey
                 PROVE  /\ key_by_dispatcher_'[e] < next_dispatcher_key_'
                        /\ dispatcher_by_key_'[key_by_dispatcher_'[e]] = e
      OBVIOUS
    <3>1. CASE e = d
      BY <3>1, <1>5, <1>9, <1>10
    <3>2. CASE e # d
      <4>1. key_by_dispatcher_'[e] = key_by_dispatcher_[e] /\ key_by_dispatcher_[e] \in Keys
        BY <3>2, <1>9, <1>10
      <4>2. key_by_dispatcher_[e] < key /\ dispatcher_by_key_[key_by_dispatcher_[e]] = e
        BY <4>1, <1>key DEF Registry
      <4>3. key_by_dispatcher_[e] \in Nat /\ key \in Nat
        BY <4>1, <1>10
      <4>4. key_by_dispatcher_[e] # key /\ key_by_dispatcher_[e] < key + 1
        BY <4>2, <4>3
      <4>5. dispatcher_by_key_'[key_by_dispatcher_[e]] = e
        BY <4>1, <4>2, <4>4, <1>9
      <4> QED
        BY <4>1, <4>4, <4>5, <1>5
    <3> QED
      BY <3>1, <3>2
  <2>2. \A k \in Keys : dispatcher_by_key_'[k] # None =>
          key_by_dispatcher_'[dispatcher_by_key_'[k]] = k
    <3>1. \A k \in Keys : dispatcher_by_key_[k] # d
      BY <1>1, <1>10, PSSAssumption DEF Registry, Keys, NoKey
    <3> QED
      BY <1>9, <1>10, <3>1 DEF Registry
  <2>3. key_by_dispatcher_'[Signaler] = 0
    BY <1>1, <1>9 DEF Registry, Dispatchers
  <2> QED
    BY <2>1, <2>2, <2>3 DEF Registry
<1>12. Descriptors'
  BY <1>1, <1>6, <1>9, PSSAssumption DEF Descriptors, Dispatchers
<1>13. Operations'
  <2>1. \A u \in Threads : Owning(u)' => u # t /\ Owning(u) /\ op[u].on \in Dispatchers /\ op[u].on # d
    BY <1>sock, <1>1, <1>9, OpOnSocket DEF Operations, Owning
  <2>2. \A u \in Threads : op'[u].step \in {"add", "close"} => u # t /\ Owning(u)'
    BY <1>9 DEF Owning
  <2> QED
    BY <2>1, <2>2, <1>6, <1>9 DEF Operations, Owning
<1>14. epoll[s_[d]] = None
  BY <1>1, EntryOwner, PSSAssumption
<1>15. EpollSound'
  <2> SUFFICES ASSUME NEW fd \in Fds \cup {SignalFd}, epoll'[fd] # None
               PROVE  \E e \in Dispatchers : /\ s_[e] = fd
                                             /\ key_by_dispatcher_'[e] = epoll'[fd].key
                                             /\ dispatcher_by_key_'[epoll'[fd].key] = e
    BY <1>6 DEF EpollSound
  <2>1. CASE epoll'[fd] = epoll[fd]
    <3>1. PICK e \in Dispatchers : /\ s_[e] = fd /\ key_by_dispatcher_[e] = epoll[fd].key
                                   /\ dispatcher_by_key_[epoll[fd].key] = e
      BY <2>1 DEF EpollSound
    <3>2. e # d
      BY <3>1, <2>1, <1>14
    <3>3. epoll[fd].key \in Keys
      BY <2>1 DEF RegistryType, Entry
    <3>4. epoll[fd].key # key
      BY <1>key, <3>1, <3>3, <1>10, PSSAssumption DEF Registry, Keys, NoKey
    <3> QED
      BY <3>1, <3>2, <3>3, <3>4, <2>1, <1>9
  <2>2. CASE epoll'[fd] # epoll[fd]
    <3>1. fd = s_[d] /\ epoll'[fd].key = key
      BY <2>2, <1>1, <1>6 DEF RegistryType
    <3> QED
      BY <3>1, <1>1, <1>9
  <2> QED
    BY <2>1, <2>2
<1>16. InterestInv'
  <2> SUFFICES ASSUME NEW e \in Sockets, backend = "epoll", key_by_dispatcher_'[e] # NoKey, ~Updating(e)'
               PROVE  Synced(e)'
    BY <1>6 DEF InterestInv
  <2>1. CASE e = d
    <3>1. Watched(d)' = enabled[d]
      BY <2>1, <1>1, <1>6, <1>7, <1>14, PSSAssumption DEF RegistryType, Entry, Watched
    <3>2. InOnEvent(d) => saved_enabled_events_.events = {}
      BY <2>1, <1>1 DEF SavedInv
    <3> QED
      BY <2>1, <3>1, <3>2, <1>6 DEF Synced, InOnEvent
  <2>2. CASE e # d
    <3>1. e \in Dispatchers /\ key_by_dispatcher_[e] # NoKey
      BY <2>2, <1>9 DEF Dispatchers
    <3>2. s_[e] \in Fds /\ s_[e] # s_[d]
      BY <2>2, <3>1, <1>1 DEF Descriptors
    <3>3. epoll'[s_[e]] = epoll[s_[e]]
      BY <3>2, <1>1, <1>6 DEF RegistryType
    <3>4. ~Updating(e)
      BY <1>sock, <1>1, <1>9 DEF Updating
    <3> QED
      BY <3>1, <3>3, <3>4, <1>6 DEF InterestInv, Synced, Watched, InOnEvent
  <2> QED
    BY <2>1, <2>2
<1>17. SignalerWatched'
  BY <1>1, <1>6, PSSAssumption DEF SignalerWatched, RegistryType
<1>18. SavedInv'
  <2>1. Loop \in Threads /\ Sockets \subseteq Dispatchers
    BY DEF Threads, Dispatchers
  <2>2. op'[Loop] = op[Loop] \/ op'[Loop].step \notin {"update", "remove"}
    BY <2>1, <1>9
  <2>3. \A e \in Sockets : key_by_dispatcher_'[e] = NoKey => key_by_dispatcher_[e] = NoKey
    BY <2>1, <1>7, <1>9
  <2> QED
    BY <2>2, <2>3, <1>6, SavedKept
<1> QED
  BY <1>5, <1>8, <1>11, <1>12, <1>13, <1>15, <1>16, <1>17, <1>18

LEMMA SetEventsStep ==
  ASSUME SocketsInv, NEW t \in Threads, NEW d \in Sockets, NEW ev \in SUBSET Events, SetEvents(t, d, ev)
  PROVE  SocketsInv'
<1> USE DEF SocketsInv
<1>1. /\ op[t].step = "idle" /\ d \in Dispatchers
      /\ enabled' = [enabled EXCEPT ![d] = ev]
      /\ \/ (backend = "select" \/ InOnEvent(d)) /\ op' = op
         \/ backend # "select" /\ ~InOnEvent(d) /\ op' = [op EXCEPT ![t] = [step |-> "update", on |-> d]]
      /\ UNCHANGED <<next_dispatcher_key_, key_by_dispatcher_, dispatcher_by_key_, epoll, gen, s_, backend>>
      /\ UNCHANGED <<saved_enabled_events_, pc>>
  BY DEF SetEvents, Free, Idle, Dispatchers, registryVars, waitVars
<1>2. /\ op'[t].step \in {"idle", "update"}
      /\ \A u \in Threads \ {t} : op'[u] = op[u]
  BY <1>1 DEF RegistryType
<1>3. RegistryType'
  BY <1>1 DEF RegistryType, Steps
<1>4. KeyRoom'
  <2>1. Adders' = Adders
    BY <1>1, <1>2 DEF Adders
  <2> QED
    BY <2>1, <1>1 DEF KeyRoom
<1>5. Registry' /\ Descriptors' /\ EpollSound' /\ SignalerWatched'
  BY <1>1 DEF Registry, Descriptors, EpollSound, SignalerWatched
<1>6. Operations'
  <2>1. \A u \in Threads : Owning(u)' \/ op'[u].step \in {"add", "close"} => u # t
    BY <1>2 DEF Owning
  <2> QED
    BY <2>1, <1>1, <1>2 DEF Operations, Owning
<1>7. InterestInv'
  <2> SUFFICES ASSUME NEW e \in Sockets, backend = "epoll", key_by_dispatcher_[e] # NoKey, ~Updating(e)'
               PROVE  Synced(e)'
    BY <1>1 DEF InterestInv
  <2>1. ~Updating(e) /\ Synced(e)
    BY <1>1, <1>2 DEF Updating, InterestInv
  <2>2. Watched(e)' = Watched(e) /\ InOnEvent(e)' = InOnEvent(e)
    BY <1>1 DEF Watched, InOnEvent
  <2>3. CASE e = d
    <3>1. InOnEvent(d)
      <4> SUFFICES ASSUME ~InOnEvent(d) PROVE FALSE
        OBVIOUS
      <4>1. op' = [op EXCEPT ![t] = [step |-> "update", on |-> d]]
        BY <1>1
      <4>2. op'[t].step = "update" /\ op'[t].on = d
        BY <4>1 DEF RegistryType
      <4> QED
        BY <4>2, <2>3 DEF Updating
    <3>2. saved_enabled_events_.events = {} /\ ev = {} => Watched(d) = {}
      BY <2>1, <2>3, <3>1 DEF SetEvents, Reopened
    <3>3. enabled'[d] = ev
      BY <1>1 DEF RegistryType
    <3> QED
      BY <2>1, <2>2, <2>3, <3>1, <3>2, <3>3, <1>1 DEF Synced
  <2>4. CASE e # d
    <3>1. enabled'[e] = enabled[e]
      BY <2>4, <1>1 DEF RegistryType, Dispatchers
    <3> QED
      BY <2>1, <2>2, <3>1, <1>1 DEF Synced
  <2> QED
    BY <2>3, <2>4
<1>8. SavedInv'
  <2>1. \/ op' = op
        \/ ~InOnEvent(d) /\ op' = [op EXCEPT ![t] = [step |-> "update", on |-> d]]
    BY <1>1
  <2>2. CASE op' = op
    BY <2>2, <1>1 DEF SavedInv, InOnEvent
  <2>3. CASE ~InOnEvent(d) /\ op' = [op EXCEPT ![t] = [step |-> "update", on |-> d]]
    <3>1. \/ op'[Loop] = op[Loop]
          \/ op'[Loop].step = "update" /\ op'[Loop].on = d
      BY <2>3 DEF RegistryType, Threads
    <3> QED
      BY <2>3, <3>1, <1>1 DEF SavedInv, InOnEvent
  <2> QED
    BY <2>1, <2>2, <2>3
<1> QED
  BY <1>3, <1>4, <1>5, <1>6, <1>7, <1>8

LEMMA CloseStep ==
  ASSUME SocketsInv, NEW t \in Threads, NEW d \in Sockets, Close(t, d)
  PROVE  SocketsInv'
<1> USE DEF SocketsInv
<1>1. /\ op[t].step = "idle" /\ d \in Dispatchers /\ s_[d] # None
      /\ op' = [op EXCEPT ![t] = [step |-> "remove", on |-> d]]
      /\ saved_enabled_events_' = IF InOnEvent(d) THEN [saved_enabled_events_ EXCEPT !.events = {}]
                                                  ELSE saved_enabled_events_
      /\ UNCHANGED <<next_dispatcher_key_, key_by_dispatcher_, dispatcher_by_key_, epoll, gen, s_, enabled, backend, pc>>
      /\ \A u \in Threads : Owning(u) => op[u].on # d
  BY DEF Close, Free, Settled, Idle, Owning, Dispatchers, registryVars, socketVars, waitVars
<1>2. /\ op'[t].step = "remove" /\ op'[t].on = d
      /\ \A u \in Threads \ {t} : op'[u] = op[u]
  BY <1>1 DEF RegistryType
<1>saved. /\ InOnEvent(d) => InOnEvent(d)' /\ saved_enabled_events_'.events = {}
          /\ \A e \in Sockets \ {d} : InOnEvent(e)' = InOnEvent(e)
          /\ InOnEvent(d)' = InOnEvent(d)
          /\ ~InOnEvent(d) => saved_enabled_events_' = saved_enabled_events_
          /\ saved_enabled_events_' \in [of : Sockets, events : SUBSET Events] \cup {None}
          /\ saved_enabled_events_ = None => saved_enabled_events_' = None
  BY <1>1, PSSAssumption DEF InOnEvent, RegistryType
<1>3. RegistryType'
  <2>1. op' \in [Threads -> {Idle} \cup [step : Steps, on : Sockets]]
    BY <1>1 DEF RegistryType, Steps
  <2> QED
    BY <2>1, <1>1, <1>saved DEF RegistryType
<1>4. KeyRoom'
  <2>1. Adders' = Adders
    BY <1>1, <1>2 DEF Adders
  <2> QED
    BY <2>1, <1>1 DEF KeyRoom
<1>5. Registry' /\ Descriptors' /\ EpollSound' /\ SignalerWatched'
  BY <1>1 DEF Registry, Descriptors, EpollSound, SignalerWatched
<1>6. Operations'
  BY <1>1, <1>2 DEF Operations, Owning
<1>7. \A e \in Sockets : ~Updating(e)' => ~Updating(e) /\ e # d
  BY <1>1, <1>2 DEF Updating
<1>8. InterestInv'
  <2> SUFFICES ASSUME NEW e \in Sockets, backend = "epoll", key_by_dispatcher_[e] # NoKey, ~Updating(e)'
               PROVE  Synced(e)'
    BY <1>1 DEF InterestInv
  <2>1. Synced(e) /\ e # d
    BY <1>7 DEF InterestInv
  <2>2. InOnEvent(e) => ~InOnEvent(d)
    BY <2>1 DEF InOnEvent
  <2>3. Watched(e)' = Watched(e) /\ enabled'[e] = enabled[e]
    BY <1>1 DEF Watched
  <2> QED
    BY <2>1, <2>2, <2>3, <1>saved DEF Synced
<1>9. SavedInv'
  <2>1. saved_enabled_events_' # None => pc' = "callback" /\ backend' = "epoll"
    BY <1>1, <1>saved DEF SavedInv
  <2>2. \/ op'[Loop] = op[Loop]
        \/ op'[Loop].step = "remove" /\ op'[Loop].on = d
    BY <1>2 DEF Threads
  <2>3. ASSUME NEW e \in Sockets, InOnEvent(e)', e # d
        PROVE  InOnEvent(e) /\ saved_enabled_events_' = saved_enabled_events_
    BY <2>3, <1>saved DEF InOnEvent
  <2>4. ASSUME NEW e \in Sockets, InOnEvent(e)'
        PROVE  /\ ~(op'[Loop].step = "update" /\ op'[Loop].on = e)
               /\ \/ saved_enabled_events_'.events = {}
                  \/ key_by_dispatcher_'[e] # NoKey /\ ~(op'[Loop].step = "remove" /\ op'[Loop].on = e)
    <3>1. CASE e = d
      BY <2>2, <2>4, <3>1, <1>saved DEF SavedInv
    <3>2. CASE e # d
      BY <2>2, <2>3, <2>4, <3>2, <1>1 DEF SavedInv
    <3> QED
      BY <3>1, <3>2
  <2> QED
    BY <2>1, <2>4 DEF SavedInv
<1> QED
  BY <1>3, <1>4, <1>5, <1>6, <1>8, <1>9

LEMMA UpdateStep ==
  ASSUME SocketsInv, NEW t \in Threads, Update(t)
  PROVE  SocketsInv'
<1> USE DEF SocketsInv
<1>sock. PICK d \in Sockets : d = op[t].on
  BY OpOnSocket DEF Update
<1>key. PICK key : key = key_by_dispatcher_[d]
  OBVIOUS
<1>1. /\ op[t].step = "update" /\ d \in Dispatchers /\ d # Signaler /\ key \in Keys \cup {NoKey}
      /\ op' = [op EXCEPT ![t] = Idle]
      /\ epoll' = IF key = NoKey \/ (enabled[d] = {} /\ epoll[s_[d]] = None) THEN epoll
                  ELSE [epoll EXCEPT ![s_[d]] = [key |-> key, events |-> enabled[d]]]
      /\ UNCHANGED <<next_dispatcher_key_, key_by_dispatcher_, dispatcher_by_key_, gen, s_, enabled, backend>>
      /\ UNCHANGED <<saved_enabled_events_, pc>>
  BY <1>sock, <1>key, PSSAssumption DEF Update, Dispatchers, socketVars, waitVars, RegistryType
<1>2. /\ op'[t].step = "idle"
      /\ \A u \in Threads \ {t} : op'[u] = op[u]
  BY <1>1 DEF RegistryType, Idle
<1>3. key # NoKey => s_[d] \in Fds
  BY <1>key, <1>1 DEF Descriptors
<1>4. /\ epoll' = epoll \/ (key # NoKey /\ epoll' = [epoll EXCEPT ![s_[d]] = [key |-> key, events |-> enabled[d]]])
      /\ key # NoKey => [key |-> key, events |-> enabled[d]] \in Entry
  BY <1>1 DEF RegistryType, Entry
<1>5. RegistryType'
  <2>1. epoll' \in [Fds \cup {SignalFd} -> Entry \cup {None}]
    BY <1>3, <1>4 DEF RegistryType
  <2> QED
    BY <2>1, <1>1 DEF RegistryType
<1>6. KeyRoom'
  <2>1. Idle.step # "add"
    BY DEF Idle
  <2> QED
    BY <2>1, <1>1, RoomKept
<1>7. Registry' /\ Descriptors'
  BY <1>1 DEF Registry, Descriptors
<1>8. Operations'
  <2>1. \A u \in Threads : Owning(u)' \/ op'[u].step \in {"add", "close"} => u # t
    BY <1>2 DEF Owning
  <2> QED
    BY <2>1, <1>1, <1>2 DEF Operations, Owning
<1>9. EpollSound'
  <2> SUFFICES ASSUME NEW fd \in Fds \cup {SignalFd}, epoll'[fd] # None
               PROVE  \E e \in Dispatchers : /\ s_[e] = fd
                                             /\ key_by_dispatcher_[e] = epoll'[fd].key
                                             /\ dispatcher_by_key_[epoll'[fd].key] = e
    BY <1>1 DEF EpollSound
  <2>1. CASE epoll'[fd] = epoll[fd]
    BY <2>1 DEF EpollSound
  <2>2. CASE epoll'[fd] # epoll[fd]
    <3>1. fd = s_[d] /\ epoll'[fd].key = key /\ key # NoKey
      BY <2>2, <1>3, <1>4 DEF RegistryType
    <3> QED
      BY <3>1, <1>1, <1>key DEF Registry
  <2> QED
    BY <2>1, <2>2
<1>10. InterestInv'
  <2> SUFFICES ASSUME NEW e \in Sockets, backend = "epoll", key_by_dispatcher_[e] # NoKey, ~Updating(e)'
               PROVE  Synced(e)'
    BY <1>1 DEF InterestInv
  <2>1. CASE e = d
    <3>1. Watched(d)' = enabled[d]
      BY <2>1, <1>1, <1>3, <1>4, <1>key, PSSAssumption DEF RegistryType, Entry, Watched
    <3>2. ~InOnEvent(d)
      <4> SUFFICES ASSUME InOnEvent(d) PROVE FALSE
        OBVIOUS
      <4>1. t = Loop
        BY LockedOnEvent DEF Update
      <4> QED
        BY <4>1, <1>sock, <1>1 DEF SavedInv
    <3> QED
      BY <2>1, <3>1, <3>2, <1>1 DEF Synced, InOnEvent
  <2>2. CASE e # d
    <3>1. e \in Dispatchers
      BY DEF Dispatchers
    <3>2. s_[e] \in Fds /\ (key # NoKey => s_[e] # s_[d])
      BY <2>2, <3>1, <1>3, PSSAssumption DEF Descriptors
    <3>3. epoll'[s_[e]] = epoll[s_[e]]
      BY <3>2, <1>3, <1>4 DEF RegistryType
    <3>4. ~Updating(e)
      BY <2>2, <1>sock, <1>1, <1>2 DEF Updating
    <3> QED
      BY <3>1, <3>3, <3>4, <1>1 DEF InterestInv, Synced, Watched, InOnEvent
  <2> QED
    BY <2>1, <2>2
<1>11. SignalerWatched'
  BY <1>1, <1>3, <1>4, PSSAssumption DEF SignalerWatched, RegistryType
<1>12. SavedInv'
  <2>1. op'[Loop] = op[Loop] \/ op'[Loop].step \notin {"update", "remove"}
    BY <1>2 DEF Threads
  <2> QED
    BY <2>1, <1>1, SavedKept
<1> QED
  BY <1>5, <1>6, <1>7, <1>8, <1>9, <1>10, <1>11, <1>12

LEMMA RemoveStep ==
  ASSUME SocketsInv, NEW t \in Threads, Remove(t)
  PROVE  SocketsInv'
<1> USE DEF SocketsInv
<1>sock. PICK d \in Sockets : d = op[t].on
  BY OpOnSocket DEF Remove
<1>key. PICK key : key = key_by_dispatcher_[d]
  OBVIOUS
<1>1. /\ op[t].step = "remove" /\ d \in Dispatchers /\ d # Signaler /\ key \in Keys \cup {NoKey}
      /\ op' = [op EXCEPT ![t].step = "close"]
      /\ UNCHANGED <<next_dispatcher_key_, gen, s_, enabled, saved_enabled_events_, pc, backend>>
      /\ s_[d] \in Fds
  BY <1>sock, <1>key, PSSAssumption
     DEF Remove, Dispatchers, socketVars, waitVars, RegistryType, Operations, Owning, Descriptors
<1>2. /\ op'[t].step = "close" /\ op'[t].on = d
      /\ \A u \in Threads \ {t} : op'[u] = op[u]
  <2>1. op[t] \in [step : Steps, on : Sockets]
    BY <1>1, OpOnSocket
  <2> QED
    BY <2>1, <1>sock, <1>1 DEF RegistryType
<1>3. op' \in [Threads -> {Idle} \cup [step : Steps, on : Sockets]]
  <2>1. op[t] \in [step : Steps, on : Sockets]
    BY <1>1, OpOnSocket
  <2>2. [op[t] EXCEPT !.step = "close"] \in [step : Steps, on : Sockets]
    BY <2>1 DEF Steps
  <2> QED
    BY <2>2, <1>1 DEF RegistryType
<1>4. KeyRoom'
  <2>1. Adders' = Adders
    BY <1>1, <1>2 DEF Adders
  <2> QED
    BY <2>1, <1>1 DEF KeyRoom
<1>saved. SavedInv'
  <2>1. op'[Loop] = op[Loop] \/ op'[Loop].step \notin {"update", "remove"}
    BY <1>2 DEF Threads
  <2>2. ASSUME InOnEvent(d) PROVE saved_enabled_events_.events = {}
    <3>1. t = Loop
      BY <2>2, LockedOnEvent DEF Remove
    <3> QED
      BY <2>2, <3>1, <1>sock, <1>1 DEF SavedInv
  <2>3. \A e \in Sockets : e # d => key_by_dispatcher_'[e] = key_by_dispatcher_[e]
    BY <1>sock DEF Remove, RegistryType, Dispatchers
  <2> QED
    BY <2>1, <2>2, <2>3, <1>1, SavedKept
<1>5. CASE key = NoKey
  <2>1. UNCHANGED <<key_by_dispatcher_, dispatcher_by_key_, epoll>>
    BY <1>sock, <1>5, <1>key DEF Remove
  <2>2. RegistryType' /\ Registry' /\ Descriptors' /\ EpollSound' /\ SignalerWatched'
    BY <2>1, <1>1, <1>3 DEF RegistryType, Registry, Descriptors, EpollSound, SignalerWatched
  <2>3. Operations'
    BY <2>1, <1>sock, <1>1, <1>2, <1>5, <1>key DEF Operations, Owning
  <2>4. InterestInv'
    <3>1. \A e \in Sockets : Updating(e) => Updating(e)' \/ e = d
      BY <1>sock, <1>1, <1>2 DEF Updating
    <3> QED
      BY <3>1, <2>1, <1>1, <1>5, <1>key DEF InterestInv, Synced, Watched, InOnEvent
  <2> QED
    BY <2>2, <2>3, <2>4, <1>4, <1>saved
<1>6. CASE key # NoKey
  <2>1. /\ key \in Keys
        /\ key_by_dispatcher_' = [key_by_dispatcher_ EXCEPT ![d] = NoKey]
        /\ dispatcher_by_key_' = [dispatcher_by_key_ EXCEPT ![key] = None]
        /\ epoll' = [epoll EXCEPT ![s_[d]] = None]
    BY <1>sock, <1>1, <1>6, <1>key DEF Remove
  <2>2. RegistryType'
    BY <2>1, <1>1, <1>3 DEF RegistryType
  <2>3. /\ \A e \in Dispatchers \ {d} : key_by_dispatcher_'[e] = key_by_dispatcher_[e]
        /\ key_by_dispatcher_'[d] = NoKey
        /\ \A k \in Keys \ {key} : dispatcher_by_key_'[k] = dispatcher_by_key_[k]
        /\ dispatcher_by_key_'[key] = None
        /\ \A fd \in (Fds \cup {SignalFd}) \ {s_[d]} : epoll'[fd] = epoll[fd]
        /\ epoll'[s_[d]] = None
        /\ dispatcher_by_key_[key] = d
    BY <2>1, <1>1, <1>6, <1>key DEF RegistryType, Registry
  <2>4. Registry'
    <3>1. \A e \in Dispatchers : key_by_dispatcher_'[e] # NoKey =>
            key_by_dispatcher_'[e] < next_dispatcher_key_' /\ dispatcher_by_key_'[key_by_dispatcher_'[e]] = e
      <4> SUFFICES ASSUME NEW e \in Dispatchers, key_by_dispatcher_'[e] # NoKey
                   PROVE  /\ key_by_dispatcher_'[e] < next_dispatcher_key_'
                          /\ dispatcher_by_key_'[key_by_dispatcher_'[e]] = e
        OBVIOUS
      <4>1. e # d /\ key_by_dispatcher_'[e] = key_by_dispatcher_[e] /\ key_by_dispatcher_[e] \in Keys
        BY <2>3 DEF RegistryType
      <4>2. key_by_dispatcher_[e] < next_dispatcher_key_ /\ dispatcher_by_key_[key_by_dispatcher_[e]] = e
        BY <4>1 DEF Registry
      <4>3. key_by_dispatcher_[e] # key
        BY <4>1, <4>2, <2>3
      <4> QED
        BY <4>1, <4>2, <4>3, <2>3, <1>1
    <3>2. \A k \in Keys : dispatcher_by_key_'[k] # None =>
            key_by_dispatcher_'[dispatcher_by_key_'[k]] = k
      BY <2>3, <1>key DEF Registry, RegistryType
    <3>3. key_by_dispatcher_'[Signaler] = 0
      BY <1>1, <2>3 DEF Registry, Dispatchers
    <3> QED
      BY <3>1, <3>2, <3>3 DEF Registry
  <2>5. Descriptors'
    BY <1>1, <2>3 DEF Descriptors, Dispatchers
  <2>6. Operations'
    <3>1. \A u \in Threads \ {t} : Owning(u)' => op'[u] = op[u] /\ Owning(u) /\ op[u].on \in Dispatchers /\ op[u].on # d
      BY <1>sock, <1>1, <1>2, OpOnSocket DEF Operations, Owning
    <3>2. \A u \in Threads : op'[u].step \in {"add", "close"} => Owning(u)'
      BY DEF Owning
    <3> QED
      BY <3>1, <3>2, <1>1, <1>2, <2>3, PSSAssumption DEF Operations
  <2>7. EpollSound'
    <3> SUFFICES ASSUME NEW fd \in Fds \cup {SignalFd}, epoll'[fd] # None
                 PROVE  \E e \in Dispatchers : /\ s_[e] = fd
                                               /\ key_by_dispatcher_'[e] = epoll'[fd].key
                                               /\ dispatcher_by_key_'[epoll'[fd].key] = e
      BY <1>1 DEF EpollSound
    <3>1. fd # s_[d] /\ epoll'[fd] = epoll[fd]
      BY <2>3
    <3>2. PICK e \in Dispatchers : /\ s_[e] = fd /\ key_by_dispatcher_[e] = epoll[fd].key
                                   /\ dispatcher_by_key_[epoll[fd].key] = e
      BY <3>1 DEF EpollSound
    <3>3. e # d /\ epoll[fd].key \in Keys
      BY <3>1, <3>2 DEF RegistryType, Entry
    <3> QED
      BY <3>1, <3>2, <3>3, <2>3
  <2>8. InterestInv'
    <3> SUFFICES ASSUME NEW e \in Sockets, backend = "epoll", key_by_dispatcher_'[e] # NoKey, ~Updating(e)'
                 PROVE  Synced(e)'
      BY <1>1 DEF InterestInv
    <3>1. e # d /\ e \in Dispatchers /\ key_by_dispatcher_[e] # NoKey
      BY <2>3 DEF Dispatchers
    <3>2. epoll'[s_[e]] = epoll[s_[e]]
      BY <3>1, <1>1, <2>3 DEF Descriptors
    <3>3. ~Updating(e)
      BY <3>1, <1>sock, <1>1, <1>2 DEF Updating
    <3> QED
      BY <3>1, <3>2, <3>3, <1>1 DEF InterestInv, Synced, Watched, InOnEvent
  <2>9. SignalerWatched'
    BY <1>1, <2>3, PSSAssumption DEF SignalerWatched
  <2> QED
    BY <2>2, <2>4, <2>5, <2>6, <2>7, <2>8, <2>9, <1>4, <1>saved
<1> QED
  BY <1>5, <1>6

LEMMA CloseFdStep ==
  ASSUME SocketsInv, NEW t \in Threads, CloseFd(t)
  PROVE  SocketsInv'
<1> USE DEF SocketsInv
<1>sock. PICK d \in Sockets : d = op[t].on
  BY OpOnSocket DEF CloseFd
<1>1. /\ op[t].step = "close" /\ d \in Dispatchers /\ d # Signaler
      /\ op' = [op EXCEPT ![t] = Idle]
      /\ epoll' = [epoll EXCEPT ![s_[d]] = None]
      /\ s_' = [s_ EXCEPT ![d] = None]
      /\ enabled' = [enabled EXCEPT ![d] = {}]
      /\ UNCHANGED <<next_dispatcher_key_, key_by_dispatcher_, dispatcher_by_key_, gen, backend>>
      /\ UNCHANGED <<saved_enabled_events_, pc>>
      /\ s_[d] \in Fds /\ key_by_dispatcher_[d] = NoKey
  BY <1>sock, PSSAssumption
     DEF CloseFd, Dispatchers, waitVars, RegistryType, Operations, Owning, Descriptors
<1>2. /\ op'[t].step = "idle"
      /\ \A u \in Threads \ {t} : op'[u] = op[u]
      /\ \A e \in Dispatchers \ {d} : s_'[e] = s_[e] /\ enabled'[e] = enabled[e]
      /\ s_'[d] = None
      /\ \A fd \in (Fds \cup {SignalFd}) \ {s_[d]} : epoll'[fd] = epoll[fd]
      /\ epoll'[s_[d]] = None
  BY <1>1 DEF RegistryType, Idle
<1>3. RegistryType'
  BY <1>1 DEF RegistryType
<1>4. KeyRoom'
  <2>1. Adders' = Adders
    BY <1>1, <1>2 DEF Adders
  <2> QED
    BY <2>1, <1>1 DEF KeyRoom
<1>5. Registry'
  BY <1>1 DEF Registry
<1>6. Descriptors'
  BY <1>1, <1>2, PSSAssumption DEF Descriptors, Dispatchers
<1>7. Operations'
  <2>1. \A u \in Threads : Owning(u)' => u # t /\ Owning(u) /\ op[u].on \in Dispatchers /\ op[u].on # d
    BY <1>sock, <1>1, <1>2, OpOnSocket DEF Operations, Owning
  <2>2. \A u \in Threads : op'[u].step \in {"add", "close"} => Owning(u)'
    BY DEF Owning
  <2> QED
    BY <2>1, <2>2, <1>1, <1>2 DEF Operations
<1>8. EpollSound'
  <2> SUFFICES ASSUME NEW fd \in Fds \cup {SignalFd}, epoll'[fd] # None
               PROVE  \E e \in Dispatchers : /\ s_'[e] = fd
                                             /\ key_by_dispatcher_[e] = epoll'[fd].key
                                             /\ dispatcher_by_key_[epoll'[fd].key] = e
    BY <1>1 DEF EpollSound
  <2>1. fd # s_[d] /\ epoll'[fd] = epoll[fd]
    BY <1>2
  <2>2. PICK e \in Dispatchers : /\ s_[e] = fd /\ key_by_dispatcher_[e] = epoll[fd].key
                                 /\ dispatcher_by_key_[epoll[fd].key] = e
    BY <2>1 DEF EpollSound
  <2> QED
    BY <2>1, <2>2, <1>2
<1>9. InterestInv'
  <2> SUFFICES ASSUME NEW e \in Sockets, backend = "epoll", key_by_dispatcher_[e] # NoKey, ~Updating(e)'
               PROVE  Synced(e)'
    BY <1>1 DEF InterestInv
  <2>1. e # d /\ e \in Dispatchers
    BY <1>1 DEF Dispatchers
  <2>2. epoll'[s_[e]] = epoll[s_[e]] /\ s_'[e] = s_[e] /\ enabled'[e] = enabled[e]
    BY <2>1, <1>1, <1>2 DEF Descriptors
  <2>3. ~Updating(e)
    BY <1>1, <1>2 DEF Updating
  <2> QED
    BY <2>2, <2>3, <1>1 DEF InterestInv, Synced, Watched, InOnEvent
<1>10. SignalerWatched'
  BY <1>1, <1>2, PSSAssumption DEF SignalerWatched
<1>11. SavedInv'
  <2>1. op'[Loop] = op[Loop] \/ op'[Loop].step \notin {"update", "remove"}
    BY <1>2 DEF Threads
  <2> QED
    BY <2>1, <1>1, SavedKept
<1> QED
  BY <1>3, <1>4, <1>5, <1>6, <1>7, <1>8, <1>9, <1>10, <1>11

SocketOp(t) ==
  \/ Add(t) \/ Update(t) \/ Remove(t) \/ CloseFd(t)
  \/ \E d \in Sockets : \/ \E fd \in Fds : Create(t, d, fd)
                        \/ \E ev \in SUBSET Events : SetEvents(t, d, ev)
                        \/ Close(t, d)

LEMMA SocketSteps ==
  ASSUME SocketsInv, NEW t \in Threads, SocketOp(t)
  PROVE  SocketsInv'
  BY AddStep, UpdateStep, RemoveStep, CloseFdStep, CreateStep, SetEventsStep, CloseStep DEF SocketOp

-----------------------------------------------------------------------------
(* Wait and WakeUp.                                                        *)

(* The pipe and f_signaled_ differ only while a Signal is under way.       *)
SignalSync == pipe = IF signal_mutex = None /\ ~f_signaled_ THEN 0 ELSE 1

(* Events of a batch are told apart by at, and carry keys that were handed *)
(* out already.                                                            *)
BatchInv ==
  /\ \A e \in batch : IF backend = "epoll" THEN e.at \in Keys /\ e.at < next_dispatcher_key_
                                          ELSE e.at \in Fds \cup {SignalFd}
  /\ \A e, f \in batch : e.at = f.at => e = f
  /\ \A k \in current_dispatcher_keys_ \cup keys_left : k < next_dispatcher_key_
  /\ NoStaleEvent

(* A Wait that may block has not been woken; the Signaler's OnEvent runs,  *)
(* or is still to run, only while there is a byte for it.                  *)
PlaceInv ==
  /\ pc \in {"collect", "poll", "lock", "signaler"} => flag_wait_
  /\ pc = "signaler" => pipe > 0
  /\ pc \in {"lock", "batch", "callback"} => InBatch
  /\ pc \in {"out", "collect", "poll", "again"} => batch = {}
  /\ pc = "signaler" /\ ~InBatch => batch = {}
  /\ \A e \in batch : Receives(Signaler, e) =>
       pc \in {"lock", "batch", "callback"} /\ flag_wait_ /\ pipe > 0

WaitInv == WaitType /\ SignalSync /\ BatchInv /\ PlaceInv

(* An operation on a socket only takes events away from dispatchers, and   *)
(* never counts one anew that has some.                                    *)
LEMMA SocketOpBatch ==
  ASSUME SocketsInv, WaitInv, NEW t \in Threads, SocketOp(t)
  PROVE  /\ UNCHANGED <<signalVars, waitVars>>
         /\ next_dispatcher_key_' >= next_dispatcher_key_
         /\ \A d \in Dispatchers, e \in batch :
              Receives(d, e)' => Receives(d, e) /\ gen'[d] = gen[d]
<1> USE DEF SocketsInv, WaitInv
<1> DEFINE Fewer == \A d \in Dispatchers, e \in batch :
                      Receives(d, e)' => Receives(d, e) /\ gen'[d] = gen[d]
<1>1. UNCHANGED <<signalVars, waitVars>>
  BY DEF SocketOp, Add, Update, Remove, CloseFd, Create, SetEvents, Close
<1>2. UNCHANGED <<batch, keys_left, backend>>
  BY <1>1 DEF waitVars, selectVars
<1>3. CASE Add(t)
  <2>1. PICK d \in Sockets : d = op[t].on
    BY <1>3, OpOnSocket DEF Add
  <2>2. PICK key : key = next_dispatcher_key_
    OBVIOUS
  <2>3. d \in Dispatchers /\ op[t].step = "add" /\ key_by_dispatcher_[d] = NoKey
    BY <1>3, <2>1 DEF Add, Dispatchers, Operations
  <2>4. /\ next_dispatcher_key_' = key + 1
        /\ dispatcher_by_key_' = [dispatcher_by_key_ EXCEPT ![key] = d]
        /\ gen' = [gen EXCEPT ![d] = @ + 1]
        /\ s_' = s_
    BY <1>3, <2>1, <2>2 DEF Add, socketVars
  <2>5. \A c \in Dispatchers \ {d} : gen'[c] = gen[c]
    BY <2>4 DEF RegistryType
  <2>6. \A k \in Keys : k # key => dispatcher_by_key_'[k] = dispatcher_by_key_[k]
    BY <2>4 DEF RegistryType
  <2>7. \A k \in Keys : dispatcher_by_key_[k] # d
    BY <2>3, PSSAssumption DEF Registry, Keys, NoKey
  <2>8. \A k \in Keys : k < next_dispatcher_key_ => k # key
    BY <2>2, PSSAssumption DEF Keys
  <2>9. ASSUME NEW c \in Dispatchers, NEW e \in batch, Receives(c, e)'
        PROVE  Receives(c, e) /\ gen'[c] = gen[c]
    <3>1. CASE backend = "epoll"
      <4>1. e.at \in Keys /\ e.at # key
        BY <3>1, <2>8 DEF BatchInv
      <4>2. dispatcher_by_key_'[e.at] = c
        BY <2>9, <3>1, <1>2 DEF Receives
      <4>3. dispatcher_by_key_[e.at] = c /\ c # d
        BY <4>1, <4>2, <2>6, <2>7
      <4> QED
        BY <4>3, <2>5, <3>1 DEF Receives
    <3>2. CASE backend # "epoll"
      <4>1. PICK k \in keys_left : dispatcher_by_key_'[k] = c /\ s_[c] = e.at
        BY <2>9, <3>2, <1>2, <2>4 DEF Receives
      <4>2. k \in Keys /\ k # key
        BY <2>8 DEF BatchInv, WaitType
      <4>3. dispatcher_by_key_[k] = c /\ c # d
        BY <4>1, <4>2, <2>6, <2>7
      <4> QED
        BY <4>1, <4>3, <2>5, <3>2 DEF Receives
    <3> QED
      BY <3>1, <3>2
  <2>10. next_dispatcher_key_' >= next_dispatcher_key_
    BY <2>2, <2>4, PSSAssumption DEF RegistryType
  <2> QED
    BY <2>9, <2>10, <1>1
<1>4. CASE Update(t) \/ (\E d \in Sockets : (\E ev \in SUBSET Events : SetEvents(t, d, ev)) \/ Close(t, d))
  <2>1. UNCHANGED <<next_dispatcher_key_, dispatcher_by_key_, s_, gen>>
    BY <1>4 DEF Update, SetEvents, Close, registryVars, socketVars
  <2>2. Fewer
    BY <2>1, <1>2 DEF Receives
  <2> QED
    BY <2>1, <2>2, <1>1, PSSAssumption DEF RegistryType
<1>5. CASE Remove(t)
  <2>1. UNCHANGED <<next_dispatcher_key_, s_, gen>>
    BY <1>5 DEF Remove, socketVars
  <2>2. \A k \in Keys : dispatcher_by_key_'[k] \in {dispatcher_by_key_[k], None}
    BY <1>5 DEF Remove, RegistryType
  <2>3. Fewer
    BY <2>1, <2>2, <1>2, PSSAssumption DEF Receives, BatchInv, WaitType
  <2> QED
    BY <2>1, <2>3, <1>1, PSSAssumption DEF RegistryType
<1>6. CASE CloseFd(t)
  <2>1. UNCHANGED <<next_dispatcher_key_, dispatcher_by_key_, gen>>
    BY <1>6 DEF CloseFd
  <2>2. \A c \in Dispatchers : s_'[c] \in {s_[c], None}
    BY <1>6 DEF CloseFd, RegistryType
  <2>3. backend # "epoll" => \A e \in batch : e.at # None
    BY PSSAssumption DEF BatchInv
  <2>4. Fewer
    BY <2>1, <2>2, <2>3, <1>2 DEF Receives
  <2> QED
    BY <2>1, <2>4, <1>1, PSSAssumption DEF RegistryType
<1>7. CASE \E d \in Sockets, fd \in Fds : Create(t, d, fd)
  <2>1. PICK d \in Sockets, fd \in Fds : Create(t, d, fd)
    BY <1>7
  <2>2. /\ s_[d] = None /\ s_' = [s_ EXCEPT ![d] = fd]
        /\ UNCHANGED <<next_dispatcher_key_, dispatcher_by_key_, gen>>
    BY <2>1 DEF Create, registryVars
  <2>3. \A c \in Dispatchers \ {d} : s_'[c] = s_[c]
    BY <2>2 DEF RegistryType
  <2>4. \A k \in Keys : dispatcher_by_key_[k] # d
    <3>1. key_by_dispatcher_[d] = NoKey
      BY <2>2 DEF Descriptors
    <3> QED
      BY <3>1, PSSAssumption DEF Registry, Keys, NoKey, Dispatchers
  <2>5. Fewer
    BY <2>2, <2>3, <2>4, <1>2 DEF Receives, BatchInv, WaitType
  <2> QED
    BY <2>2, <2>5, <1>1, PSSAssumption DEF RegistryType
<1> QED
  BY <1>3, <1>4, <1>5, <1>6, <1>7 DEF SocketOp

LEMMA SocketOpWaitInv ==
  ASSUME SocketsInv, WaitInv, NEW t \in Threads, SocketOp(t)
  PROVE  WaitInv'
<1> USE DEF WaitInv
<1>1. /\ UNCHANGED <<pipe, f_signaled_, signal_mutex, flag_wait_, pc, cms_wait, process_io, batch,
                     fd_sets, current_dispatcher_keys_, keys_left, backend>>
      /\ next_dispatcher_key_' >= next_dispatcher_key_
      /\ \A d \in Dispatchers, e \in batch : Receives(d, e)' => Receives(d, e) /\ gen'[d] = gen[d]
  BY SocketOpBatch DEF signalVars, waitVars, selectVars
<1>2. WaitType' /\ SignalSync'
  BY <1>1 DEF WaitType, SignalSync
<1>3. NoStaleEvent'
  BY <1>1 DEF NoStaleEvent, BatchInv
<1>4. /\ next_dispatcher_key_ \in Int /\ next_dispatcher_key_' \in Int
      /\ \A k \in Keys : k \in Int
  BY SocketSteps, PSSAssumption DEF SocketsInv, RegistryType, Keys
<1>5. BatchInv'
  BY <1>1, <1>3, <1>4 DEF BatchInv, WaitType
<1>6. PlaceInv'
  BY <1>1 DEF PlaceInv, InBatch, Dispatchers
<1> QED
  BY <1>2, <1>5, <1>6

(* WakeUp and the steps of Wait.                                           *)
WaitOp ==
  \/ \E t \in Threads : Signal_Write(t) \/ Signal_Unlock(t)
  \/ \E cms \in {"forever", "timed"}, io \in BOOLEAN : Wait(cms, io)
  \/ \E S \in SUBSET (Fds \cup {SignalFd}) : EpollWait(S) \/ Select(S)
  \/ PollOne \/ Wait_Timeout \/ Wait_Error \/ OnEvent \/ CallbackDone
  \/ WaitStep

LEMMA NextCases ==
  ASSUME Next
  PROVE  WaitOp \/ \E t \in Threads : SocketOp(t)
<1>1. ASSUME NEW t \in Threads, Signal_Write(t) \/ Signal_Unlock(t)
      PROVE  WaitOp
  BY <1>1 DEF WaitOp
<1>2. ASSUME NEW t \in Threads, NEW d \in Sockets,
             \/ \E fd \in Fds : Create(t, d, fd)
             \/ \E ev \in SUBSET Events : SetEvents(t, d, ev)
             \/ Close(t, d)
      PROVE  SocketOp(t)
  BY <1>2 DEF SocketOp
<1>3. ASSUME NEW t \in Threads, SocketStep(t)
      PROVE  SocketOp(t)
  BY <1>3 DEF SocketOp, SocketStep
<1>4. ASSUME \/ \E cms \in {"forever", "timed"}, io \in BOOLEAN : Wait(cms, io)
             \/ \E S \in SUBSET (Fds \cup {SignalFd}) : EpollWait(S) \/ Select(S)
             \/ PollOne \/ Wait_Timeout \/ Wait_Error \/ OnEvent \/ CallbackDone
             \/ WaitStep
      PROVE  WaitOp
  BY <1>4 DEF WaitOp
<1> QED
  BY <1>1, <1>2, <1>3, <1>4 DEF Next

(* All but the two ends of an OnEvent leave the sockets alone, and whether *)
(* the loop thread is in an OnEvent.                                       *)
SocketsLeft == /\ UNCHANGED <<registryVars, socketVars, op, backend>>
               /\ pc # "callback" \/ pc' = pc

LEMMA WaitOpRegistry ==
  ASSUME WaitOp
  PROVE  \/ SocketsLeft
         \/ \E e \in batch : Handle(e)
         \/ CallbackDone
<1>1. ASSUME NEW t \in Threads, Signal_Write(t) \/ Signal_Unlock(t)
      PROVE  SocketsLeft
  BY <1>1 DEF Signal_Write, Signal_Unlock, waitVars, SocketsLeft
<1>2. ASSUME NEW S, EpollWait(S) \/ Select(S)
      PROVE  SocketsLeft
  BY <1>2 DEF EpollWait, Select, SocketsLeft
<1>3. ASSUME NEW cms, NEW io, Wait(cms, io)
      PROVE  SocketsLeft
  BY <1>3 DEF Wait, SocketsLeft
<1>4. ASSUME PollOne \/ Wait_Timeout \/ Wait_Error \/ OnEvent
      PROVE  SocketsLeft
  BY <1>4 DEF PollOne, Wait_Timeout, Wait_Error, OnEvent, SocketsLeft
<1>5. ASSUME WaitStep, ~\E e \in batch : Handle(e)
      PROVE  SocketsLeft
  BY <1>5 DEF WaitStep, Collect, LockBatch, EndBatch, Again, HandleKey, SocketsLeft
<1> QED
  BY <1>1, <1>2, <1>3, <1>4, <1>5 DEF WaitOp

LEMMA RegistryKept ==
  ASSUME SocketsInv, SocketsLeft
  PROVE  SocketsInv'
<1> USE DEF SocketsInv, SocketsLeft, registryVars, socketVars
<1>1. RegistryType' /\ Registry' /\ Descriptors' /\ EpollSound' /\ SignalerWatched'
  BY DEF RegistryType, Registry, Descriptors, EpollSound, SignalerWatched
<1>2. KeyRoom' /\ Operations'
  BY DEF KeyRoom, Adders, Operations, Owning
<1>3. InterestInv'
  BY DEF InterestInv, Synced, Watched, InOnEvent, Updating
<1>4. SavedInv'
  BY DEF SavedInv, InOnEvent
<1> QED
  BY <1>1, <1>2, <1>3, <1>4

(* StartBatchedEventUpdates.                                               *)
LEMMA HandleSockets ==
  ASSUME SocketsInv, BatchInv, NEW e \in batch, Handle(e)
  PROVE  SocketsInv'
<1> USE DEF SocketsInv
<1>1. PICK d : d = dispatcher_by_key_[e.at]
  OBVIOUS
<1>2. /\ UNCHANGED <<next_dispatcher_key_, key_by_dispatcher_, dispatcher_by_key_, epoll, gen,
                     s_, enabled, op, backend>>
      /\ backend = "epoll" /\ op[Loop].step = "idle" /\ pc = "batch" /\ pc' = OnEventOf(d)
      /\ saved_enabled_events_' = IF d \in Sockets THEN [of |-> d, events |-> enabled[d]] ELSE None
  BY <1>1 DEF Handle, registryVars, Idle
<1>3. saved_enabled_events_' \in [of : Sockets, events : SUBSET Events] \cup {None}
  BY <1>2 DEF RegistryType, Dispatchers
<1>4. RegistryType' /\ Registry' /\ Descriptors' /\ EpollSound' /\ SignalerWatched'
  BY <1>2, <1>3 DEF RegistryType, Registry, Descriptors, EpollSound, SignalerWatched
<1>5. KeyRoom' /\ Operations'
  BY <1>2 DEF KeyRoom, Adders, Operations, Owning
<1>6. \A c \in Sockets : /\ ~InOnEvent(c)
                         /\ InOnEvent(c)' => c = d /\ saved_enabled_events_'.events = enabled[c]
  BY <1>2, PSSAssumption DEF InOnEvent, SavedInv
<1>7. InterestInv'
  <2> SUFFICES ASSUME NEW c \in Sockets, backend = "epoll", key_by_dispatcher_[c] # NoKey, ~Updating(c)
               PROVE  Synced(c)'
    BY <1>2 DEF InterestInv, Updating
  <2>1. Watched(c)' = enabled[c]
    BY <1>2, <1>6 DEF InterestInv, Synced, Watched
  <2> QED
    BY <2>1, <1>2, <1>6 DEF Synced
<1>8. SavedInv'
  <2>1. d \in Sockets => pc' = "callback" /\ key_by_dispatcher_[d] # NoKey
    <3> SUFFICES ASSUME d \in Sockets
                 PROVE  pc' = "callback" /\ key_by_dispatcher_[d] # NoKey
      OBVIOUS
    <3>1. d # None /\ d # Signaler
      BY PSSAssumption DEF Dispatchers
    <3>2. e.at \in Keys /\ e.at # NoKey
      BY <1>2, PSSAssumption DEF BatchInv, Keys, NoKey
    <3> QED
      BY <1>1, <1>2, <3>1, <3>2 DEF OnEventOf, Registry
  <2> QED
    BY <1>2, <1>6, <2>1 DEF SavedInv
<1> QED
  BY <1>4, <1>5, <1>7, <1>8

(* FinishBatchedEventUpdates.                                              *)
LEMMA CallbackDoneSockets ==
  ASSUME SocketsInv, CallbackDone
  PROVE  SocketsInv'
<1> USE DEF SocketsInv
<1>1. /\ UNCHANGED <<next_dispatcher_key_, key_by_dispatcher_, dispatcher_by_key_, epoll, gen,
                     s_, enabled, backend>>
      /\ op[Loop].step = "idle" /\ saved_enabled_events_' = None
  BY DEF CallbackDone, Free, registryVars, Idle
<1>2. CASE saved_enabled_events_ # None /\ saved_enabled_events_.events # enabled[saved_enabled_events_.of]
  <2>1. PICK d \in Sockets : d = saved_enabled_events_.of
    BY <1>2 DEF RegistryType
  <2>2. op' = [op EXCEPT ![Loop] = [step |-> "update", on |-> d]]
    BY <1>2, <2>1 DEF CallbackDone
  <2>3. /\ op'[Loop].step = "update" /\ op'[Loop].on = d
        /\ \A u \in Threads \ {Loop} : op'[u] = op[u]
        /\ Loop \in Threads
    BY <2>2 DEF RegistryType, Threads
  <2>4. RegistryType'
    BY <1>1, <2>2 DEF RegistryType, Steps
  <2>5. KeyRoom'
    <3>1. Adders' = Adders
      BY <1>1, <2>3 DEF Adders
    <3> QED
      BY <3>1, <1>1 DEF KeyRoom
  <2>6. Operations'
    <3>1. \A u \in Threads : Owning(u)' \/ op'[u].step \in {"add", "close"} => u # Loop
      BY <2>3 DEF Owning
    <3> QED
      BY <3>1, <1>1, <2>3 DEF Operations, Owning
  <2>7. InterestInv'
    <3> SUFFICES ASSUME NEW c \in Sockets, backend = "epoll", key_by_dispatcher_[c] # NoKey, ~Updating(c)'
                 PROVE  Synced(c)'
      BY <1>1 DEF InterestInv
    <3>1. c # d /\ ~Updating(c)
      BY <1>1, <2>3 DEF Updating
    <3>2. ~InOnEvent(c) /\ ~InOnEvent(c)'
      BY <1>1, <2>1, <3>1 DEF InOnEvent
    <3> QED
      BY <1>1, <3>1, <3>2 DEF InterestInv, Synced, Watched
  <2> QED
    BY <1>1, <2>4, <2>5, <2>6, <2>7
       DEF Registry, Descriptors, EpollSound, SignalerWatched, SavedInv, InOnEvent
<1>3. CASE ~(saved_enabled_events_ # None /\ saved_enabled_events_.events # enabled[saved_enabled_events_.of])
  <2>1. op' = op
    BY <1>3 DEF CallbackDone
  <2>2. RegistryType' /\ KeyRoom' /\ Operations'
    BY <1>1, <2>1 DEF RegistryType, KeyRoom, Adders, Operations, Owning
  <2>3. InterestInv'
    <3> SUFFICES ASSUME NEW c \in Sockets, backend = "epoll", key_by_dispatcher_[c] # NoKey, ~Updating(c)
                 PROVE  Synced(c)'
      BY <1>1, <2>1 DEF InterestInv, Updating
    <3>1. Watched(c) = enabled[c]
      BY <1>3 DEF InterestInv, Synced, InOnEvent
    <3> QED
      BY <1>1, <3>1 DEF Synced, Watched, InOnEvent
  <2> QED
    BY <1>1, <2>2, <2>3
       DEF Registry, Descriptors, EpollSound, SignalerWatched, SavedInv, InOnEvent
<1> QED
  BY <1>2, <1>3

LEMMA WaitOpSockets ==
  ASSUME SocketsInv, BatchInv, WaitOp
  PROVE  SocketsInv'
  BY WaitOpRegistry, RegistryKept, HandleSockets, CallbackDoneSockets

(* A step that leaves the batch and the keys of its for loop alone.        *)
LEMMA BatchKept ==
  ASSUME BatchInv, UNCHANGED <<registryVars, s_, backend, batch, keys_left, current_dispatcher_keys_>>
  PROVE  BatchInv' /\ \A e \in batch, d \in Dispatchers : Receives(d, e)' <=> Receives(d, e)
  BY DEF BatchInv, NoStaleEvent, Receives, registryVars

(* A step that only takes events, and keys, away from them.                *)
LEMMA BatchShrinks ==
  ASSUME BatchInv, UNCHANGED <<registryVars, s_, backend, current_dispatcher_keys_>>,
         batch' \subseteq batch, keys_left' \subseteq keys_left
  PROVE  BatchInv' /\ \A e \in batch', d \in Dispatchers : Receives(d, e)' => Receives(d, e)
  BY DEF BatchInv, NoStaleEvent, Receives, registryVars

LEMMA SignalStep ==
  ASSUME WaitInv, NEW t \in Threads, Signal_Write(t) \/ Signal_Unlock(t)
  PROVE  WaitInv'
<1> USE DEF WaitInv
<1>1. /\ UNCHANGED <<registryVars, s_, backend, batch, keys_left, current_dispatcher_keys_>>
      /\ UNCHANGED <<flag_wait_, pc, cms_wait, process_io, fd_sets>>
  BY DEF Signal_Write, Signal_Unlock, waitVars, selectVars, socketVars
<1>2. pipe \in {0, 1} /\ t # None
  BY PSSAssumption DEF SignalSync
<1>3. SignalSync' /\ pipe' >= pipe /\ pipe' \in Nat
  BY <1>2 DEF Signal_Write, Signal_Unlock, SignalSync, WaitType
<1>4. WaitType'
  BY <1>1, <1>3 DEF WaitType, Signal_Write, Signal_Unlock
<1>5. PlaceInv'
  BY <1>1, <1>2, <1>3, BatchKept DEF PlaceInv, InBatch, Dispatchers
<1> QED
  BY <1>1, <1>3, <1>4, <1>5, BatchKept

LEMMA EpollWaitStep ==
  ASSUME SocketsInv, WaitInv, NEW S \in SUBSET (Fds \cup {SignalFd}), EpollWait(S)
  PROVE  WaitInv'
<1> USE DEF SocketsInv, WaitInv
<1>1. /\ pc = "poll" /\ backend = "epoll" /\ S \subseteq Reportable
      /\ batch' = {Reported(fd, epoll[fd].key) : fd \in S}
      /\ pc' = "lock"
      /\ UNCHANGED <<registryVars, s_, backend, keys_left, current_dispatcher_keys_>>
      /\ UNCHANGED <<flag_wait_, cms_wait, process_io, fd_sets, pipe, f_signaled_, signal_mutex>>
  BY DEF EpollWait, signalVars, selectVars, socketVars
<1>2. ASSUME NEW fd \in S
      PROVE  \E d \in Dispatchers :
               /\ s_[d] = fd /\ dispatcher_by_key_[epoll[fd].key] = d /\ key_by_dispatcher_[d] = epoll[fd].key
               /\ Reported(fd, epoll[fd].key) = [at |-> epoll[fd].key, owner |-> d, gen |-> gen[d]]
               /\ epoll[fd].key \in Keys /\ epoll[fd].key < next_dispatcher_key_
               /\ d = Signaler => pipe > 0
  <2>1. fd \in Fds \cup {SignalFd} /\ epoll[fd] # None
    <3>1. [key |-> 0, events |-> Events] \in Entry
      BY PSSAssumption DEF Entry, Keys
    <3> QED
      BY <3>1, <1>1, PSSAssumption DEF Reportable, SignalerWatched
  <2>2. PICK d \in Dispatchers : /\ s_[d] = fd /\ key_by_dispatcher_[d] = epoll[fd].key
                                 /\ dispatcher_by_key_[epoll[fd].key] = d
    BY <2>1 DEF EpollSound
  <2>3. \A e \in Dispatchers : s_[e] = fd => e = d
    BY <2>1, <2>2, PSSAssumption DEF Descriptors, Dispatchers
  <2>4. (CHOOSE e \in Dispatchers : s_[e] = fd) = d
    BY <2>2, <2>3
  <2>5. Reported(fd, epoll[fd].key) = [at |-> epoll[fd].key, owner |-> d, gen |-> gen[d]]
    BY <2>4 DEF Reported
  <2>6. epoll[fd].key \in Keys /\ epoll[fd].key # NoKey
    BY <2>1, PSSAssumption DEF RegistryType, Entry, Keys, NoKey
  <2>7. epoll[fd].key < next_dispatcher_key_
    BY <2>2, <2>6 DEF Registry
  <2>8. d = Signaler => pipe > 0
    BY <2>2, <1>1, PSSAssumption DEF Descriptors, Reportable
  <2> QED
    BY <2>2, <2>5, <2>6, <2>7, <2>8
<1>3. \A e \in batch' : \E fd \in S, d \in Dispatchers :
        /\ s_[d] = fd /\ key_by_dispatcher_[d] = e.at /\ dispatcher_by_key_[e.at] = d
        /\ e = [at |-> e.at, owner |-> d, gen |-> gen[d]]
        /\ e.owner = d /\ e.gen = gen[d]
        /\ e.at \in Keys /\ e.at < next_dispatcher_key_
        /\ d = Signaler => pipe > 0
  <2> SUFFICES ASSUME NEW e \in batch'
               PROVE  \E fd \in S, d \in Dispatchers :
                        /\ s_[d] = fd /\ key_by_dispatcher_[d] = e.at /\ dispatcher_by_key_[e.at] = d
                        /\ e = [at |-> e.at, owner |-> d, gen |-> gen[d]]
                        /\ e.owner = d /\ e.gen = gen[d]
                        /\ e.at \in Keys /\ e.at < next_dispatcher_key_
                        /\ d = Signaler => pipe > 0
    OBVIOUS
  <2>1. PICK fd \in S : e = Reported(fd, epoll[fd].key)
    BY <1>1
  <2>2. PICK d \in Dispatchers :
               /\ s_[d] = fd /\ dispatcher_by_key_[epoll[fd].key] = d /\ key_by_dispatcher_[d] = epoll[fd].key
               /\ e = [at |-> epoll[fd].key, owner |-> d, gen |-> gen[d]]
               /\ epoll[fd].key \in Keys /\ epoll[fd].key < next_dispatcher_key_
               /\ d = Signaler => pipe > 0
    BY <1>2, <2>1
  <2>3. e.at = epoll[fd].key /\ e.owner = d /\ e.gen = gen[d]
    BY <2>2
  <2> QED
    BY <2>2, <2>3
<1>4. batch' \subseteq Event
  BY <1>3 DEF Event, RegistryType
<1>5. WaitType' /\ SignalSync'
  BY <1>1, <1>4 DEF WaitType, SignalSync
<1>6. \A e \in batch', d \in Dispatchers : Receives(d, e)' => dispatcher_by_key_[e.at] = d
  BY <1>1 DEF Receives, registryVars
<1>7. NoStaleEvent'
  BY <1>1, <1>3, <1>6 DEF NoStaleEvent, registryVars
<1>8. BatchInv'
  BY <1>1, <1>3, <1>7 DEF BatchInv, registryVars
<1>9. PlaceInv'
  <2>1. \A e \in batch' : Receives(Signaler, e)' => pipe > 0
    BY <1>3, <1>6 DEF Dispatchers
  <2>2. flag_wait_' /\ pipe' = pipe /\ InBatch'
    BY <1>1 DEF PlaceInv, InBatch, EpollWait
  <2> QED
    BY <2>1, <2>2, <1>1 DEF PlaceInv
<1> QED
  BY <1>5, <1>8, <1>9

LEMMA SelectStep ==
  ASSUME SocketsInv, WaitInv, NEW S \in SUBSET (Fds \cup {SignalFd}), Select(S)
  PROVE  WaitInv'
<1> USE DEF SocketsInv, WaitInv
<1>1. /\ pc = "poll" /\ backend = "select" /\ (SignalFd \in S <=> pipe > 0)
      /\ \A fd \in S : \E d \in Dispatchers : s_[d] = fd
      /\ batch' = {Reported(fd, fd) : fd \in S}
      /\ pc' = "lock" /\ fd_sets' = {} /\ keys_left' = current_dispatcher_keys_
      /\ UNCHANGED <<registryVars, s_, backend, current_dispatcher_keys_>>
      /\ UNCHANGED <<flag_wait_, cms_wait, process_io, pipe, f_signaled_, signal_mutex>>
  BY DEF Select, signalVars, socketVars
<1>2. ASSUME NEW fd \in S
      PROVE  \E d \in Dispatchers : /\ s_[d] = fd /\ \A e \in Dispatchers : s_[e] = fd => e = d
                                    /\ Reported(fd, fd) = [at |-> fd, owner |-> d, gen |-> gen[d]]
  <2>1. PICK d \in Dispatchers : s_[d] = fd
    BY <1>1
  <2>2. \A e \in Dispatchers : s_[e] = fd => e = d
    BY <2>1, PSSAssumption DEF Descriptors, Dispatchers
  <2>3. (CHOOSE e \in Dispatchers : s_[e] = fd) = d
    BY <2>1, <2>2
  <2> QED
    BY <2>1, <2>2, <2>3 DEF Reported
<1>3. \A e \in batch' : \E d \in Dispatchers :
        /\ e.at \in S /\ \A c \in Dispatchers : s_[c] = e.at => c = d
        /\ e = [at |-> e.at, owner |-> d, gen |-> gen[d]] /\ s_[d] = e.at
        /\ e.owner = d /\ e.gen = gen[d]
  BY <1>1, <1>2
<1>4. batch' \subseteq Event
  BY <1>3 DEF Event, RegistryType
<1>5. WaitType' /\ SignalSync'
  BY <1>1, <1>4 DEF WaitType, SignalSync
<1>6. \A e \in batch', d \in Dispatchers : Receives(d, e)' => s_[d] = e.at
  <2>1. backend' # "epoll" /\ s_' = s_
    BY <1>1 DEF socketVars
  <2> QED
    BY <2>1 DEF Receives
<1>7. NoStaleEvent'
  <2>1. gen' = gen
    BY <1>1 DEF registryVars
  <2> QED
    BY <2>1, <1>3, <1>6 DEF NoStaleEvent
<1>8. BatchInv'
  <2>1. backend' # "epoll" /\ next_dispatcher_key_' = next_dispatcher_key_
    BY <1>1 DEF registryVars
  <2>2. \A e \in batch' : e.at \in Fds \cup {SignalFd}
    BY <1>3
  <2>3. \A e, f \in batch' : e.at = f.at => e = f
    BY <1>3
  <2>4. \A k \in current_dispatcher_keys_' \cup keys_left' : k < next_dispatcher_key_'
    BY <2>1, <1>1 DEF BatchInv
  <2> QED
    BY <2>1, <2>2, <2>3, <2>4, <1>7 DEF BatchInv
<1>9. PlaceInv'
  <2>1. \A e \in batch' : Receives(Signaler, e)' => e.at = SignalFd /\ e.at \in S
    BY <1>3, <1>6 DEF Descriptors, Dispatchers
  <2>2. flag_wait_' /\ pipe' = pipe /\ InBatch'
    BY <1>1 DEF PlaceInv, InBatch
  <2> QED
    BY <2>1, <2>2, <1>1 DEF PlaceInv
<1> QED
  BY <1>5, <1>8, <1>9

LEMMA CollectStep ==
  ASSUME SocketsInv, WaitInv, Collect
  PROVE  WaitInv'
<1> USE DEF SocketsInv, WaitInv
<1>1. /\ pc = "collect" /\ pc' = "poll"
      /\ UNCHANGED <<registryVars, s_, backend, batch, keys_left>>
      /\ UNCHANGED <<flag_wait_, cms_wait, process_io, pipe, f_signaled_, signal_mutex>>
  BY DEF Collect, signalVars, socketVars
<1>2. PICK asked \in SUBSET Dispatchers :
        /\ \A d \in asked : key_by_dispatcher_[d] # NoKey
        /\ current_dispatcher_keys_' = current_dispatcher_keys_ \cup {key_by_dispatcher_[d] : d \in asked}
        /\ fd_sets' = {s_[d] : d \in {a \in asked : enabled[a] # {}}}
  <2>1. Signaler \in Dispatchers /\ key_by_dispatcher_[Signaler] # NoKey
    BY DEF Registry, Dispatchers, NoKey
  <2> DEFINE added == {d \in Dispatchers : key_by_dispatcher_[d] # NoKey}
             asked == IF process_io THEN added ELSE {Signaler}
  <2>2. asked \in SUBSET Dispatchers /\ \A d \in asked : key_by_dispatcher_[d] # NoKey
    BY <2>1
  <2> QED
    BY <2>2 DEF Collect
<1>3. \A d \in asked : /\ key_by_dispatcher_[d] \in Keys /\ key_by_dispatcher_[d] < next_dispatcher_key_
                       /\ s_[d] \in Fds \cup {SignalFd}
  BY <1>2, PSSAssumption DEF Registry, RegistryType, Descriptors, Dispatchers
<1>4. WaitType' /\ SignalSync'
  BY <1>1, <1>2, <1>3 DEF WaitType, SignalSync
<1>5. NoStaleEvent'
  BY <1>1 DEF NoStaleEvent, BatchInv, Receives, registryVars, socketVars
<1>6. BatchInv'
  BY <1>1, <1>2, <1>3, <1>5 DEF BatchInv, registryVars
<1>7. PlaceInv'
  BY <1>1 DEF PlaceInv
<1> QED
  BY <1>4, <1>6, <1>7

LEMMA OnEventStep ==
  ASSUME WaitInv, OnEvent
  PROVE  WaitInv' /\ pipe = 1 /\ pipe' = 0 /\ flag_wait_
<1> USE DEF WaitInv
<1>1. /\ pc = "signaler" /\ signal_mutex = None /\ f_signaled_' = FALSE
      /\ pipe' = IF f_signaled_ THEN (IF pipe <= 4 THEN 0 ELSE pipe - 4) ELSE pipe
      /\ pc' = IF InBatch THEN "batch" ELSE "again"
      /\ flag_wait_' = FALSE
      /\ UNCHANGED <<registryVars, s_, backend, batch, keys_left, current_dispatcher_keys_>>
      /\ UNCHANGED <<cms_wait, process_io, fd_sets, signal_mutex>>
  BY DEF OnEvent, selectVars, socketVars
<1>2. pipe = 1 /\ f_signaled_ /\ pipe' = 0 /\ flag_wait_
  BY <1>1 DEF PlaceInv, SignalSync
<1>3. pc' \in {"batch", "again"} /\ SignalSync'
  BY <1>1, <1>2 DEF SignalSync
<1>4. /\ f_signaled_' \in BOOLEAN /\ flag_wait_' \in BOOLEAN
      /\ UNCHANGED <<backend, batch, keys_left, current_dispatcher_keys_,
                     cms_wait, process_io, fd_sets, signal_mutex>>
  BY <1>1
<1>5. WaitType'
  BY <1>2, <1>3, <1>4 DEF WaitType
<1>6. PlaceInv'
  <2>1. \A e \in batch : ~Receives(Signaler, e)'
    BY <1>1, BatchKept DEF PlaceInv, Dispatchers
  <2>2. InBatch' = InBatch
    BY <1>1 DEF InBatch
  <2> QED
    BY <2>1, <2>2, <1>1 DEF PlaceInv
<1> QED
  BY <1>1, <1>2, <1>5, <1>6, <1>3, BatchKept

LEMMA HandleStep ==
  ASSUME WaitInv, Registry, RegistryType, NEW e \in batch, Handle(e)
  PROVE  WaitInv'
<1> USE DEF WaitInv
<1>1. /\ pc = "batch" /\ backend = "epoll"
      /\ batch' = batch \ {e}
      /\ pc' = OnEventOf(dispatcher_by_key_[e.at])
      /\ UNCHANGED <<registryVars, s_, backend, keys_left, current_dispatcher_keys_>>
      /\ UNCHANGED <<flag_wait_, cms_wait, process_io, fd_sets, pipe, f_signaled_, signal_mutex>>
  BY DEF Handle, signalVars, selectVars
<1>2. pc' \in {"batch", "signaler", "callback"} /\ (pc' = "signaler" => dispatcher_by_key_[e.at] = Signaler)
  BY <1>1 DEF OnEventOf
<1>3. WaitType' /\ SignalSync'
  BY <1>1, <1>2 DEF WaitType, SignalSync
<1>4. BatchInv' /\ \A f \in batch', d \in Dispatchers : Receives(d, f)' => Receives(d, f)
  BY <1>1, BatchShrinks
<1>5. pc' = "signaler" => Receives(Signaler, e) /\ \A f \in batch' : ~Receives(Signaler, f)
  <2> SUFFICES ASSUME pc' = "signaler", NEW f \in batch', Receives(Signaler, f)
               PROVE  FALSE
    BY <1>1, <1>2 DEF Receives
  <2>1. dispatcher_by_key_[e.at] = Signaler /\ dispatcher_by_key_[f.at] = Signaler
    BY <1>1, <1>2 DEF Receives
  <2>2. e.at \in Keys /\ f.at \in Keys
    BY <1>1 DEF BatchInv
  <2>3. e.at = f.at
    BY <2>1, <2>2, PSSAssumption DEF Registry, Dispatchers
  <2> QED
    BY <2>3, <1>1 DEF BatchInv
<1>6. PlaceInv'
  BY <1>1, <1>2, <1>4, <1>5 DEF PlaceInv, InBatch, Dispatchers
<1> QED
  BY <1>3, <1>4, <1>6

LEMMA HandleKeyStep ==
  ASSUME WaitInv, Descriptors, NEW k \in Keys, HandleKey(k)
  PROVE  WaitInv'
<1> USE DEF WaitInv
<1>1. PICK d, bits :
        /\ pc = "batch" /\ backend = "select" /\ k \in keys_left
        /\ d = dispatcher_by_key_[k] /\ bits = {e \in batch : d # None /\ e.at = s_[d]}
        /\ batch' = batch \ bits
        /\ pc' = IF bits = {} THEN "batch" ELSE OnEventOf(d)
        /\ keys_left' = keys_left \ {k}
        /\ UNCHANGED <<registryVars, s_, backend, current_dispatcher_keys_>>
        /\ UNCHANGED <<flag_wait_, cms_wait, process_io, fd_sets, pipe, f_signaled_, signal_mutex>>
  BY DEF HandleKey, signalVars, socketVars
<1>2. pc' \in {"batch", "signaler", "callback"} /\ (pc' = "signaler" => d = Signaler /\ bits # {})
  BY <1>1 DEF OnEventOf
<1>3. WaitType' /\ SignalSync'
  BY <1>1, <1>2 DEF WaitType, SignalSync
<1>4. BatchInv' /\ \A f \in batch', c \in Dispatchers : Receives(c, f)' => Receives(c, f)
  BY <1>1, BatchShrinks
<1>5. pc' = "signaler" => /\ \E e \in batch : Receives(Signaler, e)
                         /\ \A f \in batch' : ~Receives(Signaler, f)
  BY <1>1, <1>2 DEF Receives
<1>6. PlaceInv'
  BY <1>1, <1>2, <1>4, <1>5 DEF PlaceInv, InBatch, Dispatchers
<1> QED
  BY <1>3, <1>4, <1>6

(* The other steps change where Wait is, and empty the batch at most.      *)
LEMMA PlainStep ==
  ASSUME WaitInv,
         \/ \E cms \in {"forever", "timed"}, io \in BOOLEAN : Wait(cms, io)
         \/ PollOne \/ Wait_Timeout \/ Wait_Error \/ LockBatch \/ CallbackDone \/ EndBatch \/ Again
  PROVE  WaitInv'
<1> USE DEF WaitInv
<1>1. ASSUME NEW cms \in {"forever", "timed"}, NEW io \in BOOLEAN, Wait(cms, io)
      PROVE  WaitInv'
  <2>1. /\ pc = "out" /\ flag_wait_' = TRUE /\ cms_wait' = cms /\ process_io' = io
        /\ pc' \in {"poll", "collect"}
        /\ UNCHANGED <<registryVars, s_, backend, batch, keys_left, current_dispatcher_keys_>>
        /\ UNCHANGED <<fd_sets, pipe, f_signaled_, signal_mutex>>
    BY <1>1 DEF Wait, Round, selectVars, signalVars, socketVars
  <2>2. WaitType' /\ SignalSync'
    BY <2>1 DEF WaitType, SignalSync
  <2>3. PlaceInv'
    BY <2>1, BatchKept DEF PlaceInv
  <2> QED
    BY <2>1, <2>2, <2>3, BatchKept
<1>2. CASE PollOne
  <2>1. /\ pc = "poll" /\ pc' = "signaler" /\ pipe > 0
        /\ UNCHANGED <<registryVars, s_, backend, batch, keys_left, current_dispatcher_keys_>>
        /\ UNCHANGED <<flag_wait_, cms_wait, process_io, fd_sets, pipe, f_signaled_, signal_mutex>>
    BY <1>2 DEF PollOne, selectVars, signalVars, socketVars
  <2>2. WaitType' /\ SignalSync'
    BY <2>1 DEF WaitType, SignalSync
  <2>3. PlaceInv'
    BY <2>1, BatchKept DEF PlaceInv
  <2> QED
    BY <2>1, <2>2, <2>3, BatchKept
<1>3. CASE Wait_Timeout \/ Wait_Error \/ Again
  <2>1. /\ pc \in {"poll", "again"}
        /\ \/ pc' \in {"out", "again"}
           \/ pc' \in {"poll", "collect"} /\ flag_wait_
        /\ cms_wait' \in {"forever", "timed"} /\ process_io' \in BOOLEAN
        /\ fd_sets' \subseteq Fds \cup {SignalFd}
        /\ UNCHANGED <<registryVars, s_, backend, batch, keys_left, current_dispatcher_keys_>>
        /\ UNCHANGED <<flag_wait_, pipe, f_signaled_, signal_mutex>>
    <3>1. CASE Wait_Timeout \/ Wait_Error
      BY <3>1 DEF Wait_Timeout, Wait_Error, Wait_Returns, signalVars, WaitType, socketVars
    <3>2. CASE Again
      BY <3>2 DEF Again, Wait_Returns, Round, selectVars, signalVars, WaitType, socketVars
    <3> QED
      BY <3>1, <3>2, <1>3
  <2>2. WaitType' /\ SignalSync'
    BY <2>1 DEF WaitType, SignalSync
  <2>3. PlaceInv'
    BY <2>1, BatchKept DEF PlaceInv
  <2> QED
    BY <2>1, <2>2, <2>3, BatchKept
<1>4. CASE LockBatch \/ CallbackDone
  <2>1. /\ pc \in {"lock", "callback"} /\ pc' = "batch"
        /\ UNCHANGED <<registryVars, s_, backend, batch, keys_left, current_dispatcher_keys_>>
        /\ UNCHANGED <<flag_wait_, cms_wait, process_io, fd_sets, pipe, f_signaled_, signal_mutex>>
    BY <1>4 DEF LockBatch, CallbackDone, selectVars, signalVars, socketVars
  <2>2. WaitType' /\ SignalSync'
    BY <2>1 DEF WaitType, SignalSync
  <2>3. PlaceInv'
    BY <2>1, BatchKept DEF PlaceInv, InBatch, Dispatchers
  <2> QED
    BY <2>1, <2>2, <2>3, BatchKept
<1>5. CASE EndBatch
  <2>1. /\ batch' = {} /\ pc' = "again"
        /\ UNCHANGED <<registryVars, s_, backend, keys_left, current_dispatcher_keys_>>
        /\ UNCHANGED <<flag_wait_, cms_wait, process_io, fd_sets, pipe, f_signaled_, signal_mutex>>
    BY <1>5 DEF EndBatch, selectVars, signalVars, socketVars
  <2>2. WaitType' /\ SignalSync'
    BY <2>1 DEF WaitType, SignalSync
  <2>3. PlaceInv'
    BY <2>1 DEF PlaceInv
  <2> QED
    BY <2>1, <2>2, <2>3, BatchShrinks
<1> QED
  BY <1>1, <1>2, <1>3, <1>4, <1>5

LEMMA WaitOpStep ==
  ASSUME SocketsInv, WaitInv, WaitOp
  PROVE  WaitInv'
<1>1. ASSUME WaitStep
      PROVE  WaitInv'
  <2>1. ASSUME NEW e \in batch, Handle(e)
        PROVE  WaitInv'
    BY <2>1, HandleStep DEF SocketsInv
  <2>2. ASSUME NEW k \in Keys, HandleKey(k)
        PROVE  WaitInv'
    BY <2>2, HandleKeyStep DEF SocketsInv
  <2> QED
    BY <1>1, <2>1, <2>2, CollectStep, PlainStep DEF WaitStep
<1>2. ASSUME \/ \E cms \in {"forever", "timed"}, io \in BOOLEAN : Wait(cms, io)
             \/ PollOne \/ Wait_Timeout \/ Wait_Error \/ CallbackDone
      PROVE  WaitInv'
  BY <1>2, PlainStep
<1> QED
  BY <1>1, <1>2, SignalStep, EpollWaitStep, SelectStep, OnEventStep DEF WaitOp

-----------------------------------------------------------------------------
LEMMA InvInit == Init => SocketsInv /\ WaitInv
<1> SUFFICES ASSUME Init PROVE SocketsInv /\ WaitInv
  OBVIOUS
<1> USE PSSAssumption
<1>1. /\ Signaler \in Dispatchers /\ 0 \in Keys /\ NoKey \notin Keys
      /\ [key |-> 0, events |-> Events] \in Entry
      /\ \A t \in Threads : op[t].step = "idle"
      /\ backend \in {"epoll", "select"}
  BY DEF Init, Dispatchers, Keys, NoKey, Entry, Idle
<1>2. key_by_dispatcher_ \in [Dispatchers -> Keys \cup {NoKey}]
  BY <1>1 DEF Init
<1>3. dispatcher_by_key_ \in [Keys -> Dispatchers \cup {None}]
  BY <1>1 DEF Init
<1>4. epoll \in [Fds \cup {SignalFd} -> Entry \cup {None}]
  BY <1>1 DEF Init
<1>5. RegistryType
  BY <1>1, <1>2, <1>3, <1>4 DEF Init, RegistryType
<1>6. KeyRoom
  <2>1. Adders = {}
    BY <1>1 DEF Adders
  <2> QED
    BY <2>1, FS_EmptySet DEF KeyRoom, Init
<1>7. Registry
  BY <1>1 DEF Init, Registry
<1>8. Descriptors /\ SignalerWatched
  BY <1>1 DEF Init, Descriptors, SignalerWatched, Dispatchers
<1>9. Operations
  BY <1>1 DEF Operations, Owning
<1>10. EpollSound
  BY <1>1 DEF Init, EpollSound
<1>11. InterestInv /\ SavedInv
  BY DEF Init, InterestInv, Dispatchers, SavedInv, InOnEvent
<1>12. WaitType /\ SignalSync
  BY <1>1 DEF Init, WaitType, SignalSync
<1>13. BatchInv /\ PlaceInv
  BY DEF Init, BatchInv, NoStaleEvent, PlaceInv, InBatch
<1> QED
  BY <1>5, <1>6, <1>7, <1>8, <1>9, <1>10, <1>11, <1>12, <1>13 DEF SocketsInv, WaitInv

LEMMA InvStep == SocketsInv /\ WaitInv /\ [Next]_vars => (SocketsInv /\ WaitInv)'
<1> SUFFICES ASSUME SocketsInv, WaitInv, [Next]_vars PROVE (SocketsInv /\ WaitInv)'
  OBVIOUS
<1>1. CASE UNCHANGED vars
  <2>1. /\ UNCHANGED <<registryVars, s_, backend, batch, keys_left, current_dispatcher_keys_>>
        /\ UNCHANGED <<flag_wait_, pc, cms_wait, process_io, fd_sets, pipe, f_signaled_, signal_mutex>>
        /\ SocketsLeft
    BY <1>1 DEF vars, waitVars, selectVars, signalVars, socketVars, SocketsLeft
  <2>2. WaitType' /\ SignalSync'
    BY <2>1 DEF WaitType, SignalSync, WaitInv
  <2>3. PlaceInv'
    BY <2>1, BatchKept DEF PlaceInv, InBatch, Dispatchers, WaitInv
  <2> QED
    BY <2>1, <2>2, <2>3, BatchKept, RegistryKept DEF WaitInv
<1>2. CASE WaitOp
  BY <1>2, WaitOpSockets, WaitOpStep DEF WaitInv
<1>3. ASSUME NEW t \in Threads, SocketOp(t)
      PROVE  (SocketsInv /\ WaitInv)'
  BY <1>3, SocketSteps, SocketOpWaitInv
<1> QED
  BY <1>1, <1>2, <1>3, NextCases

LEMMA Invariance == Spec => [](SocketsInv /\ WaitInv)
  BY InvInit, InvStep, PTL DEF Spec

-----------------------------------------------------------------------------
(* The state of the server keeps its type; no socket is ever without a key *)
(* for epoll's data.                                                       *)
THEOREM ServerTypeCorrect == Spec => []TypeOK
<1>1. SocketsInv /\ WaitInv => TypeOK
  BY DEF SocketsInv, WaitInv, RegistryType, WaitType, TypeOK
<1> QED
  BY <1>1, Invariance, PTL

(* No event that WaitEpoll or WaitSelect collected ever goes to another    *)
(* dispatcher than the kernel meant, for any number of sockets closed and  *)
(* created while a batch is handled, by any number of threads.             *)
THEOREM NoEventIsStale == Spec => []NoStaleEvent
<1>1. WaitInv => NoStaleEvent
  BY DEF WaitInv, BatchInv
<1> QED
  BY <1>1, Invariance, PTL

(* What a step may do to keys and registrations: hand out a key that was   *)
(* never used, or take one back for good; a dispatcher that stays          *)
(* registered keeps its key and its descriptor, and an entry of epoll's    *)
(* interest list that stays keeps its key.                                 *)
RegistryStep ==
  /\ next_dispatcher_key_' >= next_dispatcher_key_
  /\ \A k \in Keys : k < next_dispatcher_key_ =>
       dispatcher_by_key_'[k] \in {dispatcher_by_key_[k], None}
  /\ \A d \in Dispatchers : (key_by_dispatcher_[d] # NoKey /\ key_by_dispatcher_'[d] # NoKey) =>
       key_by_dispatcher_'[d] = key_by_dispatcher_[d] /\ s_'[d] = s_[d]
  /\ \A fd \in Fds \cup {SignalFd} : (epoll[fd] # None /\ epoll'[fd] # None) =>
       epoll'[fd].key = epoll[fd].key

(* A step that leaves the registry, or epoll, as it is. *)
LEMMA RegistryStepKept ==
  ASSUME SocketsInv, UNCHANGED <<next_dispatcher_key_, key_by_dispatcher_, dispatcher_by_key_>>,
         \A d \in Dispatchers : key_by_dispatcher_[d] # NoKey => s_'[d] = s_[d],
         \A fd \in Fds \cup {SignalFd} : (epoll[fd] # None /\ epoll'[fd] # None) =>
           epoll'[fd].key = epoll[fd].key
  PROVE  RegistryStep
<1>1. next_dispatcher_key_' >= next_dispatcher_key_
  BY DEF SocketsInv, RegistryType
<1> QED
  BY <1>1 DEF RegistryStep

(* A key names one dispatcher for all time, so a key kept from an older    *)
(* batch finds that dispatcher, as it was added, or nothing: descriptors   *)
(* and addresses of dispatchers are used again, keys are not (Add, Remove, *)
(* Update, Close).                                                         *)
THEOREM KeysAreForGood == Spec => [][RegistryStep]_vars
<1>1. ASSUME SocketsInv, NEW t \in Threads, Add(t) PROVE RegistryStep
  <2> USE <1>1 DEF SocketsInv
  <2>sock. PICK d \in Sockets : d = op[t].on
    BY OpOnSocket DEF Add
  <2>key. PICK key : key = next_dispatcher_key_
    OBVIOUS
  <2>1. /\ op[t].step = "add" /\ d \in Dispatchers /\ d # Signaler
        /\ s_[d] \in Fds /\ key_by_dispatcher_[d] = NoKey
    BY <2>sock, OpOnSocket, PSSAssumption DEF Add, Operations, Owning, Descriptors
  <2>2. /\ next_dispatcher_key_' = key + 1
        /\ key_by_dispatcher_' = [key_by_dispatcher_ EXCEPT ![d] = key]
        /\ dispatcher_by_key_' = [dispatcher_by_key_ EXCEPT ![key] = d]
        /\ epoll' = IF enabled[d] = {} \/ backend = "select" THEN epoll
                    ELSE [epoll EXCEPT ![s_[d]] = [key |-> key, events |-> enabled[d]]]
        /\ s_' = s_
    BY <2>sock, <2>key DEF Add, socketVars
  <2>3. key \in Nat /\ key + 1 >= key
    BY <2>key DEF RegistryType
  <2>4. \A k \in Keys : k < key => dispatcher_by_key_'[k] = dispatcher_by_key_[k]
    BY <2>2, <2>3 DEF RegistryType, Keys
  <2>5. \A e \in Dispatchers : key_by_dispatcher_[e] # NoKey =>
          key_by_dispatcher_'[e] = key_by_dispatcher_[e]
    BY <2>1, <2>2 DEF RegistryType
  <2>6. epoll[s_[d]] = None
    BY <2>1, EntryOwner, PSSAssumption
  <2>7. \A fd \in Fds \cup {SignalFd} : epoll[fd] # None => epoll'[fd] = epoll[fd]
    BY <2>1, <2>2, <2>6 DEF RegistryType
  <2> QED
    BY <2>key, <2>2, <2>3, <2>4, <2>5, <2>7 DEF RegistryStep
<1>2. ASSUME SocketsInv, NEW t \in Threads, Update(t) PROVE RegistryStep
  <2> USE <1>2 DEF SocketsInv
  <2>sock. PICK d \in Sockets : d = op[t].on
    BY OpOnSocket DEF Update
  <2>1. /\ d \in Dispatchers
        /\ epoll' = IF key_by_dispatcher_[d] = NoKey \/ (enabled[d] = {} /\ epoll[s_[d]] = None)
                    THEN epoll
                    ELSE [epoll EXCEPT ![s_[d]] = [key |-> key_by_dispatcher_[d],
                                                   events |-> enabled[d]]]
        /\ UNCHANGED <<next_dispatcher_key_, key_by_dispatcher_, dispatcher_by_key_, s_>>
    BY <2>sock DEF Update, Dispatchers, socketVars
  <2>2. \A fd \in Fds \cup {SignalFd} : (epoll[fd] # None /\ epoll'[fd] # None) =>
          epoll'[fd].key = epoll[fd].key
    <3> SUFFICES ASSUME NEW fd \in Fds \cup {SignalFd}, epoll[fd] # None, epoll'[fd] # epoll[fd]
                 PROVE  epoll'[fd].key = epoll[fd].key
      OBVIOUS
    <3>1. fd = s_[d] /\ epoll'[fd].key = key_by_dispatcher_[d]
      BY <2>1 DEF RegistryType
    <3>2. s_[d] # None
      BY <3>1, PSSAssumption
    <3> QED
      BY <3>1, <3>2, <2>1, EntryOwner
  <2> QED
    BY <2>1, <2>2, RegistryStepKept
<1>3. ASSUME SocketsInv, NEW t \in Threads, Remove(t) PROVE RegistryStep
  <2> USE <1>3 DEF SocketsInv
  <2>sock. PICK d \in Sockets : d = op[t].on
    BY OpOnSocket DEF Remove
  <2>key. PICK key : key = key_by_dispatcher_[d]
    OBVIOUS
  <2>1. UNCHANGED <<next_dispatcher_key_, s_>> /\ next_dispatcher_key_' >= next_dispatcher_key_
    BY DEF Remove, socketVars, RegistryType
  <2>2. CASE key = NoKey
    <3>1. UNCHANGED <<next_dispatcher_key_, key_by_dispatcher_, dispatcher_by_key_, epoll, s_>>
      BY <2>sock, <2>key, <2>2 DEF Remove, socketVars
    <3> QED
      BY <3>1, RegistryStepKept
  <2>3. CASE key # NoKey
    <3>1. /\ key_by_dispatcher_' = [key_by_dispatcher_ EXCEPT ![d] = NoKey]
          /\ dispatcher_by_key_' = [dispatcher_by_key_ EXCEPT ![key] = None]
          /\ epoll' = [epoll EXCEPT ![s_[d]] = None]
      BY <2>sock, <2>key, <2>3 DEF Remove
    <3>2. \A k \in Keys : dispatcher_by_key_'[k] \in {dispatcher_by_key_[k], None}
      BY <3>1 DEF RegistryType
    <3>3. \A e \in Dispatchers : key_by_dispatcher_'[e] # NoKey =>
            key_by_dispatcher_'[e] = key_by_dispatcher_[e]
      BY <3>1 DEF RegistryType
    <3>4. \A fd \in Fds \cup {SignalFd} : epoll'[fd] # None => epoll'[fd] = epoll[fd]
      BY <3>1 DEF RegistryType
    <3> QED
      BY <2>1, <3>2, <3>3, <3>4 DEF RegistryStep
  <2> QED
    BY <2>2, <2>3
<1>4. ASSUME SocketsInv, NEW t \in Threads, CloseFd(t) PROVE RegistryStep
  <2> USE <1>4 DEF SocketsInv
  <2>sock. PICK d \in Sockets : d = op[t].on
    BY OpOnSocket DEF CloseFd
  <2>1. key_by_dispatcher_[d] = NoKey
    BY <2>sock DEF CloseFd, Operations
  <2>2. /\ epoll' = [epoll EXCEPT ![s_[d]] = None] /\ s_' = [s_ EXCEPT ![d] = None]
        /\ UNCHANGED <<next_dispatcher_key_, key_by_dispatcher_, dispatcher_by_key_>>
    BY <2>sock DEF CloseFd
  <2>3. \A e \in Dispatchers : key_by_dispatcher_[e] # NoKey => s_'[e] = s_[e]
    BY <2>1, <2>2 DEF RegistryType
  <2>4. \A fd \in Fds \cup {SignalFd} : epoll'[fd] # None => epoll'[fd] = epoll[fd]
    BY <2>2 DEF RegistryType
  <2> QED
    BY <2>2, <2>3, <2>4, RegistryStepKept
<1>5. ASSUME SocketsInv, NEW t \in Threads, NEW d \in Sockets, NEW fd \in Fds, Create(t, d, fd)
      PROVE  RegistryStep
  <2> USE <1>5 DEF SocketsInv
  <2>1. /\ s_[d] = None /\ s_' = [s_ EXCEPT ![d] = fd] /\ d \in Dispatchers
        /\ UNCHANGED <<next_dispatcher_key_, key_by_dispatcher_, dispatcher_by_key_, epoll>>
    BY DEF Create, registryVars, Dispatchers
  <2>2. \A e \in Dispatchers : key_by_dispatcher_[e] # NoKey => s_'[e] = s_[e]
    BY <2>1 DEF Descriptors, RegistryType
  <2> QED
    BY <2>1, <2>2, RegistryStepKept
<1>6. ASSUME SocketsInv, UNCHANGED <<registryVars, s_>> PROVE RegistryStep
  <2>1. UNCHANGED <<next_dispatcher_key_, key_by_dispatcher_, dispatcher_by_key_, epoll, s_>>
    BY <1>6 DEF registryVars
  <2> QED
    BY <1>6, <2>1, RegistryStepKept
<1>7. ASSUME SocketsInv, NEW t \in Threads, NEW d \in Sockets,
             Close(t, d) \/ \E ev \in SUBSET Events : SetEvents(t, d, ev)
      PROVE  RegistryStep
  BY <1>6, <1>7 DEF Close, SetEvents, socketVars
<1>8. ASSUME SocketsInv, WaitOp \/ UNCHANGED vars PROVE RegistryStep
  <2>1. UNCHANGED <<registryVars, s_>>
    BY <1>8, WaitOpRegistry DEF vars, socketVars, SocketsLeft, Handle, CallbackDone
  <2> QED
    BY <1>6, <1>8, <2>1
<1>9. SocketsInv /\ [Next]_vars => [RegistryStep]_vars
  <2> SUFFICES ASSUME SocketsInv, [Next]_vars PROVE RegistryStep
    OBVIOUS
  <2>1. ASSUME NEW t \in Threads, SocketOp(t) PROVE RegistryStep
    BY <2>1, <1>1, <1>2, <1>3, <1>4, <1>5, <1>7 DEF SocketOp
  <2> QED
    BY <2>1, <1>8, NextCases
<1> QED
  BY <1>9, Invariance, PTL DEF Spec

(* epoll's interest list and the two maps of Add, Remove and Update agree. *)
THEOREM EntriesAreSound == Spec => []EpollSound
<1>1. SocketsInv => EpollSound
  BY DEF SocketsInv
<1> QED
  BY <1>1, Invariance, PTL

(* epoll watches for what a socket asks for once no Update is pending.     *)
THEOREM InterestsInSync == Spec => []InterestInSync
<1>1. SocketsInv => InterestInSync
  BY DEF SocketsInv, InterestInv, Synced, InterestInSync
<1> QED
  BY <1>1, Invariance, PTL

(* The pipe of the Signaler holds one byte at most, however many threads   *)
(* call WakeUp how often.                                                  *)
THEOREM PipeStaysInSync == Spec => []PipeInSync
<1>1. WaitInv => PipeInSync
  BY DEF WaitInv, WaitType, SignalSync, PipeInSync
<1> QED
  BY <1>1, Invariance, PTL

(* PhysicalSocketServer is a SocketServer: no WakeUp is lost, whatever     *)
(* else happens to its sockets.                                            *)
THEOREM ServerKeepsContract == Spec => ImplementsSocketServer
<1> DEFINE signaled == pipe > 0
           waiting == IF pc = "out" THEN "no" ELSE IF flag_wait_ THEN cms_wait ELSE "woken"
<1>1. Init => Contract!SSInit
  BY DEF Init, Contract!SSInit
<1>2. WaitInv /\ SocketsInv /\ [Next]_vars => [Contract!SSNext]_(Contract!ssVars)
  <2> SUFFICES ASSUME WaitInv, SocketsInv, [Next]_vars
               PROVE  [Contract!SSNext]_(Contract!ssVars)
    OBVIOUS
  <2> USE DEF Contract!ssVars, Contract!SSNext
  <2>1. ASSUME UNCHANGED <<pipe, pc, flag_wait_, cms_wait>>
        PROVE  UNCHANGED Contract!ssVars
    BY <2>1
  <2>2. CASE UNCHANGED vars
    BY <2>1, <2>2 DEF vars, signalVars, waitVars
  <2>3. ASSUME NEW t \in Threads, SocketOp(t)
        PROVE  UNCHANGED Contract!ssVars
    BY <2>1, <2>3, SocketOpBatch DEF signalVars, waitVars
  <2>4. ASSUME NEW t \in Threads, Signal_Write(t)
        PROVE  Contract!WakeUp
    <3>1. pipe' > 0 /\ UNCHANGED <<pc, flag_wait_, cms_wait>>
      BY <2>4 DEF Signal_Write, waitVars, WaitInv, SignalSync
    <3> QED
      BY <3>1 DEF Contract!WakeUp
  <2>5. ASSUME NEW t \in Threads, Signal_Unlock(t)
        PROVE  UNCHANGED Contract!ssVars
    BY <2>1, <2>5 DEF Signal_Unlock, waitVars
  <2>6. ASSUME NEW cms \in {"forever", "timed"}, NEW io \in BOOLEAN, Wait(cms, io)
        PROVE  \E mode \in Contract!Blocked : Contract!WaitEnter(mode)
    <3>1. pc = "out" /\ pc' # "out" /\ flag_wait_' = TRUE /\ cms_wait' = cms /\ pipe' = pipe
      BY <2>6 DEF Wait, Round, signalVars
    <3> QED
      BY <3>1 DEF Contract!Blocked, Contract!WaitEnter
  <2>7. ASSUME NEW S \in SUBSET (Fds \cup {SignalFd}), EpollWait(S) \/ Select(S)
        PROVE  UNCHANGED Contract!ssVars
    BY <2>7 DEF EpollWait, Select, signalVars
  <2>8. CASE PollOne \/ CallbackDone \/ Collect \/ LockBatch \/ EndBatch
    BY <2>8 DEF PollOne, CallbackDone, Collect, LockBatch, EndBatch, signalVars
  <2>9. ASSUME NEW e \in batch, Handle(e)
        PROVE  UNCHANGED Contract!ssVars
    BY <2>9 DEF Handle, OnEventOf, signalVars
  <2>10. ASSUME NEW k \in Keys, HandleKey(k)
         PROVE  UNCHANGED Contract!ssVars
    <3>1. pc = "batch" /\ pc' # "out" /\ UNCHANGED <<pipe, flag_wait_, cms_wait>>
      BY <2>10 DEF HandleKey, OnEventOf, signalVars
    <3> QED
      BY <3>1
  <2>11. CASE Wait_Timeout \/ Wait_Error \/ Again
    <3>1. /\ pc \in {"poll", "again"} /\ UNCHANGED <<pipe, flag_wait_>>
          /\ pc' = "out" \/ (pc' # "out" /\ cms_wait' = cms_wait)
      BY <2>11 DEF Wait_Timeout, Wait_Error, Again, Wait_Returns, Round, signalVars
    <3>2. CASE pc' = "out"
      BY <3>1, <3>2 DEF Contract!WaitReturn, WaitInv, WaitType
    <3>3. CASE pc' # "out"
      BY <3>1, <3>3
    <3> QED
      BY <3>2, <3>3
  <2>12. CASE OnEvent
    <3>1. pipe = 1 /\ pipe' = 0 /\ flag_wait_
      BY <2>12, OnEventStep
    <3>2. pc = "signaler" /\ pc' # "out" /\ flag_wait_' = FALSE /\ cms_wait' = cms_wait
      BY <2>12 DEF OnEvent
    <3> QED
      BY <3>1, <3>2 DEF Contract!Consume, Contract!Blocked, WaitInv, WaitType
  <2> QED
    BY <2>2, <2>3, <2>4, <2>5, <2>6, <2>7, <2>8, <2>9, <2>10, <2>11, <2>12, NextCases DEF WaitOp, WaitStep
<1> QED
  BY <1>1, <1>2, Invariance, PTL DEF Spec, ImplementsSocketServer, Contract!SSSpec
=============================================================================
