------------------------- MODULE PhysicalSocketServer -------------------------
(***************************************************************************)
(* class PhysicalSocketServer (net/physical_socket_server.h, .cpp), built  *)
(* with U_USE_EPOLL or without (backend "epoll" and "select"), and class   *)
(* Signaler, the pipe behind WakeUp.                                       *)
(*                                                                         *)
(* One thread, Loop, calls Wait; any thread calls WakeUp; any thread       *)
(* creates and closes sockets and changes the events they ask for, the     *)
(* loop thread also from inside an OnEvent that Wait is running.  A socket *)
(* is seen here as a dispatcher with a descriptor and a set of requested   *)
(* events.  What the kernel does (epoll, select, the pipe, descriptor       *)
(* numbers) is modelled from how this code uses it.                        *)
(***************************************************************************)
EXTENDS Integers, FiniteSets

CONSTANTS
  Loop, Workers,    \* the thread that waits, and the others
  Sockets,          \* SocketDispatcher objects
  Signaler,         \* signal_wakeup_, a dispatcher too
  Fds, SignalFd,    \* descriptors of sockets; the read end of the pipe
  Events,           \* epoll events a socket can ask for (EPOLLIN, EPOLLOUT)
  Backends,         \* the builds to look at
  NumEpollEvents,   \* kNumEpollEvents, the size of epoll_events_
  MaxKey,           \* bound: next_dispatcher_key_ is a uint64_t
  None              \* no dispatcher, no descriptor, no entry, no thread

Threads == Workers \cup {Loop}
Dispatchers == Sockets \cup {Signaler}
Keys == 0..MaxKey
NoKey == -1
Entry == [key : Keys, events : SUBSET Events]

ASSUME PSSAssumption ==
  /\ Loop \notin Workers /\ IsFiniteSet(Workers)
  /\ Signaler \notin Sockets /\ SignalFd \notin Fds
  /\ None \notin Threads \cup Dispatchers \cup Fds \cup {SignalFd}
  /\ None \notin Entry \cup [of : Sockets, events : SUBSET Events]
  /\ Backends \subseteq {"epoll", "select"}
  /\ NumEpollEvents \in Nat \ {0}
  /\ MaxKey \in Nat

VARIABLES
  backend,
  next_dispatcher_key_,
  key_by_dispatcher_, dispatcher_by_key_,   \* NoKey, None: not in the map
  s_,               \* the descriptor of each dispatcher
  enabled,          \* what GetRequestedEvents asks of epoll
  saved_enabled_events_,      \* of the one socket whose OnEvent runs; None: -1
  epoll,            \* the interest list: per descriptor [key, events] or None
  pipe,             \* bytes in the pipe
  f_signaled_,
  signal_mutex,     \* who holds Signaler::mutex_ across steps
  flag_wait_,
  pc,               \* where the loop thread is in Wait
  cms_wait,         \* "forever" or "timed"
  process_io,
  batch,            \* events of epoll_events_, or bits that select left in
                    \* its sets, that are still to be handled
  fd_sets,          \* what select is asked to watch
  current_dispatcher_keys_,   \* grows: nothing ever clears it
  keys_left,        \* what of them the for loop has still to visit
  op,               \* where each thread is in an operation on a socket
  gen               \* history: how often each dispatcher was added

registryVars == <<next_dispatcher_key_, key_by_dispatcher_, dispatcher_by_key_, epoll, gen>>
socketVars   == <<s_, enabled, saved_enabled_events_>>
signalVars   == <<pipe, f_signaled_, signal_mutex>>
selectVars   == <<fd_sets, current_dispatcher_keys_, keys_left>>
waitVars     == <<flag_wait_, pc, cms_wait, process_io, batch, selectVars, backend>>
vars == <<registryVars, socketVars, signalVars, waitVars, op>>

Idle == [step |-> "idle"]
Steps == {"add", "update", "remove", "close"}
(* at: epoll's key or select's descriptor.  owner and gen are history:     *)
(* who it was that the kernel reported.                                    *)
Event == [at : Keys \cup Fds \cup {SignalFd}, owner : Dispatchers, gen : Nat]

TypeOK ==
  /\ next_dispatcher_key_ \in 0..(MaxKey + 1)
  /\ key_by_dispatcher_ \in [Dispatchers -> Keys \cup {NoKey}]
  /\ dispatcher_by_key_ \in [Keys -> Dispatchers \cup {None}]
  /\ s_ \in [Dispatchers -> Fds \cup {SignalFd, None}]
  /\ enabled \in [Dispatchers -> SUBSET Events]
  /\ saved_enabled_events_ \in [of : Sockets, events : SUBSET Events] \cup {None}
  /\ epoll \in [Fds \cup {SignalFd} -> Entry \cup {None}]
  /\ pipe \in Nat
  /\ f_signaled_ \in BOOLEAN
  /\ signal_mutex \in Threads \cup {None}
  /\ flag_wait_ \in BOOLEAN
  /\ pc \in {"out", "collect", "poll", "lock", "batch", "signaler", "callback", "again"}
  /\ cms_wait \in {"forever", "timed"}
  /\ process_io \in BOOLEAN
  /\ batch \subseteq Event
  /\ fd_sets \subseteq Fds \cup {SignalFd}
  /\ current_dispatcher_keys_ \subseteq Keys /\ keys_left \subseteq Keys
  /\ backend \in {"epoll", "select"}
  /\ op \in [Threads -> {Idle} \cup [step : Steps, on : Sockets]]
  /\ gen \in [Dispatchers -> Nat]

(* After the constructor: the Signaler is added, under key 0.              *)
Init ==
  /\ backend \in Backends
  /\ next_dispatcher_key_ = 1
  /\ key_by_dispatcher_ = [d \in Dispatchers |-> IF d = Signaler THEN 0 ELSE NoKey]
  /\ dispatcher_by_key_ = [k \in Keys |-> IF k = 0 THEN Signaler ELSE None]
  /\ s_ = [d \in Dispatchers |-> IF d = Signaler THEN SignalFd ELSE None]
  /\ enabled = [d \in Dispatchers |-> Events] /\ saved_enabled_events_ = None
  /\ epoll = [fd \in Fds \cup {SignalFd} |->
                IF fd = SignalFd /\ backend = "epoll"
                THEN [key |-> 0, events |-> Events] ELSE None]
  /\ pipe = 0 /\ f_signaled_ = FALSE /\ signal_mutex = None
  /\ flag_wait_ = FALSE /\ pc = "out" /\ cms_wait = "forever" /\ process_io = TRUE
  /\ batch = {} /\ fd_sets = {} /\ current_dispatcher_keys_ = {} /\ keys_left = {}
  /\ op = [t \in Threads |-> Idle]
  /\ gen = [d \in Dispatchers |-> IF d = Signaler THEN 1 ELSE 0]

-----------------------------------------------------------------------------
(* Threads.                                                                *)

(* OnEvent is called from a batch, but from WaitPollOneDispatcher. *)
InBatch == process_io \/ backend = "select"

(* recursive_mutex_ is held across steps by Wait only, from the lock it    *)
(* takes for a batch to the end of the batch, OnEvent calls included; the  *)
(* loop thread may take it again.                                          *)
BatchLocked == pc \in {"batch", "callback"} \/ (pc = "signaler" /\ InBatch)
MayLock(t) == t = Loop \/ ~BatchLocked

(* The loop thread runs other code between Waits and inside an OnEvent. *)
Runs(t) == t = Loop => pc \in {"out", "callback"}

-----------------------------------------------------------------------------
(* Mutant: a byte for every WakeUp. *)
Signal_Write_Always(t) ==
  /\ Runs(t) /\ op[t] = Idle
  /\ signal_mutex = None
  /\ signal_mutex' = t
  /\ pipe' = pipe + 1
  /\ pipe < 3
  /\ UNCHANGED <<f_signaled_, registryVars, socketVars, waitVars, op>>

(* WakeUp: Signaler::Signal.  The write and f_signaled_ are one critical   *)
(* section, but the pipe is seen by epoll_wait in between.                 *)
Signal_Write(t) ==
  /\ Runs(t) /\ op[t] = Idle
  /\ signal_mutex = None
  /\ signal_mutex' = t
  /\ pipe' = IF f_signaled_ THEN pipe ELSE pipe + 1
  /\ UNCHANGED <<f_signaled_, registryVars, socketVars, waitVars, op>>

Signal_Unlock(t) ==
  /\ signal_mutex = t
  /\ f_signaled_' = TRUE
  /\ signal_mutex' = None
  /\ UNCHANGED <<pipe, registryVars, socketVars, waitVars, op>>

-----------------------------------------------------------------------------
(* Sockets: what SocketDispatcher's operations ask of the server.          *)

Free(t) == Runs(t) /\ op[t] = Idle /\ signal_mutex # t

(* Nobody creates or closes d at this moment: only its owner does that. *)
Settled(d) == \A u \in Threads : op[u] # Idle => (op[u].on # d \/ op[u].step = "update")

(* A descriptor number is used again as soon as it was closed.  A stream   *)
(* socket keeps its events, a datagram socket asks for all of them.        *)
Create(t, d, fd) ==
  /\ Free(t) /\ Settled(d) /\ s_[d] = None
  /\ \A e \in Sockets : s_[e] # fd
  /\ next_dispatcher_key_ + Cardinality({u \in Threads : op[u].step = "add"}) <= MaxKey
  /\ s_' = [s_ EXCEPT ![d] = fd]
  /\ enabled' \in {enabled, [enabled EXCEPT ![d] = Events]}
  /\ op' = [op EXCEPT ![t] = [step |-> "add", on |-> d]]
  /\ UNCHANGED <<saved_enabled_events_, registryVars, signalVars, waitVars>>

(* Mutant: the smallest key that is not in use. *)
Add_ReusesKeys(t) ==
  /\ op[t].step = "add" /\ MayLock(t)
  /\ op' = [op EXCEPT ![t] = Idle]
  /\ LET d == op[t].on
         key == CHOOSE k \in Keys : /\ dispatcher_by_key_[k] = None
                                    /\ \A j \in 0..(k - 1) : dispatcher_by_key_[j] # None
     IN  /\ next_dispatcher_key_' = next_dispatcher_key_ + 1
         /\ key_by_dispatcher_' = [key_by_dispatcher_ EXCEPT ![d] = key]
         /\ dispatcher_by_key_' = [dispatcher_by_key_ EXCEPT ![key] = d]
         /\ epoll' = IF enabled[d] = {} \/ backend = "select" THEN epoll
                     ELSE [epoll EXCEPT ![s_[d]] = [key |-> key, events |-> enabled[d]]]
         /\ gen' = [gen EXCEPT ![d] = @ + 1]
  /\ UNCHANGED <<socketVars, signalVars, waitVars>>

(* Add, with AddEpoll: no entry for a socket that asks for nothing.  (The  *)
(* dispatcher is a new one, so it is never "already added".)               *)
Add(t) ==
  /\ op[t].step = "add" /\ MayLock(t)
  /\ op' = [op EXCEPT ![t] = Idle]
  /\ LET d == op[t].on
         key == next_dispatcher_key_
     IN  /\ next_dispatcher_key_' = key + 1
         /\ key_by_dispatcher_' = [key_by_dispatcher_ EXCEPT ![d] = key]
         /\ dispatcher_by_key_' = [dispatcher_by_key_ EXCEPT ![key] = d]
         /\ epoll' = IF enabled[d] = {} \/ backend = "select" THEN epoll
                     ELSE [epoll EXCEPT ![s_[d]] = [key |-> key, events |-> enabled[d]]]
         /\ gen' = [gen EXCEPT ![d] = @ + 1]
  /\ UNCHANGED <<socketVars, signalVars, waitVars>>

(* Between its StartBatchedEventUpdates and FinishBatchedEventUpdates. *)
InOnEvent(d) == saved_enabled_events_ # None /\ saved_enabled_events_.of = d

(* What epoll watches an added socket for. *)
Watched(d) == IF epoll[s_[d]] = None THEN {} ELSE epoll[s_[d]].events

(* An Update of d is still to come, or d is about to be removed.           *)
Updating(d) == \E t \in Threads : op[t].step \in {"update", "remove"} /\ op[t].on = d

(* A handler closed d and opened it again as a datagram socket: Add asked  *)
(* for both events, of which what is left of OnEvent takes one at most.    *)
Reopened(d) == /\ InOnEvent(d) /\ saved_enabled_events_.events = {}
               /\ key_by_dispatcher_[d] # NoKey /\ Watched(d) # {} /\ ~Updating(d)

(* SetEnabledEvents, EnableEvents and DisableEvents change the events and, *)
(* if epoll would see a difference, call Update: now, or what they all     *)
(* come to at the end of OnEvent.  Without epoll the next round of         *)
(* WaitSelect looks at them.                                               *)
SetEvents(t, d, ev) ==
  /\ Free(t) /\ s_[d] # None /\ ev # enabled[d]
  /\ Reopened(d) => ev # {}
  /\ enabled' = [enabled EXCEPT ![d] = ev]
  /\ op' = IF backend = "select" \/ InOnEvent(d) THEN op
           ELSE [op EXCEPT ![t] = [step |-> "update", on |-> d]]
  /\ UNCHANGED <<s_, saved_enabled_events_, registryVars, signalVars, waitVars>>

(* Mutant: Update does not look whether the dispatcher is added. *)
Update_Unchecked(t) ==
  /\ op[t].step = "update" /\ MayLock(t)
  /\ op' = [op EXCEPT ![t] = Idle]
  /\ LET d == op[t].on
     IN  epoll' = IF s_[d] = None \/ (enabled[d] = {} /\ epoll[s_[d]] = None) THEN epoll
                  ELSE [epoll EXCEPT ![s_[d]] = [key |-> key_by_dispatcher_[d],
                                                 events |-> enabled[d]]]
  /\ UNCHANGED <<next_dispatcher_key_, key_by_dispatcher_, dispatcher_by_key_, gen,
                 socketVars, signalVars, waitVars>>

(* Update, with UpdateEpoll: EPOLL_CTL_MOD, and EPOLL_CTL_ADD for a socket *)
(* that has no entry (ENOENT) unless it asks for nothing.                  *)
Update(t) ==
  /\ op[t].step = "update" /\ MayLock(t)
  /\ op' = [op EXCEPT ![t] = Idle]
  /\ LET d == op[t].on
         key == key_by_dispatcher_[d]
     IN  epoll' = IF key = NoKey \/ (enabled[d] = {} /\ epoll[s_[d]] = None) THEN epoll
                  ELSE [epoll EXCEPT ![s_[d]] = [key |-> key, events |-> enabled[d]]]
  /\ UNCHANGED <<next_dispatcher_key_, key_by_dispatcher_, dispatcher_by_key_, gen,
                 socketVars, signalVars, waitVars>>

(* Mutant: OnEvent keeps comparing with what was watched before.           *)
Close_KeepsSaved(t, d) ==
  /\ Free(t) /\ Settled(d) /\ s_[d] # None
  /\ op' = [op EXCEPT ![t] = [step |-> "remove", on |-> d]]
  /\ UNCHANGED <<registryVars, socketVars, signalVars, waitVars>>

(* SocketDispatcher::Close: Remove, then ::close.  An OnEvent that runs    *)
(* forgets what was watched.                                               *)
Close(t, d) ==
  /\ Free(t) /\ Settled(d) /\ s_[d] # None
  /\ saved_enabled_events_' = IF InOnEvent(d) THEN [saved_enabled_events_ EXCEPT !.events = {}]
                                              ELSE saved_enabled_events_
  /\ op' = [op EXCEPT ![t] = [step |-> "remove", on |-> d]]
  /\ UNCHANGED <<s_, enabled, registryVars, signalVars, waitVars>>

(* Mutant: the entry is left for ::close to remove. *)
Remove_MapsOnly(t) ==
  /\ op[t].step = "remove" /\ MayLock(t)
  /\ op' = [op EXCEPT ![t].step = "close"]
  /\ LET d == op[t].on
         key == key_by_dispatcher_[d]
     IN  IF key = NoKey
         THEN UNCHANGED <<key_by_dispatcher_, dispatcher_by_key_>>
         ELSE /\ key_by_dispatcher_' = [key_by_dispatcher_ EXCEPT ![d] = NoKey]
              /\ dispatcher_by_key_' = [dispatcher_by_key_ EXCEPT ![key] = None]
  /\ UNCHANGED <<next_dispatcher_key_, epoll, gen, socketVars, signalVars, waitVars>>

(* Remove, with RemoveEpoll. *)
Remove(t) ==
  /\ op[t].step = "remove" /\ MayLock(t)
  /\ op' = [op EXCEPT ![t].step = "close"]
  /\ LET d == op[t].on
         key == key_by_dispatcher_[d]
     IN  IF key = NoKey
         THEN UNCHANGED <<key_by_dispatcher_, dispatcher_by_key_, epoll>>
         ELSE /\ key_by_dispatcher_' = [key_by_dispatcher_ EXCEPT ![d] = NoKey]
              /\ dispatcher_by_key_' = [dispatcher_by_key_ EXCEPT ![key] = None]
              /\ epoll' = [epoll EXCEPT ![s_[d]] = None]
  /\ UNCHANGED <<next_dispatcher_key_, gen, socketVars, signalVars, waitVars>>

(* PhysicalSocket::Close.  The kernel forgets a closed descriptor; the     *)
(* Update that SetEnabledEvents(0) makes finds d no longer added.          *)
CloseFd(t) ==
  /\ op[t].step = "close"
  /\ LET d == op[t].on
     IN  /\ epoll' = [epoll EXCEPT ![s_[d]] = None]
         /\ s_' = [s_ EXCEPT ![d] = None]
         /\ enabled' = [enabled EXCEPT ![d] = {}]
  /\ op' = [op EXCEPT ![t] = Idle]
  /\ UNCHANGED <<saved_enabled_events_, next_dispatcher_key_, key_by_dispatcher_,
                 dispatcher_by_key_, gen, signalVars, waitVars>>

-----------------------------------------------------------------------------
(* Wait on the loop thread.  pc is "out" of Wait; about to "collect" what  *)
(* select shall watch, or to "poll"; to "lock" recursive_mutex_ for a      *)
(* batch; in the "batch"'s for loop; calling OnEvent of the "signaler" or  *)
(* of a socket ("callback"); or at the end of the while loop, about to go  *)
(* round "again".                                                          *)

Round == IF backend = "epoll" THEN "poll" ELSE "collect"

Wait(cms, io) ==
  /\ pc = "out" /\ Free(Loop)
  /\ cms_wait' = cms /\ process_io' = io
  /\ flag_wait_' = TRUE
  /\ pc' = Round
  /\ UNCHANGED <<batch, selectVars, backend, registryVars, socketVars, signalVars, op>>

(* Level-triggered: the pipe is reported while there is a byte in it, a    *)
(* socket at any time: with no events asked for, epoll still reports an    *)
(* error or a hang-up.                                                     *)
Reportable == {fd \in Fds : epoll[fd] # None} \cup (IF pipe > 0 THEN {SignalFd} ELSE {})

Reported(fd, at) == LET owner == CHOOSE d \in Dispatchers : s_[d] = fd
                    IN  [at |-> at, owner |-> owner, gen |-> gen[owner]]

(* epoll_wait with n > 0: S is all that is ready, or as many of it as      *)
(* epoll_events_ holds.                                                    *)
EpollWait(S) ==
  /\ pc = "poll" /\ process_io /\ backend = "epoll"
  /\ S # {} /\ S \subseteq Reportable /\ Cardinality(S) <= NumEpollEvents
  /\ (pipe > 0 /\ SignalFd \notin S) => Cardinality(S) = NumEpollEvents
  /\ batch' = {Reported(fd, epoll[fd].key) : fd \in S}
  /\ pc' = "lock"
  /\ UNCHANGED <<flag_wait_, cms_wait, process_io, selectVars, backend,
                 registryVars, socketVars, signalVars, op>>

(* WaitSelect's first for loop. *)
Collect ==
  /\ pc = "collect"
  /\ LET added == {d \in Dispatchers : key_by_dispatcher_[d] # NoKey}
         asked == IF process_io THEN added ELSE {Signaler}
     IN  /\ current_dispatcher_keys_' =
              current_dispatcher_keys_ \cup {key_by_dispatcher_[d] : d \in asked}
         /\ fd_sets' = {s_[d] : d \in {a \in asked : enabled[a] # {}}}
  /\ pc' = "poll"
  /\ UNCHANGED <<flag_wait_, cms_wait, process_io, batch, keys_left, backend,
                 registryVars, socketVars, signalVars, op>>

(* select with n > 0: all that is ready of what it was asked for; who owns *)
(* a descriptor by then may be another socket than when it was asked for.  *)
Select(S) ==
  /\ pc = "poll" /\ backend = "select"
  /\ S # {} /\ S \subseteq fd_sets
  /\ \A fd \in S : \E d \in Dispatchers : s_[d] = fd
  /\ SignalFd \in S <=> pipe > 0
  /\ batch' = {Reported(fd, fd) : fd \in S}
  /\ fd_sets' = {}
  /\ keys_left' = current_dispatcher_keys_
  /\ pc' = "lock"
  /\ UNCHANGED <<flag_wait_, cms_wait, process_io, current_dispatcher_keys_, backend,
                 registryVars, socketVars, signalVars, op>>

(* WaitPollOneDispatcher with n > 0. *)
PollOne ==
  /\ pc = "poll" /\ ~InBatch /\ pipe > 0
  /\ pc' = "signaler"
  /\ UNCHANGED <<flag_wait_, cms_wait, process_io, batch, selectVars, backend,
                 registryVars, socketVars, signalVars, op>>

(* The arguments of Wait are gone, its flag is not. *)
Wait_Returns == /\ pc' = "out"
                /\ cms_wait' = "forever" /\ process_io' = TRUE
                /\ UNCHANGED flag_wait_

(* n = 0 *)
Wait_Timeout ==
  /\ pc = "poll" /\ cms_wait = "timed" /\ pipe = 0
  /\ Wait_Returns
  /\ fd_sets' = {}
  /\ UNCHANGED <<batch, current_dispatcher_keys_, keys_left, backend,
                 registryVars, socketVars, signalVars, op>>

(* n < 0: EINTR is ignored, any other error makes Wait return false. *)
Wait_Error ==
  /\ pc = "poll"
  /\ Wait_Returns \/ (pc' = "again" /\ UNCHANGED <<flag_wait_, cms_wait, process_io>>)
  /\ fd_sets' = {}
  /\ UNCHANGED <<batch, current_dispatcher_keys_, keys_left, backend,
                 registryVars, socketVars, signalVars, op>>

LockBatch ==
  /\ pc = "lock"
  /\ pc' = "batch"
  /\ UNCHANGED <<flag_wait_, cms_wait, process_io, batch, selectVars, backend,
                 registryVars, socketVars, signalVars, op>>

OnEventOf(d) == CASE d = None     -> "batch"
                  [] d = Signaler -> "signaler"
                  [] OTHER        -> "callback"

(* One round of the for loop: an event whose key is no longer there is     *)
(* skipped, any other goes to ProcessEvents and OnEvent; a socket's begins *)
(* with StartBatchedEventUpdates.                                          *)
Handle(e) ==
  /\ pc = "batch" /\ op[Loop] = Idle /\ backend = "epoll" /\ e \in batch
  /\ batch' = batch \ {e}
  /\ LET d == dispatcher_by_key_[e.at]
     IN  /\ pc' = OnEventOf(d)
         /\ saved_enabled_events_' = IF d \in Sockets THEN [of |-> d, events |-> enabled[d]]
                                                      ELSE None
  /\ UNCHANGED <<s_, enabled, flag_wait_, cms_wait, process_io, selectVars, backend,
                 registryVars, signalVars, op>>

(* One round of WaitSelect's second for loop: the bits of the dispatcher's *)
(* descriptor are looked at and cleared.                                   *)
HandleKey(k) ==
  /\ pc = "batch" /\ backend = "select" /\ k \in keys_left
  /\ LET d    == dispatcher_by_key_[k]
         bits == {e \in batch : d # None /\ e.at = s_[d]}
     IN  /\ batch' = batch \ bits
         /\ pc' = IF bits = {} THEN "batch" ELSE OnEventOf(d)
  /\ keys_left' = keys_left \ {k}
  /\ UNCHANGED <<flag_wait_, cms_wait, process_io, fd_sets, current_dispatcher_keys_, backend,
                 registryVars, socketVars, signalVars, op>>

(* Mutant: the flag Wait looks at is not cleared. *)
OnEvent_FlagKept ==
  /\ pc = "signaler" /\ signal_mutex = None
  /\ f_signaled_ => pipe > 0
  /\ pipe' = IF f_signaled_ THEN (IF pipe <= 4 THEN 0 ELSE pipe - 4) ELSE pipe
  /\ f_signaled_' = FALSE
  /\ pc' = IF InBatch THEN "batch" ELSE "again"
  /\ UNCHANGED <<flag_wait_, cms_wait, process_io, batch, selectVars, backend, signal_mutex,
                 registryVars, socketVars, op>>

(* Signaler::OnEvent, one critical section.  The pipe is a blocking one:   *)
(* a read with nothing in it would not return.                             *)
OnEvent ==
  /\ pc = "signaler" /\ signal_mutex = None
  /\ f_signaled_ => pipe > 0
  /\ pipe' = IF f_signaled_ THEN (IF pipe <= 4 THEN 0 ELSE pipe - 4) ELSE pipe
  /\ f_signaled_' = FALSE
  /\ flag_wait_' = FALSE
  /\ pc' = IF InBatch THEN "batch" ELSE "again"
  /\ UNCHANGED <<cms_wait, process_io, batch, selectVars, backend, signal_mutex,
                 registryVars, socketVars, op>>

(* OnEvent of a socket returns.  With epoll FinishBatchedEventUpdates      *)
(* calls Update if the events differ from those it began with.             *)
CallbackDone ==
  /\ pc = "callback" /\ Free(Loop)
  /\ pc' = "batch"
  /\ saved_enabled_events_' = None
  /\ LET saved == saved_enabled_events_
     IN  op' = IF saved # None /\ saved.events # enabled[saved.of]
               THEN [op EXCEPT ![Loop] = [step |-> "update", on |-> saved.of]] ELSE op
  /\ UNCHANGED <<s_, enabled, flag_wait_, cms_wait, process_io, batch, selectVars, backend,
                 registryVars, signalVars>>

(* What is left of select's bits is not looked at any more. *)
EndBatch ==
  /\ pc = "batch" /\ op[Loop] = Idle
  /\ IF backend = "epoll" THEN batch = {} ELSE keys_left = {}
  /\ batch' = {}
  /\ pc' = "again"
  /\ UNCHANGED <<flag_wait_, cms_wait, process_io, selectVars, backend,
                 registryVars, socketVars, signalVars, op>>

(* Mutant: a Wait for ever goes on after a WakeUp. *)
Again_TimedOnly ==
  /\ pc = "again"
  /\ \/ cms_wait = "timed" /\ Wait_Returns
     \/ pc' = Round /\ UNCHANGED <<flag_wait_, cms_wait, process_io>>
  /\ UNCHANGED <<batch, selectVars, backend, registryVars, socketVars, signalVars, op>>

(* With epoll a timed Wait takes its end, in milliseconds, from the clock  *)
(* in microseconds: what is left is negative and Wait returns, unless the  *)
(* timeout was longer than 999 times the uptime.  select itself counts     *)
(* down the time it was given.                                             *)
Again ==
  /\ pc = "again"
  /\ \/ /\ ~flag_wait_ \/ (cms_wait = "timed" /\ backend = "epoll")
        /\ Wait_Returns
     \/ flag_wait_ /\ pc' = Round /\ UNCHANGED <<flag_wait_, cms_wait, process_io>>
  /\ UNCHANGED <<batch, selectVars, backend, registryVars, socketVars, signalVars, op>>

-----------------------------------------------------------------------------
SocketStep(t) == Add(t) \/ Update(t) \/ Remove(t) \/ CloseFd(t)

WaitStep == \/ Collect \/ LockBatch \/ EndBatch \/ Again
            \/ \E e \in batch : Handle(e)
            \/ \E k \in Keys : HandleKey(k)

Next ==
  \/ \E t \in Threads :
       \/ Signal_Write(t) \/ Signal_Unlock(t)
       \/ SocketStep(t)
       \/ \E d \in Sockets : \/ \E fd \in Fds : Create(t, d, fd)
                             \/ \E ev \in SUBSET Events : SetEvents(t, d, ev)
                             \/ Close(t, d)
  \/ \E cms \in {"forever", "timed"}, io \in BOOLEAN : Wait(cms, io)
  \/ \E S \in SUBSET (Fds \cup {SignalFd}) : EpollWait(S) \/ Select(S)
  \/ PollOne \/ Wait_Timeout \/ Wait_Error \/ OnEvent \/ CallbackDone
  \/ WaitStep

Spec == Init /\ [][Next]_vars

(* Threads run and system calls return; a callback ends, however many      *)
(* operations it makes; a mutex that is released again and again is got    *)
(* in the end; epoll_wait, poll and select do not fail for ever, and the   *)
(* kernel reports its ready descriptors in rotation, so none is left out   *)
(* for ever when they do not fit into epoll_events_.                       *)
Fairness ==
  /\ WF_vars(\E t \in Threads : Signal_Unlock(t))
  /\ WF_vars(SocketStep(Loop))
  /\ WF_vars(WaitStep)
  /\ SF_vars(PollOne)
  /\ SF_vars(\E S \in SUBSET (Fds \cup {SignalFd}) :
                (EpollWait(S) \/ Select(S)) /\ SignalFd \in S)
  /\ SF_vars(OnEvent) /\ SF_vars(CallbackDone)

FairSpec == Spec /\ Fairness

-----------------------------------------------------------------------------
(* Properties.                                                             *)

(* The dispatcher that gets an event of a batch that is still to be        *)
(* handled is the one that the kernel reported, as it was added then:      *)
(* sockets closed and created meanwhile, by an OnEvent of the same batch   *)
(* or by another thread, even on the same descriptor or at the same        *)
(* address, never get an event of an older one (the lookup by key in       *)
(* WaitEpoll and WaitSelect; Add, Remove).                                 *)
Receives(d, e) ==
  IF backend = "epoll" THEN dispatcher_by_key_[e.at] = d
  ELSE \E k \in keys_left : dispatcher_by_key_[k] = d /\ s_[d] = e.at

NoStaleEvent ==
  \A e \in batch, d \in Dispatchers : Receives(d, e) => d = e.owner /\ gen[d] = e.gen

(* Every entry of the interest list belongs to a dispatcher that is added, *)
(* under the key both maps have for it, and is on its own descriptor (Add, *)
(* Remove, Update, also when they race with Close and a reuse of the       *)
(* descriptor).                                                            *)
EpollSound ==
  \A fd \in Fds \cup {SignalFd} : epoll[fd] # None =>
    \E d \in Dispatchers : /\ s_[d] = fd
                           /\ key_by_dispatcher_[d] = epoll[fd].key
                           /\ dispatcher_by_key_[epoll[fd].key] = d

(* Outside its OnEvent, once no Update of a socket is pending, epoll       *)
(* watches it for the events it asks for, whichever threads changed them   *)
(* in whatever order, before or after it was added, and whatever its       *)
(* handlers did, closing it and opening it again included (SetEvents, Add, *)
(* Update, StartBatchedEventUpdates to FinishBatchedEventUpdates).         *)
InterestInSync ==
  \A d \in Sockets :
    /\ backend = "epoll" /\ key_by_dispatcher_[d] # NoKey
    /\ ~Updating(d) /\ ~InOnEvent(d)
    => Watched(d) = enabled[d]

(* There is a byte in the pipe exactly when f_signaled_ says so, never     *)
(* two: however often WakeUp is called, its write does not fill the pipe,  *)
(* and OnEvent's read does not block (Signal, OnEvent).                    *)
PipeInSync == pipe <= 1 /\ (signal_mutex = None => (f_signaled_ <=> pipe = 1))

(* The server keeps the contract of SocketServer: a WakeUp is remembered   *)
(* until a Wait takes notice of it, and Wait then returns.                 *)
Contract == INSTANCE SocketServer WITH
  signaled <- pipe > 0,
  waiting <- IF pc = "out" THEN "no" ELSE IF flag_wait_ THEN cms_wait ELSE "woken"

ImplementsSocketServer == Contract!SSSpec

(* After a WakeUp the Wait in progress ends, with any number of sockets    *)
(* ready all the time and more WakeUps coming (WakeUp, WaitEpoll).         *)
WakeUpEndsWait == (pc # "out" /\ pipe > 0) ~> pc = "out"
=============================================================================
