-------------------------------- MODULE Thread --------------------------------
(***************************************************************************)
(* class Thread (concurrency/thread.h, thread.cpp): a message loop.        *)
(* ProcessMessages runs on the loop thread and alternates Get and          *)
(* Dispatch; Get drains messages_ and delayed_messages_ under mutex_ and   *)
(* otherwise blocks in ss_->Wait.  Any thread may post, the loop thread    *)
(* too (from a task, or from an I/O callback that Wait runs), and any      *)
(* thread may call Quit.                                                   *)
(*                                                                         *)
(* ss_ is the contract of SocketServer.tla.  A step of the model is what   *)
(* the code does between two points at which another thread's step can     *)
(* make a difference: a load or store of stop_, a critical section of      *)
(* mutex_, a call of ss_, a reading of the clock.                          *)
(***************************************************************************)
EXTENDS Integers, Sequences, SocketServer

CONSTANTS
  Clients,      \* threads other than the loop thread that post
  LoopThread,   \* the thread ProcessMessages runs on, as a poster
  Tasks,        \* the std::function<void()> objects; each is posted once
  NullTasks,    \* those of them that are empty
  Delays,       \* arguments of PostDelayedTask, ms
  Timeouts,     \* arguments of ProcessMessages, ms or kForever
  NumMod,       \* 2^32: delayed_next_num_ is a uint32_t
  WaitMayFail,  \* ss_->Wait may return false
  MaxTime       \* bound: the clock stops here, and no task is due later

kForever == -1

Posters == Clients \cup {LoopThread}

ASSUME ThreadAssumption ==
  /\ LoopThread \notin Clients
  /\ NullTasks \subseteq Tasks
  /\ Delays \subseteq Int
  /\ Timeouts \subseteq Nat \cup {kForever}
  /\ NumMod \in Nat /\ NumMod > 1
  /\ WaitMayFail \in BOOLEAN
  /\ MaxTime \in Nat

VARIABLES
  messages_,          \* Seq(Tasks)
  delayed_messages_,  \* set of DelayedMessage; the heap's top is Top(m)
  delayed_next_num_,
  stop_,
  now,                \* TimeMillis()
  pc,                 \* where the loop thread is
  cms, ms_end,        \* locals of ProcessMessages
  cms_wait, ms_start, ms_current, cms_delay_next,   \* locals of Get
  ret,                \* what the last ProcessMessages returned
  op,                 \* where each poster is in PostTaskImpl or PostDelayedTaskImpl
  fresh,              \* tasks nobody has posted yet
  executed            \* history: the tasks Get returned, in order

queueVars == <<messages_, delayed_messages_, delayed_next_num_>>
getVars   == <<cms_wait, ms_start, ms_current, cms_delay_next>>
loopVars  == <<pc, cms, ms_end, getVars, ret, executed>>
postVars  == <<op, fresh>>
vars == <<queueVars, stop_, now, loopVars, postVars, ssVars>>

(* delay_ms, which nothing reads, is left out. *)
DelayedMessage == [run_time_ms : Int, message_number : 0..(NumMod - 1), functor : Tasks]

Idle == [step |-> "idle"]
Wake == [step |-> "wake"]
PushOp == [step : {"push"}, functor : Tasks]
PushDelayedOp == [step : {"push_delayed"}, functor : Tasks, run_time_ms : Int]

PCs == {"out", "call", "get", "locked", "check", "wait", "dispatch", "empty"}

TypeOK ==
  /\ messages_ \in Seq(Tasks)
  /\ delayed_messages_ \subseteq DelayedMessage
  /\ delayed_next_num_ \in 0..(NumMod - 1)
  /\ stop_ \in BOOLEAN
  /\ now \in 0..MaxTime
  /\ pc \in PCs
  /\ cms \in Timeouts \cup {0} /\ ms_end \in Nat
  /\ cms_wait \in Nat \cup {kForever}
  /\ ms_start \in Nat /\ ms_current \in Nat
  /\ cms_delay_next \in Nat \cup {kForever}
  /\ ret \in BOOLEAN
  /\ op \in [Posters -> {Idle, Wake} \cup PushOp \cup PushDelayedOp]
  /\ fresh \subseteq Tasks
  /\ executed \in Seq(Tasks)
  /\ SSTypeOK

Init ==
  /\ messages_ = <<>> /\ delayed_messages_ = {} /\ delayed_next_num_ = 1
  /\ stop_ = FALSE
  /\ now = 0
  /\ pc = "out" /\ cms = 0 /\ ms_end = 0
  /\ cms_wait = 0 /\ ms_start = 0 /\ ms_current = 0 /\ cms_delay_next = kForever
  /\ ret = FALSE
  /\ op = [a \in Posters |-> Idle]
  /\ fresh = Tasks
  /\ executed = <<>>
  /\ SSInit

-----------------------------------------------------------------------------
(* Posting.                                                                *)

(* The loop thread runs user code only in a task or in an I/O callback. *)
MayCall(a) == a = LoopThread => pc \in {"dispatch", "wait"}

(* mutex_ is held across several steps by Get only. *)
MutexFree == pc # "locked"

(* IsQuitting() is the first thing both Post functions look at: a task     *)
(* posted to a quitting thread is dropped.                                 *)
PostTaskImpl(a, t) ==
  /\ op[a] = Idle /\ MayCall(a) /\ t \in fresh
  /\ fresh' = fresh \ {t}
  /\ op' = [op EXCEPT ![a] = IF stop_ THEN Idle ELSE [step |-> "push", functor |-> t]]
  /\ UNCHANGED <<queueVars, stop_, now, loopVars, ssVars>>

(* TimeAfter(delay_ms) is read before mutex_ is taken. *)
PostDelayedTaskImpl(a, t, delay_ms) ==
  /\ op[a] = Idle /\ MayCall(a) /\ t \in fresh
  /\ now + delay_ms <= MaxTime
  /\ fresh' = fresh \ {t}
  /\ op' = [op EXCEPT ![a] =
              IF stop_ THEN Idle
              ELSE [step |-> "push_delayed", functor |-> t, run_time_ms |-> now + delay_ms]]
  /\ UNCHANGED <<queueVars, stop_, now, loopVars, ssVars>>

(* Mutant: the task is queued and nobody is woken. *)
Push_NoWakeUp(a) ==
  /\ op[a].step = "push" /\ MutexFree
  /\ messages_' = Append(messages_, op[a].functor)
  /\ op' = [op EXCEPT ![a] = Idle]
  /\ UNCHANGED <<delayed_messages_, delayed_next_num_, stop_, now, loopVars, fresh, ssVars>>

Push(a) ==
  /\ op[a].step = "push" /\ MutexFree
  /\ messages_' = Append(messages_, op[a].functor)
  /\ op' = [op EXCEPT ![a] = Wake]
  /\ UNCHANGED <<delayed_messages_, delayed_next_num_, stop_, now, loopVars, fresh, ssVars>>

(* Mutant: a delayed task does not wake the loop, it is not due anyway. *)
PushDelayed_NoWakeUp(a) ==
  /\ op[a].step = "push_delayed" /\ MutexFree
  /\ delayed_messages_' = delayed_messages_ \cup
       {[run_time_ms |-> op[a].run_time_ms, message_number |-> delayed_next_num_,
         functor |-> op[a].functor]}
  /\ delayed_next_num_' = (delayed_next_num_ + 1) % NumMod
  /\ op' = [op EXCEPT ![a] = Idle]
  /\ UNCHANGED <<messages_, stop_, now, loopVars, fresh, ssVars>>

PushDelayed(a) ==
  /\ op[a].step = "push_delayed" /\ MutexFree
  /\ delayed_messages_' = delayed_messages_ \cup
       {[run_time_ms |-> op[a].run_time_ms, message_number |-> delayed_next_num_,
         functor |-> op[a].functor]}
  /\ delayed_next_num_' = (delayed_next_num_ + 1) % NumMod
  /\ op' = [op EXCEPT ![a] = Wake]
  /\ UNCHANGED <<messages_, stop_, now, loopVars, fresh, ssVars>>

WakeUpSocketServer(a) ==
  /\ op[a].step = "wake"
  /\ op' = [op EXCEPT ![a] = Idle]
  /\ WakeUp
  /\ UNCHANGED <<queueVars, stop_, now, loopVars, fresh>>

(* The WakeUpSocketServer() call in Quit stands after a return statement   *)
(* and is never made.                                                      *)
Quit == /\ stop_' = TRUE
        /\ UNCHANGED <<queueVars, now, loopVars, postVars, ssVars>>

(* Called between two runs of the loop, as after Stop and before Start. *)
Restart == /\ pc = "out"
           /\ stop_' = FALSE
           /\ UNCHANGED <<queueVars, now, loopVars, postVars, ssVars>>

-----------------------------------------------------------------------------
(* The loop thread.  pc is "out" of ProcessMessages; about to "call" Get;  *)
(* at the top of "get"'s loop; "locked" in its critical section; past it,  *)
(* to "check" IsQuitting; in ss_->"wait"; in a task ("dispatch"); or back  *)
(* from Get with an "empty" task.                                          *)

(* The locals of Get die when ProcessMessages returns. *)
Leave(result) == /\ pc' = "out" /\ ret' = result
                 /\ cms_wait' = 0 /\ ms_start' = 0 /\ ms_current' = 0
                 /\ cms_delay_next' = kForever

ProcessMessages(c) ==
  /\ pc = "out"
  /\ cms' = c
  /\ ms_end' = IF c = kForever THEN 0 ELSE now + c
  /\ cms_wait' = c
  /\ pc' = "call"
  /\ ret' = FALSE
  /\ UNCHANGED <<queueVars, stop_, now, ms_start, ms_current, cms_delay_next, executed,
                 postVars, ssVars>>

(* Get reads the clock, then takes mutex_; posts can come in between. *)
Get_Start ==
  /\ pc = "call"
  /\ ms_start' = now /\ ms_current' = now
  /\ pc' = "get"
  /\ UNCHANGED <<queueVars, stop_, now, cms, ms_end, cms_wait, cms_delay_next, ret, executed,
                 postVars, ssVars>>

Get_Lock ==
  /\ pc = "get"
  /\ pc' = "locked"
  /\ UNCHANGED <<queueVars, stop_, now, cms, ms_end, getVars, ret, executed, postVars, ssVars>>

(* Mutant: messages due at the same time are equal. *)
Before_TimeOnly(m, n) == m.run_time_ms < n.run_time_ms

(* DelayedMessage::operator< as std::priority_queue uses it: m is nearer   *)
(* the top than n.                                                         *)
Before(m, n) == \/ m.run_time_ms < n.run_time_ms
                \/ m.run_time_ms = n.run_time_ms /\ m.message_number < n.message_number

Top(m) == m \in delayed_messages_ /\ \A n \in delayed_messages_ : ~Before(n, m)

Due(m) == m.run_time_ms <= ms_current

(* Mutant: the pop is forgotten on the way out of the loop. *)
Promote_NoPop(m) ==
  /\ pc = "locked" /\ Top(m) /\ Due(m)
  /\ messages_' = Append(messages_, m.functor)
  /\ delayed_messages_' \in {delayed_messages_, delayed_messages_ \ {m}}
  /\ UNCHANGED <<delayed_next_num_, stop_, now, loopVars, postVars, ssVars>>

(* One round of the loop in ProcessDelayedMessage ... *)
Promote(m) ==
  /\ pc = "locked" /\ Top(m) /\ Due(m)
  /\ messages_' = Append(messages_, m.functor)
  /\ delayed_messages_' = delayed_messages_ \ {m}
  /\ UNCHANGED <<delayed_next_num_, stop_, now, loopVars, postVars, ssVars>>

(* ... which ends with the top not due, or with no message left ... *)
NoneDue == \A m \in delayed_messages_ : Top(m) => ~Due(m)

(* ... and what it returns then. *)
ProcessDelayedMessage ==
  IF delayed_messages_ = {} THEN {kForever}
  ELSE {m.run_time_ms - ms_current : m \in {n \in delayed_messages_ : Top(n)}}

(* The front message leaves Get and goes to Dispatch, which calls it.  An  *)
(* empty std::function looks to ProcessMessages like no task at all.       *)
Get_Take ==
  /\ pc = "locked" /\ NoneDue /\ messages_ # <<>>
  /\ messages_' = Tail(messages_)
  /\ executed' = Append(executed, Head(messages_))
  /\ pc' = IF Head(messages_) \in NullTasks THEN "empty" ELSE "dispatch"
  /\ UNCHANGED <<delayed_messages_, delayed_next_num_, stop_, now, cms, ms_end, getVars, ret,
                 postVars, ssVars>>

Get_Unlock ==
  /\ pc = "locked" /\ NoneDue /\ messages_ = <<>>
  /\ cms_delay_next' \in ProcessDelayedMessage
  /\ pc' = "check"
  /\ UNCHANGED <<queueVars, stop_, now, cms, ms_end, cms_wait, ms_start, ms_current, ret,
                 executed, postVars, ssVars>>

Get_Quit ==
  /\ pc = "check" /\ stop_
  /\ pc' = "empty"
  /\ UNCHANGED <<queueVars, stop_, now, cms, ms_end, getVars, ret, executed, postVars, ssVars>>

(* The argument of Wait: the caller's remaining time or the time until the *)
(* top of delayed_messages_, whichever is shorter.                         *)
CmsNext ==
  LET cms_elapsed == ms_current - ms_start
      cms_left    == IF cms_wait < cms_elapsed THEN 0 ELSE cms_wait - cms_elapsed
  IN  IF cms_wait = kForever THEN cms_delay_next
      ELSE IF cms_delay_next # kForever /\ cms_delay_next < cms_left
           THEN cms_delay_next ELSE cms_left

(* Mutant: Get goes to sleep without looking at stop_. *)
Get_Wait_QuitIgnored ==
  /\ pc = "check"
  /\ pc' = "wait"
  /\ WaitEnter(IF CmsNext = kForever THEN "forever" ELSE "timed")
  /\ UNCHANGED <<queueVars, stop_, now, cms, ms_end, getVars, ret, executed, postVars>>

Get_Wait ==
  /\ pc = "check" /\ ~stop_
  /\ pc' = "wait"
  /\ WaitEnter(IF CmsNext = kForever THEN "forever" ELSE "timed")
  /\ UNCHANGED <<queueVars, stop_, now, cms, ms_end, getVars, ret, executed, postVars>>

(* Inside Wait, on the loop thread: ss_ takes notice of a WakeUp. *)
Wait_Consume ==
  /\ pc = "wait"
  /\ Consume
  /\ UNCHANGED <<queueVars, stop_, now, loopVars, postVars>>

(* Mutant: kForever is compared as if it were a duration. *)
Get_Woken_ForeverElapses ==
  /\ pc = "wait" /\ op[LoopThread] = Idle
  /\ WaitReturn
  /\ ms_current' = now
  /\ cms_delay_next' = kForever
  /\ pc' = IF now - ms_start >= cms_wait THEN "empty" ELSE "get"
  /\ UNCHANGED <<queueVars, stop_, now, cms, ms_end, cms_wait, ms_start, ret, executed, postVars>>

(* Wait returns true; Get gives up if its time is over, else looks again. *)
Get_Woken ==
  /\ pc = "wait" /\ op[LoopThread] = Idle
  /\ WaitReturn
  /\ ms_current' = now
  /\ cms_delay_next' = kForever
  /\ pc' = IF cms_wait # kForever /\ now - ms_start >= cms_wait THEN "empty" ELSE "get"
  /\ UNCHANGED <<queueVars, stop_, now, cms, ms_end, cms_wait, ms_start, ret, executed, postVars>>

(* Wait returns false. *)
Get_WaitFailed ==
  /\ pc = "wait" /\ op[LoopThread] = Idle /\ WaitMayFail
  /\ WaitReturn
  /\ pc' = "empty"
  /\ UNCHANGED <<queueVars, stop_, now, cms, ms_end, getVars, ret, executed, postVars>>

(* Get came back without a task: ProcessMessages returns !IsQuitting().    *)
ProcessMessages_Empty ==
  /\ pc = "empty"
  /\ Leave(~stop_)
  /\ UNCHANGED <<queueVars, stop_, now, cms, ms_end, executed, postVars, ssVars>>

(* Mutant: no check that there is time left. *)
Dispatch_Again_Unchecked ==
  /\ pc = "dispatch" /\ op[LoopThread] = Idle
  /\ cms_wait' = IF cms = kForever THEN kForever ELSE ms_end - now
  /\ pc' = "call"
  /\ UNCHANGED <<queueVars, stop_, now, cms, ms_end, ms_start, ms_current, cms_delay_next, ret,
                 executed, postVars, ssVars>>

(* Mutant: off by one, and -1 is kForever. *)
Dispatch_Again_OneLate ==
  /\ pc = "dispatch" /\ op[LoopThread] = Idle
  /\ cms = kForever \/ ms_end - now >= -1
  /\ cms_wait' = IF cms = kForever THEN kForever ELSE ms_end - now
  /\ pc' = "call"
  /\ UNCHANGED <<queueVars, stop_, now, cms, ms_end, ms_start, ms_current, cms_delay_next, ret,
                 executed, postVars, ssVars>>

(* The task returns and there is time left for another Get. *)
Dispatch_Again ==
  /\ pc = "dispatch" /\ op[LoopThread] = Idle
  /\ cms = kForever \/ ms_end - now >= 0
  /\ cms_wait' = IF cms = kForever THEN kForever ELSE ms_end - now
  /\ pc' = "call"
  /\ UNCHANGED <<queueVars, stop_, now, cms, ms_end, ms_start, ms_current, cms_delay_next, ret,
                 executed, postVars, ssVars>>

(* The task returns and the time of ProcessMessages is over. *)
Dispatch_TimeUp ==
  /\ pc = "dispatch" /\ op[LoopThread] = Idle
  /\ cms # kForever /\ ms_end - now < 0
  /\ Leave(TRUE)
  /\ UNCHANGED <<queueVars, stop_, now, cms, ms_end, executed, postVars, ssVars>>

-----------------------------------------------------------------------------
Tick == /\ now < MaxTime
        /\ now' = now + 1
        /\ UNCHANGED <<queueVars, stop_, loopVars, postVars, ssVars>>

(* What every started Post does next. *)
Poster(a) == Push(a) \/ PushDelayed(a) \/ WakeUpSocketServer(a)

(* What the loop thread does next, Wait and task bodies aside. *)
Loop == \/ Get_Start \/ Get_Lock
        \/ \E m \in delayed_messages_ : Promote(m)
        \/ Get_Take \/ Get_Unlock \/ Get_Quit \/ Get_Wait
        \/ ProcessMessages_Empty \/ Dispatch_Again \/ Dispatch_TimeUp

Next ==
  \/ \E a \in Posters, t \in Tasks :
       PostTaskImpl(a, t) \/ \E d \in Delays : PostDelayedTaskImpl(a, t, d)
  \/ \E a \in Posters : Poster(a)
  \/ Quit
  \/ Restart
  \/ \E c \in Timeouts : ProcessMessages(c)
  \/ Loop
  \/ Wait_Consume \/ Get_Woken \/ Get_WaitFailed
  \/ Tick

Spec == Init /\ [][Next]_vars

(* The scheduler runs every thread and time passes; a task body returns;   *)
(* Wait takes notice of a WakeUp and returns when woken or when its time   *)
(* is over.  Nobody has to post, to quit, or to call ProcessMessages.      *)
Fairness == /\ \A a \in Posters : WF_vars(Poster(a))
            /\ WF_vars(Loop)
            /\ WF_vars(Wait_Consume)
            /\ WF_vars(Get_Woken /\ waiting # "forever")
            /\ WF_vars(Tick)

FairSpec == Spec /\ Fairness

-----------------------------------------------------------------------------
(* Properties.                                                             *)

(* Nobody has a WakeUp of its own still to make. *)
NoWakePending == ~signaled /\ \A a \in Posters : op[a] # Wake

(* No lost wake-up: when the loop is blocked in Wait and no WakeUp is on   *)
(* its way, there is nothing to run, and every delayed task, including one *)
(* posted after Get computed its delay, is due no earlier than the timeout *)
(* Wait was given (PostTaskImpl, PostDelayedTaskImpl, Get).                *)
NoLostWakeup ==
  (pc = "wait" /\ waiting \in Blocked /\ NoWakePending) =>
     /\ messages_ = <<>>
     /\ \A m \in delayed_messages_ :
          waiting = "timed" /\ CmsNext <= m.run_time_ms - ms_current

Elements(s) == {s[i] : i \in 1..Len(s)}

Posting(a) == op[a].step \in {"push", "push_delayed"}
InFlight == {op[a].functor : a \in {b \in Posters : Posting(b)}}
Delayed == {m.functor : m \in delayed_messages_}
Line == executed \o messages_

(* A task is in one place at a time: not yet posted, on its way into the   *)
(* queue, delayed, queued, or executed, and there only once.  So no task   *)
(* runs twice, whatever posts, promotions and restarts do.                 *)
AtMostOnce ==
  /\ \A i, j \in 1..Len(Line) : Line[i] = Line[j] => i = j
  /\ \A m, n \in delayed_messages_ : m.functor = n.functor => m = n
  /\ \A a, b \in Posters : (Posting(a) /\ Posting(b) /\ op[a].functor = op[b].functor) => a = b
  /\ Elements(Line) \cap (Delayed \cup InFlight \cup fresh) = {}
  /\ Delayed \cap (InFlight \cup fresh) = {}
  /\ InFlight \cap fresh = {}

(* ProcessMessages returns true only when its time is exhausted; one that  *)
(* runs kForever does not return true (thread.h, comment of                *)
(* ProcessMessages).                                                       *)
ReturnContract == (pc = "out" /\ ret) => (cms # kForever /\ now >= ms_end)

(* A ProcessMessages with a time limit never blocks without one, nor longer *)
(* than its caller allows, however many tasks it has run before: what is    *)
(* left of its time, TimeUntil(ms_end), is never taken for kForever.        *)
LimitKept == (pc = "wait" /\ cms # kForever) => (waiting # "forever" /\ CmsNext \in 0..cms)

(* The times at which a task may be due. *)
DueTimes == {n + d : n \in 0..MaxTime, d \in Delays}

(* Thread implements TaskQueue.                                            *)
TQ == INSTANCE TaskQueue WITH
        Dues <- DueTimes,
        queue <- messages_,
        timers <- {[task |-> m.functor, due |-> m.run_time_ms, seq |-> m.message_number] :
                     m \in delayed_messages_},
        posts <- delayed_next_num_,
        clock <- now

(* Every behaviour of the loop and its posters is one of the task queue:   *)
(* FIFO, delays respected, delayed tasks in order of time and number.      *)
ImplementsTaskQueue == TQ!TQSpec

Queued(t) == t \in Elements(messages_) \/ \E m \in delayed_messages_ : m.functor = t

(* Every task that got into a queue is executed, as long as the loop runs  *)
(* and nobody quits.                                                       *)
EveryTaskRuns == \A t \in Tasks : Queued(t) ~> (t \in Elements(executed) \/ stop_ \/ pc = "out")

(* Once Quit has been called while the loop is anywhere but in Wait, the   *)
(* loop finishes what is queued and leaves.                                *)
QuitDrains == (stop_ /\ pc # "wait") ~> pc = "out"

(* ProcessMessages ends once Stop was called (thread.h, comments of        *)
(* ProcessMessages and Get).                                               *)
QuitEndsLoop == stop_ ~> pc = "out"
=============================================================================
