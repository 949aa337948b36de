----------------------------- MODULE ThreadProofs -----------------------------
(***************************************************************************)
(* Theorems about Thread.tla, for any number of clients and tasks, any     *)
(* delays, time limits and clock bound, with empty tasks and failing       *)
(* Waits, and for every modulus of delayed_next_num_.                      *)
(***************************************************************************)
EXTENDS Thread, FiniteSetTheorems, TLAPS

(* The message loop's state keeps its shape: in particular what Get        *)
(* computes as a delay and ProcessMessages as time left is a natural       *)
(* number or kForever, never another negative number.                      *)
THEOREM TypeCorrect == Spec => []TypeOK
<1>1. Init => TypeOK
  <2> SUFFICES ASSUME Init PROVE TypeOK
    OBVIOUS
  <2>1. 1 \in 0..(NumMod - 1) /\ 0 \in 0..MaxTime
    BY ThreadAssumption
  <2>2. op \in [Posters -> {Idle, Wake} \cup PushOp \cup PushDelayedOp]
    BY DEF Init
  <2>3. SSTypeOK
    BY DEF Init, SSInit, SSTypeOK
  <2>4. messages_ \in Seq(Tasks) /\ executed \in Seq(Tasks)
    BY DEF Init
  <2>5. delayed_messages_ \subseteq DelayedMessage /\ fresh \subseteq Tasks
    BY DEF Init
  <2>6. stop_ \in BOOLEAN /\ ret \in BOOLEAN /\ pc \in PCs
    BY DEF Init, PCs
  <2>7. /\ cms \in Timeouts \cup {0} /\ ms_end \in Nat /\ cms_wait \in Nat \cup {kForever}
        /\ ms_start \in Nat /\ ms_current \in Nat /\ cms_delay_next \in Nat \cup {kForever}
    BY DEF Init
  <2> QED
    BY <2>1, <2>2, <2>3, <2>4, <2>5, <2>6, <2>7 DEF Init, TypeOK
<1>2. ASSUME TypeOK, [Next]_vars PROVE TypeOK'
  <2> USE ThreadAssumption, <1>2 DEF TypeOK, SSTypeOK, Blocked
  <2>1. ASSUME NEW a \in Posters, NEW t \in Tasks, PostTaskImpl(a, t)
        PROVE  TypeOK'
    <3>1. [step |-> "push", functor |-> t] \in PushOp
      BY DEF PushOp
    <3> QED
      BY <2>1, <3>1 DEF PostTaskImpl, queueVars, loopVars, getVars, ssVars
  <2>2. ASSUME NEW a \in Posters, NEW t \in Tasks, NEW d \in Delays,
               PostDelayedTaskImpl(a, t, d)
        PROVE  TypeOK'
    <3>1. [step |-> "push_delayed", functor |-> t, run_time_ms |-> now + d] \in PushDelayedOp
      BY DEF PushDelayedOp
    <3> QED
      BY <2>2, <3>1 DEF PostDelayedTaskImpl, queueVars, loopVars, getVars, ssVars
  <2>3. ASSUME NEW a \in Posters, Push(a) PROVE TypeOK'
    <3>1. op[a] \in PushOp
      BY <2>3 DEF Push, Idle, Wake, PushOp, PushDelayedOp
    <3>2. op[a].functor \in Tasks
      BY <3>1 DEF PushOp
    <3> QED
      BY <2>3, <3>2 DEF Push, loopVars, getVars, ssVars
  <2>4. ASSUME NEW a \in Posters, PushDelayed(a) PROVE TypeOK'
    <3>1. op[a] \in PushDelayedOp
      BY <2>4 DEF PushDelayed, Idle, Wake, PushOp, PushDelayedOp
    <3>2. op[a].functor \in Tasks /\ op[a].run_time_ms \in Int
      BY <3>1 DEF PushDelayedOp
    <3>3. (delayed_next_num_ + 1) % NumMod \in 0..(NumMod - 1)
      OBVIOUS
    <3>4. delayed_messages_' \subseteq DelayedMessage
      BY <2>4, <3>2 DEF PushDelayed, DelayedMessage
    <3> QED
      BY <2>4, <3>3, <3>4 DEF PushDelayed, loopVars, getVars, ssVars
  <2>5. ASSUME NEW a \in Posters, WakeUpSocketServer(a) PROVE TypeOK'
    <3>1. op' \in [Posters -> {Idle, Wake} \cup PushOp \cup PushDelayedOp]
      BY <2>5 DEF WakeUpSocketServer
    <3>2. SSTypeOK'
      BY <2>5 DEF WakeUpSocketServer, WakeUp
    <3> QED
      BY <2>5, <3>1, <3>2 DEF WakeUpSocketServer, queueVars, loopVars, getVars
  <2>6. CASE Quit
    BY <2>6 DEF Quit, queueVars, loopVars, getVars, postVars, ssVars
  <2>7. CASE Restart
    BY <2>7 DEF Restart, queueVars, loopVars, getVars, postVars, ssVars
  <2>8. ASSUME NEW c \in Timeouts, ProcessMessages(c) PROVE TypeOK'
    <3>1. c \in Nat \cup {kForever} /\ ms_end' \in Nat
      BY <2>8 DEF ProcessMessages
    <3>2. pc' \in PCs /\ ret' \in BOOLEAN /\ cms' = c /\ cms_wait' = c
      BY <2>8 DEF ProcessMessages, PCs
    <3> QED
      BY <2>8, <3>1, <3>2 DEF ProcessMessages, queueVars, postVars, ssVars
  <2>9. CASE Get_Start
    BY <2>9 DEF Get_Start, queueVars, postVars, ssVars, PCs
  <2>10. CASE Get_Lock
    BY <2>10 DEF Get_Lock, queueVars, getVars, postVars, ssVars, PCs
  <2>11. ASSUME NEW m \in delayed_messages_, Promote(m) PROVE TypeOK'
    <3>1. m.functor \in Tasks
      BY DEF DelayedMessage
    <3> QED
      BY <2>11, <3>1 DEF Promote, loopVars, getVars, postVars, ssVars
  <2>12. CASE Get_Take
    <3>1. Head(messages_) \in Tasks /\ Tail(messages_) \in Seq(Tasks)
      BY <2>12 DEF Get_Take
    <3> QED
      BY <2>12, <3>1 DEF Get_Take, getVars, postVars, ssVars, PCs
  <2>13. CASE Get_Unlock
    <3>1. cms_delay_next' \in Nat \cup {kForever}
      BY <2>13 DEF Get_Unlock, ProcessDelayedMessage, NoneDue, Due, DelayedMessage
    <3> QED
      BY <2>13, <3>1 DEF Get_Unlock, queueVars, postVars, ssVars, PCs
  <2>14. CASE Get_Quit
    BY <2>14 DEF Get_Quit, queueVars, getVars, postVars, ssVars, PCs
  <2>15. CASE Get_Wait
    BY <2>15 DEF Get_Wait, WaitEnter, queueVars, getVars, postVars, PCs
  <2>16. CASE Wait_Consume
    BY <2>16 DEF Wait_Consume, Consume, queueVars, loopVars, getVars, postVars
  <2>17. CASE Get_Woken
    BY <2>17 DEF Get_Woken, WaitReturn, queueVars, postVars, PCs
  <2>18. CASE Get_WaitFailed
    BY <2>18 DEF Get_WaitFailed, WaitReturn, queueVars, getVars, postVars, PCs
  <2>19. CASE ProcessMessages_Empty
    BY <2>19 DEF ProcessMessages_Empty, Leave, queueVars, postVars, ssVars, PCs
  <2>20. CASE Dispatch_Again
    BY <2>20 DEF Dispatch_Again, queueVars, postVars, ssVars, PCs
  <2>21. CASE Dispatch_TimeUp
    BY <2>21 DEF Dispatch_TimeUp, Leave, queueVars, postVars, ssVars, PCs
  <2>22. CASE Tick
    BY <2>22 DEF Tick, queueVars, loopVars, getVars, postVars, ssVars
  <2>23. CASE UNCHANGED vars
    BY <2>23 DEF vars, queueVars, loopVars, getVars, postVars, ssVars
  <2> QED
    BY <2>1, <2>2, <2>3, <2>4, <2>5, <2>6, <2>7, <2>8, <2>9, <2>10, <2>11, <2>12, <2>13,
       <2>14, <2>15, <2>16, <2>17, <2>18, <2>19, <2>20, <2>21, <2>22, <2>23
       DEF Next, Poster, Loop
<1> QED
  BY <1>1, <1>2, PTL DEF Spec

-----------------------------------------------------------------------------
(* No lost wake-up.  NoLostWakeup speaks of a loop that is already asleep. *)
(* What makes it inductive is the step before: from the moment Get leaves  *)
(* its critical section, either the queues are still as Get found them or  *)
(* a WakeUp is on its way.                                                 *)

(* Nothing has been posted that Get's delay does not account for. *)
Accounted == /\ messages_ = <<>>
             /\ \A m \in delayed_messages_ :
                  cms_delay_next # kForever /\ cms_delay_next <= m.run_time_ms - ms_current

GoingToSleep == pc = "check" \/ (pc = "wait" /\ waiting \in Blocked)

WakeupInv == /\ pc = "wait" <=> waiting # "no"
             /\ waiting \in Blocked => (waiting = "forever" <=> CmsNext = kForever)
             /\ GoingToSleep => (~NoWakePending \/ Accounted)

(* The timeout of Wait is never longer than the delay Get computed, and    *)
(* not kForever if there is such a delay (Get).                            *)
LEMMA CmsNextBounded ==
  ASSUME TypeOK, cms_delay_next # kForever
  PROVE  CmsNext # kForever /\ CmsNext <= cms_delay_next
  BY DEF TypeOK, CmsNext, kForever

(* WakeupInv is strong enough. *)
LEMMA WakeupInvSuffices == TypeOK /\ WakeupInv => NoLostWakeup
<1> SUFFICES ASSUME TypeOK, WakeupInv, pc = "wait", waiting \in Blocked, NoWakePending
             PROVE  /\ messages_ = <<>>
                    /\ \A m \in delayed_messages_ :
                         waiting = "timed" /\ CmsNext <= m.run_time_ms - ms_current
  BY DEF NoLostWakeup
<1>1. Accounted
  BY DEF WakeupInv, GoingToSleep
<1>2. ASSUME NEW m \in delayed_messages_
      PROVE  waiting = "timed" /\ CmsNext <= m.run_time_ms - ms_current
  <2>1. cms_delay_next # kForever /\ cms_delay_next <= m.run_time_ms - ms_current
    BY <1>1 DEF Accounted
  <2>2. CmsNext # kForever /\ CmsNext <= cms_delay_next
    BY <2>1, CmsNextBounded
  <2>3. waiting = "timed"
    BY <2>2 DEF WakeupInv, Blocked
  <2>4. CmsNext \in Int /\ cms_delay_next \in Int /\ ms_current \in Int /\ m.run_time_ms \in Int
    BY DEF TypeOK, CmsNext, kForever, DelayedMessage
  <2> QED
    BY <2>1, <2>2, <2>3, <2>4
<1> QED
  BY <1>1, <1>2 DEF Accounted

(* What Get stores when it leaves its critical section accounts for every  *)
(* delayed message: the top of the heap is the one due first               *)
(* (ProcessDelayedMessage, DelayedMessage::operator<).                     *)
LEMMA UnlockAccounts == TypeOK /\ Get_Unlock => Accounted'
<1> SUFFICES ASSUME TypeOK, Get_Unlock, NEW m \in delayed_messages_
             PROVE  /\ cms_delay_next' # kForever
                    /\ cms_delay_next' <= m.run_time_ms - ms_current
  BY DEF Get_Unlock, queueVars, Accounted
<1>1. PICK n \in delayed_messages_ : Top(n) /\ cms_delay_next' = n.run_time_ms - ms_current
  BY DEF Get_Unlock, ProcessDelayedMessage
<1>2. /\ n.run_time_ms \in Int /\ m.run_time_ms \in Int /\ ms_current \in Int
      /\ n.message_number \in Int /\ m.message_number \in Int
  BY DEF TypeOK, DelayedMessage
<1>3. n.run_time_ms <= m.run_time_ms
  BY <1>1, <1>2 DEF Top, Before
<1>4. n.run_time_ms > ms_current
  BY <1>1, <1>2 DEF Get_Unlock, NoneDue, Due
<1> QED
  BY <1>1, <1>2, <1>3, <1>4 DEF kForever

(* A WakeUp on its way stays on its way until Wait takes notice of it.     *)
LEMMA PendingWakeStays ==
  ASSUME NEW a \in Posters, op[a] = Idle, UNCHANGED signaled,
         op \in [Posters -> {Idle, Wake} \cup PushOp \cup PushDelayedOp],
         \E b : op' = [op EXCEPT ![a] = b], ~NoWakePending
  PROVE  ~NoWakePending'
<1>1. CASE signaled
  BY <1>1 DEF NoWakePending
<1>2. CASE \E b \in Posters : op[b] = Wake
  <2>1. PICK b \in Posters : op[b] = Wake
    BY <1>2
  <2>2. a # b
    BY <2>1 DEF Idle, Wake
  <2>3. op'[b] = Wake
    BY <2>1, <2>2
  <2> QED
    BY <2>3 DEF NoWakePending
<1> QED
  BY <1>1, <1>2 DEF NoWakePending

(* Between the critical section of Get and the end of Wait, work that Get  *)
(* did not see has a WakeUp coming.                                        *)
LEMMA WakeupInvariant == Spec => []WakeupInv
<1>1. Init => WakeupInv
  BY DEF Init, SSInit, WakeupInv, GoingToSleep, Blocked
<1>2. ASSUME TypeOK, WakeupInv, [Next]_vars PROVE WakeupInv'
  <2> USE <1>2 DEF Blocked, WakeupInv
  <2>1. ASSUME UNCHANGED <<getVars, pc, ssVars>>,
               ~NoWakePending => ~NoWakePending', Accounted => (~NoWakePending \/ Accounted)'
        PROVE  WakeupInv'
    <3>1. CmsNext' = CmsNext
      BY <2>1 DEF CmsNext, getVars
    <3> QED
      BY <2>1, <3>1 DEF GoingToSleep, ssVars
  <2>2. ASSUME NEW a \in Posters, UNCHANGED <<queueVars, getVars, pc, ssVars>>, op[a] = Idle,
               \E b : op' = [op EXCEPT ![a] = b]
        PROVE  WakeupInv'
    <3>1. ~NoWakePending => ~NoWakePending'
      BY <2>2, PendingWakeStays DEF TypeOK, ssVars
    <3>2. Accounted => Accounted'
      BY <2>2 DEF Accounted, queueVars, getVars
    <3> QED
      BY <2>1, <2>2, <3>1, <3>2
  <2>3. ASSUME NEW a \in Posters, NEW t \in Tasks, PostTaskImpl(a, t)
        PROVE  WakeupInv'
    BY <2>2, <2>3 DEF PostTaskImpl, loopVars
  <2>4. ASSUME NEW a \in Posters, NEW t \in Tasks, NEW d \in Delays,
               PostDelayedTaskImpl(a, t, d)
        PROVE  WakeupInv'
    BY <2>2, <2>4 DEF PostDelayedTaskImpl, loopVars
  <2>5. ASSUME NEW a \in Posters, Push(a) \/ PushDelayed(a) PROVE WakeupInv'
    <3>1. op'[a] = Wake /\ UNCHANGED <<getVars, pc, ssVars>>
      BY <2>5 DEF Push, PushDelayed, loopVars, TypeOK
    <3>2. ~NoWakePending'
      BY <3>1 DEF NoWakePending
    <3> QED
      BY <2>1, <3>1, <3>2
  <2>6. ASSUME NEW a \in Posters, WakeUpSocketServer(a) PROVE WakeupInv'
    <3>1. ~NoWakePending' /\ UNCHANGED <<getVars, pc, waiting>>
      BY <2>6 DEF WakeUpSocketServer, WakeUp, NoWakePending, loopVars
    <3>2. CmsNext' = CmsNext
      BY <3>1 DEF CmsNext, getVars
    <3> QED
      BY <3>1, <3>2 DEF GoingToSleep
  <2>7. ASSUME UNCHANGED <<queueVars, getVars, pc, ssVars, op>> PROVE WakeupInv'
    <3>1. NoWakePending' = NoWakePending /\ Accounted' = Accounted
      BY <2>7 DEF NoWakePending, Accounted, queueVars, getVars, ssVars
    <3> QED
      BY <2>1, <2>7, <3>1
  <2>8. CASE Quit \/ Restart \/ Tick \/ UNCHANGED vars
    BY <2>7, <2>8 DEF Quit, Restart, Tick, vars, loopVars, postVars
  <2>9. ASSUME pc # "wait", pc' \notin {"check", "wait"}, UNCHANGED ssVars PROVE WakeupInv'
    BY <2>9 DEF GoingToSleep, ssVars
  <2>10. ASSUME NEW c \in Timeouts, ProcessMessages(c) PROVE WakeupInv'
    BY <2>9, <2>10 DEF ProcessMessages
  <2>11. CASE Get_Start \/ Get_Lock
    BY <2>9, <2>11 DEF Get_Start, Get_Lock
  <2>12. ASSUME NEW m \in delayed_messages_, Promote(m) PROVE WakeupInv'
    BY <2>9, <2>12 DEF Promote, loopVars
  <2>13. CASE Get_Take \/ Get_Quit \/ ProcessMessages_Empty \/ Dispatch_Again \/ Dispatch_TimeUp
    BY <2>9, <2>13 DEF Get_Take, Get_Quit, ProcessMessages_Empty, Dispatch_Again,
                       Dispatch_TimeUp, Leave
  <2>14. CASE Get_Unlock
    <3>1. Accounted'
      BY <2>14, UnlockAccounts
    <3> QED
      BY <2>14, <3>1 DEF Get_Unlock, GoingToSleep, ssVars
  <2>15. CASE Get_Wait
    <3>1. /\ UNCHANGED <<queueVars, getVars, postVars, signaled>> /\ pc = "check" /\ pc' = "wait"
          /\ waiting' = IF CmsNext = kForever THEN "forever" ELSE "timed"
      BY <2>15 DEF Get_Wait, WaitEnter
    <3>2. CmsNext' = CmsNext
      BY <3>1 DEF CmsNext, getVars
    <3>3. NoWakePending' = NoWakePending /\ Accounted' = Accounted
      BY <3>1 DEF NoWakePending, Accounted, queueVars, getVars, postVars
    <3>4. ~NoWakePending \/ Accounted
      BY <3>1 DEF GoingToSleep
    <3> QED
      BY <3>1, <3>2, <3>3, <3>4
  <2>16. CASE Wait_Consume
    BY <2>16 DEF Wait_Consume, Consume, loopVars, GoingToSleep
  <2>17. CASE Get_Woken \/ Get_WaitFailed
    BY <2>17 DEF Get_Woken, Get_WaitFailed, WaitReturn, GoingToSleep
  <2> QED
    BY <1>2, <2>3, <2>4, <2>5, <2>6, <2>8, <2>10, <2>11, <2>12, <2>13, <2>14, <2>15, <2>16, <2>17
       DEF Next, Poster, Loop
<1> QED
  BY <1>1, <1>2, TypeCorrect, PTL DEF Spec

(* A loop that sleeps with work to do has a WakeUp coming, in every        *)
(* interleaving of posters, timeouts, Quit and the loop itself.            *)
THEOREM WakeupsKept == Spec => []NoLostWakeup
  BY TypeCorrect, WakeupInvariant, WakeupInvSuffices, PTL

-----------------------------------------------------------------------------
(* Time limits.                                                            *)

LimitInv ==
  /\ pc # "out" => (cms_wait = kForever <=> cms = kForever)
  /\ (pc # "out" /\ cms # kForever) => cms_wait <= cms
  /\ cms # kForever => ms_end <= now + cms
  /\ pc \notin {"out", "call"} => ms_start <= ms_current
  /\ ms_current <= now

(* What is left of a time limit never exceeds it and never passes for      *)
(* kForever.                                                               *)
LEMMA LimitInvariant == Spec => []LimitInv
<1>1. Init => LimitInv
  BY DEF Init, LimitInv, kForever
<1>2. ASSUME TypeOK, LimitInv, [Next]_vars PROVE LimitInv'
  <2> USE <1>2, ThreadAssumption DEF LimitInv, TypeOK, kForever
  <2>1. ASSUME UNCHANGED <<now, pc, cms, ms_end, cms_wait, ms_start, ms_current>>
        PROVE  LimitInv'
    BY <2>1
  <2>2. CASE \E a \in Posters, t \in Tasks :
               PostTaskImpl(a, t) \/ \E d \in Delays : PostDelayedTaskImpl(a, t, d)
    BY <2>1, <2>2 DEF PostTaskImpl, PostDelayedTaskImpl, loopVars, getVars
  <2>3. CASE \E a \in Posters : Poster(a)
    BY <2>1, <2>3 DEF Poster, Push, PushDelayed, WakeUpSocketServer, loopVars, getVars
  <2>4. CASE Quit \/ Restart \/ Wait_Consume \/ UNCHANGED vars
    BY <2>1, <2>4 DEF Quit, Restart, Wait_Consume, vars, loopVars, getVars
  <2>5. ASSUME NEW c \in Timeouts, ProcessMessages(c) PROVE LimitInv'
    BY <2>5 DEF ProcessMessages
  <2>6. CASE Get_Start
    BY <2>6 DEF Get_Start
  <2>7. CASE Get_Lock \/ Get_Take \/ Get_Unlock \/ Get_Quit \/ Get_Wait \/ Get_WaitFailed
    BY <2>7 DEF Get_Lock, Get_Take, Get_Unlock, Get_Quit, Get_Wait, Get_WaitFailed, getVars
  <2>8. CASE \E m \in delayed_messages_ : Promote(m)
    BY <2>1, <2>8 DEF Promote, loopVars, getVars
  <2>9. CASE Get_Woken
    BY <2>9 DEF Get_Woken
  <2>10. CASE ProcessMessages_Empty
    BY <2>10 DEF ProcessMessages_Empty, Leave
  <2>11. CASE Dispatch_Again
    BY <2>11 DEF Dispatch_Again
  <2>12. CASE Dispatch_TimeUp
    BY <2>12 DEF Dispatch_TimeUp, Leave
  <2>13. CASE Tick
    BY <2>13 DEF Tick, loopVars, getVars
  <2> QED
    BY <2>2, <2>3, <2>4, <2>5, <2>6, <2>7, <2>8, <2>9, <2>10, <2>11, <2>12, <2>13
       DEF Next, Loop
<1> QED
  BY <1>1, <1>2, TypeCorrect, PTL DEF Spec

(* ProcessMessages(cms) never blocks for longer than cms, after however    *)
(* many tasks.                                                             *)
THEOREM LimitsKept == Spec => []LimitKept
<1>1. TypeOK /\ WakeupInv /\ LimitInv => LimitKept
  <2> SUFFICES ASSUME TypeOK, WakeupInv, LimitInv, pc = "wait", cms # kForever
               PROVE  waiting # "forever" /\ CmsNext \in 0..cms
    BY DEF LimitKept
  <2>1. cms \in Nat /\ cms_wait \in Nat /\ cms_wait <= cms /\ ms_current - ms_start \in Nat
    BY ThreadAssumption DEF TypeOK, LimitInv, kForever
  <2>2. CmsNext \in 0..cms
    BY <2>1 DEF TypeOK, CmsNext, kForever
  <2>3. CmsNext # kForever
    BY <2>1, <2>2 DEF kForever
  <2> QED
    BY <2>2, <2>3 DEF WakeupInv, Blocked
<1> QED
  BY <1>1, TypeCorrect, WakeupInvariant, LimitInvariant, PTL

-----------------------------------------------------------------------------
(* What ProcessMessages returns.                                           *)

ReturnInv ==
  /\ (cms # kForever /\ pc = "call") => ms_end <= now + cms_wait
  /\ (cms # kForever /\ pc \in {"get", "locked", "check", "wait"}) => ms_end <= ms_start + cms_wait
  /\ pc = "empty" => (stop_ \/ (cms # kForever /\ ms_end <= now))
  /\ ReturnContract

(* With no empty task and no failing Wait, ProcessMessages returns true    *)
(* only when its time is exhausted; in particular Restart, further posts   *)
(* and early returns of Wait never make it.                                *)
THEOREM ReturnsOnTime ==
  ASSUME NullTasks = {}, WaitMayFail = FALSE
  PROVE  Spec => []ReturnContract
<1>1. Init => ReturnInv
  BY DEF Init, ReturnInv, ReturnContract
<1>2. ASSUME TypeOK, LimitInv, ReturnInv, [Next]_vars PROVE ReturnInv'
  <2> USE <1>2, ThreadAssumption DEF ReturnInv, ReturnContract, TypeOK
  <2>1. ASSUME UNCHANGED <<now, pc, cms, ms_end, cms_wait, ms_start, stop_, ret>>
        PROVE  ReturnInv'
    BY <2>1
  <2>2. CASE \E a \in Posters, t \in Tasks :
               PostTaskImpl(a, t) \/ \E d \in Delays : PostDelayedTaskImpl(a, t, d)
    BY <2>1, <2>2 DEF PostTaskImpl, PostDelayedTaskImpl, loopVars, getVars
  <2>3. CASE \E a \in Posters : Poster(a)
    BY <2>1, <2>3 DEF Poster, Push, PushDelayed, WakeUpSocketServer, loopVars, getVars
  <2>4. CASE Wait_Consume \/ UNCHANGED vars
    BY <2>1, <2>4 DEF Wait_Consume, vars, loopVars, getVars
  <2>5. CASE Quit \/ Restart
    BY <2>5 DEF Quit, Restart, loopVars, getVars
  <2>6. ASSUME NEW c \in Timeouts, ProcessMessages(c) PROVE ReturnInv'
    BY <2>6 DEF ProcessMessages
  <2>7. CASE Get_Start
    BY <2>7 DEF Get_Start
  <2>8. CASE Get_Lock \/ Get_Take \/ Get_Unlock \/ Get_Quit \/ Get_Wait \/ Get_WaitFailed
    BY <2>8 DEF Get_Lock, Get_Take, Get_Unlock, Get_Quit, Get_Wait, Get_WaitFailed, getVars
  <2>9. CASE \E m \in delayed_messages_ : Promote(m)
    BY <2>1, <2>9 DEF Promote, loopVars, getVars
  <2>10. CASE Get_Woken
    BY <2>10 DEF Get_Woken, LimitInv, kForever
  <2>11. CASE ProcessMessages_Empty
    BY <2>11 DEF ProcessMessages_Empty, Leave
  <2>12. CASE Dispatch_Again
    BY <2>12 DEF Dispatch_Again
  <2>13. CASE Dispatch_TimeUp
    BY <2>13 DEF Dispatch_TimeUp, Leave
  <2>14. CASE Tick
    BY <2>14 DEF Tick, loopVars, getVars
  <2> QED
    BY <2>2, <2>3, <2>4, <2>5, <2>6, <2>7, <2>8, <2>9, <2>10, <2>11, <2>12, <2>13, <2>14
       DEF Next, Loop
<1> QED
  BY <1>1, <1>2, TypeCorrect, LimitInvariant, PTL DEF Spec, ReturnInv

-----------------------------------------------------------------------------
(* Every task runs at most once.                                           *)

NoDup(s) == \A i, j \in 1..Len(s) : s[i] = s[j] => i = j

(* A new element at the end keeps a sequence free of duplicates.           *)
LEMMA AppendNoDup ==
  ASSUME NEW S, NEW s \in Seq(S), NEW x \in S, NoDup(s), x \notin Elements(s)
  PROVE  NoDup(Append(s, x)) /\ Elements(Append(s, x)) = Elements(s) \cup {x}
<1>1. /\ Len(Append(s, x)) = Len(s) + 1
      /\ \A i \in 1..Len(s) : Append(s, x)[i] = s[i]
      /\ Append(s, x)[Len(s) + 1] = x
  OBVIOUS
<1>2. Len(s) \in Nat
  OBVIOUS
<1>3. 1..(Len(s) + 1) = (1..Len(s)) \cup {Len(s) + 1}
  BY <1>2
<1>4. NoDup(Append(s, x))
  BY <1>1, <1>2, <1>3 DEF NoDup, Elements
<1>5. Elements(Append(s, x)) = Elements(s) \cup {x}
  BY <1>1, <1>2, <1>3 DEF Elements
<1> QED
  BY <1>4, <1>5

(* Appending to the queue appends to the line; taking the front of the     *)
(* queue only moves the border between executed and queued tasks.          *)
LEMMA LineMoves ==
  ASSUME NEW S, NEW e \in Seq(S), NEW q \in Seq(S)
  PROVE  /\ e \o q \in Seq(S)
         /\ \A x \in S : e \o Append(q, x) = Append(e \o q, x)
         /\ q # <<>> => Append(e, Head(q)) \o Tail(q) = e \o q
<1>1. e \o q \in Seq(S)
  OBVIOUS
<1>2. ASSUME NEW x \in S PROVE e \o Append(q, x) = Append(e \o q, x)
  OBVIOUS
<1>3. ASSUME q # <<>> PROVE Append(e, Head(q)) \o Tail(q) = e \o q
  BY <1>3
<1> QED
  BY <1>1, <1>2, <1>3

(* AtMostOnce, element by element, of a line, a set of delayed messages,   *)
(* the posters' steps and the tasks nobody has posted.                     *)
OnceInv(line, delayed, o, f) ==
  /\ NoDup(line)
  /\ \A m, n \in delayed : m.functor = n.functor => m = n
  /\ \A a, b \in Posters : (o[a].step \in {"push", "push_delayed"}
                            /\ o[b].step \in {"push", "push_delayed"}
                            /\ o[a].functor = o[b].functor) => a = b
  /\ \A t \in f : t \notin Elements(line)
  /\ \A m \in delayed : m.functor \notin Elements(line) /\ m.functor \notin f
  /\ \A a \in Posters : o[a].step \in {"push", "push_delayed"} =>
       /\ o[a].functor \notin Elements(line)
       /\ o[a].functor \notin f
       /\ \A m \in delayed : m.functor # o[a].functor

(* The two ways of saying it agree.                                        *)
LEMMA OnceIsAtMostOnce == AtMostOnce <=> OnceInv(Line, delayed_messages_, op, fresh)
<1>1. /\ Delayed \cap fresh = {} <=> \A m \in delayed_messages_ : m.functor \notin fresh
      /\ Elements(Line) \cap Delayed = {} <=> \A m \in delayed_messages_ : m.functor \notin Elements(Line)
  BY DEF Delayed
<1>2. /\ InFlight \cap fresh = {} <=> \A a \in Posters : Posting(a) => op[a].functor \notin fresh
      /\ Elements(Line) \cap InFlight = {} <=>
           \A a \in Posters : Posting(a) => op[a].functor \notin Elements(Line)
  BY DEF InFlight
<1>3. Delayed \cap InFlight = {} <=>
        \A a \in Posters : Posting(a) => \A m \in delayed_messages_ : m.functor # op[a].functor
  BY DEF Delayed, InFlight
<1>4. Elements(Line) \cap fresh = {} <=> \A t \in fresh : t \notin Elements(Line)
  OBVIOUS
<1>5. /\ Elements(Line) \cap (Delayed \cup InFlight \cup fresh) = {} <=>
           (/\ Elements(Line) \cap Delayed = {} /\ Elements(Line) \cap InFlight = {}
            /\ Elements(Line) \cap fresh = {})
      /\ Delayed \cap (InFlight \cup fresh) = {} <=>
           (Delayed \cap InFlight = {} /\ Delayed \cap fresh = {})
  OBVIOUS
<1> QED
  BY <1>1, <1>2, <1>3, <1>4, <1>5 DEF AtMostOnce, OnceInv, NoDup, Posting

(* No task is started twice, and none is both waiting and done: for any    *)
(* number of posters, whatever the loop, Quit and Restart do.              *)
THEOREM RunsAtMostOnce == Spec => []AtMostOnce
<1>1. Init => AtMostOnce
  BY DEF Init, AtMostOnce, Line, Elements, Delayed, InFlight, Posting, Idle
<1>2. ASSUME TypeOK, AtMostOnce, [Next]_vars PROVE AtMostOnce'
  <2> USE <1>2, ThreadAssumption
  <2>0. /\ messages_ \in Seq(Tasks) /\ executed \in Seq(Tasks) /\ Line \in Seq(Tasks)
        /\ OnceInv(Line, delayed_messages_, op, fresh)
    BY LineMoves, OnceIsAtMostOnce DEF TypeOK, Line
  <2>1. ASSUME OnceInv(Line', delayed_messages_', op', fresh') PROVE AtMostOnce'
    <3>1. AtMostOnce' <=> OnceInv(Line, delayed_messages_, op, fresh)'
      BY OnceIsAtMostOnce, PTL
    <3>2. OnceInv(Line, delayed_messages_, op, fresh)'
      BY <2>1 DEF OnceInv, NoDup, Elements
    <3> QED
      BY <3>1, <3>2
  <2>2. ASSUME UNCHANGED <<Line, delayed_messages_, op, fresh>> PROVE AtMostOnce'
    BY <2>0, <2>1, <2>2
  <2>3. ASSUME NEW a \in Posters, NEW t \in fresh, NEW b, op[a] = Idle,
               fresh' = fresh \ {t}, op' = [op EXCEPT ![a] = IF stop_ THEN Idle ELSE b],
               b.step \in {"push", "push_delayed"}, b.functor = t,
               UNCHANGED <<Line, delayed_messages_>>
        PROVE  AtMostOnce'
    <3>1. op \in [Posters -> {Idle, Wake} \cup PushOp \cup PushDelayedOp]
      BY DEF TypeOK
    <3>2. CASE stop_
      <4>1. op' = op
        BY <2>3, <3>1, <3>2
      <4> QED
        BY <2>0, <2>1, <2>3, <4>1 DEF OnceInv
    <3>3. CASE ~stop_
      <4>1. op'[a] = b /\ \A c \in Posters \ {a} : op'[c] = op[c]
        BY <2>3, <3>1, <3>3
      <4>2. \A c \in Posters : op[c].step \in {"push", "push_delayed"} => op[c].functor # t
        BY <2>0, <2>3 DEF OnceInv
      <4> QED
        BY <2>0, <2>1, <2>3, <4>1, <4>2 DEF OnceInv
    <3> QED
      BY <3>2, <3>3
  <2>4. ASSUME NEW a \in Posters, NEW t \in Tasks, PostTaskImpl(a, t) PROVE AtMostOnce'
    <3> DEFINE b == [step |-> "push", functor |-> t]
    <3>1. op' = [op EXCEPT ![a] = IF stop_ THEN Idle ELSE b]
      BY <2>4 DEF PostTaskImpl
    <3>2. b.step \in {"push", "push_delayed"} /\ b.functor = t
      OBVIOUS
    <3>3. t \in fresh /\ op[a] = Idle /\ fresh' = fresh \ {t} /\ UNCHANGED <<Line, delayed_messages_>>
      BY <2>4 DEF PostTaskImpl, queueVars, loopVars, Line
    <3> HIDE DEF b
    <3> QED
      BY <2>3, <3>1, <3>2, <3>3
  <2>5. ASSUME NEW a \in Posters, NEW t \in Tasks, NEW d \in Delays, PostDelayedTaskImpl(a, t, d)
        PROVE  AtMostOnce'
    <3> DEFINE b == [step |-> "push_delayed", functor |-> t, run_time_ms |-> now + d]
    <3>1. op' = [op EXCEPT ![a] = IF stop_ THEN Idle ELSE b]
      BY <2>5 DEF PostDelayedTaskImpl
    <3>2. b.step \in {"push", "push_delayed"} /\ b.functor = t
      OBVIOUS
    <3>3. t \in fresh /\ op[a] = Idle /\ fresh' = fresh \ {t} /\ UNCHANGED <<Line, delayed_messages_>>
      BY <2>5 DEF PostDelayedTaskImpl, queueVars, loopVars, Line
    <3> HIDE DEF b
    <3> QED
      BY <2>3, <3>1, <3>2, <3>3
  <2>6. ASSUME NEW a \in Posters, op' = [op EXCEPT ![a] = Wake]
        PROVE  op'[a] = Wake /\ \A c \in Posters \ {a} : op'[c] = op[c]
    BY <2>6 DEF TypeOK
  <2>7. ASSUME NEW a \in Posters, Push(a) PROVE AtMostOnce'
    <3> DEFINE f == op[a].functor
    <3>1. op[a] \in PushOp /\ f \in Tasks
      BY <2>7 DEF TypeOK, Push, Idle, Wake, PushOp, PushDelayedOp
    <3>2. Line' = Append(Line, f) /\ UNCHANGED <<delayed_messages_, fresh>>
      BY <2>0, <2>7, <3>1, LineMoves DEF Push, Line, loopVars
    <3>3. f \notin Elements(Line) /\ f \notin fresh /\ \A m \in delayed_messages_ : m.functor # f
      BY <2>0, <2>7 DEF OnceInv, Push
    <3>4. NoDup(Line') /\ Elements(Line') = Elements(Line) \cup {f}
      BY <2>0, <3>1, <3>2, <3>3, AppendNoDup DEF OnceInv
    <3>5. op'[a] = Wake /\ \A c \in Posters \ {a} : op'[c] = op[c]
      BY <2>6, <2>7 DEF Push
    <3>6. \A c \in Posters \ {a} : op[c].step \in {"push", "push_delayed"} => op[c].functor # f
      BY <2>0, <2>7 DEF OnceInv, Push
    <3> QED
      <4> HIDE DEF f
      <4>1. \A t \in fresh' : t \notin Elements(Line')
        BY <2>0, <3>2, <3>3, <3>4 DEF OnceInv
      <4>2. \A m \in delayed_messages_' : m.functor \notin Elements(Line') /\ m.functor \notin fresh'
        BY <2>0, <3>2, <3>3, <3>4 DEF OnceInv
      <4>3. \A c \in Posters : op'[c].step \in {"push", "push_delayed"} => c # a /\ op'[c] = op[c]
        BY <3>5 DEF Wake
      <4>4. \A c \in Posters : op'[c].step \in {"push", "push_delayed"} =>
              /\ op'[c].functor \notin Elements(Line')
              /\ op'[c].functor \notin fresh'
              /\ \A m \in delayed_messages_' : m.functor # op'[c].functor
        BY <2>0, <3>2, <3>4, <3>6, <4>3 DEF OnceInv
      <4> QED
        BY <2>0, <2>1, <3>2, <3>4, <4>1, <4>2, <4>3, <4>4 DEF OnceInv
  <2>8. ASSUME NEW a \in Posters, PushDelayed(a) PROVE AtMostOnce'
    <3> DEFINE f == op[a].functor
               new == [run_time_ms |-> op[a].run_time_ms, message_number |-> delayed_next_num_,
                       functor |-> f]
    <3>1. delayed_messages_' = delayed_messages_ \cup {new} /\ UNCHANGED <<Line, fresh>>
      BY <2>8 DEF PushDelayed, Line, loopVars
    <3>2. f \notin Elements(Line) /\ f \notin fresh /\ \A m \in delayed_messages_ : m.functor # f
      BY <2>0, <2>8 DEF OnceInv, PushDelayed
    <3>3. op'[a] = Wake /\ \A c \in Posters \ {a} : op'[c] = op[c]
      BY <2>6, <2>8 DEF PushDelayed
    <3>4. \A c \in Posters \ {a} : op[c].step \in {"push", "push_delayed"} => op[c].functor # f
      BY <2>0, <2>8 DEF OnceInv, PushDelayed
    <3>5. new.functor = f
      OBVIOUS
    <3> HIDE DEF new, f
    <3> QED
      BY <2>0, <2>1, <3>1, <3>2, <3>3, <3>4, <3>5 DEF OnceInv, Wake
  <2>9. ASSUME NEW a \in Posters, WakeUpSocketServer(a) PROVE AtMostOnce'
    <3>1. op'[a] = Idle /\ \A c \in Posters \ {a} : op'[c] = op[c]
      BY <2>9 DEF WakeUpSocketServer, TypeOK
    <3>2. UNCHANGED <<Line, delayed_messages_, fresh>>
      BY <2>9 DEF WakeUpSocketServer, queueVars, loopVars, Line
    <3> QED
      BY <2>0, <2>1, <3>1, <3>2 DEF OnceInv, Idle
  <2>10. ASSUME NEW m \in delayed_messages_, Promote(m) PROVE AtMostOnce'
    <3> DEFINE f == m.functor
    <3>1. f \in Tasks
      BY DEF TypeOK, DelayedMessage
    <3>2. /\ Line' = Append(Line, f) /\ delayed_messages_' = delayed_messages_ \ {m}
          /\ UNCHANGED <<op, fresh>>
      BY <2>0, <2>10, <3>1, LineMoves DEF Promote, Line, loopVars, postVars
    <3>3. f \notin Elements(Line)
      BY <2>0 DEF OnceInv
    <3>4. NoDup(Line') /\ Elements(Line') = Elements(Line) \cup {f}
      BY <2>0, <3>1, <3>2, <3>3, AppendNoDup DEF OnceInv
    <3>5. f \notin fresh /\ \A n \in delayed_messages_' : n.functor # f
      BY <2>0, <3>2 DEF OnceInv
    <3>6. \A c \in Posters : op[c].step \in {"push", "push_delayed"} => op[c].functor # f
      BY <2>0 DEF OnceInv
    <3> QED
      BY <2>0, <2>1, <3>2, <3>4, <3>5, <3>6 DEF OnceInv
  <2>11. CASE Get_Take
    <3>1. Line' = Line
      BY <2>0, <2>11, LineMoves DEF Get_Take, Line
    <3> QED
      BY <2>2, <2>11, <3>1 DEF Get_Take, postVars
  <2>12. CASE \/ Quit \/ Restart \/ Tick \/ Wait_Consume \/ UNCHANGED vars
              \/ Get_Start \/ Get_Lock \/ Get_Unlock \/ Get_Quit \/ Get_Wait
    BY <2>2, <2>12 DEF Quit, Restart, Tick, Wait_Consume, vars, Get_Start, Get_Lock, Get_Unlock,
       Get_Quit, Get_Wait, queueVars, loopVars, postVars, Line
  <2>13. CASE \/ Get_Woken \/ Get_WaitFailed \/ ProcessMessages_Empty
              \/ Dispatch_Again \/ Dispatch_TimeUp \/ \E c \in Timeouts : ProcessMessages(c)
    BY <2>2, <2>13 DEF Get_Woken, Get_WaitFailed, ProcessMessages_Empty, Dispatch_Again,
       Dispatch_TimeUp, ProcessMessages, queueVars, postVars, Line
  <2> QED
    BY <2>4, <2>5, <2>7, <2>8, <2>9, <2>10, <2>11, <2>12, <2>13 DEF Next, Poster, Loop
<1> QED
  BY <1>1, <1>2, TypeCorrect, PTL DEF Spec

-----------------------------------------------------------------------------
(* Order.                                                                  *)

(* What a step may do to the order in which tasks run: put one task behind *)
(* all that are queued or were executed.  A delayed task leaves the heap   *)
(* only to go there, and only when its time has come and nothing in the    *)
(* heap is to run before it.                                               *)
OrderStep ==
  /\ Line' = Line \/ \E t \in Tasks : Line' = Append(Line, t)
  /\ \A m \in delayed_messages_ : m \notin delayed_messages_' =>
       m.run_time_ms <= now /\ Top(m) /\ Line' = Append(Line, m.functor)

(* Whatever is posted and whenever, what was queued runs in the order in   *)
(* which it was queued, no delayed task is early, lost or overtaken in the *)
(* heap; however often numbers wrap and runs of the loop end (Push,        *)
(* ProcessDelayedMessage, Get).                                            *)
THEOREM OrderIsKept == Spec => [][OrderStep]_vars
<1>1. ASSUME TypeOK, LimitInv, [Next]_vars PROVE [OrderStep]_vars
  <2> USE <1>1
  <2>0. messages_ \in Seq(Tasks) /\ executed \in Seq(Tasks)
    BY DEF TypeOK
  <2>1. ASSUME Line' = Line, delayed_messages_ \subseteq delayed_messages_' PROVE OrderStep
    BY <2>1 DEF OrderStep
  <2>2. ASSUME NEW a \in Posters, NEW t \in Tasks,
               PostTaskImpl(a, t) \/ \E d \in Delays : PostDelayedTaskImpl(a, t, d)
        PROVE  OrderStep
    BY <2>1, <2>2 DEF PostTaskImpl, PostDelayedTaskImpl, queueVars, loopVars, Line
  <2>3. ASSUME NEW a \in Posters, Push(a) PROVE OrderStep
    <3>1. op[a].functor \in Tasks
      BY <2>3 DEF TypeOK, Push, Idle, Wake, PushOp, PushDelayedOp
    <3>2. Line' = Append(Line, op[a].functor)
      BY <2>0, <2>3, <3>1, LineMoves DEF Push, Line, loopVars
    <3> QED
      BY <2>3, <3>1, <3>2 DEF OrderStep, Push
  <2>4. ASSUME NEW a \in Posters, PushDelayed(a) \/ WakeUpSocketServer(a) PROVE OrderStep
    BY <2>1, <2>4 DEF PushDelayed, WakeUpSocketServer, queueVars, loopVars, Line
  <2>5. ASSUME NEW m \in delayed_messages_, Promote(m) PROVE OrderStep
    <3>1. m.functor \in Tasks /\ m.run_time_ms \in Int
      BY DEF TypeOK, DelayedMessage
    <3>2. Line' = Append(Line, m.functor)
      BY <2>0, <2>5, <3>1, LineMoves DEF Promote, Line, loopVars
    <3>3. m.run_time_ms <= now
      BY <2>5, <3>1 DEF Promote, Due, LimitInv, TypeOK
    <3>4. Top(m) /\ delayed_messages_' = delayed_messages_ \ {m}
      BY <2>5 DEF Promote
    <3> QED
      BY <3>1, <3>2, <3>3, <3>4 DEF OrderStep
  <2>6. CASE Get_Take
    <3>1. Line' = Line
      BY <2>0, <2>6, LineMoves DEF Get_Take, Line
    <3> QED
      BY <2>1, <2>6, <3>1 DEF Get_Take
  <2>7. CASE \/ Quit \/ Restart \/ Tick \/ Wait_Consume \/ UNCHANGED vars
             \/ Get_Start \/ Get_Lock \/ Get_Unlock \/ Get_Quit \/ Get_Wait
    BY <2>1, <2>7 DEF Quit, Restart, Tick, Wait_Consume, vars, Get_Start, Get_Lock, Get_Unlock,
       Get_Quit, Get_Wait, queueVars, loopVars, Line
  <2>8. CASE \/ Get_Woken \/ Get_WaitFailed \/ ProcessMessages_Empty
             \/ Dispatch_Again \/ Dispatch_TimeUp \/ \E c \in Timeouts : ProcessMessages(c)
    BY <2>1, <2>8 DEF Get_Woken, Get_WaitFailed, ProcessMessages_Empty, Dispatch_Again,
       Dispatch_TimeUp, ProcessMessages, queueVars, Line
  <2> QED
    BY <2>2, <2>3, <2>4, <2>5, <2>6, <2>7, <2>8 DEF Next, Poster, Loop
<1> QED
  BY <1>1, TypeCorrect, LimitInvariant, PTL DEF Spec

-----------------------------------------------------------------------------
(***************************************************************************)
(* Thread implements TaskQueue, for any number of clients and any delays,  *)
(* time limits and clock bound, as long as there are fewer tasks than      *)
(* delayed_next_num_ has numbers: 2^32 - 1 of them.                        *)
(***************************************************************************)
DelayedPost(a) == op[a].step = "push_delayed"

(* Tasks that may still get a number. *)
Unnumbered == fresh \cup {op[a].functor : a \in {b \in Posters : DelayedPost(b)}}

(* What makes a step of the loop one of the queue, besides AtMostOnce:     *)
(* numbers are given out once and in order, times are read from the clock, *)
(* and Get's reading of it is never ahead.                                 *)
NumberInv ==
  /\ \A m \in delayed_messages_ : m.message_number < delayed_next_num_
  /\ \A m, n \in delayed_messages_ : m.message_number = n.message_number => m = n
  /\ \A a \in Posters : DelayedPost(a) => op[a].run_time_ms \in DueTimes
  /\ delayed_next_num_ + Cardinality(Unnumbered) <= Cardinality(Tasks) + 1

-----------------------------------------------------------------------------
(* Numbers.                                                                *)

(* A set that may still get numbers is finite, and smaller the fewer there *)
(* are.                                                                    *)
LEMMA FewerUnnumbered ==
  ASSUME IsFiniteSet(Tasks), NEW S \in SUBSET Tasks, NEW T \in SUBSET S
  PROVE  /\ IsFiniteSet(S)
         /\ Cardinality(S) \in Nat /\ Cardinality(T) \in Nat
         /\ Cardinality(T) <= Cardinality(S)
<1>1. IsFiniteSet(S)
  BY FS_Subset
<1>2. IsFiniteSet(T) /\ Cardinality(T) <= Cardinality(S)
  BY <1>1, FS_Subset
<1> QED BY <1>1, <1>2, FS_CardinalityType

(* What is posted is a task. *)
LEMMA PostedTask ==
  ASSUME TypeOK, NEW a \in Posters
  PROVE  /\ op[a].step = "push" => op[a] \in PushOp /\ op[a].functor \in Tasks
         /\ DelayedPost(a) => op[a] \in PushDelayedOp /\ op[a].functor \in Tasks
<1>1. op[a] \in {Idle, Wake} \cup PushOp \cup PushDelayedOp
  BY DEF TypeOK
<1> QED BY <1>1 DEF DelayedPost, Idle, Wake, PushOp, PushDelayedOp

LEMMA UnnumberedTasks ==
  ASSUME TypeOK
  PROVE  Unnumbered \subseteq Tasks
<1>1. fresh \subseteq Tasks
  BY DEF TypeOK
<1> QED BY <1>1, PostedTask DEF Unnumbered

(* A step that numbers nothing. *)
LEMMA NothingNumbered ==
  ASSUME IsFiniteSet(Tasks), TypeOK, NumberInv,
         Unnumbered' \subseteq Unnumbered,
         UNCHANGED delayed_next_num_,
         delayed_messages_' \subseteq delayed_messages_,
         \A a \in Posters : DelayedPost(a)' => op'[a].run_time_ms \in DueTimes
  PROVE  NumberInv'
<1>1. /\ Cardinality(Unnumbered') <= Cardinality(Unnumbered)
      /\ Cardinality(Unnumbered') \in Nat /\ Cardinality(Unnumbered) \in Nat
  BY UnnumberedTasks, FewerUnnumbered
<1>2. delayed_next_num_ \in Nat /\ Cardinality(Tasks) \in Nat
  BY ThreadAssumption, FS_CardinalityType DEF TypeOK
<1>3. (delayed_next_num_ + Cardinality(Unnumbered) <= Cardinality(Tasks) + 1)'
  BY <1>1, <1>2 DEF NumberInv
<1>4. /\ \A m \in delayed_messages_' : m.message_number < delayed_next_num_'
      /\ \A m, n \in delayed_messages_' : m.message_number = n.message_number => m = n
  BY DEF NumberInv
<1> QED BY <1>3, <1>4 DEF NumberInv

(* A poster that begins to post, or goes on. *)
LEMMA PostersStep ==
  ASSUME TypeOK, NEW a \in Posters, NEW b, op' = [op EXCEPT ![a] = b]
  PROVE  op'[a] = b /\ \A c \in Posters \ {a} : op'[c] = op[c]
BY DEF TypeOK

LEMMA NumberInvariant ==
  ASSUME IsFiniteSet(Tasks), Cardinality(Tasks) + 1 < NumMod
  PROVE  Spec => []NumberInv
<1>1. Init => NumberInv
  <2> SUFFICES ASSUME Init PROVE NumberInv
    OBVIOUS
  <2>1. \A a \in Posters : ~DelayedPost(a)
    BY DEF Init, DelayedPost, Idle
  <2>2. Unnumbered = Tasks
    BY <2>1 DEF Init, Unnumbered
  <2>3. Cardinality(Tasks) \in Nat
    BY FS_CardinalityType
  <2> QED BY <2>1, <2>2, <2>3 DEF Init, NumberInv
<1>2. ASSUME TypeOK, AtMostOnce, NumberInv, [Next]_vars PROVE NumberInv'
  <2> USE <1>2
  <2>1. ASSUME UNCHANGED <<delayed_messages_, delayed_next_num_, op, fresh>> PROVE NumberInv'
    BY <2>1 DEF NumberInv, Unnumbered, DelayedPost
  <2>2. ASSUME NEW a \in Posters, NEW t \in Tasks, PostTaskImpl(a, t) PROVE NumberInv'
    <3> DEFINE b == IF stop_ THEN Idle ELSE [step |-> "push", functor |-> t]
    <3>0. b.step # "push_delayed"
      BY DEF Idle
    <3>1. op' = [op EXCEPT ![a] = b]
      BY <2>2 DEF PostTaskImpl
    <3> HIDE DEF b
    <3>2. \A c \in Posters : DelayedPost(c)' => op'[c] = op[c] /\ DelayedPost(c)
      BY <3>0, <3>1, PostersStep DEF DelayedPost
    <3>3. fresh' \subseteq fresh /\ UNCHANGED <<delayed_messages_, delayed_next_num_>>
      BY <2>2 DEF PostTaskImpl, queueVars
    <3>4. Unnumbered' \subseteq Unnumbered
      BY <3>2, <3>3 DEF Unnumbered
    <3>5. \A c \in Posters : DelayedPost(c)' => op'[c].run_time_ms \in DueTimes
      BY <3>2 DEF NumberInv
    <3> QED BY <3>3, <3>4, <3>5, NothingNumbered
  <2>3. ASSUME NEW a \in Posters, NEW t \in Tasks, NEW d \in Delays, PostDelayedTaskImpl(a, t, d)
        PROVE  NumberInv'
    <3> DEFINE new == [step |-> "push_delayed", functor |-> t, run_time_ms |-> now + d]
    <3>1. PICK b : op' = [op EXCEPT ![a] = b] /\ (b = Idle \/ b = new)
      BY <2>3 DEF PostDelayedTaskImpl
    <3>2. now + d \in DueTimes
      BY DEF TypeOK, DueTimes
    <3>3. \A c \in Posters : DelayedPost(c)' =>
            \/ op'[c] = op[c] /\ DelayedPost(c)
            \/ op'[c].functor = t /\ op'[c].run_time_ms = now + d
      BY <3>1, PostersStep DEF DelayedPost, Idle
    <3>4. t \in fresh /\ fresh' \subseteq fresh /\ UNCHANGED <<delayed_messages_, delayed_next_num_>>
      BY <2>3 DEF PostDelayedTaskImpl, queueVars
    <3>5. Unnumbered' \subseteq Unnumbered
      BY <3>3, <3>4 DEF Unnumbered
    <3>6. \A c \in Posters : DelayedPost(c)' => op'[c].run_time_ms \in DueTimes
      BY <3>2, <3>3 DEF NumberInv
    <3> QED BY <3>4, <3>5, <3>6, NothingNumbered
  <2>4. ASSUME NEW a \in Posters, NEW b, op' = [op EXCEPT ![a] = b], b \in {Idle, Wake},
               UNCHANGED <<fresh, delayed_next_num_>>, delayed_messages_' \subseteq delayed_messages_
        PROVE  NumberInv'
    <3>1. \A c \in Posters : DelayedPost(c)' => op'[c] = op[c] /\ DelayedPost(c)
      BY <2>4, PostersStep DEF DelayedPost, Idle, Wake
    <3>2. Unnumbered' \subseteq Unnumbered
      BY <2>4, <3>1 DEF Unnumbered
    <3>3. \A c \in Posters : DelayedPost(c)' => op'[c].run_time_ms \in DueTimes
      BY <3>1 DEF NumberInv
    <3> QED BY <2>4, <3>2, <3>3, NothingNumbered
  <2>5. ASSUME NEW a \in Posters, Push(a) \/ WakeUpSocketServer(a) PROVE NumberInv'
    BY <2>4, <2>5 DEF Push, WakeUpSocketServer, queueVars
  <2>6. ASSUME NEW a \in Posters, PushDelayed(a) PROVE NumberInv'
    <3> DEFINE f   == op[a].functor
               new == [run_time_ms |-> op[a].run_time_ms, message_number |-> delayed_next_num_,
                       functor |-> f]
    <3>1. /\ DelayedPost(a)
          /\ delayed_messages_' = delayed_messages_ \cup {new}
          /\ delayed_next_num_' = (delayed_next_num_ + 1) % NumMod
          /\ op' = [op EXCEPT ![a] = Wake]
          /\ fresh' = fresh
      BY <2>6 DEF PushDelayed, DelayedPost
    <3>2. f \in Unnumbered
      BY <3>1 DEF Unnumbered
    <3>3. \A c \in Posters : DelayedPost(c)' => c # a /\ op'[c] = op[c] /\ DelayedPost(c)
      <4>1. op'[a] = Wake /\ \A c \in Posters \ {a} : op'[c] = op[c]
        BY <3>1, PostersStep
      <4> QED BY <4>1 DEF DelayedPost, Wake
    <3>4. f \notin fresh /\ \A c \in Posters : DelayedPost(c) /\ op[c].functor = f => c = a
      BY <3>1, OnceIsAtMostOnce DEF OnceInv, DelayedPost
    <3>5. Unnumbered' \subseteq Unnumbered \ {f}
      BY <3>1, <3>3, <3>4 DEF Unnumbered
    <3>6. /\ IsFiniteSet(Unnumbered) /\ Cardinality(Unnumbered) \in Nat
          /\ Cardinality(Unnumbered \ {f}) = Cardinality(Unnumbered) - 1
      BY <3>2, UnnumberedTasks, FewerUnnumbered, FS_RemoveElement
    <3>7. /\ Cardinality(Unnumbered') <= Cardinality(Unnumbered \ {f})
          /\ Cardinality(Unnumbered') \in Nat /\ Cardinality(Unnumbered \ {f}) \in Nat
      <4>1. Unnumbered \ {f} \in SUBSET Tasks /\ Unnumbered' \in SUBSET (Unnumbered \ {f})
        BY <3>5, UnnumberedTasks
      <4> QED BY <4>1, FewerUnnumbered
    <3>8. delayed_next_num_ \in Nat /\ Cardinality(Tasks) \in Nat
      BY ThreadAssumption, FS_CardinalityType DEF TypeOK
    <3>9. delayed_next_num_ + 1 < NumMod
      BY <3>6, <3>7, <3>8, ThreadAssumption DEF NumberInv
    <3>10. delayed_next_num_' = delayed_next_num_ + 1
      BY <3>1, <3>8, <3>9, ThreadAssumption
    <3>11. delayed_next_num_' + Cardinality(Unnumbered') <= Cardinality(Tasks) + 1
      BY <3>6, <3>7, <3>8, <3>10 DEF NumberInv
    <3>12. new.message_number = delayed_next_num_
      OBVIOUS
    <3>13. \A m \in delayed_messages_ : m.message_number \in Int /\ m.message_number < delayed_next_num_
      BY DEF NumberInv, TypeOK, DelayedMessage
    <3> HIDE DEF new, f
    <3>14. \A m \in delayed_messages_' : m.message_number < delayed_next_num_'
      BY <3>1, <3>8, <3>10, <3>12, <3>13
    <3>15. \A m, n \in delayed_messages_' : m.message_number = n.message_number => m = n
      BY <3>1, <3>8, <3>12, <3>13 DEF NumberInv
    <3>16. \A c \in Posters : DelayedPost(c)' => op'[c].run_time_ms \in DueTimes
      BY <3>3 DEF NumberInv
    <3> QED BY <3>11, <3>14, <3>15, <3>16 DEF NumberInv
  <2>7. ASSUME NEW m \in delayed_messages_, Promote(m) PROVE NumberInv'
    BY <2>7, NothingNumbered DEF Promote, NumberInv, postVars, Unnumbered, DelayedPost
  <2>8. CASE \/ Quit \/ Restart \/ Tick \/ Wait_Consume \/ UNCHANGED vars
             \/ Get_Start \/ Get_Lock \/ Get_Take \/ Get_Unlock \/ Get_Quit \/ Get_Wait
    BY <2>1, <2>8 DEF Quit, Restart, Tick, Wait_Consume, vars, Get_Start, Get_Lock, Get_Take,
       Get_Unlock, Get_Quit, Get_Wait, queueVars, postVars
  <2>9. CASE \/ Get_Woken \/ Get_WaitFailed \/ ProcessMessages_Empty
             \/ Dispatch_Again \/ Dispatch_TimeUp \/ \E c \in Timeouts : ProcessMessages(c)
    BY <2>1, <2>9 DEF Get_Woken, Get_WaitFailed, ProcessMessages_Empty, Dispatch_Again,
       Dispatch_TimeUp, ProcessMessages, queueVars, postVars
  <2> QED
    BY <2>2, <2>3, <2>5, <2>6, <2>7, <2>8, <2>9 DEF Next, Poster, Loop
<1> QED
  BY <1>1, <1>2, TypeCorrect, RunsAtMostOnce, PTL DEF Spec

-----------------------------------------------------------------------------
(* The refinement.                                                         *)

(* A message as a timer of the queue. *)
Timer(m) == [task |-> m.functor, due |-> m.run_time_ms, seq |-> m.message_number]

Timers == {Timer(m) : m \in delayed_messages_}

QueueStep == [TQ!TQNext]_(TQ!tqVars)

(* Steps in which the queue does nothing. *)
LEMMA StutterStep ==
  ASSUME UNCHANGED <<queueVars, executed, now>>
  PROVE  QueueStep
BY DEF QueueStep, TQ!tqVars, queueVars

(* A task that is on its way is not known to the queue. *)
LEMMA PostedIsNew ==
  ASSUME TypeOK, AtMostOnce, NEW a \in Posters, op[a].step \in {"push", "push_delayed"}
  PROVE  op[a].functor \notin TQ!Known
<1> DEFINE f == op[a].functor
<1>0. messages_ \in Seq(Tasks) /\ executed \in Seq(Tasks)
  BY DEF TypeOK
<1>1. f \notin Elements(Line) /\ \A m \in delayed_messages_ : m.functor # f
  BY OnceIsAtMostOnce DEF OnceInv
<1>2. f \notin TQ!Elements(messages_)
  <2>1. ASSUME NEW i \in 1..Len(messages_) PROVE messages_[i] # f
    <3>1. Line[Len(executed) + i] = messages_[i] /\ Len(executed) + i \in 1..Len(Line)
      BY <1>0 DEF Line
    <3> QED BY <1>1, <3>1 DEF Elements
  <2> QED BY <2>1 DEF TQ!Elements
<1>3. f \notin TQ!Elements(executed)
  <2>1. ASSUME NEW i \in 1..Len(executed) PROVE executed[i] # f
    <3>1. Line[i] = executed[i] /\ i \in 1..Len(Line)
      BY <1>0 DEF Line
    <3> QED BY <1>1, <3>1 DEF Elements
  <2> QED BY <2>1 DEF TQ!Elements
<1>4. \A m \in Timers : m.task # f
  BY <1>1 DEF Timers, Timer
<1> QED BY <1>2, <1>3, <1>4 DEF TQ!Known, Timers, Timer

LEMMA PushStep ==
  ASSUME TypeOK, AtMostOnce, NEW a \in Posters, Push(a)
  PROVE  QueueStep
<1>1. op[a].functor \in Tasks /\ op[a].functor \notin TQ!Known
  BY PostedTask, PostedIsNew DEF Push
<1>2. /\ messages_' = Append(messages_, op[a].functor)
      /\ UNCHANGED <<delayed_messages_, delayed_next_num_, executed, now>>
  BY DEF Push, loopVars
<1>3. TQ!Post(op[a].functor)
  BY <1>1, <1>2 DEF TQ!Post
<1> QED BY <1>1, <1>3 DEF QueueStep, TQ!TQNext

LEMMA DelayedNext ==
  ASSUME NEW t \in Tasks, NEW due \in DueTimes, TQ!PostDelayed(t, due)
  PROVE  TQ!TQNext
BY DEF TQ!TQNext

LEMMA PushDelayedStep ==
  ASSUME TypeOK, AtMostOnce, NumberInv, NumberInv', NEW a \in Posters, PushDelayed(a)
  PROVE  QueueStep
<1> DEFINE new == [run_time_ms |-> op[a].run_time_ms, message_number |-> delayed_next_num_,
                   functor |-> op[a].functor]
<1>1. op[a].functor \in Tasks /\ op[a].functor \notin TQ!Known
  BY PostedTask, PostedIsNew DEF PushDelayed, DelayedPost
<1>2. op[a].run_time_ms \in DueTimes
  BY DEF PushDelayed, DelayedPost, NumberInv
<1>3. /\ delayed_messages_' = delayed_messages_ \cup {new}
      /\ delayed_next_num_' = (delayed_next_num_ + 1) % NumMod
      /\ UNCHANGED <<messages_, executed, now>>
  BY DEF PushDelayed, loopVars
<1>4. delayed_next_num_' = delayed_next_num_ + 1
  <2>1. new.message_number < delayed_next_num_'
    BY <1>3 DEF NumberInv
  <2>2. delayed_next_num_ \in 0..(NumMod - 1) /\ NumMod \in Nat /\ NumMod > 1
    BY ThreadAssumption DEF TypeOK
  <2>3. delayed_next_num_ < (delayed_next_num_ + 1) % NumMod
    BY <1>3, <2>1
  <2>4. CASE delayed_next_num_ = NumMod - 1
    <3>1. (delayed_next_num_ + 1) % NumMod = 0
      BY <2>2, <2>4
    <3> QED BY <2>2, <2>3, <3>1
  <2>5. CASE delayed_next_num_ # NumMod - 1
    <3>1. delayed_next_num_ + 1 \in 0..(NumMod - 1)
      BY <2>2, <2>5
    <3>2. (delayed_next_num_ + 1) % NumMod = delayed_next_num_ + 1
      BY <2>2, <3>1
    <3> QED BY <1>3, <3>2
  <2> QED BY <2>4, <2>5
<1>5. {[task |-> m.functor, due |-> m.run_time_ms, seq |-> m.message_number] : m \in delayed_messages_'}
        = {[task |-> m.functor, due |-> m.run_time_ms, seq |-> m.message_number] : m \in delayed_messages_}
            \cup {[task |-> op[a].functor, due |-> op[a].run_time_ms, seq |-> delayed_next_num_]}
  <2>1. /\ new.functor = op[a].functor /\ new.run_time_ms = op[a].run_time_ms
        /\ new.message_number = delayed_next_num_
    OBVIOUS
  <2> HIDE DEF new
  <2> QED BY <1>3, <2>1
<1>6. PICK t \in Tasks, due \in DueTimes : t = op[a].functor /\ due = op[a].run_time_ms
  BY <1>1, <1>2
<1>7. TQ!PostDelayed(t, due)
  BY Zenon, <1>1, <1>3, <1>4, <1>5, <1>6 DEF TQ!PostDelayed
<1>8. TQ!TQNext
  BY Zenon, <1>7, DelayedNext
<1> QED BY <1>8 DEF QueueStep

(* The top of the heap is the first timer. *)
LEMMA PromoteStep ==
  ASSUME TypeOK, AtMostOnce, LimitInv, NumberInv, NEW m \in delayed_messages_, Promote(m)
  PROVE  QueueStep
<1>1. \A n \in delayed_messages_ : n.run_time_ms \in Int /\ n.message_number \in Int
  BY DEF TypeOK, DelayedMessage
<1>2. m.run_time_ms <= now
  BY <1>1 DEF Promote, Due, LimitInv, TypeOK
<1>3. \A n \in delayed_messages_ : n # m =>
        \/ m.run_time_ms < n.run_time_ms
        \/ m.run_time_ms = n.run_time_ms /\ m.message_number < n.message_number
  BY <1>1 DEF Promote, Top, Before, NumberInv
<1>4. /\ messages_' = Append(messages_, m.functor)
      /\ delayed_messages_' = delayed_messages_ \ {m}
      /\ UNCHANGED <<delayed_next_num_, executed, now>>
  BY DEF Promote, loopVars
<1>5. \A n \in delayed_messages_ : Timer(n) = Timer(m) => n = m
  BY DEF Timer, NumberInv
<1>6. Timer(m) \in Timers /\ Timers' = Timers \ {Timer(m)}
  BY <1>4, <1>5 DEF Timers
<1>7. /\ Timer(m).task = m.functor /\ Timer(m).due = m.run_time_ms
      /\ Timer(m).seq = m.message_number
  BY DEF Timer
<1>8. \A n \in Timers \ {Timer(m)} : TQ!Earlier(Timer(m), n)
  <2>1. ASSUME NEW k \in delayed_messages_, Timer(k) # Timer(m)
        PROVE  TQ!Earlier(Timer(m), Timer(k))
    BY <1>3, <2>1 DEF TQ!Earlier, Timer
  <2> QED BY <2>1 DEF Timers
<1>9. TQ!Expire(Timer(m))
  BY <1>2, <1>4, <1>6, <1>7, <1>8 DEF TQ!Expire, Timers, Timer
<1> QED BY <1>6, <1>9 DEF QueueStep, TQ!TQNext, Timers, Timer

LEMMA TakeStep == Get_Take => QueueStep
<1> SUFFICES ASSUME Get_Take PROVE QueueStep
  OBVIOUS
<1>1. TQ!Execute
  BY DEF Get_Take, TQ!Execute
<1> QED BY <1>1 DEF QueueStep, TQ!TQNext

LEMMA TickStep == Tick => QueueStep
<1> SUFFICES ASSUME Tick PROVE QueueStep
  OBVIOUS
<1>1. TQ!Tick
  BY DEF Tick, TQ!Tick, queueVars, loopVars
<1> QED BY <1>1 DEF QueueStep, TQ!TQNext

(* Every behaviour of the message loop, with its posters, Quits, restarts  *)
(* and failing Waits, is one of the task queue: first in first out, no     *)
(* delayed task early, delayed tasks by time and then by number, none      *)
(* twice.                                                                  *)
THEOREM ThreadRefinesTaskQueue ==
  ASSUME IsFiniteSet(Tasks), Cardinality(Tasks) + 1 < NumMod
  PROVE  Spec => ImplementsTaskQueue
<1>1. Init => TQ!TQInit
  BY DEF Init, TQ!TQInit
<1>2. ASSUME TypeOK, AtMostOnce, LimitInv, NumberInv, NumberInv', [Next]_vars PROVE QueueStep
  <2> USE <1>2
  <2>1. ASSUME NEW a \in Posters, NEW t \in Tasks,
               PostTaskImpl(a, t) \/ \E d \in Delays : PostDelayedTaskImpl(a, t, d)
        PROVE  QueueStep
    BY <2>1, StutterStep DEF PostTaskImpl, PostDelayedTaskImpl, loopVars
  <2>2. ASSUME NEW a \in Posters, Poster(a) PROVE QueueStep
    <3>1. CASE WakeUpSocketServer(a)
      BY <3>1, StutterStep DEF WakeUpSocketServer, loopVars
    <3> QED BY <2>2, <3>1, PushStep, PushDelayedStep DEF Poster
  <2>3. CASE \/ Quit \/ Restart \/ Wait_Consume \/ UNCHANGED vars
             \/ Get_Start \/ Get_Lock \/ Get_Unlock \/ Get_Quit \/ Get_Wait
    BY <2>3, StutterStep DEF Quit, Restart, Wait_Consume, vars, Get_Start, Get_Lock, Get_Unlock,
       Get_Quit, Get_Wait, loopVars
  <2>4. CASE \/ Get_Woken \/ Get_WaitFailed \/ ProcessMessages_Empty
             \/ Dispatch_Again \/ Dispatch_TimeUp \/ \E c \in Timeouts : ProcessMessages(c)
    BY <2>4, StutterStep DEF Get_Woken, Get_WaitFailed, ProcessMessages_Empty, Dispatch_Again,
       Dispatch_TimeUp, ProcessMessages
  <2> QED
    BY <2>1, <2>2, <2>3, <2>4, PromoteStep, TakeStep, TickStep DEF Next, Loop
<1> QED
  BY <1>1, <1>2, TypeCorrect, RunsAtMostOnce, LimitInvariant, NumberInvariant, PTL
     DEF Spec, ImplementsTaskQueue, TQ!TQSpec, QueueStep
=============================================================================
