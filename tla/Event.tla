--------------------------------- MODULE Event ---------------------------------
(***************************************************************************)
(* class Event (concurrency/event.h, event.cpp): a flag, a Mutex and a     *)
(* condition variable.  A critical section of mutex_ is one step;          *)
(* pthread_cond_wait gives the mutex up while it blocks, and may return    *)
(* without a reason.                                                       *)
(***************************************************************************)
EXTENDS Integers, FiniteSets

CONSTANTS
  Waiters,        \* threads that call Wait
  Timeouts,       \* arguments of Wait(int64_t), ms
  StartTime,      \* CLOCK_REALTIME in ms when the event is constructed
  MaxTime,        \* bound: the clock stops here
  MaxSets,        \* bound: how often the event is set
  NoTimeout       \* the argument Wait() does not have

ASSUME EventAssumption ==
  /\ Timeouts \subseteq Int /\ NoTimeout \notin Timeouts
  /\ {StartTime, MaxTime, MaxSets} \subseteq Nat \ {0} /\ StartTime <= MaxTime
  /\ \A d \in Timeouts : d < StartTime   \* nobody waits for 50 years

VARIABLES
  manual_reset_, event_status_,
  pc,             \* of each waiter, see below
  give_up_after,  \* argument of its Wait
  now,
  sets, releases  \* history: how often the event was set, initially too;
                  \* Waits of an event that resets itself that returned true

waitVars == <<pc, give_up_after>>
vars == <<manual_reset_, event_status_, waitVars, now, sets, releases>>

(* A waiter is "out" of Wait; about to "check" event_status_ with mutex_   *)
(* held; "blocked" in pthread_cond_wait or "notified" there and on its way *)
(* back to the check; or Wait has made up its mind to return true          *)
(* ("taken") or false ("failed").                                          *)
Waiting == {"check", "blocked", "notified"}

TypeOK ==
  /\ manual_reset_ \in BOOLEAN /\ event_status_ \in BOOLEAN
  /\ pc \in [Waiters -> Waiting \cup {"out", "taken", "failed"}]
  /\ give_up_after \in [Waiters -> Timeouts \cup {NoTimeout}]
  /\ \A t \in Waiters : pc[t] = "failed" => give_up_after[t] \in Timeouts
  /\ now \in StartTime..MaxTime
  /\ sets \in 0..MaxSets /\ releases \in Nat

Init ==
  /\ manual_reset_ \in BOOLEAN /\ event_status_ \in BOOLEAN
  /\ pc = [t \in Waiters |-> "out"]
  /\ give_up_after = [t \in Waiters |-> NoTimeout]
  /\ now = StartTime
  /\ sets = (IF event_status_ THEN 1 ELSE 0) /\ releases = 0

Move(t, from, to) == pc[t] = from /\ pc' = [pc EXCEPT ![t] = to]

Notify(S) == [t \in Waiters |-> IF t \in S /\ pc[t] = "blocked" THEN "notified" ELSE pc[t]]

(* Mutant: pthread_cond_signal. *)
Set_Signal ==
  /\ sets < MaxSets /\ sets' = sets + 1
  /\ event_status_' = TRUE
  /\ \E t \in Waiters : pc' = Notify({t})
  /\ UNCHANGED <<manual_reset_, give_up_after, now, releases>>

Set ==
  /\ sets < MaxSets /\ sets' = sets + 1
  /\ event_status_' = TRUE
  /\ pc' = Notify(Waiters)     \* pthread_cond_broadcast
  /\ UNCHANGED <<manual_reset_, give_up_after, now, releases>>

Reset == /\ event_status_' = FALSE
         /\ UNCHANGED <<manual_reset_, waitVars, now, sets, releases>>

(* Wait(), Wait(int64_t) *)
Wait(t, d) ==
  /\ Move(t, "out", "check")
  /\ give_up_after' = [give_up_after EXCEPT ![t] = d]
  /\ UNCHANGED <<manual_reset_, event_status_, now, sets, releases>>

(* Mutant: the flag is not taken down. *)
Wait_Take_NoReset(t) ==
  /\ event_status_
  /\ Move(t, "check", "taken")
  /\ releases' = IF manual_reset_ THEN releases ELSE releases + 1
  /\ UNCHANGED <<manual_reset_, event_status_, give_up_after, now, sets>>

(* The while loop ends. *)
Wait_Take(t) ==
  /\ event_status_
  /\ Move(t, "check", "taken")
  /\ event_status_' = manual_reset_
  /\ releases' = IF manual_reset_ THEN releases ELSE releases + 1
  /\ UNCHANGED <<manual_reset_, give_up_after, now, sets>>

(* A timespec with a negative tv_nsec is refused (EINVAL). *)
Invalid(d) == d # NoTimeout /\ d < 0 /\ d % 1000 # 0

Wait_Block(t) ==
  /\ ~event_status_ /\ ~Invalid(give_up_after[t])
  /\ Move(t, "check", "blocked")
  /\ UNCHANGED <<manual_reset_, event_status_, give_up_after, now, sets, releases>>

(* Mutant: what woke the waiter up is not looked at. *)
Wait_Back_Unchecked(t) ==
  /\ \/ Move(t, "notified", "taken") /\ releases' = releases + 1
     \/ Move(t, "blocked", "check") /\ UNCHANGED releases
  /\ UNCHANGED <<manual_reset_, event_status_, give_up_after, now, sets>>

Wait_Back(t) ==
  /\ \E from \in {"notified", "blocked"} : Move(t, from, "check")
  /\ UNCHANGED <<manual_reset_, event_status_, give_up_after, now, sets, releases>>

(* Mutant: a wake-up without a reason counts as a failure, of Wait() too. *)
Wait_GiveUp_Spurious(t) ==
  /\ \/ give_up_after[t] # NoTimeout /\ ~event_status_ /\ Move(t, "check", "failed")
     \/ Move(t, "blocked", "failed")
  /\ UNCHANGED <<manual_reset_, event_status_, give_up_after, now, sets, releases>>

(* pthread_cond_timedwait fails: at once if it does not like ts, else when *)
(* the time ts has come, which it takes for a time of day.                 *)
Wait_GiveUp(t) ==
  /\ give_up_after[t] # NoTimeout
  /\ \/ Invalid(give_up_after[t]) /\ ~event_status_ /\ Move(t, "check", "failed")
     \/ now >= give_up_after[t] /\ \E from \in {"notified", "blocked"} : Move(t, from, "failed")
  /\ UNCHANGED <<manual_reset_, event_status_, give_up_after, now, sets, releases>>

Wait_Returns(t) ==
  /\ \E from \in {"taken", "failed"} : Move(t, from, "out")
  /\ UNCHANGED <<manual_reset_, event_status_, give_up_after, now, sets, releases>>

Tick == /\ now < MaxTime
        /\ now' = now + 1
        /\ UNCHANGED <<manual_reset_, event_status_, waitVars, sets, releases>>

(* What a waiter does next, unless it blocks. *)
Waiter(t) == Wait_Take(t) \/ Wait_Block(t) \/ Wait_GiveUp(t) \/ Wait_Returns(t)

Next ==
  \/ Set \/ Reset \/ Tick
  \/ \E t \in Waiters : \/ \E d \in Timeouts \cup {NoTimeout} : Wait(t, d)
                        \/ Waiter(t) \/ Wait_Back(t)

Spec == Init /\ [][Next]_vars

(* Threads run, and a notified one gets the mutex. *)
FairSpec == /\ Spec
            /\ \A t \in Waiters : WF_vars(Waiter(t)) /\ WF_vars(Wait_Back(t) /\ pc[t] = "notified")

-----------------------------------------------------------------------------
(* Properties.                                                             *)

(* Nobody stays blocked while the event is set: a Set between the check    *)
(* and pthread_cond_wait, or before the Wait, is not missed.               *)
NoLostSet == event_status_ => \A t \in Waiters : pc[t] # "blocked"

(* A Set of an event that resets itself lets one Wait go, however many     *)
(* threads its broadcast wakes up.                                         *)
OneReleasePerSet ==
  ~manual_reset_ => releases + (IF event_status_ THEN 1 ELSE 0) <= sets

(* Who waits for an event that is set gets it, unless it is reset or       *)
(* somebody else takes it.                                                 *)
SetReleases == \A t \in Waiters :
  (event_status_ /\ pc[t] \in Waiting) ~> (pc[t] \notin Waiting \/ ~event_status_)
=============================================================================
