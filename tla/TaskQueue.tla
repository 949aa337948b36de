------------------------------ MODULE TaskQueue ------------------------------
(***************************************************************************)
(* What a TaskQueueBase promises to the code that posts to it, with no     *)
(* threads, locks or wake-ups: immediate tasks run in the order they were  *)
(* posted; a delayed task joins that line no earlier than its time, and    *)
(* delayed tasks join it by time, ties in posting order; every task runs   *)
(* at most once.  Thread.tla is shown to implement this module.            *)
(***************************************************************************)
EXTENDS Integers, Sequences

CONSTANTS
  Tasks,
  Dues       \* the times a delayed task may be due at

VARIABLES
  queue,     \* tasks ready to run, in the order they will run
  timers,    \* delayed tasks not yet ready: [task, due, seq]
  posts,     \* number the next delayed task gets
  executed,  \* tasks that were started, in order
  clock      \* milliseconds

tqVars == <<queue, timers, posts, executed, clock>>

Elements(s) == {s[i] : i \in 1..Len(s)}

Known == Elements(queue) \cup {m.task : m \in timers} \cup Elements(executed)

(* m is to be ready before n: earlier due, or as early and posted first. *)
Earlier(m, n) == m.due < n.due \/ (m.due = n.due /\ m.seq < n.seq)

TQInit == /\ queue = <<>> /\ timers = {} /\ posts = 1
          /\ executed = <<>> /\ clock = 0

Post(t) == /\ t \notin Known
           /\ queue' = Append(queue, t)
           /\ UNCHANGED <<timers, posts, executed, clock>>

PostDelayed(t, due) == /\ t \notin Known
                       /\ timers' = timers \cup {[task |-> t, due |-> due, seq |-> posts]}
                       /\ posts' = posts + 1
                       /\ UNCHANGED <<queue, executed, clock>>

(* Only the first timer of all, and only once its time has come. *)
Expire(m) == /\ m \in timers
             /\ m.due <= clock
             /\ \A n \in timers \ {m} : Earlier(m, n)
             /\ timers' = timers \ {m}
             /\ queue' = Append(queue, m.task)
             /\ UNCHANGED <<posts, executed, clock>>

Execute == /\ queue # <<>>
           /\ executed' = Append(executed, Head(queue))
           /\ queue' = Tail(queue)
           /\ UNCHANGED <<timers, posts, clock>>

Tick == clock' = clock + 1 /\ UNCHANGED <<queue, timers, posts, executed>>

TQNext == \/ \E t \in Tasks : Post(t) \/ \E due \in Dues : PostDelayed(t, due)
          \/ \E m \in timers : Expire(m)
          \/ Execute
          \/ Tick

TQSpec == TQInit /\ [][TQNext]_tqVars
=============================================================================
