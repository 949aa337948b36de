---------------------------- MODULE ThreadLifecycle ----------------------------
(***************************************************************************)
(* The life of Thread objects (concurrency/thread.cpp): Start, Join, Stop, *)
(* Delete and the destructor, the pthreads behind them, and the thread-    *)
(* local TaskQueueBase::Current() that CurrentTaskQueueSetter sets and     *)
(* puts back (api/task_queue_base.cpp).                                    *)
(*                                                                         *)
(* What the message loop does is the subject of Thread.tla; here a worker  *)
(* is in a task, between tasks, or has left ProcessMessages, for whatever  *)
(* reason.  So stop_, Quit and Restart have no part in this module: they   *)
(* decide when a loop ends, and a Restart has to come before a second      *)
(* Start if that is to be of any use.                                      *)
(***************************************************************************)
EXTENDS Integers

CONSTANTS
  Objects,     \* Thread objects
  Main,        \* the pthread of main()
  Workers,     \* pthread_t values; one is used again once it was joined
  Owner,       \* who calls an object's Start, Stop and Delete: the main
               \* thread, or tasks that another object runs
  MaxStarts,   \* bound: Start calls per object
  Junk,        \* what thread_ holds when nothing was stored there
  None

Pthreads == Workers \cup {Main}

ASSUME LifecycleAssumption ==
  /\ Main \notin Workers
  /\ Owner \in [Objects -> Objects \cup {Main}] /\ Main \notin Objects
  /\ \A o \in Objects : Owner[o] # o
  /\ None \notin Objects \cup Workers /\ Junk \notin Workers \cup {None}
  /\ MaxStarts \in Nat

VARIABLES
  thread_,        \* of each object; None is 0
  registration,   \* task_queue_registration_: the setter's previous_, if any
  freed,          \* the object was destroyed
  starts,
  pc,             \* of each worker
  serves,         \* the object a worker was started for
  tls,            \* Current() on each pthread
  op              \* where each pthread is in Stop, Join or Delete

objectVars == <<thread_, registration, freed, starts>>
vars == <<objectVars, pc, serves, tls, op>>

Idle == [step |-> "idle"]
NoSetter == [set |-> FALSE]
Setters == {NoSetter} \cup [set : {TRUE}, previous : Objects \cup {None}]

TypeOK ==
  /\ thread_ \in [Objects -> Workers \cup {None, Junk}]
  /\ registration \in [Objects -> Setters]
  /\ freed \in [Objects -> BOOLEAN]
  /\ starts \in [Objects -> 0..MaxStarts]
  /\ pc \in [Workers -> {"none", "prerun", "loop", "task", "done"}]
  /\ serves \in [Workers -> Objects \cup {None}]
  /\ tls \in [Pthreads -> Objects \cup {None}]
  /\ op \in [Pthreads -> {Idle} \cup [step : {"join", "destroy"}, delete : BOOLEAN, on : Objects]]

(* No constructor initialises thread_. *)
Init ==
  /\ thread_ \in [Objects -> {None, Junk}]
  /\ registration = [o \in Objects |-> NoSetter]
  /\ freed = [o \in Objects |-> FALSE]
  /\ starts = [o \in Objects |-> 0]
  /\ pc = [w \in Workers |-> "none"]
  /\ serves = [w \in Workers |-> None]
  /\ tls = [p \in Pthreads |-> None]
  /\ op = [p \in Pthreads |-> Idle]

-----------------------------------------------------------------------------
(* What an owner does with an object.                                      *)

(* p runs code of the owner of o, and is not in a call already. *)
MayCall(p, o) ==
  /\ op[p] = Idle /\ ~freed[o]
  /\ IF p = Main THEN Owner[o] = Main ELSE pc[p] = "task" /\ serves[p] = Owner[o]

(* Mutant: no IsRunning(). *)
Start_Unchecked(p, o) ==
  /\ MayCall(p, o) /\ starts[o] < MaxStarts
  /\ starts' = [starts EXCEPT ![o] = @ + 1]
  /\ \E w \in Workers :
       /\ pc[w] = "none"
       /\ thread_' = [thread_ EXCEPT ![o] = w]
       /\ pc' = [pc EXCEPT ![w] = "prerun"]
       /\ serves' = [serves EXCEPT ![w] = o]
       /\ tls' = [tls EXCEPT ![w] = None]
  /\ UNCHANGED <<registration, freed, op>>

(* A Start that does anything: IsRunning() is thread_ # 0. *)
Start(p, o) ==
  /\ MayCall(p, o) /\ starts[o] < MaxStarts
  /\ thread_[o] = None
  /\ starts' = [starts EXCEPT ![o] = @ + 1]
  /\ \E w \in Workers :
       /\ pc[w] = "none"
       /\ thread_' = [thread_ EXCEPT ![o] = w]
       /\ pc' = [pc EXCEPT ![w] = "prerun"]
       /\ serves' = [serves EXCEPT ![w] = o]
       /\ tls' = [tls EXCEPT ![w] = None]
  /\ UNCHANGED <<registration, freed, op>>

(* pthread_create fails; what it stores in thread_ is undefined then. *)
Start_Fails(p, o) ==
  /\ MayCall(p, o) /\ starts[o] < MaxStarts
  /\ thread_[o] = None
  /\ starts' = [starts EXCEPT ![o] = @ + 1]
  /\ thread_' \in {thread_, [thread_ EXCEPT ![o] = Junk]}
  /\ UNCHANGED <<registration, freed, pc, serves, tls, op>>

(* Stop, or a plain Join; and Delete, which begins with Stop, as the       *)
(* destructor does.                                                        *)
Stop(p, o, delete) ==
  /\ MayCall(p, o)
  /\ op' = [op EXCEPT ![p] = [step |-> "join", delete |-> delete, on |-> o]]
  /\ UNCHANGED <<objectVars, pc, serves, tls>>

(* Mutant: pthread_detach. *)
Join_Detach(p) ==
  /\ op[p].step = "join"
  /\ LET o == op[p].on
     IN  /\ thread_' = [thread_ EXCEPT ![o] = None]
         /\ op' = [op EXCEPT ![p] = IF op[p].delete THEN [@ EXCEPT !.step = "destroy"] ELSE Idle]
  /\ UNCHANGED <<registration, freed, starts, pc, serves, tls>>

(* Join.  pthread_join waits for the worker to leave Run.  Of something    *)
(* that is not a thread it is undefined: it returns an error, or the       *)
(* process ends, which needs no step here.                                 *)
Join(p) ==
  /\ op[p].step = "join"
  /\ LET o == op[p].on
         w == thread_[o]
     IN  /\ w \in Workers => pc[w] = "done"
         /\ pc' = IF w \in Workers THEN [pc EXCEPT ![w] = "none"] ELSE pc
         /\ thread_' = [thread_ EXCEPT ![o] = None]
         /\ op' = [op EXCEPT ![p] = IF op[p].delete THEN [@ EXCEPT !.step = "destroy"] ELSE Idle]
  /\ UNCHANGED <<registration, freed, starts, serves, tls>>

(* Mutant: the destructor puts Current() back to the object it destroys. *)
Destroy_NotPutBack(p) ==
  /\ op[p].step = "destroy"
  /\ LET o == op[p].on
     IN  /\ freed' = [freed EXCEPT ![o] = TRUE]
         /\ tls' = IF registration[o].set THEN [tls EXCEPT ![p] = o] ELSE tls
         /\ registration' = [registration EXCEPT ![o] = NoSetter]
  /\ op' = [op EXCEPT ![p] = Idle]
  /\ UNCHANGED <<thread_, starts, pc, serves>>

(* The rest of ~Thread: DoDestroy, and the members; the setter puts        *)
(* Current() back on the pthread that destroys it.                         *)
Destroy(p) ==
  /\ op[p].step = "destroy"
  /\ LET o == op[p].on
     IN  /\ freed' = [freed EXCEPT ![o] = TRUE]
         /\ tls' = IF registration[o].set
                   THEN [tls EXCEPT ![p] = registration[o].previous] ELSE tls
         /\ registration' = [registration EXCEPT ![o] = NoSetter]
  /\ op' = [op EXCEPT ![p] = Idle]
  /\ UNCHANGED <<thread_, starts, pc, serves>>

-----------------------------------------------------------------------------
(* The worker.                                                             *)

(* Mutant: the setter is a temporary, destroyed before Run. *)
PreRun_Temporary(w) ==
  /\ pc[w] = "prerun"
  /\ pc' = [pc EXCEPT ![w] = "loop"]
  /\ UNCHANGED <<objectVars, serves, tls, op>>

(* Mutant: the setter's previous_ is not initialised. *)
PreRun_NoPrevious(w) ==
  /\ pc[w] = "prerun"
  /\ pc' = [pc EXCEPT ![w] = "loop"]
  /\ LET o == serves[w]
     IN  /\ registration' = [registration EXCEPT ![o] = [set |-> TRUE, previous |-> Junk]]
         /\ tls' = [tls EXCEPT ![w] = o]
  /\ UNCHANGED <<thread_, freed, starts, serves, op>>

(* PreRun: the new setter sets Current(); then the assignment destroys the *)
(* setter of an earlier run, which puts its previous_ back, here.          *)
PreRun(w) ==
  /\ pc[w] = "prerun"
  /\ pc' = [pc EXCEPT ![w] = "loop"]
  /\ LET o == serves[w]
     IN  /\ registration' = [registration EXCEPT ![o] = [set |-> TRUE, previous |-> tls[w]]]
         /\ tls' = [tls EXCEPT ![w] = IF registration[o].set
                                      THEN registration[o].previous ELSE o]
  /\ UNCHANGED <<thread_, freed, starts, serves, op>>

(* Run: Dispatch calls a task, which returns; or the loop ends. *)
Run(w) ==
  /\ \/ pc[w] = "loop" /\ pc' = [pc EXCEPT ![w] = "task"]
     \/ pc[w] = "task" /\ op[w] = Idle /\ pc' = [pc EXCEPT ![w] = "loop"]
     \/ pc[w] = "loop" /\ pc' = [pc EXCEPT ![w] = "done"]
  /\ UNCHANGED <<objectVars, serves, tls, op>>

Next ==
  \/ \E p \in Pthreads, o \in Objects :
       \/ Start(p, o) \/ Start_Fails(p, o)
       \/ \E delete \in BOOLEAN : Stop(p, o, delete)
  \/ \E p \in Pthreads : Join(p) \/ Destroy(p)
  \/ \E w \in Workers : PreRun(w) \/ Run(w)

Spec == Init /\ [][Next]_vars

-----------------------------------------------------------------------------
(* Properties.                                                             *)

Running(w) == pc[w] \notin {"none", "done"}

(* A running worker is the one its object knows of: there are never two of *)
(* an object, however it is started, stopped and started again, and Stop   *)
(* waits for the right one (Start, Join).                                  *)
WorkerKnown == \A w \in Workers : Running(w) => thread_[serves[w]] = w

(* No worker runs the loop of an object that was destroyed (Delete,        *)
(* ~Thread).                                                               *)
NoUseAfterFree == \A w \in Workers : Running(w) => ~freed[serves[w]]

(* Nowhere is an object that was destroyed the current one: a task that    *)
(* posts to Current() finds nothing, or an object that is there (~Thread,  *)
(* CurrentTaskQueueSetter).                                                *)
NoDanglingCurrent ==
  \A p \in Pthreads : tls[p] # None /\ (p \in Workers => Running(p)) => ~freed[tls[p]]

(* In a task, IsCurrent() is true of the Thread that runs it (thread.h: it *)
(* tells whether the object is the thread that is running).                *)
CurrentInTask == \A w \in Workers : pc[w] = "task" => tls[w] = serves[w]

(* The same for what the code gets right: a Thread that was started once,  *)
(* by tasks that delete no other Thread, whatever happens to the objects   *)
(* and pthreads around it.                                                 *)
CurrentInFirstRun ==
  \A w \in Workers :
    (pc[w] = "task" /\ starts[serves[w]] = 1 /\ \A o \in Objects : Owner[o] # serves[w])
      => tls[w] = serves[w]
=============================================================================
