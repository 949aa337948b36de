------------------------- MODULE ThreadLifecycleProofs -------------------------
(***************************************************************************)
(* Theorems about ThreadLifecycle.tla, for any objects, pthreads, owners   *)
(* and numbers of starts, wherever thread_ begins as garbage.              *)
(***************************************************************************)
EXTENDS ThreadLifecycle, TLAPS

(* What an operation in progress is. *)
Busy == [step : {"join", "destroy"}, delete : BOOLEAN, on : Objects]

LEMMA BusyIsNotIdle ==
  ASSUME TypeOK, NEW p \in Pthreads, op[p].step # "idle" \/ op[p] # Idle
  PROVE  op[p] \in Busy /\ op[p].on \in Objects /\ op[p].step \in {"join", "destroy"}
  BY DEF TypeOK, Idle, Busy

LEMMA SetterPrevious ==
  ASSUME NEW s \in Setters, s.set PROVE s.previous \in Objects \cup {None}
<1>1. CASE s = NoSetter
  <2>1. ~NoSetter.set
    BY DEF NoSetter
  <2> QED
    BY <1>1, <2>1
<1>2. CASE s \in [set : {TRUE}, previous : Objects \cup {None}]
  BY <1>2
<1> QED
  BY <1>1, <1>2 DEF Setters

(* A pthread that was created serves an object.  PreRun needs it to keep   *)
(* the type of registration and tls.                                       *)
Serving == \A w \in Workers : pc[w] # "none" => serves[w] \in Objects

LEMMA TypeInvariant == Spec => [](TypeOK /\ Serving)
<1>1. Init => TypeOK /\ Serving
  BY LifecycleAssumption DEF Init, TypeOK, Serving, Setters, NoSetter
<1>2. ASSUME TypeOK, Serving, [Next]_vars PROVE TypeOK' /\ Serving'
  <2> USE <1>2, LifecycleAssumption DEF objectVars, Serving
  <2>1. ASSUME NEW p \in Pthreads, NEW o \in Objects, Start(p, o)
        PROVE  TypeOK' /\ Serving'
    BY <2>1 DEF Start, TypeOK, Pthreads
  <2>2. ASSUME NEW p \in Pthreads, NEW o \in Objects, Start_Fails(p, o)
        PROVE  TypeOK' /\ Serving'
    BY <2>2 DEF Start_Fails, TypeOK
  <2>3. ASSUME NEW p \in Pthreads, NEW o \in Objects, NEW delete \in BOOLEAN,
               Stop(p, o, delete)
        PROVE  TypeOK' /\ Serving'
    BY <2>3 DEF Stop, TypeOK
  <2>4. ASSUME NEW p \in Pthreads, Join(p) PROVE TypeOK' /\ Serving'
    <3>1. op[p] \in Busy /\ op[p].on \in Objects
      BY <2>4, BusyIsNotIdle DEF Join
    <3>2. [op[p] EXCEPT !.step = "destroy"] \in Busy
      BY <3>1 DEF Busy
    <3>3. op' \in [Pthreads -> {Idle} \cup Busy]
      BY <2>4, <3>2 DEF Join, TypeOK, Busy
    <3>4. thread_' \in [Objects -> Workers \cup {None, Junk}]
      BY <2>4, <3>1 DEF Join, TypeOK
    <3>5. pc' \in [Workers -> {"none", "prerun", "loop", "task", "done"}] /\ Serving'
      BY <2>4, <3>1 DEF Join, TypeOK
    <3> QED
      BY <2>4, <3>3, <3>4, <3>5 DEF Join, TypeOK, Busy
  <2>5. ASSUME NEW p \in Pthreads, Destroy(p) PROVE TypeOK' /\ Serving'
    <3>1. op[p].on \in Objects
      BY <2>5, BusyIsNotIdle DEF Destroy
    <3>2. registration[op[p].on].set => registration[op[p].on].previous \in Objects \cup {None}
      BY <3>1, SetterPrevious DEF TypeOK
    <3>3. tls' \in [Pthreads -> Objects \cup {None}]
      BY <2>5, <3>1, <3>2 DEF Destroy, TypeOK
    <3>4. registration' \in [Objects -> Setters]
      BY <2>5, <3>1 DEF Destroy, TypeOK, Setters
    <3> QED
      BY <2>5, <3>1, <3>3, <3>4 DEF Destroy, TypeOK
  <2>6. ASSUME NEW w \in Workers, PreRun(w) PROVE TypeOK' /\ Serving'
    <3>1. serves[w] \in Objects /\ w \in Pthreads
      BY <2>6 DEF PreRun, Pthreads
    <3>2. registration[serves[w]].set
            => registration[serves[w]].previous \in Objects \cup {None}
      BY <3>1, SetterPrevious DEF TypeOK
    <3>3. tls' \in [Pthreads -> Objects \cup {None}]
      BY <2>6, <3>1, <3>2 DEF PreRun, TypeOK
    <3>4. registration' \in [Objects -> Setters]
      BY <2>6, <3>1 DEF PreRun, TypeOK, Setters
    <3>5. pc' \in [Workers -> {"none", "prerun", "loop", "task", "done"}] /\ Serving'
      BY <2>6 DEF PreRun, TypeOK
    <3> QED
      BY <2>6, <3>3, <3>4, <3>5 DEF PreRun, TypeOK
  <2>7. ASSUME NEW w \in Workers, Run(w) PROVE TypeOK' /\ Serving'
    BY <2>7 DEF Run, TypeOK
  <2>8. CASE UNCHANGED vars
    BY <2>8 DEF vars, TypeOK
  <2> QED
    BY <2>1, <2>2, <2>3, <2>4, <2>5, <2>6, <2>7, <2>8 DEF Next
<1> QED
  BY <1>1, <1>2, PTL DEF Spec

(* The state of objects and pthreads keeps its shape: a setter's previous_ *)
(* is an object or none (Start, Join, Delete, PreRun).                     *)
THEOREM LifecycleTypeCorrect == Spec => []TypeOK
  BY TypeInvariant, PTL

-----------------------------------------------------------------------------
(* Objects and their pthreads.                                             *)

(* An object knows the pthread it created until it has joined it.          *)
Known == \A w \in Workers : pc[w] # "none" => thread_[serves[w]] = w

(* Only its owner, still in the task that called, operates on an object.   *)
Owned == \A p \in Pthreads : op[p] # Idle =>
           IF p = Main THEN Owner[op[p].on] = Main
                       ELSE pc[p] = "task" /\ serves[p] = Owner[op[p].on]

(* An object that is being, or was, destroyed has no pthread.              *)
Destroyed == /\ \A p \in Pthreads : op[p].step = "destroy" => thread_[op[p].on] = None
             /\ \A o \in Objects : freed[o] => thread_[o] = None

LifeInv == Known /\ Owned /\ Destroyed

(* While somebody is in an operation on an object nobody else may call     *)
(* one: the owner is one pthread.                                          *)
LEMMA OneOperator ==
  ASSUME TypeOK, Serving, Known, Owned,
         NEW o \in Objects, NEW p \in Pthreads, NEW q \in Pthreads,
         MayCall(p, o), op[q] # Idle, op[q].on = o
  PROVE  FALSE
<1>1. p # q
  BY DEF MayCall
<1>2. CASE Owner[o] = Main
  BY <1>1, <1>2, LifecycleAssumption DEF MayCall, Owned, Serving, Pthreads
<1>3. CASE Owner[o] # Main
  <2>1. p \in Workers /\ pc[p] = "task" /\ serves[p] = Owner[o]
    BY <1>3 DEF MayCall, Pthreads
  <2>2. q \in Workers /\ pc[q] = "task" /\ serves[q] = Owner[o]
    BY <1>3 DEF Owned, Pthreads
  <2> QED
    BY <1>1, <2>1, <2>2 DEF Known
<1> QED
  BY <1>2, <1>3

LEMMA LifeInvariant == Spec => []LifeInv
<1>1. Init => LifeInv
  BY DEF Init, LifeInv, Known, Owned, Destroyed, Idle
<1>2. ASSUME TypeOK, Serving, LifeInv, [Next]_vars PROVE LifeInv'
  <2> USE <1>2, LifecycleAssumption DEF objectVars, LifeInv
  <2>1. ASSUME NEW p \in Pthreads, NEW o \in Objects, Start(p, o) PROVE LifeInv'
    <3>1. PICK w \in Workers : /\ pc[w] = "none"
                               /\ thread_' = [thread_ EXCEPT ![o] = w]
                               /\ pc' = [pc EXCEPT ![w] = "prerun"]
                               /\ serves' = [serves EXCEPT ![w] = o]
      BY <2>1 DEF Start
    <3>2. Known'
      BY <2>1, <3>1 DEF Start, Known, Serving, TypeOK
    <3>3. Owned'
      BY <2>1, <3>1 DEF Start, Owned, TypeOK, Pthreads
    <3>4. ASSUME NEW q \in Pthreads, op[q].step = "destroy" PROVE op[q].on # o
      BY <2>1, <3>4, OneOperator DEF Start, Idle
    <3>5. Destroyed'
      BY <2>1, <3>1, <3>4 DEF Start, MayCall, Destroyed, TypeOK
    <3> QED
      BY <3>2, <3>3, <3>5
  <2>2. ASSUME NEW p \in Pthreads, NEW o \in Objects, Start_Fails(p, o) PROVE LifeInv'
    <3>1. Known' /\ Owned'
      BY <2>2 DEF Start_Fails, Known, Owned, Serving, TypeOK
    <3>2. ASSUME NEW q \in Pthreads, op[q].step = "destroy" PROVE op[q].on # o
      BY <2>2, <3>2, OneOperator DEF Start_Fails, Idle
    <3>3. \A x \in Objects \ {o} : thread_'[x] = thread_[x]
      BY <2>2 DEF Start_Fails, TypeOK
    <3>4. \A q \in Pthreads : op[q].step = "destroy" => op[q].on \in Objects \ {o}
      BY <3>2, BusyIsNotIdle
    <3>5. Destroyed'
      BY <2>2, <3>3, <3>4 DEF Start_Fails, MayCall, Destroyed
    <3> QED
      BY <3>1, <3>5
  <2>3. ASSUME NEW p \in Pthreads, NEW o \in Objects, NEW delete \in BOOLEAN,
               Stop(p, o, delete)
        PROVE  LifeInv'
    <3>1. Owned'
      BY <2>3 DEF Stop, MayCall, Owned, TypeOK, Pthreads
    <3>2. Known' /\ Destroyed'
      BY <2>3 DEF Stop, Known, Destroyed, TypeOK
    <3> QED
      BY <3>1, <3>2
  <2>4. ASSUME NEW p \in Pthreads, Join(p) PROVE LifeInv'
    <3> DEFINE o == op[p].on
    <3>1. op[p] \in Busy /\ o \in Objects
      BY <2>4, BusyIsNotIdle DEF Join
    <3>2. Known'
      BY <2>4, <3>1 DEF Join, Known, Serving, TypeOK
    <3>3. op'[p] # Idle => op'[p].on = o /\ op[p] # Idle
      BY <2>4, <3>1 DEF Join, Busy, Idle, TypeOK
    <3>4. \A q \in Pthreads \ {p} : op'[q] = op[q]
      BY <2>4 DEF Join, TypeOK
    <3>5. \A w \in Workers : pc[w] = "task" => pc'[w] = "task"
      BY <2>4, <3>1 DEF Join, TypeOK
    <3>6. Owned'
      BY <2>4, <3>3, <3>4, <3>5 DEF Join, Owned, Pthreads
    <3>7. Destroyed'
      BY <2>4, <3>1, <3>3, <3>4 DEF Join, Destroyed, Idle, TypeOK
    <3> QED
      BY <3>2, <3>6, <3>7
  <2>5. ASSUME NEW p \in Pthreads, Destroy(p) PROVE LifeInv'
    <3>1. op[p].on \in Objects
      BY <2>5, BusyIsNotIdle DEF Destroy
    <3>2. Known'
      BY <2>5 DEF Destroy, Known
    <3>3. Owned'
      BY <2>5 DEF Destroy, Owned, TypeOK
    <3>4. Destroyed'
      BY <2>5, <3>1 DEF Destroy, Destroyed, Idle, TypeOK
    <3> QED
      BY <3>2, <3>3, <3>4
  <2>6. ASSUME NEW w \in Workers, PreRun(w) PROVE LifeInv'
    BY <2>6 DEF PreRun, Known, Owned, Destroyed, TypeOK, Pthreads
  <2>7. ASSUME NEW w \in Workers, Run(w) PROVE LifeInv'
    BY <2>7 DEF Run, Known, Owned, Destroyed, TypeOK, Pthreads
  <2>8. CASE UNCHANGED vars
    BY <2>8 DEF vars, Known, Owned, Destroyed
  <2> QED
    BY <2>1, <2>2, <2>3, <2>4, <2>5, <2>6, <2>7, <2>8 DEF Next
<1> QED
  BY <1>1, <1>2, TypeInvariant, PTL DEF Spec

(* A running worker is the one its object knows of, so an object never has *)
(* two, however many Starts, Stops and Deletes its owner makes (Start,     *)
(* Join).                                                                  *)
THEOREM WorkersKnown == Spec => []WorkerKnown
<1>1. LifeInv => WorkerKnown
  BY DEF LifeInv, Known, WorkerKnown, Running
<1> QED
  BY <1>1, LifeInvariant, PTL

(* No worker runs the loop of an object that was destroyed (~Thread).      *)
THEOREM NoneUsedAfterFree == Spec => []NoUseAfterFree
<1>1. TypeOK /\ Serving /\ LifeInv => NoUseAfterFree
  BY LifecycleAssumption DEF LifeInv, Known, Destroyed, Serving, NoUseAfterFree, Running
<1> QED
  BY <1>1, TypeInvariant, LifeInvariant, PTL

(* An object that somebody stops, joins or destroys is there to the end of *)
(* that call and in nobody else's; and no pthread, not even one that has   *)
(* left its loop, outlives its object unjoined.                            *)
CallsApart ==
  /\ \A p \in Pthreads : op[p] # Idle => ~freed[op[p].on]
  /\ \A p, q \in Pthreads : (op[p] # Idle /\ op[q] # Idle /\ op[p].on = op[q].on) => p = q
  /\ \A w \in Workers : pc[w] # "none" => ~freed[serves[w]]

(* Nobody waits in Join for an object that another pthread joins or        *)
(* destroys, and none is destroyed twice, though its owner is now the      *)
(* main thread and now a task, which may itself be stopped, joined and     *)
(* destroyed at any time (Stop, Join, Delete, ~Thread).                    *)
THEOREM CallsNeverOverlap == Spec => []CallsApart
<1> DEFINE Present == \A p \in Pthreads : op[p] # Idle => ~freed[op[p].on]
<1>1. ASSUME TypeOK, Serving, LifeInv, NEW p \in Pthreads, NEW q \in Pthreads,
             op[p] # Idle, op[q] # Idle, op[p].on = op[q].on
      PROVE  p = q
  <2>1. op[p].on \in Objects
    BY <1>1, BusyIsNotIdle
  <2>2. CASE Owner[op[p].on] = Main
    BY <1>1, <2>1, <2>2, LifecycleAssumption DEF LifeInv, Owned, Serving, Pthreads
  <2>3. CASE Owner[op[p].on] # Main
    <3>1. /\ p \in Workers /\ pc[p] = "task" /\ serves[p] = Owner[op[p].on]
          /\ q \in Workers /\ pc[q] = "task" /\ serves[q] = Owner[op[p].on]
      BY <1>1, <2>3 DEF LifeInv, Owned, Pthreads
    <3> QED
      BY <1>1, <3>1 DEF LifeInv, Known
  <2> QED
    BY <2>2, <2>3
<1>2. Init => Present
  BY DEF Init, Idle
<1>3. ASSUME TypeOK, Serving, LifeInv, Present, [Next]_vars PROVE Present'
  <2> SUFFICES ASSUME NEW p \in Pthreads, op'[p] # Idle PROVE ~freed'[op'[p].on]
    OBVIOUS
  <2> USE <1>3 DEF objectVars
  <2>1. ASSUME NEW q \in Pthreads, NEW o \in Objects,
               \/ Start(q, o) \/ Start_Fails(q, o)
        PROVE  ~freed'[op'[p].on]
    BY <2>1 DEF Start, Start_Fails
  <2>2. ASSUME NEW q \in Pthreads, NEW o \in Objects, NEW delete \in BOOLEAN, Stop(q, o, delete)
        PROVE  ~freed'[op'[p].on]
    BY <2>2 DEF Stop, MayCall, TypeOK
  <2>3. ASSUME NEW q \in Pthreads, Join(q) PROVE ~freed'[op'[p].on]
    <3>1. op[q] \in Busy
      BY <2>3, BusyIsNotIdle DEF Join
    <3>2. [op[q] EXCEPT !.step = "destroy"].on = op[q].on
      BY <3>1 DEF Busy
    <3>3. op[p] # Idle /\ op'[p].on = op[p].on
      BY <2>3, <3>1, <3>2 DEF Join, TypeOK, Busy, Idle
    <3> QED
      BY <2>3, <3>3 DEF Join
  <2>4. ASSUME NEW q \in Pthreads, Destroy(q) PROVE ~freed'[op'[p].on]
    <3>1. p # q /\ op'[p] = op[p] /\ op[q] # Idle
      BY <2>4 DEF Destroy, TypeOK, Idle
    <3>2. op[p].on \in Objects /\ op[p].on # op[q].on
      BY <3>1, <1>1, BusyIsNotIdle
    <3> QED
      BY <2>4, <3>1, <3>2 DEF Destroy, TypeOK
  <2>5. ASSUME NEW w \in Workers, PreRun(w) \/ Run(w) PROVE ~freed'[op'[p].on]
    BY <2>5 DEF PreRun, Run
  <2>6. CASE UNCHANGED vars
    BY <2>6 DEF vars
  <2> QED
    BY <2>1, <2>2, <2>3, <2>4, <2>5, <2>6 DEF Next
<1>4. TypeOK /\ Serving /\ LifeInv /\ Present => CallsApart
  <2> SUFFICES ASSUME TypeOK, Serving, LifeInv, Present PROVE CallsApart
    OBVIOUS
  <2>1. ASSUME NEW w \in Workers, pc[w] # "none" PROVE ~freed[serves[w]]
    BY <2>1, LifecycleAssumption DEF LifeInv, Known, Destroyed, Serving
  <2> QED
    BY <1>1, <2>1 DEF CallsApart
<1> QED
  BY <1>2, <1>3, <1>4, TypeInvariant, LifeInvariant, PTL DEF Spec

-----------------------------------------------------------------------------
(* Current().                                                              *)

(* A setter was made on a pthread that had no Current(), and a pthread has *)
(* none or the object it serves, main() never one.                         *)
Pristine == /\ \A o \in Objects : registration[o].set => registration[o].previous = None
            /\ tls[Main] = None
            /\ \A w \in Workers : /\ pc[w] = "prerun" => tls[w] = None
                                  /\ Running(w) => tls[w] \in {None, serves[w]}

(* In the first run of an object there is no setter for PreRun to destroy, *)
(* and who deletes nobody keeps the Current() that PreRun gave it.         *)
FirstRun ==
  /\ \A o \in Objects : starts[o] = 0 => ~registration[o].set
  /\ \A w \in Workers : pc[w] # "none" =>
       LET o == serves[w] IN
       /\ starts[o] >= 1
       /\ (pc[w] = "prerun" /\ starts[o] = 1) => ~registration[o].set
       /\ (pc[w] \in {"loop", "task"} /\ starts[o] = 1 /\ \A x \in Objects : Owner[x] # o)
            => tls[w] = o

CurrentInv == Pristine /\ FirstRun

LEMMA NoSetterIsNone == ~NoSetter.set /\ NoSetter \in Setters
  BY DEF NoSetter, Setters

LEMMA CurrentInvariant == Spec => []CurrentInv
<1>1. Init => CurrentInv
  BY NoSetterIsNone DEF Init, CurrentInv, Pristine, FirstRun, Running, Pthreads
<1>2. ASSUME TypeOK, Serving, LifeInv, CurrentInv, [Next]_vars PROVE CurrentInv'
  <2> USE <1>2, LifecycleAssumption DEF objectVars, LifeInv, CurrentInv, Running
  <2>1. ASSUME NEW p \in Pthreads, NEW o \in Objects, Start(p, o) PROVE CurrentInv'
    <3>1. PICK w \in Workers : /\ pc[w] = "none"
                               /\ pc' = [pc EXCEPT ![w] = "prerun"]
                               /\ serves' = [serves EXCEPT ![w] = o]
                               /\ tls' = [tls EXCEPT ![w] = None]
      BY <2>1 DEF Start
    <3>2. Pristine'
      BY <2>1, <3>1 DEF Start, Pristine, TypeOK, Pthreads
    <3>3. \A v \in Workers : pc[v] # "none" => serves[v] # o
      BY <2>1 DEF Start, Known
    <3>4. /\ \A x \in Objects \ {o} : starts'[x] = starts[x]
          /\ starts'[o] = starts[o] + 1 /\ starts[o] \in Nat
      BY <2>1 DEF Start, TypeOK
    <3>5. FirstRun'
      BY <2>1, <3>1, <3>3, <3>4 DEF Start, FirstRun, Serving, TypeOK, Pthreads
    <3> QED
      BY <3>2, <3>5
  <2>2. ASSUME NEW p \in Pthreads, NEW o \in Objects, Start_Fails(p, o) PROVE CurrentInv'
    <3>1. Pristine'
      BY <2>2 DEF Start_Fails, Pristine
    <3>2. \A v \in Workers : pc[v] # "none" => serves[v] # o
      BY <2>2 DEF Start_Fails, Known
    <3>3. /\ \A x \in Objects \ {o} : starts'[x] = starts[x]
          /\ starts'[o] = starts[o] + 1 /\ starts[o] \in Nat
      BY <2>2 DEF Start_Fails, TypeOK
    <3>4. FirstRun'
      BY <2>2, <3>2, <3>3 DEF Start_Fails, FirstRun, Serving
    <3> QED
      BY <3>1, <3>4
  <2>3. ASSUME NEW p \in Pthreads, NEW o \in Objects, NEW delete \in BOOLEAN,
               Stop(p, o, delete)
        PROVE  CurrentInv'
    BY <2>3 DEF Stop, Pristine, FirstRun
  <2>4. ASSUME NEW p \in Pthreads, Join(p) PROVE CurrentInv'
    <3>1. \A w \in Workers : pc'[w] \in {pc[w], "none"}
      BY <2>4 DEF Join, TypeOK
    <3> QED
      BY <2>4, <3>1 DEF Join, Pristine, FirstRun
  <2>5. ASSUME NEW p \in Pthreads, Destroy(p) PROVE CurrentInv'
    <3> DEFINE o == op[p].on
    <3>1. o \in Objects /\ op[p] # Idle
      BY <2>5, BusyIsNotIdle DEF Destroy, Idle
    <3>2. \A x \in Objects : registration'[x] \in {registration[x], NoSetter}
      BY <2>5, <3>1 DEF Destroy, TypeOK
    <3>3. /\ \A q \in Pthreads \ {p} : tls'[q] = tls[q]
          /\ tls'[p] \in {tls[p], None}
      BY <2>5, <3>1 DEF Destroy, Pristine, TypeOK
    <3>4. p \in Workers => pc[p] = "task" /\ serves[p] = Owner[o]
      BY <3>1 DEF Owned
    <3>5. Pristine'
      <4>1. \A x \in Objects : registration'[x].set => registration'[x].previous = None
        BY <3>2, NoSetterIsNone DEF Pristine
      <4>2. tls'[Main] = None
        BY <3>3 DEF Pristine, Pthreads
      <4>3. ASSUME NEW w \in Workers
            PROVE  /\ pc'[w] = "prerun" => tls'[w] = None
                   /\ Running(w)' => tls'[w] \in {None, serves'[w]}
        <5>1. w \in Pthreads /\ tls'[w] \in {tls[w], None} /\ pc' = pc /\ serves' = serves
          BY <2>5, <3>3 DEF Destroy, Pthreads
        <5>2. /\ pc[w] = "prerun" => tls[w] = None
              /\ pc[w] \notin {"none", "done"} => tls[w] \in {None, serves[w]}
          BY DEF Pristine
        <5> QED
          BY <5>1, <5>2
      <4> QED
        BY <4>1, <4>2, <4>3 DEF Pristine
    <3>6. FirstRun'
      <4>1. \A x \in Objects : registration'[x].set => registration[x].set
        BY <3>2, NoSetterIsNone
      <4>2. ASSUME NEW w \in Workers, \A x \in Objects : Owner[x] # serves[w]
            PROVE  tls'[w] = tls[w]
        BY <3>1, <3>3, <3>4, <4>2 DEF Pthreads
      <4> QED
        BY <2>5, <4>1, <4>2 DEF Destroy, FirstRun, Serving
    <3> QED
      BY <3>5, <3>6
  <2>6. ASSUME NEW w \in Workers, PreRun(w) PROVE CurrentInv'
    <3> DEFINE o == serves[w]
    <3>1. o \in Objects /\ w \in Pthreads /\ w # Main /\ tls[w] = None
      <4>1. pc[w] = "prerun"
        BY <2>6 DEF PreRun
      <4>2. tls[w] = None
        BY <4>1 DEF Pristine
      <4> QED
        BY <4>1, <4>2 DEF Serving, Pthreads
    <3>2. /\ \A x \in Objects \ {o} : registration'[x] = registration[x]
          /\ registration'[o] = [set |-> TRUE, previous |-> None]
      BY <2>6, <3>1 DEF PreRun, TypeOK
    <3>3. /\ \A q \in Pthreads \ {w} : tls'[q] = tls[q]
          /\ tls'[w] \in {None, o} /\ (~registration[o].set => tls'[w] = o)
      BY <2>6, <3>1 DEF PreRun, Pristine, TypeOK
    <3>4. /\ \A v \in Workers \ {w} : pc'[v] = pc[v]
          /\ pc[w] = "prerun" /\ pc'[w] = "loop"
      BY <2>6 DEF PreRun, TypeOK
    <3>5. Pristine'
      BY <2>6, <3>1, <3>2, <3>3, <3>4 DEF PreRun, Pristine, Pthreads
    <3>6. \A v \in Workers \ {w} : pc[v] # "none" => serves[v] # o
      BY <3>4 DEF Known
    <3>7. FirstRun'
      BY <2>6, <3>1, <3>2, <3>3, <3>4, <3>6 DEF PreRun, FirstRun, Serving, Pthreads
    <3> QED
      BY <3>5, <3>7
  <2>7. ASSUME NEW w \in Workers, Run(w) PROVE CurrentInv'
    BY <2>7 DEF Run, Pristine, FirstRun, TypeOK
  <2>8. CASE UNCHANGED vars
    BY <2>8 DEF vars, Pristine, FirstRun
  <2> QED
    BY <2>1, <2>2, <2>3, <2>4, <2>5, <2>6, <2>7, <2>8 DEF Next
<1> QED
  BY <1>1, <1>2, TypeInvariant, LifeInvariant, PTL DEF Spec

(* Current() never points at an object that was destroyed, on any pthread, *)
(* whoever destroys whom (CurrentTaskQueueSetter, ~Thread).                *)
THEOREM CurrentNeverDangles == Spec => []NoDanglingCurrent
<1>1. TypeOK /\ Serving /\ LifeInv /\ CurrentInv => NoDanglingCurrent
  <2> SUFFICES ASSUME TypeOK, Serving, LifeInv, CurrentInv,
                      NEW p \in Pthreads, tls[p] # None, p \in Workers => Running(p)
               PROVE  ~freed[tls[p]]
    BY DEF NoDanglingCurrent
  <2>1. p \in Workers
    BY DEF CurrentInv, Pristine, Pthreads
  <2>2. Running(p) /\ pc[p] # "none"
    BY <2>1 DEF Running
  <2>3. tls[p] = serves[p]
    BY <2>1, <2>2 DEF CurrentInv, Pristine
  <2>4. thread_[serves[p]] # None /\ serves[p] \in Objects
    BY <2>1, <2>2, LifecycleAssumption DEF LifeInv, Known, Serving
  <2> QED
    BY <2>3, <2>4 DEF LifeInv, Destroyed
<1> QED
  BY <1>1, TypeInvariant, LifeInvariant, CurrentInvariant, PTL

(* In the first run of a Thread whose tasks delete no other, IsCurrent()   *)
(* is true of it in its tasks (PreRun).                                    *)
THEOREM FirstRunIsCurrent == Spec => []CurrentInFirstRun
<1>1. CurrentInv => CurrentInFirstRun
  BY DEF CurrentInv, FirstRun, CurrentInFirstRun
<1> QED
  BY <1>1, CurrentInvariant, PTL
=============================================================================
