------------------------------ MODULE EventProofs ------------------------------
(***************************************************************************)
(* Theorems about Event.tla, for any waiters, timeouts and numbers of      *)
(* Sets, and for both kinds of event.                                      *)
(***************************************************************************)
EXTENDS Event, TLAPS

(* What moving one waiter does to the others. *)
LEMMA MoveOne ==
  ASSUME TypeOK, NEW t \in Waiters, NEW from, NEW to, Move(t, from, to)
  PROVE  /\ pc[t] = from /\ pc'[t] = to
         /\ \A u \in Waiters \ {t} : pc'[u] = pc[u]
         /\ to \in Waiting \cup {"out", "taken", "failed"}
              => pc' \in [Waiters -> Waiting \cup {"out", "taken", "failed"}]
  BY DEF TypeOK, Move

(* A broadcast leaves nobody blocked and moves nobody else. *)
LEMMA NotifyAllOfThem ==
  ASSUME TypeOK
  PROVE  /\ Notify(Waiters) \in [Waiters -> Waiting \cup {"out", "taken", "failed"}]
         /\ \A t \in Waiters : /\ Notify(Waiters)[t] # "blocked"
                               /\ Notify(Waiters)[t] = "failed" => pc[t] = "failed"
  BY DEF TypeOK, Notify, Waiting

(* The state of an event keeps its shape: only a Wait with a time fails    *)
(* (Wait(int64_t)).                                                        *)
THEOREM EventTypeCorrect == Spec => []TypeOK
<1>1. Init => TypeOK
  BY EventAssumption DEF Init, TypeOK
<1>2. ASSUME TypeOK, [Next]_vars PROVE TypeOK'
  <2> USE <1>2, EventAssumption DEF waitVars
  <2>1. CASE Set
    BY <2>1, NotifyAllOfThem DEF Set, TypeOK
  <2>2. CASE Reset
    BY <2>2 DEF Reset, TypeOK
  <2>3. CASE Tick
    BY <2>3 DEF Tick, TypeOK
  <2>4. ASSUME NEW t \in Waiters, NEW d \in Timeouts \cup {NoTimeout}, Wait(t, d)
        PROVE  TypeOK'
    <3>1. pc' \in [Waiters -> Waiting \cup {"out", "taken", "failed"}]
      BY <2>4, MoveOne DEF Wait, Waiting
    <3>2. \A u \in Waiters \ {t} : pc'[u] = pc[u] /\ give_up_after'[u] = give_up_after[u]
      BY <2>4, MoveOne DEF Wait, TypeOK
    <3>3. pc'[t] = "check"
      BY <2>4, MoveOne DEF Wait
    <3> QED
      BY <2>4, <3>1, <3>2, <3>3 DEF Wait, TypeOK
  <2>5. ASSUME NEW t \in Waiters, Wait_Take(t) PROVE TypeOK'
    BY <2>5, MoveOne DEF Wait_Take, TypeOK
  <2>6. ASSUME NEW t \in Waiters, Wait_Block(t) PROVE TypeOK'
    BY <2>6, MoveOne DEF Wait_Block, TypeOK, Waiting
  <2>7. ASSUME NEW t \in Waiters, Wait_GiveUp(t) PROVE TypeOK'
    <3>1. PICK from : Move(t, from, "failed")
      BY <2>7 DEF Wait_GiveUp
    <3>2. give_up_after[t] \in Timeouts
      BY <2>7 DEF Wait_GiveUp, TypeOK
    <3> QED
      BY <2>7, <3>1, <3>2, MoveOne DEF Wait_GiveUp, TypeOK
  <2>8. ASSUME NEW t \in Waiters, Wait_Returns(t) PROVE TypeOK'
    BY <2>8, MoveOne DEF Wait_Returns, TypeOK
  <2>9. ASSUME NEW t \in Waiters, Wait_Back(t) PROVE TypeOK'
    BY <2>9, MoveOne DEF Wait_Back, TypeOK, Waiting
  <2>10. CASE UNCHANGED vars
    BY <2>10 DEF vars, TypeOK
  <2> QED
    BY <2>1, <2>2, <2>3, <2>4, <2>5, <2>6, <2>7, <2>8, <2>9, <2>10 DEF Next, Waiter
<1> QED
  BY <1>1, <1>2, PTL DEF Spec

(* Nobody stays blocked while the event is set, for any number of waiters  *)
(* (Set, Wait).                                                            *)
THEOREM SetsNotLost == Spec => []NoLostSet
<1>1. Init => NoLostSet
  BY DEF Init, NoLostSet
<1>2. ASSUME TypeOK, NoLostSet, [Next]_vars PROVE NoLostSet'
  <2> USE <1>2 DEF waitVars, NoLostSet
  <2>1. CASE Set
    BY <2>1, NotifyAllOfThem DEF Set
  <2>2. CASE Reset
    BY <2>2 DEF Reset
  <2>3. CASE Tick
    BY <2>3 DEF Tick
  <2>4. ASSUME NEW t \in Waiters, NEW d \in Timeouts \cup {NoTimeout}, Wait(t, d)
        PROVE  NoLostSet'
    BY <2>4, MoveOne DEF Wait
  <2>5. ASSUME NEW t \in Waiters, Wait_Take(t) PROVE NoLostSet'
    BY <2>5, MoveOne DEF Wait_Take
  <2>6. ASSUME NEW t \in Waiters, Wait_Block(t) PROVE NoLostSet'
    BY <2>6 DEF Wait_Block
  <2>7. ASSUME NEW t \in Waiters, Wait_GiveUp(t) PROVE NoLostSet'
    <3>1. PICK from : Move(t, from, "failed")
      BY <2>7 DEF Wait_GiveUp
    <3> QED
      BY <2>7, <3>1, MoveOne DEF Wait_GiveUp
  <2>8. ASSUME NEW t \in Waiters, Wait_Returns(t) PROVE NoLostSet'
    BY <2>8, MoveOne DEF Wait_Returns
  <2>9. ASSUME NEW t \in Waiters, Wait_Back(t) PROVE NoLostSet'
    BY <2>9, MoveOne DEF Wait_Back
  <2>10. CASE UNCHANGED vars
    BY <2>10 DEF vars
  <2> QED
    BY <2>1, <2>2, <2>3, <2>4, <2>5, <2>6, <2>7, <2>8, <2>9, <2>10 DEF Next, Waiter
<1> QED
  BY <1>1, <1>2, EventTypeCorrect, PTL DEF Spec

(* A Set of an event that resets itself releases at most one Wait, however *)
(* many threads wait (Wait).                                               *)
THEOREM OneWaitPerSet == Spec => []OneReleasePerSet
<1>1. Init => OneReleasePerSet
  BY DEF Init, OneReleasePerSet
<1>2. ASSUME TypeOK, OneReleasePerSet, [Next]_vars PROVE OneReleasePerSet'
  <2>1. sets \in Nat /\ releases \in Nat
    BY <1>2, EventAssumption DEF TypeOK
  <2> USE <1>2, <2>1 DEF waitVars, OneReleasePerSet
  <2>2. CASE Set
    BY <2>2 DEF Set
  <2>3. CASE Reset
    BY <2>3 DEF Reset
  <2>4. ASSUME NEW t \in Waiters, Wait_Take(t) PROVE OneReleasePerSet'
    BY <2>4 DEF Wait_Take
  <2>5. ASSUME UNCHANGED <<manual_reset_, event_status_, sets, releases>>
        PROVE  OneReleasePerSet'
    BY <2>5
  <2> QED
    BY <2>2, <2>3, <2>4, <2>5
       DEF Next, Waiter, Tick, Wait, Wait_Block, Wait_GiveUp, Wait_Returns, Wait_Back, vars
<1> QED
  BY <1>1, <1>2, EventTypeCorrect, PTL DEF Spec
=============================================================================
