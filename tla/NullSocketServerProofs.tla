------------------------ MODULE NullSocketServerProofs ------------------------
(***************************************************************************)
(* NullSocketServer implements the contract of SocketServer, for any       *)
(* timeouts its loop may give and any number of WakeUps.                   *)
(***************************************************************************)
EXTENDS NullSocketServer, TLAPS

(* The state of the contract, as the event's state shows it. *)
Mode(p, d) == CASE p = "out" -> "no"
                [] p = "taken" -> "woken"
                [] OTHER -> IF d = kForever THEN "forever" ELSE "timed"

LEMMA ModeValues ==
  ASSUME NEW p, NEW d
  PROVE  /\ p = "out" <=> Mode(p, d) = "no"
         /\ p = "taken" <=> Mode(p, d) = "woken"
         /\ p \notin {"out", "taken"} => Mode(p, d) \in {"forever", "timed"}
         /\ \A q : p \notin {"out", "taken"} /\ q \notin {"out", "taken"} => Mode(p, d) = Mode(q, d)
  BY DEF Mode

(* The event stays of the kind that resets itself, so Wait takes a WakeUp  *)
(* away.                                                                   *)
NSSInv == /\ ~manual_reset_
          /\ pc \in [Waiters -> Waiting \cup {"out", "taken", "failed"}]
          /\ give_up_after \in [Waiters -> Timeouts \cup {NoTimeout}]

LEMMA LoopMoves ==
  ASSUME NSSInv, NEW from, NEW to, Move(Loop, from, to)
  PROVE  pc[Loop] = from /\ pc'[Loop] = to /\ pc' = [pc EXCEPT ![Loop] = to]
  BY NullAssumption DEF NSSInv, Move

LEMMA NSSInvariant == NSSSpec => []NSSInv
<1>1. NSSInit => NSSInv
  BY DEF NSSInit, Init, NSSInv
<1>2. ASSUME NSSInv, [NSSNext]_vars PROVE NSSInv'
  <2> USE <1>2, NullAssumption DEF NSSInv, waitVars, Waiting
  <2>1. ASSUME NEW d \in Timeouts, NSSWait(d) PROVE NSSInv'
    BY <2>1, LoopMoves DEF NSSWait, Wait
  <2>2. CASE NSSWakeUp
    BY <2>2 DEF NSSWakeUp, Set, Notify
  <2>3. CASE Waiter(Loop) \/ Wait_Back(Loop)
    BY <2>3, LoopMoves
       DEF Waiter, Wait_Take, Wait_Block, Wait_GiveUp, Wait_Returns, Wait_Back
  <2>4. CASE Tick
    BY <2>4 DEF Tick
  <2>5. CASE UNCHANGED vars
    BY <2>5 DEF vars
  <2> QED
    BY <2>1, <2>2, <2>3, <2>4, <2>5 DEF NSSNext
<1> QED
  BY <1>1, <1>2, PTL DEF NSSSpec

-----------------------------------------------------------------------------
(* Every step is one of the contract's, or none: Set is WakeUp, Wait_Take  *)
(* is Consume, and giving up is no step before Wait returns (Wait, WakeUp  *)
(* of NullSocketServer).                                                   *)
THEOREM KeepsContract == NSSSpec => ImplementsSocketServer
<1> DEFINE waiting == Mode(pc[Loop], give_up_after[Loop])
<1>1. NSSInit => Contract!SSInit
  BY NullAssumption, ModeValues DEF NSSInit, Init, Contract!SSInit, Mode
<1>2. ASSUME NSSInv, NSSInv', [NSSNext]_vars PROVE [Contract!SSNext]_Contract!ssVars
  <2> USE <1>2, NullAssumption DEF waitVars
  <2>0. Loop \in Waiters
    OBVIOUS
  <2>1. ASSUME NEW d \in Timeouts, NSSWait(d) PROVE \E mode \in Contract!Blocked : Contract!WaitEnter(mode)
    <3>1. pc[Loop] = "out" /\ pc'[Loop] = "check" /\ UNCHANGED event_status_
      BY <2>1, LoopMoves DEF NSSWait, Wait
    <3>2. waiting = "no" /\ waiting' \in {"forever", "timed"}
      BY <3>1, ModeValues
    <3> QED
      BY <3>1, <3>2 DEF Contract!Blocked, Contract!WaitEnter, Mode
  <2>2. CASE NSSWakeUp
    <3>1. event_status_' = TRUE /\ UNCHANGED give_up_after
      BY <2>2 DEF NSSWakeUp, Set
    <3>2. pc'[Loop] = pc[Loop] \/ (pc[Loop] = "blocked" /\ pc'[Loop] = "notified")
      BY <2>2, <2>0 DEF NSSWakeUp, Set, Notify
    <3>3. waiting' = waiting
      BY <3>1, <3>2 DEF Mode
    <3> QED
      BY <3>1, <3>3 DEF Contract!SSNext, Contract!WakeUp, Mode
  <2>3. CASE Wait_Take(Loop)
    <3>1. /\ pc[Loop] = "check" /\ pc'[Loop] = "taken" /\ UNCHANGED give_up_after
          /\ event_status_ /\ event_status_' = FALSE
      BY <2>3, LoopMoves DEF Wait_Take, NSSInv
    <3>2. waiting \in {"forever", "timed"} /\ waiting' = "woken"
      BY <3>1, ModeValues
    <3> QED
      BY <3>1, <3>2 DEF Contract!SSNext, Contract!Consume, Contract!Blocked, Mode
  <2>4. CASE Wait_Returns(Loop)
    <3>1. pc[Loop] # "out" /\ pc'[Loop] = "out" /\ UNCHANGED event_status_
      BY <2>4, LoopMoves DEF Wait_Returns
    <3>2. waiting # "no" /\ waiting' = "no"
      BY <3>1, ModeValues
    <3> QED
      BY <3>1, <3>2 DEF Contract!SSNext, Contract!WaitReturn, Mode
  <2>5. CASE Wait_Block(Loop) \/ Wait_GiveUp(Loop) \/ Wait_Back(Loop)
    <3>1. /\ pc[Loop] \notin {"out", "taken"} /\ pc'[Loop] \notin {"out", "taken"}
          /\ UNCHANGED <<event_status_, give_up_after>>
      BY <2>5, LoopMoves DEF Wait_Block, Wait_GiveUp, Wait_Back
    <3>2. waiting' = waiting
      BY <3>1 DEF Mode
    <3> QED
      BY <3>1, <3>2 DEF Contract!ssVars, Mode
  <2>6. CASE Tick \/ UNCHANGED vars
    BY <2>6 DEF Tick, vars, Contract!ssVars
  <2> QED
    BY <2>1, <2>2, <2>3, <2>4, <2>5, <2>6 DEF NSSNext, Waiter, Contract!SSNext
<1> QED
  BY <1>1, <1>2, NSSInvariant, PTL DEF NSSSpec, ImplementsSocketServer, Contract!SSSpec
=============================================================================
