-------------------------- MODULE ServoGateProofs --------------------------
(***************************************************************************)
(* For every set of callers and of positions: where calls come one at a    *)
(* time, a blocking call returns with the holder where it was asked to be. *)
(***************************************************************************)
EXTENDS ServoGate, TLAPS

Quiet == CallIsAlone /\ CallIsServed

(* The invariant holds before the first call. *)
LEMMA ServoInit == Init => ApartInv
BY ServoAssumption DEF Init, ApartInv, TypeOK, CallIsAlone, CallIsServed, LastIsInHand, Requests

(* Each step keeps the types. *)
LEMMA ServoTypeStep == TypeOK /\ [Next]_vars => TypeOK'
<1> SUFFICES ASSUME TypeOK, [Next]_vars PROVE TypeOK'
    OBVIOUS
<1> USE ServoAssumption DEF TypeOK, Requests
<1>1. ASSUME NEW t \in Tasks, NEW r \in Requests, Call(t, r) PROVE TypeOK'
    BY <1>1 DEF Call, servoVars
<1>2. ASSUME NEW t \in Tasks, Post(t) PROVE TypeOK'
    BY <1>2 DEF Post, servoVars
<1>3. ASSUME NEW t \in Tasks, Return(t) PROVE TypeOK'
    BY <1>3 DEF Return, servoVars
<1>4. CASE ReceiveDisable
    BY <1>4 DEF ReceiveDisable
<1>5. CASE ReceiveMove
    BY <1>5 DEF ReceiveMove
<1>6. CASE Arrive
    BY <1>6 DEF Arrive
<1>7. CASE Give
    BY <1>7 DEF Give
<1>8. CASE UNCHANGED vars
    BY <1>8 DEF vars, servoVars
<1> QED
    BY <1>1, <1>2, <1>3, <1>4, <1>5, <1>6, <1>7, <1>8 DEF Next, ServoTask

(* A step of a caller keeps the call alone and its request accounted for. *)
LEMMA CallerStep ==
  ASSUME TypeOK, Quiet, ~overlap, NEW t \in Tasks,
         (\E r \in Requests : Call(t, r)) \/ Post(t) \/ Return(t)
  PROVE  Quiet'
<1> USE ServoAssumption DEF TypeOK, Requests, Quiet
<1>1. ASSUME NEW r \in Requests, Call(t, r) PROVE Quiet'
  <2>1. CallIsAlone'
      BY <1>1 DEF Call, Served, servoVars, CallIsAlone
  <2>2. CallIsServed'
      BY <1>1 DEF Call, Served, servoVars, CallIsServed
  <2> QED BY <2>1, <2>2
<1>2. ASSUME Post(t) PROVE Quiet'
  <2>1. CallIsAlone'
      BY <1>2 DEF Post, servoVars, CallIsAlone
  <2>2. CallIsServed'
    <3> SUFFICES ASSUME NEW u \in Tasks, pc'[u] = "wait"
                 PROVE  /\ want'[u] \in Ratios
                        /\ servo' = "receive" /\ control_queue' = want'[u]
                        /\ ~move_ready_semphore'
        BY DEF CallIsServed
    <3>1. u = t
        BY <1>2 DEF Post, CallIsAlone
    <3>2. t \in Blocking
        BY <1>2, <3>1 DEF Post
    <3>3. want[t] \in Ratios
        BY <1>2, <3>2 DEF Post, CallIsAlone
    <3> QED BY <1>2, <3>1, <3>3 DEF Post, CallIsAlone, servoVars
  <2> QED BY <2>1, <2>2
<1>3. ASSUME Return(t) PROVE Quiet'
    BY <1>3 DEF Return, servoVars, CallIsAlone, CallIsServed
<1> QED BY <1>1, <1>2, <1>3

(* So does a step of the servo task. *)
LEMMA ServoStep == ASSUME TypeOK, Quiet, ServoTask PROVE Quiet'
<1> USE ServoAssumption DEF TypeOK, Requests, Quiet
<1>1. CASE ReceiveDisable
    BY <1>1 DEF ReceiveDisable, CallIsAlone, CallIsServed
<1>2. CASE ReceiveMove
    BY <1>2 DEF ReceiveMove, CallIsAlone, CallIsServed
<1>3. CASE Arrive
    BY <1>3 DEF Arrive, CallIsAlone, CallIsServed
<1>4. CASE Give
    BY <1>4 DEF Give, CallIsAlone, CallIsServed
<1> QED BY <1>1, <1>2, <1>3, <1>4 DEF ServoTask

(* However calls overlap, the request posted last stays in the queue, in   *)
(* the task's hands or carried out.                                        *)
LEMMA LastStep ==
  ASSUME TypeOK, LastIsInHand, [Next]_vars PROVE LastIsInHand'
<1> USE ServoAssumption DEF LastIsInHand, servoVars
<1>1. ASSUME NEW t \in Tasks, NEW r \in Requests, Call(t, r) PROVE LastIsInHand'
    BY <1>1 DEF Call
<1>2. ASSUME NEW t \in Tasks, Post(t) PROVE LastIsInHand'
    BY <1>2 DEF Post
<1>3. ASSUME NEW t \in Tasks, Return(t) PROVE LastIsInHand'
    BY <1>3 DEF Return
<1>4. CASE ReceiveDisable
    BY <1>4 DEF ReceiveDisable, TypeOK
<1>5. CASE ReceiveMove
    BY <1>5 DEF ReceiveMove, TypeOK
<1>6. CASE Arrive
    BY <1>6 DEF Arrive, TypeOK, Requests
<1>7. CASE Give
    BY <1>7 DEF Give
<1>8. CASE UNCHANGED vars
    BY <1>8 DEF vars
<1> QED
    BY <1>1, <1>2, <1>3, <1>4, <1>5, <1>6, <1>7, <1>8 DEF Next, ServoTask

(* The inductive invariant, for every number of callers. *)
THEOREM ServoApartInv == Spec => []ApartInv
<1>1. Init => ApartInv
    BY ServoInit
<1>2. ApartInv /\ [Next]_vars => ApartInv'
  <2> SUFFICES ASSUME ApartInv, [Next]_vars PROVE ApartInv'
      OBVIOUS
  <2>1. TypeOK'
      BY ServoTypeStep DEF ApartInv
  <2>2. LastIsInHand'
      BY LastStep DEF ApartInv
  <2>3. overlap' = overlap
      BY DEF Next, Call, Post, Return, ServoTask, ReceiveDisable, ReceiveMove,
             Arrive, Give, vars
  <2>4. ASSUME ~overlap PROVE Quiet'
    <3>1. TypeOK /\ Quiet
        BY <2>4 DEF ApartInv, Quiet
    <3>2. CASE UNCHANGED vars
        BY <3>1, <3>2 DEF Quiet, CallIsAlone, CallIsServed, vars, servoVars
    <3> QED
        BY <3>1, <3>2, <2>4, CallerStep, ServoStep DEF Next
  <2> QED
      BY <2>1, <2>2, <2>3, <2>4 DEF ApartInv, Quiet
<1> QED
    BY <1>1, <1>2, PTL DEF Spec

(* What anneal_mode_hold relies on: no completion of somebody else's move  *)
(* is ever taken for the caller's own, as long as calls come one at a time. *)
THEOREM ServoInPosition == Spec => InPositionIfCallsApart
<1>1. ApartInv /\ [Next]_vars =>
        [\A t \in Tasks : ~overlap /\ Return(t) => position = want[t]]_vars
    BY ServoAssumption DEF ApartInv, TypeOK, CallIsServed, Return
<1> QED
    BY <1>1, ServoApartInv, PTL DEF Spec, InPositionIfCallsApart

(* Without any condition on how calls overlap: when the task has nothing   *)
(* left to do the holder is where the last request posted asked for, and   *)
(* gate_state says so.                                                     *)
THEOREM ServoLastRequestWins == Spec => []LastRequestWins
<1>1. ApartInv => LastRequestWins
    BY DEF ApartInv, LastIsInHand, LastRequestWins
<1> QED
    BY <1>1, ServoApartInv, PTL
=============================================================================
