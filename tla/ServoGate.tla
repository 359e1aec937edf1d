----------------------------- MODULE ServoGate -----------------------------
(***************************************************************************)
(* src/servo_gate.c: the task that moves the case holder, its one-place    *)
(* request queue (xQueueOverwrite) and the binary semaphore by which a     *)
(* caller of servo_gate_set_ratio(ratio, true) learns that a move is over. *)
(*                                                                         *)
(* The holder's position is the duty cycle the task commands: the arm's    *)
(* own lag behind the PWM signal is not modelled.  A ratio is a member of  *)
(* a small set; a ramp is one interval during which the holder is between  *)
(* two positions, its length left open.                                    *)
(***************************************************************************)
EXTENDS Naturals, FiniteSets

CONSTANTS
  Tasks,     \* callers of servo_gate_set_ratio
  Blocking,  \* those that pass block_wait = true
  Ratios,    \* positions asked for; contains HOLD and DROP
  HOLD, DROP,
  DISABLED,  \* HOLDER_RATIO_DISABLED
  NONE       \* empty queue, no position yet, between positions

ASSUME ServoAssumption ==
  /\ Blocking \subseteq Tasks
  /\ {HOLD, DROP} \subseteq Ratios /\ HOLD # DROP
  /\ DISABLED \notin Ratios /\ NONE \notin Ratios /\ DISABLED # NONE

Requests == Ratios \cup {DISABLED}

VARIABLES
  control_queue,        \* the pending request, or NONE
  move_ready_semphore,  \* has it been given?
  servo,                \* "receive", "ramp" or "give": where the task is
  new_ratio,            \* the request the task works on
  prev_open_ratio,      \* the last position reached, NONE before the first
  position,             \* the position commanded, NONE while ramping
  gate_state,           \* HOLD, DROP or DISABLED
  pc,                   \* "idle", "post" or "wait": where each caller is
  want,                 \* the argument of its call
  last,                 \* history: the request posted last
  overlap               \* fixed by Init: do calls come while one is served?

servoVars == <<servo, new_ratio, prev_open_ratio, position, gate_state>>
vars == <<control_queue, move_ready_semphore, servoVars, pc, want, last, overlap>>

Served == servo = "receive" /\ control_queue = NONE /\ \A t \in Tasks : pc[t] = "idle"

-----------------------------------------------------------------------------
(* Seeded fault: a completion left by an earlier call is not dropped. *)
CallKeepsToken(t, r) ==
  /\ pc[t] = "idle"
  /\ overlap \/ Served
  /\ t \in Blocking => r \in {HOLD, DROP}
  /\ pc' = [pc EXCEPT ![t] = "post"]
  /\ want' = [want EXCEPT ![t] = r]
  /\ UNCHANGED <<move_ready_semphore, control_queue, servoVars, last, overlap>>

(* servo_gate_set_ratio(r, block): drop a completion nobody waited for ... *)
Call(t, r) ==
  /\ pc[t] = "idle"
  /\ overlap \/ Served
  /\ t \in Blocking => r \in {HOLD, DROP}
  /\ move_ready_semphore' = FALSE
  /\ pc' = [pc EXCEPT ![t] = "post"]
  /\ want' = [want EXCEPT ![t] = r]
  /\ UNCHANGED <<control_queue, servoVars, last, overlap>>

(* Seeded fault: xQueueSend without waiting in place of xQueueOverwrite. *)
PostWhenEmpty(t) ==
  /\ pc[t] = "post"
  /\ control_queue' = IF control_queue = NONE THEN want[t] ELSE control_queue
  /\ last' = want[t]
  /\ pc' = [pc EXCEPT ![t] = IF t \in Blocking THEN "wait" ELSE "idle"]
  /\ UNCHANGED <<move_ready_semphore, servoVars, want, overlap>>

(* ... overwrite the request ... *)
Post(t) ==
  /\ pc[t] = "post"
  /\ control_queue' = want[t]
  /\ last' = want[t]
  /\ pc' = [pc EXCEPT ![t] = IF t \in Blocking THEN "wait" ELSE "idle"]
  /\ UNCHANGED <<move_ready_semphore, servoVars, want, overlap>>

(* ... and wait for a completion. *)
Return(t) ==
  /\ pc[t] = "wait"
  /\ move_ready_semphore
  /\ move_ready_semphore' = FALSE
  /\ pc' = [pc EXCEPT ![t] = "idle"]
  /\ UNCHANGED <<control_queue, servoVars, want, last, overlap>>

-----------------------------------------------------------------------------
(* Seeded fault: `continue' after a disable, without the completion. *)
ReceiveDisableSilent ==
  /\ servo = "receive" /\ control_queue = DISABLED
  /\ control_queue' = NONE
  /\ gate_state' = DISABLED
  /\ UNCHANGED <<move_ready_semphore, servo, new_ratio, prev_open_ratio, position, pc, want, last, overlap>>

(* servo_gate_control_task *)
ReceiveDisable ==
  /\ servo = "receive" /\ control_queue = DISABLED
  /\ control_queue' = NONE
  /\ gate_state' = DISABLED
  /\ servo' = "give"
  /\ UNCHANGED <<move_ready_semphore, new_ratio, prev_open_ratio, position, pc, want, last, overlap>>

(* Seeded fault: the completion is given when the request is taken. *)
ReceiveMoveGivesEarly ==
  /\ servo = "receive" /\ control_queue \in Ratios
  /\ control_queue' = NONE
  /\ new_ratio' = control_queue
  /\ position' = IF prev_open_ratio \in {NONE, control_queue} THEN control_queue ELSE NONE
  /\ servo' = "ramp"
  /\ move_ready_semphore' = TRUE
  /\ UNCHANGED <<prev_open_ratio, gate_state, pc, want, last, overlap>>

(* The first move and a move to where the holder is need no ramp. *)
ReceiveMove ==
  /\ servo = "receive" /\ control_queue \in Ratios
  /\ control_queue' = NONE
  /\ new_ratio' = control_queue
  /\ position' = IF prev_open_ratio \in {NONE, control_queue} THEN control_queue ELSE NONE
  /\ servo' = "ramp"
  /\ UNCHANGED <<move_ready_semphore, prev_open_ratio, gate_state, pc, want, last, overlap>>

Arrive ==
  /\ servo = "ramp"
  /\ position' = new_ratio
  /\ gate_state' = IF new_ratio \in {HOLD, DROP} THEN new_ratio ELSE gate_state
  /\ prev_open_ratio' = new_ratio
  /\ servo' = "give"
  /\ UNCHANGED <<control_queue, move_ready_semphore, new_ratio, pc, want, last, overlap>>

Give ==
  /\ servo = "give"
  /\ move_ready_semphore' = TRUE
  /\ servo' = "receive"
  /\ UNCHANGED <<control_queue, new_ratio, prev_open_ratio, position, gate_state, pc, want, last, overlap>>

-----------------------------------------------------------------------------
(* servo_gate_init: no move is commanded (line 220). *)
Init ==
  /\ control_queue = NONE /\ move_ready_semphore = FALSE
  /\ servo = "receive" /\ new_ratio = NONE /\ prev_open_ratio = NONE
  /\ position = NONE
  /\ gate_state \in {DROP, DISABLED}
  /\ pc = [t \in Tasks |-> "idle"]
  /\ want = [t \in Tasks |-> NONE]
  /\ last = NONE
  /\ overlap \in BOOLEAN

ServoTask == ReceiveDisable \/ ReceiveMove \/ Arrive \/ Give

Next ==
  \/ \E t \in Tasks : (\E r \in Requests : Call(t, r)) \/ Post(t) \/ Return(t)
  \/ ServoTask

Spec == Init /\ [][Next]_vars

(* Tasks that are ready run: the servo task at priority 8, and a caller   *)
(* that is inside servo_gate_set_ratio.                                   *)
FairSpec ==
  /\ Spec
  /\ WF_vars(ServoTask)
  /\ \A t \in Tasks : WF_vars(Post(t)) /\ WF_vars(Return(t))

-----------------------------------------------------------------------------
TypeOK ==
  /\ control_queue \in Requests \cup {NONE}
  /\ move_ready_semphore \in BOOLEAN
  /\ servo \in {"receive", "ramp", "give"}
  /\ {new_ratio, prev_open_ratio, position} \subseteq Ratios \cup {NONE}
  /\ gate_state \in {HOLD, DROP, DISABLED}
  /\ pc \in [Tasks -> {"idle", "post", "wait"}]
  /\ want \in [Tasks -> Requests \cup {NONE}]
  /\ last \in Requests \cup {NONE}
  /\ overlap \in BOOLEAN

(* What anneal_mode_hold relies on ("block until the move completes",      *)
(* anneal_mode.cpp:184-188): when a blocking call returns and nobody has   *)
(* asked for anything since, the holder is where the caller asked for.     *)
(* Another request that is posted after the caller has dropped an old      *)
(* completion (line 69) and before it overwrites the queue (line 71), or   *)
(* that is still being served at line 69, completes later, and its         *)
(* completion wakes the caller.                                            *)
HolderInPosition ==
  [][\A t \in Tasks : Return(t) /\ last = want[t] => position = want[t]]_vars

(* Where a call only comes when the previous one is served, the holder is  *)
(* where the caller asked for, without further conditions.                 *)
InPositionIfCallsApart ==
  [][\A t \in Tasks : ~overlap /\ Return(t) => position = want[t]]_vars

(* However calls overlap, the request posted last decides: once the task   *)
(* has nothing left to do the holder is there and gate_state says so.      *)
LastRequestWins ==
  servo = "receive" /\ control_queue = NONE /\ last # NONE =>
    /\ last \in Ratios => position = last
    /\ last \in {HOLD, DROP, DISABLED} => gate_state = last

(* A blocking call returns once the other callers are silent: calls that   *)
(* came in between may have replaced its request or taken its completion,  *)
(* but the last of them leaves one behind.                                 *)
BlockingCallReturns ==
  \A t \in Blocking :
    (<>[] \A u \in Tasks \ {t} : pc[u] = "idle") =>
      (pc[t] = "wait" ~> pc[t] = "idle")

-----------------------------------------------------------------------------
(* The inductive invariant behind InPositionIfCallsApart: a call is alone, *)
(* and its request is in the queue, in the task's hands, or carried out.   *)
CallIsAlone ==
  /\ \A t, u \in Tasks : pc[t] # "idle" /\ pc[u] # "idle" => t = u
  /\ \A t \in Tasks : pc[t] = "post" =>
       /\ servo = "receive" /\ control_queue = NONE /\ ~move_ready_semphore
       /\ t \in Blocking => want[t] \in Ratios

CallIsServed ==
  \A t \in Tasks : pc[t] = "wait" =>
    /\ want[t] \in Ratios
    /\ \/ servo = "receive" /\ control_queue = want[t] /\ ~move_ready_semphore
       \/ servo = "ramp" /\ control_queue = NONE /\ new_ratio = want[t] /\ ~move_ready_semphore
       \/ servo = "give" /\ control_queue = NONE /\ position = want[t] /\ ~move_ready_semphore
       \/ servo = "receive" /\ control_queue = NONE /\ position = want[t]

(* ... and that behind LastRequestWins, however calls overlap: a request    *)
(* that waits is the last one; without one the task is carrying the last    *)
(* one out or has done so.                                                  *)
LastIsInHand ==
  /\ control_queue # NONE => control_queue = last
  /\ control_queue = NONE /\ last # NONE =>
       IF servo = "ramp" THEN new_ratio = last
       ELSE /\ last \in Ratios => position = last
            /\ last \in {HOLD, DROP, DISABLED} => gate_state = last

ApartInv == TypeOK /\ LastIsInHand /\ (~overlap => CallIsAlone /\ CallIsServed)
=============================================================================
