---------------------------- MODULE AnnealBatch ----------------------------
(***************************************************************************)
(* What a run of the annealing cycle promises about the machine, whatever  *)
(* the firmware does inside: cases go through the holder one by one; the   *)
(* holder is in place before a case is fed and stays there until the coil  *)
(* is off again; only a case that has been heated is dropped and counted;  *)
(* the next case is fed only while the batch is short of its target.       *)
(***************************************************************************)
EXTENDS Naturals

CONSTANTS Counts, CountWrap

VARIABLES running, holder, coil, feeder, case, cases_completed, target

vars == <<running, holder, coil, feeder, case, cases_completed, target>>

Init ==
  /\ running = FALSE /\ coil = FALSE /\ feeder = FALSE
  /\ holder = "MOVING" /\ case = "none"
  /\ cases_completed = 0 /\ target \in Counts

StartRun ==
  /\ ~running /\ running' = TRUE
  /\ cases_completed' = 0 /\ target' \in Counts
  /\ UNCHANGED <<holder, coil, feeder, case>>

Retarget ==
  /\ target' \in Counts
  /\ UNCHANGED <<running, holder, coil, feeder, case, cases_completed>>

(* The holder moves while it is empty and nothing is fed or heated, *)
MoveToHold ==
  /\ running /\ case = "none" /\ ~coil /\ ~feeder
  /\ holder' \in {"MOVING", "HOLD"}
  /\ UNCHANGED <<running, coil, feeder, case, cases_completed, target>>

(* or to drop a case that was heated. *)
MoveToDrop ==
  /\ running /\ case = "hot" /\ ~coil /\ ~feeder
  /\ \/ holder' = "MOVING" /\ case' = case
     \/ holder' = "DROP" /\ case' = "out"
  /\ UNCHANGED <<running, coil, feeder, cases_completed, target>>

StartFeed ==
  /\ running /\ case = "none" /\ holder = "HOLD" /\ ~coil
  /\ feeder' = TRUE
  /\ UNCHANGED <<running, holder, coil, case, cases_completed, target>>

EndFeed ==
  /\ feeder /\ feeder' = FALSE
  /\ case = "none" /\ case' = "cold"
  /\ UNCHANGED <<running, holder, coil, cases_completed, target>>

CoilOn ==
  /\ running /\ case = "cold" /\ holder = "HOLD" /\ ~feeder
  /\ coil' = TRUE /\ case' = "hot"
  /\ UNCHANGED <<running, holder, feeder, cases_completed, target>>

CoilOff ==
  /\ coil /\ coil' = FALSE
  /\ UNCHANGED <<running, holder, feeder, case, cases_completed, target>>

Count ==
  /\ case = "out" /\ case' = "counted"
  /\ cases_completed' = (cases_completed + 1) % CountWrap
  /\ UNCHANGED <<running, holder, coil, feeder, target>>

NextCase ==
  /\ case = "counted" /\ case' = "none"
  /\ target = 0 \/ cases_completed < target
  /\ UNCHANGED <<running, holder, coil, feeder, cases_completed, target>>

EndRun ==
  /\ running /\ ~coil /\ ~feeder
  /\ running' = FALSE /\ case' = "none"
  /\ UNCHANGED <<holder, coil, feeder, cases_completed, target>>

Next ==
  \/ StartRun \/ Retarget \/ MoveToHold \/ MoveToDrop \/ StartFeed \/ EndFeed
  \/ CoilOn \/ CoilOff \/ Count \/ NextCase \/ EndRun

Spec == Init /\ [][Next]_vars
=============================================================================
