--------------------------- MODULE ConfigRegister ---------------------------
(***************************************************************************)
(* What the configuration store promises, whatever is interrupted and      *)
(* whatever fails: a slot durably holds nothing, or one whole snapshot of  *)
(* the working copy that some save took, and a load gives that snapshot,   *)
(* cut or filled up with defaults to the fields of the firmware, or the    *)
(* defaults.  Content may be lost, and an older snapshot may come back     *)
(* when a save breaks off, but content is never mixed from two snapshots.  *)
(***************************************************************************)
EXTENDS Naturals, Sequences

CONSTANTS
  Slots,      \* the configurations, each with an address of its own
  Tasks,      \* the tasks that save
  Values,     \* values of a field
  Default,    \* the value of a field in the default configuration
  Sizes       \* numbers of fields a configuration has in some firmware

VARIABLES
  size,       \* fields of a configuration in the firmware that runs
  vouched,    \* vouched[s]: snapshots that a checksum in the slot vouches for
  durable,    \* durable[s]: what a read finds; << >> if nothing
  working,    \* working[s]: the copy in RAM; << >> until it is loaded
  taken       \* taken[t]: slot and snapshot of the save task t is in

vars == <<size, vouched, durable, working, taken>>

Nothing == <<>>

(* A snapshot as a firmware with n fields sees it. *)
Resize(p, n) == [i \in 1..n |-> IF i <= Len(p) THEN p[i] ELSE Default]

Init ==
  /\ size \in Sizes
  /\ \A s \in Slots : durable[s] \in {Nothing} \cup vouched[s]
  /\ working = [s \in Slots |-> Nothing]
  /\ taken = [t \in Tasks |-> Nothing]

Load(s) ==
  /\ working[s] = Nothing
  /\ \E p \in {durable[s], Nothing} : working' = [working EXCEPT ![s] = Resize(p, size)]
  /\ UNCHANGED <<size, vouched, durable, taken>>

Edit(s) ==
  /\ working[s] # Nothing
  /\ \E i \in 1..size, v \in Values : working' = [working EXCEPT ![s][i] = v]
  /\ UNCHANGED <<size, vouched, durable, taken>>

Take(t, s) ==
  /\ working[s] # Nothing
  /\ taken' = [taken EXCEPT ![t] = <<s, working[s]>>]
  /\ UNCHANGED <<size, vouched, durable, working>>

(* Something of slot s is overwritten; only what is in P can newly be       *)
(* vouched for.                                                             *)
Overwrite(s, P) ==
  /\ vouched' = [vouched EXCEPT ![s] = vouched'[s]]
  /\ vouched'[s] \subseteq vouched[s] \cup P
  /\ durable' = [durable EXCEPT ![s] = durable'[s]]
  /\ durable'[s] \in {Nothing} \cup vouched'[s]

Transfer(t) ==
  /\ taken[t] # Nothing
  /\ Overwrite(taken[t][1], {taken[t][2]})
  /\ taken' \in {taken, [taken EXCEPT ![t] = Nothing]}
  /\ UNCHANGED <<size, working>>

Erase(s) ==
  /\ Overwrite(s, {})
  /\ UNCHANGED <<size, working, taken>>

Release(t) ==
  /\ taken' = [taken EXCEPT ![t] = Nothing]
  /\ UNCHANGED <<size, vouched, durable, working>>

(* Power is lost, or the board restarts, perhaps with another firmware; a  *)
(* slot that is being written may lose its content.                        *)
Restart ==
  /\ size' \in Sizes
  /\ working' = [s \in Slots |-> Nothing]
  /\ taken' = [t \in Tasks |-> Nothing]
  /\ \/ UNCHANGED <<vouched, durable>>
     \/ \E s \in Slots : Overwrite(s, {})

Next ==
  \/ \E s \in Slots : Load(s) \/ Edit(s) \/ Erase(s)
  \/ \E t \in Tasks : Transfer(t) \/ Release(t) \/ \E s \in Slots : Take(t, s)
  \/ Restart

Spec == Init /\ [][Next]_vars
=============================================================================
