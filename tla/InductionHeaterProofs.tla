----------------------- MODULE InductionHeaterProofs -----------------------
(***************************************************************************)
(* Proofs about InductionHeater: typing for every environment, and the cap *)
(* on the coil for calls that do not overlap.                              *)
(***************************************************************************)
EXTENDS InductionHeater, TLAPS

Statements == {"idle"} \cup EnableSteps \cup DisableSteps \cup PinSteps

(* A statement changes one program counter, and to a statement. *)
LEMMA GotoIsTyped ==
  ASSUME pc \in [Tasks -> Statements], NEW t \in Tasks, NEW a, NEW b \in Statements,
         At(t, a, b)
  PROVE  /\ pc' \in [Tasks -> Statements]
         /\ pc[t] = a /\ pc'[t] = b
         /\ \A u \in Tasks : u # t => pc'[u] = pc[u]
  BY DEF At

(* Driving the trigger pin writes a level to its latch. *)
LEMMA SetGpioIsTyped ==
  ASSUME TypeOK, NEW on \in BOOLEAN, _induction_heater_set_gpio(on)
  PROVE  /\ latch' \in [Pins -> Levels] /\ driven' \in Levels
         /\ latch'[gpio_pin] = IF on THEN active ELSE Opposite(active)
         /\ \A p \in Pins : p # gpio_pin => latch'[p] = latch[p]
  BY DEF TypeOK, _induction_heater_set_gpio, Levels, Opposite

LEMMA InitIsTyped == Init => TypeOK
<1> SUFFICES ASSUME Init PROVE TypeOK OBVIOUS
<1>1. Opposite(active) \in Levels BY DEF Init, Levels, Opposite
<1>2. active \in Levels /\ max_dwell_ms \in Dwells /\ gpio_pin \in Pins BY DEF Init
<1>3. outputs \in SUBSET Pins /\ latch \in [Pins -> Levels] BY <1>1, <1>2 DEF Init
<1>4. pc \in [Tasks -> {"idle"} \cup EnableSteps \cup DisableSteps \cup PinSteps]
  BY DEF Init
<1>5. /\ newPin \in [Tasks -> Pins \cup {NoPin}]
      /\ stall \in [Tasks -> 0..MaxStall]
  BY <1>2, HeaterAssumption DEF Init
<1>6. QED BY <1>2, <1>3, <1>4, <1>5, HeaterAssumption DEF Init, TypeOK

LEMMA EnableIsTyped ==
  ASSUME TypeOK, NEW t \in Tasks,
         CallEnable(t) \/ EnableFault(t) \/ EnablePeriod(t) \/ EnableReset(t)
           \/ EnableGpio(t) \/ EnableActive(t)
  PROVE  TypeOK'
<1> USE HeaterAssumption DEF TypeOK, At, vars, config, flags, pinVars, timer, EnableSteps
<1>1. CASE CallEnable(t)   BY <1>1 DEF CallEnable
<1>2. CASE EnableFault(t)  BY <1>2 DEF EnableFault
<1>3. CASE EnablePeriod(t) BY <1>3 DEF EnablePeriod
<1>4. CASE EnableReset(t)  BY <1>4 DEF EnableReset
<1>5. CASE EnableGpio(t)
  <2>1. latch' \in [Pins -> Levels] /\ driven' \in Levels BY <1>5, SetGpioIsTyped DEF EnableGpio
  <2>2. QED BY <1>5, <2>1 DEF EnableGpio
<1>6. CASE EnableActive(t) BY <1>6 DEF EnableActive
<1>7. QED BY <1>1, <1>2, <1>3, <1>4, <1>5, <1>6

LEMMA DisableIsTyped ==
  ASSUME TypeOK, NEW t \in Tasks,
         CallDisable(t) \/ DisableStop(t) \/ DisableGpio(t) \/ DisableActive(t)
           \/ \E p \in Pins : CallApplyPin(p)
  PROVE  TypeOK'
<1> USE HeaterAssumption DEF TypeOK, At, Age, vars, config, flags, pinVars, timer, DisableSteps
<1>1. CASE CallDisable(t) BY <1>1 DEF CallDisable
<1>2. CASE DisableStop(t) BY <1>2 DEF DisableStop
<1>3. CASE DisableGpio(t)
  <2>1. latch' \in [Pins -> Levels] /\ driven' \in Levels BY <1>3, SetGpioIsTyped DEF DisableGpio
  <2>2. QED BY <1>3, <2>1 DEF DisableGpio
<1>4. CASE DisableActive(t) BY <1>4 DEF DisableActive, PinSteps
<1>5. ASSUME NEW p \in Pins, CallApplyPin(p) PROVE TypeOK'
  BY <1>5 DEF CallApplyPin
<1>6. QED BY <1>1, <1>2, <1>3, <1>4, <1>5

LEMMA PinSwitchIsTyped ==
  ASSUME TypeOK, NEW t \in Tasks, newPin[t] \in Pins \/ pc[t] \notin PinSteps,
         PinRelease(t) \/ PinNumber(t) \/ PinInit(t) \/ PinOut(t) \/ PinOff(t)
  PROVE  TypeOK'
<1> USE HeaterAssumption DEF TypeOK, At, Age, vars, config, flags, pinVars, timer, PinSteps
<1>1. CASE PinRelease(t) BY <1>1 DEF PinRelease
<1>2. CASE PinNumber(t)  BY <1>2 DEF PinNumber
<1>3. CASE PinInit(t)    BY <1>3 DEF PinInit, Levels
<1>4. CASE PinOut(t)     BY <1>4 DEF PinOut
<1>5. CASE PinOff(t)
  <2>1. latch' \in [Pins -> Levels] /\ driven' \in Levels BY <1>5, SetGpioIsTyped DEF PinOff
  <2>2. QED BY <1>5, <2>1 DEF PinOff
<1>6. QED BY <1>1, <1>2, <1>3, <1>4, <1>5

LEMMA DaemonIsTyped ==
  ASSUME TypeOK, Callback \/ Tick \/ SetActiveHigh \/ \E d \in Dwells : SetMaxDwell(d)
  PROVE  TypeOK'
<1> USE HeaterAssumption DEF TypeOK, Age, vars, config, flags, pinVars, timer
<1>1. CASE Expire       BY <1>1 DEF Expire
<1>2. CASE TimeoutGpio
  <2>1. latch' \in [Pins -> Levels] /\ driven' \in Levels BY <1>2, SetGpioIsTyped DEF TimeoutGpio
  <2>2. QED BY <1>2, <2>1 DEF TimeoutGpio
<1>3. CASE TimeoutActive BY <1>3 DEF TimeoutActive
<1>4. CASE TimeoutFault BY <1>4 DEF TimeoutFault
<1>5. CASE Tick
  <2>1. left' \in Nat BY <1>5 DEF Tick
  <2>2. stall' \in [Tasks -> 0..MaxStall] BY <1>5 DEF Tick
  <2>3. heated' \in Nat BY <1>5 DEF Tick
  <2>4. QED BY <1>5, <2>1, <2>2, <2>3 DEF Tick
<1>6. CASE SetActiveHigh BY <1>6 DEF SetActiveHigh, Levels, Opposite
<1>7. ASSUME NEW d \in Dwells, SetMaxDwell(d) PROVE TypeOK'
  BY <1>7 DEF SetMaxDwell
<1>8. QED BY <1>1, <1>2, <1>3, <1>4, <1>5, <1>6, <1>7 DEF Callback

(* The statements of a pin switch run with the pin they switch to. *)
SwitchHasPin == \A t \in Tasks : pc[t] \in PinSteps => newPin[t] \in Pins

LEMMA SwitchHasPinStep ==
  ASSUME TypeOK, SwitchHasPin, [Next]_vars
  PROVE  SwitchHasPin'
<1> USE HeaterAssumption DEF TypeOK, SwitchHasPin, At, vars, config, flags, pinVars,
        timer, EnableSteps, DisableSteps, PinSteps
<1>1. ASSUME NEW t \in Tasks, CallEnable(t) \/ EnableFault(t) \/ EnablePeriod(t)
             \/ EnableReset(t) \/ EnableGpio(t) \/ EnableActive(t)
      PROVE  SwitchHasPin'
  BY <1>1 DEF CallEnable, EnableFault, EnablePeriod, EnableReset, EnableGpio, EnableActive
<1>2. ASSUME NEW t \in Tasks, CallDisable(t) \/ DisableStop(t) \/ DisableGpio(t) \/ DisableActive(t)
      PROVE  SwitchHasPin'
  BY <1>2 DEF CallDisable, DisableStop, DisableGpio, DisableActive
<1>3. ASSUME NEW t \in Tasks, PinRelease(t) \/ PinNumber(t) \/ PinInit(t) \/ PinOut(t) \/ PinOff(t)
      PROVE  SwitchHasPin'
  BY <1>3 DEF PinRelease, PinNumber, PinInit, PinOut, PinOff
<1>4. ASSUME RestConfig PROVE SwitchHasPin'
  BY <1>4 DEF RestConfig, SetActiveHigh, SetMaxDwell, CallApplyPin
<1>5. ASSUME Callback \/ Tick PROVE SwitchHasPin'
  BY <1>5 DEF Callback, Expire, TimeoutGpio, TimeoutActive, TimeoutFault, Tick
<1>6. CASE UNCHANGED vars BY <1>6
<1>7. QED BY <1>1, <1>2, <1>3, <1>4, <1>5, <1>6 DEF Next, TaskStep

LEMMA StepIsTyped ==
  ASSUME TypeOK, SwitchHasPin, [Next]_vars
  PROVE  TypeOK'
<1>1. ASSUME NEW t \in Tasks, CallEnable(t) \/ CallDisable(t) \/ TaskStep(t)
      PROVE  TypeOK'
  BY <1>1, EnableIsTyped, DisableIsTyped, PinSwitchIsTyped DEF TaskStep, SwitchHasPin
<1>2. ASSUME RestConfig PROVE TypeOK'
  BY <1>2, DaemonIsTyped, DisableIsTyped, HeaterAssumption DEF RestConfig
<1>3. ASSUME Callback \/ Tick PROVE TypeOK'
  BY <1>3, DaemonIsTyped
<1>4. CASE UNCHANGED vars
  BY <1>4 DEF TypeOK, vars, config, flags, pinVars, timer
<1>5. QED BY <1>1, <1>2, <1>3, <1>4 DEF Next

(* Type correctness of the heater module's state, with tasks overlapping   *)
(* and every REST parameter in use.                                        *)
THEOREM HeaterTypeOK == Spec => []TypeOK
<1>1. Init => TypeOK /\ SwitchHasPin
  BY InitIsTyped DEF Init, SwitchHasPin, PinSteps
<1>2. TypeOK /\ SwitchHasPin /\ [Next]_vars => (TypeOK /\ SwitchHasPin)'
  BY StepIsTyped, SwitchHasPinStep
<1>3. QED BY <1>1, <1>2, PTL DEF Spec
-----------------------------------------------------------------------------
(* The environment of the cap: calls do not overlap. *)
Serial == ~Overlap

(* While one task is inside the module all others are outside. *)
LEMMA OnlyOneInside ==
  ASSUME TypeOK, OneCall, NEW t \in Tasks, NEW a, NEW b \in Statements,
         At(t, a, b), a # "idle" \/ Idle
  PROVE  /\ pc[t] = a /\ pc'[t] = b
         /\ OneCall'
         /\ \A u \in Tasks : u # t => pc'[u] = "idle"
         /\ b # "idle" => ~Idle'
<1>1. /\ pc[t] = a /\ pc'[t] = b
      /\ \A u \in Tasks : u # t => pc'[u] = pc[u]
  BY GotoIsTyped DEF TypeOK, Statements
<1>2. \A u \in Tasks : u # t => pc[u] = "idle"
  BY <1>1 DEF OneCall, Idle
<1>3. QED BY <1>1, <1>2 DEF OneCall, Idle

LEMMA DrivenInactive ==
  ASSUME TypeOK, outputs \subseteq {gpio_pin}, _induction_heater_set_gpio(FALSE),
         UNCHANGED <<outputs, active, wiring>>
  PROVE  ~Hot'
<1>1. latch'[gpio_pin] = Opposite(active) /\ driven' = active
  BY SetGpioIsTyped DEF _induction_heater_set_gpio
<1>2. Opposite(active) # active BY DEF TypeOK, Levels, Opposite
<1>3. QED BY <1>1, <1>2 DEF Coil, Hot, DrivenRightly

LEMMA CountersAreNat ==
  ASSUME TypeOK, NEW t \in Tasks
  PROVE  /\ stall[t] \in Nat /\ stall[t] <= MaxStall
         /\ period \in Nat /\ MaxStall < period
         /\ heated \in Nat /\ left \in Nat /\ cap \in Nat /\ max_dwell_ms \in Nat
<1>1. period \in Dwells /\ stall[t] \in 0..MaxStall BY DEF TypeOK
<1>2. MaxStall \in Nat /\ Dwells \subseteq Nat /\ \A d \in Dwells : MaxStall < d
  BY HeaterAssumption
<1>3. stall[t] \in Nat /\ stall[t] <= MaxStall BY <1>1, <1>2
<1>4. period \in Nat /\ MaxStall < period BY <1>1, <1>2
<1>5. heated \in Nat /\ left \in Nat /\ cap \in Nat /\ max_dwell_ms \in Nat
  BY <1>2 DEF TypeOK
<1>6. QED BY <1>3, <1>4, <1>5

(* The parts of HeaterInv that say something about the coil's age. *)
Aging == ColdHasNoAge /\ GuardedBetweenCalls /\ \A t \in Tasks : DuringCall(t)

LEMMA NoOneElseIsCalling ==
  ASSUME NEW t \in Tasks, \A u \in Tasks : u # t => pc'[u] = "idle", DuringCall(t)'
  PROVE  \A u \in Tasks : DuringCall(u)'
  BY DEF DuringCall, PinSteps

LEMMA EnableKeepsAging ==
  ASSUME HeaterInv, Serial, NEW t \in Tasks,
         CallEnable(t) \/ EnableFault(t) \/ EnablePeriod(t) \/ EnableReset(t)
           \/ EnableGpio(t) \/ EnableActive(t)
  PROVE  OneCall' /\ OnlyTheTriggerPin' /\ Aging'
<1> USE HeaterAssumption DEF HeaterInv, Serial, vars, config, flags, pinVars, timer
<1>1. CASE CallEnable(t)
  <2>1. At(t, "idle", "en_fault") /\ Idle BY <1>1 DEF CallEnable, MayEnter
  <2>2. pc'[t] = "en_fault" /\ OneCall' /\ ~Idle' /\ \A u \in Tasks : u # t => pc'[u] = "idle"
    BY <2>1, OnlyOneInside DEF Statements, EnableSteps
  <2>3. (Coil' <=> Coil) /\ (Hot' <=> Hot) /\ UNCHANGED <<outputs, gpio_pin, newPin, heated, cap>> /\ stall'[t] = 0
    BY <1>1 DEF CallEnable, Coil, Hot, DrivenRightly, TypeOK
  <2>4. Hot => heated <= cap
    BY <2>1, CountersAreNat DEF GuardedBetweenCalls, Guarded
  <2>5. DuringCall(t)' BY <2>2, <2>3, <2>4, CountersAreNat DEF DuringCall
  <2>6. OnlyTheTriggerPin' BY <2>2, <2>3 DEF OnlyTheTriggerPin, PinSteps
  <2>7. QED BY <2>2, <2>3, <2>5, <2>6, NoOneElseIsCalling
        DEF Aging, ColdHasNoAge, GuardedBetweenCalls
<1>2. CASE EnableFault(t)
  <2>1. At(t, "en_fault", "en_period") BY <1>2 DEF EnableFault
  <2>2. /\ pc[t] = "en_fault" /\ pc'[t] = "en_period" /\ OneCall' /\ ~Idle'
        /\ \A u \in Tasks : u # t => pc'[u] = "idle"
    BY <2>1, OnlyOneInside DEF Statements, EnableSteps
  <2>3. (Coil' <=> Coil) /\ (Hot' <=> Hot) /\ UNCHANGED <<outputs, gpio_pin, newPin, heated, cap, stall>>
    BY <1>2 DEF EnableFault, Coil, Hot, DrivenRightly
  <2>4. DuringCall(t)' BY <2>2, <2>3 DEF DuringCall
  <2>5. OnlyTheTriggerPin' BY <2>2, <2>3 DEF OnlyTheTriggerPin, PinSteps
  <2>6. QED BY <2>2, <2>3, <2>4, <2>5, NoOneElseIsCalling
        DEF Aging, ColdHasNoAge, GuardedBetweenCalls
<1>3. CASE EnablePeriod(t)
  <2>1. At(t, "en_period", "en_reset") BY <1>3 DEF EnablePeriod
  <2>2. /\ pc[t] = "en_period" /\ pc'[t] = "en_reset" /\ OneCall' /\ ~Idle'
        /\ \A u \in Tasks : u # t => pc'[u] = "idle"
    BY <2>1, OnlyOneInside DEF Statements, EnableSteps
  <2>3. (Coil' <=> Coil) /\ (Hot' <=> Hot) /\ UNCHANGED <<outputs, gpio_pin, newPin, heated, cap, stall>>
    BY <1>3 DEF EnablePeriod, Coil, Hot, DrivenRightly
  <2>4. armed' /\ left' = max_dwell_ms /\ period' = max_dwell_ms
    BY <1>3 DEF EnablePeriod, TypeOK
  <2>5. stall[t] \in Nat /\ max_dwell_ms \in Nat BY CountersAreNat
  <2>6. DuringCall(t)' BY <2>2, <2>3, <2>4, <2>5 DEF DuringCall
  <2>7. OnlyTheTriggerPin' BY <2>2, <2>3 DEF OnlyTheTriggerPin, PinSteps
  <2>8. QED BY <2>2, <2>3, <2>6, <2>7, NoOneElseIsCalling
        DEF Aging, ColdHasNoAge, GuardedBetweenCalls
<1>4. CASE EnableReset(t)
  <2>1. At(t, "en_reset", "en_gpio") BY <1>4 DEF EnableReset
  <2>2. /\ pc[t] = "en_reset" /\ pc'[t] = "en_gpio" /\ OneCall' /\ ~Idle'
        /\ \A u \in Tasks : u # t => pc'[u] = "idle"
    BY <2>1, OnlyOneInside DEF Statements, EnableSteps
  <2>3. (Coil' <=> Coil) /\ (Hot' <=> Hot) /\ UNCHANGED <<outputs, gpio_pin, newPin, heated, cap, stall>>
    BY <1>4 DEF EnableReset, Coil, Hot, DrivenRightly
  <2>4. armed' /\ left' = period /\ period' = period
    BY <1>4 DEF EnableReset
  <2>5. stall[t] \in Nat /\ period \in Nat BY CountersAreNat
  <2>6. DuringCall(t)' BY <2>2, <2>3, <2>4, <2>5 DEF DuringCall
  <2>7. OnlyTheTriggerPin' BY <2>2, <2>3 DEF OnlyTheTriggerPin, PinSteps
  <2>8. QED BY <2>2, <2>3, <2>6, <2>7, NoOneElseIsCalling
        DEF Aging, ColdHasNoAge, GuardedBetweenCalls
<1>5. CASE EnableGpio(t)
  <2>1. At(t, "en_gpio", "en_active") BY <1>5 DEF EnableGpio
  <2>2. /\ pc[t] = "en_gpio" /\ pc'[t] = "en_active" /\ OneCall' /\ ~Idle'
        /\ \A u \in Tasks : u # t => pc'[u] = "idle"
    BY <2>1, OnlyOneInside DEF Statements, EnableSteps
  <2>3. /\ UNCHANGED <<outputs, gpio_pin, newPin, timer, daemon>>
        /\ heated' = 0 /\ cap' = period
    BY <1>5 DEF EnableGpio
  <2>4. armed /\ left <= period BY <2>2 DEF DuringCall
  <2>5. left \in Nat /\ period \in Nat BY CountersAreNat
  <2>6. DuringCall(t)' BY <2>2, <2>3, <2>4, <2>5 DEF DuringCall, Guarded
  <2>7. OnlyTheTriggerPin' BY <2>2, <2>3 DEF OnlyTheTriggerPin, PinSteps
  <2>8. QED BY <2>2, <2>3, <2>6, <2>7, NoOneElseIsCalling
        DEF Aging, ColdHasNoAge, GuardedBetweenCalls
<1>6. CASE EnableActive(t)
  <2>1. At(t, "en_active", "idle") BY <1>6 DEF EnableActive
  <2>2. /\ pc[t] = "en_active" /\ pc'[t] = "idle" /\ OneCall'
        /\ \A u \in Tasks : u # t => pc'[u] = "idle"
    BY <2>1, OnlyOneInside DEF Statements
  <2>3. /\ (Coil' <=> Coil) /\ (Hot' <=> Hot)
        /\ UNCHANGED <<outputs, gpio_pin, newPin, heated, cap, timer, daemon>>
    BY <1>6 DEF EnableActive, Coil, Hot, DrivenRightly
  <2>4. Hot' => Guarded' BY <2>2, <2>3 DEF DuringCall, Guarded
  <2>5. DuringCall(t)' BY <2>2 DEF DuringCall
  <2>6. OnlyTheTriggerPin' BY <2>2, <2>3 DEF OnlyTheTriggerPin, PinSteps
  <2>7. QED BY <2>2, <2>3, <2>4, <2>5, <2>6, NoOneElseIsCalling
        DEF Aging, ColdHasNoAge, GuardedBetweenCalls
<1>7. QED BY <1>1, <1>2, <1>3, <1>4, <1>5, <1>6

LEMMA DisableKeepsAging ==
  ASSUME HeaterInv, Serial, NEW t \in Tasks,
         CallDisable(t) \/ DisableStop(t) \/ DisableGpio(t) \/ DisableActive(t)
  PROVE  OneCall' /\ OnlyTheTriggerPin' /\ Aging'
<1> USE HeaterAssumption DEF HeaterInv, Serial, vars, config, flags, pinVars, timer
<1>1. CASE CallDisable(t)
  <2>1. At(t, "idle", "dis_stop") /\ Idle BY <1>1 DEF CallDisable, MayEnter
  <2>2. pc'[t] = "dis_stop" /\ OneCall' /\ ~Idle' /\ \A u \in Tasks : u # t => pc'[u] = "idle"
    BY <2>1, OnlyOneInside DEF Statements, DisableSteps
  <2>3. (Coil' <=> Coil) /\ (Hot' <=> Hot) /\ UNCHANGED <<outputs, gpio_pin, heated, cap>> /\ stall'[t] = 0
    BY <1>1 DEF CallDisable, Coil, Hot, DrivenRightly, TypeOK
  <2>4. Hot => heated <= cap
    BY <2>1, CountersAreNat DEF GuardedBetweenCalls, Guarded
  <2>5. DuringCall(t)' BY <2>2, <2>3, <2>4, CountersAreNat DEF DuringCall
  <2>6. OnlyTheTriggerPin' BY <2>2, <2>3 DEF OnlyTheTriggerPin, PinSteps
  <2>7. QED BY <2>2, <2>3, <2>5, <2>6, NoOneElseIsCalling
        DEF Aging, ColdHasNoAge, GuardedBetweenCalls
<1>2. CASE DisableStop(t)
  <2>1. At(t, "dis_stop", "dis_gpio") BY <1>2 DEF DisableStop
  <2>2. /\ pc[t] = "dis_stop" /\ pc'[t] = "dis_gpio" /\ OneCall' /\ ~Idle'
        /\ \A u \in Tasks : u # t => pc'[u] = "idle"
    BY <2>1, OnlyOneInside DEF Statements, DisableSteps
  <2>3. (Coil' <=> Coil) /\ (Hot' <=> Hot) /\ UNCHANGED <<outputs, gpio_pin, newPin, heated, cap, stall>>
    BY <1>2 DEF DisableStop, Coil, Hot, DrivenRightly
  <2>4. DuringCall(t)' BY <2>2, <2>3 DEF DuringCall
  <2>5. OnlyTheTriggerPin' BY <2>2, <2>3 DEF OnlyTheTriggerPin, PinSteps
  <2>6. QED BY <2>2, <2>3, <2>4, <2>5, NoOneElseIsCalling
        DEF Aging, ColdHasNoAge, GuardedBetweenCalls
<1>3. CASE DisableGpio(t)
  <2>1. At(t, "dis_gpio", "dis_active") BY <1>3 DEF DisableGpio
  <2>2. /\ pc[t] = "dis_gpio" /\ pc'[t] = "dis_active" /\ OneCall' /\ ~Idle'
        /\ \A u \in Tasks : u # t => pc'[u] = "idle"
    BY <2>1, OnlyOneInside DEF Statements, DisableSteps
  <2>3. ~Hot' /\ ColdHasNoAge' /\ UNCHANGED <<outputs, gpio_pin, newPin>>
    BY <1>3, DrivenInactive DEF DisableGpio, Age, OnlyTheTriggerPin, ColdHasNoAge
  <2>4. DuringCall(t)' BY <2>2, <2>3 DEF DuringCall
  <2>5. OnlyTheTriggerPin' BY <2>2, <2>3 DEF OnlyTheTriggerPin, PinSteps
  <2>6. QED BY <2>2, <2>3, <2>4, <2>5, NoOneElseIsCalling
        DEF Aging, ColdHasNoAge, GuardedBetweenCalls
<1>4. CASE DisableActive(t)
  <2>1. PICK b \in {"idle", "pin_release"} :
          At(t, "dis_active", b) /\ (b = "pin_release" => newPin[t] # NoPin)
    BY <1>4 DEF DisableActive
  <2>2. /\ pc[t] = "dis_active" /\ pc'[t] = b /\ OneCall'
        /\ \A u \in Tasks : u # t => pc'[u] = "idle"
    BY <2>1, OnlyOneInside DEF Statements, PinSteps
  <2>3. (Coil' <=> Coil) /\ (Hot' <=> Hot) /\ UNCHANGED <<outputs, gpio_pin, newPin, heated, cap, stall>>
    BY <1>4 DEF DisableActive, Coil, Hot, DrivenRightly
  <2>4. ~Hot BY <2>2 DEF DuringCall
  <2>5. DuringCall(t)' BY <2>2, <2>3, <2>4 DEF DuringCall
  <2>6. newPin[t] \in Pins \cup {NoPin} BY DEF TypeOK
  <2>7. OnlyTheTriggerPin' BY <2>1, <2>2, <2>3, <2>6 DEF OnlyTheTriggerPin, PinSteps
  <2>8. QED BY <2>2, <2>3, <2>4, <2>5, <2>7, NoOneElseIsCalling
        DEF Aging, ColdHasNoAge, GuardedBetweenCalls
<1>5. QED BY <1>1, <1>2, <1>3, <1>4

LEMMA ApplyPinKeepsAging ==
  ASSUME HeaterInv, Serial, NEW p \in Pins, CallApplyPin(p)
  PROVE  OneCall' /\ OnlyTheTriggerPin' /\ Aging'
<1> USE HeaterAssumption DEF HeaterInv, Serial, vars, config, flags, pinVars, timer
<1>1. At(RestTask, "idle", "dis_stop") /\ Idle BY DEF CallApplyPin, MayEnter
<1>2. /\ pc'[RestTask] = "dis_stop" /\ OneCall' /\ ~Idle'
      /\ \A u \in Tasks : u # RestTask => pc'[u] = "idle"
  BY <1>1, OnlyOneInside DEF Statements, DisableSteps
<1>3. (Coil' <=> Coil) /\ (Hot' <=> Hot) /\ UNCHANGED <<outputs, gpio_pin, heated, cap>> /\ stall'[RestTask] = 0
  BY DEF CallApplyPin, Coil, Hot, DrivenRightly, TypeOK
<1>4. Hot => heated <= cap
  BY <1>1, CountersAreNat DEF GuardedBetweenCalls, Guarded
<1>5. DuringCall(RestTask)' BY <1>2, <1>3, <1>4, CountersAreNat DEF DuringCall
<1>6. OnlyTheTriggerPin' BY <1>2, <1>3 DEF OnlyTheTriggerPin, PinSteps
<1>7. QED BY <1>2, <1>3, <1>5, <1>6, NoOneElseIsCalling
      DEF Aging, ColdHasNoAge, GuardedBetweenCalls

LEMMA PinSwitchKeepsAging ==
  ASSUME HeaterInv, Serial, NEW t \in Tasks,
         PinRelease(t) \/ PinNumber(t) \/ PinInit(t) \/ PinOut(t) \/ PinOff(t)
  PROVE  OneCall' /\ OnlyTheTriggerPin' /\ Aging'
<1> USE HeaterAssumption DEF HeaterInv, Serial, vars, config, flags, pinVars, timer
<1>1. CASE PinRelease(t)
  <2>1. At(t, "pin_release", "pin_number") BY <1>1 DEF PinRelease
  <2>2. /\ pc[t] = "pin_release" /\ pc'[t] = "pin_number" /\ OneCall' /\ ~Idle'
        /\ \A u \in Tasks : u # t => pc'[u] = "idle"
    BY <2>1, OnlyOneInside DEF Statements, PinSteps
  <2>3. outputs' = {} /\ UNCHANGED <<gpio_pin, newPin>>
    BY <1>1 DEF PinRelease, OnlyTheTriggerPin
  <2>4. ~Coil' /\ heated' = 0 BY <1>1, <2>3 DEF PinRelease, Age, Coil, Hot, DrivenRightly
  <2>5. DuringCall(t)' BY <2>2, <2>4 DEF DuringCall
  <2>6. OnlyTheTriggerPin' BY <2>2, <2>3 DEF OnlyTheTriggerPin, PinSteps
  <2>7. QED BY <2>2, <2>4, <2>5, <2>6, NoOneElseIsCalling
        DEF Aging, ColdHasNoAge, GuardedBetweenCalls
<1>2. CASE PinNumber(t)
  <2>1. At(t, "pin_number", "pin_init") BY <1>2 DEF PinNumber
  <2>2. /\ pc[t] = "pin_number" /\ pc'[t] = "pin_init" /\ OneCall' /\ ~Idle'
        /\ \A u \in Tasks : u # t => pc'[u] = "idle"
    BY <2>1, OnlyOneInside DEF Statements, PinSteps
  <2>3. outputs = {} BY <2>2 DEF OnlyTheTriggerPin
  <2>4. outputs' = {} /\ gpio_pin' = newPin[t] /\ UNCHANGED <<newPin, heated>>
    BY <1>2, <2>3 DEF PinNumber
  <2>5. ~Coil /\ ~Coil' BY <2>3, <2>4 DEF Coil, Hot, DrivenRightly
  <2>6. DuringCall(t)' BY <2>2, <2>5 DEF DuringCall
  <2>7. OnlyTheTriggerPin' BY <2>2, <2>4 DEF OnlyTheTriggerPin, PinSteps
  <2>8. QED BY <2>2, <2>4, <2>5, <2>6, <2>7, NoOneElseIsCalling
        DEF Aging, ColdHasNoAge, GuardedBetweenCalls
<1>3. CASE PinInit(t)
  <2>1. At(t, "pin_init", "pin_out") BY <1>3 DEF PinInit
  <2>2. /\ pc[t] = "pin_init" /\ pc'[t] = "pin_out" /\ OneCall' /\ ~Idle'
        /\ \A u \in Tasks : u # t => pc'[u] = "idle"
    BY <2>1, OnlyOneInside DEF Statements, PinSteps
  <2>3. newPin[t] = gpio_pin BY <2>2 DEF OnlyTheTriggerPin
  <2>4. outputs' = {} /\ UNCHANGED <<gpio_pin, newPin>>
    BY <1>3, <2>3 DEF PinInit, OnlyTheTriggerPin
  <2>5. ~Coil' /\ heated' = 0 BY <1>3, <2>4 DEF PinInit, Age, Coil, Hot, DrivenRightly
  <2>6. DuringCall(t)' BY <2>2, <2>5 DEF DuringCall
  <2>7. OnlyTheTriggerPin' BY <2>2, <2>3, <2>4 DEF OnlyTheTriggerPin, PinSteps
  <2>8. QED BY <2>2, <2>5, <2>6, <2>7, NoOneElseIsCalling
        DEF Aging, ColdHasNoAge, GuardedBetweenCalls
<1>4. CASE PinOut(t)
  <2>1. At(t, "pin_out", "pin_off") BY <1>4 DEF PinOut
  <2>2. /\ pc[t] = "pin_out" /\ pc'[t] = "pin_off" /\ OneCall' /\ ~Idle'
        /\ \A u \in Tasks : u # t => pc'[u] = "idle"
    BY <2>1, OnlyOneInside DEF Statements, PinSteps
  <2>3. newPin[t] = gpio_pin BY <2>2 DEF OnlyTheTriggerPin
  <2>4. outputs' \subseteq {gpio_pin} /\ UNCHANGED <<gpio_pin, newPin, stall>>
    BY <1>4, <2>3 DEF PinOut, OnlyTheTriggerPin
  <2>5. heated = 0 BY <2>2 DEF OnlyTheTriggerPin, Coil, ColdHasNoAge
  <2>6. heated' = 0 BY <1>4, <2>5 DEF PinOut, Age
  <2>7. DuringCall(t)' BY <2>2, <2>4, <2>6, CountersAreNat DEF DuringCall
  <2>8. OnlyTheTriggerPin' BY <2>2, <2>4 DEF OnlyTheTriggerPin, PinSteps
  <2>9. QED BY <2>2, <2>6, <2>7, <2>8, NoOneElseIsCalling
        DEF Aging, ColdHasNoAge, GuardedBetweenCalls
<1>5. CASE PinOff(t)
  <2>1. At(t, "pin_off", "idle") BY <1>5 DEF PinOff
  <2>2. /\ pc[t] = "pin_off" /\ pc'[t] = "idle" /\ OneCall'
        /\ \A u \in Tasks : u # t => pc'[u] = "idle"
    BY <2>1, OnlyOneInside DEF Statements
  <2>3. ~Hot' /\ ColdHasNoAge' /\ UNCHANGED <<outputs, gpio_pin>>
    <3>1. _induction_heater_set_gpio(FALSE) /\ UNCHANGED <<outputs, active, wiring, gpio_pin>> /\ Age
      BY <1>5 DEF PinOff
    <3>2. ~Hot' BY <3>1, DrivenInactive DEF OnlyTheTriggerPin
    <3>3. QED BY <3>1, <3>2 DEF Age, ColdHasNoAge
  <2>4. DuringCall(t)' BY <2>2 DEF DuringCall, PinSteps
  <2>5. OnlyTheTriggerPin' BY <2>2, <2>3 DEF OnlyTheTriggerPin, PinSteps
  <2>6. QED BY <2>2, <2>3, <2>4, <2>5, NoOneElseIsCalling
        DEF Aging, ColdHasNoAge, GuardedBetweenCalls
<1>6. QED BY <1>1, <1>2, <1>3, <1>4, <1>5

(* The callback only ever switches the coil off. *)
LEMMA CallbackKeepsAging ==
  ASSUME HeaterInv, Callback
  PROVE  OneCall' /\ OnlyTheTriggerPin' /\ Aging'
<1> USE HeaterAssumption DEF HeaterInv, vars, config, flags, pinVars, timer
<1>1. CASE Expire
  <2>1. /\ (Coil' <=> Coil) /\ (Hot' <=> Hot) /\ armed /\ left = 0 /\ daemon' = "cb_gpio" /\ daemon = "idle"
        /\ UNCHANGED <<outputs, gpio_pin, newPin, heated, cap, pc, stall>>
    BY <1>1 DEF Expire, Coil, Hot, DrivenRightly
  <2>2. OneCall' /\ OnlyTheTriggerPin' /\ ColdHasNoAge' /\ (Idle' <=> Idle)
    BY <2>1 DEF OneCall, OnlyTheTriggerPin, ColdHasNoAge, Idle
  <2>3. Guarded => Guarded'
    BY <2>1 DEF Guarded, TypeOK
  <2>4. \A t \in Tasks : pc[t] \notin {"en_reset", "en_gpio"}
    BY <2>1, CountersAreNat DEF DuringCall
  <2>5. \A t \in Tasks : DuringCall(t)'
    BY <2>1, <2>3, <2>4 DEF DuringCall
  <2>6. QED BY <2>1, <2>2, <2>3, <2>5 DEF Aging, GuardedBetweenCalls
<1>2. CASE TimeoutGpio
  <2>1. ~Hot' /\ ColdHasNoAge'
    BY <1>2, DrivenInactive DEF TimeoutGpio, Age, OnlyTheTriggerPin, ColdHasNoAge
  <2>2. UNCHANGED <<outputs, gpio_pin, newPin, pc, stall, timer>>
    BY <1>2 DEF TimeoutGpio
  <2>3. OneCall' /\ OnlyTheTriggerPin'
    BY <2>2 DEF OneCall, OnlyTheTriggerPin
  <2>4. \A t \in Tasks : DuringCall(t)' BY <2>1, <2>2 DEF DuringCall
  <2>5. QED BY <2>1, <2>3, <2>4 DEF Aging, ColdHasNoAge, GuardedBetweenCalls
<1>3. CASE TimeoutActive \/ TimeoutFault
  <2>1. /\ (Coil' <=> Coil) /\ (Hot' <=> Hot) /\ daemon # "cb_gpio"
        /\ UNCHANGED <<outputs, gpio_pin, newPin, heated, cap, pc, stall, timer>>
    BY <1>3 DEF TimeoutActive, TimeoutFault, Coil, Hot, DrivenRightly
  <2>2. OneCall' /\ OnlyTheTriggerPin' /\ ColdHasNoAge' /\ (Idle' <=> Idle)
    BY <2>1 DEF OneCall, OnlyTheTriggerPin, ColdHasNoAge, Idle
  <2>3. Guarded => Guarded' BY <2>1 DEF Guarded
  <2>4. \A t \in Tasks : DuringCall(t)' BY <2>1, <2>3 DEF DuringCall
  <2>5. QED BY <2>1, <2>2, <2>3, <2>4 DEF Aging, GuardedBetweenCalls
<1>4. QED BY <1>1, <1>2, <1>3 DEF Callback

LEMMA AgeForTime ==
  \A age, age1, togo, togo1, limit \in Int :
    age + togo <= limit => (age1 <= age + 1 => (togo1 = togo - 1 => age1 + togo1 <= limit))
  OBVIOUS

LEMMA TickKeepsGuard ==
  ASSUME heated \in Int, heated' \in Int, left \in Int, left' \in Int, cap \in Int,
         heated + left <= cap, heated' <= heated + 1, left' = left - 1
  PROVE  heated' + left' <= cap
  BY AgeForTime, ZenonT(60)

(* A tick takes from the timer what it adds to the coil's age, and what a  *)
(* call under way adds to the age it adds to the call's own time.          *)
LEMMA TickKeepsAging ==
  ASSUME HeaterInv, Tick
  PROVE  OneCall' /\ OnlyTheTriggerPin' /\ Aging'
<1> USE HeaterAssumption DEF HeaterInv, vars, config, flags, pinVars, timer
<1>1. /\ daemon = "idle" /\ (armed => left > 0)
      /\ (Coil' <=> Coil) /\ (Hot' <=> Hot)
      /\ UNCHANGED <<outputs, gpio_pin, newPin, cap, pc, period, armed, daemon>>
  BY DEF Tick, Coil, Hot, DrivenRightly, TypeOK
<1>2. armed => left' = left - 1 BY DEF Tick
<1>3. heated' <= heated + 1 /\ (~Coil => heated' = heated)
  BY DEF Tick, TypeOK
<1>4. \A t \in Tasks : pc[t] # "idle" => stall'[t] = stall[t] + 1
  BY DEF Tick
<1>5. OneCall' /\ OnlyTheTriggerPin' /\ (Idle' <=> Idle)
  BY <1>1 DEF OneCall, OnlyTheTriggerPin, Idle
<1>6. ColdHasNoAge' BY <1>1, <1>3 DEF ColdHasNoAge
<1>7. heated' \in Nat /\ heated \in Nat /\ cap \in Nat /\ left \in Nat
  BY DEF Tick, TypeOK
<1>8. ASSUME Guarded PROVE Guarded'
  <2>1. armed /\ armed' /\ heated + left <= cap
    <3>1. daemon # "cb_gpio" BY <1>1
    <3>2. QED BY <1>1, <1>8, <3>1 DEF Guarded
  <2>2. left' = left - 1 BY <1>2, <2>1
  <2>3. /\ heated \in Int /\ left \in Int /\ cap \in Int
        /\ heated' \in Int /\ left' \in Int
    BY <1>7, <2>2
  <2>4. heated' + left' <= cap
    <3>1. heated + left <= cap /\ heated' <= heated + 1 BY <2>1, <1>3
    <3>2. QED BY <3>1, <2>2, <2>3, TickKeepsGuard
  <2>5. heated' + left' <= cap' BY <1>1, <2>4
  <2>6. QED BY <2>1, <2>5 DEF Guarded
<1>9. ASSUME NEW t \in Tasks PROVE DuringCall(t)'
  <2>1. CASE pc[t] = "idle" BY <2>1, <1>1 DEF DuringCall, PinSteps
  <2>2. CASE pc[t] # "idle"
    <3>1. stall'[t] = stall[t] + 1 /\ stall[t] \in Nat /\ period \in Nat
      BY <2>2, <1>4, CountersAreNat
    <3>2. QED BY <3>1, <1>1, <1>2, <1>3, <1>7, <1>8 DEF DuringCall
  <2>3. QED BY <2>1, <2>2
<1>10. QED BY <1>1, <1>5, <1>6, <1>8, <1>9 DEF Aging, GuardedBetweenCalls

(* A new polarity leaves the pin, and so the coil, as they are. *)
LEMMA SettingsKeepAging ==
  ASSUME HeaterInv, NEW d \in Dwells, SetActiveHigh \/ SetMaxDwell(d) \/ UNCHANGED vars
  PROVE  OneCall' /\ OnlyTheTriggerPin' /\ Aging'
<1> USE DEF HeaterInv, vars, config, flags, pinVars, timer
<1>1. /\ (Coil' <=> Coil) /\ (Hot' <=> Hot)
      /\ UNCHANGED <<outputs, gpio_pin, newPin, heated, cap, pc, stall, timer, daemon>>
  BY DEF SetActiveHigh, SetMaxDwell, Coil, Hot, DrivenRightly
<1>2. OneCall' /\ OnlyTheTriggerPin' /\ ColdHasNoAge' /\ (Idle' <=> Idle)
  BY <1>1 DEF OneCall, OnlyTheTriggerPin, ColdHasNoAge, Idle
<1>3. Guarded => Guarded' BY <1>1 DEF Guarded
<1>4. \A t \in Tasks : DuringCall(t)' BY <1>1, <1>3 DEF DuringCall
<1>5. QED BY <1>1, <1>2, <1>3, <1>4 DEF Aging, GuardedBetweenCalls

(* Which statement the one call in progress is at. *)
LEMMA InsideNow ==
  ASSUME NEW t \in Tasks, \A u \in Tasks : u # t => pc[u] = "idle",
         NEW S, "idle" \notin S
  PROVE  Inside(S) <=> pc[t] \in S
  BY DEF Inside

LEMMA InsideNext ==
  ASSUME NEW t \in Tasks, \A u \in Tasks : u # t => pc'[u] = "idle",
         NEW S, "idle" \notin S
  PROVE  Inside(S)' <=> pc'[t] \in S
  BY DEF Inside

(* FlagInv, read at the one call in progress. *)
FlagAt(t) ==
  /\ pc[t] \in {"pin_number", "pin_init", "pin_out"} \/ gpio_pin \in outputs
  /\ ~reenable =>
       /\ pc[t] \in EnableSteps => daemon = "idle" /\ ~is_active
       /\ pc[t] \in EnableSteps \ {"en_fault"} => ~safety_cutoff_fault
       /\ pc[t] = "en_active" => (DrivenRightly => Coil) /\ armed /\ period <= left + stall[t]
       /\ armed => is_active \/ pc[t] \in {"en_reset", "en_gpio", "en_active"}
       /\ pc[t] \in {"dis_gpio", "dis_active"} \cup PinSteps => ~armed
       /\ pc[t] \in PinSteps => ~is_active
       /\ daemon # "idle" => ~armed
       /\ is_active /\ DrivenRightly => Coil \/ daemon = "cb_active" \/ pc[t] = "dis_active"
       /\ Hot => is_active \/ pc[t] \in {"en_active", "pin_off"}
       /\ daemon \in {"cb_active", "cb_fault"} => ~Hot \/ pc[t] = "pin_off"
       /\ daemon = "cb_fault" \/ safety_cutoff_fault => ~is_active

LEMMA FlagNow ==
  ASSUME NEW t \in Tasks, \A u \in Tasks : u # t => pc[u] = "idle"
  PROVE  FlagInv <=> FlagAt(t)
<1>1. /\ Inside({"pin_number", "pin_init", "pin_out"})
           <=> pc[t] \in {"pin_number", "pin_init", "pin_out"}
      /\ Inside({"en_reset", "en_gpio", "en_active"})
           <=> pc[t] \in {"en_reset", "en_gpio", "en_active"}
      /\ Inside({"en_active", "pin_off"}) <=> pc[t] \in {"en_active", "pin_off"}
      /\ Inside({"en_active"}) <=> pc[t] = "en_active"
      /\ Inside({"dis_active"}) <=> pc[t] = "dis_active"
      /\ Inside({"pin_off"}) <=> pc[t] = "pin_off"
  BY DEF Inside
<1>2. /\ Inside(EnableSteps) <=> pc[t] \in EnableSteps
      /\ Inside(EnableSteps \ {"en_fault"}) <=> pc[t] \in EnableSteps \ {"en_fault"}
      /\ Inside(PinSteps) <=> pc[t] \in PinSteps
      /\ Inside({"dis_gpio", "dis_active"} \cup PinSteps)
           <=> pc[t] \in {"dis_gpio", "dis_active"} \cup PinSteps
  BY InsideNow DEF EnableSteps, PinSteps
<1>3. (\A u \in Tasks : pc[u] = "en_active" => armed /\ period <= left + stall[u])
        <=> (pc[t] = "en_active" => armed /\ period <= left + stall[t])
  OBVIOUS
<1>4. QED BY <1>1, <1>2, <1>3
      DEF FlagInv, FlagAt, TriggerPinIsOutput, EnableMeetsNoCallback, TimerImpliesHeat,
          FlagFollowsCoil

LEMMA FlagNext ==
  ASSUME NEW t \in Tasks, \A u \in Tasks : u # t => pc'[u] = "idle"
  PROVE  FlagInv' <=> FlagAt(t)'
<1>1. /\ Inside({"pin_number", "pin_init", "pin_out"})'
           <=> pc'[t] \in {"pin_number", "pin_init", "pin_out"}
      /\ Inside({"en_reset", "en_gpio", "en_active"})'
           <=> pc'[t] \in {"en_reset", "en_gpio", "en_active"}
      /\ Inside({"en_active", "pin_off"})' <=> pc'[t] \in {"en_active", "pin_off"}
      /\ Inside({"en_active"})' <=> pc'[t] = "en_active"
      /\ Inside({"dis_active"})' <=> pc'[t] = "dis_active"
      /\ Inside({"pin_off"})' <=> pc'[t] = "pin_off"
  BY DEF Inside
<1>2. /\ Inside(EnableSteps)' <=> pc'[t] \in EnableSteps
      /\ Inside(EnableSteps \ {"en_fault"})' <=> pc'[t] \in EnableSteps \ {"en_fault"}
      /\ Inside(PinSteps)' <=> pc'[t] \in PinSteps
      /\ Inside({"dis_gpio", "dis_active"} \cup PinSteps)'
           <=> pc'[t] \in {"dis_gpio", "dis_active"} \cup PinSteps
  BY InsideNext DEF EnableSteps, PinSteps
<1>3. (\A u \in Tasks : pc'[u] = "en_active" => armed' /\ period' <= left' + stall'[u])
        <=> (pc'[t] = "en_active" => armed' /\ period' <= left' + stall'[t])
  OBVIOUS
<1>4. QED BY <1>1, <1>2, <1>3
      DEF FlagInv, FlagAt, TriggerPinIsOutput, EnableMeetsNoCallback, TimerImpliesHeat,
          FlagFollowsCoil

(* One statement of the one call in progress. *)
LEMMA FlagAcross ==
  ASSUME HeaterInv, NEW t \in Tasks, NEW a \in Statements, NEW b \in Statements,
         At(t, a, b), a # "idle" \/ Idle
  PROVE  /\ pc[t] = a /\ pc'[t] = b
         /\ FlagAt(t) /\ DuringCall(t)
         /\ FlagAt(t)' => FlagInv'
<1>1. /\ pc[t] = a /\ pc'[t] = b
      /\ \A u \in Tasks : u # t => pc'[u] = "idle"
  BY OnlyOneInside DEF HeaterInv
<1>2. \A u \in Tasks : u # t => pc[u] = "idle" BY <1>1 DEF HeaterInv, OneCall, Idle
<1>3. QED BY <1>1, <1>2, FlagNow, FlagNext DEF HeaterInv

(* A call with the coil off starts while the callback is not running; its  *)
(* timer outlasts the call, so that no cutoff meets it half-way.           *)
LEMMA EnableKeepsFlag ==
  ASSUME HeaterInv, Serial, NEW t \in Tasks,
         CallEnable(t) \/ EnableFault(t) \/ EnablePeriod(t) \/ EnableReset(t)
           \/ EnableGpio(t) \/ EnableActive(t)
  PROVE  FlagInv'
<1> USE DEF vars, config, flags, pinVars, timer, EnableSteps, PinSteps
<1>1. CASE CallEnable(t)
  <2>1. At(t, "idle", "en_fault") /\ Idle BY <1>1 DEF MayEnter, Serial, CallEnable
  <2>2. /\ pc[t] = "idle" /\ pc'[t] = "en_fault" /\ FlagAt(t) /\ DuringCall(t)
        /\ FlagAt(t)' => FlagInv'
    BY <2>1, FlagAcross DEF Statements, DisableSteps
  <2>3. QED BY <1>1, <2>2 DEF CallEnable, FlagAt, Coil, Hot, DrivenRightly
<1>2. CASE EnableFault(t)
  <2>1. At(t, "en_fault", "en_period") BY <1>2 DEF EnableFault
  <2>2. /\ pc[t] = "en_fault" /\ pc'[t] = "en_period" /\ FlagAt(t) /\ DuringCall(t)
        /\ FlagAt(t)' => FlagInv'
    BY <2>1, FlagAcross DEF Statements, DisableSteps
  <2>3. QED BY <1>2, <2>2 DEF EnableFault, FlagAt, Coil, Hot, DrivenRightly
<1>3. CASE EnablePeriod(t)
  <2>1. At(t, "en_period", "en_reset") BY <1>3 DEF EnablePeriod
  <2>2. /\ pc[t] = "en_period" /\ pc'[t] = "en_reset" /\ FlagAt(t) /\ DuringCall(t)
        /\ FlagAt(t)' => FlagInv'
    BY <2>1, FlagAcross DEF Statements, DisableSteps
  <2>3. QED BY <1>3, <2>2 DEF EnablePeriod, FlagAt, Coil, Hot, DrivenRightly
<1>4. CASE EnableReset(t)
  <2>1. At(t, "en_reset", "en_gpio") BY <1>4 DEF EnableReset
  <2>2. /\ pc[t] = "en_reset" /\ pc'[t] = "en_gpio" /\ FlagAt(t) /\ DuringCall(t)
        /\ FlagAt(t)' => FlagInv'
    BY <2>1, FlagAcross DEF Statements, DisableSteps
  <2>3. QED BY <1>4, <2>2 DEF EnableReset, FlagAt, Coil, Hot, DrivenRightly
<1>5. CASE EnableGpio(t)
  <2>1. At(t, "en_gpio", "en_active") BY <1>5 DEF EnableGpio
  <2>2. /\ pc[t] = "en_gpio" /\ pc'[t] = "en_active" /\ FlagAt(t) /\ DuringCall(t)
        /\ FlagAt(t)' => FlagInv'
    BY <2>1, FlagAcross DEF Statements, DisableSteps
  <2>3. gpio_pin \in outputs BY <2>2 DEF FlagAt
  <2>4. driven' = active /\ latch'[gpio_pin] = active
    BY <1>5, SetGpioIsTyped DEF EnableGpio, _induction_heater_set_gpio, HeaterInv
  <2>5. (DrivenRightly' => Coil') /\ UNCHANGED <<outputs, gpio_pin>> BY <1>5, <2>3, <2>4 DEF EnableGpio, Coil, Hot, DrivenRightly
  <2>6. armed /\ period <= left + stall[t] BY <2>2 DEF DuringCall
  <2>7. UNCHANGED <<armed, period, left, stall, daemon, is_active, safety_cutoff_fault, reenable>>
    BY <1>5 DEF EnableGpio
  <2>8. QED BY <2>2, <2>3, <2>5, <2>6, <2>7 DEF FlagAt
<1>6. CASE EnableActive(t)
  <2>1. At(t, "en_active", "idle") BY <1>6 DEF EnableActive
  <2>2. /\ pc[t] = "en_active" /\ pc'[t] = "idle" /\ FlagAt(t) /\ DuringCall(t)
        /\ FlagAt(t)' => FlagInv'
    BY <2>1, FlagAcross DEF Statements, DisableSteps
  <2>3. QED BY <1>6, <2>2 DEF EnableActive, FlagAt, Coil, Hot, DrivenRightly
<1>7. QED BY <1>1, <1>2, <1>3, <1>4, <1>5, <1>6

LEMMA DisableKeepsFlag ==
  ASSUME HeaterInv, Serial, NEW t \in Tasks,
         CallDisable(t) \/ DisableStop(t) \/ DisableGpio(t) \/ DisableActive(t)
  PROVE  FlagInv'
<1> USE DEF vars, config, flags, pinVars, timer, EnableSteps, PinSteps
<1>1. CASE CallDisable(t)
  <2>1. At(t, "idle", "dis_stop") /\ Idle BY <1>1 DEF MayEnter, Serial, CallDisable
  <2>2. /\ pc[t] = "idle" /\ pc'[t] = "dis_stop" /\ FlagAt(t) /\ DuringCall(t)
        /\ FlagAt(t)' => FlagInv'
    BY <2>1, FlagAcross DEF Statements, DisableSteps
  <2>3. QED BY <1>1, <2>2 DEF CallDisable, FlagAt, Coil, Hot, DrivenRightly
<1>2. CASE DisableStop(t)
  <2>1. At(t, "dis_stop", "dis_gpio") BY <1>2 DEF DisableStop
  <2>2. /\ pc[t] = "dis_stop" /\ pc'[t] = "dis_gpio" /\ FlagAt(t) /\ DuringCall(t)
        /\ FlagAt(t)' => FlagInv'
    BY <2>1, FlagAcross DEF Statements, DisableSteps
  <2>3. QED BY <1>2, <2>2 DEF DisableStop, FlagAt, Coil, Hot, DrivenRightly
<1>3. CASE DisableGpio(t)
  <2>1. At(t, "dis_gpio", "dis_active") BY <1>3 DEF DisableGpio
  <2>2. /\ pc[t] = "dis_gpio" /\ pc'[t] = "dis_active" /\ FlagAt(t) /\ DuringCall(t)
        /\ FlagAt(t)' => FlagInv'
    BY <2>1, FlagAcross DEF Statements, DisableSteps
  <2>3. ~Hot' /\ UNCHANGED <<outputs, gpio_pin>>
    BY <1>3, DrivenInactive, <2>2 DEF DisableGpio, HeaterInv, OnlyTheTriggerPin
  <2>4. UNCHANGED <<armed, daemon, is_active, safety_cutoff_fault, reenable>>
    BY <1>3 DEF DisableGpio
  <2>5. QED BY <2>2, <2>3, <2>4 DEF FlagAt
<1>4. CASE DisableActive(t)
  <2>1. PICK b \in {"idle", "pin_release"} : At(t, "dis_active", b)
    BY <1>4 DEF DisableActive
  <2>2. /\ pc[t] = "dis_active" /\ pc'[t] = b /\ FlagAt(t) /\ DuringCall(t)
        /\ FlagAt(t)' => FlagInv'
    BY <2>1, FlagAcross DEF Statements, DisableSteps
  <2>3. ~Hot BY <2>2 DEF DuringCall
  <2>4. QED BY <1>4, <2>2, <2>3 DEF DisableActive, FlagAt, Coil, Hot, DrivenRightly
<1>5. QED BY <1>1, <1>2, <1>3, <1>4

LEMMA PinSwitchKeepsFlag ==
  ASSUME HeaterInv, Serial, NEW t \in Tasks,
         PinRelease(t) \/ PinNumber(t) \/ PinInit(t) \/ PinOut(t) \/ PinOff(t)
  PROVE  FlagInv'
<1> USE DEF vars, config, flags, pinVars, timer, EnableSteps, PinSteps
<1>1. CASE PinRelease(t)
  <2>1. At(t, "pin_release", "pin_number") BY <1>1 DEF PinRelease
  <2>2. /\ pc[t] = "pin_release" /\ pc'[t] = "pin_number" /\ FlagAt(t) /\ DuringCall(t)
        /\ FlagAt(t)' => FlagInv'
    BY <2>1, FlagAcross DEF Statements, DisableSteps
  <2>3. outputs' = {} BY <1>1, <2>2 DEF PinRelease, HeaterInv, OnlyTheTriggerPin
  <2>4. ~Coil' BY <2>3 DEF Coil, Hot, DrivenRightly
  <2>5. QED BY <1>1, <2>2, <2>4 DEF PinRelease, FlagAt, Hot
<1>2. CASE PinNumber(t)
  <2>1. At(t, "pin_number", "pin_init") BY <1>2 DEF PinNumber
  <2>2. /\ pc[t] = "pin_number" /\ pc'[t] = "pin_init" /\ FlagAt(t) /\ DuringCall(t)
        /\ FlagAt(t)' => FlagInv'
    BY <2>1, FlagAcross DEF Statements, DisableSteps
  <2>3. outputs' = {} BY <1>2, <2>2 DEF PinNumber, HeaterInv, OnlyTheTriggerPin
  <2>4. ~Coil' BY <2>3 DEF Coil, Hot, DrivenRightly
  <2>5. QED BY <1>2, <2>2, <2>4 DEF PinNumber, FlagAt, Hot
<1>3. CASE PinInit(t)
  <2>1. At(t, "pin_init", "pin_out") BY <1>3 DEF PinInit
  <2>2. /\ pc[t] = "pin_init" /\ pc'[t] = "pin_out" /\ FlagAt(t) /\ DuringCall(t)
        /\ FlagAt(t)' => FlagInv'
    BY <2>1, FlagAcross DEF Statements, DisableSteps
  <2>3. outputs' = {} BY <1>3, <2>2 DEF PinInit, HeaterInv, OnlyTheTriggerPin
  <2>4. ~Coil' BY <2>3 DEF Coil, Hot, DrivenRightly
  <2>5. QED BY <1>3, <2>2, <2>4 DEF PinInit, FlagAt, Hot
<1>4. CASE PinOut(t)
  <2>1. At(t, "pin_out", "pin_off") BY <1>4 DEF PinOut
  <2>2. /\ pc[t] = "pin_out" /\ pc'[t] = "pin_off" /\ FlagAt(t) /\ DuringCall(t)
        /\ FlagAt(t)' => FlagInv'
    BY <2>1, FlagAcross DEF Statements, DisableSteps
  <2>3. gpio_pin' \in outputs' BY <1>4, <2>2 DEF PinOut, HeaterInv, OnlyTheTriggerPin
  <2>4. QED BY <1>4, <2>2, <2>3 DEF PinOut, FlagAt
<1>5. CASE PinOff(t)
  <2>1. At(t, "pin_off", "idle") BY <1>5 DEF PinOff
  <2>2. /\ pc[t] = "pin_off" /\ pc'[t] = "idle" /\ FlagAt(t) /\ DuringCall(t)
        /\ FlagAt(t)' => FlagInv'
    BY <2>1, FlagAcross DEF Statements, DisableSteps
  <2>3. ~Hot' /\ UNCHANGED <<outputs, gpio_pin>>
    BY <1>5, DrivenInactive DEF PinOff, HeaterInv, OnlyTheTriggerPin
  <2>4. UNCHANGED <<armed, daemon, is_active, safety_cutoff_fault, reenable>>
    BY <1>5 DEF PinOff
  <2>5. QED BY <2>2, <2>3, <2>4 DEF FlagAt
<1>6. QED BY <1>1, <1>2, <1>3, <1>4, <1>5

(* Steps that move no program counter. *)
LEMMA InsideStays ==
  ASSUME pc' = pc, NEW S
  PROVE  Inside(S)' <=> Inside(S)
  BY DEF Inside

LEMMA CallbackKeepsFlag ==
  ASSUME HeaterInv, Callback
  PROVE  FlagInv'
<1> USE DEF config, flags, pinVars, timer
<1> DEFINE Rearmed == Inside({"en_reset", "en_gpio", "en_active"})
<1>1. pc' = pc BY DEF Callback, Expire, TimeoutGpio, TimeoutActive, TimeoutFault
<1>2. \A S : Inside(S)' <=> Inside(S) BY <1>1, InsideStays
<1>3. /\ UNCHANGED <<gpio_pin, outputs, reenable, period, left, stall>>
      /\ TriggerPinIsOutput'
  BY <1>2 DEF Callback, Expire, TimeoutGpio, TimeoutActive, TimeoutFault, FlagInv, HeaterInv,
         TriggerPinIsOutput
<1>4. SUFFICES ASSUME ~reenable
               PROVE  (EnableMeetsNoCallback /\ TimerImpliesHeat /\ FlagFollowsCoil)'
  BY <1>3 DEF FlagInv
<1>5. EnableMeetsNoCallback /\ TimerImpliesHeat /\ FlagFollowsCoil
  BY <1>4 DEF HeaterInv, FlagInv
<1>6. CASE Expire
  <2>1. armed /\ left = 0 /\ (Coil' <=> Coil) /\ (Hot' <=> Hot) /\ UNCHANGED <<is_active, safety_cutoff_fault, driven, wiring>>
        /\ ~armed' /\ daemon' = "cb_gpio"
    BY <1>6 DEF Expire, Coil, Hot, DrivenRightly
  <2>2. ASSUME NEW t \in Tasks PROVE pc[t] \notin {"en_reset", "en_gpio", "en_active"}
    <3>1. ~(period <= left + stall[t])
      <4>1. /\ period \in Nat /\ stall[t] \in Nat
            /\ stall[t] <= MaxStall /\ MaxStall < period
        BY CountersAreNat DEF HeaterInv
      <4>2. MaxStall \in Nat BY HeaterAssumption
      <4>3. QED BY <2>1, <4>1, <4>2
    <3>2. pc[t] \in {"en_reset", "en_gpio"} => period <= left + stall[t]
      BY DEF HeaterInv, DuringCall
    <3>3. pc[t] = "en_active" => period <= left + stall[t]
      BY <1>5 DEF EnableMeetsNoCallback
    <3>4. QED BY <3>1, <3>2, <3>3
  <2>3. ~Rearmed BY <2>2 DEF Inside
  <2>4. is_active BY <2>1, <2>3, <1>5 DEF TimerImpliesHeat
  <2>5. ~Inside(EnableSteps) BY <2>4, <1>5 DEF EnableMeetsNoCallback
  <2>6. ~Inside(EnableSteps \ {"en_fault"}) /\ ~Inside({"en_active"})
        /\ \A t \in Tasks : pc[t] # "en_active"
    BY <2>5, <2>2 DEF Inside, EnableSteps
  <2>7. EnableMeetsNoCallback'
    BY <1>1, <1>2, <2>5, <2>6 DEF EnableMeetsNoCallback
  <2>8. TimerImpliesHeat' BY <1>2, <1>5, <2>1 DEF TimerImpliesHeat
  <2>9. ~safety_cutoff_fault /\ (Hot => is_active) /\ (is_active /\ DrivenRightly => Coil \/ Inside({"dis_active"}))
    BY <1>5, <1>6, <2>4 DEF FlagFollowsCoil, Expire
  <2>10. FlagFollowsCoil' BY <1>2, <2>1, <2>4, <2>9 DEF FlagFollowsCoil, DrivenRightly
  <2>11. QED BY <2>7, <2>8, <2>10
<1>7. CASE ~Expire
  <2>1. daemon # "idle" BY <1>7 DEF Callback, TimeoutGpio, TimeoutActive, TimeoutFault
  <2>2. ~Inside(EnableSteps) /\ ~armed
    BY <1>5, <2>1 DEF EnableMeetsNoCallback, TimerImpliesHeat
  <2>3. /\ ~Inside(EnableSteps \ {"en_fault"}) /\ ~Inside({"en_active"})
        /\ \A t \in Tasks : pc[t] # "en_active"
    BY <2>2 DEF Inside, EnableSteps
  <2>4. EnableMeetsNoCallback'
    BY <1>1, <1>2, <2>2, <2>3 DEF EnableMeetsNoCallback
  <2>5. ~armed' /\ (is_active' => is_active)
    <3>1. armed' = armed BY <1>7 DEF Callback, TimeoutGpio, TimeoutActive, TimeoutFault
    <3>2. is_active' = FALSE \/ is_active' = is_active
      BY <1>7 DEF Callback, TimeoutGpio, TimeoutActive, TimeoutFault
    <3>3. ~armed /\ is_active \in BOOLEAN BY <2>2 DEF HeaterInv, TypeOK
    <3>4. is_active' => is_active BY <3>2, <3>3, Zenon
    <3>5. QED BY <3>1, <3>3, <3>4, Zenon
  <2>6. TimerImpliesHeat' BY <1>2, <1>5, <2>5 DEF TimerImpliesHeat
  <2>7. CASE TimeoutGpio
    <3>1. ~Hot' BY <2>7, DrivenInactive DEF TimeoutGpio, HeaterInv, OnlyTheTriggerPin
    <3>2. UNCHANGED <<is_active, safety_cutoff_fault>> /\ daemon' = "cb_active"
      BY <2>7 DEF TimeoutGpio
    <3>3. FlagFollowsCoil' BY <1>5, <3>1, <3>2 DEF FlagFollowsCoil
    <3>4. QED BY <2>4, <2>6, <3>3
  <2>8. CASE TimeoutActive
    <3>1. (Coil' <=> Coil) /\ (Hot' <=> Hot) /\ ~is_active' /\ daemon = "cb_active"
      BY <2>8 DEF TimeoutActive, Coil, Hot, DrivenRightly
    <3>2. Hot => Inside({"pin_off"}) BY <1>5, <3>1 DEF FlagFollowsCoil
    <3>3. Inside({"pin_off"}) => Inside({"en_active", "pin_off"}) BY DEF Inside
    <3>4. FlagFollowsCoil' BY <1>2, <3>1, <3>2, <3>3 DEF FlagFollowsCoil
    <3>5. QED BY <2>4, <2>6, <3>4
  <2>9. CASE TimeoutFault
    <3>1. (Coil' <=> Coil) /\ (Hot' <=> Hot) /\ (is_active' <=> is_active) /\ daemon = "cb_fault" /\ daemon' = "idle"
      BY <2>9 DEF TimeoutFault, Coil, Hot, DrivenRightly
    <3>2. FlagFollowsCoil' BY <1>2, <1>5, <3>1 DEF FlagFollowsCoil
    <3>3. QED BY <2>4, <2>6, <3>2
  <2>10. QED BY <1>7, <2>7, <2>8, <2>9 DEF Callback
<1>8. QED BY <1>6, <1>7

LEMMA TickKeepsFlag ==
  ASSUME HeaterInv, Tick
  PROVE  FlagInv'
<1> USE DEF config, flags, pinVars, timer
<1>1. /\ pc' = pc /\ (Coil' <=> Coil) /\ (Hot' <=> Hot)
      /\ UNCHANGED <<gpio_pin, outputs, reenable, is_active, safety_cutoff_fault, driven, wiring,
                     armed, period, daemon>>
  BY DEF Tick, Coil, Hot, DrivenRightly
<1>2. \A S : Inside(S)' <=> Inside(S) BY <1>1, InsideStays
<1>3. ASSUME NEW t \in Tasks, pc[t] = "en_active", armed, period <= left + stall[t]
      PROVE  period' <= left' + stall'[t]
  <2>1. left' = left - 1 BY <1>3 DEF Tick
  <2>2. stall'[t] = stall[t] + 1 BY <1>3 DEF Tick
  <2>3. left \in Nat /\ stall[t] \in Nat /\ period \in Nat BY CountersAreNat DEF HeaterInv
  <2>4. QED BY <1>1, <1>3, <2>1, <2>2, <2>3
<1>4. TriggerPinIsOutput' BY <1>1, <1>2 DEF HeaterInv, FlagInv, TriggerPinIsOutput
<1>5. SUFFICES ASSUME ~reenable
               PROVE  (EnableMeetsNoCallback /\ TimerImpliesHeat /\ FlagFollowsCoil)'
  BY <1>1, <1>4 DEF FlagInv
<1>6. EnableMeetsNoCallback /\ TimerImpliesHeat /\ FlagFollowsCoil
  BY <1>5 DEF HeaterInv, FlagInv
<1>7. EnableMeetsNoCallback' BY <1>1, <1>2, <1>3, <1>6 DEF EnableMeetsNoCallback, DrivenRightly
<1>8. TimerImpliesHeat' BY <1>1, <1>2, <1>6 DEF TimerImpliesHeat
<1>9. FlagFollowsCoil' BY <1>1, <1>2, <1>6 DEF FlagFollowsCoil, DrivenRightly
<1>10. QED BY <1>7, <1>8, <1>9

LEMMA ConfigKeepsFlag ==
  ASSUME HeaterInv, Serial, RestConfig \/ UNCHANGED vars
  PROVE  FlagInv'
<1> USE DEF vars, config, flags, pinVars, timer
<1>1. ASSUME NEW p \in Pins, CallApplyPin(p) PROVE FlagInv'
  <2>1. At(RestTask, "idle", "dis_stop") /\ Idle /\ RestTask \in Tasks
    BY <1>1, HeaterAssumption DEF MayEnter, Serial, CallApplyPin
  <2>2. /\ pc[RestTask] = "idle" /\ pc'[RestTask] = "dis_stop" /\ FlagAt(RestTask)
        /\ FlagAt(RestTask)' => FlagInv'
    BY <2>1, FlagAcross DEF Statements, DisableSteps
  <2>3. QED BY <1>1, <2>2 DEF CallApplyPin, FlagAt, Coil, Hot, DrivenRightly, EnableSteps, PinSteps
<1>2. ASSUME NEW d \in Dwells, SetActiveHigh \/ SetMaxDwell(d) \/ UNCHANGED vars PROVE FlagInv'
  <2>1. /\ pc' = pc /\ (Coil' <=> Coil) /\ (Hot' <=> Hot)
        /\ UNCHANGED <<gpio_pin, outputs, reenable, is_active, safety_cutoff_fault, driven, wiring,
                       armed, period, left, stall, daemon>>
    BY <1>2 DEF SetActiveHigh, SetMaxDwell, Coil, Hot, DrivenRightly
  <2>2. \A S : Inside(S)' <=> Inside(S) BY <2>1, InsideStays
  <2>3. QED BY <2>1, <2>2
        DEF HeaterInv, FlagInv, TriggerPinIsOutput, EnableMeetsNoCallback, TimerImpliesHeat,
            FlagFollowsCoil, DrivenRightly
<1>3. QED BY <1>1, <1>2, HeaterAssumption DEF RestConfig

LEMMA HeaterInvStep ==
  ASSUME HeaterInv, Serial, [Next]_vars
  PROVE  HeaterInv'
<1>1. SwitchHasPin BY DEF HeaterInv, OnlyTheTriggerPin, SwitchHasPin
<1>2. TypeOK' BY <1>1, StepIsTyped DEF HeaterInv
<1>3. OneCall' /\ OnlyTheTriggerPin' /\ Aging'
  <2>1. ASSUME NEW t \in Tasks, CallEnable(t) \/ CallDisable(t) \/ TaskStep(t)
        PROVE  OneCall' /\ OnlyTheTriggerPin' /\ Aging'
    BY <2>1, EnableKeepsAging, DisableKeepsAging, PinSwitchKeepsAging DEF TaskStep
  <2>2. CASE RestConfig
    BY <2>2, SettingsKeepAging, ApplyPinKeepsAging, HeaterAssumption DEF RestConfig
  <2>3. CASE Callback BY <2>3, CallbackKeepsAging
  <2>4. CASE Tick BY <2>4, TickKeepsAging
  <2>5. CASE UNCHANGED vars BY <2>5, SettingsKeepAging, HeaterAssumption
  <2>6. QED BY <2>1, <2>2, <2>3, <2>4, <2>5 DEF Next
<1>4. FlagInv'
  <2>1. ASSUME NEW t \in Tasks, CallEnable(t) \/ CallDisable(t) \/ TaskStep(t)
        PROVE  FlagInv'
    BY <2>1, EnableKeepsFlag, DisableKeepsFlag, PinSwitchKeepsFlag DEF TaskStep
  <2>2. QED BY <2>1, CallbackKeepsFlag, TickKeepsFlag, ConfigKeepsFlag DEF Next
<1>5. QED BY <1>2, <1>3, <1>4 DEF HeaterInv, Aging

LEMMA HeaterInvInit == Init => HeaterInv
<1> SUFFICES ASSUME Init PROVE HeaterInv OBVIOUS
<1>1. TypeOK BY InitIsTyped
<1>2. \A t \in Tasks : pc[t] = "idle" BY DEF Init
<1>3. ~Hot BY DEF Init, Coil, Hot, DrivenRightly, Levels, Opposite
<1>4. heated = 0 /\ outputs = {gpio_pin} BY DEF Init
<1>5. \A t \in Tasks : DuringCall(t) BY <1>2 DEF DuringCall
<1>6. OnlyTheTriggerPin BY <1>2, <1>4 DEF OnlyTheTriggerPin, PinSteps
<1>7. OneCall /\ ColdHasNoAge /\ GuardedBetweenCalls
  BY <1>2, <1>3, <1>4 DEF OneCall, ColdHasNoAge, GuardedBetweenCalls
<1>8. FlagInv
  <2>1. \A S : "idle" \notin S => ~Inside(S) BY <1>2 DEF Inside
  <2>2. /\ daemon = "idle" /\ ~armed /\ ~is_active /\ ~safety_cutoff_fault
    BY DEF Init
  <2>3. QED BY <1>2, <1>3, <1>4, <2>1, <2>2
        DEF FlagInv, TriggerPinIsOutput, EnableMeetsNoCallback, TimerImpliesHeat,
            FlagFollowsCoil, EnableSteps, PinSteps
<1>9. QED BY <1>1, <1>5, <1>6, <1>7, <1>8 DEF HeaterInv

(* HeaterInv is an invariant of the module when calls do not overlap. *)
THEOREM SerialHeaterInv == ASSUME Serial PROVE Spec => []HeaterInv
<1>1. HeaterInv /\ [Next]_vars => HeaterInv' BY HeaterInvStep
<1>2. QED BY <1>1, HeaterInvInit, PTL DEF Spec

LEMMA InvBoundsTheAge == HeaterInv => HardCap /\ CoilIsGuarded
<1> SUFFICES ASSUME HeaterInv, Hot
             PROVE  /\ heated <= cap + MaxStall
                    /\ Idle => armed \/ daemon = "cb_gpio"
  BY DEF HardCap, CoilIsGuarded, Hot
<1> USE DEF HeaterInv
<1>1. heated \in Nat /\ left \in Nat /\ cap \in Nat /\ MaxStall \in Nat
  BY CountersAreNat, HeaterAssumption
<1>2. CASE Idle BY <1>1, <1>2 DEF GuardedBetweenCalls, Guarded
<1>3. ASSUME NEW t \in Tasks, pc[t] # "idle" PROVE heated <= cap + MaxStall /\ ~Idle
  <2>1. stall[t] \in Nat /\ stall[t] <= MaxStall BY CountersAreNat
  <2>2. pc[t] \in EnableSteps \cup DisableSteps \cup PinSteps BY <1>3 DEF TypeOK
  <2>3. ~Idle BY <1>3 DEF Idle
  <2>4. CASE pc[t] \in EnableSteps
    BY <2>1, <2>3, <2>4, <1>1 DEF DuringCall, Guarded, EnableSteps
  <2>5. CASE pc[t] \in DisableSteps
    BY <2>1, <2>3, <2>5, <1>1 DEF DuringCall, DisableSteps
  <2>6. CASE pc[t] \in PinSteps
    BY <2>1, <2>3, <2>6, <1>1 DEF DuringCall, PinSteps, OnlyTheTriggerPin, Coil, Hot
  <2>7. QED BY <2>2, <2>3, <2>4, <2>5, <2>6
<1>4. QED BY <1>2, <1>3 DEF Idle

(* For any number of tasks whose calls do not overlap, any caps and pins,  *)
(* either wiring, and the configuration changed between calls: a coil that *)
(* was driven under the polarity of its wiring is on no longer than the    *)
(* cap its call read plus the time one call takes (induction_heater.h:15). *)
(* Of a drive under a wrong polarity it says nothing: an "off" then        *)
(* energises the coil, and nothing in the code bounds that.                *)
THEOREM CapHolds == ASSUME Serial PROVE Spec => []HardCap
<1>1. HeaterInv => HardCap BY InvBoundsTheAge
<1>2. QED BY <1>1, SerialHeaterInv, PTL

(* Between calls a coil that is on, and was driven under the polarity of   *)
(* its wiring, always has a running timer, or the callback is about to cut *)
(* it off (induction_heater.h:38).  A drive under a wrong polarity is      *)
(* excluded, as in CapHolds.                                               *)
THEOREM GuardHolds == ASSUME Serial PROVE Spec => []CoilIsGuarded
<1>1. HeaterInv => CoilIsGuarded BY InvBoundsTheAge
<1>2. QED BY <1>1, SerialHeaterInv, PTL

(* Where enable(true) is only called with the coil off and the pin was     *)
(* last driven under the polarity of its wiring, the flag the heat loop    *)
(* polls (anneal_mode.cpp:277) tells what the coil does whenever no call   *)
(* and no callback is in progress, for any number of tasks, pins and caps. *)
THEOREM FlagIsTruthful == ASSUME Serial PROVE Spec => []FlagTellsTheTruth
<1>1. HeaterInv => FlagTellsTheTruth
  <2>1. SUFFICES ASSUME HeaterInv, ~reenable, DrivenRightly, Idle, daemon = "idle"
                 PROVE  (is_active <=> Coil) /\ (safety_cutoff_fault => ~Coil)
    BY DEF FlagTellsTheTruth
  <2>2. \A S : "idle" \notin S => ~Inside(S) BY <2>1 DEF Idle, Inside
  <2>3. ~Inside({"dis_active"}) /\ ~Inside({"en_active", "pin_off"}) BY <2>2
  <2>4. FlagFollowsCoil BY <2>1 DEF HeaterInv, FlagInv
  <2>5. QED BY <2>1, <2>3, <2>4 DEF FlagFollowsCoil, Hot
<1>2. QED BY <1>1, SerialHeaterInv, PTL
=============================================================================
