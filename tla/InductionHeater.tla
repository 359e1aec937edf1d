-------------------------- MODULE InductionHeater --------------------------
(***************************************************************************)
(* src/induction_heater.c: the coil trigger pin, the flag the other tasks  *)
(* poll, and the one-shot FreeRTOS timer that cuts the coil off.           *)
(*                                                                         *)
(* Tasks run induction_heater_enable() and the REST configuration handler  *)
(* on two cores, statement by statement, next to the timer daemon that     *)
(* runs _induction_heater_safety_timeout().  Nothing locks the module.     *)
(*                                                                         *)
(* The timer queue is collapsed: a command takes effect when it is posted. *)
(* The daemon has the highest priority of all tasks, so no tick elapses    *)
(* with a command pending (guard of Tick), and the callback never looks at *)
(* the timer, so that running a queued command before or after a statement *)
(* of the callback makes no difference.                                    *)
(***************************************************************************)
EXTENDS Integers, FiniteSets

CONSTANTS
  Tasks,     \* tasks that call into the module
  RestTask,  \* the one that runs the REST handlers (lwIP's tcpip thread)
  Pins,      \* the GPIOs a client may select (range and WiFi check passed)
  NoPin,     \* no pin switch in progress
  Dwells,    \* values of max_dwell_ms, in ticks
  MaxStall,  \* the ticks a call may take because its task is preempted
  Overlap    \* may two tasks be inside the module at the same time?

ASSUME HeaterAssumption ==
  /\ RestTask \in Tasks
  /\ Pins # {} /\ NoPin \notin Pins
  /\ Dwells # {} /\ Dwells \subseteq Nat
  /\ MaxStall \in Nat
  /\ \A d \in Dwells : MaxStall < d
  /\ Overlap \in BOOLEAN

Levels == {"high", "low"}
Opposite(l) == IF l = "high" THEN "low" ELSE "high"

EnableSteps == {"en_fault", "en_period", "en_reset", "en_gpio", "en_active"}
DisableSteps == {"dis_stop", "dis_gpio", "dis_active"}
PinSteps == {"pin_release", "pin_number", "pin_init", "pin_out", "pin_off"}

VARIABLES
  active,      \* eeprom data: the level that energises the coil (active_high)
  max_dwell_ms, \* eeprom data: the cap on a dwell
  gpio_pin,    \* eeprom data: the trigger pin
  is_active, safety_cutoff_fault,
  reenable,    \* fixed by Init: is enable(true) also called with the coil on?
  outputs,     \* pins whose direction is GPIO_OUT
  latch,       \* output latch of each pin
  wiring,      \* fixed by Init: the level that really energises the coil
  driven,      \* history: the polarity in force when the pin was last driven
  armed, left, period, \* the safety timer: active?, ticks to go, its period
  daemon,      \* the statement of the callback the timer daemon is at
  pc,          \* the statement each task is at
  newPin,      \* argument of _induction_heater_apply_pin
  stall,       \* ticks spent in the current call
  heated,      \* history: ticks the coil has been on since it was last driven
  cap          \* history: the timer's period when the coil was last driven

config == <<active, max_dwell_ms, gpio_pin, reenable, wiring>>
pinVars == <<outputs, latch, driven>>
flags == <<is_active, safety_cutoff_fault>>
timer == <<armed, left, period>>
vars == <<config, flags, pinVars, timer, daemon, pc, newPin, stall,
          heated, cap>>

(* The coil is on while some pin that is an output has the level the       *)
(* wiring responds to, whatever polarity is configured.                    *)
Coil == \E p \in outputs : latch[p] = wiring

(* A drive under the other polarity does the opposite of what was meant:   *)
(* "off", the cutoff's included, then energises the coil with no timer, and *)
(* correcting the setting (i0) leaves the pin so until its next drive.     *)
(* What the module promises it can only promise of a coil that was driven  *)
(* under the polarity of its wiring.                                       *)
DrivenRightly == driven = wiring
Hot == Coil /\ DrivenRightly

Idle == \A t \in Tasks : pc[t] = "idle"

-----------------------------------------------------------------------------
(* A statement of task t: it is at `from' and goes on to `to'. *)
At(t, from, to) == pc[t] = from /\ pc' = [pc EXCEPT ![t] = to]

_induction_heater_set_gpio(on) ==
  /\ driven' = active
  /\ latch' = [latch EXCEPT ![gpio_pin] = IF on THEN active ELSE Opposite(active)]

(* Statements other than the one that drives the coil keep its age. *)
Age == heated' = (IF Coil' THEN heated ELSE 0) /\ UNCHANGED cap

MayEnter(t) == Overlap \/ Idle

(* induction_heater_enable(true), up to its first statement *)
CallEnable(t) ==
  /\ MayEnter(t)
  /\ reenable \/ (~is_active /\ daemon = "idle")
  /\ At(t, "idle", "en_fault")
  /\ stall' = [stall EXCEPT ![t] = 0]
  /\ UNCHANGED <<config, flags, pinVars, timer, daemon, newPin, heated, cap>>

EnableFault(t) ==
  /\ At(t, "en_fault", "en_period")
  /\ safety_cutoff_fault' = FALSE
  /\ UNCHANGED <<config, is_active, pinVars, timer, daemon, newPin, stall, heated, cap>>

(* xTimerChangePeriod also starts the timer *)
EnablePeriod(t) ==
  /\ At(t, "en_period", "en_reset")
  /\ armed' = TRUE /\ left' = max_dwell_ms /\ period' = max_dwell_ms
  /\ UNCHANGED <<config, flags, pinVars, daemon, newPin, stall, heated, cap>>

EnableReset(t) ==
  /\ At(t, "en_reset", "en_gpio")
  /\ armed' = TRUE /\ left' = period
  /\ UNCHANGED <<config, flags, pinVars, period, daemon, newPin, stall, heated, cap>>

EnableGpio(t) ==
  /\ At(t, "en_gpio", "en_active")
  /\ _induction_heater_set_gpio(TRUE)
  /\ heated' = 0 /\ cap' = period
  /\ UNCHANGED <<config, flags, outputs, timer, daemon, newPin, stall>>

EnableActive(t) ==
  /\ At(t, "en_active", "idle")
  /\ is_active' = TRUE
  /\ UNCHANGED <<config, safety_cutoff_fault, pinVars, timer, daemon, newPin, stall, heated, cap>>

-----------------------------------------------------------------------------
(* induction_heater_enable(false); _induction_heater_apply_pin(p) begins   *)
(* with the same call and goes on with the pin.                            *)
CallDisable(t) ==
  /\ MayEnter(t)
  /\ At(t, "idle", "dis_stop")
  /\ stall' = [stall EXCEPT ![t] = 0]
  /\ UNCHANGED <<config, flags, pinVars, timer, daemon, newPin, heated, cap>>

DisableStop(t) ==
  /\ At(t, "dis_stop", "dis_gpio")
  /\ armed' = FALSE
  /\ UNCHANGED <<config, flags, pinVars, left, period, daemon, newPin, stall, heated, cap>>

(* Seeded fault: the pin keeps its level. *)
DisableGpioForgotten(t) ==
  /\ At(t, "dis_gpio", "dis_active")
  /\ UNCHANGED <<config, flags, pinVars, timer, daemon, newPin, stall, heated, cap>>

DisableGpio(t) ==
  /\ At(t, "dis_gpio", "dis_active")
  /\ _induction_heater_set_gpio(FALSE)
  /\ UNCHANGED <<config, flags, outputs, timer, daemon, newPin, stall>>
  /\ Age

DisableActive(t) ==
  /\ At(t, "dis_active", IF newPin[t] = NoPin THEN "idle" ELSE "pin_release")
  /\ is_active' = FALSE
  /\ UNCHANGED <<config, safety_cutoff_fault, pinVars, timer, daemon, newPin, stall, heated, cap>>

(* i2: a pin that differs from the configured one is applied at once. *)
CallApplyPin(p) ==
  /\ MayEnter(RestTask)
  /\ p # gpio_pin
  /\ At(RestTask, "idle", "dis_stop")
  /\ newPin' = [newPin EXCEPT ![RestTask] = p]
  /\ stall' = [stall EXCEPT ![RestTask] = 0]
  /\ UNCHANGED <<config, flags, pinVars, timer, daemon, heated, cap>>

(* Seeded fault: the old pin stays an output. *)
PinReleaseForgotten(t) ==
  /\ At(t, "pin_release", "pin_number")
  /\ UNCHANGED <<config, flags, pinVars, timer, daemon, newPin, stall, heated, cap>>

PinRelease(t) ==
  /\ At(t, "pin_release", "pin_number")
  /\ outputs' = outputs \ {gpio_pin}
  /\ UNCHANGED <<config, flags, latch, driven, timer, daemon, newPin, stall>>
  /\ Age

PinNumber(t) ==
  /\ At(t, "pin_number", "pin_init")
  /\ gpio_pin' = newPin[t]
  /\ UNCHANGED <<active, max_dwell_ms, reenable, wiring, flags, pinVars, timer, daemon, newPin, stall, heated, cap>>

(* gpio_init: input, latch low *)
PinInit(t) ==
  /\ At(t, "pin_init", "pin_out")
  /\ outputs' = outputs \ {newPin[t]}
  /\ latch' = [latch EXCEPT ![newPin[t]] = "low"]
  /\ UNCHANGED <<config, flags, driven, timer, daemon, newPin, stall>>
  /\ Age

PinOut(t) ==
  /\ At(t, "pin_out", "pin_off")
  /\ outputs' = outputs \cup {newPin[t]}
  /\ UNCHANGED <<config, flags, latch, driven, timer, daemon, newPin, stall>>
  /\ Age

PinOff(t) ==
  /\ At(t, "pin_off", "idle")
  /\ _induction_heater_set_gpio(FALSE)
  /\ newPin' = [newPin EXCEPT ![t] = NoPin]
  /\ UNCHANGED <<config, flags, outputs, timer, daemon, stall>>
  /\ Age

-----------------------------------------------------------------------------
(* i0: the configured polarity changes; the pin is left as it is, and the  *)
(* next drive, whoever makes it, uses the new polarity.                    *)
SetActiveHigh ==
  /\ MayEnter(RestTask) /\ pc[RestTask] = "idle"
  /\ active' = Opposite(active)
  /\ UNCHANGED <<max_dwell_ms, gpio_pin, reenable, wiring, flags, pinVars, timer, daemon, pc, newPin, stall, heated, cap>>

(* i1: a running timer keeps the period it was started with. *)
SetMaxDwell(d) ==
  /\ MayEnter(RestTask) /\ pc[RestTask] = "idle"
  /\ max_dwell_ms' = d
  /\ UNCHANGED <<active, gpio_pin, reenable, wiring, flags, pinVars, timer, daemon, pc, newPin, stall, heated, cap>>

-----------------------------------------------------------------------------
(* The timer daemon: a one-shot timer that expires is no longer active and *)
(* its callback, _induction_heater_safety_timeout, starts.                 *)
Expire ==
  /\ daemon = "idle" /\ armed /\ left = 0
  /\ armed' = FALSE
  /\ daemon' = "cb_gpio"
  /\ UNCHANGED <<config, flags, pinVars, left, period, pc, newPin, stall, heated, cap>>

(* Seeded fault: the callback reports a cutoff and leaves the pin alone. *)
TimeoutGpioForgotten ==
  /\ daemon = "cb_gpio" /\ daemon' = "cb_active"
  /\ UNCHANGED <<config, flags, pinVars, timer, pc, newPin, stall, heated, cap>>

TimeoutGpio ==
  /\ daemon = "cb_gpio" /\ daemon' = "cb_active"
  /\ _induction_heater_set_gpio(FALSE)
  /\ UNCHANGED <<config, flags, outputs, timer, pc, newPin, stall>>
  /\ Age

(* Seeded fault: is_active stays TRUE after a cutoff. *)
TimeoutActiveForgotten ==
  /\ daemon = "cb_active" /\ daemon' = "cb_fault"
  /\ UNCHANGED <<config, flags, pinVars, timer, pc, newPin, stall, heated, cap>>

TimeoutActive ==
  /\ daemon = "cb_active" /\ daemon' = "cb_fault"
  /\ is_active' = FALSE
  /\ UNCHANGED <<config, safety_cutoff_fault, pinVars, timer, pc, newPin, stall, heated, cap>>

TimeoutFault ==
  /\ daemon = "cb_fault" /\ daemon' = "idle"
  /\ safety_cutoff_fault' = TRUE
  /\ UNCHANGED <<config, is_active, pinVars, timer, pc, newPin, stall, heated, cap>>

(* A tick.  The daemon has nothing left to do and no call has stalled for  *)
(* longer than MaxStall.  `heated' saturates once it has passed its cap.   *)
Tick ==
  /\ daemon = "idle" /\ ~(armed /\ left = 0)
  /\ \A t \in Tasks : pc[t] # "idle" => stall[t] < MaxStall
  /\ left' = IF armed THEN left - 1 ELSE left
  /\ stall' = [t \in Tasks |-> IF pc[t] = "idle" THEN 0 ELSE stall[t] + 1]
  /\ heated' = IF Coil /\ heated <= cap + MaxStall THEN heated + 1 ELSE heated
  /\ UNCHANGED <<config, flags, pinVars, armed, period, daemon, pc, newPin, cap>>

-----------------------------------------------------------------------------
TaskStep(t) ==
  \/ EnableFault(t) \/ EnablePeriod(t) \/ EnableReset(t) \/ EnableGpio(t)
  \/ EnableActive(t)
  \/ DisableStop(t) \/ DisableGpio(t) \/ DisableActive(t)
  \/ PinRelease(t) \/ PinNumber(t) \/ PinInit(t) \/ PinOut(t) \/ PinOff(t)

Callback == Expire \/ TimeoutGpio \/ TimeoutActive \/ TimeoutFault

RestConfig ==
  \/ SetActiveHigh
  \/ \E d \in Dwells : SetMaxDwell(d)
  \/ \E p \in Pins : CallApplyPin(p)

(* induction_heater_init: the stored configuration, the pin driven inactive *)
(* and the timer created stopped.                                          *)
Init ==
  /\ active \in Levels /\ max_dwell_ms \in Dwells /\ gpio_pin \in Pins
  /\ is_active = FALSE /\ safety_cutoff_fault = FALSE /\ reenable \in BOOLEAN
  /\ outputs = {gpio_pin} /\ latch = [p \in Pins |-> Opposite(active)]
  /\ driven = active /\ wiring \in Levels
  /\ armed = FALSE /\ left = 0 /\ period = max_dwell_ms
  /\ daemon = "idle"
  /\ pc = [t \in Tasks |-> "idle"]
  /\ newPin = [t \in Tasks |-> NoPin]
  /\ stall = [t \in Tasks |-> 0]
  /\ heated = 0 /\ cap = max_dwell_ms

Next ==
  \/ \E t \in Tasks : CallEnable(t) \/ CallDisable(t) \/ TaskStep(t)
  \/ RestConfig \/ Callback \/ Tick

Spec == Init /\ [][Next]_vars

-----------------------------------------------------------------------------
TypeOK ==
  /\ active \in Levels /\ max_dwell_ms \in Dwells /\ gpio_pin \in Pins
  /\ is_active \in BOOLEAN /\ safety_cutoff_fault \in BOOLEAN /\ reenable \in BOOLEAN
  /\ outputs \in SUBSET Pins /\ latch \in [Pins -> Levels]
  /\ driven \in Levels /\ wiring \in Levels
  /\ armed \in BOOLEAN /\ left \in Nat /\ period \in Dwells
  /\ daemon \in {"idle", "cb_gpio", "cb_active", "cb_fault"}
  /\ pc \in [Tasks -> {"idle"} \cup EnableSteps \cup DisableSteps \cup PinSteps]
  /\ newPin \in [Tasks -> Pins \cup {NoPin}]
  /\ stall \in [Tasks -> 0..MaxStall]
  /\ heated \in Nat /\ cap \in Dwells

(* The cap of induction_heater.h:15: a coil that was driven under the      *)
(* polarity of its wiring is never on for longer than the max_dwell_ms its *)
(* timer was given, plus the time a call in progress has taken; the        *)
(* polarity may have been changed since, and the pin and the cap as well.  *)
(* A drive under a wrong polarity is excluded: it energises the coil when  *)
(* it means to switch it off, and nothing bounds that.                     *)
HardCap == Coil /\ DrivenRightly => heated <= cap + MaxStall

(* When no call is in progress a coil that is on, and was driven under the *)
(* polarity of its wiring, has its timer running, or the callback is about *)
(* to switch it off (induction_heater.h:38).  A drive under a wrong        *)
(* polarity is excluded, as in HardCap.                                    *)
CoilIsGuarded == Idle /\ Coil /\ DrivenRightly => armed \/ daemon = "cb_gpio"

(* Where enable(true) is only called with the coil off, is_active, which   *)
(* the heat loop polls (anneal_mode.cpp:277), says what the coil does when *)
(* neither a call nor the callback is in progress, and a cutoff that was   *)
(* reported did cut.  (A call that re-enables the coil may meet the        *)
(* callback half-way and leave the flag and the pin apart; and where the   *)
(* pin was last driven under a wrong polarity the flag tells the opposite.) *)
FlagTellsTheTruth ==
  ~reenable /\ DrivenRightly /\ Idle /\ daemon = "idle" =>
    /\ is_active <=> Coil
    /\ safety_cutoff_fault => ~Coil

-----------------------------------------------------------------------------
(* The inductive invariant behind HardCap, for calls that do not overlap.  *)
(* Each part says what holds while some task is at a statement; the parts  *)
(* of a call that is under way bound the age of a Hot coil by the time the *)
(* call has taken so far.                                                  *)
OneCall == \A t, u \in Tasks : pc[t] # "idle" /\ pc[u] # "idle" => t = u

OnlyTheTriggerPin ==
  /\ outputs \subseteq {gpio_pin}
  /\ \A t \in Tasks :
       /\ pc[t] \in {"pin_number", "pin_init", "pin_out"} => outputs = {}
       /\ pc[t] \in {"pin_init", "pin_out"} => newPin[t] = gpio_pin
       /\ pc[t] \in PinSteps => newPin[t] \in Pins

ColdHasNoAge == ~Coil => heated = 0

Guarded ==
  \/ armed /\ heated + left <= cap
  \/ daemon = "cb_gpio" /\ heated <= cap

GuardedBetweenCalls == Idle /\ Hot => Guarded

DuringCall(t) ==
  /\ pc[t] \in {"en_fault", "en_period", "en_reset", "en_gpio", "dis_stop", "dis_gpio"}
       => (Hot => heated <= cap + stall[t])
  /\ pc[t] \in {"en_reset", "en_gpio"} =>
       armed /\ left <= period /\ period <= left + stall[t]
  /\ pc[t] = "en_active" => (Hot => Guarded)
  /\ pc[t] \in {"dis_active", "pin_release"} => ~Hot
  /\ pc[t] = "pin_off" => (Hot => heated <= stall[t])

(* The inductive form of FlagTellsTheTruth: what the flags and the timer   *)
(* have to say while a call or the callback is between two statements.     *)
Inside(S) == \E t \in Tasks : pc[t] \in S

TriggerPinIsOutput ==
  Inside({"pin_number", "pin_init", "pin_out"}) \/ gpio_pin \in outputs

EnableMeetsNoCallback ==
  /\ Inside(EnableSteps) => daemon = "idle" /\ ~is_active
  /\ Inside(EnableSteps \ {"en_fault"}) => ~safety_cutoff_fault
  /\ Inside({"en_active"}) /\ DrivenRightly => Coil
  /\ \A t \in Tasks : pc[t] = "en_active" => armed /\ period <= left + stall[t]

TimerImpliesHeat ==
  /\ armed => is_active \/ Inside({"en_reset", "en_gpio", "en_active"})
  /\ Inside({"dis_gpio", "dis_active"} \cup PinSteps) => ~armed
  /\ Inside(PinSteps) => ~is_active
  /\ daemon # "idle" => ~armed

FlagFollowsCoil ==
  /\ is_active /\ DrivenRightly => Coil \/ daemon = "cb_active" \/ Inside({"dis_active"})
  /\ Hot => is_active \/ Inside({"en_active", "pin_off"})
  /\ daemon \in {"cb_active", "cb_fault"} => ~Hot \/ Inside({"pin_off"})
  /\ daemon = "cb_fault" \/ safety_cutoff_fault => ~is_active

FlagInv ==
  /\ TriggerPinIsOutput
  /\ ~reenable => EnableMeetsNoCallback /\ TimerImpliesHeat /\ FlagFollowsCoil

HeaterInv ==
  /\ TypeOK
  /\ OneCall
  /\ OnlyTheTriggerPin
  /\ ColdHasNoAge
  /\ GuardedBetweenCalls
  /\ \A t \in Tasks : DuringCall(t)
  /\ FlagInv
=============================================================================
