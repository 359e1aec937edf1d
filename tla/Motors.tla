------------------------------- MODULE Motors -------------------------------
(***************************************************************************)
(* The feeder motor (motors.c).  motors_init talks to the TMC2209 driver   *)
(* and, only if that works, creates a two-place speed queue and the task   *)
(* that serves it.  Callers (the menu task, the REST handlers) block on    *)
(* the queue; the task ramps the PIO pulse generator, down to zero first   *)
(* when the direction changes, on a 32-bit microsecond clock that wraps.   *)
(* Speeds are small integers, the clock counts modulo TimeMod.             *)
(***************************************************************************)
EXTENDS Integers, Sequences

CONSTANTS Callers,      \* tasks that set the feeder's speed
          Velocities,   \* velocities they ask for; the sign is the direction
          Ramps,        \* clock ticks per unit of speed; 0: acceleration 0
          MinRate,      \* slowest speed whose period is under 10 ms
          MaxRate,      \* fastest speed whose period exceeds the low time
          TimeMod,      \* values of time_us_32
          MaxPoll,      \* clock ticks between two looks at the clock
          IfcntMod      \* values of the driver's write counter

ASSUME MotorAssumption ==
    /\ Velocities \subseteq Int /\ Ramps \subseteq Nat
    /\ {MinRate, MaxRate, TimeMod, MaxPoll, IfcntMod} \subseteq Nat \ {0}

NoSpeed == <<>>       \* no call under way, else <<speed>>

VARIABLES motor_init,   \* "NONE" before motors_init, then what it returned
          ifcnt,        \* the driver's count of writes it has accepted
          motor_ramp,   \* the configured acceleration, as a ramp
          boot_direction, \* step_direction as motor_config_init set it
          dir_pin,      \* the DIR pin (and step_direction)
          en_pin,       \* the feeder is energised
          speed_queue,  \* stepper_speed_control_queue, two places
          speed_call,   \* per caller: the speed it waits to queue, or NoSpeed
          feeder,       \* the stepper_speed_control_task
          pulses        \* the rate the PIO generates, 0: none

motor_vars == <<motor_init, ifcnt, motor_ramp, boot_direction, dir_pin,
                en_pin, speed_queue, speed_call, feeder, pulses>>

Size(x) == IF x < 0 THEN -x ELSE x

Waiting(v) == [step |-> "wait", prev_velocity |-> v]

MotorOff ==
    /\ motor_init = "NONE" /\ boot_direction = FALSE /\ dir_pin = FALSE
    /\ en_pin = FALSE /\ speed_queue = <<>> /\ feeder = Waiting(0)
    /\ speed_call = [c \in Callers |-> NoSpeed]
    /\ motor_ramp = 0 /\ pulses = 0

MotorInit == ifcnt = 0 /\ MotorOff

-----------------------------------------------------------------------------
(* Boot                                                                    *)

(* tmc2209_init: the write that clears the status, the counter read, seven *)
(* more writes, and the counter again: compared as an int, not modulo.     *)
Counted == (ifcnt + 1) % IfcntMod
CountedAgain == (Counted + 7) % IfcntMod
DriverAnswers == CountedAgain - Counted = 7

(* driver_init: no memory, no answer before or after the writes, or what   *)
(* tmc2209_init finds.                                                     *)
DriverInit(ok) ==
    \/ ~ok /\ ifcnt' \in {ifcnt, CountedAgain}
    \/ (ok <=> DriverAnswers) /\ ifcnt' = CountedAgain

(* motor_config_init: the direction and acceleration the EEPROM holds.     *)
MotorConfigInit(inverted) == boot_direction' = inverted /\ motor_ramp' \in Ramps

(* driver_io_init: outputs, disabled, at the initial direction.            *)
DriverIoInit == dir_pin' = boot_direction' /\ en_pin' = FALSE

(* driver_pio_init: no state machine or no room for the program.           *)
DriverPioInit(ok) == ok \/ motor_init' = "PIO_ERR"

(* What motors_init returned, as handle_motor_init_error records it.       *)
InitError(err) == motor_init' = err

(* motors_init.  Nothing after a failure is done: no queue and no task.    *)
(* The spare motor's driver may fail, its pulse generator may not.         *)
MotorsInit(inverted) ==
    /\ motor_init = "NONE"
    /\ \/ InitError("CFG_ERR") /\ UNCHANGED <<ifcnt, motor_ramp, boot_direction, dir_pin, en_pin>>
       \/ /\ MotorConfigInit(inverted) /\ DriverIoInit
          /\ \/ DriverPioInit(FALSE) /\ (UNCHANGED ifcnt \/ DriverInit(TRUE))
             \/ DriverPioInit(TRUE) /\ DriverInit(FALSE) /\ InitError("FEEDER_DRV_ERR")
             \/ DriverPioInit(TRUE) /\ DriverInit(TRUE) /\ InitError("OK")
    /\ UNCHANGED <<speed_queue, speed_call, feeder, pulses>>

(* The controller restarts; the driver, on the motor's supply, may not.    *)
MotorRestart ==
    /\ motor_init # "NONE"
    /\ motor_init' = "NONE" /\ ifcnt' \in {0, ifcnt} /\ dir_pin' = FALSE
    /\ boot_direction' = FALSE /\ en_pin' = FALSE /\ speed_queue' = <<>>
    /\ speed_call' = [c \in Callers |-> NoSpeed] /\ feeder' = Waiting(0)
    /\ pulses' = 0 /\ motor_ramp' = 0

-----------------------------------------------------------------------------
(* Callers                                                                 *)

HasQueue == motor_init = "OK"

(* motor_set_speed: without a queue nothing happens; otherwise the call    *)
(* is under way until there is room.                                       *)
Requests(c, v) == speed_call' = [speed_call EXCEPT ![c] =
                                    IF HasQueue THEN <<v>> ELSE NoSpeed]

MotorSetSpeed(c, v) ==
    /\ motor_init # "NONE" /\ speed_call[c] = NoSpeed
    /\ Requests(c, v)
    /\ UNCHANGED <<motor_init, ifcnt, motor_ramp, boot_direction, dir_pin,
                   en_pin, speed_queue, feeder, pulses>>

(* motor_enable: the pin first; disabling also asks for speed 0.           *)
MotorEnable(c, enable) ==
    /\ motor_init # "NONE" /\ speed_call[c] = NoSpeed
    /\ en_pin' = enable
    /\ IF enable THEN UNCHANGED speed_call ELSE Requests(c, 0)
    /\ UNCHANGED <<motor_init, ifcnt, motor_ramp, boot_direction, dir_pin,
                   speed_queue, feeder, pulses>>

(* xQueueSend with portMAX_DELAY returns.                                  *)
MotorSent(c) ==
    /\ speed_call[c] # NoSpeed /\ Len(speed_queue) < 2
    /\ speed_queue' = speed_queue \o speed_call[c]
    /\ speed_call' = [speed_call EXCEPT ![c] = NoSpeed]
    /\ UNCHANGED <<motor_init, ifcnt, motor_ramp, boot_direction, dir_pin,
                   en_pin, feeder, pulses>>

(* apply_rest_motor_config: the acceleration acts on the next ramp, the    *)
(* direction and the driver's settings on the next boot.                   *)
MotorConfigure ==
    /\ motor_init # "NONE" /\ motor_ramp' \in Ramps
    /\ UNCHANGED <<motor_init, ifcnt, boot_direction, dir_pin, en_pin,
                   speed_queue, speed_call, feeder, pulses>>

-----------------------------------------------------------------------------
(* stepper_speed_control_task                                              *)

(* speed_to_period: too slow for the response limit, negative, not a       *)
(* number, or too fast for the low time: a zero period, no pulses.         *)
Rate(speed) == IF speed \in MinRate..MaxRate THEN speed ELSE 0

Elapsed(r) == (r.now - r.start) % TimeMod

(* Where a ramp stands: dv * percentage, 0/0 when it takes no time.        *)
Between(r) ==
    CASE r.span = 0 -> -1
      [] r.span # 0 /\ r.from <= r.to ->
            r.from + ((r.to - r.from) * Elapsed(r)) \div r.span
      [] OTHER -> r.from - ((r.from - r.to) * Elapsed(r)) \div r.span

(* The start of speed_ramp: dv / 0 saturates, 0 / 0 converts to 0.         *)
Span(from, to) ==
    IF motor_ramp = 0 /\ from # to THEN TimeMod - 1
                                          ELSE Size(to - from) * motor_ramp

Ramp(leg, from, to, velocity, now) ==
    [step |-> "ramp", leg |-> leg, from |-> from, to |-> to, start |-> now,
     now |-> now, span |-> Span(from, to), new_velocity |-> velocity,
     prev_velocity |-> feeder.prev_velocity]

(* Bug for FeederInv: 0 counts as backward.                                *)
ForwardStrictly(v) == v > 0

Forward(v) == v >= 0

(* xQueueReceive: a new velocity, at any moment of the clock; in the same  *)
(* direction one ramp, else first down to 0.  0 counts as forward.         *)
MotorReceive ==
    /\ HasQueue /\ feeder.step = "wait" /\ speed_queue # <<>>
    /\ LET v == Head(speed_queue)
           p == feeder.prev_velocity
       IN \E now \in 0..TimeMod - 1 :
              feeder' = IF Forward(v) <=> Forward(p)
                          THEN Ramp("only", Size(p), Size(v), v, now)
                          ELSE Ramp("down", Size(p), 0, v, now)
    /\ speed_queue' = Tail(speed_queue)
    /\ UNCHANGED <<motor_init, ifcnt, motor_ramp, boot_direction, dir_pin,
                   en_pin, speed_call, pulses>>

(* The loop of speed_ramp ends when the clock is past the stop time: the   *)
(* two 32-bit times themselves are compared, not their difference.         *)
RampOver(r) == r.now > (r.start + r.span) % TimeMod

(* One turn of the loop, or its end with the final speed.                  *)
MotorRamp ==
    /\ feeder.step = "ramp"
    /\ IF RampOver(feeder)
         THEN /\ pulses' = Rate(feeder.to)
              /\ feeder' = IF feeder.leg = "down"
                             THEN [feeder EXCEPT !.step = "turn"]
                             ELSE Waiting(feeder.new_velocity)
         ELSE /\ pulses' = Rate(Between(feeder))
              /\ \E d \in 1..MaxPoll :
                     feeder' = [feeder EXCEPT !.now = (@ + d) % TimeMod]
    /\ UNCHANGED <<motor_init, ifcnt, motor_ramp, boot_direction, dir_pin,
                   en_pin, speed_queue, speed_call>>

(* Between two ramps: toggle the direction, ramp up from 0.                *)
MotorTurn ==
    /\ feeder.step = "turn"
    /\ dir_pin' = ~dir_pin
    /\ feeder' = Ramp("up", 0, Size(feeder.new_velocity), feeder.new_velocity,
                      feeder.now)
    /\ UNCHANGED <<motor_init, ifcnt, motor_ramp, boot_direction, en_pin,
                   speed_queue, speed_call, pulses>>

MotorTask == MotorReceive \/ MotorRamp \/ MotorTurn

MotorNext ==
    \/ \E inverted \in BOOLEAN : MotorsInit(inverted)
    \/ MotorRestart \/ MotorConfigure \/ MotorTask
    \/ \E c \in Callers :
           \/ \E v \in Velocities : MotorSetSpeed(c, v)
           \/ \E on \in BOOLEAN : MotorEnable(c, on)
           \/ MotorSent(c)

MotorSpec == MotorInit /\ [][MotorNext]_motor_vars

-----------------------------------------------------------------------------
(* Properties                                                              *)

Speeds == Velocities \cup {0}

MotorTypeOK ==
    /\ motor_init \in {"NONE", "CFG_ERR", "PIO_ERR", "FEEDER_DRV_ERR", "OK"}
    /\ ifcnt \in 0..IfcntMod - 1
    /\ motor_ramp \in Ramps \cup {0}
    /\ {boot_direction, dir_pin, en_pin} \subseteq BOOLEAN
    /\ feeder \in [step : {"wait"}, prev_velocity : Speeds] \cup
                   [step : {"ramp", "turn"}, leg : {"only", "down", "up"},
                    from : Nat, to : Nat, start : 0..TimeMod - 1,
                    now : 0..TimeMod - 1, span : Nat,
                    new_velocity : Speeds, prev_velocity : Speeds]
    /\ speed_queue \in Seq(Speeds) /\ Len(speed_queue) <= 2
    /\ speed_call \in [Callers -> Seq(Speeds)]
    /\ \A c \in Callers : Len(speed_call[c]) <= 1
    /\ pulses \in 0..MaxRate

(* The velocity the feeder moves towards or, before it turns, away from.   *)
Heading == IF feeder.step = "ramp" /\ feeder.leg = "up"
             THEN feeder.new_velocity ELSE feeder.prev_velocity

(* A ramp whose stop time the clock can jump over before it wraps.         *)
MeetsTheWrap(r) == r.start + r.span >= TimeMod - MaxPoll

(* Between which speeds each leg goes, and that only a change of direction *)
(* goes through 0.                                                         *)
LegFits ==
    feeder.step # "wait" =>
        /\ feeder.from = IF feeder.leg = "up" THEN 0 ELSE Size(feeder.prev_velocity)
        /\ feeder.to = IF feeder.leg = "down" THEN 0 ELSE Size(feeder.new_velocity)
        /\ feeder.leg = "only" <=>
                (Forward(feeder.new_velocity) <=> Forward(feeder.prev_velocity))
        /\ feeder.step = "turn" => feeder.leg = "down"

InTime ==
    feeder.step = "ramp" /\ ~MeetsTheWrap(feeder) =>
        feeder.start <= feeder.now /\ feeder.now <= feeder.start + feeder.span + MaxPoll

(* The feeder (motors.c): without an initialised driver nothing is ever    *)
(* queued or blocked and no pulse is made; the DIR pin always tells the    *)
(* direction of the velocity the pulses belong to, so it is only toggled   *)
(* at a standstill; and a ramp that does not meet the wrap of the clock    *)
(* stays below both of its speeds and ends when its time is over.          *)
FeederInv ==
    /\ MotorTypeOK /\ LegFits /\ InTime
    /\ ~HasQueue => /\ speed_queue = <<>> /\ feeder = Waiting(0) /\ pulses = 0
                    /\ \A c \in Callers : speed_call[c] = NoSpeed
    /\ HasQueue => dir_pin = (boot_direction # (Heading < 0))
    /\ feeder.step = "turn" => pulses = 0
    /\ feeder.step = "wait" => pulses = Rate(Size(feeder.prev_velocity))
    /\ feeder.step = "ramp" /\ ~MeetsTheWrap(feeder) =>
           /\ feeder.leg = "up" /\ feeder.now = feeder.start => pulses = 0
           /\ pulses <= IF feeder.from < feeder.to THEN feeder.to ELSE feeder.from
           /\ Elapsed(feeder) <= feeder.span + MaxPoll

=============================================================================
