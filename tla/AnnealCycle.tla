---------------------------- MODULE AnnealCycle ----------------------------
(***************************************************************************)
(* src/anneal_mode.cpp: a run of the annealing cycle as the menu task      *)
(* executes it, next to the lwIP thread that serves                        *)
(* /rest/anneal_mode_state and /rest/anneal_mode_config, the button        *)
(* interrupts, the heater's safety timer and the temperature sensor.       *)
(*                                                                         *)
(* The heater, the servo and the feeder motor are what their own modules   *)
(* promise: the coil is on until it is switched off or the safety timer    *)
(* cuts it; a blocking move of the holder ends with the holder in place;   *)
(* the feeder turns while a speed is commanded.  A tick is one iteration   *)
(* of the 20 ms poll loop of anneal_mode_heat.  Statements take no time:   *)
(* a delay or a move of the holder only ends when the REST handler is not  *)
(* in the middle of a request, unless it is blocked by the full queue.     *)
(***************************************************************************)
EXTENDS Integers, Sequences

CONSTANTS
  QueueLength, \* places in encoder_event_queue
  Requests,    \* the states that careless clients ask for
  Counts,      \* values of cycle_count; 0 means run until stopped
  CountWrap,   \* cases_completed is computed modulo this (2^32)
  Dwells,      \* values of the profile's dwell_time_ms, in ticks
  Caps         \* values of the heater's max_dwell_ms, in ticks

States == {"EXIT", "HOLD", "FEED", "HEAT", "DROP", "COOLDOWN"}
Events == {"RST", "PRESS", "OVERRIDE"}  \* rotations are treated like presses

ASSUME CycleAssumption ==
  /\ {"EXIT", "HOLD"} \subseteq Requests /\ Requests \subseteq States
  /\ QueueLength \in Nat \ {0}
  /\ CountWrap \in Nat \ {0}
  /\ Counts # {} /\ Counts \subseteq 0..(CountWrap - 1)
  /\ Dwells # {} /\ Dwells \subseteq Nat
  /\ Caps # {} /\ Caps \subseteq Nat

VARIABLES
  anneal_mode_state,          \* shared by the menu task and the REST handler
  cycle_count, use_temperature_mode,
  cases_completed, safety_limit_hit_last_case,
  encoder_event_queue,
  at,                         \* the statement the menu task is at
  use_temp_target, has_time_limit, aborted, \* locals of anneal_mode_heat
  elapsed,                    \* ticks since heat_start_tick
  limit,                      \* history: the elapsed time that ends the heat
  coil, feeder, feeder_enabled, holder,
  case,                       \* history: the case this run is working on
  stopped,                    \* history: this run was asked to stop
  rest, new_state,            \* the REST handler: its statement, its argument
  dwell, max_dwell, sensor_present, careless  \* fixed by Init

config == <<cycle_count, use_temperature_mode>>
batch == <<cases_completed, safety_limit_hit_last_case>>
heat == <<use_temp_target, has_time_limit, aborted, elapsed, limit>>
machine == <<coil, feeder, feeder_enabled, holder, case>>
restVars == <<rest, new_state>>
fixed == <<dwell, max_dwell, sensor_present, careless>>
vars == <<anneal_mode_state, config, batch, encoder_event_queue, at, heat, machine,
          stopped, restVars, fixed>>

(* `case' follows the case itself: not fed yet, in the holder, heated, out *)
(* of the holder, counted; "double" is a second case in the holder.        *)
Cases == {"none", "cold", "hot", "out", "counted", "double"}

Running == at # "menu"
Room == Len(encoder_event_queue) < QueueLength
TimePasses == rest = "idle" \/ (rest = "send" /\ ~Room)
Least(a, b) == IF a < b THEN a ELSE b
Most(a, b) == IF a < b THEN b ELSE a

-----------------------------------------------------------------------------
(* button_wait_for_input: take an event if there is one. *)
Poll == encoder_event_queue' =
          IF encoder_event_queue = <<>> THEN <<>> ELSE Tail(encoder_event_queue)

RstPolled == encoder_event_queue # <<>> /\ Head(encoder_event_queue) = "RST"

(* The step that finds RST and leaves the run. *)
ExitOnRst ==
  /\ RstPolled /\ Poll
  /\ anneal_mode_state' = "EXIT"
  /\ at' = "dispatch"
  /\ stopped' = TRUE
  /\ UNCHANGED <<config, batch, heat, machine, restVars, fixed>>

(* The menu task ends a step of the cycle. *)
GoTo(s) == anneal_mode_state' = s /\ at' = "dispatch"

At(s) == at = "dispatch" /\ anneal_mode_state = s

-----------------------------------------------------------------------------
(* anneal_mode_menu up to its loop: entered from the LCD form with the     *)
(* count dialled there, or, on OVERRIDE, with the count REST has set.      *)
StartRun(from_rest) ==
  /\ at = "menu" /\ encoder_event_queue # <<>> /\ Poll
  /\ Head(encoder_event_queue) = IF from_rest THEN "OVERRIDE" ELSE "PRESS"
  /\ IF from_rest THEN cycle_count' = cycle_count ELSE cycle_count' \in Counts
  /\ feeder_enabled' = TRUE
  /\ cases_completed' = 0
  /\ GoTo("HOLD")
  /\ safety_limit_hit_last_case' = FALSE
  /\ UNCHANGED <<use_temperature_mode, heat, coil, feeder, holder, case, stopped, restVars, fixed>>

(* menu_task outside a mode: RST and most presses move about in the menus. *)
Navigate ==
  /\ at = "menu" /\ encoder_event_queue # <<>>
  /\ Head(encoder_event_queue) # "OVERRIDE"
  /\ Poll
  /\ UNCHANGED <<anneal_mode_state, config, batch, at, heat, machine, stopped, restVars, fixed>>

(* Seeded fault: the move to HOLD is asked for without waiting. *)
HoldBeginNoWait ==
  /\ At("HOLD") /\ ~RstPolled /\ Poll
  /\ holder' = IF holder = "HOLD" THEN "HOLD" ELSE "MOVING"
  /\ GoTo("FEED")
  /\ UNCHANGED <<config, batch, heat, coil, feeder, feeder_enabled, case, stopped, restVars, fixed>>

HoldBegin ==
  /\ At("HOLD") /\ ~RstPolled /\ Poll
  /\ holder' = IF holder = "HOLD" THEN "HOLD" ELSE "MOVING"
  /\ at' = "hold_move"
  /\ UNCHANGED <<anneal_mode_state, config, batch, heat, coil, feeder, feeder_enabled, case, stopped, restVars, fixed>>

HoldDone ==
  /\ at = "hold_move" /\ TimePasses
  /\ holder' = "HOLD"
  /\ GoTo("FEED")
  /\ UNCHANGED <<config, batch, encoder_event_queue, heat, coil, feeder, feeder_enabled, case, stopped, restVars, fixed>>

FeedBegin ==
  /\ At("FEED") /\ ~RstPolled /\ Poll
  /\ feeder' = TRUE
  /\ at' = "feed_run"
  /\ UNCHANGED <<anneal_mode_state, config, batch, heat, coil, feeder_enabled, holder, case, stopped, restVars, fixed>>

FeedStop ==
  /\ at = "feed_run" /\ TimePasses
  /\ feeder' = FALSE
  /\ case' = IF case = "none" THEN "cold" ELSE "double"
  /\ at' = "feed_settle"
  /\ UNCHANGED <<anneal_mode_state, config, batch, encoder_event_queue, heat, coil, feeder_enabled, holder, stopped, restVars, fixed>>

FeedDone ==
  /\ at = "feed_settle" /\ TimePasses
  /\ GoTo("HEAT")
  /\ UNCHANGED <<config, batch, encoder_event_queue, heat, machine, stopped, restVars, fixed>>

-----------------------------------------------------------------------------
(* anneal_mode_heat.  sensor_present also stands for a profile with a      *)
(* target temperature.  At each poll the sensor may be healthy or not, and *)
(* its reading below the target or not.                                    *)
HeatBegin ==
  /\ At("HEAT")
  /\ coil' = TRUE
  /\ use_temp_target' = (use_temperature_mode /\ sensor_present)
  /\ has_time_limit' = ~use_temp_target'
  /\ elapsed' = 0 /\ aborted' = FALSE
  /\ limit' = IF use_temp_target' THEN max_dwell ELSE Least(dwell, max_dwell)
  /\ case' = IF case = "cold" THEN "hot" ELSE case
  /\ at' = "heat"
  /\ UNCHANGED <<anneal_mode_state, config, batch, encoder_event_queue, feeder, feeder_enabled, holder, stopped, restVars, fixed>>

(* Seeded fault: one poll too many. *)
WithinLimitLate == ~has_time_limit \/ elapsed <= dwell

WithinLimit == ~has_time_limit \/ elapsed < dwell

HeatTimeOver ==
  /\ at = "heat" /\ ~WithinLimit
  /\ at' = "heat_off"
  /\ UNCHANGED <<anneal_mode_state, config, batch, encoder_event_queue, heat, machine, stopped, restVars, fixed>>

HeatAbort ==
  /\ at = "heat" /\ WithinLimit /\ RstPolled /\ Poll
  /\ aborted' = TRUE /\ stopped' = TRUE
  /\ at' = "heat_off"
  /\ UNCHANGED <<anneal_mode_state, config, batch, use_temp_target, has_time_limit, elapsed, limit, machine, restVars, fixed>>

(* Seeded fault: the cutoff ends the heating and is not remembered. *)
HeatCutoffForgotten ==
  /\ at = "heat" /\ WithinLimit /\ ~RstPolled /\ Poll
  /\ ~coil
  /\ at' = "heat_off"
  /\ UNCHANGED <<anneal_mode_state, config, batch, heat, machine, stopped, restVars, fixed>>

HeatCutoffSeen ==
  /\ at = "heat" /\ WithinLimit /\ ~RstPolled /\ Poll
  /\ ~coil
  /\ safety_limit_hit_last_case' = TRUE
  /\ at' = "heat_off"
  /\ UNCHANGED <<anneal_mode_state, config, cases_completed, heat, machine, stopped, restVars, fixed>>

HeatTargetReached ==
  /\ at = "heat" /\ WithinLimit /\ ~RstPolled /\ Poll
  /\ coil /\ use_temp_target
  /\ at' = "heat_off"
  /\ UNCHANGED <<anneal_mode_state, config, batch, heat, machine, stopped, restVars, fixed>>

(* Fall back to dwell_time_ms; the loop delays before it looks again. *)
HeatSensorLost ==
  /\ at = "heat" /\ WithinLimit /\ ~RstPolled /\ Poll
  /\ coil /\ use_temp_target
  /\ use_temp_target' = FALSE /\ has_time_limit' = TRUE
  /\ limit' = Least(Most(elapsed + 1, dwell), max_dwell)
  /\ at' = "heat_delay"
  /\ UNCHANGED <<anneal_mode_state, config, batch, aborted, elapsed, machine, stopped, restVars, fixed>>

HeatContinue ==
  /\ at = "heat" /\ WithinLimit /\ ~RstPolled /\ Poll
  /\ coil
  /\ at' = "heat_delay"
  /\ UNCHANGED <<anneal_mode_state, config, batch, heat, machine, stopped, restVars, fixed>>

(* 20 ms pass.  The safety timer fires before they do if it is due. *)
HeatTick ==
  /\ at = "heat_delay" /\ TimePasses
  /\ ~(coil /\ elapsed >= max_dwell)
  /\ elapsed' = elapsed + 1
  /\ at' = "heat"
  /\ UNCHANGED <<anneal_mode_state, config, batch, encoder_event_queue, use_temp_target, has_time_limit, aborted, limit, machine, stopped, restVars, fixed>>

(* Nobody reads the locals of a heat step that is over. *)
ForgetLocals ==
  /\ elapsed' = 0 /\ limit' = 0
  /\ use_temp_target' = FALSE /\ has_time_limit' = FALSE /\ aborted' = FALSE

(* Seeded faults: a cutoff ends the run without a drop; an abort does not  *)
(* end it.                                                                 *)
HeatOffCutoffExits ==
  /\ at = "heat_off"
  /\ coil' = FALSE
  /\ GoTo(IF aborted \/ safety_limit_hit_last_case THEN "EXIT" ELSE "DROP")
  /\ ForgetLocals
  /\ UNCHANGED <<config, batch, encoder_event_queue, feeder, feeder_enabled, holder, case, stopped, restVars, fixed>>

HeatOffAlwaysDrops ==
  /\ at = "heat_off"
  /\ coil' = FALSE
  /\ GoTo("DROP")
  /\ ForgetLocals
  /\ UNCHANGED <<config, batch, encoder_event_queue, feeder, feeder_enabled, holder, case, stopped, restVars, fixed>>

HeatOff ==
  /\ at = "heat_off"
  /\ coil' = FALSE
  /\ GoTo(IF aborted THEN "EXIT" ELSE "DROP")
  /\ ForgetLocals
  /\ UNCHANGED <<config, batch, encoder_event_queue, feeder, feeder_enabled, holder, case, stopped, restVars, fixed>>

(* _induction_heater_safety_timeout *)
Cutoff ==
  /\ coil /\ elapsed >= max_dwell
  /\ coil' = FALSE
  /\ UNCHANGED <<anneal_mode_state, config, batch, encoder_event_queue, at, heat, feeder, feeder_enabled, holder, case, stopped, restVars, fixed>>

-----------------------------------------------------------------------------
DropBegin ==
  /\ At("DROP")
  /\ holder' = IF holder = "DROP" THEN "DROP" ELSE "MOVING"
  /\ at' = "drop_move"
  /\ UNCHANGED <<anneal_mode_state, config, batch, encoder_event_queue, heat, coil, feeder, feeder_enabled, case, stopped, restVars, fixed>>

DropDone ==
  /\ at = "drop_move" /\ TimePasses
  /\ holder' = "DROP"
  /\ case' = IF case \in {"cold", "hot", "double"} THEN "out" ELSE case
  /\ at' = "drop_delay"
  /\ UNCHANGED <<anneal_mode_state, config, batch, encoder_event_queue, heat, coil, feeder, feeder_enabled, stopped, restVars, fixed>>

DropCount ==
  /\ at = "drop_delay" /\ TimePasses
  /\ cases_completed' = (cases_completed + 1) % CountWrap
  /\ case' = IF case = "out" THEN "counted" ELSE case
  /\ GoTo("COOLDOWN")
  /\ UNCHANGED <<config, safety_limit_hit_last_case, encoder_event_queue, heat, coil, feeder, feeder_enabled, holder, stopped, restVars, fixed>>

TargetMet == cycle_count # 0 /\ cases_completed >= cycle_count

CooldownEnd ==
  /\ At("COOLDOWN")
  /\ safety_limit_hit_last_case \/ TargetMet
  /\ safety_limit_hit_last_case' = FALSE
  /\ GoTo("EXIT")
  /\ UNCHANGED <<config, cases_completed, encoder_event_queue, heat, machine, stopped, restVars, fixed>>

CooldownBegin ==
  /\ At("COOLDOWN")
  /\ ~safety_limit_hit_last_case /\ ~TargetMet
  /\ at' = "cooldown"
  /\ case' = IF case = "counted" THEN "none" ELSE case
  /\ UNCHANGED <<anneal_mode_state, config, batch, encoder_event_queue, heat, coil, feeder, feeder_enabled, holder, stopped, restVars, fixed>>

CooldownPoll ==
  /\ at = "cooldown" /\ encoder_event_queue # <<>> /\ ~RstPolled /\ Poll
  /\ UNCHANGED <<anneal_mode_state, config, batch, at, heat, machine, stopped, restVars, fixed>>

(* Seeded fault: the next case is fed without moving the holder back. *)
CooldownOverFeeds ==
  /\ at = "cooldown" /\ TimePasses
  /\ GoTo("FEED")
  /\ UNCHANGED <<config, batch, encoder_event_queue, heat, machine, stopped, restVars, fixed>>

CooldownOver ==
  /\ at = "cooldown" /\ TimePasses
  /\ GoTo("HOLD")
  /\ UNCHANGED <<config, batch, encoder_event_queue, heat, machine, stopped, restVars, fixed>>

(* The steps that poll the buttons: hold, feed and cooldown. *)
RstInStep == (At("HOLD") \/ At("FEED") \/ at = "cooldown") /\ ExitOnRst

-----------------------------------------------------------------------------
(* The end of anneal_mode_menu.  A case left in the holder is the          *)
(* operator's to remove.                                                   *)
ExitHeater ==
  /\ At("EXIT")
  /\ coil' = FALSE
  /\ at' = "exit_motor"
  /\ UNCHANGED <<anneal_mode_state, config, batch, encoder_event_queue, heat, feeder, feeder_enabled, holder, case, stopped, restVars, fixed>>

(* Seeded fault: the feeder's driver is left enabled. *)
ExitMotorLeftOn ==
  /\ at = "exit_motor"
  /\ feeder' = FALSE
  /\ at' = "menu"
  /\ case' = "none" /\ stopped' = FALSE
  /\ UNCHANGED <<anneal_mode_state, config, batch, encoder_event_queue, heat, coil, feeder_enabled, holder, restVars, fixed>>

ExitMotor ==
  /\ at = "exit_motor"
  /\ feeder_enabled' = FALSE /\ feeder' = FALSE
  /\ at' = "menu"
  /\ case' = "none" /\ stopped' = FALSE
  /\ UNCHANGED <<anneal_mode_state, config, batch, encoder_event_queue, heat, coil, holder, restVars, fixed>>

-----------------------------------------------------------------------------
(* http_rest_anneal_mode_state with s2 = s: a stop of what runs and a      *)
(* start of what does not are also sent to the menu task.  A careful       *)
(* client sends EXIT at any time and HOLD only while nothing runs and no   *)
(* button event is pending; the handler itself refuses no value.           *)
RestRequest(s) ==
  /\ rest = "idle"
  /\ careless \/ s = "EXIT" \/ (s = "HOLD" /\ ~Running /\ encoder_event_queue = <<>>)
  /\ new_state' = s
  /\ rest' = IF \/ s = "EXIT" /\ anneal_mode_state # "EXIT"
                \/ s = "HOLD" /\ anneal_mode_state = "EXIT"
             THEN "send" ELSE "write"
  /\ UNCHANGED <<anneal_mode_state, config, batch, encoder_event_queue, at, heat, machine, stopped, fixed>>

RestSend ==
  /\ rest = "send" /\ Room
  /\ encoder_event_queue' =
       Append(encoder_event_queue, IF new_state = "EXIT" THEN "RST" ELSE "OVERRIDE")
  /\ rest' = "write"
  /\ UNCHANGED <<anneal_mode_state, config, batch, at, heat, machine, stopped, new_state, fixed>>

RestWrite ==
  /\ rest = "write" /\ rest' = "idle"
  /\ anneal_mode_state' = new_state
  /\ new_state' = "EXIT"
  /\ stopped' = (stopped \/ (Running /\ new_state = "EXIT"))
  /\ UNCHANGED <<config, batch, encoder_event_queue, at, heat, machine, fixed>>

(* c1 and s0 *)
SetCycleCount(c) ==
  /\ rest = "idle"
  /\ cycle_count' = c
  /\ UNCHANGED <<anneal_mode_state, use_temperature_mode, batch, encoder_event_queue, at, heat, machine, stopped, restVars, fixed>>

(* c5 *)
SetTemperatureMode(b) ==
  /\ rest = "idle" /\ anneal_mode_state = "EXIT"
  /\ use_temperature_mode' = b
  /\ UNCHANGED <<anneal_mode_state, cycle_count, batch, encoder_event_queue, at, heat, machine, stopped, restVars, fixed>>

(* The button interrupts and /rest/button_control: without room the event  *)
(* is dropped.  With careful clients none comes between two statements of  *)
(* the REST handler.                                                       *)
Button(e) ==
  /\ Room /\ (careless \/ rest = "idle")
  /\ encoder_event_queue' = Append(encoder_event_queue, e)
  /\ UNCHANGED <<anneal_mode_state, config, batch, at, heat, machine, stopped, restVars, fixed>>

-----------------------------------------------------------------------------
Init ==
  /\ anneal_mode_state = "EXIT"
  /\ cycle_count \in Counts /\ use_temperature_mode \in BOOLEAN
  /\ cases_completed = 0 /\ safety_limit_hit_last_case = FALSE
  /\ encoder_event_queue = <<>>
  /\ at = "menu"
  /\ use_temp_target = FALSE /\ has_time_limit = FALSE
  /\ aborted = FALSE /\ elapsed = 0 /\ limit = 0
  /\ coil = FALSE /\ feeder = FALSE /\ feeder_enabled = FALSE
  /\ holder = "MOVING"   \* unknown until the first move
  /\ case = "none" /\ stopped = FALSE
  /\ rest = "idle" /\ new_state = "EXIT"
  /\ dwell \in Dwells /\ max_dwell \in Caps /\ sensor_present \in BOOLEAN /\ careless \in BOOLEAN

Heating ==
  \/ HeatBegin \/ HeatTimeOver \/ HeatAbort \/ HeatCutoffSeen
  \/ HeatTargetReached \/ HeatSensorLost \/ HeatContinue \/ HeatTick \/ HeatOff

MenuTask ==
  \/ HoldBegin \/ HoldDone \/ FeedBegin \/ FeedStop \/ FeedDone
  \/ Heating
  \/ DropBegin \/ DropDone \/ DropCount
  \/ CooldownEnd \/ CooldownBegin \/ CooldownPoll \/ CooldownOver
  \/ RstInStep \/ ExitHeater \/ ExitMotor

RestStep == RestSend \/ RestWrite

Environment ==
  \/ \E s \in Requests : RestRequest(s)
  \/ \E c \in Counts : SetCycleCount(c)
  \/ \E b \in BOOLEAN : SetTemperatureMode(b)
  \/ \E e \in {"RST", "PRESS"} : Button(e)

Next ==
  \/ \E b \in BOOLEAN : StartRun(b)
  \/ Navigate \/ MenuTask \/ Cutoff \/ RestStep \/ Environment

Spec == Init /\ [][Next]_vars

(* The menu task, the REST handler and the timer run; whoever presses      *)
(* buttons or sends requests need not.  The fairness of the menu task is   *)
(* strong because TimePasses disables it during a request: its delays end  *)
(* however often requests come in.                                         *)
FairSpec == Spec /\ SF_vars(MenuTask) /\ WF_vars(Cutoff) /\ WF_vars(RestStep)

-----------------------------------------------------------------------------
QueueOK ==
  encoder_event_queue \in Seq(Events) /\ Len(encoder_event_queue) <= QueueLength

FlagsOK ==
  /\ use_temperature_mode \in BOOLEAN /\ safety_limit_hit_last_case \in BOOLEAN
  /\ use_temp_target \in BOOLEAN /\ has_time_limit \in BOOLEAN /\ aborted \in BOOLEAN
  /\ coil \in BOOLEAN /\ feeder \in BOOLEAN /\ feeder_enabled \in BOOLEAN
  /\ stopped \in BOOLEAN /\ sensor_present \in BOOLEAN /\ careless \in BOOLEAN

TypeOK ==
  /\ QueueOK /\ FlagsOK
  /\ anneal_mode_state \in States /\ new_state \in States
  /\ cycle_count \in Counts /\ cases_completed \in 0..(CountWrap - 1)
  /\ at \in {"menu", "dispatch", "hold_move", "feed_run", "feed_settle", "heat",
             "heat_delay", "heat_off", "drop_move", "drop_delay", "cooldown", "exit_motor"}
  /\ elapsed \in Nat /\ limit \in Nat
  /\ holder \in {"HOLD", "DROP", "MOVING"} /\ case \in Cases
  /\ rest \in {"idle", "send", "write"}
  /\ dwell \in Dwells /\ max_dwell \in Caps

(* Whatever is asked of the two endpoints of the mode (the heater's own    *)
(* and the manual mode's are not part of this module), the coil is on only *)
(* while anneal_mode_heat runs, and once the menu is back the coil is off and the feeder stopped  *)
(* and disabled (anneal_mode.cpp:427-429).                                 *)
SafeAtRest ==
  /\ coil => at \in {"heat", "heat_delay", "heat_off"}
  /\ ~Running => ~coil /\ ~feeder /\ ~feeder_enabled

(* The coil is off by the dwell time of the profile in time mode, by the   *)
(* heater's cap in temperature mode, and one poll after the sensor was     *)
(* lost, if that is later than the dwell time.                             *)
HeatBounded == coil => elapsed <= limit

(* A profile in time mode whose dwell time exceeds the heater's cap by     *)
(* more than one poll is cut off in its first case, and the batch ends     *)
(* there instead of feeding more (anneal_mode.cpp:55-61).  The poll is     *)
(* what the code needs to see the cutoff: where the dwell time is over     *)
(* within one poll of the cap, the loop ends by time (line 262) before it  *)
(* looks at the heater again (line 277), and the batch feeds on, against   *)
(* that comment.  (During a stop the mode may still change.)               *)
CutoffEndsBatch ==
  ~careless /\ ~stopped /\ at \in {"feed_run", "feed_settle", "hold_move"}
            /\ ~use_temperature_mode /\ dwell > max_dwell
    => cases_completed = 0 \/ dwell = max_dwell + 1

(* A run that was not stopped leaves no case in the holder. *)
OnlyAStopLeavesACase ==
  ~careless /\ at = "exit_motor" /\ case \notin {"none", "counted"} => stopped

(* A stop that made it into the queue ends the run, unless careless        *)
(* requests bring it back to life.                                         *)
StopEndsRun ==
  (~careless /\ \E i \in DOMAIN encoder_event_queue : encoder_event_queue[i] = "RST")
    ~> ~Running

(* The run implements AnnealBatch as long as clients are careful. *)
Batch == INSTANCE AnnealBatch WITH running <- Running, target <- cycle_count

ImplementsBatch ==
  /\ Batch!Init
  /\ [][careless \/ Batch!Next]_<<Running, holder, coil, feeder, case, cases_completed, cycle_count>>

-----------------------------------------------------------------------------
(* The inductive invariant.  In all environments: where the coil and the   *)
(* feeder may be on, and how far the heat loop is from its limit.          *)
Outputs ==
  /\ coil => at \in {"heat", "heat_delay", "heat_off"}
  /\ feeder <=> at = "feed_run"
  /\ feeder_enabled <=> Running

HeatTiming ==
  /\ at \in {"heat", "heat_delay", "heat_off"} =>
       limit <= max_dwell /\ (coil => elapsed <= limit)
  /\ at \in {"heat", "heat_delay"} =>
       /\ has_time_limit => dwell <= limit \/ limit = max_dwell
       /\ ~has_time_limit => limit = max_dwell
  /\ at = "heat_delay" /\ coil => elapsed < limit \/ max_dwell <= elapsed

(* With careful clients: a start is only under way when the menu is at     *)
(* rest or at the very beginning of the run it started;                    *)
StartIsClean ==
  /\ new_state \in {"EXIT", "HOLD"}
  /\ rest = "send" /\ new_state = "HOLD" => ~Running /\ encoder_event_queue = <<>>
  /\ rest = "write" /\ new_state = "HOLD" =>
       \/ ~Running /\ encoder_event_queue \in {<<>>, <<"OVERRIDE">>}
       \/ /\ encoder_event_queue = <<>> /\ anneal_mode_state = "HOLD"
          /\ at \in {"dispatch", "hold_move"}

(* where the case and the holder are at each statement, whatever the REST  *)
(* handler writes to the state;                                            *)
CaseFits ==
  /\ case # "double"
  /\ at \in {"menu", "hold_move", "cooldown"} => case = "none"
  /\ at = "feed_run" => case = "none" /\ holder = "HOLD"
  /\ at = "feed_settle" => case = "cold" /\ holder = "HOLD"
  /\ at \in {"heat", "heat_delay", "heat_off"} => case = "hot" /\ holder = "HOLD"
  /\ at = "drop_move" => case = "hot"
  /\ at = "drop_delay" => case = "out"
  /\ At("HOLD") => case = "none"
  /\ At("FEED") => case = "none" /\ holder = "HOLD"
  /\ At("HEAT") => case = "cold" /\ holder = "HOLD"
  /\ At("DROP") => case = "hot" /\ holder = "HOLD"
  /\ At("COOLDOWN") => case = "counted"

(* and that a run which leaves a case behind was stopped.                  *)
LeftOnlyByStop ==
  /\ at \in {"heat", "heat_delay", "heat_off"} /\ aborted => stopped
  /\ At("EXIT") \/ at = "exit_motor" => case \in {"none", "counted"} \/ stopped

(* In a run that was not asked to stop the mode is what it was when the     *)
(* run began: it only changes while the state is EXIT.  A cutoff that comes *)
(* more than a poll before the dwell time is over is then noticed in the    *)
(* first case's heat step, and the flag kept until the cooldown step ends   *)
(* the batch.                                                               *)
CutoffIsKept ==
  /\ Running /\ ~stopped /\ anneal_mode_state = "EXIT" => at \in {"dispatch", "exit_motor"}
  /\ ~stopped /\ ~use_temperature_mode /\ dwell > max_dwell + 1 =>
       /\ at \in {"hold_move", "feed_run", "feed_settle"} \/ At("HOLD") \/ At("FEED") \/ At("HEAT")
            => cases_completed = 0
       /\ at \in {"heat", "heat_delay"} => has_time_limit /\ ~use_temp_target
       /\ at = "heat" => elapsed <= max_dwell + 1
       /\ at = "heat_delay" => elapsed <= max_dwell
       /\ at = "heat_off" => aborted \/ safety_limit_hit_last_case
       /\ at \in {"drop_move", "drop_delay"} \/ At("DROP") \/ At("COOLDOWN")
            => safety_limit_hit_last_case
       /\ at # "cooldown"

CycleInv ==
  /\ TypeOK /\ Outputs /\ HeatTiming
  /\ ~careless => StartIsClean /\ CaseFits /\ LeftOnlyByStop /\ CutoffIsKept
=============================================================================
