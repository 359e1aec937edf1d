------------------------------- MODULE Modes --------------------------------
(***************************************************************************)
(* src/menu.c, src/anneal_manual_mode.cpp, src/anneal_calibration_mode.cpp *)
(* and the REST handlers that start and stop the modes: one menu task is   *)
(* in the forms or in one mode at a time; clients reach it through         *)
(* exit_state and the event queue that the knob and the buttons share.     *)
(*                                                                         *)
(* A run of the annealing cycle is only what it does with events here:     *)
(* AnnealCycle has the rest.  Heater, servo and motor are what they        *)
(* promise.  A tick is one iteration of the 20 ms loop of the calibration. *)
(***************************************************************************)
EXTENDS Integers, Sequences

CONSTANTS
  QueueLength,  \* places in encoder_event_queue
  MaxDwell,     \* the heater's max_dwell_ms, in ticks
  Clients       \* the kinds of clients: each the set of what they ask for at any moment

ASSUME ModesAssumption ==
  /\ QueueLength \in Nat \ {0}
  /\ MaxDwell \in Nat
  /\ Clients \subseteq SUBSET {"modes", "outputs"}

Events == {"RST", "PRESS", "TURN", "OVERRIDE"}
Modes == {"ANNEAL", "MANUAL", "CALIBRATION"}
Choices == Modes \cup {"SAVE", "WIFI_INFO"}
Screens == {"MENU", "JOG", "HOLDER", "COIL"}
Manual == {"man_drop", "manual", "man_move", "man_exit", "man_coil", "man_done"}
Pulse == {"cal_heat", "cal_delay"}
Held == {"cal_feed", "cal_settle", "cal_off"} \cup Pulse
Dropped == {"cal_failed", "cal_result", "cal_saved"}
Longest == MaxDwell + 2  \* a longer time is not told from this one

(* The statements from which the mode will still switch the output off *)
AheadOfCoilOff == {"run", "man_drop", "manual", "man_move", "man_exit", "man_coil",
                   "cal_hold", "cal_feed", "cal_settle", "cal_off"} \cup Pulse
AheadOfStop == {"run", "man_drop", "manual", "man_move", "man_exit", "cal_hold", "cal_feed"}
Calibration == {"cal_hold", "cal_feed", "cal_settle", "cal_off", "cal_drop", "cal_failed",
                "cal_result", "cal_saved"} \cup Pulse

VARIABLES
  exit_state, encoder_event_queue,
  mode_state,       \* anneal_mode_state, manual_mode_state, anneal_calibration_state
  at,               \* the statement the menu task is at
  manual_screen,
  elapsed,          \* calibration: ticks since heat_start_tick, up to Longest
  outcome,          \* calibration: "pressed", "aborted" or "timed_out"
  dwell_time_ms,    \* what this calibration has saved in the profile, 0 if nothing
  coil, heat,       \* the coil and the age of its timer
  speed, feeder_enabled,
  holder,           \* the position last asked of the servo; in manual mode, holder_held
  rest,             \* the REST handler: its statement and what it will do
  careless,         \* fixed by Init: what clients ask for at any moment
  asked,            \* history: what was asked behind the back of the mode that runs, if any
  genuine           \* history: the coil was on when the calibration ended

shared == <<exit_state, encoder_event_queue>>
manual == <<manual_screen>>
calibration == <<elapsed, outcome, dwell_time_ms, genuine>>
heater == <<coil, heat, asked>>
feeder == <<speed, feeder_enabled>>
vars == <<shared, mode_state, at, manual, calibration, heater, feeder, holder, rest, careless>>

NoRequest == [step |-> "idle", mode |-> "ANNEAL", event |-> "RST", state |-> "EXIT"]

(* The menu task at statement s takes event e from the queue. *)
Takes(s, e) ==
  /\ at = s /\ encoder_event_queue # <<>> /\ Head(encoder_event_queue) = e
  /\ encoder_event_queue' = Tail(encoder_event_queue)
  /\ UNCHANGED exit_state

Goes(from, to) == at = from /\ at' = to

Enters(m) == mode_state' = [mode_state EXCEPT ![m] = "ENTER"]
Leaves(m) == mode_state' = [mode_state EXCEPT ![m] = "EXIT"]

CoilOn == coil' = TRUE /\ heat' = 0
CoilOff == coil' = FALSE /\ heat' = 0
Settles(S) == asked' = asked \ S

-----------------------------------------------------------------------------
(* menu_task while a form is active.  A press selects whatever the cursor  *)
(* is on: an item that leaves the forms,                                   *)
SelectMode(m) ==
  /\ at = "forms" /\ encoder_event_queue # <<>> /\ Head(encoder_event_queue) = "PRESS"
  /\ encoder_event_queue' = Tail(encoder_event_queue)
  /\ exit_state' = m /\ at' = "left"
  /\ UNCHANGED <<mode_state, manual, calibration, heater, feeder, holder, rest, careless>>

(* the bench test of the coil, *)
SelectPulse ==
  /\ Takes("forms", "PRESS")
  /\ CoilOn /\ asked' = asked \cup {"coil"}
  /\ UNCHANGED <<mode_state, at, manual, calibration, feeder, holder, rest, careless>>

(* or something else; RST and the knob move about in the forms. *)
Navigate ==
  /\ \E e \in {"PRESS", "RST", "TURN"} : Takes("forms", e)
  /\ UNCHANGED <<mode_state, at, manual, calibration, heater, feeder, holder, rest, careless>>

LeaveForm ==
  /\ Takes("forms", "OVERRIDE") /\ at' = "left"
  /\ UNCHANGED <<mode_state, manual, calibration, heater, feeder, holder, rest, careless>>

(* menu_task without a form does what exit_state says, and never resets    *)
(* it: save everything (eeprom_save_all), or show the address until a      *)
(* press (wireless_view_wifi_info), or enter a mode.                       *)
SaveAll ==
  /\ exit_state = "SAVE" /\ Goes("left", "forms")
  /\ UNCHANGED <<shared, mode_state, manual, calibration, heater, feeder, holder, rest, careless>>

ShowInfo ==
  /\ exit_state = "WIFI_INFO" /\ Goes("left", "info")
  /\ UNCHANGED <<shared, mode_state, manual, calibration, heater, feeder, holder, rest, careless>>

InfoEnds ==
  /\ \E e \in Events :
       Takes("info", e) /\ at' = IF e \in {"RST", "PRESS"} THEN "forms" ELSE "info"
  /\ UNCHANGED <<mode_state, manual, calibration, heater, feeder, holder, rest, careless>>

-----------------------------------------------------------------------------
(* anneal_mode_menu, as far as events go *)
RunBegin ==
  /\ exit_state = "ANNEAL" /\ Goes("left", "run") /\ Enters("ANNEAL")
  /\ feeder_enabled' = TRUE
  /\ UNCHANGED <<shared, manual, calibration, heater, speed, holder, rest, careless>>

RunPolls ==
  /\ \E e \in Events \ {"RST"} : Takes("run", e)
  /\ UNCHANGED <<mode_state, at, manual, calibration, heater, feeder, holder, rest, careless>>

(* A run takes seconds: it does not end by itself in the middle of a       *)
(* request, unless that waits for the queue.                               *)
RunOver ==
  /\ at = "run" /\ rest.step # "write" /\ UNCHANGED shared

RunEnds ==
  /\ Takes("run", "RST") \/ RunOver
  /\ at' = "forms" /\ Leaves("ANNEAL")
  /\ CoilOff /\ feeder_enabled' = FALSE /\ speed' = 0 /\ Settles({"coil", "speed"})
  /\ UNCHANGED <<manual, calibration, holder, rest, careless>>

-----------------------------------------------------------------------------
(* anneal_manual_mode_menu.  A request of a client that comes while the    *)
(* menu task waits for the servo counts as one that comes just after.      *)
ManualBegin ==
  /\ exit_state = "MANUAL" /\ Goes("left", "man_drop") /\ Enters("MANUAL")
  /\ feeder_enabled' = TRUE
  /\ UNCHANGED <<shared, manual, calibration, heater, speed, holder, rest, careless>>

ManualReady ==
  /\ Goes("man_drop", "manual")
  /\ holder' = "DROP" /\ manual_screen' = "MENU"
  /\ UNCHANGED <<shared, mode_state, calibration, heater, feeder, rest, careless>>

OnScreen(s, e) == Takes("manual", e) /\ manual_screen = s

ManualSelect(s) ==
  /\ OnScreen("MENU", "PRESS") /\ s # "MENU" /\ manual_screen' = s
  /\ UNCHANGED <<mode_state, at, calibration, heater, feeder, holder, rest, careless>>

(* One step up: the feeder stops, the coil goes off. *)
ManualBack ==
  /\ Takes("manual", "RST") /\ manual_screen # "MENU" /\ manual_screen' = "MENU"
  /\ \/ manual_screen = "JOG" /\ speed' = 0 /\ Settles({"speed"}) /\ UNCHANGED <<coil, heat>>
     \/ manual_screen = "HOLDER" /\ UNCHANGED <<speed, heater>>
     \/ manual_screen = "COIL" /\ CoilOff /\ Settles({"coil"}) /\ UNCHANGED speed
  /\ UNCHANGED <<mode_state, at, calibration, feeder_enabled, holder, rest, careless>>

ManualJog(v) ==
  /\ OnScreen("JOG", "TURN") /\ speed' = v /\ Settles({"speed"})
  /\ UNCHANGED <<mode_state, at, manual, calibration, coil, heat, feeder_enabled, holder, rest, careless>>

ManualToggle ==
  /\ OnScreen("HOLDER", "PRESS") /\ at' = "man_move"
  /\ holder' = IF holder = "HOLD" THEN "DROP" ELSE "HOLD"
  /\ UNCHANGED <<mode_state, manual, calibration, heater, feeder, rest, careless>>

ManualMoved ==
  /\ Goes("man_move", "manual")
  /\ UNCHANGED <<shared, mode_state, manual, calibration, heater, feeder, holder, rest, careless>>

ManualPulse ==
  /\ OnScreen("COIL", "PRESS") /\ CoilOn /\ Settles({"coil"})
  /\ UNCHANGED <<mode_state, at, manual, calibration, feeder, holder, rest, careless>>

ManualIgnore ==
  /\ \/ \E s \in Screens : OnScreen(s, "OVERRIDE")
     \/ \E s \in {"MENU", "HOLDER", "COIL"} : OnScreen(s, "TURN")
     \/ OnScreen("JOG", "PRESS")
  /\ UNCHANGED <<mode_state, at, manual, calibration, heater, feeder, holder, rest, careless>>

ManualQuit ==
  /\ OnScreen("MENU", "RST") /\ at' = "man_exit"
  /\ UNCHANGED <<mode_state, manual, calibration, heater, feeder, holder, rest, careless>>

\* Seeded fault in ManualMotorOff: the disabled feeder is not stopped.
ManualMotorKeepsSpeed ==
  /\ Goes("man_exit", "man_coil") /\ feeder_enabled' = FALSE
  /\ UNCHANGED <<shared, mode_state, manual, calibration, heater, speed, holder, rest, careless>>

ManualMotorOff ==
  /\ Goes("man_exit", "man_coil") /\ feeder_enabled' = FALSE /\ speed' = 0
  /\ Settles({"speed"})
  /\ UNCHANGED <<shared, mode_state, manual, calibration, coil, heat, holder, rest, careless>>

\* Seeded fault in ManualCoilOff: the coil is left as it is.
ManualCoilKept ==
  /\ Goes("man_coil", "man_done")
  /\ UNCHANGED <<shared, mode_state, manual, calibration, heater, feeder, holder, rest, careless>>

ManualCoilOff ==
  /\ Goes("man_coil", "man_done") /\ CoilOff /\ Settles({"coil"})
  /\ UNCHANGED <<shared, mode_state, manual, calibration, feeder, holder, rest, careless>>

(* The screen is set again before manual mode reads it. *)
ManualEnd ==
  /\ Goes("man_done", "forms") /\ Leaves("MANUAL")
  /\ manual_screen' = "MENU"
  /\ UNCHANGED <<shared, calibration, heater, feeder, holder, rest, careless>>

-----------------------------------------------------------------------------
(* anneal_calibration_mode_menu: hold, feed, settle, *)
CalibrationBegin ==
  /\ exit_state = "CALIBRATION" /\ Goes("left", "cal_hold") /\ Enters("CALIBRATION")
  /\ UNCHANGED <<shared, manual, calibration, heater, feeder, holder, rest, careless>>

\* Seeded fault in CalibrationFeed: the case is fed before the holder is in place.
CalibrationFeedEarly ==
  /\ Goes("cal_hold", "cal_feed")
  /\ feeder_enabled' = TRUE /\ speed' = 1 /\ Settles({"speed", "holder"})
  /\ UNCHANGED <<shared, mode_state, manual, calibration, coil, heat, holder, rest, careless>>

CalibrationFeed ==
  /\ Goes("cal_hold", "cal_feed") /\ holder' = "HOLD"
  /\ feeder_enabled' = TRUE /\ speed' = 1 /\ Settles({"speed", "holder"})
  /\ UNCHANGED <<shared, mode_state, manual, calibration, coil, heat, rest, careless>>

CalibrationFed ==
  /\ Goes("cal_feed", "cal_settle") /\ feeder_enabled' = FALSE /\ speed' = 0
  /\ Settles({"speed"})
  /\ UNCHANGED <<shared, mode_state, manual, calibration, coil, heat, holder, rest, careless>>

(* heat until the knob is pressed, *)
CalibrationHeat ==
  /\ Goes("cal_settle", "cal_heat") /\ CoilOn /\ Settles({"coil", "pulse"})
  /\ elapsed' = 0 /\ outcome' = "pressed" /\ genuine' = FALSE
  /\ UNCHANGED <<shared, mode_state, manual, dwell_time_ms, feeder, holder, rest, careless>>

HeatEnds(o) ==
  /\ at' = "cal_off" /\ outcome' = o /\ genuine' = coil
  /\ UNCHANGED <<mode_state, manual, elapsed, dwell_time_ms, heater, feeder, holder, rest, careless>>

HeatAborted == Takes("cal_heat", "RST") /\ HeatEnds("aborted")
HeatPressed == Takes("cal_heat", "PRESS") /\ HeatEnds("pressed")

(* The button is looked at first, then the coil. *)
NothingPressed ==
  \/ at = "cal_heat" /\ encoder_event_queue = <<>> /\ UNCHANGED shared
  \/ \E e \in {"TURN", "OVERRIDE"} : Takes("cal_heat", e)

HeatTimedOut == NothingPressed /\ ~coil /\ HeatEnds("timed_out")

\* Seeded fault in HeatGoesOn: the cutoff is not looked at.
HeatGoesOnBlind ==
  /\ NothingPressed /\ at' = "cal_delay"
  /\ UNCHANGED <<mode_state, manual, calibration, heater, feeder, holder, rest, careless>>

HeatGoesOn ==
  /\ NothingPressed /\ coil /\ at' = "cal_delay"
  /\ UNCHANGED <<mode_state, manual, calibration, heater, feeder, holder, rest, careless>>

HeatTick ==
  /\ Goes("cal_delay", "cal_heat") /\ ~(coil /\ heat >= MaxDwell)
  /\ elapsed' = IF elapsed < Longest THEN elapsed + 1 ELSE Longest
  /\ heat' = IF coil THEN heat + 1 ELSE 0
  /\ UNCHANGED <<shared, mode_state, manual, outcome, dwell_time_ms, genuine, coil, asked, feeder, holder, rest, careless>>

(* drop the case, and show the result. *)
CalibrationCoilOff ==
  /\ Goes("cal_off", "cal_drop") /\ CoilOff /\ Settles({"coil"})
  /\ UNCHANGED <<shared, mode_state, manual, calibration, feeder, holder, rest, careless>>

CalibrationDrop ==
  /\ at = "cal_drop" /\ at' = IF outcome = "pressed" THEN "cal_result" ELSE "cal_failed"
  /\ holder' = "DROP" /\ Settles({"holder"})
  /\ UNCHANGED <<shared, mode_state, manual, calibration, coil, heat, feeder, rest, careless>>

(* No mode of this module reads again what was measured and saved. *)
ForgetPulse ==
  /\ elapsed' = 0 /\ outcome' = "pressed" /\ genuine' = FALSE /\ dwell_time_ms' = 0
  /\ Settles({"holder", "pulse"})

CalibrationFailed ==
  /\ Goes("cal_failed", "forms") /\ Leaves("CALIBRATION") /\ ForgetPulse
  /\ UNCHANGED <<shared, manual, coil, heat, feeder, holder, rest, careless>>

CalibrationSave ==
  /\ Takes("cal_result", "PRESS") /\ at' = "cal_saved" /\ dwell_time_ms' = elapsed
  /\ UNCHANGED <<mode_state, manual, elapsed, outcome, genuine, heater, feeder, holder, rest, careless>>

CalibrationSaved ==
  /\ Goes("cal_saved", "forms") /\ Leaves("CALIBRATION") /\ ForgetPulse
  /\ UNCHANGED <<shared, manual, coil, heat, feeder, holder, rest, careless>>

\* Seeded fault in CalibrationDiscard: the state stays at ENTER.
CalibrationDiscardStays ==
  /\ Takes("cal_result", "RST") /\ at' = "forms" /\ ForgetPulse
  /\ UNCHANGED <<mode_state, manual, coil, heat, feeder, holder, rest, careless>>

\* Seeded fault in CalibrationDiscard: RST is ignored on the result screen.
CalibrationDiscardIgnored ==
  /\ Takes("cal_result", "RST")
  /\ UNCHANGED <<mode_state, at, manual, calibration, heater, feeder, holder, rest, careless>>

CalibrationDiscard ==
  /\ Takes("cal_result", "RST") /\ at' = "forms" /\ Leaves("CALIBRATION") /\ ForgetPulse
  /\ UNCHANGED <<manual, coil, heat, feeder, holder, rest, careless>>

ResultIgnore ==
  /\ \E e \in {"TURN", "OVERRIDE"} : Takes("cal_result", e)
  /\ UNCHANGED <<mode_state, at, manual, calibration, heater, feeder, holder, rest, careless>>

-----------------------------------------------------------------------------
(* What a careful client does: it starts a mode from the forms and only    *)
(* when nobody is using the buttons; it ends the mode that runs, and       *)
(* manual mode from its top screen.                                        *)
Careful(m, s) ==
  \/ s = "ENTER" /\ at = "forms" /\ encoder_event_queue = <<>>
  \/ s = "EXIT" /\ m = "MANUAL" /\ at = "manual" /\ manual_screen = "MENU" /\ encoder_event_queue = <<>>
  \/ s = "EXIT" /\ m = "CALIBRATION" /\ at \in Calibration
  \/ s = "EXIT" /\ m = "ANNEAL" /\ at = "run"

(* s0 of the manual and calibration handlers, s2 of the cycle's *)
RestRequest(m, s) ==
  /\ rest.step = "idle"
  /\ "modes" \in careless \/ Careful(m, s)
  /\ IF mode_state[m] # s
     THEN /\ rest' = [step |-> "send", mode |-> m, state |-> s,
                      event |-> IF s = "ENTER" THEN "OVERRIDE" ELSE "RST"]
          /\ exit_state' = IF s = "ENTER" THEN m ELSE exit_state
     ELSE UNCHANGED <<rest, exit_state>>
  /\ UNCHANGED <<encoder_event_queue, mode_state, at, manual, calibration, heater, feeder, holder, careless>>

(* It waits while the queue is full; the calibration's handler leaves the  *)
(* state to the menu task.                                                 *)
RestSend ==
  /\ rest.step = "send" /\ Len(encoder_event_queue) < QueueLength
  /\ encoder_event_queue' = Append(encoder_event_queue, rest.event)
  /\ rest' = IF rest.mode = "CALIBRATION" THEN NoRequest ELSE [rest EXCEPT !.step = "write"]
  /\ UNCHANGED <<exit_state, mode_state, at, manual, calibration, heater, feeder, holder, careless>>

RestWrite ==
  /\ rest.step = "write" /\ rest' = NoRequest
  /\ mode_state' = [mode_state EXCEPT ![rest.mode] = rest.state]
  /\ UNCHANGED <<shared, at, manual, calibration, heater, feeder, holder, careless>>

(* s1, g0 and h0 of the manual handler act at once, whatever the menu task *)
(* is doing: the handler does not ask for the mode; careful clients do.    *)
Asks == rest.step = "idle" /\ ("outputs" \in careless \/ at = "manual")

RestSpeed(v) ==
  /\ Asks /\ speed' = v
  /\ asked' = (asked \ {"speed"}) \cup (IF v = 1 /\ at \notin AheadOfStop THEN {"speed"} ELSE {})
  /\ UNCHANGED <<shared, mode_state, at, manual, calibration, coil, heat, feeder_enabled, holder, rest, careless>>

RestHolder(h) ==
  /\ Asks /\ holder' = IF h THEN "HOLD" ELSE "DROP"
  /\ asked' = asked \cup (IF (at \in Held /\ ~h) \/ (at \in Dropped /\ h) THEN {"holder"} ELSE {})
  /\ UNCHANGED <<shared, mode_state, at, manual, calibration, coil, heat, feeder, rest, careless>>

RestPulse(on) ==
  /\ Asks /\ IF on THEN CoilOn ELSE CoilOff
  /\ asked' = (asked \ {"coil"})
       \cup (IF on /\ at \notin AheadOfCoilOff THEN {"coil"} ELSE {})
       \cup (IF at \in Pulse THEN {"pulse"} ELSE {})
  /\ UNCHANGED <<shared, mode_state, at, manual, calibration, feeder, holder, rest, careless>>

(* The knob, RST, and /rest/button_control: no room, no event. *)
Button(e) ==
  /\ "modes" \in careless \/ rest.step = "idle"
  /\ Len(encoder_event_queue) < QueueLength
  /\ encoder_event_queue' = Append(encoder_event_queue, e)
  /\ UNCHANGED <<exit_state, mode_state, at, manual, calibration, heater, feeder, holder, rest, careless>>

(* The safety timer; outside a calibration its time is not counted. *)
Cutoff ==
  /\ coil /\ (heat >= MaxDwell \/ at \notin Pulse) /\ CoilOff /\ Settles({"coil"})
  /\ UNCHANGED <<shared, mode_state, at, manual, calibration, feeder, holder, rest, careless>>

-----------------------------------------------------------------------------
Init ==
  /\ exit_state = "DEFAULT" /\ encoder_event_queue = <<>>
  /\ mode_state = [m \in Modes |-> "EXIT"] /\ at = "forms"
  /\ manual_screen = "MENU"
  /\ elapsed = 0 /\ outcome = "pressed" /\ dwell_time_ms = 0 /\ genuine = FALSE
  /\ coil = FALSE /\ heat = 0 /\ asked = {}
  /\ speed = 0 /\ feeder_enabled = FALSE /\ holder = "DROP"
  /\ rest = NoRequest /\ careless \in Clients

Forms ==
  \/ (\E m \in Choices : SelectMode(m)) \/ SelectPulse \/ Navigate \/ LeaveForm
  \/ SaveAll \/ ShowInfo \/ InfoEnds
Run == RunBegin \/ RunPolls \/ RunEnds
ManualMode ==
  \/ ManualBegin \/ ManualReady \/ (\E s \in Screens : ManualSelect(s)) \/ ManualBack
  \/ (\E v \in {0, 1} : ManualJog(v)) \/ ManualToggle \/ ManualMoved \/ ManualPulse \/ ManualIgnore
  \/ ManualQuit \/ ManualMotorOff \/ ManualCoilOff \/ ManualEnd
CalibrationMode ==
  \/ CalibrationBegin \/ CalibrationFeed \/ CalibrationFed \/ CalibrationHeat
  \/ HeatAborted \/ HeatPressed \/ HeatTimedOut \/ HeatGoesOn \/ HeatTick
  \/ CalibrationCoilOff \/ CalibrationDrop \/ CalibrationFailed
  \/ CalibrationSave \/ CalibrationSaved \/ CalibrationDiscard \/ ResultIgnore

MenuTask == Forms \/ Run \/ ManualMode \/ CalibrationMode
RestHandler == RestSend \/ RestWrite
Client ==
  \/ \E m \in Modes, s \in {"ENTER", "EXIT"} : RestRequest(m, s)
  \/ \E v \in {0, 1} : RestSpeed(v)
  \/ \E b \in BOOLEAN : RestHolder(b) \/ RestPulse(b)
  \/ \E e \in Events \ {"OVERRIDE"} : Button(e)

Next == MenuTask \/ RestHandler \/ Client \/ Cutoff
Spec == Init /\ [][Next]_vars

(* The menu task, a handler under way and the timer run. *)
FairSpec == Spec /\ WF_vars(MenuTask) /\ WF_vars(RestHandler) /\ WF_vars(Cutoff)
-----------------------------------------------------------------------------
TypeOK ==
  /\ exit_state \in Choices \cup {"DEFAULT"}
  /\ encoder_event_queue \in Seq(Events) /\ Len(encoder_event_queue) <= QueueLength
  /\ mode_state \in [Modes -> {"ENTER", "EXIT"}]
  /\ at \in {"forms", "left", "info", "run"} \cup Manual \cup Calibration
  /\ manual_screen \in Screens /\ outcome \in {"pressed", "aborted", "timed_out"}
  /\ elapsed \in 0..Longest /\ dwell_time_ms \in Nat /\ heat \in 0..MaxDwell
  /\ asked \subseteq {"coil", "speed", "holder", "pulse"} /\ careless \in Clients
  /\ speed \in {0, 1} /\ holder \in {"HOLD", "DROP"}
  /\ rest \in [step : {"idle", "send", "write"}, mode : Modes, event : Events,
              state : {"ENTER", "EXIT"}]

Flags ==
  /\ coil \in BOOLEAN
  /\ feeder_enabled \in BOOLEAN /\ genuine \in BOOLEAN

(* Where the outputs may be on and a dwell is saved; and while no client   *)
(* switches the coil in a calibration's pulse, the age of the timer is the *)
(* time it has measured.                                                   *)
OutputsOK ==
  /\ coil => "coil" \in asked \/ at \in AheadOfCoilOff
  /\ speed = 1 => "speed" \in asked \/ at \in AheadOfStop
  /\ feeder_enabled <=> at \in AheadOfStop \ {"cal_hold"}
  /\ dwell_time_ms # 0 => at = "cal_saved"
  /\ "pulse" \notin asked =>
       /\ at \in Pulse /\ coil => heat = elapsed
       /\ at = "cal_delay" => elapsed <= MaxDwell
       /\ at \in {"cal_heat", "cal_off", "cal_drop", "cal_result"} => elapsed <= MaxDwell + 1

(* The inductive form of StateTellsMode, with careful clients: what each   *)
(* statement of the menu task may find in the states the handlers report,  *)
HasRst == \E i \in 1..Len(encoder_event_queue) : encoder_event_queue[i] = "RST"
Nothing == encoder_event_queue = <<>>
Just(e) == encoder_event_queue = <<e>>
Ahead(e) == ~Nothing /\ Head(encoder_event_queue) = e
EndsWithRst == ~Nothing /\ encoder_event_queue[Len(encoder_event_queue)] = "RST"
Only(m) == \A n \in Modes \ {m} : mode_state[n] = "EXIT"

StateFits ==
  /\ at = "forms" => \A m \in Modes : mode_state[m] = "ENTER" => exit_state = m /\ Ahead("OVERRIDE")
  /\ at = "left" => \A m \in Modes : mode_state[m] = "ENTER" => exit_state = m
  /\ at = "info" => \A m \in Modes : mode_state[m] = "EXIT"
  /\ at = "run" => Only("ANNEAL") /\ (mode_state["ANNEAL"] = "ENTER" \/ HasRst)
  /\ at \in Manual => Only("MANUAL")
  /\ at \in {"man_drop", "man_move"} => mode_state["MANUAL"] = "ENTER"
  /\ at = "manual" => mode_state["MANUAL"] = "ENTER" \/ (manual_screen = "MENU" /\ Ahead("RST"))
  /\ at \in Calibration => Only("CALIBRATION") /\ mode_state["CALIBRATION"] = "ENTER"

(* and how far the menu task has come with a request that is being served. *)
EnterFits ==
  /\ rest.step = "send" /\ rest.state = "ENTER" =>
       at = "forms" /\ Nothing /\ exit_state = rest.mode
  /\ rest.step = "write" /\ rest.state = "ENTER" =>
       /\ exit_state = rest.mode
       /\ \/ at = "forms" /\ Just("OVERRIDE")
          \/ /\ Nothing
             /\ at \in {"left"} \cup (IF rest.mode = "ANNEAL" THEN {"run"} ELSE {"man_drop", "manual"})

ExitFits ==
  /\ rest.step = "send" /\ rest.state = "EXIT" /\ rest.mode = "MANUAL" =>
       at = "manual" /\ manual_screen = "MENU" /\ Nothing
  /\ rest.step = "write" /\ rest.state = "EXIT" /\ rest.mode = "MANUAL" =>
       \/ at = "manual" /\ manual_screen = "MENU" /\ Just("RST")
       \/ at \in {"man_exit", "man_coil", "man_done", "forms"} /\ Nothing
  /\ rest.step = "write" /\ rest.state = "EXIT" /\ rest.mode = "ANNEAL" =>
       /\ ~Nothing => EndsWithRst
       /\ at \in {"run", "left"} => ~Nothing

RequestFits ==
  /\ rest.step # "idle" => rest.event = IF rest.state = "ENTER" THEN "OVERRIDE" ELSE "RST"
  /\ rest.step = "write" => rest.mode # "CALIBRATION"
  /\ EnterFits /\ ExitFits

ModesInv == TypeOK /\ Flags /\ OutputsOK /\ ("modes" \notin careless => StateFits /\ RequestFits)

(* Back in the forms the feeder is disabled, and everything that was       *)
(* jogged or pulsed from the LCD and over REST is off again ("Always leave *)
(* the coil off on exit"), except for the coil that the form or a client   *)
(* switched on, and a speed a client set, once the mode had switched it    *)
(* off (that speed turns the feeder as soon as the next mode enables it).  *)
LeavesSafe ==
  at = "forms" =>
    /\ coil => "coil" \in asked
    /\ speed = 1 => "speed" \in asked
    /\ ~feeder_enabled

(* A case is fed into the holder and heated in it, and falls afterwards,   *)
(* wherever clients had moved the holder before; except that g0 of a       *)
(* client is obeyed at once in the middle of a calibration, too.           *)
CalibrationHeld ==
  \/ "holder" \in asked
  \/ /\ at \in Held => holder = "HOLD"
     /\ at \in Dropped => holder = "DROP"

(* A saved dwell exceeds the heater's cap by at most the poll in which the *)
(* cutoff and the press meet, unless a client switched the coil in the     *)
(* middle of the pulse: h0 arms the timer anew.                            *)
DwellBounded == dwell_time_ms <= MaxDwell + 1 \/ "pulse" \in asked

(* With nothing on its way, what the REST handlers report is the mode the  *)
(* menu task is in.                                                        *)
StateTellsMode ==
  "modes" \notin careless /\ rest.step = "idle" /\ encoder_event_queue = <<>> =>
    /\ at \in {"forms", "info"} => \A m \in Modes : mode_state[m] = "EXIT"
    /\ at = "run" => mode_state["ANNEAL"] = "ENTER"
    /\ at = "manual" => mode_state["MANUAL"] = "ENTER"
    /\ at \in Calibration => mode_state["CALIBRATION"] = "ENTER"

(* Once RST is in the queue, a calibration under way ends, whatever stale  *)
(* events are ahead of it and whatever clients do.                         *)
StopEndsCalibration ==
  at \in Calibration /\ (\E i \in DOMAIN encoder_event_queue : encoder_event_queue[i] = "RST")
    ~> at = "forms"

(* A pulse that the safety timer cut (and no client) is not "a legitimate  *)
(* calibration result" (anneal_calibration_mode.cpp:124-125): none is      *)
(* saved.                                                                  *)
SavedDwellIsGenuine ==
  [][at' = "cal_saved" => genuine \/ "pulse" \in asked]_vars
=============================================================================
