# OpenAnnealer in TLA+

TLA+ models of the OpenAnnealer firmware (`src/src/`, C and C++ on an RP2350 with
FreeRTOS), TLC configurations that check them on small instances, and TLAPS proofs of
their invariants. The machine feeds brass cases one by one into a holder, heats each
with an induction coil for a calibrated time (or up to a temperature), drops it, cools
down and takes the next. What must never go wrong is physical: the coil must not stay
on, a case must not be fed into a holder that is elsewhere or full, and a stop must stop.

The firmware runs on two cores under preemptive scheduling. Its concurrent parts:

| part | runs in | priority |
| --- | --- | --- |
| software timers (heater cutoff, OTA health and reboot) | FreeRTOS timer daemon | 31 |
| feeder motor, servo | one task each | 9, 8 |
| HTTP server, every REST handler, OTA upload | lwIP's tcpip thread | 7 |
| menu, and inside it cycle, manual and calibration mode | menu task | 6 |
| rendering, WiFi, temperature polling | one task each | 5, 3, 2 |
| encoder and buttons | GPIO interrupts | |

They share plain globals without locks, one-place and five-place queues, binary
semaphores and the EEPROM (which has a mutex).

## Inventory

**Induction heater** (`induction_heater.c`). State: trigger pin, polarity, cap,
`is_active`, `safety_cutoff_fault`, a one-shot timer. Operations: enable and disable
(menu task, REST), pin switch and settings (REST), the timeout (timer daemon).
Hard: each operation is several statements, nothing serialises them. Correct: the coil
is never on beyond its cap, never without a timer, and the flag tells the truth.

**Servo gate** (`servo_gate.c`). State: a one-place request queue that is overwritten,
a completion semaphore, the position. Operations: set a ratio, blocking or not (cycle,
manual mode, REST); the control task ramps. Correct: a blocking call returns, with the
holder where it was asked to be; the last request wins.

**Anneal cycle** (`anneal_mode.cpp`). State: `anneal_mode_state`, counters, locals of
the heat loop, the cutoff flag. The menu task dispatches HOLD, FEED, HEAT, DROP,
COOLDOWN; the REST handler writes the same state at any moment, and sends events to
the queue the steps poll. Correct: safe outputs outside a run, bounded heating, one
case at a time, a cutoff ends the batch, a stop ends the run.

**Firmware update** (`ota_update.c`, POST side of `http_rest.c`). State: the upload in
progress, staging sector, EEPROM record, what the bootrom knows, timers. Hard:
connections that break off, resets at any point, a trial boot with fallback. Correct: only
a whole image is booted, the running one is never written, trials end, verdicts are true.

**Menu and mode dispatch** (`menu.c`, `mui_menu.c`), **manual mode**
(`anneal_manual_mode.cpp`), **calibration mode** (`anneal_calibration_mode.cpp`). State:
`exit_state`, screens, jog speed, pulse. `exit_state` is shared by three REST handlers and
the LCD; stale events in the queue end or restart things. Correct: the mode asked for is
entered, leaving a mode leaves coil, feeder and servo safe, a saved dwell is one that
was measured and is within the cap.

**Encoder and buttons** (`mini_12864_module.cpp`, `button.c`). Interrupts decode
quadrature, debounce, and send to a queue of five; a full queue drops. Correct: a detent is
one event, and nothing is sent before there is a queue.

**Configuration store** (`eeprom.c`, `cat24c256_eeprom.c`, `common.c`) and **profiles**
(`profile.c`). Slots of size, payload and checksum over 64-byte pages; load migrates,
save-all walks the registered handlers. Hard: power loss between pages, failed
reads, an erase that does not take the mutex. Correct: what is loaded was once saved, as a
whole, and what was saved is not lost.

**Stepper motors** (`motors.c`). State: per motor a speed queue, direction, enable, ramp.
Correct: the commanded speed is reached, direction changes only at rest, a disabled
motor does not start by itself when enabled.

**Temperature sensor** (`ir_temp_sensor.cpp`, `FloatRingBuffer.cpp`): polled into a moving
average the REST handler replaces; a healthy sensor must show the average of its window and
nothing else. **Wireless** (`wireless.c`, `access_point_mode.c`):
a connection task with retries, an access point to fall back on, an LED task with a queue of
five; tells the OTA part whether the network is ready. **DHCP** (`dhcpserver.c`): the leases of
the access point. **HTTP server** (`http_rest.c`): connection states from a small heap, GET and
POST, the routing table. **Neopixel** (`neopixel_led.c`): colours, written under a mutex.
**System control** (`system_control.c`, `rest_endpoints.c`): reboot, save and erase requests.

Interactions: the cycle calls heater, servo, motors, sensor and profile; REST handlers
call all of them from the tcpip thread; the heater's timer and the OTA timers call back
in the timer daemon; the OTA part calls the bootrom, the store and the network status.

## Modules

| module | what it is |
| --- | --- |
| `InductionHeater`, `MCHeater`, `InductionHeaterProofs` | heater, statement by statement |
| `ServoGate`, `MCServo`, `ServoGateProofs` | request queue, control task, blocking calls |
| `AnnealBatch` | abstract specification: what a run promises about the machine |
| `AnnealCycle`, `MCAnneal`, `AnnealProofs` | the run as the menu task executes it; implements `AnnealBatch` |
| `OtaUpdate`, `MCOta`, `OtaProofs` | upload, flash, trial boot, confirmation, roll back |
| `Modes`, `ModesProofs` | menu dispatch, manual and calibration mode, their REST handlers |
| `ConfigRegister` | abstract specification: what a slot of the store promises |
| `ConfigStore`, `MCStore`, `StoreProofs` | slots over pages, load, save, erase, power loss; implements `ConfigRegister` |
| `HttpServer`, `MCHttp`, `HttpProofs` | connections, requests in pieces, uploads, responses without a copy |
| `Motors` | initialisation, speed queue and ramp of the feeder |
| `TempSensor` | poll task, moving average, its replacement by REST, emissivity at boot |
| `Wireless` | connection task, access point, services, mDNS name, LED task |
| `DhcpServer` | lease table and stations of the access point |
| `Inputs` | quadrature decoder, debounced buttons, event queue |
| `MCDevices` | the five drivers above side by side, for one run |
| `DriverProofs` | proofs about `Motors`, `TempSensor`, `Wireless`, `DhcpServer`, `Inputs`, alone and in `MCDevices` |

Definitions marked "Seeded fault" (`...Forgotten`, `...Late`, `...Unchecked` and the like) are
variants of a definition that follows them with a plausible bug ("Bug for ..." in the drivers); `PROJECT.json` pairs each
with the property that notices it. They are not used by the specifications.

### InductionHeater

One action per statement of `induction_heater_enable`, `_induction_heater_apply_pin` and
`_induction_heater_safety_timeout`; `pc[t]` is the statement task `t` is at. `latch` and
`outputs` are the GPIO registers. `wiring`, fixed by `Init`, is the level that really energises
the coil, `active` the configured one; `Coil` is derived from the registers and the wiring,
never from the flag or the setting. `driven` remembers the polarity in force when the pin was
last driven. `heated` counts ticks since the coil was last switched on.
The timer command queue is collapsed: a command takes effect when posted. `Overlap`
says whether two tasks may be inside the module at once.

The firmware does not exclude overlap, so the model is run twice. `HeaterSerial`
(`Overlap = FALSE`) shows what holds between calls that do not overlap, for any order of
calls, settings, pin and polarity changes and timer callbacks, of a coil that was driven under
the polarity of its wiring: `HardCap` (on for at most the
cap and the stall of a call), `CoilIsGuarded`, `FlagTellsTheTruth`. That such a coil goes
off follows from `HardCap`, as time passes, unless the polarity was changed meanwhile.

The condition (`DrivenRightly`) is needed and is an exclusion, not a result. `i0`
(`induction_heater.c:148-150`) changes the setting and leaves the pin alone. So with a wrong
setting every "off", the cutoff's included, energises the coil, no timer runs, and nothing bounds
it; and when the setting is corrected, the pin keeps its level until somebody drives it again.
In all these states the three properties claim nothing. They do claim the cap for a polarity
changed in the middle of a pulse, up to the next drive.

`HeaterOverlap` shows the finding: enable and disable of two tasks interleave so that the
coil stays on with no timer. The comment in `induction_heater.c:43-45` says a pin
switch always cuts power first; with an active-low trigger the new pin becomes an output at its reset
level, low, and energises the coil for the three statements until it is driven inactive.

Bounds: two tasks (menu and tcpip; the daemon is separate), two pins, caps of 2 and 3
ticks, a stall of one tick. Two caps are needed for a change while the coil is on; a cap must
exceed the stall, which the firmware's caps (hundreds of ms) do by far.

### ServoGate

`Call`, `Post`, `Return` are the statements of `servo_gate_set_ratio`, the rest is the control
task. A ramp is one step from departure (`ReceiveMove`) to `Arrive`. `ServoCalls` runs one
blocking and one non-blocking caller with three ratios and DISABLED.
`InPositionIfCallsApart` is about calls that begin when the servo has served everything;
`ServoOverlap` shows the finding without this: `/rest/servo_gate_state` posts DISABLED after the
cycle's call has taken the semaphore (`servo_gate.c:69`) and before it overwrites the queue with
HOLD (line 71); the completion of the disable wakes the cycle while HOLD still waits in the queue.
The settings form on the LCD (`mui_menu.c`) writes `gate_state` directly, which is not modelled.

### AnnealCycle and AnnealBatch

`at` is the statement the menu task is at, `anneal_mode_state` the shared variable it
dispatches on: after each step it is back at `dispatch`, and a REST write may come at any point
in between. Heater, servo and feeder are what their modules promise. A tick is one 20 ms
poll of the heat loop. `rest` is the progress of the REST state handler, which sends an
event (and blocks while the queue is full) and writes the state afterwards.

`careless` and `dwell`, `max_dwell`, `sensor_present` are chosen once by `Init`, so one run
checks all environments. A careful client asks for HOLD only at rest and for EXIT at any
time; a careless one asks for any state at any time, which the code accepts. With careless
clients only `SafeAtRest`, `HeatBounded` and types are claimed. "Whatever clients request" means
the two endpoints of the mode: the endpoints of the heater and of the manual mode, which can
energise the coil or re-arm its timer at any time, are in `InductionHeater` and `Modes`, not here.

`AnnealRun` checks: `SafeAtRest`; `HeatBounded` (dwell, cap, or one poll after the sensor is lost);
`CutoffEndsBatch` for dwell times more than one poll beyond the cap (a dwell time within one poll
of it, 3 for a cap of 2, is in the run and is excepted by the formula: the loop tests the time,
`anneal_mode.cpp:262`, before the heater, line 277, misses the cutoff and feeds the next case,
which the comment at `anneal_mode.cpp:55-61` says it does not); `OnlyAStopLeavesACase`; the leads-to `StopEndsRun` for a stop that reached
the queue (a full queue drops it, see hazards); and `ImplementsBatch`, the refinement of
`AnnealBatch` with `running <- Running`, `target <- cycle_count`. `anneal_mode.h:41-42` says that the
temperature mode is locked during a run; the check in `anneal_mode.cpp:493` looks at the state
the REST handler itself has just overwritten, so a stop in progress reopens it (`SetTemperatureMode`
takes it so).

Bounds: queue of 2 (5 in the code: 2 is enough for full, empty and an event behind another),
counters modulo 2, dwell 1, 3 and 4 around a cap of 2, so that the dwell ends first, or the cap
does within the last poll, or well before it.
`case` follows the case of the current run only: a case that a stopped run left behind is the
operator's (listed as a hazard).

Fairness: strong for the menu task, since a tick waits for a REST request that has begun
(`TimePasses`) and requests may come forever; weak for the cutoff timer and for the REST handler
in progress. All are tasks FreeRTOS runs whenever they are ready; the higher ones block after
a bounded time.

### OtaUpdate

State in three groups: what survives a reset (`flash`, `preferred` partition, `stored` record),
the bootrom's view of this boot, and RAM. Bytes are units, `SectorSize` to a sector; unit `i` of
upload `n` is `<<n, i>>`, so stale and foreign bytes are told apart. `left[c]` is
`post_content_len_left`. `tcpip` and `daemon` are program counters inside
`httpd_post_finished` and `_ota_confirm_now`, where a reset or the other thread may come in.
The bootrom is external: a trial boot may start or fall back, an image on trial is dropped by
any reset, `rom_explicit_buy` makes it permanent or, with `glitches`, refuses.

`hurried` (uploads may begin while the last one is still to be tried or confirmed) and `glitches`
(saves, loads and bootrom calls may fail) are chosen by `Init`. The properties say which of them
they exclude. `RunningImageIntact` and `OtaInv` (with it `ConfirmNeedsHealth`: an image on trial
is confirmed only after polls enough that saw the network ready without a break, or at the end of
the wait) hold with both;
`ScheduledImageIsComplete`, `ConfirmedIsTrue` for operators that are not hurried;
`RollbackIsReported` and `NotTentativeForever` when nothing fails either; so a save or a bootrom call that fails
on the way to a verdict is not caught by the last. What hurried operators can
do to themselves, by the code: overwrite the confirmed image while running one on trial, or
reboot into a half-written one in the 750 ms before the reboot. What one power loss
in those 750 ms does: the next boot reports a roll back of an image that was never tried.
`Boot` is one step: a power loss during the save of a detected roll back (`ota_update.c:256-259`) is not modelled.

`OtaLostConnection` shows the finding: a connection that TCP aborts leaves `download_active` set.

Bounds: two connections, two uploads, partitions of two sectors of two units (an image may end
inside a sector, at its end, at the end of the partition), received chunks of 1 and 2, stability
of 2 polls, wait of 4. Fairness: weak for callbacks under way, running timers and booting.

### Modes

`at` is the statement of the menu task: `forms` (a form is active), `left` (none is, so
`exit_state` decides), `run` (inside `anneal_mode_menu`; what it does there is `AnnealCycle`), `info` (the WiFi screen),
`man_...` and `cal_...` inside the other two modes. `rest` is the handler under way: s0 of a
mode writes `exit_state`, sends its event (waiting while the queue is full), and, except for the
calibration, writes the mode state last. `mode_state` holds the three state variables.

`careless`, chosen by `Init` from `Clients`, is what clients ask for at any moment. With `"modes"` in
it they ask for any mode in any state and buttons come in the middle of a request; without, a
client starts a mode from the forms, ends the mode that runs, and
manual mode from its top screen (in a deeper screen the same request only goes one screen up,
while the state already says EXIT). With `"outputs"` in it s1, g0 and h0 of the manual handler come
in every mode and at every statement, as the handler accepts them; without, only while manual
mode waits for an event. The run has the two kinds; the proofs cover every choice of `Clients`, both at once
included. All properties but `StateTellsMode` (careful about modes) hold for all of them.

The handler obeys s1, g0 and h0 wherever they come, so some things cannot hold, and the properties
say so in their formulas, with the history variable `asked`:

- what is asked for after the mode has switched that output off: `"coil"` and `"speed"` in `asked`
  (a coil pulse or a speed in the forms, or between the shut-off and the return). `LeavesSafe`
  excepts it. Such a speed turns nothing until the next mode enables the feeder, and then at once;
- a g0 in the middle of a calibration that moves the case away or keeps it: `"holder"`,
  excepted in `CalibrationHeld`. A g0 before the calibration, or before its
  own request for the position, is overridden, and the property says so;
- an h0 in the middle of a calibration's pulse, which arms the timer anew or ends the pulse:
  `"pulse"`, excepted in `DwellBounded` and `SavedDwellIsGenuine`.

`holder` is the position last asked of the servo (whether it has got there is `ServoGate`'s matter), and in
manual mode it is `holder_held`: flag and request are set together. A request that comes while
the menu task waits for the servo has the effect of one that comes just after. The servo is
enabled. `dwell_time_ms` is what the calibration under way has saved. The safety timer is exact
during a calibration's pulse and may fire at any time in others.

`ModesRun` checks `LeavesSafe`, `CalibrationHeld`, `DwellBounded`, `StateTellsMode` and the leads-to
`StopEndsCalibration`. `ModesDwell` shows the finding: when the press and the safety cutoff fall
into one poll the press is looked at first, and a pulse that was cut is saved as dwell;
`DwellBounded` says how far such a dwell can be off: one poll. Both except a client's h0 during the pulse.

Bounds: queue of 2 (full, empty, stale event ahead of a stop), cap of one tick (press before,
at and after the cutoff), measured times up to `Longest`, the cap and two ticks (anything longer is not told
from it), speeds 0 and 1. Fairness: weak for the menu task, a handler under way
and the timer. A button press is never assumed.

### ConfigStore and ConfigRegister

A slot is a list of cells: size, fields, checksum; pages of `PageCells` are the unit of a write,
and a page being programmed when power is lost is `Torn`. The checksum is the payload it was computed
from: CRC32 is taken to tell payloads apart. `job[t]` is the statement of `save_config` and
`eeprom_write` that task `t` is at; the checksum (`Sum`) and the copy of the RAM (`Copy`) are two
steps with room for an edit between them, as in `common.c`. `Load` is `load_config` with its three
outcomes, and the save that follows one. `Restart` may start a firmware with more or fewer fields.

`StoreRun` checks that the slot implements `ConfigRegister`: whatever is lost, fails or overlaps, what
is loaded is a snapshot some save took as a whole, or the defaults. `SavedIsDurable` says more when
nothing fails and nobody edits or erases during a save (`careful`): a save that reported success
survives. Without `careful` it does not: a read that fails once makes the board put the defaults
over what is there.

`StoreInv` says who holds the mutex, what a job is about in each step and, with care, that what a save has
written so far is a prefix of its buffer; it is inductive.

Bounds: one slot of one or two fields over two pages, two saving tasks and `main()`. Slots share
nothing but the mutex and the save-all list, and two of them exceed the time: that a write of one slot leaves
the others alone is only in the proof.

### HttpServer

Callbacks run one at a time in lwIP's thread, so an action is a callback. `hs[c]` is the
`http_state`: pieces of the request, `post_content_len_left`, the response and the chunks left of it.
`segments[c]` is what TCP holds unacknowledged: references into the buffer of an endpoint, so what
the client gets is what the buffer holds when the segment is (re)sent. `Close` may fail and be tried
again by poll.

`req` is the number of pieces of the request up to one beyond `LWIP_HTTPD_REQ_QUEUELEN`, which stands for any
number beyond. The limit is looked at when a request is too short or has no end of line (`Piece`), not when
`http_post_request` finds no end of the header behind the URI and waits for more (`PostIncomplete`,
http_rest.c:2108-2118): the pieces of such a POST are kept until poll closes the connection, and no property
bounds them.

`HttpRun` checks `StatesAreFreed` (no client keeps a state of the small heap, nor one that sends pieces for ever), `HttpInv`, `UploadsEnd` and
`OwnResponse`. `HttpInv` is inductive: what a client has received, what TCP holds for it and what its state has
left are, chunk by chunk, the rest of one response (`StreamOK`). The last holds only if nobody asks for an endpoint while its last response is on its
way (`careful`): REST responses are static buffers sent without copying, what `http_rest.c:134-137`
allows for data in flash; two clients polling the same endpoint can read each other's answer.
`UploadsEnd` excepts a connection that TCP aborts, the finding of `OtaLostConnection`.
The model takes from the code that a 404 of 13 bytes ends in its header, and that the end-of-file
branch of `http_send` is not reached (`HttpInv`: something is left while a state has a response).

Bounds: two connections, three endpoints of 1 to 3 chunks, two chunks in flight, two retries, uploads
of two units. Fairness: lwIP's slow timer polls every connection; nothing is assumed of clients.

### Drivers: Motors, TempSensor, Wireless, DhcpServer, Inputs

These share no state with each other, so `DevicesRun` runs them side by side, one per behaviour
(`part` of `MCDevices`).

`Motors`: `MotorsInit` has every way initialisation fails; the task's ramp reads a clock modulo
`TimeMod`. `FeederInv`: nothing is queued or blocked without a driver, the DIR pin belongs to the pulses,
a ramp that does not meet the wrap ends in time and stays at or below the larger of its two speeds
(that it stays at or above the smaller one is not checked). By the code, one that does may end at once or run on;
an acceleration of 0 likewise. The driver's 8-bit write counter is compared as an int
(`Counted`), so in the warm restart in which it wraps, a wired driver fails and the feeder is lost until
the next one. `motor_enable` still writes the pin of a motor that failed, which the comment at
`motors.c:696-698` says is already a no-op.

`TempSensor`: the poll task reads, adds and averages in three steps; the REST handler deletes the
filter and makes a new one in two. `SensorInv` claims nothing for a poll that a replacement hit (`raced`:
the code uses a deleted filter, the model lets anything come of it), nor between the enqueue and the store of an
average: it says that the average is that of the newest window, not that the race is harmless. The places of a new buffer
are zero in the model and not set in the code; no sum reads them (`RingOK`).

`Wireless`: `WirelessInv` relates server, network and LED; `ComesUp` says a boot ends with a server one can
reach. Fairness: the wireless task runs, and mDNS reports a conflict while there is one. The start of the
access point is assumed to succeed. By the
code, `wireless_is_network_ready` is true of an access point before its server listens, and a station that loses
its network stays in `STA_LISTEN`.

`DhcpServer`: stations lose answers, keep an address for its lease and rejoin after a restart;
`DhcpInv` says no address has two users. Renewals carry no requested-address option and are ignored, so
every lease runs out. The expiry in 16 bits of a wrapping clock becomes units of three ticks.

`Inputs`: `exact` says no bounce has come at pins `<<0, 1>>`, where the decoder looks at pin 1 in place of pin 2
(`mini_12864_module.cpp:109`) and miscounts; while it holds `InputInv` says the count is the knob's. The
interrupts are hooked up before the queue exists: `InputInv` says no button posts to it, because the tick counter stands at
zero until the scheduler runs. Presses in the first 250 ms, and one a whole round of the counter later, are ignored.

Bounds: one caller asking for two speeds of both directions, clocks of 8, 12 and 5 ticks (each wraps many
times), windows of at most 3, four host names of which two are taken, three stations for two addresses (full,
expired and recycled entries), a queue of 2 events and one button.

## What is proved

Eight modules hold theorems for every value of the constants, under the named assumptions next to the constants.
Each follows one argument: an inductive invariant `IInv` (checked by TLC first, as the invariant of a run),
`Init => IInv`, one lemma per action that it is preserved, and the property read off it.

* Heater (`InductionHeaterProofs`): `TypeOK` (`HeaterTypeOK`) and `HeaterInv` (`SerialHeaterInv`) are invariants when
  calls do not overlap; `CapHolds`, `GuardHolds` and `FlagIsTruthful` follow. `HardCap` is not inductive: a coil with
  an old age needs to know that a timer runs and how its `left` relates to `heated` and `cap`,
  at every statement of a call in progress (`Guarded`, `OneCall`, `OnlyTheTriggerPin`).
* Servo (`ServoGateProofs`): `ApartInv` (`ServoApartInv`) says where an unanswered request is (queue, task, done)
  and yields `ServoInPosition`. `ServoLastRequestWins` needs no such care: however calls overlap, the
  last request is in the queue, in the task's hands or carried out.
* Cycle (`AnnealProofs`): `CycleInv` (`CycleInvariant`) joins types, `Outputs`, `HeatTiming` for all clients, and
  `StartIsClean`, `CaseFits`, `LeftOnlyByStop` for careful ones: where the case and the holder
  are at each statement, whatever the REST handler writes. From it `CycleSafeAtRest`,
  `CycleHeatBounded`, `CycleLeavesNoCase`, `CycleCutoffEndsBatch` and the refinement `CycleImplementsBatch`.
* Modes (`ModesProofs`): `ModesInv` (`ModesInvariant`) says at which statements coil and feeder may be on, or which
  request of a client they are on for, that
  the timer of a pulse is as old as the time measured, and what the state REST reports owes to the request
  under way (`StateFits`, `RequestFits`). `ModesLeaveSafe`, `CalibrationIsHeld`, `DwellIsBounded` and
  `ModeIsTold` follow: the cutoff is exact, so a pulse that is still on has measured at most the cap.
* Update (`OtaProofs`): `OtaInv` (`UpdateIsSound`) joins types, what an upload under way has staged and flashed
  (`StreamOK`), what `httpd_post_finished` goes on from (`UploadOK`), the counters of the health poll (`HealthOK`), what is
  off before a boot is over (`BootOK`), and what the stored record says of the image on trial (`TrialOK`). From it
  `ScheduledIsStored`, `RollbackIsKnown`, `VerdictIsTrue`; the action property `RunningIsNotWritten` needs of it only
  that an upload in progress writes the partition that is not running.
* Store (`StoreProofs`): `StoreInv` (`StoreIsSound`) joins types, the mutex and the steps of each job (`JobOK`), and
  with care `SaveOK` and `ReadsAsKept`. `SavesAreDurable` is read off it. `StoreIsARegister` is the
  refinement, with no assumption of care: a load is a load, the checksum is where a snapshot is taken, a page is a
  transfer, an erase or a loss, and all other steps stutter. It rests on what a slot can be read as: at most one
  of the formats, of one size, and only what a checksum cell vouches for (`StoredIs`, `LegacyIs`, `DurableIs`).
* HTTP (`HttpProofs`): `HttpInv` (`StatesAreSound`) and, from it, `UploadsAreEnded` and `ResponsesAreOwn`.
* Drivers (`DriverProofs`): `FeederInv` (`PulsesFitTheirDirection`), `WirelessInv` (`NetworkIsShown`), `DhcpInv`
  (`LeasesAreExclusive`), `InputInv` (`PressesAreTold`), `SensorInv` (`ReadingsAreShown`), each of its driver's `Spec`, and
  `DriversKeepTheirPromises` of the composition the run checks. The parts that make them inductive say how far a
  ramp or a lease is from the clock (`LegFits`, `InTime`, `LeasesLast`, `AsksForItsOwn`, `TellsTime`), and that the LED's
  messages alternate while nobody takes them (`LedFits`). The sensor's ring holds the newest readings, each at the
  place its age gives (`RingOK`). The filter adds them in the order of the places and the invariant in the order of their
  ages: that the two sums agree for every window is an induction over the window. The library's induction theorems
  take a predicate and cannot be used, but the one that a non-empty set of numbers has a least element (`WFMin`)
  takes a set: `Upwards` makes an induction on membership of it, and on that `OneMore`, `OneOther`
  and `MovesOn` say how a sum changes when a place is added, written over, or drops out.

What the proofs asked of the constants, and why the code justifies it. `Wireless`: there are at least two mDNS names,
since `host_name` counts on from the one that is taken. `DhcpServer`: the clock's period is a
multiple of two units of the expiry, and the lease and a unit are shorter than half of it (milliseconds in 32 bits,
16 bits of 2^16 ms, a day). `Inputs`: the debounce time is shorter than a round of the tick counter. `OtaUpdate`: a received chunk
fits a sector. `HttpServer`: `"none"` is no endpoint. `ConfigStore`: `main()` loads each slot once, there is
a largest configuration (`EEPROM_CONFIG_MAX_SIZE`), nobody is no task.

Only model-checked:

* all liveness (`BlockingCallReturns`, `StopEndsRun`, `StopEndsCalibration`, `NotTentativeForever`, `StatesAreFreed`,
  `ComesUp`), which is out of the prover's reach.

Every invariant and every other action property of a passing run is stated by a theorem.

## Not modelled

* LCD callbacks and the display mirror, the layout of the forms, the web portal, build scripts and the test
  server: output, data or not part of the firmware. The settings that forms edit are those of `ConfigStore`.
* The Neopixel driver: nothing reads what it is told. The DNS server: no state between requests.
* The UART protocol of the motor driver and the PIO programs: hardware. The speed queue is created with items of 12
  bytes (`stepper_speed_control_t`) and sent floats of 4: what a send copies beyond the float is never looked at.
* The percent-decoding of URI parameters; the handlers are modelled for any parameters. Options of lwIP's httpd
  that the configuration switches off are not compiled.
* The selection of a profile: a request that names one selects it, also during a run, whose later steps then
  read another dwell (the calibration keeps its own). `profile.c:120` takes the index from the first parameter,
  whatever that is, cut to 8 bits.
* The event mask of the cycle (`anneal_mode.cpp:582`) and the wrap of the tick counter in its loops (`:259`): listed as
  hazards. The arithmetic of the servo's PWM and ramp.

## Plan

1. Proofs: the assumptions of care (no overlapping calls, careful clients) made as weak as the code allows.
2. Models: the event mask and the tick wrap in `AnnealCycle`; profile selection during a run; the servo's arithmetic.
