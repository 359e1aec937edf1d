----------------------------- MODULE TempSensor -----------------------------
(***************************************************************************)
(* The MLX90614 (ir_temp_sensor.cpp, FloatRingBuffer.cpp).  A poll task    *)
(* reads the sensor and averages the last readings; other tasks read the   *)
(* average and the health; the REST handler, on the other core, replaces   *)
(* the filter: delete, then new.  At boot the emissivity cell of the       *)
(* sensor is erased and rewritten if it differs from the configuration.    *)
(***************************************************************************)
EXTENDS Integers, Sequences

CONSTANTS Readings,     \* readings, offset included
          Windows,      \* filter windows a client may ask for
          MaxWindow,    \* IR_TEMP_SENSOR_FILTER_MAX_WINDOW
          MaxFailures   \* IR_TEMP_SENSOR_MAX_CONSECUTIVE_FAILURES

ASSUME SensorAssumption ==
    /\ Readings \subseteq Int /\ Windows \subseteq Nat
    /\ {MaxWindow, MaxFailures} \subseteq Nat \ {0}

VARIABLES sensor,         \* "off", "absent", or "present": the task runs
          emissivity,     \* the sensor's own cell; outlives a restart
          synced,         \* what _sync_emissivity_if_needed has told
          failures,       \* consecutive_read_failures, up to MaxFailures
          filter_window,  \* the configured one
          filter,         \* the object behind object_temp_filter
          object_temp,    \* object_temp_c: a sum and the number of its terms
          poll,           \* where the poll task is in its loop
          filter_request, \* where the REST handler is in a new window
          seen,           \* history: the last good readings, newest last
          raced           \* history: a deleted filter has been used

sensor_vars == <<sensor, emissivity, synced, failures, filter_window, filter,
                 object_temp, poll, filter_request, seen, raced>>

-----------------------------------------------------------------------------
(* FloatRingBuffer                                                         *)

NewFilter(size) == [alive |-> TRUE, size |-> size, write_ptr |-> 1, count |-> 0,
                    data |-> [i \in 1..size |-> 0]]

(* Bug for SensorInv: the write pointer stays at the last place.           *)
EnqueueStuck(f, in) ==
    [f EXCEPT !.data[f.write_ptr] = in,
              !.write_ptr = IF f.write_ptr < f.size THEN f.write_ptr + 1 ELSE f.size,
              !.count = IF f.count < f.size THEN f.count + 1 ELSE f.count]

Enqueue(f, in) ==
    [f EXCEPT !.data[f.write_ptr] = in,
              !.write_ptr = (f.write_ptr % f.size) + 1,
              !.count = IF f.count < f.size THEN f.count + 1 ELSE f.count]

(* getSum: only the first count places hold readings.                      *)
Total(data, n) ==
    LET sum[i \in 0..n] == IF i = 0 THEN 0 ELSE sum[i - 1] + data[i]
    IN  sum[n]
Sum(f) == Total(f.data, f.count)

(* getMean: 0.0 for an empty buffer.                                       *)
Mean(f) == <<Sum(f), f.count>>

ClampFilterWindow(w) ==
    IF w < 1 THEN 1 ELSE IF w > MaxWindow THEN MaxWindow ELSE w

-----------------------------------------------------------------------------
(* Boot                                                                    *)

SensorOff ==
    /\ sensor = "off" /\ failures = 0 /\ filter_window = 1
    /\ filter = NewFilter(1) /\ object_temp = <<0, 0>> /\ synced = "no"
    /\ poll = [step |-> "idle"] /\ filter_request = "none"
    /\ seen = <<>> /\ raced = FALSE

SensorInit == emissivity = "other" /\ SensorOff

(* _mlx90614_write_eeprom_word: erase, then write; either may fail.        *)
WriteEmissivity ==
    \/ UNCHANGED emissivity /\ synced' = "failed"
    \/ emissivity' = "erased" /\ synced' = "failed"
    \/ emissivity' = "wanted" /\ synced' \in {"verified", "failed"}

(* _sync_emissivity_if_needed: no write if the cell cannot be read or is   *)
(* what is wanted already.                                                 *)
SyncEmissivity ==
    \/ UNCHANGED emissivity /\ synced' = "unread"
    \/ emissivity = "wanted" /\ UNCHANGED emissivity /\ synced' = "verified"
    \/ emissivity # "wanted" /\ WriteEmissivity

(* ir_temp_sensor_init: no configuration or no answer leaves the feature   *)
(* off for this boot; the filter exists before the probe.  The stored      *)
(* window is a default or one the REST handler has clamped.                *)
SensorBoot(window) ==
    /\ sensor = "off" /\ window \in 1..MaxWindow
    /\ filter_window' = window /\ filter' = NewFilter(ClampFilterWindow(window))
    /\ \/ sensor' = "absent" /\ UNCHANGED <<emissivity, synced>>
       \/ sensor' = "present" /\ SyncEmissivity
    /\ UNCHANGED <<failures, object_temp, poll, filter_request, seen, raced>>

(* Power is lost between the erase and the write.                          *)
EraseInterrupted ==
    /\ sensor = "off" /\ emissivity = "other" /\ emissivity' = "erased"
    /\ UNCHANGED <<sensor, synced, failures, filter_window, filter, object_temp,
                   poll, filter_request, seen, raced>>

SensorRestart ==
    /\ sensor # "off" /\ sensor' = "off" /\ failures' = 0 /\ filter_window' = 1
    /\ filter' = NewFilter(1) /\ object_temp' = <<0, 0>> /\ synced' = "no"
    /\ poll' = [step |-> "idle"] /\ filter_request' = "none"
    /\ seen' = <<>> /\ raced' = FALSE /\ UNCHANGED emissivity

-----------------------------------------------------------------------------
(* ir_temp_sensor_poll_task                                                *)

(* Both words read: the reading goes to the filter whose pointer is loaded *)
(* now.                                                                    *)
SensorRead(reading) ==
    /\ sensor = "present" /\ poll.step = "idle"
    /\ failures' = 0
    /\ poll' = [step |-> "enqueue", reading |-> reading, stale |-> ~filter.alive]
    /\ UNCHANGED <<sensor, emissivity, synced, filter_window, filter, object_temp,
                   filter_request, seen, raced>>

SensorReadFails ==
    /\ sensor = "present" /\ poll.step = "idle"
    /\ failures < MaxFailures /\ failures' = failures + 1
    /\ UNCHANGED <<sensor, emissivity, synced, filter_window, filter, object_temp,
                   poll, filter_request, seen, raced>>

LastGood(s) == IF Len(s) > MaxWindow THEN Tail(s) ELSE s

SensorEnqueue ==
    /\ poll.step = "enqueue"
    /\ raced' = (raced \/ poll.stale)
    /\ filter' = IF poll.stale THEN filter ELSE Enqueue(filter, poll.reading)
    /\ seen' = IF poll.stale THEN seen ELSE LastGood(Append(seen, poll.reading))
    /\ poll' = [step |-> "mean"]
    /\ UNCHANGED <<sensor, emissivity, synced, failures, filter_window, object_temp,
                   filter_request>>

SensorMean ==
    /\ poll.step = "mean"
    /\ raced' = (raced \/ ~filter.alive)
    /\ object_temp' = IF filter.alive THEN Mean(filter) ELSE object_temp
    /\ poll' = [step |-> "idle"]
    /\ UNCHANGED <<sensor, emissivity, synced, failures, filter_window, filter,
                   filter_request, seen>>

-----------------------------------------------------------------------------
(* http_rest_ir_temp_sensor_config with t5                                 *)

SensorWindow(w) ==
    /\ sensor # "off" /\ filter_request = "none"
    /\ filter_window' = ClampFilterWindow(w) /\ filter_request' = "delete"
    /\ UNCHANGED <<sensor, emissivity, synced, failures, filter, object_temp, poll,
                   seen, raced>>

(* _recreate_temp_filter: the pointer stays what it was until new returns. *)
DeleteFilter ==
    /\ filter_request = "delete" /\ filter_request' = "new"
    /\ filter' = [filter EXCEPT !.alive = FALSE]
    /\ poll' = IF poll.step = "enqueue" THEN [poll EXCEPT !.stale = TRUE] ELSE poll
    /\ UNCHANGED <<sensor, emissivity, synced, failures, filter_window, object_temp,
                   seen, raced>>

RecreateFilter ==
    /\ filter_request = "new" /\ filter_request' = "none"
    /\ filter' = NewFilter(ClampFilterWindow(filter_window)) /\ seen' = <<>>
    /\ UNCHANGED <<sensor, emissivity, synced, failures, filter_window, object_temp,
                   poll, raced>>

(* ... with t3: another emissivity is wanted, from the next boot on.       *)
SensorEmissivity ==
    /\ sensor # "off" /\ synced' = "no"
    /\ emissivity' = IF emissivity = "wanted" THEN "other" ELSE emissivity
    /\ UNCHANGED <<sensor, failures, filter_window, filter, object_temp, poll,
                   filter_request, seen, raced>>

SensorNext ==
    \/ \E w \in Windows : SensorBoot(w) \/ SensorWindow(w)
    \/ \E reading \in Readings : SensorRead(reading)
    \/ EraseInterrupted \/ SensorEmissivity
    \/ SensorRestart \/ SensorReadFails \/ SensorEnqueue \/ SensorMean
    \/ DeleteFilter \/ RecreateFilter

SensorSpec == SensorInit /\ [][SensorNext]_sensor_vars

-----------------------------------------------------------------------------
(* Properties                                                              *)

IsInitializing == sensor = "present" /\ filter.count < filter_window

(* ir_temp_sensor_is_healthy: what the heating cycle relies on.            *)
IsHealthy == sensor = "present" /\ ~IsInitializing /\ failures < MaxFailures

Filters(size) == [alive : BOOLEAN, size : {size}, write_ptr : 1..size, count : 0..size,
                  data : [1..size -> Int]]

SensorTypeOK ==
    /\ sensor \in {"off", "absent", "present"}
    /\ emissivity \in {"other", "erased", "wanted"}
    /\ synced \in {"no", "unread", "failed", "verified"}
    /\ failures \in 0..MaxFailures /\ filter_window \in 1..MaxWindow
    /\ \E size \in 1..MaxWindow : filter \in Filters(size)
    /\ poll \in [step : {"idle", "mean"}] \cup
                [step : {"enqueue"}, reading : Readings, stale : BOOLEAN]
    /\ filter_request \in {"none", "delete", "new"}
    /\ seen \in Seq(Int) /\ Len(seen) <= MaxWindow
    /\ raced \in BOOLEAN

(* The newest n readings of the history, and the one after `later` others. *)
Recent(later) == seen[Len(seen) - later]
Newest(n) == [i \in 1..n |-> Recent(n - i)]

(* The ring holds the newest readings, the one before write_ptr last.      *)
Age(i) == IF i < filter.write_ptr THEN filter.write_ptr - 1 - i
                                  ELSE filter.write_ptr - 1 - i + filter.size
RingOK ==
    /\ filter.count <= Len(seen)
    /\ filter.count < filter.size => filter.write_ptr = filter.count + 1
    /\ \A i \in 1..filter.count : filter.data[i] = Recent(Age(i))
    /\ Sum(filter) = Total(Newest(filter.count), filter.count)

(* Outside a replacement the filter is the one of the configured window,   *)
(* and what is shown is its mean once it has readings.                     *)
FilterFits ==
    /\ filter_request = "none" => filter.size = filter_window
    /\ ~raced /\ poll.step # "mean" /\ filter.count > 0 => object_temp = Mean(filter)

(* The sensor (ir_temp_sensor.cpp): unless a request for another window    *)
(* has hit a poll, a healthy sensor shows, between two polls, the average  *)
(* of the last readings of a full window and of nothing else: no place     *)
(* never written, no reading from before the window was changed, and not   *)
(* the 0 of an empty filter.  A verified emissivity is the wanted one.     *)
SensorInv ==
    /\ SensorTypeOK /\ RingOK /\ FilterFits
    /\ synced = "verified" => emissivity = "wanted"
    /\ ~raced /\ IsHealthy /\ poll.step # "mean" /\ filter_request = "none" =>
           /\ filter.count = filter.size /\ filter.size = filter_window
           /\ object_temp = <<Total(Newest(filter_window), filter_window), filter_window>>

=============================================================================
