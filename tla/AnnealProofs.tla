---------------------------- MODULE AnnealProofs ----------------------------
(***************************************************************************)
(* For every queue length, count, dwell time and cap: whatever clients     *)
(* request, the outputs are safe at rest and a heat step is bounded; and   *)
(* with careful clients the run implements AnnealBatch.                    *)
(***************************************************************************)
EXTENDS AnnealCycle, SequenceTheorems, TLAPS

Careful == StartIsClean /\ CaseFits /\ LeftOnlyByStop

(* What the menu task takes from the queue, or a client puts there.        *)
LEMMA PollKeepsQueue == QueueOK /\ Poll => QueueOK'
BY CycleAssumption, HeadTailProperties DEF QueueOK, Poll

LEMMA AppendKeepsQueue ==
  ASSUME QueueOK, Room, NEW e \in Events,
         encoder_event_queue' = Append(encoder_event_queue, e)
  PROVE  QueueOK'
BY CycleAssumption, AppendProperties DEF QueueOK, Room

(* The limit after a lost sensor: one more poll, then the dwell time. *)
LEMMA FallbackBounds ==
  ASSUME NEW e \in Nat, NEW d \in Nat, NEW m \in Nat, e <= m
  PROVE  LET l == Least(Most(e + 1, d), m)
         IN  /\ l \in Nat /\ l <= m /\ e <= l
             /\ d <= l \/ l = m
             /\ e < l \/ m <= e
BY DEF Least, Most

(* The queue of a start request that nothing came in between. *)
LEMMA OverrideAlone ==
  /\ <<"OVERRIDE">> # <<>> /\ Head(<<"OVERRIDE">>) = "OVERRIDE"
  /\ Tail(<<"OVERRIDE">>) = <<>> /\ Append(<<>>, "OVERRIDE") = <<"OVERRIDE">>
OBVIOUS

(* Where the coil and the feeder may be on. *)
LEMMA OutputsStep ==
  ASSUME TypeOK, Outputs, [Next]_vars
  PROVE  Outputs'
<1> USE DEF Outputs, TypeOK, GoTo, At, Running, config, batch, heat, machine,
          restVars, fixed
<1>1. CASE \/ \E b \in BOOLEAN : StartRun(b)
           \/ Navigate
           \/ HoldBegin
           \/ HoldDone
           \/ FeedBegin
           \/ FeedStop
    BY <1>1 DEF
      StartRun, Navigate, HoldBegin, HoldDone, FeedBegin, FeedStop
<1>2. CASE \/ FeedDone
           \/ HeatBegin
           \/ HeatTimeOver
           \/ HeatAbort
           \/ HeatCutoffSeen
           \/ HeatTargetReached
    BY <1>2 DEF
      FeedDone, HeatBegin, Least, HeatTimeOver, WithinLimit, HeatAbort,
      HeatCutoffSeen, HeatTargetReached
<1>3. CASE \/ HeatSensorLost
           \/ HeatContinue
           \/ HeatTick
           \/ HeatOff
           \/ DropBegin
           \/ DropDone
    BY <1>3 DEF
      HeatSensorLost, WithinLimit, Least, Most, HeatContinue, HeatTick,
      HeatOff, ForgetLocals, DropBegin, DropDone
<1>4. CASE \/ DropCount
           \/ CooldownEnd
           \/ CooldownBegin
           \/ CooldownPoll
           \/ CooldownOver
           \/ RstInStep
    BY <1>4 DEF
      DropCount, CooldownEnd, CooldownBegin, CooldownPoll, CooldownOver,
      RstInStep, ExitOnRst, RstPolled
<1>5. CASE \/ ExitHeater
           \/ ExitMotor
           \/ Cutoff
           \/ \E s \in Requests : RestRequest(s)
           \/ RestSend
           \/ RestWrite
    BY <1>5 DEF
      ExitHeater, ExitMotor, Cutoff, RestRequest, RestSend, RestWrite
<1>6. CASE \/ \E c \in Counts : SetCycleCount(c)
           \/ \E b \in BOOLEAN : SetTemperatureMode(b)
           \/ \E e \in {"RST", "PRESS"} : Button(e)
    BY <1>6 DEF
      SetCycleCount, SetTemperatureMode, Button
<1>7. CASE UNCHANGED vars
    BY <1>7 DEF vars
<1> HIDE DEF Outputs, TypeOK, GoTo, At, Running
<1> QED
    BY <1>1, <1>2, <1>3, <1>4, <1>5, <1>6, <1>7
    DEF Next, MenuTask, Heating, RestStep, Environment

(* How far the heat loop is from its limit. *)
LEMMA TimingStep ==
  ASSUME TypeOK, Outputs, HeatTiming, [Next]_vars
  PROVE  HeatTiming'
<1> USE CycleAssumption DEF HeatTiming, Outputs, TypeOK, CycleAssumption, GoTo, At, Running,
          config, batch, heat, machine, restVars, fixed
<1>1. CASE HeatBegin
  <2>1. /\ elapsed' = 0 /\ at' = "heat" /\ max_dwell' = max_dwell /\ dwell' = dwell
        /\ limit' = max_dwell \/ limit' = Least(dwell, max_dwell)
        /\ ~has_time_limit' => limit' = max_dwell
      BY <1>1 DEF HeatBegin
  <2>2. dwell \in Nat /\ max_dwell \in Nat
      OBVIOUS
  <2>3. /\ limit' \in Nat /\ limit' <= max_dwell
        /\ dwell <= limit' \/ limit' = max_dwell
      BY <2>1, <2>2 DEF Least
  <2> QED
      BY <2>1, <2>3
<1>2. CASE HeatContinue
    BY <1>2 DEF HeatContinue, WithinLimit
<1>3. CASE HeatSensorLost
  <2>1. /\ limit' = Least(Most(elapsed + 1, dwell), max_dwell)
        /\ at' = "heat_delay" /\ max_dwell' = max_dwell /\ dwell' = dwell
        /\ elapsed' = elapsed /\ has_time_limit' = TRUE
        /\ elapsed <= limit /\ limit <= max_dwell
      BY <1>3 DEF HeatSensorLost
  <2>2. dwell \in Nat /\ max_dwell \in Nat /\ elapsed \in Nat /\ limit \in Nat
      OBVIOUS
  <2>3. elapsed <= max_dwell
      BY <2>1, <2>2
  <2>4. /\ limit' <= max_dwell /\ elapsed <= limit'
        /\ dwell <= limit' \/ limit' = max_dwell
        /\ elapsed < limit' \/ max_dwell <= elapsed
      BY <2>1, <2>2, <2>3, FallbackBounds
  <2> QED
      BY <2>1, <2>4
<1>4. CASE HeatTick
    BY <1>4 DEF HeatTick
<1>5. CASE \/ \E b \in BOOLEAN : StartRun(b)
           \/ Navigate
           \/ HoldBegin
           \/ HoldDone
           \/ FeedBegin
           \/ FeedStop
    BY <1>5 DEF
      StartRun, Navigate, HoldBegin, HoldDone, FeedBegin, FeedStop
<1>6. CASE \/ FeedDone
           \/ HeatTimeOver
           \/ HeatAbort
           \/ HeatCutoffSeen
           \/ HeatTargetReached
           \/ HeatOff
    BY <1>6 DEF
      FeedDone, HeatTimeOver, WithinLimit, HeatAbort, HeatCutoffSeen,
      HeatTargetReached, HeatOff, ForgetLocals
<1>7. CASE \/ DropBegin
           \/ DropDone
           \/ DropCount
           \/ CooldownEnd
           \/ CooldownBegin
           \/ CooldownPoll
    BY <1>7 DEF
      DropBegin, DropDone, DropCount, CooldownEnd, CooldownBegin, CooldownPoll
<1>8. CASE \/ CooldownOver
           \/ RstInStep
           \/ ExitHeater
           \/ ExitMotor
           \/ Cutoff
           \/ \E s \in Requests : RestRequest(s)
    BY <1>8 DEF
      CooldownOver, RstInStep, ExitOnRst, RstPolled, ExitHeater, ExitMotor,
      Cutoff, RestRequest
<1>9. CASE \/ RestSend
           \/ RestWrite
           \/ \E c \in Counts : SetCycleCount(c)
           \/ \E b \in BOOLEAN : SetTemperatureMode(b)
           \/ \E e \in {"RST", "PRESS"} : Button(e)
    BY <1>9 DEF
      RestSend, RestWrite, SetCycleCount, SetTemperatureMode, Button
<1>10. CASE UNCHANGED vars
    BY <1>10 DEF vars
<1> HIDE DEF HeatTiming, Outputs, TypeOK, GoTo, At, Running
<1> QED
    BY <1>1, <1>2, <1>3, <1>4, <1>5, <1>6, <1>7, <1>8, <1>9, <1>10
    DEF Next, MenuTask, Heating, RestStep, Environment

(* The queue keeps its type and its length. *)
LEMMA QueueStep ==
  ASSUME QueueOK, [Next]_vars
  PROVE  QueueOK'
<1> USE DEF QueueOK, GoTo, At, Running, config, batch, heat, machine, restVars,
          fixed
<1>1. CASE RestSend
    BY <1>1, AppendKeepsQueue DEF RestSend, Events
<1>2. CASE \E e \in {"RST", "PRESS"} : Button(e)
    BY <1>2, AppendKeepsQueue DEF Button, Events
<1>3. CASE \/ \E b \in BOOLEAN : StartRun(b)
           \/ Navigate
           \/ HoldBegin
           \/ FeedBegin
           \/ HeatAbort
           \/ HeatCutoffSeen
           \/ HeatTargetReached
           \/ HeatSensorLost
           \/ HeatContinue
           \/ CooldownPoll
           \/ RstInStep
    BY <1>3, PollKeepsQueue DEF
      StartRun, Navigate, HoldBegin, FeedBegin, HeatAbort, HeatCutoffSeen,
      HeatTargetReached, HeatSensorLost, HeatContinue, CooldownPoll,
      RstInStep, ExitOnRst
<1>4. CASE \/ HoldDone
           \/ FeedStop
           \/ FeedDone
           \/ HeatBegin
           \/ HeatTimeOver
           \/ HeatTick
    BY <1>4 DEF
      HoldDone, FeedStop, FeedDone, HeatBegin, Least, HeatTimeOver,
      WithinLimit, HeatTick
<1>5. CASE \/ HeatOff
           \/ DropBegin
           \/ DropDone
           \/ DropCount
           \/ CooldownEnd
           \/ CooldownBegin
    BY <1>5 DEF
      HeatOff, ForgetLocals, DropBegin, DropDone, DropCount, CooldownEnd,
      CooldownBegin
<1>6. CASE \/ CooldownOver
           \/ ExitHeater
           \/ ExitMotor
           \/ Cutoff
           \/ \E s \in Requests : RestRequest(s)
           \/ RestWrite
    BY <1>6 DEF
      CooldownOver, ExitHeater, ExitMotor, Cutoff, RestRequest, RestWrite
<1>7. CASE \/ \E c \in Counts : SetCycleCount(c)
           \/ \E b \in BOOLEAN : SetTemperatureMode(b)
    BY <1>7 DEF
      SetCycleCount, SetTemperatureMode
<1>8. CASE UNCHANGED vars
    BY <1>8 DEF vars
<1> HIDE DEF QueueOK, GoTo, At, Running
<1> QED
    BY <1>1, <1>2, <1>3, <1>4, <1>5, <1>6, <1>7, <1>8
    DEF Next, MenuTask, Heating, RestStep, Environment

(* The flags stay Boolean. *)
LEMMA FlagsStep ==
  ASSUME FlagsOK, [Next]_vars
  PROVE  FlagsOK'
<1> USE DEF FlagsOK, GoTo, At, Running, config, batch, heat, machine, restVars,
          fixed
<1>1. CASE \/ \E b \in BOOLEAN : StartRun(b)
    BY <1>1 DEF
      StartRun
<1>2. CASE \/ Navigate
    BY <1>2 DEF
      Navigate
<1>3. CASE \/ HoldBegin
    BY <1>3 DEF
      HoldBegin
<1>4. CASE \/ HoldDone
    BY <1>4 DEF
      HoldDone
<1>5. CASE \/ FeedBegin
    BY <1>5 DEF
      FeedBegin
<1>6. CASE \/ FeedStop
    BY <1>6 DEF
      FeedStop
<1>7. CASE \/ FeedDone
    BY <1>7 DEF
      FeedDone
<1>8. CASE \/ HeatBegin
    BY <1>8 DEF
      HeatBegin, Least
<1>9. CASE \/ HeatTimeOver
    BY <1>9 DEF
      HeatTimeOver, WithinLimit
<1>10. CASE \/ HeatAbort
    BY <1>10 DEF
      HeatAbort, WithinLimit
<1>11. CASE \/ HeatCutoffSeen
    BY <1>11 DEF
      HeatCutoffSeen, WithinLimit
<1>12. CASE \/ HeatTargetReached
    BY <1>12 DEF
      HeatTargetReached, WithinLimit
<1>13. CASE \/ HeatSensorLost
    BY <1>13 DEF
      HeatSensorLost, WithinLimit, Least, Most
<1>14. CASE \/ HeatContinue
    BY <1>14 DEF
      HeatContinue, WithinLimit
<1>15. CASE \/ HeatTick
    BY <1>15 DEF
      HeatTick
<1>16. CASE \/ HeatOff
    BY <1>16 DEF
      HeatOff, ForgetLocals
<1>17. CASE \/ DropBegin
    BY <1>17 DEF
      DropBegin
<1>18. CASE \/ DropDone
    BY <1>18 DEF
      DropDone
<1>19. CASE \/ DropCount
    BY <1>19 DEF
      DropCount
<1>20. CASE \/ CooldownEnd
    BY <1>20 DEF
      CooldownEnd
<1>21. CASE \/ CooldownBegin
    BY <1>21 DEF
      CooldownBegin
<1>22. CASE \/ CooldownPoll
    BY <1>22 DEF
      CooldownPoll
<1>23. CASE \/ CooldownOver
    BY <1>23 DEF
      CooldownOver
<1>24. CASE \/ RstInStep
    BY <1>24 DEF
      RstInStep, ExitOnRst, RstPolled
<1>25. CASE \/ ExitHeater
    BY <1>25 DEF
      ExitHeater
<1>26. CASE \/ ExitMotor
    BY <1>26 DEF
      ExitMotor
<1>27. CASE \/ Cutoff
    BY <1>27 DEF
      Cutoff
<1>28. CASE \/ \E s \in Requests : RestRequest(s)
    BY <1>28 DEF
      RestRequest
<1>29. CASE \/ RestSend
    BY <1>29 DEF
      RestSend
<1>30. CASE \/ RestWrite
    BY <1>30 DEF
      RestWrite
<1>31. CASE \/ \E c \in Counts : SetCycleCount(c)
    BY <1>31 DEF
      SetCycleCount
<1>32. CASE \/ \E b \in BOOLEAN : SetTemperatureMode(b)
    BY <1>32 DEF
      SetTemperatureMode
<1>33. CASE \/ \E e \in {"RST", "PRESS"} : Button(e)
    BY <1>33 DEF
      Button
<1>34. CASE UNCHANGED vars
    BY <1>34 DEF vars
<1> HIDE DEF FlagsOK, GoTo, At, Running
<1> QED
    BY <1>1, <1>2, <1>3, <1>4, <1>5, <1>6, <1>7, <1>8, <1>9, <1>10, <1>11,
       <1>12, <1>13, <1>14, <1>15, <1>16, <1>17, <1>18, <1>19, <1>20, <1>21,
       <1>22, <1>23, <1>24, <1>25, <1>26, <1>27, <1>28, <1>29, <1>30, <1>31,
       <1>32, <1>33, <1>34
    DEF Next, MenuTask, Heating, RestStep, Environment

(* Each step keeps the other types. *)
LEMMA TypeStep ==
  ASSUME TypeOK, QueueOK', FlagsOK', [Next]_vars
  PROVE  TypeOK'
<1> USE CycleAssumption DEF TypeOK, CycleAssumption, States, Cases, GoTo, At, Running, config,
          batch, heat, machine, restVars, fixed
<1>1. CASE \/ \E b \in BOOLEAN : StartRun(b)
           \/ Navigate
           \/ HoldBegin
           \/ HoldDone
           \/ FeedBegin
           \/ FeedStop
    BY <1>1 DEF
      StartRun, Navigate, HoldBegin, HoldDone, FeedBegin, FeedStop
<1>2. CASE \/ FeedDone
           \/ HeatBegin
           \/ HeatTimeOver
           \/ HeatAbort
           \/ HeatCutoffSeen
           \/ HeatTargetReached
    BY <1>2 DEF
      FeedDone, HeatBegin, Least, HeatTimeOver, WithinLimit, HeatAbort,
      HeatCutoffSeen, HeatTargetReached
<1>3. CASE \/ HeatSensorLost
           \/ HeatContinue
           \/ HeatTick
           \/ HeatOff
           \/ DropBegin
           \/ DropDone
    BY <1>3 DEF
      HeatSensorLost, WithinLimit, Least, Most, HeatContinue, HeatTick,
      HeatOff, ForgetLocals, DropBegin, DropDone
<1>4. CASE \/ DropCount
           \/ CooldownEnd
           \/ CooldownBegin
           \/ CooldownPoll
           \/ CooldownOver
           \/ RstInStep
    BY <1>4 DEF
      DropCount, CooldownEnd, CooldownBegin, CooldownPoll, CooldownOver,
      RstInStep, ExitOnRst, RstPolled
<1>5. CASE \/ ExitHeater
           \/ ExitMotor
           \/ Cutoff
           \/ \E s \in Requests : RestRequest(s)
           \/ RestSend
           \/ RestWrite
    BY <1>5 DEF
      ExitHeater, ExitMotor, Cutoff, RestRequest, RestSend, RestWrite
<1>6. CASE \/ \E c \in Counts : SetCycleCount(c)
           \/ \E b \in BOOLEAN : SetTemperatureMode(b)
           \/ \E e \in {"RST", "PRESS"} : Button(e)
    BY <1>6 DEF
      SetCycleCount, SetTemperatureMode, Button
<1>7. CASE UNCHANGED vars
    BY <1>7 DEF vars
<1> HIDE DEF TypeOK, States, Cases, GoTo, At, Running
<1> QED
    BY <1>1, <1>2, <1>3, <1>4, <1>5, <1>6, <1>7
    DEF Next, MenuTask, Heating, RestStep, Environment

(* A careful start stays clean. *)
LEMMA CleanStep ==
  ASSUME TypeOK, Outputs, ~careless, Careful, [Next]_vars
  PROVE  StartIsClean'
<1> USE OverrideAlone DEF StartIsClean, Careful, Outputs, Poll, TimePasses, Room, RstPolled,
          GoTo, At, Running, config, batch, heat, machine, restVars, fixed
<1>1. CASE \/ \E b \in BOOLEAN : StartRun(b)
           \/ Navigate
           \/ HoldBegin
           \/ HoldDone
           \/ FeedBegin
           \/ FeedStop
    BY <1>1 DEF
      StartRun, Navigate, HoldBegin, HoldDone, FeedBegin, FeedStop
<1>2. CASE \/ FeedDone
           \/ HeatBegin
           \/ HeatTimeOver
           \/ HeatAbort
           \/ HeatCutoffSeen
           \/ HeatTargetReached
    BY <1>2 DEF
      FeedDone, HeatBegin, Least, HeatTimeOver, WithinLimit, HeatAbort,
      HeatCutoffSeen, HeatTargetReached
<1>3. CASE \/ HeatSensorLost
           \/ HeatContinue
           \/ HeatTick
           \/ HeatOff
           \/ DropBegin
           \/ DropDone
    BY <1>3 DEF
      HeatSensorLost, WithinLimit, Least, Most, HeatContinue, HeatTick,
      HeatOff, ForgetLocals, DropBegin, DropDone
<1>4. CASE \/ DropCount
           \/ CooldownEnd
           \/ CooldownBegin
           \/ CooldownPoll
           \/ CooldownOver
           \/ RstInStep
    BY <1>4 DEF
      DropCount, CooldownEnd, CooldownBegin, CooldownPoll, CooldownOver,
      RstInStep, ExitOnRst, RstPolled
<1>5. CASE \/ ExitHeater
           \/ ExitMotor
           \/ Cutoff
           \/ \E s \in Requests : RestRequest(s)
           \/ RestSend
           \/ RestWrite
    BY <1>5 DEF
      ExitHeater, ExitMotor, Cutoff, RestRequest, RestSend, RestWrite
<1>6. CASE \/ \E c \in Counts : SetCycleCount(c)
           \/ \E b \in BOOLEAN : SetTemperatureMode(b)
           \/ \E e \in {"RST", "PRESS"} : Button(e)
    BY <1>6 DEF
      SetCycleCount, SetTemperatureMode, Button
<1>7. CASE UNCHANGED vars
    BY <1>7 DEF vars
<1> HIDE DEF StartIsClean, Careful, Outputs, Poll, TimePasses, Room, RstPolled, GoTo, At, Running
<1> QED
    BY <1>1, <1>2, <1>3, <1>4, <1>5, <1>6, <1>7
    DEF Next, MenuTask, Heating, RestStep, Environment

(* The case and the holder are where the statement expects them. *)
LEMMA CaseStep ==
  ASSUME TypeOK, Outputs, ~careless, Careful, [Next]_vars
  PROVE  CaseFits'
<1> USE DEF StartIsClean, CaseFits, Careful, Outputs, TimePasses, Room, GoTo,
          At, Running, config, batch, heat, machine, restVars, fixed
<1>1. CASE \/ \E b \in BOOLEAN : StartRun(b)
           \/ Navigate
           \/ HoldBegin
           \/ HoldDone
           \/ FeedBegin
           \/ FeedStop
    BY <1>1 DEF
      StartRun, Navigate, HoldBegin, HoldDone, FeedBegin, FeedStop
<1>2. CASE \/ FeedDone
           \/ HeatBegin
           \/ HeatTimeOver
           \/ HeatAbort
           \/ HeatCutoffSeen
           \/ HeatTargetReached
    BY <1>2 DEF
      FeedDone, HeatBegin, Least, HeatTimeOver, WithinLimit, HeatAbort,
      HeatCutoffSeen, HeatTargetReached
<1>3. CASE \/ HeatSensorLost
           \/ HeatContinue
           \/ HeatTick
           \/ HeatOff
           \/ DropBegin
           \/ DropDone
    BY <1>3 DEF
      HeatSensorLost, WithinLimit, Least, Most, HeatContinue, HeatTick,
      HeatOff, ForgetLocals, DropBegin, DropDone
<1>4. CASE \/ DropCount
           \/ CooldownEnd
           \/ CooldownBegin
           \/ CooldownPoll
           \/ CooldownOver
           \/ RstInStep
    BY <1>4 DEF
      DropCount, CooldownEnd, CooldownBegin, CooldownPoll, CooldownOver,
      RstInStep, ExitOnRst, RstPolled
<1>5. CASE \/ ExitHeater
           \/ ExitMotor
           \/ Cutoff
           \/ \E s \in Requests : RestRequest(s)
           \/ RestSend
           \/ RestWrite
    BY <1>5 DEF
      ExitHeater, ExitMotor, Cutoff, RestRequest, RestSend, RestWrite
<1>6. CASE \/ \E c \in Counts : SetCycleCount(c)
           \/ \E b \in BOOLEAN : SetTemperatureMode(b)
           \/ \E e \in {"RST", "PRESS"} : Button(e)
    BY <1>6 DEF
      SetCycleCount, SetTemperatureMode, Button
<1>7. CASE UNCHANGED vars
    BY <1>7 DEF vars
<1> HIDE DEF StartIsClean, CaseFits, Careful, Outputs, TimePasses, Room, GoTo, At, Running
<1> QED
    BY <1>1, <1>2, <1>3, <1>4, <1>5, <1>6, <1>7
    DEF Next, MenuTask, Heating, RestStep, Environment

(* A case is left behind only by a stop. *)
LEMMA LeftStep ==
  ASSUME TypeOK, Outputs, ~careless, Careful, [Next]_vars
  PROVE  LeftOnlyByStop'
<1> USE DEF StartIsClean, CaseFits, LeftOnlyByStop, Careful, Outputs, GoTo, At,
          Running, config, batch, heat, machine, restVars, fixed
<1>1. CASE \E s \in Requests : RestRequest(s)
    BY <1>1 DEF RestRequest
<1>2. CASE RestSend
    BY <1>2 DEF RestSend
<1>3. CASE RestWrite
    BY <1>3 DEF RestWrite
<1>4. CASE \/ \E b \in BOOLEAN : StartRun(b)
           \/ Navigate
           \/ HoldBegin
           \/ HoldDone
           \/ FeedBegin
    BY <1>4 DEF
      StartRun, Navigate, HoldBegin, HoldDone, FeedBegin
<1>5. CASE \/ FeedStop
           \/ FeedDone
           \/ HeatBegin
           \/ HeatTimeOver
           \/ HeatAbort
    BY <1>5 DEF
      FeedStop, FeedDone, HeatBegin, Least, HeatTimeOver, WithinLimit,
      HeatAbort
<1>6. CASE \/ HeatCutoffSeen
           \/ HeatTargetReached
           \/ HeatSensorLost
           \/ HeatContinue
           \/ HeatTick
    BY <1>6 DEF
      HeatCutoffSeen, WithinLimit, HeatTargetReached, HeatSensorLost, Least,
      Most, HeatContinue, HeatTick
<1>7. CASE \/ HeatOff
           \/ DropBegin
           \/ DropDone
           \/ DropCount
           \/ CooldownEnd
    BY <1>7 DEF
      HeatOff, ForgetLocals, DropBegin, DropDone, DropCount, CooldownEnd
<1>8. CASE \/ CooldownBegin
           \/ CooldownPoll
           \/ CooldownOver
           \/ RstInStep
           \/ ExitHeater
    BY <1>8 DEF
      CooldownBegin, CooldownPoll, CooldownOver, RstInStep, ExitOnRst,
      RstPolled, ExitHeater
<1>9. CASE \/ ExitMotor
           \/ Cutoff
           \/ \E c \in Counts : SetCycleCount(c)
           \/ \E b \in BOOLEAN : SetTemperatureMode(b)
           \/ \E e \in {"RST", "PRESS"} : Button(e)
    BY <1>9 DEF
      ExitMotor, Cutoff, SetCycleCount, SetTemperatureMode, Button
<1>10. CASE UNCHANGED vars
    BY <1>10 DEF vars
<1> HIDE DEF StartIsClean, CaseFits, LeftOnlyByStop, Careful, Outputs, GoTo, At, Running
<1> QED
    BY <1>1, <1>2, <1>3, <1>4, <1>5, <1>6, <1>7, <1>8, <1>9, <1>10
    DEF Next, MenuTask, Heating, RestStep, Environment

(* A cutoff of the first case is noticed and ends the batch. *)
LEMMA CutoffStep ==
  ASSUME TypeOK, Outputs, HeatTiming, ~careless, Careful, CutoffIsKept, [Next]_vars
  PROVE  CutoffIsKept'
<1> USE CycleAssumption DEF TypeOK, HeatTiming, StartIsClean, LeftOnlyByStop,
          CutoffIsKept, Careful, Outputs, TimePasses, Room, GoTo, At, Running,
          config, batch, heat, machine, restVars, fixed
<1>1. CASE \/ \E b \in BOOLEAN : StartRun(b)
           \/ Navigate
           \/ HoldBegin
           \/ HoldDone
           \/ FeedBegin
           \/ FeedStop
    BY <1>1 DEF
      StartRun, Navigate, HoldBegin, HoldDone, FeedBegin, FeedStop
<1>2. CASE \/ FeedDone
           \/ HeatBegin
           \/ HeatTimeOver
           \/ HeatAbort
           \/ HeatCutoffSeen
           \/ HeatTargetReached
  <2>1. CASE FeedDone BY <2>1 DEF FeedDone
  <2>2. CASE HeatBegin
    <3>1. use_temp_target' = (use_temperature_mode /\ sensor_present)
          /\ has_time_limit' = ~use_temp_target'
        BY <2>2 DEF HeatBegin
    <3>2. ~use_temperature_mode => has_time_limit' /\ ~use_temp_target'
        BY <3>1, Zenon
    <3>3. /\ at' = "heat" /\ elapsed' = 0 /\ anneal_mode_state' = anneal_mode_state
          /\ anneal_mode_state = "HEAT" /\ max_dwell \in Nat
          /\ UNCHANGED <<stopped, use_temperature_mode, dwell, max_dwell, cases_completed>>
        BY <2>2 DEF HeatBegin
    <3> QED
        BY <3>2, <3>3
  <2>3. CASE HeatTimeOver
    <3>1. at = "heat" /\ at' = "heat_off" /\ (has_time_limit => elapsed >= dwell)
        BY <2>3 DEF HeatTimeOver, WithinLimit
    <3>2. dwell \in Nat /\ max_dwell \in Nat
        OBVIOUS
    <3>3. stopped \/ use_temperature_mode \/ ~(dwell > max_dwell + 1)
        BY <3>1, <3>2
    <3> QED
        BY <3>1, <3>3, <2>3 DEF HeatTimeOver
  <2>4. CASE HeatAbort BY <2>4 DEF HeatAbort
  <2>5. CASE HeatCutoffSeen BY <2>5 DEF HeatCutoffSeen
  <2>6. CASE HeatTargetReached BY <2>6 DEF HeatTargetReached
  <2> QED
      BY <1>2, <2>1, <2>2, <2>3, <2>4, <2>5, <2>6
<1>3. CASE \/ HeatSensorLost
           \/ HeatContinue
           \/ HeatTick
           \/ HeatOff
           \/ DropBegin
           \/ DropDone
    BY <1>3 DEF
      HeatSensorLost, WithinLimit, Least, Most, HeatContinue, HeatTick,
      HeatOff, ForgetLocals, DropBegin, DropDone
<1>4. CASE \/ DropCount
           \/ CooldownEnd
           \/ CooldownBegin
           \/ CooldownPoll
           \/ CooldownOver
           \/ RstInStep
    BY <1>4 DEF
      DropCount, CooldownEnd, CooldownBegin, CooldownPoll, CooldownOver,
      RstInStep, ExitOnRst, RstPolled
<1>5. CASE \/ ExitHeater
           \/ ExitMotor
           \/ Cutoff
           \/ \E s \in Requests : RestRequest(s)
           \/ RestSend
           \/ RestWrite
  <2>1. CASE ExitHeater \/ ExitMotor BY <2>1 DEF ExitHeater, ExitMotor
  <2>2. CASE Cutoff BY <2>2 DEF Cutoff
  <2>3. CASE (\E s \in Requests : RestRequest(s)) \/ RestSend
      BY <2>3 DEF RestRequest, RestSend
  <2>4. CASE RestWrite
    <3>1. CASE new_state = "EXIT"
        BY <2>4, <3>1 DEF RestWrite
    <3>2. CASE new_state = "HOLD"
        BY <2>4, <3>2 DEF RestWrite
    <3> QED
        BY <3>1, <3>2
  <2> QED
      BY <1>5, <2>1, <2>2, <2>3, <2>4
<1>6. CASE \/ \E c \in Counts : SetCycleCount(c)
           \/ \E b \in BOOLEAN : SetTemperatureMode(b)
           \/ \E e \in {"RST", "PRESS"} : Button(e)
    BY <1>6 DEF
      SetCycleCount, SetTemperatureMode, Button
<1>7. CASE UNCHANGED vars
    BY <1>7 DEF vars
<1> HIDE DEF TypeOK, HeatTiming, StartIsClean, LeftOnlyByStop, CutoffIsKept,
             Careful, Outputs, TimePasses, Room, GoTo, At, Running
<1> QED
    BY <1>1, <1>2, <1>3, <1>4, <1>5, <1>6, <1>7
    DEF Next, MenuTask, Heating, RestStep, Environment

(* Clients do not change their ways. *)
LEMMA CarelessIsFixed ==
  ASSUME [Next]_vars
  PROVE  careless' = careless
<1> USE DEF GoTo, At, Running, config, batch, heat, machine, restVars, fixed
<1>1. CASE \/ \E b \in BOOLEAN : StartRun(b)
           \/ Navigate
           \/ HoldBegin
           \/ HoldDone
           \/ FeedBegin
           \/ FeedStop
    BY <1>1 DEF
      StartRun, Navigate, HoldBegin, HoldDone, FeedBegin, FeedStop
<1>2. CASE \/ FeedDone
           \/ HeatBegin
           \/ HeatTimeOver
           \/ HeatAbort
           \/ HeatCutoffSeen
           \/ HeatTargetReached
    BY <1>2 DEF
      FeedDone, HeatBegin, Least, HeatTimeOver, WithinLimit, HeatAbort,
      HeatCutoffSeen, HeatTargetReached
<1>3. CASE \/ HeatSensorLost
           \/ HeatContinue
           \/ HeatTick
           \/ HeatOff
           \/ DropBegin
           \/ DropDone
    BY <1>3 DEF
      HeatSensorLost, WithinLimit, Least, Most, HeatContinue, HeatTick,
      HeatOff, ForgetLocals, DropBegin, DropDone
<1>4. CASE \/ DropCount
           \/ CooldownEnd
           \/ CooldownBegin
           \/ CooldownPoll
           \/ CooldownOver
           \/ RstInStep
    BY <1>4 DEF
      DropCount, CooldownEnd, CooldownBegin, CooldownPoll, CooldownOver,
      RstInStep, ExitOnRst, RstPolled
<1>5. CASE \/ ExitHeater
           \/ ExitMotor
           \/ Cutoff
           \/ \E s \in Requests : RestRequest(s)
           \/ RestSend
           \/ RestWrite
    BY <1>5 DEF
      ExitHeater, ExitMotor, Cutoff, RestRequest, RestSend, RestWrite
<1>6. CASE \/ \E c \in Counts : SetCycleCount(c)
           \/ \E b \in BOOLEAN : SetTemperatureMode(b)
           \/ \E e \in {"RST", "PRESS"} : Button(e)
    BY <1>6 DEF
      SetCycleCount, SetTemperatureMode, Button
<1>7. CASE UNCHANGED vars
    BY <1>7 DEF vars
<1> HIDE DEF GoTo, At, Running
<1> QED
    BY <1>1, <1>2, <1>3, <1>4, <1>5, <1>6, <1>7
    DEF Next, MenuTask, Heating, RestStep, Environment

-----------------------------------------------------------------------------
(* The inductive invariant. *)
LEMMA InitCycleInv == Init => CycleInv
<1> SUFFICES ASSUME Init PROVE CycleInv
    OBVIOUS
<1>1. QueueOK
    BY CycleAssumption DEF CycleAssumption, Init, QueueOK
<1>2. FlagsOK
    BY Zenon DEF Init, FlagsOK
<1>3. TypeOK
    BY <1>1, <1>2, CycleAssumption DEF CycleAssumption, Init, TypeOK, States, Cases
<1> QED
    BY <1>3 DEF Init, CycleInv, Outputs, HeatTiming, StartIsClean, CaseFits,
                LeftOnlyByStop, CutoffIsKept, At, Running

LEMMA StepCycleInv == CycleInv /\ [Next]_vars => CycleInv'
<1> SUFFICES ASSUME CycleInv, [Next]_vars PROVE CycleInv'
    OBVIOUS
<1>1. TypeOK /\ Outputs /\ HeatTiming /\ QueueOK /\ FlagsOK
    BY DEF CycleInv, TypeOK
<1>2. TypeOK'
    BY <1>1, QueueStep, FlagsStep, TypeStep
<1>3. Outputs' /\ HeatTiming'
    BY <1>1, OutputsStep, TimingStep
<1>4. careless' = careless
    BY CarelessIsFixed
<1>5. ASSUME ~careless
      PROVE  StartIsClean' /\ CaseFits' /\ LeftOnlyByStop' /\ CutoffIsKept'
  <2>1. Careful /\ CutoffIsKept
      BY <1>5 DEF CycleInv, Careful
  <2> QED
      BY <1>1, <1>5, <2>1, CleanStep, CaseStep, LeftStep, CutoffStep
<1> QED
    BY <1>2, <1>3, <1>4, <1>5 DEF CycleInv

THEOREM CycleInvariant == Spec => []CycleInv
BY InitCycleInv, StepCycleInv, PTL DEF Spec

(* Whatever clients request: the coil is on only inside a heat step, and   *)
(* the coil and the feeder are off once the menu is back.                  *)
THEOREM CycleSafeAtRest == Spec => []SafeAtRest
<1>1. CycleInv => SafeAtRest
    BY DEF CycleInv, Outputs, SafeAtRest, Running
<1> QED
    BY <1>1, CycleInvariant, PTL

(* Whatever clients request: no heat step outlasts its limit. *)
THEOREM CycleHeatBounded == Spec => []HeatBounded
<1>1. CycleInv => HeatBounded
    BY DEF CycleInv, Outputs, HeatTiming, HeatBounded
<1> QED
    BY <1>1, CycleInvariant, PTL

(* With careful clients only a stop leaves a case in the holder. *)
THEOREM CycleLeavesNoCase == Spec => []OnlyAStopLeavesACase
<1>1. CycleInv => OnlyAStopLeavesACase
    BY DEF CycleInv, LeftOnlyByStop, OnlyAStopLeavesACase
<1> QED
    BY <1>1, CycleInvariant, PTL

(* With careful clients a profile in time mode whose dwell time exceeds    *)
(* the heater's cap by more than one poll ends the batch in its first case *)
(* (anneal_mode.cpp:55-61); within one poll of the cap the loop's own      *)
(* limit (line 262) hides the cutoff, and the batch goes on.               *)
THEOREM CycleCutoffEndsBatch == Spec => []CutoffEndsBatch
<1>1. CycleInv => CutoffEndsBatch
  <2>1. SUFFICES ASSUME CycleInv, ~careless, ~stopped, ~use_temperature_mode,
                        at \in {"feed_run", "feed_settle", "hold_move"},
                        dwell > max_dwell, dwell # max_dwell + 1
                 PROVE  cases_completed = 0
    BY DEF CutoffEndsBatch
  <2>2. dwell \in Nat /\ max_dwell \in Nat
    BY <2>1, CycleAssumption DEF CycleInv, TypeOK
  <2>3. dwell > max_dwell + 1 BY <2>1, <2>2
  <2>4. QED BY <2>1, <2>3 DEF CycleInv, CutoffIsKept
<1> QED
    BY <1>1, CycleInvariant, PTL

-----------------------------------------------------------------------------
(* The refinement. *)
BatchVars == <<Running, holder, coil, feeder, case, cases_completed, cycle_count>>

(* Statements that only the firmware sees. *)
LEMMA Stutters ==
  ASSUME CycleInv, ~careless,
         \/ Navigate \/ FeedDone \/ HeatTimeOver \/ HeatAbort \/ HeatCutoffSeen
         \/ HeatTargetReached \/ HeatSensorLost \/ HeatContinue \/ HeatTick
         \/ CooldownEnd \/ CooldownPoll \/ CooldownOver \/ RstInStep \/ ExitHeater
         \/ (\E s \in Requests : RestRequest(s)) \/ RestSend \/ RestWrite
         \/ (\E b \in BOOLEAN : SetTemperatureMode(b))
         \/ (\E e \in {"RST", "PRESS"} : Button(e))
         \/ UNCHANGED vars
  PROVE  UNCHANGED BatchVars
<1> USE DEF BatchVars, Running, GoTo, At, config, batch, heat, machine, restVars, fixed
<1>1. CASE Navigate \/ FeedDone \/ HeatTimeOver \/ HeatAbort \/ HeatCutoffSeen \/ HeatTargetReached
    BY <1>1 DEF Navigate, FeedDone, HeatTimeOver, HeatAbort, HeatCutoffSeen, HeatTargetReached
<1>2. CASE HeatSensorLost \/ HeatContinue \/ HeatTick \/ CooldownEnd \/ CooldownPoll \/ CooldownOver
    BY <1>2 DEF HeatSensorLost, HeatContinue, HeatTick, CooldownEnd, CooldownPoll, CooldownOver
<1>3. CASE RstInStep
    BY <1>3 DEF RstInStep, ExitOnRst
<1>4. CASE ExitHeater
    BY <1>4 DEF ExitHeater, CycleInv, TypeOK, FlagsOK, Outputs
<1>5. CASE (\E s \in Requests : RestRequest(s)) \/ RestSend \/ RestWrite
    BY <1>5 DEF RestRequest, RestSend, RestWrite
<1>6. CASE (\E b \in BOOLEAN : SetTemperatureMode(b)) \/ (\E e \in {"RST", "PRESS"} : Button(e))
    BY <1>6 DEF SetTemperatureMode, Button
<1>7. CASE UNCHANGED vars
    BY <1>7 DEF vars
<1> QED
    BY <1>1, <1>2, <1>3, <1>4, <1>5, <1>6, <1>7

(* Every other statement is a step of AnnealBatch. *)
LEMMA RefinementStep ==
  ASSUME CycleInv, ~careless, [Next]_vars
  PROVE  Batch!Next \/ UNCHANGED BatchVars
<1> USE DEF BatchVars, Running, GoTo, At, config, batch, heat, machine, restVars, fixed,
            CycleInv, TypeOK, FlagsOK, Outputs, CaseFits
<1>1. ASSUME NEW b \in BOOLEAN, StartRun(b) PROVE Batch!StartRun
    BY <1>1 DEF StartRun, Batch!StartRun
<1>2. CASE HoldBegin \/ HoldDone
    BY <1>2 DEF HoldBegin, HoldDone, Batch!Next, Batch!MoveToHold
<1>3. CASE FeedBegin
    BY <1>3 DEF FeedBegin, Batch!Next, Batch!StartFeed
<1>4. CASE FeedStop
    BY <1>4 DEF FeedStop, Batch!Next, Batch!EndFeed
<1>5. CASE HeatBegin
    BY <1>5 DEF HeatBegin, Batch!Next, Batch!CoilOn
<1>6. CASE HeatOff \/ Cutoff
    BY <1>6 DEF HeatOff, Cutoff, Batch!Next, Batch!CoilOff
<1>7. CASE DropBegin \/ DropDone
    BY <1>7 DEF DropBegin, DropDone, Batch!Next, Batch!MoveToDrop
<1>8. CASE DropCount
    BY <1>8 DEF DropCount, Batch!Next, Batch!Count
<1>9. CASE CooldownBegin
    BY <1>9, CycleAssumption DEF CooldownBegin, TargetMet, CycleAssumption, Batch!Next, Batch!NextCase
<1>10. CASE ExitMotor
    BY <1>10 DEF ExitMotor, Batch!Next, Batch!EndRun
<1>11. ASSUME NEW c \in Counts, SetCycleCount(c) PROVE Batch!Retarget
    BY <1>11 DEF SetCycleCount, Batch!Retarget
<1> HIDE DEF BatchVars, Running, GoTo, At, CycleInv, TypeOK, FlagsOK, Outputs, CaseFits
<1> QED
    BY <1>1, <1>2, <1>3, <1>4, <1>5, <1>6, <1>7, <1>8, <1>9, <1>10, <1>11, Stutters
    DEF Next, MenuTask, Heating, RestStep, Environment, Batch!Next

(* With careful clients a run of the firmware is a batch of AnnealBatch:   *)
(* one case at a time, held before it is fed, heated before it is dropped. *)
THEOREM CycleImplementsBatch == Spec => ImplementsBatch
<1>1. Init => Batch!Init
    BY DEF Init, Batch!Init, Running
<1>2. CycleInv /\ [Next]_vars =>
        [careless \/ Batch!Next]_<<Running, holder, coil, feeder, case, cases_completed, cycle_count>>
    BY RefinementStep DEF BatchVars
<1> QED
    BY <1>1, <1>2, CycleInvariant, PTL DEF Spec, ImplementsBatch
=============================================================================
