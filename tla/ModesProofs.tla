---------------------------- MODULE ModesProofs -----------------------------
(***************************************************************************)
(* For every length of the event queue, every cap and every kind of        *)
(* clients: the outputs are on only where they may be, the calibration     *)
(* heats a case only in the holder, and what it saves is at most one poll  *)
(* beyond the cap, unless a client moved the holder or switched the coil   *)
(* in the middle of it.                                                    *)
(***************************************************************************)
EXTENDS Modes, SequenceTheorems, TLAPS

QueueOK ==
  /\ encoder_event_queue \in Seq(Events)
  /\ Len(encoder_event_queue) <= QueueLength

(* The rest of TypeOK *)
ValuesOK ==
  /\ exit_state \in Choices \cup {"DEFAULT"}
  /\ mode_state \in [Modes -> {"ENTER", "EXIT"}]
  /\ at \in {"forms", "left", "info", "run"} \cup Manual \cup Calibration
  /\ manual_screen \in Screens
  /\ outcome \in {"pressed", "aborted", "timed_out"}
  /\ elapsed \in 0..Longest
  /\ dwell_time_ms \in Nat
  /\ heat \in 0..MaxDwell
  /\ speed \in {0, 1} /\ holder \in {"HOLD", "DROP"}
  /\ rest \in [step : {"idle", "send", "write"}, mode : Modes, event : Events,
              state : {"ENTER", "EXIT"}]

AskedOK == asked \subseteq {"coil", "speed", "holder", "pulse"}

LEMMA TypeParts == TypeOK <=> QueueOK /\ ValuesOK /\ AskedOK /\ careless \in Clients
BY DEF TypeOK, QueueOK, ValuesOK, AskedOK

(* The menu task takes one event, or none. *)
OneTaken ==
  \/ encoder_event_queue' = encoder_event_queue
  \/ /\ encoder_event_queue # <<>>
     /\ encoder_event_queue' = Tail(encoder_event_queue)

LEMMA TakingKeepsQueue == QueueOK /\ OneTaken => QueueOK'
BY ModesAssumption, HeadTailProperties DEF QueueOK, OneTaken

LEMMA AppendKeepsQueue ==
  ASSUME QueueOK, Len(encoder_event_queue) < QueueLength, NEW e \in Events,
         encoder_event_queue' = Append(encoder_event_queue, e)
  PROVE  QueueOK'
BY ModesAssumption, AppendProperties DEF QueueOK

LEMMA MenuTaskTakes == MenuTask => OneTaken
<1>1. Forms => OneTaken
  BY DEF
    Forms, SelectMode, SelectPulse, Navigate, LeaveForm, SaveAll, ShowInfo,
    InfoEnds, shared,
    Goes, Takes, OneTaken
<1>2. Run => OneTaken
  BY DEF
    Run, RunBegin, RunPolls, RunOver, RunEnds, shared, Goes, Takes, OneTaken
<1>3. ManualMode => OneTaken
  BY DEF
    ManualMode, ManualBegin, ManualReady, ManualSelect, ManualBack, ManualJog,
    ManualToggle, ManualMoved, ManualPulse, ManualIgnore, ManualQuit,
    ManualMotorOff, ManualCoilOff, ManualEnd, OnScreen, shared, Goes, Takes,
    OneTaken
<1>4. CalibrationMode => OneTaken
  BY DEF
    CalibrationMode, CalibrationBegin, CalibrationFeed, CalibrationFed,
    CalibrationHeat, HeatEnds, HeatAborted, HeatPressed, HeatTimedOut,
    HeatGoesOn, NothingPressed, HeatTick, CalibrationCoilOff, CalibrationDrop,
    CalibrationFailed, CalibrationSave, CalibrationSaved,
    CalibrationDiscard, ResultIgnore,
    ForgetPulse, shared, Goes, Takes, OneTaken
<1>5. QED
  BY <1>1, <1>2, <1>3, <1>4 DEF MenuTask

(* Every event in the queue is one, and they fit. *)
LEMMA QueueStep ==
  ASSUME QueueOK, rest.event \in Events, [Next]_vars
  PROVE  QueueOK'
<1>1. CASE MenuTask
  BY <1>1, MenuTaskTakes, TakingKeepsQueue
<1>2. CASE RestSend
  BY <1>2, AppendKeepsQueue DEF RestSend
<1>3. CASE \E e \in Events \ {"OVERRIDE"} : Button(e)
  BY <1>3, AppendKeepsQueue DEF Button
<1>4. CASE \/ RestWrite
           \/ \E m \in Modes, s \in {"ENTER", "EXIT"} : RestRequest(m, s)
           \/ \E v \in {0, 1} : RestSpeed(v)
           \/ \E b \in BOOLEAN : RestHolder(b) \/ RestPulse(b)
           \/ Cutoff
           \/ UNCHANGED vars
  <2>1. OneTaken
    BY <1>4 DEF RestWrite, RestRequest, RestSpeed, RestHolder, RestPulse,
  Cutoff,
      shared, vars, OneTaken
  <2>2. QED
    BY <2>1, TakingKeepsQueue
<1>5. QED
  BY <1>1, <1>2, <1>3, <1>4 DEF Next, RestHandler, Client

(* Every value stays in its range. *)
LEMMA ValuesStep ==
  ASSUME QueueOK, ValuesOK, OutputsOK, [Next]_vars
  PROVE  ValuesOK'
<1> USE DEF QueueOK, ValuesOK, OutputsOK, Modes, Choices, Manual, Calibration, Pulse,
    Screens, Events, shared, manual, calibration, heater, feeder, Goes,
    CoilOn, CoilOff, Settles, Enters, Leaves, Takes, Held, Dropped, Longest,
    AheadOfCoilOff, AheadOfStop
<1>1. CASE Forms
  BY <1>1, ModesAssumption, HeadTailProperties DEF
    Forms, SelectMode, SelectPulse, Navigate, LeaveForm, SaveAll, ShowInfo,
    InfoEnds
<1>2. CASE Run
  BY <1>2, ModesAssumption, HeadTailProperties DEF
    Run, RunBegin, RunPolls, RunOver, RunEnds
<1>3. CASE ManualMode
  BY <1>3, ModesAssumption, HeadTailProperties DEF
    ManualMode, ManualBegin, ManualReady, ManualSelect, ManualBack, ManualJog,
    ManualToggle, ManualMoved, ManualPulse, ManualIgnore, ManualQuit,
    ManualMotorOff, ManualCoilOff, ManualEnd, OnScreen
<1>4. CASE CalibrationMode
  BY <1>4, ModesAssumption, HeadTailProperties DEF
    CalibrationMode, CalibrationBegin, CalibrationFeed, CalibrationFed,
    CalibrationHeat, HeatEnds, HeatAborted, HeatPressed, HeatTimedOut,
    HeatGoesOn, NothingPressed, HeatTick, CalibrationCoilOff, CalibrationDrop,
    CalibrationFailed, CalibrationSave, CalibrationSaved,
    CalibrationDiscard, ResultIgnore,
    ForgetPulse
<1>5. CASE RestHandler
  BY <1>5, ModesAssumption, HeadTailProperties DEF
    RestHandler, RestSend, RestWrite, NoRequest
<1>6. CASE Client
  BY <1>6, ModesAssumption, HeadTailProperties DEF
    Client, RestRequest, RestSpeed, RestHolder, RestPulse, Asks, Button
<1>7. CASE Cutoff
  BY <1>7, ModesAssumption, HeadTailProperties DEF Cutoff
<1>8. CASE UNCHANGED vars
  BY <1>8 DEF vars
<1> HIDE DEF QueueOK, ValuesOK, OutputsOK, Modes, Choices, Manual, Calibration, Pulse,
    Screens, Events, shared, manual, calibration, heater, feeder, Goes,
    CoilOn, CoilOff, Settles, Enters, Leaves, Takes, Held, Dropped, Longest,
    AheadOfCoilOff, AheadOfStop
<1>9. QED
  BY <1>1, <1>2, <1>3, <1>4, <1>5, <1>6, <1>7, <1>8 DEF Next, MenuTask

(* What is asked for is one of four things. *)
LEMMA AskedStep ==
  ASSUME AskedOK, [Next]_vars
  PROVE  AskedOK'
<1> USE DEF AskedOK, heater, Settles
<1>1. CASE Forms
  BY <1>1 DEF
    Forms, SelectMode, SelectPulse, Navigate, LeaveForm, SaveAll, ShowInfo,
    InfoEnds
<1>2. CASE Run
  BY <1>2 DEF
    Run, RunBegin, RunPolls, RunEnds
<1>3. CASE ManualMode
  BY <1>3 DEF
    ManualMode, ManualBegin, ManualReady, ManualSelect, ManualBack, ManualJog,
    ManualToggle, ManualMoved, ManualPulse, ManualIgnore, ManualQuit,
    ManualMotorOff, ManualCoilOff, ManualEnd
<1>4. CASE CalibrationMode
  BY <1>4 DEF
    CalibrationMode, CalibrationBegin, CalibrationFeed, CalibrationFed,
    CalibrationHeat, HeatEnds, HeatAborted, HeatPressed, HeatTimedOut,
    HeatGoesOn, HeatTick, CalibrationCoilOff, CalibrationDrop,
    CalibrationFailed, CalibrationSave, CalibrationSaved, CalibrationDiscard,
    ResultIgnore, ForgetPulse
<1>5. CASE RestHandler
  BY <1>5 DEF
    RestHandler, RestSend, RestWrite
<1>6. CASE Client
  BY <1>6 DEF
    Client, RestRequest, RestSpeed, RestHolder, RestPulse, Button
<1>7. CASE Cutoff
  BY <1>7 DEF Cutoff
<1>8. CASE UNCHANGED vars
  BY <1>8 DEF vars
<1>9. QED
  BY <1>1, <1>2, <1>3, <1>4, <1>5, <1>6, <1>7, <1>8 DEF Next, MenuTask

(* Where the outputs may be on. *)
LEMMA OutputsStep ==
  ASSUME QueueOK, ValuesOK, OutputsOK, [Next]_vars
  PROVE  OutputsOK'
<1> USE DEF ValuesOK, OutputsOK, Manual, Calibration, Pulse, shared, manual,
    calibration, heater, feeder, Goes, CoilOn, CoilOff, Settles, Enters, Leaves, Takes, Held, Dropped, Longest,
    AheadOfCoilOff, AheadOfStop
<1>1. CASE Forms
  BY <1>1, ModesAssumption DEF
    Forms, SelectMode, SelectPulse, Navigate, LeaveForm, SaveAll, ShowInfo,
    InfoEnds
<1>2. CASE Run
  BY <1>2, ModesAssumption DEF
    Run, RunBegin, RunPolls, RunOver, RunEnds
<1>3. CASE ManualMode
  BY <1>3, ModesAssumption DEF
    ManualMode, ManualBegin, ManualReady, ManualSelect, ManualBack, ManualJog,
    ManualToggle, ManualMoved, ManualPulse, ManualIgnore, ManualQuit,
    ManualMotorOff, ManualCoilOff, ManualEnd, OnScreen
<1>4. CASE CalibrationMode
  BY <1>4, ModesAssumption DEF
    CalibrationMode, CalibrationBegin, CalibrationFeed, CalibrationFed,
    CalibrationHeat, HeatEnds, HeatAborted, HeatPressed, HeatTimedOut,
    HeatGoesOn, NothingPressed, HeatTick, CalibrationCoilOff, CalibrationDrop,
    CalibrationFailed, CalibrationSave, CalibrationSaved,
    CalibrationDiscard, ResultIgnore,
    ForgetPulse
<1>5. CASE RestHandler
  BY <1>5, ModesAssumption DEF
    RestHandler, RestSend, RestWrite, NoRequest
<1>6. CASE Client
  BY <1>6, ModesAssumption DEF
    Client, RestRequest, RestSpeed, RestHolder, RestPulse, Asks, Button
<1>7. CASE Cutoff
  BY <1>7, ModesAssumption DEF Cutoff
<1>8. CASE UNCHANGED vars
  BY <1>8 DEF vars
<1> HIDE DEF ValuesOK, OutputsOK, Manual, Calibration, Pulse, shared, manual,
    calibration, heater, feeder, Goes, CoilOn, CoilOff, Settles, Enters, Leaves, Takes, Held, Dropped, Longest,
    AheadOfCoilOff, AheadOfStop
<1>9. QED
  BY <1>1, <1>2, <1>3, <1>4, <1>5, <1>6, <1>7, <1>8 DEF Next, MenuTask

(* Only clients move the holder away in a calibration. *)
LEMMA HeldStep ==
  ASSUME ValuesOK, CalibrationHeld, [Next]_vars
  PROVE  CalibrationHeld'
<1> USE DEF ValuesOK, CalibrationHeld, Manual, Calibration, Pulse, shared,
    manual, calibration, heater, feeder, Goes, CoilOn, CoilOff, Settles, Enters,
    Leaves, Takes, Held, Dropped, Longest, AheadOfCoilOff, AheadOfStop
<1>1. CASE Forms
  BY <1>1 DEF
    Forms, SelectMode, SelectPulse, Navigate, LeaveForm, SaveAll, ShowInfo,
    InfoEnds
<1>2. CASE Run
  BY <1>2 DEF
    Run, RunBegin, RunPolls, RunOver, RunEnds
<1>3. CASE ManualMode
  BY <1>3 DEF
    ManualMode, ManualBegin, ManualReady, ManualSelect, ManualBack, ManualJog,
    ManualToggle, ManualMoved, ManualPulse, ManualIgnore, ManualQuit,
    ManualMotorOff, ManualCoilOff, ManualEnd, OnScreen
<1>4. CASE CalibrationMode
  BY <1>4 DEF
    CalibrationMode, CalibrationBegin, CalibrationFeed, CalibrationFed,
    CalibrationHeat, HeatEnds, HeatAborted, HeatPressed, HeatTimedOut,
    HeatGoesOn, NothingPressed, HeatTick, CalibrationCoilOff, CalibrationDrop,
    CalibrationFailed, CalibrationSave, CalibrationSaved,
    CalibrationDiscard, ResultIgnore,
    ForgetPulse
<1>5. CASE RestHandler
  BY <1>5 DEF
    RestHandler, RestSend, RestWrite, NoRequest
<1>6. CASE Client
  BY <1>6 DEF
    Client, RestRequest, RestSpeed, RestHolder, RestPulse, Asks, Button
<1>7. CASE Cutoff
  BY <1>7 DEF Cutoff
<1>8. CASE UNCHANGED vars
  BY <1>8 DEF vars
<1> HIDE DEF ValuesOK, CalibrationHeld, Manual, Calibration, Pulse, shared,
    manual, calibration, heater, feeder, Goes, CoilOn, CoilOff, Settles, Enters,
    Leaves, Takes, Held, Dropped, Longest, AheadOfCoilOff, AheadOfStop
<1>9. QED
  BY <1>1, <1>2, <1>3, <1>4, <1>5, <1>6, <1>7, <1>8 DEF Next, MenuTask

(* Only a measured time is saved. *)
LEMMA DwellStep ==
  ASSUME ValuesOK, OutputsOK, DwellBounded, [Next]_vars
  PROVE  DwellBounded'
<1> USE ModesAssumption DEF ValuesOK, OutputsOK, DwellBounded, shared, manual, calibration, heater,
    feeder, Goes, CoilOn, CoilOff, Settles, Enters, Leaves, Takes, Held, Dropped, Longest,
    AheadOfCoilOff, AheadOfStop
<1>1. CASE Forms
  BY <1>1 DEF
    Forms, SelectMode, SelectPulse, Navigate, LeaveForm, SaveAll, ShowInfo,
    InfoEnds
<1>2. CASE Run
  BY <1>2 DEF
    Run, RunBegin, RunPolls, RunOver, RunEnds
<1>3. CASE ManualMode
  BY <1>3 DEF
    ManualMode, ManualBegin, ManualReady, ManualSelect, ManualBack, ManualJog,
    ManualToggle, ManualMoved, ManualPulse, ManualIgnore, ManualQuit,
    ManualMotorOff, ManualCoilOff, ManualEnd, OnScreen
<1>4. CASE CalibrationMode
  <2>1. CalibrationSave => DwellBounded'
    BY DEF CalibrationSave
  <2>2. CalibrationFailed \/ CalibrationSaved \/ CalibrationDiscard => DwellBounded'
    BY DEF CalibrationFailed, CalibrationSaved, CalibrationDiscard, ForgetPulse
  <2>3. CalibrationHeat => DwellBounded'
    BY DEF CalibrationHeat
  <2>4. \/ CalibrationBegin \/ CalibrationFeed \/ CalibrationFed
        \/ CalibrationCoilOff \/ CalibrationDrop \/ HeatTick
        => DwellBounded'
    BY DEF CalibrationBegin, CalibrationFeed, CalibrationFed, CalibrationCoilOff,
      CalibrationDrop, HeatTick
  <2>5. \/ HeatAborted \/ HeatPressed \/ HeatTimedOut \/ HeatGoesOn \/ ResultIgnore
        => DwellBounded'
    BY DEF HeatEnds, HeatAborted, HeatPressed, HeatTimedOut, HeatGoesOn, ResultIgnore
  <2>6. QED
    BY <1>4, <2>1, <2>2, <2>3, <2>4, <2>5 DEF CalibrationMode
<1>5. CASE RestHandler
  BY <1>5 DEF
    RestHandler, RestSend, RestWrite, NoRequest
<1>6. CASE Client
  BY <1>6 DEF
    Client, RestRequest, RestSpeed, RestHolder, RestPulse, Asks, Button
<1>7. CASE Cutoff
  BY <1>7 DEF Cutoff
<1>8. CASE UNCHANGED vars
  BY <1>8 DEF vars
<1> HIDE ModesAssumption
<1> HIDE DEF ValuesOK, OutputsOK, DwellBounded, shared, manual, calibration, heater,
    feeder, Goes, CoilOn, CoilOff, Settles, Enters, Leaves, Takes, Held, Dropped, Longest,
    AheadOfCoilOff, AheadOfStop
<1>9. QED
  BY <1>1, <1>2, <1>3, <1>4, <1>5, <1>6, <1>7, <1>8 DEF Next, MenuTask

(* Flags are flags. *)
LEMMA FlagsStep ==
  ASSUME Flags, [Next]_vars
  PROVE  Flags'
<1> USE DEF Flags, manual, calibration, heater, feeder, CoilOn, CoilOff, Settles
<1>1. ASSUME NEW m, SelectMode(m) PROVE Flags'
  BY <1>1, Zenon DEF SelectMode
<1>2. SelectPulse => Flags'
  BY Zenon DEF SelectPulse
<1>3. Navigate => Flags'
  BY Zenon DEF Navigate
<1>4. LeaveForm => Flags'
  BY Zenon DEF LeaveForm
<1>5. SaveAll \/ ShowInfo \/ InfoEnds => Flags'
  BY Zenon DEF SaveAll, ShowInfo, InfoEnds
<1>6. RunBegin => Flags'
  BY Zenon DEF RunBegin
<1>7. RunPolls => Flags'
  BY Zenon DEF RunPolls
<1>8. RunEnds => Flags'
  BY Zenon DEF RunEnds
<1>9. ManualBegin => Flags'
  BY Zenon DEF ManualBegin
<1>10. ManualReady => Flags'
  BY Zenon DEF ManualReady
<1>11. ASSUME NEW s, ManualSelect(s) PROVE Flags'
  BY <1>11, Zenon DEF ManualSelect
<1>12. ManualBack => Flags'
  BY Zenon DEF ManualBack
<1>13. ASSUME NEW v, ManualJog(v) PROVE Flags'
  BY <1>13, Zenon DEF ManualJog
<1>14. ManualToggle => Flags'
  BY Zenon DEF ManualToggle
<1>15. ManualMoved => Flags'
  BY Zenon DEF ManualMoved
<1>16. ManualPulse => Flags'
  BY Zenon DEF ManualPulse
<1>17. ManualIgnore => Flags'
  BY Zenon DEF ManualIgnore
<1>18. ManualQuit => Flags'
  BY Zenon DEF ManualQuit
<1>19. ManualMotorOff => Flags'
  BY Zenon DEF ManualMotorOff
<1>20. ManualCoilOff => Flags'
  BY Zenon DEF ManualCoilOff
<1>21. ManualEnd => Flags'
  BY Zenon DEF ManualEnd
<1>22. CalibrationBegin => Flags'
  BY Zenon DEF CalibrationBegin
<1>23. CalibrationFeed => Flags'
  BY Zenon DEF CalibrationFeed
<1>24. CalibrationFed => Flags'
  BY Zenon DEF CalibrationFed
<1>25. CalibrationHeat => Flags'
  BY Zenon DEF CalibrationHeat
<1>26. HeatAborted => Flags'
  BY Zenon DEF HeatAborted, HeatEnds
<1>27. HeatPressed => Flags'
  BY Zenon DEF HeatPressed, HeatEnds
<1>28. HeatTimedOut => Flags'
  BY Zenon DEF HeatTimedOut, HeatEnds
<1>29. HeatGoesOn => Flags'
  BY Zenon DEF HeatGoesOn
<1>30. HeatTick => Flags'
  BY Zenon DEF HeatTick
<1>31. CalibrationCoilOff => Flags'
  BY Zenon DEF CalibrationCoilOff
<1>32. CalibrationDrop => Flags'
  BY Zenon DEF CalibrationDrop
<1>33. CalibrationFailed => Flags'
  BY Zenon DEF CalibrationFailed, ForgetPulse
<1>34. CalibrationSave => Flags'
  BY Zenon DEF CalibrationSave
<1>34a. CalibrationSaved => Flags'
  BY Zenon DEF CalibrationSaved, ForgetPulse
<1>35. CalibrationDiscard => Flags'
  BY Zenon DEF CalibrationDiscard, ForgetPulse
<1>36. ResultIgnore => Flags'
  BY Zenon DEF ResultIgnore
<1>37. RestSend => Flags'
  BY Zenon DEF RestSend
<1>38. RestWrite => Flags'
  BY Zenon DEF RestWrite
<1>39. ASSUME NEW m, NEW s, RestRequest(m, s) PROVE Flags'
  BY <1>39, Zenon DEF RestRequest
<1>40. ASSUME NEW v, RestSpeed(v) PROVE Flags'
  BY <1>40, Zenon DEF RestSpeed
<1>41. ASSUME NEW h \in BOOLEAN, RestHolder(h) PROVE Flags'
  BY <1>41, Zenon DEF RestHolder
<1>42. ASSUME NEW b \in BOOLEAN, RestPulse(b) PROVE Flags'
  BY <1>42, Zenon DEF RestPulse
<1>43. ASSUME NEW e, Button(e) PROVE Flags'
  BY <1>43, Zenon DEF Button
<1>44. Cutoff => Flags'
  BY Zenon DEF Cutoff
<1>45. UNCHANGED vars => Flags'
  BY Zenon DEF vars
<1> HIDE DEF Flags, manual, calibration, heater, feeder, CoilOn, CoilOff, Settles
<1>46. QED
  BY <1>1, <1>2, <1>3, <1>4, <1>5, <1>6, <1>7, <1>8, <1>9, <1>10, <1>11,
     <1>12, <1>13, <1>14, <1>15, <1>16, <1>17, <1>18, <1>19, <1>20, <1>21,
     <1>22, <1>23, <1>24, <1>25, <1>26, <1>27, <1>28, <1>29, <1>30, <1>31,
     <1>32, <1>33, <1>34, <1>34a, <1>35, <1>36, <1>37, <1>38, <1>39, <1>40, <1>41,
     <1>42, <1>43, <1>44, <1>45, Zenon
    DEF Next, MenuTask, Forms, Run, ManualMode, CalibrationMode, RestHandler,
        Client

-----------------------------------------------------------------------------
(* What the states that REST reports have to do with the queue: what a     *)
(* step that keeps it, takes event e from it or puts e into it does.       *)
Kept ==
  /\ Nothing => Nothing'
  /\ ~Nothing => ~Nothing'
  /\ HasRst => HasRst'
  /\ EndsWithRst => EndsWithRst'
  /\ \A f \in Events : (Ahead(f) => Ahead(f)') /\ (Just(f) => Just(f)')

Took(e) ==
  /\ ~Nothing
  /\ \A f \in Events : (Ahead(f) => f = e) /\ (Just(f) => f = e /\ Nothing')
  /\ HasRst /\ e # "RST" => HasRst'
  /\ EndsWithRst /\ e # "RST" => ~Nothing'
  /\ EndsWithRst /\ ~Nothing' => EndsWithRst'

Added(e) ==
  /\ ~Nothing'
  /\ e = "RST" => EndsWithRst'
  /\ HasRst => HasRst'
  /\ \A f \in Events : Ahead(f) => Ahead(f)'
  /\ Nothing => Just(e)'

(* An event alone is ahead of all others; RST at the end is in the queue.  *)
LEMMA QueueNow ==
  ASSUME QueueOK
  PROVE  /\ \A e \in Events : Just(e) => Ahead(e) /\ ~Nothing
         /\ \A e \in Events : Ahead(e) => ~Nothing
         /\ EndsWithRst => HasRst /\ ~Nothing
BY EmptySeq, LenProperties DEF QueueOK, Nothing, Just, Ahead, HasRst, EndsWithRst

LEMMA QueueKept ==
  ASSUME UNCHANGED encoder_event_queue
  PROVE  Kept
BY DEF Kept, Nothing, Just, Ahead, HasRst, EndsWithRst

LEMMA QueueTaken ==
  ASSUME QueueOK, NEW e \in Events,
         encoder_event_queue # <<>>, Head(encoder_event_queue) = e,
         encoder_event_queue' = Tail(encoder_event_queue)
  PROVE  Took(e)
<1> DEFINE q == encoder_event_queue
<1>1. /\ q \in Seq(Events) /\ q # <<>> /\ Len(q) \in Nat /\ Len(q) >= 1
      /\ q' = Tail(q) /\ Len(q') = Len(q) - 1 /\ Head(q) = q[1] /\ q[1] = e
      /\ q' \in Seq(Events) /\ \A i \in 1..(Len(q) - 1) : q'[i] = q[i + 1]
  BY HeadTailProperties, EmptySeq, LenProperties DEF QueueOK
<1>2. ASSUME HasRst, e # "RST" PROVE HasRst'
  <2>1. PICK i \in 1..Len(q) : q[i] = "RST" BY <1>2 DEF HasRst
  <2>2. i # 1 BY <1>1, <1>2, <2>1
  <2>3. i - 1 \in 1..Len(q') /\ q'[i - 1] = "RST" BY <1>1, <2>1, <2>2
  <2>4. QED BY <2>3 DEF HasRst
<1>3. ASSUME EndsWithRst, ~Nothing' PROVE EndsWithRst'
  <2>1. Len(q') # 0 BY <1>1, <1>3, EmptySeq DEF Nothing
  <2>2. q'[Len(q')] = q[Len(q)] BY <1>1, <2>1
  <2>3. QED BY <1>3, <2>2 DEF EndsWithRst
<1>4. ASSUME EndsWithRst, e # "RST" PROVE ~Nothing'
  <2>1. Len(q) # 1 BY <1>1, <1>4 DEF EndsWithRst
  <2>2. Len(q') # 0 BY <1>1, <2>1
  <2>3. QED BY <2>2 DEF Nothing
<1>5. ASSUME NEW f \in Events, Just(f) PROVE f = e /\ Nothing'
  BY <1>1, <1>5 DEF Just, Nothing
<1>6. ASSUME NEW f \in Events, Ahead(f) PROVE f = e
  BY <1>1, <1>6 DEF Ahead
<1>7. ~Nothing BY DEF Nothing
<1>8. QED BY <1>2, <1>3, <1>4, <1>5, <1>6, <1>7 DEF Took

LEMMA EventTaken ==
  ASSUME QueueOK, NEW s, NEW e \in Events, Takes(s, e)
  PROVE  Took(e) /\ at = s /\ exit_state' = exit_state
BY QueueTaken DEF Takes

LEMMA QueueAdded ==
  ASSUME QueueOK, NEW e \in Events,
         encoder_event_queue' = Append(encoder_event_queue, e)
  PROVE  Added(e)
<1> DEFINE q == encoder_event_queue
<1>1. /\ q \in Seq(Events) /\ Len(q) \in Nat
      /\ q' \in Seq(Events) /\ Len(q') = Len(q) + 1 /\ q'[Len(q) + 1] = e
      /\ \A i \in 1..Len(q) : q'[i] = q[i]
  BY AppendProperties, LenProperties DEF QueueOK
<1>2. ~Nothing' BY <1>1 DEF Nothing
<1>3. e = "RST" => EndsWithRst' BY <1>1, <1>2 DEF EndsWithRst
<1>4. HasRst => HasRst' BY <1>1 DEF HasRst
<1>5. ASSUME NEW f \in Events, Ahead(f) PROVE Ahead(f)'
  <2>1. q # <<>> /\ Head(q) = f BY <1>5 DEF Ahead, Nothing
  <2>2. Len(q) # 0 /\ Head(q) = q[1] BY <1>1, <2>1, HeadTailProperties, EmptySeq
  <2>3. Head(q') = q'[1] BY <1>1, <1>2, HeadTailProperties DEF Nothing
  <2>4. q'[1] = q[1] BY <1>1, <2>2
  <2>5. QED BY <1>2, <2>1, <2>2, <2>3, <2>4 DEF Ahead
<1>6. Nothing => Just(e)' BY DEF Nothing, Just
<1>7. QED BY <1>2, <1>3, <1>4, <1>5, <1>6 DEF Added

(* The states that are reported stay those of the mode the menu task is    *)
(* in, and a request being served stays in step with it.                   *)
LEMMA FitsStep ==
  ASSUME QueueOK, ValuesOK, "modes" \notin careless, StateFits, RequestFits, [Next]_vars
  PROVE  StateFits' /\ RequestFits'
<1> DEFINE Fits == StateFits /\ RequestFits
<1> USE QueueNow
    DEF ValuesOK, Modes, Choices, Manual, Calibration, Pulse, Screens, Events,
        StateFits, RequestFits, EnterFits, ExitFits, Only, Kept, Took, Added,
        manual, Enters, Leaves, Goes
<1>1. ASSUME NEW m \in Choices, SelectMode(m) PROVE Fits'
  <2>1. Took("PRESS") BY <1>1, QueueTaken DEF SelectMode
  <2>2. QED BY <1>1, <2>1 DEF SelectMode
<1>2. ASSUME SelectPulse PROVE Fits'
  <2>1. Takes("forms", "PRESS") BY <1>2 DEF SelectPulse
  <2>2. Took("PRESS") /\ at = "forms" /\ exit_state' = exit_state BY <2>1, EventTaken
  <2>3. QED BY <1>2, <2>2 DEF SelectPulse
<1>3. ASSUME Navigate PROVE Fits'
  <2>1. PICK e \in {"PRESS", "RST", "TURN"} : Takes("forms", e) BY <1>3 DEF Navigate
  <2>2. Took(e) /\ at = "forms" /\ exit_state' = exit_state BY <2>1, EventTaken
  <2>3. QED BY <1>3, <2>1, <2>2 DEF Navigate
<1>4. ASSUME LeaveForm PROVE Fits'
  <2>1. Takes("forms", "OVERRIDE") BY <1>4 DEF LeaveForm
  <2>2. Took("OVERRIDE") /\ at = "forms" /\ exit_state' = exit_state BY <2>1, EventTaken
  <2>3. QED BY <1>4, <2>2 DEF LeaveForm
<1>5. ASSUME SaveAll PROVE Fits'
  <2>1. Kept BY <1>5, QueueKept DEF SaveAll, shared
  <2>2. QED BY <1>5, <2>1 DEF SaveAll, shared
<1>6. ASSUME ShowInfo PROVE Fits'
  <2>1. Kept BY <1>6, QueueKept DEF ShowInfo, shared
  <2>2. QED BY <1>6, <2>1 DEF ShowInfo, shared
<1>7. ASSUME InfoEnds PROVE Fits'
  <2>1. PICK e \in {"RST", "PRESS", "TURN", "OVERRIDE"} : Takes("info", e) /\ at' \in {"forms", "info"} BY <1>7 DEF InfoEnds
  <2>2. Took(e) /\ at = "info" /\ exit_state' = exit_state BY <2>1, EventTaken
  <2>3. QED BY <1>7, <2>1, <2>2 DEF InfoEnds
<1>8. ASSUME RunBegin PROVE Fits'
  <2>1. Kept BY <1>8, QueueKept DEF RunBegin, shared
  <2>2. QED BY <1>8, <2>1 DEF RunBegin, shared
<1>9. ASSUME RunPolls PROVE Fits'
  <2>1. PICK e \in {"PRESS", "TURN", "OVERRIDE"} : Takes("run", e) BY <1>9 DEF RunPolls
  <2>2. Took(e) /\ at = "run" /\ exit_state' = exit_state BY <2>1, EventTaken
  <2>3. QED BY <1>9, <2>1, <2>2 DEF RunPolls
<1>10. ASSUME RunEnds PROVE Fits'
  <2>1. CASE Takes("run", "RST")
    <3>1. Took("RST") /\ at = "run" /\ exit_state' = exit_state BY <2>1, EventTaken
    <3>2. QED BY <1>10, <3>1 DEF RunEnds
  <2>2. CASE RunOver
    <3>1. Kept BY <2>2, QueueKept DEF RunOver, shared
    <3>2. QED BY <1>10, <2>2, <3>1 DEF RunEnds, RunOver, shared
  <2>3. QED BY <1>10, <2>1, <2>2 DEF RunEnds
<1>11. ASSUME ManualBegin PROVE Fits'
  <2>1. Kept BY <1>11, QueueKept DEF ManualBegin, shared
  <2>2. QED BY <1>11, <2>1 DEF ManualBegin, shared
<1>12. ASSUME ManualReady PROVE Fits'
  <2>1. Kept BY <1>12, QueueKept DEF ManualReady, shared
  <2>2. QED BY <1>12, <2>1 DEF ManualReady, shared
<1>13. ASSUME NEW s \in Screens, ManualSelect(s) PROVE Fits'
  <2>1. Takes("manual", "PRESS") BY <1>13 DEF ManualSelect, OnScreen
  <2>2. Took("PRESS") /\ at = "manual" /\ exit_state' = exit_state BY <2>1, EventTaken
  <2>3. QED BY <1>13, <2>2 DEF ManualSelect, OnScreen
<1>14. ASSUME ManualBack PROVE Fits'
  <2>1. Takes("manual", "RST") BY <1>14 DEF ManualBack
  <2>2. Took("RST") /\ at = "manual" /\ exit_state' = exit_state BY <2>1, EventTaken
  <2>3. QED BY <1>14, <2>2 DEF ManualBack
<1>15. ASSUME NEW v \in {0, 1}, ManualJog(v) PROVE Fits'
  <2>1. Takes("manual", "TURN") BY <1>15 DEF ManualJog, OnScreen
  <2>2. Took("TURN") /\ at = "manual" /\ exit_state' = exit_state BY <2>1, EventTaken
  <2>3. QED BY <1>15, <2>2 DEF ManualJog, OnScreen
<1>16. ASSUME ManualToggle PROVE Fits'
  <2>1. Takes("manual", "PRESS") BY <1>16 DEF ManualToggle, OnScreen
  <2>2. Took("PRESS") /\ at = "manual" /\ exit_state' = exit_state BY <2>1, EventTaken
  <2>3. QED BY <1>16, <2>2 DEF ManualToggle, OnScreen
<1>17. ASSUME ManualMoved PROVE Fits'
  <2>1. Kept BY <1>17, QueueKept DEF ManualMoved, shared
  <2>2. QED BY <1>17, <2>1 DEF ManualMoved, shared
<1>18. ASSUME ManualPulse PROVE Fits'
  <2>1. Takes("manual", "PRESS") BY <1>18 DEF ManualPulse, OnScreen
  <2>2. Took("PRESS") /\ at = "manual" /\ exit_state' = exit_state BY <2>1, EventTaken
  <2>3. QED BY <1>18, <2>2 DEF ManualPulse, OnScreen
<1>19. ASSUME ManualIgnore PROVE Fits'
  <2>1. PICK e \in {"OVERRIDE", "TURN", "PRESS"} : Takes("manual", e) BY <1>19 DEF ManualIgnore, OnScreen
  <2>2. Took(e) /\ at = "manual" /\ exit_state' = exit_state BY <2>1, EventTaken
  <2>3. QED BY <1>19, <2>1, <2>2 DEF ManualIgnore, OnScreen
<1>20. ASSUME ManualQuit PROVE Fits'
  <2>1. Takes("manual", "RST") BY <1>20 DEF ManualQuit, OnScreen
  <2>2. Took("RST") /\ at = "manual" /\ exit_state' = exit_state BY <2>1, EventTaken
  <2>3. QED BY <1>20, <2>2 DEF ManualQuit, OnScreen
<1>21. ASSUME ManualMotorOff PROVE Fits'
  <2>1. Kept BY <1>21, QueueKept DEF ManualMotorOff, shared
  <2>2. QED BY <1>21, <2>1 DEF ManualMotorOff, shared
<1>22. ASSUME ManualCoilOff PROVE Fits'
  <2>1. Kept BY <1>22, QueueKept DEF ManualCoilOff, shared
  <2>2. QED BY <1>22, <2>1 DEF ManualCoilOff, shared
<1>23. ASSUME ManualEnd PROVE Fits'
  <2>1. Kept BY <1>23, QueueKept DEF ManualEnd, shared
  <2>2. QED BY <1>23, <2>1 DEF ManualEnd, shared
<1>24. ASSUME CalibrationBegin PROVE Fits'
  <2>1. Kept BY <1>24, QueueKept DEF CalibrationBegin, shared
  <2>2. QED BY <1>24, <2>1 DEF CalibrationBegin, shared
<1>25. ASSUME CalibrationFeed PROVE Fits'
  <2>1. Kept BY <1>25, QueueKept DEF CalibrationFeed, shared
  <2>2. QED BY <1>25, <2>1 DEF CalibrationFeed, shared
<1>26. ASSUME CalibrationFed PROVE Fits'
  <2>1. Kept BY <1>26, QueueKept DEF CalibrationFed, shared
  <2>2. QED BY <1>26, <2>1 DEF CalibrationFed, shared
<1>27. ASSUME CalibrationHeat PROVE Fits'
  <2>1. Kept BY <1>27, QueueKept DEF CalibrationHeat, shared
  <2>2. QED BY <1>27, <2>1 DEF CalibrationHeat, shared
<1>28. ASSUME HeatAborted PROVE Fits'
  <2>1. Takes("cal_heat", "RST") BY <1>28 DEF HeatAborted, HeatEnds
  <2>2. Took("RST") /\ at = "cal_heat" /\ exit_state' = exit_state BY <2>1, EventTaken
  <2>3. QED BY <1>28, <2>2 DEF HeatAborted, HeatEnds
<1>29. ASSUME HeatPressed PROVE Fits'
  <2>1. Takes("cal_heat", "PRESS") BY <1>29 DEF HeatPressed, HeatEnds
  <2>2. Took("PRESS") /\ at = "cal_heat" /\ exit_state' = exit_state BY <2>1, EventTaken
  <2>3. QED BY <1>29, <2>2 DEF HeatPressed, HeatEnds
<1>30. ASSUME HeatTimedOut PROVE Fits'
  <2>1. CASE at = "cal_heat" /\ encoder_event_queue = <<>> /\ UNCHANGED shared
    <3>1. Kept BY <2>1, QueueKept DEF shared
    <3>2. QED BY <1>30, <2>1, <3>1 DEF HeatTimedOut, HeatEnds, shared
  <2>2. CASE \E e \in {"TURN", "OVERRIDE"} : Takes("cal_heat", e)
    <3>1. PICK e \in {"TURN", "OVERRIDE"} : Takes("cal_heat", e) BY <2>2
    <3>2. Took(e) /\ at = "cal_heat" /\ exit_state' = exit_state BY <3>1, EventTaken
    <3>3. QED BY <1>30, <3>2 DEF HeatTimedOut, HeatEnds
  <2>3. QED BY <1>30, <2>1, <2>2 DEF HeatTimedOut, NothingPressed
<1>31. ASSUME HeatGoesOn PROVE Fits'
  <2>1. CASE at = "cal_heat" /\ encoder_event_queue = <<>> /\ UNCHANGED shared
    <3>1. Kept BY <2>1, QueueKept DEF shared
    <3>2. QED BY <1>31, <2>1, <3>1 DEF HeatGoesOn, shared
  <2>2. CASE \E e \in {"TURN", "OVERRIDE"} : Takes("cal_heat", e)
    <3>1. PICK e \in {"TURN", "OVERRIDE"} : Takes("cal_heat", e) BY <2>2
    <3>2. Took(e) /\ at = "cal_heat" /\ exit_state' = exit_state BY <3>1, EventTaken
    <3>3. QED BY <1>31, <3>2 DEF HeatGoesOn
  <2>3. QED BY <1>31, <2>1, <2>2 DEF HeatGoesOn, NothingPressed
<1>32. ASSUME HeatTick PROVE Fits'
  <2>1. Kept BY <1>32, QueueKept DEF HeatTick, shared
  <2>2. QED BY <1>32, <2>1 DEF HeatTick, shared
<1>33. ASSUME CalibrationCoilOff PROVE Fits'
  <2>1. Kept BY <1>33, QueueKept DEF CalibrationCoilOff, shared
  <2>2. QED BY <1>33, <2>1 DEF CalibrationCoilOff, shared
<1>34. ASSUME CalibrationDrop PROVE Fits'
  <2>1. Kept BY <1>34, QueueKept DEF CalibrationDrop, shared
  <2>2. QED BY <1>34, <2>1 DEF CalibrationDrop, shared
<1>35. ASSUME CalibrationFailed PROVE Fits'
  <2>1. Kept BY <1>35, QueueKept DEF CalibrationFailed, shared
  <2>2. QED BY <1>35, <2>1 DEF CalibrationFailed, shared
<1>36. ASSUME CalibrationSave PROVE Fits'
  <2>1. Takes("cal_result", "PRESS") BY <1>36 DEF CalibrationSave
  <2>2. Took("PRESS") /\ at = "cal_result" /\ exit_state' = exit_state BY <2>1, EventTaken
  <2>3. QED BY <1>36, <2>2 DEF CalibrationSave
<1>36a. ASSUME CalibrationSaved PROVE Fits'
  <2>1. Kept BY <1>36a, QueueKept DEF CalibrationSaved, shared
  <2>2. QED BY <1>36a, <2>1 DEF CalibrationSaved, shared
<1>37. ASSUME CalibrationDiscard PROVE Fits'
  <2>1. Takes("cal_result", "RST") BY <1>37 DEF CalibrationDiscard
  <2>2. Took("RST") /\ at = "cal_result" /\ exit_state' = exit_state BY <2>1, EventTaken
  <2>3. QED BY <1>37, <2>2 DEF CalibrationDiscard
<1>38. ASSUME ResultIgnore PROVE Fits'
  <2>1. PICK e \in {"TURN", "OVERRIDE"} : Takes("cal_result", e) BY <1>38 DEF ResultIgnore
  <2>2. Took(e) /\ at = "cal_result" /\ exit_state' = exit_state BY <2>1, EventTaken
  <2>3. QED BY <1>38, <2>1, <2>2 DEF ResultIgnore
<1>39. ASSUME RestSend PROVE Fits'
  <2>0. rest.event \in Events OBVIOUS
  <2>1. Added(rest.event)
    <3> HIDE DEF Added, Events
    <3>1. QED BY <1>39, <2>0, QueueAdded DEF RestSend
  <2>2. CASE rest.mode = "CALIBRATION"
    BY <1>39, <2>1, <2>2 DEF RestSend, NoRequest
  <2>3. CASE rest.mode # "CALIBRATION"
    <3>1. /\ rest'.step = "write" /\ rest'.mode = rest.mode
          /\ rest'.event = rest.event /\ rest'.state = rest.state
      BY <1>39, <2>3 DEF RestSend
    <3>2. QED BY <1>39, <2>1, <2>3, <3>1 DEF RestSend
  <2>4. QED BY <2>2, <2>3
<1>40. ASSUME RestWrite PROVE Fits'
  <2>1. Kept BY <1>40, QueueKept DEF RestWrite, shared
  <2>2. QED BY <1>40, <2>1 DEF RestWrite, shared, NoRequest
<1>41. ASSUME NEW m \in Modes, NEW s \in {"ENTER", "EXIT"}, RestRequest(m, s)
      PROVE  Fits'
  <2>1. Kept BY <1>41, QueueKept DEF RestRequest
  <2>2. Careful(m, s) /\ rest.step = "idle" BY <1>41 DEF RestRequest
  <2>3. CASE mode_state[m] # s
    BY <1>41, <2>1, <2>2, <2>3 DEF RestRequest, Careful, Nothing
  <2>4. CASE mode_state[m] = s
    BY <1>41, <2>1, <2>4 DEF RestRequest
  <2>5. QED BY <2>3, <2>4
<1>42. ASSUME NEW v \in {0, 1}, RestSpeed(v) PROVE Fits'
  <2>1. Kept BY <1>42, QueueKept DEF RestSpeed, shared
  <2>2. QED BY <1>42, <2>1 DEF RestSpeed, shared, Asks
<1>43. ASSUME NEW h \in BOOLEAN, RestHolder(h) PROVE Fits'
  <2>1. Kept BY <1>43, QueueKept DEF RestHolder, shared
  <2>2. QED BY <1>43, <2>1 DEF RestHolder, shared, Asks
<1>44. ASSUME NEW b \in BOOLEAN, RestPulse(b) PROVE Fits'
  <2>1. Kept BY <1>44, QueueKept DEF RestPulse, shared
  <2>2. QED BY <1>44, <2>1 DEF RestPulse, shared, Asks
<1>45. ASSUME NEW e \in Events \ {"OVERRIDE"}, Button(e) PROVE Fits'
  <2>1. Added(e) /\ rest.step = "idle" BY <1>45, QueueAdded DEF Button
  <2>2. QED BY <1>45, <2>1 DEF Button
<1>46. ASSUME Cutoff PROVE Fits'
  <2>1. Kept BY <1>46, QueueKept DEF Cutoff, shared
  <2>2. QED BY <1>46, <2>1 DEF Cutoff, shared
<1>47. ASSUME UNCHANGED vars PROVE Fits'
  <2>1. Kept BY <1>47, QueueKept DEF vars, shared
  <2>2. QED BY <1>47, <2>1 DEF vars, shared
<1> HIDE QueueNow
<1> HIDE DEF ValuesOK, Modes, Choices, Manual, Calibration, Pulse, Screens, Events,
        StateFits, RequestFits, EnterFits, ExitFits, Only, Kept, Took, Added,
        manual, Enters, Leaves, Goes
<1>48. Fits'
  BY <1>1, <1>2, <1>3, <1>4, <1>5, <1>6, <1>7, <1>8, <1>9, <1>10, <1>11,
     <1>12, <1>13, <1>14, <1>15, <1>16, <1>17, <1>18, <1>19, <1>20,
     <1>21, <1>22, <1>23, <1>24, <1>25, <1>26, <1>27, <1>28, <1>29,
     <1>30, <1>31, <1>32, <1>33, <1>34, <1>35, <1>36, <1>36a, <1>37, <1>38,
     <1>39, <1>40, <1>41, <1>42, <1>43, <1>44, <1>45, <1>46, <1>47
    DEF Next, MenuTask, Forms, Run, ManualMode, CalibrationMode, RestHandler,
        Client
<1>49. QED BY <1>48

-----------------------------------------------------------------------------
(* careless is chosen once.                                                *)
LEMMA CarefulStays == [Next]_vars => careless' = careless
<1>1. Forms \/ Run => careless' = careless
  BY DEF Forms, SelectMode, SelectPulse, Navigate, LeaveForm, SaveAll, ShowInfo,
    InfoEnds, Run, RunBegin, RunPolls, RunEnds
<1>2. ManualMode => careless' = careless
  BY DEF ManualMode, ManualBegin, ManualReady, ManualSelect, ManualBack, ManualJog,
    ManualToggle, ManualMoved, ManualPulse, ManualIgnore, ManualQuit,
    ManualMotorOff, ManualCoilOff, ManualEnd
<1>3. CalibrationMode => careless' = careless
  BY DEF CalibrationMode, CalibrationBegin, CalibrationFeed, CalibrationFed,
    CalibrationHeat, HeatEnds, HeatAborted, HeatPressed, HeatTimedOut,
    HeatGoesOn, HeatTick, CalibrationCoilOff, CalibrationDrop,
    CalibrationFailed, CalibrationSave, CalibrationSaved,
    CalibrationDiscard, ResultIgnore
<1>4. RestHandler \/ Client \/ Cutoff \/ UNCHANGED vars => careless' = careless
  BY DEF RestHandler, RestSend, RestWrite, Client, RestRequest, RestSpeed, RestHolder,
    RestPulse, Button, Cutoff, vars
<1>5. QED
  BY <1>1, <1>2, <1>3, <1>4 DEF Next, MenuTask

LEMMA InitModes == Init => ModesInv /\ CalibrationHeld /\ DwellBounded
<1> SUFFICES ASSUME Init PROVE ModesInv /\ CalibrationHeld /\ DwellBounded
  OBVIOUS
<1> USE ModesAssumption DEF Init
<1>1. QueueOK
  BY EmptySeq DEF QueueOK
<1>2. ValuesOK
  BY DEF ValuesOK, Modes, Choices, Manual, Calibration, Pulse, Screens, Events,
    NoRequest, Longest
<1>3. Flags /\ AskedOK /\ careless \in Clients
  BY Zenon DEF Flags, AskedOK
<1>4. OutputsOK /\ CalibrationHeld /\ DwellBounded
  BY DEF OutputsOK, CalibrationHeld, DwellBounded, Pulse, Held, Dropped,
    AheadOfCoilOff, AheadOfStop
<1>5. StateFits /\ RequestFits
  BY DEF StateFits, RequestFits, EnterFits, ExitFits, NoRequest, Modes, Manual,
    Calibration, Pulse
<1>6. QED
  BY <1>1, <1>2, <1>3, <1>4, <1>5, TypeParts DEF ModesInv

LEMMA StepModes ==
  ASSUME ModesInv, CalibrationHeld, DwellBounded, [Next]_vars
  PROVE  ModesInv' /\ CalibrationHeld' /\ DwellBounded'
<1>1. QueueOK /\ ValuesOK /\ AskedOK /\ careless \in Clients /\ Flags /\ OutputsOK
  BY TypeParts DEF ModesInv
<1>2. rest.event \in Events
  BY <1>1 DEF ValuesOK
<1>3. QueueOK' /\ ValuesOK' /\ AskedOK' /\ Flags' /\ OutputsOK'
  BY <1>1, <1>2, QueueStep, ValuesStep, AskedStep, FlagsStep, OutputsStep
<1>4. TypeOK'
  BY <1>1, <1>3, CarefulStays DEF TypeOK, QueueOK, ValuesOK, AskedOK
<1>5. CalibrationHeld' /\ DwellBounded'
  BY <1>1, HeldStep, DwellStep
<1>6. "modes" \notin careless' => (StateFits /\ RequestFits)'
  BY <1>1, FitsStep, CarefulStays, Zenon DEF ModesInv
<1>7. QED
  BY <1>3, <1>4, <1>5, <1>6 DEF ModesInv

(* Whatever buttons and clients do, the coil and the feeder are on only    *)
(* where the mode will still switch them off, or because they were asked   *)
(* for outside of that; the timer of a calibration's pulse is as old as    *)
(* the time it has measured, unless a client switched the coil.            *)
THEOREM ModesInvariant == Spec => []ModesInv
<1>1. Init => ModesInv /\ CalibrationHeld /\ DwellBounded
  BY InitModes
<1>2. ModesInv /\ CalibrationHeld /\ DwellBounded /\ [Next]_vars
        => (ModesInv /\ CalibrationHeld /\ DwellBounded)'
  BY StepModes
<1>3. QED
  BY <1>1, <1>2, PTL DEF Spec

(* Back in the forms, however a mode was left, the feeder is disabled, and *)
(* the coil and a speed are on only if the form or a client asked for them *)
(* after the mode had switched them off.                                   *)
THEOREM ModesLeaveSafe == Spec => []LeavesSafe
<1>1. ModesInv => LeavesSafe
  BY DEF ModesInv, TypeOK, Flags, OutputsOK, LeavesSafe, Pulse, AheadOfCoilOff,
    AheadOfStop
<1>2. QED
  BY <1>1, ModesInvariant, PTL

LEMMA HeldAndBounded == Spec => [](CalibrationHeld /\ DwellBounded)
<1>1. Init => ModesInv /\ CalibrationHeld /\ DwellBounded
  BY InitModes
<1>2. ModesInv /\ CalibrationHeld /\ DwellBounded /\ [Next]_vars
        => (ModesInv /\ CalibrationHeld /\ DwellBounded)'
  BY StepModes
<1>3. QED
  BY <1>1, <1>2, PTL DEF Spec

(* Wherever clients had moved the holder before a calibration, the case is *)
(* fed into it and heated in it, and falls afterwards; only a client's g0  *)
(* in the middle of the calibration moves it away.                         *)
THEOREM CalibrationIsHeld == Spec => []CalibrationHeld
BY HeldAndBounded, PTL

(* No saved dwell is more than a poll beyond the heater's cap, unless a    *)
(* client switched the coil (h0) in the middle of the pulse.               *)
THEOREM DwellIsBounded == Spec => []DwellBounded
BY HeldAndBounded, PTL

(* With careful clients and nothing on its way, the states that the REST   *)
(* handlers report are those of the mode the menu task is in.              *)
THEOREM ModeIsTold == Spec => []StateTellsMode
<1>1. ModesInv => StateTellsMode
  <2> SUFFICES ASSUME ModesInv, "modes" \notin careless, rest.step = "idle", Nothing
               PROVE  /\ at \in {"forms", "info"} => \A m \in Modes : mode_state[m] = "EXIT"
                      /\ at = "run" => mode_state["ANNEAL"] = "ENTER"
                      /\ at = "manual" => mode_state["MANUAL"] = "ENTER"
                      /\ at \in Calibration => mode_state["CALIBRATION"] = "ENTER"
    BY DEF StateTellsMode, Nothing
  <2>1. StateFits /\ mode_state \in [Modes -> {"ENTER", "EXIT"}]
    BY DEF ModesInv, TypeOK
  <2>2. ~HasRst
    BY EmptySeq DEF Nothing, HasRst
  <2>3. ~Ahead("OVERRIDE") /\ ~Ahead("RST")
    BY DEF Ahead
  <2>4. QED
    BY <2>1, <2>2, <2>3 DEF StateFits, Modes
<1>2. QED
  BY <1>1, ModesInvariant, PTL
=============================================================================
