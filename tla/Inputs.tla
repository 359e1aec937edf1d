------------------------------- MODULE Inputs -------------------------------
(***************************************************************************)
(* The knob, the buttons and their event queue (mini_12864_module.cpp,     *)
(* button.c).  Interrupts decode the quadrature of the encoder and         *)
(* debounce the buttons on the 32-bit tick counter; they and the REST      *)
(* handler post to one short queue without waiting; the menu task takes.   *)
(* button_init hooks the interrupts up before it creates the queue, so     *)
(* they may come before there is one.                                      *)
(***************************************************************************)
EXTENDS Integers, Sequences

CONSTANTS Buttons,      \* the push buttons: ENC and RST, named as their events
          Rotations,    \* <<clockwise, counter-clockwise>>
          QueueLength,  \* 5
          Debounce,     \* debounce_timeout_ticks
          TickMod       \* values of the tick counter

ASSUME InputAssumption ==
    /\ {QueueLength, Debounce, TickMod} \subseteq Nat \ {0}
    /\ Debounce < TickMod - 1

VARIABLES booted,       \* "off", "hooked", "queue", or "running": the scheduler
          tick,         \* the tick counter: 0 until the scheduler runs
          pins,         \* levels of the encoder's pins 1 and 2
          encoder,      \* state and count of _isr_on_encoder_update
          inverted,     \* inverted_encoder_direction
          last_call,    \* per button: last_call_time
          events,       \* encoder_event_queue
          turned,       \* history: steps turned since the last event; see Exact
          exact,        \* history: state 2 fitted the pins at power-up and no
                        \* interrupt has come at <<0, 1>> without an edge
          quiet,        \* history: per button, ticks since its last interrupt
          fault         \* history: what has gone wrong with a button

input_vars == <<booted, tick, pins, encoder, inverted, last_call, events,
                turned, exact, quiet, fault>>
encoder_vars == <<pins, encoder, turned, exact>>
button_vars == <<tick, last_call, quiet, fault>>

Levels == {0, 1} \X {0, 1}

(* Power-up, with the knob at rest.                                        *)
InputOff ==
    /\ booted = "off" /\ tick = 0 /\ encoder = [state |-> 2, count |-> 0]
    /\ inverted = FALSE /\ last_call = [b \in Buttons |-> 0] /\ events = <<>>

InputInit ==
    /\ InputOff /\ pins = <<1, 1>> /\ turned = 0 /\ exact = TRUE
    /\ quiet = [b \in Buttons |-> TickMod] /\ fault = "none"

-----------------------------------------------------------------------------
(* The queue                                                               *)

(* xQueueSend without waiting and xQueueSendFromISR: a full queue drops.   *)
Sent(q, e) == IF Len(q) < QueueLength THEN Append(q, e) ELSE q

HasEventQueue == booted \in {"queue", "running"}

(* mini_12864_module_init, button_init, and the rest of main().            *)
InputBoot ==
    /\ \/ booted = "off" /\ booted' = "hooked" /\ inverted' \in BOOLEAN
       \/ booted = "hooked" /\ booted' = "queue" /\ UNCHANGED inverted
       \/ booted = "queue" /\ booted' = "running" /\ UNCHANGED inverted
    /\ UNCHANGED <<encoder_vars, button_vars, events>>

(* button_wait_for_input, by the menu task.                                *)
InputTake ==
    /\ booted = "running" /\ events # <<>> /\ events' = Tail(events)
    /\ UNCHANGED <<booted, inverted, encoder_vars, button_vars>>

(* http_rest_button_control, for each of its parameters.                   *)
InputRest ==
    /\ booted = "running"
    /\ \E e \in Buttons \cup {Rotations[1], Rotations[2]} : events' = Sent(events, e)
    /\ UNCHANGED <<booted, inverted, encoder_vars, button_vars>>

(* http_rest_mini_12864_module_config, b0.                                 *)
InputConfigure ==
    /\ booted = "running" /\ inverted' \in BOOLEAN
    /\ UNCHANGED <<booted, events, encoder_vars, button_vars>>

-----------------------------------------------------------------------------
(* The knob: _isr_on_encoder_update                                        *)

At(state, d) == [state |-> state, count |-> encoder.count + d]

(* The switch.  State 3 looks at pin 1 where pin 2 is meant.               *)
Decoded(p) ==
    LET en1 == p[1] = 1
        en2 == p[2] = 1
    IN CASE encoder.state = 0 -> IF en1 THEN At(1, 1) ELSE IF en2 THEN At(3, -1) ELSE encoder
         [] encoder.state = 1 -> IF ~en1 THEN At(0, -1) ELSE IF en2 THEN At(2, 1) ELSE encoder
         [] encoder.state = 2 -> IF ~en1 THEN At(3, 1) ELSE IF ~en2 THEN At(1, -1) ELSE encoder
         [] encoder.state = 3 -> IF ~en1 THEN At(0, 1) ELSE IF en2 THEN At(2, -1) ELSE encoder

(* Four steps are an event, and the count starts again.                    *)
Detent(count) == count >= 4 \/ count <= -4
Rotation(count) == Rotations[IF (count > 0) = inverted THEN 2 ELSE 1]

(* The steps of a turn of one detent, from the rest position.              *)
Cycle == <<<<1, 1>>, <<0, 1>>, <<0, 0>>, <<1, 0>>>>
Place(p) == CHOOSE i \in 1..4 : Cycle[i] = p
Follows(p, q) == Place(q) = (Place(p) % 4) + 1

EncoderInterrupt(new) ==
    LET e == Decoded(new)
        step == IF Follows(pins, new) THEN 1 ELSE IF Follows(new, pins) THEN -1 ELSE 0
    IN /\ encoder' = IF Detent(e.count) THEN [e EXCEPT !.count = 0] ELSE e
       /\ events' = IF Detent(e.count) /\ HasEventQueue
                      THEN Sent(events, Rotation(e.count)) ELSE events
       /\ exact' = (exact /\ (new = pins => new # <<0, 1>>))
       /\ turned' = IF ~exact' THEN 0 ELSE IF Detent(turned + step) THEN 0
                     ELSE turned + step

(* An edge of one pin, or a bounce that is over when the interrupt reads.  *)
EncoderTurns ==
    /\ booted # "off"
    /\ \E new \in Levels :
         /\ new[1] = pins[1] \/ new[2] = pins[2]
         /\ EncoderInterrupt(new) /\ pins' = new
    /\ UNCHANGED <<booted, inverted, button_vars>>

(* Before the interrupts are hooked up nobody sees the knob turn.          *)
EncoderTurnsUnseen ==
    /\ booted = "off" /\ pins' \in Levels /\ exact' = (pins' = <<1, 1>>)
    /\ UNCHANGED <<booted, inverted, encoder, turned, events, button_vars>>

-----------------------------------------------------------------------------
(* The buttons: _isr_on_button_enc_update, _isr_on_button_rst_update       *)

(* Bug for InputInv: a deadline, which may lie beyond the wrap.            *)
DebouncedByDeadline(b) == tick > last_call[b] + Debounce

(* The difference is unsigned.                                             *)
Debounced(b) == (tick - last_call[b]) % TickMod > Debounce

ButtonFalls(b) ==
    /\ booted # "off"
    /\ events' = IF Debounced(b) THEN Sent(events, b) ELSE events
    /\ last_call' = [last_call EXCEPT ![b] = tick]
    /\ quiet' = [quiet EXCEPT ![b] = 0]
    /\ fault' = CASE Debounced(b) /\ ~HasEventQueue -> "no queue"
                  [] Debounced(b) /\ quiet[b] <= Debounce -> "bounce"
                  [] ~Debounced(b) /\ quiet[b] > Debounce /\ quiet[b] < TickMod -> "ignored"
                  [] OTHER -> fault
    /\ UNCHANGED <<booted, inverted, tick, encoder_vars>>

InputTick ==
    /\ booted = "running" /\ tick' = (tick + 1) % TickMod
    /\ quiet' = [b \in Buttons |-> IF quiet[b] = TickMod THEN TickMod ELSE quiet[b] + 1]
    /\ UNCHANGED <<booted, inverted, last_call, events, fault, encoder_vars>>

(* A reset: nothing survives but the knob.                                 *)
InputRestart ==
    /\ booted = "running" /\ booted' = "off" /\ tick' = 0 /\ inverted' = FALSE
    /\ encoder' = [state |-> 2, count |-> 0] /\ events' = <<>>
    /\ last_call' = [b \in Buttons |-> 0]
    /\ turned' = 0 /\ exact' = (pins = <<1, 1>>)
    /\ quiet' = [b \in Buttons |-> TickMod] /\ UNCHANGED <<pins, fault>>

InputNext ==
    \/ InputBoot \/ InputTake \/ InputRest \/ InputConfigure
    \/ EncoderTurns \/ EncoderTurnsUnseen \/ InputTick \/ InputRestart
    \/ \E b \in Buttons : ButtonFalls(b)

InputSpec == InputInit /\ [][InputNext]_input_vars

-----------------------------------------------------------------------------
(* Properties                                                              *)

InputTypeOK ==
    /\ booted \in {"off", "hooked", "queue", "running"}
    /\ tick \in 0..TickMod - 1 /\ pins \in Levels
    /\ encoder \in [state : 0..3, count : -3..3] /\ inverted \in BOOLEAN
    /\ last_call \in [Buttons -> 0..TickMod - 1]
    /\ events \in Seq(Buttons \cup {Rotations[1], Rotations[2]}) /\ Len(events) <= QueueLength
    /\ turned \in -3..3 /\ exact \in BOOLEAN
    /\ quiet \in [Buttons -> 0..TickMod]

(* Nothing has been decoded before the interrupts are hooked up.           *)
AtRest == booted = "off" => encoder = [state |-> 2, count |-> 0] /\ turned = 0

(* Until the scheduler runs the tick counter stands still; from then on    *)
(* the unsigned difference is the time since a button's last interrupt,    *)
(* unless that is a round of the counter ago.                              *)
StandsStill == booted # "running" => tick = 0 /\ \A b \in Buttons : last_call[b] = 0
TellsTime ==
    \A b \in Buttons : quiet[b] < TickMod => (tick - last_call[b]) % TickMod = quiet[b]

(* The knob and the buttons (mini_12864_module.cpp): as long as no bounce  *)
(* fell on <<0, 1>>, the decoder stands where the knob does and an event   *)
(* comes with every fourth step and no other, whatever else bounces.  No   *)
(* button posts to a queue that does not exist yet: only the tick counter, *)
(* which stands still until the scheduler runs, keeps it from that.  A     *)
(* press after a rest longer than the debounce time is seen, and none      *)
(* after a shorter one, also across the wrap of the tick counter, but for  *)
(* the first after a boot and those a whole round of the counter later.    *)
InputInv ==
    /\ InputTypeOK /\ AtRest /\ StandsStill /\ TellsTime
    /\ exact => /\ encoder.count = turned
                /\ Cycle[Place(pins)] = <<<<0, 0>>, <<1, 0>>, <<1, 1>>, <<0, 1>>>>[encoder.state + 1]
    /\ fault = "none"

=============================================================================
