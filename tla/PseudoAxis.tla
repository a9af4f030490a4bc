----------------------------- MODULE PseudoAxis -----------------------------
(***************************************************************************)
(* One axis of PseudoGantry, the board that stands in for the gantry when  *)
(* the firmware is tested: it is interrupted on both edges of the motor's  *)
(* step signal, answers with the encoder's channel A, COUNTS pulses for    *)
(* STEPS steps, and drives the two limit switches.  The firmware is its    *)
(* environment: it steps, turns round, and counts the rising edges.        *)
(***************************************************************************)
EXTENDS Integers

CONSTANTS STEPS, COUNTS,          \* encoder pulses for steps of the motor
          axis_length_counts,
          motor_position_default,
          MaxEdges,               \* bound: edges of the step signal
          MaxMissed               \* bound: edges that come too soon

ASSUME RatioAssumption == STEPS \in Nat /\ COUNTS \in 1 .. STEPS
ASSUME LengthAssumption == /\ axis_length_counts \in Nat \ {0}
                           /\ motor_position_default \in 0 .. axis_length_counts
ASSUME BoundAssumption == MaxEdges \in Nat /\ MaxMissed \in Nat

changes_to_skip == 2 * (STEPS - COUNTS)

VARIABLES pin,              \* level of the step signal
          dir,              \* level of the direction signal: TRUE is positive
          change_counter, motor_position_current,
          ls_home, ls_far,              \* status of the switches, TRUE when pressed
          home_out, far_out,            \* what their output pins say
          channel_a,                    \* level of the encoder output
          settled,          \* the second after power-on is over
          count,            \* the firmware's encoder count
          edges, pulses,    \* history since then: edges handled, and encoder pulses made
          missed,           \* history: edges dropped
          pressed_early     \* history: a switch was pressed before that

axis     == <<change_counter, motor_position_current, ls_home, ls_far>>
switches == <<home_out, far_out>>
history  == <<edges, pulses, missed, pressed_early>>
vars     == <<pin, dir, axis, switches, channel_a, settled, count, history>>

Init == /\ pin = FALSE /\ dir \in BOOLEAN
        /\ change_counter = 0 /\ motor_position_current = motor_position_default
        /\ ls_home = FALSE /\ ls_far = FALSE
        /\ home_out = FALSE /\ far_out = FALSE
        /\ channel_a = FALSE /\ settled = FALSE /\ count = 0
        /\ edges = 0 /\ pulses = 0 /\ missed = 0 /\ pressed_early = FALSE

-----------------------------------------------------------------------------
(* toggle_encoder_output: of the 2 * STEPS changes of a set the first are  *)
(* skipped, the others copied to channel A.                                *)

Counted == IF changes_to_skip = 0 THEN change_counter ELSE change_counter + 1

Skips == changes_to_skip # 0 /\ Counted <= changes_to_skip

(* Mutated form: one change more is copied.                                *)
Copies_OneMore == changes_to_skip = 0 \/ (~ Skips /\ Counted <= 2 * STEPS + 1)

Copies == changes_to_skip = 0 \/ (~ Skips /\ Counted <= 2 * STEPS)

(* Mutated form: a new set begins at 0.                                    *)
NextCounter_Zero == IF Skips \/ Copies THEN Counted ELSE 0

(* The change after the last of a set is the first of the next.            *)
NextCounter == IF Skips \/ Copies THEN Counted ELSE 1

ChannelAfter(level) == IF Copies THEN level ELSE channel_a

(* isr_motor_pulse at a rising edge that is copied.                        *)

Keep == UNCHANGED <<motor_position_current, ls_home, ls_far, switches>>

(* Mutated form: the position is not set back to 0.                        *)
Forward_NoZero ==
  IF motor_position_current < axis_length_counts
  THEN /\ motor_position_current' = motor_position_current + 1
       /\ ls_home' = FALSE
       /\ home_out' = IF ls_home THEN FALSE ELSE home_out
       /\ UNCHANGED <<ls_far, far_out>>
  ELSE /\ ls_far' = TRUE /\ far_out' = TRUE
       /\ UNCHANGED <<motor_position_current, ls_home, home_out>>

Forward ==
  IF motor_position_current < axis_length_counts
  THEN /\ motor_position_current' = IF ls_home THEN 0 ELSE motor_position_current + 1
       /\ ls_home' = FALSE
       /\ home_out' = IF ls_home THEN FALSE ELSE home_out
       /\ UNCHANGED <<ls_far, far_out>>
  ELSE /\ ls_far' = TRUE /\ far_out' = TRUE
       /\ UNCHANGED <<motor_position_current, ls_home, home_out>>

(* Mutated form: leaving the far end does not release its output.          *)
Backward_KeepsPin ==
  IF motor_position_current > 0
  THEN /\ motor_position_current' = IF ls_far THEN axis_length_counts
                                              ELSE motor_position_current - 1
       /\ ls_far' = FALSE
       /\ UNCHANGED <<ls_home, switches>>
  ELSE /\ ls_home' = TRUE /\ home_out' = TRUE
       /\ UNCHANGED <<motor_position_current, ls_far, far_out>>

Backward ==
  IF motor_position_current > 0
  THEN /\ motor_position_current' = IF ls_far THEN axis_length_counts
                                              ELSE motor_position_current - 1
       /\ ls_far' = FALSE
       /\ far_out' = IF ls_far THEN FALSE ELSE far_out
       /\ UNCHANGED <<ls_home, home_out>>
  ELSE /\ ls_home' = TRUE /\ home_out' = TRUE
       /\ UNCHANGED <<motor_position_current, ls_far, far_out>>

Sign == IF dir THEN 1 ELSE -1

(* An edge of the step signal, and the firmware's interrupt on a rising    *)
(* channel A.                                                              *)
Edge ==
  /\ edges < MaxEdges
  /\ pin' = ~ pin
  /\ change_counter' = NextCounter
  /\ channel_a' = ChannelAfter(pin')
  /\ IF Copies /\ pin' THEN (IF dir THEN Forward ELSE Backward) ELSE Keep
  /\ count' = IF channel_a' /\ ~ channel_a THEN count + Sign ELSE count
  /\ edges' = edges + 1 /\ pulses' = IF Copies /\ pin' THEN pulses + 1 ELSE pulses
  /\ pressed_early' = (pressed_early \/ (~ settled /\ (ls_home' \/ ls_far')))
  /\ UNCHANGED <<dir, settled, missed>>

(* isr_motor_pulse_x and _y drop an edge that comes within 100 us.         *)
MissedEdge ==
  /\ edges < MaxEdges /\ missed < MaxMissed
  /\ pin' = ~ pin /\ missed' = missed + 1
  /\ UNCHANGED <<dir, axis, switches, channel_a, settled, count, edges, pulses, pressed_early>>

TurnRound == dir' = ~ dir
             /\ UNCHANGED <<pin, axis, switches, channel_a, settled, count, history>>

(* The end of setup: reset_pseudo_axis, one second after the interrupts    *)
(* are attached.  It writes no pin.  An edge between its writes falls      *)
(* among the skipped ones.                                                 *)
Settle ==
  /\ ~ settled /\ settled' = TRUE
  /\ change_counter' = 0 /\ motor_position_current' = motor_position_default
  /\ ls_home' = FALSE /\ ls_far' = FALSE
  /\ edges' = 0 /\ pulses' = 0
  /\ UNCHANGED <<pin, dir, switches, channel_a, count, missed, pressed_early>>

Next == Edge \/ MissedEdge \/ TurnRound \/ Settle
Spec == Init /\ [][Next]_vars

-----------------------------------------------------------------------------
TypeOK ==
  /\ pin \in BOOLEAN /\ dir \in BOOLEAN /\ channel_a \in BOOLEAN
  /\ change_counter \in 0 .. 2 * STEPS
  /\ motor_position_current \in 0 .. axis_length_counts
  /\ ls_home \in BOOLEAN /\ ls_far \in BOOLEAN
  /\ home_out \in BOOLEAN /\ far_out \in BOOLEAN
  /\ settled \in BOOLEAN /\ pressed_early \in BOOLEAN
  /\ count \in Int /\ edges \in 0 .. MaxEdges /\ pulses \in 0 .. edges
  /\ missed \in 0 .. MaxMissed

(* The encoder makes COUNTS pulses for STEPS steps however far the motor   *)
(* turns: what it is ahead or behind is always less than one set           *)
(* (toggle_encoder_output).                                                *)
RatioKept ==
  missed = 0 =>
    LET ahead == 2 * STEPS * pulses - COUNTS * edges
    IN  - COUNTS * (changes_to_skip + 1) <= ahead /\ ahead <= 2 * STEPS

(* The switches the firmware sees are those of the carriage, unless the    *)
(* axis was reset while it was on one (isr_motor_pulse,                    *)
(* reset_pseudo_axis); and it is never on both.                            *)
SwitchesShown ==
  /\ ~ (ls_home /\ ls_far)
  /\ ~ pressed_early => home_out = ls_home /\ far_out = ls_far

(* The axis is a carriage as the firmware expects it: the two switches lie *)
(* one place beyond the ends, and each encoder pulse is one place in the   *)
(* direction of the motor, or a stall (isr_motor_pulse).                   *)
Place == IF ls_home THEN 0 ELSE IF ls_far THEN axis_length_counts + 2
                                          ELSE motor_position_current + 1
TheCarriage == INSTANCE Carriage WITH
                 End <- axis_length_counts + 2, place <- Place, drive <- Sign,
                 intact <- (missed = 0)
ImplementsCarriage == TheCarriage!Spec
=============================================================================
