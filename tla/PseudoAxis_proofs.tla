-------------------------- MODULE PseudoAxis_proofs --------------------------
(***************************************************************************)
(* Proofs about one axis of PseudoGantry, for every ratio of steps to      *)
(* counts, length of the rail and number of edges.                         *)
(***************************************************************************)
EXTENDS PseudoAxis, TLAPS

(* A pressed switch says where the carriage is.                            *)
AtSwitch == /\ ls_home => motor_position_current = 0
            /\ ls_far => motor_position_current = axis_length_counts

(* The output pins follow the switches until the reset finds one pressed.  *)
Outputs == ~ pressed_early =>
             /\ home_out <=> ls_home
             /\ far_out <=> ls_far
             /\ ~ settled => ~ ls_home /\ ~ ls_far

(* What the encoder output says while a set is skipped: it keeps the level *)
(* of the last change copied, which the step signal has at the even        *)
(* changes.                                                                *)
InStep ==
  /\ changes_to_skip = 0 => change_counter = 0 /\ (channel_a <=> pin)
  /\ changes_to_skip # 0 /\ change_counter > changes_to_skip => (channel_a <=> pin)
  /\ changes_to_skip # 0 /\ change_counter <= changes_to_skip =>
       /\ change_counter % 2 = 0 => (channel_a => pin)
       /\ change_counter % 2 = 1 => (channel_a => ~ pin)
       /\ ~ settled => ~ channel_a
  /\ changes_to_skip # 0 /\ ~ settled => (pin <=> change_counter % 2 = 1)

(* How far the encoder is ahead of the motor, at each place of a set: a    *)
(* rising edge that was copied and whose falling edge was not, or the      *)
(* reverse, is half a pulse.                                               *)
Half(n, level) == IF n % 2 = 0 THEN 0 ELSE IF level THEN 1 ELSE -1
Lead == 2 * STEPS * pulses - COUNTS * edges
Ahead ==
  Lead = IF changes_to_skip = 0 THEN STEPS * Half(edges, pin)
         ELSE IF change_counter <= changes_to_skip THEN - COUNTS * change_counter
         ELSE STEPS * (change_counter - changes_to_skip + Half(change_counter, pin))
              - COUNTS * change_counter

(* Nothing is promised once an edge has been missed.                       *)
EncoderInv == missed = 0 => InStep /\ Ahead

-----------------------------------------------------------------------------
LEMMA Ratio ==
  /\ STEPS \in Nat /\ COUNTS \in Nat /\ 1 <= COUNTS /\ COUNTS <= STEPS
  /\ changes_to_skip \in Nat
  /\ changes_to_skip = 2 * STEPS - 2 * COUNTS
  /\ changes_to_skip = 0 <=> STEPS = COUNTS
BY RatioAssumption DEF changes_to_skip

LEMMA Parity ==
  /\ \A n \in Nat : n % 2 \in {0, 1} /\ (n + 1) % 2 = 1 - (n % 2)
  /\ changes_to_skip % 2 = 0 /\ (2 * STEPS) % 2 = 0
BY Ratio

(* The two things toggle_encoder_output can do with an edge.               *)
Copied  == /\ Copies
           /\ IF changes_to_skip = 0 THEN change_counter' = change_counter
              ELSE /\ change_counter' = change_counter + 1
                   /\ changes_to_skip < change_counter' /\ change_counter' <= 2 * STEPS
           /\ channel_a' = pin'
Skipped == /\ ~ Copies
           /\ changes_to_skip # 0
           /\ \/ change_counter' = change_counter + 1 /\ change_counter' <= changes_to_skip
              \/ change_counter = 2 * STEPS /\ change_counter' = 1
           /\ channel_a' = channel_a

LEMMA EdgeCopiesOrSkips ==
  ASSUME TypeOK, Edge
  PROVE  Copied \/ Skipped
<1>1. change_counter \in Nat /\ change_counter <= 2 * STEPS
  BY Ratio DEF TypeOK
<1>2. change_counter' = NextCounter /\ channel_a' = IF Copies THEN pin' ELSE channel_a
  BY DEF Edge, ChannelAfter
<1>3. CASE Copies
  <2>1. change_counter' = Counted /\ channel_a' = pin'
    BY <1>2, <1>3 DEF NextCounter
  <2> QED
    BY <1>1, <1>3, <2>1, Ratio DEF Copied, Copies, Skips, Counted
<1>4. CASE ~ Copies
  <2>1. changes_to_skip # 0 /\ Counted = change_counter + 1
    BY <1>4 DEF Copies, Counted
  <2>2. CASE Skips
    BY <1>1, <1>2, <1>4, <2>1, <2>2, Ratio DEF Skipped, Skips, NextCounter
  <2>3. CASE ~ Skips
    BY <1>1, <1>2, <1>4, <2>1, <2>3, Ratio DEF Skipped, Skips, Copies, NextCounter
  <2> QED
    BY <2>2, <2>3
<1> QED
  BY <1>3, <1>4

(* A rising edge that is copied moves the carriage, any other does not.    *)
LEMMA EdgeMoves ==
  ASSUME TypeOK, Edge
  PROVE  /\ Copies /\ pin' /\ dir => Forward
         /\ Copies /\ pin' /\ ~ dir => Backward
         /\ ~ (Copies /\ pin') => Keep
BY DEF Edge

-----------------------------------------------------------------------------
(* The types.                                                              *)

LEMMA Places ==
  ASSUME TypeOK
  PROVE  /\ motor_position_current \in Nat /\ motor_position_current <= axis_length_counts
         /\ axis_length_counts \in Nat /\ axis_length_counts > 0
BY LengthAssumption DEF TypeOK

LEMMA MoveTypes ==
  ASSUME TypeOK, Forward \/ Backward \/ Keep
  PROVE  /\ motor_position_current' \in 0 .. axis_length_counts
         /\ ls_home' \in BOOLEAN /\ ls_far' \in BOOLEAN
         /\ home_out' \in BOOLEAN /\ far_out' \in BOOLEAN
<1>1. CASE Forward
  <2>1. motor_position_current' \in 0 .. axis_length_counts
    <3>1. \/ motor_position_current' \in {0, motor_position_current}
          \/ /\ motor_position_current' = motor_position_current + 1
             /\ motor_position_current < axis_length_counts
      BY <1>1, Zenon DEF Forward
    <3> QED
      BY <3>1, Places
  <2>2. ls_home' \in BOOLEAN /\ ls_far' \in BOOLEAN /\ home_out' \in BOOLEAN /\ far_out' \in BOOLEAN
    BY <1>1, Zenon DEF TypeOK, Forward
  <2> QED
    BY <2>1, <2>2
<1>2. CASE Backward
  <2>1. motor_position_current' \in 0 .. axis_length_counts
    <3>1. \/ motor_position_current' \in {axis_length_counts, motor_position_current}
          \/ motor_position_current' = motor_position_current - 1 /\ motor_position_current > 0
      BY <1>2, Zenon DEF Backward
    <3> QED
      BY <3>1, Places
  <2>2. ls_home' \in BOOLEAN /\ ls_far' \in BOOLEAN /\ home_out' \in BOOLEAN /\ far_out' \in BOOLEAN
    BY <1>2, Zenon DEF TypeOK, Backward
  <2> QED
    BY <2>1, <2>2
<1>3. CASE Keep
  BY <1>3 DEF TypeOK, Keep, switches
<1> QED
  BY <1>1, <1>2, <1>3

LEMMA TypeStep ==
  ASSUME TypeOK, [Next]_vars
  PROVE  TypeOK'
<1>1. CASE Edge
  <2>1. pin' \in BOOLEAN /\ channel_a' \in BOOLEAN
    BY <1>1 DEF Edge, TypeOK, ChannelAfter
  <2>2. change_counter' \in 0 .. 2 * STEPS
    BY <1>1, EdgeCopiesOrSkips, Ratio DEF Copied, Skipped, TypeOK
  <2>3. Forward \/ Backward \/ Keep
    BY <1>1, EdgeMoves
  <2>4. count' \in Int
    BY <1>1 DEF Edge, TypeOK, Sign
  <2>5. edges' \in 0 .. MaxEdges /\ pulses' \in 0 .. edges'
    BY <1>1, BoundAssumption DEF Edge, TypeOK
  <2>6. pressed_early' \in BOOLEAN
    BY <1>1 DEF Edge, TypeOK
  <2>7. dir' \in BOOLEAN /\ settled' \in BOOLEAN /\ missed' \in 0 .. MaxMissed
    BY <1>1 DEF Edge, TypeOK
  <2> QED
    BY <2>1, <2>2, <2>3, <2>4, <2>5, <2>6, <2>7, MoveTypes DEF TypeOK
<1>2. CASE MissedEdge
  BY <1>2, BoundAssumption DEF MissedEdge, TypeOK, axis, switches
<1>3. CASE TurnRound
  BY <1>3 DEF TurnRound, TypeOK, axis, switches, history
<1>4. CASE Settle
  <2>1. /\ change_counter' \in 0 .. 2 * STEPS
        /\ motor_position_current' \in 0 .. axis_length_counts
        /\ count' \in Int /\ edges' \in 0 .. MaxEdges /\ pulses' \in 0 .. edges'
        /\ missed' \in 0 .. MaxMissed
    BY <1>4, Ratio, LengthAssumption, BoundAssumption DEF Settle, TypeOK
  <2>2. /\ pin' \in BOOLEAN /\ dir' \in BOOLEAN /\ channel_a' \in BOOLEAN
        /\ ls_home' \in BOOLEAN /\ ls_far' \in BOOLEAN
        /\ home_out' \in BOOLEAN /\ far_out' \in BOOLEAN
        /\ settled' \in BOOLEAN /\ pressed_early' \in BOOLEAN
    BY <1>4, Zenon DEF Settle, TypeOK, switches
  <2> QED
    BY <2>1, <2>2 DEF TypeOK
<1>5. CASE UNCHANGED vars
  BY <1>5 DEF TypeOK, vars, axis, switches, history
<1> QED
  BY <1>1, <1>2, <1>3, <1>4, <1>5 DEF Next

LEMMA InitTypes == Init => TypeOK
<1> SUFFICES ASSUME Init PROVE TypeOK
  OBVIOUS
<1>1. /\ pin \in BOOLEAN /\ dir \in BOOLEAN /\ channel_a \in BOOLEAN
      /\ ls_home \in BOOLEAN /\ ls_far \in BOOLEAN
      /\ home_out \in BOOLEAN /\ far_out \in BOOLEAN
      /\ settled \in BOOLEAN /\ pressed_early \in BOOLEAN
  BY Zenon DEF Init
<1>2. /\ change_counter \in 0 .. 2 * STEPS
      /\ motor_position_current \in 0 .. axis_length_counts
      /\ count \in Int /\ edges \in 0 .. MaxEdges /\ pulses \in 0 .. edges
      /\ missed \in 0 .. MaxMissed
  BY Ratio, LengthAssumption, BoundAssumption DEF Init
<1> QED
  BY <1>1, <1>2 DEF TypeOK

(* The types of an axis, for every ratio, rail and number of edges.        *)
THEOREM TypeCorrect == Spec => []TypeOK
<1> QED
  BY InitTypes, TypeStep, PTL DEF Spec

-----------------------------------------------------------------------------
(* The switches.                                                           *)

LEMMA MoveSwitches ==
  ASSUME TypeOK, AtSwitch, Forward \/ Backward \/ Keep
  PROVE  /\ AtSwitch'
         /\ (home_out <=> ls_home) => (home_out' <=> ls_home')
         /\ (far_out <=> ls_far) => (far_out' <=> ls_far')
<1>1. CASE Forward
  <2>1. CASE motor_position_current < axis_length_counts
    <3>1. ~ ls_far
      BY <2>1, Places DEF AtSwitch
    <3>2. /\ ls_home' = FALSE /\ ls_far' = ls_far /\ far_out' = far_out
          /\ home_out' = IF ls_home THEN FALSE ELSE home_out
      BY <1>1, <2>1 DEF Forward
    <3> QED
      BY <3>1, <3>2, Zenon DEF AtSwitch
  <2>2. CASE ~ (motor_position_current < axis_length_counts)
    <3>1. motor_position_current = axis_length_counts
      BY <2>2, Places
    <3>2. ~ ls_home
      BY <3>1, Places DEF AtSwitch
    <3>3. /\ ls_far' = TRUE /\ far_out' = TRUE /\ ls_home' = ls_home /\ home_out' = home_out
          /\ motor_position_current' = motor_position_current
      BY <1>1, <2>2 DEF Forward
    <3> QED
      BY <3>1, <3>2, <3>3, Zenon DEF AtSwitch
  <2> QED
    BY <2>1, <2>2
<1>2. CASE Backward
  <2>1. CASE motor_position_current > 0
    <3>1. ~ ls_home
      BY <2>1, Places DEF AtSwitch
    <3>2. /\ ls_far' = FALSE /\ ls_home' = ls_home /\ home_out' = home_out
          /\ far_out' = IF ls_far THEN FALSE ELSE far_out
      BY <1>2, <2>1 DEF Backward
    <3> QED
      BY <3>1, <3>2, Zenon DEF AtSwitch
  <2>2. CASE ~ (motor_position_current > 0)
    <3>1. motor_position_current = 0
      BY <2>2, Places
    <3>2. ~ ls_far
      BY <3>1, Places DEF AtSwitch
    <3>3. /\ ls_home' = TRUE /\ home_out' = TRUE /\ ls_far' = ls_far /\ far_out' = far_out
          /\ motor_position_current' = motor_position_current
      BY <1>2, <2>2 DEF Backward
    <3> QED
      BY <3>1, <3>2, <3>3, Zenon DEF AtSwitch
  <2> QED
    BY <2>1, <2>2
<1>3. CASE Keep
  BY <1>3, Zenon DEF AtSwitch, Keep, switches
<1> QED
  BY <1>1, <1>2, <1>3

LEMMA SwitchStep ==
  ASSUME TypeOK, AtSwitch, Outputs, [Next]_vars
  PROVE  AtSwitch' /\ Outputs'
<1>1. CASE Edge
  <2>1. Forward \/ Backward \/ Keep
    BY <1>1, EdgeMoves
  <2>2. /\ settled' = settled
        /\ pressed_early' <=> pressed_early \/ (~ settled /\ (ls_home' \/ ls_far'))
    BY <1>1 DEF Edge, TypeOK
  <2> QED
    BY <2>1, <2>2, MoveSwitches DEF Outputs
<1>2. CASE MissedEdge
  BY <1>2 DEF MissedEdge, AtSwitch, Outputs, axis, switches
<1>3. CASE TurnRound
  BY <1>3 DEF TurnRound, AtSwitch, Outputs, axis, switches, history
<1>4. CASE Settle
  BY <1>4 DEF Settle, TypeOK, AtSwitch, Outputs, switches
<1>5. CASE UNCHANGED vars
  BY <1>5 DEF AtSwitch, Outputs, vars, axis, switches, history
<1> QED
  BY <1>1, <1>2, <1>3, <1>4, <1>5 DEF Next

(* The switches the firmware sees are those of the carriage.               *)
THEOREM SwitchesAreShown == Spec => []SwitchesShown
<1>1. Init => AtSwitch /\ Outputs
  BY Zenon DEF Init, AtSwitch, Outputs
<1>2. TypeOK /\ AtSwitch /\ Outputs => SwitchesShown
  BY Places DEF AtSwitch, Outputs, SwitchesShown, TypeOK
<1> QED
  BY <1>1, <1>2, SwitchStep, TypeCorrect, PTL DEF Spec

-----------------------------------------------------------------------------
(* The encoder output.                                                     *)

LEMMA InStepEdge ==
  ASSUME TypeOK, InStep, Edge
  PROVE  InStep'
<1>1. pin' <=> ~ pin
  BY DEF Edge, TypeOK
<1>2. settled' = settled
  BY DEF Edge
<1>3. change_counter \in Nat /\ change_counter <= 2 * STEPS
  BY Ratio DEF TypeOK
<1>4. changes_to_skip' = changes_to_skip
  BY DEF changes_to_skip
<1>5. CASE Copied
  <2>1. CASE changes_to_skip = 0
    BY <1>2, <1>4, <1>5, <2>1 DEF InStep, Copied
  <2>2. CASE changes_to_skip # 0
    <3>1. /\ change_counter' = change_counter + 1 /\ change_counter' > changes_to_skip
          /\ channel_a' = pin'
      BY <1>5, <1>3, <2>2, Ratio DEF Copied
    <3>2. change_counter' % 2 = 1 <=> ~ (change_counter % 2 = 1)
      BY <1>3, <3>1, Parity
    <3>3. ~ settled => (pin' <=> change_counter' % 2 = 1)
      BY <1>1, <2>2, <3>2, Zenon DEF InStep
    <3>4. ~ (change_counter' <= changes_to_skip)
      BY <1>3, <3>1, Ratio
    <3> QED
      BY <1>2, <1>4, <2>2, <3>1, <3>3, <3>4 DEF InStep
  <2> QED
    BY <2>1, <2>2
<1>6. CASE Skipped
  <2>1. /\ change_counter' % 2 = 1 <=> ~ (change_counter % 2 = 1)
        /\ change_counter' % 2 = 1 <=> change_counter % 2 = 0
        /\ change_counter' % 2 = 0 <=> change_counter % 2 = 1
    <3>1. CASE change_counter' = change_counter + 1
      BY <1>3, <3>1, Parity
    <3>2. CASE change_counter = 2 * STEPS /\ change_counter' = 1
      BY <3>2, Parity
    <3> QED
      BY <1>6, <3>1, <3>2 DEF Skipped
  <2>2. /\ changes_to_skip # 0 /\ channel_a' = channel_a
        /\ change_counter' <= changes_to_skip /\ ~ (change_counter' > changes_to_skip)
    BY <1>3, <1>6, Ratio DEF Skipped
  <2>3. ~ settled => (pin' <=> change_counter' % 2 = 1)
    BY <1>1, <2>1, <2>2, Zenon DEF InStep
  <2>4. CASE change_counter <= changes_to_skip
    <3>1. change_counter % 2 = 0 => (channel_a => pin)
      BY <2>2, <2>4 DEF InStep
    <3>2. change_counter % 2 = 1 => (channel_a => ~ pin)
      BY <2>2, <2>4 DEF InStep
    <3>3. ~ settled => ~ channel_a
      BY <2>2, <2>4 DEF InStep
    <3>4. change_counter' % 2 = 0 => (channel_a' => pin')
      BY <1>1, <2>1, <2>2, <3>2, Zenon
    <3>5. change_counter' % 2 = 1 => (channel_a' => ~ pin')
      BY <1>1, <2>1, <2>2, <3>1, Zenon
    <3> QED
      BY <1>2, <1>4, <2>2, <2>3, <3>3, <3>4, <3>5 DEF InStep
  <2>5. CASE change_counter > changes_to_skip
    <3>1. change_counter' = 1 /\ change_counter % 2 = 0
      BY <1>3, <1>6, <2>5, Parity, Ratio DEF Skipped
    <3>2. channel_a <=> pin
      BY <2>2, <2>5 DEF InStep
    <3>3. ~ settled => ~ pin
      BY <2>2, <3>1 DEF InStep
    <3>4. change_counter' % 2 = 1
      BY <2>1, <3>1
    <3> QED
      BY <1>1, <1>2, <1>4, <2>2, <2>3, <3>2, <3>3, <3>4 DEF InStep
  <2> QED
    BY <1>3, <2>4, <2>5, Ratio
<1> QED
  BY <1>5, <1>6, EdgeCopiesOrSkips

LEMMA InStepKept ==
  ASSUME TypeOK, missed = 0 => InStep, [Next]_vars
  PROVE  missed' = 0 => InStep'
<1>0. changes_to_skip' = changes_to_skip
  BY DEF changes_to_skip
<1>1. CASE Edge
  <2>1. missed' = missed
    BY <1>1 DEF Edge
  <2> QED
    BY <1>1, <2>1, InStepEdge
<1>2. CASE MissedEdge
  BY <1>2 DEF MissedEdge, TypeOK
<1>3. CASE TurnRound
  BY <1>0, <1>3 DEF TurnRound, InStep, axis, history
<1>4. CASE Settle
  <2>1. /\ missed' = missed /\ pin' = pin /\ channel_a' = channel_a
        /\ change_counter' = 0 /\ settled' = TRUE /\ ~ settled
    BY <1>4 DEF Settle
  <2>2. 0 <= changes_to_skip /\ ~ (0 > changes_to_skip) /\ 0 % 2 = 0 /\ 0 % 2 # 1
    BY Ratio
  <2>3. missed = 0 => (channel_a => pin)
    <3>1. change_counter > changes_to_skip \/ change_counter <= changes_to_skip
      BY Ratio DEF TypeOK
    <3> QED
      BY <2>1, <3>1 DEF InStep
  <2>4. changes_to_skip = 0 /\ missed = 0 => (channel_a <=> pin)
    BY DEF InStep
  <2> QED
    BY <1>0, <2>1, <2>2, <2>3, <2>4 DEF InStep
<1>5. CASE UNCHANGED vars
  BY <1>0, <1>5 DEF InStep, vars, axis, history
<1> QED
  BY <1>1, <1>2, <1>3, <1>4, <1>5 DEF Next

LEMMA InitInStep == Init => InStep
<1> SUFFICES ASSUME Init PROVE InStep
  OBVIOUS
<1>1. /\ ~ pin /\ ~ channel_a /\ change_counter = 0
  BY DEF Init
<1>2. 0 <= changes_to_skip /\ ~ (0 > changes_to_skip) /\ 0 % 2 = 0 /\ 0 % 2 # 1
  BY Ratio
<1> QED
  BY <1>1, <1>2 DEF InStep

(* The firmware counts each pulse, and nothing else.                       *)
LEMMA EdgeCounts ==
  ASSUME TypeOK, InStep, Edge
  PROVE  /\ Copies /\ pin' => count' = count + Sign /\ pulses' = pulses + 1
         /\ ~ (Copies /\ pin') => count' = count /\ pulses' = pulses
         /\ edges' = edges + 1
<1>1. pin' <=> ~ pin
  BY DEF Edge, TypeOK
<1>2. change_counter \in Nat
  BY Ratio DEF TypeOK
<1>3. channel_a' /\ ~ channel_a <=> Copies /\ pin'
  <2>1. CASE Copied
    <3>1. CASE changes_to_skip = 0
      BY <1>1, <2>1, <3>1, Zenon DEF Copied, InStep
    <3>2. CASE changes_to_skip # 0 /\ change_counter > changes_to_skip
      BY <1>1, <2>1, <3>2, Zenon DEF Copied, InStep
    <3>3. CASE changes_to_skip # 0 /\ change_counter <= changes_to_skip
      <4>1. change_counter = changes_to_skip
        BY <1>2, <2>1, <3>3, Ratio DEF Copied
      <4>2. change_counter % 2 = 0
        BY <4>1, Parity
      <4> QED
        BY <1>1, <2>1, <3>3, <4>2, Zenon DEF Copied, InStep
    <3> QED
      BY <1>2, <3>1, <3>2, <3>3, Ratio
  <2>2. CASE Skipped
    BY <2>2, Zenon DEF Skipped
  <2> QED
    BY <2>1, <2>2, EdgeCopiesOrSkips
<1> QED
  BY <1>3, Zenon DEF Edge

LEMMA HalfStep ==
  ASSUME NEW n \in Nat, NEW level \in BOOLEAN, NEW next \in BOOLEAN, next <=> ~ level
  PROVE  /\ Half(n, level) \in {-1, 0, 1}
         /\ next => Half(n + 1, next) = Half(n, level) + 1
         /\ ~ next => Half(n + 1, next) = Half(n, level) - 1
BY Parity DEF Half

LEMMA LeadStep ==
  ASSUME TypeOK, InStep, Edge
  PROVE  /\ Lead \in Int
         /\ Copies /\ pin' => Lead' = Lead + 2 * STEPS - COUNTS
         /\ ~ (Copies /\ pin') => Lead' = Lead - COUNTS
<1>1. pulses \in Int /\ edges \in Int
  BY BoundAssumption DEF TypeOK
<1>2. \A a, b \in Int : a * (b + 1) = a * b + a /\ a * b \in Int
  OBVIOUS
<1>3. 2 * STEPS \in Int /\ COUNTS \in Int
  BY Ratio
<1>4. Lead' = 2 * STEPS * pulses' - COUNTS * edges'
  BY DEF Lead
<1>5. /\ COUNTS * edges' = COUNTS * edges + COUNTS
      /\ 2 * STEPS * pulses \in Int /\ COUNTS * edges \in Int
  BY <1>1, <1>2, <1>3, EdgeCounts
<1>6. CASE Copies /\ pin'
  <2>1. 2 * STEPS * pulses' = 2 * STEPS * pulses + 2 * STEPS
    BY <1>1, <1>2, <1>3, <1>6, EdgeCounts
  <2> QED
    BY <1>3, <1>4, <1>5, <1>6, <2>1 DEF Lead
<1>7. CASE ~ (Copies /\ pin')
  <2>1. pulses' = pulses
    BY <1>7, EdgeCounts
  <2> QED
    BY <1>3, <1>4, <1>5, <1>7, <2>1 DEF Lead
<1> QED
  BY <1>3, <1>5, <1>6, <1>7 DEF Lead

LEMMA AheadEdge ==
  ASSUME TypeOK, InStep, Ahead, Edge
  PROVE  Ahead'
<1>1. (pin' <=> ~ pin) /\ pin' \in BOOLEAN /\ pin \in BOOLEAN
  BY DEF Edge, TypeOK
<1>2. /\ change_counter \in Nat /\ change_counter <= 2 * STEPS
      /\ edges \in Nat /\ edges' = edges + 1 /\ Lead \in Int
  BY Ratio, BoundAssumption, EdgeCounts, LeadStep DEF TypeOK
<1>3. changes_to_skip' = changes_to_skip
  BY DEF changes_to_skip
<1>4. \A a, b \in Int : a * (b + 1) = a * b + a /\ a * (b - 1) = a * b - a /\ a * b \in Int
  OBVIOUS
<1>5. CASE changes_to_skip = 0
  <2>1. Copies /\ STEPS = COUNTS /\ STEPS \in Int
    BY <1>5, Ratio DEF Copies
  <2>2. Lead = STEPS * Half(edges, pin)
    BY <1>5 DEF Ahead
  <2>3. Half(edges, pin) \in Int
    BY <1>1, <1>2, HalfStep
  <2>4. Lead' = STEPS * Half(edges', pin')
    <3>1. CASE pin'
      <4>1. Half(edges', pin') = Half(edges, pin) + 1
        BY <1>1, <1>2, <3>1, HalfStep
      <4>2. Lead' = Lead + STEPS
        BY <1>2, <2>1, <3>1, LeadStep
      <4> QED
        BY <1>4, <2>1, <2>2, <2>3, <4>1, <4>2
    <3>2. CASE ~ pin'
      <4>1. Half(edges', pin') = Half(edges, pin) - 1
        BY <1>1, <1>2, <3>2, HalfStep
      <4>2. Lead' = Lead - STEPS
        BY <1>2, <2>1, <3>2, LeadStep
      <4> QED
        BY <1>4, <2>1, <2>2, <2>3, <4>1, <4>2
    <3> QED
      BY <3>1, <3>2
  <2> QED
    BY <1>3, <1>5, <2>4 DEF Ahead
<1>6. CASE Skipped
  <2>1. Lead' = Lead - COUNTS /\ changes_to_skip # 0
    BY <1>6, LeadStep DEF Skipped
  <2>2. CASE change_counter' = change_counter + 1 /\ change_counter' <= changes_to_skip
    <3>1. Lead = - COUNTS * change_counter
      BY <1>2, <2>1, <2>2, Ratio DEF Ahead
    <3>2. Lead' = - COUNTS * change_counter'
      BY <1>2, <1>4, <2>1, <2>2, <3>1, Ratio
    <3> QED
      BY <1>3, <2>1, <2>2, <3>2 DEF Ahead
  <2>3. CASE change_counter = 2 * STEPS /\ change_counter' = 1
    <3>1. Half(change_counter, pin) = 0 /\ ~ (change_counter <= changes_to_skip)
      BY <2>3, Parity, Ratio DEF Half
    <3>2. Lead = STEPS * (2 * STEPS - changes_to_skip) - COUNTS * (2 * STEPS)
      BY <2>1, <2>3, <3>1, Ratio DEF Ahead
    <3>3. Lead = 0
      BY <3>2, Ratio
    <3>4. change_counter' <= changes_to_skip
      BY <2>1, <2>3, Ratio
    <3>5. Lead' = - COUNTS * change_counter'
      BY <2>1, <2>3, <3>3, Ratio
    <3> QED
      BY <1>3, <2>1, <3>4, <3>5 DEF Ahead
  <2> QED
    BY <1>6, <2>2, <2>3 DEF Skipped
<1>7. CASE Copied /\ changes_to_skip # 0
  <2>1. /\ change_counter' = change_counter + 1 /\ ~ (change_counter' <= changes_to_skip)
        /\ changes_to_skip <= change_counter /\ Copies
    BY <1>2, <1>7, Ratio DEF Copied
  <2> DEFINE place == change_counter - changes_to_skip + Half(change_counter, pin)
  <2>2. place \in Int /\ Half(change_counter, pin) \in Int
    BY <1>1, <1>2, Ratio, HalfStep
  <2>3. Lead = STEPS * place - COUNTS * change_counter
    <3>1. CASE change_counter = changes_to_skip
      <4>1. Half(change_counter, pin) = 0
        BY <3>1, Parity DEF Half
      <4>2. place = 0 /\ STEPS * 0 = 0
        BY <1>2, <3>1, <4>1, Ratio
      <4>3. Lead = - COUNTS * change_counter
        BY <1>2, <1>7, <3>1, Ratio DEF Ahead
      <4> QED
        BY <1>2, <4>2, <4>3, Ratio
    <3>2. CASE change_counter # changes_to_skip
      BY <1>2, <1>7, <2>1, <3>2, Ratio DEF Ahead
    <3> QED
      BY <3>1, <3>2
  <2>4. Lead' = STEPS * (change_counter' - changes_to_skip + Half(change_counter', pin'))
                - COUNTS * change_counter'
    <3>1. COUNTS * change_counter' = COUNTS * change_counter + COUNTS
          /\ COUNTS * change_counter \in Int /\ STEPS * place \in Int
      BY <1>2, <1>4, <2>1, <2>2, Ratio
    <3>2. CASE pin'
      <4>1. change_counter' - changes_to_skip + Half(change_counter', pin') = (place + 1) + 1
        <5>1. Half(change_counter', pin') = Half(change_counter, pin) + 1
          BY <1>1, <1>2, <2>1, <3>2, HalfStep
        <5> QED
          BY <1>2, <2>1, <2>2, <5>1, Ratio
      <4>2. STEPS * ((place + 1) + 1) = STEPS * place + 2 * STEPS
        BY <2>2, <1>4, Ratio
      <4>3. Lead' = Lead + 2 * STEPS - COUNTS
        BY <2>1, <3>2, LeadStep
      <4> QED
        BY <2>3, <3>1, <4>1, <4>2, <4>3, Ratio
    <3>3. CASE ~ pin'
      <4>1. change_counter' - changes_to_skip + Half(change_counter', pin') = place
        <5>1. Half(change_counter', pin') = Half(change_counter, pin) - 1
          BY <1>1, <1>2, <2>1, <3>3, HalfStep
        <5> QED
          BY <1>2, <2>1, <2>2, <5>1, Ratio
      <4>2. Lead' = Lead - COUNTS
        BY <3>3, LeadStep
      <4> QED
        BY <2>3, <3>1, <4>1, <4>2, Ratio
    <3> QED
      BY <3>2, <3>3
  <2> QED
    BY <1>3, <1>7, <2>1, <2>4 DEF Ahead
<1> QED
  BY <1>5, <1>6, <1>7, EdgeCopiesOrSkips

LEMMA EncoderStep ==
  ASSUME TypeOK, EncoderInv, [Next]_vars
  PROVE  EncoderInv'
<1> USE DEF EncoderInv
<1>0. changes_to_skip' = changes_to_skip
  BY DEF changes_to_skip
<1>1. CASE Edge
  <2>1. missed' = missed
    BY <1>1 DEF Edge
  <2> QED
    BY <1>1, <2>1, InStepEdge, AheadEdge
<1>2. CASE MissedEdge
  BY <1>2 DEF MissedEdge, TypeOK
<1>3. CASE TurnRound
  BY <1>0, <1>3, InStepKept DEF TurnRound, Ahead, Lead, axis, history
<1>4. CASE Settle
  <2>1. change_counter' = 0 /\ edges' = 0 /\ pulses' = 0
    BY <1>4 DEF Settle
  <2>2. Lead' = 0 /\ Half(edges', pin') = 0 /\ STEPS * 0 = 0 /\ - COUNTS * change_counter' = 0
    BY <2>1, Ratio DEF Lead, Half
  <2>3. Ahead'
    BY <1>0, <2>1, <2>2, Ratio DEF Ahead
  <2> QED
    BY <1>4, <2>3, InStepKept DEF Settle
<1>5. CASE UNCHANGED vars
  BY <1>0, <1>5, InStepKept DEF Ahead, Lead, vars, axis, history
<1> QED
  BY <1>1, <1>2, <1>3, <1>4, <1>5 DEF Next

LEMMA InitAhead == Init => Ahead
<1> SUFFICES ASSUME Init PROVE Ahead
  OBVIOUS
<1>1. change_counter = 0 /\ edges = 0 /\ pulses = 0
  BY DEF Init
<1>2. Lead = 0 /\ Half(edges, pin) = 0 /\ STEPS * 0 = 0 /\ - COUNTS * change_counter = 0
  BY <1>1, Ratio DEF Lead, Half
<1> QED
  BY <1>1, <1>2, Ratio DEF Ahead

LEMMA EncoderInvariant == Spec => []EncoderInv
<1>1. Init => EncoderInv
  BY InitInStep, InitAhead DEF EncoderInv
<1> QED
  BY <1>1, EncoderStep, TypeCorrect, PTL DEF Spec

(* Wherever in a set the axis is, the encoder is less than a set away.     *)
LEMMA AheadBounds ==
  ASSUME TypeOK, Ahead
  PROVE  - COUNTS * (changes_to_skip + 1) <= Lead /\ Lead <= 2 * STEPS
<1>1. /\ change_counter \in Nat /\ change_counter <= 2 * STEPS
      /\ edges \in Nat /\ pin \in BOOLEAN
  BY Ratio, BoundAssumption DEF TypeOK
<1>2. \A a \in Nat : \A x, y \in Int : x <= y => a * x <= a * y
  OBVIOUS
<1>3. \A n \in Nat : Half(n, pin) \in {-1, 0, 1}
  BY Parity DEF Half
<1>4. CASE changes_to_skip = 0
  <2>1. Lead = STEPS * Half(edges, pin)
    BY <1>4 DEF Ahead
  <2>2. Half(edges, pin) \in {-1, 0, 1}
    BY <1>1, <1>3
  <2>3. STEPS = COUNTS
    BY <1>4, Ratio
  <2> QED
    BY <1>4, <2>1, <2>2, <2>3, Ratio
<1>5. CASE changes_to_skip # 0 /\ change_counter <= changes_to_skip
  <2>1. Lead = - COUNTS * change_counter
    BY <1>5 DEF Ahead
  <2>2. COUNTS * change_counter <= COUNTS * (changes_to_skip + 1)
    BY <1>1, <1>2, <1>5, Ratio
  <2>3. COUNTS * change_counter \in Nat
    BY <1>1, Ratio
  <2> QED
    BY <2>1, <2>2, <2>3, Ratio
<1>6. CASE changes_to_skip # 0 /\ ~ (change_counter <= changes_to_skip)
  <2> DEFINE half == Half(change_counter, pin)
             spare == STEPS - COUNTS
  <2>1. half \in {-1, 0, 1} /\ spare \in Nat
    BY <1>1, <1>3, Ratio
  <2>2. Lead = STEPS * (change_counter - changes_to_skip + half) - COUNTS * change_counter
    BY <1>6 DEF Ahead
  <2>3. Lead = spare * (change_counter - 2 * STEPS) + STEPS * half
    BY <1>1, <2>1, <2>2, Ratio
  <2>4. /\ changes_to_skip + 1 - 2 * STEPS <= change_counter - 2 * STEPS
        /\ change_counter - 2 * STEPS <= 0
        /\ changes_to_skip + 1 - 2 * STEPS = 1 - 2 * COUNTS
    BY <1>1, <1>6, Ratio
  <2>5. /\ spare * (1 - 2 * COUNTS) <= spare * (change_counter - 2 * STEPS)
        /\ spare * (change_counter - 2 * STEPS) <= spare * 0
    BY <1>1, <1>2, <2>1, <2>4, Ratio
  <2>6. - STEPS <= STEPS * half /\ STEPS * half <= STEPS
    BY <2>1, Ratio
  <2>7. - COUNTS * (changes_to_skip + 1) = spare * (1 - 2 * COUNTS) - STEPS
    BY Ratio
  <2>8. /\ spare * (change_counter - 2 * STEPS) \in Int /\ STEPS * half \in Int
        /\ spare * (1 - 2 * COUNTS) \in Int /\ spare * 0 = 0
    BY <1>1, <2>1, Ratio
  <2> QED
    BY <2>3, <2>5, <2>6, <2>7, <2>8, Ratio
<1> QED
  BY <1>4, <1>5, <1>6

(* The encoder keeps its ratio to the motor however far that turns.        *)
THEOREM RatioIsKept == Spec => []RatioKept
<1>1. TypeOK /\ EncoderInv => RatioKept
  BY AheadBounds DEF RatioKept, Lead, EncoderInv
<1> QED
  BY <1>1, TypeCorrect, EncoderInvariant, PTL

-----------------------------------------------------------------------------
(* The axis is a carriage.                                                 *)

LEMMA SignIsDrive == /\ Sign \in {-1, 1}
                     /\ dir => Sign = 1
                     /\ ~ dir => Sign = -1
BY DEF Sign

LEMMA PlaceType ==
  ASSUME TypeOK
  PROVE  Place \in 0 .. axis_length_counts + 2
<1>1. Place \in {0, axis_length_counts + 2, motor_position_current + 1}
  BY Zenon DEF Place
<1> QED
  BY <1>1, Places

(* A pulse is one place in the direction of the motor, or a stall.         *)
LEMMA PulseMoves ==
  ASSUME TypeOK, AtSwitch, (dir /\ Forward) \/ (~ dir /\ Backward)
  PROVE  Place' = IF Place + Sign \in 0 .. axis_length_counts + 2 THEN Place + Sign ELSE Place
<1>1. CASE dir /\ Forward
  <2>1. Sign = 1
    BY <1>1, SignIsDrive
  <2>2. CASE motor_position_current < axis_length_counts
    <3>1. ~ ls_far
      BY <2>2, Places DEF AtSwitch
    <3>2. ~ ls_home' /\ ~ ls_far'
      BY <1>1, <2>2, <3>1, Zenon DEF Forward
    <3>3. Place' = motor_position_current' + 1
      BY <3>2, Zenon DEF Place
    <3>4. CASE ls_home
      <4>1. Place = 0 /\ motor_position_current' = 0
        BY <1>1, <2>2, <3>4, Zenon DEF Place, Forward
      <4> QED
        BY <2>1, <3>3, <4>1, Places
    <3>5. CASE ~ ls_home
      <4>1. Place = motor_position_current + 1
            /\ motor_position_current' = motor_position_current + 1
        BY <1>1, <2>2, <3>1, <3>5, Zenon DEF Place, Forward
      <4> QED
        BY <2>1, <2>2, <3>3, <4>1, Places
    <3> QED
      BY <3>4, <3>5
  <2>3. CASE ~ (motor_position_current < axis_length_counts)
    <3>1. motor_position_current = axis_length_counts /\ ~ ls_home
      BY <2>3, Places DEF AtSwitch
    <3>2. ls_far' /\ ~ ls_home'
      BY <1>1, <2>3, <3>1, Zenon DEF Forward
    <3>3. Place' = axis_length_counts + 2
      BY <3>2, Zenon DEF Place
    <3>4. Place = axis_length_counts + 2 \/ Place = axis_length_counts + 1
      BY <3>1, Zenon DEF Place
    <3> QED
      BY <2>1, <3>3, <3>4, Places
  <2> QED
    BY <2>2, <2>3
<1>2. CASE ~ dir /\ Backward
  <2>1. Sign = -1
    BY <1>2, SignIsDrive
  <2>2. CASE motor_position_current > 0
    <3>1. ~ ls_home
      BY <2>2, Places DEF AtSwitch
    <3>2. ~ ls_home' /\ ~ ls_far'
      BY <1>2, <2>2, <3>1, Zenon DEF Backward
    <3>3. Place' = motor_position_current' + 1
      BY <3>2, Zenon DEF Place
    <3>4. CASE ls_far
      <4>1. Place = axis_length_counts + 2 /\ motor_position_current' = axis_length_counts
        BY <1>2, <2>2, <3>1, <3>4, Zenon DEF Place, Backward
      <4> QED
        BY <2>1, <3>3, <4>1, Places
    <3>5. CASE ~ ls_far
      <4>1. Place = motor_position_current + 1
            /\ motor_position_current' = motor_position_current - 1
        BY <1>2, <2>2, <3>1, <3>5, Zenon DEF Place, Backward
      <4> QED
        BY <2>1, <2>2, <3>3, <4>1, Places
    <3> QED
      BY <3>4, <3>5
  <2>3. CASE ~ (motor_position_current > 0)
    <3>1. motor_position_current = 0 /\ ~ ls_far
      BY <2>3, Places DEF AtSwitch
    <3>2. ls_home'
      BY <1>2, <2>3, Zenon DEF Backward
    <3>3. Place' = 0
      BY <3>2, Zenon DEF Place
    <3>4. Place = 0 \/ Place = 1
      BY <3>1, Places DEF Place
    <3> QED
      BY <2>1, <3>3, <3>4, Places
  <2> QED
    BY <2>2, <2>3
<1> QED
  BY <1>1, <1>2

LEMMA EdgeIsCarriageStep ==
  ASSUME TypeOK, AtSwitch, missed = 0 => InStep, Edge
  PROVE  TheCarriage!Next \/ UNCHANGED TheCarriage!vars
<1>1. missed' = missed /\ Sign' = Sign
  BY DEF Edge, Sign
<1>2. Place \in Int /\ Sign \in Int /\ count \in Int
  BY PlaceType, SignIsDrive, Places DEF TypeOK
<1>3. CASE Copies /\ pin'
  <2>1. Place' = IF Place + Sign \in 0 .. axis_length_counts + 2 THEN Place + Sign ELSE Place
    <3>1. (dir /\ Forward) \/ (~ dir /\ Backward)
      BY <1>3, EdgeMoves
    <3> QED
      BY <3>1, PulseMoves
  <2>2. CASE missed = 0
    <3>1. count' = count + Sign
      BY <1>3, <2>2, EdgeCounts
    <3>2. TheCarriage!Advance \/ TheCarriage!Stall
      BY <1>1, <2>1, <3>1 DEF TheCarriage!Advance, TheCarriage!Stall
    <3> QED
      BY <3>2 DEF TheCarriage!Next
  <2>3. CASE missed # 0
    <3>1. count' \in {count, count + Sign}
      BY DEF Edge
    <3>2. Place' \in {Place, Place + Sign} \cap (0 .. axis_length_counts + 2)
      BY <2>1, PlaceType
    <3> QED
      BY <1>1, <2>3, <3>1, <3>2 DEF TheCarriage!Next, TheCarriage!Drift
  <2> QED
    BY <2>2, <2>3
<1>4. CASE ~ (Copies /\ pin')
  <2>1. Place' = Place
    BY <1>4, EdgeMoves DEF Keep, Place
  <2>2. CASE missed = 0
    <3>1. count' = count
      BY <1>4, <2>2, EdgeCounts
    <3> QED
      BY <1>1, <2>1, <3>1 DEF TheCarriage!vars
  <2>3. CASE missed # 0
    <3>1. count' \in {count, count + Sign}
      BY DEF Edge
    <3>2. Place' \in {Place, Place + Sign} \cap (0 .. axis_length_counts + 2)
      BY <2>1, PlaceType
    <3> QED
      BY <1>1, <2>3, <3>1, <3>2 DEF TheCarriage!Next, TheCarriage!Drift
  <2> QED
    BY <2>2, <2>3
<1> QED
  BY <1>3, <1>4

LEMMA CarriageStep ==
  ASSUME TypeOK, AtSwitch, missed = 0 => InStep, [Next]_vars
  PROVE  [TheCarriage!Next]_(TheCarriage!vars)
<1>1. CASE Edge
  BY <1>1, EdgeIsCarriageStep
<1>2. CASE MissedEdge
  <2>1. (missed' = 0) = FALSE
    BY <1>2 DEF MissedEdge, TypeOK
  <2>2. Place' = Place /\ Sign' = Sign /\ count' = count
    BY <1>2 DEF MissedEdge, Place, Sign, axis
  <2> QED
    BY <2>1, <2>2 DEF TheCarriage!Next, TheCarriage!Miss
<1>3. CASE TurnRound
  <2>1. Place' = Place
    BY <1>3, Zenon DEF TurnRound, Place, axis
  <2>2. count' = count /\ missed' = missed
    BY <1>3 DEF TurnRound, history
  <2>3. dir' <=> ~ dir
    BY <1>3 DEF TurnRound
  <2>4. Sign' = - Sign
    <3>1. CASE dir
      <4>1. ~ dir'
        BY <2>3, <3>1, Zenon
      <4> QED
        BY <3>1, <4>1 DEF Sign
    <3>2. CASE ~ dir
      <4>1. dir'
        BY <2>3, <3>2, Zenon
      <4>2. Sign \in Int /\ Sign + 1 = 0
        BY <3>2, SignIsDrive
      <4>3. Sign' = 1
        BY <4>1, Zenon DEF Sign
      <4> QED
        BY <4>2, <4>3
    <3> QED
      BY <3>1, <3>2
  <2> QED
    BY <2>1, <2>2, <2>4 DEF TheCarriage!Next, TheCarriage!Turn
<1>4. CASE Settle
  <2>1. Place' = motor_position_default + 1
    BY <1>4 DEF Settle, Place
  <2>2. Place' \in 1 .. (axis_length_counts + 2) - 1
    BY <2>1, LengthAssumption
  <2>3. count' = count /\ Sign' = Sign /\ missed' = missed
    BY <1>4 DEF Settle, Sign
  <2> QED
    BY <2>2, <2>3 DEF TheCarriage!Next, TheCarriage!PutBack
<1>5. CASE UNCHANGED vars
  BY <1>5 DEF vars, axis, history, Place, Sign, TheCarriage!vars
<1> QED
  BY <1>1, <1>2, <1>3, <1>4, <1>5 DEF Next

LEMMA CarriageInit == Init => TheCarriage!Init
<1> SUFFICES ASSUME Init PROVE TheCarriage!Init
  OBVIOUS
<1>1. Place \in 0 .. axis_length_counts + 2
  BY InitTypes, PlaceType
<1>2. Sign \in {1, -1}
  BY SignIsDrive
<1>3. count \in Int /\ (missed = 0) = TRUE
  BY DEF Init
<1> QED
  BY <1>1, <1>2, <1>3 DEF TheCarriage!Init

(* PseudoGantry is a gantry: each of its axes is a carriage as the         *)
(* firmware expects it.                                                    *)
THEOREM IsCarriage == Spec => ImplementsCarriage
<1>1. Spec => []AtSwitch
  <2>1. Init => AtSwitch /\ Outputs
    BY Zenon DEF Init, AtSwitch, Outputs
  <2> QED
    BY <2>1, SwitchStep, TypeCorrect, PTL DEF Spec
<1>2. EncoderInv => (missed = 0 => InStep)
  BY DEF EncoderInv
<1> QED
  BY <1>1, <1>2, CarriageInit, CarriageStep, TypeCorrect, EncoderInvariant, PTL
     DEF Spec, ImplementsCarriage, TheCarriage!Spec
=============================================================================
