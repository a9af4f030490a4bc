--------------------------- MODULE AxisRefinement ---------------------------
(***************************************************************************)
(* Axis implements AxisContract.  The abstract drive is what the motor     *)
(* does, so the six writes of start_axis become one step, the one that     *)
(* starts the PWM.                                                         *)
(***************************************************************************)
EXTENDS Axis

Endless == EndOfMotion \in SInt /\ ax.spec.total_counts > Length

view == [ drive   |-> IF ax.pwm_on THEN ax.pin_dir ELSE "none",
          endless |-> ax.pwm_on /\ Endless,
          ls_home_pressed |-> ax.ls_home_pressed,
          ls_far_pressed  |-> ax.ls_far_pressed,
          pos |-> pos, zero |-> zero,
          home_pin |-> home_pin, far_pin |-> far_pin ]

Abstract == INSTANCE AxisContract WITH c <- view

(* Every step of axis_start, of its writes too.                            *)
Starts == (\E motion \in Motions : Start(motion)) \/ StartWrite

(* Until a limit switch interrupts start_axis, each call of the main loop  *)
(* does what the contract's action of that name does, each interrupt what  *)
(* an event of it does, or the view stays.  So a motion only starts when   *)
(* no recorded switch forbids it; if no call stops it, it ends at a switch *)
(* or, when its distance fits the rail, by itself, which homing relies on; *)
(* and the carriage moves the way it is driven (the whole of Axis.cpp).    *)
ImplementsContract ==
  /\ Abstract!Init
  /\ [][ ~ raced' => /\ Starts => [Abstract!Start]_view
                     /\ Stop => [Abstract!Stop]_view
                     /\ Reset => [Abstract!Reset]_view
                     /\ Interrupt \/ FarRelease => [Abstract!Event]_view ]_vars
=============================================================================
