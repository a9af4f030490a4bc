----------------------------- MODULE AxisState -----------------------------
(***************************************************************************)
(* The state of one gantry axis and the functions that change it, from     *)
(* firmware/lib/Gantry/src/Axis.cpp.  An axis is one record: the volatile  *)
(* AxisState the main loop and the interrupt handlers share, the motion in *)
(* progress, and the three outputs the handlers drive (the step PWM, the   *)
(* acceleration timer and the direction pin).  Interrupt handlers all have *)
(* the same priority, so each is one function of the record; start_axis    *)
(* runs in the main loop and is cut at the points where a handler can come *)
(* between two of its writes.                                              *)
(***************************************************************************)
EXTENDS Kinematics

CONSTANTS CountsPerRev,    \* encoder counts in one motor revolution (500)
          StepsPerRev      \* motor steps in one motor revolution (800)

ASSUME MechAssumption == CountsPerRev \in Nat \ {0} /\ StepsPerRev \in Nat \ {0}

Directions == {"POSITIVE", "NEGATIVE"}
Segments   == {"ACCELERATE", "HOLD", "DECELERATE"}
Results    == {"AXIS_OK", "AXIS_ERR_ALREADY_MOVING", "AXIS_ERR_LS_HOME",
               "AXIS_ERR_LS_FAR", "AXIS_ERR_INVALID"}

AxisMotionSpec == [ dir : Directions, total_counts : UInt, accel : UInt,
                    vel_start : UInt, vel_hold : UInt ]

AxisRecord ==
  [ moving : BOOLEAN, ls_home_pressed : BOOLEAN, ls_far_pressed : BOOLEAN,
          velocity : UInt, next_velocity : UInt, velocity_segment : Segments,
          encoder_current : SInt, encoder_target : SInt, dir : Directions,
          spec : AxisMotionSpec, profile : VelProfile,
          pwm_on : BOOLEAN, accel_on : BOOLEAN, pin_dir : Directions ]

(* setup_axis: zero-initialised memory, then reset_axis.  The level of the *)
(* limit switches is not read.                                             *)
setup_axis ==
  [ moving |-> FALSE, ls_home_pressed |-> FALSE, ls_far_pressed |-> FALSE,
    velocity |-> 0, next_velocity |-> 0, velocity_segment |-> "ACCELERATE",
    encoder_current |-> 0, encoder_target |-> 0, dir |-> "POSITIVE",
    spec |-> [ dir |-> "POSITIVE", total_counts |-> 0, accel |-> 0,
               vel_start |-> 0, vel_hold |-> 0 ],
    profile |-> [ dist_accel |-> 0, dist_hold |-> 0, dist_decel |-> 0 ],
    pwm_on |-> FALSE, accel_on |-> FALSE, pin_dir |-> "POSITIVE" ]

-----------------------------------------------------------------------------
(* Stopping and resetting                                                  *)

(* Mutated form: the acceleration timer is left running.                   *)
stop_axis_KeepsAccel(s) ==
  [ s EXCEPT !.pwm_on = FALSE, !.moving = FALSE, !.velocity = 0, !.next_velocity = 0 ]

stop_axis(s) ==
  [ s EXCEPT !.pwm_on = FALSE, !.accel_on = FALSE,
             !.moving = FALSE, !.velocity = 0, !.next_velocity = 0 ]

(* Mutated form: the encoder count is not reset.                           *)
reset_axis_KeepsCount(s) ==
  [ stop_axis(s) EXCEPT !.encoder_target = 0, !.dir = "POSITIVE" ]

reset_axis(s) ==
  [ stop_axis(s) EXCEPT !.encoder_current = 0, !.encoder_target = 0,
                        !.dir = "POSITIVE" ]

-----------------------------------------------------------------------------
(* Interrupt handlers                                                      *)

handle_isr_encoder(s) ==
  [ s EXCEPT !.encoder_current = I32(IF s.dir = "POSITIVE" THEN @ + 1 ELSE @ - 1) ]

(* Mutated forms: the switch is recorded and the axis not stopped.         *)
ls_home_NoStop(s, pressed) == [ s EXCEPT !.ls_home_pressed = pressed ]
ls_far_NoStop(s, pressed)  == [ s EXCEPT !.ls_far_pressed = pressed ]

handle_isr_ls_home(s, pressed) == [ stop_axis(s) EXCEPT !.ls_home_pressed = pressed ]

handle_isr_ls_far(s, pressed)  == [ stop_axis(s) EXCEPT !.ls_far_pressed = pressed ]

(* A changed velocity also restarts the PWM at the new frequency.          *)
handle_isr_step(s) ==
  IF s.next_velocity # s.velocity
    THEN [ s EXCEPT !.velocity = s.next_velocity, !.pwm_on = TRUE ]
    ELSE s

ReachedTarget(s) ==
  \/ s.dir = "POSITIVE" /\ s.encoder_current >= s.encoder_target
  \/ s.dir = "NEGATIVE" /\ s.encoder_current <= s.encoder_target

(* Mutated form: what the axis ran past the target is added up.            *)
NextTarget_NoCorrection(s, dist) == I32(s.encoder_current + dist)

(* The next segment ends dist counts after the place where this one should *)
(* have ended: what the axis ran past the target is taken off.             *)
NextTarget(s, dist) ==
  LET error_counts == I32(s.encoder_target - s.encoder_current)
  IN  I32(s.encoder_current + dist + error_counts)

(* Mutated form: accelerating without a limit.                             *)
Accelerate_NoLimit(s) ==
  IF ReachedTarget(s)
    THEN [ s EXCEPT !.velocity_segment = "HOLD",
                    !.encoder_target = NextTarget(s, s.profile.dist_hold) ]
    ELSE [ s EXCEPT !.next_velocity = @ + 1 ]

Accelerate(s) ==
  IF ReachedTarget(s)
    THEN [ s EXCEPT !.velocity_segment = "HOLD",
                    !.encoder_target = NextTarget(s, s.profile.dist_hold) ]
    ELSE IF s.next_velocity < s.spec.vel_hold
      THEN [ s EXCEPT !.next_velocity = @ + 1 ]
      ELSE s

Hold(s) ==
  IF ReachedTarget(s)
    THEN [ s EXCEPT !.velocity_segment = "DECELERATE",
                    !.encoder_target = NextTarget(s, s.profile.dist_decel) ]
    ELSE s

(* Mutated forms: braking below the start velocity; stopping at the start  *)
(* velocity instead of at the target.                                      *)
Decelerate_NoFloor(s) ==
  IF ReachedTarget(s) THEN stop_axis(s) ELSE [ s EXCEPT !.next_velocity = @ - 1 ]
Decelerate_StopsEarly(s) ==
  IF s.next_velocity > s.spec.vel_start
    THEN [ s EXCEPT !.next_velocity = @ - 1 ]
    ELSE stop_axis(s)

Decelerate(s) ==
  IF ReachedTarget(s)
    THEN stop_axis(s)
    ELSE IF s.next_velocity > s.spec.vel_start
      THEN [ s EXCEPT !.next_velocity = @ - 1 ]
      ELSE s

handle_isr_accel(s) ==
  IF ~ s.moving THEN s
  ELSE IF s.velocity_segment = "ACCELERATE" THEN Accelerate(s)
  ELSE IF s.velocity_segment = "HOLD" THEN Hold(s)
  ELSE Decelerate(s)

-----------------------------------------------------------------------------
(* start_axis                                                              *)

(* Mutated form: the home switch is not checked.                           *)
validate_motion_NoHomeCheck(s, motion) ==
  IF s.moving THEN "AXIS_ERR_ALREADY_MOVING"
  ELSE IF motion.dir = "POSITIVE" /\ s.ls_far_pressed THEN "AXIS_ERR_LS_FAR"
  ELSE "AXIS_OK"

validate_motion(s, motion) ==
  IF s.moving THEN "AXIS_ERR_ALREADY_MOVING"
  ELSE IF motion.dir = "POSITIVE" /\ s.ls_far_pressed THEN "AXIS_ERR_LS_FAR"
  ELSE IF motion.dir = "NEGATIVE" /\ s.ls_home_pressed THEN "AXIS_ERR_LS_HOME"
  ELSE "AXIS_OK"

Counts(steps) == U32(steps * CountsPerRev) \div StepsPerRev

ProfileExists(motion) ==
  valid_profile(Counts(motion.accel), Counts(motion.vel_start), Counts(motion.vel_hold))

ProfileOf(motion) ==
  generate_vel_profile(motion.dir = "NEGATIVE", Counts(motion.accel),
                       Counts(motion.vel_start), Counts(motion.vel_hold),
                       motion.total_counts)

(* What start_axis answers.                                                *)
StartResult(s, motion) ==
  IF validate_motion(s, motion) # "AXIS_OK" THEN validate_motion(s, motion)
  ELSE IF ProfileExists(motion) THEN "AXIS_OK" ELSE "AXIS_ERR_INVALID"

(* The writes of an accepted start, in program order.                      *)
SaveMotion(s, motion) == [ s EXCEPT !.spec = motion, !.profile = ProfileOf(motion) ]
SetMoving(s)  == [ s EXCEPT !.moving = TRUE ]
SetTarget(s)  == [ s EXCEPT !.velocity = s.spec.vel_start,
                            !.next_velocity = s.spec.vel_start,
                            !.velocity_segment = "ACCELERATE",
                            !.encoder_target = I32(s.encoder_current + s.profile.dist_accel) ]
SetDir(s)     == [ s EXCEPT !.dir = s.spec.dir ]
DrivePin(s)   == [ s EXCEPT !.pin_dir = s.dir ]
StartPwm(s)   == [ s EXCEPT !.pwm_on = TRUE ]
StartAccel(s) == [ s EXCEPT !.accel_on = TRUE ]
=============================================================================
