-------------------------------- MODULE Axis --------------------------------
(***************************************************************************)
(* One gantry axis: the firmware's record of it, the carriage on its rail, *)
(* the two debounced limit switches, the interrupt handlers and the main   *)
(* loop calling axis_start, axis_stop and axis_reset.  The handlers may    *)
(* come between any two writes of start_axis.                              *)
(***************************************************************************)
EXTENDS AxisState

CONSTANTS Length,          \* the carriage moves on 0 .. Length, in encoder counts
          HomeAt,          \* the home switch is pressed at HomeAt and below
          FarAt,           \* the far switch is pressed at FarAt and above
          BootPositions,   \* where the carriage may stand at power-on
          Motions          \* the motions the main loop asks for

ASSUME RailAssumption ==
  /\ Length \in Nat /\ HomeAt \in Nat /\ FarAt \in Nat
  /\ HomeAt < FarAt /\ FarAt <= Length
  /\ Length < HalfRange
  /\ BootPositions \subseteq 0 .. Length
ASSUME MotionsAssumption == Motions \subseteq AxisMotionSpec

VARIABLES ax,         \* the axis record
          pc,         \* where the main loop is: "idle", or inside start_axis
          result,     \* what the last axis_start answered
          pos,        \* the carriage
          home_pin,   \* debounced home switch, TRUE when pressed
          far_pin,    \* debounced far switch, TRUE when pressed
          zero,       \* history: the carriage position the encoder counts from
          origin,     \* history: the encoder count at the last start
          raced       \* history: a limit switch has interrupted start_axis

rail == <<pos, home_pin, far_pin>>
vars == <<ax, pc, result, rail, zero, origin, raced>>

Starting == {"set_moving", "set_target", "set_dir", "drive_pin", "start_pwm", "start_accel"}

HomePressed(p) == p <= HomeAt
FarPressed(p)  == p >= FarAt

(* The debounced level has long settled when setup_axis runs.              *)
Init == /\ ax = setup_axis
        /\ pc = "idle"
        /\ result = "AXIS_OK"
        /\ pos \in BootPositions
        /\ home_pin = HomePressed(pos)
        /\ far_pin = FarPressed(pos)
        /\ zero = pos
        /\ origin = 0
        /\ raced = FALSE

-----------------------------------------------------------------------------
(* The main loop: the calls, and the writes of an accepted start.          *)

Start(motion) ==
  /\ pc = "idle"
  /\ result' = StartResult(ax, motion)
  /\ IF result' = "AXIS_OK"
       THEN ax' = SaveMotion(ax, motion) /\ pc' = "set_moving"
       ELSE UNCHANGED <<ax, pc>>
  /\ UNCHANGED <<rail, zero, origin, raced>>

StartStep(here, there, after) ==
  /\ pc = here
  /\ pc' = there
  /\ ax' = after
  /\ UNCHANGED <<result, rail, zero, raced>>

Write_moving    == StartStep("set_moving", "set_target", SetMoving(ax)) /\ UNCHANGED origin
Write_target    == StartStep("set_target", "set_dir", SetTarget(ax))
                   /\ origin' = ax.encoder_current
Write_dir       == StartStep("set_dir", "drive_pin", SetDir(ax)) /\ UNCHANGED origin
Drive_pin       == StartStep("drive_pin", "start_pwm", DrivePin(ax)) /\ UNCHANGED origin
Reset_pwm_timer == StartStep("start_pwm", "start_accel", StartPwm(ax)) /\ UNCHANGED origin
Reset_accel_timer == StartStep("start_accel", "idle", StartAccel(ax)) /\ UNCHANGED origin

Stop == /\ pc = "idle"
        /\ ax' = stop_axis(ax)
        /\ UNCHANGED <<pc, result, rail, zero, origin, raced>>

Reset == /\ pc = "idle"
         /\ ax' = reset_axis(ax)
         /\ zero' = pos
         /\ UNCHANGED <<pc, result, rail, origin, raced>>

-----------------------------------------------------------------------------
(* The hardware and the interrupt handlers it calls.                       *)

(* The motor turns while the PWM runs; every count of it raises encoder A. *)
(* At either end of the rail the motor stalls.                             *)
Target(p) == IF ax.pin_dir = "POSITIVE" THEN p + 1 ELSE p - 1
EncoderPulse ==
  /\ ax.pwm_on
  /\ Target(pos) \in 0 .. Length
  /\ pos' = Target(pos)
  /\ ax' = handle_isr_encoder(ax)
  /\ UNCHANGED <<pc, result, home_pin, far_pin, zero, origin, raced>>

StepInterrupt ==
  /\ ax.pwm_on
  /\ ax' = handle_isr_step(ax)
  /\ UNCHANGED <<pc, result, rail, zero, origin, raced>>

AccelInterrupt ==
  /\ ax.accel_on
  /\ ax' = handle_isr_accel(ax)
  /\ UNCHANGED <<pc, result, rail, zero, origin, raced>>

(* The home switch interrupts on both edges, the far switch on presses     *)
(* only; each handler reads the debounced level.                           *)
HomeEdge ==
  /\ home_pin # HomePressed(pos)
  /\ home_pin' = HomePressed(pos)
  /\ ax' = handle_isr_ls_home(ax, home_pin')
  /\ raced' = (raced \/ pc # "idle")
  /\ UNCHANGED <<pc, result, pos, far_pin, zero, origin>>

FarPress ==
  /\ ~ far_pin /\ FarPressed(pos)
  /\ far_pin' = TRUE
  /\ ax' = handle_isr_ls_far(ax, far_pin')
  /\ raced' = (raced \/ pc # "idle")
  /\ UNCHANGED <<pc, result, pos, home_pin, zero, origin>>

FarRelease ==
  /\ far_pin /\ ~ FarPressed(pos)
  /\ far_pin' = FALSE
  /\ UNCHANGED <<ax, pc, result, pos, home_pin, zero, origin, raced>>

StartWrite == \/ Write_moving \/ Write_target \/ Write_dir
              \/ Drive_pin \/ Reset_pwm_timer \/ Reset_accel_timer
MainLoop   == (\E motion \in Motions : Start(motion)) \/ StartWrite \/ Stop \/ Reset
Interrupt  == EncoderPulse \/ StepInterrupt \/ AccelInterrupt \/ HomeEdge \/ FarPress
Next       == MainLoop \/ Interrupt \/ FarRelease

Spec == Init /\ [][Next]_vars

(* A write of start_axis, a debounced edge and the interrupts of a timer   *)
(* that runs at a non-zero frequency come eventually.  A timer started at  *)
(* frequency zero (accel or vel_start zero) need never fire.               *)
Fairness == /\ WF_vars(StartWrite)
            /\ WF_vars(HomeEdge) /\ WF_vars(FarPress)
            /\ WF_vars(ax.velocity # 0 /\ EncoderPulse)
            /\ WF_vars(ax.velocity # 0 /\ StepInterrupt)
            /\ WF_vars(ax.spec.accel # 0 /\ AccelInterrupt)
FairSpec == Spec /\ Fairness

-----------------------------------------------------------------------------
TypeOK ==
  /\ ax \in AxisRecord
  /\ pc \in {"idle"} \cup Starting
  /\ result \in Results
  /\ pos \in 0 .. Length /\ home_pin \in BOOLEAN /\ far_pin \in BOOLEAN
  /\ zero \in 0 .. Length /\ origin \in SInt /\ raced \in BOOLEAN

sign == IF ax.spec.dir = "POSITIVE" THEN 1 ELSE -1

(* Between two calls of the main loop an axis that says it is moving has   *)
(* both timers running, and one that says it is not has both stopped       *)
(* (AxisState.moving), unless a limit switch has interrupted start_axis.   *)
MovingMeansDriven ==
  ~ raced /\ pc = "idle" => (ax.moving <=> ax.pwm_on) /\ (ax.moving <=> ax.accel_on)

(* The motor never runs towards a limit switch the firmware has recorded   *)
(* as pressed (validate_motion and the switch handlers), unless a switch   *)
(* has interrupted start_axis between its check and its last write.        *)
NeverIntoPressedSwitch ==
  ~ raced /\ ax.pwm_on =>
    /\ ax.pin_dir = "NEGATIVE" => ~ ax.ls_home_pressed
    /\ ax.pin_dir = "POSITIVE" => ~ ax.ls_far_pressed

(* The encoder count, whose sign comes from the dir field and not from the *)
(* encoder's second channel, is where the carriage is (handle_isr_encoder).*)
EncoderTracksCarriage == ~ raced => ax.encoder_current = pos - zero

(* A motion that has been launched.                                        *)
Launched == ~ raced /\ ax.moving /\ pc # "set_target"

(* While an axis moves, its velocity and its pending velocity stay between *)
(* vel_start and vel_hold; an accepted vel_hold can only be the smaller    *)
(* one when both are the same number of counts (handle_isr_accel).         *)
VelocityInRange ==
  Launched =>
    LET top == IF ax.spec.vel_hold > ax.spec.vel_start
                 THEN ax.spec.vel_hold ELSE ax.spec.vel_start
    IN  /\ ax.velocity \in ax.spec.vel_start .. top
        /\ ax.next_velocity \in ax.spec.vel_start .. top

(* The target of each segment is the start of the motion plus the planned  *)
(* lengths up to the end of that segment: no overshoot accumulates         *)
(* (the error_counts corrections of handle_isr_accel).                     *)
PlannedEnd ==
  ax.profile.dist_accel
    + (IF ax.velocity_segment = "ACCELERATE" THEN 0 ELSE ax.profile.dist_hold)
    + (IF ax.velocity_segment = "DECELERATE" THEN ax.profile.dist_decel ELSE 0)
TargetOnPlan == Launched => ax.encoder_target = I32(origin + PlannedEnd)

(* A launched motion keeps to its plan, in velocity and in distance, at    *)
(* every step of every segment (handle_isr_accel).                         *)
MotionOnPlan == VelocityInRange /\ TargetOnPlan

(* The acceleration timer ends a motion only when all of its distance has  *)
(* been covered, as long as the end of the motion is a signed count        *)
(* (handle_isr_accel, VEL_SEG_DECELERATE).                                 *)
EndOfMotion == origin + sign * ax.spec.total_counts
FullDistance ==
  [][ AccelInterrupt /\ ~ raced /\ ax.moving /\ ~ ax'.moving /\ EndOfMotion \in SInt
        => (ax.encoder_current - origin) * sign >= ax.spec.total_counts ]_vars

(* Every launched motion with non-zero timer frequencies ends: at its      *)
(* distance or at a limit switch (AxisState.moving).                       *)
MotionEnds ==
  (~ raced /\ pc = "idle" /\ ax.moving /\ ax.spec.accel # 0 /\ ax.spec.vel_start # 0)
    ~> ~ ax.moving

-----------------------------------------------------------------------------
(* What a comment of the code says, and a run refutes.                     *)

(* Axis.h:77, "true if the axis is currently moving".                      *)
MovingFlagIsTrue == pc = "idle" => (ax.pwm_on => ax.moving)
=============================================================================
