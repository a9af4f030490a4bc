---------------------------- MODULE Axis_proofs ----------------------------
(***************************************************************************)
(* Proofs about one axis, for every word size, rail, mechanics and set of  *)
(* motions.                                                                *)
(***************************************************************************)
EXTENDS AxisRefinement, Kinematics_proofs

-----------------------------------------------------------------------------
(* Every operation on an axis record yields an axis record.                *)

LEMMA ZeroIsWord == 0 \in UInt /\ 0 \in SInt /\ UInt \subseteq Nat /\ SInt \subseteq Int
  BY HalfRangeAssumption DEF UInt, SInt, WordSize

LEMMA Fields ==
  ASSUME NEW s \in AxisRecord
  PROVE  /\ s.encoder_current \in Int /\ s.encoder_target \in Int
         /\ s.velocity \in UInt /\ s.next_velocity \in UInt
         /\ s.profile \in VelProfile /\ s.spec \in AxisMotionSpec
         /\ s.profile.dist_accel \in SInt /\ s.profile.dist_hold \in SInt
         /\ s.profile.dist_decel \in SInt
         /\ s.spec.vel_start \in UInt /\ s.spec.vel_hold \in UInt
         /\ s.spec.dir \in Directions
  BY ZeroIsWord DEF AxisRecord, VelProfile, AxisMotionSpec

LEMMA SetupType == setup_axis \in AxisRecord
  BY ZeroIsWord DEF setup_axis, AxisRecord, AxisMotionSpec, VelProfile, Segments, Directions

LEMMA StopType == ASSUME NEW s \in AxisRecord PROVE stop_axis(s) \in AxisRecord
  BY ZeroIsWord DEF stop_axis, AxisRecord

LEMMA ResetType == ASSUME NEW s \in AxisRecord PROVE reset_axis(s) \in AxisRecord
  BY ZeroIsWord, StopType DEF reset_axis, AxisRecord, Directions

LEMMA EncoderType == ASSUME NEW s \in AxisRecord PROVE handle_isr_encoder(s) \in AxisRecord
  <1>1. s.encoder_current + 1 \in Int /\ s.encoder_current - 1 \in Int
    BY Fields
  <1>2. /\ I32(s.encoder_current + 1) \in SInt
        /\ I32(s.encoder_current - 1) \in SInt
    BY <1>1, I32InSInt
  <1> QED
    BY <1>2 DEF handle_isr_encoder, AxisRecord

LEMMA HomeType ==
  ASSUME NEW s \in AxisRecord, NEW b \in BOOLEAN PROVE handle_isr_ls_home(s, b) \in AxisRecord
  BY StopType DEF handle_isr_ls_home, AxisRecord

LEMMA FarType ==
  ASSUME NEW s \in AxisRecord, NEW b \in BOOLEAN PROVE handle_isr_ls_far(s, b) \in AxisRecord
  BY StopType DEF handle_isr_ls_far, AxisRecord

LEMMA StepType == ASSUME NEW s \in AxisRecord PROVE handle_isr_step(s) \in AxisRecord
  BY DEF handle_isr_step, AxisRecord

LEMMA NextTargetType ==
  ASSUME NEW s \in AxisRecord, NEW dist \in SInt PROVE NextTarget(s, dist) \in SInt
  <1>1. s.encoder_target - s.encoder_current \in Int
    BY Fields
  <1>2. I32(s.encoder_target - s.encoder_current) \in Int
    BY <1>1, I32InSInt, ZeroIsWord
  <1>3. s.encoder_current + dist + I32(s.encoder_target - s.encoder_current) \in Int
    BY <1>2, ZeroIsWord, Fields
  <1> QED
    BY <1>3, I32InSInt DEF NextTarget

LEMMA AccelType == ASSUME NEW s \in AxisRecord PROVE handle_isr_accel(s) \in AxisRecord
  <1>1. s.profile.dist_hold \in SInt /\ s.profile.dist_decel \in SInt
    BY DEF AxisRecord, VelProfile
  <1>2. NextTarget(s, s.profile.dist_hold) \in SInt /\ NextTarget(s, s.profile.dist_decel) \in SInt
    BY <1>1, NextTargetType
  <1>3. s.next_velocity < s.spec.vel_hold => s.next_velocity + 1 \in UInt
    BY HalfRangeAssumption DEF AxisRecord, AxisMotionSpec, UInt, WordSize
  <1>4. s.next_velocity > s.spec.vel_start => s.next_velocity - 1 \in UInt
    BY HalfRangeAssumption DEF AxisRecord, AxisMotionSpec, UInt, WordSize
  <1>5. Accelerate(s) \in AxisRecord
    BY <1>2, <1>3 DEF Accelerate, AxisRecord, Segments
  <1>6. Hold(s) \in AxisRecord
    BY <1>2 DEF Hold, AxisRecord, Segments
  <1>7. Decelerate(s) \in AxisRecord
    BY <1>4, StopType DEF Decelerate, AxisRecord
  <1> QED
    BY <1>5, <1>6, <1>7 DEF handle_isr_accel

LEMMA CountsType == ASSUME NEW n \in UInt PROVE Counts(n) \in UInt
  <1>1. n * CountsPerRev \in Int
    BY MechAssumption, ZeroIsWord
  <1>2. U32(n * CountsPerRev) \in UInt
    BY <1>1, U32InUInt
  <1> QED
    BY <1>2, MechAssumption, HalfRangeAssumption DEF Counts, UInt, WordSize

LEMMA ProfileOfType == ASSUME NEW m \in AxisMotionSpec PROVE ProfileOf(m) \in VelProfile
  BY CountsType, ProfileType DEF ProfileOf, AxisMotionSpec

LEMMA StartTypes ==
  ASSUME NEW s \in AxisRecord
  PROVE  /\ \A m \in AxisMotionSpec : SaveMotion(s, m) \in AxisRecord
         /\ SetMoving(s) \in AxisRecord
         /\ SetTarget(s) \in AxisRecord
         /\ SetDir(s) \in AxisRecord
         /\ DrivePin(s) \in AxisRecord
         /\ StartPwm(s) \in AxisRecord
         /\ StartAccel(s) \in AxisRecord
  <1>1. \A m \in AxisMotionSpec : SaveMotion(s, m) \in AxisRecord
    BY ProfileOfType DEF SaveMotion, AxisRecord
  <1>2. SetMoving(s) \in AxisRecord
    BY DEF SetMoving, AxisRecord
  <1>3. SetTarget(s) \in AxisRecord
    <2>1. I32(s.encoder_current + s.profile.dist_accel) \in SInt
      <3>1. s.encoder_current \in Int /\ s.profile.dist_accel \in Int
        BY Fields, ZeroIsWord
      <3>2. s.encoder_current + s.profile.dist_accel \in Int
        BY <3>1
      <3> QED
        BY <3>2, I32InSInt
    <2>2. s.spec.vel_start \in UInt
      BY DEF AxisRecord, AxisMotionSpec
    <2> QED
      BY <2>1, <2>2 DEF SetTarget, AxisRecord, Segments
  <1>4. SetDir(s) \in AxisRecord
    BY DEF SetDir, AxisRecord, AxisMotionSpec
  <1>5. DrivePin(s) \in AxisRecord
    BY DEF DrivePin, AxisRecord
  <1>6. StartPwm(s) \in AxisRecord
    BY DEF StartPwm, AxisRecord
  <1>7. StartAccel(s) \in AxisRecord
    BY DEF StartAccel, AxisRecord
  <1> QED
    BY <1>1, <1>2, <1>3, <1>4, <1>5, <1>6, <1>7

-----------------------------------------------------------------------------
(* Type correctness of the specification.                                  *)

LEMMA PressedIsBoolean ==
  ASSUME NEW p \in Int PROVE HomePressed(p) \in BOOLEAN /\ FarPressed(p) \in BOOLEAN
  BY RailAssumption DEF HomePressed, FarPressed

(* Every reachable state has its type.                                     *)
THEOREM TypeCorrect == Spec => []TypeOK
  <1>1. Init => TypeOK
    <2> SUFFICES ASSUME Init PROVE TypeOK
      OBVIOUS
    <2>1. pos \in 0 .. Length /\ zero \in 0 .. Length /\ origin \in SInt
      BY RailAssumption, ZeroIsWord DEF Init
    <2>2. home_pin \in BOOLEAN /\ far_pin \in BOOLEAN /\ raced \in BOOLEAN
      <3>1. HomePressed(pos) \in BOOLEAN /\ FarPressed(pos) \in BOOLEAN
        BY <2>1, RailAssumption, PressedIsBoolean
      <3> QED
        BY <3>1, Zenon DEF Init
    <2>3. ax \in AxisRecord /\ pc \in {"idle"} /\ result \in Results
      BY SetupType DEF Init, Results
    <2> QED
      BY <2>1, <2>2, <2>3 DEF TypeOK
  <1>2. TypeOK /\ [Next]_vars => TypeOK'
    <2> SUFFICES ASSUME TypeOK, [Next]_vars PROVE TypeOK'
      OBVIOUS
    <2> USE DEF TypeOK
    <2>1. ASSUME NEW motion \in Motions, Start(motion) PROVE TypeOK'
      <3>1. SaveMotion(ax, motion) \in AxisRecord
        BY MotionsAssumption, StartTypes
      <3>2. ax' \in AxisRecord /\ pc' \in {"idle"} \cup Starting
        BY <2>1, <3>1 DEF Start, Starting
      <3>3. result' \in Results
        BY <2>1 DEF Start, StartResult, validate_motion, Results
      <3> QED
        BY <2>1, <3>2, <3>3 DEF Start, rail
    <2>2. CASE StartWrite
      <3>1. ax' \in AxisRecord /\ pc' \in {"idle"} \cup Starting
        BY <2>2, StartTypes DEF StartWrite, Write_moving, Write_target, Write_dir, Drive_pin,
           Reset_pwm_timer, Reset_accel_timer, StartStep, Starting
      <3>2. origin' \in SInt
        BY <2>2 DEF StartWrite, Write_moving, Write_target, Write_dir, Drive_pin,
           Reset_pwm_timer, Reset_accel_timer, StartStep, AxisRecord
      <3>3. UNCHANGED <<result, rail, zero, raced>>
        BY <2>2 DEF StartWrite, Write_moving, Write_target, Write_dir, Drive_pin,
           Reset_pwm_timer, Reset_accel_timer, StartStep
      <3> QED
        BY <3>1, <3>2, <3>3 DEF rail
    <2>3. CASE Stop
      BY <2>3, StopType DEF Stop, rail
    <2>4. CASE Reset
      BY <2>4, ResetType DEF Reset, rail
    <2>5. CASE EncoderPulse
      BY <2>5, EncoderType DEF EncoderPulse
    <2>6. CASE StepInterrupt
      BY <2>6, StepType DEF StepInterrupt, rail
    <2>7. CASE AccelInterrupt
      BY <2>7, AccelType DEF AccelInterrupt, rail
    <2>8. CASE HomeEdge
      <3>1. home_pin' \in BOOLEAN /\ raced' \in BOOLEAN
        <4>1. HomePressed(pos) \in BOOLEAN
          BY RailAssumption, PressedIsBoolean
        <4> QED
          BY <2>8, <4>1, Zenon DEF HomeEdge
      <3> QED
        BY <2>8, <3>1, HomeType DEF HomeEdge
    <2>9. CASE FarPress
      <3>1. far_pin' \in BOOLEAN /\ raced' \in BOOLEAN
        BY <2>9, Zenon DEF FarPress
      <3> QED
        BY <2>9, <3>1, FarType DEF FarPress
    <2>10. CASE FarRelease
      BY <2>10 DEF FarRelease
    <2>11. CASE UNCHANGED vars
      BY <2>11 DEF vars, rail
    <2> QED
      BY <2>1, <2>2, <2>3, <2>4, <2>5, <2>6, <2>7, <2>8, <2>9, <2>10, <2>11
         DEF Next, MainLoop, Interrupt
  <1> QED
    BY <1>1, <1>2, PTL DEF Spec

-----------------------------------------------------------------------------
(* The inductive invariant.                                                *)

Busy == pc # "idle" \/ ax.moving

(* Which timers run at each point of the main loop.                        *)
Control ==
  /\ ax.pwm_on => ax.moving /\ pc \in {"idle", "start_accel"}
  /\ ax.accel_on => ax.moving /\ pc = "idle"
  /\ pc = "idle" /\ ax.moving => ax.pwm_on /\ ax.accel_on
  /\ pc = "set_moving" => ~ ax.moving
  /\ pc \in Starting \ {"set_moving"} => ax.moving
  /\ pc = "start_accel" => ax.pwm_on

(* The check of validate_motion still holds.                               *)
Clear ==
  Busy => /\ ax.spec.dir = "NEGATIVE" => ~ ax.ls_home_pressed
          /\ ax.spec.dir = "POSITIVE" => ~ ax.ls_far_pressed

(* The direction of the motion has reached the dir field, then the pin.    *)
Aligned ==
  /\ Busy /\ pc \notin {"set_moving", "set_target", "set_dir"} => ax.dir = ax.spec.dir
  /\ Busy /\ pc \notin {"set_moving", "set_target", "set_dir", "drive_pin"}
       => ax.pin_dir = ax.spec.dir

Tracks == ax.encoder_current = pos - zero

Planned == Busy => ax.profile = ProfileOf(ax.spec)

IInv == /\ TypeOK
        /\ ~ raced => Control /\ Clear /\ Aligned /\ Tracks /\ Planned
        /\ VelocityInRange
        /\ TargetOnPlan

(* A step without a race in it preserves the control part.                 *)
LEMMA ControlStep ==
  ASSUME TypeOK, Control, Clear, Aligned, Planned, [Next]_vars, ~ raced, ~ raced'
  PROVE  Control' /\ Clear' /\ Aligned' /\ Planned'
  <1>0. ax \in AxisRecord
    BY DEF TypeOK
  <1>1. ASSUME NEW motion \in Motions, Start(motion)
        PROVE  Control' /\ Clear' /\ Aligned' /\ Planned'
    <2>1. CASE StartResult(ax, motion) = "AXIS_OK"
      <3>1. /\ pc = "idle" /\ pc' = "set_moving"
            /\ ax' = SaveMotion(ax, motion)
        BY <1>1, <2>1 DEF Start
      <3>2. ~ ax.moving /\ (motion.dir = "POSITIVE" => ~ ax.ls_far_pressed)
            /\ (motion.dir = "NEGATIVE" => ~ ax.ls_home_pressed)
        BY <2>1 DEF StartResult, validate_motion
      <3>3. /\ ax'.moving = ax.moving /\ ax'.pwm_on = ax.pwm_on /\ ax'.accel_on = ax.accel_on
            /\ ax'.spec = motion /\ ax'.profile = ProfileOf(motion)
            /\ ax'.ls_home_pressed = ax.ls_home_pressed
            /\ ax'.ls_far_pressed = ax.ls_far_pressed
        BY <1>0, <3>1 DEF SaveMotion, AxisRecord
      <3> QED
        BY <3>1, <3>2, <3>3 DEF Control, Clear, Aligned, Planned, Busy, Starting
    <2>2. CASE StartResult(ax, motion) # "AXIS_OK"
      <3>1. UNCHANGED <<ax, pc>>
        BY <1>1, <2>2 DEF Start
      <3> QED
        BY <3>1 DEF Control, Clear, Aligned, Planned, Busy
    <2> QED
      BY <2>1, <2>2
  <1>2. CASE StartWrite
    <2> USE <1>0 DEF Control, Clear, Aligned, Planned, Busy, Starting, StartStep, AxisRecord
    <2>1. CASE Write_moving
      BY <2>1 DEF Write_moving, SetMoving
    <2>2. CASE Write_target
      BY <2>2 DEF Write_target, SetTarget
    <2>3. CASE Write_dir
      BY <2>3 DEF Write_dir, SetDir
    <2>4. CASE Drive_pin
      BY <2>4 DEF Drive_pin, DrivePin
    <2>5. CASE Reset_pwm_timer
      BY <2>5 DEF Reset_pwm_timer, StartPwm
    <2>6. CASE Reset_accel_timer
      BY <2>6 DEF Reset_accel_timer, StartAccel
    <2> QED
      BY <1>2, <2>1, <2>2, <2>3, <2>4, <2>5, <2>6 DEF StartWrite
  <1>3. CASE Stop
    BY <1>0, <1>3 DEF Stop, stop_axis, Control, Clear, Aligned, Planned, Busy, Starting, AxisRecord
  <1>4. CASE Reset
    BY <1>0, <1>4 DEF Reset, reset_axis, stop_axis, Control, Clear, Aligned, Planned, Busy,
       Starting, AxisRecord
  <1>5. CASE EncoderPulse
    BY <1>0, <1>5 DEF EncoderPulse, handle_isr_encoder, Control, Clear, Aligned, Planned, Busy,
       Starting, AxisRecord
  <1>6. CASE StepInterrupt
    BY <1>0, <1>6 DEF StepInterrupt, handle_isr_step, Control, Clear, Aligned, Planned, Busy,
       Starting, AxisRecord
  <1>7. CASE AccelInterrupt
    BY <1>0, <1>7 DEF AccelInterrupt, handle_isr_accel, Accelerate, Hold, Decelerate, stop_axis,
       Control, Clear, Aligned, Planned, Busy, Starting, AxisRecord
  <1>8. CASE HomeEdge
    BY <1>0, <1>8 DEF HomeEdge, handle_isr_ls_home, stop_axis, Control, Clear, Aligned, Planned,
       Busy, Starting, AxisRecord
  <1>9. CASE FarPress
    BY <1>0, <1>9 DEF FarPress, handle_isr_ls_far, stop_axis, Control, Clear, Aligned, Planned,
       Busy, Starting, AxisRecord
  <1>10. CASE FarRelease
    BY <1>10 DEF FarRelease, Control, Clear, Aligned, Planned, Busy
  <1>11. CASE UNCHANGED vars
    BY <1>11 DEF vars, Control, Clear, Aligned, Planned, Busy
  <1> QED
    BY <1>1, <1>2, <1>3, <1>4, <1>5, <1>6, <1>7, <1>8, <1>9, <1>10, <1>11
       DEF Next, MainLoop, Interrupt

(* The encoder goes on telling where the carriage is: while the motor      *)
(* turns, the dir field and the direction pin agree.                       *)
LEMMA TracksStep ==
  ASSUME TypeOK, TypeOK', Control, Aligned, Tracks, [Next]_vars, ~ raced, ~ raced'
  PROVE  Tracks'
  <1>0. /\ ax \in AxisRecord /\ ax' \in AxisRecord
        /\ pos \in 0 .. Length /\ zero \in 0 .. Length /\ pos' \in 0 .. Length
    BY DEF TypeOK
  <1>1. ASSUME NEW motion \in Motions, Start(motion) PROVE Tracks'
    BY <1>0, <1>1 DEF Start, SaveMotion, Tracks, AxisRecord, rail
  <1>2. CASE StartWrite
    BY <1>0, <1>2 DEF StartWrite, Write_moving, Write_target, Write_dir, Drive_pin,
       Reset_pwm_timer, Reset_accel_timer, StartStep, SetMoving, SetTarget, SetDir, DrivePin,
       StartPwm, StartAccel, Tracks, AxisRecord, rail
  <1>3. CASE Stop
    BY <1>0, <1>3 DEF Stop, stop_axis, Tracks, AxisRecord, rail
  <1>4. CASE Reset
    <2>1. ax'.encoder_current = 0 /\ zero' = pos /\ pos' = pos
      BY <1>0, <1>4, StopType DEF Reset, reset_axis, AxisRecord, rail
    <2> QED
      BY <1>0, <2>1, RailAssumption DEF Tracks
  <1>5. CASE EncoderPulse
    <2>1. ax.dir = ax.pin_dir
      BY <1>5 DEF EncoderPulse, Control, Aligned, Busy
    <2>2. /\ pos' = (IF ax.dir = "POSITIVE" THEN pos + 1 ELSE pos - 1)
          /\ zero' = zero
      BY <1>5, <2>1 DEF EncoderPulse, Target
    <2>3. ax'.encoder_current =
            I32(IF ax.dir = "POSITIVE" THEN ax.encoder_current + 1 ELSE ax.encoder_current - 1)
      BY <1>0, <1>5 DEF EncoderPulse, handle_isr_encoder, AxisRecord
    <2>4. (IF ax.dir = "POSITIVE" THEN ax.encoder_current + 1 ELSE ax.encoder_current - 1)
            = pos' - zero
      BY <1>0, <2>2, RailAssumption DEF Tracks
    <2>5. pos' - zero \in SInt
      BY <1>0, RailAssumption, DifferenceFits
    <2> QED
      BY <2>2, <2>3, <2>4, <2>5, I32Identity DEF Tracks
  <1>6. CASE StepInterrupt
    BY <1>0, <1>6 DEF StepInterrupt, handle_isr_step, Tracks, AxisRecord, rail
  <1>7. CASE AccelInterrupt
    BY <1>0, <1>7 DEF AccelInterrupt, handle_isr_accel, Accelerate, Hold, Decelerate, stop_axis,
       Tracks, AxisRecord, rail
  <1>8. CASE HomeEdge
    BY <1>0, <1>8 DEF HomeEdge, handle_isr_ls_home, stop_axis, Tracks, AxisRecord
  <1>9. CASE FarPress
    BY <1>0, <1>9 DEF FarPress, handle_isr_ls_far, stop_axis, Tracks, AxisRecord
  <1>10. CASE FarRelease
    BY <1>10 DEF FarRelease, Tracks
  <1>11. CASE UNCHANGED vars
    BY <1>11 DEF vars, rail, Tracks
  <1> QED
    BY <1>1, <1>2, <1>3, <1>4, <1>5, <1>6, <1>7, <1>8, <1>9, <1>10, <1>11
       DEF Next, MainLoop, Interrupt

(* The velocities stay in range.                                           *)
LEMMA VelocityStep ==
  ASSUME TypeOK, TypeOK', Control, VelocityInRange, [Next]_vars, ~ raced, ~ raced'
  PROVE  VelocityInRange'
  <1>0. /\ ax \in AxisRecord /\ ax' \in AxisRecord
        /\ ax.velocity \in Nat /\ ax.next_velocity \in Nat
        /\ ax.spec.vel_start \in Nat /\ ax.spec.vel_hold \in Nat
    BY Fields, ZeroIsWord DEF TypeOK
  <1>1. ASSUME NEW motion \in Motions, Start(motion) PROVE VelocityInRange'
    <2>1. CASE StartResult(ax, motion) = "AXIS_OK"
      <3>1. ~ ax.moving
        BY <2>1 DEF StartResult, validate_motion
      <3>2. ~ ax'.moving
        BY <1>0, <1>1, <2>1, <3>1 DEF Start, SaveMotion, AxisRecord
      <3> QED
        BY <3>2 DEF VelocityInRange, Launched
    <2>2. CASE StartResult(ax, motion) # "AXIS_OK"
      BY <1>1, <2>2 DEF Start, VelocityInRange, Launched
    <2> QED
      BY <2>1, <2>2
  <1>2. CASE StartWrite
    <2>1. CASE Write_moving
      BY <2>1 DEF Write_moving, StartStep, VelocityInRange, Launched
    <2>2. CASE Write_target
      <3>1. /\ ax'.spec = ax.spec
            /\ ax'.velocity = ax.spec.vel_start /\ ax'.next_velocity = ax.spec.vel_start
        BY <1>0, <2>2 DEF Write_target, StartStep, SetTarget, AxisRecord
      <3> QED
        BY <1>0, <3>1 DEF VelocityInRange, Launched
    <2>3. CASE Write_dir \/ Drive_pin \/ Reset_pwm_timer \/ Reset_accel_timer
      <3>1. /\ pc \notin {"set_target"}
            /\ ax'.spec = ax.spec /\ ax'.moving = ax.moving
            /\ ax'.velocity = ax.velocity /\ ax'.next_velocity = ax.next_velocity
        BY <1>0, <2>3 DEF Write_dir, Drive_pin, Reset_pwm_timer, Reset_accel_timer,
           StartStep, SetDir, DrivePin, StartPwm, StartAccel, AxisRecord
      <3> QED
        BY <3>1 DEF VelocityInRange, Launched
    <2> QED
      BY <1>2, <2>1, <2>2, <2>3 DEF StartWrite
  <1>3. CASE Stop \/ Reset \/ HomeEdge \/ FarPress
    <2>1. ~ ax'.moving
      BY <1>0, <1>3 DEF Stop, Reset, HomeEdge, FarPress, reset_axis, stop_axis,
         handle_isr_ls_home, handle_isr_ls_far, AxisRecord
    <2> QED
      BY <2>1 DEF VelocityInRange, Launched
  <1>4. CASE EncoderPulse
    <2>1. /\ pc' = pc /\ ax'.spec = ax.spec /\ ax'.moving = ax.moving
          /\ ax'.velocity = ax.velocity /\ ax'.next_velocity = ax.next_velocity
      BY <1>0, <1>4 DEF EncoderPulse, handle_isr_encoder, AxisRecord
    <2> QED
      BY <2>1 DEF VelocityInRange, Launched
  <1>5. CASE StepInterrupt
    <2>1. /\ pc' = pc /\ ax'.spec = ax.spec /\ ax'.moving = ax.moving
          /\ ax'.velocity = ax.next_velocity /\ ax'.next_velocity = ax.next_velocity
      BY <1>0, <1>5 DEF StepInterrupt, handle_isr_step, AxisRecord
    <2> QED
      BY <2>1 DEF VelocityInRange, Launched
  <1>6. CASE AccelInterrupt
    <2>1. /\ pc' = pc /\ pc = "idle" /\ ax.moving
          /\ ax' = handle_isr_accel(ax)
      BY <1>6 DEF AccelInterrupt, Control
    <2>2. CASE ~ ax'.moving
      BY <2>2 DEF VelocityInRange, Launched
    <2>3. CASE ax'.moving
      <3>1. /\ ax'.spec = ax.spec /\ ax'.velocity = ax.velocity
            /\ \/ ax'.next_velocity = ax.next_velocity
               \/ /\ ax.next_velocity < ax.spec.vel_hold
                  /\ ax'.next_velocity = ax.next_velocity + 1
               \/ /\ ax.next_velocity > ax.spec.vel_start
                  /\ ax'.next_velocity = ax.next_velocity - 1
        BY <1>0, <2>1, <2>3 DEF handle_isr_accel, Accelerate, Hold, Decelerate, stop_axis,
           AxisRecord
      <3> QED
        BY <1>0, <2>1, <2>3, <3>1 DEF VelocityInRange, Launched
    <2> QED
      BY <2>2, <2>3
  <1>7. CASE FarRelease \/ UNCHANGED vars
    BY <1>7 DEF FarRelease, vars, VelocityInRange, Launched
  <1> QED
    BY <1>1, <1>2, <1>3, <1>4, <1>5, <1>6, <1>7 DEF Next, MainLoop, Interrupt

(* The next target is the present one moved on by the planned length,      *)
(* however far the axis has run past it.                                   *)
LEMMA NextTargetIsPlanned ==
  ASSUME NEW s \in AxisRecord, NEW dist \in SInt, NEW x \in Int, s.encoder_target = I32(x)
  PROVE  NextTarget(s, dist) = I32(x + dist)
  <1> DEFINE cur == s.encoder_current
             tar == s.encoder_target
  <1>1. cur \in Int /\ tar \in Int /\ dist \in Int
    BY Fields, ZeroIsWord
  <1> HIDE DEF cur, tar
  <1>2. I32(tar - cur) \in Int
    <2>1. tar - cur \in Int
      BY <1>1
    <2> QED
      BY <2>1, I32InSInt, ZeroIsWord
  <1>3. NextTarget(s, dist) = I32(I32(tar - cur) + (cur + dist))
    <2>1. NextTarget(s, dist) = I32(cur + dist + I32(tar - cur))
      BY DEF NextTarget, cur, tar
    <2>2. cur + dist + I32(tar - cur) = I32(tar - cur) + (cur + dist)
      BY <1>1, <1>2
    <2> QED
      BY <2>1, <2>2
  <1>4. I32(I32(tar - cur) + (cur + dist)) = I32((tar - cur) + (cur + dist))
    <2>1. tar - cur \in Int /\ cur + dist \in Int
      BY <1>1
    <2> QED
      BY ONLY <2>1, I32Absorb
  <1>5. (tar - cur) + (cur + dist) = tar + dist
    BY <1>1
  <1>6. I32(tar + dist) = I32(x + dist)
    <2>1. tar = I32(x)
      BY DEF tar
    <2> QED
      BY <1>1, <2>1, I32Absorb
  <1> QED
    BY <1>3, <1>4, <1>5, <1>6

(* The targets stay on the plan.                                           *)
LEMMA PlanStep ==
  ASSUME TypeOK, TypeOK', Control, TargetOnPlan, [Next]_vars, ~ raced, ~ raced'
  PROVE  TargetOnPlan'
  <1>0. /\ ax \in AxisRecord /\ ax' \in AxisRecord /\ origin \in Int
        /\ ax.profile.dist_accel \in Int /\ ax.profile.dist_hold \in Int
        /\ ax.profile.dist_decel \in Int
    BY Fields, ZeroIsWord DEF TypeOK
  <1>1. ASSUME NEW motion \in Motions, Start(motion) PROVE TargetOnPlan'
    <2>1. CASE StartResult(ax, motion) = "AXIS_OK"
      <3>1. ~ ax.moving
        BY <2>1 DEF StartResult, validate_motion
      <3>2. ~ ax'.moving
        BY <1>0, <1>1, <2>1, <3>1 DEF Start, SaveMotion, AxisRecord
      <3> QED
        BY <3>2 DEF TargetOnPlan, Launched
    <2>2. CASE StartResult(ax, motion) # "AXIS_OK"
      BY <1>1, <2>2 DEF Start, TargetOnPlan, Launched, PlannedEnd
    <2> QED
      BY <2>1, <2>2
  <1>2. CASE StartWrite
    <2>1. CASE Write_moving
      BY <2>1 DEF Write_moving, StartStep, TargetOnPlan, Launched
    <2>2. CASE Write_target
      <3>1. /\ ax'.profile = ax.profile /\ ax'.velocity_segment = "ACCELERATE"
            /\ ax'.encoder_target = I32(ax.encoder_current + ax.profile.dist_accel)
            /\ origin' = ax.encoder_current
        BY <1>0, <2>2 DEF Write_target, StartStep, SetTarget, AxisRecord
      <3>2. PlannedEnd' = ax.profile.dist_accel
        BY <1>0, <3>1 DEF PlannedEnd
      <3> QED
        BY <3>1, <3>2 DEF TargetOnPlan
    <2>3. CASE Write_dir \/ Drive_pin \/ Reset_pwm_timer \/ Reset_accel_timer
      <3>1. /\ pc \notin {"set_target"} /\ origin' = origin
            /\ ax'.profile = ax.profile /\ ax'.moving = ax.moving
            /\ ax'.velocity_segment = ax.velocity_segment
            /\ ax'.encoder_target = ax.encoder_target
        BY <1>0, <2>3 DEF Write_dir, Drive_pin, Reset_pwm_timer, Reset_accel_timer,
           StartStep, SetDir, DrivePin, StartPwm, StartAccel, AxisRecord
      <3> QED
        BY <3>1 DEF TargetOnPlan, Launched, PlannedEnd
    <2> QED
      BY <1>2, <2>1, <2>2, <2>3 DEF StartWrite
  <1>3. CASE Stop \/ Reset \/ HomeEdge \/ FarPress
    <2>1. ~ ax'.moving
      BY <1>0, <1>3 DEF Stop, Reset, HomeEdge, FarPress, reset_axis, stop_axis,
         handle_isr_ls_home, handle_isr_ls_far, AxisRecord
    <2> QED
      BY <2>1 DEF TargetOnPlan, Launched
  <1>4. CASE EncoderPulse \/ StepInterrupt
    <2>1. /\ pc' = pc /\ origin' = origin
          /\ ax'.profile = ax.profile /\ ax'.moving = ax.moving
          /\ ax'.velocity_segment = ax.velocity_segment
          /\ ax'.encoder_target = ax.encoder_target
      BY <1>0, <1>4 DEF EncoderPulse, handle_isr_encoder, StepInterrupt, handle_isr_step,
         AxisRecord
    <2> QED
      BY <2>1 DEF TargetOnPlan, Launched, PlannedEnd
  <1>5. CASE AccelInterrupt
    <2>1. /\ pc' = pc /\ pc = "idle" /\ ax.moving /\ origin' = origin
          /\ ax' = handle_isr_accel(ax)
          /\ ax.encoder_target = I32(origin + PlannedEnd)
      BY <1>5 DEF AccelInterrupt, Control, TargetOnPlan, Launched
    <2>2. /\ ax'.profile = ax.profile
          /\ \/ ~ ax'.moving
             \/ /\ ax'.velocity_segment = ax.velocity_segment
                /\ ax'.encoder_target = ax.encoder_target
             \/ /\ ax.velocity_segment = "ACCELERATE" /\ ax'.velocity_segment = "HOLD"
                /\ ax'.encoder_target = NextTarget(ax, ax.profile.dist_hold)
             \/ /\ ax.velocity_segment = "HOLD" /\ ax'.velocity_segment = "DECELERATE"
                /\ ax'.encoder_target = NextTarget(ax, ax.profile.dist_decel)
      BY <1>0, <2>1 DEF handle_isr_accel, Accelerate, Hold, Decelerate, stop_axis, AxisRecord
    <2>3. CASE ~ ax'.moving
      BY <2>3 DEF TargetOnPlan, Launched
    <2>4. CASE /\ ax'.velocity_segment = ax.velocity_segment
               /\ ax'.encoder_target = ax.encoder_target
      BY <2>1, <2>2, <2>4 DEF TargetOnPlan, PlannedEnd
    <2>5. CASE /\ ax.velocity_segment = "ACCELERATE" /\ ax'.velocity_segment = "HOLD"
               /\ ax'.encoder_target = NextTarget(ax, ax.profile.dist_hold)
      <3>1. origin + PlannedEnd \in Int /\ ax.profile.dist_hold \in SInt
        BY <1>0, <2>5, Fields DEF PlannedEnd
      <3>2. ax'.encoder_target = I32((origin + PlannedEnd) + ax.profile.dist_hold)
        BY <1>0, <2>1, <2>5, <3>1, NextTargetIsPlanned
      <3>3. (origin + PlannedEnd) + ax.profile.dist_hold = origin' + PlannedEnd'
        BY <1>0, <2>1, <2>2, <2>5 DEF PlannedEnd
      <3> QED
        BY <3>2, <3>3 DEF TargetOnPlan
    <2>6. CASE /\ ax.velocity_segment = "HOLD" /\ ax'.velocity_segment = "DECELERATE"
               /\ ax'.encoder_target = NextTarget(ax, ax.profile.dist_decel)
      <3>1. origin + PlannedEnd \in Int /\ ax.profile.dist_decel \in SInt
        BY <1>0, <2>6, Fields DEF PlannedEnd
      <3>2. ax'.encoder_target = I32((origin + PlannedEnd) + ax.profile.dist_decel)
        BY <1>0, <2>1, <2>6, <3>1, NextTargetIsPlanned
      <3>3. (origin + PlannedEnd) + ax.profile.dist_decel = origin' + PlannedEnd'
        BY <1>0, <2>1, <2>2, <2>6 DEF PlannedEnd
      <3> QED
        BY <3>2, <3>3 DEF TargetOnPlan
    <2> QED
      BY <2>2, <2>3, <2>4, <2>5, <2>6
  <1>6. CASE FarRelease \/ UNCHANGED vars
    BY <1>6 DEF FarRelease, vars, TargetOnPlan, Launched, PlannedEnd
  <1> QED
    BY <1>1, <1>2, <1>3, <1>4, <1>5, <1>6 DEF Next, MainLoop, Interrupt

-----------------------------------------------------------------------------
(* The invariant holds, and the properties follow from it.                 *)

LEMMA RacedStays == [Next]_vars /\ raced => raced'
  <1> SUFFICES ASSUME [Next]_vars, raced PROVE raced'
    OBVIOUS
  <1>1. CASE \E motion \in Motions : Start(motion)
    BY <1>1 DEF Start
  <1>2. CASE StartWrite \/ Stop \/ Reset
    BY <1>2 DEF StartWrite, Write_moving, Write_target, Write_dir, Drive_pin,
       Reset_pwm_timer, Reset_accel_timer, StartStep, Stop, Reset
  <1>3. CASE Interrupt \/ FarRelease \/ UNCHANGED vars
    BY <1>3 DEF Interrupt, EncoderPulse, StepInterrupt, AccelInterrupt, HomeEdge, FarPress,
       FarRelease, vars
  <1> QED
    BY <1>1, <1>2, <1>3 DEF Next, MainLoop

(* The inductive invariant holds in every reachable state.                 *)
THEOREM Invariance == Spec => []IInv
  <1>1. Init => Control /\ Clear /\ Aligned /\ Tracks /\ Planned /\ VelocityInRange /\ TargetOnPlan
    BY RailAssumption DEF Init, setup_axis, Control, Clear, Aligned, Tracks, Planned, Busy,
       VelocityInRange, TargetOnPlan, Launched, Starting
  <1>2. TypeOK /\ TypeOK' /\ IInv /\ [Next]_vars => IInv'
    <2> SUFFICES ASSUME TypeOK, TypeOK', IInv, [Next]_vars PROVE IInv'
      OBVIOUS
    <2>1. raced => raced'
      BY RacedStays
    <2>2. CASE raced'
      BY <2>2 DEF IInv, VelocityInRange, TargetOnPlan, Launched
    <2>3. CASE ~ raced'
      <3>1. ~ raced
        BY <2>1, <2>3
      <3>2. Control /\ Clear /\ Aligned /\ Tracks /\ Planned /\ VelocityInRange /\ TargetOnPlan
        BY <3>1 DEF IInv
      <3>3. Control' /\ Clear' /\ Aligned' /\ Planned'
        BY <2>3, <3>1, <3>2, ControlStep
      <3>4. Tracks'
        BY <2>3, <3>1, <3>2, TracksStep
      <3>5. VelocityInRange'
        BY <2>3, <3>1, <3>2, VelocityStep
      <3>6. TargetOnPlan'
        BY <2>3, <3>1, <3>2, PlanStep
      <3> QED
        BY <3>3, <3>4, <3>5, <3>6 DEF IInv
    <2> QED
      BY <2>2, <2>3
  <1>3. Init /\ TypeOK => IInv
    BY <1>1 DEF IInv
  <1> QED
    BY <1>2, <1>3, TypeCorrect, PTL DEF Spec

(* Outside start_axis the moving flag and both timers agree.               *)
THEOREM MovingDrives == Spec => []MovingMeansDriven
  <1>1. IInv => MovingMeansDriven
    BY DEF IInv, Control, MovingMeansDriven, TypeOK, AxisRecord
  <1> QED
    BY <1>1, Invariance, PTL

(* The motor never runs towards a switch recorded as pressed.              *)
THEOREM SwitchSafety == Spec => []NeverIntoPressedSwitch
  <1>1. IInv => NeverIntoPressedSwitch
    BY DEF IInv, Control, Clear, Aligned, Busy, NeverIntoPressedSwitch
  <1> QED
    BY <1>1, Invariance, PTL

(* The encoder count is the position of the carriage.                      *)
THEOREM EncoderIsPosition == Spec => []EncoderTracksCarriage
  <1>1. IInv => EncoderTracksCarriage
    BY DEF IInv, Tracks, EncoderTracksCarriage
  <1> QED
    BY <1>1, Invariance, PTL

(* The velocity stays between its limits.                                  *)
THEOREM VelocityBounded == Spec => []VelocityInRange
  <1>1. IInv => VelocityInRange
    BY DEF IInv
  <1> QED
    BY <1>1, Invariance, PTL

(* No overshoot accumulates in the targets.                                *)
THEOREM TargetsOnPlan == Spec => []TargetOnPlan
  <1>1. IInv => TargetOnPlan
    BY DEF IInv
  <1> QED
    BY <1>1, Invariance, PTL

(* A motion keeps to its plan.                                             *)
THEOREM KeepsToPlan == Spec => []MotionOnPlan
  <1>1. VelocityInRange /\ TargetOnPlan => MotionOnPlan
    BY DEF MotionOnPlan
  <1> QED
    BY <1>1, VelocityBounded, TargetsOnPlan, PTL

LEMMA AllCovered ==
  ASSUME IInv, AccelInterrupt, ~ raced, ax.moving, ~ ax'.moving, EndOfMotion \in SInt
  PROVE  (ax.encoder_current - origin) * sign >= ax.spec.total_counts
  <1>1. /\ ax \in AxisRecord /\ origin \in Int
        /\ ax.encoder_current \in Int /\ ax.spec \in AxisMotionSpec
        /\ ax.profile.dist_accel \in Int /\ ax.profile.dist_hold \in Int
        /\ ax.profile.dist_decel \in Int
    BY Fields, ZeroIsWord DEF IInv, TypeOK
  <1>2. ax' = handle_isr_accel(ax) /\ pc = "idle"
    BY DEF AccelInterrupt, IInv, Control
  <1>3. ax.velocity_segment = "DECELERATE" /\ ReachedTarget(ax)
    BY <1>1, <1>2 DEF handle_isr_accel, Accelerate, Hold, Decelerate, AxisRecord, Segments
  <1>4. ax.encoder_target
          = I32(origin + (ax.profile.dist_accel + ax.profile.dist_hold + ax.profile.dist_decel))
    BY <1>1, <1>2, <1>3 DEF IInv, TargetOnPlan, Launched, PlannedEnd
  <1>5. /\ Counts(ax.spec.accel) \in UInt /\ Counts(ax.spec.vel_start) \in UInt
        /\ Counts(ax.spec.vel_hold) \in UInt /\ ax.spec.total_counts \in UInt
    BY <1>1, CountsType DEF AxisMotionSpec
  <1>6. ax.profile = generate_vel_profile(ax.spec.dir = "NEGATIVE", Counts(ax.spec.accel),
                       Counts(ax.spec.vel_start), Counts(ax.spec.vel_hold),
                       ax.spec.total_counts)
    BY DEF IInv, Planned, Busy, ProfileOf
  <1>7. ax.encoder_target
          = I32(origin + dir_sign(ax.spec.dir = "NEGATIVE") * ax.spec.total_counts)
    BY ONLY <1>1, <1>4, <1>5, <1>6, ProfileEnd
  <1>8. dir_sign(ax.spec.dir = "NEGATIVE") = sign
    BY <1>1 DEF dir_sign, sign, AxisMotionSpec, Directions
  <1>9. ax.encoder_target = EndOfMotion
    BY <1>7, <1>8, I32Identity DEF EndOfMotion
  <1>10. ax.dir = ax.spec.dir
    BY <1>2 DEF IInv, Aligned, Busy
  <1>11. ax.spec.total_counts \in Int
    <2>1. ax.spec.total_counts \in UInt
      BY <1>5
    <2>2. ax.spec.total_counts \in Nat
      BY ONLY <2>1, ZeroIsWord
    <2> QED
      BY ONLY <2>2
  <1>12. CASE ax.spec.dir = "POSITIVE"
    <2>1. ax.encoder_current >= origin + ax.spec.total_counts
      BY <1>1, <1>3, <1>9, <1>10, <1>11, <1>12 DEF ReachedTarget, EndOfMotion, sign
    <2> QED
      BY <1>1, <1>11, <1>12, <2>1 DEF sign
  <1>13. CASE ax.spec.dir = "NEGATIVE"
    <2>1. ax.encoder_current <= origin - ax.spec.total_counts
      BY <1>1, <1>3, <1>9, <1>10, <1>11, <1>13 DEF ReachedTarget, EndOfMotion, sign
    <2> QED
      BY <1>1, <1>11, <1>13, <2>1 DEF sign
  <1> QED
    BY <1>1, <1>12, <1>13 DEF AxisMotionSpec, Directions

(* The acceleration timer ends a motion only at its full distance.         *)
THEOREM FullDistanceCovered == Spec => FullDistance
  <1>1. IInv /\ [Next]_vars =>
          [ AccelInterrupt /\ ~ raced /\ ax.moving /\ ~ ax'.moving /\ EndOfMotion \in SInt
              => (ax.encoder_current - origin) * sign >= ax.spec.total_counts ]_vars
    BY AllCovered
  <1> QED
    BY <1>1, Invariance, PTL DEF Spec, FullDistance

-----------------------------------------------------------------------------
(* The axis implements its contract.                                       *)

(* A launched motion began on the rail.                                    *)
OnRail == Launched => origin + zero \in 0 .. Length

LEMMA OnRailStep ==
  ASSUME TypeOK, TypeOK', IInv, OnRail, [Next]_vars
  PROVE  OnRail'
  <1> SUFFICES ASSUME Launched' PROVE OnRail'
    BY DEF OnRail
  <1>0. /\ ax \in AxisRecord /\ ax' \in AxisRecord
        /\ pos \in 0 .. Length /\ zero \in 0 .. Length /\ origin \in Int
    BY ZeroIsWord DEF TypeOK
  <1>1. ~ raced' /\ ax'.moving /\ pc' # "set_target"
    BY DEF Launched
  <1>2. ASSUME Launched, UNCHANGED <<zero, origin>> PROVE OnRail'
    BY <1>2 DEF OnRail
  <1>3. ASSUME NEW motion \in Motions, Start(motion) PROVE OnRail'
    BY <1>0, <1>1, <1>2, <1>3 DEF Start, SaveMotion, AxisRecord, Launched
  <1>4. CASE Write_moving
    BY <1>1, <1>4 DEF Write_moving, StartStep
  <1>5. CASE Write_target
    <2>1. origin' = ax.encoder_current /\ zero' = zero /\ ~ raced
      BY <1>1, <1>5 DEF Write_target, StartStep
    <2>2. ax.encoder_current = pos - zero
      BY <2>1 DEF IInv, Tracks
    <2>3. origin' + zero' = pos
      BY <1>0, <2>1, <2>2
    <2> QED
      BY <1>0, <2>3 DEF OnRail
  <1>6. CASE Write_dir \/ Drive_pin \/ Reset_pwm_timer \/ Reset_accel_timer
    <2>1. UNCHANGED <<zero, origin, raced>> /\ pc # "set_target" /\ pc \in Starting \ {"set_moving"}
      BY <1>6 DEF Write_dir, Drive_pin, Reset_pwm_timer, Reset_accel_timer, StartStep, Starting
    <2>2. ax.moving
      BY <1>1, <2>1 DEF IInv, Control
    <2> QED
      BY <1>1, <1>2, <2>1, <2>2 DEF Launched
  <1>7. CASE Stop \/ Reset
    BY <1>0, <1>1, <1>7 DEF Stop, Reset, stop_axis, reset_axis, AxisRecord
  <1>8. CASE HomeEdge \/ FarPress
    BY <1>0, <1>1, <1>8 DEF HomeEdge, FarPress, handle_isr_ls_home, handle_isr_ls_far, stop_axis,
       AxisRecord
  <1>9. CASE EncoderPulse \/ StepInterrupt \/ AccelInterrupt
    <2>1. UNCHANGED <<pc, zero, origin, raced>>
      BY <1>9 DEF EncoderPulse, StepInterrupt, AccelInterrupt
    <2>2. ax.moving
      BY <1>0, <1>1, <1>9 DEF EncoderPulse, StepInterrupt, AccelInterrupt, handle_isr_encoder,
         handle_isr_step, handle_isr_accel, AxisRecord
    <2> QED
      BY <1>1, <1>2, <2>1, <2>2 DEF Launched
  <1>10. CASE FarRelease
    BY <1>1, <1>2, <1>10 DEF FarRelease, Launched
  <1>11. CASE UNCHANGED vars
    BY <1>1, <1>2, <1>11 DEF vars, Launched
  <1> QED
    BY <1>3, <1>4, <1>5, <1>6, <1>7, <1>8, <1>9, <1>10, <1>11
       DEF Next, MainLoop, StartWrite, Interrupt

(* The axis that runs out of its distance is one whose distance the rail   *)
(* holds.                                                                  *)
LEMMA EndsWithinRail ==
  ASSUME IInv, OnRail, ~ raced, ax.pwm_on, ax.moving, pc # "set_target",
         EndOfMotion \in SInt => (ax.encoder_current - origin) * sign >= ax.spec.total_counts
  PROVE  ~ Endless
  <1>1. /\ pos \in 0 .. Length /\ zero \in 0 .. Length /\ origin \in Int
        /\ ax \in AxisRecord
    BY ZeroIsWord DEF IInv, TypeOK
  <1>2. origin + zero \in 0 .. Length /\ ax.encoder_current = pos - zero
    BY DEF OnRail, Launched, IInv, Tracks
  <1>3. sign \in {1, -1}
    BY DEF sign
  <1>4. ax.spec.total_counts \in Int
    <2>1. ax.spec.total_counts \in UInt
      BY <1>1 DEF AxisRecord, AxisMotionSpec
    <2>2. ax.spec.total_counts \in Nat
      BY ONLY <2>1, ZeroIsWord
    <2> QED
      BY ONLY <2>2
  <1>5. (ax.encoder_current - origin) * sign <= Length
    <2>1. /\ ax.encoder_current \in Int /\ Length \in Nat
          /\ ax.encoder_current - origin <= Length /\ ax.encoder_current - origin >= - Length
      <3>1. Length \in Nat
        BY RailAssumption
      <3>2. /\ ax.encoder_current \in Int
            /\ ax.encoder_current - origin = pos - (origin + zero)
        BY <1>1, <1>2, <3>1
      <3> QED
        BY <1>1, <1>2, <3>1, <3>2
    <2>2. CASE sign = 1
      BY <1>1, <2>1, <2>2
    <2>3. CASE sign = -1
      BY <1>1, <2>1, <2>3
    <2> QED
      BY <1>3, <2>2, <2>3
  <1> DEFINE covered == (ax.encoder_current - origin) * sign
  <1>6. covered \in Int
    BY <1>1, <1>2, <1>3
  <1>7. covered <= Length /\ (EndOfMotion \in SInt => covered >= ax.spec.total_counts)
    BY <1>5
  <1> HIDE DEF covered
  <1> QED
    BY <1>4, <1>6, <1>7, RailAssumption DEF Endless

LEMMA AbstractInit == Init => Abstract!Init
  <1> SUFFICES ASSUME Init PROVE Abstract!Init
    OBVIOUS
  <1>1. pos \in BootPositions /\ zero = pos
    BY DEF Init
  <1>2. ~ ax.pwm_on /\ ~ ax.ls_home_pressed /\ ~ ax.ls_far_pressed
    BY DEF Init, setup_axis
  <1>3. home_pin = Abstract!HomePressed(pos) /\ far_pin = Abstract!FarPressed(pos)
    BY DEF Init, HomePressed, FarPressed, Abstract!HomePressed, Abstract!FarPressed
  <1>4. view = Abstract!AtBoot(pos)
    BY <1>1, <1>2, <1>3 DEF view, Abstract!AtBoot, Init, setup_axis
  <1> QED
    BY <1>1, <1>4 DEF Abstract!Init

(* The view, field by field.                                               *)
Seen(drive, endless, home, far, p, z, home_level, far_level) ==
  [ drive |-> drive, endless |-> endless, ls_home_pressed |-> home, ls_far_pressed |-> far,
    pos |-> p, zero |-> z, home_pin |-> home_level, far_pin |-> far_level ]

(* The view as Seen has it, before and after a step.                       *)
LEMMA ViewSeen ==
  /\ view = Seen(IF ax.pwm_on THEN ax.pin_dir ELSE "none", ax.pwm_on /\ Endless,
                 ax.ls_home_pressed, ax.ls_far_pressed, pos, zero, home_pin, far_pin)
  /\ view' = Seen(IF ax'.pwm_on THEN ax'.pin_dir ELSE "none", ax'.pwm_on /\ Endless',
                  ax'.ls_home_pressed, ax'.ls_far_pressed, pos', zero', home_pin', far_pin')
  BY Zenon DEF view, Seen

LEMMA SeenAtRest ==
  ASSUME ~ ax'.pwm_on
  PROVE  view' = Seen("none", FALSE, ax'.ls_home_pressed, ax'.ls_far_pressed,
                      pos', zero', home_pin', far_pin')
  <1>1. (ax'.pwm_on /\ Endless') = FALSE
    OBVIOUS
  <1>2. (IF ax'.pwm_on THEN ax'.pin_dir ELSE "none") = "none"
    OBVIOUS
  <1> QED
    BY <1>1, <1>2, ViewSeen, Zenon

LEMMA ViewChanges ==
  /\ Abstract!Halted(view) = Seen("none", FALSE, ax.ls_home_pressed, ax.ls_far_pressed,
                                  pos, zero, home_pin, far_pin)
  /\ Abstract!ResetTo(view) = Seen("none", FALSE, ax.ls_home_pressed, ax.ls_far_pressed,
                                   pos, pos, home_pin, far_pin)
  /\ \A dir, endless :
       Abstract!Started(view, dir, endless)
         = Seen(dir, endless, ax.ls_home_pressed, ax.ls_far_pressed, pos, zero, home_pin, far_pin)
  /\ Abstract!HomeHandled(view)
       = Seen("none", FALSE, Abstract!HomePressed(pos), ax.ls_far_pressed, pos, zero,
              Abstract!HomePressed(pos), far_pin)
  /\ Abstract!FarHandled(view)
       = Seen("none", FALSE, ax.ls_home_pressed, TRUE, pos, zero, home_pin, TRUE)
  /\ Abstract!FarOpened(view)
       = Seen(IF ax.pwm_on THEN ax.pin_dir ELSE "none", ax.pwm_on /\ Endless,
              ax.ls_home_pressed, ax.ls_far_pressed, pos, zero, home_pin, FALSE)
  <1>1. PICK d, e, h, f, p, z, hl, fl :
          /\ d = (IF ax.pwm_on THEN ax.pin_dir ELSE "none")
          /\ e = (ax.pwm_on /\ Endless)
          /\ h = ax.ls_home_pressed /\ f = ax.ls_far_pressed
          /\ p = pos /\ z = zero /\ hl = home_pin /\ fl = far_pin
    BY Zenon
  <1>2. view = Seen(d, e, h, f, p, z, hl, fl)
    BY <1>1, ViewSeen, Zenon
  <1>3. ASSUME NEW dir, NEW endless
        PROVE  [Seen(d, e, h, f, p, z, hl, fl) EXCEPT !.drive = dir, !.endless = endless]
                 = Seen(dir, endless, h, f, p, z, hl, fl)
    <2>1. [Seen(d, e, h, f, p, z, hl, fl) EXCEPT !.drive = dir] = Seen(dir, e, h, f, p, z, hl, fl)
      BY SMT DEF Seen
    <2>2. [Seen(dir, e, h, f, p, z, hl, fl) EXCEPT !.endless = endless]
            = Seen(dir, endless, h, f, p, z, hl, fl)
      BY SMT DEF Seen
    <2>3. [[Seen(d, e, h, f, p, z, hl, fl) EXCEPT !.drive = dir] EXCEPT !.endless = endless]
            = [Seen(dir, e, h, f, p, z, hl, fl) EXCEPT !.endless = endless]
      BY ONLY <2>1
    <2>4. [Seen(d, e, h, f, p, z, hl, fl) EXCEPT !.drive = dir, !.endless = endless]
            = [[Seen(d, e, h, f, p, z, hl, fl) EXCEPT !.drive = dir] EXCEPT !.endless = endless]
      BY ONLY SMT
    <2> QED
      BY ONLY <2>2, <2>3, <2>4
  <1>4. Abstract!Halted(Seen(d, e, h, f, p, z, hl, fl)) = Seen("none", FALSE, h, f, p, z, hl, fl)
    BY <1>3, Zenon DEF Abstract!Halted
  <1>5. \A dir, endless : Abstract!Started(Seen(d, e, h, f, p, z, hl, fl), dir, endless)
                            = Seen(dir, endless, h, f, p, z, hl, fl)
    BY <1>3, Zenon DEF Abstract!Started
  <1>6. Seen(d, e, h, f, p, z, hl, fl).pos = p
    BY DEF Seen
  <1>7. ASSUME NEW off
        PROVE  [Seen("none", off, h, f, p, z, hl, fl) EXCEPT !.zero = p]
                 = Seen("none", off, h, f, p, p, hl, fl)
    BY SMT DEF Seen
  <1>8. Abstract!ResetTo(Seen(d, e, h, f, p, z, hl, fl)) = Seen("none", FALSE, h, f, p, p, hl, fl)
    BY <1>4, <1>6, <1>7, Zenon DEF Abstract!ResetTo
  <1>9. ASSUME NEW off, NEW level
        PROVE  [Seen("none", off, h, f, p, z, hl, fl)
                  EXCEPT !.home_pin = level, !.ls_home_pressed = level]
                 = Seen("none", off, level, f, p, z, level, fl)
    <2>1. [Seen("none", off, h, f, p, z, hl, fl) EXCEPT !.home_pin = level]
            = Seen("none", off, h, f, p, z, level, fl)
      BY SMT DEF Seen
    <2>2. [Seen("none", off, h, f, p, z, level, fl) EXCEPT !.ls_home_pressed = level]
            = Seen("none", off, level, f, p, z, level, fl)
      BY SMT DEF Seen
    <2>3. [[Seen("none", off, h, f, p, z, hl, fl) EXCEPT !.home_pin = level]
             EXCEPT !.ls_home_pressed = level]
            = [Seen("none", off, h, f, p, z, level, fl) EXCEPT !.ls_home_pressed = level]
      BY ONLY <2>1
    <2>4. [Seen("none", off, h, f, p, z, hl, fl)
             EXCEPT !.home_pin = level, !.ls_home_pressed = level]
            = [[Seen("none", off, h, f, p, z, hl, fl) EXCEPT !.home_pin = level]
                 EXCEPT !.ls_home_pressed = level]
      BY ONLY SMT
    <2> QED
      BY ONLY <2>2, <2>3, <2>4
  <1>10. Abstract!HomeHandled(Seen(d, e, h, f, p, z, hl, fl))
          = Seen("none", FALSE, Abstract!HomePressed(p), f, p, z, Abstract!HomePressed(p), fl)
    BY <1>4, <1>6, <1>9, Zenon DEF Abstract!HomeHandled
  <1>11. ASSUME NEW off, NEW level
        PROVE  [Seen("none", off, h, f, p, z, hl, fl)
                  EXCEPT !.far_pin = level, !.ls_far_pressed = level]
                 = Seen("none", off, h, level, p, z, hl, level)
    <2>1. [Seen("none", off, h, f, p, z, hl, fl) EXCEPT !.far_pin = level]
            = Seen("none", off, h, f, p, z, hl, level)
      BY SMT DEF Seen
    <2>2. [Seen("none", off, h, f, p, z, hl, level) EXCEPT !.ls_far_pressed = level]
            = Seen("none", off, h, level, p, z, hl, level)
      BY SMT DEF Seen
    <2>3. [[Seen("none", off, h, f, p, z, hl, fl) EXCEPT !.far_pin = level]
             EXCEPT !.ls_far_pressed = level]
            = [Seen("none", off, h, f, p, z, hl, level) EXCEPT !.ls_far_pressed = level]
      BY ONLY <2>1
    <2>4. [Seen("none", off, h, f, p, z, hl, fl)
             EXCEPT !.far_pin = level, !.ls_far_pressed = level]
            = [[Seen("none", off, h, f, p, z, hl, fl) EXCEPT !.far_pin = level]
                 EXCEPT !.ls_far_pressed = level]
      BY ONLY SMT
    <2> QED
      BY ONLY <2>2, <2>3, <2>4
  <1>12. Abstract!FarHandled(Seen(d, e, h, f, p, z, hl, fl))
           = Seen("none", FALSE, h, TRUE, p, z, hl, TRUE)
    BY <1>4, <1>11, Zenon DEF Abstract!FarHandled
  <1>13. ASSUME NEW level
         PROVE  [Seen(d, e, h, f, p, z, hl, fl) EXCEPT !.far_pin = level]
                  = Seen(d, e, h, f, p, z, hl, level)
    BY SMT DEF Seen
  <1>14. Abstract!FarOpened(Seen(d, e, h, f, p, z, hl, fl)) = Seen(d, e, h, f, p, z, hl, FALSE)
    BY <1>13, Zenon DEF Abstract!FarOpened
  <1>15. /\ Abstract!Halted(view) = Seen("none", FALSE, h, f, p, z, hl, fl)
         /\ Abstract!ResetTo(view) = Seen("none", FALSE, h, f, p, p, hl, fl)
    BY <1>2, <1>4, <1>8, Zenon
  <1>16. \A dir, endless :
           Abstract!Started(view, dir, endless) = Seen(dir, endless, h, f, p, z, hl, fl)
    BY <1>2, <1>5, Zenon
  <1>17. /\ Abstract!HomeHandled(view)
              = Seen("none", FALSE, Abstract!HomePressed(p), f, p, z, Abstract!HomePressed(p), fl)
         /\ Abstract!FarHandled(view) = Seen("none", FALSE, h, TRUE, p, z, hl, TRUE)
         /\ Abstract!FarOpened(view) = Seen(d, e, h, f, p, z, hl, FALSE)
    BY <1>2, <1>10, <1>12, <1>14, Zenon
  <1> QED
    BY ONLY <1>1, <1>15, <1>16, <1>17, Zenon

LEMMA AbstractStep ==
  ASSUME IInv, OnRail, ~ raced, ~ raced'
  PROVE  /\ Starts => [Abstract!Start]_view
         /\ Stop => [Abstract!Stop]_view
         /\ Reset => [Abstract!Reset]_view
         /\ Interrupt \/ FarRelease => [Abstract!Event]_view
  <1>0. /\ ax \in AxisRecord /\ pos \in 0 .. Length
        /\ Control /\ Clear /\ Aligned
    BY DEF IInv, TypeOK
  <1>1. ASSUME ~ ax.pwm_on, ~ ax'.pwm_on,
               ax'.ls_home_pressed = ax.ls_home_pressed, ax'.ls_far_pressed = ax.ls_far_pressed,
               UNCHANGED <<rail, zero>>
        PROVE  UNCHANGED view
    BY <1>1 DEF view, rail
  <1>2. ASSUME ax'.pwm_on = ax.pwm_on, ax'.pin_dir = ax.pin_dir, ax'.spec = ax.spec,
               ax'.ls_home_pressed = ax.ls_home_pressed, ax'.ls_far_pressed = ax.ls_far_pressed,
               UNCHANGED <<rail, zero, origin>>
        PROVE  UNCHANGED view
    BY <1>2 DEF view, rail, Endless, EndOfMotion, sign
  <1>3. ASSUME ~ ax'.pwm_on,
               ax'.ls_home_pressed = ax.ls_home_pressed, ax'.ls_far_pressed = ax.ls_far_pressed,
               UNCHANGED rail
        PROVE  /\ zero' = zero => view' = Abstract!Halted(view)
               /\ zero' = pos => view' = Abstract!ResetTo(view)
    <2>1. view' = Seen("none", FALSE, ax.ls_home_pressed, ax.ls_far_pressed,
                       pos, zero', home_pin, far_pin)
      BY <1>3, SeenAtRest, Zenon DEF rail
    <2> QED
      BY <2>1, ViewChanges, Zenon
  <1>4. ASSUME NEW motion \in Motions, Start(motion) PROVE [Abstract!Start]_view
    <2>1. /\ UNCHANGED <<rail, zero>> /\ ax'.pwm_on = ax.pwm_on
          /\ ax'.ls_home_pressed = ax.ls_home_pressed /\ ax'.ls_far_pressed = ax.ls_far_pressed
      BY <1>0, <1>4 DEF Start, SaveMotion, AxisRecord
    <2>2. CASE StartResult(ax, motion) = "AXIS_OK"
      <3>1. ~ ax.moving
        BY <2>2 DEF StartResult, validate_motion
      <3>2. ~ ax.pwm_on
        BY <1>0, <3>1 DEF Control
      <3> QED
        BY <1>1, <2>1, <3>2
    <2>3. CASE StartResult(ax, motion) # "AXIS_OK"
      BY <1>2, <1>4, <2>3 DEF Start
    <2> QED
      BY <2>2, <2>3
  <1>5. ASSUME Write_moving \/ Write_target \/ Write_dir \/ Drive_pin PROVE [Abstract!Start]_view
    <2>1. /\ pc \notin {"idle", "start_accel"} /\ UNCHANGED <<rail, zero>>
          /\ ax'.pwm_on = ax.pwm_on
          /\ ax'.ls_home_pressed = ax.ls_home_pressed /\ ax'.ls_far_pressed = ax.ls_far_pressed
      BY <1>0, <1>5 DEF Write_moving, Write_target, Write_dir, Drive_pin, StartStep, SetMoving,
         SetTarget, SetDir, DrivePin, AxisRecord
    <2> QED
      BY <1>0, <1>1, <2>1 DEF Control
  <1>6. ASSUME Reset_pwm_timer PROVE [Abstract!Start]_view
    <2>1. /\ pc = "start_pwm" /\ UNCHANGED <<rail, zero, origin>> /\ ax'.pwm_on
          /\ ax'.pin_dir = ax.pin_dir /\ ax'.spec = ax.spec
          /\ ax'.ls_home_pressed = ax.ls_home_pressed /\ ax'.ls_far_pressed = ax.ls_far_pressed
      BY <1>0, <1>6 DEF Reset_pwm_timer, StartStep, StartPwm, AxisRecord
    <2>2. /\ ~ ax.pwm_on /\ ax.pin_dir = ax.spec.dir /\ ax.pin_dir \in {"POSITIVE", "NEGATIVE"}
          /\ ax.pin_dir = "NEGATIVE" => ~ ax.ls_home_pressed
          /\ ax.pin_dir = "POSITIVE" => ~ ax.ls_far_pressed
      BY <1>0, <2>1 DEF Control, Clear, Aligned, Busy, AxisRecord, Directions
    <2>3. Abstract!Accepts(view, ax.pin_dir)
      BY <2>2 DEF view, Abstract!Accepts, Abstract!Moving
    <2>4. PICK endless \in BOOLEAN : endless = Endless'
      BY DEF Endless
    <2>5. view' = Abstract!Started(view, ax.pin_dir, endless)
      <3>1. (ax'.pwm_on /\ Endless') = endless
        BY <2>1, <2>4, Zenon
      <3>2. (IF ax'.pwm_on THEN ax'.pin_dir ELSE "none") = ax.pin_dir
        BY <2>1, Zenon
      <3>3. view' = Seen(ax.pin_dir, endless, ax.ls_home_pressed, ax.ls_far_pressed,
                         pos, zero, home_pin, far_pin)
        BY <2>1, <3>1, <3>2, ViewSeen, Zenon DEF rail
      <3> QED
        BY <3>3, ViewChanges, Zenon
    <2> QED
      BY <2>2, <2>3, <2>5 DEF Abstract!Start
  <1>7. ASSUME Reset_accel_timer PROVE [Abstract!Start]_view
    BY <1>0, <1>2, <1>7 DEF Reset_accel_timer, StartStep, StartAccel, AxisRecord
  <1>8. ASSUME Stop PROVE [Abstract!Stop]_view
    <2>1. view' = Abstract!Halted(view)
      BY <1>0, <1>3, <1>8 DEF Stop, stop_axis, AxisRecord
    <2> QED
      BY <2>1 DEF Abstract!Stop
  <1>9. ASSUME Reset PROVE [Abstract!Reset]_view
    <2>1. view' = Abstract!ResetTo(view)
      BY <1>0, <1>3, <1>9 DEF Reset, reset_axis, stop_axis, AxisRecord
    <2> QED
      BY <2>1 DEF Abstract!Reset
  <1>10. ASSUME EncoderPulse PROVE [Abstract!Event]_view
    <2>1. /\ ax.pwm_on /\ Target(pos) \in 0 .. Length /\ pos' = Target(pos)
          /\ UNCHANGED <<home_pin, far_pin, zero, origin>>
      BY <1>10 DEF EncoderPulse
    <2>2. /\ ax'.pwm_on = ax.pwm_on /\ ax'.pin_dir = ax.pin_dir /\ ax'.spec = ax.spec
          /\ ax'.ls_home_pressed = ax.ls_home_pressed /\ ax'.ls_far_pressed = ax.ls_far_pressed
      BY <1>0, <1>10 DEF EncoderPulse, handle_isr_encoder, AxisRecord
    <2>3. Endless' = Endless
      BY <2>1, <2>2 DEF Endless, EndOfMotion, sign
    <2>4. Abstract!NextPos(view) = Target(pos) /\ Abstract!Moving(view)
      BY <1>0, <2>1 DEF view, Abstract!NextPos, Abstract!Moving, Target, AxisRecord, Directions
    <2>5. view' = Abstract!Advanced(view)
      BY <2>1, <2>2, <2>3, <2>4 DEF view, Abstract!Advanced
    <2> QED
      BY <2>1, <2>4, <2>5 DEF Abstract!Event, Abstract!Advance, Abstract!CanAdvance
  <1>11. ASSUME StepInterrupt PROVE [Abstract!Event]_view
    BY <1>0, <1>2, <1>11 DEF StepInterrupt, handle_isr_step, AxisRecord
  <1>12. ASSUME AccelInterrupt PROVE [Abstract!Event]_view
    <2>1. ax' = handle_isr_accel(ax) /\ UNCHANGED <<rail, zero, origin>> /\ ax.pwm_on /\ ax.moving
          /\ pc = "idle"
      BY <1>0, <1>12 DEF AccelInterrupt, Control
    <2>2. /\ ax'.ls_home_pressed = ax.ls_home_pressed /\ ax'.ls_far_pressed = ax.ls_far_pressed
          /\ ax'.spec = ax.spec /\ ax'.pin_dir = ax.pin_dir
          /\ ax'.pwm_on = ax'.moving
      BY <1>0, <2>1 DEF handle_isr_accel, Accelerate, Hold, Decelerate, stop_axis, AxisRecord
    <2>3. CASE ax'.moving
      BY <1>2, <2>1, <2>2, <2>3
    <2>4. CASE ~ ax'.moving
      <3>1. ~ Endless
        BY <1>12, <2>1, <2>4, AllCovered, EndsWithinRail
      <3>2. Abstract!CanFinish(view)
        BY <1>0, <2>1, <3>1 DEF view, Abstract!CanFinish, Abstract!Moving, AxisRecord, Directions
      <3>3. view' = Abstract!Halted(view)
        BY <1>3, <2>1, <2>2, <2>4
      <3> QED
        BY <3>2, <3>3 DEF Abstract!Event, Abstract!Finish
    <2> QED
      BY <2>3, <2>4
  <1>13. ASSUME HomeEdge PROVE [Abstract!Event]_view
    <2>1. /\ home_pin # HomePressed(pos) /\ home_pin' = HomePressed(pos)
          /\ ax' = handle_isr_ls_home(ax, HomePressed(pos)) /\ UNCHANGED <<pos, far_pin, zero>>
      BY <1>13 DEF HomeEdge
    <2>2. /\ ~ ax'.pwm_on /\ ax'.ls_home_pressed = HomePressed(pos)
          /\ ax'.ls_far_pressed = ax.ls_far_pressed
      BY <1>0, <2>1 DEF handle_isr_ls_home, stop_axis, AxisRecord
    <2>3. Abstract!HomePressed(pos) = HomePressed(pos) /\ view.pos = pos
          /\ view.home_pin = home_pin
      BY DEF Abstract!HomePressed, HomePressed, view
    <2>4. view' = Abstract!HomeHandled(view)
      <3>1. view' = Seen("none", FALSE, HomePressed(pos), ax.ls_far_pressed, pos, zero,
                         HomePressed(pos), far_pin)
        BY <2>1, <2>2, SeenAtRest, Zenon
      <3> QED
        BY <2>3, <3>1, ViewChanges, Zenon
    <2> QED
      BY <2>1, <2>3, <2>4 DEF Abstract!Event, Abstract!Home, Abstract!HomeChanges
  <1>14. ASSUME FarPress PROVE [Abstract!Event]_view
    <2>1. /\ ~ far_pin /\ FarPressed(pos) /\ far_pin' = TRUE
          /\ ax' = handle_isr_ls_far(ax, TRUE) /\ UNCHANGED <<pos, home_pin, zero>>
      BY <1>14 DEF FarPress
    <2>2. /\ ~ ax'.pwm_on /\ ax'.ls_far_pressed = TRUE
          /\ ax'.ls_home_pressed = ax.ls_home_pressed
      BY <1>0, <2>1 DEF handle_isr_ls_far, stop_axis, AxisRecord
    <2>3. Abstract!FarCloses(view)
      BY <2>1 DEF view, Abstract!FarCloses, Abstract!FarPressed, FarPressed
    <2>4. view' = Abstract!FarHandled(view)
      <3>1. view' = Seen("none", FALSE, ax.ls_home_pressed, TRUE, pos, zero, home_pin, TRUE)
        BY <2>1, <2>2, SeenAtRest, Zenon
      <3> QED
        BY <3>1, ViewChanges, Zenon
    <2> QED
      BY <2>3, <2>4 DEF Abstract!Event, Abstract!Far
  <1>15. ASSUME FarRelease PROVE [Abstract!Event]_view
    <2>1. /\ far_pin /\ ~ FarPressed(pos) /\ far_pin' = FALSE
          /\ UNCHANGED <<ax, pos, home_pin, zero, origin>>
      BY <1>15 DEF FarRelease
    <2>2. Abstract!FarOpens(view)
      BY <2>1 DEF view, Abstract!FarOpens, Abstract!FarPressed, FarPressed
    <2>3. Endless' = Endless
      BY <2>1 DEF Endless, EndOfMotion, sign
    <2>4. view' = Abstract!FarOpened(view)
      <3>1. view' = Seen(IF ax.pwm_on THEN ax.pin_dir ELSE "none", ax.pwm_on /\ Endless,
                         ax.ls_home_pressed, ax.ls_far_pressed, pos, zero, home_pin, FALSE)
        BY <2>1, <2>3, ViewSeen, Zenon
      <3> QED
        BY <3>1, ViewChanges, Zenon
    <2> QED
      BY <2>2, <2>4 DEF Abstract!Event, Abstract!FarOpen
  <1>16. Starts => [Abstract!Start]_view
    BY <1>4, <1>5, <1>6, <1>7 DEF Starts, StartWrite
  <1>17. Interrupt \/ FarRelease => [Abstract!Event]_view
    BY <1>10, <1>11, <1>12, <1>13, <1>14, <1>15 DEF Interrupt
  <1> QED
    BY <1>8, <1>9, <1>16, <1>17

(* Until a limit switch interrupts start_axis, the axis does what its      *)
(* contract says, on which the main loop is built.                         *)
THEOREM MeetsContract == Spec => ImplementsContract
  <1>1. Init => OnRail
    BY DEF Init, setup_axis, OnRail, Launched
  <1>2. Spec => []OnRail
    BY <1>1, OnRailStep, TypeCorrect, Invariance, PTL DEF Spec
  <1>3. IInv /\ OnRail /\ [Next]_vars
          => [ ~ raced' => /\ Starts => [Abstract!Start]_view
                           /\ Stop => [Abstract!Stop]_view
                           /\ Reset => [Abstract!Reset]_view
                           /\ Interrupt \/ FarRelease => [Abstract!Event]_view ]_vars
    BY AbstractStep, RacedStays
  <1> QED
    BY <1>2, <1>3, AbstractInit, Invariance, PTL DEF Spec, ImplementsContract
=============================================================================
