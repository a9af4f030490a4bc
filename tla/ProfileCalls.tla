---------------------------- MODULE ProfileCalls ----------------------------
(***************************************************************************)
(* Every call of generate_vel_profile that the word size allows: a call    *)
(* chooses any arguments and the return leaves its result in profile_out.  *)
(***************************************************************************)
EXTENDS Kinematics

VARIABLES args,          \* the arguments of the call
          call,          \* "called" or "returned"
          profile_out,   \* the caller's VelProfile
          accepted       \* the returned boolean

callvars == <<args, call, profile_out, accepted>>

Args == [neg : BOOLEAN, accel : UInt, v_start : UInt, v_hold : UInt, dist_total : UInt]

CallInit == /\ args \in Args
            /\ call = "called"
            /\ profile_out = [dist_accel |-> 0, dist_hold |-> 0, dist_decel |-> 0]
            /\ accepted = FALSE

Accept == /\ call = "called"
          /\ valid_profile(args.accel, args.v_start, args.v_hold)
          /\ profile_out' = generate_vel_profile(args.neg, args.accel, args.v_start,
                                                 args.v_hold, args.dist_total)
          /\ accepted' = TRUE
          /\ call' = "returned"
          /\ UNCHANGED args

Reject == /\ call = "called"
          /\ ~ valid_profile(args.accel, args.v_start, args.v_hold)
          /\ accepted' = FALSE
          /\ call' = "returned"
          /\ UNCHANGED <<args, profile_out>>

CallNext == Accept \/ Reject

CallSpec == CallInit /\ [][CallNext]_callvars

-----------------------------------------------------------------------------
CallTypeOK == /\ args \in Args
              /\ call \in {"called", "returned"}
              /\ profile_out \in VelProfile
              /\ accepted \in BOOLEAN

Accepted == call = "returned" /\ accepted

(* The signed distance a call asks for, when it fits an int32_t.           *)
Fits     == args.dist_total <= IntMax
Distance == args.dist_total * dir_sign(args.neg)

(* The three segments of an accepted profile add up to exactly the         *)
(* requested distance, whatever rounding and overflow happened inside      *)
(* (Kinematics.cpp:61, "Handle rounding errors by making dist_decel        *)
(* whatever the remaining distance is").                                   *)
SegmentsCoverDistance ==
  Accepted /\ Fits =>
    profile_out.dist_accel + profile_out.dist_hold + profile_out.dist_decel = Distance

(* No segment of an accepted profile runs against the motion: each is      *)
(* non-negative forwards and non-positive backwards, even when the squares *)
(* of the velocities overflow (Kinematics.cpp:44-62).                      *)
SegmentsFollowDirection ==
  Accepted /\ Fits =>
    /\ profile_out.dist_accel * dir_sign(args.neg) >= 0
    /\ profile_out.dist_hold  * dir_sign(args.neg) >= 0
    /\ profile_out.dist_decel * dir_sign(args.neg) >= 0

(* Braking is given as much room as accelerating, or one count more, so an *)
(* axis can always come back to v_start (Kinematics.cpp:48-62).            *)
BrakingRoom ==
  Accepted /\ Fits =>
    (profile_out.dist_decel - profile_out.dist_accel) * dir_sign(args.neg) \in {0, 1}

(* Whatever overflows, an accepted profile is one an axis can follow: it   *)
(* never turns back, and it brakes as long as it accelerates               *)
(* (generate_vel_profile).                                                 *)
ProfileIsTrapezoid == SegmentsFollowDirection /\ BrakingRoom

(* When nothing overflows, the acceleration distance is the last one at    *)
(* which v_0^2 + 2 a d has not passed v_f^2, cut to half of the total      *)
(* (Kinematics.cpp:6-17, the distance "while accelerating at rate a from   *)
(* v_0 to reach v_f").                                                     *)
NoOverflow == args.v_hold * args.v_hold < WordSize /\ 2 * args.accel < WordSize
AccelDistanceIsExact ==
  Accepted /\ Fits /\ NoOverflow /\ args.accel # 0 =>
    LET d == profile_out.dist_accel * dir_sign(args.neg)
        speed2(x) == args.v_start * args.v_start + 2 * args.accel * x
    IN  /\ speed2(d) <= args.v_hold * args.v_hold
        /\ \/ speed2(d + 1) > args.v_hold * args.v_hold
           \/ d = args.dist_total \div 2
=============================================================================
