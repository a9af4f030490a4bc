----------------------------- MODULE Kinematics -----------------------------
(***************************************************************************)
(* The fixed-width arithmetic of the firmware and the pure algorithm of    *)
(* firmware/lib/Gantry/src/Kinematics.cpp: the trapezoidal velocity        *)
(* profile of a motion.  Unsigned values wrap modulo 2 * HalfRange, and    *)
(* signed ones are read in two's complement; HalfRange is 2^31 in the      *)
(* build and a small number in the runs.                                   *)
(***************************************************************************)
EXTENDS Integers

CONSTANT HalfRange      \* Half the number of values of a machine word (2^31)

ASSUME HalfRangeAssumption == HalfRange \in Nat /\ HalfRange >= 2

WordSize == 2 * HalfRange
UInt     == 0 .. WordSize - 1              \* uint32_t
SInt     == -HalfRange .. HalfRange - 1    \* int32_t
IntMax   == HalfRange - 1                  \* INT32_MAX

U32(x) == x % WordSize
I32(x) == ((x + HalfRange) % WordSize) - HalfRange

(* Division as the Cortex-M3 performs it: by zero it yields zero.          *)
UDiv(x, y) == IF y = 0 THEN 0 ELSE x \div y

VelProfile == [dist_accel : SInt, dist_hold : SInt, dist_decel : SInt]

(* Mutated form: the factor 2 of 2 a d is forgotten.                       *)
calc_dist_accel_HalfRate(a, v_0, v_f) == UDiv(U32(v_f * v_f - v_0 * v_0), a)

calc_dist_accel(a, v_0, v_f) == UDiv(U32(v_f * v_f - v_0 * v_0), U32(2 * a))

(* Whether a profile can be generated, and the profile when it can.        *)
valid_profile(accel, v_start, v_hold) ==
  \/ accel # 0 /\ v_hold >= v_start
  \/ v_hold = v_start

dir_sign(neg) == IF neg THEN -1 ELSE 1

(* Mutated forms: braking as long as accelerating, whatever was rounded; a *)
(* hold distance without its sign, or without its conversion to int32_t;   *)
(* the half of a short distance rounded up.                                *)
profile_EqualDecel(neg, accel, v_start, v_hold, dist_total) ==
  LET up == IF accel = 0 THEN 0 ELSE dist_total \div 2
  IN  [ dist_accel |-> I32(up * dir_sign(neg)),
        dist_hold  |-> 0,
        dist_decel |-> I32(up * dir_sign(neg)) ]
profile_UnsignedHold(neg, accel, v_start, v_hold, dist_total) ==
  [ dist_accel |-> 0, dist_hold |-> I32(dist_total), dist_decel |-> 0 ]
profile_WideHold(neg, accel, v_start, v_hold, dist_total) ==
  [ dist_accel |-> 0, dist_hold |-> dist_total * dir_sign(neg), dist_decel |-> 0 ]
profile_RoundsUp(neg, accel, v_start, v_hold, dist_total) ==
  LET up == (dist_total + 1) \div 2
  IN  [ dist_accel |-> I32(up * dir_sign(neg)),
        dist_hold  |-> 0,
        dist_decel |-> I32((dist_total - up) * dir_sign(neg)) ]

generate_vel_profile(neg, accel, v_start, v_hold, dist_total) ==
  LET wanted == calc_dist_accel(accel, v_start, v_hold)
      short  == U32(wanted * 2) > dist_total
      up     == IF accel = 0 THEN 0 ELSE IF short THEN dist_total \div 2 ELSE wanted
      hold   == IF accel = 0 THEN dist_total ELSE IF short THEN 0 ELSE U32(dist_total - 2 * up)
  IN  [ dist_accel |-> I32(up * dir_sign(neg)),
        dist_hold  |-> I32(hold * dir_sign(neg)),
        dist_decel |-> I32(U32(dist_total - up - hold) * dir_sign(neg)) ]
=============================================================================
