------------------------- MODULE Kinematics_proofs -------------------------
(***************************************************************************)
(* Proofs about the word arithmetic and generate_vel_profile, for every    *)
(* word size: first the facts that Axis_proofs cites too, then the         *)
(* theorems about a call.                                                  *)
(***************************************************************************)
EXTENDS ProfileCalls, TLAPS

(* The remainder of an unsigned conversion is a word.                      *)
LEMMA U32InUInt == \A x \in Int : U32(x) \in UInt
  BY HalfRangeAssumption DEF U32, UInt, WordSize

(* A value that already is a word is unchanged by the conversion.          *)
LEMMA U32Identity == \A x \in UInt : U32(x) = x
  BY HalfRangeAssumption DEF U32, UInt, WordSize

(* A two's complement reading lies in the signed range.                    *)
LEMMA I32InSInt == \A x \in Int : I32(x) \in SInt
  <1> SUFFICES ASSUME NEW x \in Int PROVE I32(x) \in SInt
    OBVIOUS
  <1>1. (x + HalfRange) % WordSize \in 0 .. WordSize - 1
    BY HalfRangeAssumption DEF WordSize
  <1> QED
    BY <1>1, HalfRangeAssumption DEF I32, SInt, WordSize

(* A value in the signed range reads as itself.                            *)
LEMMA I32Identity == \A x \in SInt : I32(x) = x
  <1> SUFFICES ASSUME NEW x \in SInt PROVE I32(x) = x
    OBVIOUS
  <1>1. x + HalfRange \in 0 .. WordSize - 1
    BY HalfRangeAssumption DEF SInt, WordSize
  <1>2. (x + HalfRange) % WordSize = x + HalfRange
    BY <1>1, HalfRangeAssumption DEF WordSize
  <1> QED
    BY <1>2, HalfRangeAssumption DEF I32, SInt

(* Twice the acceleration distance never overflows: the divisor 2 * a is   *)
(* even, so the quotient of a word is below half of a word, and a divisor  *)
(* that wrapped to zero yields zero (Kinematics.cpp:16 and 48).            *)
LEMMA AccelDistanceIsHalfWord ==
  ASSUME NEW a \in UInt, NEW v_0 \in UInt, NEW v_f \in UInt
  PROVE  /\ calc_dist_accel(a, v_0, v_f) \in 0 .. IntMax
         /\ U32(calc_dist_accel(a, v_0, v_f) * 2) = 2 * calc_dist_accel(a, v_0, v_f)
  <1> DEFINE d == U32(2 * a)
             n == U32(v_f * v_f - v_0 * v_0)
             q == calc_dist_accel(a, v_0, v_f)
  <1>1. 2 * a \in Int /\ v_f * v_f - v_0 * v_0 \in Int
    BY HalfRangeAssumption DEF UInt, WordSize
  <1>2. d \in 0 .. 2 * HalfRange - 1 /\ n \in 0 .. 2 * HalfRange - 1
    BY <1>1, U32InUInt DEF UInt, WordSize
  <1>3. d # 1
    BY HalfRangeAssumption DEF U32, UInt, WordSize
  <1>4. q = IF d = 0 THEN 0 ELSE n \div d
    BY DEF calc_dist_accel, UDiv
  <1> HIDE DEF d, n, q
  <1>5. q \in 0 .. IntMax
    <2>1. CASE d = 0
      BY <2>1, <1>4, HalfRangeAssumption DEF IntMax
    <2>2. CASE d # 0
      <3>1. d >= 2
        BY <1>2, <1>3, <2>2, HalfRangeAssumption
      <3>2. n \div d \in Nat /\ 2 * (n \div d) <= n
        BY <1>2, <3>1, HalfRangeAssumption
      <3> QED
        BY <3>2, <1>2, <1>4, <2>2, HalfRangeAssumption DEF IntMax
    <2> QED
      BY <2>1, <2>2
  <1>6. q * 2 \in UInt
    BY <1>5, HalfRangeAssumption DEF UInt, WordSize, IntMax
  <1>7. U32(q * 2) = q * 2
    BY <1>6, U32Identity
  <1> QED
    BY <1>5, <1>7, HalfRangeAssumption DEF q, IntMax

(* A profile made of three lengths that add up to total, taken in the      *)
(* direction of the motion, the braking length equal to the accelerating   *)
(* one or one count more.                                                  *)
HasShape(profile, neg, total) ==
  \E up \in 0 .. total, hold \in 0 .. total, down \in 0 .. total :
    /\ up + hold + down = total
    /\ down - up \in {0, 1}
    /\ profile = [ dist_accel |-> up * dir_sign(neg),
                   dist_hold  |-> hold * dir_sign(neg),
                   dist_decel |-> down * dir_sign(neg) ]

(* generate_vel_profile returns such a profile for every distance that     *)
(* fits an int32_t.                                                        *)
LEMMA ProfileShape ==
  ASSUME NEW neg, NEW accel \in UInt, NEW v_start \in UInt,
         NEW v_hold \in UInt, NEW total \in 0 .. IntMax
  PROVE  HasShape(generate_vel_profile(neg, accel, v_start, v_hold, total), neg, total)
  <1> DEFINE wanted == calc_dist_accel(accel, v_start, v_hold)
             short  == U32(wanted * 2) > total
             up     == IF accel = 0 THEN 0 ELSE IF short THEN total \div 2 ELSE wanted
             hold   == IF accel = 0 THEN total ELSE IF short THEN 0 ELSE U32(total - 2 * up)
             down   == total - up - hold
  <1>1. wanted \in 0 .. IntMax /\ U32(wanted * 2) = 2 * wanted
    BY AccelDistanceIsHalfWord
  <1>2. 0 .. total \subseteq UInt
    BY HalfRangeAssumption DEF UInt, WordSize, IntMax
  <1>3. /\ up \in 0 .. total /\ hold \in 0 .. total /\ down \in 0 .. total
        /\ down - up \in {0, 1}
    <2>1. CASE accel = 0
      BY <2>1
    <2>2. CASE accel # 0 /\ short
      BY <2>2
    <2>3. CASE accel # 0 /\ ~ short
      <3>1. up = wanted
        BY <2>3
      <3>2. 2 * wanted <= total
        BY <1>1, <2>3, HalfRangeAssumption DEF IntMax
      <3>3. total - 2 * wanted \in 0 .. total
        BY <1>1, <3>2, HalfRangeAssumption DEF IntMax
      <3>4. hold = total - 2 * wanted
        BY <1>2, <2>3, <3>1, <3>3, U32Identity
      <3> QED
        BY <1>1, <3>1, <3>2, <3>4, HalfRangeAssumption DEF IntMax
    <2> QED
      BY <2>1, <2>2, <2>3
  <1>4. generate_vel_profile(neg, accel, v_start, v_hold, total) =
          [ dist_accel |-> I32(up * dir_sign(neg)),
            dist_hold  |-> I32(hold * dir_sign(neg)),
            dist_decel |-> I32(U32(down) * dir_sign(neg)) ]
    BY DEF generate_vel_profile
  <1> HIDE DEF up, hold, down
  <1>5. \A n \in 0 .. total : I32(n * dir_sign(neg)) = n * dir_sign(neg)
    <2> SUFFICES ASSUME NEW n \in 0 .. total
                 PROVE  I32(n * dir_sign(neg)) = n * dir_sign(neg)
      OBVIOUS
    <2>1. n * dir_sign(neg) \in SInt
      BY HalfRangeAssumption DEF SInt, IntMax, dir_sign
    <2> QED
      BY <2>1, I32Identity
  <1>6. U32(down) = down
    BY <1>2, <1>3, U32Identity
  <1>7. up + hold + down = total
    BY <1>3, HalfRangeAssumption DEF down, IntMax
  <1> QED
    BY <1>3, <1>4, <1>5, <1>6, <1>7 DEF HasShape

(* Whatever the arguments, the profile that is returned is a VelProfile.   *)
LEMMA ProfileType ==
  ASSUME NEW neg, NEW accel \in UInt, NEW v_start \in UInt,
         NEW v_hold \in UInt, NEW total \in UInt
  PROVE  generate_vel_profile(neg, accel, v_start, v_hold, total) \in VelProfile
  <1> DEFINE wanted == calc_dist_accel(accel, v_start, v_hold)
             short  == U32(wanted * 2) > total
             up     == IF accel = 0 THEN 0 ELSE IF short THEN total \div 2 ELSE wanted
             hold   == IF accel = 0 THEN total ELSE IF short THEN 0 ELSE U32(total - 2 * up)
  <1>1. wanted \in Int
    BY AccelDistanceIsHalfWord, HalfRangeAssumption DEF IntMax
  <1>2. total \in Int
    BY HalfRangeAssumption DEF UInt, WordSize
  <1>3. up \in Int
    BY <1>1, <1>2
  <1>4. hold \in Int
    <2>1. total - 2 * up \in Int
      BY <1>2, <1>3
    <2>2. U32(total - 2 * up) \in Int
      BY <2>1, U32InUInt, HalfRangeAssumption DEF UInt, WordSize
    <2> QED
      BY <1>2, <2>2
  <1>5. generate_vel_profile(neg, accel, v_start, v_hold, total) =
          [ dist_accel |-> I32(up * dir_sign(neg)),
            dist_hold  |-> I32(hold * dir_sign(neg)),
            dist_decel |-> I32(U32(total - up - hold) * dir_sign(neg)) ]
    BY DEF generate_vel_profile
  <1> HIDE DEF up, hold
  <1>6. U32(total - up - hold) \in Int
    BY <1>2, <1>3, <1>4, U32InUInt, HalfRangeAssumption DEF UInt, WordSize
  <1>7. /\ up * dir_sign(neg) \in Int
        /\ hold * dir_sign(neg) \in Int
        /\ U32(total - up - hold) * dir_sign(neg) \in Int
    BY <1>3, <1>4, <1>6 DEF dir_sign
  <1> QED
    BY <1>5, <1>7, I32InSInt DEF VelProfile

-----------------------------------------------------------------------------
(* A multiple that lies strictly between -m and m is zero.                 *)
LEMMA SmallMultiple ==
  ASSUME NEW m \in Nat \ {0}, NEW k \in Int, k * m < m, k * m > -m
  PROVE  k = 0
  <1>1. CASE k >= 1
    <2>1. k * m >= m
      BY <1>1
    <2> QED
      BY <2>1
  <1>2. CASE k <= -1
    <2>1. k * m <= -m
      BY <1>2
    <2> QED
      BY <2>1
  <1> QED
    BY <1>1, <1>2

(* Quotient and remainder rebuild the dividend.                            *)
LEMMA DivMod ==
  ASSUME NEW m \in Nat \ {0}, NEW x \in Int
  PROVE  x \div m \in Int /\ x % m \in 0 .. m - 1 /\ x = (x \div m) * m + (x % m)
  OBVIOUS

(* Adding a multiple of the modulus does not change a remainder.           *)
LEMMA ModShift ==
  ASSUME NEW m \in Nat \ {0}, NEW x \in Int, NEW k \in Int
  PROVE  (x + k * m) % m = x % m
  <1> DEFINE y == x + k * m
             e == y \div m
             f == x \div m
             r == x % m
             t == y % m
  <1>1. y \in Int
    OBVIOUS
  <1>2. f \in Int /\ r \in 0 .. m - 1 /\ x = f * m + r
    BY DivMod
  <1>3. e \in Int /\ t \in 0 .. m - 1 /\ y = e * m + t
    BY <1>1, DivMod
  <1> HIDE DEF e, f, r, t
  <1>4. y = x + k * m
    OBVIOUS
  <1> HIDE DEF y
  <1>5. (f + k - e) * m = t - r
    <2>1. (f + k - e) * m = f * m + k * m - e * m
      BY <1>2, <1>3
    <2>2. f * m \in Int /\ k * m \in Int /\ e * m \in Int
      BY <1>2, <1>3
    <2> QED
      BY <1>1, <1>2, <1>3, <1>4, <2>1, <2>2
  <1>6. f + k - e \in Int /\ (f + k - e) * m < m /\ (f + k - e) * m > -m
    BY <1>2, <1>3, <1>5
  <1>7. f + k - e = 0
    BY <1>6, SmallMultiple
  <1>8. t - r = 0
    BY <1>5, <1>7
  <1> QED
    BY <1>2, <1>3, <1>8 DEF y, r, t

(* A converted value differs from the original by whole words.             *)
LEMMA U32Congruent ==
  ASSUME NEW x \in Int
  PROVE  \E k \in Int : U32(x) = x + k * WordSize
  <1>1. WordSize \in Nat \ {0}
    BY HalfRangeAssumption DEF WordSize
  <1>2. x \div WordSize \in Int /\ x % WordSize \in Int
        /\ x = (x \div WordSize) * WordSize + (x % WordSize)
    BY <1>1, DivMod
  <1>3. x % WordSize = x + (-(x \div WordSize)) * WordSize
    BY <1>1, <1>2
  <1> QED
    BY <1>2, <1>3 DEF U32

LEMMA I32Congruent ==
  ASSUME NEW x \in Int
  PROVE  \E k \in Int : I32(x) = x + k * WordSize
  <1>1. PICK k \in Int : U32(x + HalfRange) = (x + HalfRange) + k * WordSize
    BY U32Congruent, HalfRangeAssumption
  <1>2. I32(x) = U32(x + HalfRange) - HalfRange
    BY DEF I32, U32
  <1>3. WordSize \in Int
    BY HalfRangeAssumption DEF WordSize
  <1>4. I32(x) = x + k * WordSize
    BY <1>1, <1>2, <1>3, HalfRangeAssumption
  <1> QED
    BY <1>4

(* Values that differ by whole words have the same two's complement        *)
(* reading.                                                                *)
LEMMA I32Shift ==
  ASSUME NEW x \in Int, NEW k \in Int
  PROVE  I32(x + k * WordSize) = I32(x)
  <1>1. WordSize \in Nat \ {0}
    BY HalfRangeAssumption DEF WordSize
  <1>2. ((x + HalfRange) + k * WordSize) % WordSize = (x + HalfRange) % WordSize
    <2>1. x + HalfRange \in Int
      BY HalfRangeAssumption
    <2> QED
      BY ONLY <1>1, <2>1, ModShift, k \in Int
  <1>3. (x + k * WordSize) + HalfRange = (x + HalfRange) + k * WordSize
    BY <1>1, HalfRangeAssumption
  <1> QED
    BY <1>2, <1>3 DEF I32

(* Wrapping a term of a sum before the sum is wrapped changes nothing.     *)
LEMMA I32Absorb ==
  ASSUME NEW x \in Int, NEW y \in Int
  PROVE  I32(I32(x) + y) = I32(x + y)
  <1>1. PICK k \in Int : I32(x) = x + k * WordSize
    BY I32Congruent
  <1>2. WordSize \in Int
    BY HalfRangeAssumption DEF WordSize
  <1>3. I32(x) + y = (x + y) + k * WordSize
    BY <1>1, <1>2
  <1>4. I32((x + y) + k * WordSize) = I32(x + y)
    BY I32Shift
  <1> QED
    BY <1>3, <1>4

(* The three segments of a profile add up to the requested distance modulo *)
(* the word size, for every distance a uint32_t can hold: added to any     *)
(* origin they read as the same end.                                       *)
LEMMA ProfileEnd ==
  ASSUME NEW neg, NEW accel \in UInt, NEW v_start \in UInt, NEW v_hold \in UInt,
         NEW total \in UInt, NEW origin \in Int,
         NEW profile, profile = generate_vel_profile(neg, accel, v_start, v_hold, total)
  PROVE  I32(origin + (profile.dist_accel + profile.dist_hold + profile.dist_decel))
           = I32(origin + dir_sign(neg) * total)
  <1> DEFINE wanted == calc_dist_accel(accel, v_start, v_hold)
             short  == U32(wanted * 2) > total
             up     == IF accel = 0 THEN 0 ELSE IF short THEN total \div 2 ELSE wanted
             hold   == IF accel = 0 THEN total ELSE IF short THEN 0 ELSE U32(total - 2 * up)
             s      == dir_sign(neg)
  <1>1. wanted \in Int /\ total \in Int /\ WordSize \in Int
    BY AccelDistanceIsHalfWord, HalfRangeAssumption DEF IntMax, UInt, WordSize
  <1>2. up \in Int
    BY <1>1
  <1>3. hold \in Int
    <2>1. U32(total - 2 * up) \in Int
      BY <1>1, <1>2, U32InUInt, HalfRangeAssumption DEF UInt, WordSize
    <2> QED
      BY <1>1, <2>1
  <1>4. profile = [ dist_accel |-> I32(up * s),
                    dist_hold  |-> I32(hold * s),
                    dist_decel |-> I32(U32(total - up - hold) * s) ]
    BY DEF generate_vel_profile
  <1>5. s \in {1, -1}
    BY DEF dir_sign
  <1> HIDE DEF up, hold, s
  <1>6. PICK k \in Int : U32(total - up - hold) = (total - up - hold) + k * WordSize
    <2>1. total - up - hold \in Int
      BY <1>1, <1>2, <1>3
    <2> QED
      BY ONLY <2>1, U32Congruent
  <1> DEFINE down == (total - up - hold) + k * WordSize
  <1>7. up * s \in Int /\ hold * s \in Int /\ down * s \in Int
    BY <1>1, <1>2, <1>3, <1>5
  <1>8. PICK ka \in Int, kh \in Int, kd \in Int :
          /\ I32(up * s) = up * s + ka * WordSize
          /\ I32(hold * s) = hold * s + kh * WordSize
          /\ I32(down * s) = down * s + kd * WordSize
    BY <1>7, I32Congruent
  <1> DEFINE words == ka + kh + kd + k * s
  <1>9. words \in Int
    BY <1>5
  <1>10. profile.dist_accel + profile.dist_hold + profile.dist_decel
           = s * total + words * WordSize
    <2>1. CASE s = 1
      BY <2>1, <1>1, <1>2, <1>3, <1>4, <1>6, <1>8
    <2>2. CASE s = -1
      BY <2>2, <1>1, <1>2, <1>3, <1>4, <1>6, <1>8
    <2> QED
      BY <1>5, <2>1, <2>2
  <1>11. origin + s * total \in Int
    BY <1>1, <1>5
  <1>12. origin + (s * total + words * WordSize) = (origin + s * total) + words * WordSize
    BY <1>1, <1>5, <1>9
  <1>13. I32((origin + s * total) + words * WordSize) = I32(origin + s * total)
    BY ONLY <1>9, <1>11, I32Shift
  <1> QED
    BY <1>10, <1>12, <1>13 DEF s

(* The difference of two counts of a rail shorter than half a word fits a  *)
(* signed word.                                                            *)
LEMMA DifferenceFits ==
  ASSUME NEW n \in Nat, n < HalfRange, NEW x \in 0 .. n, NEW y \in 0 .. n
  PROVE  x - y \in SInt
  BY HalfRangeAssumption DEF SInt

-----------------------------------------------------------------------------
(* Every reachable state has its type.                                     *)
THEOREM CallTypeCorrect == CallSpec => []CallTypeOK
  <1>1. CallInit => CallTypeOK
    <2> SUFFICES ASSUME CallInit PROVE CallTypeOK
      OBVIOUS
    <2>1. profile_out \in VelProfile
      BY HalfRangeAssumption DEF CallInit, VelProfile, SInt
    <2> QED
      BY <2>1, Zenon DEF CallInit, CallTypeOK
  <1>2. CallTypeOK /\ [CallNext]_callvars => CallTypeOK'
    <2> SUFFICES ASSUME CallTypeOK, [CallNext]_callvars PROVE CallTypeOK'
      OBVIOUS
    <2>1. CASE Accept
      <3>1. profile_out' \in VelProfile
        BY <2>1, ProfileType DEF Accept, CallTypeOK, Args
      <3> QED
        BY <2>1, <3>1 DEF Accept, CallTypeOK
    <2>2. CASE Reject
      BY <2>2 DEF Reject, CallTypeOK
    <2>3. CASE UNCHANGED callvars
      BY <2>3 DEF callvars, CallTypeOK
    <2> QED
      BY <2>1, <2>2, <2>3 DEF CallNext
  <1> QED
    BY <1>1, <1>2, PTL DEF CallSpec

(* The invariant the three properties follow from: an accepted call whose  *)
(* distance fits has left three lengths of the right sum and direction.    *)
Shaped == Accepted /\ Fits => HasShape(profile_out, args.neg, args.dist_total)

(* That invariant holds in every reachable state.                          *)
LEMMA ShapedInvariant == CallSpec => []Shaped
  <1>1. CallInit => Shaped
    BY DEF CallInit, Shaped, Accepted
  <1>2. CallTypeOK /\ Shaped /\ [CallNext]_callvars => Shaped'
    <2> SUFFICES ASSUME CallTypeOK, Shaped, [CallNext]_callvars PROVE Shaped'
      OBVIOUS
    <2>1. CASE Accept
      <3> SUFFICES ASSUME Fits PROVE Shaped'
        BY <2>1 DEF Shaped, Accept, Fits
      <3>1. /\ args.accel \in UInt /\ args.v_start \in UInt
            /\ args.v_hold \in UInt /\ args.dist_total \in 0 .. IntMax
        BY HalfRangeAssumption DEF CallTypeOK, Args, Fits, UInt, IntMax, WordSize
      <3>2. HasShape(profile_out', args.neg, args.dist_total)
        BY <2>1, <3>1, ProfileShape DEF Accept
      <3> QED
        BY <2>1, <3>2 DEF Shaped, Accept
    <2>2. CASE Reject
      BY <2>2 DEF Reject, Shaped, Accepted
    <2>3. CASE UNCHANGED callvars
      BY <2>3 DEF callvars, Shaped, Accepted, Fits
    <2> QED
      BY <2>1, <2>2, <2>3 DEF CallNext
  <1> QED
    BY <1>1, <1>2, CallTypeCorrect, PTL DEF CallSpec

(* The three segments of an accepted profile add up to exactly the         *)
(* requested distance, for every word size and all arguments.              *)
THEOREM CoversDistance == CallSpec => []SegmentsCoverDistance
  <1>1. CallTypeOK /\ Shaped => SegmentsCoverDistance
    BY HalfRangeAssumption
       DEF CallTypeOK, Args, UInt, WordSize, Shaped, HasShape, SegmentsCoverDistance, Distance, dir_sign
  <1> QED
    BY <1>1, CallTypeCorrect, ShapedInvariant, PTL

(* No segment of an accepted profile runs against the motion.              *)
THEOREM FollowsDirection == CallSpec => []SegmentsFollowDirection
  <1>1. CallTypeOK /\ Shaped => SegmentsFollowDirection
    BY HalfRangeAssumption
       DEF CallTypeOK, Args, UInt, WordSize, Shaped, HasShape, SegmentsFollowDirection, dir_sign
  <1> QED
    BY <1>1, CallTypeCorrect, ShapedInvariant, PTL

(* The braking segment is as long as the accelerating one or one count     *)
(* longer.                                                                 *)
THEOREM LeavesBrakingRoom == CallSpec => []BrakingRoom
  <1>1. CallTypeOK /\ Shaped => BrakingRoom
    BY HalfRangeAssumption
       DEF CallTypeOK, Args, UInt, WordSize, Shaped, HasShape, BrakingRoom, dir_sign
  <1> QED
    BY <1>1, CallTypeCorrect, ShapedInvariant, PTL

(* An accepted profile is one an axis can follow.                          *)
THEOREM Trapezoid == CallSpec => []ProfileIsTrapezoid
  <1>1. SegmentsFollowDirection /\ BrakingRoom => ProfileIsTrapezoid
    BY DEF ProfileIsTrapezoid
  <1> QED
    BY <1>1, FollowsDirection, LeavesBrakingRoom, PTL

-----------------------------------------------------------------------------
(* When nothing overflows, the distance calc_dist_accel returns is the     *)
(* last one at which the square of the speed has not passed v_f^2.         *)
LEMMA AccelDistanceIsLast ==
  ASSUME NEW a \in Nat \ {0}, 2 * a < WordSize,
         NEW v_0 \in UInt, NEW v_f \in UInt, v_0 <= v_f, v_f * v_f < WordSize
  PROVE  LET d == calc_dist_accel(a, v_0, v_f)
         IN  /\ d \in Nat
             /\ v_0 * v_0 + 2 * a * d <= v_f * v_f
             /\ v_0 * v_0 + 2 * a * (d + 1) > v_f * v_f
  <1> DEFINE n == v_f * v_f - v_0 * v_0
             m == 2 * a
             d == calc_dist_accel(a, v_0, v_f)
  <1>1. v_0 \in Nat /\ v_f \in Nat
    BY HalfRangeAssumption DEF UInt, WordSize
  <1>2. n \in UInt
    <2>1. v_0 * v_0 \in Nat /\ v_f * v_f \in Nat /\ v_0 * v_0 <= v_f * v_f
      BY <1>1
    <2> QED
      BY <2>1, HalfRangeAssumption DEF UInt, WordSize
  <1>3. m \in UInt /\ m # 0
    BY HalfRangeAssumption DEF UInt, WordSize
  <1>4. U32(n) = n /\ U32(m) = m
    BY <1>2, <1>3, U32Identity
  <1>5. d = n \div m
    BY <1>3, <1>4 DEF calc_dist_accel, UDiv
  <1>6. n \in Nat /\ m \in Nat \ {0}
    BY <1>2, <1>3, HalfRangeAssumption DEF UInt, WordSize
  <1>7. v_f * v_f = v_0 * v_0 + n /\ v_0 * v_0 \in Nat
    BY <1>1
  <1> HIDE DEF n, m, d
  <1>8. d \in Nat /\ d * m <= n /\ n < d * m + m
    BY <1>5, <1>6
  <1>9. 2 * a * d = d * m /\ 2 * a * (d + 1) = d * m + m
    BY <1>8 DEF m
  <1> QED
    BY <1>6, <1>7, <1>8, <1>9 DEF d

(* The acceleration distance of an accepted profile is exact.              *)
THEOREM ExactDistance == CallSpec => []AccelDistanceIsExact
  <1>1. CallInit => AccelDistanceIsExact
    BY DEF CallInit, AccelDistanceIsExact, Accepted
  <1>2. CallTypeOK /\ AccelDistanceIsExact /\ [CallNext]_callvars => AccelDistanceIsExact'
    <2> SUFFICES ASSUME CallTypeOK, AccelDistanceIsExact, [CallNext]_callvars
                 PROVE  AccelDistanceIsExact'
      OBVIOUS
    <2>1. CASE Accept
      <3> DEFINE a   == args.accel
                 v_0 == args.v_start
                 v_f == args.v_hold
                 t   == args.dist_total
                 s   == dir_sign(args.neg)
                 w   == calc_dist_accel(a, v_0, v_f)
                 up  == IF U32(w * 2) > t THEN t \div 2 ELSE w
      <3> SUFFICES ASSUME Fits, NoOverflow, a # 0
                   PROVE  LET d == profile_out'.dist_accel * s
                          IN  /\ v_0 * v_0 + 2 * a * d <= v_f * v_f
                              /\ \/ v_0 * v_0 + 2 * a * (d + 1) > v_f * v_f
                                 \/ d = t \div 2
        BY <2>1, Zenon DEF Accept, AccelDistanceIsExact, Fits, NoOverflow
      <3>1. a \in UInt /\ v_0 \in UInt /\ v_f \in UInt /\ t \in UInt
        BY DEF CallTypeOK, Args
      <3>2. /\ a \in Nat \ {0} /\ v_0 \in Nat /\ v_f \in Nat /\ t \in 0 .. IntMax
        BY <3>1, HalfRangeAssumption DEF Fits, UInt, WordSize, IntMax
      <3>3. v_0 <= v_f
        BY <2>1, <3>2 DEF Accept, valid_profile
      <3>4. /\ w \in Nat
            /\ v_0 * v_0 + 2 * a * w <= v_f * v_f
            /\ v_0 * v_0 + 2 * a * (w + 1) > v_f * v_f
        BY <3>1, <3>2, <3>3, AccelDistanceIsLast DEF NoOverflow
      <3>5. w \in 0 .. IntMax /\ U32(w * 2) = 2 * w
        BY <3>1, AccelDistanceIsHalfWord
      <3>6. s = 1 \/ s = -1
        BY DEF dir_sign
      <3>7. profile_out'.dist_accel = I32(up * s)
        BY <2>1 DEF Accept, generate_vel_profile
      <3> HIDE DEF w, s, a, v_0, v_f, t
      <3>8. up \in 0 .. IntMax /\ up <= w
        BY <3>2, <3>4, <3>5, HalfRangeAssumption DEF IntMax
      <3>9. profile_out'.dist_accel * s = up
        <4>1. up * s \in SInt
          BY <3>6, <3>8, HalfRangeAssumption DEF SInt, IntMax
        <4>2. profile_out'.dist_accel = up * s
          BY <3>7, <4>1, I32Identity
        <4> HIDE DEF up
        <4>3. up \in Int
          BY <3>8, HalfRangeAssumption DEF IntMax
        <4> QED
          BY <3>6, <4>2, <4>3
      <3>10. v_0 * v_0 + 2 * a * up <= v_f * v_f
        <4> HIDE DEF up
        <4>1. up \in Nat
          BY <3>8, HalfRangeAssumption DEF IntMax
        <4>2. a * up <= a * w /\ a * up \in Nat /\ a * w \in Nat
          BY <3>2, <3>4, <3>8, <4>1
        <4>3. v_0 * v_0 \in Nat /\ v_f * v_f \in Nat
          BY <3>2
        <4>4. 2 * a * up = 2 * (a * up) /\ 2 * a * w = 2 * (a * w)
          BY <3>2, <3>4, <4>1
        <4> QED
          BY <3>4, <4>2, <4>3, <4>4
      <3>11. up = w \/ up = t \div 2
        OBVIOUS
      <3> QED
        BY <3>4, <3>9, <3>10, <3>11
    <2>2. CASE Reject
      BY <2>2 DEF Reject, AccelDistanceIsExact, Accepted
    <2>3. CASE UNCHANGED callvars
      BY <2>3 DEF callvars, AccelDistanceIsExact, Accepted, Fits, NoOverflow
    <2> QED
      BY <2>1, <2>2, <2>3 DEF CallNext
  <1> QED
    BY <1>1, <1>2, CallTypeCorrect, PTL DEF CallSpec
=============================================================================
