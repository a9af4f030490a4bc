------------------------------- MODULE MCAxis -------------------------------
(* Small instances of Axis, with its refinement mapping, for TLC.                                        *)
EXTENDS AxisRefinement

CONSTANTS Plans

StartVel == 3

Plan(total, accel, hold) == [ total_counts |-> total, accel |-> accel, vel_hold |-> hold ]

(* Two steps are one count, and the rail has 3: a motion that fits, of all *)
(* three segments; one that is longer than the rail and brakes on it; and  *)
(* INT32_MAX counts at a hold velocity that is smaller than the start      *)
(* velocity in steps and equal in counts, accepted without acceleration.   *)
AllPlans == { Plan(3, 2, 4), Plan(4, 2, 4), Plan(7, 0, 2) }
OnePlan  == { Plan(3, 2, 4) }

MCMotions == { [ dir |-> d, total_counts |-> p.total_counts, accel |-> p.accel,
                 vel_start |-> StartVel, vel_hold |-> p.vel_hold ] :
                 d \in Directions, p \in Plans }
=============================================================================
