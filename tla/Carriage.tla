------------------------------ MODULE Carriage ------------------------------
(***************************************************************************)
(* What the firmware expects of a gantry axis: a carriage with places      *)
(* 0 .. End that moves one place per encoder count in the driven           *)
(* direction, and at an end stays where it is.                             *)
(***************************************************************************)
EXTENDS Integers

CONSTANT End

VARIABLES place,      \* where the carriage is: 0 on the home switch, End on the far one
          count,      \* the encoder count of the firmware
          drive,      \* 1 or -1: the direction of the motor
          intact      \* no step of the motor has been missed

vars == <<place, count, drive, intact>>

Init == place \in 0 .. End /\ count \in Int /\ drive \in {1, -1} /\ intact = TRUE

Advance == /\ place + drive \in 0 .. End
           /\ place' = place + drive
           /\ count' = count + drive
           /\ UNCHANGED <<drive, intact>>

Stall == /\ place + drive \notin 0 .. End
         /\ count' = count + drive
         /\ UNCHANGED <<place, drive, intact>>

Turn == drive' = - drive /\ UNCHANGED <<place, count, intact>>

(* Once a step has been missed the count need not follow any more.         *)
Miss == intact' = FALSE /\ UNCHANGED <<place, count, drive>>
Drift == ~ intact /\ place' \in {place, place + drive} \cap (0 .. End)
         /\ count' \in {count, count + drive} /\ UNCHANGED <<drive, intact>>

(* The carriage is put back to where it starts.                            *)
PutBack == place' \in 1 .. End - 1 /\ UNCHANGED <<count, drive, intact>>

Next == Advance \/ Stall \/ Turn \/ Miss \/ Drift \/ PutBack
Spec == Init /\ [][Next]_vars
=============================================================================
