------------------------------ MODULE Frontend ------------------------------
(***************************************************************************)
(* The gantry frontend (feArduino.cxx, ArduinoHelper.cxx): one thread that *)
(* runs callbacks on database keys, reads its periodic event and talks to  *)
(* the controller, one serial request at a time.  The gantry moves between *)
(* any two of its requests; of the controller only what a request reads or *)
(* starts is kept.  A request is carried out or not, and answered or not,  *)
(* as RequestContract promises.                                            *)
(***************************************************************************)
EXTENDS Integers, Sequences

CONSTANTS Destinations,  \* what the operator asks for, in mm
          MaxMm,         \* gantry_x_max_mm and gantry_y_max_mm
          Pulleys,       \* Gantry_PulleyDiameter: one count is p / CountsPerMm mm
          CountsPerMm,
          Overshoot,     \* counts an axis may run past the end of its motion
          RailCounts,    \* counts the rail leaves to an axis
          Patient,       \* whether the operator waits for MoveRequest to be reset
          MaxRequests, MaxFaults, MaxRestarts    \* bounds

AxisId == {"X", "Y"}
Statuses == {"IDLE", "HOMING", "MOVING", "FAULT"}
Keys   == {"MoveRequest", "UpdateCalibration", "StartHome"}
CalKeys == << "GANTRY_ACCEL", "GANTRY_VEL_START", "GANTRY_VEL_HOME", "TEMP_ALL_C1",
              "TEMP_ALL_C2", "TEMP_ALL_C3", "TEMP_ALL_RESISTOR" >>

ASSUME FrontendAssumption ==
  /\ Destinations \subseteq [ AxisId -> Int ] /\ MaxMm \in Nat /\ Pulleys \subseteq Nat \ {0}
  /\ CountsPerMm \in Nat \ {0} /\ Overshoot \in Nat
  /\ RailCounts \subseteq Int /\ 0 \in RailCounts
  /\ Patient \in BOOLEAN
  /\ MaxRequests \in Nat /\ MaxFaults \in Nat /\ MaxRestarts \in Nat

VARIABLES
  odb,        \* the keys of /Equipment/ARDUINO/Settings
  notified,   \* keys whose change has been notified and not yet dispatched
  pc,         \* where the frontend's thread is
  call,       \* the locals of the function it is in
  axis,       \* the two axes
  status,     \* the controller's status
  cal,        \* the controller's calibration: the update each value comes from
  count,      \* requests, faults and restarts so far
  past        \* history: what was asked, and how the last request went

vars == <<odb, notified, pc, call, axis, status, cal, count, past>>
gantry == <<axis, status>>

(* gCalGantryPulleyDia does not change during a callback.                  *)
mm_to_cts(mm)    == (2 * mm * CountsPerMm + odb.pulley) \div (2 * odb.pulley)
InBounds(dest)   == \A a \in AxisId : dest[a] \in 0 .. MaxMm
Abs(n)           == IF n < 0 THEN - n ELSE n
get_direction(d) == IF d < 0 THEN -1 ELSE 1

StoppedAt(p) == [ pos |-> p, motion |-> "none", dir |-> 1, target |-> 0 ]
AtRest == \A a \in AxisId : axis[a].motion = "none"

NoCall == [ dest |-> [ a \in AxisId |-> 0 ], cur |-> [ a \in AxisId |-> 0 ],
            x_success |-> FALSE, success |-> FALSE, key |-> 1, update |-> 0,
            banks |-> {}, status |-> "IDLE" ]
Return == pc' = "loop" /\ call' = NoCall

Init == /\ \E d \in Destinations, p \in Pulleys :
             odb = [ destination |-> d, pulley |-> p, response |-> <<FALSE, FALSE>>,
                     flags |-> {}, update |-> 0 ]
        /\ notified = {}
        /\ pc = "loop"
        /\ call = NoCall
        /\ axis = [ a \in AxisId |-> StoppedAt(0) ]
        /\ status = "IDLE"
        /\ cal = [ k \in DOMAIN CalKeys |-> 0 ]
        /\ count = [ requests |-> 0, faults |-> 0, restarts |-> 0 ]
        /\ past = [ asked |-> odb.destination, settled |-> FALSE, calibrated |-> -1 ]

-----------------------------------------------------------------------------
(* The operator writes database keys, at any time.                         *)

Ask == count.requests < MaxRequests /\ count' = [ count EXCEPT !.requests = @ + 1 ]

SetDestination(d) ==
  /\ Patient => "MoveRequest" \notin odb.flags
  /\ odb' = [ odb EXCEPT !.destination = d ]
  /\ UNCHANGED <<notified, pc, call, gantry, cal, count, past>>

SetFlag(key) ==
  /\ Ask
  /\ Patient => key \notin odb.flags
  /\ odb' = [ odb EXCEPT !.flags = @ \cup {key},
                         !.update = IF key = "UpdateCalibration" THEN @ + 1 ELSE @ ]
  /\ notified' = IF pc \in {"down", "init"} THEN notified ELSE notified \cup {key}
  /\ past' = IF key = "MoveRequest" THEN [ past EXCEPT !.asked = odb.destination ] ELSE past
  /\ UNCHANGED <<pc, call, gantry, cal>>

SetPulley(p) ==
  /\ pc = "loop"
  /\ odb' = [ odb EXCEPT !.pulley = p ]
  /\ past' = [ past EXCEPT !.settled = FALSE ]
  /\ UNCHANGED <<notified, pc, call, gantry, cal, count>>

Operator == \/ \E d \in Destinations : SetDestination(d)
            \/ \E key \in Keys : SetFlag(key)
            \/ \E p \in Pulleys : SetPulley(p)

-----------------------------------------------------------------------------
(* One request: carried out or not, answered or not.                       *)

Outcomes == { o \in [ done : BOOLEAN, ok : BOOLEAN ] : o.ok => o.done }
Request(o) ==
  IF o.ok THEN UNCHANGED count
  ELSE /\ count.faults < MaxFaults
       /\ count' = [ count EXCEPT !.faults = @ + 1 ]

(* What the controller does with HOME, STOP and MOVE.                      *)
HomeStarts(as) == \E S \in SUBSET AxisId :
  as = [ a \in AxisId |-> IF a \in S /\ axis[a].motion = "none"
                            THEN [ axis[a] EXCEPT !.motion = "home" ] ELSE axis[a] ]

Disturbed == [ past EXCEPT !.settled = FALSE ]

CarryOutHome(o) == IF o.done THEN HomeStarts(axis') /\ status' = "HOMING" /\ past' = Disturbed
                   ELSE UNCHANGED <<gantry, past>>

(* Mutated form: one axis is not stopped.                                  *)
StopAll_OnlyX == [ axis EXCEPT !["X"] = StoppedAt(@.pos) ]

StopAll == [ a \in AxisId |-> StoppedAt(axis[a].pos) ]
CarryOutStop(o) == IF o.done THEN axis' = StopAll /\ status' = "IDLE" /\ past' = Disturbed
                   ELSE UNCHANGED <<gantry, past>>

(* A motion may be refused: at a limit switch, or for its velocities.      *)
StartMove(a, disp) ==
  /\ axis' = [ axis EXCEPT ![a] =
                 [ pos |-> @.pos, motion |-> "move", dir |-> get_direction(disp),
                   target |-> @.pos + get_direction(disp) * Abs(disp) ] ]
  /\ status' = "MOVING"

MoveAxis(a, o, accepted) ==
  /\ accepted => axis[a].motion = "none"
  /\ IF o.done /\ accepted THEN StartMove(a, mm_to_cts(call.dest[a]) - call.cur[a])
     ELSE UNCHANGED gantry

-----------------------------------------------------------------------------
(* move_request and arduino_move                                           *)

Dispatch(key) == pc = "loop" /\ key \in notified /\ notified' = notified \ {key}

(* Mutated form: MoveRequest is reset before the move, not after it.       *)
move_request_ResetsFirst(vel_ok) ==
  /\ Dispatch("MoveRequest")
  /\ IF "MoveRequest" \notin odb.flags THEN UNCHANGED <<odb, pc, call, past>>
     ELSE /\ odb' = [ odb EXCEPT !.response = <<FALSE, FALSE>>, !.flags = @ \ {"MoveRequest"} ]
          /\ call' = [ call EXCEPT !.dest = odb.destination, !.success = FALSE ]
          /\ pc' = IF InBounds(odb.destination) /\ vel_ok THEN "get_position" ELSE "respond"
          /\ past' = Disturbed
  /\ UNCHANGED <<gantry, cal, count>>

move_request(vel_ok) ==
  /\ Dispatch("MoveRequest")
  /\ IF "MoveRequest" \notin odb.flags THEN UNCHANGED <<odb, pc, call, past>>
     ELSE /\ odb' = [ odb EXCEPT !.response = <<FALSE, FALSE>> ]
          /\ call' = [ call EXCEPT !.dest = odb.destination, !.success = FALSE ]
          /\ pc' = IF InBounds(odb.destination) /\ vel_ok THEN "get_position" ELSE "respond"
          /\ past' = Disturbed
  /\ UNCHANGED <<gantry, cal, count>>

GetPosition(o) ==
  /\ pc = "get_position" /\ Request(o)
  /\ IF o.ok THEN /\ call' = [ call EXCEPT !.cur = [ a \in AxisId |-> axis[a].pos ] ]
                  /\ pc' = "move_x"
             ELSE UNCHANGED call /\ pc' = "respond"
  /\ past' = [ past EXCEPT !.settled = AtRest /\ status # "HOMING" ]
  /\ UNCHANGED <<odb, notified, gantry, cal>>

MoveX(o, accepted) ==
  /\ pc = "move_x" /\ Request(o)
  /\ MoveAxis("X", o, accepted)
  /\ call' = [ call EXCEPT !.x_success = o.ok /\ accepted ]
  /\ pc' = "move_y"
  /\ UNCHANGED <<odb, notified, cal, past>>

(* Mutated form: one accepted axis is enough.                              *)
MoveY_EitherAxis(o, accepted) ==
  /\ pc = "move_y" /\ Request(o)
  /\ MoveAxis("Y", o, accepted)
  /\ call' = [ call EXCEPT !.success = call.x_success \/ (o.ok /\ accepted) ]
  /\ pc' = "respond"
  /\ UNCHANGED <<odb, notified, cal, past>>

MoveY(o, accepted) ==
  /\ pc = "move_y" /\ Request(o)
  /\ MoveAxis("Y", o, accepted)
  /\ call' = [ call EXCEPT !.success = call.x_success /\ o.ok /\ accepted ]
  /\ pc' = "respond"
  /\ UNCHANGED <<odb, notified, cal, past>>

Respond ==
  /\ pc = "respond"
  /\ odb' = [ odb EXCEPT !.response = <<TRUE, call.success>>, !.flags = @ \ {"MoveRequest"} ]
  /\ Return
  /\ UNCHANGED <<notified, gantry, cal, count, past>>

-----------------------------------------------------------------------------
(* start_home, update_calibration                                          *)

start_home(o) ==
  /\ Dispatch("StartHome")
  /\ IF "StartHome" \notin odb.flags THEN UNCHANGED <<odb, gantry, count, past>>
     ELSE /\ Request(o) /\ CarryOutHome(o)
          /\ odb' = [ odb EXCEPT !.flags = @ \ {"StartHome"} ]
  /\ UNCHANGED <<pc, call, cal>>

BeginCalibration == call' = [ call EXCEPT !.key = 1, !.update = odb.update ]

update_calibration ==
  /\ Dispatch("UpdateCalibration")
  /\ IF "UpdateCalibration" \notin odb.flags THEN UNCHANGED <<pc, call>>
     ELSE BeginCalibration /\ pc' = "calibrate"
  /\ past' = [ past EXCEPT !.calibrated = -1 ]
  /\ UNCHANGED <<odb, gantry, cal, count>>

(* Mutated forms: a failure does not end the update; one key too many.     *)
arduino_calibrate_GoesOn(o) ==
  /\ pc \in {"calibrate", "init"} /\ Request(o)
  /\ cal' = IF o.done THEN [ cal EXCEPT ![call.key] = call.update ] ELSE cal
  /\ IF call.key < Len(CalKeys)
       THEN call' = [ call EXCEPT !.key = @ + 1 ] /\ UNCHANGED <<pc, past, odb>>
       ELSE /\ Return
            /\ past' = IF o.ok THEN [ past EXCEPT !.calibrated = call.update ] ELSE past
            /\ odb' = IF pc = "init" THEN odb
                      ELSE [ odb EXCEPT !.flags = @ \ {"UpdateCalibration"} ]
  /\ UNCHANGED <<notified, gantry>>
arduino_calibrate_OneMore(o) ==
  /\ pc \in {"calibrate", "init"} /\ Request(o)
  /\ cal' = IF o.done THEN [ cal EXCEPT ![call.key] = call.update ] ELSE cal
  /\ IF o.ok /\ call.key <= Len(CalKeys)
       THEN call' = [ call EXCEPT !.key = @ + 1 ] /\ UNCHANGED <<pc, past, odb>>
       ELSE /\ Return
            /\ past' = IF o.ok THEN [ past EXCEPT !.calibrated = call.update ] ELSE past
            /\ odb' = IF pc = "init" THEN odb
                      ELSE [ odb EXCEPT !.flags = @ \ {"UpdateCalibration"} ]
  /\ UNCHANGED <<notified, gantry>>

(* The first failure ends the update; nobody looks at its result.  The     *)
(* update that frontend_init makes resets no key.                          *)
arduino_calibrate(o) ==
  /\ pc \in {"calibrate", "init"} /\ Request(o)
  /\ cal' = IF o.done THEN [ cal EXCEPT ![call.key] = call.update ] ELSE cal
  /\ IF o.ok /\ call.key < Len(CalKeys)
       THEN call' = [ call EXCEPT !.key = @ + 1 ] /\ UNCHANGED <<pc, past, odb>>
       ELSE /\ Return
            /\ past' = IF o.ok THEN [ past EXCEPT !.calibrated = call.update ] ELSE past
            /\ odb' = IF pc = "init" THEN odb
                      ELSE [ odb EXCEPT !.flags = @ \ {"UpdateCalibration"} ]
  /\ UNCHANGED <<notified, gantry>>

-----------------------------------------------------------------------------
(* read_arduino_state (the temperatures are left out), end_of_run, restart *)

Bank(name, o) == IF o.ok THEN {name} ELSE {}

ReadStatus(o) ==
  /\ pc = "loop" /\ Request(o)
  /\ call' = [ call EXCEPT !.banks = Bank("STAT", o), !.status = status ]
  /\ pc' = "read_position"
  /\ UNCHANGED <<odb, notified, gantry, cal, past>>

(* The event goes out with the banks that could be read.                   *)
ReadPosition(o) ==
  /\ pc = "read_position" /\ Request(o)
  /\ Return
  /\ UNCHANGED <<odb, notified, gantry, cal, past>>

end_of_run(o) ==
  /\ pc = "loop" /\ Request(o) /\ CarryOutStop(o)
  /\ UNCHANGED <<odb, notified, pc, call, cal>>

frontend_exit(o) ==
  /\ pc = "loop" /\ Request(o) /\ CarryOutStop(o)
  /\ pc' = "down" /\ notified' = {}
  /\ UNCHANGED <<odb, call, cal>>

(* The records of the three keys are opened last: a key already set is not *)
(* notified.                                                               *)
frontend_init ==
  /\ pc = "down" /\ count.restarts < MaxRestarts
  /\ count' = [ count EXCEPT !.restarts = @ + 1 ]
  /\ BeginCalibration /\ pc' = "init"
  /\ past' = [ past EXCEPT !.calibrated = -1 ]
  /\ UNCHANGED <<odb, notified, gantry, cal>>

FrontendStep ==
  \/ \E vel_ok \in BOOLEAN : move_request(vel_ok)
  \/ Respond \/ update_calibration \/ frontend_init
  \/ \E o \in Outcomes :
       \/ GetPosition(o) \/ arduino_calibrate(o) \/ start_home(o)
       \/ \E accepted \in BOOLEAN : MoveX(o, accepted) \/ MoveY(o, accepted)
       \/ ReadStatus(o) \/ ReadPosition(o) \/ end_of_run(o) \/ frontend_exit(o)

-----------------------------------------------------------------------------
(* The gantry.                                                             *)

Past(a)    == (axis[a].pos - axis[a].target) * axis[a].dir
Gantry(a, after) == axis' = [ axis EXCEPT ![a] = after ]
                    /\ UNCHANGED <<odb, notified, pc, call, cal, count>>

Travel(a) == /\ axis[a].motion = "move" /\ Past(a) < Overshoot
             /\ axis[a].pos + axis[a].dir \in RailCounts
             /\ Gantry(a, [ axis[a] EXCEPT !.pos = @ + axis[a].dir ])
             /\ UNCHANGED <<status, past>>

HomeTravel(a) == /\ axis[a].motion = "home"
                 /\ \E p \in {axis[a].pos - 1, axis[a].pos + 1} \cap RailCounts :
                      Gantry(a, [ axis[a] EXCEPT !.pos = p ])
                 /\ UNCHANGED <<status, past>>

Finish(a) == /\ axis[a].motion = "move" /\ Past(a) >= 0
             /\ Gantry(a, StoppedAt(axis[a].pos))
             /\ UNCHANGED <<status, past>>

LimitSwitch(a) == /\ axis[a].motion # "none"
                  /\ Gantry(a, StoppedAt(axis[a].pos))
                  /\ past' = Disturbed
                  /\ UNCHANGED status

EndMove == /\ status = "MOVING" /\ AtRest
           /\ status' \in {"IDLE", "FAULT"}
           /\ UNCHANGED <<odb, notified, pc, call, axis, cal, count, past>>

(* The two parts of homing are not told apart.                             *)
EndHoming ==
  /\ status = "HOMING" /\ AtRest
  /\ \/ HomeStarts(axis') /\ UNCHANGED status
     \/ axis' = [ a \in AxisId |-> StoppedAt(0) ] /\ status' = "IDLE"
     \/ status' = "FAULT" /\ UNCHANGED axis
  /\ UNCHANGED <<odb, notified, pc, call, cal, count, past>>

GantryStep == \/ \E a \in AxisId : Travel(a) \/ HomeTravel(a) \/ Finish(a) \/ LimitSwitch(a)
              \/ EndMove \/ EndHoming

Next == Operator \/ FrontendStep \/ GantryStep
Spec == Init /\ [][Next]_vars

-----------------------------------------------------------------------------
TypeOK ==
  /\ odb \in [ destination : Destinations, pulley : Pulleys,
               response : BOOLEAN \X BOOLEAN, flags : SUBSET Keys, update : 0 .. MaxRequests ]
  /\ notified \subseteq Keys
  /\ pc \in {"loop", "down", "init", "get_position", "move_x", "move_y", "respond",
             "calibrate", "read_position"}
  /\ call \in [ dest : Destinations \cup {NoCall.dest}, cur : [ AxisId -> RailCounts ],
                x_success : BOOLEAN, success : BOOLEAN, key : DOMAIN CalKeys,
                update : 0 .. MaxRequests, banks : SUBSET {"STAT"}, status : Statuses ]
  /\ axis \in [ AxisId -> [ pos : RailCounts, motion : {"none", "move", "home"},
                            dir : {-1, 1}, target : Int ] ]
  /\ status \in Statuses
  /\ cal \in [ DOMAIN CalKeys -> 0 .. MaxRequests ]
  /\ count \in [ requests : 0 .. MaxRequests, faults : 0 .. MaxFaults,
                 restarts : 0 .. MaxRestarts ]
  /\ past \in [ asked : Destinations, settled : BOOLEAN,
                calibrated : -1 .. MaxRequests ]

Succeeded == "MoveRequest" \notin odb.flags /\ odb.response = <<TRUE, TRUE>>

(* A move that was answered with success ends at the destination asked for *)
(* last, to half a count and the overshoot of the axes, if both axes stood *)
(* still when its position was read and nothing has stopped or homed them  *)
(* since (move_request, arduino_move).  It holds for an operator who waits *)
(* for MoveRequest to be reset.                                            *)
EndsAtDestination ==
  pc = "loop" /\ Succeeded /\ past.settled /\ AtRest =>
    \A a \in AxisId :
      2 * Abs(axis[a].pos * odb.pulley - past.asked[a] * CountsPerMm)
        <= odb.pulley * (1 + 2 * Overshoot)

(* After an update reported as done the controller holds the values of     *)
(* that update and no other.  One that failed, which nobody notices (its   *)
(* key is reset all the same), leaves no mixture but the values of a newer *)
(* update up to some key and those of older ones from there on             *)
(* (arduino_calibrate, update_calibration).                                *)
CalibrationWhole ==
  /\ past.calibrated # -1 => \A k \in DOMAIN CalKeys : cal[k] = past.calibrated
  /\ \A i, j \in DOMAIN CalKeys : i <= j => cal[j] <= cal[i]

(* The position in an event that says IDLE is one at which the gantry      *)
(* rests, though status and position are read one after the other          *)
(* (read_arduino_state).                                                   *)
IdleEventIsRest ==
  [][ \A o \in Outcomes :
        ReadPosition(o) /\ o.ok /\ "STAT" \in call.banks /\ call.status = "IDLE" => AtRest ]_vars

=============================================================================
