--------------------------- MODULE Frontend_proofs ---------------------------
(***************************************************************************)
(* Proofs about the gantry frontend, for every set of destinations and     *)
(* pulleys, every rail and every number of requests, lost messages and     *)
(* restarts, and whether or not the operator waits.                        *)
(***************************************************************************)
EXTENDS Frontend, TLAPS

(* Updates are numbered by requests of the operator.                       *)
Numbered == odb.update <= count.requests

(* The types of each variable.                                             *)
OdbType  == odb \in [ destination : Destinations, pulley : Pulleys,
                      response : BOOLEAN \X BOOLEAN, flags : SUBSET Keys,
                      update : 0 .. MaxRequests ]
CallType == call \in [ dest : Destinations \cup {NoCall.dest}, cur : [ AxisId -> RailCounts ],
                       x_success : BOOLEAN, success : BOOLEAN, key : DOMAIN CalKeys,
                       update : 0 .. MaxRequests, banks : SUBSET {"STAT"}, status : Statuses ]
View     == [ pos : RailCounts, motion : {"none", "move", "home"}, dir : {-1, 1}, target : Int ]
AxisType == axis \in [ AxisId -> View ]
CalType  == cal \in [ DOMAIN CalKeys -> 0 .. MaxRequests ]
CountType == count \in [ requests : 0 .. MaxRequests, faults : 0 .. MaxFaults,
                         restarts : 0 .. MaxRestarts ]
PastType == past \in [ asked : Destinations, settled : BOOLEAN, calibrated : -1 .. MaxRequests ]
PcType   == pc \in {"loop", "down", "init", "get_position", "move_x", "move_y", "respond",
                    "calibrate", "read_position"}

Typed == /\ OdbType /\ CallType /\ AxisType /\ CalType /\ CountType /\ PastType /\ PcType
         /\ notified \subseteq Keys /\ status \in Statuses
         /\ Numbered

(* While an update runs nothing is reported, and the keys before the one   *)
(* in hand hold its values.                                                *)
Updating == pc \in {"calibrate", "init"} =>
              /\ past.calibrated = -1
              /\ \A k \in DOMAIN CalKeys : k < call.key => cal[k] = call.update

(* An update reported as done has written every key.                       *)
Reported == past.calibrated # -1 => \A k \in DOMAIN CalKeys : cal[k] = past.calibrated

(* No key is newer than one before it, nor than the update that is running.*)
Layered == /\ \A k \in DOMAIN CalKeys : cal[k] <= odb.update
           /\ \A i, j \in DOMAIN CalKeys : i <= j => cal[j] <= cal[i]
           /\ pc \in {"calibrate", "init"} =>
                /\ call.update <= odb.update
                /\ \A k \in DOMAIN CalKeys : cal[k] <= call.update

(* IDLE and FAULT are states of rest, and a status read as IDLE is still   *)
(* IDLE when the position is read: only the frontend can set off a motion, *)
(* and it is reading.                                                      *)
Resting == /\ status \in {"IDLE", "FAULT"} => AtRest
           /\ pc = "read_position" /\ call.status = "IDLE" => status = "IDLE"

-----------------------------------------------------------------------------
LEMMA TypeParts == Typed => TypeOK
BY Zenon DEF Typed, TypeOK, OdbType, CallType, AxisType, View, CalType, CountType, PastType, PcType

LEMMA KeyNumbers == DOMAIN CalKeys = 1 .. 7 /\ Len(CalKeys) = 7
BY DEF CalKeys

LEMMA NoCallType == NoCall \in [ dest : Destinations \cup {NoCall.dest},
                                 cur : [ AxisId -> RailCounts ],
                                 x_success : BOOLEAN, success : BOOLEAN, key : DOMAIN CalKeys,
                                 update : 0 .. MaxRequests, banks : SUBSET {"STAT"},
                                 status : Statuses ]
BY FrontendAssumption, KeyNumbers DEF NoCall, Statuses

LEMMA NoCallDest == NoCall.dest \in [ AxisId -> Int ]
BY DEF NoCall

LEMMA StoppedType == \A p \in RailCounts : StoppedAt(p) \in View
BY DEF StoppedAt, View

LEMMA DirectionType == \A d \in Int : get_direction(d) \in {-1, 1}
BY DEF get_direction

LEMMA CountsAreWhole ==
  ASSUME OdbType, NEW mm \in Int
  PROVE  mm_to_cts(mm) \in Int
<1>1. odb.pulley \in Nat \ {0}
  BY FrontendAssumption DEF OdbType
<1>2. mm * CountsPerMm \in Int
  BY FrontendAssumption
<1>3. 2 * odb.pulley \in Nat \ {0}
  BY <1>1
<1>4. 2 * mm * CountsPerMm + odb.pulley \in Int
  BY <1>1, FrontendAssumption
<1> HIDE DEF OdbType
<1>5. \A n \in Int, d \in Nat \ {0} : n \div d \in Int
  OBVIOUS
<1> QED
  BY <1>3, <1>4, <1>5 DEF mm_to_cts

(* What the parts of an action keep.                                       *)
LEMMA RequestKeeps ==
  ASSUME CountType, NEW o \in Outcomes, Request(o)
  PROVE  CountType' /\ count'.requests = count.requests
BY FrontendAssumption DEF Request, CountType

LEMMA ReturnKeeps ==
  ASSUME Return
  PROVE  CallType' /\ pc' = "loop"
BY NoCallType DEF Return, CallType

LEMMA DisturbedType ==
  ASSUME PastType
  PROVE  /\ Disturbed \in [ asked : Destinations, settled : BOOLEAN,
                            calibrated : -1 .. MaxRequests ]
         /\ Disturbed.calibrated = past.calibrated
BY DEF PastType, Disturbed

LEMMA HomeKeeps ==
  ASSUME AxisType, HomeStarts(axis')
  PROVE  AxisType'
BY DEF HomeStarts, AxisType, View

LEMMA StopKeeps ==
  ASSUME AxisType
  PROVE  /\ StopAll \in [ AxisId -> View ]
         /\ \A a \in AxisId : StopAll[a].motion = "none"
BY StoppedType DEF StopAll, AxisType, View, StoppedAt

LEMMA CarryOutKeeps ==
  ASSUME AxisType, PastType, status \in Statuses, NEW o \in Outcomes,
         CarryOutHome(o) \/ CarryOutStop(o)
  PROVE  /\ AxisType' /\ PastType' /\ status' \in Statuses
         /\ past'.calibrated = past.calibrated
<1>1. CASE ~ o.done
  <2>1. UNCHANGED <<gantry, past>>
    BY <1>1 DEF CarryOutHome, CarryOutStop
  <2> QED
    BY <2>1 DEF gantry, AxisType, PastType
<1>2. CASE o.done /\ CarryOutHome(o)
  <2>1. HomeStarts(axis') /\ status' = "HOMING" /\ past' = Disturbed
    BY <1>2 DEF CarryOutHome
  <2> QED
    BY <2>1, HomeKeeps, DisturbedType DEF PastType, Statuses
<1>3. CASE o.done /\ CarryOutStop(o)
  <2>1. axis' = StopAll /\ status' = "IDLE" /\ past' = Disturbed
    BY <1>3 DEF CarryOutStop
  <2> QED
    BY <2>1, StopKeeps, DisturbedType DEF AxisType, PastType, Statuses
<1> QED
  BY <1>1, <1>2, <1>3

LEMMA MoveKeeps ==
  ASSUME OdbType, CallType, AxisType, status \in Statuses,
         NEW a \in AxisId, NEW o \in Outcomes, NEW accepted \in BOOLEAN,
         MoveAxis(a, o, accepted)
  PROVE  AxisType' /\ status' \in Statuses
<1>1. CASE ~ (o.done /\ accepted)
  BY <1>1 DEF MoveAxis, gantry, AxisType
<1>2. CASE o.done /\ accepted
  <2> DEFINE d == mm_to_cts(call.dest[a]) - call.cur[a]
  <2>1. StartMove(a, d)
    BY <1>2 DEF MoveAxis
  <2>2. call.dest[a] \in Int
    BY FrontendAssumption, NoCallDest DEF CallType
  <2>3. call.cur[a] \in Int
    BY FrontendAssumption DEF CallType
  <2>4. d \in Int
    BY <2>2, <2>3, CountsAreWhole
  <2> HIDE DEF d
  <2>5. get_direction(d) \in {-1, 1} /\ Abs(d) \in Int
    BY <2>4 DEF get_direction, Abs
  <2>6. axis[a].pos \in RailCounts /\ axis[a].pos \in Int
    BY FrontendAssumption DEF AxisType, View
  <2>7. axis[a].pos + get_direction(d) * Abs(d) \in Int
    BY <2>5, <2>6
  <2> QED
    BY <2>1, <2>5, <2>6, <2>7 DEF StartMove, AxisType, View, Statuses
<1> QED
  BY <1>1, <1>2

-----------------------------------------------------------------------------
(* The types, step by step.                                                *)

LEMMA OperatorTypes ==
  ASSUME Typed, Operator
  PROVE  Typed'
<1> USE DEF Typed
<1>1. ASSUME NEW d \in Destinations, SetDestination(d) PROVE Typed'
  <2>1. OdbType' /\ Numbered'
    BY <1>1 DEF SetDestination, OdbType, Numbered
  <2> QED
    BY <1>1, <2>1 DEF SetDestination, gantry, CallType, AxisType, CalType, CountType,
                      PastType, PcType
<1>2. ASSUME NEW key \in Keys, SetFlag(key) PROVE Typed'
  <2>1. CountType' /\ count'.requests = count.requests + 1
    BY <1>2, FrontendAssumption DEF SetFlag, Ask, CountType
  <2>2. OdbType'
    <3>1. odb.flags \cup {key} \in SUBSET Keys
      BY DEF OdbType
    <3>2. odb.update + 1 \in 0 .. MaxRequests
      BY <1>2, FrontendAssumption DEF SetFlag, Ask, OdbType, CountType, Numbered
    <3>3. PICK u \in 0 .. MaxRequests :
            odb' = [ odb EXCEPT !.flags = odb.flags \cup {key}, !.update = u ]
      BY <1>2, <3>2 DEF SetFlag, OdbType
    <3> QED
      BY <3>1, <3>3 DEF OdbType
  <2>3. Numbered'
    BY <1>2, <2>1 DEF SetFlag, OdbType, CountType, Numbered
  <2>4. notified' \subseteq Keys
    BY <1>2 DEF SetFlag
  <2>5. PastType'
    BY <1>2 DEF SetFlag, OdbType, PastType
  <2> QED
    BY <1>2, <2>1, <2>2, <2>3, <2>4, <2>5
       DEF SetFlag, gantry, CallType, AxisType, CalType, PcType
<1>3. ASSUME NEW p \in Pulleys, SetPulley(p) PROVE Typed'
  <2>1. OdbType' /\ PastType' /\ Numbered'
    BY <1>3 DEF SetPulley, OdbType, PastType, Numbered
  <2> QED
    BY <1>3, <2>1 DEF SetPulley, gantry, CallType, AxisType, CalType, CountType, PcType
<1> QED
  BY <1>1, <1>2, <1>3 DEF Operator

LEMMA GantryTypes ==
  ASSUME Typed, GantryStep
  PROVE  Typed'
<1> USE DEF Typed
<1>0. AxisType /\ \A a \in AxisId : axis[a] \in View /\ axis[a].pos \in RailCounts
  BY DEF AxisType, View
<1>1. ASSUME NEW a \in AxisId, NEW after \in View, Gantry(a, after),
             UNCHANGED status, past' = past \/ past' = Disturbed
      PROVE  Typed'
  <2>1. AxisType'
    BY <1>0, <1>1 DEF Gantry, AxisType
  <2>2. PastType'
    BY <1>1, DisturbedType DEF PastType
  <2> QED
    BY <1>1, <2>1, <2>2 DEF Gantry, OdbType, CallType, CalType, CountType, PcType, Numbered
<1>2. ASSUME NEW a \in AxisId, Travel(a) \/ HomeTravel(a) \/ Finish(a) \/ LimitSwitch(a)
      PROVE  Typed'
  <2>1. CASE Travel(a)
    <3>1. [ axis[a] EXCEPT !.pos = axis[a].pos + axis[a].dir ] \in View
      BY <1>0, <2>1 DEF Travel, View
    <3> QED
      BY <1>1, <2>1, <3>1 DEF Travel
  <2>2. CASE HomeTravel(a)
    <3>1. PICK p \in {axis[a].pos - 1, axis[a].pos + 1} \cap RailCounts :
            Gantry(a, [ axis[a] EXCEPT !.pos = p ])
      BY <2>2 DEF HomeTravel
    <3>2. [ axis[a] EXCEPT !.pos = p ] \in View
      BY <1>0, <3>1 DEF View
    <3> QED
      BY <1>1, <2>2, <3>1, <3>2 DEF HomeTravel
  <2>3. CASE Finish(a)
    BY <1>0, <1>1, <2>3, StoppedType DEF Finish
  <2>4. CASE LimitSwitch(a)
    BY <1>0, <1>1, <2>4, StoppedType DEF LimitSwitch
  <2> QED
    BY <1>2, <2>1, <2>2, <2>3, <2>4
<1>3. CASE EndMove
  BY <1>3 DEF EndMove, OdbType, CallType, AxisType, CalType, CountType, PastType, PcType,
              Numbered, Statuses
<1>4. CASE EndHoming
  <2>1. AxisType' /\ status' \in Statuses
    <3>1. CASE HomeStarts(axis') /\ UNCHANGED status
      BY <1>0, <3>1, HomeKeeps
    <3>2. CASE axis' = [ a \in AxisId |-> StoppedAt(0) ] /\ status' = "IDLE"
      BY <3>2, StoppedType, FrontendAssumption DEF AxisType, Statuses
    <3>3. CASE status' = "FAULT" /\ UNCHANGED axis
      BY <1>0, <3>3 DEF AxisType, Statuses
    <3> QED
      BY <1>4, <3>1, <3>2, <3>3 DEF EndHoming
  <2> QED
    BY <1>4, <2>1 DEF EndHoming, OdbType, CallType, CalType, CountType, PastType, PcType,
                      Numbered
<1> QED
  BY <1>2, <1>3, <1>4 DEF GantryStep

LEMMA CallChanges ==
  ASSUME OdbType, CallType
  PROVE  /\ BeginCalibration => CallType'
         /\ call' = [ call EXCEPT !.dest = odb.destination, !.success = FALSE ] => CallType'
<1>1. ASSUME BeginCalibration PROVE CallType'
  <2>1. 1 \in DOMAIN CalKeys /\ odb.update \in 0 .. MaxRequests
    BY KeyNumbers DEF OdbType
  <2>2. call' = [ call EXCEPT !.key = 1, !.update = odb.update ]
    BY <1>1 DEF BeginCalibration
  <2> HIDE DEF OdbType
  <2> QED
    BY <2>1, <2>2 DEF CallType
<1>2. ASSUME call' = [ call EXCEPT !.dest = odb.destination, !.success = FALSE ]
      PROVE  CallType'
  <2>1. odb.destination \in Destinations
    BY DEF OdbType
  <2> QED
    BY <1>2, <2>1 DEF CallType
<1> QED
  BY <1>1, <1>2

LEMMA RequestTypes ==
  ASSUME Typed, NEW o \in Outcomes,
         GetPosition(o) \/ arduino_calibrate(o) \/ start_home(o) \/ ReadStatus(o)
           \/ ReadPosition(o) \/ end_of_run(o) \/ frontend_exit(o)
  PROVE  Typed'
<1> USE DEF Typed
<1>0. o.ok \in BOOLEAN /\ o.done \in BOOLEAN
  BY DEF Outcomes
<1>1. CASE GetPosition(o)
  <2>1. CountType' /\ Numbered'
    BY <1>1, RequestKeeps DEF GetPosition, Numbered
  <2>2. PastType'
    BY <1>1 DEF GetPosition, PastType, AtRest
  <2>3. CallType' /\ PcType'
    <3>1. [ a \in AxisId |-> axis[a].pos ] \in [ AxisId -> RailCounts ]
      BY DEF AxisType, View
    <3> QED
      BY <1>1, <3>1 DEF GetPosition, CallType, PcType
  <2> QED
    BY <1>1, <2>1, <2>2, <2>3 DEF GetPosition, gantry, OdbType, AxisType, CalType
<1>2. CASE arduino_calibrate(o)
  <2>1. CountType' /\ count'.requests = count.requests
    BY <1>2, RequestKeeps DEF arduino_calibrate
  <2>2. CalType'
    BY <1>2 DEF arduino_calibrate, CallType, CalType
  <2>3. CASE o.ok /\ call.key < Len(CalKeys)
    <3>1. call' = [ call EXCEPT !.key = call.key + 1 ] /\ UNCHANGED <<pc, past, odb>>
      BY <1>2, <2>3 DEF arduino_calibrate
    <3>2. CallType'
      BY <2>3, <3>1, KeyNumbers DEF CallType
    <3> QED
      BY <1>2, <2>1, <2>2, <3>1, <3>2
         DEF arduino_calibrate, gantry, OdbType, AxisType, PastType, PcType, Numbered
  <2>4. CASE ~ (o.ok /\ call.key < Len(CalKeys))
    <3>1. CallType' /\ PcType'
      BY <1>2, <2>4, ReturnKeeps DEF arduino_calibrate, PcType
    <3>2. PastType'
      BY <1>2, <2>4, FrontendAssumption DEF arduino_calibrate, PastType, CallType
    <3>3. OdbType' /\ odb'.update = odb.update
      BY <1>2, <2>4 DEF arduino_calibrate, OdbType
    <3> QED
      BY <1>2, <2>1, <2>2, <3>1, <3>2, <3>3 DEF arduino_calibrate, gantry, AxisType, Numbered
  <2> QED
    BY <2>3, <2>4
<1>3. CASE start_home(o)
  <2>1. notified' \subseteq Keys /\ UNCHANGED <<pc, call, cal>>
    BY <1>3 DEF start_home, Dispatch
  <2>2. /\ AxisType' /\ PastType' /\ status' \in Statuses /\ CountType'
        /\ count'.requests = count.requests
        /\ OdbType' /\ odb'.update = odb.update
    <3>1. CASE "StartHome" \notin odb.flags
      BY <1>3, <3>1 DEF start_home, gantry, AxisType, PastType, CountType, OdbType
    <3>2. CASE "StartHome" \in odb.flags
      <4>1. Request(o) /\ CarryOutHome(o) /\ odb' = [ odb EXCEPT !.flags = @ \ {"StartHome"} ]
        BY <1>3, <3>2 DEF start_home
      <4>2. OdbType' /\ odb'.update = odb.update
        BY <4>1 DEF OdbType
      <4> QED
        BY <4>1, <4>2, RequestKeeps, CarryOutKeeps
    <3> QED
      BY <3>1, <3>2
  <2> QED
    BY <2>1, <2>2 DEF CallType, CalType, PcType, Numbered
<1>4. CASE ReadStatus(o)
  <2>1. CountType' /\ Numbered'
    BY <1>4, RequestKeeps DEF ReadStatus, Numbered
  <2>2. CallType' /\ PcType'
    BY <1>4 DEF ReadStatus, CallType, PcType, Bank
  <2> QED
    BY <1>4, <2>1, <2>2 DEF ReadStatus, gantry, OdbType, AxisType, CalType, PastType
<1>5. CASE ReadPosition(o)
  <2>1. CountType' /\ Numbered'
    BY <1>5, RequestKeeps DEF ReadPosition, Numbered
  <2>2. CallType' /\ PcType'
    BY <1>5, ReturnKeeps DEF ReadPosition, PcType
  <2> QED
    BY <1>5, <2>1, <2>2 DEF ReadPosition, gantry, OdbType, AxisType, CalType, PastType
<1>6. CASE end_of_run(o)
  <2>1. CountType' /\ Numbered'
    BY <1>6, RequestKeeps DEF end_of_run, Numbered
  <2>2. AxisType' /\ PastType' /\ status' \in Statuses
    BY <1>6, CarryOutKeeps DEF end_of_run
  <2> QED
    BY <1>6, <2>1, <2>2 DEF end_of_run, OdbType, CallType, CalType, PcType
<1>7. CASE frontend_exit(o)
  <2>1. CountType' /\ Numbered'
    BY <1>7, RequestKeeps DEF frontend_exit, Numbered
  <2>2. AxisType' /\ PastType' /\ status' \in Statuses
    BY <1>7, CarryOutKeeps DEF frontend_exit
  <2> QED
    BY <1>7, <2>1, <2>2 DEF frontend_exit, OdbType, CallType, CalType, PcType
<1> QED
  BY <1>1, <1>2, <1>3, <1>4, <1>5, <1>6, <1>7

LEMMA FrontendTypes ==
  ASSUME Typed, FrontendStep
  PROVE  Typed'
<1> USE DEF Typed
<1>1. ASSUME NEW vel_ok \in BOOLEAN, move_request(vel_ok) PROVE Typed'
  <2>0. notified' \subseteq Keys /\ UNCHANGED <<gantry, cal, count>>
    BY <1>1 DEF move_request, Dispatch
  <2>1. CASE "MoveRequest" \notin odb.flags
    BY <1>1, <2>0, <2>1 DEF move_request, gantry, OdbType, CallType, AxisType, CalType,
                            CountType, PastType, PcType, Numbered
  <2>2. CASE "MoveRequest" \in odb.flags
    <3>1. OdbType' /\ odb'.update = odb.update
      <4>1. <<FALSE, FALSE>> \in BOOLEAN \X BOOLEAN
        OBVIOUS
      <4>2. odb' = [ odb EXCEPT !.response = <<FALSE, FALSE>> ]
        BY <1>1, <2>2 DEF move_request
      <4> QED
        BY <4>1, <4>2 DEF OdbType
    <3>2. CallType' /\ PcType'
      BY <1>1, <2>2, CallChanges DEF move_request, PcType
    <3>3. PastType'
      BY <1>1, <2>2, DisturbedType DEF move_request, PastType
    <3> QED
      BY <2>0, <3>1, <3>2, <3>3 DEF gantry, AxisType, CalType, CountType, Numbered
  <2> QED
    BY <2>1, <2>2
<1>2. CASE Respond
  <2>1. OdbType' /\ odb'.update = odb.update
    <3>1. call.success \in BOOLEAN
      BY DEF CallType
    <3>2. <<TRUE, call.success>> \in BOOLEAN \X BOOLEAN
      BY <3>1
    <3> QED
      BY <1>2, <3>2 DEF Respond, OdbType
  <2>2. CallType' /\ PcType'
    BY <1>2, ReturnKeeps DEF Respond, PcType
  <2> QED
    BY <1>2, <2>1, <2>2 DEF Respond, gantry, AxisType, CalType, CountType, PastType, Numbered
<1>3. CASE update_calibration
  <2>1. CallType' /\ PcType'
    BY <1>3, CallChanges DEF update_calibration, CallType, PcType
  <2>2. PastType' /\ notified' \subseteq Keys
    BY <1>3, FrontendAssumption DEF update_calibration, Dispatch, PastType
  <2> QED
    BY <1>3, <2>1, <2>2 DEF update_calibration, gantry, OdbType, AxisType, CalType, CountType,
                            Numbered
<1>4. CASE frontend_init
  <2>1. CallType' /\ PcType'
    BY <1>4, CallChanges DEF frontend_init, PcType
  <2>2. PastType'
    BY <1>4, FrontendAssumption DEF frontend_init, PastType
  <2>3. CountType' /\ count'.requests = count.requests
    BY <1>4, FrontendAssumption DEF frontend_init, CountType
  <2> QED
    BY <1>4, <2>1, <2>2, <2>3 DEF frontend_init, gantry, OdbType, AxisType, CalType, Numbered
<1>5. ASSUME NEW o \in Outcomes, NEW accepted \in BOOLEAN,
             MoveX(o, accepted) \/ MoveY(o, accepted)
      PROVE  Typed'
  <2>0. o.ok \in BOOLEAN
    BY DEF Outcomes
  <2>1. CountType' /\ Numbered'
    BY <1>5, RequestKeeps DEF MoveX, MoveY, Numbered
  <2>2. AxisType' /\ status' \in Statuses
    BY <1>5, MoveKeeps DEF MoveX, MoveY, AxisId
  <2>3. CallType' /\ PcType'
    <3>1. CASE MoveX(o, accepted)
      <4>1. (o.ok /\ accepted) \in BOOLEAN
        OBVIOUS
      <4> QED
        BY <3>1, <4>1 DEF MoveX, CallType, PcType
    <3>2. CASE MoveY(o, accepted)
      <4>1. (call.x_success /\ o.ok /\ accepted) \in BOOLEAN
        OBVIOUS
      <4> QED
        BY <3>2, <4>1 DEF MoveY, CallType, PcType
    <3> QED
      BY <1>5, <3>1, <3>2
  <2> QED
    BY <1>5, <2>1, <2>2, <2>3 DEF MoveX, MoveY, OdbType, CalType, PastType
<1> QED
  BY <1>1, <1>2, <1>3, <1>4, <1>5, RequestTypes DEF FrontendStep

LEMMA InitTypes == Init => Typed
<1> SUFFICES ASSUME Init PROVE Typed
  OBVIOUS
<1>1. PICK d \in Destinations, p \in Pulleys :
        odb = [ destination |-> d, pulley |-> p, response |-> <<FALSE, FALSE>>,
                flags |-> {}, update |-> 0 ]
  BY DEF Init
<1>2. <<FALSE, FALSE>> \in BOOLEAN \X BOOLEAN
  OBVIOUS
<1>3. OdbType /\ Numbered
  BY <1>1, <1>2, FrontendAssumption DEF Init, OdbType, Numbered
<1>4. CallType /\ PcType
  BY NoCallType DEF Init, CallType, PcType
<1>5. AxisType /\ status \in Statuses
  BY StoppedType, FrontendAssumption DEF Init, AxisType, Statuses
<1>6. CalType /\ CountType /\ PastType
  BY <1>1, FrontendAssumption DEF Init, CalType, CountType, PastType
<1> QED
  BY <1>3, <1>4, <1>5, <1>6 DEF Init, Typed

LEMMA TypeStep ==
  ASSUME Typed, [Next]_vars
  PROVE  Typed'
<1>1. CASE UNCHANGED vars
  BY <1>1 DEF vars, Typed, OdbType, CallType, AxisType, CalType, CountType, PastType, PcType,
              Numbered
<1> QED
  BY <1>1, OperatorTypes, FrontendTypes, GantryTypes DEF Next

(* The parts of the types hold always.                                     *)
THEOREM Types == Spec => []Typed
BY InitTypes, TypeStep, PTL DEF Spec

(* The variables have their types, whatever the operator asks for.         *)
THEOREM TypeCorrect == Spec => []TypeOK
BY Types, TypeParts, PTL

-----------------------------------------------------------------------------
(* Calibration.                                                            *)

LEMMA UpdatingStep ==
  ASSUME Typed, Updating, Reported, [Next]_vars
  PROVE  Updating' /\ Reported'
<1> USE DEF Typed
<1>1. ASSUME UNCHANGED <<pc, call, cal>>, past'.calibrated = past.calibrated
      PROVE  Updating' /\ Reported'
  BY <1>1 DEF Updating, Reported
<1>2. ASSUME UNCHANGED cal, past'.calibrated = past.calibrated, pc' \notin {"calibrate", "init"}
      PROVE  Updating' /\ Reported'
  BY <1>2 DEF Updating, Reported
<1>3. ASSUME UNCHANGED cal, past'.calibrated = -1, call'.key = 1
      PROVE  Updating' /\ Reported'
  BY <1>3, KeyNumbers DEF Updating, Reported
<1>4. CASE Operator
  <2>1. UNCHANGED <<pc, call, cal>>
    BY <1>4 DEF Operator, SetDestination, SetFlag, SetPulley
  <2>2. past'.calibrated = past.calibrated
    BY <1>4 DEF Operator, SetDestination, SetFlag, SetPulley, PastType
  <2> QED
    BY <1>1, <2>1, <2>2
<1>5. CASE GantryStep
  <2>1. UNCHANGED <<pc, call, cal>>
    BY <1>5 DEF GantryStep, Travel, HomeTravel, Finish, LimitSwitch, Gantry, EndMove, EndHoming
  <2>2. past' = past \/ past' = Disturbed
    BY <1>5 DEF GantryStep, Travel, HomeTravel, Finish, LimitSwitch, Gantry, EndMove, EndHoming
  <2> QED
    BY <1>1, <2>1, <2>2, DisturbedType
<1>6. CASE UNCHANGED vars
  BY <1>1, <1>6 DEF vars
<1>7. ASSUME NEW vel_ok \in BOOLEAN, move_request(vel_ok)
      PROVE  Updating' /\ Reported'
  <2>1. UNCHANGED cal /\ (past' = past \/ past' = Disturbed)
    BY <1>7 DEF move_request
  <2>2. pc' \notin {"calibrate", "init"}
    BY <1>7 DEF move_request, Dispatch
  <2> QED
    BY <1>2, <2>1, <2>2, DisturbedType
<1>8. CASE Respond
  BY <1>2, <1>8 DEF Respond, Return
<1>9. CASE update_calibration
  <2>1. UNCHANGED cal /\ past'.calibrated = -1
    BY <1>9 DEF update_calibration, PastType
  <2>2. CASE "UpdateCalibration" \notin odb.flags
    BY <1>9, <2>1, <2>2 DEF update_calibration, Dispatch, Updating, Reported
  <2>3. CASE "UpdateCalibration" \in odb.flags
    BY <1>3, <1>9, <2>1, <2>3 DEF update_calibration, BeginCalibration, CallType
  <2> QED
    BY <2>2, <2>3
<1>10. CASE frontend_init
  BY <1>3, <1>10 DEF frontend_init, BeginCalibration, CallType, PastType
<1>11. ASSUME NEW o \in Outcomes, arduino_calibrate(o)
       PROVE  Updating' /\ Reported'
  <2>1. /\ past.calibrated = -1 /\ call.key \in 1 .. 7
        /\ \A k \in 1 .. 7 : k < call.key => cal[k] = call.update
    BY <1>11, KeyNumbers DEF arduino_calibrate, Updating, CallType
  <2>2. o.ok => \A k \in 1 .. 7 : k <= call.key => cal'[k] = call.update
    <3>1. o.ok => cal' = [ cal EXCEPT ![call.key] = call.update ]
      BY <1>11 DEF arduino_calibrate, Outcomes
    <3> QED
      BY <2>1, <3>1, KeyNumbers DEF CalType
  <2>3. CASE o.ok /\ call.key < Len(CalKeys)
    <3>1. UNCHANGED <<pc, past>> /\ call'.key = call.key + 1 /\ call'.update = call.update
      BY <1>11, <2>3 DEF arduino_calibrate, CallType
    <3> QED
      BY <2>1, <2>2, <2>3, <3>1, KeyNumbers DEF Updating, Reported
  <2>4. CASE ~ (o.ok /\ call.key < Len(CalKeys))
    <3>1. pc' = "loop"
      BY <1>11, <2>4 DEF arduino_calibrate, Return
    <3>2. CASE o.ok
      <4>1. call.key = 7 /\ past'.calibrated = call.update
        BY <1>11, <2>1, <2>4, <3>2, KeyNumbers DEF arduino_calibrate, PastType
      <4> QED
        BY <2>2, <3>1, <3>2, <4>1, KeyNumbers DEF Updating, Reported
    <3>3. CASE ~ o.ok
      <4>1. past' = past
        BY <1>11, <3>3 DEF arduino_calibrate
      <4> QED
        BY <2>1, <3>1, <4>1 DEF Updating, Reported
    <3> QED
      BY <3>2, <3>3
  <2> QED
    BY <2>3, <2>4
<1>12. ASSUME NEW o \in Outcomes, GetPosition(o)
       PROVE  Updating' /\ Reported'
  BY <1>2, <1>12 DEF GetPosition, PastType
<1>13. ASSUME NEW o \in Outcomes, start_home(o) \/ end_of_run(o) \/ frontend_exit(o)
       PROVE  Updating' /\ Reported'
  <2>1. past'.calibrated = past.calibrated
    <3>1. past' = past \/ CarryOutHome(o) \/ CarryOutStop(o)
      BY <1>13 DEF start_home, end_of_run, frontend_exit
    <3> QED
      BY <3>1, CarryOutKeeps
  <2>2. UNCHANGED cal /\ pc' \notin {"calibrate", "init"}
    BY <1>13 DEF start_home, Dispatch, end_of_run, frontend_exit
  <2> QED
    BY <1>2, <2>1, <2>2
<1>14. ASSUME NEW o \in Outcomes, NEW accepted \in BOOLEAN,
              \/ MoveX(o, accepted) \/ MoveY(o, accepted)
              \/ ReadStatus(o) \/ ReadPosition(o)
       PROVE  Updating' /\ Reported'
  BY <1>2, <1>14 DEF MoveX, MoveY, ReadStatus, ReadPosition, Return
<1> QED
  BY <1>4, <1>5, <1>6, <1>7, <1>8, <1>9, <1>10, <1>11, <1>12, <1>13, <1>14
     DEF Next, FrontendStep

(* The values of a newer update come before those of older ones.           *)
LEMMA LayeredStep ==
  ASSUME Typed, Updating, Layered, [Next]_vars
  PROVE  Layered'
<1> USE DEF Typed
<1>0. /\ odb.update \in Int /\ call.update \in Int /\ \A k \in 1 .. 7 : cal[k] \in Int
      /\ call.key \in 1 .. 7
  BY KeyNumbers, FrontendAssumption DEF OdbType, CallType, CalType
<1>1. ASSUME UNCHANGED cal, odb'.update = odb.update,
             \/ pc' \notin {"calibrate", "init"}
             \/ UNCHANGED <<pc, call>>
             \/ call'.update = odb.update
      PROVE  Layered'
  <2>1. pc' \in {"calibrate", "init"} =>
          /\ call'.update <= odb.update
          /\ \A k \in DOMAIN CalKeys : cal[k] <= call'.update
    <3>1. CASE pc' \notin {"calibrate", "init"}
      BY <3>1
    <3>2. CASE UNCHANGED <<pc, call>>
      BY <3>2 DEF Layered
    <3>3. CASE call'.update = odb.update
      <4>1. \A k \in DOMAIN CalKeys : cal[k] <= odb.update
        BY DEF Layered
      <4> QED
        BY <1>0, <3>3, <4>1
    <3> QED
      BY <1>1, <3>1, <3>2, <3>3
  <2> QED
    BY <1>1, <2>1 DEF Layered
<1>2. CASE Operator
  <2>1. UNCHANGED <<pc, call, cal>>
    BY <1>2 DEF Operator, SetDestination, SetFlag, SetPulley
  <2>2. odb'.update = odb.update \/ odb'.update = odb.update + 1
    BY <1>2 DEF Operator, SetDestination, SetFlag, SetPulley, OdbType
  <2>3. odb.update <= odb'.update /\ odb'.update \in Int
    BY <1>0, <2>2
  <2>4. \A k \in 1 .. 7 : cal[k] <= odb.update => cal[k] <= odb'.update
    BY <1>0, <2>3
  <2>5. call.update <= odb.update => call.update <= odb'.update
    BY <1>0, <2>3
  <2> QED
    BY <2>1, <2>4, <2>5, KeyNumbers DEF Layered
<1>3. CASE GantryStep
  BY <1>1, <1>3 DEF GantryStep, Travel, HomeTravel, Finish, LimitSwitch, Gantry, EndMove, EndHoming
<1>4. CASE UNCHANGED vars
  BY <1>1, <1>4 DEF vars
<1>5. ASSUME NEW vel_ok \in BOOLEAN, move_request(vel_ok) PROVE Layered'
  BY <1>1, <1>5 DEF move_request, Dispatch, OdbType
<1>6. CASE Respond
  BY <1>1, <1>6 DEF Respond, Return, OdbType
<1>7. CASE update_calibration
  BY <1>1, <1>7 DEF update_calibration, BeginCalibration, CallType
<1>8. CASE frontend_init
  BY <1>1, <1>8 DEF frontend_init, BeginCalibration, CallType
<1>9. ASSUME NEW o \in Outcomes, arduino_calibrate(o) PROVE Layered'
  <2>1. /\ call.update <= odb.update /\ \A k \in 1 .. 7 : cal[k] <= call.update
        /\ \A k \in 1 .. 7 : k < call.key => cal[k] = call.update
        /\ \A i, j \in 1 .. 7 : i <= j => cal[j] <= cal[i]
    BY <1>9, KeyNumbers DEF arduino_calibrate, Updating, Layered
  <2>2. \A k \in 1 .. 7 : \/ cal'[k] = cal[k]
                          \/ k = call.key /\ cal'[k] = call.update
    BY <1>9, KeyNumbers DEF arduino_calibrate, CalType
  <2>3. /\ \A k \in 1 .. 7 : cal'[k] <= call.update
        /\ \A i, j \in 1 .. 7 : i <= j => cal'[j] <= cal'[i]
    BY <1>0, <2>1, <2>2
  <2>4. /\ odb'.update = odb.update
        /\ pc' \notin {"calibrate", "init"} \/ call'.update = call.update
    BY <1>9 DEF arduino_calibrate, Return, OdbType, CallType
  <2>5. \A k \in 1 .. 7 : cal'[k] \in Int /\ cal'[k] <= odb.update
    BY <1>0, <2>1, <2>2, <2>3
  <2> QED
    BY <2>1, <2>3, <2>4, <2>5, KeyNumbers DEF Layered
<1>10. ASSUME NEW o \in Outcomes, start_home(o) \/ end_of_run(o) \/ frontend_exit(o)
       PROVE  Layered'
  BY <1>1, <1>10 DEF start_home, Dispatch, end_of_run, frontend_exit, OdbType
<1>11. ASSUME NEW o \in Outcomes, NEW accepted \in BOOLEAN,
              \/ GetPosition(o) \/ MoveX(o, accepted) \/ MoveY(o, accepted)
              \/ ReadStatus(o) \/ ReadPosition(o)
       PROVE  Layered'
  BY <1>1, <1>11 DEF GetPosition, MoveX, MoveY, ReadStatus, ReadPosition, Return
<1> QED
  BY <1>2, <1>3, <1>4, <1>5, <1>6, <1>7, <1>8, <1>9, <1>10, <1>11 DEF Next, FrontendStep

(* After an update reported as done the controller holds the values of     *)
(* that update and no other, and one that failed leaves newer values up to *)
(* some key and older ones from there on (arduino_calibrate).              *)
THEOREM CalibrationIsWhole == Spec => []CalibrationWhole
<1>1. Init => Updating /\ Reported /\ Layered
  <2> SUFFICES ASSUME Init PROVE Updating /\ Reported /\ Layered
    OBVIOUS
  <2>1. Updating /\ Reported
    BY DEF Init, Updating, Reported
  <2>2. odb.update = 0 /\ pc = "loop" /\ \A k \in DOMAIN CalKeys : cal[k] = 0
    BY DEF Init
  <2> QED
    BY <2>1, <2>2 DEF Layered
<1>2. Typed /\ Updating /\ Reported /\ Layered /\ [Next]_vars
        => Updating' /\ Reported' /\ Layered'
  BY UpdatingStep, LayeredStep
<1>3. Reported /\ Layered => CalibrationWhole
  BY DEF Reported, Layered, CalibrationWhole
<1> QED
  BY <1>1, <1>2, <1>3, Types, PTL DEF Spec

-----------------------------------------------------------------------------
(* Rest.                                                                   *)

LEMMA RestingStep ==
  ASSUME Typed, Resting, [Next]_vars
  PROVE  Resting'
<1> USE DEF Typed
<1>1. ASSUME UNCHANGED gantry, (pc' = pc /\ call' = call) \/ pc' # "read_position"
      PROVE  Resting'
  BY <1>1 DEF Resting, gantry, AtRest
<1>2. ASSUME status' \in {"HOMING", "MOVING"} \/ AtRest', pc' # "read_position"
      PROVE  Resting'
  BY <1>2 DEF Resting
<1>3. CASE Operator
  BY <1>1, <1>3 DEF Operator, SetDestination, SetFlag, SetPulley
<1>4. CASE UNCHANGED vars
  BY <1>1, <1>4 DEF vars, gantry
<1>5. ASSUME NEW a \in AxisId, Travel(a) \/ HomeTravel(a) \/ Finish(a) \/ LimitSwitch(a)
      PROVE  Resting'
  <2>1. UNCHANGED <<status, pc, call>>
    BY <1>5 DEF Travel, HomeTravel, Finish, LimitSwitch, Gantry
  <2>2. axis[a].motion # "none"
    BY <1>5 DEF Travel, HomeTravel, Finish, LimitSwitch
  <2> QED
    BY <2>1, <2>2 DEF Resting, AtRest
<1>6. CASE EndMove
  BY <1>6 DEF EndMove, Resting, AtRest
<1>7. CASE EndHoming
  <2>1. UNCHANGED <<pc, call>> /\ status = "HOMING"
    BY <1>7 DEF EndHoming
  <2>2. status' = "HOMING" \/ AtRest'
    BY <1>7 DEF EndHoming, AtRest, StoppedAt
  <2> QED
    BY <2>1, <2>2 DEF Resting
<1>8. ASSUME NEW o \in Outcomes, start_home(o) \/ end_of_run(o) \/ frontend_exit(o)
      PROVE  Resting'
  <2>1. pc' # "read_position"
    BY <1>8 DEF start_home, Dispatch, end_of_run, frontend_exit
  <2>2. \/ UNCHANGED gantry
        \/ status' = "HOMING"
        \/ axis' = StopAll
    BY <1>8 DEF start_home, end_of_run, frontend_exit, CarryOutHome, CarryOutStop
  <2>3. axis' = StopAll => AtRest'
    BY StopKeeps DEF AtRest
  <2> QED
    BY <1>1, <1>2, <2>1, <2>2, <2>3
<1>9. ASSUME NEW o \in Outcomes, NEW accepted \in BOOLEAN,
             MoveX(o, accepted) \/ MoveY(o, accepted)
      PROVE  Resting'
  <2>1. pc' # "read_position"
    BY <1>9 DEF MoveX, MoveY
  <2>2. UNCHANGED gantry \/ status' = "MOVING"
    BY <1>9 DEF MoveX, MoveY, MoveAxis, StartMove
  <2> QED
    BY <1>1, <1>2, <2>1, <2>2
<1>10. ASSUME NEW o \in Outcomes, ReadStatus(o)
       PROVE  Resting'
  <2>1. UNCHANGED gantry
    BY <1>10 DEF ReadStatus
  <2>2. call'.status = status
    BY <1>10 DEF ReadStatus, CallType
  <2> QED
    BY <2>1, <2>2 DEF Resting, AtRest, gantry
<1>11. ASSUME NEW vel_ok \in BOOLEAN, move_request(vel_ok)
       PROVE  Resting'
  BY <1>1, <1>11 DEF move_request, Dispatch
<1>12. CASE Respond \/ update_calibration \/ frontend_init
  BY <1>1, <1>12 DEF Respond, Return, update_calibration, Dispatch, frontend_init
<1>13. ASSUME NEW o \in Outcomes, GetPosition(o) \/ arduino_calibrate(o) \/ ReadPosition(o)
       PROVE  Resting'
  BY <1>1, <1>13 DEF GetPosition, arduino_calibrate, ReadPosition, Return
<1> QED
  BY <1>3, <1>4, <1>5, <1>6, <1>7, <1>8, <1>9, <1>10, <1>11, <1>12, <1>13
     DEF Next, FrontendStep, GantryStep

(* IDLE and FAULT are states of rest (execute).                            *)
THEOREM Rest == Spec => []Resting
<1>1. Init => Resting
  BY DEF Init, Resting, AtRest, StoppedAt
<1> QED
  BY <1>1, RestingStep, Types, PTL DEF Spec

(* The position in an event that says IDLE is one at which the gantry      *)
(* rests, though status and position are two requests (read_arduino_state).*)
THEOREM IdleIsRest == Spec => IdleEventIsRest
<1>1. ASSUME Resting
      PROVE  \A o \in Outcomes :
               ReadPosition(o) /\ o.ok /\ "STAT" \in call.banks /\ call.status = "IDLE"
                 => AtRest
  BY <1>1 DEF Resting, ReadPosition
<1> QED
  BY <1>1, Rest, PTL DEF IdleEventIsRest

-----------------------------------------------------------------------------
(* Where a move ends.                                                      *)

InMove == pc \in {"get_position", "move_x", "move_y", "respond"}

(* An operator who waits leaves the destination alone while MoveRequest    *)
(* stands, and it stands as long as the move is being served.              *)
Asked == /\ "MoveRequest" \in odb.flags => odb.destination = past.asked
         /\ InMove => "MoveRequest" \in odb.flags /\ call.dest = past.asked
         /\ pc = "get_position" => ~ call.success

(* An axis is on its way to the count asked for, or stands next to it.     *)
OnCourse(a) ==
  LET goal == mm_to_cts(past.asked[a])
  IN  \/ axis[a].motion = "move" /\ axis[a].target = goal /\ Past(a) <= Overshoot
      \/ axis[a].motion = "none" /\ Abs(axis[a].pos - goal) <= Overshoot

(* An axis has not moved since its position was read.                      *)
Waiting(a) == axis[a].motion = "none" /\ call.cur[a] = axis[a].pos

(* How far a move has come that began at rest and was not disturbed.       *)
Course == past.settled =>
            /\ status # "HOMING" /\ pc # "get_position"
            /\ pc = "move_x" => Waiting("X") /\ Waiting("Y")
            /\ pc = "move_y" => Waiting("Y") /\ (call.x_success => OnCourse("X"))
            /\ (pc = "respond" /\ call.success) \/ Succeeded => OnCourse("X") /\ OnCourse("Y")

LEMMA Rounding ==
  ASSUME NEW t \in Int, NEW x \in Int, NEW p \in Nat \ {0}, t = (2 * x + p) \div (2 * p)
  PROVE  2 * (p * t) <= 2 * x + p /\ 2 * x + p < 2 * (p * t) + 2 * p
<1> DEFINE b == 2 * p   a == 2 * x + p
<1>1. b \in Nat \ {0} /\ a \in Int
  OBVIOUS
<1> HIDE DEF a, b
<1>2. b * t <= a /\ a < b * t + b
  <2>1. t = a \div b
    BY DEF a, b
  <2> QED
    BY <1>1, <2>1
<1>3. b * t = 2 * (p * t)
  BY DEF b
<1> QED
  BY <1>2, <1>3 DEF a, b

LEMMA CountsOverPulley ==
  ASSUME NEW t \in Int, NEW x \in Int, NEW p \in Nat \ {0}, NEW pos \in Int,
         t = (2 * x + p) \div (2 * p), NEW n \in Nat, Abs(pos - t) <= n
  PROVE  2 * Abs(pos * p - x) <= p * (1 + 2 * n)
<1> DEFINE e == pos - t
<1>1. e \in Int /\ - n <= e /\ e <= n
  BY DEF Abs
<1>2. pos * p = p * t + p * e /\ p * t \in Int /\ p * e \in Int /\ p * n \in Int
  BY <1>1
<1> HIDE DEF e
<1>3. - (p * n) <= p * e /\ p * e <= p * n
  BY <1>1
<1>4. p * (1 + 2 * n) = p + 2 * (p * n)
  OBVIOUS
<1>5. 2 * (p * t) <= 2 * x + p /\ 2 * x + p < 2 * (p * t) + 2 * p
  BY Rounding
<1> DEFINE u == p * t   v == p * e   w == p * n   z == pos * p
<1>6. /\ u \in Int /\ v \in Int /\ w \in Int /\ z = u + v
      /\ - w <= v /\ v <= w /\ 2 * u <= 2 * x + p /\ 2 * x + p < 2 * u + 2 * p
  BY <1>2, <1>3, <1>5
<1> HIDE DEF u, v, w, z
<1>7. 2 * Abs(z - x) <= p + 2 * w
  BY <1>6 DEF Abs
<1> QED
  BY <1>4, <1>7 DEF w, z

LEMMA AskedStep ==
  ASSUME Patient, Typed, Asked, [Next]_vars
  PROVE  Asked'
<1> USE DEF Typed
<1>1. ASSUME (pc' = pc /\ call' = call) \/ ~ InMove', past'.asked = past.asked,
             odb'.destination = odb.destination,
             "MoveRequest" \in odb'.flags <=> "MoveRequest" \in odb.flags
      PROVE  Asked'
  BY <1>1 DEF Asked, InMove
<1>2. ASSUME NEW d \in Destinations, SetDestination(d) PROVE Asked'
  BY <1>2 DEF SetDestination, Asked, InMove, OdbType
<1>3. ASSUME NEW key \in Keys, SetFlag(key) PROVE Asked'
  <2>1. UNCHANGED <<pc, call>>
    BY <1>3 DEF SetFlag
  <2>2. CASE key = "MoveRequest"
    <3>1. "MoveRequest" \notin odb.flags /\ past'.asked = odb.destination
      BY <1>3, <2>2 DEF SetFlag, PastType
    <3>2. odb'.destination = odb.destination
      BY <1>3 DEF SetFlag, OdbType
    <3> QED
      BY <2>1, <3>1, <3>2 DEF Asked, InMove
  <2>3. CASE key # "MoveRequest"
    <3>1. past' = past /\ odb'.destination = odb.destination /\ odb'.flags = odb.flags \cup {key}
      BY <1>3, <2>3 DEF SetFlag, OdbType
    <3> QED
      BY <1>1, <2>1, <2>3, <3>1
  <2> QED
    BY <2>2, <2>3
<1>4. ASSUME NEW p \in Pulleys, SetPulley(p) PROVE Asked'
  BY <1>1, <1>4 DEF SetPulley, OdbType, PastType
<1>5. CASE GantryStep
  <2>1. UNCHANGED <<odb, pc, call>>
    BY <1>5 DEF GantryStep, Travel, HomeTravel, Finish, LimitSwitch, Gantry, EndMove, EndHoming
  <2>2. past'.asked = past.asked
    BY <1>5 DEF GantryStep, Travel, HomeTravel, Finish, LimitSwitch, Gantry, EndMove, EndHoming,
                Disturbed, PastType
  <2> QED
    BY <1>1, <2>1, <2>2
<1>6. CASE UNCHANGED vars
  BY <1>1, <1>6 DEF vars
<1>7. ASSUME NEW vel_ok \in BOOLEAN, move_request(vel_ok) PROVE Asked'
  <2>1. CASE "MoveRequest" \notin odb.flags
    BY <1>1, <1>7, <2>1 DEF move_request
  <2>2. CASE "MoveRequest" \in odb.flags
    <3>1. odb'.flags = odb.flags /\ odb'.destination = odb.destination
      BY <1>7, <2>2 DEF move_request, OdbType
    <3>2. call'.dest = odb.destination /\ ~ call'.success
      BY <1>7, <2>2 DEF move_request, CallType
    <3>3. past'.asked = past.asked
      BY <1>7, <2>2 DEF move_request, Disturbed, PastType
    <3> QED
      BY <2>2, <3>1, <3>2, <3>3 DEF Asked
  <2> QED
    BY <2>1, <2>2
<1>8. CASE Respond
  <2>1. ~ InMove' /\ past' = past /\ odb'.destination = odb.destination
        /\ "MoveRequest" \notin odb'.flags
    BY <1>8 DEF Respond, Return, InMove, OdbType
  <2> QED
    BY <2>1 DEF Asked, InMove
<1>9. CASE update_calibration \/ frontend_init
  <2>1. UNCHANGED odb /\ past'.asked = past.asked
    BY <1>9 DEF update_calibration, frontend_init, PastType
  <2>2. ~ InMove'
    BY <1>9 DEF update_calibration, Dispatch, frontend_init, InMove
  <2> QED
    BY <1>1, <2>1, <2>2
<1>10. ASSUME NEW o \in Outcomes, GetPosition(o) PROVE Asked'
  <2>1. /\ UNCHANGED odb /\ past'.asked = past.asked /\ call'.dest = call.dest
        /\ pc = "get_position" /\ pc' # "get_position"
    BY <1>10 DEF GetPosition, CallType, PastType
  <2> QED
    BY <2>1 DEF Asked, InMove
<1>11. ASSUME NEW o \in Outcomes, NEW accepted \in BOOLEAN,
              MoveX(o, accepted) \/ MoveY(o, accepted)
       PROVE  Asked'
  <2>1. /\ UNCHANGED <<odb, past>> /\ call'.dest = call.dest
        /\ pc \in {"move_x", "move_y"} /\ pc' # "get_position"
    BY <1>11 DEF MoveX, MoveY, CallType
  <2> QED
    BY <2>1 DEF Asked, InMove
<1>12. ASSUME NEW o \in Outcomes, arduino_calibrate(o) PROVE Asked'
  <2>1. past'.asked = past.asked
    BY <1>12 DEF arduino_calibrate, PastType
  <2>2. /\ odb'.destination = odb.destination
        /\ "MoveRequest" \in odb'.flags <=> "MoveRequest" \in odb.flags
    BY <1>12 DEF arduino_calibrate, OdbType
  <2>3. ~ InMove'
    BY <1>12 DEF arduino_calibrate, Return, InMove
  <2> QED
    BY <1>1, <2>1, <2>2, <2>3
<1>13. ASSUME NEW o \in Outcomes, start_home(o) \/ end_of_run(o) \/ frontend_exit(o)
       PROVE  Asked'
  <2>1. past'.asked = past.asked
    BY <1>13 DEF start_home, end_of_run, frontend_exit, CarryOutHome, CarryOutStop, Disturbed,
                 PastType
  <2>2. /\ odb'.destination = odb.destination
        /\ "MoveRequest" \in odb'.flags <=> "MoveRequest" \in odb.flags
    BY <1>13 DEF start_home, end_of_run, frontend_exit, OdbType
  <2>3. ~ InMove'
    BY <1>13 DEF start_home, Dispatch, end_of_run, frontend_exit, InMove
  <2> QED
    BY <1>1, <2>1, <2>2, <2>3
<1>14. ASSUME NEW o \in Outcomes, ReadStatus(o) \/ ReadPosition(o) PROVE Asked'
  <2>1. ~ InMove'
    BY <1>14 DEF ReadStatus, ReadPosition, Return, InMove
  <2> QED
    BY <1>1, <1>14, <2>1 DEF ReadStatus, ReadPosition
<1> QED
  BY <1>2, <1>3, <1>4, <1>5, <1>6, <1>7, <1>8, <1>9, <1>10, <1>11, <1>12, <1>13, <1>14
     DEF Next, Operator, FrontendStep

LEMMA OnCourseKept ==
  ASSUME NEW a \in AxisId, OnCourse(a), axis'[a] = axis[a],
         odb'.pulley = odb.pulley, past'.asked = past.asked
  PROVE  OnCourse(a)'
<1>1. mm_to_cts(past.asked[a])' = mm_to_cts(past.asked[a])
  BY DEF mm_to_cts
<1>2. Past(a)' = Past(a)
  BY DEF Past
<1> QED
  BY <1>1, <1>2 DEF OnCourse

LEMMA StartsOnCourse ==
  ASSUME Typed, NEW a \in AxisId, Waiting(a), call.dest = past.asked,
         StartMove(a, mm_to_cts(call.dest[a]) - call.cur[a]),
         odb'.pulley = odb.pulley, past'.asked = past.asked
  PROVE  OnCourse(a)'
<1> DEFINE goal == mm_to_cts(past.asked[a])
           pos == axis[a].pos
           d == goal - pos
<1>1. past.asked[a] \in Int
  BY FrontendAssumption DEF Typed, PastType
<1>2. goal \in Int
  BY <1>1, CountsAreWhole DEF Typed
<1>3. pos \in Int
  BY FrontendAssumption DEF Typed, AxisType, View
<1>4. goal' = goal
  BY DEF mm_to_cts
<1>5. /\ axis'[a].motion = "move" /\ axis'[a].pos = pos
      /\ axis'[a].dir = get_direction(d)
      /\ axis'[a].target = pos + get_direction(d) * Abs(d)
  BY DEF StartMove, Waiting, Typed, AxisType, View
<1> HIDE DEF goal, pos
<1>6. get_direction(d) * Abs(d) = d /\ (- d) * get_direction(d) <= 0
  BY <1>2, <1>3 DEF get_direction, Abs
<1>7. axis'[a].target = goal
  BY <1>2, <1>3, <1>5, <1>6
<1>8. (pos - goal) * get_direction(d) <= Overshoot
  BY <1>2, <1>3, <1>6, FrontendAssumption DEF get_direction
<1>9. Past(a)' <= Overshoot
  BY <1>5, <1>7, <1>8 DEF Past
<1> QED
  BY <1>4, <1>5, <1>7, <1>9 DEF OnCourse, goal

(* What a step outside the move keeps.                                     *)
LEMMA CourseFrame ==
  ASSUME Course,
         past'.settled => past.settled, past'.asked = past.asked, odb'.pulley = odb.pulley,
         past.settled => status' # "HOMING",
         (pc' = pc /\ call' = call) \/ ~ InMove',
         Succeeded' => Succeeded,
         \A a \in AxisId : /\ Waiting(a) /\ call' = call => Waiting(a)'
                           /\ OnCourse(a) => OnCourse(a)'
  PROVE  Course'
BY DEF Course, InMove, AxisId

LEMMA StillOnCourse ==
  ASSUME odb'.pulley = odb.pulley, past'.asked = past.asked, axis' = axis
  PROVE  \A a \in AxisId : /\ Waiting(a) /\ call' = call => Waiting(a)'
                           /\ OnCourse(a) => OnCourse(a)'
BY OnCourseKept DEF Waiting

LEMMA GantryCourse ==
  ASSUME Typed, Course, GantryStep
  PROVE  Course'
<1> USE DEF Typed
<1>0. /\ UNCHANGED <<odb, pc, call>> /\ past'.asked = past.asked
      /\ Succeeded' => Succeeded
  BY DEF GantryStep, Travel, HomeTravel, Finish, LimitSwitch, Gantry, EndMove, EndHoming,
         Disturbed, PastType, Succeeded
<1>1. ASSUME NEW a \in AxisId, UNCHANGED <<status, past>>,
             \A b \in AxisId : b # a => axis'[b] = axis[b],
             axis[a].motion # "none", OnCourse(a) => OnCourse(a)'
      PROVE  Course'
  <2>1. \A b \in AxisId : /\ Waiting(b) /\ call' = call => Waiting(b)'
                          /\ OnCourse(b) => OnCourse(b)'
    BY <1>0, <1>1, OnCourseKept DEF Waiting
  <2>2. past.settled => status' # "HOMING"
    BY <1>1 DEF Course
  <2> QED
    BY <1>0, <1>1, <2>1, <2>2, CourseFrame
<1>2. ASSUME NEW a \in AxisId, Travel(a) PROVE Course'
  <2>1. /\ axis' = [ axis EXCEPT ![a] = [ axis[a] EXCEPT !.pos = axis[a].pos + axis[a].dir ] ]
        /\ UNCHANGED <<status, past>> /\ axis[a].motion = "move" /\ Past(a) < Overshoot
    BY <1>2 DEF Travel, Gantry
  <2>2. /\ axis[a].pos \in Int /\ axis[a].target \in Int /\ axis[a].dir \in {-1, 1}
        /\ axis'[a].pos = axis[a].pos + axis[a].dir /\ axis'[a].motion = "move"
        /\ axis'[a].target = axis[a].target /\ axis'[a].dir = axis[a].dir
    BY <2>1, FrontendAssumption DEF AxisType, View
  <2>3. Past(a)' <= Overshoot
    <3>1. CASE axis[a].dir = 1
      BY <2>1, <2>2, <3>1, FrontendAssumption DEF Past
    <3>2. CASE axis[a].dir = -1
      BY <2>1, <2>2, <3>2, FrontendAssumption DEF Past
    <3> QED
      BY <2>2, <3>1, <3>2
  <2>4. OnCourse(a) => OnCourse(a)'
    <3>1. mm_to_cts(past.asked[a])' = mm_to_cts(past.asked[a])
      BY <1>0, <2>1 DEF mm_to_cts
    <3> QED
      BY <2>1, <2>2, <2>3, <3>1 DEF OnCourse
  <2> QED
    BY <1>1, <2>1, <2>4
<1>3. ASSUME NEW a \in AxisId, HomeTravel(a) PROVE Course'
  <2>1. /\ \A b \in AxisId : b # a => axis'[b] = axis[b]
        /\ UNCHANGED <<status, past>> /\ axis[a].motion = "home"
    BY <1>3 DEF HomeTravel, Gantry, AxisType
  <2> QED
    BY <1>1, <2>1 DEF OnCourse
<1>4. ASSUME NEW a \in AxisId, Finish(a) PROVE Course'
  <2>1. /\ axis' = [ axis EXCEPT ![a] = StoppedAt(axis[a].pos) ]
        /\ UNCHANGED <<status, past>> /\ axis[a].motion = "move" /\ Past(a) >= 0
    BY <1>4 DEF Finish, Gantry
  <2>2. /\ axis[a].pos \in Int /\ axis[a].target \in Int /\ axis[a].dir \in {-1, 1}
        /\ axis'[a].pos = axis[a].pos /\ axis'[a].motion = "none"
    BY <2>1, FrontendAssumption DEF AxisType, View, StoppedAt
  <2>3. Past(a) <= Overshoot => Abs(axis[a].pos - axis[a].target) <= Overshoot
    <3>1. CASE axis[a].dir = 1
      BY <2>1, <2>2, <3>1, FrontendAssumption DEF Past, Abs
    <3>2. CASE axis[a].dir = -1
      BY <2>1, <2>2, <3>2, FrontendAssumption DEF Past, Abs
    <3> QED
      BY <2>2, <3>1, <3>2
  <2>4. OnCourse(a) => OnCourse(a)'
    <3>1. mm_to_cts(past.asked[a])' = mm_to_cts(past.asked[a])
      BY <1>0, <2>1 DEF mm_to_cts
    <3>2. OnCourse(a) => /\ axis[a].target = mm_to_cts(past.asked[a])
                         /\ Abs(axis[a].pos - axis[a].target) <= Overshoot
      BY <2>1, <2>3 DEF OnCourse
    <3>3. axis'[a].pos = axis[a].pos /\ axis'[a].motion = "none"
      BY <2>2
    <3> QED
      BY <3>1, <3>2, <3>3, Zenon DEF OnCourse, Abs
  <2> QED
    BY <1>1, <2>1, <2>4
<1>5. ASSUME NEW a \in AxisId, LimitSwitch(a) PROVE Course'
  BY <1>5 DEF LimitSwitch, Disturbed, PastType, Course
<1>6. CASE EndMove
  <2>1. UNCHANGED <<axis, past>> /\ status' # "HOMING"
    BY <1>6 DEF EndMove
  <2> QED
    BY <1>0, <2>1, StillOnCourse, CourseFrame
<1>7. CASE EndHoming
  BY <1>7 DEF EndHoming, Course
<1> QED
  BY <1>2, <1>3, <1>4, <1>5, <1>6, <1>7 DEF GantryStep

(* A request to home or to stop that is carried out disturbs the move, and *)
(* one that is not changes nothing.                                        *)
LEMMA StopCourse ==
  ASSUME Typed, Course, NEW o \in Outcomes, CarryOutHome(o) \/ CarryOutStop(o),
         odb'.pulley = odb.pulley, ~ InMove', Succeeded' => Succeeded
  PROVE  Course'
<1>1. CASE past' = Disturbed
  BY <1>1 DEF Disturbed, PastType, Typed, Course
<1>2. CASE UNCHANGED <<gantry, past>>
  <2>1. UNCHANGED <<axis, status, past>>
    BY <1>2 DEF gantry
  <2>2. past.settled => status' # "HOMING"
    BY <2>1 DEF Course
  <2> QED
    BY <2>1, <2>2, StillOnCourse, CourseFrame
<1> QED
  BY <1>1, <1>2 DEF CarryOutHome, CarryOutStop

LEMMA MoveCourse ==
  ASSUME Typed, Asked, Course, NEW o \in Outcomes, NEW accepted \in BOOLEAN,
         MoveX(o, accepted) \/ MoveY(o, accepted)
  PROVE  Course'
<1> USE DEF Typed
<1>0. /\ UNCHANGED <<odb, past>> /\ "MoveRequest" \in odb.flags /\ call.dest = past.asked
      /\ call'.cur = call.cur /\ ~ Succeeded'
  BY DEF MoveX, MoveY, Asked, InMove, Succeeded, CallType
<1> SUFFICES ASSUME past.settled PROVE Course'
  BY <1>0 DEF Course
<1>1. o.ok => o.done
  BY DEF Outcomes
<1>2. ASSUME NEW a \in AxisId, MoveAxis(a, o, accepted), Waiting(a)
      PROVE  /\ o.ok /\ accepted => OnCourse(a)'
             /\ \A b \in AxisId : b # a => axis'[b] = axis[b]
             /\ status' # "HOMING"
  <2>1. /\ \A b \in AxisId : b # a => axis'[b] = axis[b]
        /\ status' # "HOMING"
    BY <1>2 DEF MoveAxis, StartMove, gantry, AxisType, Course
  <2>2. o.ok /\ accepted => StartMove(a, mm_to_cts(call.dest[a]) - call.cur[a])
    BY <1>1, <1>2 DEF MoveAxis
  <2>3. o.ok /\ accepted => OnCourse(a)'
    BY <1>0, <1>2, <2>2, StartsOnCourse
  <2> QED
    BY <2>1, <2>3
<1>3. "X" \in AxisId /\ "Y" \in AxisId
  BY DEF AxisId
<1>4. CASE MoveX(o, accepted)
  <2>1. Waiting("X") /\ Waiting("Y") /\ pc' = "move_y"
    BY <1>4 DEF MoveX, Course
  <2>2. call'.x_success = (o.ok /\ accepted)
    BY <1>4 DEF MoveX, CallType
  <2>3. (o.ok /\ accepted => OnCourse("X")') /\ axis'["Y"] = axis["Y"] /\ status' # "HOMING"
    BY <1>2, <1>3, <1>4, <2>1 DEF MoveX
  <2>4. Waiting("Y")'
    BY <1>0, <2>1, <2>3 DEF Waiting
  <2>5. call'.x_success => OnCourse("X")'
    BY <2>2, <2>3
  <2> QED
    BY <1>0, <2>1, <2>3, <2>4, <2>5 DEF Course
<1>5. CASE MoveY(o, accepted)
  <2>1. Waiting("Y") /\ (call.x_success => OnCourse("X")) /\ pc' = "respond"
    BY <1>5 DEF MoveY, Course
  <2>2. call'.success => call.x_success /\ o.ok /\ accepted
    BY <1>5 DEF MoveY, CallType
  <2>3. (o.ok /\ accepted => OnCourse("Y")') /\ axis'["X"] = axis["X"] /\ status' # "HOMING"
    BY <1>2, <1>3, <1>5, <2>1 DEF MoveY
  <2>4. OnCourse("X") => OnCourse("X")'
    BY <1>0, <1>3, <2>3, OnCourseKept
  <2>5. call'.success => OnCourse("X")' /\ OnCourse("Y")'
    BY <2>1, <2>2, <2>3, <2>4
  <2> QED
    BY <1>0, <2>1, <2>3, <2>5 DEF Course
<1> QED
  BY <1>4, <1>5

LEMMA CourseStep ==
  ASSUME Patient, Typed, Asked, Course, [Next]_vars
  PROVE  Course'
<1> USE DEF Typed
<1>1. ASSUME UNCHANGED <<axis, status>>, odb'.pulley = odb.pulley, past'.asked = past.asked,
             past'.settled = past.settled, (pc' = pc /\ call' = call) \/ ~ InMove',
             Succeeded' => Succeeded
      PROVE  Course'
  <2>1. past.settled => status' # "HOMING"
    BY <1>1 DEF Course
  <2> QED
    BY <1>1, <2>1, StillOnCourse, CourseFrame
<1>2. ASSUME NEW d \in Destinations, SetDestination(d) PROVE Course'
  BY <1>1, <1>2 DEF SetDestination, gantry, OdbType, Succeeded
<1>3. ASSUME NEW key \in Keys, SetFlag(key) PROVE Course'
  <2>1. /\ UNCHANGED <<pc, call, axis, status>> /\ odb'.pulley = odb.pulley
        /\ odb'.response = odb.response /\ odb'.flags = odb.flags \cup {key}
        /\ past'.settled = past.settled
    BY <1>3 DEF SetFlag, gantry, OdbType, PastType
  <2>2. CASE key = "MoveRequest"
    <3>1. ~ InMove /\ ~ Succeeded'
      BY <1>3, <2>1, <2>2 DEF SetFlag, Asked, Succeeded
    <3> QED
      BY <2>1, <3>1 DEF Course, InMove
  <2>3. CASE key # "MoveRequest"
    <3>1. past' = past
      BY <1>3, <2>3 DEF SetFlag
    <3> QED
      BY <1>1, <2>1, <3>1 DEF Succeeded
  <2> QED
    BY <2>2, <2>3
<1>4. ASSUME NEW p \in Pulleys, SetPulley(p) PROVE Course'
  BY <1>4 DEF SetPulley, PastType, Course
<1>5. CASE UNCHANGED vars
  BY <1>1, <1>5 DEF vars, gantry, Succeeded
<1>6. ASSUME NEW vel_ok \in BOOLEAN, move_request(vel_ok) PROVE Course'
  <2>1. CASE "MoveRequest" \notin odb.flags
    BY <1>1, <1>6, <2>1 DEF move_request, gantry, Succeeded
  <2>2. CASE "MoveRequest" \in odb.flags
    BY <1>6, <2>2 DEF move_request, Disturbed, PastType, Course
  <2> QED
    BY <2>1, <2>2
<1>7. CASE Respond
  <2>1. /\ UNCHANGED <<axis, status, past>> /\ odb'.pulley = odb.pulley
        /\ pc = "respond" /\ pc' = "loop" /\ odb'.response = <<TRUE, call.success>>
    BY <1>7 DEF Respond, Return, gantry, OdbType
  <2>2. Succeeded' => call.success
    <3>1. Succeeded' => <<TRUE, call.success>> = <<TRUE, TRUE>>
      BY <2>1 DEF Succeeded
    <3>2. \A b : <<TRUE, b>> = <<TRUE, TRUE>> => b = TRUE
      OBVIOUS
    <3>3. Succeeded' => call.success = TRUE
      BY <3>1, <3>2
    <3> QED
      BY <3>3, Zenon
  <2>3. \A a \in AxisId : OnCourse(a) => OnCourse(a)'
    BY <2>1, OnCourseKept
  <2> QED
    BY <2>1, <2>2, <2>3 DEF Course, AxisId
<1>8. CASE update_calibration \/ frontend_init
  <2>1. /\ UNCHANGED <<odb, axis, status>> /\ past'.asked = past.asked
        /\ past'.settled = past.settled
    BY <1>8 DEF update_calibration, frontend_init, gantry, PastType
  <2>2. ~ InMove'
    BY <1>8 DEF update_calibration, Dispatch, frontend_init, InMove
  <2> QED
    BY <1>1, <2>1, <2>2 DEF Succeeded
<1>9. ASSUME NEW o \in Outcomes, GetPosition(o) PROVE Course'
  <2>1. /\ UNCHANGED <<odb, axis, status>> /\ "MoveRequest" \in odb.flags /\ ~ call.success
        /\ past'.settled => AtRest /\ status # "HOMING"
    BY <1>9 DEF GetPosition, gantry, Asked, InMove, PastType, AtRest
  <2>2. \/ pc' = "respond" /\ call' = call
        \/ pc' = "move_x" /\ \A a \in AxisId : call'.cur[a] = axis[a].pos
    BY <1>9 DEF GetPosition, CallType
  <2>3. ~ Succeeded'
    BY <2>1 DEF Succeeded
  <2>4. CASE pc' = "respond" /\ call' = call
    BY <2>1, <2>3, <2>4 DEF Course
  <2>5. CASE pc' = "move_x" /\ \A a \in AxisId : call'.cur[a] = axis[a].pos
    <3>1. past'.settled => Waiting("X")' /\ Waiting("Y")'
      BY <2>1, <2>5 DEF Waiting, AtRest, AxisId
    <3> QED
      BY <2>1, <2>3, <2>5, <3>1 DEF Course
  <2> QED
    BY <2>2, <2>4, <2>5
<1>10. ASSUME NEW o \in Outcomes, arduino_calibrate(o) PROVE Course'
  <2>1. /\ UNCHANGED <<axis, status>> /\ past'.asked = past.asked
        /\ past'.settled = past.settled
    BY <1>10 DEF arduino_calibrate, gantry, PastType
  <2>2. /\ odb'.pulley = odb.pulley /\ odb'.response = odb.response
        /\ "MoveRequest" \in odb'.flags <=> "MoveRequest" \in odb.flags
    BY <1>10 DEF arduino_calibrate, OdbType
  <2>3. ~ InMove'
    BY <1>10 DEF arduino_calibrate, Return, InMove
  <2> QED
    BY <1>1, <2>1, <2>2, <2>3 DEF Succeeded
<1>11. ASSUME NEW o \in Outcomes, start_home(o) \/ end_of_run(o) \/ frontend_exit(o)
       PROVE  Course'
  <2>1. /\ odb'.pulley = odb.pulley /\ odb'.response = odb.response
        /\ "MoveRequest" \in odb'.flags <=> "MoveRequest" \in odb.flags
    BY <1>11 DEF start_home, end_of_run, frontend_exit, OdbType
  <2>2. ~ InMove'
    BY <1>11 DEF start_home, Dispatch, end_of_run, frontend_exit, InMove
  <2>3. CarryOutHome(o) \/ CarryOutStop(o) \/ UNCHANGED <<gantry, past>>
    BY <1>11 DEF start_home, end_of_run, frontend_exit
  <2>4. Succeeded' => Succeeded
    BY <2>1 DEF Succeeded
  <2>5. CASE UNCHANGED <<gantry, past>>
    BY <1>1, <2>1, <2>2, <2>4, <2>5 DEF gantry
  <2> QED
    BY <2>1, <2>2, <2>3, <2>4, <2>5, StopCourse
<1>12. ASSUME NEW o \in Outcomes, ReadStatus(o) \/ ReadPosition(o) PROVE Course'
  <2>1. ~ InMove'
    BY <1>12 DEF ReadStatus, ReadPosition, Return, InMove
  <2> QED
    BY <1>1, <1>12, <2>1 DEF ReadStatus, ReadPosition, gantry, Succeeded
<1> QED
  BY <1>2, <1>3, <1>4, <1>5, <1>6, <1>7, <1>8, <1>9, <1>10, <1>11, <1>12, MoveCourse, GantryCourse
     DEF Next, Operator, FrontendStep

LEMMA CourseEnds ==
  ASSUME Typed, Course
  PROVE  EndsAtDestination
<1> SUFFICES ASSUME Succeeded, past.settled, AtRest, NEW a \in AxisId
             PROVE  2 * Abs(axis[a].pos * odb.pulley - past.asked[a] * CountsPerMm)
                      <= odb.pulley * (1 + 2 * Overshoot)
  BY DEF EndsAtDestination
<1>1. OnCourse(a) /\ axis[a].motion = "none"
  BY DEF Course, AxisId, AtRest
<1> DEFINE x == past.asked[a] * CountsPerMm
           p == odb.pulley
           pos == axis[a].pos
           t == mm_to_cts(past.asked[a])
<1>2. past.asked[a] \in Int /\ pos \in Int /\ p \in Nat \ {0}
  BY FrontendAssumption DEF Typed, PastType, AxisType, View, OdbType
<1>3. x \in Int /\ t \in Int
  BY <1>2, CountsAreWhole, FrontendAssumption DEF Typed
<1>4. Abs(pos - t) <= Overshoot
  BY <1>1 DEF OnCourse
<1>5. t = (2 * x + p) \div (2 * p)
  <2>1. 2 * past.asked[a] * CountsPerMm = 2 * x
    BY <1>2, FrontendAssumption
  <2> QED
    BY <2>1 DEF mm_to_cts
<1> HIDE DEF x, p, pos, t
<1>6. 2 * Abs(pos * p - x) <= p * (1 + 2 * Overshoot)
  BY <1>2, <1>3, <1>4, <1>5, CountsOverPulley, FrontendAssumption
<1> QED
  BY <1>6 DEF x, p, pos

(* A move that was answered with success, began at rest and was not        *)
(* disturbed ends at the destination asked for last, to half a count and   *)
(* the overshoot of the axes (move_request, arduino_move), if the operator *)
(* waits.                                                                  *)
THEOREM MoveEndsAtDestination ==
  ASSUME Patient
  PROVE  Spec => []EndsAtDestination
<1>1. Init => Asked /\ Course
  BY DEF Init, Asked, InMove, Course
<1>2. Typed /\ Asked /\ Course /\ [Next]_vars => Asked' /\ Course'
  BY AskedStep, CourseStep
<1>3. Typed /\ Course => EndsAtDestination
  BY CourseEnds
<1> QED
  BY <1>1, <1>2, <1>3, Types, PTL DEF Spec
=============================================================================
