-------------------------------- MODULE Scan --------------------------------
(***************************************************************************)
(* The scanning frontend (feScan/feScan.cxx): begin_of_run lays out a grid *)
(* of points, and frontend_loop moves the gantry to one after the other    *)
(* and measures there.  It sees the gantry only through the database keys  *)
(* of the Move equipment, which is another program.                        *)
(***************************************************************************)
EXTENDS Integers, Sequences

CONSTANTS Settings,      \* what /Settings may hold when a run begins: step and
                         \* distance in x and in y, all in one unit of length
          MaxPoints,     \* points that the list takes (100000)
          OffGrid,       \* what may stand in memory behind the list of points
          MaxRuns        \* bound: runs

ASSUME SettingsAssumption ==
  /\ Settings \subseteq [ step : Nat \ {0}, dx : Nat, dy : Nat ]
  /\ MaxPoints \in Nat /\ MaxRuns \in Nat

ScanStatuses == {"STOPPED", "STARTED", "MOVING", "MEASURING"}

VARIABLES gScanStatus, gbl_called_BOR, gGantryWasMoving, gbl_current_point,
          gNewScanningPoint, gNewMoveStarted, gScanPoints,
          measurement,   \* measurement_complete() is FALSE while "running"
          run_state,     \* the run control of the data acquisition
          move,          \* the keys of the Move equipment, and its destination
          runs,          \* runs begun
          settings,      \* history: the settings of this run
          still,         \* history: no move has begun since the last start_measurement
          measured,      \* history: where measurements of this run were completed with
                         \* the gantry standing there from their start
          missed         \* history: the points of this run to which a move was refused,
                         \* or was still unseen by the loop when a measurement ended

flags == <<gScanStatus, gbl_called_BOR, gGantryWasMoving, gNewScanningPoint, gNewMoveStarted>>
run   == <<run_state, runs, settings, gScanPoints>>
done  == <<measured, missed>>
vars  == <<flags, gbl_current_point, measurement, still, run, move, done>>

-----------------------------------------------------------------------------
(* The grid: rows in x, walked there and back, until y is past the end.    *)

(* Mutated form: a row ends before its last point.                         *)
NextPoint_ShortRow(c, p) ==
  LET next == IF p.forward THEN p.x + c.step ELSE p.x - c.step
      fits == IF p.forward THEN next < c.dx ELSE next >= 0
  IN  IF fits THEN [ p EXCEPT !.x = next ]
              ELSE [ p EXCEPT !.forward = ~ @, !.y = @ + c.step ]

NextPoint(c, p) ==
  LET next == IF p.forward THEN p.x + c.step ELSE p.x - c.step
      fits == IF p.forward THEN next <= c.dx ELSE next >= 0
  IN  IF fits THEN [ p EXCEPT !.x = next ]
              ELSE [ p EXCEPT !.forward = ~ @, !.y = @ + c.step ]

(* Where the loop is, and which way it goes, after each point it adds.     *)
Route(c) ==
  LET point[n \in 0 .. MaxPoints] ==
        IF n = 0 THEN [ x |-> 0, y |-> 0, forward |-> TRUE ] ELSE NextPoint(c, point[n - 1])
  IN  point

(* The loop adds points until y is past the end or the list is full.       *)
Walk(c) ==
  LET point == Route(c)
      stops(n) == point[n].y >= c.dy \/ n = MaxPoints
      total == CHOOSE n \in 0 .. MaxPoints : stops(n) /\ \A i \in 0 .. n - 1 : ~ stops(i)
  IN  [ i \in 1 .. total |-> <<point[i - 1].x, point[i - 1].y>> ]

Init == /\ gScanStatus = "STOPPED"
        /\ gbl_called_BOR = FALSE /\ gGantryWasMoving = FALSE
        /\ gbl_current_point = -1
        /\ gNewScanningPoint = FALSE /\ gNewMoveStarted = FALSE
        /\ gScanPoints = <<>>
        /\ measurement = "complete"
        /\ run_state = "STOPPED"
        /\ \E p \in OffGrid : move = [ start |-> FALSE, moving |-> FALSE,
                                       destination |-> p, position |-> p ]
        /\ runs = 0
        /\ settings \in Settings
        /\ still = TRUE /\ measured = {} /\ missed = {}

-----------------------------------------------------------------------------
(* Run transitions                                                         *)

begin_of_run(c) ==
  /\ run_state = "STOPPED" /\ runs < MaxRuns
  /\ run_state' = "RUNNING" /\ runs' = runs + 1
  /\ gScanStatus' = "STARTED"
  /\ gNewScanningPoint' = FALSE /\ gNewMoveStarted' = FALSE
  /\ gScanPoints' = Walk(c)
  /\ gbl_current_point' = -1
  /\ gGantryWasMoving' = FALSE
  /\ gbl_called_BOR' = TRUE
  /\ settings' = c /\ measured' = {} /\ missed' = {}
  /\ UNCHANGED <<measurement, still, move>>

end_of_run == /\ run_state' = "STOPPED"
              /\ gbl_called_BOR' = FALSE
              /\ gGantryWasMoving' = FALSE
              /\ gScanStatus' = "STOPPED"
              /\ UNCHANGED <<gNewScanningPoint, gNewMoveStarted, runs, settings, gScanPoints>>

(* The operator stops a run, at any moment.                                *)
StopRun == /\ run_state = "RUNNING"
           /\ end_of_run
           /\ UNCHANGED <<gbl_current_point, measurement, still, move, done>>

-----------------------------------------------------------------------------
(* frontend_loop, one action per way through it.  The sleep of half a      *)
(* second after a request is no more than time in which other programs may *)
(* take steps: nothing tells the loop that the request has been noticed.   *)
Looping == gbl_called_BOR /\ run_state = "RUNNING"

WaitForMove == /\ Looping /\ move.moving
               /\ gGantryWasMoving' = TRUE
               /\ UNCHANGED <<gScanStatus, gbl_called_BOR, gNewScanningPoint, gNewMoveStarted,
                              gbl_current_point, measurement, still, run, move, done>>

start_measurement == /\ measurement' = "running" /\ still' = TRUE
                     /\ gNewScanningPoint' = TRUE

(* Mutated form: gGantryWasMoving is not reset.                            *)
Arrive_KeepsFlag ==
  /\ Looping /\ ~ move.moving /\ gGantryWasMoving /\ gbl_current_point >= 0
  /\ start_measurement
  /\ gScanStatus' = "MEASURING"
  /\ UNCHANGED <<gGantryWasMoving, gbl_called_BOR, gNewMoveStarted, gbl_current_point,
                 run, move, done>>

Arrive == /\ Looping /\ ~ move.moving /\ gGantryWasMoving /\ gbl_current_point >= 0
          /\ start_measurement
          /\ gScanStatus' = "MEASURING"
          /\ gGantryWasMoving' = FALSE
          /\ UNCHANGED <<gbl_called_BOR, gNewMoveStarted, gbl_current_point, run, move, done>>

(* Mutated form: the end of the measurement is not waited for.             *)
AtRest_NoWait == Looping /\ ~ move.moving /\ (gbl_current_point >= 0 => ~ gGantryWasMoving)

(* Before the first point the loop goes on in the same turn, also when it  *)
(* has just seen a move of an earlier run end.                             *)
AtRest == /\ Looping /\ ~ move.moving
          /\ IF gbl_current_point < 0 THEN TRUE
             ELSE ~ gGantryWasMoving /\ measurement = "complete"
Seen == IF gGantryWasMoving THEN start_measurement
        ELSE UNCHANGED <<measurement, still, gNewScanningPoint>>

(* Mutated form: the end of the list is passed.                            *)
Last_TooLate == gbl_current_point > Len(gScanPoints)

Last == gbl_current_point >= Len(gScanPoints)

Finish == /\ AtRest /\ Last
          /\ gbl_current_point' = 0
          /\ end_of_run
          /\ UNCHANGED <<measurement, still, move, done>>

(* Mutated form: the index is one short, as before the increment.          *)
PointsAt_OneBefore(i) ==
  IF i \in 1 .. Len(gScanPoints) THEN {gScanPoints[i]} ELSE OffGrid

(* gScanPoints[gbl_current_point], which may be behind the end of the list.*)
PointsAt(i) == IF i < Len(gScanPoints) THEN {gScanPoints[i + 1]} ELSE OffGrid

request_move(p) ==
  move' = [ move EXCEPT !.destination = p, !.start = TRUE ]

NextMove == /\ AtRest /\ ~ Last
            /\ Seen
            /\ gbl_current_point' = gbl_current_point + 1
            /\ \E p \in PointsAt(gbl_current_point') : request_move(p)
            /\ gScanStatus' = "MOVING"
            /\ gGantryWasMoving' = TRUE
            /\ gNewMoveStarted' = TRUE
            /\ UNCHANGED <<gbl_called_BOR, run, done>>

frontend_loop == WaitForMove \/ Arrive \/ Finish \/ NextMove

(* The events read every 500 ms, in the same thread as the loop.           *)
read_scan_state == /\ run_state = "RUNNING"
                   /\ gNewScanningPoint' = FALSE /\ gNewMoveStarted' = FALSE
                   /\ UNCHANGED <<gScanStatus, gbl_called_BOR, gGantryWasMoving,
                                  gbl_current_point, measurement, still, run, move, done>>

(* A measurement takes at least a second, so the events are read in it.    *)
(* One during which the gantry has not stood at its point all the time is  *)
(* repeated (Arrive) if the loop has seen the move to that point; if it    *)
(* has not, the point is missed.                                           *)
InPlace == still /\ ~ move.start /\ move.position = move.destination
Elapse == /\ measurement = "running"
          /\ run_state = "RUNNING" => ~ gNewScanningPoint
          /\ measurement' = "complete"
          /\ measured' = IF gScanStatus = "MEASURING" /\ InPlace
                           THEN measured \cup {move.position} ELSE measured
          /\ missed' = IF gScanStatus = "MEASURING" /\ ~ InPlace /\ ~ gGantryWasMoving
                         THEN missed \cup {move.destination} ELSE missed
          /\ UNCHANGED <<flags, gbl_current_point, still, run, move>>

-----------------------------------------------------------------------------
(* The Move equipment.                                                     *)

Notice == /\ move.start
          /\ move' = [ move EXCEPT !.start = FALSE, !.moving = TRUE ]
          /\ still' = FALSE
          /\ UNCHANGED <<flags, gbl_current_point, measurement, run, done>>

Refuse == /\ move.start
          /\ move' = [ move EXCEPT !.start = FALSE ]
          /\ missed' = IF gScanStatus \in {"MOVING", "MEASURING"}
                         THEN missed \cup {move.destination} ELSE missed
          /\ UNCHANGED <<flags, gbl_current_point, measurement, still, run, measured>>

Reach == /\ move.moving
         /\ move' = [ move EXCEPT !.moving = FALSE, !.position = move.destination ]
         /\ UNCHANGED <<flags, gbl_current_point, measurement, still, run, done>>

Equipment == Notice \/ Refuse \/ Reach

Next == \/ \E c \in Settings : begin_of_run(c)
        \/ StopRun \/ frontend_loop \/ read_scan_state \/ Elapse \/ Equipment

Spec == Init /\ [][Next]_vars

(* The frontend is polled, events are read, time passes, moves end.        *)
FairSpec == /\ Spec
            /\ WF_vars(Arrive) /\ WF_vars(Finish) /\ WF_vars(NextMove)
            /\ WF_vars(read_scan_state /\ gNewScanningPoint)
            /\ WF_vars(Elapse) /\ WF_vars(Notice) /\ WF_vars(Reach)

-----------------------------------------------------------------------------
Places == OffGrid \cup UNION { {<<x, y>> : x \in 0 .. c.dx, y \in 0 .. c.dy} : c \in Settings }

TypeOK ==
  /\ gScanStatus \in ScanStatuses
  /\ gbl_called_BOR \in BOOLEAN /\ gGantryWasMoving \in BOOLEAN
  /\ gNewScanningPoint \in BOOLEAN /\ gNewMoveStarted \in BOOLEAN
  /\ gScanPoints \in Seq(Places)
  /\ gbl_current_point \in -1 .. Len(gScanPoints)
  /\ measurement \in {"running", "complete"}
  /\ run_state \in {"RUNNING", "STOPPED"} /\ runs \in 0 .. MaxRuns
  /\ move \in [ start : BOOLEAN, moving : BOOLEAN, destination : Places, position : Places ]
  /\ settings \in Settings /\ still \in BOOLEAN
  /\ measured \subseteq Places /\ missed \subseteq Places

(* The points of a rectangle of the given step: all of x up to and with    *)
(* the distance, y up to but without it.                                   *)
Multiples(step, n) == {k \in 0 .. n : k % step = 0}
Grid(c) == { p \in Multiples(c.step, c.dx) \X Multiples(c.step, c.dy) : p[2] < c.dy }

(* A list visits points of the grid, each one once, and all of them unless *)
(* it ran full, and each step of it goes to a neighbour: one step in x or  *)
(* one in y.                                                               *)
Covers(w, c) ==
  LET visited == {w[i] : i \in 1 .. Len(w)}
      apart(a, b) == (a[1] - b[1]) * (a[1] - b[1]) + (a[2] - b[2]) * (a[2] - b[2])
  IN  /\ visited \subseteq Grid(c)
      /\ Len(w) # MaxPoints => Grid(c) \subseteq visited
      /\ \A i, j \in 1 .. Len(w) : w[i] = w[j] => i = j
      /\ \A i \in 1 .. Len(w) - 1 : apart(w[i], w[i + 1]) = c.step * c.step

(* begin_of_run's walk covers the grid, there and back, for steps that fit *)
(* the distances and steps that do not.                                    *)
WalkCoversGrid == gbl_called_BOR => Covers(gScanPoints, settings)

(* While the frontend measures at a point of the list, the Move equipment  *)
(* has been sent to that point, and unless it is still to begin that move  *)
(* or making it, or the point is missed, the gantry stands there           *)
(* (frontend_loop); also in a run begun while an earlier move was under    *)
(* way or still to begin.                                                  *)
MeasuresAtPoint ==
  gScanStatus = "MEASURING" /\ gbl_current_point < Len(gScanPoints) =>
    LET here == gScanPoints[gbl_current_point + 1]
    IN  /\ move.destination = here
        /\ move.start \/ move.moving \/ here \in missed \/ move.position = here

(* A run that ends by itself has measured at every point of its grid, if   *)
(* the list could take them, with the gantry standing there all the time.  *)
(* That takes two things of the Move equipment, and a point for which one  *)
(* of them fails is missed: it accepts the request, and the loop sees the  *)
(* move before a measurement begun too early ends (frontend_loop).         *)
EndMeansAllMeasured ==
  [][ Finish /\ Len(gScanPoints) # MaxPoints
        => Grid(settings) \subseteq measured \cup missed ]_vars

(* Every run ends, whatever moves are refused or runs are stopped.         *)
RunEnds == run_state = "RUNNING" ~> run_state = "STOPPED"

-----------------------------------------------------------------------------
(* What a comment of the code says, and a run refutes.                     *)

(* feScan.cxx:387, "Terminate the sequence once we have finished last      *)
(* move": no move is requested after the one to the last point.            *)
NoMoveAfterLast ==
  [][ NextMove => gbl_current_point' < Len(gScanPoints) ]_vars
=============================================================================
