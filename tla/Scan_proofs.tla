----------------------------- MODULE Scan_proofs -----------------------------
(***************************************************************************)
(* Proofs about the scan frontend, for every grid and any number of runs:  *)
(* where the gantry stands, what begin_of_run's walk visits, and what a    *)
(* run that ends has measured.                                             *)
(***************************************************************************)
EXTENDS Scan, SequenceTheorems, WellFoundedInduction, TLAPS

(* The types that the arguments below need.                                *)
Shape == /\ DOMAIN move = {"start", "moving", "destination", "position"}
         /\ gbl_current_point \in Int /\ gbl_current_point >= -1

(* Where the loop is: a run that has called begin_of_run is not stopped,   *)
(* and before the first request the current point is none.                 *)
Progress == /\ gbl_called_BOR => gScanStatus # "STOPPED"
            /\ gScanStatus \in ScanStatuses
            /\ gScanStatus = "STARTED" => gbl_current_point = -1
            /\ gScanStatus = "MOVING" => gGantryWasMoving = TRUE

Listed == gbl_current_point < Len(gScanPoints)
Here   == gScanPoints[gbl_current_point + 1]

(* From a request until the next one the Move equipment has the current    *)
(* point as destination.  The gantry is there unless the request is still  *)
(* to be noticed, a move is under way or the point is missed.              *)
Bound == gScanStatus \in {"MOVING", "MEASURING"} =>
           /\ Listed => move.destination = Here
           /\ ~ move.start /\ ~ move.moving =>
                move.position = move.destination \/ move.destination \in missed

(* Every point before the current one has been measured or missed, and the *)
(* current one too when its measurement is complete and the loop has seen  *)
(* no move since.                                                          *)
Toured == /\ \A i \in 1 .. gbl_current_point :
               i <= Len(gScanPoints) => gScanPoints[i] \in measured \cup missed
          /\ /\ gScanStatus = "MEASURING" /\ measurement = "complete"
             /\ ~ gGantryWasMoving /\ Listed
             => Here \in measured \cup missed

IInv == Shape /\ Progress /\ Bound

-----------------------------------------------------------------------------
(* The keys of the Move equipment after a write of one or two of them.     *)
LEMMA MoveFields ==
  ASSUME Shape, NEW b, NEW c, NEW p
  PROVE  /\ [ move EXCEPT !.destination = p, !.start = b ].start = b
         /\ [ move EXCEPT !.destination = p, !.start = b ].destination = p
         /\ [ move EXCEPT !.destination = p, !.start = b ].moving = move.moving
         /\ [ move EXCEPT !.destination = p, !.start = b ].position = move.position
         /\ [ move EXCEPT !.start = b ].start = b
         /\ [ move EXCEPT !.start = b ].moving = move.moving
         /\ [ move EXCEPT !.start = b ].destination = move.destination
         /\ [ move EXCEPT !.start = b ].position = move.position
         /\ [ move EXCEPT !.start = b, !.moving = c ].start = b
         /\ [ move EXCEPT !.start = b, !.moving = c ].moving = c
         /\ [ move EXCEPT !.start = b, !.moving = c ].destination = move.destination
         /\ [ move EXCEPT !.start = b, !.moving = c ].position = move.position
         /\ [ move EXCEPT !.moving = b, !.position = p ].start = move.start
         /\ [ move EXCEPT !.moving = b, !.position = p ].moving = b
         /\ [ move EXCEPT !.moving = b, !.position = p ].destination = move.destination
         /\ [ move EXCEPT !.moving = b, !.position = p ].position = p
BY DEF Shape

(* At power-on no run is under way (frontend_init).                        *)
LEMMA InitInv == Init => IInv /\ Toured
<1> SUFFICES ASSUME Init PROVE IInv /\ Toured
  OBVIOUS
<1>1. Shape
  BY DEF Init, Shape
<1>2. Progress /\ Bound
  BY DEF Init, Progress, Bound, ScanStatuses
<1>3. Toured
  BY DEF Init, Toured
<1> QED
  BY <1>1, <1>2, <1>3 DEF IInv

(* A request takes the next point of the list.                             *)
LEMMA NextMoveInv ==
  ASSUME IInv, NextMove
  PROVE  IInv'
<1> USE DEF IInv
<1>1. PICK p \in PointsAt(gbl_current_point') : request_move(p)
  BY DEF NextMove
<1>2. /\ DOMAIN move' = DOMAIN move /\ move'.start = TRUE /\ move'.destination = p
  BY <1>1, MoveFields DEF request_move
<1>3. /\ gbl_current_point' = gbl_current_point + 1 /\ gScanPoints' = gScanPoints
      /\ gScanStatus' = "MOVING" /\ gGantryWasMoving' = TRUE
  BY DEF NextMove, run
<1>4. Listed' => p = Here'
  BY <1>1, <1>3 DEF Listed, Here, PointsAt
<1>5. Shape'
  BY <1>2, <1>3 DEF Shape
<1>6. Progress' /\ Bound'
  BY <1>2, <1>3, <1>4 DEF Progress, Bound, ScanStatuses
<1> QED
  BY <1>5, <1>6

(* The loop, the readout of events and the time of a measurement keep it.  *)
LEMMA LoopInv ==
  ASSUME IInv, frontend_loop \/ read_scan_state \/ Elapse
  PROVE  IInv'
<1> USE DEF IInv
<1>1. CASE WaitForMove
  BY <1>1 DEF WaitForMove, Looping, run, done, Shape, Progress, Bound, Listed, Here
<1>2. CASE Arrive
  <2>1. /\ gScanStatus \in {"MOVING", "MEASURING"} /\ gScanStatus' = "MEASURING"
        /\ UNCHANGED <<gbl_called_BOR, gbl_current_point, gScanPoints, missed, move>>
    BY <1>2 DEF Arrive, Looping, run, done, Shape, Progress, ScanStatuses
  <2> QED
    BY <2>1 DEF Shape, Progress, Bound, Listed, Here, ScanStatuses
<1>3. CASE Finish
  <2>1. /\ gScanStatus' = "STOPPED" /\ ~ gbl_called_BOR' /\ gbl_current_point' = 0
        /\ move' = move
    BY <1>3 DEF Finish, end_of_run
  <2> QED
    BY <2>1 DEF Shape, Progress, Bound, ScanStatuses
<1>4. CASE NextMove
  BY <1>4, NextMoveInv
<1>5. CASE read_scan_state
  BY <1>5 DEF read_scan_state, run, done, Shape, Progress, Bound, Listed, Here
<1>6. CASE Elapse
  <2>1. missed \subseteq missed' /\ UNCHANGED <<flags, gbl_current_point, gScanPoints, move>>
    BY <1>6 DEF Elapse, run
  <2> QED
    BY <2>1 DEF flags, Shape, Progress, Bound, Listed, Here
<1> QED
  BY <1>1, <1>2, <1>3, <1>4, <1>5, <1>6 DEF frontend_loop

(* So do the moves and refusals of the Move equipment.                     *)
LEMMA EquipmentInv ==
  ASSUME IInv, Equipment
  PROVE  IInv'
<1> USE DEF IInv
<1>1. UNCHANGED <<flags, gbl_current_point, gScanPoints>>
  BY DEF Equipment, Notice, Refuse, Reach, run
<1>2. Progress'
  BY <1>1 DEF Progress, flags
<1>3. DOMAIN move' = DOMAIN move /\ Shape'
  BY <1>1 DEF Shape, Equipment, Notice, Refuse, Reach
<1>4. CASE Notice
  <2>1. move.start /\ ~ move'.start /\ move'.moving /\ move'.destination = move.destination
    BY <1>4, MoveFields DEF Notice
  <2> QED
    BY <1>1, <1>2, <1>3, <2>1 DEF Bound, Listed, Here, flags
<1>5. CASE Refuse
  <2>1. /\ move'.destination = move.destination
        /\ gScanStatus \in {"MOVING", "MEASURING"} => move.destination \in missed'
    BY <1>5, MoveFields DEF Refuse
  <2> QED
    BY <1>1, <1>2, <1>3, <2>1 DEF Bound, Listed, Here, flags
<1>6. CASE Reach
  <2>1. /\ move.moving /\ move'.destination = move.destination /\ move'.start = move.start
        /\ move'.position = move.destination
    BY <1>6, MoveFields DEF Reach
  <2> QED
    BY <1>1, <1>2, <1>3, <2>1 DEF Bound, Listed, Here, flags
<1> QED
  BY <1>4, <1>5, <1>6 DEF Equipment

(* So does every step.                                                     *)
LEMMA StepInv ==
  ASSUME IInv, [Next]_vars
  PROVE  IInv'
<1>1. ASSUME NEW c \in Settings, begin_of_run(c) PROVE IInv'
  BY <1>1 DEF begin_of_run, IInv, Shape, Progress, Bound, ScanStatuses
<1>2. CASE StopRun
  BY <1>2 DEF StopRun, end_of_run, IInv, Shape, Progress, Bound, ScanStatuses
<1>3. CASE UNCHANGED vars
  BY <1>3 DEF vars, flags, run, done, IInv, Shape, Progress, Bound, Listed, Here
<1> QED
  BY <1>1, <1>2, <1>3, LoopInv, EquipmentInv DEF Next

(* Where the loop, the request and the gantry are with each other.         *)
THEOREM Invariance == Spec => []IInv
BY InitInv, StepInv, PTL DEF Spec

(* While the frontend measures at a point of the list, the Move equipment  *)
(* has been sent there, and the gantry is there unless that move is still  *)
(* to begin or under way, or was refused or seen too late                  *)
(* (frontend_loop): for every order of their steps.                        *)
THEOREM MeasuredInPlace == Spec => []MeasuresAtPoint
<1>1. IInv => MeasuresAtPoint
  BY DEF IInv, Bound, Listed, Here, MeasuresAtPoint
<1> QED
  BY <1>1, Invariance, PTL

-----------------------------------------------------------------------------
(* The walk of begin_of_run.  Its recursion is solved: the route is a      *)
(* quotient and a remainder by the points of a row.                        *)

(* A set of naturals that is not empty has a least one: what the library   *)
(* states for an operator.                                                 *)
LEMMA Smallest ==
  ASSUME NEW T \in SUBSET Nat, T # {}
  PROVE  \E n \in T : \A m \in T : n <= m
<1>1. PICK n \in T : \A m \in T : <<m, n>> \notin OpToRel(<, Nat)
  BY NatLessThanWellFounded, WFMin
<1>2. ASSUME NEW m \in T PROVE n <= m
  <2>1. <<m, n>> \notin {ss \in Nat \X Nat : ss[1] < ss[2]}
    BY <1>1 DEF OpToRel
  <2> QED
    BY <2>1
<1> QED
  BY <1>2

(* Quotient and remainder exist and are unique.                            *)
LEMMA Division ==
  ASSUME NEW a \in Nat, NEW b \in Nat \ {0}
  PROVE  a \div b \in Nat /\ a % b \in 0 .. b - 1 /\ a = b * (a \div b) + (a % b)
<1>1. a = b * (a \div b) + (a % b) /\ a \div b \in Int /\ a % b \in 0 .. b - 1
  OBVIOUS
<1>2. a \div b >= 0
  OBVIOUS
<1> QED
  BY <1>1, <1>2

(* Multiples of a step are in the order of their factors.                  *)
LEMMA MultMonotone ==
  ASSUME NEW a \in Nat, NEW b \in Nat, NEW d \in Nat, a <= b
  PROVE  a * d <= b * d /\ a * d \in Nat /\ d * a <= d * b
<1>1. PICK e \in Nat : b = a + e
  <2>1. b - a \in Nat /\ b = a + (b - a)
    OBVIOUS
  <2> QED
    BY <2>1
<1>2. b * d = a * d + e * d /\ e * d >= 0 /\ a * d \in Nat /\ e * d \in Nat
  BY <1>1
<1> QED
  BY <1>2

(* A quotient and a remainder found by hand are those of the division.     *)
LEMMA QuotientIs ==
  ASSUME NEW b \in Nat \ {0}, NEW q \in Nat, NEW r \in 0 .. b - 1, NEW a \in Nat, a = b * q + r
  PROVE  a \div b = q /\ a % b = r
<1> DEFINE p == a \div b
           s == a % b
<1>1. p \in Nat /\ s \in 0 .. b - 1 /\ a = b * p + s
  BY Division
<1> HIDE DEF p, s
<1>2. p = q
  <2>1. CASE p < q
    <3>1. b * (p + 1) <= b * q /\ b * (p + 1) = b * p + b
      BY <1>1, <2>1, MultMonotone
    <3> QED
      BY <1>1, <3>1
  <2>2. CASE p > q
    <3>1. b * (q + 1) <= b * p /\ b * (q + 1) = b * q + b
      BY <1>1, <2>2, MultMonotone
    <3> QED
      BY <1>1, <3>1
  <2> QED
    BY <1>1, <2>1, <2>2
<1> QED
  BY <1>1, <1>2 DEF p, s

-----------------------------------------------------------------------------
(* What a run may find in /Settings.                                       *)
Setting == [ step : Nat \ {0}, dx : Nat, dy : Nat ]

(* Points of a row, and rows, of the grid.                                 *)
Row(c)  == c.dx \div c.step + 1
Rows(c) == (c.dy + (c.step - 1)) \div c.step

(* The last column is within the distance in x, the next one is not; the   *)
(* rows are those that begin before the distance in y.                     *)
LEMMA RowFacts ==
  ASSUME NEW c \in Setting
  PROVE  /\ c.step \in Nat \ {0} /\ c.dx \in Nat /\ c.dy \in Nat
         /\ Row(c) \in Nat \ {0} /\ (Row(c) - 1) * c.step <= c.dx /\ c.dx < Row(c) * c.step
         /\ Rows(c) \in Nat /\ c.dy <= Rows(c) * c.step
         /\ \A r \in Nat : r * c.step < c.dy <=> r < Rows(c)
<1> DEFINE s == c.step
           q == c.dx \div s
           t == c.dx % s
           a == c.dy + (s - 1)
           p == a \div s
           u == a % s
<1>1. s \in Nat \ {0} /\ c.dx \in Nat /\ c.dy \in Nat /\ a \in Nat
  BY DEF Setting
<1>2. q \in Nat /\ t \in 0 .. s - 1 /\ c.dx = s * q + t
  BY <1>1, Division
<1>3. p \in Nat /\ u \in 0 .. s - 1 /\ a = s * p + u
  BY <1>1, Division
<1>4. Row(c) = q + 1 /\ Rows(c) = p /\ a = c.dy + (s - 1)
  BY DEF Row, Rows
<1> HIDE DEF q, t, a, p, u, s
<1>5. q * s <= c.dx /\ c.dx < (q + 1) * s
  BY <1>1, <1>2
<1>6. s * p = p * s /\ p * s \in Nat
  BY <1>1, <1>3
<1>7. c.dy <= p * s /\ p * s <= c.dy + (s - 1)
  BY <1>1, <1>3, <1>4, <1>6
<1>8. ASSUME NEW r \in Nat PROVE r * s < c.dy <=> r < p
  <2>1. CASE r < p
    <3>1. (r + 1) * s <= p * s /\ (r + 1) * s = r * s + s /\ r * s \in Nat
      BY <1>1, <1>3, <2>1, MultMonotone
    <3>2. \A x, y \in Nat : x + s <= y /\ y <= c.dy + (s - 1) => x < c.dy
      BY <1>1
    <3>3. r * s < c.dy
      BY <1>6, <1>7, <3>1, <3>2
    <3> QED
      BY <2>1, <3>3
  <2>2. CASE p <= r
    <3>1. p * s <= r * s /\ r * s \in Nat
      BY <1>1, <1>3, <2>2, MultMonotone
    <3> QED
      BY <1>1, <1>3, <1>7, <1>6, <2>2, <3>1
  <2> QED
    BY <1>3, <2>1, <2>2
<1> QED
  BY <1>1, <1>2, <1>3, <1>4, <1>5, <1>7, <1>8 DEF s

(* Where the walk is at place j of row r: even rows go there, odd ones back.*)
Place(c, r, j) ==
  [ x |-> IF r % 2 = 0 THEN j * c.step ELSE (Row(c) - 1 - j) * c.step,
    y |-> r * c.step, forward |-> r % 2 = 0 ]

(* The loop body goes to the next place of the row, or to the next row.    *)
LEMMA NextPlace ==
  ASSUME NEW c \in Setting, NEW r \in Nat, NEW j \in 0 .. Row(c) - 1
  PROVE  NextPoint(c, Place(c, r, j)) =
           IF j < Row(c) - 1 THEN Place(c, r, j + 1) ELSE Place(c, r + 1, 0)
<1> DEFINE s == c.step
           k == Row(c)
           Step(p) == NextPoint(c, p)
<1>1. /\ s \in Nat \ {0} /\ c.dx \in Nat /\ k \in Nat \ {0}
      /\ (k - 1) * s <= c.dx /\ c.dx < k * s
  BY RowFacts
<1>2. (r % 2 = 0 /\ (r + 1) % 2 # 0) \/ (r % 2 # 0 /\ (r + 1) % 2 = 0)
  OBVIOUS
<1>3. (r + 1) * s = r * s + s /\ r * s \in Nat /\ 0 * s = 0
  BY <1>1
<1>4. /\ \A i \in Nat : r % 2 = 0 => Place(c, r, i) = [ x |-> i * s, y |-> r * s, forward |-> TRUE ]
      /\ \A i \in Nat : r % 2 # 0 => Place(c, r, i) = [ x |-> (k - 1 - i) * s, y |-> r * s, forward |-> FALSE ]
      /\ (r + 1) % 2 = 0 => Place(c, r + 1, 0) = [ x |-> 0, y |-> r * s + s, forward |-> TRUE ]
      /\ (r + 1) % 2 # 0 => Place(c, r + 1, 0) = [ x |-> (k - 1) * s, y |-> r * s + s, forward |-> FALSE ]
  <2>1. k - 1 - 0 = k - 1
    BY <1>1
  <2> QED
    BY <1>3, <2>1, Zenon DEF Place
<1>5. CASE r % 2 = 0
  <2> DEFINE p == [ x |-> j * s, y |-> r * s, forward |-> TRUE ]
  <2>1. Place(c, r, j) = p /\ j * s + s = (j + 1) * s /\ j * s \in Nat
    BY <1>1, <1>4, <1>5
  <2>2. CASE j < k - 1
    <3>1. j * s + s <= c.dx
      <4>1. (j + 1) * s <= (k - 1) * s
        BY <1>1, <2>2, MultMonotone
      <4> QED
        BY <1>1, <2>1, <4>1
    <3>2. Step(p) = [ p EXCEPT !.x = p.x + s ]
      BY <3>1 DEF NextPoint
    <3>3. Step(p) = [ x |-> (j + 1) * s, y |-> r * s, forward |-> TRUE ]
      <4>1. Step(p) = [ x |-> j * s + s, y |-> r * s, forward |-> TRUE ]
        BY <3>2
      <4> QED
        BY ONLY <2>1, <4>1, Zenon
    <3>4. Place(c, r, j + 1) = [ x |-> (j + 1) * s, y |-> r * s, forward |-> TRUE ]
      <4>1. j + 1 \in Nat
        BY <1>1
      <4> QED
        BY <1>4, <1>5, <4>1, Zenon
    <3> QED
      BY <2>1, <2>2, <3>3, <3>4
  <2>3. CASE j = k - 1
    <3>1. ~ (j * s + s <= c.dx)
      BY <1>1, <2>1, <2>3
    <3>2. Step(p) = [ p EXCEPT !.forward = ~ @, !.y = @ + s ]
      BY <3>1 DEF NextPoint
    <3>3. Step(p) = [ x |-> (k - 1) * s, y |-> r * s + s, forward |-> FALSE ]
      BY <2>3, <3>2
    <3>4. Place(c, r + 1, 0) = [ x |-> (k - 1) * s, y |-> r * s + s, forward |-> FALSE ]
      BY <1>2, <1>4, <1>5
    <3> QED
      BY <1>1, <2>1, <2>3, <3>3, <3>4
  <2> QED
    BY <1>1, <2>2, <2>3
<1>6. CASE r % 2 # 0
  <2> DEFINE i == k - 1 - j
             p == [ x |-> i * s, y |-> r * s, forward |-> FALSE ]
  <2>1. i \in Nat /\ i \in Int
    BY <1>1
  <2>2. Place(c, r, j) = p /\ i * s - s = (i - 1) * s /\ i * s \in Nat
    BY <1>1, <1>4, <1>6, <2>1
  <2>3. CASE j < k - 1
    <3>1. i - 1 \in Nat /\ k - 1 - (j + 1) = i - 1
      BY <1>1, <2>3
    <3>2. i * s - s >= 0
      BY <1>1, <2>2, <3>1, MultMonotone
    <3>3. Step(p) = [ p EXCEPT !.x = p.x - s ]
      BY <3>2 DEF NextPoint
    <3>4. Step(p) = [ x |-> (i - 1) * s, y |-> r * s, forward |-> FALSE ]
      <4>1. Step(p) = [ x |-> i * s - s, y |-> r * s, forward |-> FALSE ]
        BY <3>3
      <4> QED
        BY ONLY <2>2, <4>1, Zenon
    <3>5. Place(c, r, j + 1) = [ x |-> (i - 1) * s, y |-> r * s, forward |-> FALSE ]
      <4>1. j + 1 \in Nat
        BY <1>1
      <4>2. Place(c, r, j + 1) = [ x |-> (k - 1 - (j + 1)) * s, y |-> r * s, forward |-> FALSE ]
        BY <1>4, <1>6, <4>1, Zenon
      <4> QED
        BY ONLY <3>1, <4>2, Zenon
    <3> QED
      BY <2>2, <2>3, <3>4, <3>5
  <2>4. CASE j = k - 1
    <3>1. i = 0 /\ i * s = 0
      BY <1>1, <2>4
    <3>2. ~ (i * s - s >= 0)
      BY <1>1, <3>1
    <3>3. Step(p) = [ p EXCEPT !.forward = ~ @, !.y = @ + s ]
      BY <3>2 DEF NextPoint
    <3>4. Step(p) = [ x |-> 0, y |-> r * s + s, forward |-> TRUE ]
      BY <3>1, <3>3
    <3>5. Place(c, r + 1, 0) = [ x |-> 0, y |-> r * s + s, forward |-> TRUE ]
      BY <1>2, <1>4, <1>6
    <3> QED
      BY <1>1, <2>2, <2>4, <3>4, <3>5
  <2> QED
    BY <1>1, <2>3, <2>4
<1> QED
  BY <1>5, <1>6

(* The closed form of the route.                                           *)
Spot(c, n) == Place(c, n \div Row(c), n % Row(c))

(* The closed form begins where the loop begins ...                        *)
LEMMA SpotFirst ==
  ASSUME NEW c \in Setting
  PROVE  Spot(c, 0) = [ x |-> 0, y |-> 0, forward |-> TRUE ]
<1>1. Row(c) \in Nat \ {0} /\ c.step \in Nat
  BY RowFacts
<1>2. 0 = Row(c) * 0 + 0 /\ 0 \in 0 .. Row(c) - 1
  BY <1>1
<1>3. 0 \div Row(c) = 0 /\ 0 % Row(c) = 0
  BY ONLY <1>1, <1>2, QuotientIs
<1>4. 0 % 2 = 0 /\ 0 * c.step = 0
  BY <1>1
<1> QED
  BY <1>3, <1>4, Zenon DEF Spot, Place

(* ... and goes on as the loop body does.                                  *)
LEMMA SpotNext ==
  ASSUME NEW c \in Setting, NEW n \in Nat
  PROVE  Spot(c, n + 1) = NextPoint(c, Spot(c, n))
<1> DEFINE k == Row(c)
           r == n \div k
           j == n % k
<1>1. k \in Nat \ {0}
  BY RowFacts
<1>2. r \in Nat /\ j \in 0 .. k - 1 /\ n = k * r + j
  BY <1>1, Division
<1>3. NextPoint(c, Spot(c, n)) = IF j < k - 1 THEN Place(c, r, j + 1) ELSE Place(c, r + 1, 0)
  BY <1>2, NextPlace DEF Spot
<1> HIDE DEF k, r, j
<1>4. CASE j < k - 1
  <2>1. j + 1 \in 0 .. k - 1 /\ n + 1 = k * r + (j + 1)
    BY <1>1, <1>2, <1>4
  <2>2. (n + 1) \div k = r /\ (n + 1) % k = j + 1
    BY <1>1, <1>2, <2>1, QuotientIs
  <2> QED
    BY <1>3, <1>4, <2>2 DEF Spot, k
<1>5. CASE j = k - 1
  <2>1. 0 \in 0 .. k - 1 /\ r + 1 \in Nat /\ n + 1 = k * (r + 1) + 0
    BY <1>1, <1>2, <1>5
  <2>2. (n + 1) \div k = r + 1 /\ (n + 1) % k = 0
    <3> DEFINE q == r + 1
               a == n + 1
    <3>1. 0 \in 0 .. k - 1 /\ q \in Nat /\ a \in Nat /\ a = k * q + 0
      BY <2>1
    <3> HIDE DEF q, a
    <3>2. a \div k = q /\ a % k = 0
      BY <1>1, <3>1, QuotientIs
    <3> QED
      BY <3>2 DEF a, q
  <2>3. ~ (j < k - 1)
    BY <1>1, <1>5
  <2> QED
    BY <1>3, <2>2, <2>3 DEF Spot, k
<1> QED
  BY <1>1, <1>2, <1>4, <1>5

(* What the recursion computes: a function that takes each of its steps    *)
(* exists, and at the least number where two such functions differ they    *)
(* would have differed before.                                             *)
LEMMA RouteIs ==
  ASSUME NEW c \in Setting, MaxPoints \in Nat
  PROVE  \A n \in 0 .. MaxPoints : Route(c)[n] = Spot(c, n)
<1> DEFINE N == 0 .. MaxPoints
           first == [ x |-> 0, y |-> 0, forward |-> TRUE ]
           Form(f) == [ n \in N |-> IF n = 0 THEN first ELSE NextPoint(c, f[n - 1]) ]
           g == [ n \in N |-> Spot(c, n) ]
           f == Route(c)
<1>1. f = CHOOSE h : h = Form(h)
  BY DEF Route
<1>2. g = Form(g)
  <2>1. ASSUME NEW n \in N PROVE g[n] = IF n = 0 THEN first ELSE NextPoint(c, g[n - 1])
    <3>1. CASE n = 0
      BY <3>1, SpotFirst
    <3>2. CASE n # 0
      <4>1. n - 1 \in Nat /\ n - 1 \in N /\ (n - 1) + 1 = n
        BY <3>2
      <4>2. Spot(c, (n - 1) + 1) = NextPoint(c, Spot(c, n - 1))
        BY <4>1, SpotNext
      <4> QED
        BY <3>2, <4>1, <4>2
    <3> QED
      BY <3>1, <3>2
  <2> QED
    BY <2>1
<1>3. f = Form(f)
  BY <1>1, <1>2
<1>4. ASSUME NEW n \in N, f[n] # Spot(c, n) PROVE FALSE
  <2> DEFINE T == { i \in N : f[i] # Spot(c, i) }
  <2>1. T \in SUBSET Nat /\ T # {}
    BY <1>4
  <2>2. PICK m \in T : \A i \in T : m <= i
    BY <2>1, Smallest
  <2>3. m \in N /\ f[m] # Spot(c, m) /\ f[m] = IF m = 0 THEN first ELSE NextPoint(c, f[m - 1])
    BY <1>3
  <2>4. m # 0
    BY <2>3, SpotFirst
  <2>5. m - 1 \in N /\ m - 1 \in Nat /\ (m - 1) + 1 = m /\ m - 1 \notin T
    BY <2>2, <2>3, <2>4
  <2>6. f[m - 1] = Spot(c, m - 1)
    BY <2>5
  <2>7. Spot(c, (m - 1) + 1) = NextPoint(c, Spot(c, m - 1))
    BY <2>5, SpotNext
  <2> QED
    BY <2>3, <2>4, <2>5, <2>6, <2>7
<1> QED
  BY <1>4

-----------------------------------------------------------------------------
(* The column and the row of a number of the route.                        *)
Line(c, n) == n \div Row(c)
Col(c, n)  == IF Line(c, n) % 2 = 0 THEN n % Row(c) ELSE Row(c) - 1 - (n % Row(c))

(* Each number is a column of a row; those before the end of the walk are  *)
(* the ones in a row before the distance in y.                             *)
LEMMA SpotAt ==
  ASSUME NEW c \in Setting, NEW n \in Nat
  PROVE  /\ Line(c, n) \in Nat /\ Col(c, n) \in 0 .. Row(c) - 1
         /\ Spot(c, n).x = Col(c, n) * c.step /\ Spot(c, n).y = Line(c, n) * c.step
         /\ n < Row(c) * Rows(c) <=> Line(c, n) < Rows(c)
<1> DEFINE k == Row(c)
           r == n \div k
           j == n % k
<1>1. k \in Nat \ {0} /\ Rows(c) \in Nat
  BY RowFacts
<1>2. r \in Nat /\ j \in 0 .. k - 1 /\ n = k * r + j
  BY <1>1, Division
<1>3. Line(c, n) = r /\ Col(c, n) = IF r % 2 = 0 THEN j ELSE k - 1 - j
  BY DEF Line, Col
<1>4. Spot(c, n).x = Col(c, n) * c.step /\ Spot(c, n).y = Line(c, n) * c.step
  BY DEF Spot, Place, Line, Col
<1> HIDE DEF k, r, j
<1>5. n < k * Rows(c) <=> r < Rows(c)
  <2>1. CASE r < Rows(c)
    <3>1. k * (r + 1) <= k * Rows(c) /\ k * (r + 1) = k * r + k
      BY <1>1, <1>2, <2>1, MultMonotone
    <3>2. k * r \in Nat /\ k * Rows(c) \in Nat
      BY <1>1, <1>2
    <3> QED
      BY <1>1, <1>2, <2>1, <3>1, <3>2
  <2>2. CASE Rows(c) <= r
    <3>1. k * Rows(c) <= k * r /\ k * r \in Nat /\ k * Rows(c) \in Nat
      BY <1>1, <1>2, <2>2, MultMonotone
    <3> QED
      BY <1>1, <1>2, <2>2, <3>1
  <2> QED
    BY <1>1, <1>2, <2>1, <2>2
<1> QED
  BY <1>1, <1>2, <1>3, <1>4, <1>5 DEF k

(* Different numbers are different places.                                 *)
LEMMA SpotUnique ==
  ASSUME NEW c \in Setting, NEW n \in Nat, NEW m \in Nat,
         Line(c, n) = Line(c, m), Col(c, n) = Col(c, m)
  PROVE  n = m
<1> DEFINE k == Row(c)
<1>1. k \in Nat \ {0}
  BY RowFacts
<1>2. /\ n \div k \in Nat /\ n % k \in 0 .. k - 1 /\ n = k * (n \div k) + (n % k)
      /\ m \div k \in Nat /\ m % k \in 0 .. k - 1 /\ m = k * (m \div k) + (m % k)
  BY <1>1, Division
<1>3. n \div k = m \div k
  BY DEF Line
<1>4. n % k = m % k
  <2> DEFINE i == n % k
             j == m % k
             even == (n \div k) % 2 = 0
  <2>1. /\ Col(c, n) = IF even THEN i ELSE k - 1 - i
        /\ Col(c, m) = IF even THEN j ELSE k - 1 - j
    BY <1>3 DEF Line, Col
  <2>2. i \in Nat /\ j \in Nat
    BY <1>1, <1>2
  <2> HIDE DEF i, j, even, k
  <2>3. i = j
    <3>1. even => Col(c, n) = i /\ Col(c, m) = j
      BY <2>1
    <3>2. ~ even => Col(c, n) = k - 1 - i /\ Col(c, m) = k - 1 - j
      BY <2>1
    <3>3. CASE even
      BY <3>1, <3>3
    <3>4. CASE ~ even
      <4>1. k - 1 - i = k - 1 - j
        BY <3>2, <3>4
      <4> QED
        BY ONLY <1>1, <2>2, <4>1
    <3> QED
      BY <3>3, <3>4
  <2> QED
    BY <2>3 DEF i, j
<1> QED
  BY ONLY <1>2, <1>3, <1>4, Zenon

(* Every column of every row has a number.                                 *)
LEMMA SpotReaches ==
  ASSUME NEW c \in Setting, NEW a \in 0 .. Row(c) - 1, NEW b \in Nat
  PROVE  \E n \in Nat : Col(c, n) = a /\ Line(c, n) = b
<1> DEFINE k == Row(c)
           j == IF b % 2 = 0 THEN a ELSE k - 1 - a
           n == k * b + j
<1>1. k \in Nat \ {0}
  BY RowFacts
<1>2. j \in 0 .. k - 1 /\ n \in Nat /\ n = k * b + j
  BY <1>1
<1>3. a = IF b % 2 = 0 THEN j ELSE k - 1 - j
  BY <1>1
<1> HIDE DEF n, j, k
<1>4. n \div k = b /\ n % k = j
  BY <1>1, <1>2, QuotientIs
<1>5. Line(c, n) = b /\ Col(c, n) = a
  BY <1>3, <1>4 DEF Line, Col, k
<1> QED
  BY <1>2, <1>5

(* The next number is the next place of the row, or the next row.          *)
LEMMA SpotNeighbour ==
  ASSUME NEW c \in Setting, NEW n \in Nat
  PROVE  \/ /\ Line(c, n + 1) = Line(c, n)
            /\ Col(c, n + 1) \in { Col(c, n) + 1, Col(c, n) - 1 }
         \/ Line(c, n + 1) = Line(c, n) + 1 /\ Col(c, n + 1) = Col(c, n)
<1> DEFINE k == Row(c)
           r == n \div k
           j == n % k
           a == n + 1
<1>1. k \in Nat \ {0} /\ a \in Nat /\ a = n + 1
  BY RowFacts
<1>2. r \in Nat /\ j \in 0 .. k - 1 /\ n = k * r + j
  BY <1>1, Division
<1>3. Line(c, n) = r /\ Col(c, n) = IF r % 2 = 0 THEN j ELSE k - 1 - j
  BY DEF Line, Col
<1>4. Line(c, a) = a \div k /\ Col(c, a) = IF (a \div k) % 2 = 0 THEN a % k ELSE k - 1 - (a % k)
  BY DEF Line, Col
<1> HIDE DEF k, r, j, a
<1>5. CASE j < k - 1
  <2>1. j + 1 \in 0 .. k - 1 /\ a = k * r + (j + 1)
    BY <1>1, <1>2, <1>5
  <2>2. a \div k = r /\ a % k = j + 1
    BY <1>1, <1>2, <2>1, QuotientIs
  <2> QED
    BY <1>1, <1>2, <1>3, <1>4, <2>2 DEF a
<1>6. CASE j = k - 1
  <2> DEFINE q == r + 1
  <2>1. 0 \in 0 .. k - 1 /\ q \in Nat /\ a = k * q + 0
    BY <1>1, <1>2, <1>6
  <2> HIDE DEF q
  <2>2. a \div k = q /\ a % k = 0
    BY <1>1, <2>1, QuotientIs
  <2>3. (r % 2 = 0 /\ q % 2 # 0) \/ (r % 2 # 0 /\ q % 2 = 0)
    BY <1>2 DEF q
  <2>4. Line(c, n) = r /\ Line(c, a) = r + 1
    BY <1>3, <1>4, <2>2 DEF q
  <2>5. Col(c, n) = IF r % 2 = 0 THEN k - 1 ELSE 0
    BY <1>1, <1>3, <1>6
  <2>6. Col(c, a) = IF q % 2 = 0 THEN 0 ELSE k - 1
    BY <1>1, <1>4, <2>2
  <2>7. Col(c, a) = Col(c, n)
    BY ONLY <2>3, <2>5, <2>6
  <2> QED
    BY ONLY <1>1, <2>4, <2>7, Zenon
<1> QED
  BY <1>1, <1>2, <1>5, <1>6

(* Multiples are quotients, and of different quotients different.          *)
LEMMA MultipleIs ==
  ASSUME NEW s \in Nat \ {0}, NEW n \in Nat, NEW k
  PROVE  k \in Multiples(s, n) <=> \E a \in Nat : k = a * s /\ a * s <= n
<1>1. ASSUME k \in Multiples(s, n) PROVE \E a \in Nat : k = a * s /\ a * s <= n
  <2>1. k \in Nat /\ k <= n /\ k % s = 0
    BY <1>1 DEF Multiples
  <2>2. k \div s \in Nat /\ k = s * (k \div s) + (k % s)
    BY <2>1, Division
  <2>3. k = (k \div s) * s
    BY <2>1, <2>2
  <2> QED
    BY <2>1, <2>2, <2>3
<1>2. ASSUME NEW a \in Nat, k = a * s, a * s <= n PROVE k \in Multiples(s, n)
  <2>1. k \in Nat /\ k = s * a + 0 /\ 0 \in 0 .. s - 1
    BY <1>2
  <2>2. k % s = 0
    BY <2>1, QuotientIs
  <2> QED
    BY <1>2, <2>1, <2>2 DEF Multiples
<1> QED
  BY <1>1, <1>2

(* Multiples that are equal have equal factors.                            *)
LEMMA MultInjective ==
  ASSUME NEW s \in Nat \ {0}, NEW a \in Nat, NEW b \in Nat
  PROVE  a * s <= b * s <=> a <= b
<1>1. CASE a <= b
  BY <1>1, MultMonotone
<1>2. CASE b < a
  <2>1. (b + 1) * s <= a * s /\ (b + 1) * s = b * s + s /\ b * s \in Nat /\ a * s \in Nat
    BY <1>2, MultMonotone
  <2> QED
    BY <1>2, <2>1
<1> QED
  BY <1>1, <1>2

(* The grid, by columns and rows.                                          *)
LEMMA GridIs ==
  ASSUME NEW c \in Setting, NEW p
  PROVE  p \in Grid(c) <=> \E a \in 0 .. Row(c) - 1, b \in Nat :
                             b < Rows(c) /\ p = << a * c.step, b * c.step >>
<1> DEFINE s == c.step
           k == Row(c)
<1>1. /\ s \in Nat \ {0} /\ c.dx \in Nat /\ c.dy \in Nat
      /\ k \in Nat \ {0} /\ (k - 1) * s <= c.dx /\ c.dx < k * s
      /\ \A r \in Nat : r * s < c.dy <=> r < Rows(c)
  BY RowFacts
<1>2. \A a \in Nat : a * s <= c.dx <=> a \in 0 .. k - 1
  <2> TAKE a \in Nat
  <2>1. CASE a <= k - 1
    <3>1. a * s <= (k - 1) * s /\ a * s \in Nat /\ (k - 1) * s \in Nat
      BY <1>1, <2>1, MultMonotone
    <3> QED
      BY <1>1, <2>1, <3>1
  <2>2. CASE k <= a
    <3>1. k * s <= a * s /\ a * s \in Nat /\ k * s \in Nat
      BY <1>1, <2>2, MultMonotone
    <3> QED
      BY <1>1, <2>2, <3>1
  <2> QED
    BY <1>1, <2>1, <2>2
<1> HIDE DEF s, k
<1>3. \A x : x \in Multiples(s, c.dx) <=> \E a \in 0 .. k - 1 : x = a * s
  <2> TAKE x
  <2>1. x \in Multiples(s, c.dx) <=> \E a \in Nat : x = a * s /\ a * s <= c.dx
    BY <1>1, MultipleIs
  <2>2. 0 .. k - 1 \subseteq Nat
    OBVIOUS
  <2> QED
    BY <1>2, <2>1, <2>2, Zenon
<1>4. \A y : (y \in Multiples(s, c.dy) /\ y < c.dy) <=> \E b \in Nat : b < Rows(c) /\ y = b * s
  <2> TAKE y
  <2>1. y \in Multiples(s, c.dy) <=> \E b \in Nat : y = b * s /\ b * s <= c.dy
    BY <1>1, MultipleIs
  <2>2. \A b \in Nat : b * s \in Nat /\ (b * s < c.dy => b * s <= c.dy)
    BY <1>1
  <2> QED
    BY <1>1, <2>1, <2>2, Zenon
<1>5. p \in Grid(c) <=> \E x \in Multiples(s, c.dx), y \in Multiples(s, c.dy) :
                          y < c.dy /\ p = <<x, y>>
  BY DEF Grid, s
<1>6. ASSUME p \in Grid(c)
      PROVE  \E a \in 0 .. k - 1, b \in Nat : b < Rows(c) /\ p = << a * s, b * s >>
  <2>1. PICK x \in Multiples(s, c.dx), y \in Multiples(s, c.dy) : y < c.dy /\ p = <<x, y>>
    BY <1>5, <1>6
  <2>2. PICK a \in 0 .. k - 1 : x = a * s
    BY <1>3
  <2>3. PICK b \in Nat : b < Rows(c) /\ y = b * s
    BY <1>4, <2>1
  <2> QED
    BY <2>1, <2>2, <2>3
<1>7. ASSUME NEW a \in 0 .. k - 1, NEW b \in Nat, b < Rows(c), p = << a * s, b * s >>
      PROVE  p \in Grid(c)
  <2>1. a * s \in Multiples(s, c.dx)
    BY <1>3
  <2>2. b * s \in Multiples(s, c.dy) /\ b * s < c.dy
    BY <1>4, <1>7
  <2> QED
    BY <1>5, <1>7, <2>1, <2>2
<1> QED
  BY <1>6, <1>7, Zenon DEF s, k

-----------------------------------------------------------------------------
(* The walk: the route up to the end of the last row, or until the list is *)
(* full.                                                                   *)
LEMMA WalkIs ==
  ASSUME NEW c \in Setting, MaxPoints \in Nat
  PROVE  /\ Len(Walk(c)) \in Nat /\ Len(Walk(c)) <= MaxPoints
         /\ Len(Walk(c)) <= Row(c) * Rows(c)
         /\ Len(Walk(c)) # MaxPoints => Len(Walk(c)) = Row(c) * Rows(c)
         /\ DOMAIN Walk(c) = 1 .. Len(Walk(c))
         /\ \A i \in 1 .. Len(Walk(c)) :
              Walk(c)[i] = << Col(c, i - 1) * c.step, Line(c, i - 1) * c.step >>
<1> DEFINE w == Walk(c)
           p == Row(c) * Rows(c)
           point == Route(c)
           stops(n) == point[n].y >= c.dy \/ n = MaxPoints
           Total(n) == stops(n) /\ \A i \in 0 .. n - 1 : ~ stops(i)
           t == CHOOSE n \in 0 .. MaxPoints : Total(n)
<1>1. /\ Row(c) \in Nat /\ Rows(c) \in Nat /\ c.step \in Nat /\ c.dy \in Nat
      /\ \A r \in Nat : r * c.step < c.dy <=> r < Rows(c)
  BY RowFacts
<1>2. p \in Nat
  BY <1>1
<1>3. ASSUME NEW n \in 0 .. MaxPoints
      PROVE  /\ stops(n) <=> n >= p \/ n = MaxPoints
             /\ point[n].x = Col(c, n) * c.step /\ point[n].y = Line(c, n) * c.step
  <2>1. point[n] = Spot(c, n)
    BY RouteIs
  <2>2. /\ Line(c, n) \in Nat /\ Spot(c, n).x = Col(c, n) * c.step
        /\ Spot(c, n).y = Line(c, n) * c.step
        /\ n < p <=> Line(c, n) < Rows(c)
    BY SpotAt
  <2>3. Line(c, n) * c.step >= c.dy <=> ~ (Line(c, n) * c.step < c.dy)
    BY <1>1, <2>2
  <2> HIDE DEF p, point
  <2> QED
    BY <1>1, <1>2, <2>1, <2>2, <2>3
<1> HIDE DEF p, point
<1>4. \E n \in 0 .. MaxPoints : Total(n)
  <2> DEFINE m == IF p <= MaxPoints THEN p ELSE MaxPoints
  <2>1. m \in 0 .. MaxPoints /\ (m >= p \/ m = MaxPoints)
    BY <1>2
  <2>2. \A i \in 0 .. m - 1 : i \in 0 .. MaxPoints /\ ~ (i >= p \/ i = MaxPoints)
    BY <1>2
  <2> HIDE DEF m
  <2>3. stops(m) /\ \A i \in 0 .. m - 1 : ~ stops(i)
    BY <1>3, <2>1, <2>2
  <2> QED
    BY <2>1, <2>3
<1> HIDE DEF stops
<1>5. t \in 0 .. MaxPoints /\ Total(t)
  BY <1>4
<1>6. w = [ i \in 1 .. t |-> << point[i - 1].x, point[i - 1].y >> ]
  BY DEF Walk, point, stops
<1> HIDE DEF t, w
<1>7. DOMAIN w = 1 .. t /\ Len(w) = t
  <2> DEFINE S == { w[i] : i \in 1 .. t }
  <2>1. t \in Nat /\ w \in [ 1 .. t -> S ]
    BY <1>5, <1>6
  <2> HIDE DEF S
  <2>2. w \in Seq(S)
    BY <2>1, SeqDef
  <2> QED
    BY <1>6, <2>1, <2>2
<1>8. t <= p
  <2>1. CASE t = 0
    BY <1>2, <2>1
  <2>2. CASE t # 0
    <3>1. t - 1 \in 0 .. t - 1 /\ t - 1 \in 0 .. MaxPoints
      BY <1>5, <2>2
    <3>2. ~ stops(t - 1)
      BY <1>5, <3>1
    <3>3. ~ (t - 1 >= p)
      BY <1>3, <3>1, <3>2
    <3> QED
      BY <1>2, <1>5, <3>3
  <2> QED
    BY <2>1, <2>2
<1>9. t # MaxPoints => t = p
  BY <1>2, <1>3, <1>5, <1>8
<1>10. \A i \in 1 .. t : w[i] = << Col(c, i - 1) * c.step, Line(c, i - 1) * c.step >>
  <2> TAKE i \in 1 .. t
  <2>1. i - 1 \in 0 .. MaxPoints
    BY <1>5
  <2> QED
    BY <1>3, <1>6, <2>1
<1> QED
  BY <1>5, <1>7, <1>8, <1>9, <1>10 DEF w, p

(* The walk of begin_of_run covers every grid.                             *)
LEMMA WalkCovers ==
  ASSUME NEW c \in Setting, MaxPoints \in Nat
  PROVE  Covers(Walk(c), c)
<1> DEFINE w == Walk(c)
           n == Len(w)
           s == c.step
           apart(a, b) == (a[1] - b[1]) * (a[1] - b[1]) + (a[2] - b[2]) * (a[2] - b[2])
           col(i) == Col(c, i - 1)
           row(i) == Line(c, i - 1)
<1>1. /\ n \in Nat /\ n <= Row(c) * Rows(c) /\ (n # MaxPoints => n = Row(c) * Rows(c))
      /\ \A i \in 1 .. n : w[i] = << col(i) * s, row(i) * s >>
  BY WalkIs
<1>2. s \in Nat \ {0} /\ Row(c) \in Nat /\ Rows(c) \in Nat /\ Row(c) * Rows(c) \in Nat
  BY RowFacts
<1> HIDE DEF w, n
<1>3. ASSUME NEW i \in 1 .. n
      PROVE  row(i) \in Nat /\ row(i) < Rows(c) /\ col(i) \in 0 .. Row(c) - 1 /\ col(i) \in Nat
  <2>1. i - 1 \in Nat /\ i - 1 < Row(c) * Rows(c)
    BY <1>1, <1>2
  <2> QED
    BY <1>2, <2>1, SpotAt
<1>4. ASSUME NEW i \in 1 .. n PROVE w[i] \in Grid(c)
  BY <1>1, <1>3, GridIs
<1>5. ASSUME n # MaxPoints, NEW p \in Grid(c) PROVE \E i \in 1 .. n : w[i] = p
  <2>1. PICK a \in 0 .. Row(c) - 1, b \in Nat : b < Rows(c) /\ p = << a * s, b * s >>
    BY <1>5, GridIs
  <2>2. PICK m \in Nat : Col(c, m) = a /\ Line(c, m) = b
    BY <2>1, SpotReaches
  <2>3. m < Row(c) * Rows(c)
    BY <2>1, <2>2, SpotAt
  <2>4. m + 1 \in 1 .. n /\ m + 1 - 1 = m
    BY <1>1, <1>5, <2>3
  <2>5. w[m + 1] = << Col(c, m) * s, Line(c, m) * s >>
    BY <1>1, <2>4
  <2> QED
    BY <2>1, <2>2, <2>4, <2>5
<1>6. ASSUME NEW i \in 1 .. n, NEW j \in 1 .. n, w[i] = w[j] PROVE i = j
  <2>1. col(i) * s = col(j) * s /\ row(i) * s = row(j) * s
    BY <1>1, <1>6
  <2>2. /\ col(i) \in Nat /\ col(j) \in Nat /\ row(i) \in Nat /\ row(j) \in Nat
        /\ i - 1 \in Nat /\ j - 1 \in Nat
    BY <1>3
  <2>3. \A a, b \in Nat : a * s = b * s => a = b
    <3> SUFFICES ASSUME NEW a \in Nat, NEW b \in Nat, a * s = b * s PROVE a = b
      OBVIOUS
    <3>1. a * s <= b * s /\ b * s <= a * s
      BY <1>2
    <3>2. a <= b /\ b <= a
      BY <1>2, <3>1, MultInjective
    <3> QED
      BY <3>2
  <2>4. Col(c, i - 1) = Col(c, j - 1) /\ Line(c, i - 1) = Line(c, j - 1)
    BY <2>1, <2>2, <2>3
  <2>5. i - 1 = j - 1
    BY <2>2, <2>4, SpotUnique
  <2> QED
    BY <2>5
<1>7. ASSUME NEW i \in 1 .. n - 1 PROVE apart(w[i], w[i + 1]) = s * s
  <2> DEFINE a == col(i)
             b == row(i)
             d == col(i + 1)
             e == row(i + 1)
  <2>1. i \in 1 .. n /\ i + 1 \in 1 .. n /\ i - 1 \in Nat /\ i + 1 - 1 = (i - 1) + 1
    BY <1>1
  <2>2. w[i] = << a * s, b * s >> /\ w[i + 1] = << d * s, e * s >>
    BY <1>1, <2>1
  <2>3. a \in Nat /\ b \in Nat /\ d \in Nat /\ e \in Nat
    BY <1>3, <2>1
  <2>4. (e = b /\ d \in {a + 1, a - 1}) \/ (e = b + 1 /\ d = a)
    <3>1. \/ /\ Line(c, (i - 1) + 1) = b
             /\ Col(c, (i - 1) + 1) \in {a + 1, a - 1}
          \/ Line(c, (i - 1) + 1) = b + 1 /\ Col(c, (i - 1) + 1) = a
      BY <2>1, SpotNeighbour
    <3>2. d = Col(c, (i - 1) + 1) /\ e = Line(c, (i - 1) + 1)
      BY <2>1
    <3> QED
      BY <3>1, <3>2
  <2> HIDE DEF a, b, d, e
  <2>5. apart(w[i], w[i + 1]) =
          (a * s - d * s) * (a * s - d * s) + (b * s - e * s) * (b * s - e * s)
    BY <2>2
  <2>6. /\ a * s \in Nat /\ b * s \in Nat /\ (a + 1) * s = a * s + s
        /\ (a - 1) * s = a * s - s /\ (b + 1) * s = b * s + s
    BY <1>2, <2>3
  <2>7. \A x \in Nat : x - x = 0 /\ x - (x + s) = -s /\ x - (x - s) = s
    BY <1>2
  <2>8. 0 * 0 = 0 /\ (-s) * (-s) = s * s /\ s * s + 0 = s * s /\ 0 + s * s = s * s
    BY <1>2
  <2>9. CASE e = b /\ d \in {a + 1, a - 1}
    <3>1. b * s - e * s = 0 /\ a * s - d * s \in {-s, s}
      BY <2>6, <2>7, <2>9
    <3> QED
      BY <2>5, <2>8, <3>1, Zenon
  <2>10. CASE e = b + 1 /\ d = a
    <3>1. b * s - e * s = -s /\ a * s - d * s = 0
      BY <2>6, <2>7, <2>10
    <3> QED
      BY <2>5, <2>8, <3>1, Zenon
  <2> QED
    BY <2>4, <2>9, <2>10
<1>8. { w[i] : i \in 1 .. n } \subseteq Grid(c)
  BY <1>4
<1>9. n # MaxPoints => Grid(c) \subseteq { w[i] : i \in 1 .. n }
  BY <1>5
<1> QED
  BY <1>6, <1>7, <1>8, <1>9, Zenon DEF Covers, w, n

(* A run that goes on has the list of its settings.                        *)
Planned == settings \in Settings /\ (gbl_called_BOR => gScanPoints = Walk(settings))

(* begin_of_run is the only one that fills the list, and the settings it   *)
(* reads stay those of the run.                                            *)
LEMMA PlannedInvariant == Spec => []Planned
<1>1. Init => Planned
  BY DEF Init, Planned
<1>2. Planned /\ [Next]_vars => Planned'
  <2> SUFFICES ASSUME Planned, [Next]_vars PROVE Planned'
    OBVIOUS
  <2>1. ASSUME NEW c \in Settings, begin_of_run(c) PROVE Planned'
    BY <2>1 DEF begin_of_run, Planned
  <2>2. CASE StopRun \/ Finish
    BY <2>2 DEF StopRun, Finish, end_of_run, Planned
  <2>3. CASE WaitForMove \/ Arrive \/ NextMove \/ read_scan_state
    BY <2>3 DEF WaitForMove, Arrive, NextMove, read_scan_state, run, Planned
  <2>4. CASE Elapse \/ Equipment \/ UNCHANGED vars
    BY <2>4 DEF Elapse, Equipment, Notice, Refuse, Reach, vars, flags, run, Planned
  <2> QED
    BY <2>1, <2>2, <2>3, <2>4 DEF Next, frontend_loop
<1> QED
  BY <1>1, <1>2, PTL DEF Spec

(* begin_of_run's walk visits every point of the grid once, from neighbour *)
(* to neighbour, for every step and both distances; a list that ran full   *)
(* is the first part of it.                                                *)
THEOREM WalkIsComplete == Spec => []WalkCoversGrid
<1>1. Planned => WalkCoversGrid
  BY WalkCovers, SettingsAssumption DEF Planned, WalkCoversGrid, Setting
<1> QED
  BY <1>1, PlannedInvariant, PTL

(* Every point of a list is a place.                                       *)
LEMMA WalkType ==
  ASSUME NEW c \in Settings
  PROVE  Walk(c) \in Seq(Places)
<1> DEFINE w == Walk(c)
           n == Len(w)
<1>1. c \in Setting /\ MaxPoints \in Nat
  BY SettingsAssumption DEF Setting
<1>2. /\ n \in Nat /\ DOMAIN w = 1 .. n
      /\ \A i \in 1 .. n : w[i] = << Col(c, i - 1) * c.step, Line(c, i - 1) * c.step >>
  BY <1>1, WalkIs
<1>3. { w[i] : i \in 1 .. n } \subseteq Grid(c)
  BY <1>1, WalkCovers DEF Covers
<1>4. Grid(c) \subseteq Places
  <2>1. ASSUME NEW p \in Grid(c) PROVE \E x \in 0 .. c.dx, y \in 0 .. c.dy : p = <<x, y>>
    BY DEF Grid, Multiples
  <2> QED
    BY <2>1 DEF Places
<1>5. w = [ i \in 1 .. n |-> w[i] ]
  BY <1>2 DEF Walk
<1> HIDE DEF w, n
<1>6. w \in [ 1 .. n -> Places ]
  BY <1>3, <1>4, <1>5
<1> QED
  BY <1>2, <1>6, SeqDef DEF w

(* Types, for every grid and any number of runs.                           *)
THEOREM TypeCorrect == Spec => []TypeOK
<1>1. Init => TypeOK
  <2> SUFFICES ASSUME Init PROVE TypeOK
    OBVIOUS
  <2>1. OffGrid \subseteq Places
    BY DEF Places
  <2>2. gScanPoints \in Seq(Places) /\ gbl_current_point \in -1 .. Len(gScanPoints)
    <3>1. gScanPoints = << >> /\ gbl_current_point = -1
      BY DEF Init
    <3> QED
      BY <3>1
  <2>3. move \in [ start : BOOLEAN, moving : BOOLEAN, destination : Places, position : Places ]
    BY <2>1 DEF Init
  <2>4. runs \in 0 .. MaxRuns
    BY SettingsAssumption DEF Init
  <2>5. settings \in Settings /\ still \in BOOLEAN /\ measured \subseteq Places /\ missed \subseteq Places
    BY DEF Init
  <2>6. /\ gScanStatus \in ScanStatuses
        /\ gbl_called_BOR \in BOOLEAN /\ gGantryWasMoving \in BOOLEAN
        /\ gNewScanningPoint \in BOOLEAN /\ gNewMoveStarted \in BOOLEAN
        /\ measurement \in {"running", "complete"} /\ run_state \in {"RUNNING", "STOPPED"}
    BY DEF Init, ScanStatuses
  <2> QED
    BY <2>2, <2>3, <2>4, <2>5, <2>6 DEF TypeOK
<1>2. TypeOK /\ [Next]_vars => TypeOK'
  <2> SUFFICES ASSUME TypeOK, [Next]_vars PROVE TypeOK'
    OBVIOUS
  <2> USE DEF TypeOK
  <2>1. ASSUME NEW c \in Settings, begin_of_run(c) PROVE TypeOK'
    <3>1. gScanPoints' \in Seq(Places) /\ Len(gScanPoints') \in Nat /\ runs' \in 0 .. MaxRuns
      BY <2>1, WalkType, SettingsAssumption DEF begin_of_run
    <3>2. gbl_current_point' \in -1 .. Len(gScanPoints')
      <4>1. gbl_current_point' = -1
        BY <2>1 DEF begin_of_run
      <4> QED
        BY <3>1, <4>1
    <3>3. move' \in [ start : BOOLEAN, moving : BOOLEAN, destination : Places, position : Places ]
      BY <2>1 DEF begin_of_run
    <3>4. settings' \in Settings /\ still' \in BOOLEAN
          /\ measured' \subseteq Places /\ missed' \subseteq Places
      BY <2>1 DEF begin_of_run
    <3>5. /\ gScanStatus' \in ScanStatuses
          /\ gbl_called_BOR' \in BOOLEAN /\ gGantryWasMoving' \in BOOLEAN
          /\ gNewScanningPoint' \in BOOLEAN /\ gNewMoveStarted' \in BOOLEAN
          /\ measurement' \in {"running", "complete"} /\ run_state' \in {"RUNNING", "STOPPED"}
      BY <2>1 DEF begin_of_run, ScanStatuses
    <3> QED
      BY <3>1, <3>2, <3>3, <3>4, <3>5
  <2>2. CASE StopRun
    BY <2>2 DEF StopRun, end_of_run, done, ScanStatuses
  <2>3. CASE Finish
    <3>1. gScanPoints' = gScanPoints /\ gbl_current_point' = 0
      BY <2>3 DEF Finish, end_of_run
    <3>2. gbl_current_point' \in -1 .. Len(gScanPoints') /\ gScanPoints' \in Seq(Places)
      <4>1. Len(gScanPoints) \in Nat
        OBVIOUS
      <4> QED
        BY <3>1, <4>1
    <3>3. /\ gScanStatus' \in ScanStatuses
          /\ gbl_called_BOR' \in BOOLEAN /\ gGantryWasMoving' \in BOOLEAN
          /\ gNewScanningPoint' \in BOOLEAN /\ gNewMoveStarted' \in BOOLEAN
          /\ run_state' \in {"RUNNING", "STOPPED"}
      BY <2>3 DEF Finish, end_of_run, ScanStatuses
    <3>4. UNCHANGED <<measurement, still, move, measured, missed, runs, settings>>
      BY <2>3 DEF Finish, end_of_run, done
    <3> QED
      BY <3>2, <3>3, <3>4
  <2>4. CASE WaitForMove \/ Arrive \/ read_scan_state
    BY <2>4 DEF WaitForMove, Arrive, start_measurement, read_scan_state, run, done, ScanStatuses
  <2>5. CASE NextMove
    <3>1. PICK p \in PointsAt(gbl_current_point') : request_move(p)
      BY <2>5 DEF NextMove
    <3>2. /\ gbl_current_point' = gbl_current_point + 1 /\ gbl_current_point' \in 0 .. Len(gScanPoints)
          /\ gScanPoints' = gScanPoints
      BY <2>5 DEF NextMove, Last, run
    <3>3. p \in Places
      BY <3>1, <3>2 DEF PointsAt, Places
    <3>4. move' \in [ start : BOOLEAN, moving : BOOLEAN, destination : Places, position : Places ]
      BY <3>1, <3>3 DEF request_move
    <3>5. measurement' \in {"running", "complete"} /\ still' \in BOOLEAN
          /\ gNewScanningPoint' \in BOOLEAN
      BY <2>5 DEF NextMove, Seen, start_measurement
    <3> QED
      BY <2>5, <3>2, <3>4, <3>5 DEF NextMove, run, done, ScanStatuses
  <2>6. CASE Elapse
    <3>1. move.position \in Places /\ move.destination \in Places
      OBVIOUS
    <3> QED
      BY <2>6, <3>1 DEF Elapse, flags, run
  <2>7. CASE Equipment
    <3>1. move' \in [ start : BOOLEAN, moving : BOOLEAN, destination : Places, position : Places ]
      BY <2>7 DEF Equipment, Notice, Refuse, Reach
    <3>2. missed' \subseteq Places /\ still' \in BOOLEAN
      BY <2>7 DEF Equipment, Notice, Refuse, Reach, done
    <3> QED
      BY <2>7, <3>1, <3>2 DEF Equipment, Notice, Refuse, Reach, flags, run, done
  <2>8. CASE UNCHANGED vars
    BY <2>8 DEF vars, flags, run, done
  <2> QED
    BY <2>1, <2>2, <2>3, <2>4, <2>5, <2>6, <2>7, <2>8 DEF Next, frontend_loop
<1> QED
  BY <1>1, <1>2, PTL DEF Spec

-----------------------------------------------------------------------------
(* A run that ends by itself has measured everywhere.                      *)

(* What is measured stays measured, and the loop goes on to a point only   *)
(* when the measurement at the last one is complete (frontend_loop).       *)
LEMMA TouredStep ==
  ASSUME IInv, Toured, [Next]_vars
  PROVE  Toured'
<1> USE DEF IInv
<1>1. ASSUME NEW c \in Settings, begin_of_run(c) PROVE Toured'
  BY <1>1 DEF begin_of_run, Toured
<1>2. CASE StopRun
  BY <1>2 DEF StopRun, end_of_run, done, Toured
<1>3. CASE WaitForMove \/ read_scan_state
  BY <1>3 DEF WaitForMove, read_scan_state, run, done, Toured, Listed, Here
<1>4. CASE Arrive
  BY <1>4 DEF Arrive, start_measurement, run, done, Toured
<1>5. CASE Finish
  BY <1>5 DEF Finish, end_of_run, done, Toured
<1>6. CASE NextMove
  <2>1. /\ gbl_current_point' = gbl_current_point + 1 /\ gScanPoints' = gScanPoints
        /\ UNCHANGED <<measured, missed>> /\ gScanStatus' = "MOVING" /\ Listed
    BY <1>6 DEF NextMove, run, done, Last, Listed, Shape
  <2>2. gbl_current_point = -1 \/ Here \in measured \cup missed
    <3>1. CASE gbl_current_point >= 0
      <4>1. gScanStatus = "MEASURING" /\ measurement = "complete" /\ ~ gGantryWasMoving
        BY <1>6, <3>1 DEF NextMove, AtRest, Looping, Shape, Progress, ScanStatuses
      <4> QED
        BY <2>1, <4>1 DEF Toured
    <3> QED
      BY <3>1 DEF Shape
  <2>3. \A i \in 1 .. gbl_current_point + 1 :
          i <= Len(gScanPoints) => gScanPoints[i] \in measured \cup missed
    <3> TAKE i \in 1 .. gbl_current_point + 1
    <3>1. CASE i = gbl_current_point + 1
      BY <2>2, <3>1 DEF Here, Shape
    <3>2. CASE i \in 1 .. gbl_current_point
      BY <2>1, <3>2 DEF Toured
    <3> QED
      BY <3>1, <3>2 DEF Shape
  <2> QED
    BY <2>1, <2>3 DEF Toured
<1>7. CASE Elapse
  <2>1. /\ UNCHANGED <<gScanStatus, gGantryWasMoving, gbl_current_point, gScanPoints>>
        /\ measured \cup missed \subseteq measured' \cup missed'
    BY <1>7 DEF Elapse, flags, run
  <2>2. ASSUME gScanStatus = "MEASURING", ~ gGantryWasMoving, Listed
        PROVE  Here \in measured' \cup missed'
    <3>1. move.destination = Here
      BY <2>2 DEF Bound
    <3>2. CASE InPlace
      BY <1>7, <2>2, <3>1, <3>2 DEF Elapse, InPlace
    <3>3. CASE ~ InPlace
      BY <1>7, <2>2, <3>1, <3>3 DEF Elapse
    <3> QED
      BY <3>2, <3>3
  <2> QED
    BY <2>1, <2>2 DEF Toured, Listed, Here
<1>8. CASE Equipment
  <2>1. /\ UNCHANGED <<flags, gbl_current_point, gScanPoints, measurement, measured>>
        /\ missed \subseteq missed'
    BY <1>8 DEF Equipment, Notice, Refuse, Reach, run, done
  <2> QED
    BY <2>1 DEF Toured, Listed, Here, flags
<1>9. CASE UNCHANGED vars
  BY <1>9 DEF vars, flags, run, done, Toured, Listed, Here
<1> QED
  BY <1>1, <1>2, <1>3, <1>4, <1>5, <1>6, <1>7, <1>8, <1>9 DEF Next, frontend_loop

(* A run that ends by itself has measured at every point of its grid, if   *)
(* the list could take them, but for the points to which a move was        *)
(* refused or seen too late (frontend_loop).                               *)
THEOREM EndMeasured == Spec => EndMeansAllMeasured
<1>1. ASSUME IInv, Toured, WalkCoversGrid, Finish, Len(gScanPoints) # MaxPoints
      PROVE  Grid(settings) \subseteq measured \cup missed
  <2>1. Len(gScanPoints) <= gbl_current_point /\ gbl_called_BOR
    BY <1>1 DEF Finish, AtRest, Looping, Last
  <2>2. Grid(settings) \subseteq { gScanPoints[i] : i \in 1 .. Len(gScanPoints) }
    BY <1>1, <2>1 DEF WalkCoversGrid, Covers
  <2>3. \A i \in 1 .. Len(gScanPoints) : gScanPoints[i] \in measured \cup missed
    BY <1>1, <2>1 DEF Toured, IInv, Shape
  <2> QED
    BY <2>2, <2>3
<1>2. IInv /\ Toured /\ WalkCoversGrid
        => (Finish /\ Len(gScanPoints) # MaxPoints
              => Grid(settings) \subseteq measured \cup missed)
  BY <1>1
<1>3. Spec => []Toured
  BY InitInv, TouredStep, Invariance, PTL DEF Spec
<1> QED
  BY <1>2, <1>3, Invariance, WalkIsComplete, PTL DEF EndMeansAllMeasured
=============================================================================
