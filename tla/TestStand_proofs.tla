-------------------------- MODULE TestStand_proofs --------------------------
(***************************************************************************)
(* Proofs about the status machine of the test stand, for every rail and   *)
(* any number of commands.                                                 *)
(***************************************************************************)
EXTENDS TestStand, TLAPS

(* What the operators of AxisModel do to the type of an axis view.         *)
LEMMA ViewType ==
  ASSUME NEW c \in AxisView
  PROVE  /\ \A dir \in {"POSITIVE", "NEGATIVE"}, endless \in BOOLEAN :
              Started(c, dir, endless) \in AxisView
         /\ Halted(c) \in AxisView
         /\ ResetTo(c) \in AxisView
         /\ CanAdvance(c) => Advanced(c) \in AxisView
         /\ HomeHandled(c) \in AxisView
         /\ FarHandled(c) \in AxisView
         /\ FarOpened(c) \in AxisView
<1>1. /\ HomePressed(c.pos) \in BOOLEAN
      /\ c.pos \in 0 .. Length
  BY DEF AxisView, HomePressed
<1> QED
  BY <1>1 DEF AxisView, Drives, Started, Halted, ResetTo, CanAdvance, Advanced,
     HomeHandled, FarHandled, FarOpened

LEMMA HomingStartType ==
  ASSUME NEW a \in AxisId, axes \in [AxisId -> AxisView],
         NEW dir \in {"POSITIVE", "NEGATIVE"}
  PROVE  HomingStart(a, dir) \in AxisView
<1>1. axes[a] \in AxisView
  OBVIOUS
<1>2. /\ (Count(axes[a]) >= -1) \in BOOLEAN
      /\ (Count(axes[a]) <= 0) \in BOOLEAN
  OBVIOUS
<1>3. (IF dir = "NEGATIVE" THEN Count(axes[a]) >= -1 ELSE Count(axes[a]) <= 0) \in BOOLEAN
  BY <1>2
<1> QED
  BY <1>1, <1>3, ViewType DEF HomingStart

(* Every state has the types of TypeOK.                                    *)
THEOREM TypeCorrect == Spec => []TypeOK
<1>1. Init => TypeOK
  <2> SUFFICES ASSUME Init PROVE TypeOK
    OBVIOUS
  <2>1. \A p \in BootPositions : AtBoot(p) \in AxisView
    BY RailAssumption DEF AtBoot, AxisView, Drives, HomePressed, FarPressed
  <2>2. axes \in [AxisId -> AxisView]
    BY <2>1 DEF Init
  <2>3. commands \in 0 .. MaxCommands
    BY RailAssumption DEF Init
  <2>4. leaving \subseteq AxisId
    BY DEF Init
  <2>5. /\ status \in Statuses /\ at \in {"update", "dispatch"}
        /\ home_a_done \in BOOLEAN /\ profile_ok \in BOOLEAN
    BY DEF Init, Statuses
  <2> QED
    BY <2>2, <2>3, <2>4, <2>5 DEF TypeOK
<1>2. TypeOK /\ [Next]_vars => TypeOK'
  <2> SUFFICES ASSUME TypeOK, [Next]_vars PROVE TypeOK'
    OBVIOUS
  <2> USE DEF TypeOK, Statuses
  <2>1. CASE Update
    <3>1. CASE StayUpdated
      BY <2>1, <3>1 DEF Update, StayUpdated
    <3>2. CASE EndMove
      BY <2>1, <3>2 DEF Update, EndMove
    <3>3. CASE HomeAToB
      BY <2>1, <3>3, HomingStartType DEF Update, HomeAToB, handle_home_b
    <3>4. CASE HomeAFails
      BY <2>1, <3>4 DEF Update, HomeAFails
    <3>5. CASE HomeBEnds
      BY <2>1, <3>5, ViewType DEF Update, HomeBEnds
    <3> QED
      BY <2>1, <3>1, <3>2, <3>3, <3>4, <3>5 DEF Update
  <2>2. CASE Dispatch
    <3>1. CASE Home
      <4>1. axes' \in [AxisId -> AxisView]
        BY <3>1, HomingStartType DEF Home, handle_home_a
      <4>2. at' \in {"update", "dispatch"} /\ commands' \in 0 .. MaxCommands
        BY <3>1, RailAssumption DEF Home, Receive
      <4> QED
        BY <3>1, <4>1, <4>2 DEF Home, handle_home_a
    <3>2. CASE StopAll
      BY <3>2, ViewType, RailAssumption DEF StopAll, Receive
    <3>3. CASE Calibrate
      BY <3>3, RailAssumption DEF Calibrate, Receive
    <3>4. CASE Nothing
      BY <3>4 DEF Nothing
    <3>5. ASSUME NEW a \in AxisId, NEW dir \in {"POSITIVE", "NEGATIVE"},
                 NEW endless \in BOOLEAN, Move(a, dir, endless)
          PROVE  TypeOK'
      BY <3>5, ViewType, RailAssumption DEF Move, Receive
    <3> QED
      BY <2>2, <3>1, <3>2, <3>3, <3>4, <3>5 DEF Dispatch
  <2>3. ASSUME NEW a \in AxisId, AxisStep(a) PROVE TypeOK'
    BY <2>3, ViewType DEF AxisStep, Advance, Finish, HomeEdge, FarPress, FarRelease,
       Becomes, loop
  <2>4. CASE UNCHANGED vars
    BY <2>4 DEF vars, loop
  <2> QED
    BY <2>1, <2>2, <2>3, <2>4 DEF Next
<1> QED
  BY <1>1, <1>2, PTL DEF Spec

(* A step of an axis never starts it: it is moving before if it is moving  *)
(* after, and driven the same way.                                         *)
LEMMA AxisStepStartsNothing ==
  ASSUME TypeOK, NEW a \in AxisId, AxisStep(a)
  PROVE  /\ axes' \in [AxisId -> AxisView]
         /\ \A b \in AxisId : Moving(axes'[b]) =>
              /\ Moving(axes[b])
              /\ axes'[b].drive = axes[b].drive
              /\ axes'[b].endless = axes[b].endless
<1> DEFINE c == axes[a]
<1>1. c \in AxisView /\ axes \in [AxisId -> AxisView]
  BY DEF TypeOK
<1>2. PICK d \in AxisView :
        /\ axes' = [axes EXCEPT ![a] = d]
        /\ Moving(d) => Moving(c) /\ d.drive = c.drive /\ d.endless = c.endless
  <2>1. CASE Advance(a)
    <3>1. Advanced(c) \in AxisView
      BY <1>1, <2>1, ViewType DEF Advance
    <3>2. Advanced(c).drive = c.drive /\ Advanced(c).endless = c.endless
      BY <1>1 DEF Advanced, AxisView
    <3> QED
      BY <2>1, <3>1, <3>2 DEF Advance, Becomes, CanAdvance
  <2>2. CASE Finish(a)
    BY <1>1, <2>2, ViewType DEF Finish, Becomes, Moving, Halted, AxisView
  <2>3. CASE HomeEdge(a)
    BY <1>1, <2>3, ViewType DEF HomeEdge, Becomes, Moving, HomeHandled, Halted, AxisView
  <2>4. CASE FarPress(a)
    <3>1. FarHandled(c) \in AxisView
      BY <1>1, ViewType
    <3>2. Moving(FarHandled(c)) => Moving(c) /\ FarHandled(c).drive = c.drive /\ FarHandled(c).endless = c.endless
      BY <1>1 DEF Moving, FarHandled, Halted, AxisView
    <3> QED
      BY <2>4, <3>1, <3>2 DEF FarPress, Becomes
  <2>5. CASE FarRelease(a)
    <3>1. FarOpened(c) \in AxisView
      BY <1>1, ViewType
    <3>2. Moving(FarOpened(c)) => Moving(c) /\ FarOpened(c).drive = c.drive /\ FarOpened(c).endless = c.endless
      BY <1>1 DEF Moving, FarOpened, AxisView
    <3> QED
      BY <2>5, <3>1, <3>2 DEF FarRelease, Becomes
  <2> QED
    BY <2>1, <2>2, <2>3, <2>4, <2>5 DEF AxisStep
<1> QED
  BY <1>1, <1>2

-----------------------------------------------------------------------------
(* Once the status is IDLE or FAULT no axis moves, and in the second part  *)
(* of homing every axis that moves is driven away from the home switch.    *)
SInv == IdleMeansStopped /\ HomeBLeavesSwitch

LEMMA HomingStartDrives ==
  ASSUME NEW a \in AxisId, axes[a] \in AxisView, ~ Moving(axes[a]),
         NEW dir \in {"POSITIVE", "NEGATIVE"},
         Moving(HomingStart(a, dir))
  PROVE  HomingStart(a, dir).drive = dir
BY DEF HomingStart, Started, Moving, AxisView

THEOREM StatusMachine == Spec => []SInv
<1>1. Init => SInv
  <2> SUFFICES ASSUME Init PROVE SInv
    OBVIOUS
  <2>1. \A a \in AxisId : ~ Moving(axes[a])
    BY DEF Init, AtBoot, Moving
  <2>2. status = "IDLE"
    BY DEF Init
  <2> QED
    BY <2>1, <2>2 DEF SInv, IdleMeansStopped, HomeBLeavesSwitch, AnyMoving
<1>2. TypeOK /\ SInv /\ [Next]_vars => SInv'
  <2> SUFFICES ASSUME TypeOK, SInv, [Next]_vars PROVE SInv'
    OBVIOUS
  <2> USE DEF SInv, IdleMeansStopped, HomeBLeavesSwitch
  <2>0. axes \in [AxisId -> AxisView]
    BY DEF TypeOK
  <2>1. CASE Update
    <3>1. CASE StayUpdated
      BY <2>1, <3>1 DEF Update, StayUpdated, AnyMoving
    <3>2. CASE EndMove
      BY <2>1, <3>2 DEF EndMove, AnyMoving
    <3>3. CASE HomeAToB
      <4>1. status' = "HOMING" /\ \A a \in AxisId : axes'[a] = HomingStart(a, "POSITIVE")
        BY <3>3 DEF HomeAToB, handle_home_b
      <4>2. \A a \in AxisId : ~ Moving(axes[a])
        BY <3>3 DEF HomeAToB, AnyMoving
      <4> QED
        BY <2>0, <4>1, <4>2, HomingStartDrives
    <3>4. CASE HomeAFails
      BY <2>1, <3>4 DEF HomeAFails, AnyMoving
    <3>5. CASE HomeBEnds
      <4>1. \A a \in AxisId : axes'[a] = ResetTo(axes[a])
        BY <3>5 DEF HomeBEnds
      <4>2. \A a \in AxisId : ~ Moving(axes'[a])
        BY <2>0, <4>1 DEF ResetTo, Halted, Moving, AxisView
      <4> QED
        BY <3>5, <4>2 DEF HomeBEnds, AnyMoving
    <3> QED
      BY <2>1, <3>1, <3>2, <3>3, <3>4, <3>5 DEF Update
  <2>2. CASE Dispatch
    <3>1. CASE Home
      BY <3>1 DEF Home, handle_home_a
    <3>2. CASE StopAll
      <4>1. \A a \in AxisId : axes'[a] = Halted(axes[a])
        BY <3>2 DEF StopAll
      <4>2. \A a \in AxisId : ~ Moving(axes'[a])
        BY <2>0, <4>1 DEF Halted, Moving, AxisView
      <4> QED
        BY <3>2, <4>2 DEF StopAll, AnyMoving
    <3>3. CASE Calibrate
      BY <3>3 DEF Calibrate, AnyMoving
    <3>4. CASE Nothing
      BY <3>4 DEF Nothing, AnyMoving
    <3>5. ASSUME NEW a \in AxisId, NEW dir \in {"POSITIVE", "NEGATIVE"},
                 NEW endless \in BOOLEAN, Move(a, dir, endless)
          PROVE  SInv'
      BY <3>5 DEF Move
    <3> QED
      BY <2>2, <3>1, <3>2, <3>3, <3>4, <3>5 DEF Dispatch
  <2>3. ASSUME NEW a \in AxisId, AxisStep(a) PROVE SInv'
    <3>1. UNCHANGED <<status, home_a_done>>
      BY <2>3 DEF AxisStep, Advance, Finish, HomeEdge, FarPress, FarRelease, Becomes, loop
    <3> QED
      BY <2>3, <3>1, AxisStepStartsNothing DEF AnyMoving
  <2>4. CASE UNCHANGED vars
    BY <2>4 DEF vars, loop, AnyMoving
  <2> QED
    BY <2>1, <2>2, <2>3, <2>4 DEF Next
<1> QED
  BY <1>1, <1>2, TypeCorrect, PTL DEF Spec

(* The host can rely on IDLE and FAULT: nothing moves.                     *)
THEOREM StoppedWhenIdle == Spec => []IdleMeansStopped
BY StatusMachine, PTL DEF SInv

(* The second part of homing never drives back into the switch.            *)
THEOREM HomeBAway == Spec => []HomeBLeavesSwitch
BY StatusMachine, PTL DEF SInv

-----------------------------------------------------------------------------
(* Where the homing routine puts the origin.  Of one axis: only a moving   *)
(* one is endless; a recorded press of the home switch is its level; and a *)
(* carriage whose edge is still to come is within the debounce distance.   *)
EdgeKept(c) ==
  /\ c.endless => Moving(c)
  /\ c.ls_home_pressed => c.home_pin
  /\ c.home_pin # HomePressed(c.pos) => c.pos - HomeAt \in -Slack .. Slack + 1

(* An axis in home B either still drives off its switch, or stands past it.*)
OffSwitch(c) == /\ ~ Moving(c) /\ ~ c.ls_home_pressed /\ ~ c.home_pin
                /\ c.pos - HomeAt \in 1 .. Slack + 1
Leaving(c) == /\ Moving(c) /\ c.drive = "POSITIVE" /\ c.endless /\ c.ls_home_pressed

HInv == /\ \A a \in AxisId : EdgeKept(axes[a])
        /\ status = "HOMING" /\ home_a_done =>
             \A a \in leaving : Leaving(axes[a]) \/ OffSwitch(axes[a])

(* No call of the main loop moves the carriage or touches a switch.        *)
LEMMA CallsKeepEdge ==
  ASSUME NEW c \in AxisView, EdgeKept(c)
  PROVE  /\ \A dir \in {"POSITIVE", "NEGATIVE"}, endless \in BOOLEAN :
              EdgeKept(Started(c, dir, endless))
         /\ EdgeKept(Halted(c))
         /\ EdgeKept(ResetTo(c))
<1>1. Halted(c).pos = c.pos /\ ResetTo(c).pos = c.pos
  BY DEF Halted, ResetTo, AxisView
<1>2. \A dir \in {"POSITIVE", "NEGATIVE"}, endless \in BOOLEAN :
        /\ Started(c, dir, endless).pos = c.pos
        /\ Started(c, dir, endless).home_pin = c.home_pin
        /\ Started(c, dir, endless).ls_home_pressed = c.ls_home_pressed
        /\ Moving(Started(c, dir, endless))
  BY DEF Started, Moving, AxisView
<1>3. /\ Halted(c).home_pin = c.home_pin /\ Halted(c).ls_home_pressed = c.ls_home_pressed
      /\ ResetTo(c).home_pin = c.home_pin /\ ResetTo(c).ls_home_pressed = c.ls_home_pressed
      /\ Halted(c).endless = FALSE /\ ResetTo(c).endless = FALSE
  BY DEF Halted, ResetTo, AxisView
<1> QED
  BY <1>1, <1>2, <1>3 DEF EdgeKept

LEMMA HomingStartKeepsEdge ==
  ASSUME NEW a \in AxisId, axes[a] \in AxisView, EdgeKept(axes[a]),
         NEW dir \in {"POSITIVE", "NEGATIVE"}
  PROVE  EdgeKept(HomingStart(a, dir))
<1>0. /\ (Count(axes[a]) >= -1) \in BOOLEAN
      /\ (Count(axes[a]) <= 0) \in BOOLEAN
  OBVIOUS
<1>1. (IF dir = "NEGATIVE" THEN Count(axes[a]) >= -1 ELSE Count(axes[a]) <= 0) \in BOOLEAN
  BY <1>0
<1> QED
  BY <1>1, CallsKeepEdge DEF HomingStart

(* What a step of an axis does to that axis.                               *)
LEMMA AxisStepKeepsEdge ==
  ASSUME NEW c \in AxisView, EdgeKept(c), NEW d,
         \/ /\ CanAdvance(c) /\ EdgeInTime(c, NextPos(c)) /\ d = Advanced(c)
         \/ CanFinish(c) /\ d = Halted(c)
         \/ HomeChanges(c) /\ d = HomeHandled(c)
         \/ FarCloses(c) /\ d = FarHandled(c)
         \/ FarOpens(c) /\ d = FarOpened(c)
  PROVE  EdgeKept(d) /\ (Leaving(c) \/ OffSwitch(c) => Leaving(d) \/ OffSwitch(d))
<1>0. /\ c.pos \in Int /\ HomeAt \in Int /\ FarAt \in Int /\ Slack \in Int
      /\ c.home_pin \in BOOLEAN /\ c.ls_home_pressed \in BOOLEAN
  BY RailAssumption DEF AxisView
<1>1. CASE CanAdvance(c) /\ EdgeInTime(c, NextPos(c)) /\ d = Advanced(c)
  <2>1. /\ d.pos = NextPos(c) /\ d.home_pin = c.home_pin /\ d.drive = c.drive
        /\ d.ls_home_pressed = c.ls_home_pressed /\ d.endless = c.endless
    BY <1>1 DEF Advanced, AxisView
  <2>2. Moving(c) /\ Moving(d)
    BY <1>1, <2>1 DEF CanAdvance, Moving
  <2>3. EdgeKept(d)
    BY <1>1, <2>1, <2>2 DEF EdgeKept, EdgeInTime
  <2>4. ~ OffSwitch(c) /\ (Leaving(c) => Leaving(d))
    BY <2>1, <2>2 DEF Leaving, OffSwitch
  <2> QED
    BY <2>3, <2>4
<1>2. CASE CanFinish(c) /\ d = Halted(c)
  <2>1. Moving(c) /\ ~ c.endless
    BY <1>2 DEF CanFinish
  <2> QED
    BY <1>2, <2>1, CallsKeepEdge DEF Leaving, OffSwitch
<1>3. CASE HomeChanges(c) /\ d = HomeHandled(c)
  <2>1. /\ d.pos = c.pos /\ d.home_pin = HomePressed(c.pos)
        /\ d.ls_home_pressed = HomePressed(c.pos) /\ d.endless = FALSE /\ d.drive = "none"
    BY <1>3 DEF HomeHandled, Halted, AxisView
  <2>2. EdgeKept(d)
    BY <2>1 DEF EdgeKept
  <2>3. c.home_pin # HomePressed(c.pos)
    BY <1>3 DEF HomeChanges
  <2>4. CASE Leaving(c)
    <3>1. c.home_pin
      BY <2>4 DEF Leaving, EdgeKept
    <3>2. ~ HomePressed(c.pos)
      BY <1>0, <2>3, <3>1 DEF HomePressed
    <3>3. c.pos > HomeAt /\ c.pos - HomeAt \in -Slack .. Slack + 1
      BY <1>0, <2>3, <3>2 DEF EdgeKept, HomePressed
    <3>4. c.pos - HomeAt \in 1 .. Slack + 1
      BY <1>0, <3>3
    <3> QED
      BY <2>1, <2>2, <3>2, <3>4 DEF OffSwitch, Moving
  <2>5. ~ OffSwitch(c)
    BY <1>0, <2>3 DEF OffSwitch, HomePressed
  <2> QED
    BY <2>2, <2>4, <2>5
<1>4. CASE FarCloses(c) /\ d = FarHandled(c)
  <2>1. /\ d.pos = c.pos /\ d.home_pin = c.home_pin
        /\ d.ls_home_pressed = c.ls_home_pressed /\ d.endless = FALSE
    <3>1. Halted(c) = [c EXCEPT !.drive = "none", !.endless = FALSE]
      BY DEF Halted
    <3> QED
      BY <1>4, <3>1 DEF FarHandled, AxisView
  <2>2. c.pos >= FarAt
    BY <1>4 DEF FarCloses, FarPressed
  <2>3. ~ Leaving(c) /\ ~ OffSwitch(c)
    <3>1. ~ (c.pos - HomeAt \in -Slack .. Slack + 1) /\ ~ HomePressed(c.pos)
      <4>1. c.pos > HomeAt + Slack + 1 /\ Slack >= 0
        BY <1>0, <2>2, DebounceAssumption, RailAssumption
      <4>2. c.pos > HomeAt
        BY <1>0, <4>1
      <4> QED
        BY <1>0, <4>1, <4>2 DEF HomePressed
    <3>2. ~ c.home_pin
      BY <1>0, <3>1 DEF EdgeKept
    <3>3. ~ (c.pos - HomeAt \in 1 .. Slack + 1)
      BY <1>0, <2>2, DebounceAssumption
    <3> QED
      BY <3>2, <3>3 DEF Leaving, OffSwitch, EdgeKept
  <2> QED
    BY <2>1, <2>3 DEF EdgeKept
<1>5. CASE FarOpens(c) /\ d = FarOpened(c)
  <2>1. /\ d.pos = c.pos /\ d.home_pin = c.home_pin /\ d.drive = c.drive
        /\ d.ls_home_pressed = c.ls_home_pressed /\ d.endless = c.endless
    BY <1>5 DEF FarOpened, AxisView
  <2> QED
    BY <2>1 DEF EdgeKept, Leaving, OffSwitch, Moving
<1> QED
  BY <1>1, <1>2, <1>3, <1>4, <1>5

THEOREM Homing == Spec => []HInv
<1>1. Init => HInv
  <2> SUFFICES ASSUME Init PROVE HInv
    OBVIOUS
  <2>1. \A a \in AxisId : EdgeKept(axes[a])
    BY DEF Init, AtBoot, EdgeKept, Moving
  <2>2. status = "IDLE"
    BY DEF Init
  <2> QED
    BY <2>1, <2>2 DEF HInv
<1>2. TypeOK /\ HInv /\ [Next]_vars => HInv'
  <2> SUFFICES ASSUME TypeOK, HInv, [Next]_vars PROVE HInv'
    OBVIOUS
  <2>0. /\ axes \in [AxisId -> AxisView] /\ leaving \subseteq AxisId
        /\ \A a \in AxisId : EdgeKept(axes[a])
    BY DEF TypeOK, HInv
  <2>1. CASE Update
    <3>1. CASE StayUpdated
      BY <3>1 DEF StayUpdated, HInv
    <3>2. CASE EndMove
      BY <2>0, <3>2 DEF EndMove, HInv
    <3>3. CASE HomeAToB
      <4>1. /\ \A a \in AxisId : axes'[a] = HomingStart(a, "POSITIVE")
            /\ leaving' = {a \in AxisId : axes'[a].endless}
        BY <3>3 DEF HomeAToB, handle_home_b
      <4>2. \A a \in AxisId : EdgeKept(axes'[a])
        BY <2>0, <4>1, HomingStartKeepsEdge
      <4>3. \A a \in AxisId : axes[a].ls_home_pressed /\ ~ Moving(axes[a])
        BY <3>3 DEF HomeAToB, BothHome, AnyMoving, AxisId
      <4>4. ASSUME NEW a \in AxisId, axes'[a].endless PROVE Leaving(axes'[a])
        <5>1. Moving(axes'[a])
          BY <4>2, <4>4 DEF EdgeKept
        <5>2. axes'[a].drive = "POSITIVE"
          BY <2>0, <4>1, <4>3, <5>1, HomingStartDrives
        <5>3. axes'[a].ls_home_pressed
          BY <2>0, <4>1, <4>3 DEF HomingStart, Started, AxisView
        <5> QED
          BY <4>4, <5>1, <5>2, <5>3 DEF Leaving
      <4> QED
        BY <4>1, <4>2, <4>4 DEF HInv
    <3>4. CASE HomeAFails
      BY <2>0, <3>4 DEF HomeAFails, HInv
    <3>5. CASE HomeBEnds
      <4>1. \A a \in AxisId : axes'[a] = ResetTo(axes[a])
        BY <3>5 DEF HomeBEnds
      <4> QED
        BY <2>0, <3>5, <4>1, CallsKeepEdge DEF HomeBEnds, HInv
    <3> QED
      BY <2>1, <3>1, <3>2, <3>3, <3>4, <3>5 DEF Update
  <2>2. CASE Dispatch
    <3>1. CASE Home
      <4>1. \A a \in AxisId : axes'[a] = HomingStart(a, "NEGATIVE")
        BY <3>1 DEF Home, handle_home_a
      <4> QED
        BY <2>0, <3>1, <4>1, HomingStartKeepsEdge DEF Home, handle_home_a, HInv
    <3>2. CASE StopAll
      <4>1. \A a \in AxisId : axes'[a] = Halted(axes[a])
        BY <3>2 DEF StopAll
      <4> QED
        BY <2>0, <3>2, <4>1, CallsKeepEdge DEF StopAll, HInv
    <3>3. CASE Calibrate
      BY <3>3 DEF Calibrate, HInv
    <3>4. CASE Nothing
      BY <3>4 DEF Nothing, HInv
    <3>5. ASSUME NEW a \in AxisId, NEW dir \in {"POSITIVE", "NEGATIVE"},
                 NEW endless \in BOOLEAN, Move(a, dir, endless)
          PROVE  HInv'
      <4>1. /\ axes' = [axes EXCEPT ![a] = Started(axes[a], dir, endless)]
            /\ status' = "MOVING"
        BY <3>5 DEF Move
      <4>2. \A b \in AxisId : EdgeKept(axes'[b])
        BY <2>0, <4>1, CallsKeepEdge
      <4> QED
        BY <4>1, <4>2 DEF HInv
    <3> QED
      BY <2>2, <3>1, <3>2, <3>3, <3>4, <3>5 DEF Dispatch
  <2>3. ASSUME NEW a \in AxisId, AxisStep(a) PROVE HInv'
    <3>1. UNCHANGED <<status, home_a_done, leaving>>
      BY <2>3 DEF AxisStep, Advance, Finish, HomeEdge, FarPress, FarRelease, Becomes, loop
    <3>2. /\ \A b \in AxisId : b # a => axes'[b] = axes[b]
          /\ EdgeKept(axes'[a])
          /\ Leaving(axes[a]) \/ OffSwitch(axes[a]) => Leaving(axes'[a]) \/ OffSwitch(axes'[a])
      BY <2>0, <2>3, AxisStepKeepsEdge
         DEF AxisStep, Advance, Finish, HomeEdge, FarPress, FarRelease, Becomes
    <3> QED
      BY <2>0, <3>1, <3>2 DEF HInv
  <2>4. CASE UNCHANGED vars
    BY <2>4 DEF vars, loop, HInv
  <2> QED
    BY <2>1, <2>2, <2>3, <2>4 DEF Next
<1> QED
  BY <1>1, <1>2, TypeCorrect, PTL DEF Spec

(* When the homing routine ends well, the origin of every axis that home B *)
(* drove off its switch is at the edge of that switch.                     *)
THEOREM OriginIsHomeEdge == Spec => OriginAtHomeEdge
<1>1. TypeOK /\ HInv /\ HomeBEnds =>
        \A a \in leaving : /\ ~ axes[a].ls_home_pressed
                           /\ axes'[a].zero - HomeAt \in 1 .. Slack + 1
  <2> SUFFICES ASSUME TypeOK, HInv, HomeBEnds, NEW a \in leaving
               PROVE  /\ ~ axes[a].ls_home_pressed
                      /\ axes'[a].zero - HomeAt \in 1 .. Slack + 1
    OBVIOUS
  <2>1. a \in AxisId /\ axes[a] \in AxisView
    BY DEF TypeOK
  <2>2. ~ Moving(axes[a]) /\ axes'[a] = ResetTo(axes[a])
    BY <2>1 DEF HomeBEnds, AnyMoving
  <2>3. OffSwitch(axes[a])
    BY <2>2 DEF HInv, HomeBEnds, Leaving
  <2>4. axes'[a].zero = axes[a].pos
    BY <2>1, <2>2 DEF ResetTo, Halted, AxisView
  <2> QED
    BY <2>3, <2>4 DEF OffSwitch
<1> QED
  BY <1>1, TypeCorrect, Homing, PTL DEF OriginAtHomeEdge
=============================================================================
