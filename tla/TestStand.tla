------------------------------ MODULE TestStand ------------------------------
(***************************************************************************)
(* The firmware's main loop, firmware/src/mPMTTestStand.cpp: the status    *)
(* machine with its two-part homing routine and the commands of the host,  *)
(* over two axes that behave as AxisContract says.  The loop alternates    *)
(* the status update and at most one command; carriage, switches and ends  *)
(* of motions come between any two of these.                               *)
(***************************************************************************)
EXTENDS AxisModel

CONSTANTS BootPositions,   \* where each carriage may stand at power-on
          Slack,           \* counts a carriage can pass a switch before the
                           \* debounced edge (50 ms) is seen
          Calibrations,    \* whether a calibration message gives homing a profile
          MaxCommands      \* bound: commands the host sends

ASSUME RailAssumption ==
  /\ Length \in Nat /\ HomeAt \in Nat /\ FarAt \in Nat /\ Slack \in Nat
  /\ HomeAt < FarAt /\ FarAt <= Length
  /\ BootPositions \subseteq 0 .. Length
  /\ Calibrations \subseteq BOOLEAN /\ MaxCommands \in Nat
(* The edge of the home switch is seen before the far switch is reached.   *)
ASSUME DebounceAssumption == HomeAt + Slack + 1 < FarAt

AxisId   == {"X", "Y"}
Statuses == {"IDLE", "HOMING", "MOVING", "FAULT"}

VARIABLES axes,          \* the two axes
          status,        \* this->status
          home_a_done,   \* this->home_a_done
          profile_ok,    \* whether the calibration gives homing a profile
          at,            \* the next part of execute(): "update" or "dispatch"
          commands,      \* commands received so far
          leaving        \* history: axes that home B has started, for a motion
                         \* that only a limit switch can end

loop == <<status, home_a_done, profile_ok, at, commands, leaving>>
vars == <<axes, loop>>

Init == /\ \E p \in [AxisId -> BootPositions] : axes = [a \in AxisId |-> AtBoot(p[a])]
        /\ status = "IDLE"
        /\ home_a_done = FALSE
        /\ profile_ok = TRUE
        /\ at = "update"
        /\ commands = 0
        /\ leaving = {}

AnyMoving == \E a \in AxisId : Moving(axes[a])

(* Homing asks for INT32_MAX counts.  The end of that motion is a signed   *)
(* count, and so out of reach, unless the count has the sign of the motion.*)
HomingStart(a, dir) ==
  IF profile_ok /\ Accepts(axes[a], dir)
    THEN Started(axes[a], dir, IF dir = "NEGATIVE" THEN Count(axes[a]) >= -1
                                                   ELSE Count(axes[a]) <= 0)
    ELSE axes[a]

-----------------------------------------------------------------------------
(* execute(), first part: the status update.                               *)

(* Mutated form: the second part of an earlier homing is not forgotten.    *)
handle_home_a_KeepsPart ==
  /\ axes' = [a \in AxisId |-> HomingStart(a, "NEGATIVE")]
  /\ status' = "HOMING"
  /\ leaving' = {}
  /\ UNCHANGED home_a_done

handle_home_a ==
  /\ axes' = [a \in AxisId |-> HomingStart(a, "NEGATIVE")]
  /\ home_a_done' = FALSE
  /\ status' = "HOMING"
  /\ leaving' = {}

handle_home_b ==
  /\ axes' = [a \in AxisId |-> HomingStart(a, "POSITIVE")]
  /\ home_a_done' = TRUE
  /\ status' = "HOMING"
  /\ leaving' = {a \in AxisId : axes'[a].endless}

StayUpdated ==
  /\ status \in {"IDLE", "FAULT"} \/ AnyMoving
  /\ UNCHANGED <<axes, status, home_a_done, leaving>>

(* Mutated form: a status outside the enumeration.                         *)
EndMove_Unknown ==
  /\ status = "MOVING" /\ ~ AnyMoving
  /\ status' = IF \E a \in AxisId : axes[a].ls_home_pressed \/ axes[a].ls_far_pressed
                 THEN "LIMIT" ELSE "IDLE"
  /\ UNCHANGED <<axes, home_a_done, leaving>>

(* The far switch of X is tested twice, that of Y never.                   *)
EndMove ==
  /\ status = "MOVING" /\ ~ AnyMoving
  /\ status' = IF \/ axes["X"].ls_home_pressed \/ axes["X"].ls_far_pressed
                  \/ axes["Y"].ls_home_pressed \/ axes["X"].ls_far_pressed
                 THEN "FAULT" ELSE "IDLE"
  /\ UNCHANGED <<axes, home_a_done, leaving>>

(* Mutated form: one pressed home switch is enough.                        *)
EitherHome == axes["X"].ls_home_pressed \/ axes["Y"].ls_home_pressed

BothHome == axes["X"].ls_home_pressed /\ axes["Y"].ls_home_pressed

HomeAToB ==
  /\ status = "HOMING" /\ ~ home_a_done /\ ~ AnyMoving /\ BothHome
  /\ handle_home_b

(* Mutated form: homing waits for a switch that is not going to close.     *)
HomeAFails_Waits ==
  /\ status = "HOMING" /\ ~ home_a_done /\ ~ AnyMoving /\ ~ BothHome
  /\ UNCHANGED <<axes, status, home_a_done, leaving>>

HomeAFails ==
  /\ status = "HOMING" /\ ~ home_a_done /\ ~ AnyMoving /\ ~ BothHome
  /\ status' = "FAULT"
  /\ UNCHANGED <<axes, home_a_done, leaving>>

HomeBEnds ==
  /\ status = "HOMING" /\ home_a_done /\ ~ AnyMoving
  /\ axes' = [a \in AxisId |-> ResetTo(axes[a])]
  /\ status' = "IDLE"
  /\ home_a_done' = FALSE
  /\ UNCHANGED leaving

Update == /\ at = "update"
          /\ at' = "dispatch"
          /\ StayUpdated \/ EndMove \/ HomeAToB \/ HomeAFails \/ HomeBEnds
          /\ UNCHANGED <<profile_ok, commands>>

-----------------------------------------------------------------------------
(* execute(), second part: at most one command.                            *)

Receive == /\ at = "dispatch" /\ commands < MaxCommands
           /\ at' = "update" /\ commands' = commands + 1

Home == Receive /\ handle_home_a /\ UNCHANGED profile_ok

(* A refused move (limit switch, already moving, bad parameters or an      *)
(* ill-formed message) changes nothing but the reply.                      *)
Move(a, dir, endless) ==
  /\ Receive
  /\ Accepts(axes[a], dir)
  /\ axes' = [axes EXCEPT ![a] = Started(@, dir, endless)]
  /\ status' = "MOVING"
  /\ UNCHANGED <<home_a_done, profile_ok, leaving>>

(* Mutated form: one axis is not stopped.                                  *)
StopAll_OnlyX == /\ Receive
                 /\ axes' = [axes EXCEPT !["X"] = Halted(@)]
                 /\ status' = "IDLE"
                 /\ UNCHANGED <<home_a_done, profile_ok, leaving>>

StopAll == /\ Receive
           /\ axes' = [a \in AxisId |-> Halted(axes[a])]
           /\ status' = "IDLE"
           /\ UNCHANGED <<home_a_done, profile_ok, leaving>>

Calibrate == /\ Receive
             /\ profile_ok' \in Calibrations
             /\ UNCHANGED <<axes, status, home_a_done, leaving>>

(* No command, a refused move, or one that only asks for data.             *)
Nothing == /\ at = "dispatch"
           /\ at' = "update"
           /\ UNCHANGED <<axes, status, home_a_done, profile_ok, commands, leaving>>

Dispatch == \/ Home \/ StopAll \/ Calibrate \/ Nothing
            \/ \E a \in AxisId, dir \in {"POSITIVE", "NEGATIVE"}, endless \in BOOLEAN :
                 Move(a, dir, endless)

-----------------------------------------------------------------------------
(* The axes, between two parts of the loop.                                *)

Becomes(a, c) == axes' = [axes EXCEPT ![a] = c] /\ UNCHANGED loop

(* A carriage is not more than Slack past the place where a switch changes *)
(* while the edge is still to come.                                        *)
EdgeInTime(c, p) ==
  /\ c.home_pin # HomePressed(p) => p - HomeAt \in -Slack .. Slack + 1
  /\ c.far_pin # FarPressed(p)   => p - FarAt \in -Slack - 1 .. Slack

Advance(a) == /\ CanAdvance(axes[a]) /\ EdgeInTime(axes[a], NextPos(axes[a]))
              /\ Becomes(a, Advanced(axes[a]))
Finish(a)  == CanFinish(axes[a]) /\ Becomes(a, Halted(axes[a]))
HomeEdge(a) == HomeChanges(axes[a]) /\ Becomes(a, HomeHandled(axes[a]))
FarPress(a) == FarCloses(axes[a]) /\ Becomes(a, FarHandled(axes[a]))
FarRelease(a) == FarOpens(axes[a]) /\ Becomes(a, FarOpened(axes[a]))

AxisStep(a) == Advance(a) \/ Finish(a) \/ HomeEdge(a) \/ FarPress(a) \/ FarRelease(a)

Next == Update \/ Dispatch \/ \E a \in AxisId : AxisStep(a)

Spec == Init /\ [][Next]_vars

(* The loop runs for ever, carriages that are driven move, and debounced   *)
(* edges arrive.                                                           *)
Fairness == /\ WF_vars(Update) /\ WF_vars(Dispatch)
            /\ \A a \in AxisId : /\ WF_vars(Advance(a)) /\ WF_vars(HomeEdge(a))
                                 /\ WF_vars(FarPress(a)) /\ WF_vars(FarRelease(a))
FairSpec == Spec /\ Fairness

-----------------------------------------------------------------------------
TypeOK ==
  /\ axes \in [AxisId -> AxisView]
  /\ status \in Statuses /\ home_a_done \in BOOLEAN /\ profile_ok \in BOOLEAN
  /\ at \in {"update", "dispatch"} /\ commands \in 0 .. MaxCommands
  /\ leaving \subseteq AxisId

(* The host takes IDLE or FAULT for "nothing moves" (it then reads the     *)
(* position and may calibrate or start): no interleaving of commands,      *)
(* switches and ends of motions leaves an axis moving in these states      *)
(* (the status update of execute and handle_stop).                         *)
IdleMeansStopped == status \in {"IDLE", "FAULT"} => ~ AnyMoving

(* During the second part of the homing routine no axis is driven back     *)
(* towards the home switch, whatever HOME, MOVE and STOP come in between   *)
(* (handle_home_a clears home_a_done, handle_home_b sets it).              *)
HomeBLeavesSwitch ==
  status = "HOMING" /\ home_a_done =>
    \A a \in AxisId : Moving(axes[a]) => axes[a].drive = "POSITIVE"

(* When the homing routine ends well, the count of every axis that it has  *)
(* driven off its home switch is zero at the edge of that switch, within   *)
(* the debounce distance (execute, HOME B).                                *)
OriginAtHomeEdge ==
  [][ HomeBEnds => \A a \in leaving :
        /\ ~ axes[a].ls_home_pressed
        /\ axes'[a].zero - HomeAt \in 1 .. Slack + 1 ]_vars

(* A homing routine ends, well or in FAULT, when the carriages do not      *)
(* stand on their home switches at power-on (execute, both parts).         *)
HomingEnds == status = "HOMING" ~> status # "HOMING"

-----------------------------------------------------------------------------
(* What a comment of the code says, and a run refutes.                     *)

(* mPMTTestStand.cpp:80-84, "Drives both axes in the positive direction    *)
(* until the home limit switch is released."                               *)
HomeBReleasesSwitch ==
  [][ HomeBEnds => \A a \in AxisId : ~ axes[a].ls_home_pressed ]_vars
=============================================================================
