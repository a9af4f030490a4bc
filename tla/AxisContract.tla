---------------------------- MODULE AxisContract ----------------------------
(***************************************************************************)
(* The abstract specification of one axis: the view of AxisModel, changed  *)
(* by the main loop's calls, and by what comes of itself: the carriage,    *)
(* the end of a motion and the limit switches, each in one step.           *)
(***************************************************************************)
EXTENDS AxisModel

CONSTANT BootPositions     \* where the carriage may stand at power-on

VARIABLE c

Init == \E p \in BootPositions : c = AtBoot(p)

Start   == \E dir \in {"POSITIVE", "NEGATIVE"}, endless \in BOOLEAN :
             Accepts(c, dir) /\ c' = Started(c, dir, endless)
Stop    == c' = Halted(c)
Reset   == c' = ResetTo(c)
Finish  == CanFinish(c) /\ c' = Halted(c)
Advance == CanAdvance(c) /\ c' = Advanced(c)
Home    == HomeChanges(c) /\ c' = HomeHandled(c)
Far     == FarCloses(c) /\ c' = FarHandled(c)
FarOpen == FarOpens(c) /\ c' = FarOpened(c)

(* What the main loop asks for, and what only the hardware brings about.   *)
Call  == Start \/ Stop \/ Reset
Event == Finish \/ Advance \/ Home \/ Far \/ FarOpen

Next == Call \/ Event

Spec == Init /\ [][Next]_c
=============================================================================
