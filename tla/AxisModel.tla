----------------------------- MODULE AxisModel -----------------------------
(***************************************************************************)
(* What the rest of the firmware relies on of an axis (Axis.h): whether    *)
(* and which way it is driven, the two limit-switch flags, and where its   *)
(* count is zero; with the carriage and the debounced switches.  Profiles, *)
(* velocities and timers are hidden: a driven axis moves and, unless its   *)
(* distance cannot be covered on the rail, may finish at any time.         *)
(***************************************************************************)
EXTENDS Integers

CONSTANTS Length,          \* the carriage moves on 0 .. Length, in encoder counts
          HomeAt,          \* the home switch is pressed at HomeAt and below
          FarAt            \* the far switch is pressed at FarAt and above

Drives == {"none", "POSITIVE", "NEGATIVE"}

AxisView == [ drive : Drives,                \* which way the motor is driven
              endless : BOOLEAN,             \* the distance exceeds the rail
              ls_home_pressed : BOOLEAN,     \* the firmware's flags
              ls_far_pressed : BOOLEAN,
              pos : 0 .. Length,             \* the carriage
              zero : 0 .. Length,            \* where the encoder counts from
              home_pin : BOOLEAN,            \* debounced levels, TRUE when pressed
              far_pin : BOOLEAN ]

HomePressed(p) == p <= HomeAt
FarPressed(p)  == p >= FarAt

AtBoot(p) == [ drive |-> "none", endless |-> FALSE,
               ls_home_pressed |-> FALSE, ls_far_pressed |-> FALSE,
               pos |-> p, zero |-> p,
               home_pin |-> HomePressed(p), far_pin |-> FarPressed(p) ]

Moving(c) == c.drive # "none"
Count(c)  == c.pos - c.zero

Accepts(c, dir) == /\ ~ Moving(c)
                   /\ dir = "POSITIVE" => ~ c.ls_far_pressed
                   /\ dir = "NEGATIVE" => ~ c.ls_home_pressed

Started(c, dir, endless) == [ c EXCEPT !.drive = dir, !.endless = endless ]
Halted(c)    == [ c EXCEPT !.drive = "none", !.endless = FALSE ]
ResetTo(c)   == [ Halted(c) EXCEPT !.zero = c.pos ]

CanFinish(c) == Moving(c) /\ ~ c.endless

NextPos(c)   == IF c.drive = "POSITIVE" THEN c.pos + 1 ELSE c.pos - 1
CanAdvance(c) == Moving(c) /\ NextPos(c) \in 0 .. Length
Advanced(c)  == [ c EXCEPT !.pos = NextPos(c) ]

HomeChanges(c) == c.home_pin # HomePressed(c.pos)
HomeHandled(c) == [ Halted(c) EXCEPT !.home_pin = HomePressed(c.pos),
                                     !.ls_home_pressed = HomePressed(c.pos) ]
FarCloses(c)   == ~ c.far_pin /\ FarPressed(c.pos)
FarHandled(c)  == [ Halted(c) EXCEPT !.far_pin = TRUE, !.ls_far_pressed = TRUE ]
FarOpens(c)    == c.far_pin /\ ~ FarPressed(c.pos)
FarOpened(c)   == [ c EXCEPT !.far_pin = FALSE ]
=============================================================================
