----------------------------- MODULE ReceiveWait -----------------------------
(***************************************************************************)
(* The clock of SerialTransport::recv_message, the wait behind every       *)
(* timeout of Session and SerialLink.  platform_millis returns 64 bits,    *)
(* time_start holds 32 of them.  On the controller the clock itself wraps  *)
(* at 32 bits; on the host it counts from the start of the computer.       *)
(***************************************************************************)
EXTENDS Naturals

CONSTANTS Word,          \* number of values of a uint32_t
          LongWord,      \* number of values of a uint64_t
          timeout_ms,    \* the argument of recv_message
          MaxUptime      \* bound: time the computer or the board is up

VARIABLES clock,         \* "host" or "controller": whose platform_millis
          uptime,        \* milliseconds since power-on
          waiting,       \* recv_message is waiting
          time_start,    \* its variable
          begun,         \* history: uptime when the wait began
          abandoned      \* the last wait ended by its timeout

vars == <<clock, uptime, waiting, time_start, begun, abandoned>>

platform_millis == uptime % (IF clock = "host" THEN LongWord ELSE Word)

Init == /\ clock \in {"host", "controller"} /\ uptime \in 0 .. MaxUptime
        /\ waiting = FALSE /\ time_start = 0 /\ begun = uptime /\ abandoned = FALSE

Begin == /\ ~ waiting /\ waiting' = TRUE /\ abandoned' = FALSE
         /\ time_start' = platform_millis % Word /\ begun' = uptime
         /\ UNCHANGED <<clock, uptime>>

(* One turn of the loop without a whole message: the difference is taken   *)
(* in 64 bits.                                                             *)
TimeIsUp == (platform_millis + LongWord - time_start) % LongWord > timeout_ms

Abandon == /\ waiting /\ TimeIsUp
           /\ waiting' = FALSE /\ abandoned' = TRUE
           /\ UNCHANGED <<clock, uptime, time_start, begun>>

Receive == /\ waiting /\ waiting' = FALSE
           /\ UNCHANGED <<clock, uptime, time_start, begun, abandoned>>

Tick == /\ uptime < MaxUptime /\ uptime' = uptime + 1
        /\ UNCHANGED <<clock, waiting, time_start, begun, abandoned>>

Next == Begin \/ Abandon \/ Receive \/ Tick
Spec == Init /\ [][Next]_vars

-----------------------------------------------------------------------------
(* What a comment of the code says, and a run refutes.                     *)

(* SerialSession.cxx:78-79, "until a full message is received or until     *)
(* timeout_ms has elapsed": recv_message gives up only after its timeout.  *)
WaitsForTimeout == abandoned => uptime - begun > timeout_ms
=============================================================================
