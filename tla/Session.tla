------------------------------- MODULE Session -------------------------------
(***************************************************************************)
(* A serial connection from the opening of the port to its closing.  The   *)
(* controller sends a PING until one is acknowledged (mPMTTestStand::      *)
(* setup), then serves requests.  A host program opens the port, polls for *)
(* a PING, drops what else is there and makes requests: the frontend       *)
(* (arduino_connect, which first checks the link with an ECHO), or         *)
(* MessageTerminal (connect_to_arduino).  The two leave their polling loop *)
(* on opposite results of check_for_message.                               *)
(*                                                                         *)
(* A message can be half arrived when it is polled: it stays at the head   *)
(* of to_host, with partial set.  Opening the port resets the board.       *)
(***************************************************************************)
EXTENDS SerialLink

CONSTANT Programs     \* the host programs, of "feArduino" and "MessageTerminal"

ASSUME SessionAssumption ==
  /\ Programs \subseteq {"feArduino", "MessageTerminal"} /\ Programs # {}
  /\ "ECHO" \in Requests /\ MaxInFlight > 1

VARIABLES program,    \* the host program
          phase,      \* where it is in its connection
          partial,    \* msg_in_progress at the host: a message is half read
          pinged,     \* the id of the host's received message is PING
          setup,      \* the controller's setup: "ping", "wait", "delay", then "up"
          since       \* history: the faults since the port was opened

sessionvars == <<program, phase, partial, pinged, setup, since>>
vars == <<linkvars, sessionvars>>

Phases == {"closed", "opened", "polling", "flush", "check", "checking", "connected", "failed"}
PortOpen == phase \notin {"closed", "failed"}

Init == /\ LinkInit
        /\ program \in Programs /\ phase = "closed"
        /\ partial = FALSE /\ pinged = FALSE
        /\ setup = "ping" /\ since = {}

-----------------------------------------------------------------------------
(* The host connects.                                                      *)

(* A new process, or the terminal's reset command after its disconnection; *)
(* the terminal never looks at the id of an older message.                 *)
Open(p) ==
  /\ ~ PortOpen
  /\ program' = p /\ phase' = "opened"
  /\ partial' = FALSE /\ pinged' = FALSE
  /\ setup' = "ping" /\ controller' = "loop"
  /\ to_controller' = <<>> /\ to_host' = <<>>
  /\ since' = {}
  /\ UNCHANGED <<host, request, result, handling, handled, faults>>

(* ser_flush waits for what is being sent and drops what has come; it does *)
(* not reset the transport.                                                *)
Flush ==
  /\ phase \in {"opened", "flush"}
  /\ to_host' = <<>>
  /\ phase' = IF phase = "opened" THEN "polling"
              ELSE IF program = "feArduino" THEN "check" ELSE "connected"
  /\ UNCHANGED <<host, request, result, controller, handling, to_controller, handled,
                 faults, program, partial, pinged, setup, since>>

(* check_for_message of the session: nothing, part of a message (with or   *)
(* without its id), or a whole one, which is acknowledged.                 *)
check_for_message(res) ==
  \/ /\ to_host = <<>> /\ res = "SERIAL_OK_NO_MSG"
     /\ UNCHANGED <<to_host, to_controller, partial, pinged>>
  \/ /\ to_host # <<>> /\ res = "SERIAL_OK_NO_MSG"
     /\ partial' = TRUE /\ pinged' \in {pinged, Head(to_host).id = "PING"}
     /\ UNCHANGED <<to_host, to_controller>>
  \/ /\ HostReads
     /\ partial' = FALSE /\ pinged' = (Head(to_host).id = "PING")
     /\ IF Head(to_host).id = "ACK"
        THEN res = "SERIAL_ERR_WRONG_MSG" /\ UNCHANGED to_controller
        ELSE res = "SERIAL_OK" /\ to_controller' = Append(to_controller, Msg("ACK", FALSE))

(* Mutated form: both programs take any result but SERIAL_OK for a         *)
(* message.                                                                *)
LeavesPoll_SameTest(res, ping) == ping /\ res # "SERIAL_OK"

(* arduino_connect's loop converts the result to bool, the other compares  *)
(* it.                                                                     *)
LeavesPoll(res, ping) ==
  ping /\ IF program = "feArduino" THEN res # "SERIAL_OK" ELSE res = "SERIAL_OK"

Poll ==
  /\ phase = "polling"
  /\ \E res \in {"SERIAL_OK", "SERIAL_OK_NO_MSG", "SERIAL_ERR_WRONG_MSG"} :
        /\ check_for_message(res)
        /\ phase' = IF LeavesPoll(res, pinged') THEN "flush" ELSE "polling"
  /\ UNCHANGED <<host, request, result, controller, handling, handled, faults,
                 program, setup, since>>

(* link_check: an ECHO request, which is not sent while a message is half  *)
(* read.  Without it the frontend ends.                                    *)
LinkCheck ==
  /\ phase = "check" /\ ~ partial
  /\ HostSend("ECHO")
  /\ phase' = "checking"
  /\ UNCHANGED <<program, partial, pinged, setup, since>>

LinkCheckRefused ==
  /\ phase = "check" /\ partial
  /\ result' = "SERIAL_ERR_MSG_IN_PROGRESS" /\ phase' = "failed"
  /\ UNCHANGED <<host, request, controller, handling, to_controller, to_host, handled,
                 faults, program, partial, pinged, setup, since>>

LinkChecked ==
  /\ phase = "checking" /\ host = "idle"
  /\ phase' = IF result = "SERIAL_OK" THEN "connected" ELSE "failed"
  /\ UNCHANGED <<linkvars, program, partial, pinged, setup, since>>

Request(r) == phase = "connected" /\ HostSend(r) /\ UNCHANGED sessionvars

(* frontend_exit, and the terminal's exit and reset commands.              *)
Disconnect ==
  /\ phase = "connected" /\ host = "idle"
  /\ phase' = "closed" /\ to_host' = <<>>
  /\ UNCHANGED <<host, request, result, controller, handling, to_controller, handled,
                 faults, program, partial, pinged, setup, since>>

-----------------------------------------------------------------------------
(* The controller waits for a host.                                        *)

(* Sent to a closed port, a PING is gone.                                  *)
Ping ==
  /\ setup = "ping" /\ setup' = "wait"
  /\ IF PortOpen THEN /\ Len(to_host) < MaxInFlight - 1
                      /\ to_host' = Append(to_host, Msg("PING", FALSE))
                 ELSE UNCHANGED to_host
  /\ UNCHANGED <<host, request, result, controller, handling, to_controller, handled,
                 faults, program, phase, partial, pinged, since>>

PingAnswered ==
  /\ setup = "wait" /\ ControllerReads
  /\ setup' = IF Head(to_controller).id = "ACK" THEN "up" ELSE "delay"
  /\ UNCHANGED <<host, request, result, controller, handling, to_host, handled,
                 faults, program, phase, partial, pinged, since>>

(* What the host makes of a PING that comes while it does not poll is no   *)
(* ACK.                                                                    *)
PingTimeout ==
  /\ setup = "wait"
  /\ TimeoutWhile(to_controller # <<>> \/ (phase = "polling" /\ to_host # <<>>))
  /\ setup' = "delay"
  /\ since' = IF faults' = faults THEN since ELSE since \cup {"late"}
  /\ UNCHANGED <<host, request, result, controller, handling, to_controller, to_host,
                 handled, program, phase, partial, pinged>>

(* Mutated form: setup does not ping again.                                *)
Delay_PingsOnce == setup = "delay" /\ UNCHANGED vars

Delay ==
  /\ setup = "delay" /\ setup' = "ping"
  /\ UNCHANGED <<linkvars, program, phase, partial, pinged, since>>

(* The board loses its power for a moment, or crashes.                     *)
Restart ==
  /\ PortOpen /\ Fault("restart")
  /\ setup' = "ping" /\ controller' = "loop" /\ to_controller' = <<>>
  /\ since' = since \cup {"restart"}
  /\ UNCHANGED <<host, request, result, handling, to_host, handled,
                 program, phase, partial, pinged>>

-----------------------------------------------------------------------------
(* The exchanges of SerialLink, once the controller is up.  A message is   *)
(* lost before any part of it is read.                                     *)

Within(A) == A /\ UNCHANGED <<program, phase, partial, pinged, setup>>
             /\ since' = IF faults' = faults THEN since ELSE since \cup {"late"}
Exchange  == Within(HostWaits)
Serve     == setup = "up" /\ Within(ControllerStep)
Lose(A, kind) == A /\ since' = since \cup {kind}
                 /\ UNCHANGED <<program, phase, partial, pinged, setup>>

HostStep == Flush \/ Poll \/ LinkCheck \/ LinkCheckRefused \/ LinkChecked \/ Exchange
            \/ \E r \in Requests : Request(r)
ControllerSide == Ping \/ PingAnswered \/ PingTimeout \/ Delay \/ Serve

Next == \/ HostStep \/ ControllerSide
        \/ (\E p \in Programs : Open(p)) \/ Disconnect
        \/ Restart
        \/ Lose(LoseToController, "lost_to_controller")
        \/ (~ partial /\ Lose(LoseToHost, "lost_to_host"))

Spec == Init /\ [][Next]_vars

(* Both programs run for ever, each wait ends by its timeout; a user need  *)
(* neither open a port nor close it.                                       *)
FairSpec == Spec /\ WF_vars(HostStep) /\ WF_vars(ControllerSide)

-----------------------------------------------------------------------------
TypeOK ==
  /\ LinkTypeOK
  /\ program \in Programs /\ phase \in Phases
  /\ partial \in BOOLEAN /\ pinged \in BOOLEAN
  /\ setup \in {"ping", "wait", "delay", "up"} /\ since \subseteq FaultKinds

(* Without faults no request of a connected host fails (send_message and   *)
(* recv_message), though both sides read each other's messages without     *)
(* numbers, except for the state of the axes, which the controller never   *)
(* sends.                                                                  *)
NoFaultNoError ==
  faults = 0 /\ host = "idle" /\ request # "GET_AXIS_STATE" =>
    result \in {"SERIAL_OK", "SERIAL_ERR_MSG_IN_PROGRESS"}

(* No restart of the board and no late answer since the port was opened.  *)
Sound == since \cap {"restart", "late"} = {}

(* When the connection stays up and sound, requests succeed again and for  *)
(* ever after the last fault, except the one the controller never answers: *)
(* no reply is left over from an earlier exchange and taken for the next   *)
(* (send_message, recv_message).                                           *)
LinkRecovers ==
  <>[](phase = "connected" /\ setup = "up" /\ Sound)
    => <>[](host = "idle" /\ request # "GET_AXIS_STATE" => result = "SERIAL_OK")

(* A host that believes itself connected has a controller that serves it.  *)
(* The frontend's link check (arduino_connect) ensures it whatever was     *)
(* lost on the way; MessageTerminal (connect_to_arduino) only when nothing *)
(* was.                                                                    *)
ConnectedMeansUp ==
  phase = "connected" =>
    \/ setup = "up" \/ "restart" \in since
    \/ /\ program = "MessageTerminal"
       /\ since # {} \/ \E i \in 1 .. Len(to_controller) : to_controller[i].id = "ACK"

(* The frontend gives up (link_check, arduino_connect) only when it took    *)
(* half a PING for a whole one, or after a fault; the terminal never does. *)
FailsForReason ==
  phase = "failed" => program = "feArduino" /\ (partial \/ since # {})

(* The handshake ends in what it promises.                                 *)
HandshakeSound == ConnectedMeansUp /\ FailsForReason

(* A request is answered as RequestContract says; and the reply taken for  *)
(* its answer is not one to an earlier request (recv_message).             *)
Contract == INSTANCE RequestContract WITH
              asked <- IF host = "idle" THEN "none" ELSE request,
              done <- handled,
              outcome <- IF result = "SERIAL_OK" THEN "ok" ELSE "failed",
              sound <- Sound

OwnReply == Sound /\ host = "reply" /\ host' = "idle" /\ result' = "SERIAL_OK" => Head(to_host).now

ImplementsRequest == Contract!Spec /\ [][OwnReply]_vars

(* Waiting for the board (arduino_connect, connect_to_arduino) comes to an *)
(* end, whatever is lost, and so does every call (recv_message).           *)
WaitsEnd == (phase = "polling" ~> phase \in {"connected", "failed"}) /\ Contract!Answered
=============================================================================
