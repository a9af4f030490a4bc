----------------------------- MODULE SerialLink -----------------------------
(***************************************************************************)
(* The request and answer exchanges between the host (feArduino, through   *)
(* TestStandCommHost) and the controller (mPMTTestStand::execute, through  *)
(* TestStandCommController), over two SerialSessions.  A message is one    *)
(* whole frame, as SerialTransport delivers it.  Neither side numbers its  *)
(* messages: any ACK acknowledges whatever was sent last.  How the two     *)
(* come to exchange requests is in Session.                                *)
(***************************************************************************)
EXTENDS Integers, Sequences

CONSTANTS Requests,      \* the requests the host makes, of those in ReplyTo
          FaultKinds,    \* of "lost_to_controller", "lost_to_host", "late", "restart"
          MaxFaults,     \* bound: faults
          MaxInFlight    \* bound: messages under way to the host

(* What the controller sends back after its ACK, if anything.              *)
ReplyTo == [ PING |-> "none", HOME |-> "none", STOP |-> "none", CALIBRATE |-> "none",
             GET_AXIS_STATE |-> "none", ECHO |-> "ECHOED", MOVE |-> "AXIS_RESULT",
             GET_STATUS |-> "STATUS", GET_POSITION |-> "POSITION", GET_TEMP |-> "TEMP" ]
(* What the host waits for after the ACK.                                  *)
ReplyWanted == [ ReplyTo EXCEPT !.GET_AXIS_STATE = "AXIS_STATE" ]

ASSUME LinkAssumption ==
  /\ Requests \subseteq DOMAIN ReplyTo
  /\ FaultKinds \subseteq {"lost_to_controller", "lost_to_host", "late", "restart"}
  /\ MaxFaults \in Nat /\ MaxInFlight \in Nat

Replies      == {"ECHOED", "AXIS_RESULT", "STATUS", "POSITION", "TEMP"}
(* What travels where, each message with whether it belongs to the present *)
(* exchange (now) or to an earlier one.  The PINGs to the host are those   *)
(* that the controller sends before it is up.                              *)
ToController == [ id : Requests \cup {"ACK"}, now : BOOLEAN ]
ToHost       == [ id : Replies \cup {"ACK", "PING"}, now : BOOLEAN ]
Errors       == {"SERIAL_ERR_NO_MSG", "SERIAL_ERR_NO_ACK", "SERIAL_ERR_WRONG_MSG",
                 "SERIAL_ERR_TIMEOUT", "SERIAL_ERR_MSG_IN_PROGRESS"}

VARIABLES host,           \* where the host is: "idle", or waiting for "ack", "reply"
          request,        \* its last request
          result,         \* its last result
          controller,     \* "loop", about to send a "reply", or waiting for an "ack"
          handling,       \* the request the controller has read last
          to_controller, to_host,    \* the messages under way
          handled,        \* history: the controller has carried out this request
          faults          \* faults so far

linkvars == <<host, request, result, controller, handling, to_controller, to_host,
              handled, faults>>

(* When a new exchange begins, all that is under way, and the controller's *)
(* work, belong to an earlier one.                                         *)
Msg(id, now) == [ id |-> id, now |-> now ]
Past(s) == [ i \in DOMAIN s |-> [ s[i] EXCEPT !.now = FALSE ] ]

LinkInit == /\ host = "idle" /\ request \in Requests /\ result = "SERIAL_OK"
            /\ controller = "loop" /\ handling = Msg(request, FALSE)
            /\ to_controller = <<>> /\ to_host = <<>>
            /\ handled = TRUE /\ faults = 0

-----------------------------------------------------------------------------
(* The host: send_message and recv_message of its session.                 *)

Done(res) == host' = "idle" /\ result' = res

HostSend(r) ==
  /\ host = "idle" /\ Len(to_host) < MaxInFlight
  /\ host' = "ack" /\ request' = r /\ handled' = FALSE
  /\ to_controller' = Append(Past(to_controller), Msg(r, TRUE))
  /\ to_host' = Past(to_host)
  /\ handling' = [ handling EXCEPT !.now = FALSE ]
  /\ UNCHANGED <<result, controller, faults>>

HostReads == to_host # <<>> /\ to_host' = Tail(to_host)

HostReadsAck ==
  /\ host = "ack" /\ HostReads
  /\ IF Head(to_host).id # "ACK" THEN Done("SERIAL_ERR_NO_ACK")
     ELSE IF ReplyWanted[request] = "none" THEN Done("SERIAL_OK")
     ELSE host' = "reply" /\ UNCHANGED result
  /\ UNCHANGED <<request, controller, handling, to_controller, handled, faults>>

(* Mutated form: the host does not acknowledge a reply.                    *)
HostReadsReply_NoAck ==
  /\ host = "reply" /\ HostReads
  /\ Done(IF Head(to_host).id = ReplyWanted[request] THEN "SERIAL_OK"
                                                  ELSE "SERIAL_ERR_WRONG_MSG")
  /\ UNCHANGED <<request, controller, handling, to_controller, handled, faults>>

(* Any message but an ACK is acknowledged before its id is looked at.      *)
HostReadsReply ==
  /\ host = "reply" /\ HostReads
  /\ to_controller' = IF Head(to_host).id = "ACK" THEN to_controller
                      ELSE Append(to_controller, Msg("ACK", TRUE))
  /\ Done(IF Head(to_host).id = ReplyWanted[request] THEN "SERIAL_OK"
                                                  ELSE "SERIAL_ERR_WRONG_MSG")
  /\ UNCHANGED <<request, controller, handling, handled, faults>>

-----------------------------------------------------------------------------
(* The controller: check_for_message in execute, the handler, and the      *)
(* send_message of the reply, which takes the next message, whatever it    *)
(* is, for the answer to its reply.                                        *)

ControllerReads == to_controller # <<>> /\ to_controller' = Tail(to_controller)

(* Mutated forms: the reply does not wait for an ACK of its own to go out  *)
(* first; a reply is sent to every request.                                *)
ControllerReceives_NoAck ==
  /\ controller = "loop" /\ ControllerReads
  /\ LET m == Head(to_controller)
     IN  IF m.id = "ACK" THEN UNCHANGED <<controller, handling, handled>>
         ELSE /\ handling' = m
              /\ handled' = (handled \/ m.now)
              /\ controller' = IF ReplyTo[m.id] = "none" THEN "loop" ELSE "reply"
  /\ UNCHANGED <<host, request, result, to_host, faults>>
ControllerReceives_AlwaysReplies ==
  /\ controller = "loop" /\ ControllerReads
  /\ LET m == Head(to_controller)
     IN  IF m.id = "ACK" THEN UNCHANGED <<controller, handling, to_host, handled>>
         ELSE /\ to_host' = Append(to_host, Msg("ACK", m.now))
              /\ handling' = m
              /\ handled' = (handled \/ m.now)
              /\ controller' = "reply"
  /\ UNCHANGED <<host, request, result, faults>>

ControllerReceives ==
  /\ controller = "loop" /\ ControllerReads
  /\ LET m == Head(to_controller)
     IN  IF m.id = "ACK" THEN UNCHANGED <<controller, handling, to_host, handled>>
         ELSE /\ to_host' = Append(to_host, Msg("ACK", m.now))
              /\ handling' = m
              /\ handled' = (handled \/ m.now)
              /\ controller' = IF ReplyTo[m.id] = "none" THEN "loop" ELSE "reply"
  /\ UNCHANGED <<host, request, result, faults>>

ControllerReplies ==
  /\ controller = "reply"
  /\ to_host' = Append(to_host, Msg(ReplyTo[handling.id], handling.now))
  /\ controller' = "ack"
  /\ UNCHANGED <<host, request, result, handling, to_controller, handled, faults>>

ControllerReadsAck ==
  /\ controller = "ack" /\ ControllerReads
  /\ controller' = "loop"
  /\ UNCHANGED <<host, request, result, handling, to_host, handled, faults>>

-----------------------------------------------------------------------------
(* Timeouts and losses.  A timeout is late when an answer was on its way;  *)
(* it needs no fault when there was nothing to wait for.                   *)

Fault(kind) == /\ kind \in FaultKinds /\ faults < MaxFaults
               /\ faults' = faults + 1

TimeoutWhile(coming) == IF coming THEN Fault("late") ELSE UNCHANGED faults

AnswerComing == to_host # <<>> \/ to_controller # <<>> \/ controller = "reply"

(* Mutated form: no message, SERIAL_OK_NO_MSG, is taken for success.       *)
HostTimeout_NoMsgIsOk ==
  /\ host # "idle"
  /\ TimeoutWhile(AnswerComing)
  /\ Done("SERIAL_OK")
  /\ UNCHANGED <<request, controller, handling, to_controller, to_host, handled>>

HostTimeout ==
  /\ host # "idle"
  /\ TimeoutWhile(AnswerComing)
  /\ Done(IF host = "ack" THEN "SERIAL_ERR_NO_MSG" ELSE "SERIAL_ERR_TIMEOUT")
  /\ UNCHANGED <<request, controller, handling, to_controller, to_host, handled>>

ControllerTimeout ==
  /\ controller = "ack"
  /\ TimeoutWhile(to_controller # <<>> \/ to_host # <<>>)
  /\ controller' = "loop"
  /\ UNCHANGED <<host, request, result, handling, to_controller, to_host, handled>>

LoseToController == /\ to_controller # <<>> /\ to_controller' = Tail(to_controller)
                    /\ Fault("lost_to_controller")
                    /\ UNCHANGED <<host, request, result, controller, handling, to_host, handled>>

LoseToHost == /\ to_host # <<>> /\ to_host' = Tail(to_host)
              /\ Fault("lost_to_host")
              /\ UNCHANGED <<host, request, result, controller, handling, to_controller, handled>>

-----------------------------------------------------------------------------
HostWaits == HostReadsAck \/ HostReadsReply \/ HostTimeout
ControllerStep == ControllerReceives \/ ControllerReplies \/ ControllerReadsAck
                  \/ ControllerTimeout

-----------------------------------------------------------------------------
LinkTypeOK ==
  /\ host \in {"idle", "ack", "reply"} /\ request \in Requests
  /\ result \in Errors \cup {"SERIAL_OK"}
  /\ controller \in {"loop", "reply", "ack"}
  /\ handling \in [ id : Requests, now : BOOLEAN ]
  /\ to_controller \in Seq(ToController) /\ to_host \in Seq(ToHost)
  /\ handled \in BOOLEAN /\ faults \in 0 .. MaxFaults
=============================================================================
