--------------------------- MODULE Session_proofs ---------------------------
(***************************************************************************)
(* Proofs about the serial session, for every set of requests and of host  *)
(* programs, and any number of faults of any kind.                         *)
(***************************************************************************)
EXTENDS Session, TLAPS

Types ==
  /\ host \in {"idle", "ack", "reply"} /\ request \in Requests
  /\ result \in Errors \cup {"SERIAL_OK"}
  /\ controller \in {"loop", "reply", "ack"}
  /\ handling \in [ id : Requests, now : BOOLEAN ]
  /\ controller = "reply" => ReplyTo[handling.id] # "none"
  /\ to_controller \in Seq(ToController) /\ to_host \in Seq(ToHost)
  /\ handled \in BOOLEAN /\ faults \in 0 .. MaxFaults
  /\ program \in Programs /\ phase \in Phases
  /\ partial \in BOOLEAN /\ pinged \in BOOLEAN
  /\ setup \in {"ping", "wait", "delay", "up"} /\ since \subseteq FaultKinds

(* Where the host can be: it waits for answers only once its polling is    *)
(* over, and never with a message half read.                               *)
Places ==
  /\ phase \notin {"checking", "connected"} => host = "idle"
  /\ phase \in {"checking", "connected"} => ~ partial
  /\ phase \in {"check", "checking"} => program = "feArduino"
  /\ phase = "flush" /\ partial => program = "feArduino"
  /\ phase = "opened" => ~ partial /\ ~ pinged
  /\ phase = "polling" /\ partial => to_host # <<>>
  /\ phase = "checking" => request = "ECHO"
  /\ host = "reply" => ReplyWanted[request] # "none"
  /\ faults = 0 => since = {}

OnlyPings(s) == \A i \in 1 .. Len(s) : s[i].id = "PING"
NoAck(s)     == \A i \in 1 .. Len(s) : s[i].id # "ACK"

(* Until the controller has come up nothing but PINGs arrives, so the host *)
(* has had no answer.                                                      *)
Unheard == /\ OnlyPings(to_host) /\ controller = "loop" /\ host # "reply"
           /\ ~ (phase = "checking" /\ host = "idle" /\ result = "SERIAL_OK")
HeardMeansUp ==
  /\ PortOpen => setup = "up" \/ "restart" \in since \/ Unheard
  /\ phase = "connected" /\ program = "feArduino" => setup = "up" \/ "restart" \in since

-----------------------------------------------------------------------------
(* A connection without restarts and late answers.  The ACK of the PING    *)
(* got lost: the controller pings for ever.                                *)
Dead == /\ setup # "up" /\ controller = "loop" /\ host # "reply"
        /\ NoAck(to_controller) /\ OnlyPings(to_host)

(* Or it has come up, or is about to.  What is under way to the controller *)
(* is the ACK it waits for and the present request; what is under way to   *)
(* the host is an ACK and the reply to that request.                       *)
Outward == Len(to_controller)
Inward  == Len(to_host)
Acked   == Outward > 0 /\ to_controller[1].id = "ACK"
Asked   == Outward > 0 /\ to_controller[Outward].id # "ACK"

Serving == \/ setup = "up"
           \/ setup = "wait" /\ controller = "loop" /\ Acked
RequestComes ==
  /\ Outward <= 2
  /\ Outward = 2 => Acked /\ Asked
  /\ Acked => setup = "wait" \/ controller = "ack"
  /\ Asked =>
       /\ host = "ack" /\ to_host = <<>> /\ controller # "reply"
       /\ to_controller[Outward] = Msg(request, TRUE)
Answering ==
  /\ host = "idle" => to_host = <<>> /\ controller # "reply"
  /\ controller = "reply" => handling = Msg(request, TRUE)
  /\ host = "reply" \/ controller = "reply" \/ to_host # <<>> =>
       handled = TRUE /\ to_controller = <<>>
AnswerComes ==
  \A i \in 1 .. Inward :
    \/ to_host[i] = Msg("ACK", TRUE) /\ i = 1 /\ host = "ack"
    \/ /\ to_host[i] = Msg(ReplyTo[request], TRUE) /\ ReplyTo[request] # "none"
       /\ i = Inward /\ controller = "ack"

Alive == Serving /\ RequestComes /\ Answering /\ AnswerComes

SoundLink == Sound =>
  /\ phase \in {"opened", "polling", "flush", "check"} => controller = "loop"
  /\ phase = "opened" =>
       setup # "up" /\ to_controller = <<>> /\ OnlyPings(to_host)
  /\ phase = "polling" =>
       /\ OnlyPings(to_host) /\ Inward + Outward <= 1
       /\ to_host # <<>> => setup = "wait"
       /\ to_controller # <<>> => setup = "wait" /\ to_controller[1].id = "ACK"
  /\ phase \in {"flush", "check", "checking", "connected"} => Dead \/ Alive

(* When moreover nothing was lost, the host gets the answer it waits for.  *)
Lossless == since = {} =>
  /\ phase = "polling" /\ pinged /\ ~ partial =>
       setup = "up" \/ to_controller # <<>>
  /\ phase \in {"flush", "check"} => partial \/ Alive
  /\ phase \in {"checking", "connected"} =>
       /\ Alive
       /\ host = "ack" => Asked \/ to_host # <<>>
       /\ controller = "ack" => Acked \/ to_host # <<>>
       /\ Inward > 0 => to_host[1].id = IF host = "ack" THEN "ACK" ELSE ReplyTo[request]
       /\ (host = "reply" \/ (host = "ack" /\ ~ Asked)) =>
            \/ ReplyTo[request] = "none" \/ controller = "reply"
            \/ Inward = IF host = "ack" THEN 2 ELSE 1
       /\ host # "idle" /\ ~ Asked /\ controller = "ack" =>
            ReplyTo[request] # "none"
       /\ phase = "checking" /\ host = "idle" => result = "SERIAL_OK"

IInv == /\ Types /\ Places /\ HeardMeansUp /\ SoundLink /\ Lossless
        /\ NoFaultNoError /\ FailsForReason

-----------------------------------------------------------------------------
(* The tables of replies, and what is sent and taken off the line.         *)

LEMMA ReplyFacts ==
  /\ \A r \in Requests : /\ r # "ACK"
                        /\ ReplyTo[r] \in Replies \cup {"none"}
                        /\ ReplyWanted[r] = IF r = "GET_AXIS_STATE" THEN "AXIS_STATE"
                                                               ELSE ReplyTo[r]
  /\ ReplyTo["GET_AXIS_STATE"] = "none" /\ ReplyTo["ECHO"] = "ECHOED"
  /\ "ACK" \notin Replies /\ "PING" \notin Replies /\ "none" \notin Replies
  /\ "AXIS_STATE" \notin Replies /\ "AXIS_STATE" # "none"
<1>1. /\ DOMAIN ReplyTo = { "PING", "HOME", "STOP", "CALIBRATE", "GET_AXIS_STATE", "ECHO",
                          "MOVE", "GET_STATUS", "GET_POSITION", "GET_TEMP" }
      /\ \A r \in DOMAIN ReplyTo : ReplyTo[r] \in Replies \cup {"none"}
      /\ ReplyTo = [ r \in DOMAIN ReplyTo |-> ReplyTo[r] ]
  BY DEF ReplyTo, Replies
<1>2. \A r \in DOMAIN ReplyTo :
        ReplyWanted[r] = IF r = "GET_AXIS_STATE" THEN "AXIS_STATE" ELSE ReplyTo[r]
  BY <1>1 DEF ReplyWanted
<1>3. \A r \in DOMAIN ReplyTo : r # "ACK"
  BY <1>1
<1> QED
  BY <1>1, <1>2, <1>3, LinkAssumption DEF ReplyTo, Replies

LEMMA TailFacts ==
  ASSUME NEW T, NEW s \in Seq(T), s # <<>>
  PROVE  /\ Head(s) = s[1] /\ Head(s) \in T /\ Len(s) \in Nat /\ Len(s) > 0
         /\ Tail(s) \in Seq(T) /\ Len(Tail(s)) = Len(s) - 1
         /\ \A i \in 1 .. Len(s) - 1 : Tail(s)[i] = s[i + 1]
OBVIOUS

LEMMA AppendFacts ==
  ASSUME NEW T, NEW s \in Seq(T), NEW e \in T
  PROVE  /\ Append(s, e) \in Seq(T) /\ Len(s) \in Nat
         /\ Len(Append(s, e)) = Len(s) + 1 /\ Append(s, e) # <<>>
         /\ \A i \in 1 .. Len(s) : Append(s, e)[i] = s[i]
         /\ Append(s, e)[Len(s) + 1] = e
OBVIOUS

LEMMA PastFacts ==
  ASSUME NEW I, NEW s \in Seq([ id : I, now : BOOLEAN ])
  PROVE  /\ Past(s) \in Seq([ id : I, now : BOOLEAN ])
         /\ Len(Past(s)) = Len(s) /\ Len(s) \in Nat
         /\ \A i \in 1 .. Len(s) : Past(s)[i].id = s[i].id /\ Past(s)[i].now = FALSE
<1> DEFINE M == [ id : I, now : BOOLEAN ]
<1>0. s \in Seq(M)
  OBVIOUS
<1>2. \A m \in M : /\ [ m EXCEPT !.now = FALSE ] \in M
                   /\ [ m EXCEPT !.now = FALSE ].id = m.id
                   /\ [ m EXCEPT !.now = FALSE ].now = FALSE
  OBVIOUS
<1> HIDE DEF M
<1>1. DOMAIN s = 1 .. Len(s) /\ Len(s) \in Nat /\ \A i \in 1 .. Len(s) : s[i] \in M
  BY ONLY <1>0
<1>3. Past(s) = [ i \in 1 .. Len(s) |-> [ s[i] EXCEPT !.now = FALSE ] ]
  BY <1>1 DEF Past
<1>4. Past(s) \in Seq(M) /\ Len(Past(s)) = Len(s)
  BY <1>1, <1>2, <1>3
<1> QED
  BY <1>1, <1>2, <1>3, <1>4 DEF M

LEMMA EmptyFacts ==
  ASSUME NEW T, NEW s \in Seq(T)
  PROVE  Len(s) \in Nat /\ (s = <<>> <=> Len(s) = 0)
OBVIOUS

LEMMA MsgFacts ==
  /\ \A b \in BOOLEAN : Msg("ACK", b) \in ToHost /\ Msg("ACK", b) \in ToController
  /\ Msg("PING", FALSE) \in ToHost
  /\ \A r \in Requests, b \in BOOLEAN : Msg(r, b) \in ToController
  /\ \A r \in Replies, b \in BOOLEAN : Msg(r, b) \in ToHost
  /\ \A i, b : Msg(i, b).id = i /\ Msg(i, b).now = b
BY DEF Msg, ToHost, ToController

(* A request that is no ACK is one of the requests.                        *)
LEMMA HeadFacts ==
  ASSUME Types
  PROVE  /\ to_controller # <<>> => /\ Head(to_controller).id \in Requests \cup {"ACK"}
                                    /\ Head(to_controller).now \in BOOLEAN
                                    /\ Head(to_controller).id # "ACK" =>
                                         Head(to_controller) \in [ id : Requests, now : BOOLEAN ]
         /\ to_host # <<>> => /\ Head(to_host).id \in Replies \cup {"ACK", "PING"}
                              /\ Head(to_host).now \in BOOLEAN
<1>1. to_controller # <<>> => Head(to_controller) \in ToController
  BY TailFacts DEF Types
<1>2. to_host # <<>> => Head(to_host) \in ToHost
  BY TailFacts DEF Types
<1> QED
  BY <1>1, <1>2 DEF ToController, ToHost

-----------------------------------------------------------------------------
(* Types of every state.                                                   *)
LEMMA TypesInit == Init => Types
<1> SUFFICES ASSUME Init PROVE Types
  OBVIOUS
<1>1. handling = Msg(request, FALSE) /\ request \in Requests
  BY DEF Init, LinkInit
<1>2. handling \in [ id : Requests, now : BOOLEAN ]
  BY <1>1 DEF Msg
<1>3. 0 \in 0 .. MaxFaults
  BY LinkAssumption
<1>4. <<>> \in Seq(ToController) /\ <<>> \in Seq(ToHost)
  OBVIOUS
<1>5. to_controller \in Seq(ToController) /\ to_host \in Seq(ToHost)
  BY <1>4 DEF Init, LinkInit
<1> QED
  BY <1>2, <1>3, <1>5 DEF Init, LinkInit, Types, Phases

LEMMA FaultsType ==
  ASSUME faults \in 0 .. MaxFaults, NEW k, NEW b,
         Fault(k) \/ TimeoutWhile(b)
  PROVE  faults' \in 0 .. MaxFaults
BY LinkAssumption DEF Fault, TimeoutWhile

(* The kinds of fault noted since the port was opened.                     *)
LEMMA SinceType ==
  ASSUME since \subseteq FaultKinds, NEW b, TimeoutWhile(b), faults \in 0 .. MaxFaults,
         since' = IF faults' = faults THEN since ELSE since \cup {"late"}
  PROVE  since' \subseteq FaultKinds
BY DEF Fault, TimeoutWhile

LEMMA TypesStep == Types /\ [Next]_vars => Types'
<1> SUFFICES ASSUME Types, [Next]_vars PROVE Types'
  OBVIOUS
<1> USE DEF Phases, Errors
<1>0. /\ to_controller \in Seq(ToController) /\ to_host \in Seq(ToHost)
      /\ <<>> \in Seq(ToController) /\ <<>> \in Seq(ToHost)
      /\ to_host # <<>> => Tail(to_host) \in Seq(ToHost)
      /\ to_controller # <<>> => Tail(to_controller) \in Seq(ToController)
      /\ \A b \in BOOLEAN : /\ Append(to_controller, Msg("ACK", b)) \in Seq(ToController)
                          /\ Append(to_host, Msg("ACK", b)) \in Seq(ToHost)
      /\ Append(to_host, Msg("PING", FALSE)) \in Seq(ToHost)
  <2>1. to_controller \in Seq(ToController) /\ to_host \in Seq(ToHost)
    BY DEF Types
  <2>2. /\ to_host # <<>> => Tail(to_host) \in Seq(ToHost)
        /\ to_controller # <<>> => Tail(to_controller) \in Seq(ToController)
    BY ONLY <2>1
  <2>3. /\ \A b \in BOOLEAN : Msg("ACK", b) \in ToHost /\ Msg("ACK", b) \in ToController
        /\ Msg("PING", FALSE) \in ToHost
    BY MsgFacts
  <2>4. /\ \A m \in ToHost : Append(to_host, m) \in Seq(ToHost)
        /\ \A m \in ToController : Append(to_controller, m) \in Seq(ToController)
        /\ <<>> \in Seq(ToController) /\ <<>> \in Seq(ToHost)
    BY ONLY <2>1
  <2> QED
    BY ONLY <2>1, <2>2, <2>3, <2>4
<1>1. CASE Flush
  BY <1>0, <1>1 DEF Flush, Types
<1>2. CASE Poll
  <2>1. PICK res : check_for_message(res)
    BY <1>2 DEF Poll
  <2>2. /\ to_host' \in Seq(ToHost) /\ to_controller' \in Seq(ToController)
        /\ partial' \in BOOLEAN /\ pinged' \in BOOLEAN
    BY <1>0, <2>1 DEF check_for_message, HostReads, Types
  <2>3. phase' \in {"flush", "polling"}
    BY <1>2 DEF Poll
  <2> QED
    BY <1>2, <2>2, <2>3 DEF Poll, Types
<1>3. ASSUME NEW r \in Requests, HostSend(r),
             phase' \in Phases, UNCHANGED <<program, partial, pinged, setup, since>>
      PROVE  Types'
  <2>1. Past(to_controller) \in Seq(ToController) /\ Past(to_host) \in Seq(ToHost)
    BY PastFacts DEF Types, ToController, ToHost
  <2>2. to_controller' \in Seq(ToController) /\ to_host' \in Seq(ToHost)
    BY <1>3, <2>1, AppendFacts, MsgFacts DEF HostSend
  <2>3. handling' \in [ id : Requests, now : BOOLEAN ] /\ handling'.id = handling.id
    BY <1>3 DEF HostSend, Types
  <2> QED
    BY <1>3, <2>2, <2>3 DEF HostSend, Types
<1>4. CASE LinkCheck
  BY <1>3, <1>4, SessionAssumption DEF LinkCheck
<1>5. CASE LinkCheckRefused
  BY <1>5 DEF LinkCheckRefused, Types
<1>6. CASE LinkChecked
  BY <1>6 DEF LinkChecked, linkvars, Types
<1>7. CASE Exchange
  <2> USE DEF Exchange, Within, Done, HostReads
  <2>1. CASE HostReadsAck
    BY <1>0, <1>7, <2>1 DEF HostReadsAck, Types
  <2>2. CASE HostReadsReply
    <3>1. to_controller' \in Seq(ToController)
      BY <1>0, <2>2 DEF HostReadsReply
    <3> QED
      BY <1>0, <1>7, <2>2, <3>1 DEF HostReadsReply, Types
  <2>3. CASE HostTimeout
    <3>1. faults' \in 0 .. MaxFaults /\ since' \subseteq FaultKinds
      BY <1>7, <2>3, FaultsType, SinceType DEF HostTimeout, Types
    <3>2. result' \in Errors /\ host' = "idle"
      BY <2>3 DEF HostTimeout
    <3> QED
      BY <1>7, <2>3, <3>1, <3>2 DEF HostTimeout, Types
  <2> QED
    BY <1>7, <2>1, <2>2, <2>3 DEF HostWaits
<1>8. CASE \E r \in Requests : Request(r)
  BY <1>3, <1>8 DEF Request, sessionvars, Types
<1>9. CASE Ping
  <2>1. to_host' \in Seq(ToHost)
    BY <1>0, <1>9 DEF Ping
  <2> QED
    BY <1>9, <2>1 DEF Ping, Types
<1>10. CASE PingAnswered
  BY <1>0, <1>10 DEF PingAnswered, ControllerReads, Types
<1>11. CASE PingTimeout
  <2>1. faults' \in 0 .. MaxFaults /\ since' \subseteq FaultKinds
    BY <1>11, FaultsType, SinceType DEF PingTimeout, Types
  <2> QED
    BY <1>11, <2>1 DEF PingTimeout, Types
<1>12. CASE Delay
  BY <1>12 DEF Delay, linkvars, Types
<1>13. CASE Serve
  <2> USE DEF Serve, Within
  <2>1. CASE ControllerReceives
    <3>1. to_controller # <<>> /\ Head(to_controller).now \in BOOLEAN
      BY <2>1, HeadFacts DEF ControllerReceives, ControllerReads
    <3>2. CASE Head(to_controller).id = "ACK"
      BY <1>0, <1>13, <2>1, <3>2 DEF ControllerReceives, ControllerReads, Types
    <3>3. CASE Head(to_controller).id # "ACK"
      <4>1. /\ to_controller' = Tail(to_controller)
            /\ to_host' = Append(to_host, Msg("ACK", Head(to_controller).now))
            /\ handling' = Head(to_controller)
            /\ handled' = (handled \/ Head(to_controller).now)
            /\ controller' = IF ReplyTo[handling'.id] = "none" THEN "loop" ELSE "reply"
            /\ UNCHANGED <<host, request, result, faults>>
        BY <2>1, <3>3 DEF ControllerReceives, ControllerReads
      <4>2. handling' \in [ id : Requests, now : BOOLEAN ]
        BY <3>1, <3>3, <4>1, HeadFacts
      <4>3. to_host' \in Seq(ToHost)
        BY <1>0, <3>1, <4>1
      <4>4. handled' \in BOOLEAN
        BY <4>1, Zenon
      <4>5. since' = since
        BY <1>13, <4>1
      <4> QED
        BY <1>0, <1>13, <3>1, <4>1, <4>2, <4>3, <4>4, <4>5 DEF Types
    <3> QED
      BY <3>2, <3>3
  <2>2. CASE ControllerReplies
    <3>1. ReplyTo[handling.id] \in Replies /\ handling.now \in BOOLEAN
      BY <2>2, ReplyFacts DEF ControllerReplies, Types
    <3>2. to_host' \in Seq(ToHost)
      BY <1>0, <2>2, <3>1, MsgFacts, AppendFacts DEF ControllerReplies
    <3> QED
      BY <1>13, <2>2, <3>2 DEF ControllerReplies, Types
  <2>3. CASE ControllerReadsAck
    BY <1>0, <1>13, <2>3 DEF ControllerReadsAck, ControllerReads, Types
  <2>4. CASE ControllerTimeout
    <3>1. faults' \in 0 .. MaxFaults /\ since' \subseteq FaultKinds
      BY <1>13, <2>4, FaultsType, SinceType DEF ControllerTimeout, Types
    <3> QED
      BY <1>13, <2>4, <3>1 DEF ControllerTimeout, Types
  <2> QED
    BY <1>13, <2>1, <2>2, <2>3, <2>4 DEF ControllerStep
<1>14. ASSUME NEW p \in Programs, Open(p) PROVE Types'
  BY <1>0, <1>14 DEF Open, Types
<1>15. CASE Disconnect
  BY <1>0, <1>15 DEF Disconnect, Types
<1>16. CASE Restart
  <2>1. faults' \in 0 .. MaxFaults /\ since' \subseteq FaultKinds
    BY <1>16, FaultsType DEF Restart, Fault, Types
  <2> QED
    BY <1>0, <1>16, <2>1 DEF Restart, Types
<1>17. CASE Lose(LoseToController, "lost_to_controller")
  <2>1. faults' \in 0 .. MaxFaults /\ since' \subseteq FaultKinds
    BY <1>17, FaultsType DEF Lose, LoseToController, Fault, Types
  <2> QED
    BY <1>0, <1>17, <2>1 DEF Lose, LoseToController, Types
<1>18. CASE Lose(LoseToHost, "lost_to_host")
  <2>1. faults' \in 0 .. MaxFaults /\ since' \subseteq FaultKinds
    BY <1>18, FaultsType DEF Lose, LoseToHost, Fault, Types
  <2> QED
    BY <1>0, <1>18, <2>1 DEF Lose, LoseToHost, Types
<1>19. CASE UNCHANGED vars
  BY <1>19 DEF vars, linkvars, sessionvars, Types
<1> QED
  BY <1>1, <1>2, <1>4, <1>5, <1>6, <1>7, <1>8, <1>9, <1>10, <1>11, <1>12, <1>13, <1>14,
     <1>15, <1>16, <1>17, <1>18, <1>19
     DEF Next, HostStep, ControllerSide

(* Every reachable state has its type: requests and ACKs travel to the     *)
(* controller, replies, ACKs and PINGs to the host, and the controller     *)
(* handles nothing but requests (execute, send_message, recv_message).     *)
THEOREM TypeCorrect == Spec => []TypeOK
<1>1. Types => TypeOK
  BY DEF Types, TypeOK, LinkTypeOK
<1> QED
  BY <1>1, TypesInit, TypesStep, PTL DEF Spec

-----------------------------------------------------------------------------
(* The steps of Next, one by one.                                          *)
LEMMA Steps ==
  [Next]_vars =>
    \/ Flush \/ Poll \/ LinkCheck \/ LinkCheckRefused \/ LinkChecked
    \/ Within(HostReadsAck) \/ Within(HostReadsReply) \/ Within(HostTimeout)
    \/ (\E r \in Requests : Request(r))
    \/ Ping \/ PingAnswered \/ PingTimeout \/ Delay
    \/ (setup = "up" /\ Within(ControllerReceives))
    \/ (setup = "up" /\ Within(ControllerReplies))
    \/ (setup = "up" /\ Within(ControllerReadsAck))
    \/ (setup = "up" /\ Within(ControllerTimeout))
    \/ (\E p \in Programs : Open(p)) \/ Disconnect \/ Restart
    \/ Lose(LoseToController, "lost_to_controller")
    \/ (~ partial /\ Lose(LoseToHost, "lost_to_host"))
    \/ UNCHANGED vars
BY DEF Next, HostStep, ControllerSide, Exchange, Serve, Within, HostWaits, ControllerStep

(* What check_for_message of the host can do in its polling loop.          *)
LEMMA PollCases ==
  ASSUME Types, Poll
  PROVE  /\ phase = "polling" /\ phase' \in {"polling", "flush"}
         /\ UNCHANGED <<host, request, result, controller, handling, handled, faults,
                        program, setup, since>>
         /\ \/ /\ to_host = <<>> /\ UNCHANGED <<to_host, to_controller, partial, pinged>>
               /\ phase' = "flush" => pinged /\ program = "feArduino"
            \/ /\ to_host # <<>> /\ partial' = TRUE
               /\ pinged' \in {pinged, Head(to_host).id = "PING"}
               /\ UNCHANGED <<to_host, to_controller>>
               /\ phase' = "flush" => program = "feArduino"
            \/ /\ to_host # <<>> /\ to_host' = Tail(to_host)
               /\ Head(to_host).id = "ACK" /\ partial' = FALSE /\ pinged' = FALSE
               /\ phase' = "polling" /\ UNCHANGED to_controller
            \/ /\ to_host # <<>> /\ to_host' = Tail(to_host)
               /\ Head(to_host).id # "ACK" /\ partial' = FALSE
               /\ pinged' = (Head(to_host).id = "PING")
               /\ to_controller' = Append(to_controller, Msg("ACK", FALSE))
               /\ phase' = "flush" => pinged' /\ program # "feArduino"
<1>1. PICK res \in {"SERIAL_OK", "SERIAL_OK_NO_MSG", "SERIAL_ERR_WRONG_MSG"} :
        /\ check_for_message(res)
        /\ phase' = IF LeavesPoll(res, pinged') THEN "flush" ELSE "polling"
  BY DEF Poll
<1>2. /\ phase = "polling"
      /\ UNCHANGED <<host, request, result, controller, handling, handled, faults,
                     program, setup, since>>
  BY DEF Poll
<1>3. phase' = "flush" => LeavesPoll(res, pinged')
  BY <1>1
<1>4. phase' \in {"polling", "flush"}
  BY <1>1
<1>5. CASE to_host = <<>> /\ res = "SERIAL_OK_NO_MSG"
           /\ UNCHANGED <<to_host, to_controller, partial, pinged>>
  BY <1>2, <1>3, <1>4, <1>5 DEF LeavesPoll
<1>6. CASE /\ to_host # <<>> /\ res = "SERIAL_OK_NO_MSG"
           /\ partial' = TRUE /\ pinged' \in {pinged, Head(to_host).id = "PING"}
           /\ UNCHANGED <<to_host, to_controller>>
  BY <1>2, <1>3, <1>4, <1>6 DEF LeavesPoll
<1>7. CASE /\ HostReads /\ partial' = FALSE /\ pinged' = (Head(to_host).id = "PING")
           /\ Head(to_host).id = "ACK" /\ UNCHANGED to_controller
  <2>1. ~ LeavesPoll(res, pinged')
    BY <1>7 DEF LeavesPoll
  <2> QED
    BY <1>1, <1>2, <1>4, <1>7, <2>1 DEF HostReads
<1>8. CASE /\ HostReads /\ partial' = FALSE /\ pinged' = (Head(to_host).id = "PING")
           /\ Head(to_host).id # "ACK" /\ res = "SERIAL_OK"
           /\ to_controller' = Append(to_controller, Msg("ACK", FALSE))
  BY <1>2, <1>3, <1>4, <1>8 DEF HostReads, LeavesPoll
<1> QED
  BY <1>1, <1>5, <1>6, <1>7, <1>8 DEF check_for_message

LEMMA FaultsGrow == Types /\ [Next]_vars => (faults' = 0 => faults' = faults)
<1> SUFFICES ASSUME Types, [Next]_vars PROVE faults' = 0 => faults' = faults
  OBVIOUS
<1>1. faults' = faults \/ faults' = faults + 1
  BY Steps DEF Flush, Poll, LinkCheck, LinkCheckRefused, LinkChecked, Within, HostReadsAck,
     HostReadsReply, HostTimeout, Request, HostSend, Ping, PingAnswered, PingTimeout, Delay,
     ControllerReceives, ControllerReplies, ControllerReadsAck, ControllerTimeout, Open,
     Disconnect, Restart, Lose, LoseToController, LoseToHost, vars, linkvars,
     TimeoutWhile, Fault
<1> QED
  BY <1>1, LinkAssumption DEF Types

LEMMA PlacesStep == Types /\ Places /\ [Next]_vars => Places'
<1> SUFFICES ASSUME Types, Places, [Next]_vars PROVE Places'
  OBVIOUS
<1> USE DEF Places
<1>0. faults' = 0 => faults' = faults
  BY FaultsGrow
<1>1. CASE Flush
  BY <1>1 DEF Flush
<1>2. CASE Poll
  <2>1. /\ phase = "polling" /\ phase' \in {"polling", "flush"}
        /\ UNCHANGED <<host, request, faults, program, since>>
    BY <1>2, PollCases
  <2>2. /\ phase' = "flush" /\ partial' => program = "feArduino"
        /\ partial' => to_host' # <<>>
    <3>1. \/ to_host = <<>> /\ partial' = partial /\ (phase' = "flush" => program = "feArduino")
          \/ to_host # <<>> /\ to_host' = to_host /\ (phase' = "flush" => program = "feArduino")
          \/ partial' = FALSE
      BY <1>2, PollCases
    <3> QED
      BY <2>1, <3>1
  <2> QED
    BY <2>1, <2>2
<1>3. CASE LinkCheck
  BY <1>3 DEF LinkCheck, HostSend
<1>4. CASE LinkCheckRefused
  BY <1>4 DEF LinkCheckRefused
<1>5. CASE LinkChecked
  BY <1>5 DEF LinkChecked, linkvars
<1>6. CASE Within(HostReadsAck)
  BY <1>6 DEF Within, HostReadsAck, Done
<1>7. CASE Within(HostReadsReply)
  BY <1>7 DEF Within, HostReadsReply, Done
<1>8. CASE Within(HostTimeout)
  BY <1>0, <1>8 DEF Within, HostTimeout, Done
<1>9. CASE \E r \in Requests : Request(r)
  BY <1>9 DEF Request, HostSend, sessionvars
<1>10. CASE Ping
  <2>1. to_host # <<>> => to_host' # <<>>
    <3>1. to_host \in Seq(ToHost) /\ Msg("PING", FALSE) \in ToHost
      BY MsgFacts DEF Types
    <3>2. Append(to_host, Msg("PING", FALSE)) # <<>>
      BY ONLY <3>1, AppendFacts
    <3> QED
      BY <1>10, <3>2 DEF Ping
  <2> QED
    BY <1>10, <2>1 DEF Ping
<1>11. CASE PingAnswered
  BY <1>11 DEF PingAnswered
<1>12. CASE PingTimeout
  BY <1>0, <1>12 DEF PingTimeout
<1>13. CASE Delay
  BY <1>13 DEF Delay, linkvars
<1>14. CASE Within(ControllerReceives)
  BY <1>14, HeadFacts, AppendFacts, MsgFacts
     DEF Within, ControllerReceives, ControllerReads, Types
<1>15. CASE Within(ControllerReplies)
  BY <1>15 DEF Within, ControllerReplies
<1>16. CASE Within(ControllerReadsAck)
  BY <1>16 DEF Within, ControllerReadsAck
<1>17. CASE Within(ControllerTimeout)
  BY <1>0, <1>17 DEF Within, ControllerTimeout
<1>18. CASE \E p \in Programs : Open(p)
  BY <1>18 DEF Open, PortOpen
<1>19. CASE Disconnect
  BY <1>19 DEF Disconnect
<1>20. CASE Restart
  BY <1>0, <1>20 DEF Restart, Fault, Types
<1>21. CASE Lose(LoseToController, "lost_to_controller")
  BY <1>0, <1>21 DEF Lose, LoseToController, Fault, Types
<1>22. CASE ~ partial /\ Lose(LoseToHost, "lost_to_host")
  BY <1>0, <1>22 DEF Lose, LoseToHost, Fault, Types
<1>23. CASE UNCHANGED vars
  BY <1>23 DEF vars, linkvars, sessionvars
<1> QED
  BY <1>1, <1>2, <1>3, <1>4, <1>5, <1>6, <1>7, <1>8, <1>9, <1>10, <1>11, <1>12, <1>13, <1>14,
     <1>15, <1>16, <1>17, <1>18, <1>19, <1>20, <1>21, <1>22, <1>23, Steps

-----------------------------------------------------------------------------
(* How the two predicates on the line follow what is put on and taken off. *)
LEMMA PingsKept ==
  /\ OnlyPings(<<>>)
  /\ \A s \in Seq(ToHost) : OnlyPings(s) =>
       /\ OnlyPings(Append(s, Msg("PING", FALSE))) /\ OnlyPings(Past(s))
       /\ s # <<>> => Head(s).id = "PING" /\ OnlyPings(Tail(s))
<1>1. OnlyPings(<<>>)
  BY DEF OnlyPings
<1> SUFFICES ASSUME NEW s \in Seq(ToHost), OnlyPings(s)
             PROVE  /\ OnlyPings(Append(s, Msg("PING", FALSE))) /\ OnlyPings(Past(s))
                    /\ s # <<>> => Head(s).id = "PING" /\ OnlyPings(Tail(s))
  BY <1>1
<1>2. OnlyPings(Append(s, Msg("PING", FALSE)))
  <2>1. Msg("PING", FALSE) \in ToHost /\ Msg("PING", FALSE).id = "PING"
    BY MsgFacts
  <2> DEFINE m == Msg("PING", FALSE)
  <2> HIDE DEF m
  <2>2. /\ Len(Append(s, m)) = Len(s) + 1 /\ Len(s) \in Nat
        /\ \A i \in 1 .. Len(s) : Append(s, m)[i] = s[i]
        /\ Append(s, m)[Len(s) + 1] = m
    BY <2>1, AppendFacts, Zenon DEF m
  <2>3. m.id = "PING"
    BY <2>1 DEF m
  <2>4. OnlyPings(Append(s, m))
    BY ONLY <2>2, <2>3, OnlyPings(s) DEF OnlyPings
  <2> QED
    BY <2>4 DEF m
<1>3. OnlyPings(Past(s))
  <2>1. Len(Past(s)) = Len(s) /\ \A i \in 1 .. Len(s) : Past(s)[i].id = s[i].id
    BY PastFacts DEF ToHost
  <2> QED
    BY ONLY <2>1, OnlyPings(s) DEF OnlyPings
<1>4. ASSUME s # <<>> PROVE Head(s).id = "PING" /\ OnlyPings(Tail(s))
  BY <1>4, TailFacts DEF OnlyPings
<1> QED
  BY <1>2, <1>3, <1>4

LEMMA NoAckKept ==
  /\ NoAck(<<>>)
  /\ \A s \in Seq(ToController) : NoAck(s) =>
       /\ NoAck(Past(s))
       /\ \A r \in Requests, b \in BOOLEAN : NoAck(Append(s, Msg(r, b)))
       /\ s # <<>> => Head(s).id # "ACK" /\ NoAck(Tail(s))
<1>1. NoAck(<<>>)
  BY DEF NoAck
<1> SUFFICES ASSUME NEW s \in Seq(ToController), NoAck(s)
             PROVE  /\ NoAck(Past(s))
                    /\ \A r \in Requests, b \in BOOLEAN : NoAck(Append(s, Msg(r, b)))
                    /\ s # <<>> => Head(s).id # "ACK" /\ NoAck(Tail(s))
  BY <1>1
<1>2. ASSUME NEW r \in Requests, NEW b \in BOOLEAN PROVE NoAck(Append(s, Msg(r, b)))
  BY AppendFacts, MsgFacts, ReplyFacts DEF NoAck
<1>3. NoAck(Past(s))
  BY PastFacts DEF NoAck, ToController
<1>4. ASSUME s # <<>> PROVE Head(s).id # "ACK" /\ NoAck(Tail(s))
  BY <1>4, TailFacts DEF NoAck
<1> QED
  BY <1>2, <1>3, <1>4

(* Nothing but PINGs comes from a controller that has not come up.         *)
LEMMA HeardStep == Types /\ Places /\ HeardMeansUp /\ [Next]_vars => HeardMeansUp'
<1> SUFFICES ASSUME Types, Places, HeardMeansUp, [Next]_vars PROVE HeardMeansUp'
  OBVIOUS
<1> USE DEF HeardMeansUp, Unheard, PortOpen
<1>0. to_host \in Seq(ToHost)
  BY DEF Types
<1>1. CASE Flush
  BY <1>1, PingsKept DEF Flush, Places
<1>2. CASE Poll
  <2>1. /\ phase = "polling" /\ phase' \in {"polling", "flush"}
        /\ UNCHANGED <<host, controller, setup, since>>
        /\ to_host' = to_host \/ (to_host # <<>> /\ to_host' = Tail(to_host))
    BY <1>2, PollCases
  <2> QED
    BY <1>0, <2>1, PingsKept
<1>3. CASE LinkCheck
  BY <1>0, <1>3, PingsKept DEF LinkCheck, HostSend
<1>4. CASE LinkCheckRefused
  BY <1>4 DEF LinkCheckRefused
<1>5. CASE LinkChecked
  BY <1>5 DEF LinkChecked, linkvars
<1>6. CASE Within(HostReadsAck)
  BY <1>0, <1>6, PingsKept DEF Within, HostReadsAck, HostReads, Done
<1>7. CASE Within(HostReadsReply)
  BY <1>0, <1>7, PingsKept DEF Within, HostReadsReply, HostReads, Done
<1>8. CASE Within(HostTimeout)
  BY <1>8 DEF Within, HostTimeout, Done
<1>9. CASE \E r \in Requests : Request(r)
  BY <1>0, <1>9, PingsKept DEF Request, HostSend, sessionvars
<1>10. CASE Ping
  BY <1>0, <1>10, PingsKept DEF Ping
<1>11. CASE PingAnswered
  BY <1>11 DEF PingAnswered
<1>12. CASE PingTimeout
  BY <1>12 DEF PingTimeout
<1>13. CASE Delay
  BY <1>13 DEF Delay, linkvars
<1>14. CASE setup = "up" /\ Within(ControllerReceives)
  BY <1>14 DEF Within
<1>15. CASE setup = "up" /\ Within(ControllerReplies)
  BY <1>15 DEF Within
<1>16. CASE setup = "up" /\ Within(ControllerReadsAck)
  BY <1>16 DEF Within
<1>17. CASE setup = "up" /\ Within(ControllerTimeout)
  BY <1>17 DEF Within
<1>18. CASE \E p \in Programs : Open(p)
  BY <1>18, PingsKept DEF Open, Places
<1>19. CASE Disconnect
  BY <1>19 DEF Disconnect
<1>20. CASE Restart
  BY <1>20 DEF Restart
<1>21. CASE Lose(LoseToController, "lost_to_controller")
  BY <1>21 DEF Lose, LoseToController
<1>22. CASE Lose(LoseToHost, "lost_to_host")
  BY <1>0, <1>22, PingsKept DEF Lose, LoseToHost
<1>23. CASE UNCHANGED vars
  BY <1>23 DEF vars, linkvars, sessionvars
<1> QED
  BY <1>1, <1>2, <1>3, <1>4, <1>5, <1>6, <1>7, <1>8, <1>9, <1>10, <1>11, <1>12, <1>13, <1>14,
     <1>15, <1>16, <1>17, <1>18, <1>19, <1>20, <1>21, <1>22, <1>23, Steps

-----------------------------------------------------------------------------
(* The lines as messages are put on and taken off.                         *)
LEMMA LineFacts ==
  ASSUME Types
  PROVE  /\ Outward \in Nat /\ (to_controller = <<>> <=> Outward = 0)
         /\ Inward \in Nat /\ (to_host = <<>> <=> Inward = 0)
         /\ to_controller # <<>> => Head(to_controller) = to_controller[1]
         /\ to_host # <<>> => Head(to_host) = to_host[1]
<1>1. to_controller \in Seq(ToController) /\ to_host \in Seq(ToHost)
  BY DEF Types
<1> QED
  BY <1>1, EmptyFacts, TailFacts DEF Outward, Inward

LEMMA TakeOut ==
  ASSUME Types, to_controller # <<>>, to_controller' = Tail(to_controller)
  PROVE  Outward' = Outward - 1
         /\ \A i \in 1 .. Outward - 1 : to_controller'[i] = to_controller[i + 1]
<1>1. to_controller \in Seq(ToController)
  BY DEF Types
<1> QED
  BY <1>1, TailFacts DEF Outward

LEMMA TakeIn ==
  ASSUME Types, to_host # <<>>, to_host' = Tail(to_host)
  PROVE  Inward' = Inward - 1
         /\ \A i \in 1 .. Inward - 1 : to_host'[i] = to_host[i + 1]
<1>1. to_host \in Seq(ToHost)
  BY DEF Types
<1> QED
  BY <1>1, TailFacts DEF Inward

LEMMA PutOut ==
  ASSUME NEW s \in Seq(ToController), NEW m \in ToController, to_controller' = Append(s, m)
  PROVE  /\ Outward' = Len(s) + 1 /\ to_controller'[Len(s) + 1] = m
         /\ \A i \in 1 .. Len(s) : to_controller'[i] = s[i]
BY AppendFacts, Zenon DEF Outward

LEMMA PutIn ==
  ASSUME Types, NEW m \in ToHost, to_host' = Append(to_host, m)
  PROVE  /\ Inward' = Inward + 1 /\ to_host'[Inward + 1] = m
         /\ \A i \in 1 .. Inward : to_host'[i] = to_host[i]
<1>1. to_host \in Seq(ToHost)
  BY DEF Types
<1> QED
  BY <1>1, AppendFacts, Zenon DEF Inward

LEMMA AliveKept ==
  ASSUME Alive, UNCHANGED <<to_controller, to_host, setup, controller, host, request, handling,
                            handled>>
  PROVE  Alive'
BY DEF Alive, Serving, RequestComes, Answering, AnswerComes, Acked, Asked, Outward, Inward

LEMMA NoneAsked ==
  ASSUME Outward' \in {0, 1}, ~ Asked', Acked' => setup' = "wait" \/ controller' = "ack"
  PROVE  RequestComes'
<1>1. Outward' <= 2 /\ Outward' # 2
  BY ONLY Outward' \in {0, 1}
<1> QED
  BY <1>1, Zenon DEF RequestComes

LEMMA NoneComes == Inward' = 0 => AnswerComes'
BY DEF AnswerComes

(* With nothing under way, a served connection whose controller is not     *)
(* about to reply is alive.                                                *)
LEMMA AliveEmpty ==
  ASSUME Outward' = 0, Inward' = 0, to_controller' = <<>>, to_host' = <<>>,
         setup' = "up", controller' # "reply", host' = "reply" => handled' = TRUE
  PROVE  Alive'
<1>1. ~ Acked' /\ ~ Asked'
  BY DEF Acked, Asked
<1>2. Serving'
  BY Zenon DEF Serving
<1>3. RequestComes'
  BY <1>1, NoneAsked
<1>4. Answering'
  BY DEF Answering
<1>5. AnswerComes'
  BY DEF AnswerComes
<1> QED
  BY <1>2, <1>3, <1>4, <1>5, Zenon DEF Alive

(* Once the answer is on its way nothing is under way to the controller.   *)
LEMMA AliveBusy ==
  ASSUME Types, Alive, host = "reply" \/ controller = "reply" \/ to_host # <<>>
  PROVE  /\ handled = TRUE /\ to_controller = <<>> /\ Outward = 0
         /\ ~ Acked /\ ~ Asked /\ setup = "up"
<1>1. handled = TRUE /\ to_controller = <<>>
  BY DEF Alive, Answering
<1>2. Outward = 0
  BY <1>1, LineFacts
<1>3. ~ Acked /\ ~ Asked
  BY <1>2 DEF Acked, Asked
<1> QED
  BY <1>1, <1>2, <1>3, Zenon DEF Alive, Serving

(* What the host reads next is an ACK or the reply to its request.         *)
LEMMA AliveHead ==
  ASSUME Types, Alive, to_host # <<>>
  PROVE  /\ Inward > 0 /\ Head(to_host) = to_host[1] /\ Head(to_host).now = TRUE
         /\ \/ Head(to_host).id = "ACK" /\ host = "ack"
            \/ /\ Head(to_host).id = ReplyTo[request] /\ ReplyTo[request] # "none"
               /\ Inward = 1 /\ controller = "ack"
<1>1. Inward \in Nat /\ Inward > 0 /\ Head(to_host) = to_host[1]
  BY LineFacts
<1>2. 1 \in 1 .. Inward
  BY ONLY <1>1
<1>3. \/ to_host[1] = Msg("ACK", TRUE) /\ host = "ack"
      \/ /\ to_host[1] = Msg(ReplyTo[request], TRUE) /\ ReplyTo[request] # "none"
         /\ 1 = Inward /\ controller = "ack"
  BY <1>2, Zenon DEF Alive, AnswerComes
<1>4. /\ Msg("ACK", TRUE).id = "ACK" /\ Msg("ACK", TRUE).now = TRUE
      /\ Msg(ReplyTo[request], TRUE).id = ReplyTo[request]
      /\ Msg(ReplyTo[request], TRUE).now = TRUE
  BY MsgFacts, Zenon
<1>5. Head(to_host).now = TRUE
  BY <1>1, <1>3, <1>4, Zenon
<1>6. \/ Head(to_host).id = "ACK" /\ host = "ack"
      \/ /\ Head(to_host).id = ReplyTo[request] /\ ReplyTo[request] # "none"
         /\ Inward = 1 /\ controller = "ack"
  BY ONLY <1>1, <1>3, <1>4
<1> QED
  BY <1>1, <1>5, <1>6, Zenon

(* Every reply has an id of its own.                                       *)
LEMMA PresentReply ==
  ASSUME Types
  PROVE  /\ ReplyTo[request] # "none" => ReplyTo[request] # "ACK" /\ ReplyTo[request] # "PING"
         /\ ReplyWanted[request] = "none" => ReplyTo[request] = "none"
         /\ ReplyTo[request] # "none" => ReplyWanted[request] = ReplyTo[request]
         /\ ReplyTo[request] = "none" /\ ReplyWanted[request] # "none" =>
              request = "GET_AXIS_STATE"
         /\ request = "ECHO" => ReplyTo[request] = "ECHOED" /\ ReplyTo[request] # "none"
         /\ request \in Requests
<1>1. request \in Requests
  BY DEF Types
<1>2. /\ ReplyTo[request] \in Replies \cup {"none"}
      /\ ReplyWanted[request] = IF request = "GET_AXIS_STATE" THEN "AXIS_STATE"
                                                             ELSE ReplyTo[request]
      /\ ReplyTo["GET_AXIS_STATE"] = "none" /\ ReplyTo["ECHO"] = "ECHOED"
      /\ "ACK" \notin Replies /\ "PING" \notin Replies /\ "AXIS_STATE" # "none"
  BY <1>1, ReplyFacts
<1> QED
  BY <1>1, <1>2

(* A timeout is late, and noted, when what it waited for was coming.       *)
LEMMA TimeoutCases ==
  ASSUME Types, NEW b, TimeoutWhile(b),
         since' = IF faults' = faults THEN since ELSE since \cup {"late"}
  PROVE  \/ b /\ faults' = faults + 1 /\ "late" \in since' /\ ~ Sound' /\ since' # {}
         \/ ~ b /\ faults' = faults /\ since' = since /\ Sound' = Sound
<1>1. CASE b
  <2>1. faults' = faults + 1 /\ faults' # faults
    BY <1>1 DEF TimeoutWhile, Fault, Types
  <2> QED
    BY <1>1, <2>1 DEF Sound
<1>2. CASE ~ b
  BY <1>2 DEF TimeoutWhile, Sound
<1> QED
  BY <1>1, <1>2

(* The ACK the controller waits for is taken, or the request is.           *)
LEMMA AliveTakeOut ==
  ASSUME Types, Types', Alive, to_controller # <<>>, to_controller' = Tail(to_controller)
  PROVE  /\ Outward' = Outward - 1 /\ Outward' \in {0, 1} /\ ~ Acked'
         /\ Head(to_controller).id = "ACK" <=> Acked
         /\ Acked => /\ Asked' <=> Asked
                     /\ Asked' => to_controller'[Outward'] = Msg(request, TRUE)
         /\ ~ Acked => /\ Asked /\ Head(to_controller) = Msg(request, TRUE)
                       /\ Outward' = 0 /\ to_controller' = <<>> /\ ~ Asked'
<1>1. /\ Outward \in Nat /\ Outward > 0
      /\ Head(to_controller) = to_controller[1]
  BY LineFacts
<1>2. Outward' = Outward - 1 /\ \A i \in 1 .. Outward - 1 : to_controller'[i] = to_controller[i + 1]
  BY TakeOut
<1>3. Outward = 1 \/ (Outward = 2 /\ Acked /\ Asked)
  BY <1>1 DEF Alive, RequestComes
<1>4. Head(to_controller).id = "ACK" <=> Acked
  BY <1>1 DEF Acked
<1>5. CASE Outward = 1
  <2>1. Outward' = 0
    BY ONLY <1>2, <1>5
  <2>2. to_controller' = <<>> /\ ~ Acked' /\ ~ Asked'
    <3>1. to_controller' = <<>>
      BY <2>1, EmptyFacts DEF Types, Outward
    <3>2. ~ (Outward' > 0)
      BY ONLY <2>1
    <3> QED
      BY <3>1, <3>2, Zenon DEF Acked, Asked
  <2>3. Asked <=> ~ Acked
    BY ONLY <1>1, <1>5 DEF Acked, Asked
  <2>4. Asked => to_controller[1] = Msg(request, TRUE)
    BY ONLY <1>5, Alive DEF Alive, RequestComes
  <2> QED
    BY <1>1, <1>2, <1>4, <1>5, <2>1, <2>2, <2>3, <2>4, Zenon
<1>6. CASE Outward = 2 /\ Acked /\ Asked
  <2>1. Outward' = 1 /\ 1 \in 1 .. Outward - 1 /\ 1 + 1 = Outward
    BY ONLY <1>2, <1>6
  <2>2. to_controller'[1] = to_controller[Outward]
    BY <1>2, <2>1, Zenon
  <2>3. to_controller[Outward] = Msg(request, TRUE) /\ to_controller[Outward].id # "ACK"
    BY <1>6, Zenon DEF Alive, RequestComes, Asked
  <2>4. Outward' > 0
    BY ONLY <2>1
  <2>5. ~ Acked' /\ Asked' /\ to_controller'[Outward'] = Msg(request, TRUE)
    BY <2>1, <2>2, <2>3, <2>4, Zenon DEF Acked, Asked
  <2> QED
    BY <1>2, <1>4, <1>6, <2>1, <2>5, Zenon
<1> QED
  BY <1>3, <1>5, <1>6

LEMMA LinkStep ==
  ASSUME IInv, Types', [Next]_vars
  PROVE  SoundLink' /\ Lossless'
<1> USE DEF IInv
<1>c. to_controller \in Seq(ToController) /\ to_host \in Seq(ToHost)
  BY DEF Types
<1>0. /\ Outward \in Nat /\ (to_controller = <<>> <=> Outward = 0)
      /\ Inward \in Nat /\ (to_host = <<>> <=> Inward = 0)
      /\ to_controller # <<>> => Head(to_controller) = to_controller[1]
      /\ to_host # <<>> => Head(to_host) = to_host[1]
  BY LineFacts
<1>e. /\ Outward' \in Nat /\ (to_controller' = <<>> <=> Outward' = 0)
      /\ Inward' \in Nat /\ (to_host' = <<>> <=> Inward' = 0)
  <2>1. to_controller' \in Seq(ToController) /\ to_host' \in Seq(ToHost)
    BY DEF Types
  <2> QED
    BY <2>1, EmptyFacts DEF Outward, Inward
<1>u. /\ to_controller' = to_controller => Outward' = Outward
      /\ to_host' = to_host => Inward' = Inward
  BY DEF Outward, Inward
<1>p. OnlyPings(to_host) =>
        /\ OnlyPings(Append(to_host, Msg("PING", FALSE))) /\ OnlyPings(Past(to_host))
        /\ to_host # <<>> => Head(to_host).id = "PING" /\ OnlyPings(Tail(to_host))
  BY <1>c, PingsKept
<1>n. NoAck(to_controller) =>
        /\ NoAck(Past(to_controller))
        /\ to_controller # <<>> => Head(to_controller).id # "ACK" /\ NoAck(Tail(to_controller))
  BY <1>c, NoAckKept
<1>m. to_controller = <<>> => NoAck(to_controller)
  BY NoAckKept
<1>f. since = {} => Sound
  BY DEF Sound
(* Steps that put nothing on the line and take nothing off.                *)
<1>s. ASSUME UNCHANGED <<to_controller, to_host>>
      PROVE  /\ Outward' = Outward /\ Inward' = Inward /\ Acked' = Acked /\ Asked' = Asked
             /\ UNCHANGED <<setup, host, controller>> => Dead' = Dead
  BY <1>s DEF Outward, Inward, Acked, Asked, Dead
<1>1. CASE Flush
  <2>1. host = "idle" /\ to_host' = <<>> /\ OnlyPings(to_host') /\ Inward' = 0
    BY <1>1, <1>e, PingsKept DEF Flush, Places
  <2>2. Dead => Dead'
    BY <1>1, <2>1 DEF Flush, Dead
  <2>3. Alive => to_host = <<>>
    BY <2>1 DEF Alive, Answering
  <2>4. Alive => Alive'
    BY <1>1, <2>1, <2>3, AliveKept DEF Flush
  <2>5. SoundLink'
    BY <1>0, <1>1, <1>u, <2>1, <2>2, <2>4 DEF Flush, SoundLink, Sound
  <2>6. Lossless'
    BY <1>0, <1>f, <1>1, <2>1, <2>4 DEF Flush, Lossless, SoundLink, Places
  <2> QED
    BY <2>5, <2>6
<1>2. CASE Poll
  <2>1. /\ phase = "polling" /\ phase' \in {"polling", "flush"} /\ host = "idle" /\ host' = "idle"
        /\ UNCHANGED <<request, result, controller, handling, handled, faults,
                       program, setup, since>>
    BY <1>2, PollCases DEF Places
  <2>s. Sound' = Sound
    BY <2>1 DEF Sound
  <2>2. ASSUME Sound
        PROVE  /\ controller = "loop" /\ OnlyPings(to_host) /\ Inward + Outward <= 1
               /\ to_host # <<>> => setup = "wait"
               /\ to_controller # <<>> => setup = "wait" /\ to_controller[1].id = "ACK"
    BY <2>1, <2>2 DEF SoundLink
  <2>3. ASSUME Sound, Inward' = 0, to_host' = <<>>, Outward' = 1, setup' = "wait",
               to_controller'[1].id = "ACK"
        PROVE  Alive'
    <3>1. controller' = "loop" /\ Acked' /\ ~ Asked'
      BY <2>1, <2>2, <2>3 DEF Acked, Asked
    <3>2. Serving'
      BY <2>3, <3>1, Zenon DEF Serving
    <3>3. RequestComes'
      BY <2>3, <3>1, NoneAsked
    <3>4. Answering' /\ AnswerComes'
      BY <2>1, <2>3, <3>1 DEF Answering, AnswerComes
    <3> QED
      BY <3>2, <3>3, <3>4 DEF Alive
  <2>4. CASE /\ to_host = <<>> /\ UNCHANGED <<to_host, to_controller, partial, pinged>>
             /\ phase' = "flush" => pinged /\ program = "feArduino"
    <3>1. ASSUME Sound, to_controller # <<>> PROVE Alive'
      BY <1>0, <1>s, <2>1, <2>2, <2>3, <2>4, <3>1
    <3>2. ASSUME Sound, to_controller = <<>>, setup = "up" PROVE Alive'
      BY <1>0, <1>s, <2>1, <2>2, <2>4, <3>2, AliveEmpty
    <3>3. ASSUME Sound, to_controller = <<>>, setup # "up" PROVE Dead'
      BY <1>m, <2>1, <2>2, <2>4, <3>3 DEF Dead
    <3>4. SoundLink'
      BY <1>s, <2>1, <2>s, <2>2, <2>4, <3>1, <3>2, <3>3 DEF SoundLink
    <3>5. Lossless'
      BY <1>f, <2>1, <2>4, <3>1, <3>2 DEF Lossless
    <3> QED
      BY <3>4, <3>5
  <2>5. CASE /\ to_host # <<>> /\ partial' = TRUE /\ UNCHANGED <<to_host, to_controller>>
    <3>1. ASSUME Sound PROVE to_controller = <<>> /\ setup = "wait"
      BY <1>0, <2>2, <2>5, <3>1
    <3>2. Sound => Dead'
      BY <1>m, <2>1, <2>2, <2>5, <3>1 DEF Dead
    <3>3. SoundLink'
      BY <1>s, <2>1, <2>s, <2>2, <2>5, <3>2 DEF SoundLink
    <3>4. Lossless'
      BY <2>1, <2>5 DEF Lossless
    <3> QED
      BY <3>3, <3>4
  <2>6. CASE to_host # <<>> /\ Head(to_host).id = "ACK"
    <3>1. ~ Sound
      BY <1>p, <2>2, <2>6
    <3> QED
      BY <1>f, <2>1, <2>s, <3>1 DEF SoundLink, Lossless
  <2>7. CASE /\ to_host # <<>> /\ to_host' = Tail(to_host) /\ partial' = FALSE
             /\ to_controller' = Append(to_controller, Msg("ACK", FALSE))
    <3> SUFFICES ASSUME Sound PROVE SoundLink' /\ Lossless'
      BY <1>f, <2>1, <2>s DEF SoundLink, Lossless
    <3>1. Inward = 1 /\ Outward = 0 /\ setup = "wait"
      BY <1>0, <2>2, <2>7
    <3>2. Inward' = 0 /\ OnlyPings(to_host')
      BY <1>p, <2>2, <2>7, <3>1, TakeIn
    <3>3. Outward' = 1 /\ to_controller'[1].id = "ACK"
      <4>1. Msg("ACK", FALSE) \in ToController /\ Msg("ACK", FALSE).id = "ACK"
        BY MsgFacts
      <4>2. Outward' = Len(to_controller) + 1
            /\ to_controller'[Len(to_controller) + 1].id = "ACK"
        BY <1>c, <2>7, <4>1, PutOut, Zenon
      <4>3. Outward' = Outward + 1 /\ to_controller'[Outward + 1].id = "ACK"
        BY <4>2 DEF Outward
      <4> QED
        BY <3>1, <4>3
    <3>4. to_host' = <<>> /\ to_controller' # <<>>
      BY <1>e, <3>2, <3>3
    <3>5. Alive'
      BY <2>1, <2>3, <3>1, <3>2, <3>3, <3>4
    <3>6. SoundLink'
      BY <2>1, <2>2, <3>1, <3>2, <3>3, <3>4, <3>5 DEF SoundLink
    <3>7. Lossless'
      BY <2>1, <3>4, <3>5 DEF Lossless
    <3> QED
      BY <3>6, <3>7
  <2> QED
    BY <1>2, <2>4, <2>5, <2>6, <2>7, PollCases
<1>3. ASSUME NEW r \in Requests, HostSend(r), phase \in {"check", "connected"},
             phase' \in {"checking", "connected"}, phase = "check" => ~ partial,
             UNCHANGED <<program, partial, pinged, setup, since>>
      PROVE  SoundLink' /\ Lossless'
  <2>1. /\ host = "idle" /\ host' = "ack" /\ request' = r /\ controller' = controller
        /\ to_host' = Past(to_host)
        /\ to_controller' = Append(Past(to_controller), Msg(r, TRUE))
        /\ Sound' = Sound
    BY <1>3 DEF HostSend, Sound
  <2>2. /\ Outward' = Outward + 1 /\ to_controller'[Outward + 1] = Msg(r, TRUE)
        /\ \A i \in 1 .. Outward : to_controller'[i].id = to_controller[i].id
    <3> DEFINE p == Past(to_controller)
    <3>1. /\ p \in Seq(ToController) /\ Len(p) = Outward
          /\ \A i \in 1 .. Outward : p[i].id = to_controller[i].id
      BY <1>c, PastFacts DEF Outward, ToController
    <3>2. Msg(r, TRUE) \in ToController
      BY MsgFacts
    <3>3. to_controller' = Append(p, Msg(r, TRUE))
      BY <2>1
    <3> HIDE DEF p
    <3>4. /\ Outward' = Len(p) + 1 /\ to_controller'[Len(p) + 1] = Msg(r, TRUE)
          /\ \A i \in 1 .. Len(p) : to_controller'[i] = p[i]
      BY <3>1, <3>2, <3>3, PutOut, Zenon
    <3>5. /\ Outward' = Outward + 1 /\ to_controller'[Outward + 1] = Msg(r, TRUE)
          /\ \A i \in 1 .. Outward : to_controller'[i] = p[i]
      BY ONLY <3>1, <3>4, Zenon
    <3> QED
      BY ONLY <3>1, <3>5
  <2>3. Msg(r, TRUE).id # "ACK" /\ Msg(r, TRUE).id = r
    <3>1. Msg(r, TRUE).id = r
      BY ONLY MsgFacts, Zenon
    <3>2. r # "ACK"
      BY ONLY ReplyFacts, r \in Requests, Zenon
    <3> QED
      BY ONLY <3>1, <3>2, Zenon
  <2>4. Asked' /\ to_controller'[Outward'] = Msg(request', TRUE) /\ to_controller' # <<>>
    <3>1. Outward' > 0 /\ to_controller'[Outward'] = Msg(r, TRUE)
      BY ONLY <1>0, <2>2
    <3>2. to_controller' # <<>>
      BY ONLY <1>e, <3>1
    <3> QED
      BY <2>1, <2>3, <3>1, <3>2, Zenon DEF Asked
  <2>5. Acked' <=> Acked
    <3>1. CASE Outward = 0
      <4>1. ~ Acked
        BY ONLY <3>1 DEF Acked
      <4>2. Outward + 1 = 1
        BY ONLY <3>1
      <4>3. to_controller'[1].id # "ACK"
        BY <2>2, <2>3, <4>2, Zenon
      <4> QED
        BY <4>1, <4>3, Zenon DEF Acked
    <3>2. CASE Outward # 0
      <4>1. Outward > 0 /\ Outward' > 0 /\ 1 \in 1 .. Outward
        BY ONLY <1>0, <2>2, <3>2
      <4> QED
        BY <2>2, <4>1, Zenon DEF Acked
    <3> QED
      BY <3>1, <3>2
  <2>6. Dead => Dead'
    BY <1>c, <1>3, <1>p, <1>n, <2>1, NoAckKept, PastFacts, Zenon DEF Dead, ToController
  <2>7. ASSUME Alive PROVE Alive' /\ to_host = <<>> /\ to_host' = <<>> /\ Inward' = 0
    <3>1. to_host = <<>> /\ controller # "reply" /\ ~ Asked
      BY <2>1, <2>7 DEF Alive, Answering, RequestComes
    <3>2. Outward \in {0, 1}
      BY ONLY <1>0, <2>7, <3>1 DEF Alive, RequestComes
    <3>3. to_host' = <<>> /\ Inward' = 0
      <4>1. Inward' = Inward
        BY <1>c, <2>1, PastFacts DEF Inward, ToHost
      <4> QED
        BY <1>0, <1>e, <3>1, <4>1
    <3>4. Serving'
      BY <1>3, <2>1, <2>5, <2>7, Zenon DEF Alive, Serving
    <3>5. RequestComes'
      <4>1. Outward' <= 2 /\ (Outward' = 2 => Outward = 1)
        BY ONLY <2>2, <3>2
      <4>2. Outward = 1 => Acked
        BY <3>1 DEF Acked, Asked
      <4>3. Acked' => setup' = "wait" \/ controller' = "ack"
        BY <1>3, <2>1, <2>5, <2>7, Zenon DEF Alive, RequestComes
      <4> QED
        BY <2>1, <2>4, <2>5, <3>1, <3>3, <4>1, <4>2, <4>3, Zenon DEF RequestComes
    <3>6. Answering'
      BY <2>1, <3>1, <3>3, Zenon DEF Answering
    <3>7. AnswerComes'
      BY <3>3, NoneComes
    <3> QED
      BY <3>1, <3>3, <3>4, <3>5, <3>6, <3>7, Zenon DEF Alive
  <2>8. SoundLink'
    BY <1>3, <2>1, <2>6, <2>7, Zenon DEF SoundLink
  <2>9. Lossless'
    <3> SUFFICES ASSUME since = {} PROVE Lossless'
      BY <1>3 DEF Lossless
    <3>1. Alive /\ (controller = "ack" => Acked)
      BY <1>3, <1>f, <2>7 DEF Lossless, SoundLink
    <3>2. ~ (Inward' > 0)
      BY <2>7, <3>1
    <3> QED
      BY <1>3, <2>1, <2>4, <2>5, <2>7, <3>1, <3>2, Zenon DEF Lossless
  <2> QED
    BY <2>8, <2>9
<1>4. CASE LinkCheck
  BY <1>3, <1>4, SessionAssumption, Zenon DEF LinkCheck
<1>5. CASE LinkCheckRefused
  BY <1>5 DEF LinkCheckRefused, SoundLink, Lossless
<1>6. CASE LinkChecked
  <2>1. /\ phase = "checking" /\ host = "idle" /\ phase' \in {"connected", "failed"}
        /\ UNCHANGED <<linkvars, program, partial, pinged, setup, since>>
    BY <1>6 DEF LinkChecked
  <2>2. Sound' = Sound /\ (Dead => Dead') /\ (Alive => Alive') /\ Acked' = Acked
        /\ Asked' = Asked /\ Inward' = Inward
    BY <2>1, <1>s, AliveKept DEF Sound, linkvars
  <2>3. SoundLink'
    BY <2>1, <2>2, Zenon DEF SoundLink
  <2>4. Lossless'
    BY <2>1, <2>2, Zenon DEF Lossless, linkvars
  <2> QED
    BY <2>3, <2>4
<1>7. CASE Within(HostReadsAck)
  <2>1. /\ host = "ack" /\ to_host # <<>> /\ to_host' = Tail(to_host)
        /\ UNCHANGED <<request, controller, handling, to_controller, handled, faults, phase,
                       partial, pinged, setup, since>>
    BY <1>7 DEF Within, HostReadsAck, HostReads
  <2>2. phase \in {"checking", "connected"} /\ Sound' = Sound
    BY <2>1 DEF Places, Sound
  <2>3. /\ Head(to_host).id # "ACK" => host' = "idle"
        /\ Head(to_host).id = "ACK" =>
             IF ReplyWanted[request] = "none" THEN host' = "idle" ELSE host' = "reply"
    BY <1>7 DEF Within, HostReadsAck, Done
  <2>4. Inward' = Inward - 1 /\ \A i \in 1 .. Inward - 1 : to_host'[i] = to_host[i + 1]
    BY <2>1, TakeIn
  <2>5. Dead => Dead'
    BY <1>p, <2>1, <2>3 DEF Dead
  <2>6. ASSUME Alive PROVE Alive'
    <3>1. /\ handled = TRUE /\ to_controller = <<>> /\ Outward = 0 /\ ~ Acked /\ ~ Asked
          /\ setup = "up"
      BY <2>1, <2>6, AliveBusy
    <3>2. Outward' = 0 /\ to_controller' = <<>> /\ setup' = "up" /\ handled' = TRUE
      BY <1>u, <2>1, <3>1
    <3>3. /\ Inward > 0
          /\ \/ Head(to_host).id = "ACK" /\ host = "ack"
             \/ /\ Head(to_host).id = ReplyTo[request] /\ ReplyTo[request] # "none"
                /\ Inward = 1 /\ controller = "ack"
      BY <2>1, <2>6, AliveHead, Zenon
    <3>4. ASSUME Inward = 1, controller # "reply" PROVE Alive'
      <4>1. Inward' = 0 /\ to_host' = <<>>
        BY <1>e, <2>4, <3>4
      <4> QED
        BY <2>1, <3>2, <3>4, <4>1, AliveEmpty
    <3>5. ASSUME Head(to_host).id = "ACK", ReplyWanted[request] = "none" PROVE Alive'
      <4>1. ReplyTo[request] = "none"
        BY <3>5, PresentReply
      <4>2. \A i \in 1 .. Inward : i = 1
        BY <2>6, <4>1, Zenon DEF Alive, AnswerComes
      <4>3. Inward = 1
        BY ONLY <1>0, <3>3, <4>2
      <4>4. Msg(request, TRUE).id = request
        BY MsgFacts
      <4>5. controller # "reply"
        BY <2>6, <4>1, <4>4, Zenon DEF Alive, Answering, Types
      <4> QED
        BY <3>4, <4>3, <4>5
    <3>6. ASSUME Head(to_host).id = "ACK", ReplyWanted[request] # "none" PROVE Alive'
      <4>1. host' = "reply"
        BY <2>3, <3>6
      <4>2. Serving'
        BY <3>2, Zenon DEF Serving
      <4>3. RequestComes'
        <5>1. ~ Acked' /\ ~ Asked'
          BY <3>2 DEF Acked, Asked
        <5> QED
          BY <3>2, <5>1, NoneAsked
      <4>4. Answering'
        BY <2>1, <2>6, <3>2, <4>1, Zenon DEF Alive, Answering
      <4>5. AnswerComes'
        <5> SUFFICES ASSUME NEW i \in 1 .. Inward'
                     PROVE  /\ to_host'[i] = Msg(ReplyTo[request], TRUE)
                            /\ ReplyTo[request] # "none"
                            /\ i = Inward' /\ controller = "ack"
          BY <2>1, Zenon DEF AnswerComes
        <5>1. i \in 1 .. Inward - 1 /\ i + 1 \in 1 .. Inward /\ i + 1 # 1
              /\ (i + 1 = Inward => i = Inward')
          BY ONLY <1>0, <2>4, i \in 1 .. Inward'
        <5>2. to_host'[i] = to_host[i + 1]
          BY <2>4, <5>1
        <5> QED
          BY <2>6, <5>1, <5>2, Zenon DEF Alive, AnswerComes
      <4> QED
        BY <4>2, <4>3, <4>4, <4>5, Zenon DEF Alive
    <3>7. ASSUME Head(to_host).id # "ACK" PROVE Alive'
      BY <3>3, <3>4, <3>7
    <3> QED
      BY <3>5, <3>6, <3>7
  <2>7. SoundLink'
    BY <2>1, <2>2, <2>5, <2>6, Zenon DEF SoundLink
  <2>8. Lossless'
    <3> SUFFICES ASSUME since = {} PROVE Lossless'
      BY <2>1 DEF Lossless
    <3>1. Alive /\ Alive' /\ host' # "ack"
      BY <2>2, <2>3, <2>6 DEF Lossless
    <3>2. Head(to_host).id = "ACK" /\ Inward > 0
      BY <1>0, <2>1, <2>2 DEF Lossless
    <3>3. /\ handled = TRUE /\ to_controller = <<>> /\ Outward = 0 /\ ~ Acked /\ ~ Asked
      BY <2>1, <3>1, AliveBusy
    <3>4. ReplyTo[request] = "none" \/ controller = "reply" \/ Inward' = 1
      BY <2>1, <2>2, <2>4, <3>3 DEF Lossless
    <3>5. controller = "ack" => ReplyTo[request] # "none" /\ to_host' # <<>>
      <4>1. controller = "ack" => ReplyTo[request] # "none"
        BY <2>1, <2>2, <3>3 DEF Lossless
      <4> QED
        BY <1>e, <3>4, <4>1
    <3>6. Inward' > 0 => to_host'[1].id = ReplyTo[request]
      <4> SUFFICES ASSUME Inward' > 0 PROVE to_host'[1].id = ReplyTo[request]
        OBVIOUS
      <4>1. 1 \in 1 .. Inward'
        BY ONLY <1>e, Inward' > 0
      <4>2. to_host'[1] = Msg(ReplyTo[request], TRUE)
        BY <2>1, <3>1, <4>1, Zenon DEF Alive, AnswerComes
      <4> QED
        BY <4>2, MsgFacts, Zenon
    <3>7. ~ (phase' = "checking" /\ host' = "idle")
      <4>1. request = "ECHO" => ReplyWanted[request] # "none"
        BY PresentReply
      <4> QED
        BY <2>1, <2>3, <3>2, <4>1 DEF Places
    <3> QED
      BY <2>1, <2>2, <3>1, <3>3, <3>4, <3>5, <3>6, <3>7, Zenon DEF Lossless
  <2> QED
    BY <2>7, <2>8
<1>8. CASE Within(HostReadsReply)
  <2>1. /\ host = "reply" /\ to_host # <<>> /\ to_host' = Tail(to_host) /\ host' = "idle"
        /\ UNCHANGED <<request, controller, handling, handled, faults, phase,
                       partial, pinged, setup, since>>
        /\ Head(to_host).id = "ACK" => to_controller' = to_controller
        /\ Head(to_host).id # "ACK" => to_controller' = Append(to_controller, Msg("ACK", TRUE))
        /\ Head(to_host).id = ReplyWanted[request] => result' = "SERIAL_OK"
    BY <1>8 DEF Within, HostReadsReply, HostReads, Done
  <2>2. phase \in {"checking", "connected"} /\ Sound' = Sound /\ ~ Dead
    BY <2>1 DEF Places, Sound, Dead
  <2>3. ASSUME Alive
        PROVE  /\ Alive' /\ Acked' /\ Inward' = 0 /\ ~ Asked'
               /\ Head(to_host).id = ReplyWanted[request]
    <3>1. handled = TRUE /\ to_controller = <<>> /\ Outward = 0 /\ setup = "up"
      BY <2>1, <2>3, AliveBusy
    <3>2. /\ Head(to_host).id = ReplyTo[request] /\ ReplyTo[request] # "none"
          /\ Inward = 1 /\ controller = "ack"
      BY <2>1, <2>3, AliveHead
    <3>3. Head(to_host).id # "ACK" /\ Head(to_host).id = ReplyWanted[request]
      BY <3>2, PresentReply
    <3>4. Inward' = 0 /\ to_host' = <<>>
      <4>1. Inward' = Inward - 1
        BY <2>1, TakeIn
      <4> QED
        BY <1>e, <3>2, <4>1
    <3>5. Outward' = 1 /\ to_controller'[1].id = "ACK"
      <4>1. Msg("ACK", TRUE) \in ToController /\ Msg("ACK", TRUE).id = "ACK"
        BY MsgFacts
      <4>2. Outward' = Len(to_controller) + 1
            /\ to_controller'[Len(to_controller) + 1].id = "ACK"
        BY <1>c, <2>1, <3>3, <4>1, PutOut, Zenon
      <4>3. Outward' = Outward + 1 /\ to_controller'[Outward + 1].id = "ACK"
        BY <4>2 DEF Outward
      <4> QED
        BY <3>1, <4>3
    <3>6. Acked' /\ ~ Asked'
      BY <3>5 DEF Acked, Asked
    <3>7. Serving'
      BY <2>1, <3>1, Zenon DEF Serving
    <3>8. RequestComes'
      BY <2>1, <3>2, <3>5, <3>6, NoneAsked
    <3>9. Answering'
      BY <2>1, <3>2, <3>4, Zenon DEF Answering
    <3>10. AnswerComes'
      BY <3>4, NoneComes
    <3> QED
      BY <3>3, <3>4, <3>6, <3>7, <3>8, <3>9, <3>10, Zenon DEF Alive
  <2>4. SoundLink'
    BY <2>1, <2>2, <2>3, Zenon DEF SoundLink
  <2>5. Lossless'
    <3> SUFFICES ASSUME since = {} PROVE Lossless'
      BY <2>1 DEF Lossless
    <3>1. Alive
      BY <2>2 DEF Lossless
    <3>2. ~ (Inward' > 0)
      BY <2>3, <3>1
    <3> QED
      BY <2>1, <2>2, <2>3, <3>1, <3>2, Zenon DEF Lossless
  <2> QED
    BY <2>4, <2>5
<1>9. CASE \E r \in Requests : Request(r)
  BY <1>3, <1>9, Zenon DEF Request, sessionvars
<1>10. CASE Within(HostTimeout)
  <2>1. /\ host # "idle" /\ host' = "idle"
        /\ TimeoutWhile(AnswerComing)
        /\ since' = IF faults' = faults THEN since ELSE since \cup {"late"}
        /\ UNCHANGED <<request, controller, handling, to_controller, to_host, handled, phase,
                       partial, pinged, setup>>
    BY <1>10 DEF Within, HostTimeout, Done
  <2>2. \/ ~ Sound' /\ since' # {}
        \/ ~ AnswerComing /\ since' = since /\ Sound' = Sound
    BY <2>1, TimeoutCases
  <2>3. CASE ~ Sound' /\ since' # {}
    BY <2>3 DEF SoundLink, Lossless
  <2>4. CASE ~ AnswerComing /\ since' = since /\ Sound' = Sound
    <3>1. /\ phase \in {"checking", "connected"} /\ Outward = 0 /\ Inward = 0
          /\ to_controller = <<>> /\ to_host = <<>> /\ controller # "reply"
          /\ ~ Acked /\ ~ Asked
      <4>1. phase \in {"checking", "connected"}
        BY <2>1 DEF Places
      <4>2. to_controller = <<>> /\ to_host = <<>> /\ controller # "reply"
        BY <2>4 DEF AnswerComing
      <4>3. Outward = 0 /\ Inward = 0
        BY <1>0, <4>2
      <4> QED
        BY <4>1, <4>2, <4>3 DEF Acked, Asked
    <3>2. Dead => Dead'
      BY <2>1, <3>1, Zenon DEF Dead
    <3>3. ASSUME Alive PROVE Alive'
      <4>1. setup' = "up"
        BY <2>1, <3>1, <3>3, Zenon DEF Alive, Serving
      <4>2. Outward' = 0 /\ Inward' = 0 /\ to_controller' = <<>> /\ to_host' = <<>>
        BY <1>u, <2>1, <3>1
      <4> QED
        BY <2>1, <3>1, <4>1, <4>2, AliveEmpty
    <3>4. SoundLink'
      BY <2>1, <2>4, <3>1, <3>2, <3>3, Zenon DEF SoundLink
    <3>5. Lossless'
      <4> SUFFICES ASSUME since = {} PROVE Lossless'
        BY <2>4 DEF Lossless
      <4>1. Alive /\ controller # "ack"
        BY <3>1 DEF Lossless
      <4>2. ~ (Inward' > 0) /\ host = "reply" /\ ReplyTo[request] = "none"
        BY <1>u, <2>1, <3>1 DEF Lossless, Types
      <4>3. phase # "checking"
        BY <4>2, PresentReply DEF Places
      <4> QED
        BY <2>1, <3>1, <3>3, <4>1, <4>2, <4>3, Zenon DEF Lossless
    <3> QED
      BY <3>4, <3>5
  <2> QED
    BY <2>2, <2>3, <2>4
<1>11. CASE Ping
  <2>1. /\ setup = "ping" /\ setup' = "wait"
        /\ UNCHANGED <<host, request, result, controller, handling, to_controller, handled,
                       phase, partial, pinged, since>>
        /\ to_host' = to_host \/ to_host' = Append(to_host, Msg("PING", FALSE))
    BY <1>11 DEF Ping
  <2>2. Sound' = Sound /\ Outward' = Outward
    BY <1>u, <2>1 DEF Sound
  <2>3. OnlyPings(to_host) => OnlyPings(to_host')
    BY <1>p, <2>1
  <2>4. Dead => Dead'
    BY <2>1, <2>3, Zenon DEF Dead
  <2>5. ~ Alive
    BY <2>1 DEF Alive, Serving
  <2>6. ASSUME Sound, phase = "polling" PROVE Inward' + Outward' <= 1 /\ to_controller' = <<>>
    <3>1. Inward = 0 /\ Outward = 0 /\ to_controller = <<>>
      BY <1>0, <2>1, <2>6 DEF SoundLink
    <3>2. Inward' = Inward \/ Inward' = Inward + 1
      <4>1. Msg("PING", FALSE) \in ToHost
        BY MsgFacts
      <4> QED
        BY <1>u, <2>1, <4>1, PutIn
    <3> QED
      BY <2>1, <2>2, <3>1, <3>2
  <2>7. SoundLink'
    BY <2>1, <2>2, <2>3, <2>4, <2>5, <2>6, Zenon DEF SoundLink
  <2>8. Lossless'
    BY <2>1, <2>5, Zenon DEF Lossless
  <2> QED
    BY <2>7, <2>8
<1>12. CASE PingAnswered
  <2>1. /\ setup = "wait" /\ to_controller # <<>> /\ to_controller' = Tail(to_controller)
        /\ Head(to_controller).id = "ACK" => setup' = "up"
        /\ Head(to_controller).id # "ACK" => setup' = "delay"
        /\ UNCHANGED <<host, request, result, controller, handling, to_host, handled,
                       phase, partial, pinged, since>>
    BY <1>12 DEF PingAnswered, ControllerReads
  <2>2. Sound' = Sound /\ Inward' = Inward
    BY <1>u, <2>1 DEF Sound
  <2>3. ASSUME Sound, phase = "polling"
        PROVE  setup' = "up" /\ Inward' = 0 /\ Outward' = 0 /\ to_controller' = <<>>
               /\ to_host' = <<>>
    <3>1. Outward = 1 /\ Inward = 0 /\ setup' = "up"
      BY <1>0, <2>1, <2>3 DEF SoundLink
    <3>2. Outward' = Outward - 1
      BY <2>1, TakeOut
    <3> QED
      BY <1>e, <2>2, <3>1, <3>2
  <2>4. Dead => Dead'
    BY <1>n, <2>1, Zenon DEF Dead
  <2>5. ASSUME Alive
        PROVE  Alive' /\ setup' = "up" /\ controller = "loop" /\ (Asked' <=> Asked)
    <3>1. Acked /\ controller = "loop" /\ setup' = "up"
      BY <1>0, <2>1, <2>5 DEF Alive, Serving, Acked
    <3>2. /\ Outward' \in {0, 1} /\ ~ Acked' /\ (Asked' <=> Asked)
          /\ Asked' => to_controller'[Outward'] = Msg(request, TRUE)
      BY <2>1, <2>5, <3>1, AliveTakeOut, Zenon
    <3>3. Serving'
      BY <3>1, Zenon DEF Serving
    <3>4. RequestComes'
      <4>1. Outward' <= 2 /\ Outward' # 2
        BY ONLY <3>2
      <4> QED
        BY <2>1, <2>5, <3>2, <4>1, Zenon DEF Alive, RequestComes
    <3>5. Answering'
      BY <2>1, <2>5, Zenon DEF Alive, Answering
    <3>6. AnswerComes'
      BY <2>1, <2>2, <2>5, Zenon DEF Alive, AnswerComes
    <3> QED
      BY <3>1, <3>2, <3>3, <3>4, <3>5, <3>6, Zenon DEF Alive
  <2>6. SoundLink'
    <3>1. Sound /\ phase = "polling" => Inward' + Outward' <= 1
      BY <2>3
    <3> QED
      BY <2>1, <2>2, <2>3, <2>4, <2>5, <3>1, Zenon DEF SoundLink
  <2>7. Lossless'
    BY <1>f, <2>1, <2>2, <2>3, <2>5, Zenon DEF Lossless
  <2> QED
    BY <2>6, <2>7
<1>13. CASE PingTimeout
  <2>1. /\ setup = "wait" /\ setup' = "delay"
        /\ TimeoutWhile(to_controller # <<>> \/ (phase = "polling" /\ to_host # <<>>))
        /\ since' = IF faults' = faults THEN since ELSE since \cup {"late"}
        /\ UNCHANGED <<host, request, result, controller, handling, to_controller, to_host,
                       handled, phase, partial, pinged>>
    BY <1>13 DEF PingTimeout
  <2>2. \/ ~ Sound' /\ since' # {}
        \/ /\ to_controller = <<>> /\ (phase = "polling" => to_host = <<>>)
           /\ since' = since /\ Sound' = Sound
    BY <2>1, TimeoutCases
  <2>3. CASE ~ Sound' /\ since' # {}
    BY <2>3 DEF SoundLink, Lossless
  <2>4. CASE /\ to_controller = <<>> /\ (phase = "polling" => to_host = <<>>)
             /\ since' = since /\ Sound' = Sound
    <3>1. ~ Alive
      BY <1>0, <2>1, <2>4 DEF Alive, Serving, Acked
    <3>2. Dead => Dead'
      BY <2>1, Zenon DEF Dead
    <3>3. phase = "polling" => Inward' + Outward' <= 1
      BY <1>0, <1>u, <2>1, <2>4
    <3>4. SoundLink'
      BY <2>1, <2>4, <3>1, <3>2, <3>3, Zenon DEF SoundLink
    <3>5. Lossless'
      BY <2>1, <2>4, <3>1, Zenon DEF Lossless
    <3> QED
      BY <3>4, <3>5
  <2> QED
    BY <2>2, <2>3, <2>4
<1>14. CASE Delay
  <2>1. /\ setup = "delay" /\ setup' = "ping"
        /\ UNCHANGED <<host, request, result, controller, handling, to_controller, to_host,
                       handled, phase, partial, pinged, since>>
    BY <1>14 DEF Delay, linkvars
  <2>2. Sound' = Sound /\ Inward' = Inward /\ Outward' = Outward
    BY <1>u, <2>1 DEF Sound
  <2>3. ~ Alive
    BY <2>1 DEF Alive, Serving
  <2>4. Dead => Dead'
    BY <2>1, Zenon DEF Dead
  <2>5. SoundLink'
    BY <2>1, <2>2, <2>3, <2>4, Zenon DEF SoundLink
  <2>6. Lossless'
    BY <2>1, <2>3, Zenon DEF Lossless
  <2> QED
    BY <2>5, <2>6
<1>15. CASE setup = "up" /\ Within(ControllerReceives)
  <2>1. /\ setup = "up" /\ controller = "loop"
        /\ to_controller # <<>> /\ to_controller' = Tail(to_controller)
        /\ UNCHANGED <<host, request, result, phase, partial, pinged, setup, since>>
    BY <1>15 DEF Within, ControllerReceives, ControllerReads
  <2>2. Head(to_controller).id # "ACK" =>
          /\ to_host' = Append(to_host, Msg("ACK", Head(to_controller).now))
          /\ handling' = Head(to_controller)
          /\ handled' = (handled \/ Head(to_controller).now)
          /\ controller' = IF ReplyTo[handling'.id] = "none" THEN "loop" ELSE "reply"
    BY <1>15 DEF Within, ControllerReceives
  <2>3. Sound' = Sound /\ ~ Dead
    BY <2>1 DEF Sound, Dead
  <2>4. ASSUME Alive
        PROVE  /\ host = "ack" /\ Alive' /\ ~ Asked'
               /\ ReplyTo[request] = "none" \/ controller' = "reply"
               /\ controller' # "ack" /\ to_host' # <<>> /\ to_host'[1].id = "ACK"
    <3>1. ~ Acked
      BY <2>1, <2>4 DEF Alive, RequestComes
    <3>2. /\ Asked /\ Head(to_controller) = Msg(request, TRUE)
          /\ Outward' = 0 /\ to_controller' = <<>> /\ ~ Asked' /\ ~ Acked'
      BY <2>1, <2>4, <3>1, AliveTakeOut, Zenon
    <3>3. /\ Head(to_controller).id = request /\ request # "ACK"
          /\ Head(to_controller).now = TRUE
      <4>1. \A i, b : Msg(i, b).id = i /\ Msg(i, b).now = b
        BY MsgFacts
      <4>2. request # "ACK"
        BY PresentReply, ReplyFacts
      <4> QED
        BY <3>2, <4>1, <4>2, Zenon
    <3>4. /\ to_host' = Append(to_host, Msg("ACK", TRUE))
          /\ handling' = Msg(request, TRUE) /\ handled' = TRUE
          /\ controller' = IF ReplyTo[request] = "none" THEN "loop" ELSE "reply"
      BY <2>2, <3>2, <3>3, Zenon
    <3>5. host = "ack" /\ to_host = <<>> /\ Inward = 0
      BY <1>0, <2>4, <3>2, Zenon DEF Alive, RequestComes
    <3>6. Inward' = 1 /\ to_host'[1] = Msg("ACK", TRUE) /\ to_host'[1].id = "ACK"
      <4>1. Msg("ACK", TRUE) \in ToHost /\ Msg("ACK", TRUE).id = "ACK"
        BY MsgFacts
      <4>2. Inward' = Inward + 1 /\ to_host'[Inward + 1] = Msg("ACK", TRUE)
        BY <3>4, <4>1, PutIn, Zenon
      <4>3. Inward + 1 = 1
        BY <3>5
      <4> QED
        BY <4>1, <4>2, <4>3, Zenon
    <3>7. Serving' /\ RequestComes'
      BY <2>1, <3>2, NoneAsked, Zenon DEF Serving
    <3>8. Answering'
      BY <2>1, <3>2, <3>4, <3>5, Zenon DEF Answering
    <3>9. AnswerComes'
      <4>1. \A i \in 1 .. Inward' : i = 1
        BY ONLY <3>6
      <4> QED
        BY <2>1, <3>5, <3>6, <4>1, Zenon DEF AnswerComes
    <3>10. to_host' # <<>>
      BY <1>e, <3>6
    <3>11. controller' # "ack" /\ (ReplyTo[request] = "none" \/ controller' = "reply")
      BY <3>4
    <3> QED
      BY <3>2, <3>5, <3>6, <3>7, <3>8, <3>9, <3>10, <3>11, Zenon DEF Alive
  <2>5. ASSUME Sound, phase \notin {"closed", "failed"}
        PROVE  Alive /\ phase \in {"checking", "connected"}
    <3>1. Alive
      BY <2>1, <2>3, <2>5 DEF SoundLink, Types, Phases
    <3> QED
      BY <2>4, <2>5, <3>1 DEF Places, Types, Phases
  <2>6. SoundLink'
    BY <2>1, <2>3, <2>4, <2>5, Zenon DEF SoundLink
  <2>7. Lossless'
    BY <1>f, <2>1, <2>3, <2>4, <2>5, Zenon DEF Lossless
  <2> QED
    BY <2>6, <2>7
<1>16. CASE setup = "up" /\ Within(ControllerReplies)
  <2>1. /\ setup = "up" /\ controller = "reply" /\ controller' = "ack"
        /\ to_host' = Append(to_host, Msg(ReplyTo[handling.id], handling.now))
        /\ UNCHANGED <<host, request, result, handling, to_controller, handled, phase,
                       partial, pinged, setup, since>>
    BY <1>16 DEF Within, ControllerReplies
  <2>2. Sound' = Sound /\ Outward' = Outward /\ ~ Dead
    BY <1>u, <2>1 DEF Sound, Dead
  <2>3. ASSUME Alive
        PROVE  /\ Alive' /\ ReplyTo[request] # "none" /\ to_host' # <<>> /\ ~ Asked
               /\ Inward' = Inward + 1 /\ to_host'[Inward + 1].id = ReplyTo[request]
               /\ Inward > 0 => Inward = 1 /\ host = "ack" /\ to_host'[1].id = "ACK"
    <3>1. /\ handled = TRUE /\ to_controller = <<>> /\ Outward = 0 /\ ~ Acked /\ ~ Asked
      BY <2>1, <2>3, AliveBusy
    <3>2. /\ handling = Msg(request, TRUE) /\ handling.id = request /\ handling.now = TRUE
      <4>1. handling = Msg(request, TRUE)
        BY <2>1, <2>3, Zenon DEF Alive, Answering
      <4> QED
        BY <4>1, MsgFacts, Zenon
    <3>3. ReplyTo[request] # "none" /\ ReplyTo[request] \in Replies
      <4>1. ReplyTo[request] # "none"
        BY <2>1, <3>2, Zenon DEF Types
      <4> QED
        BY <4>1, ReplyFacts DEF Types
    <3>4. /\ Msg(ReplyTo[request], TRUE) \in ToHost
          /\ Msg(ReplyTo[request], TRUE).id = ReplyTo[request]
          /\ Msg("ACK", TRUE).id = "ACK"
      BY <3>3, MsgFacts, Zenon
    <3>5. /\ Inward' = Inward + 1 /\ to_host'[Inward + 1] = Msg(ReplyTo[request], TRUE)
          /\ \A i \in 1 .. Inward : to_host'[i] = to_host[i]
      BY <2>1, <3>2, <3>4, PutIn, Zenon
    <3>6. \A i \in 1 .. Inward : to_host[i] = Msg("ACK", TRUE) /\ i = 1 /\ host = "ack"
      BY <2>1, <2>3 DEF Alive, AnswerComes
    <3>7. Inward > 0 => Inward = 1 /\ host = "ack" /\ to_host'[1].id = "ACK"
      <4> SUFFICES ASSUME Inward > 0
                   PROVE  Inward = 1 /\ host = "ack" /\ to_host'[1].id = "ACK"
        OBVIOUS
      <4>1. 1 \in 1 .. Inward /\ Inward \in 1 .. Inward
        BY ONLY <1>0, Inward > 0
      <4> QED
        BY <3>4, <3>5, <3>6, <4>1, Zenon
    <3>8. Serving'
      BY <2>1, Zenon DEF Serving
    <3>9. RequestComes'
      <4>1. ~ Acked' /\ ~ Asked'
        BY <2>1, <3>1, Zenon DEF Acked, Asked, Outward
      <4> QED
        BY <2>2, <3>1, <4>1, NoneAsked
    <3>10. Answering'
      BY <2>1, <2>3, <3>1, Zenon DEF Alive, Answering
    <3>11. AnswerComes'
      <4> SUFFICES ASSUME NEW i \in 1 .. Inward'
                   PROVE  \/ to_host'[i] = Msg("ACK", TRUE) /\ i = 1 /\ host = "ack"
                          \/ to_host'[i] = Msg(ReplyTo[request], TRUE) /\ i = Inward'
        BY <2>1, <3>3, Zenon DEF AnswerComes
      <4>1. i \in 1 .. Inward \/ i = Inward + 1
        BY ONLY <1>0, <3>5, i \in 1 .. Inward'
      <4>2. CASE i \in 1 .. Inward
        BY <3>5, <3>6, <4>2, Zenon
      <4>3. CASE i = Inward + 1
        BY <3>5, <4>3, Zenon
      <4> QED
        BY <4>1, <4>2, <4>3
    <3>12. to_host' # <<>>
      BY <1>0, <1>e, <3>5
    <3> QED
      BY <3>1, <3>3, <3>4, <3>5, <3>7, <3>8, <3>9, <3>10, <3>11, <3>12, Zenon DEF Alive
  <2>4. ASSUME Sound, phase \notin {"closed", "failed"}
        PROVE  Alive /\ phase \in {"checking", "connected"}
    BY <2>1, <2>2, <2>4 DEF SoundLink, Types, Phases
  <2>5. SoundLink'
    BY <2>1, <2>2, <2>3, <2>4, Zenon DEF SoundLink
  <2>6. Lossless'
    <3> SUFFICES ASSUME since = {}, phase \notin {"closed", "failed"} PROVE Lossless'
      BY <2>1 DEF Lossless
    <3>1. Alive /\ phase \in {"checking", "connected"}
      BY <1>f, <2>4
    <3>2. host # "idle" /\ (host = "ack" => Inward = 1)
      <4>1. host # "idle"
        BY <2>1, <3>1, Zenon DEF Alive, Answering
      <4>2. host = "ack" => Inward > 0
        BY <1>0, <2>3, <3>1 DEF Lossless
      <4> QED
        BY <2>3, <3>1, <4>1, <4>2
    <3>3. host = "reply" => Inward = 0
      <4>1. host = "reply" => ~ (Inward > 0)
        BY <2>3, <3>1
      <4> QED
        BY <1>0, <4>1
    <3>4. to_host'[1].id = IF host = "ack" THEN "ACK" ELSE ReplyTo[request]
      <4>1. CASE host = "ack"
        BY <2>3, <3>1, <3>2, <4>1
      <4>2. CASE host = "reply"
        <5>1. Inward + 1 = 1
          BY <3>3, <4>2
        <5>2. to_host'[Inward + 1].id = ReplyTo[request]
          BY <2>3, <3>1
        <5>3. to_host'[1].id = ReplyTo[request]
          BY <5>1, <5>2, Zenon
        <5> QED
          BY ONLY <5>3, <4>2
      <4> QED
        BY <3>2, <4>1, <4>2 DEF Types
    <3>5. Inward' = IF host = "ack" THEN 2 ELSE 1
      BY <2>3, <3>1, <3>2, <3>3 DEF Types
    <3> QED
      BY <2>1, <2>3, <3>1, <3>2, <3>4, <3>5, Zenon DEF Lossless
  <2> QED
    BY <2>5, <2>6
<1>17. CASE setup = "up" /\ Within(ControllerReadsAck)
  <2>1. /\ setup = "up" /\ controller = "ack" /\ controller' = "loop"
        /\ to_controller # <<>> /\ to_controller' = Tail(to_controller)
        /\ UNCHANGED <<host, request, result, handling, to_host, handled, phase,
                       partial, pinged, setup, since>>
    BY <1>17 DEF Within, ControllerReadsAck, ControllerReads
  <2>2. Sound' = Sound /\ Inward' = Inward /\ ~ Dead
    BY <1>u, <2>1 DEF Sound, Dead
  <2>3. ASSUME Alive
        PROVE  Alive' /\ host # "reply" /\ to_host = <<>> /\ (Acked => (Asked' <=> Asked))
    <3>1. host # "reply" /\ to_host = <<>> /\ Inward = 0
      BY <1>0, <2>1, <2>3 DEF Alive, Answering
    <3>2. /\ Outward' \in {0, 1} /\ ~ Acked'
          /\ Acked => /\ Asked' <=> Asked
                      /\ Asked' => to_controller'[Outward'] = Msg(request, TRUE)
          /\ ~ Acked => Outward' = 0 /\ to_controller' = <<>> /\ ~ Asked'
      BY <2>1, <2>3, AliveTakeOut, Zenon
    <3>3. Serving'
      BY <2>1, Zenon DEF Serving
    <3>4. RequestComes'
      <4>1. Outward' <= 2 /\ Outward' # 2
        BY ONLY <3>2
      <4> QED
        BY <2>1, <2>3, <3>2, <4>1, Zenon DEF Alive, RequestComes
    <3>5. Answering'
      BY <2>1, <3>1, Zenon DEF Answering
    <3>6. AnswerComes'
      BY <2>2, <3>1, NoneComes
    <3> QED
      BY <3>1, <3>2, <3>3, <3>4, <3>5, <3>6, Zenon DEF Alive
  <2>4. SoundLink'
    BY <2>1, <2>2, <2>3, Zenon DEF SoundLink
  <2>5. Lossless'
    <3> SUFFICES ASSUME since = {}, phase \notin {"closed", "failed"} PROVE Lossless'
      BY <2>1 DEF Lossless
    <3>1. phase \in {"checking", "connected"}
      BY <1>f, <2>1 DEF SoundLink, Types, Phases
    <3>2. Alive /\ Acked /\ (host = "ack" => Asked)
      BY <2>1, <2>3, <3>1 DEF Lossless
    <3>3. ~ (Inward' > 0)
      BY <1>0, <2>2, <2>3, <3>2
    <3> QED
      BY <2>1, <2>3, <3>1, <3>2, <3>3, Zenon DEF Lossless, Types
  <2> QED
    BY <2>4, <2>5
<1>18. CASE setup = "up" /\ Within(ControllerTimeout)
  <2>1. /\ setup = "up" /\ controller = "ack" /\ controller' = "loop"
        /\ TimeoutWhile(to_controller # <<>> \/ to_host # <<>>)
        /\ since' = IF faults' = faults THEN since ELSE since \cup {"late"}
        /\ UNCHANGED <<host, request, result, handling, to_controller, to_host, handled, phase,
                       partial, pinged, setup>>
    BY <1>18 DEF Within, ControllerTimeout
  <2>2. \/ ~ Sound' /\ since' # {}
        \/ to_controller = <<>> /\ to_host = <<>> /\ since' = since /\ Sound' = Sound
    BY <2>1, TimeoutCases
  <2>3. CASE ~ Sound' /\ since' # {}
    BY <2>3 DEF SoundLink, Lossless
  <2>4. CASE to_controller = <<>> /\ to_host = <<>> /\ since' = since /\ Sound' = Sound
    <3>1. Outward = 0 /\ Inward = 0 /\ ~ Acked /\ ~ Dead
      BY <1>0, <2>1, <2>4 DEF Acked, Dead
    <3>2. ASSUME Alive PROVE Alive'
      <4>1. Outward' = 0 /\ Inward' = 0 /\ to_controller' = <<>> /\ to_host' = <<>>
        BY <1>u, <2>1, <2>4, <3>1
      <4>2. host' = "reply" => handled' = TRUE
        BY <2>1, <3>2 DEF Alive, Answering
      <4> QED
        BY <2>1, <4>1, <4>2, AliveEmpty
    <3>3. SoundLink'
      BY <2>1, <2>4, <3>1, <3>2, Zenon DEF SoundLink
    <3>4. Lossless'
      BY <1>f, <2>1, <2>4, <3>1, Zenon DEF Lossless, SoundLink
    <3> QED
      BY <3>3, <3>4
  <2> QED
    BY <2>2, <2>3, <2>4
<1>19. CASE \E p \in Programs : Open(p)
  <2>1. /\ phase' = "opened" /\ setup' = "ping" /\ controller' = "loop"
        /\ to_controller' = <<>> /\ to_host' = <<>>
    BY <1>19 DEF Open
  <2> QED
    BY <2>1, PingsKept DEF SoundLink, Lossless
<1>20. CASE Disconnect
  BY <1>20 DEF Disconnect, SoundLink, Lossless
<1>21. CASE Restart
  <2>1. "restart" \in since'
    BY <1>21 DEF Restart
  <2> QED
    BY <2>1 DEF SoundLink, Lossless, Sound
<1>22. CASE Lose(LoseToController, "lost_to_controller")
  <2>1. /\ to_controller # <<>> /\ to_controller' = Tail(to_controller)
        /\ since' = since \cup {"lost_to_controller"} /\ since' # {}
        /\ UNCHANGED <<host, request, result, controller, handling, to_host, handled, phase,
                       partial, pinged, setup>>
    BY <1>22 DEF Lose, LoseToController
  <2>2. Sound' = Sound /\ Inward' = Inward
    BY <1>u, <2>1 DEF Sound
  <2>3. Dead => Dead'
    BY <1>n, <2>1, Zenon DEF Dead
  <2>4. ASSUME Alive PROVE Dead' \/ Alive'
    <3>1. host # "reply" /\ controller # "reply" /\ to_host = <<>> /\ Inward = 0
      BY <1>0, <2>1, <2>4 DEF Alive, Answering
    <3>2. /\ Outward' \in {0, 1} /\ ~ Acked'
          /\ Acked => /\ Asked' <=> Asked
                      /\ Asked' => to_controller'[Outward'] = Msg(request, TRUE)
          /\ ~ Acked => Outward' = 0 /\ to_controller' = <<>> /\ ~ Asked'
      BY <2>1, <2>4, AliveTakeOut, Zenon
    <3>3. CASE setup = "up"
      <4>1. Serving'
        BY <2>1, <3>3, Zenon DEF Serving
      <4>2. RequestComes'
        <5>1. Outward' <= 2 /\ Outward' # 2
          BY ONLY <3>2
        <5> QED
          BY <2>1, <2>4, <3>2, <5>1, Zenon DEF Alive, RequestComes
      <4>3. Answering'
        BY <2>1, <3>1, Zenon DEF Answering
      <4>4. AnswerComes'
        BY <2>2, <3>1, NoneComes
      <4> QED
        BY <4>1, <4>2, <4>3, <4>4, Zenon DEF Alive
    <3>4. CASE setup # "up"
      <4>1. controller = "loop"
        BY <2>4, <3>4, Zenon DEF Alive, Serving
      <4>2. NoAck(to_controller')
        <5>1. ASSUME NEW i \in 1 .. Outward' PROVE to_controller'[i].id # "ACK"
          <6>1. i = 1 /\ Outward' > 0
            BY ONLY <3>2, i \in 1 .. Outward'
          <6> QED
            BY <3>2, <6>1, Zenon DEF Acked
        <5> QED
          BY <5>1, Zenon DEF NoAck, Outward
      <4>3. OnlyPings(to_host')
        BY <2>1, <3>1, PingsKept
      <4> QED
        BY <2>1, <3>1, <3>4, <4>1, <4>2, <4>3, Zenon DEF Dead
    <3> QED
      BY <3>3, <3>4
  <2>5. ASSUME Sound, phase = "polling" PROVE Inward' + Outward' <= 1 /\ to_controller' = <<>>
    <3>1. Outward' = Outward - 1
      BY <2>1, TakeOut
    <3>2. Outward = 1 /\ Inward = 0
      BY <1>0, <2>1, <2>5 DEF SoundLink
    <3> QED
      BY <1>e, <2>2, <3>1, <3>2
  <2>6. SoundLink'
    BY <2>1, <2>2, <2>3, <2>4, <2>5, Zenon DEF SoundLink
  <2>7. Lossless'
    BY <2>1 DEF Lossless
  <2> QED
    BY <2>6, <2>7
<1>23. CASE ~ partial /\ Lose(LoseToHost, "lost_to_host")
  <2>1. /\ to_host # <<>> /\ to_host' = Tail(to_host)
        /\ since' = since \cup {"lost_to_host"} /\ since' # {}
        /\ UNCHANGED <<host, request, result, controller, handling, to_controller, handled, phase,
                       partial, pinged, setup>>
    BY <1>23 DEF Lose, LoseToHost
  <2>2. Sound' = Sound /\ Outward' = Outward
    BY <1>u, <2>1 DEF Sound
  <2>3. /\ OnlyPings(to_host) => OnlyPings(to_host')
        /\ Dead => Dead'
    BY <1>p, <2>1, Zenon DEF Dead
  <2>4. Inward' = Inward - 1 /\ \A i \in 1 .. Inward - 1 : to_host'[i] = to_host[i + 1]
    BY <2>1, TakeIn
  <2>5. ASSUME Alive PROVE Alive'
    <3>1. /\ handled = TRUE /\ to_controller = <<>> /\ Outward = 0 /\ ~ Acked /\ ~ Asked
          /\ setup = "up" /\ host # "idle"
      <4>1. host # "idle"
        BY <2>1, <2>5 DEF Alive, Answering
      <4> QED
        BY <2>1, <2>5, <4>1, AliveBusy
    <3>2. Serving'
      BY <2>1, <3>1, Zenon DEF Serving
    <3>3. RequestComes'
      <4>1. ~ Acked' /\ ~ Asked'
        BY <2>1, <3>1, Zenon DEF Acked, Asked, Outward
      <4> QED
        BY <2>2, <3>1, <4>1, NoneAsked
    <3>4. Answering'
      BY <2>1, <2>5, <3>1, Zenon DEF Alive, Answering
    <3>5. AnswerComes'
      <4> SUFFICES ASSUME NEW i \in 1 .. Inward'
                   PROVE  /\ to_host'[i] = Msg(ReplyTo[request], TRUE)
                          /\ ReplyTo[request] # "none"
                          /\ i = Inward' /\ controller = "ack"
        BY <2>1, Zenon DEF AnswerComes
      <4>1. i \in 1 .. Inward - 1 /\ i + 1 \in 1 .. Inward /\ i + 1 # 1
            /\ (i + 1 = Inward => i = Inward')
        BY ONLY <1>0, <2>4, i \in 1 .. Inward'
      <4>2. to_host'[i] = to_host[i + 1]
        BY <2>4, <4>1
      <4> QED
        BY <2>5, <4>1, <4>2, Zenon DEF Alive, AnswerComes
    <3> QED
      BY <3>2, <3>3, <3>4, <3>5, Zenon DEF Alive
  <2>6. ASSUME Sound, phase = "polling"
        PROVE  /\ Inward' + Outward' <= 1 /\ setup = "wait"
               /\ to_controller # <<>> => to_controller[1].id = "ACK"
    <3>1. Inward + Outward <= 1 /\ setup = "wait"
          /\ (to_controller # <<>> => to_controller[1].id = "ACK")
      BY <2>1, <2>6 DEF SoundLink
    <3> QED
      BY <1>0, <2>2, <2>4, <3>1
  <2>7. SoundLink'
    BY <2>1, <2>2, <2>3, <2>5, <2>6, Zenon DEF SoundLink
  <2>8. Lossless'
    BY <2>1 DEF Lossless
  <2> QED
    BY <2>7, <2>8
<1>24. CASE UNCHANGED vars
  <2>1. UNCHANGED <<host, request, result, controller, handling, to_controller, to_host, handled,
                    phase, partial, pinged, setup, since>>
    BY <1>24 DEF vars, linkvars, sessionvars
  <2>2. /\ Sound' = Sound /\ Inward' = Inward /\ Outward' = Outward
        /\ Acked' = Acked /\ Asked' = Asked /\ Dead' = Dead
    BY <1>s, <2>1 DEF Sound
  <2>3. Alive => Alive'
    BY <2>1, AliveKept
  <2>4. SoundLink'
    BY <2>1, <2>2, <2>3, Zenon DEF SoundLink
  <2>5. Lossless'
    BY <2>1, <2>2, <2>3, Zenon DEF Lossless
  <2> QED
    BY <2>4, <2>5
<1> QED
  BY <1>1, <1>2, <1>4, <1>5, <1>6, <1>7, <1>8, <1>9, <1>10, <1>11, <1>12, <1>13, <1>14, <1>15,
     <1>16, <1>17, <1>18, <1>19, <1>20, <1>21, <1>22, <1>23, <1>24, Steps, Zenon

(* No wrong or missing answer without a fault.                             *)
LEMMA NoErrorStep ==
  ASSUME IInv, [Next]_vars
  PROVE  NoFaultNoError'
<1> USE DEF IInv
<1> SUFFICES ASSUME faults' = 0, host' = "idle", request' # "GET_AXIS_STATE"
             PROVE  result' \in {"SERIAL_OK", "SERIAL_ERR_MSG_IN_PROGRESS"}
  BY DEF NoFaultNoError
<1>1. faults' = faults /\ faults = 0 /\ since = {}
  BY FaultsGrow DEF Places
<1>2. CASE UNCHANGED <<host, request, result>>
  BY <1>1, <1>2 DEF NoFaultNoError
<1>3. CASE LinkCheckRefused
  BY <1>3 DEF LinkCheckRefused
<1>4. host # "idle" =>
        /\ Alive /\ phase \in {"checking", "connected"}
        /\ host = "ack" => Asked \/ to_host # <<>>
        /\ Inward > 0 => to_host[1].id = IF host = "ack" THEN "ACK" ELSE ReplyTo[request]
        /\ host = "reply" => ReplyTo[request] = "none" \/ controller = "reply" \/ Inward = 1
  BY <1>1, Zenon DEF Places, Lossless
<1>5. to_host # <<>> => Inward > 0 /\ Head(to_host) = to_host[1]
  BY LineFacts
<1>6. CASE Within(HostReadsAck)
  <2>1. host = "ack" /\ to_host # <<>>
    BY <1>6 DEF Within, HostReadsAck, HostReads
  <2>2. Head(to_host).id = "ACK"
    BY <1>4, <1>5, <2>1
  <2>3. host' = "idle" => result' = "SERIAL_OK"
    BY <1>6, <2>2 DEF Within, HostReadsAck, Done
  <2> QED
    BY <2>3
<1>7. CASE Within(HostReadsReply)
  <2>1. host = "reply" /\ to_host # <<>> /\ request' = request
    BY <1>7 DEF Within, HostReadsReply, HostReads
  <2>2. Head(to_host).id = ReplyTo[request]
    BY <1>4, <1>5, <2>1
  <2>3. ReplyWanted[request] = ReplyTo[request]
    BY <2>1, PresentReply DEF Places
  <2>4. result' = "SERIAL_OK"
    BY <1>7, <2>2, <2>3 DEF Within, HostReadsReply, Done
  <2> QED
    BY <2>4
<1>8. CASE Within(HostTimeout)
  <2>1. host # "idle" /\ TimeoutWhile(AnswerComing) /\ request' = request
    BY <1>8 DEF Within, HostTimeout
  <2>2. ~ AnswerComing
    BY <1>1, <2>1 DEF TimeoutWhile, Fault
  <2>3. to_controller = <<>> /\ to_host = <<>> /\ controller # "reply" /\ Inward = 0 /\ ~ Asked
    <3>1. to_controller = <<>> /\ to_host = <<>> /\ controller # "reply"
      BY <2>2 DEF AnswerComing
    <3> QED
      BY <3>1, LineFacts DEF Asked
  <2>4. host = "reply" /\ ReplyTo[request] = "none"
    BY <1>4, <2>1, <2>3 DEF Types
  <2>5. request = "GET_AXIS_STATE"
    BY <2>4, PresentReply DEF Places
  <2> QED
    BY <2>1, <2>5
<1>9. CASE LinkCheck \/ (\E r \in Requests : Request(r))
  BY <1>9 DEF LinkCheck, Request, HostSend
<1> QED
  BY <1>2, <1>3, <1>6, <1>7, <1>8, <1>9, Steps
     DEF Flush, Poll, LinkChecked, Within, Ping, PingAnswered, PingTimeout, Delay,
         ControllerReceives, ControllerReplies, ControllerReadsAck, ControllerTimeout, Open,
         Disconnect, Restart, Lose, LoseToController, LoseToHost, vars, linkvars

(* The link check fails for half a PING or a fault.                        *)
LEMMA FailsStep ==
  ASSUME IInv, [Next]_vars
  PROVE  FailsForReason'
<1> USE DEF IInv, FailsForReason
<1>1. CASE LinkCheckRefused
  BY <1>1 DEF LinkCheckRefused, Places
<1>2. CASE LinkChecked
  <2>1. phase = "checking" /\ host = "idle" /\ UNCHANGED <<program, since>>
    BY <1>2 DEF LinkChecked
  <2>2. program = "feArduino"
    BY <2>1 DEF Places
  <2>3. since = {} => result = "SERIAL_OK"
    BY <2>1, Zenon DEF Lossless
  <2> QED
    BY <1>2, <2>1, <2>2, <2>3 DEF LinkChecked
<1>3. CASE phase' \in {"closed", "opened", "polling", "flush", "check", "checking", "connected"}
  BY <1>3
<1>4. CASE UNCHANGED <<phase, program, partial>> /\ since \subseteq since'
  BY <1>4
<1>5. CASE Poll \/ Flush
  <2>1. phase' \in {"polling", "flush", "check", "connected"}
    BY <1>5, PollCases DEF Flush
  <2> QED
    BY <1>3, <2>1
<1> QED
  BY <1>1, <1>2, <1>3, <1>4, <1>5, Steps
     DEF LinkCheck, Request, Within, Ping, PingAnswered, PingTimeout, Delay, Open,
         Disconnect, Restart, Lose, vars, linkvars, sessionvars

LEMMA IInvInit == Init => IInv
<1> SUFFICES ASSUME Init PROVE IInv
  OBVIOUS
<1>1. /\ host = "idle" /\ phase = "closed" /\ faults = 0 /\ since = {}
      /\ partial = FALSE /\ result = "SERIAL_OK"
  BY DEF Init, LinkInit
<1>2. Types
  BY TypesInit
<1>3. Places
  BY <1>1 DEF Places
<1>4. HeardMeansUp
  BY <1>1 DEF HeardMeansUp, PortOpen
<1>5. SoundLink /\ Lossless
  BY <1>1 DEF SoundLink, Lossless
<1>6. NoFaultNoError /\ FailsForReason
  BY <1>1 DEF NoFaultNoError, FailsForReason
<1> QED
  BY <1>2, <1>3, <1>4, <1>5, <1>6 DEF IInv

LEMMA IInvStep == IInv /\ [Next]_vars => IInv'
<1> SUFFICES ASSUME IInv, [Next]_vars PROVE IInv'
  OBVIOUS
<1>1. Types' /\ Places' /\ HeardMeansUp'
  BY TypesStep, PlacesStep, HeardStep DEF IInv
<1>2. SoundLink' /\ Lossless'
  BY <1>1, LinkStep
<1>3. NoFaultNoError' /\ FailsForReason'
  BY NoErrorStep, FailsStep
<1> QED
  BY <1>1, <1>2, <1>3, Zenon DEF IInv

LEMMA Invariance == Spec => []IInv
BY IInvInit, IInvStep, PTL DEF Spec

(* Without a fault no request fails that the controller answers.           *)
THEOREM FaultlessSucceeds == Spec => []NoFaultNoError
<1>1. IInv => NoFaultNoError
  BY DEF IInv
<1> QED
  BY <1>1, Invariance, PTL

(* The handshake keeps its two promises, whatever is lost or restarted.    *)
THEOREM HandshakeHolds == Spec => []HandshakeSound
<1>1. IInv => HandshakeSound
  <2> SUFFICES ASSUME IInv PROVE ConnectedMeansUp
    BY DEF HandshakeSound, IInv
  <2> SUFFICES ASSUME phase = "connected", setup # "up", "restart" \notin since
               PROVE  /\ program = "MessageTerminal"
                      /\ since # {} \/ \E i \in 1 .. Len(to_controller) :
                                          to_controller[i].id = "ACK"
    BY DEF ConnectedMeansUp
  <2>1. program = "MessageTerminal"
    BY SessionAssumption DEF IInv, HeardMeansUp, Types
  <2>2. ASSUME since = {}
        PROVE  \E i \in 1 .. Len(to_controller) : to_controller[i].id = "ACK"
    <3>1. Acked
      BY <2>2, Zenon DEF IInv, Lossless, Alive, Serving
    <3>2. Outward \in Nat /\ Outward > 0 /\ to_controller[1].id = "ACK"
      BY <3>1, LineFacts DEF Acked, IInv
    <3>3. 1 \in 1 .. Outward
      BY ONLY <3>2
    <3> QED
      BY <3>2, <3>3, Zenon DEF Outward
  <2> QED
    BY <2>1, <2>2
<1> QED
  BY <1>1, Invariance, PTL

-----------------------------------------------------------------------------
(* The session implements the contract of its callers.                     *)
asked   == IF host = "idle" THEN "none" ELSE request
outcome == IF result = "SERIAL_OK" THEN "ok" ELSE "failed"

LEMMA ContractInit == Init => Contract!Init
BY DEF Init, LinkInit, Contract!Init, Sound

(* An answer with SERIAL_OK on a sound connection was carried out, and a   *)
(* reply that is taken is of the present request.                          *)
LEMMA AnswerFacts ==
  ASSUME IInv, Sound, host # "idle", to_host # <<>>
  PROVE  \/ Head(to_host).id = "PING" /\ host = "ack"
         \/ handled = TRUE /\ Head(to_host).now = TRUE
<1>1. phase \in {"checking", "connected"}
  BY DEF IInv, Places
<1>2. Dead \/ Alive
  BY <1>1 DEF IInv, SoundLink
<1>3. CASE Dead
  <2>1. Head(to_host).id = "PING"
    BY <1>3, PingsKept DEF IInv, Types, Dead
  <2> QED
    BY <1>3, <2>1 DEF IInv, Types, Dead
<1>4. CASE Alive
  BY <1>4, AliveBusy, AliveHead DEF IInv
<1> QED
  BY <1>2, <1>3, <1>4

LEMMA ContractStep ==
  ASSUME IInv, [Next]_vars
  PROVE  [Contract!Next]_<<asked, handled, outcome, Sound>>
<1> USE DEF asked, outcome
<1>r. request \in Requests /\ request # "none"
  <2>1. request \in Requests
    BY DEF IInv, Types
  <2> QED
    BY <2>1, LinkAssumption DEF ReplyTo
<1>s. since \subseteq since' => (Sound' => Sound)
  BY DEF Sound
<1>u. since' = since => Sound' = Sound
  BY DEF Sound
<1>1. CASE UNCHANGED <<host, request, result, handled, Sound>>
  BY <1>1
<1>2. ASSUME NEW r \in Requests, HostSend(r), since' = since PROVE Contract!Ask
  <2>1. r # "none"
    BY <1>2, LinkAssumption DEF ReplyTo
  <2> QED
    BY <1>2, <1>u, <2>1 DEF HostSend, Contract!Ask
<1>3. CASE LinkCheckRefused
  <2>1. host = "idle"
    BY <1>3 DEF LinkCheckRefused, IInv, Places
  <2>2. Contract!Refuse
    BY <1>3, <1>u, <2>1 DEF LinkCheckRefused, Contract!Refuse
  <2> QED
    BY <2>2 DEF Contract!Next
<1>4. CASE LinkCheck \/ (\E r \in Requests : Request(r))
  <2>1. \E r \in Requests : HostSend(r) /\ since' = since
    BY <1>4, SessionAssumption DEF LinkCheck, Request, sessionvars
  <2> QED
    BY <1>2, <2>1 DEF Contract!Next
<1>5. ASSUME host # "idle", host' = "idle", handled' = handled, since \subseteq since',
             result' = "SERIAL_OK" => (Sound' => handled = TRUE)
      PROVE  Contract!Answer
  <2>1. handled' = TRUE \/ handled' = FALSE
    BY <1>5 DEF IInv, Types
  <2> QED
    BY <1>5, <1>r, <1>s DEF Contract!Answer
<1>6. CASE Within(HostReadsAck)
  <2>1. /\ host = "ack" /\ to_host # <<>> /\ since' = since /\ UNCHANGED <<request, handled>>
        /\ host' = "idle" => (result' = "SERIAL_OK" => Head(to_host).id = "ACK")
        /\ host' = "idle" \/ (host' = "reply" /\ result' = result)
    BY <1>6 DEF Within, HostReadsAck, HostReads, Done, Errors
  <2>2. CASE host' = "idle"
    <3>1. result' = "SERIAL_OK" => (Sound' => handled = TRUE)
      BY <1>u, <2>1, <2>2, AnswerFacts
    <3> QED
      BY <1>5, <2>1, <2>2, <3>1 DEF Contract!Next
  <2>3. CASE host' = "reply" /\ result' = result
    BY <1>u, <2>1, <2>3
  <2> QED
    BY <2>1, <2>2, <2>3
<1>7. CASE Within(HostReadsReply)
  <2>1. host = "reply" /\ host' = "idle" /\ to_host # <<>> /\ since' = since
        /\ handled' = handled
    BY <1>7 DEF Within, HostReadsReply, HostReads, Done
  <2>2. Sound' => handled = TRUE
    BY <1>u, <2>1, AnswerFacts
  <2> QED
    BY <1>5, <2>1, <2>2 DEF Contract!Next
<1>8. CASE Within(HostTimeout)
  <2>1. /\ host # "idle" /\ host' = "idle" /\ since \subseteq since' /\ handled' = handled
        /\ result' # "SERIAL_OK"
    BY <1>8 DEF Within, HostTimeout, Done
  <2> QED
    BY <1>5, <2>1 DEF Contract!Next
<1>9. ASSUME UNCHANGED <<host, request, result, handled>>, since \subseteq since'
      PROVE  Contract!Spoil \/ UNCHANGED <<host, request, result, handled, Sound>>
  BY <1>9, <1>s DEF Contract!Spoil, Sound
<1>10. CASE UNCHANGED <<host, request, result, handled>> /\ since \subseteq since'
  BY <1>1, <1>9, <1>10 DEF Contract!Next
<1>11. CASE Within(ControllerReceives)
  <2>1. /\ UNCHANGED <<host, request, result>> /\ since' = since
        /\ handled' = handled \/ handled' = (handled \/ Head(to_controller).now)
        /\ to_controller # <<>>
    BY <1>11 DEF Within, ControllerReceives, ControllerReads
  <2>2. handled' = handled \/ (handled = FALSE /\ handled' = TRUE)
    <3>1. handled \in BOOLEAN /\ Head(to_controller).now \in BOOLEAN
      BY <2>1, HeadFacts DEF IInv, Types
    <3> QED
      BY <2>1, <3>1
  <2>3. CASE handled = FALSE /\ handled' = TRUE
    BY <1>u, <2>1, <2>3 DEF Contract!Next, Contract!CarryOut
  <2> QED
    BY <1>1, <1>u, <2>1, <2>2, <2>3
<1>12. CASE \E p \in Programs : Open(p)
  <2>1. host = "idle" /\ UNCHANGED <<host, request, result, handled>> /\ since' = {}
    BY <1>12 DEF Open, PortOpen, IInv, Places
  <2>2. Sound'
    BY <2>1 DEF Sound
  <2> QED
    BY <2>1, <2>2 DEF Contract!Next, Contract!OpenAgain, Sound
<1>13. CASE Poll
  BY <1>10, <1>13, PollCases DEF IInv
<1> QED
  BY <1>3, <1>4, <1>6, <1>7, <1>8, <1>10, <1>11, <1>12, <1>13, Steps
     DEF Flush, LinkChecked, Within, Ping, PingAnswered, PingTimeout, Delay,
         ControllerReplies, ControllerReadsAck, ControllerTimeout,
         Disconnect, Restart, Lose, LoseToController, LoseToHost, vars, linkvars, sessionvars

(* The reply that is taken for the answer to a request is its own.         *)
LEMMA OwnReplyStep == IInv /\ [Next]_vars => [OwnReply]_vars
<1> SUFFICES ASSUME IInv, [Next]_vars, Sound, host = "reply", host' = "idle",
                    result' = "SERIAL_OK"
             PROVE  Head(to_host).now
  BY DEF OwnReply
<1>1. CASE Within(HostReadsReply)
  <2>1. to_host # <<>>
    BY <1>1 DEF Within, HostReadsReply, HostReads
  <2> QED
    BY <2>1, AnswerFacts
<1>2. CASE Within(HostTimeout)
  BY <1>2 DEF Within, HostTimeout, Done
<1> QED
  BY <1>1, <1>2, PollCases, Steps
     DEF Flush, Poll, LinkCheck, LinkCheckRefused, LinkChecked, Within, HostReadsAck, Request,
         HostSend, Ping, PingAnswered, PingTimeout, Delay, ControllerReceives,
         ControllerReplies, ControllerReadsAck, ControllerTimeout, Open, Disconnect, Restart,
         Lose, LoseToController, LoseToHost, vars, linkvars, sessionvars

(* The session implements RequestContract: a call that returns SERIAL_OK   *)
(* on a sound connection was carried out, and its reply is its own.        *)
THEOREM MeetsContract == Spec => ImplementsRequest
<1>1. IInv /\ [Next]_vars => [Contract!Next]_(Contract!vars)
  BY ContractStep DEF Contract!vars, asked, outcome
<1> QED
  BY <1>1, ContractInit, OwnReplyStep, Invariance, PTL DEF Spec, ImplementsRequest, Contract!Spec
=============================================================================
