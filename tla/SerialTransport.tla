--------------------------- MODULE SerialTransport ---------------------------
(***************************************************************************)
(* One direction of the serial line, byte by byte: SerialTransport's       *)
(* send_message at one end, the line, and at the other end the receiver    *)
(* state machine of check_for_message with the timeout of recv_message     *)
(* (shared/TestStandComm/SerialTransport.cxx).  Frames have no escapes:    *)
(* payloads may hold either delimiter.  The CRC bytes are sent as zero and *)
(* not checked.                                                            *)
(***************************************************************************)
EXTENDS Integers, SequencesExt

CONSTANTS MaxByte,                 \* largest byte (255), and so longest payload
          DelimStart, DelimEnd,    \* MSG_DELIM_START, MSG_DELIM_END
          Messages,                \* the messages that are sent
          MaxSends,                \* bound: messages sent
          MaxFaults                \* bound: bytes lost or changed, frames cut

Byte == 0 .. MaxByte

ASSUME ByteAssumption == /\ MaxByte \in Nat \ {0}
                         /\ DelimStart \in Byte /\ DelimEnd \in Byte
                         /\ DelimStart # DelimEnd
ASSUME MessagesAssumption ==
  \A m \in Messages : /\ m \in [ id : Byte, data : Seq(Byte) ]
                      /\ Len(m.data) <= MaxByte
ASSUME BoundAssumption == MaxSends \in Nat /\ MaxFaults \in Nat

MessageSegments == {"START", "ID", "LENGTH", "DATA", "CRC", "END"}
CrcSize == 2

VARIABLES out,        \* bytes of the current frame still to be written
          line,       \* bytes written and not yet read
          pending,    \* pending_message and msg_in_progress of the receiver
          msg,        \* the receiver's Message, with its data buffer
          sends,      \* messages sent
          faults,     \* faults so far
          aligned,    \* history: no fault since the line was last in order
          sent,       \* history: messages sent since then
          delivered   \* history: messages received since then

receiver == <<pending, msg>>
history  == <<sends, faults, aligned, sent, delivered>>
vars     == <<out, line, receiver, history>>

Frame(m) == <<DelimStart, m.id, Len(m.data)>> \o m.data \o <<0, 0, DelimEnd>>

reset == [ current_segment |-> "START", bytes_read |-> 0, msg_length |-> 0,
           msg_in_progress |-> FALSE ]

(* The payload of the message in the buffer.                               *)
Received == [ id |-> msg.id, data |-> [i \in 1 .. msg.length |-> msg.data[i - 1]] ]

Init == /\ out = <<>> /\ line = <<>>
        /\ pending = reset
        /\ msg = [ id |-> 0, length |-> 0, data |-> [i \in 0 .. MaxByte - 1 |-> 0] ]
        /\ sends = 0 /\ faults = 0
        /\ aligned = TRUE
        /\ sent = <<>> /\ delivered = <<>>

-----------------------------------------------------------------------------
(* The sender and the line.                                                *)

Quiet == line = <<>> /\ pending.current_segment = "START"

(* The history starts anew when a frame is sent over a quiet line.         *)
Send(m) ==
  /\ out = <<>> /\ sends < MaxSends
  /\ out' = Frame(m)
  /\ sends' = sends + 1
  /\ aligned' = (aligned \/ Quiet)
  /\ sent' = IF Quiet THEN <<m>> ELSE Append(sent, m)
  /\ delivered' = IF Quiet THEN <<>> ELSE delivered
  /\ UNCHANGED <<line, receiver, faults>>

Write == /\ out # <<>>
         /\ out' = Tail(out)
         /\ line' = Append(line, Head(out))
         /\ UNCHANGED <<receiver, history>>

Fault == /\ faults < MaxFaults
         /\ faults' = faults + 1
         /\ aligned' = FALSE
         /\ UNCHANGED <<receiver, sends, sent, delivered>>

(* A failed ser_write: send_message returns false with the frame cut short.*)
CutFrame == out # <<>> /\ out' = <<>> /\ Fault /\ UNCHANGED line

LoseByte == line # <<>> /\ line' = Tail(line) /\ Fault /\ UNCHANGED out

ChangeByte == /\ line # <<>>
              /\ \E b \in Byte \ {Head(line)} : line' = <<b>> \o Tail(line)
              /\ Fault /\ UNCHANGED out

-----------------------------------------------------------------------------
(* check_for_message, one byte; one action per segment.                    *)

ReadByte(segment, b) ==
  /\ pending.current_segment = segment
  /\ line # <<>> /\ b = Head(line)
  /\ line' = Tail(line)
  /\ UNCHANGED <<out, sends, faults, aligned, sent>>

(* Mutated form: msg_in_progress is not set.                               *)
ReadStart_NoFlag(b) ==
  /\ ReadByte("START", b)
  /\ pending' = IF b = DelimStart THEN [ pending EXCEPT !.current_segment = "ID" ] ELSE pending
  /\ UNCHANGED <<msg, delivered>>

ReadStart(b) ==
  /\ ReadByte("START", b)
  /\ pending' = IF b = DelimStart
                  THEN [ pending EXCEPT !.msg_in_progress = TRUE, !.current_segment = "ID" ]
                  ELSE pending
  /\ UNCHANGED <<msg, delivered>>

ReadId(b) ==
  /\ ReadByte("ID", b)
  /\ msg' = [ msg EXCEPT !.id = b ]
  /\ pending' = [ pending EXCEPT !.current_segment = "LENGTH" ]
  /\ UNCHANGED delivered

(* Mutated form: an empty payload is waited for.                           *)
ReadLength_NoEmpty(b) ==
  /\ ReadByte("LENGTH", b)
  /\ msg' = [ msg EXCEPT !.length = b ]
  /\ pending' = [ pending EXCEPT !.msg_length = b, !.bytes_read = 0,
                                 !.current_segment = "DATA" ]
  /\ UNCHANGED delivered

ReadLength(b) ==
  /\ ReadByte("LENGTH", b)
  /\ msg' = [ msg EXCEPT !.length = b ]
  /\ pending' = [ pending EXCEPT !.msg_length = b, !.bytes_read = 0,
                                 !.current_segment = IF b = 0 THEN "CRC" ELSE "DATA" ]
  /\ UNCHANGED delivered

(* Mutated forms: the end of a segment is seen one byte late; the index is *)
(* not reset at the end of a segment.                                      *)
Count_OneMore(n, next) ==
  pending' = IF pending.bytes_read = n
               THEN [ pending EXCEPT !.bytes_read = 0, !.current_segment = next ]
               ELSE [ pending EXCEPT !.bytes_read = @ + 1 ]
Count_KeepsIndex(n, next) ==
  pending' = [ pending EXCEPT !.bytes_read = @ + 1,
                              !.current_segment = IF pending.bytes_read + 1 = n THEN next ELSE @ ]

(* The next index of a segment of n bytes, and the segment after it.       *)
Count(n, next) ==
  pending' = IF pending.bytes_read + 1 = n
               THEN [ pending EXCEPT !.bytes_read = 0, !.current_segment = next ]
               ELSE [ pending EXCEPT !.bytes_read = @ + 1 ]

(* Mutated form: a start delimiter in the payload starts a new frame.      *)
ReadData_Restarts(b) ==
  /\ ReadByte("DATA", b)
  /\ msg' = [ msg EXCEPT !.data[pending.bytes_read] = b ]
  /\ IF b = DelimStart THEN pending' = [ pending EXCEPT !.current_segment = "ID" ]
                       ELSE Count(pending.msg_length, "CRC")
  /\ UNCHANGED delivered

ReadData(b) ==
  /\ ReadByte("DATA", b)
  /\ msg' = [ msg EXCEPT !.data[pending.bytes_read] = b ]
  /\ Count(pending.msg_length, "CRC")
  /\ UNCHANGED delivered

ReadCrc(b) ==
  /\ ReadByte("CRC", b)
  /\ Count(CrcSize, "END")
  /\ UNCHANGED <<msg, delivered>>

ReadEnd(b) ==
  /\ ReadByte("END", b)
  /\ pending' = reset
  /\ delivered' = IF b = DelimEnd THEN Append(delivered, Received) ELSE delivered
  /\ UNCHANGED msg

Read == \E b \in Byte : \/ ReadStart(b) \/ ReadId(b) \/ ReadLength(b)
                        \/ ReadData(b) \/ ReadCrc(b) \/ ReadEnd(b)

(* recv_message times out and abandons a message in progress.              *)
Timeout == /\ pending.msg_in_progress
           /\ pending' = reset
           /\ aligned' = FALSE
           /\ UNCHANGED <<out, line, msg, sends, faults, sent, delivered>>

Next == \/ \E m \in Messages : Send(m)
        \/ Write \/ CutFrame \/ LoseByte \/ ChangeByte \/ Read \/ Timeout

Spec == Init /\ [][Next]_vars

(* Bytes that were handed to the device arrive, and the receiver polls.    *)
FairSpec == Spec /\ WF_vars(Write) /\ WF_vars(Read)

-----------------------------------------------------------------------------
TypeOK ==
  /\ out \in Seq(Byte) /\ line \in Seq(Byte)
  /\ pending \in [ current_segment : MessageSegments, bytes_read : Byte,
                   msg_length : Byte, msg_in_progress : BOOLEAN ]
  /\ msg \in [ id : Byte, length : Byte, data : [0 .. MaxByte - 1 -> Byte] ]
  /\ sends \in 0 .. MaxSends /\ faults \in 0 .. MaxFaults
  /\ aligned \in BOOLEAN

(* Whatever bytes arrive, in whatever state a fault or a timeout has left  *)
(* the receiver, a payload byte is stored inside the buffer and inside the *)
(* announced length, and the index of a segment never passes its end,      *)
(* where the == tests of check_for_message would miss it.                  *)
IndexInSegment ==
  /\ pending.current_segment = "DATA" =>
       /\ pending.bytes_read < pending.msg_length
       /\ pending.bytes_read \in DOMAIN msg.data
       /\ msg.length = pending.msg_length
  /\ pending.current_segment = "CRC" => pending.bytes_read < CrcSize

(* msg_in_progress, which the session tests before it sends or receives,   *)
(* is true exactly while a frame is partly read (SerialTransport.h).       *)
InProgressMeansInside == pending.msg_in_progress <=> pending.current_segment # "START"

(* Whatever bytes arrive, the receiver is never lost: it writes inside its *)
(* buffer and the session knows whether a frame is open (check_for_message,*)
(* recv_message).                                                          *)
ReceiverSound == IndexInSegment /\ InProgressMeansInside

(* Since the line was last in order (a frame sent when nothing was under   *)
(* way, and no fault after it), messages arrive complete, unchanged, once  *)
(* each and in order, also those that hold delimiters, and also after      *)
(* faults and abandoned messages before it (check_for_message).            *)
InOrder == aligned => IsPrefix(delivered, sent)

(* In order, every message sent arrives unless a fault or a timeout comes. *)
AllArrive == (aligned /\ Len(delivered) < Len(sent))
               ~> (~ aligned \/ Len(delivered) = Len(sent))
=============================================================================
