----------------------- MODULE SerialTransport_proofs -----------------------
(***************************************************************************)
(* Proofs about SerialTransport, for every byte size, set of messages and  *)
(* number of faults: the receiver is never lost, whatever bytes arrive,    *)
(* and while nothing goes wrong the messages arrive complete and in order. *)
(***************************************************************************)
EXTENDS SerialTransport, SequenceTheorems, TLAPS

Pending == [ current_segment : MessageSegments, bytes_read : Byte,
             msg_length : Byte, msg_in_progress : BOOLEAN ]
Buffer  == [ id : Byte, length : Byte, data : [0 .. MaxByte - 1 -> Byte] ]

(* The receiver's part of TypeOK with the two invariants about it: what    *)
(* every byte must find, and leave.                                        *)
RxInv == /\ pending \in Pending /\ msg \in Buffer
         /\ line \in Seq(Byte)
         /\ IndexInSegment
         /\ InProgressMeansInside

(* The bytes of an alphabet.                                               *)
LEMMA ByteFacts == 0 \in Byte /\ Byte \subseteq Nat /\ \A b \in Byte : b <= MaxByte
BY ByteAssumption DEF Byte

(* A frame is bytes (send_message): the length of a message is one.        *)
LEMMA FrameType ==
  ASSUME NEW m \in Messages
  PROVE  Frame(m) \in Seq(Byte)
<1>1. m.id \in Byte /\ m.data \in Seq(Byte) /\ Len(m.data) \in Byte
  <2>1. m \in [ id : Byte, data : Seq(Byte) ] /\ Len(m.data) <= MaxByte
    BY MessagesAssumption
  <2>2. m.data \in Seq(Byte) /\ Len(m.data) \in Nat
    BY <2>1
  <2> QED
    BY <2>1, <2>2, ByteAssumption DEF Byte
<1>2. <<DelimStart, m.id, Len(m.data)>> \in Seq(Byte)
  BY <1>1, ByteAssumption
<1>3. <<0, 0, DelimEnd>> \in Seq(Byte)
  BY ByteFacts, ByteAssumption
<1> QED
  BY <1>1, <1>2, <1>3 DEF Frame

(* What the receiver is reset to between two frames.                       *)
LEMMA ResetType == reset \in Pending
BY ByteFacts DEF reset, Pending, MessageSegments

(* Between two bytes the receiver's index is inside its segment.           *)
LEMMA CountKeeps ==
  ASSUME RxInv, NEW n \in Nat, n <= MaxByte \/ n = CrcSize, NEW next \in {"CRC", "END"},
         pending.current_segment \in {"DATA", "CRC"}, pending.bytes_read < n,
         Count(n, next)
  PROVE  /\ pending' \in [ current_segment : MessageSegments, bytes_read : Nat,
                           msg_length : Byte, msg_in_progress : BOOLEAN ]
         /\ pending'.bytes_read < n
         /\ pending'.msg_length = pending.msg_length
         /\ pending'.msg_in_progress = pending.msg_in_progress
         /\ \/ pending'.current_segment = pending.current_segment
            \/ pending'.current_segment = next /\ pending'.bytes_read = 0
<1>1. pending.bytes_read \in Nat /\ pending.msg_length \in Byte
  BY ByteFacts DEF RxInv, Pending
<1>2. CASE pending.bytes_read + 1 = n
  <2>1. pending' = [ pending EXCEPT !.bytes_read = 0, !.current_segment = next ]
    BY <1>2 DEF Count
  <2>2. next \in MessageSegments /\ 0 < n
    BY <1>1 DEF MessageSegments
  <2> QED
    BY <2>1, <2>2 DEF RxInv, Pending
<1>3. CASE pending.bytes_read + 1 # n
  <2>1. pending' = [ pending EXCEPT !.bytes_read = pending.bytes_read + 1 ]
    BY <1>3 DEF Count
  <2>2. pending.bytes_read + 1 < n /\ pending.bytes_read + 1 \in Nat
    BY <1>1, <1>3
  <2> QED
    BY <2>1, <2>2 DEF RxInv, Pending
<1> QED
  BY <1>2, <1>3

(* Every byte leaves the receiver in order.                                *)
LEMMA ReadKeeps == RxInv /\ Read => RxInv'
<1> SUFFICES ASSUME RxInv, Read PROVE RxInv'
  OBVIOUS
<1>0. /\ pending \in Pending /\ msg \in Buffer /\ line \in Seq(Byte)
      /\ pending.bytes_read \in Nat
  BY ByteFacts DEF RxInv, Pending
<1>1. PICK b \in Byte : \/ ReadStart(b) \/ ReadId(b) \/ ReadLength(b)
                        \/ ReadData(b) \/ ReadCrc(b) \/ ReadEnd(b)
  BY DEF Read
<1>2. line' \in Seq(Byte)
  BY <1>0, <1>1 DEF ReadStart, ReadId, ReadLength, ReadData, ReadCrc, ReadEnd, ReadByte
<1> USE DEF IndexInSegment, InProgressMeansInside
<1>3. CASE ReadStart(b)
  <2>1. pending.current_segment = "START" /\ msg' = msg
    BY <1>3 DEF ReadStart, ReadByte
  <2>2. \/ pending' = pending
        \/ pending' = [ pending EXCEPT !.msg_in_progress = TRUE, !.current_segment = "ID" ]
    BY <1>3 DEF ReadStart
  <2> QED
    BY <1>0, <1>2, <2>1, <2>2 DEF RxInv, Pending, MessageSegments
<1>4. CASE ReadId(b)
  <2>1. /\ pending.current_segment = "ID" /\ msg' = [ msg EXCEPT !.id = b ]
        /\ pending' = [ pending EXCEPT !.current_segment = "LENGTH" ]
    BY <1>4 DEF ReadId, ReadByte
  <2>2. msg' \in Buffer
    BY <1>0, <2>1 DEF Buffer
  <2>3. pending' \in Pending /\ pending'.current_segment = "LENGTH"
        /\ pending'.msg_in_progress = pending.msg_in_progress
    BY <1>0, <2>1 DEF Pending, MessageSegments
  <2> QED
    BY <1>2, <2>1, <2>2, <2>3 DEF RxInv
<1>5. CASE ReadLength(b)
  <2> DEFINE seg == IF b = 0 THEN "CRC" ELSE "DATA"
  <2>1. /\ pending.current_segment = "LENGTH" /\ msg' = [ msg EXCEPT !.length = b ]
        /\ pending' = [ pending EXCEPT !.msg_length = b, !.bytes_read = 0,
                                       !.current_segment = seg ]
    BY <1>5 DEF ReadLength, ReadByte
  <2>2. msg' \in Buffer /\ msg'.length = b /\ DOMAIN msg'.data = 0 .. MaxByte - 1
    BY <1>0, <2>1 DEF Buffer
  <2>3. pending' \in Pending /\ pending'.current_segment = seg
        /\ pending'.msg_in_progress = pending.msg_in_progress
        /\ pending'.bytes_read = 0 /\ pending'.msg_length = b
    BY <1>0, <2>1, ByteFacts DEF Pending, MessageSegments
  <2>4. b # 0 => 0 < b /\ 0 \in 0 .. MaxByte - 1
    BY ByteFacts, ByteAssumption DEF Byte
  <2>5. pending'.msg_in_progress
    BY <2>1, <2>3 DEF RxInv
  <2>6. CASE b = 0
    BY <1>2, <2>2, <2>3, <2>5, <2>6 DEF RxInv, CrcSize
  <2>7. CASE b # 0
    BY <1>2, <2>2, <2>3, <2>4, <2>5, <2>7 DEF RxInv, CrcSize
  <2> QED
    BY <2>6, <2>7
<1>6. CASE ReadData(b)
  <2>1. /\ pending.current_segment = "DATA" /\ Count(pending.msg_length, "CRC")
        /\ msg' = [ msg EXCEPT !.data[pending.bytes_read] = b ]
    BY <1>6 DEF ReadData, ReadByte
  <2>2. msg' \in Buffer /\ msg'.length = msg.length /\ DOMAIN msg'.data = 0 .. MaxByte - 1
    BY <1>0, <2>1 DEF Buffer
  <2>3. /\ pending.msg_length \in Byte /\ pending.msg_length <= MaxByte
        /\ pending.msg_length \in Nat /\ pending.bytes_read < pending.msg_length
        /\ msg.length = pending.msg_length /\ pending.msg_in_progress
    BY <1>0, <2>1, ByteFacts DEF RxInv, Pending
  <2>4. /\ pending' \in [ current_segment : MessageSegments, bytes_read : Nat,
                          msg_length : Byte, msg_in_progress : BOOLEAN ]
        /\ pending'.bytes_read < pending.msg_length
        /\ pending'.msg_length = pending.msg_length
        /\ pending'.msg_in_progress = pending.msg_in_progress
        /\ \/ pending'.current_segment = "DATA"
           \/ pending'.current_segment = "CRC" /\ pending'.bytes_read = 0
    BY <2>1, <2>3, CountKeeps
  <2>5. pending'.bytes_read \in Byte /\ pending'.bytes_read \in 0 .. MaxByte - 1
    BY <2>3, <2>4, ByteAssumption DEF Byte
  <2>6. pending' \in Pending
    BY <2>4, <2>5 DEF Pending
  <2> QED
    BY <1>2, <2>2, <2>3, <2>4, <2>5, <2>6 DEF RxInv, CrcSize
<1>7. CASE ReadCrc(b)
  <2>1. /\ pending.current_segment = "CRC" /\ Count(CrcSize, "END") /\ msg' = msg
    BY <1>7 DEF ReadCrc, ReadByte
  <2>2. pending.bytes_read < CrcSize /\ CrcSize \in Nat /\ pending.msg_in_progress
    BY <2>1 DEF RxInv, CrcSize
  <2>3. /\ pending' \in [ current_segment : MessageSegments, bytes_read : Nat,
                          msg_length : Byte, msg_in_progress : BOOLEAN ]
        /\ pending'.bytes_read < CrcSize
        /\ pending'.msg_in_progress = pending.msg_in_progress
        /\ \/ pending'.current_segment = "CRC"
           \/ pending'.current_segment = "END" /\ pending'.bytes_read = 0
    BY <2>1, <2>2, CountKeeps
  <2>4. pending'.bytes_read \in Byte
    BY <2>3, ByteAssumption DEF Byte, CrcSize
  <2>5. pending' \in Pending
    BY <2>3, <2>4 DEF Pending
  <2> QED
    BY <1>0, <1>2, <2>1, <2>2, <2>3, <2>5 DEF RxInv
<1>8. CASE ReadEnd(b)
  <2>1. pending' = reset /\ msg' = msg
    BY <1>8 DEF ReadEnd
  <2> QED
    BY <1>0, <1>2, <2>1, ResetType DEF RxInv, reset
<1> QED
  BY <1>1, <1>3, <1>4, <1>5, <1>6, <1>7, <1>8

(* The rest of TypeOK.                                                     *)
TxType == /\ out \in Seq(Byte)
          /\ sends \in 0 .. MaxSends /\ faults \in 0 .. MaxFaults
          /\ aligned \in BOOLEAN

(* The receiver's invariant holds in every state, on any line.             *)
THEOREM ReceiverInvariant == Spec => [](RxInv /\ TxType)
<1>1. Init => RxInv /\ TxType
  <2> SUFFICES ASSUME Init PROVE RxInv /\ TxType
    OBVIOUS
  <2>1. msg \in Buffer
    BY ByteFacts DEF Init, Buffer
  <2>2. pending = reset /\ line = <<>>
    BY DEF Init
  <2>3. RxInv
    BY <2>1, <2>2, ResetType DEF RxInv, reset, IndexInSegment, InProgressMeansInside
  <2> QED
    BY <2>3, BoundAssumption DEF Init, TxType
<1>2. RxInv /\ TxType /\ [Next]_vars => (RxInv /\ TxType)'
  <2> SUFFICES ASSUME RxInv, TxType, [Next]_vars PROVE RxInv' /\ TxType'
    OBVIOUS
  <2>0. /\ line \in Seq(Byte) /\ out \in Seq(Byte)
        /\ sends \in Nat /\ faults \in Nat
    BY BoundAssumption DEF RxInv, TxType
  <2> DEFINE Still == UNCHANGED receiver /\ line' \in Seq(Byte)
  <2>1. Still => RxInv'
    BY DEF RxInv, receiver, IndexInSegment, InProgressMeansInside
  <2>2. ASSUME NEW m \in Messages, Send(m) PROVE RxInv' /\ TxType'
    <3>1. sends' \in 0 .. MaxSends
      BY <2>0, <2>2, BoundAssumption DEF Send
    <3>2. aligned' \in BOOLEAN
      BY <2>2 DEF Send, TxType, Quiet
    <3> QED
      BY <2>0, <2>1, <2>2, <3>1, <3>2, FrameType DEF Send, TxType
  <2>3. CASE Write
    <3>1. line' \in Seq(Byte) /\ out' \in Seq(Byte)
      BY <2>0, <2>3 DEF Write
    <3> QED
      BY <2>1, <2>3, <3>1 DEF Write, TxType, history
  <2>4. CASE CutFrame \/ LoseByte \/ ChangeByte
    <3>1. line' \in Seq(Byte) /\ out' \in Seq(Byte)
      <4>1. CASE CutFrame
        BY <2>0, <4>1 DEF CutFrame
      <4>2. CASE LoseByte
        BY <2>0, <4>2 DEF LoseByte
      <4>3. CASE ChangeByte
        <5>1. PICK b \in Byte : line' = <<b>> \o Tail(line)
          BY <4>3 DEF ChangeByte
        <5>2. <<b>> \in Seq(Byte) /\ Tail(line) \in Seq(Byte)
          BY <2>0, <4>3 DEF ChangeByte
        <5> QED
          BY <2>0, <4>3, <5>1, <5>2 DEF ChangeByte
      <4> QED
        BY <2>4, <4>1, <4>2, <4>3
    <3>2. Fault
      BY <2>4 DEF CutFrame, LoseByte, ChangeByte
    <3>3. faults' \in 0 .. MaxFaults
      BY <2>0, <3>2, BoundAssumption DEF Fault
    <3> QED
      BY <2>1, <3>1, <3>2, <3>3 DEF Fault, TxType
  <2>5. CASE Read
    <3>1. TxType'
      BY <2>5 DEF Read, ReadStart, ReadId, ReadLength, ReadData, ReadCrc, ReadEnd,
         ReadByte, TxType
    <3> QED
      BY <2>5, <3>1, ReadKeeps
  <2>6. CASE Timeout
    <3>1. pending' = reset /\ msg' = msg /\ line' = line
      BY <2>6 DEF Timeout
    <3>2. RxInv'
      BY <3>1, ResetType DEF RxInv, reset, IndexInSegment, InProgressMeansInside
    <3> QED
      BY <2>6, <3>2 DEF Timeout, TxType
  <2>7. CASE UNCHANGED vars
    BY <2>0, <2>1, <2>7 DEF vars, history, TxType
  <2> QED
    BY <2>2, <2>3, <2>4, <2>5, <2>6, <2>7 DEF Next
<1> QED
  BY <1>1, <1>2, PTL DEF Spec

(* Every state has the types of TypeOK.                                    *)
THEOREM TypeCorrect == Spec => []TypeOK
<1>1. RxInv /\ TxType => TypeOK
  BY DEF RxInv, TxType, TypeOK, Pending, Buffer
<1> QED
  BY <1>1, ReceiverInvariant, PTL

(* No sequence of bytes, faults and timeouts takes an index out of its     *)
(* segment or of the buffer.                                               *)
THEOREM IndexBounded == Spec => []IndexInSegment
<1>1. RxInv => IndexInSegment
  BY DEF RxInv
<1> QED
  BY <1>1, ReceiverInvariant, PTL

(* The session can trust msg_in_progress.                                  *)
THEOREM InProgressIsTrue == Spec => []InProgressMeansInside
<1>1. RxInv => InProgressMeansInside
  BY DEF RxInv
<1> QED
  BY <1>1, ReceiverInvariant, PTL

(* The receiver is never lost, whatever bytes arrive.                      *)
THEOREM ReceiverIsSound == Spec => []ReceiverSound
<1>1. IndexInSegment /\ InProgressMeansInside => ReceiverSound
  BY DEF ReceiverSound
<1> QED
  BY <1>1, IndexBounded, InProgressIsTrue, PTL

-----------------------------------------------------------------------------
(* The bytes that are under way, from those still to be read to those      *)
(* still to be written: each has its place in a frame of a message that    *)
(* was sent, and the frames follow each other up to the end of the last.   *)
FrameLen(m) == Len(m.data) + 6
rest == line \o out

Framed(w, s, fr, ix) ==
  /\ fr \in [ 1 .. Len(w) -> 1 .. Len(s) ] /\ ix \in [ 1 .. Len(w) -> Nat ]
  /\ \A i \in 1 .. Len(w) :
       ix[i] \in 1 .. FrameLen(s[fr[i]]) /\ w[i] = Frame(s[fr[i]])[ix[i]]
  /\ \A i \in 1 .. Len(w) - 1 :
       IF ix[i] = FrameLen(s[fr[i]]) THEN fr[i + 1] = fr[i] + 1 /\ ix[i + 1] = 1
                                     ELSE fr[i + 1] = fr[i] /\ ix[i + 1] = ix[i] + 1
  /\ Len(w) > 0 => fr[Len(w)] = Len(s) /\ ix[Len(w)] = FrameLen(s[Len(s)])

(* The frame's byte that the receiver waits for.                           *)
AtByte(i) ==
  LET segment == pending.current_segment
  IN  /\ segment = "START"  => i = 1
      /\ segment = "ID"     => i = 2
      /\ segment = "LENGTH" => i = 3
      /\ segment = "DATA"   => i = 4 + pending.bytes_read
      /\ segment = "CRC"    => i = 4 + pending.msg_length + pending.bytes_read
      /\ segment = "END"    => i = 6 + pending.msg_length

(* What the receiver has of m.                                             *)
Holding(m) ==
  LET segment == pending.current_segment
  IN  /\ segment \in {"LENGTH", "DATA", "CRC", "END"} => msg.id = m.id
      /\ segment \in {"DATA", "CRC", "END"} =>
           msg.length = Len(m.data) /\ pending.msg_length = Len(m.data)
      /\ segment = "DATA" => \A j \in 1 .. pending.bytes_read : msg.data[j - 1] = m.data[j]
      /\ segment \in {"CRC", "END"} => \A j \in 1 .. Len(m.data) : msg.data[j - 1] = m.data[j]

(* The first byte under way is the one the receiver waits for, of the frame*)
(* of the message after the delivered ones.                                *)
UnderWay == \E fr, ix :
  /\ Framed(rest, sent, fr, ix)
  /\ rest # <<>> => fr[1] = Len(delivered) + 1 /\ AtByte(ix[1])

(* The inductive invariant: what is under way, what the receiver has of it,*)
(* and what was delivered make up what was sent.                           *)
Stream == aligned =>
  /\ sent \in Seq(Messages) /\ delivered \in Seq(Messages)
  /\ Len(delivered) <= Len(sent)
  /\ \A i \in 1 .. Len(delivered) : delivered[i] = sent[i]
  /\ UnderWay
  /\ rest = <<>> => Len(delivered) = Len(sent) /\ pending.current_segment = "START"
  /\ pending.current_segment # "START" => Holding(sent[Len(delivered) + 1])

(* The bytes of the frame of m, by their places.                            *)
LEMMA FrameBytes ==
  ASSUME NEW m \in Messages
  PROVE  /\ m.id \in Byte /\ m.data \in Seq(Byte) /\ Len(m.data) \in Byte /\ Len(m.data) \in Nat
         /\ FrameLen(m) \in Nat /\ Frame(m) \in Seq(Byte) /\ Len(Frame(m)) = FrameLen(m)
         /\ Frame(m)[1] = DelimStart /\ Frame(m)[2] = m.id /\ Frame(m)[3] = Len(m.data)
         /\ \A j \in 1 .. Len(m.data) : Frame(m)[3 + j] = m.data[j]
         /\ Frame(m)[FrameLen(m)] = DelimEnd
<1>1. m.id \in Byte /\ m.data \in Seq(Byte) /\ Len(m.data) \in Byte /\ Len(m.data) \in Nat
  <2>1. m \in [ id : Byte, data : Seq(Byte) ] /\ Len(m.data) <= MaxByte
    BY MessagesAssumption
  <2>2. m.data \in Seq(Byte) /\ Len(m.data) \in Nat
    BY <2>1
  <2> QED
    BY <2>1, <2>2, ByteAssumption DEF Byte
<1> DEFINE d == m.data
           n == Len(d)
           head == <<DelimStart, m.id, n>>
           tail == <<0, 0, DelimEnd>>
           front == head \o d
<1>2. /\ head \in Seq(Byte) /\ Len(head) = 3
      /\ head[1] = DelimStart /\ head[2] = m.id /\ head[3] = n
  BY <1>1, ByteAssumption
<1>3. tail \in Seq(Byte) /\ Len(tail) = 3 /\ tail[3] = DelimEnd
  BY ByteFacts, ByteAssumption
<1>4. Frame(m) = front \o tail
  BY DEF Frame
<1>5. d \in Seq(Byte) /\ n \in Nat /\ n = Len(d)
  BY <1>1
<1> HIDE DEF d, n, head, tail
<1>6. /\ front \in Seq(Byte) /\ Len(front) = 3 + n
      /\ \A i \in 1 .. 3 + n : front[i] = IF i <= 3 THEN head[i] ELSE d[i - 3]
  <2>1. /\ head \o d \in Seq(Byte) /\ Len(head \o d) = Len(head) + Len(d)
        /\ \A i \in 1 .. Len(head) + Len(d) : (head \o d)[i] =
             IF i <= Len(head) THEN head[i] ELSE d[i - Len(head)]
    BY ONLY <1>2, <1>5, ConcatProperties
  <2> QED
    BY <1>2, <1>5, <2>1
<1> HIDE DEF front
<1>7. /\ Frame(m) \in Seq(Byte) /\ Len(Frame(m)) = n + 6
      /\ \A i \in 1 .. n + 6 : Frame(m)[i] = IF i <= 3 + n THEN front[i] ELSE tail[i - (3 + n)]
  <2>1. /\ front \o tail \in Seq(Byte) /\ Len(front \o tail) = Len(front) + Len(tail)
        /\ \A i \in 1 .. Len(front) + Len(tail) : (front \o tail)[i] =
             IF i <= Len(front) THEN front[i] ELSE tail[i - Len(front)]
    BY ONLY <1>3, <1>6, ConcatProperties
  <2>2. Len(front) + Len(tail) = n + 6 /\ Len(front) = 3 + n
    BY ONLY <1>3, <1>5, <1>6
  <2> QED
    BY <1>4, <2>1, <2>2
<1>8. /\ Frame(m)[1] = front[1] /\ Frame(m)[2] = front[2] /\ Frame(m)[3] = front[3]
      /\ Frame(m)[n + 6] = tail[3]
      /\ \A j \in 1 .. n : Frame(m)[3 + j] = front[3 + j]
  BY ONLY <1>5, <1>7
<1>9. /\ front[1] = head[1] /\ front[2] = head[2] /\ front[3] = head[3]
      /\ \A j \in 1 .. n : front[3 + j] = d[j]
  BY ONLY <1>5, <1>6
<1> QED
  BY <1>1, <1>2, <1>3, <1>5, <1>7, <1>8, <1>9 DEF FrameLen, d, n

(* A frame written behind the others.                                      *)
LEMMA FrameSend ==
  ASSUME NEW w \in Seq(Byte), NEW s \in Seq(Messages), NEW m \in Messages,
         NEW fr, NEW ix, Framed(w, s, fr, ix)
  PROVE  \E fr2, ix2 :
           /\ Framed(w \o Frame(m), Append(s, m), fr2, ix2)
           /\ IF w = <<>> THEN fr2[1] = Len(s) + 1 /\ ix2[1] = 1
                          ELSE fr2[1] = fr[1] /\ ix2[1] = ix[1]
<1> DEFINE n == Len(w)
           k == Len(s)
           L == FrameLen(m)
           f == Frame(m)
           w2 == w \o f
           s2 == Append(s, m)
           fr2 == [ i \in 1 .. n + L |-> IF i <= n THEN fr[i] ELSE k + 1 ]
           ix2 == [ i \in 1 .. n + L |-> IF i <= n THEN ix[i] ELSE i - n ]
           len(i) == FrameLen(s[fr[i]])
           len2(i) == FrameLen(s2[fr2[i]])
<1>1. n \in Nat /\ k \in Nat /\ L \in Nat /\ L >= 6 /\ f \in Seq(Byte) /\ Len(f) = L
  BY FrameBytes DEF FrameLen
<1>2. /\ Len(w2) = n + L
      /\ \A i \in 1 .. n : w2[i] = w[i]
      /\ \A i \in n + 1 .. n + L : w2[i] = f[i - n]
  <2>1. /\ Len(w \o f) = Len(w) + Len(f)
        /\ \A i \in 1 .. Len(w) + Len(f) :
             (w \o f)[i] = IF i <= Len(w) THEN w[i] ELSE f[i - Len(w)]
    BY <1>1, ConcatProperties
  <2> QED
    BY <1>1, <2>1
<1>3. /\ Len(s2) = k + 1 /\ s2[k + 1] = m /\ \A j \in 1 .. k : s2[j] = s[j]
  BY <1>1, AppendProperties
<1>4. /\ \A i \in 1 .. n : fr[i] \in 1 .. k /\ ix[i] \in Nat
      /\ \A i \in 1 .. n : ix[i] \in 1 .. len(i) /\ w[i] = Frame(s[fr[i]])[ix[i]]
      /\ \A i \in 1 .. n - 1 :
           IF ix[i] = len(i) THEN fr[i + 1] = fr[i] + 1 /\ ix[i + 1] = 1
                             ELSE fr[i + 1] = fr[i] /\ ix[i + 1] = ix[i] + 1
      /\ n > 0 => fr[n] = k /\ ix[n] = FrameLen(s[k])
  BY DEF Framed
<1>5. /\ \A i \in 1 .. n : fr2[i] = fr[i] /\ ix2[i] = ix[i]
      /\ \A i \in n + 1 .. n + L : fr2[i] = k + 1 /\ ix2[i] = i - n
  BY <1>1
<1>6. /\ \A i \in 1 .. n : len2(i) = len(i) /\ Frame(s2[fr2[i]]) = Frame(s[fr[i]])
      /\ \A i \in n + 1 .. n + L : len2(i) = L /\ Frame(s2[fr2[i]]) = f
  BY <1>3, <1>4, <1>5
<1>7. fr2 \in [ 1 .. n + L -> 1 .. k + 1 ] /\ ix2 \in [ 1 .. n + L -> Nat ]
  BY <1>1, <1>4
<1>8. fr2[n + L] = Len(s2) /\ ix2[n + L] = FrameLen(s2[Len(s2)])
  BY <1>1, <1>3, <1>5
<1> HIDE DEF n, k, L, f, w2, s2, fr2, ix2, len, len2
<1>9. \A i \in 1 .. n + L : ix2[i] \in 1 .. len2(i) /\ w2[i] = Frame(s2[fr2[i]])[ix2[i]]
  <2> TAKE i \in 1 .. n + L
  <2>1. CASE i \in 1 .. n
    BY <1>2, <1>4, <1>5, <1>6, <2>1
  <2>2. CASE i \in n + 1 .. n + L
    BY <1>1, <1>2, <1>5, <1>6, <2>2
  <2> QED
    BY <1>1, <2>1, <2>2
<1>10. \A i \in 1 .. n + L - 1 :
         IF ix2[i] = len2(i) THEN fr2[i + 1] = fr2[i] + 1 /\ ix2[i + 1] = 1
                             ELSE fr2[i + 1] = fr2[i] /\ ix2[i + 1] = ix2[i] + 1
  <2> TAKE i \in 1 .. n + L - 1
  <2>1. CASE i \in 1 .. n - 1
    <3>1. i \in 1 .. n /\ i + 1 \in 1 .. n
      BY <1>1, <2>1
    <3>2. /\ fr2[i] = fr[i] /\ ix2[i] = ix[i] /\ len2(i) = len(i)
          /\ fr2[i + 1] = fr[i + 1] /\ ix2[i + 1] = ix[i + 1]
      BY <1>5, <1>6, <3>1
    <3>3. IF ix[i] = len(i) THEN fr[i + 1] = fr[i] + 1 /\ ix[i + 1] = 1
                            ELSE fr[i + 1] = fr[i] /\ ix[i + 1] = ix[i] + 1
      BY <1>4, <2>1
    <3> QED
      BY <3>2, <3>3
  <2>2. CASE i = n
    <3>1. n \in 1 .. n /\ n + 1 \in n + 1 .. n + L /\ n > 0
      BY <1>1, <2>2
    <3>2. fr2[n] = k /\ ix2[n] = len2(n)
      BY <1>4, <1>5, <1>6, <3>1 DEF len
    <3>3. fr2[n + 1] = k + 1 /\ ix2[n + 1] = n + 1 - n
      BY <1>5, <3>1
    <3> QED
      BY <1>1, <2>2, <3>2, <3>3
  <2>3. CASE i \in n + 1 .. n + L - 1
    BY <1>1, <1>5, <1>6, <2>3
  <2> QED
    BY <1>1, <2>1, <2>2, <2>3
<1>11. Framed(w2, s2, fr2, ix2)
  <2>1. Len(w2) = n + L /\ Len(s2) = k + 1 /\ n + L > 0
    BY <1>1, <1>2, <1>3
  <2>2. fr2 \in [ 1 .. Len(w2) -> 1 .. Len(s2) ] /\ ix2 \in [ 1 .. Len(w2) -> Nat ]
    BY ONLY <1>7, <2>1, Zenon
  <2>3. \A i \in 1 .. Len(w2) :
           ix2[i] \in 1 .. len2(i) /\ w2[i] = Frame(s2[fr2[i]])[ix2[i]]
    BY ONLY <1>9, <2>1
  <2>4. \A i \in 1 .. Len(w2) - 1 :
           IF ix2[i] = len2(i) THEN fr2[i + 1] = fr2[i] + 1 /\ ix2[i + 1] = 1
                               ELSE fr2[i + 1] = fr2[i] /\ ix2[i + 1] = ix2[i] + 1
    <3> TAKE i \in 1 .. Len(w2) - 1
    <3>1. i \in 1 .. n + L - 1
      BY <1>1, <2>1
    <3> QED
      BY <1>10, <3>1, Zenon
  <2>5. fr2[Len(w2)] = Len(s2) /\ ix2[Len(w2)] = FrameLen(s2[Len(s2)])
    BY ONLY <1>8, <2>1, Zenon
  <2> QED
    BY ONLY <2>2, <2>3, <2>4, <2>5, Zenon DEF Framed, len2
<1>12. IF w = <<>> THEN fr2[1] = Len(s) + 1 /\ ix2[1] = 1
                  ELSE fr2[1] = fr[1] /\ ix2[1] = ix[1]
  <2>1. CASE n = 0
    BY <1>1, <1>5, <2>1 DEF k, n
  <2>2. CASE n > 0
    BY <1>1, <1>5, <2>2 DEF n
  <2>3. w = <<>> <=> n = 0
    BY DEF n
  <2> QED
    BY <1>1, <2>1, <2>2, <2>3
<1> QED
  BY <1>11, <1>12 DEF w2, s2, f

(* The first byte is read: it has its place in a frame that was sent, and  *)
(* fr2 and ix2 are the places of the others.                               *)
WithoutFirst(w, s, fr, ix, fr2, ix2) ==
  /\ Framed(Tail(w), s, fr2, ix2)
  /\ fr[1] \in 1 .. Len(s) /\ ix[1] \in 1 .. FrameLen(s[fr[1]])
  /\ w[1] = Frame(s[fr[1]])[ix[1]]
  /\ IF Tail(w) = <<>>
       THEN fr[1] = Len(s) /\ ix[1] = FrameLen(s[fr[1]])
       ELSE IF ix[1] = FrameLen(s[fr[1]])
              THEN fr2[1] = fr[1] + 1 /\ ix2[1] = 1
              ELSE fr2[1] = fr[1] /\ ix2[1] = ix[1] + 1

(* The bytes under way without the first are still places of the frames.   *)
LEMMA FrameTail ==
  ASSUME NEW w \in Seq(Byte), w # <<>>, NEW s \in Seq(Messages),
         NEW fr, NEW ix, Framed(w, s, fr, ix)
  PROVE  \E fr2, ix2 : WithoutFirst(w, s, fr, ix, fr2, ix2)
<1> DEFINE n == Len(w)
           v == Tail(w)
           fr2 == [ i \in 1 .. n - 1 |-> fr[i + 1] ]
           ix2 == [ i \in 1 .. n - 1 |-> ix[i + 1] ]
           len(i) == FrameLen(s[fr[i]])
           len2(i) == FrameLen(s[fr2[i]])
<1>1. n \in Nat /\ n > 0
  BY EmptySeq
<1>2. Len(v) = n - 1 /\ \A i \in 1 .. n - 1 : v[i] = w[i + 1]
  BY HeadTailProperties
<1>3. v = <<>> <=> n = 1
  <2>1. v \in Seq(Byte)
    BY HeadTailProperties
  <2> HIDE DEF v, n
  <2> QED
    BY <1>1, <1>2, <2>1, EmptySeq
<1>4. /\ \A i \in 1 .. n : fr[i] \in 1 .. Len(s) /\ ix[i] \in Nat
      /\ \A i \in 1 .. n : ix[i] \in 1 .. len(i) /\ w[i] = Frame(s[fr[i]])[ix[i]]
      /\ \A i \in 1 .. n - 1 :
           IF ix[i] = len(i) THEN fr[i + 1] = fr[i] + 1 /\ ix[i + 1] = 1
                             ELSE fr[i + 1] = fr[i] /\ ix[i + 1] = ix[i] + 1
      /\ fr[n] = Len(s) /\ ix[n] = FrameLen(s[Len(s)])
  BY <1>1 DEF Framed
<1>5. \A i \in 1 .. n - 1 : fr2[i] = fr[i + 1] /\ ix2[i] = ix[i + 1] /\ len2(i) = len(i + 1)
  OBVIOUS
<1>6. fr2 \in [ 1 .. n - 1 -> 1 .. Len(s) ] /\ ix2 \in [ 1 .. n - 1 -> Nat ]
  BY <1>1, <1>4
<1>7. \A i \in 1 .. n - 1 : ix2[i] \in 1 .. len2(i) /\ v[i] = Frame(s[fr2[i]])[ix2[i]]
  <2> TAKE i \in 1 .. n - 1
  <2>1. i + 1 \in 1 .. n
    BY <1>1
  <2> QED
    BY <1>2, <1>4, <1>5, <2>1
<1> HIDE DEF n, v, fr2, ix2, len, len2
<1>8. \A i \in 1 .. n - 1 - 1 :
        IF ix2[i] = len2(i) THEN fr2[i + 1] = fr2[i] + 1 /\ ix2[i + 1] = 1
                            ELSE fr2[i + 1] = fr2[i] /\ ix2[i + 1] = ix2[i] + 1
  <2> TAKE i \in 1 .. n - 1 - 1
  <2>1. i \in 1 .. n - 1 /\ i + 1 \in 1 .. n - 1
    BY <1>1
  <2> QED
    BY <1>4, <1>5, <2>1
<1>9. n - 1 > 0 => fr2[n - 1] = Len(s) /\ ix2[n - 1] = FrameLen(s[Len(s)])
  <2> SUFFICES ASSUME n - 1 > 0 PROVE fr2[n - 1] = Len(s) /\ ix2[n - 1] = FrameLen(s[Len(s)])
    OBVIOUS
  <2>1. n - 1 \in 1 .. n - 1 /\ n - 1 + 1 = n
    BY <1>1
  <2> QED
    BY <1>4, <1>5, <2>1
<1>10. Framed(v, s, fr2, ix2)
  BY <1>1, <1>2, <1>6, <1>7, <1>8, <1>9 DEF Framed, len2
<1>11. fr[1] \in 1 .. Len(s) /\ ix[1] \in 1 .. FrameLen(s[fr[1]])
       /\ w[1] = Frame(s[fr[1]])[ix[1]]
  BY <1>1, <1>4 DEF len
<1>12. CASE n = 1
  BY <1>3, <1>4, <1>10, <1>11, <1>12 DEF v, WithoutFirst
<1>13. CASE n > 1
  <2>1. 1 \in 1 .. n - 1 /\ 1 + 1 = 2 /\ n # 1
    BY <1>1, <1>13
  <2>2. IF ix[1] = len(1) THEN fr2[1] = fr[1] + 1 /\ ix2[1] = 1
                          ELSE fr2[1] = fr[1] /\ ix2[1] = ix[1] + 1
    BY <1>4, <1>5, <2>1
  <2> QED
    BY <1>3, <1>10, <1>11, <2>1, <2>2 DEF v, len, WithoutFirst
<1> QED
  BY <1>1, <1>12, <1>13

(* Byte i of the frame of m is read as what it is; with the last, m is     *)
(* delivered as it was sent.                                               *)
LEMMA ReadFrame ==
  ASSUME RxInv, RxInv', NEW m \in Messages, NEW i \in 1 .. FrameLen(m), AtByte(i),
         pending.current_segment # "START" => Holding(m),
         NEW b \in Byte, b = Frame(m)[i],
         \/ ReadStart(b) \/ ReadId(b) \/ ReadLength(b)
         \/ ReadData(b) \/ ReadCrc(b) \/ ReadEnd(b)
  PROVE  IF i = FrameLen(m)
           THEN /\ pending'.current_segment = "START"
                /\ delivered' = Append(delivered, m)
           ELSE /\ pending'.current_segment # "START" /\ AtByte(i + 1)' /\ Holding(m)'
                /\ delivered' = delivered
<1> DEFINE n == Len(m.data)
           segment == pending.current_segment
           new == pending'.current_segment
           Goal == IF i = FrameLen(m)
                     THEN /\ pending'.current_segment = "START"
                          /\ delivered' = Append(delivered, m)
                     ELSE /\ pending'.current_segment # "START" /\ AtByte(i + 1)' /\ Holding(m)'
                          /\ delivered' = delivered
<1>0. /\ pending \in Pending /\ msg \in Buffer
      /\ pending.bytes_read \in Nat /\ pending.msg_length \in Nat
  BY ByteFacts DEF RxInv, Pending
<1>1. /\ m.id \in Byte /\ m.data \in Seq(Byte) /\ n \in Byte /\ n \in Nat
      /\ FrameLen(m) = n + 6 /\ i \in Nat
      /\ Frame(m)[1] = DelimStart /\ Frame(m)[2] = m.id /\ Frame(m)[3] = n
      /\ \A j \in 1 .. n : Frame(m)[3 + j] = m.data[j]
      /\ Frame(m)[n + 6] = DelimEnd
  BY FrameBytes DEF FrameLen
<1> HIDE DEF n
<1>2. CASE ReadStart(b)
  <2>1. segment = "START" /\ delivered' = delivered
    BY <1>2 DEF ReadStart, ReadByte
  <2>2. i = 1 /\ b = DelimStart
    BY <1>1, <2>1 DEF AtByte
  <2>3. new = "ID"
    BY <1>0, <1>2, <2>2 DEF ReadStart, Pending
  <2>4. AtByte(i + 1)' /\ Holding(m)'
    BY <2>2, <2>3 DEF AtByte, Holding
  <2> QED
    BY <1>1, <2>1, <2>2, <2>3, <2>4
<1>3. CASE ReadId(b)
  <2>1. /\ segment = "ID" /\ delivered' = delivered /\ msg' = [ msg EXCEPT !.id = b ]
        /\ pending' = [ pending EXCEPT !.current_segment = "LENGTH" ]
    BY <1>3 DEF ReadId, ReadByte
  <2>2. i = 2 /\ b = m.id
    BY <1>1, <2>1 DEF AtByte
  <2>3. new = "LENGTH" /\ msg'.id = m.id
    BY <1>0, <2>1, <2>2 DEF Pending, Buffer
  <2>4. AtByte(i + 1)' /\ Holding(m)'
    BY <2>2, <2>3 DEF AtByte, Holding
  <2> QED
    BY <1>1, <2>1, <2>2, <2>3, <2>4
<1>4. CASE ReadLength(b)
  <2>1. /\ segment = "LENGTH" /\ delivered' = delivered /\ msg' = [ msg EXCEPT !.length = b ]
        /\ pending' = [ pending EXCEPT !.msg_length = b, !.bytes_read = 0,
                                       !.current_segment = IF b = 0 THEN "CRC" ELSE "DATA" ]
    BY <1>4 DEF ReadLength, ReadByte
  <2>2. i = 3 /\ b = n /\ msg.id = m.id
    BY <1>1, <2>1 DEF AtByte, Holding
  <2>3. /\ new = IF n = 0 THEN "CRC" ELSE "DATA"
        /\ pending'.bytes_read = 0 /\ pending'.msg_length = n
        /\ msg'.id = m.id /\ msg'.length = n
    BY <1>0, <2>1, <2>2 DEF Pending, Buffer
  <2>4. AtByte(i + 1)'
    BY <1>1, <2>2, <2>3 DEF AtByte
  <2>5. Holding(m)'
    BY <1>1, <2>3 DEF Holding, n
  <2> QED
    BY <1>1, <2>1, <2>2, <2>3, <2>4, <2>5
<1>5. CASE ReadData(b)
  <2>1. /\ segment = "DATA" /\ delivered' = delivered
        /\ msg' = [ msg EXCEPT !.data[pending.bytes_read] = b ]
        /\ Count(pending.msg_length, "CRC")
    BY <1>5 DEF ReadData, ReadByte
  <2>2. /\ msg.id = m.id /\ msg.length = n /\ pending.msg_length = n
        /\ \A j \in 1 .. pending.bytes_read : msg.data[j - 1] = m.data[j]
    BY <2>1 DEF Holding, n
  <2>3. /\ pending.bytes_read < n /\ pending.bytes_read \in 0 .. MaxByte - 1
    BY <1>0, <2>1, <2>2 DEF RxInv, IndexInSegment, Buffer
  <2>4. i = 4 + pending.bytes_read /\ b = m.data[pending.bytes_read + 1]
    <3>1. i = 4 + pending.bytes_read
      BY <2>1 DEF AtByte
    <3>2. pending.bytes_read + 1 \in 1 .. n /\ 3 + (pending.bytes_read + 1) = i
      BY <1>0, <1>1, <2>3, <3>1
    <3> QED
      BY <1>1, <3>1, <3>2
  <2>5. /\ msg'.id = m.id /\ msg'.length = n
        /\ \A j \in 1 .. pending.bytes_read + 1 : msg'.data[j - 1] = m.data[j]
    <3>1. /\ msg'.id = msg.id /\ msg'.length = msg.length
          /\ msg'.data[pending.bytes_read] = b
          /\ \A l \in 0 .. MaxByte - 1 : l # pending.bytes_read => msg'.data[l] = msg.data[l]
      BY <1>0, <2>1, <2>3 DEF Buffer
    <3>2. ASSUME NEW j \in 1 .. pending.bytes_read + 1 PROVE msg'.data[j - 1] = m.data[j]
      <4>1. CASE j = pending.bytes_read + 1
        BY <1>0, <2>4, <3>1, <4>1
      <4>2. CASE j # pending.bytes_read + 1
        <5>1. /\ j \in 1 .. pending.bytes_read /\ j - 1 # pending.bytes_read
              /\ j - 1 \in 0 .. MaxByte - 1
          BY <1>0, <2>3, <4>2, ByteAssumption
        <5> QED
          BY <2>2, <3>1, <5>1
      <4> QED
        BY <4>1, <4>2
    <3> QED
      BY <2>2, <3>1, <3>2
  <2>6. CASE pending.bytes_read + 1 = n
    <3>1. pending' = [ pending EXCEPT !.bytes_read = 0, !.current_segment = "CRC" ]
      BY <2>1, <2>2, <2>6 DEF Count
    <3>2. new = "CRC" /\ pending'.bytes_read = 0 /\ pending'.msg_length = n
      BY <1>0, <2>2, <3>1 DEF Pending
    <3>3. AtByte(i + 1)'
      BY <1>0, <1>1, <2>4, <2>6, <3>2 DEF AtByte
    <3>4. Holding(m)'
      BY <2>5, <2>6, <3>2 DEF Holding, n
    <3> QED
      BY <1>0, <1>1, <2>1, <2>4, <2>6, <3>2, <3>3, <3>4
  <2>7. CASE pending.bytes_read + 1 # n
    <3>1. pending' = [ pending EXCEPT !.bytes_read = pending.bytes_read + 1 ]
      BY <2>1, <2>2, <2>7 DEF Count
    <3>2. /\ new = "DATA" /\ pending'.bytes_read = pending.bytes_read + 1
          /\ pending'.msg_length = n
      BY <1>0, <2>1, <2>2, <3>1 DEF Pending
    <3>3. AtByte(i + 1)'
      BY <1>0, <1>1, <2>4, <3>2 DEF AtByte
    <3>4. Holding(m)'
      BY <2>5, <3>2 DEF Holding, n
    <3> QED
      BY <1>0, <1>1, <2>1, <2>3, <2>4, <3>2, <3>3, <3>4
  <2> QED
    BY <2>6, <2>7
<1>6. CASE ReadCrc(b)
  <2>1. /\ segment = "CRC" /\ delivered' = delivered /\ msg' = msg /\ Count(2, "END")
    BY <1>6 DEF ReadCrc, ReadByte, CrcSize
  <2>2. /\ msg.id = m.id /\ msg.length = n /\ pending.msg_length = n
        /\ \A j \in 1 .. n : msg.data[j - 1] = m.data[j]
    BY <2>1 DEF Holding, n
  <2>3. pending.bytes_read < 2 /\ i = 4 + n + pending.bytes_read
    BY <2>1, <2>2 DEF RxInv, IndexInSegment, CrcSize, AtByte
  <2>4. CASE pending.bytes_read + 1 = 2
    <3>1. pending' = [ pending EXCEPT !.bytes_read = 0, !.current_segment = "END" ]
      BY <2>1, <2>4 DEF Count
    <3>2. new = "END" /\ pending'.msg_length = n
      BY <1>0, <2>2, <3>1 DEF Pending
    <3>3. AtByte(i + 1)'
      BY <1>0, <1>1, <2>3, <2>4, <3>2 DEF AtByte
    <3>4. Holding(m)'
      BY <2>1, <2>2, <3>2 DEF Holding, n
    <3> QED
      BY <1>0, <1>1, <2>1, <2>3, <3>2, <3>3, <3>4
  <2>5. CASE pending.bytes_read + 1 # 2
    <3>1. pending' = [ pending EXCEPT !.bytes_read = pending.bytes_read + 1 ]
      BY <2>1, <2>5 DEF Count
    <3>2. /\ new = "CRC" /\ pending'.bytes_read = pending.bytes_read + 1
          /\ pending'.msg_length = n
      BY <1>0, <2>1, <2>2, <3>1 DEF Pending
    <3>3. AtByte(i + 1)'
      BY <1>0, <1>1, <2>3, <3>2 DEF AtByte
    <3>4. Holding(m)'
      BY <2>1, <2>2, <3>2 DEF Holding, n
    <3> QED
      BY <1>0, <1>1, <2>1, <2>3, <3>2, <3>3, <3>4
  <2> QED
    BY <2>4, <2>5
<1>7. CASE ReadEnd(b)
  <2>1. /\ segment = "END" /\ pending' = reset
        /\ delivered' = IF b = DelimEnd THEN Append(delivered, Received) ELSE delivered
    BY <1>7 DEF ReadEnd, ReadByte
  <2>2. /\ msg.id = m.id /\ msg.length = n /\ pending.msg_length = n
        /\ \A j \in 1 .. n : msg.data[j - 1] = m.data[j]
    BY <2>1 DEF Holding, n
  <2>3. i = n + 6 /\ b = DelimEnd
    BY <1>1, <2>1, <2>2 DEF AtByte
  <2>4. Received = m
    <3>1. m = [ id |-> m.id, data |-> m.data ]
      BY MessagesAssumption
    <3>2. m.data \in [ 1 .. n -> Byte ]
      BY <1>1 DEF n
    <3>3. [ j \in 1 .. n |-> msg.data[j - 1] ] = m.data
      BY <2>2, <3>2
    <3> QED
      BY <2>2, <3>1, <3>3 DEF Received
  <2> QED
    BY <1>1, <2>1, <2>3, <2>4 DEF reset
<1> QED
  BY <1>2, <1>3, <1>4, <1>5, <1>6, <1>7

(* The bytes under way are a sequence; the line's first is their first.    *)
LEMMA RestType ==
  ASSUME line \in Seq(Byte), out \in Seq(Byte)
  PROVE  /\ rest \in Seq(Byte)
         /\ out = <<>> => rest = line
         /\ line # <<>> => /\ rest # <<>> /\ rest[1] = Head(line)
                           /\ Tail(rest) = Tail(line) \o out
<1>1. rest \in Seq(Byte)
  BY ConcatProperties DEF rest
<1>2. out = <<>> => rest = line
  BY ConcatEmptySeq DEF rest
<1>3. ASSUME line # <<>> PROVE rest # <<>> /\ rest[1] = Head(line) /\ Tail(rest) = Tail(line) \o out
  <2> DEFINE h == Head(line)
             t == Tail(line)
  <2>1. h \in Byte /\ t \in Seq(Byte) /\ <<h>> \in Seq(Byte) /\ line = <<h>> \o t
    BY <1>3
  <2> HIDE DEF h, t
  <2>2. rest = <<h>> \o (t \o out)
    BY <2>1, ConcatAssociative DEF rest
  <2>3. t \o out \in Seq(Byte)
    BY <2>1, ConcatProperties
  <2> DEFINE u == t \o out
  <2> HIDE DEF u
  <2>4. <<h>> \o u # <<>> /\ (<<h>> \o u)[1] = h /\ Tail(<<h>> \o u) = u
    BY <2>1, <2>3 DEF u
  <2> QED
    BY <2>2, <2>4 DEF u, h, t
<1> QED
  BY <1>1, <1>2, <1>3

(* A byte that is written stays under way.                                 *)
LEMMA WriteKeepsRest ==
  ASSUME line \in Seq(Byte), out \in Seq(Byte), Write
  PROVE  rest' = rest
<1> DEFINE h == Head(out)
           t == Tail(out)
<1>1. h \in Byte /\ t \in Seq(Byte) /\ <<h>> \in Seq(Byte) /\ out = <<h>> \o t
  BY DEF Write
<1>2. Append(line, h) = line \o <<h>>
  BY <1>1, AppendIsConcat
<1>3. rest' = Append(line, h) \o t
  BY DEF Write, rest
<1> HIDE DEF h, t
<1>4. (line \o <<h>>) \o t = line \o (<<h>> \o t)
  BY <1>1, ConcatAssociative
<1> QED
  BY <1>1, <1>2, <1>3, <1>4 DEF rest

(* Nothing is under way at first.                                          *)
LEMMA StreamInit == Init => Stream
<1> SUFFICES ASSUME Init PROVE Stream
  OBVIOUS
<1>1. /\ sent = <<>> /\ delivered = <<>> /\ pending.current_segment = "START"
      /\ line = <<>> /\ out = <<>>
  BY DEF Init, reset
<1>2. rest = <<>>
  BY <1>1, RestType
<1>3. UnderWay
  <2> DEFINE none == [ i \in 1 .. 0 |-> 0 ]
  <2>1. none \in [ 1 .. 0 -> 1 .. 0 ] /\ none \in [ 1 .. 0 -> Nat ]
    OBVIOUS
  <2>2. Len(<<>>) = 0
    OBVIOUS
  <2> HIDE DEF none
  <2>3. Framed(<<>>, <<>>, none, none)
    BY <2>1, <2>2 DEF Framed
  <2> QED
    BY <1>1, <1>2, <2>3 DEF UnderWay
<1> QED
  BY <1>1, <1>2, <1>3 DEF Stream

(* A message is sent over a quiet line, or behind the frames under way.    *)
LEMMA StreamSend ==
  ASSUME RxInv, TxType, Stream, NEW m \in Messages, Send(m)
  PROVE  Stream'
<1> SUFFICES ASSUME aligned' PROVE Stream'
  BY DEF Stream
<1> DEFINE s == IF Quiet THEN <<>> ELSE sent
           d == IF Quiet THEN <<>> ELSE delivered
           k == Len(d) + 1
<1>1. /\ out = <<>> /\ out' = Frame(m) /\ line' = line /\ pending' = pending /\ msg' = msg
      /\ sent' = Append(s, m) /\ delivered' = d
  <2>1. Append(<<>>, m) = <<m>>
    OBVIOUS
  <2>2. CASE Quiet
    BY <2>1, <2>2 DEF Send, receiver
  <2>3. CASE ~ Quiet
    BY <2>3 DEF Send, receiver
  <2> QED
    BY <2>2, <2>3
<1>2. line \in Seq(Byte) /\ out \in Seq(Byte) /\ Frame(m) \in Seq(Byte)
  BY FrameType DEF RxInv, TxType
<1>3. rest = line /\ rest \in Seq(Byte) /\ rest' = rest \o Frame(m)
  BY <1>1, <1>2, RestType DEF rest
<1>4. /\ s \in Seq(Messages) /\ d \in Seq(Messages) /\ Len(d) <= Len(s)
      /\ \A i \in 1 .. Len(d) : d[i] = s[i]
      /\ rest = <<>> => Len(d) = Len(s) /\ pending.current_segment = "START"
      /\ pending.current_segment # "START" => Holding(s[k])
      /\ \E fr, ix : /\ Framed(rest, s, fr, ix)
                     /\ rest # <<>> => fr[1] = k /\ AtByte(ix[1])
  <2>1. CASE Quiet
    <3>1. rest = <<>> /\ s = <<>> /\ d = <<>> /\ pending.current_segment = "START"
      BY <1>3, <2>1 DEF Quiet
    <3> DEFINE none == [ i \in 1 .. 0 |-> 0 ]
    <3>2. none \in [ 1 .. 0 -> 1 .. 0 ] /\ none \in [ 1 .. 0 -> Nat ]
      OBVIOUS
    <3>3. Len(<<>>) = 0
      OBVIOUS
    <3> HIDE DEF none
    <3>4. Framed(<<>>, <<>>, none, none)
      BY <3>2, <3>3 DEF Framed
    <3> HIDE DEF s, d
    <3> QED
      BY <3>1, <3>3, <3>4
  <2>2. CASE ~ Quiet
    <3>1. aligned /\ s = sent /\ d = delivered
      BY <2>2 DEF Send
    <3> HIDE DEF s, d
    <3> QED
      BY <3>1 DEF Stream, UnderWay
  <2> QED
    BY <2>1, <2>2
<1> HIDE DEF s, d
<1>5. PICK fr, ix : /\ Framed(rest, s, fr, ix)
                    /\ rest # <<>> => fr[1] = k /\ AtByte(ix[1])
  BY <1>4
<1>6. PICK fr2, ix2 :
        /\ Framed(rest', sent', fr2, ix2)
        /\ IF rest = <<>> THEN fr2[1] = Len(s) + 1 /\ ix2[1] = 1
                          ELSE fr2[1] = fr[1] /\ ix2[1] = ix[1]
  BY <1>1, <1>3, <1>4, <1>5, FrameSend
<1>7. fr2[1] = Len(delivered') + 1 /\ AtByte(ix2[1])'
  <2>1. CASE rest = <<>>
    BY <1>1, <1>4, <1>6, <2>1 DEF AtByte
  <2>2. CASE rest # <<>>
    BY <1>1, <1>5, <1>6, <2>2 DEF AtByte
  <2> QED
    BY <2>1, <2>2
<1>8. UnderWay'
  BY <1>6, <1>7 DEF UnderWay
<1>9. rest' # <<>>
  <2>1. Len(rest \o Frame(m)) = Len(rest) + Len(Frame(m)) /\ Len(Frame(m)) > 0
    BY <1>2, <1>3, ConcatProperties, FrameBytes DEF FrameLen
  <2> QED
    BY <1>2, <1>3, <2>1
<1>10. /\ Len(s) \in Nat /\ Len(d) \in Nat
       /\ sent' \in Seq(Messages) /\ Len(sent') = Len(s) + 1
       /\ \A i \in 1 .. Len(s) : sent'[i] = s[i]
  BY <1>1, <1>4, AppendProperties
<1>11. /\ delivered' \in Seq(Messages) /\ Len(delivered') <= Len(sent')
       /\ \A i \in 1 .. Len(delivered') : delivered'[i] = sent'[i]
  BY <1>1, <1>4, <1>10
<1>12. pending'.current_segment # "START" => Holding(sent[Len(delivered) + 1])'
  <2> SUFFICES ASSUME pending.current_segment # "START"
               PROVE  Holding(sent[Len(delivered) + 1])'
    BY <1>1
  <2>1. rest # <<>> /\ Holding(s[k]) /\ fr[1] = k
    BY <1>4, <1>5
  <2>2. fr[1] \in 1 .. Len(s)
    BY <1>3, <1>4, <1>5, <2>1, FrameTail DEF WithoutFirst
  <2>3. sent'[Len(delivered') + 1] = s[k]
    BY <1>1, <1>10, <2>1, <2>2
  <2> QED
    BY <1>1, <2>1, <2>3 DEF Holding
<1> QED
  BY <1>8, <1>9, <1>10, <1>11, <1>12 DEF Stream

(* A byte is read: the next of the frame that the receiver is in, or the   *)
(* first of the next one.                                                  *)
LEMMA StreamRead ==
  ASSUME RxInv, RxInv', TxType, Stream, Read
  PROVE  Stream'
<1>1. PICK b \in Byte : \/ ReadStart(b) \/ ReadId(b) \/ ReadLength(b)
                        \/ ReadData(b) \/ ReadCrc(b) \/ ReadEnd(b)
  BY DEF Read
<1>2. /\ line # <<>> /\ b = Head(line) /\ line' = Tail(line)
      /\ out' = out /\ aligned' = aligned /\ sent' = sent
  BY <1>1 DEF ReadStart, ReadId, ReadLength, ReadData, ReadCrc, ReadEnd, ReadByte
<1> SUFFICES ASSUME aligned PROVE Stream'
  BY <1>2 DEF Stream
<1>3. /\ rest \in Seq(Byte) /\ rest # <<>> /\ rest[1] = b /\ rest' = Tail(rest)
  BY <1>2, RestType DEF RxInv, TxType, rest
<1> PICK k : k = Len(delivered) + 1
  OBVIOUS
<1> PICK m : m = sent[k]
  OBVIOUS
<1>4. /\ sent \in Seq(Messages) /\ delivered \in Seq(Messages)
      /\ Len(delivered) <= Len(sent) /\ Len(delivered) \in Nat /\ Len(sent) \in Nat
      /\ \A i \in 1 .. Len(delivered) : delivered[i] = sent[i]
      /\ pending.current_segment # "START" => Holding(m)
  BY DEF Stream
<1>5. PICK fr, ix : Framed(rest, sent, fr, ix) /\ fr[1] = k /\ AtByte(ix[1])
  BY <1>3 DEF Stream, UnderWay
<1> DEFINE i == ix[1]
<1>6. PICK fr2, ix2 :
        /\ Framed(rest', sent, fr2, ix2)
        /\ k \in 1 .. Len(sent) /\ i \in 1 .. FrameLen(m) /\ b = Frame(m)[i]
        /\ IF rest' = <<>>
             THEN k = Len(sent) /\ i = FrameLen(m)
             ELSE IF i = FrameLen(m) THEN fr2[1] = k + 1 /\ ix2[1] = 1
                                     ELSE fr2[1] = k /\ ix2[1] = i + 1
  <2>1. PICK fr2, ix2 : WithoutFirst(rest, sent, fr, ix, fr2, ix2)
    BY <1>3, <1>4, <1>5, FrameTail
  <2>2. sent[fr[1]] = m
    BY <1>5
  <2> QED
    BY <1>3, <1>5, <2>1, <2>2 DEF WithoutFirst
<1>7. m \in Messages
  BY <1>4, <1>6
<1>8. IF i = FrameLen(m)
        THEN pending'.current_segment = "START" /\ delivered' = Append(delivered, m)
        ELSE /\ pending'.current_segment # "START" /\ AtByte(i + 1)' /\ Holding(m)'
             /\ delivered' = delivered
  BY <1>1, <1>4, <1>5, <1>6, <1>7, ReadFrame
<1> HIDE DEF i
<1>9. CASE i = FrameLen(m)
  <2>1. pending'.current_segment = "START" /\ delivered' = Append(delivered, m)
    BY <1>8, <1>9
  <2>2. /\ delivered' \in Seq(Messages) /\ Len(delivered') = k /\ delivered'[k] = m
        /\ \A j \in 1 .. Len(delivered) : delivered'[j] = delivered[j]
    BY <1>4, <1>7, <2>1, AppendProperties
  <2>3. Len(delivered') <= Len(sent') /\ \A j \in 1 .. Len(delivered') : delivered'[j] = sent'[j]
    BY <1>2, <1>4, <1>6, <2>2
  <2>4. UnderWay'
    <3>1. rest' # <<>> => fr2[1] = k + 1 /\ ix2[1] = 1
      BY <1>6, <1>9
    <3>2. AtByte(1)'
      BY <2>1 DEF AtByte
    <3> QED
      BY <1>2, <1>6, <2>2, <3>1, <3>2 DEF UnderWay
  <2>5. rest' = <<>> => Len(delivered') = Len(sent')
    BY <1>2, <1>6, <2>2
  <2> QED
    BY <1>2, <1>4, <2>1, <2>2, <2>3, <2>4, <2>5 DEF Stream
<1>10. CASE i # FrameLen(m)
  <2>1. /\ pending'.current_segment # "START" /\ AtByte(i + 1)' /\ Holding(m)'
        /\ delivered' = delivered
    BY <1>8, <1>10
  <2>2. rest' # <<>> /\ fr2[1] = k /\ ix2[1] = i + 1
    BY <1>6, <1>10
  <2>3. UnderWay'
    BY <1>2, <1>6, <2>1, <2>2 DEF UnderWay
  <2> QED
    BY <1>2, <1>4, <2>1, <2>2, <2>3 DEF Stream
<1> QED
  BY <1>9, <1>10

(* Stream holds: by the four lemmas above; a fault or a timeout ends what  *)
(* it says.                                                                *)
THEOREM StreamInvariant == Spec => []Stream
<1>1. RxInv /\ RxInv' /\ TxType /\ Stream /\ [Next]_vars => Stream'
  <2> SUFFICES ASSUME RxInv, RxInv', TxType, Stream, [Next]_vars PROVE Stream'
    OBVIOUS
  <2>1. ASSUME NEW m \in Messages, Send(m) PROVE Stream'
    BY <2>1, StreamSend
  <2>2. CASE Write \/ UNCHANGED vars
    <3>1. rest' = rest
      <4>1. CASE Write
        BY <4>1, WriteKeepsRest DEF RxInv, TxType
      <4>2. CASE UNCHANGED vars
        BY <4>2 DEF vars, rest
      <4> QED
        BY <2>2, <4>1, <4>2
    <3>2. /\ pending' = pending /\ msg' = msg /\ aligned' = aligned
          /\ sent' = sent /\ delivered' = delivered
      BY <2>2 DEF Write, vars, receiver, history
    <3> QED
      BY <3>1, <3>2 DEF Stream, UnderWay, AtByte, Holding
  <2>3. CASE CutFrame \/ LoseByte \/ ChangeByte \/ Timeout
    BY <2>3 DEF CutFrame, LoseByte, ChangeByte, Fault, Timeout, Stream
  <2>4. CASE Read
    BY <2>4, StreamRead
  <2> QED
    BY <2>1, <2>2, <2>3, <2>4 DEF Next
<1> QED
  BY <1>1, StreamInit, ReceiverInvariant, PTL DEF Spec

(* While nothing goes wrong, every message arrives whole, once and in its  *)
(* place, whatever bytes it holds (check_for_message; frames have no       *)
(* escapes).                                                               *)
THEOREM MessagesInOrder == Spec => []InOrder
<1>1. Stream => InOrder
  <2> SUFFICES ASSUME Stream, aligned PROVE IsPrefix(delivered, sent)
    BY DEF InOrder
  <2> DEFINE n == Len(delivered)
  <2>1. /\ sent \in Seq(Messages) /\ delivered \in Seq(Messages)
        /\ n <= Len(sent) /\ n \in Nat /\ Len(sent) \in Nat
        /\ \A i \in 1 .. n : delivered[i] = sent[i]
    BY DEF Stream
  <2> HIDE DEF n
  <2>2. \A i \in 1 .. n : sent[i] \in Messages /\ delivered[i] \in Messages
    BY <2>1 DEF n
  <2>3. SubSeq(delivered, 1, n) = SubSeq(sent, 1, n)
    <3>1. /\ SubSeq(sent, 1, n) \in Seq(Messages)
          /\ Len(SubSeq(sent, 1, n)) = IF 1 <= n THEN n - 1 + 1 ELSE 0
          /\ \A i \in 1 .. n - 1 + 1 : SubSeq(sent, 1, n)[i] = sent[1 + i - 1]
      BY <2>1, <2>2, SubSeqProperties
    <3>2. /\ SubSeq(delivered, 1, n) \in Seq(Messages)
          /\ Len(SubSeq(delivered, 1, n)) = IF 1 <= n THEN n - 1 + 1 ELSE 0
          /\ \A i \in 1 .. n - 1 + 1 : SubSeq(delivered, 1, n)[i] = delivered[1 + i - 1]
      BY <2>1, <2>2, SubSeqProperties
    <3>3. /\ Len(SubSeq(sent, 1, n)) = n /\ Len(SubSeq(delivered, 1, n)) = n
          /\ \A i \in 1 .. n : SubSeq(sent, 1, n)[i] = sent[i]
          /\ \A i \in 1 .. n : SubSeq(delivered, 1, n)[i] = delivered[i]
      BY <2>1, <3>1, <3>2
    <3> QED
      BY <2>1, <3>1, <3>2, <3>3, SeqEqual
  <2> QED
    BY <2>1, <2>3 DEF IsPrefix, n
<1> QED
  BY <1>1, StreamInvariant, PTL
=============================================================================
