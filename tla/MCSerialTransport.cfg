\* Three frames, one of them possibly damaged.
CONSTANTS
  MaxByte = 3
  DelimStart = 2
  DelimEnd = 3
  Messages <- MCMessages
  MaxSends = 3
  MaxFaults = 1
SPECIFICATION FairSpec
INVARIANTS TypeOK ReceiverSound InOrder
PROPERTIES AllArrive
CHECK_DEADLOCK FALSE
