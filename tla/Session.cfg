\* Requests with and without a reply, one that is never answered; two faults.
CONSTANTS
  Requests = {"ECHO", "STOP", "GET_STATUS", "GET_AXIS_STATE"}
  Programs = {"feArduino", "MessageTerminal"}
  FaultKinds = {"lost_to_controller", "lost_to_host", "late", "restart"}
  MaxFaults = 2
  MaxInFlight = 3
SPECIFICATION FairSpec
INVARIANTS TypeOK NoFaultNoError HandshakeSound
PROPERTIES LinkRecovers WaitsEnd ImplementsRequest
