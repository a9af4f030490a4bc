\* One move or calibration or homing after another, with a lost message.
CONSTANTS
  Destinations <- Three
  MaxMm = 1
  Pulleys = {3, 5}
  CountsPerMm = 4
  Overshoot = 1
  RailCounts <- Rail
  Patient = TRUE
  MaxRequests = 2
  MaxFaults = 1
  MaxRestarts = 1
SPECIFICATION Spec
INVARIANTS TypeOK  CalibrationWhole
PROPERTIES IdleEventIsRest
CHECK_DEADLOCK FALSE
