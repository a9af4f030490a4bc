\* The ratio of main.cpp, three sets of changes, a short rail.
CONSTANTS
  STEPS = 8
  COUNTS = 5
  axis_length_counts = 2
  motor_position_default = 0
  MaxEdges = 48
  MaxMissed = 1
SPECIFICATION Spec
INVARIANTS TypeOK RatioKept SwitchesShown
PROPERTIES ImplementsCarriage
