\* Rail of five positions, one switch position at either end.
CONSTANTS
  HalfRange = 8
  CountsPerRev = 1
  StepsPerRev = 2
  Length = 4
  HomeAt = 0
  FarAt = 4
  BootPositions = {1}
  Plans <- OnePlan
  Motions <- MCMotions
SPECIFICATION Spec
INVARIANT MovingFlagIsTrue
