\* Rail of four positions, one switch position at either end; a two-to-one gear.
CONSTANTS
  HalfRange = 8
  CountsPerRev = 1
  StepsPerRev = 2
  Length = 3
  HomeAt = 0
  FarAt = 3
  BootPositions = {1}
  Plans <- AllPlans
  Motions <- MCMotions
SPECIFICATION FairSpec
INVARIANTS TypeOK MovingMeansDriven NeverIntoPressedSwitch EncoderTracksCarriage MotionOnPlan
PROPERTIES FullDistance ImplementsContract MotionEnds
