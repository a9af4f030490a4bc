\* Rail of six positions with room past either switch; three commands.
CONSTANTS
  Length = 5
  HomeAt = 1
  FarAt = 4
  Slack = 1
  BootPositions = {2, 3}
  Calibrations = {TRUE, FALSE}
  MaxCommands = 3
SPECIFICATION FairSpec
INVARIANTS TypeOK IdleMeansStopped HomeBLeavesSwitch
PROPERTIES OriginAtHomeEdge HomingEnds
