\* Switches at the ends of the rail, so that only a refused start matters.
CONSTANTS
  Length = 3
  HomeAt = 0
  FarAt = 3
  Slack = 0
  BootPositions = {2}
  Calibrations = {TRUE}
  MaxCommands = 2
SPECIFICATION Spec
PROPERTY HomeBReleasesSwitch
