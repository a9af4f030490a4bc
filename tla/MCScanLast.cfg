\* One grid of two points.
CONSTANTS
  Steps = {1}
  Widths = {1}
  Heights = {1}
  Settings <- MCSettings
  OffGrid <- MCOffGrid
  MaxPoints = 8
  MaxRuns = 1
SPECIFICATION Spec
PROPERTY NoMoveAfterLast
CHECK_DEADLOCK FALSE
