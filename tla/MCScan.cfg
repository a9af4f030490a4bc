\* Grids of up to nine points, with steps that fit and steps that do not; two runs; the list
\* takes five points, less than the three largest grids have.
CONSTANTS
  Steps = {1, 2}
  Widths = {0, 1, 2}
  Heights = {0, 2, 3}
  Settings <- MCSettings
  OffGrid <- MCOffGrid
  MaxPoints = 5
  MaxRuns = 2
SPECIFICATION FairSpec
INVARIANTS TypeOK WalkCoversGrid MeasuresAtPoint
PROPERTIES EndMeansAllMeasured RunEnds
CHECK_DEADLOCK FALSE
