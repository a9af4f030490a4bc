CONSTANT HalfRange = 8
SPECIFICATION CallSpec
INVARIANTS CallTypeOK SegmentsCoverDistance ProfileIsTrapezoid AccelDistanceIsExact
CHECK_DEADLOCK FALSE
