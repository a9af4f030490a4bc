\* Words of 8 and 64 values.
CONSTANTS
  Word = 8
  LongWord = 64
  timeout_ms = 2
  MaxUptime = 20
SPECIFICATION Spec
INVARIANT WaitsForTimeout
