SPECIFICATION Spec
CONSTANTS
  r1 = r1
  gc = gc
  Regionals <- MCRegionals
  Global = gc
  Skew <- MCSkew
  Tolerance = 1
  ClearAfter = 2
  MaxRetries = 2
  MaxVersion = 2
  MaxGeneration = 2
  MaxSerial = 4
  MaxTime = 1
  MaxEpoch = 2
INVARIANTS
  HandledOnce
  KeysAgree
CHECK_DEADLOCK FALSE
