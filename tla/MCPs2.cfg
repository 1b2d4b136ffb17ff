CONSTANTS
  ScanCodes <- MCScanCodes
  Found <- MCFound
  Tests <- MCTests
  MaxSent = 4
SPECIFICATION Ps2Spec
INVARIANTS CommandsAtRisk ConfigIntended CleanAfterFirst
PROPERTIES InitEnds KeysArrive
CHECK_DEADLOCK FALSE
