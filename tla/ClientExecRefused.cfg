\* The server refuses the exec request.
SPECIFICATION FairSpec
CONSTANTS
  Modes <- Exec
  MaxOut = 1
  MaxLines = 0
  NoiseKinds <- None
  MaxNoise = 0
  Refusals <- ExecRefusal
  LinkMayFail = FALSE
PROPERTIES SessionEnds
CHECK_DEADLOCK FALSE
