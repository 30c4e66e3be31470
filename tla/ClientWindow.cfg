\* One piece more than WIN_SIZE.
SPECIFICATION FairSpec
CONSTANTS
  Modes <- Exec
  MaxOut = 5
  MaxLines = 0
  NoiseKinds <- None
  MaxNoise = 0
  Refusals <- None
  LinkMayFail = FALSE
PROPERTIES SessionEnds
CHECK_DEADLOCK FALSE
