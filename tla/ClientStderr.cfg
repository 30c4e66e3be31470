\* A command that writes to standard error.
SPECIFICATION Spec
CONSTANTS
  Modes <- Exec
  MaxOut = 1
  MaxLines = 0
  NoiseKinds <- OnlyStderr
  MaxNoise = 1
  Refusals <- None
  LinkMayFail = FALSE
INVARIANTS ErrorHasCause
CHECK_DEADLOCK FALSE
