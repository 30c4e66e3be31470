\* A shell whose user opens dialogs while the server writes.
SPECIFICATION Spec
CONSTANTS
  MaxPolls = 1
  StuckPolls = 1
  ConfigFiles <- ShellFile
  Texts <- NoTexts
  Lengths <- TwoCharacters
  ChunkSize = 2
  MaxLines = 2
  MaxHeld = 1
  MaxOut = 2
  MaxChunks = 4
  NoiseKinds <- None
  MaxNoise = 0
  Refusals <- None
  LinkMayFail = TRUE
  SessionButtons <- CrossAndHome
INVARIANTS TypedReachesServer CloseLosesNothing
PROPERTIES KeyboardOpens NeitherStarves
CHECK_DEADLOCK FALSE
