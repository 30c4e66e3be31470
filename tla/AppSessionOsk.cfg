\* A line entered in a session.
SPECIFICATION Spec
CONSTANTS
  MaxPolls = 1
  StuckPolls = 2
  ConfigFiles <- PlainFiles
  Texts <- MCTexts
  Lengths <- MCLengths
  ChunkSize = 2
  MaxLines = 1
  MaxHeld = 1
INVARIANTS SessionVisible
CHECK_DEADLOCK FALSE
