\* The configuration file of the README.
SPECIFICATION Spec
CONSTANTS
  MaxPolls = 1
  StuckPolls = 2
  ConfigFiles <- ReadmeFiles
  Texts <- MCTexts
  Lengths <- MCLengths
  ChunkSize = 2
  MaxLines = 1
  MaxHeld = 1
INVARIANTS CommandAsConfigured
CHECK_DEADLOCK FALSE
