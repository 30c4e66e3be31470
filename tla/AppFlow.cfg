\* From the menu to the last screen, with every failure on the way.
SPECIFICATION FairSpec
CONSTANTS
  MaxPolls = 4
  StuckPolls = 2
  ConfigFiles <- PlainFiles
  Texts <- MCTexts
  Lengths <- MCLengths
  ChunkSize = 2
  MaxLines = 1
  MaxHeld = 1
INVARIANTS TypeOK WlanVerdict MenuVisible SocketClosed
PROPERTIES HomeExits
CHECK_DEADLOCK FALSE
