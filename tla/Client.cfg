\* Commands that fill the window and shells, with every failure.
SPECIFICATION FairSpec
CONSTANTS
  Modes <- Both
  MaxOut = 4
  MaxLines = 1
  NoiseKinds <- EverydayNoise
  MaxNoise = 1
  Refusals <- OpeningRefusals
  LinkMayFail = TRUE
INVARIANTS TypeOK ServerNeverSurprised GlobalRequestsAnswered ErrorHasCause
PROPERTIES SessionSpec SessionEnds InputServiced
CHECK_DEADLOCK FALSE
