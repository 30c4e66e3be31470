\* Padding, limits and extraction over a range of payload sizes, and the small
\* ones byte by byte over a connection that may be lost.
SPECIFICATION StreamSpec
CONSTANTS
  SeqSpace = 4
  FirstCap = 4
  Sizes <- MCSizes
  Streamed = {1, 11, 20}
  MaxStreamed = 32
  Chunks <- MCChunks
  CutAllowed = TRUE
  MaxHashed = 200
  MaxParsed = 8
  MaxNames = 5
  LineMax = 2
  MaxPrinted = 5
  DigestLen = 32
  SecretBytes <- MCSecretBytes
  SecretLen = 3
  EdwardsD = 2
  RootOfMinus1 = 992
  BaseX = 751
  BaseY = 7
  LimbCases <- MCLimbCases
  OtherLimbs <- MCOtherLimbs
  Scalars <- MCScalars
INVARIANTS
  PaddingLegal RoundTrip LargestDataFits ReadsInside CountersAgree
  FramesAligned CipherAsModelled OutIsPayload
  TruncationNoticed NamesFound OutputRendered HashPadded KeyMaterial FieldExact CurvesExact
PROPERTY Delivered
CHECK_DEADLOCK FALSE
