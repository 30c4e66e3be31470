\* A peer that sends a line of text before its identification.
SPECIFICATION Spec
CONSTANTS
  SeqSpace <- MCSeqSpace
  Payloads <- MCPayloads
  PeerPads <- MCPeerPads
  MaxData = 1
  MaxPreLines = 1
  MaxNoise = 0
  MaxDamage = 0
  LinkMayFail = FALSE
  PeerKexes <- GoodKex
INVARIANTS FailureHasCause
CHECK_DEADLOCK FALSE
