\* A connection that holds: the handshake and every transfer complete,
\* and neither end gives up.
SPECIFICATION FairSpec
CONSTANTS
  SeqSpace <- MCSeqSpace
  Payloads <- MCPayloads
  PeerPads <- MCPeerPads
  MaxData = 2
  MaxPreLines = 0
  MaxNoise = 0
  MaxDamage = 0
  LinkMayFail = FALSE
  PeerKexes <- GoodKex
INVARIANTS FailureHasCause
PROPERTIES HandshakeCompletes EverythingArrives
CHECK_DEADLOCK FALSE
