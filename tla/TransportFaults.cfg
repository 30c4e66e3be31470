\* Everything that can go wrong on the way, safety only.
SPECIFICATION Spec
CONSTANTS
  SeqSpace <- MCSeqSpace
  Payloads <- MCPayloads
  PeerPads <- MCPeerPads
  MaxData = 2
  MaxPreLines = 1
  MaxNoise = 1
  MaxDamage = 2
  LinkMayFail = TRUE
  PeerKexes <- BothKexes
INVARIANTS TypeOK TranscriptAgreement InSync KeystreamFresh
PROPERTIES ChannelSpec
CHECK_DEADLOCK FALSE
