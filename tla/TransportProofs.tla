--------------------------- MODULE TransportProofs --------------------------
(***************************************************************************)
(* Transport for every set of payload sizes and paddings and every bound   *)
(* on faults: its types, the agreement on its transcript, and the cipher   *)
(* states - reader and writer of a direction never drift apart, and no     *)
(* keystream covers two blocks.                                            *)
(***************************************************************************)
EXTENDS Transport, TLAPS

-----------------------------------------------------------------------------
(* Packets. *)

\* A packet of whole blocks holding a payload is never shorter than one block.
LEMMA TotalBlocks ==
  ASSUME NEW n \in Nat \ {0}, NEW pad \in Nat, pad >= 4, Total(n, pad) % Block = 0
  PROVE  Total(n, pad) \in Nat /\ Total(n, pad) >= Block
  BY DEF Total, Header, Block

\* Decrypting the first block apart from the rest moves the counter as far as
\* encrypting all of it at once (transport.c 162, 195, 212).
LEMMA CryptSplits ==
  ASSUME NEW c \in Nat, NEW bytes \in Nat, bytes % Block = 0, bytes >= Block
  PROVE  Crypt(Crypt(c, Block), bytes - Block) = Crypt(c, bytes)
  BY DEF Crypt, Block

\* The counter moves past every block it was used for.
LEMMA CryptMoves ==
  ASSUME NEW c \in Nat, NEW bytes \in Nat
  PROVE  Crypt(c, bytes) \in Nat /\ Crypt(c, bytes) >= c
  BY DEF Crypt

\* ... of which there are at least as many as blocks of the message.
LEMMA CryptCovers ==
  ASSUME NEW c \in Nat, NEW bytes \in Nat
  PROVE  bytes \div Block \in Nat /\ c + bytes \div Block <= Crypt(c, bytes)
<1>1. bytes \div 16 \in Nat /\ bytes \div 16 <= (bytes + 15) \div 16
  OBVIOUS
<1>2. (bytes + 15) \div 16 \in Nat
  OBVIOUS
<1> QED  BY <1>1, <1>2 DEF Crypt, Block

\* Sending and receiving a packet of whole blocks change a cipher state in the
\* same way.
LEMMA SendIsRecv ==
  ASSUME NEW d, d.ctr \in Nat, NEW total \in Nat,
         total % Block = 0, total >= Block
  PROVE  AfterRecv(d, total) = AfterSend(d, total)
  BY CryptSplits DEF AfterRecv, AfterSend

-----------------------------------------------------------------------------
(* Types. *)

\* A packet takes a direction's state to another.
LEMMA DirTypes ==
  ASSUME NEW d \in Dirs, NEW total \in Nat
  PROVE  AfterSend(d, total) \in Dirs /\ AfterRecv(d, total) \in Dirs
<1>1. Crypt(d.ctr, total) \in Nat /\ Crypt(Crypt(d.ctr, Block), total - Block) \in Nat
  BY DEF Dirs, Crypt, Block
<1>2. (d.seq + 1) % SeqSpace \in Nat
  BY SeqSpaceAssumption DEF Dirs
<1> QED  BY <1>1, <1>2 DEF Dirs, AfterSend, AfterRecv

\* A sealed packet, whole or cut, is a packet.
LEMMA SealTypes ==
  ASSUME NEW d \in Dirs, NEW m \in Messages, NEW total \in Nat, NEW w \in BOOLEAN
  PROVE  /\ Seal(d, m, total) \in Packets
         /\ [Seal(d, m, total) EXCEPT !.whole = w] \in Packets
<1>1. NoKeys \in KeySets
  BY DEF NoKeys, NoHash, KeySets, Hashes, Kexes
<1> QED  BY <1>1 DEF Dirs, Packets, Seal

\* So is a direction with new keys, or with encryption switched on.
LEMMA KeyTypes ==
  ASSUME NEW h \in Hashes, NEW d \in Dirs
  PROVE  /\ [d EXCEPT !.keys = KeysC2S(h), !.ctr = 0] \in Dirs
         /\ [d EXCEPT !.keys = KeysS2C(h), !.ctr = 0] \in Dirs
         /\ [d EXCEPT !.keys = KeysS2C(h), !.ctr = 0, !.enc = TRUE] \in Dirs
         /\ [d EXCEPT !.enc = TRUE] \in Dirs
<1>1. KeysC2S(h) \in KeySets /\ KeysS2C(h) \in KeySets
  BY DEF KeysC2S, KeysS2C, KeySets
<1> QED  BY <1>1 DEF Dirs

\* The state before any packet.
LEMMA NewDirType == NewDir \in Dirs
  BY DEF NewDir, NoKeys, NoHash, Dirs, KeySets, Hashes, Kexes

\* Every packet has a size, and the client's are whole blocks.
LEMMA WireSizes ==
  /\ \A n \in Payloads : /\ n \in Nat \ {0}
                         /\ Total(n, PadLen(n)) \in Nat
                         /\ Total(n, PadLen(n)) % Block = 0
                         /\ Total(n, PadLen(n)) >= Block
  /\ \A n \in Payloads, pad \in PeerPads : Total(n, pad) \in Nat
  /\ Block \in Nat
  /\ \A m \in Messages : WireSize(m) \in Nat
  BY TotalBlocks, TransportAssumption
  DEF WireSize, Block, Messages, Total, Header, PadLen, Data, KexInit, EcdhInit,
      NewKeys, Ignore, Garbled

\* The messages the model is written with are messages.
LEMMA MessageTypes ==
  /\ \A k \in {"ic", "is", "noalgs", "garbled"} : KexInit(k) \in Messages
  /\ \A q \in {"qc", "garbled"} : EcdhInit(q) \in Messages
  /\ NewKeys \in Messages /\ Ignore \in Messages /\ Garbled \in Messages
  /\ \A n \in Payloads : Data(n) \in Messages
  BY DEF Messages

\* What a message of each type carries.
LEMMA FieldTypes ==
  ASSUME NEW m \in Messages
  PROVE  /\ m.type = "kexinit" => m.kex \in {"ic", "is", "noalgs", "garbled"}
         /\ m.type = "ecdh_init" => m.qc \in {"qc", "garbled"}
         /\ m.type = "ecdh_reply" => /\ m.ks \in {"ks", "garbled"}
                                     /\ m.qs \in {"qs", "garbled"}
                                     /\ m.sig \in [pk : {"ks", "garbled"}, hash : Hashes]
         /\ m.type = "data" => m.size \in Payloads
  BY DEF Messages, KexInit, EcdhInit, NewKeys, Ignore, Garbled, Data

\* Damage makes a message of another.
LEMMA GarbledTypes ==
  ASSUME NEW m \in Messages
  PROVE  GarbledForms(m) \subseteq Messages
  BY FieldTypes, MessageTypes
  DEF GarbledForms, Messages, KexInit, EcdhInit, EcdhReply, NewKeys, Ignore, Garbled,
      Data, NoHash, Hashes, Kexes

\* A sender's step on the wire, typed.
LEMMA SendTypes ==
  ASSUME TypeOK, NEW m \in Messages, NEW next, NEW lost, SendPayload(m, next, lost)
  PROVE  /\ up' \in Seq(Packets) /\ Len(up') = Len(up) + 1
         /\ upRd' \in 0 .. Len(up') /\ dn' \in Seq(Packets) /\ dnRd' \in 0 .. Len(dn')
         /\ UNCHANGED <<lines, upIdent, link, noise, damage, peer>>
<1>1. [Seal(c2s, m, WireSize(m)) EXCEPT !.whole = link] \in Packets
  BY SealTypes, WireSizes DEF TypeOK
<1> QED  BY <1>1 DEF TypeOK, SendPayload

\* The absence of a hash has the type of one.
LEMMA NoHashType == NoHash \in Hashes
  BY DEF NoHash, Hashes, Kexes

\* Giving up in the middle of a packet leaves the keys and the switch alone.
LEMMA GivenUpTypes ==
  ASSUME s2c \in Dirs, NEW total \in Nat, NEW d \in GivenUp(total)
  PROVE  d \in Dirs /\ d.keys = s2c.keys /\ d.enc = s2c.enc
<1>1. Crypt(s2c.ctr, Block) \in Nat
  BY DEF Dirs, Crypt, Block
<1>2. AfterRecv(s2c, total) \in Dirs /\ AfterRecv(s2c, total).keys = s2c.keys
      /\ AfterRecv(s2c, total).enc = s2c.enc
  BY DirTypes DEF AfterRecv, Dirs
<1>3. CASE d = s2c
  BY <1>3
<1>4. CASE d = [s2c EXCEPT !.ctr = IF s2c.enc THEN Crypt(@, Block) ELSE @]
  BY <1>1, <1>4 DEF Dirs
<1>5. CASE d = [AfterRecv(s2c, total) EXCEPT !.seq = s2c.seq]
  BY <1>2, <1>5 DEF Dirs
<1> QED  BY <1>3, <1>4, <1>5 DEF GivenUp

\* A receiver's step: the packet read is a packet, and the index stays in bounds.
LEMMA RecvTypes ==
  ASSUME TypeOK, Arrived, RecvPacket
  PROVE  /\ dn[dnRd + 1] \in Packets
         /\ dn[dnRd + 1].msg \in Messages /\ dn[dnRd + 1].total \in Nat
         /\ dnRd' \in 0 .. Len(dn')
         /\ UNCHANGED <<lines, upIdent, up, upRd, dn, link, noise, damage, peer>>
<1>1. dn[dnRd + 1] \in Packets
  BY DEF TypeOK, Arrived
<1>2. dnRd \in 0 .. Len(dn) /\ Len(dn) \in Nat /\ dnRd < Len(dn)
  BY DEF TypeOK, Arrived
<1>3. dn[dnRd + 1].msg \in Messages /\ dn[dnRd + 1].total \in Nat
  BY <1>1 DEF Packets
<1> QED  BY <1>1, <1>2, <1>3 DEF RecvPacket

\* The same for the peer.
LEMMA PeerRecvTypes ==
  ASSUME TypeOK, PeerReads
  PROVE  /\ up[upRd + 1] \in Packets
         /\ up[upRd + 1].msg \in Messages /\ up[upRd + 1].total \in Nat
         /\ upRd + 1 \in 0 .. Len(up)
<1>1. up[upRd + 1] \in Packets
  BY DEF TypeOK, PeerReads
<1>2. upRd \in 0 .. Len(up) /\ Len(up) \in Nat /\ upRd < Len(up)
  BY DEF TypeOK, PeerReads
<1>3. up[upRd + 1].msg \in Messages /\ up[upRd + 1].total \in Nat
  BY <1>1 DEF Packets
<1> QED  BY <1>1, <1>2, <1>3

\* The peer's packets.
LEMMA PeerSendTypes ==
  ASSUME TypeOK, NEW m \in Messages, NEW total \in Nat, PeerSend(m, total)
  PROVE  /\ dn' \in Seq(Packets) /\ Len(dn') = Len(dn) + 1
         /\ dnRd \in 0 .. Len(dn')
         /\ AfterSend(peer.tx, total) \in Dirs
<1>1. peer.tx \in Dirs
  BY DEF TypeOK
<1>2. Seal(peer.tx, m, total) \in Packets
  BY <1>1, SealTypes
<1> QED  BY <1>1, <1>2, DirTypes DEF TypeOK, PeerSend

\* Damage makes packets of packets.
LEMMA DamagedTypes ==
  ASSUME NEW p \in Packets
  PROVE  \A q \in DamagedForms(p) :
           /\ q \in Packets
           /\ q.total = p.total /\ q.enc = p.enc /\ q.keys = p.keys
           /\ q.ctr = p.ctr /\ q.seq = p.seq /\ q.whole = p.whole
           /\ q.intact = FALSE
           /\ q.msg = p.msg \/ (~p.enc /\ q.msg \in GarbledForms(p.msg))
<1>1. p.msg \in Messages
  BY DEF Packets
<1>2. GarbledForms(p.msg) \subseteq Messages
  BY <1>1, GarbledTypes
<1>3. CASE p.enc
  BY <1>3 DEF DamagedForms, Packets
<1>4. CASE ~p.enc
  BY <1>2, <1>4 DEF DamagedForms, Packets
<1> QED  BY <1>3, <1>4

\* Every variable keeps its type, for any payloads, paddings and bounds.
THEOREM TypeCorrect == Spec => []TypeOK
<1>1. Init => TypeOK
  <2> SUFFICES ASSUME Init PROVE TypeOK
    OBVIOUS
  <2>1. PICK kex \in PeerKexes :
          peer = [at |-> "ident", kex |-> kex, ic |-> "none", hash |-> NoHash,
                  rx |-> NewDir, tx |-> NewDir, rcvd |-> <<>>]
    BY DEF Init
  <2>2. kex \in {"is", "noalgs"} /\ 0 \in 0 .. MaxNoise /\ 0 \in 0 .. MaxDamage
    BY TransportAssumption
  <2>3. peer \in [at : {"ident", "kexinit", "kex", "newkeys", "open", "gone"},
                 kex : {"is", "noalgs"}, ic : Kexes, hash : Hashes,
                 rx : Dirs, tx : Dirs, rcvd : Seq(Nat)]
    BY <2>1, <2>2, NewDirType, NoHashType DEF Kexes
  <2>4. /\ received \in Seq(Nat) /\ lines \in Seq({"pre", "ident"})
        /\ up \in Seq(Packets) /\ upRd \in 0 .. Len(up)
        /\ dn \in Seq(Packets) /\ dnRd \in 0 .. Len(dn)
    BY DEF Init
  <2>5. c2s \in Dirs /\ s2c \in Dirs /\ session_id \in Hashes
    BY NewDirType, NoHashType DEF Init
  <2> QED  BY <2>2, <2>3, <2>4, <2>5 DEF Init, TypeOK, Kexes
<1>2. ASSUME TypeOK, [Next]_vars PROVE TypeOK'
  <2> USE <1>2
  <2>1. CASE SendIdent
    BY <2>1 DEF TypeOK, SendIdent
  <2>2. CASE RecvIdent
    <3>1. Head(lines) \in {"pre", "ident"} /\ Tail(lines) \in Seq({"pre", "ident"})
      BY <2>2 DEF TypeOK, RecvIdent
    <3> QED  BY <2>2, <3>1 DEF TypeOK, RecvIdent
  <2>3. CASE SendKexInit
    <3>1. KexInit("ic") \in Messages
      BY MessageTypes
    <3> QED  BY <2>3, <3>1, SendTypes, DirTypes, WireSizes DEF TypeOK, SendKexInit, SendPayload
  <2>4. CASE RecvKexInit
    <3>1. Arrived /\ RecvPacket
      BY <2>4 DEF RecvKexInit
    <3>2. s2c' \in Dirs /\ server_kex' \in Kexes
      BY <2>4, <3>1, RecvTypes, FieldTypes, DirTypes DEF TypeOK, RecvKexInit, Kexes
    <3> QED  BY <2>4, <3>1, <3>2, RecvTypes DEF TypeOK, RecvKexInit
  <2>5. CASE SendEcdhInit
    <3>1. EcdhInit("qc") \in Messages
      BY MessageTypes
    <3> QED  BY <2>5, <3>1, SendTypes, DirTypes, WireSizes DEF TypeOK, SendEcdhInit, SendPayload
  <2>6. CASE RecvEcdhReply
    <3> DEFINE p == dn[dnRd + 1]
    <3>1. Arrived /\ RecvPacket
      BY <2>6 DEF RecvEcdhReply
    <3>2. p.msg.ks \in {"ks", "garbled"} /\ ClientHash(p.msg) \in Hashes
      BY <2>6, <3>1, RecvTypes, FieldTypes DEF TypeOK, RecvEcdhReply, ClientHash, Hashes, Kexes
    <3>3. c2s' \in Dirs /\ s2c' \in Dirs
      BY <2>6, <3>1, <3>2, RecvTypes, DirTypes, KeyTypes DEF TypeOK, RecvEcdhReply
    <3>4. session_id' \in Hashes /\ server_pk' \in {"none", "ks", "garbled"}
      BY <2>6, <3>2 DEF TypeOK, RecvEcdhReply
    <3> QED  BY <2>6, <3>1, <3>3, <3>4, RecvTypes DEF TypeOK, RecvEcdhReply
  <2>7. CASE SendNewKeys
    <3>1. NewKeys \in Messages
      BY MessageTypes
    <3>2. c2s' \in Dirs
      <4>1. AfterSend(c2s, Block) \in Dirs
        BY DirTypes, WireSizes DEF TypeOK
      <4>2. c2s' = [AfterSend(c2s, Block) EXCEPT !.enc = (pc' = "newkeys_wait")]
        BY <2>7 DEF SendNewKeys
      <4> QED  BY <4>1, <4>2 DEF Dirs
    <3>3. pc' \in {"newkeys_wait", "failed"}
      BY <2>7 DEF SendNewKeys, SendPayload
    <3> QED  BY <2>7, <3>1, <3>2, <3>3, SendTypes DEF TypeOK, SendNewKeys
  <2>8. CASE RecvNewKeys
    <3>1. Arrived /\ RecvPacket
      BY <2>8 DEF RecvNewKeys
    <3>2. s2c' \in Dirs
      BY <2>8, <3>1, RecvTypes, DirTypes, KeyTypes DEF TypeOK, RecvNewKeys
    <3> QED  BY <2>8, <3>1, <3>2, RecvTypes DEF TypeOK, RecvNewKeys
  <2>9. CASE RecvData
    <3>1. Arrived /\ RecvPacket
      BY <2>9 DEF RecvData
    <3>2. PayloadRead(s2c, dn[dnRd + 1]) \in Nat
      BY <2>9, <3>1, RecvTypes, FieldTypes, WireSizes DEF PayloadRead, RecvData
    <3>3. s2c' \in Dirs
      BY <2>9, <3>1, RecvTypes, DirTypes DEF TypeOK, RecvData
    <3>4. received' \in Seq(Nat)
      BY <2>9, <3>2 DEF TypeOK, RecvData
    <3> QED  BY <2>9, <3>1, <3>3, <3>4, RecvTypes DEF TypeOK, RecvData
  <2>10. CASE RecvRejected
    <3>1. Arrived /\ RecvPacket
      BY <2>10 DEF RecvRejected
    <3>2. s2c' \in Dirs
      BY <2>10, <3>1, RecvTypes, DirTypes, GivenUpTypes DEF TypeOK, RecvRejected
    <3> QED  BY <2>10, <3>1, <3>2, RecvTypes DEF TypeOK, RecvRejected, Fail
  <2>11. CASE RecvText
    BY <2>11 DEF TypeOK, RecvText, Fail, conn
  <2>12. CASE RecvLost
    <3>1. s2c' \in Dirs
      <4>1. s2c \in Dirs
        BY DEF TypeOK
      <4>2. CASE dnRd < Len(dn)
        <5>1. dn[dnRd + 1].total \in Nat
          <6>1. dn \in Seq(Packets) /\ dnRd + 1 \in 1 .. Len(dn)
            BY <4>2 DEF TypeOK
          <6>2. dn[dnRd + 1] \in Packets
            BY <6>1
          <6> QED  BY <6>2 DEF Packets
        <5> QED  BY <2>12, <4>1, <4>2, <5>1, GivenUpTypes DEF RecvLost
      <4> QED  BY <2>12, <4>1, <4>2 DEF RecvLost
    <3> QED  BY <2>12, <3>1 DEF TypeOK, RecvLost, Fail, conn
  <2>13. ASSUME NEW n \in Payloads, SendData(n) PROVE TypeOK'
    <3>1. Data(n) \in Messages
      BY MessageTypes
    <3>2. c2s' \in Dirs
      BY <2>13, DirTypes, WireSizes DEF TypeOK, SendData
    <3>3. pc' \in {"open", "failed"}
      BY <2>13 DEF SendData, SendPayload
    <3> QED  BY <2>13, <3>1, <3>2, <3>3, SendTypes DEF TypeOK, SendData
  <2>14. ASSUME NEW n \in Payloads, PeerSendData(n) PROVE TypeOK'
    <3>1. PICK pad \in PeerPads :
            /\ PeerSend(Data(n), Total(n, pad))
            /\ peer' = [peer EXCEPT !.tx = AfterSend(@, Total(n, pad))]
      BY <2>14 DEF PeerSendData
    <3>2. Data(n) \in Messages /\ Total(n, pad) \in Nat
      BY MessageTypes, WireSizes
    <3> QED  BY <2>14, <3>1, <3>2, PeerSendTypes DEF TypeOK, PeerSendData, client
  <2>15. CASE PeerIdent
    <3>1. lines' \in Seq({"pre", "ident"})
      <4>1. PICK k \in 0 .. MaxPreLines : lines' = Append([i \in 1 .. k |-> "pre"], "ident")
        BY <2>15 DEF PeerIdent
      <4>2. k \in Nat
        BY TransportAssumption
      <4>3. [i \in 1 .. k |-> "pre"] \in Seq({"pre", "ident"})
        BY <4>2
      <4> QED  BY <4>1, <4>3
    <3> QED  BY <2>15, <3>1 DEF TypeOK, PeerIdent, client
  <2>16. CASE PeerKexInit
    <3>1. PeerSend(KexInit(peer.kex), Block) /\ KexInit(peer.kex) \in Messages
      BY <2>16, MessageTypes DEF PeerKexInit, TypeOK
    <3> QED  BY <2>16, <3>1, WireSizes, PeerSendTypes DEF TypeOK, PeerKexInit, client
  <2>17. CASE PeerRecvKexInit
    <3>1. peer.rx \in Dirs /\ PeerReads
      BY <2>17 DEF TypeOK, PeerRecvKexInit
    <3>2. up[upRd + 1].msg.kex \in Kexes
      BY <2>17, <3>1, PeerRecvTypes, FieldTypes DEF PeerRecvKexInit, Kexes
    <3>3. AfterRecv(peer.rx, up[upRd + 1].total) \in Dirs
      BY <3>1, PeerRecvTypes, DirTypes
    <3> QED  BY <2>17, <3>1, <3>2, <3>3, PeerRecvTypes DEF TypeOK, PeerRecvKexInit, client
  <2>18. CASE PeerRecvEcdhInit
    <3> DEFINE p == up[upRd + 1]
               h == [vs |-> "ident", ic |-> peer.ic, is |-> peer.kex,
                     ks |-> "ks", qc |-> p.msg.qc, qs |-> "qs"]
               reply == EcdhReply("ks", "qs", [pk |-> "ks", hash |-> h])
               tx1 == AfterSend(peer.tx, Block)
               rx2 == AfterRecv(peer.rx, p.total)
               tx2 == AfterSend(tx1, Block)
    <3>1. PeerReads /\ peer.rx \in Dirs /\ peer.tx \in Dirs
      BY <2>18 DEF TypeOK, PeerRecvEcdhInit
    <3>2. h \in Hashes
      <4>1. p.msg.qc \in {"qc", "garbled"}
        BY <2>18, <3>1, PeerRecvTypes, FieldTypes DEF PeerRecvEcdhInit
      <4> QED  BY <4>1 DEF TypeOK, Hashes, Kexes
    <3>3. reply \in Messages /\ NewKeys \in Messages
      BY <3>2, MessageTypes DEF Messages, EcdhReply
    <3>4. rx2 \in Dirs /\ tx1 \in Dirs /\ tx2 \in Dirs
      BY <3>1, PeerRecvTypes, DirTypes, WireSizes
    <3>5. Seal(peer.tx, reply, Block) \in Packets /\ Seal(tx1, NewKeys, Block) \in Packets
      BY <3>1, <3>3, <3>4, SealTypes, WireSizes
    <3>6. /\ [rx2 EXCEPT !.keys = KeysC2S(h), !.ctr = 0] \in Dirs
          /\ [tx2 EXCEPT !.keys = KeysS2C(h), !.ctr = 0, !.enc = TRUE] \in Dirs
      BY <3>2, <3>4, KeyTypes
    <3>7. /\ dn' = dn \o <<Seal(peer.tx, reply, Block), Seal(tx1, NewKeys, Block)>>
          /\ peer' = [peer EXCEPT
               !.at = "newkeys", !.hash = h,
               !.rx = [rx2 EXCEPT !.keys = KeysC2S(h), !.ctr = 0],
               !.tx = [tx2 EXCEPT !.keys = KeysS2C(h), !.ctr = 0, !.enc = TRUE]]
      BY <2>18 DEF PeerRecvEcdhInit
    <3>8. peer' \in [at : {"ident", "kexinit", "kex", "newkeys", "open", "gone"},
                    kex : {"is", "noalgs"}, ic : Kexes, hash : Hashes,
                    rx : Dirs, tx : Dirs, rcvd : Seq(Nat)]
      <4> HIDE DEF h, rx2, tx2
      <4> QED  BY <3>2, <3>6, <3>7 DEF TypeOK
    <3>9. dn' \in Seq(Packets) /\ dnRd \in 0 .. Len(dn')
      <4> HIDE DEF reply, tx1
      <4> QED  BY <3>5, <3>7 DEF TypeOK
    <3> QED
      <4> HIDE DEF h
      <4> QED  BY <2>18, <3>1, <3>8, <3>9, PeerRecvTypes DEF TypeOK, PeerRecvEcdhInit, client
  <2>19. CASE PeerRecvNewKeys
    <3>1. peer.rx \in Dirs /\ PeerReads
      BY <2>19 DEF TypeOK, PeerRecvNewKeys
    <3>2. [AfterRecv(peer.rx, up[upRd + 1].total) EXCEPT !.enc = TRUE] \in Dirs
      <4>1. AfterRecv(peer.rx, up[upRd + 1].total) \in Dirs
        BY <3>1, PeerRecvTypes, DirTypes
      <4> QED  BY <4>1 DEF Dirs
    <3> QED  BY <2>19, <3>1, <3>2, PeerRecvTypes DEF TypeOK, PeerRecvNewKeys, client
  <2>20. CASE PeerRecvData
    <3>1. PeerReads /\ peer.rx \in Dirs
      BY <2>20 DEF TypeOK, PeerRecvData
    <3>2. PayloadRead(peer.rx, up[upRd + 1]) \in Nat
      BY <2>20, <3>1, PeerRecvTypes, FieldTypes, WireSizes DEF PayloadRead, PeerRecvData
    <3>3. AfterRecv(peer.rx, up[upRd + 1].total) \in Dirs
      BY <3>1, PeerRecvTypes, DirTypes
    <3>4. peer' \in [at : {"ident", "kexinit", "kex", "newkeys", "open", "gone"},
                    kex : {"is", "noalgs"}, ic : Kexes, hash : Hashes,
                    rx : Dirs, tx : Dirs, rcvd : Seq(Nat)]
      <4> DEFINE x == PayloadRead(peer.rx, up[upRd + 1])
                 r == AfterRecv(peer.rx, up[upRd + 1].total)
      <4>1. peer' = [peer EXCEPT !.rcvd = Append(peer.rcvd, x), !.rx = r]
        BY <2>20 DEF PeerRecvData
      <4>2. x \in Nat /\ r \in Dirs
        BY <3>2, <3>3
      <4>3. peer.rcvd \in Seq(Nat)
        BY DEF TypeOK
      <4> HIDE DEF x, r
      <4>4. Append(peer.rcvd, x) \in Seq(Nat)
        BY <4>2, <4>3
      <4> QED  BY <4>1, <4>2, <4>4 DEF TypeOK
    <3> QED  BY <2>20, <3>1, <3>4, PeerRecvTypes DEF TypeOK, PeerRecvData, client
  <2>21. CASE PeerHangsUp
    BY <2>21 DEF TypeOK, PeerHangsUp, client
  <2>22. CASE PeerNoise
    <3>1. PeerSend(Ignore, Block) /\ Ignore \in Messages
      BY <2>22, MessageTypes DEF PeerNoise
    <3>2. noise' \in 0 .. MaxNoise
      BY <2>22, TransportAssumption DEF TypeOK, PeerNoise
    <3>3. /\ dn' \in Seq(Packets) /\ dnRd \in 0 .. Len(dn')
          /\ AfterSend(peer.tx, Block) \in Dirs
      BY <3>1, WireSizes, PeerSendTypes
    <3>4. peer' \in [at : {"ident", "kexinit", "kex", "newkeys", "open", "gone"},
                    kex : {"is", "noalgs"}, ic : Kexes, hash : Hashes,
                    rx : Dirs, tx : Dirs, rcvd : Seq(Nat)]
      BY <2>22, <3>3 DEF TypeOK, PeerNoise
    <3> QED  BY <2>22, <3>2, <3>3, <3>4 DEF TypeOK, PeerNoise, client
  <2>23. CASE LinkLost
    BY <2>23, TransportAssumption DEF TypeOK, LinkLost, client
  <2>24. CASE Damage
    <3>1. up' \in Seq(Packets) /\ Len(up') = Len(up) /\ dn' \in Seq(Packets) /\ Len(dn') = Len(dn)
      <4>1. CASE DamageUp
        <5>1. PICK i \in upRd + 1 .. Len(up) : \E p \in DamagedForms(up[i]) :
                up' = [up EXCEPT ![i] = p]
          BY <4>1 DEF DamageUp
        <5>2. up[i] \in Packets /\ i \in 1 .. Len(up)
          BY DEF TypeOK
        <5>3. PICK p \in Packets : up' = [up EXCEPT ![i] = p]
          BY <5>1, <5>2, DamagedTypes
        <5>4. up \in Seq(Packets)
          BY DEF TypeOK
        <5>5. up' \in Seq(Packets) /\ Len(up') = Len(up)
          BY <5>2, <5>3, <5>4
        <5> QED  BY <4>1, <5>5 DEF TypeOK, DamageUp
      <4>2. CASE DamageDown
        <5>1. PICK i \in dnRd + 1 .. Len(dn) : \E p \in DamagedForms(dn[i]) :
                dn' = [dn EXCEPT ![i] = p]
          BY <4>2 DEF DamageDown
        <5>2. dn[i] \in Packets /\ i \in 1 .. Len(dn)
          BY DEF TypeOK
        <5>3. PICK p \in Packets : dn' = [dn EXCEPT ![i] = p]
          BY <5>1, <5>2, DamagedTypes
        <5>4. dn \in Seq(Packets)
          BY DEF TypeOK
        <5>5. dn' \in Seq(Packets) /\ Len(dn') = Len(dn)
          BY <5>2, <5>3, <5>4
        <5> QED  BY <4>2, <5>5 DEF TypeOK, DamageDown
      <4> QED  BY <2>24, <4>1, <4>2 DEF Damage
    <3>2. damage' \in 0 .. MaxDamage
      BY <2>24, TransportAssumption DEF TypeOK, Damage
    <3> QED  BY <2>24, <3>1, <3>2 DEF TypeOK, Damage, client
  <2>25. CASE UNCHANGED vars
    BY <2>25 DEF TypeOK, vars, client, conn
  <2> QED
    BY <2>1, <2>2, <2>3, <2>4, <2>5, <2>6, <2>7, <2>8, <2>9, <2>10, <2>11, <2>12,
       <2>13, <2>14, <2>15, <2>16, <2>17, <2>18, <2>19, <2>20, <2>21, <2>22, <2>23,
       <2>24, <2>25
    DEF Next, Handshake, Recv, PeerStep
<1> QED  BY <1>1, <1>2, PTL DEF Spec


-----------------------------------------------------------------------------
(* The transcript.  A reply's signature covers the hash the peer computed, *)
(* or has been damaged and covers nothing; a client that accepted it holds *)
(* that hash.                                                              *)

BeforeKeys == pc \in {"ident", "ident_wait", "kexinit", "kexinit_wait", "ecdh", "ecdh_wait"}
AfterKeys  == pc \in {"newkeys", "newkeys_wait", "open"}

GenuineSig(h) == [pk |-> "ks", hash |-> h]
GarbledSig    == [pk |-> "garbled", hash |-> NoHash]

ClientUnkeyed == BeforeKeys => session_id = NoHash
ClientKeyed   == AfterKeys => session_id # NoHash
ClientAgrees  ==
  session_id # NoHash =>
    /\ session_id = peer.hash
    /\ server_pk = "ks"
    /\ c2s.keys = KeysC2S(peer.hash) /\ s2c.keys = KeysS2C(peer.hash)
PeerUnkeyed == peer.at \in {"ident", "kexinit", "kex"} => peer.hash = NoHash
PeerKeyed   ==
  peer.hash # NoHash =>
    peer.rx.keys = KeysC2S(peer.hash) /\ peer.tx.keys = KeysS2C(peer.hash)
RepliesSigned ==
  \A i \in 1 .. Len(dn) :
    dn[i].msg.type = "ecdh_reply" =>
      /\ peer.hash # NoHash
      /\ dn[i].msg.sig \in {GenuineSig(peer.hash), GarbledSig}

Transcript ==
  /\ ClientUnkeyed /\ ClientKeyed /\ ClientAgrees
  /\ PeerUnkeyed /\ PeerKeyed /\ RepliesSigned

\* Only RecvEcdhReply changes what the client knows, only PeerRecvEcdhInit what
\* the peer knows; sending and receiving leave the keys alone.
LEMMA KeysStay ==
  ASSUME NEW d \in Dirs, NEW total \in Nat
  PROVE  AfterSend(d, total).keys = d.keys /\ AfterRecv(d, total).keys = d.keys
  BY DEF AfterSend, AfterRecv, Dirs

\* Damaging a reply leaves its signature or destroys it.
LEMMA DamagedReply ==
  ASSUME NEW m \in Messages, NEW g \in GarbledForms(m), g.type = "ecdh_reply"
  PROVE  m.type = "ecdh_reply" /\ g.sig \in {m.sig, GarbledSig}
  BY DEF GarbledForms, Messages, KexInit, EcdhInit, EcdhReply, NewKeys, Ignore, Garbled,
         Data, GarbledSig

\* A signature that verifies is the peer's own, over the hash both hold.
LEMMA VerifiedReply ==
  ASSUME TypeOK, Transcript, NEW i \in 1 .. Len(dn), dn[i].msg.type = "ecdh_reply",
         SignatureVerifies(dn[i].msg)
  PROVE  /\ ClientHash(dn[i].msg) = peer.hash /\ peer.hash # NoHash
         /\ dn[i].msg.ks = "ks"
<1>1. dn[i].msg.sig \in {GenuineSig(peer.hash), GarbledSig} /\ peer.hash # NoHash
  BY DEF Transcript, RepliesSigned
<1>2. dn[i].msg.sig # GarbledSig
  BY DEF SignatureVerifies, ClientHash, GarbledSig, NoHash
<1> QED  BY <1>1, <1>2 DEF SignatureVerifies, GenuineSig

\* A packet added by the peer that is not a reply.
LEMMA OtherPackets ==
  ASSUME TypeOK, RepliesSigned, NEW m \in Messages, m.type # "ecdh_reply",
         NEW total \in Nat, PeerSend(m, total), peer'.hash = peer.hash
  PROVE  RepliesSigned'
<1> DEFINE p == Seal(peer.tx, m, total)
<1>1. p.msg = m
  BY DEF Seal
<1>2. dn' = Append(dn, p) /\ dn \in Seq(Packets)
  BY DEF PeerSend, TypeOK
<1> HIDE DEF p
<1>3. /\ Len(dn') = Len(dn) + 1 /\ Len(dn) \in Nat
      /\ dn'[Len(dn) + 1] = p
      /\ \A i \in 1 .. Len(dn) : dn'[i] = dn[i]
  BY <1>2
<1> QED  BY <1>1, <1>3 DEF RepliesSigned

\* The transcript invariant holds, whatever is lost or damaged.
LEMMA TranscriptInvariant == Spec => []Transcript
<1>1. Init => Transcript
  BY DEF Init, Transcript, BeforeKeys, AfterKeys, ClientUnkeyed, ClientKeyed,
         ClientAgrees, PeerUnkeyed, PeerKeyed, RepliesSigned
<1>2. ASSUME TypeOK, Transcript, [Next]_vars PROVE Transcript'
  <2> USE <1>2
  <2> USE DEF Transcript, BeforeKeys, AfterKeys, ClientUnkeyed, ClientKeyed
  <2>0. c2s \in Dirs /\ s2c \in Dirs /\ peer.rx \in Dirs /\ peer.tx \in Dirs
    BY DEF TypeOK
  <2>1. CASE SendIdent
    BY <2>1 DEF SendIdent, ClientAgrees, PeerUnkeyed, PeerKeyed, RepliesSigned
  <2>2. CASE RecvIdent
    BY <2>2 DEF RecvIdent, ClientAgrees, PeerUnkeyed, PeerKeyed, RepliesSigned
  <2>3. CASE SendKexInit
    BY <2>3, <2>0, KeysStay, WireSizes
    DEF SendKexInit, SendPayload, ClientAgrees, PeerUnkeyed, PeerKeyed, RepliesSigned
  <2>4. CASE RecvKexInit
    BY <2>4, <2>0, KeysStay, RecvTypes
    DEF RecvKexInit, RecvPacket, ClientAgrees, PeerUnkeyed, PeerKeyed, RepliesSigned
  <2>5. CASE SendEcdhInit
    BY <2>5, <2>0, KeysStay, WireSizes
    DEF SendEcdhInit, SendPayload, ClientAgrees, PeerUnkeyed, PeerKeyed, RepliesSigned
  <2>6. CASE RecvEcdhReply
    <3> DEFINE i == dnRd + 1
    <3>1. /\ i \in 1 .. Len(dn) /\ dn[i].msg.type = "ecdh_reply" /\ SignatureVerifies(dn[i].msg)
          /\ dn[i].total \in Nat
      BY <2>6, RecvTypes DEF RecvEcdhReply, Arrived, TypeOK
    <3>2. ClientHash(dn[i].msg) = peer.hash /\ peer.hash # NoHash /\ dn[i].msg.ks = "ks"
      BY <3>1, VerifiedReply
    <3>3. session_id = NoHash
      BY <2>6 DEF RecvEcdhReply
    <3>4. session_id' = peer.hash /\ server_pk' = "ks" /\ pc' = "newkeys"
      BY <2>6, <3>2, <3>3 DEF RecvEcdhReply
    <3>5. c2s'.keys = KeysC2S(peer.hash)
      BY <2>6, <2>0, <3>2 DEF RecvEcdhReply, Dirs
    <3>6. s2c'.keys = KeysS2C(peer.hash)
      <4>1. AfterRecv(s2c, dn[i].total) \in Dirs
        BY <2>0, <3>1, DirTypes
      <4> QED  BY <2>6, <3>2, <4>1 DEF RecvEcdhReply, Dirs
    <3>7. UNCHANGED <<peer, dn>>
      BY <2>6 DEF RecvEcdhReply, RecvPacket
    <3> QED
      BY <3>2, <3>4, <3>5, <3>6, <3>7 DEF ClientAgrees, PeerUnkeyed, PeerKeyed, RepliesSigned
  <2>7. CASE SendNewKeys
    <3>1. c2s'.keys = c2s.keys
      <4>1. AfterSend(c2s, Block) \in Dirs /\ AfterSend(c2s, Block).keys = c2s.keys
        BY <2>0, KeysStay, DirTypes, WireSizes
      <4> QED  BY <2>7, <4>1 DEF SendNewKeys, Dirs
    <3> QED
      BY <2>7, <3>1
      DEF SendNewKeys, SendPayload, ClientAgrees, PeerUnkeyed, PeerKeyed, RepliesSigned
  <2>8. CASE RecvNewKeys
    <3>1. s2c'.keys = s2c.keys
      <4>1. /\ AfterRecv(s2c, dn[dnRd + 1].total) \in Dirs
            /\ AfterRecv(s2c, dn[dnRd + 1].total).keys = s2c.keys
        BY <2>8, <2>0, KeysStay, DirTypes, RecvTypes DEF RecvNewKeys
      <4> QED  BY <2>8, <4>1 DEF RecvNewKeys, Dirs
    <3> QED
      BY <2>8, <3>1
      DEF RecvNewKeys, RecvPacket, ClientAgrees, PeerUnkeyed, PeerKeyed, RepliesSigned
  <2>9. CASE RecvData
    BY <2>9, <2>0, KeysStay, RecvTypes
    DEF RecvData, RecvPacket, ClientAgrees, PeerUnkeyed, PeerKeyed, RepliesSigned
  <2>10. CASE RecvRejected
    BY <2>10, <2>0, KeysStay, RecvTypes, GivenUpTypes
    DEF RecvRejected, Fail, RecvPacket, ClientAgrees, PeerUnkeyed, PeerKeyed, RepliesSigned
  <2>11. CASE RecvText
    BY <2>11
    DEF RecvText, Fail, conn, ClientAgrees, PeerUnkeyed, PeerKeyed, RepliesSigned
  <2>12. CASE RecvLost
    <3>1. s2c'.keys = s2c.keys
      <4>1. CASE dnRd < Len(dn)
        <5>1. dn[dnRd + 1].total \in Nat
          <6>1. dn \in Seq(Packets) /\ dnRd + 1 \in 1 .. Len(dn)
            BY <4>1 DEF TypeOK
          <6>2. dn[dnRd + 1] \in Packets
            BY <6>1
          <6> QED  BY <6>2 DEF Packets
        <5> QED  BY <2>12, <2>0, <4>1, <5>1, GivenUpTypes DEF RecvLost
      <4> QED  BY <2>12, <4>1 DEF RecvLost
    <3> QED
      BY <2>12, <3>1
      DEF RecvLost, Fail, conn, ClientAgrees, PeerUnkeyed, PeerKeyed, RepliesSigned
  <2>13. ASSUME NEW n \in Payloads, SendData(n) PROVE Transcript'
    BY <2>13, <2>0, KeysStay, WireSizes
    DEF SendData, SendPayload, ClientAgrees, PeerUnkeyed, PeerKeyed, RepliesSigned
  <2>14. ASSUME NEW n \in Payloads, PeerSendData(n) PROVE Transcript'
    <3>1. PICK pad \in PeerPads :
            /\ PeerSend(Data(n), Total(n, pad))
            /\ peer' = [peer EXCEPT !.tx = AfterSend(@, Total(n, pad))]
      BY <2>14 DEF PeerSendData
    <3>2. Data(n) \in Messages /\ Data(n).type # "ecdh_reply" /\ Total(n, pad) \in Nat
      BY MessageTypes, WireSizes DEF Data
    <3>3. peer'.tx.keys = peer.tx.keys /\ peer'.rx = peer.rx /\ peer'.hash = peer.hash /\ peer'.at = peer.at
      BY <2>0, <3>1, <3>2, KeysStay DEF TypeOK
    <3>4. RepliesSigned'
      BY <3>1, <3>2, <3>3, OtherPackets
    <3> QED  BY <2>14, <3>3, <3>4 DEF PeerSendData, client, ClientAgrees, PeerUnkeyed, PeerKeyed
  <2>15. CASE PeerIdent
    <3>1. peer'.tx = peer.tx /\ peer'.rx = peer.rx /\ peer'.hash = peer.hash /\ peer'.at = "kexinit"
      BY <2>15 DEF PeerIdent, TypeOK
    <3> QED
      BY <2>15, <3>1 DEF PeerIdent, client, ClientAgrees, PeerUnkeyed, PeerKeyed, RepliesSigned
  <2>16. CASE PeerKexInit
    <3>1. PeerSend(KexInit(peer.kex), Block) /\ KexInit(peer.kex) \in Messages
          /\ KexInit(peer.kex).type # "ecdh_reply"
      BY <2>16, MessageTypes DEF PeerKexInit, TypeOK, KexInit
    <3>2. peer'.tx.keys = peer.tx.keys /\ peer'.rx = peer.rx /\ peer'.hash = peer.hash /\ peer'.at = "kex"
      BY <2>16, <2>0, KeysStay, WireSizes DEF PeerKexInit, TypeOK
    <3>3. RepliesSigned'
      BY <3>1, <3>2, WireSizes, OtherPackets
    <3> QED  BY <2>16, <3>2, <3>3 DEF PeerKexInit, client, ClientAgrees, PeerUnkeyed, PeerKeyed
  <2>17. CASE PeerRecvKexInit
    <3>1. peer'.rx.keys = peer.rx.keys /\ peer'.tx = peer.tx /\ peer'.hash = peer.hash /\ peer'.at = peer.at
      BY <2>17, <2>0, KeysStay, PeerRecvTypes DEF PeerRecvKexInit, TypeOK
    <3> QED
      BY <2>17, <3>1 DEF PeerRecvKexInit, client, ClientAgrees, PeerUnkeyed, PeerKeyed, RepliesSigned
  <2>18. CASE PeerRecvEcdhInit
    <3> DEFINE p == up[upRd + 1]
               h == [vs |-> "ident", ic |-> peer.ic, is |-> peer.kex,
                     ks |-> "ks", qc |-> p.msg.qc, qs |-> "qs"]
               reply == EcdhReply("ks", "qs", [pk |-> "ks", hash |-> h])
               tx1 == AfterSend(peer.tx, Block)
               rx2 == AfterRecv(peer.rx, p.total)
               tx2 == AfterSend(tx1, Block)
               a == Seal(peer.tx, reply, Block)
               b == Seal(tx1, NewKeys, Block)
    <3>1. PeerReads /\ peer.at = "kex" /\ UNCHANGED client
      BY <2>18 DEF PeerRecvEcdhInit
    <3>2. peer.hash = NoHash /\ session_id = NoHash
      BY <3>1 DEF PeerUnkeyed, ClientAgrees
    <3>3. h # NoHash
      BY DEF NoHash
    <3>4. a.msg.type = "ecdh_reply" /\ a.msg.sig = GenuineSig(h) /\ b.msg.type = "newkeys"
      BY DEF Seal, EcdhReply, NewKeys, GenuineSig
    <3>5. /\ peer'.at = "newkeys" /\ peer'.hash = h
          /\ peer'.rx = [rx2 EXCEPT !.keys = KeysC2S(h), !.ctr = 0]
          /\ peer'.tx = [tx2 EXCEPT !.keys = KeysS2C(h), !.ctr = 0, !.enc = TRUE]
          /\ dn' = dn \o <<a, b>>
      BY <2>18 DEF PeerRecvEcdhInit, TypeOK
    <3>6. rx2 \in Dirs /\ tx2 \in Dirs
      BY <2>0, <3>1, DirTypes, PeerRecvTypes, WireSizes
    <3> HIDE DEF p, h, a, b, rx2, tx2
    <3>7. peer'.rx.keys = KeysC2S(h) /\ peer'.tx.keys = KeysS2C(h)
      BY <3>5, <3>6 DEF Dirs
    <3>8. RepliesSigned'
      <4>1. dn \in Seq(Packets) /\ Len(dn) \in Nat
        BY DEF TypeOK
      <4>2. /\ Len(dn') = Len(dn) + 2
            /\ dn'[Len(dn) + 1] = a /\ dn'[Len(dn) + 2] = b
            /\ \A i \in 1 .. Len(dn) : dn'[i] = dn[i]
        BY <3>5, <4>1
      <4>3. \A i \in 1 .. Len(dn) : dn[i].msg.type # "ecdh_reply"
        BY <3>2 DEF RepliesSigned
      <4>4. \A i \in 1 .. Len(dn') : i \in 1 .. Len(dn) \/ i = Len(dn) + 1 \/ i = Len(dn) + 2
        BY <4>1, <4>2
      <4> QED  BY <3>3, <3>4, <3>5, <4>2, <4>3, <4>4 DEF RepliesSigned
    <3> QED
      BY <3>1, <3>2, <3>3, <3>5, <3>7, <3>8 DEF client, ClientAgrees, PeerUnkeyed, PeerKeyed
  <2>19. CASE PeerRecvNewKeys
    <3>1. peer'.rx.keys = peer.rx.keys /\ peer'.tx = peer.tx /\ peer'.hash = peer.hash /\ peer'.at = "open"
      <4>1. /\ AfterRecv(peer.rx, up[upRd + 1].total) \in Dirs
            /\ AfterRecv(peer.rx, up[upRd + 1].total).keys = peer.rx.keys
        BY <2>19, <2>0, KeysStay, DirTypes, PeerRecvTypes DEF PeerRecvNewKeys
      <4> QED  BY <2>19, <4>1 DEF PeerRecvNewKeys, TypeOK, Dirs
    <3> QED
      BY <2>19, <3>1 DEF PeerRecvNewKeys, client, ClientAgrees, PeerUnkeyed, PeerKeyed, RepliesSigned
  <2>20. CASE PeerRecvData
    <3>1. peer'.rx.keys = peer.rx.keys /\ peer'.tx = peer.tx /\ peer'.hash = peer.hash /\ peer'.at = peer.at
      BY <2>20, <2>0, KeysStay, PeerRecvTypes DEF PeerRecvData, TypeOK
    <3> QED
      BY <2>20, <3>1 DEF PeerRecvData, client, ClientAgrees, PeerUnkeyed, PeerKeyed, RepliesSigned
  <2>21. CASE PeerHangsUp
    <3>1. peer'.rx = peer.rx /\ peer'.tx = peer.tx /\ peer'.hash = peer.hash /\ peer'.at = "gone"
      BY <2>21 DEF PeerHangsUp, TypeOK
    <3> QED
      BY <2>21, <3>1 DEF PeerHangsUp, client, ClientAgrees, PeerUnkeyed, PeerKeyed, RepliesSigned
  <2>22. CASE PeerNoise
    <3>1. PeerSend(Ignore, Block) /\ Ignore \in Messages /\ Ignore.type # "ecdh_reply"
      BY <2>22, MessageTypes DEF PeerNoise, Ignore
    <3>2. peer'.tx.keys = peer.tx.keys /\ peer'.rx = peer.rx /\ peer'.hash = peer.hash /\ peer'.at = peer.at
      BY <2>22, <2>0, KeysStay, WireSizes DEF PeerNoise, TypeOK
    <3>3. RepliesSigned'
      BY <3>1, <3>2, WireSizes, OtherPackets
    <3> QED  BY <2>22, <3>2, <3>3 DEF PeerNoise, client, ClientAgrees, PeerUnkeyed, PeerKeyed
  <2>23. CASE LinkLost
    BY <2>23 DEF LinkLost, client, ClientAgrees, PeerUnkeyed, PeerKeyed, RepliesSigned
  <2>24. CASE Damage
    <3>1. RepliesSigned'
      <4>1. UNCHANGED peer
        BY <2>24 DEF Damage
      <4>2. CASE DamageUp
        BY <4>1, <4>2 DEF DamageUp, RepliesSigned
      <4>3. CASE DamageDown
        <5>1. PICK i \in dnRd + 1 .. Len(dn) : \E q \in DamagedForms(dn[i]) :
                dn' = [dn EXCEPT ![i] = q]
          BY <4>3 DEF DamageDown
        <5>2. i \in 1 .. Len(dn) /\ dn[i] \in Packets /\ dn[i].msg \in Messages
              /\ dn \in Seq(Packets)
          <6>1. dn \in Seq(Packets) /\ i \in 1 .. Len(dn)
            BY DEF TypeOK
          <6>2. dn[i] \in Packets
            BY <6>1
          <6> QED  BY <6>1, <6>2 DEF Packets
        <5>3. PICK q \in DamagedForms(dn[i]) : dn' = [dn EXCEPT ![i] = q]
          BY <5>1
        <5>4. q.msg.type = "ecdh_reply" =>
                dn[i].msg.type = "ecdh_reply" /\ q.msg.sig \in {dn[i].msg.sig, GarbledSig}
          BY <5>2, <5>3, DamagedTypes, DamagedReply
        <5>5. /\ Len(dn') = Len(dn) /\ dn'[i] = q
              /\ \A j \in 1 .. Len(dn) : j # i => dn'[j] = dn[j]
          BY <5>2, <5>3
        <5> QED  BY <4>1, <5>4, <5>5 DEF RepliesSigned
      <4> QED  BY <2>24, <4>2, <4>3 DEF Damage
    <3> QED  BY <2>24, <3>1 DEF Damage, client, ClientAgrees, PeerUnkeyed, PeerKeyed
  <2>25. CASE UNCHANGED vars
    BY <2>25
    DEF vars, client, conn, ClientAgrees, PeerUnkeyed, PeerKeyed, RepliesSigned
  <2> QED
    BY <2>1, <2>2, <2>3, <2>4, <2>5, <2>6, <2>7, <2>8, <2>9, <2>10, <2>11, <2>12,
       <2>13, <2>14, <2>15, <2>16, <2>17, <2>18, <2>19, <2>20, <2>21, <2>22, <2>23,
       <2>24, <2>25
    DEF Next, Handshake, Recv, PeerStep
<1> QED  BY <1>1, <1>2, TypeCorrect, PTL DEF Spec

\* A handshake that succeeds leaves both ends with the same session id and keys
\* and the client with the peer's true host key (transport.c 498-589).
THEOREM TranscriptsAgree == Spec => []TranscriptAgreement
<1>1. Transcript => TranscriptAgreement
  BY DEF Transcript, AfterKeys, ClientKeyed, ClientAgrees, PeerKeyed,
         TranscriptAgreement, KeysC2S, KeysS2C
<1> QED  BY <1>1, TranscriptInvariant, PTL

-----------------------------------------------------------------------------
(* The cipher states.  Each direction is a chain: a packet records the     *)
(* state it was sealed in, the next packet's is the one its sender went on *)
(* from, the sender's state tx stands at the chain's end and the reader's  *)
(* state rx at the first packet not read.                                  *)

(* One direction. *)

\* What follows the first i packets: the next one, or the sender's state.
After(wire, i, tx) == IF i = Len(wire) THEN tx ELSE wire[i + 1]

\* q is what the sender of packet p went on from.
Follows(p, q) ==
  /\ q.seq = (p.seq + 1) % SeqSpace
  /\ q.ctr = IF p.enc THEN Crypt(p.ctr, p.total) ELSE p.ctr
  /\ p.enc => q.enc
  /\ p.msg.type = "newkeys" /\ p.whole => q.enc
  /\ q.enc /\ ~p.enc => p.msg.type \in {"newkeys", "garbled"}

\* The same place in the stream, the keys aside.
At(d, q) == d.seq = q.seq /\ d.ctr = q.ctr /\ d.enc = q.enc

Clear(q) == ~q.enc => q.ctr = 0
Whole(p) == p.total % Block = 0 /\ p.total >= Block

Chain(wire, tx) ==
  /\ \A i \in 1 .. Len(wire) : Follows(wire[i], After(wire, i, tx))
  /\ \A i \in 1 .. Len(wire) : Whole(wire[i]) /\ Clear(wire[i])
  /\ Clear(tx)

Stands(wire, rd, rx, tx) == At(rx, After(wire, rd, tx))

\* The keystream of a packet lies before that of any later one.
Consumed(wire, tx) ==
  /\ \A i \in 1 .. Len(wire) :
       wire[i].enc => Crypt(wire[i].ctr, wire[i].total) <= tx.ctr
  /\ \A i, j \in 1 .. Len(wire) :
       i < j /\ wire[i].enc => Crypt(wire[i].ctr, wire[i].total) <= wire[j].ctr

\* A packet more on the wire leaves the others where they were.
LEMMA AfterAppend ==
  ASSUME NEW wire \in Seq(Packets), NEW p \in Packets, NEW tx, NEW tx2
  PROVE  /\ Append(wire, p) \in Seq(Packets) /\ Len(Append(wire, p)) = Len(wire) + 1
         /\ Len(wire) \in Nat
         /\ \A i \in 1 .. Len(wire) : Append(wire, p)[i] = wire[i]
         /\ Append(wire, p)[Len(wire) + 1] = p
         /\ \A i \in 0 .. Len(wire) : i # Len(wire) =>
              After(Append(wire, p), i, tx2) = After(wire, i, tx)
         /\ After(Append(wire, p), Len(wire), tx2) = p
         /\ After(Append(wire, p), Len(wire) + 1, tx2) = tx2
<1>1. /\ Append(wire, p) \in Seq(Packets) /\ Len(Append(wire, p)) = Len(wire) + 1
      /\ Len(wire) \in Nat
      /\ \A i \in 1 .. Len(wire) : Append(wire, p)[i] = wire[i]
      /\ Append(wire, p)[Len(wire) + 1] = p
  OBVIOUS
<1>2. \A i \in 0 .. Len(wire) : i # Len(wire) =>
        After(Append(wire, p), i, tx2) = After(wire, i, tx)
  <2> SUFFICES ASSUME NEW i \in 0 .. Len(wire), i # Len(wire)
               PROVE  After(Append(wire, p), i, tx2) = After(wire, i, tx)
    OBVIOUS
  <2>1. i + 1 \in 1 .. Len(wire) /\ i # Len(wire) + 1
    BY <1>1
  <2> QED  BY <1>1, <2>1 DEF After
<1>3. After(Append(wire, p), Len(wire), tx2) = p
  BY <1>1 DEF After
<1>4. After(Append(wire, p), Len(wire) + 1, tx2) = tx2
  BY <1>1 DEF After
<1> QED  BY <1>1, <1>2, <1>3, <1>4

\* Sending packet p, sealed in state tx, which becomes tx2.
LEMMA ChainSend ==
  ASSUME NEW wire \in Seq(Packets), NEW tx \in Dirs, NEW tx2 \in Dirs,
         NEW p \in Packets, At(tx, p), Follows(p, tx2), Whole(p), Clear(tx2),
         Chain(wire, tx), Consumed(wire, tx)
  PROVE  /\ Chain(Append(wire, p), tx2) /\ Consumed(Append(wire, p), tx2)
         /\ \A rd \in 0 .. Len(wire) : \A rx :
              Stands(wire, rd, rx, tx) => Stands(Append(wire, p), rd, rx, tx2)
<1> DEFINE w == Append(wire, p)
<1>1. /\ w \in Seq(Packets) /\ Len(w) = Len(wire) + 1 /\ Len(wire) \in Nat
      /\ \A i \in 1 .. Len(wire) : w[i] = wire[i]
      /\ w[Len(wire) + 1] = p
      /\ \A i \in 0 .. Len(wire) : i # Len(wire) => After(w, i, tx2) = After(wire, i, tx)
      /\ After(w, Len(wire), tx2) = p
      /\ After(w, Len(wire) + 1, tx2) = tx2
  BY AfterAppend
<1>2. After(wire, Len(wire), tx) = tx
  BY DEF After
<1> HIDE DEF w
<1>3. \A i \in 1 .. Len(w) : i \in 1 .. Len(wire) \/ i = Len(wire) + 1
  BY <1>1
<1>4. \A q : Follows(q, tx) => Follows(q, p)
  BY DEF Follows, At
<1>5. \A i \in 1 .. Len(w) : Follows(w[i], After(w, i, tx2))
  <2> SUFFICES ASSUME NEW i \in 1 .. Len(w) PROVE Follows(w[i], After(w, i, tx2))
    OBVIOUS
  <2>1. CASE i = Len(wire) + 1
    BY <1>1, <2>1
  <2>2. CASE i = Len(wire)
    <3>1. Follows(wire[i], tx)
      BY <1>1, <1>2, <2>2 DEF Chain
    <3> QED  BY <1>1, <1>4, <2>2, <3>1
  <2>3. CASE i \in 1 .. Len(wire) /\ i # Len(wire)
    <3>1. i \in 0 .. Len(wire)
      BY <2>3
    <3> QED  BY <1>1, <2>3, <3>1 DEF Chain
  <2> QED  BY <1>3, <2>1, <2>2, <2>3
<1>6. \A i \in 1 .. Len(w) : Whole(w[i]) /\ Clear(w[i])
  <2>1. Clear(p)
    BY DEF Chain, Clear, At
  <2> QED  BY <1>1, <1>3, <2>1 DEF Chain
<1>7. Consumed(w, tx2)
  <2>1. Crypt(p.ctr, p.total) \in Nat /\ Crypt(p.ctr, p.total) >= p.ctr
    BY CryptMoves DEF Packets
  <2>2. tx2.ctr >= tx.ctr /\ (p.enc => tx2.ctr = Crypt(p.ctr, p.total)) /\ tx.ctr = p.ctr
        /\ tx.ctr \in Nat /\ tx2.ctr \in Nat
    BY <2>1 DEF Follows, At, Dirs
  <2>3. \A i \in 1 .. Len(wire) : Crypt(wire[i].ctr, wire[i].total) \in Nat
    <3>1. \A i \in 1 .. Len(wire) : wire[i].ctr \in Nat /\ wire[i].total \in Nat
      <4>1. \A i \in 1 .. Len(wire) : wire[i] \in Packets
        OBVIOUS
      <4> QED  BY <4>1 DEF Packets
    <3> QED  BY <3>1, CryptMoves
  <2>4. \A i \in 1 .. Len(w) : w[i].enc => Crypt(w[i].ctr, w[i].total) <= tx2.ctr
    BY <1>1, <1>3, <2>2, <2>3 DEF Consumed
  <2>5. \A i, j \in 1 .. Len(w) :
          i < j /\ w[i].enc => Crypt(w[i].ctr, w[i].total) <= w[j].ctr
    BY <1>1, <1>3, <2>2 DEF Consumed
  <2> QED  BY <2>4, <2>5 DEF Consumed
<1>8. ASSUME NEW rd \in 0 .. Len(wire), NEW rx, Stands(wire, rd, rx, tx)
      PROVE  Stands(w, rd, rx, tx2)
  <2>1. CASE rd = Len(wire)
    <3>1. At(rx, tx)
      BY <1>2, <1>8, <2>1 DEF Stands
    <3>2. At(rx, p)
      BY <3>1 DEF At
    <3> QED  BY <1>1, <2>1, <3>2 DEF Stands
  <2>2. CASE rd # Len(wire)
    BY <1>1, <1>8, <2>2 DEF Stands
  <2> QED  BY <2>1, <2>2
<1>9. Chain(w, tx2)
  BY <1>5, <1>6 DEF Chain
<1> QED  BY <1>7, <1>8, <1>9 DEF w

\* Reading the next packet in clear or not: the state moves as the sender's did,
\* and NEWKEYS turns encryption on.
LEMMA ChainRead ==
  ASSUME NEW wire \in Seq(Packets), NEW tx \in Dirs, NEW rd \in Nat, rd < Len(wire),
         NEW rx \in Dirs, NEW rx2 \in Dirs,
         Chain(wire, tx), Stands(wire, rd, rx, tx),
         wire[rd + 1].whole, wire[rd + 1].msg.type # "garbled",
         rx2.seq = AfterRecv(rx, wire[rd + 1].total).seq,
         rx2.ctr = AfterRecv(rx, wire[rd + 1].total).ctr \/ (~rx.enc /\ rx2.ctr = 0),
         rx2.enc = (rx.enc \/ wire[rd + 1].msg.type = "newkeys")
  PROVE  Stands(wire, rd + 1, rx2, tx)
<1> DEFINE p == wire[rd + 1]
           q == After(wire, rd + 1, tx)
<1>1. rd + 1 \in 1 .. Len(wire) /\ p \in Packets
  OBVIOUS
<1>2. Follows(p, q) /\ Whole(p) /\ Clear(p) /\ At(rx, p)
  BY <1>1 DEF Chain, Stands, After
<1>3. q.enc \in BOOLEAN /\ Clear(q)
  <2>1. CASE rd + 1 = Len(wire)
    BY <2>1 DEF After, Chain, Dirs
  <2>2. CASE rd + 1 # Len(wire)
    <3>1. rd + 2 \in 1 .. Len(wire) /\ wire[rd + 2] \in Packets /\ q = wire[rd + 2]
      BY <1>1, <2>2 DEF After
    <3> QED  BY <3>1 DEF Chain, Packets
  <2> QED  BY <2>1, <2>2
<1>4. /\ p.enc \in BOOLEAN /\ p.total \in Nat
      /\ rx.ctr \in Nat /\ rx.enc \in BOOLEAN /\ rx2.enc \in BOOLEAN
  BY <1>1 DEF Packets, Dirs
<1> HIDE DEF p, q
<1>5. AfterRecv(rx, p.total) = AfterSend(rx, p.total)
  BY <1>2, <1>4, SendIsRecv DEF Whole
<1>6. AfterSend(rx, p.total).seq = (rx.seq + 1) % SeqSpace
      /\ AfterSend(rx, p.total).ctr = IF rx.enc THEN Crypt(rx.ctr, p.total) ELSE rx.ctr
  BY <1>4 DEF AfterSend, Dirs
<1>7. rx2.seq = q.seq
  BY <1>2, <1>5, <1>6 DEF p, Follows, At
<1>8. rx2.enc = q.enc
  BY <1>2, <1>3, <1>4 DEF p, Follows, At
<1>9. rx2.ctr = q.ctr
  BY <1>2, <1>3, <1>4, <1>5, <1>6 DEF p, Follows, At, Clear
<1> QED  BY <1>7, <1>8, <1>9 DEF Stands, At, q

\* Damage moves nothing: it may hide a NEWKEYS, and cannot make one up.
LEMMA DamagedPacket ==
  ASSUME NEW p \in Packets, NEW q \in DamagedForms(p)
  PROVE  /\ q \in Packets /\ At(p, q) /\ q.total = p.total /\ q.whole = p.whole
         /\ q.keys = p.keys
         /\ q.msg.type = "newkeys" => p.msg.type = "newkeys"
         /\ p.msg.type \in {"newkeys", "garbled"} => q.msg.type \in {"newkeys", "garbled"}
<1>1. /\ q \in Packets /\ At(p, q) /\ q.total = p.total /\ q.whole = p.whole
      /\ q.keys = p.keys
  BY DamagedTypes DEF At
<1>2. p.msg \in Messages
  BY DEF Packets
<1>3. CASE p.enc
  <2>1. q.msg = p.msg
    BY <1>3 DEF DamagedForms, Packets
  <2> QED  BY <1>1, <2>1
<1>4. CASE ~p.enc
  <2>1. PICK g \in GarbledForms(p.msg) : q = [p EXCEPT !.msg = g, !.intact = FALSE]
    BY <1>4 DEF DamagedForms
  <2>2. q.msg = g
    BY <2>1 DEF Packets
  <2>3. /\ g.type = "newkeys" => p.msg.type = "newkeys"
        /\ p.msg.type \in {"newkeys", "garbled"} => g.type \in {"newkeys", "garbled"}
    BY <1>2 DEF GarbledForms, Messages, KexInit, EcdhInit, EcdhReply, NewKeys, Ignore,
                Garbled, Data
  <2> QED  BY <1>1, <2>2, <2>3
<1> QED  BY <1>3, <1>4

\* Damage to a packet moves no state: the chain holds.
LEMMA ChainDamage ==
  ASSUME NEW wire \in Seq(Packets), NEW tx \in Dirs, NEW k \in 1 .. Len(wire),
         NEW q \in DamagedForms(wire[k]), Chain(wire, tx), Consumed(wire, tx)
  PROVE  /\ Chain([wire EXCEPT ![k] = q], tx) /\ Consumed([wire EXCEPT ![k] = q], tx)
         /\ \A rd \in 0 .. Len(wire) : \A rx :
              Stands(wire, rd, rx, tx) => Stands([wire EXCEPT ![k] = q], rd, rx, tx)
<1> DEFINE w == [wire EXCEPT ![k] = q]
<1>1. /\ Len(w) = Len(wire) /\ Len(wire) \in Nat /\ w[k] = q
      /\ \A i \in 1 .. Len(wire) : i # k => w[i] = wire[i]
  OBVIOUS
<1>2. /\ At(wire[k], q) /\ q.total = wire[k].total /\ q.whole = wire[k].whole
      /\ q.msg.type = "newkeys" => wire[k].msg.type = "newkeys"
      /\ wire[k].msg.type \in {"newkeys", "garbled"} => q.msg.type \in {"newkeys", "garbled"}
  BY DamagedPacket
<1> HIDE DEF w
<1>3. \A i \in 1 .. Len(wire) : /\ At(wire[i], w[i]) /\ w[i].total = wire[i].total
                               /\ \A r : Follows(wire[i], r) => Follows(w[i], r)
  <2>1. \A r : Follows(wire[k], r) => Follows(q, r)
    BY <1>2 DEF Follows, At
  <2> QED  BY <1>1, <1>2, <2>1 DEF At
<1>4. \A i \in 0 .. Len(wire) : At(After(wire, i, tx), After(w, i, tx))
  <2> SUFFICES ASSUME NEW i \in 0 .. Len(wire)
               PROVE  At(After(wire, i, tx), After(w, i, tx))
    OBVIOUS
  <2>1. CASE i = Len(wire)
    BY <1>1, <2>1 DEF After, At
  <2>2. CASE i # Len(wire)
    <3>1. i + 1 \in 1 .. Len(wire)
      BY <1>1, <2>2
    <3> QED  BY <1>1, <1>3, <2>2, <3>1 DEF After
  <2> QED  BY <2>1, <2>2
<1>5. Chain(w, tx)
  <2>1. \A i \in 1 .. Len(w) : Follows(w[i], After(w, i, tx))
    <3> SUFFICES ASSUME NEW i \in 1 .. Len(w) PROVE Follows(w[i], After(w, i, tx))
      OBVIOUS
    <3>1. i \in 1 .. Len(wire) /\ i \in 0 .. Len(wire)
      BY <1>1
    <3>2. Follows(w[i], After(wire, i, tx))
      BY <1>3, <3>1 DEF Chain
    <3>3. At(After(wire, i, tx), After(w, i, tx))
      BY <1>4, <3>1
    <3> QED  BY <3>2, <3>3 DEF Follows, At
  <2>2. \A i \in 1 .. Len(w) : Whole(w[i]) /\ Clear(w[i])
    BY <1>1, <1>3 DEF Chain, Whole, Clear, At
  <2> QED  BY <2>1, <2>2 DEF Chain
<1>6. Consumed(w, tx)
  BY <1>1, <1>3 DEF Consumed, At
<1>7. ASSUME NEW rd \in 0 .. Len(wire), NEW rx, Stands(wire, rd, rx, tx)
      PROVE  Stands(w, rd, rx, tx)
  BY <1>4, <1>7 DEF Stands, At
<1> QED  BY <1>5, <1>6, <1>7 DEF w

\* A sender's state that only gets other keys.
LEMMA ChainRekeyed ==
  ASSUME NEW wire, NEW tx, NEW tx2, Chain(wire, tx), Consumed(wire, tx), At(tx, tx2),
         Len(wire) \in Nat
  PROVE  /\ Chain(wire, tx2) /\ Consumed(wire, tx2)
         /\ \A rd, rx : Stands(wire, rd, rx, tx) => Stands(wire, rd, rx, tx2)
<1>1. \A i : At(After(wire, i, tx), After(wire, i, tx2))
  BY DEF After, At
<1>2. Chain(wire, tx2)
  <2>1. ASSUME NEW i \in 1 .. Len(wire) PROVE Follows(wire[i], After(wire, i, tx2))
    BY <1>1 DEF Chain, Follows, At
  <2> QED  BY <2>1 DEF Chain, Clear, At
<1>3. Consumed(wire, tx2)
  BY DEF Consumed, At
<1> QED  BY <1>1, <1>2, <1>3 DEF Stands, At

-----------------------------------------------------------------------------
(* Both directions.  Switches says who encrypts when, Keyed with which keys *)
(* - Transcript, that these are the same - and the rest where everybody     *)
(* stands in the stream.  A client that gave up reads no more.              *)

Switches ==
  /\ BeforeKeys \/ pc = "newkeys" => ~c2s.enc
  /\ BeforeKeys \/ pc \in {"newkeys", "newkeys_wait"} => ~s2c.enc
  /\ peer.at \in {"ident", "kexinit", "kex"} => ~peer.rx.enc /\ ~peer.tx.enc

Encrypted ==
  /\ c2s.enc \/ s2c.enc => session_id # NoHash
  /\ peer.rx.enc \/ peer.tx.enc \/ peer.at \in {"newkeys", "open"} => peer.hash # NoHash

KeyedUp ==
  \A i \in 1 .. Len(up) :
    up[i].enc => peer.hash # NoHash /\ up[i].keys = KeysC2S(peer.hash)

KeyedDown ==
  \A i \in 1 .. Len(dn) :
    dn[i].enc => peer.hash # NoHash /\ dn[i].keys = KeysS2C(peer.hash)

UpSync ==
  /\ Chain(up, c2s) /\ Consumed(up, c2s)
  /\ Stands(up, upRd, peer.rx, c2s)

DnSync ==
  /\ Chain(dn, peer.tx) /\ Consumed(dn, peer.tx)
  /\ pc # "failed" => Stands(dn, dnRd, s2c, peer.tx)

Sync == Switches /\ Encrypted /\ KeyedUp /\ KeyedDown /\ UpSync /\ DnSync

\* A packet as it is sealed.
LEMMA SealFields ==
  ASSUME NEW d \in Dirs, NEW m \in Messages, NEW total \in Nat, NEW p,
         p = Seal(d, m, total)
  PROVE  /\ p \in Packets /\ p.msg = m /\ p.total = total /\ At(d, p)
         /\ p.enc = d.enc /\ (d.enc => p.keys = d.keys)
<1>1. Seal(d, m, total) \in Packets
  BY SealTypes
<1> QED  BY <1>1 DEF Seal, At

\* The state after sending is the one the packet leads to.
LEMMA SendFollows ==
  ASSUME NEW d \in Dirs, NEW p \in Packets, At(d, p), Clear(d), Whole(p),
         p.msg.type # "newkeys"
  PROVE  /\ Follows(p, AfterSend(d, p.total)) /\ Clear(AfterSend(d, p.total))
         /\ AfterSend(d, p.total) \in Dirs
         /\ AfterSend(d, p.total).enc = d.enc /\ AfterSend(d, p.total).keys = d.keys
<1>1. AfterSend(d, p.total) \in Dirs /\ p.total \in Nat
  BY DirTypes DEF Packets
<1>2. /\ AfterSend(d, p.total).seq = (d.seq + 1) % SeqSpace
      /\ AfterSend(d, p.total).ctr = IF d.enc THEN Crypt(d.ctr, p.total) ELSE d.ctr
      /\ AfterSend(d, p.total).enc = d.enc /\ AfterSend(d, p.total).keys = d.keys
  BY DEF AfterSend, Dirs
<1> QED  BY <1>1, <1>2 DEF Follows, At, Clear

\* What is sealed is whole blocks.
LEMMA WholeSizes ==
  /\ \A m \in Messages : /\ WireSize(m) \in Nat /\ WireSize(m) % Block = 0
                         /\ WireSize(m) >= Block
  /\ Block \in Nat /\ Block % Block = 0 /\ Block >= Block
<1>1. ASSUME NEW m \in Messages, m.type = "data"
      PROVE  m.size \in Payloads
  BY <1>1 DEF Messages, KexInit, EcdhInit, NewKeys, Ignore, Garbled, Data
<1>2. Block \in Nat /\ Block % Block = 0 /\ Block >= Block
  BY DEF Block
<1> QED  BY <1>1, <1>2, WireSizes DEF WireSize

\* The client sends anything but NEWKEYS.
LEMMA ClientSends ==
  ASSUME TypeOK, TypeOK', Transcript, Sync, NEW m \in Messages, m.type # "newkeys",
         NEW next, NEW lost, SendPayload(m, next, lost), c2s' = AfterSend(c2s, WireSize(m))
  PROVE  UpSync' /\ KeyedUp' /\ c2s'.enc = c2s.enc
<1> DEFINE p == [Seal(c2s, m, WireSize(m)) EXCEPT !.whole = link]
<1>1. /\ c2s \in Dirs /\ c2s' \in Dirs /\ up \in Seq(Packets) /\ link \in BOOLEAN
      /\ upRd \in 0 .. Len(up)
  BY DEF TypeOK
<1>2. up' = Append(up, p) /\ upRd' = upRd /\ peer' = peer
  BY DEF SendPayload
<1>3. /\ p \in Packets /\ p.msg = m /\ p.total = WireSize(m) /\ At(c2s, p)
      /\ p.enc = c2s.enc /\ (c2s.enc => p.keys = c2s.keys)
  <2>1. WireSize(m) \in Nat
    BY WholeSizes
  <2>2. p \in Packets
    BY <1>1, <2>1, SealTypes
  <2> QED  BY <1>1, <2>1, <2>2 DEF Seal, At
<1> HIDE DEF p
<1>4. Whole(p)
  BY <1>3, WholeSizes DEF Whole
<1>5. Clear(c2s) /\ Chain(up, c2s) /\ Consumed(up, c2s) /\ Stands(up, upRd, peer.rx, c2s)
  BY DEF Sync, UpSync, Chain
<1>6. Follows(p, c2s') /\ Clear(c2s') /\ c2s'.enc = c2s.enc
  BY <1>1, <1>3, <1>4, <1>5, SendFollows
<1>7. UpSync'
  <2>1. /\ Chain(up', c2s') /\ Consumed(up', c2s')
        /\ \A rd \in 0 .. Len(up) : \A rx : Stands(up, rd, rx, c2s) => Stands(up', rd, rx, c2s')
    BY <1>1, <1>2, <1>3, <1>4, <1>5, <1>6, ChainSend
  <2> QED  BY <1>1, <1>2, <1>5, <2>1 DEF UpSync
<1>8. KeyedUp'
  <2>1. p.enc => peer.hash # NoHash /\ p.keys = KeysC2S(peer.hash)
    BY <1>3 DEF Sync, Encrypted, Transcript, ClientAgrees
  <2>2. \A i \in 1 .. Len(up') : (i \in 1 .. Len(up) /\ up'[i] = up[i]) \/ up'[i] = p
    BY <1>1, <1>2, <1>3
  <2> QED  BY <1>2, <2>1, <2>2 DEF Sync, KeyedUp
<1> QED  BY <1>6, <1>7, <1>8

\* The peer sends anything but NEWKEYS.
LEMMA PeerSends ==
  ASSUME TypeOK, TypeOK', Transcript, Sync, NEW m \in Messages, m.type # "newkeys",
         NEW total \in Nat, total % Block = 0, total >= Block,
         PeerSend(m, total), peer'.tx = AfterSend(peer.tx, total), peer'.hash = peer.hash,
         UNCHANGED <<pc, s2c, dnRd>>
  PROVE  DnSync' /\ KeyedDown' /\ peer'.tx.enc = peer.tx.enc
<1> DEFINE p == Seal(peer.tx, m, total)
<1>1. /\ peer.tx \in Dirs /\ peer'.tx \in Dirs /\ dn \in Seq(Packets)
      /\ dnRd \in 0 .. Len(dn)
  BY DEF TypeOK
<1>2. dn' = Append(dn, p)
  BY DEF PeerSend
<1>3. /\ p \in Packets /\ p.msg = m /\ p.total = total /\ At(peer.tx, p)
      /\ p.enc = peer.tx.enc /\ (peer.tx.enc => p.keys = peer.tx.keys)
  BY <1>1, SealFields
<1> HIDE DEF p
<1>4. Whole(p)
  BY <1>3 DEF Whole
<1>5. Clear(peer.tx) /\ Chain(dn, peer.tx) /\ Consumed(dn, peer.tx)
  BY DEF Sync, DnSync, Chain
<1>6. Follows(p, peer'.tx) /\ Clear(peer'.tx) /\ peer'.tx.enc = peer.tx.enc
  BY <1>1, <1>3, <1>4, <1>5, SendFollows
<1>7. DnSync'
  <2>1. /\ Chain(dn', peer'.tx) /\ Consumed(dn', peer'.tx)
        /\ \A rd \in 0 .. Len(dn) : \A rx :
             Stands(dn, rd, rx, peer.tx) => Stands(dn', rd, rx, peer'.tx)
    BY <1>1, <1>2, <1>3, <1>4, <1>5, <1>6, ChainSend
  <2> QED  BY <1>1, <2>1 DEF DnSync, Sync
<1>8. KeyedDown'
  <2>1. p.enc => peer.hash # NoHash /\ p.keys = KeysS2C(peer.hash)
    BY <1>3 DEF Sync, Encrypted, Transcript, PeerKeyed
  <2>2. \A i \in 1 .. Len(dn') : (i \in 1 .. Len(dn) /\ dn'[i] = dn[i]) \/ dn'[i] = p
    BY <1>1, <1>2, <1>3
  <2> QED  BY <2>1, <2>2 DEF Sync, KeyedDown
<1> QED  BY <1>6, <1>7, <1>8

\* The client takes the next packet.
LEMMA ClientReads ==
  ASSUME TypeOK, TypeOK', Sync, pc # "failed", Arrived, RecvPacket,
         NEW p, p = dn[dnRd + 1], Opens(s2c, p), p.msg.type # "garbled",
         s2c'.seq = AfterRecv(s2c, p.total).seq,
         s2c'.ctr = AfterRecv(s2c, p.total).ctr \/ (~s2c.enc /\ s2c'.ctr = 0),
         s2c'.enc = (s2c.enc \/ p.msg.type = "newkeys")
  PROVE  DnSync'
<1>1. /\ dn \in Seq(Packets) /\ peer.tx \in Dirs /\ s2c \in Dirs /\ s2c' \in Dirs
      /\ dnRd \in Nat /\ dnRd < Len(dn)
  BY DEF TypeOK, Arrived
<1>2. Chain(dn, peer.tx) /\ Consumed(dn, peer.tx) /\ Stands(dn, dnRd, s2c, peer.tx)
  BY DEF Sync, DnSync
<1>3. p.whole
  BY DEF Opens
<1>4. Stands(dn, dnRd + 1, s2c', peer.tx)
  BY <1>1, <1>2, <1>3, ChainRead
<1> QED  BY <1>2, <1>4 DEF DnSync, RecvPacket

\* The peer takes the next packet.
LEMMA PeerTakes ==
  ASSUME TypeOK, TypeOK', Sync, PeerReads, UNCHANGED <<up, c2s>>, upRd' = upRd + 1,
         NEW p, p = up[upRd + 1], Opens(peer.rx, p), p.msg.type # "garbled",
         peer'.rx.seq = AfterRecv(peer.rx, p.total).seq,
         peer'.rx.ctr = AfterRecv(peer.rx, p.total).ctr \/ (~peer.rx.enc /\ peer'.rx.ctr = 0),
         peer'.rx.enc = (peer.rx.enc \/ p.msg.type = "newkeys")
  PROVE  UpSync'
<1>1. /\ up \in Seq(Packets) /\ c2s \in Dirs /\ peer.rx \in Dirs /\ peer'.rx \in Dirs
      /\ upRd \in Nat /\ upRd < Len(up)
  BY DEF TypeOK, PeerReads
<1>2. Chain(up, c2s) /\ Consumed(up, c2s) /\ Stands(up, upRd, peer.rx, c2s)
  BY DEF Sync, UpSync
<1>3. p.whole
  BY DEF Opens
<1>4. Stands(up, upRd + 1, peer'.rx, c2s)
  BY <1>1, <1>2, <1>3, ChainRead
<1> QED  BY <1>2, <1>4 DEF UpSync

\* Steps that leave the stream alone, one of its ends or both.
LEMMA UpStays ==
  ASSUME UpSync, UNCHANGED <<up, upRd, c2s>>, peer'.rx = peer.rx
  PROVE  UpSync'
  BY DEF UpSync

\* Steps that leave the server's direction alone.
LEMMA DnStays ==
  ASSUME DnSync, UNCHANGED <<dn, dnRd>>, peer'.tx = peer.tx,
         pc' = "failed" \/ (pc # "failed" /\ s2c' = s2c) \/ UNCHANGED <<pc, s2c>>
  PROVE  DnSync'
  BY DEF DnSync

\* A packet that is not harmed opens where the reader stands.
LEMMA UnharmedOpens ==
  ASSUME NEW d \in Dirs, NEW p \in Packets, At(d, p), p.enc => p.keys = d.keys,
         Unharmed(p)
  PROVE  Opens(d, p)
  BY DEF Opens, At, Unharmed

\* Receiving changes neither the keys nor whether they are used.
LEMMA RecvFields ==
  ASSUME NEW d \in Dirs, NEW total \in Nat
  PROVE  /\ AfterRecv(d, total) \in Dirs
         /\ AfterRecv(d, total).enc = d.enc /\ AfterRecv(d, total).keys = d.keys
  BY DirTypes DEF AfterRecv, Dirs

\* Before the first packet.
LEMMA SyncInit == Init => Sync
<1> SUFFICES ASSUME Init PROVE Sync
  OBVIOUS
<1>1. /\ c2s = NewDir /\ s2c = NewDir /\ peer.rx = NewDir /\ peer.tx = NewDir
      /\ peer.at = "ident" /\ up = <<>> /\ dn = <<>> /\ upRd = 0 /\ dnRd = 0
  BY DEF Init
<1>2. Len(up) = 0 /\ Len(dn) = 0 /\ ~NewDir.enc /\ NewDir.ctr = 0
  BY <1>1 DEF NewDir
<1>3. UpSync
  BY <1>1, <1>2 DEF UpSync, Chain, Consumed, Stands, After, At, Clear
<1>4. DnSync
  BY <1>1, <1>2 DEF DnSync, Chain, Consumed, Stands, After, At, Clear
<1> QED
  BY <1>1, <1>2, <1>3, <1>4 DEF Sync, Switches, Encrypted, KeyedUp, KeyedDown

\* Any step keeps the chains.
LEMMA SyncStep ==
  ASSUME TypeOK, TypeOK', Transcript, Transcript', Sync, [Next]_vars
  PROVE  Sync'
<1> USE DEF Sync
<1>0. /\ c2s \in Dirs /\ s2c \in Dirs /\ peer.rx \in Dirs /\ peer.tx \in Dirs
      /\ c2s' \in Dirs /\ s2c' \in Dirs /\ peer'.rx \in Dirs /\ peer'.tx \in Dirs
      /\ up \in Seq(Packets) /\ dn \in Seq(Packets)
      /\ upRd \in 0 .. Len(up) /\ dnRd \in 0 .. Len(dn)
  BY DEF TypeOK
<1>1. CASE SendIdent
  <2>1. UpSync' /\ DnSync'
    BY <1>1, UpStays, DnStays DEF SendIdent
  <2> QED  BY <1>1, <2>1 DEF SendIdent, Switches, BeforeKeys, Encrypted, KeyedUp, KeyedDown
<1>2. CASE RecvIdent
  <2>1. UpSync' /\ DnSync'
    BY <1>2, UpStays, DnStays DEF RecvIdent
  <2> QED  BY <1>2, <2>1 DEF RecvIdent, Switches, BeforeKeys, Encrypted, KeyedUp, KeyedDown
<1>3. CASE SendKexInit
  <2>1. KexInit("ic") \in Messages /\ KexInit("ic").type # "newkeys"
        /\ WireSize(KexInit("ic")) = Block
    BY MessageTypes DEF KexInit, WireSize
  <2>2. UpSync' /\ KeyedUp' /\ c2s'.enc = c2s.enc
    BY <1>3, <2>1, ClientSends DEF SendKexInit
  <2>3. DnSync'
    BY <1>3, DnStays DEF SendKexInit, SendPayload
  <2> QED
    BY <1>3, <2>2, <2>3
    DEF SendKexInit, SendPayload, Switches, BeforeKeys, Encrypted, KeyedDown
<1>4. CASE RecvKexInit
  <2> DEFINE p == dn[dnRd + 1]
  <2>1. /\ Opens(s2c, p) /\ p.msg.type = "kexinit" /\ s2c' = AfterRecv(s2c, p.total)
        /\ p.total \in Nat /\ Arrived /\ RecvPacket
    BY <1>4, RecvTypes DEF RecvKexInit
  <2>2. s2c'.enc = s2c.enc
    BY <1>0, <2>1, RecvFields
  <2>3. DnSync'
    <3>1. pc # "failed" /\ s2c'.enc = (s2c.enc \/ p.msg.type = "newkeys")
      BY <1>4, <1>0, <2>1, <2>2 DEF RecvKexInit, Dirs
    <3> QED  BY <2>1, <3>1, ClientReads
  <2>4. UpSync'
    BY <1>4, UpStays DEF RecvKexInit, RecvPacket
  <2> QED
    BY <1>4, <2>2, <2>3, <2>4
    DEF RecvKexInit, RecvPacket, Switches, BeforeKeys, Encrypted, KeyedUp, KeyedDown
<1>5. CASE SendEcdhInit
  <2>1. EcdhInit("qc") \in Messages /\ EcdhInit("qc").type # "newkeys"
        /\ WireSize(EcdhInit("qc")) = Block
    BY MessageTypes DEF EcdhInit, WireSize
  <2>2. UpSync' /\ KeyedUp' /\ c2s'.enc = c2s.enc
    BY <1>5, <2>1, ClientSends DEF SendEcdhInit
  <2>3. DnSync'
    BY <1>5, DnStays DEF SendEcdhInit, SendPayload
  <2> QED
    BY <1>5, <2>2, <2>3
    DEF SendEcdhInit, SendPayload, Switches, BeforeKeys, Encrypted, KeyedDown
<1>6. CASE RecvEcdhReply
  <2> DEFINE p == dn[dnRd + 1]
             r == AfterRecv(s2c, p.total)
  <2>1. /\ Opens(s2c, p) /\ p.msg.type = "ecdh_reply" /\ pc = "ecdh_wait"
        /\ p.total \in Nat /\ Arrived /\ RecvPacket
    BY <1>6, RecvTypes DEF RecvEcdhReply
  <2>2. r \in Dirs /\ r.enc = s2c.enc
    BY <1>0, <2>1, RecvFields
  <2>3. s2c' = [r EXCEPT !.keys = KeysS2C(ClientHash(p.msg)), !.ctr = 0]
        /\ c2s' = [c2s EXCEPT !.keys = KeysC2S(ClientHash(p.msg)), !.ctr = 0]
    BY <1>6 DEF RecvEcdhReply
  <2>4. ~s2c.enc /\ ~c2s.enc
    BY <2>1 DEF Switches, BeforeKeys
  <2> HIDE DEF r
  <2>5. s2c'.seq = r.seq /\ s2c'.ctr = 0 /\ s2c'.enc = s2c.enc
    BY <2>2, <2>3 DEF Dirs
  <2>6. DnSync'
    <3>1. s2c'.enc = (s2c.enc \/ p.msg.type = "newkeys")
      BY <1>0, <2>1, <2>5 DEF Dirs
    <3> QED  BY <2>1, <2>4, <2>5, <3>1, ClientReads DEF r
  <2>7. UpSync' /\ ~c2s'.enc
    <3>1. At(c2s, c2s') /\ ~c2s'.enc
      <4>1. c2s.ctr = 0
        BY <2>4 DEF UpSync, Chain, Clear
      <4> QED  BY <1>0, <2>3, <2>4, <4>1 DEF Dirs, At
    <3>2. UNCHANGED <<up, upRd, peer>> /\ Len(up) \in Nat
      BY <1>0, <2>1 DEF RecvPacket
    <3>3. /\ Chain(up, c2s') /\ Consumed(up, c2s')
          /\ Stands(up, upRd, peer.rx, c2s) => Stands(up, upRd, peer.rx, c2s')
      BY <3>1, <3>2, ChainRekeyed DEF UpSync
    <3> QED  BY <3>1, <3>2, <3>3 DEF UpSync
  <2> QED
    BY <1>6, <2>1, <2>4, <2>5, <2>6, <2>7
    DEF RecvEcdhReply, RecvPacket, Switches, BeforeKeys, Encrypted, KeyedUp, KeyedDown
<1>7. CASE SendNewKeys
  <2> DEFINE p == [Seal(c2s, NewKeys, WireSize(NewKeys)) EXCEPT !.whole = link]
             r == AfterSend(c2s, Block)
  <2>1. /\ pc = "newkeys" /\ SendPayload(NewKeys, "newkeys_wait", {"failed"})
        /\ c2s' = [r EXCEPT !.enc = (pc' = "newkeys_wait")]
        /\ UNCHANGED <<s2c, session_id, server_pk>>
    BY <1>7 DEF SendNewKeys
  <2>2. /\ up' = Append(up, p) /\ UNCHANGED <<upRd, dn, dnRd, peer>>
        /\ pc' = "newkeys_wait" \/ (~link /\ pc' = "failed")
    BY <2>1 DEF SendPayload
  <2>3. /\ NewKeys \in Messages /\ WireSize(NewKeys) = Block /\ link \in BOOLEAN
        /\ NewKeys.type = "newkeys"
    BY MessageTypes DEF NewKeys, WireSize, TypeOK
  <2>4. p \in Packets
    BY <1>0, <2>3, WholeSizes, SealTypes
  <2>5. /\ p.msg.type = "newkeys" /\ p.total = Block /\ At(c2s, p) /\ ~p.enc /\ p.whole = link
    <3>1. ~c2s.enc
      BY <2>1 DEF Switches
    <3> QED  BY <1>0, <2>3, <2>4, <3>1 DEF Seal, At
  <2>6. r \in Dirs /\ r.seq = (c2s.seq + 1) % SeqSpace /\ r.ctr = c2s.ctr
    <3>1. ~c2s.enc
      BY <2>1 DEF Switches
    <3> QED  BY <1>0, <3>1, WholeSizes, DirTypes DEF AfterSend, Dirs
  <2> HIDE DEF p, r
  <2>7. /\ c2s'.seq = r.seq /\ c2s'.ctr = r.ctr /\ c2s'.enc = (pc' = "newkeys_wait")
    BY <2>1, <2>6 DEF Dirs
  <2>8. Follows(p, c2s')
    BY <2>2, <2>5, <2>6, <2>7 DEF Follows, At
  <2>9. Whole(p) /\ Clear(c2s')
    <3>1. c2s.ctr = 0
      BY <2>5 DEF UpSync, Chain, Clear, At
    <3> QED  BY <2>5, <2>6, <2>7, <3>1, WholeSizes DEF Whole, Clear
  <2>10. UpSync'
    <3>1. /\ Chain(up', c2s') /\ Consumed(up', c2s')
          /\ \A rd \in 0 .. Len(up) : \A rx : Stands(up, rd, rx, c2s) => Stands(up', rd, rx, c2s')
      BY <1>0, <2>2, <2>4, <2>5, <2>8, <2>9, ChainSend DEF UpSync
    <3> QED  BY <1>0, <2>2, <3>1 DEF UpSync
  <2>11. KeyedUp'
    <3>1. \A i \in 1 .. Len(up') : (i \in 1 .. Len(up) /\ up'[i] = up[i]) \/ up'[i] = p
      BY <1>0, <2>2, <2>4
    <3> QED  BY <2>2, <2>5, <3>1 DEF KeyedUp
  <2>12. DnSync'
    BY <2>1, <2>2, DnStays
  <2>13. session_id # NoHash
    BY <2>1 DEF Transcript, ClientKeyed, AfterKeys
  <2> QED
    BY <2>1, <2>2, <2>10, <2>11, <2>12, <2>13
    DEF Switches, BeforeKeys, Encrypted, KeyedDown
<1>8. CASE RecvNewKeys
  <2> DEFINE p == dn[dnRd + 1]
             r == AfterRecv(s2c, p.total)
  <2>1. /\ Opens(s2c, p) /\ p.msg.type = "newkeys" /\ pc = "newkeys_wait"
        /\ p.total \in Nat /\ Arrived /\ RecvPacket
    BY <1>8, RecvTypes DEF RecvNewKeys
  <2>2. r \in Dirs /\ r.enc = s2c.enc /\ s2c' = [r EXCEPT !.enc = TRUE]
    BY <1>0, <1>8, <2>1, RecvFields DEF RecvNewKeys
  <2> HIDE DEF r
  <2>3. s2c'.seq = r.seq /\ s2c'.ctr = r.ctr /\ s2c'.enc
    BY <2>2 DEF Dirs
  <2>4. DnSync'
    <3>1. s2c'.enc = (s2c.enc \/ p.msg.type = "newkeys")
      BY <1>0, <2>1, <2>3 DEF Dirs
    <3> QED  BY <2>1, <2>3, <3>1, ClientReads DEF r
  <2>5. UpSync'
    BY <1>8, UpStays DEF RecvNewKeys, RecvPacket
  <2>6. session_id # NoHash
    BY <2>1 DEF Transcript, ClientKeyed, AfterKeys
  <2> QED
    BY <1>8, <2>4, <2>5, <2>6
    DEF RecvNewKeys, RecvPacket, Switches, BeforeKeys, Encrypted, KeyedUp, KeyedDown
<1>9. CASE RecvData
  <2> DEFINE p == dn[dnRd + 1]
  <2>1. /\ Opens(s2c, p) /\ p.msg.type = "data" /\ s2c' = AfterRecv(s2c, p.total)
        /\ p.total \in Nat /\ Arrived /\ RecvPacket /\ pc = "open"
    BY <1>9, RecvTypes DEF RecvData
  <2>2. s2c'.enc = s2c.enc
    BY <1>0, <2>1, RecvFields
  <2>3. DnSync'
    <3>1. s2c'.enc = (s2c.enc \/ p.msg.type = "newkeys")
      BY <1>0, <2>1, <2>2 DEF Dirs
    <3> QED  BY <2>1, <3>1, ClientReads
  <2>4. UpSync'
    BY <1>9, UpStays DEF RecvData, RecvPacket
  <2> QED
    BY <1>9, <2>2, <2>3, <2>4
    DEF RecvData, RecvPacket, Switches, BeforeKeys, Encrypted, KeyedUp, KeyedDown
<1>10. CASE RecvRejected
  <2> DEFINE p == dn[dnRd + 1]
  <2>1. /\ pc' = "failed" /\ UNCHANGED <<c2s, session_id>> /\ RecvPacket /\ Arrived
        /\ s2c' = AfterRecv(s2c, p.total) \/ s2c' \in GivenUp(p.total)
    BY <1>10 DEF RecvRejected, Fail
  <2>2. s2c'.enc = s2c.enc
    <3>1. p.total \in Nat
      BY <2>1, RecvTypes
    <3> HIDE DEF p
    <3>2. CASE s2c' = AfterRecv(s2c, p.total)
      BY <1>0, <3>1, <3>2, RecvFields
    <3>3. CASE s2c' \in GivenUp(p.total)
      BY <1>0, <3>1, <3>3, GivenUpTypes
    <3> QED  BY <2>1, <3>2, <3>3
  <2>3. UpSync' /\ DnSync'
    BY <2>1 DEF UpSync, DnSync, RecvPacket
  <2> QED
    BY <2>1, <2>2, <2>3
    DEF RecvPacket, Switches, BeforeKeys, Encrypted, KeyedUp, KeyedDown
<1>11. CASE RecvText
  <2>1. UpSync' /\ DnSync'
    BY <1>11 DEF RecvText, Fail, conn, UpSync, DnSync
  <2> QED
    BY <1>11, <2>1
    DEF RecvText, Fail, conn, Switches, BeforeKeys, Encrypted, KeyedUp, KeyedDown
<1>12. CASE RecvLost
  <2>1. s2c'.enc = s2c.enc
    <3>1. CASE dnRd < Len(dn)
      <4>1. dn[dnRd + 1].total \in Nat
        <5>1. dnRd + 1 \in 1 .. Len(dn)
          BY <1>0, <3>1
        <5>2. dn[dnRd + 1] \in Packets
          BY <1>0, <5>1
        <5> QED  BY <5>2 DEF Packets
      <4> QED  BY <1>0, <1>12, <3>1, <4>1, GivenUpTypes DEF RecvLost
    <3> QED  BY <1>12, <3>1 DEF RecvLost
  <2>2. UpSync' /\ DnSync'
    BY <1>12 DEF RecvLost, Fail, conn, UpSync, DnSync
  <2> QED
    BY <1>12, <2>1, <2>2
    DEF RecvLost, Fail, conn, Switches, BeforeKeys, Encrypted, KeyedUp, KeyedDown
<1>13. ASSUME NEW n \in Payloads, SendData(n) PROVE Sync'
  <2>1. Data(n) \in Messages /\ Data(n).type # "newkeys"
        /\ WireSize(Data(n)) = Total(n, PadLen(n))
    BY MessageTypes DEF Data, WireSize
  <2>2. UpSync' /\ KeyedUp' /\ c2s'.enc = c2s.enc
    BY <1>13, <2>1, ClientSends DEF SendData
  <2>3. DnSync'
    BY <1>13, DnStays DEF SendData, SendPayload
  <2> QED
    BY <1>13, <2>2, <2>3
    DEF SendData, SendPayload, Switches, BeforeKeys, Encrypted, KeyedDown
<1>14. ASSUME NEW n \in Payloads, PeerSendData(n) PROVE Sync'
  <2>1. PICK pad \in PeerPads :
          /\ Total(n, pad) % Block = 0 /\ PeerSend(Data(n), Total(n, pad))
          /\ peer' = [peer EXCEPT !.tx = AfterSend(@, Total(n, pad))]
    BY <1>14 DEF PeerSendData
  <2>2. /\ Data(n) \in Messages /\ Data(n).type # "newkeys"
        /\ Total(n, pad) \in Nat /\ Total(n, pad) >= Block
    <3>1. n \in Nat \ {0} /\ pad \in Nat /\ pad >= 4
      BY TransportAssumption
    <3> QED  BY <2>1, <3>1, MessageTypes, TotalBlocks DEF Data
  <2>3. /\ peer'.tx = AfterSend(peer.tx, Total(n, pad)) /\ peer'.rx = peer.rx
        /\ peer'.hash = peer.hash /\ peer'.at = peer.at
    BY <2>1 DEF TypeOK
  <2>4. UNCHANGED <<client, up, upRd, dnRd>>
    BY <1>14 DEF PeerSendData
  <2>5. DnSync' /\ KeyedDown' /\ peer'.tx.enc = peer.tx.enc
    BY <2>1, <2>2, <2>3, <2>4, PeerSends DEF client
  <2>6. UpSync'
    BY <2>3, <2>4, UpStays DEF client
  <2> QED
    BY <2>3, <2>4, <2>5, <2>6 DEF client, Switches, BeforeKeys, Encrypted, KeyedUp
<1>15. CASE PeerIdent
  <2>1. /\ peer'.tx = peer.tx /\ peer'.rx = peer.rx /\ peer'.hash = peer.hash
        /\ peer.at = "ident" /\ peer'.at = "kexinit"
        /\ UNCHANGED <<client, up, upRd, dn, dnRd>>
    BY <1>15 DEF PeerIdent, TypeOK
  <2>2. UpSync' /\ DnSync'
    BY <2>1, UpStays, DnStays DEF client
  <2> QED
    BY <2>1, <2>2 DEF client, Switches, BeforeKeys, Encrypted, KeyedUp, KeyedDown
<1>16. CASE PeerKexInit
  <2>1. /\ PeerSend(KexInit(peer.kex), Block)
        /\ KexInit(peer.kex) \in Messages /\ KexInit(peer.kex).type # "newkeys"
        /\ UNCHANGED <<client, up, upRd, dnRd>>
    BY <1>16, MessageTypes DEF PeerKexInit, TypeOK, KexInit
  <2>2. /\ peer'.tx = AfterSend(peer.tx, Block) /\ peer'.rx = peer.rx
        /\ peer'.hash = peer.hash /\ peer.at = "kexinit" /\ peer'.at = "kex"
    BY <1>16 DEF PeerKexInit, TypeOK
  <2>3. DnSync' /\ KeyedDown' /\ peer'.tx.enc = peer.tx.enc
    BY <2>1, <2>2, WholeSizes, PeerSends DEF client
  <2>4. UpSync'
    BY <2>1, <2>2, UpStays DEF client
  <2> QED
    BY <2>1, <2>2, <2>3, <2>4 DEF client, Switches, BeforeKeys, Encrypted, KeyedUp
<1>17. CASE PeerRecvKexInit
  <2> DEFINE p == up[upRd + 1]
  <2>1. /\ Opens(peer.rx, p) /\ p.msg.type = "kexinit" /\ PeerReads /\ p.total \in Nat
        /\ UNCHANGED <<client, up, dn, dnRd>> /\ upRd' = upRd + 1
    BY <1>17, PeerRecvTypes DEF PeerRecvKexInit
  <2>2. /\ peer'.rx = AfterRecv(peer.rx, p.total) /\ peer'.tx = peer.tx
        /\ peer'.hash = peer.hash /\ peer'.at = peer.at
    BY <1>17 DEF PeerRecvKexInit, TypeOK
  <2>3. peer'.rx.enc = peer.rx.enc
    <3>1. p.total \in Nat /\ peer.rx \in Dirs
      BY <1>0, <2>1
    <3> HIDE DEF p
    <3>2. AfterRecv(peer.rx, p.total).enc = peer.rx.enc
      BY <3>1, RecvFields
    <3> QED  BY <2>2, <3>2
  <2>4. UpSync'
    <3>1. peer'.rx.enc = (peer.rx.enc \/ p.msg.type = "newkeys")
      BY <1>0, <2>1, <2>3 DEF Dirs
    <3> QED  BY <2>1, <2>2, <3>1, PeerTakes DEF client
  <2>5. DnSync'
    BY <2>1, <2>2, DnStays DEF client
  <2> QED
    BY <2>1, <2>2, <2>3, <2>4, <2>5
    DEF client, Switches, BeforeKeys, Encrypted, KeyedUp, KeyedDown
<1>18. CASE PeerRecvEcdhInit
  <2> DEFINE p == up[upRd + 1]
             h == [vs |-> "ident", ic |-> peer.ic, is |-> peer.kex,
                   ks |-> "ks", qc |-> p.msg.qc, qs |-> "qs"]
             reply == EcdhReply("ks", "qs", [pk |-> "ks", hash |-> h])
             tx1 == AfterSend(peer.tx, Block)
             rx2 == AfterRecv(peer.rx, p.total)
             tx2 == AfterSend(tx1, Block)
             a == Seal(peer.tx, reply, Block)
             b == Seal(tx1, NewKeys, Block)
  <2>1. /\ Opens(peer.rx, p) /\ p.msg.type = "ecdh_init" /\ PeerReads /\ p.total \in Nat
        /\ UNCHANGED <<client, up, dnRd>> /\ upRd' = upRd + 1 /\ peer.at = "kex"
    BY <1>18, PeerRecvTypes DEF PeerRecvEcdhInit
  <2>2. /\ peer'.at = "newkeys" /\ peer'.hash = h
        /\ peer'.rx = [rx2 EXCEPT !.keys = KeysC2S(h), !.ctr = 0]
        /\ peer'.tx = [tx2 EXCEPT !.keys = KeysS2C(h), !.ctr = 0, !.enc = TRUE]
        /\ dn' = dn \o <<a, b>>
    BY <1>18 DEF PeerRecvEcdhInit, TypeOK
  <2>3. h # NoHash
    BY DEF NoHash
  <2>4. /\ peer.hash = NoHash /\ ~peer.rx.enc /\ ~peer.tx.enc
        /\ session_id = NoHash /\ ~c2s.enc /\ ~s2c.enc
    BY <2>1 DEF Switches, Encrypted, Transcript, PeerUnkeyed, ClientAgrees
  <2>5. reply \in Messages /\ reply.type = "ecdh_reply"
    <3>1. peer'.hash \in Hashes
      BY DEF TypeOK
    <3> HIDE DEF h
    <3> QED  BY <2>2, <3>1 DEF Messages, EcdhReply
  <2>6. NewKeys \in Messages /\ NewKeys.type = "newkeys"
    BY MessageTypes DEF NewKeys
  <2>7. rx2 \in Dirs /\ rx2.enc = peer.rx.enc
    BY <1>0, <2>1, RecvFields
  <2>8. Clear(peer.tx) /\ Chain(dn, peer.tx) /\ Consumed(dn, peer.tx) /\ peer.tx.ctr = 0
    BY <2>4 DEF DnSync, Chain, Clear
  <2> HIDE DEF p, h, reply
  <2>9. /\ a \in Packets /\ a.msg = reply /\ a.total = Block /\ At(peer.tx, a) /\ ~a.enc
    BY <1>0, <2>4, <2>5, WholeSizes, SealFields
  <2> HIDE DEF a
  <2>10. /\ Follows(a, tx1) /\ Clear(tx1) /\ tx1 \in Dirs /\ ~tx1.enc /\ Whole(a)
    <3>1. Whole(a) /\ a.msg.type # "newkeys"
      BY <2>5, <2>9, WholeSizes DEF Whole
    <3> QED  BY <1>0, <2>4, <2>8, <2>9, <3>1, SendFollows
  <2> HIDE DEF tx1
  <2>11. /\ b \in Packets /\ b.msg = NewKeys /\ b.total = Block /\ At(tx1, b) /\ ~b.enc
    BY <2>6, <2>10, WholeSizes, SealFields
  <2> HIDE DEF b
  <2>12. tx2 \in Dirs /\ tx2.seq = (tx1.seq + 1) % SeqSpace
    BY <2>10, WholeSizes, DirTypes DEF AfterSend, Dirs
  <2> HIDE DEF tx2, rx2
  <2>13. peer'.tx.seq = tx2.seq /\ peer'.tx.ctr = 0 /\ peer'.tx.enc
    BY <2>2, <2>12 DEF Dirs
  <2>14. peer'.rx.seq = rx2.seq /\ peer'.rx.ctr = 0 /\ peer'.rx.enc = rx2.enc
    BY <2>2, <2>7 DEF Dirs
  <2>15. Follows(b, peer'.tx) /\ Whole(b) /\ Clear(peer'.tx)
    <3>1. b.ctr = 0
      BY <2>10, <2>11 DEF At, Clear
    <3> QED  BY <2>6, <2>11, <2>12, <2>13, <3>1, WholeSizes DEF Follows, At, Whole, Clear
  <2>16. DnSync'
    <3> DEFINE w == Append(dn, a)
    <3>1. /\ Chain(w, tx1) /\ Consumed(w, tx1)
          /\ \A rd \in 0 .. Len(dn) : \A rx :
               Stands(dn, rd, rx, peer.tx) => Stands(w, rd, rx, tx1)
      BY <1>0, <2>8, <2>9, <2>10, ChainSend
    <3>2. /\ w \in Seq(Packets) /\ Len(w) = Len(dn) + 1 /\ dn' = Append(w, b)
          /\ dnRd \in 0 .. Len(dn) /\ dnRd \in 0 .. Len(w)
      BY <1>0, <2>2, <2>9, <2>11
    <3> HIDE DEF w
    <3>3. /\ Chain(dn', peer'.tx) /\ Consumed(dn', peer'.tx)
          /\ \A rd \in 0 .. Len(w) : \A rx :
               Stands(w, rd, rx, tx1) => Stands(dn', rd, rx, peer'.tx)
      BY <1>0, <2>10, <2>11, <2>15, <3>1, <3>2, ChainSend
    <3> QED  BY <2>1, <3>1, <3>2, <3>3 DEF DnSync, client
  <2>17. UpSync'
    <3>1. peer'.rx.enc = (peer.rx.enc \/ p.msg.type = "newkeys")
      BY <1>0, <2>1, <2>4, <2>7, <2>14 DEF Dirs
    <3> QED  BY <2>1, <2>4, <2>14, <3>1, PeerTakes DEF client, p, rx2
  <2>18. KeyedUp' /\ KeyedDown'
    <3>1. \A i \in 1 .. Len(up) : ~up[i].enc
      BY <2>4 DEF KeyedUp
    <3>2. \A i \in 1 .. Len(dn') : (i \in 1 .. Len(dn) /\ dn'[i] = dn[i]) \/ dn'[i] \in {a, b}
      BY <1>0, <2>2, <2>9, <2>11
    <3>3. \A i \in 1 .. Len(dn') : ~dn'[i].enc
      BY <2>4, <2>9, <2>11, <3>2 DEF KeyedDown
    <3> QED  BY <2>1, <3>1, <3>3 DEF KeyedUp, KeyedDown
  <2> QED
    BY <2>1, <2>2, <2>3, <2>4, <2>16, <2>17, <2>18
    DEF client, Switches, BeforeKeys, Encrypted
<1>19. CASE PeerRecvNewKeys
  <2> DEFINE p == up[upRd + 1]
             r == AfterRecv(peer.rx, p.total)
  <2>1. /\ Opens(peer.rx, p) /\ p.msg.type = "newkeys" /\ PeerReads /\ p.total \in Nat
        /\ UNCHANGED <<client, up, dn, dnRd>> /\ upRd' = upRd + 1 /\ peer.at = "newkeys"
    BY <1>19, PeerRecvTypes DEF PeerRecvNewKeys
  <2>2. /\ peer'.rx = [r EXCEPT !.enc = TRUE] /\ peer'.tx = peer.tx
        /\ peer'.hash = peer.hash /\ peer'.at = "open"
    BY <1>19 DEF PeerRecvNewKeys, TypeOK
  <2>3. r \in Dirs
    BY <1>0, <2>1, RecvFields
  <2> HIDE DEF r
  <2>4. peer'.rx.seq = r.seq /\ peer'.rx.ctr = r.ctr /\ peer'.rx.enc
    BY <2>2, <2>3 DEF Dirs
  <2>5. UpSync'
    <3>1. peer'.rx.enc = (peer.rx.enc \/ p.msg.type = "newkeys")
      BY <1>0, <2>1, <2>4 DEF Dirs
    <3> QED  BY <2>1, <2>4, <3>1, PeerTakes DEF client, r
  <2>6. DnSync'
    BY <2>1, <2>2, DnStays DEF client
  <2> QED
    BY <2>1, <2>2, <2>5, <2>6
    DEF client, Switches, BeforeKeys, Encrypted, KeyedUp, KeyedDown
<1>20. CASE PeerRecvData
  <2> DEFINE p == up[upRd + 1]
  <2>1. /\ Opens(peer.rx, p) /\ p.msg.type = "data" /\ PeerReads /\ p.total \in Nat
        /\ UNCHANGED <<client, up, dn, dnRd>> /\ upRd' = upRd + 1
    BY <1>20, PeerRecvTypes DEF PeerRecvData
  <2>2. /\ peer'.rx = AfterRecv(peer.rx, p.total) /\ peer'.tx = peer.tx
        /\ peer'.hash = peer.hash /\ peer'.at = peer.at
    BY <1>20 DEF PeerRecvData, TypeOK
  <2>3. peer'.rx.enc = peer.rx.enc
    <3>1. p.total \in Nat /\ peer.rx \in Dirs
      BY <1>0, <2>1
    <3> HIDE DEF p
    <3>2. AfterRecv(peer.rx, p.total).enc = peer.rx.enc
      BY <3>1, RecvFields
    <3> QED  BY <2>2, <3>2
  <2>4. UpSync'
    <3>1. peer'.rx.enc = (peer.rx.enc \/ p.msg.type = "newkeys")
      BY <1>0, <2>1, <2>3 DEF Dirs
    <3> QED  BY <2>1, <2>2, <3>1, PeerTakes DEF client
  <2>5. DnSync'
    BY <2>1, <2>2, DnStays DEF client
  <2> QED
    BY <2>1, <2>2, <2>3, <2>4, <2>5
    DEF client, Switches, BeforeKeys, Encrypted, KeyedUp, KeyedDown
<1>21. CASE PeerHangsUp
  <2>1. /\ peer'.tx = peer.tx /\ peer'.rx = peer.rx /\ peer'.hash = peer.hash
        /\ peer'.at = "gone"
        /\ UNCHANGED <<client, up, upRd, dn, dnRd>>
    BY <1>21 DEF PeerHangsUp, TypeOK
  <2>2. UpSync' /\ DnSync'
    BY <2>1, UpStays, DnStays DEF client
  <2> QED
    BY <2>1, <2>2 DEF client, Switches, BeforeKeys, Encrypted, KeyedUp, KeyedDown
<1>22. CASE PeerNoise
  <2>1. /\ PeerSend(Ignore, Block) /\ Ignore \in Messages /\ Ignore.type # "newkeys"
        /\ UNCHANGED <<client, up, upRd, dnRd>>
    BY <1>22, MessageTypes DEF PeerNoise, Ignore
  <2>2. /\ peer'.tx = AfterSend(peer.tx, Block) /\ peer'.rx = peer.rx
        /\ peer'.hash = peer.hash /\ peer'.at = peer.at
    BY <1>22 DEF PeerNoise, TypeOK
  <2>3. DnSync' /\ KeyedDown' /\ peer'.tx.enc = peer.tx.enc
    BY <2>1, <2>2, WholeSizes, PeerSends DEF client
  <2>4. UpSync'
    BY <2>1, <2>2, UpStays DEF client
  <2> QED
    BY <2>1, <2>2, <2>3, <2>4 DEF client, Switches, BeforeKeys, Encrypted, KeyedUp
<1>23. CASE LinkLost
  <2>1. UNCHANGED <<client, peer, up, upRd, dn, dnRd>>
    BY <1>23 DEF LinkLost
  <2> QED
    BY <2>1, UpStays, DnStays
    DEF client, Switches, BeforeKeys, Encrypted, KeyedUp, KeyedDown
<1>24. CASE Damage
  <2>1. UNCHANGED <<client, peer, upRd, dnRd>> /\ (DamageUp \/ DamageDown)
    BY <1>24 DEF Damage
  <2>2. CASE DamageUp
    <3>0. PICK k \in upRd + 1 .. Len(up) :
            (\E q \in DamagedForms(up[k]) : up' = [up EXCEPT ![k] = q]) /\ UNCHANGED dn
      BY <2>2 DEF DamageUp
    <3>1. PICK q \in DamagedForms(up[k]) :
            up' = [up EXCEPT ![k] = q] /\ UNCHANGED dn
      BY <3>0
    <3> k \in 1 .. Len(up)
      BY <1>0
    <3>2. UpSync'
      BY <1>0, <2>1, <3>1, ChainDamage DEF UpSync, client
    <3>3. KeyedUp'
      <4>1. up[k] \in Packets
        BY <1>0
      <4>2. q.keys = up[k].keys /\ q.enc = up[k].enc
        BY <4>1, DamagedTypes
      <4>3. \A i \in 1 .. Len(up') : /\ i \in 1 .. Len(up)
                                    /\ up'[i].keys = up[i].keys /\ up'[i].enc = up[i].enc
        BY <1>0, <3>1, <4>2
      <4> QED  BY <2>1, <4>3 DEF KeyedUp
    <3>4. DnSync'
      BY <2>1, <3>1, DnStays DEF client
    <3> QED
      BY <2>1, <3>1, <3>2, <3>3, <3>4 DEF client, Switches, BeforeKeys, Encrypted, KeyedDown
  <2>3. CASE DamageDown
    <3>0. PICK k \in dnRd + 1 .. Len(dn) :
            (\E q \in DamagedForms(dn[k]) : dn' = [dn EXCEPT ![k] = q]) /\ UNCHANGED up
      BY <2>3 DEF DamageDown
    <3>1. PICK q \in DamagedForms(dn[k]) :
            dn' = [dn EXCEPT ![k] = q] /\ UNCHANGED up
      BY <3>0
    <3> k \in 1 .. Len(dn)
      BY <1>0
    <3>2. DnSync'
      BY <1>0, <2>1, <3>1, ChainDamage DEF DnSync, client
    <3>3. KeyedDown'
      <4>1. dn[k] \in Packets
        BY <1>0
      <4>2. q.keys = dn[k].keys /\ q.enc = dn[k].enc
        BY <4>1, DamagedTypes
      <4>3. \A i \in 1 .. Len(dn') : /\ i \in 1 .. Len(dn)
                                    /\ dn'[i].keys = dn[i].keys /\ dn'[i].enc = dn[i].enc
        BY <1>0, <3>1, <4>2
      <4> QED  BY <2>1, <4>3 DEF KeyedDown
    <3>4. UpSync'
      BY <2>1, <3>1, UpStays DEF client
    <3> QED
      BY <2>1, <3>1, <3>2, <3>3, <3>4 DEF client, Switches, BeforeKeys, Encrypted, KeyedUp
  <2> QED  BY <2>1, <2>2, <2>3
<1>25. CASE UNCHANGED vars
  BY <1>25, UpStays, DnStays
  DEF vars, client, conn, Switches, BeforeKeys, Encrypted, KeyedUp, KeyedDown
<1> QED
  BY <1>1, <1>2, <1>3, <1>4, <1>5, <1>6, <1>7, <1>8, <1>9, <1>10, <1>11, <1>12, <1>13,
     <1>14, <1>15, <1>16, <1>17, <1>18, <1>19, <1>20, <1>21, <1>22, <1>23, <1>24, <1>25
  DEF Next, Handshake, Recv, PeerStep

\* The chains hold throughout.
LEMMA SyncInvariant == Spec => []Sync
  BY SyncInit, SyncStep, TypeCorrect, TranscriptInvariant, PTL DEF Spec

-----------------------------------------------------------------------------
\* Whatever has been sent, padded, read in two calls of ssh_aes128_ctr_crypt or
\* lost before it, an unharmed packet finds its reader in the cipher state it
\* was sealed with: keys, switch, counter and sequence number (transport.c
\* 145-172 against 182-238).
THEOREM CipherStatesInSync == Spec => []InSync
<1>1. ASSUME TypeOK, Transcript, Sync PROVE InSync
  <2> USE <1>1
  <2>0. up \in Seq(Packets) /\ dn \in Seq(Packets) /\ upRd \in Nat /\ dnRd \in Nat
        /\ s2c \in Dirs /\ peer.rx \in Dirs /\ Len(up) \in Nat /\ Len(dn) \in Nat
    BY DEF TypeOK
  <2>1. ASSUME pc # "failed", dnRd < Len(dn), Unharmed(dn[dnRd + 1])
        PROVE  Opens(s2c, dn[dnRd + 1])
    <3>1. dnRd + 1 \in 1 .. Len(dn) /\ dn[dnRd + 1] \in Packets
      BY <2>0, <2>1
    <3>2. At(s2c, dn[dnRd + 1])
      BY <2>0, <2>1 DEF Sync, DnSync, Stands, After
    <3>3. dn[dnRd + 1].enc => dn[dnRd + 1].keys = s2c.keys
      BY <3>1, <3>2 DEF Sync, KeyedDown, Encrypted, At, Transcript, ClientAgrees
    <3> QED  BY <2>0, <2>1, <3>1, <3>2, <3>3, UnharmedOpens
  <2>2. ASSUME PeerReads, Unharmed(up[upRd + 1])
        PROVE  Opens(peer.rx, up[upRd + 1])
    <3>1. upRd + 1 \in 1 .. Len(up) /\ up[upRd + 1] \in Packets /\ upRd # Len(up)
      BY <2>0, <2>2 DEF PeerReads
    <3>2. At(peer.rx, up[upRd + 1])
      BY <3>1 DEF Sync, UpSync, Stands, After
    <3>3. up[upRd + 1].enc => up[upRd + 1].keys = peer.rx.keys
      BY <3>1 DEF Sync, KeyedUp, Transcript, PeerKeyed
    <3> QED  BY <2>0, <2>2, <3>1, <3>2, <3>3, UnharmedOpens
  <2> QED  BY <2>1, <2>2 DEF InSync
<1> QED  BY <1>1, TypeCorrect, TranscriptInvariant, SyncInvariant, PTL

\* No block of keystream is used twice in a direction, however many sends fail
\* on the way (transport.c 145-172).
THEOREM KeystreamAlwaysFresh == Spec => []KeystreamFresh
<1>1. ASSUME NEW wire \in Seq(Packets), NEW tx, Consumed(wire, tx),
             NEW i \in 1 .. Len(wire), NEW j \in 1 .. Len(wire), i < j, wire[i].enc
      PROVE  Blocks(wire[i]) \cap Blocks(wire[j]) = {}
  <2>1. wire[i] \in Packets /\ wire[j] \in Packets
    OBVIOUS
  <2>2. /\ wire[i].ctr \in Nat /\ wire[i].total \in Nat
        /\ wire[j].ctr \in Nat /\ wire[j].total \in Nat
    BY <2>1 DEF Packets
  <2>3. Crypt(wire[i].ctr, wire[i].total) <= wire[j].ctr
    BY <1>1 DEF Consumed
  <2>4. /\ wire[i].total \div Block \in Nat /\ wire[j].total \div Block \in Nat
        /\ wire[i].ctr + wire[i].total \div Block <= Crypt(wire[i].ctr, wire[i].total)
        /\ Crypt(wire[i].ctr, wire[i].total) \in Nat
    BY <2>2, CryptCovers, CryptMoves
  <2>5. \A k \in Blocks(wire[i]) : k \notin Blocks(wire[j])
    BY <2>2, <2>3, <2>4 DEF Blocks
  <2> QED  BY <2>5
<1>2. ASSUME TypeOK, Sync PROVE KeystreamFresh
  <2>1. /\ up \in Seq(Packets) /\ dn \in Seq(Packets)
        /\ Consumed(up, c2s) /\ Consumed(dn, peer.tx)
    BY <1>2 DEF TypeOK, Sync, UpSync, DnSync
  <2> QED  BY <1>1, <2>1 DEF KeystreamFresh
<1> QED  BY <1>2, TypeCorrect, SyncInvariant, PTL
=============================================================================
