----------------------------- MODULE Transport -----------------------------
(***************************************************************************)
(* src/ssh/transport.c: the client's handshake (sshe_tx_handshake) and its *)
(* packet layer (sshe_tx_send_payload, sshe_tx_recv_packet), talking to an *)
(* SSH server over a TCP connection.                                       *)
(*                                                                         *)
(* The server is external: a peer that follows RFC 4253 (test/setup_sshd.sh*)
(* runs OpenSSH).  It may use every liberty the RFC leaves it - its own    *)
(* padding, lines of text before its identification, MSG_IGNORE during the *)
(* key exchange - within the bounds below.  The connection delivers bytes  *)
(* in order; it may be lost, and bytes may be damaged on the way.          *)
(*                                                                         *)
(* A packet's life: appended to the history up or dn by its sender, read   *)
(* when the reader's index passes it.  Cryptography is symbolic: keys are  *)
(* the letter and the exchange hash they were derived from, a signature is *)
(* the key and the hash it was made with.                                  *)
(***************************************************************************)
EXTENDS Packet, Sequences

CONSTANTS
  Payloads,     \* sizes of the payloads the two ends exchange once secured
  PeerPads,     \* padding lengths the peer may choose
  MaxData,      \* bound: payloads per direction
  MaxPreLines,  \* bound: lines the peer sends before its identification
  MaxNoise,     \* bound: MSG_IGNOREs the peer sends during the key exchange
  MaxDamage,    \* bound: packets damaged on the way
  LinkMayFail,  \* may the TCP connection be lost?
  PeerKexes     \* KEXINITs the peer may offer: "is", or "noalgs" if it lacks
                \* an algorithm the client needs

ASSUME TransportAssumption ==
  /\ Payloads \subseteq Nat \ {0}
  /\ PeerPads \subseteq 4 .. 255
  /\ MaxData \in Nat /\ MaxPreLines \in Nat /\ MaxNoise \in Nat /\ MaxDamage \in Nat
  /\ LinkMayFail \in BOOLEAN
  /\ PeerKexes \subseteq {"is", "noalgs"}

VARIABLES
  \* sshe_tx
  pc,           \* where sshe_tx_handshake stands; "open" once it returned 0
  c2s, s2c,     \* cipher state of each direction
  server_id, server_kex, session_id, server_pk,
  received,     \* payloads handed to the caller so far
  \* the peer, as one record
  peer,
  \* the connection
  lines,        \* server text not read yet
  upIdent,      \* the client's identification line is on its way
  up, upRd,     \* packets sent by the client; how many the peer has read
  dn, dnRd,     \* packets sent by the peer; how many the client has read
  link,         \* is the connection alive?
  noise, damage \* how much of each budget is used

client == <<pc, c2s, s2c, server_id, server_kex, session_id, server_pk, received>>
conn   == <<lines, upIdent, up, upRd, dn, dnRd, link, noise, damage>>
vars   == <<client, peer, conn>>

-----------------------------------------------------------------------------
(* Messages.  A damaged message keeps its type if the damage hits a field. *)

KexInit(k)          == [type |-> "kexinit", kex |-> k]
EcdhInit(q)         == [type |-> "ecdh_init", qc |-> q]
EcdhReply(k, q, s)  == [type |-> "ecdh_reply", ks |-> k, qs |-> q, sig |-> s]
NewKeys             == [type |-> "newkeys"]
Ignore              == [type |-> "ignore"]
Data(n)             == [type |-> "data", size |-> n]
Garbled             == [type |-> "garbled"]

\* What bytes damaged on the way can turn a message into.
GarbledForms(m) ==
  {Garbled} \cup
  CASE m.type = "kexinit"    -> {KexInit("garbled"), KexInit("noalgs")}
    [] m.type = "ecdh_init"  -> {EcdhInit("garbled")}
    [] m.type = "ecdh_reply" -> {EcdhReply("garbled", m.qs, m.sig),
                                 EcdhReply(m.ks, "garbled", m.sig),
                                 EcdhReply(m.ks, m.qs, [pk |-> "garbled", hash |-> NoHash])}
    [] OTHER                 -> {}

\* Every message before NEWKEYS fits the model as one block: sizes matter only
\* under encryption.
WireSize(m) == IF m.type = "data" THEN Total(m.size, PadLen(m.size)) ELSE Block

\* Sizes(wire)[k] are the payloads among the first k packets.
Sizes(wire) ==
  LET f[k \in 0 .. Len(wire)] ==
        IF k = 0 THEN <<>>
        ELSE IF wire[k].msg.type = "data" THEN Append(f[k - 1], wire[k].msg.size) ELSE f[k - 1]
  IN f
DataIn(wire) == Sizes(wire)[Len(wire)]

\* Keys derived from exchange hash h: A, C, E one way and B, D, F the other.
KeysC2S(h) == [iv |-> "A", key |-> "C", mac |-> "E", hash |-> h]
KeysS2C(h) == [iv |-> "B", key |-> "D", mac |-> "F", hash |-> h]

\* Slip: the client's own offer checked against itself.
check_server_algs_Own(kex) == kex = "ic"

\* check_server_algs.
check_server_algs(kex) == kex # "noalgs"

-----------------------------------------------------------------------------
Init ==
  /\ pc = "ident"
  /\ c2s = NewDir /\ s2c = NewDir
  /\ server_id = "none" /\ server_kex = "none"
  /\ session_id = NoHash /\ server_pk = "none"
  /\ received = <<>>
  /\ \E kex \in PeerKexes :
       peer = [at |-> "ident", kex |-> kex, ic |-> "none", hash |-> NoHash,
               rx |-> NewDir, tx |-> NewDir, rcvd |-> <<>>]
  /\ lines = <<>> /\ upIdent = FALSE
  /\ up = <<>> /\ upRd = 0
  /\ dn = <<>> /\ dnRd = 0
  /\ link = TRUE /\ noise = 0 /\ damage = 0

-----------------------------------------------------------------------------
(* The client's packet layer. *)

\* sshe_tx_send_payload: sequence number and counter move before the bytes do.
\* Over a lost connection the send may still be accepted by the local stack;
\* next is where the caller goes on when the send succeeds, lost where it may
\* go when it fails.  c2s moves either way, in the callers below.
SendPayload(m, next, lost) ==
  /\ pc' = next \/ (~link /\ pc' \in lost)
  /\ up' = Append(up, [Seal(c2s, m, WireSize(m)) EXCEPT !.whole = link])
  /\ UNCHANGED <<lines, upIdent, upRd, dn, dnRd, link, noise, damage, peer>>

\* Slip: what follows in the same segment is thrown away.
RecvPacket_DropsNext ==
  /\ dnRd' = dnRd + 2
  /\ UNCHANGED <<lines, upIdent, up, upRd, dn, link, noise, damage, peer>>

\* sshe_tx_recv_packet returning the type of the next packet.
Arrived == lines = <<>> /\ dnRd < Len(dn)
RecvPacket ==
  /\ dnRd' = dnRd + 1
  /\ UNCHANGED <<lines, upIdent, up, upRd, dn, link, noise, damage, peer>>

\* The handshake fails; what sshe_tx holds at that point stays.
Fail ==
  /\ pc' = "failed"
  /\ UNCHANGED <<c2s, server_id, server_kex, session_id, server_pk, received>>

-----------------------------------------------------------------------------
(* sshe_tx_handshake. *)

SendIdent ==
  /\ pc = "ident"
  /\ \/ pc' = "ident_wait" /\ upIdent' = link
     \/ ~link /\ pc' = "failed" /\ UNCHANGED upIdent
  /\ UNCHANGED <<c2s, s2c, server_id, server_kex, session_id, server_pk, received,
                 peer, lines, up, upRd, dn, dnRd, link, noise, damage>>

\* The first line, whatever it says, becomes server_id.
RecvIdent ==
  /\ pc = "ident_wait" /\ lines # <<>>
  /\ server_id' = Head(lines)
  /\ lines' = Tail(lines)
  /\ pc' = "kexinit"
  /\ UNCHANGED <<c2s, s2c, server_kex, session_id, server_pk, received,
                 peer, upIdent, up, upRd, dn, dnRd, link, noise, damage>>

SendKexInit ==
  /\ pc = "kexinit"
  /\ SendPayload(KexInit("ic"), "kexinit_wait", {"failed"})
  /\ c2s' = AfterSend(c2s, Block)
  /\ UNCHANGED <<s2c, server_id, server_kex, session_id, server_pk, received>>

RecvKexInit ==
  /\ pc = "kexinit_wait" /\ Arrived
  /\ LET p == dn[dnRd + 1] IN
     /\ Opens(s2c, p) /\ p.msg.type = "kexinit" /\ check_server_algs(p.msg.kex)
     /\ server_kex' = p.msg.kex
     /\ s2c' = AfterRecv(s2c, p.total)
  /\ RecvPacket
  /\ pc' = "ecdh"
  /\ UNCHANGED <<c2s, server_id, session_id, server_pk, received>>

SendEcdhInit ==
  /\ pc = "ecdh"
  /\ SendPayload(EcdhInit("qc"), "ecdh_wait", {"failed"})
  /\ c2s' = AfterSend(c2s, Block)
  /\ UNCHANGED <<s2c, server_id, server_kex, session_id, server_pk, received>>

\* The exchange hash as the client computes it from a reply.
ClientHash(reply) ==
  [vs |-> server_id, ic |-> "ic", is |-> server_kex,
   ks |-> reply.ks, qc |-> "qc", qs |-> reply.qs]

\* Slip: the signature's key is checked, what it signs is not.
SignatureVerifies_AnyHash(reply) == reply.sig.pk = reply.ks

SignatureVerifies(reply) == reply.sig = [pk |-> reply.ks, hash |-> ClientHash(reply)]

RecvEcdhReply ==
  /\ pc = "ecdh_wait" /\ Arrived
  /\ LET p == dn[dnRd + 1] IN
     /\ Opens(s2c, p) /\ p.msg.type = "ecdh_reply" /\ SignatureVerifies(p.msg)
     /\ server_pk' = p.msg.ks
     /\ session_id' = IF session_id = NoHash THEN ClientHash(p.msg) ELSE session_id
     /\ c2s' = [c2s EXCEPT !.keys = KeysC2S(ClientHash(p.msg)), !.ctr = 0]
     /\ s2c' = [AfterRecv(s2c, p.total) EXCEPT !.keys = KeysS2C(ClientHash(p.msg)), !.ctr = 0]
  /\ RecvPacket
  /\ pc' = "newkeys"
  /\ UNCHANGED <<server_id, server_kex, received>>

\* Slip: encryption switched on before NEWKEYS has gone out.
SendNewKeys_Encrypted ==
  /\ pc = "newkeys"
  /\ pc' = "newkeys_wait"
  /\ up' = Append(up, Seal([c2s EXCEPT !.enc = TRUE], NewKeys, Block))
  /\ c2s' = AfterSend([c2s EXCEPT !.enc = TRUE], Block)
  /\ UNCHANGED <<s2c, server_id, server_kex, session_id, server_pk, received,
                 peer, lines, upIdent, upRd, dn, dnRd, link, noise, damage>>

SendNewKeys ==
  /\ pc = "newkeys"
  /\ SendPayload(NewKeys, "newkeys_wait", {"failed"})
  /\ c2s' = [AfterSend(c2s, Block) EXCEPT !.enc = (pc' = "newkeys_wait")]
  /\ UNCHANGED <<s2c, server_id, server_kex, session_id, server_pk, received>>

RecvNewKeys ==
  /\ pc = "newkeys_wait" /\ Arrived
  /\ LET p == dn[dnRd + 1] IN
     /\ Opens(s2c, p) /\ p.msg.type = "newkeys"
     /\ s2c' = [AfterRecv(s2c, p.total) EXCEPT !.enc = TRUE]
  /\ RecvPacket
  /\ pc' = "open"
  /\ UNCHANGED <<c2s, server_id, server_kex, session_id, server_pk, received>>

-----------------------------------------------------------------------------
(* Once the handshake has returned: client.c sends and receives payloads.  *)

\* Some callers give up when a send fails, others carry on regardless.
SendData(n) ==
  /\ pc = "open" /\ Len(DataIn(up)) < MaxData
  /\ SendPayload(Data(n), "open", {"failed"})
  /\ c2s' = AfterSend(c2s, Total(n, PadLen(n)))
  /\ UNCHANGED <<s2c, server_id, server_kex, session_id, server_pk, received>>

RecvData ==
  /\ pc = "open" /\ Arrived
  /\ LET p == dn[dnRd + 1] IN
     /\ Opens(s2c, p) /\ p.msg.type = "data"
     /\ received' = Append(received, PayloadRead(s2c, p))
     /\ s2c' = AfterRecv(s2c, p.total)
  /\ RecvPacket
  /\ UNCHANGED <<pc, c2s, server_id, server_kex, session_id, server_pk>>

-----------------------------------------------------------------------------
(* Failing to receive. *)

Expected ==
  CASE pc = "kexinit_wait" -> "kexinit"
    [] pc = "ecdh_wait"    -> "ecdh_reply"
    [] pc = "newkeys_wait" -> "newkeys"
    [] OTHER               -> "data"

Receiving == pc \in {"kexinit_wait", "ecdh_wait", "newkeys_wait", "open"}

\* The caller refuses what arrived: bytes that do not verify, a message of
\* another type, algorithms or a signature that do not fit.
Rejects(p) ==
  \/ ~Opens(s2c, p)
  \/ p.msg.type # Expected
  \/ p.msg.type = "kexinit" /\ ~check_server_algs(p.msg.kex)
  \/ p.msg.type = "ecdh_reply" /\ ~SignatureVerifies(p.msg)

\* s2c after sshe_tx_recv_packet gave up on a packet of that many bytes: before
\* the first block, the body or the MAC had come.
GivenUp(total) ==
  {s2c, [s2c EXCEPT !.ctr = IF s2c.enc THEN Crypt(@, Block) ELSE @],
   [AfterRecv(s2c, total) EXCEPT !.seq = s2c.seq]}

RecvRejected ==
  /\ Receiving /\ Arrived
  /\ LET p == dn[dnRd + 1] IN
     /\ Rejects(p)
     /\ \/ s2c' = AfterRecv(s2c, p.total)
        \/ ~Opens(s2c, p) /\ s2c' \in GivenUp(p.total)
  /\ RecvPacket
  /\ Fail

\* Text where a packet should be: its first four bytes are no packet length.
RecvText ==
  /\ Receiving /\ lines # <<>>
  /\ Fail
  /\ UNCHANGED <<s2c, peer, conn>>

\* The connection is lost while waiting, before or after some of a packet came.
RecvLost ==
  /\ Receiving \/ pc = "ident_wait"
  /\ ~link
  /\ s2c' \in IF dnRd < Len(dn) THEN GivenUp(dn[dnRd + 1].total) ELSE {s2c}
  /\ Fail
  /\ UNCHANGED <<peer, conn>>

-----------------------------------------------------------------------------
(* The peer (external).  It reads in order, answers as RFC 4253 asks, and   *)
(* hangs up on what it cannot accept.                                      *)

PeerSend(m, total) ==
  /\ link
  /\ dn' = Append(dn, Seal(peer.tx, m, total))

\* An identification, preceded by up to MaxPreLines other lines.
PeerIdent ==
  /\ link /\ peer.at = "ident"
  /\ \E k \in 0 .. MaxPreLines :
       lines' = Append([i \in 1 .. k |-> "pre"], "ident")
  /\ peer' = [peer EXCEPT !.at = "kexinit"]
  /\ UNCHANGED <<client, upIdent, up, upRd, dn, dnRd, link, noise, damage>>

PeerKexInit ==
  /\ peer.at = "kexinit" /\ upIdent
  /\ PeerSend(KexInit(peer.kex), Block)
  /\ peer' = [peer EXCEPT !.at = "kex", !.tx = AfterSend(@, Block)]
  /\ UNCHANGED <<client, lines, upIdent, up, upRd, dnRd, link, noise, damage>>

\* MSG_IGNORE, legal between its identification and its NEWKEYS.
PeerNoise ==
  /\ peer.at \in {"kexinit", "kex"} /\ noise < MaxNoise
  /\ PeerSend(Ignore, Block)
  /\ noise' = noise + 1
  /\ peer' = [peer EXCEPT !.tx = AfterSend(@, Block)]
  /\ UNCHANGED <<client, lines, upIdent, up, upRd, dnRd, link, damage>>

PeerReads == upRd < Len(up) /\ peer.at \in {"kex", "newkeys", "open"}

PeerRecvKexInit ==
  /\ PeerReads /\ peer.at = "kex" /\ peer.ic = "none"
  /\ LET p == up[upRd + 1] IN
     /\ Opens(peer.rx, p) /\ p.msg.type = "kexinit" /\ p.msg.kex # "noalgs"
     /\ peer' = [peer EXCEPT !.ic = p.msg.kex, !.rx = AfterRecv(@, p.total)]
  /\ upRd' = upRd + 1
  /\ UNCHANGED <<client, lines, upIdent, up, dn, dnRd, link, noise, damage>>

\* The peer answers with its host key and signature and its NEWKEYS at once,
\* and encrypts from there on.
PeerRecvEcdhInit ==
  /\ PeerReads /\ peer.at = "kex" /\ peer.ic # "none" /\ link
  /\ LET p == up[upRd + 1]
         h == [vs |-> "ident", ic |-> peer.ic, is |-> peer.kex,
               ks |-> "ks", qc |-> p.msg.qc, qs |-> "qs"]
         reply == EcdhReply("ks", "qs", [pk |-> "ks", hash |-> h])
         tx1 == AfterSend(peer.tx, Block)
     IN
     /\ Opens(peer.rx, p) /\ p.msg.type = "ecdh_init"
     /\ dn' = dn \o <<Seal(peer.tx, reply, Block), Seal(tx1, NewKeys, Block)>>
     /\ peer' = [peer EXCEPT
          !.at = "newkeys", !.hash = h,
          !.rx = [AfterRecv(@, p.total) EXCEPT !.keys = KeysC2S(h), !.ctr = 0],
          !.tx = [AfterSend(tx1, Block) EXCEPT !.keys = KeysS2C(h), !.ctr = 0,
                                               !.enc = TRUE]]
  /\ upRd' = upRd + 1
  /\ UNCHANGED <<client, lines, upIdent, up, dnRd, link, noise, damage>>

PeerRecvNewKeys ==
  /\ PeerReads /\ peer.at = "newkeys"
  /\ LET p == up[upRd + 1] IN
     /\ Opens(peer.rx, p) /\ p.msg.type = "newkeys"
     /\ peer' = [peer EXCEPT !.at = "open",
                             !.rx = [AfterRecv(@, p.total) EXCEPT !.enc = TRUE]]
  /\ upRd' = upRd + 1
  /\ UNCHANGED <<client, lines, upIdent, up, dn, dnRd, link, noise, damage>>

PeerRecvData ==
  /\ PeerReads /\ peer.at = "open"
  /\ LET p == up[upRd + 1] IN
     /\ Opens(peer.rx, p) /\ p.msg.type = "data"
     /\ peer' = [peer EXCEPT !.rcvd = Append(@, PayloadRead(peer.rx, p)),
                             !.rx = AfterRecv(@, p.total)]
  /\ upRd' = upRd + 1
  /\ UNCHANGED <<client, lines, upIdent, up, dn, dnRd, link, noise, damage>>

PeerSendData(n) ==
  /\ peer.at = "open" /\ Len(DataIn(dn)) < MaxData
  /\ \E pad \in PeerPads :
       /\ Total(n, pad) % Block = 0
       /\ PeerSend(Data(n), Total(n, pad))
       /\ peer' = [peer EXCEPT !.tx = AfterSend(@, Total(n, pad))]
  /\ UNCHANGED <<client, lines, upIdent, up, upRd, dnRd, link, noise, damage>>

PeerExpects(p) ==
  CASE peer.at = "kex" /\ peer.ic = "none" -> p.msg.type = "kexinit" /\ p.msg.kex # "noalgs"
    [] peer.at = "kex" /\ peer.ic # "none" -> p.msg.type = "ecdh_init"
    [] peer.at = "newkeys"                 -> p.msg.type = "newkeys"
    [] OTHER                               -> p.msg.type = "data"

PeerHangsUp ==
  /\ PeerReads
  /\ \/ ~Opens(peer.rx, up[upRd + 1])
     \/ ~PeerExpects(up[upRd + 1])
  /\ peer' = [peer EXCEPT !.at = "gone"]
  /\ link' = FALSE
  /\ UNCHANGED <<client, lines, upIdent, up, upRd, dn, dnRd, noise, damage>>

-----------------------------------------------------------------------------
(* The connection. *)

LinkLost ==
  /\ LinkMayFail /\ link
  /\ link' = FALSE
  /\ UNCHANGED <<client, peer, lines, upIdent, up, upRd, dn, dnRd, noise, damage>>

DamagedForms(p) ==
  IF p.enc THEN {[p EXCEPT !.intact = FALSE]}
           ELSE {[p EXCEPT !.msg = m, !.intact = FALSE] : m \in GarbledForms(p.msg)}

DamageUp ==
  \E i \in upRd + 1 .. Len(up) :
    /\ up[i].intact
    /\ \E p \in DamagedForms(up[i]) : up' = [up EXCEPT ![i] = p]
    /\ UNCHANGED dn

DamageDown ==
  \E i \in dnRd + 1 .. Len(dn) :
    /\ dn[i].intact
    /\ \E p \in DamagedForms(dn[i]) : dn' = [dn EXCEPT ![i] = p]
    /\ UNCHANGED up

Damage ==
  /\ damage < MaxDamage
  /\ damage' = damage + 1
  /\ DamageUp \/ DamageDown
  /\ UNCHANGED <<client, peer, lines, upIdent, upRd, dnRd, link, noise>>

-----------------------------------------------------------------------------
Handshake ==
  \/ SendIdent \/ RecvIdent
  \/ SendKexInit \/ RecvKexInit
  \/ SendEcdhInit \/ RecvEcdhReply
  \/ SendNewKeys \/ RecvNewKeys

Recv == RecvData \/ RecvRejected \/ RecvText \/ RecvLost

PeerStep ==
  \/ PeerIdent \/ PeerKexInit
  \/ PeerRecvKexInit \/ PeerRecvEcdhInit \/ PeerRecvNewKeys \/ PeerRecvData
  \/ PeerHangsUp

Next ==
  \/ Handshake
  \/ Recv
  \/ \E n \in Payloads : SendData(n) \/ PeerSendData(n)
  \/ PeerStep
  \/ PeerNoise
  \/ LinkLost
  \/ Damage

Spec == Init /\ [][Next]_vars

\* sshe_tx_handshake runs straight through, client.c keeps polling and reading,
\* and a live peer answers.  Nobody is obliged to send data, noise or damage.
Fairness == WF_vars(Handshake) /\ WF_vars(Recv) /\ WF_vars(PeerStep)
FairSpec == Spec /\ Fairness

-----------------------------------------------------------------------------
(* Correctness. *)

Kexes == {"none", "ic", "is", "noalgs", "garbled"}
Hashes == [vs : {"none", "pre", "ident"}, ic : Kexes, is : Kexes,
           ks : {"none", "ks", "garbled"}, qc : {"none", "qc", "garbled"},
           qs : {"none", "qs", "garbled"}]
KeySets == [iv : {"0", "A", "B"}, key : {"0", "C", "D"}, mac : {"0", "E", "F"},
            hash : Hashes]
Dirs == [keys : KeySets, ctr : Nat, seq : Nat, enc : BOOLEAN]

Messages ==
  {KexInit(k) : k \in {"ic", "is", "noalgs", "garbled"}} \cup
  {EcdhInit(q) : q \in {"qc", "garbled"}} \cup
  [type : {"ecdh_reply"}, ks : {"ks", "garbled"}, qs : {"qs", "garbled"},
   sig : [pk : {"ks", "garbled"}, hash : Hashes]] \cup
  {NewKeys, Ignore, Garbled} \cup {Data(n) : n \in Payloads}

Packets == [msg : Messages, total : Nat, enc : BOOLEAN, keys : KeySets, ctr : Nat,
            seq : Nat, whole : BOOLEAN, intact : BOOLEAN]

\* Every variable has the type of its C counterpart.
TypeOK ==
  /\ pc \in {"ident", "ident_wait", "kexinit", "kexinit_wait", "ecdh", "ecdh_wait",
             "newkeys", "newkeys_wait", "open", "failed"}
  /\ c2s \in Dirs /\ s2c \in Dirs
  /\ server_id \in {"none", "pre", "ident"}
  /\ server_kex \in Kexes
  /\ session_id \in Hashes /\ server_pk \in {"none", "ks", "garbled"}
  /\ received \in Seq(Nat)
  /\ peer \in [at : {"ident", "kexinit", "kex", "newkeys", "open", "gone"},
               kex : {"is", "noalgs"}, ic : Kexes, hash : Hashes,
               rx : Dirs, tx : Dirs, rcvd : Seq(Nat)]
  /\ lines \in Seq({"pre", "ident"}) /\ upIdent \in BOOLEAN
  /\ up \in Seq(Packets) /\ upRd \in 0 .. Len(up)
  /\ dn \in Seq(Packets) /\ dnRd \in 0 .. Len(dn)
  /\ link \in BOOLEAN /\ noise \in 0 .. MaxNoise /\ damage \in 0 .. MaxDamage

\* The handshake succeeds only if both ends hold the same exchange hash, hence
\* the same session id and the same six keys, each direction its own, and the
\* client has the peer's true host key (transport.c 498-589): whatever was
\* damaged on the way has been noticed by then.
TranscriptAgreement ==
  pc \in {"newkeys", "newkeys_wait", "open"} =>
    /\ session_id = peer.hash
    /\ server_pk = "ks"
    /\ c2s.keys = peer.rx.keys /\ s2c.keys = peer.tx.keys
    /\ c2s.keys.iv # s2c.keys.iv /\ c2s.keys.key # s2c.keys.key

\* Whenever a packet comes up to be read unharmed, the reader's cipher state is
\* the one it was sealed with: keys, encryption switch, counter and sequence
\* number never drift apart, whatever was sent, padded, read in two calls of
\* ssh_aes128_ctr_crypt (transport.c 195, 212) or lost before it.
Unharmed(p) == p.intact /\ p.whole
InSync ==
  /\ pc # "failed" /\ dnRd < Len(dn) /\ Unharmed(dn[dnRd + 1]) => Opens(s2c, dn[dnRd + 1])
  /\ PeerReads /\ Unharmed(up[upRd + 1]) => Opens(peer.rx, up[upRd + 1])

\* No block of keystream ever covers two blocks of plaintext, in either
\* direction, also when a send has failed and the caller carried on
\* (transport.c 145-172: counter and sequence number move before raw_send).
Blocks(p) == p.ctr .. p.ctr + p.total \div Block - 1
KeystreamFresh ==
  \A wire \in {up, dn} : \A i, j \in 1 .. Len(wire) :
    i < j /\ wire[i].enc /\ wire[i].keys = wire[j].keys
      => Blocks(wire[i]) \cap Blocks(wire[j]) = {}

\* Neither end gives up on the other except for a reason the user could be told:
\* the connection failed, bytes were damaged, or the server lacks an algorithm
\* the client insists on (transport.c, every "return -1").
FailureHasCause ==
  pc = "failed" \/ peer.at = "gone" =>
    (LinkMayFail /\ ~link) \/ damage > 0 \/ peer.kex = "noalgs"

\* The payloads handed over and handed out are those of a reliable FIFO channel
\* (sshe_tx_send_payload and sshe_tx_recv_packet as client.c uses them).
Channel == INSTANCE SecureChannel WITH
  secured <- session_id # NoHash,
  upSent <- DataIn(up), upRcvd <- peer.rcvd,
  dnSent <- DataIn(dn), dnRcvd <- received
ChannelSpec == Channel!Spec

\* On a connection that holds, with a peer that speaks first and says nothing
\* it need not say, the handshake ends with keys on both sides: nobody waits
\* for the other for ever (transport.c 396-620).
HandshakeCompletes == <>(pc = "open" /\ peer.at = "open")

\* and everything sent is received.
EverythingArrives ==
  \A k \in 1 .. MaxData :
    /\ Len(DataIn(up)) >= k ~> Len(peer.rcvd) >= k
    /\ Len(DataIn(dn)) >= k ~> Len(received) >= k
=============================================================================
