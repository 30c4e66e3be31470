------------------------------- MODULE Packet -------------------------------
(***************************************************************************)
(* The binary packet layer of src/ssh/transport.c as constant-level        *)
(* operators: how sshe_tx_send_payload pads a payload, which headers       *)
(* sshe_tx_recv_packet accepts and which bytes it hands out, and how one   *)
(* direction's cipher state (sshe_dir) moves with every packet.            *)
(*                                                                         *)
(* Bytes are offsets in the packet, never values: the layer's own job is   *)
(* to agree with the peer on where things are and on which keystream block *)
(* and sequence number belong to them.                                     *)
(***************************************************************************)
EXTENDS Integers

CONSTANT SeqSpace  \* sshe_dir.seq is a uint32_t: 2^32 in the code
ASSUME SeqSpaceAssumption == SeqSpace \in Nat \ {0}

Block == 16         \* SSH_CIPHER_BLOCK, and the size of recv's first read
Header == 5         \* length field and padding length byte
MaxPacket_Window == 32768   \* slip: the channel's packet size taken for the limit
MaxPacket == 35000  \* largest packet_len that recv accepts

-----------------------------------------------------------------------------
(* Sending. *)

\* Slip: the minimum of four bytes forgotten.
PadLen_NoMinimum(n) == 16 - ((n + 5) % 16)

\* Padding chosen for a payload of n bytes.
PadLen(n) ==
  LET p == 16 - ((n + 5) % 16) IN IF p < 4 THEN p + 16 ELSE p

\* Bytes on the wire (the MAC not counted) and the length field in front.
Total(n, pad) == Header + n + pad
LengthField(n, pad) == n + 1 + pad

-----------------------------------------------------------------------------
(* Receiving.  len and pad are what the decrypted header says. *)

\* Slip: the length field itself forgotten.
Rest_NoLengthField(len) == len - Block

\* Bytes still to read after the first block: size_t arithmetic in the code,
\* so a len below 12 wraps to an allocation that malloc refuses.
Rest(len) == len + 4 - Block
Allocates(len) == Rest(len) >= 0

\* Every early return of sshe_tx_recv_packet that looks at the header; the
\* last conjunct is its final "out->len ? type : -1".
Accepts(len, pad) ==
  /\ len >= 4
  /\ len <= MaxPacket
  /\ Allocates(len)
  /\ pad # 0
  /\ len >= 1 + pad
  /\ len - 1 - pad # 0

\* Slip: the whole payload taken from the body although it began earlier.
Extracted_BodyTwice(len, pad) ==
  LET pay == len - 1 - pad IN
  IF pay <= Block - Header
    THEN Header .. (Header + pay - 1)
    ELSE (Header .. (Block - 1)) \cup (Block .. (Block + pay - 1))

\* Packet offsets copied to the caller: from the first block, then the body.
Extracted(len, pad) ==
  LET pay == len - 1 - pad IN
  IF pay <= Block - Header
    THEN Header .. (Header + pay - 1)
    ELSE (Header .. (Block - 1)) \cup
         (Block .. (Block + (pay - (Block - Header)) - 1))

-----------------------------------------------------------------------------
(* One direction's cipher state. *)

\* The exchange hash H covers what each end believes was said; client_id and K
\* go with qc and qs.
NoHash == [vs |-> "none", ic |-> "none", is |-> "none",
           ks |-> "none", qc |-> "none", qs |-> "none"]

\* iv, key and mac_key, each named by the letter it was derived with.
NoKeys == [iv |-> "0", key |-> "0", mac |-> "0", hash |-> NoHash]

\* The zeroed sshe_dir of a fresh connection.
NewDir == [keys |-> NoKeys, ctr |-> 0, seq |-> 0, enc |-> FALSE]

\* Slip: the counter moves between blocks but not after the last one.
Crypt_NotAfterLast(ctr, bytes) == ctr + ((bytes - 1) \div 16)

\* The CTR counter after one call of ssh_aes128_ctr_crypt over that many bytes:
\* every call starts at a block boundary and drops what is left of the last
\* block.  Counted from the derived IV; 128 bits do not wrap.
Crypt(ctr, bytes) == ctr + ((bytes + 15) \div 16)

\* Slips: sequence numbers counted from NEWKEYS on; the first block forgotten.
AfterSend_SeqFromNewKeys(d, total) ==
  IF d.enc THEN [d EXCEPT !.seq = (@ + 1) % SeqSpace, !.ctr = Crypt(@, total)] ELSE d
AfterRecv_SeqFromNewKeys(d, total) ==
  IF d.enc THEN [d EXCEPT !.seq = (@ + 1) % SeqSpace,
                          !.ctr = Crypt(Crypt(@, Block), total - Block)]
           ELSE d
AfterRecv_BodyOnly(d, total) ==
  [d EXCEPT !.seq = (@ + 1) % SeqSpace,
            !.ctr = IF d.enc THEN Crypt(@, total - Block) ELSE @]

\* The sender encrypts a packet in one call, the receiver in two.
AfterSend(d, total) ==
  [d EXCEPT !.seq = (@ + 1) % SeqSpace,
            !.ctr = IF d.enc THEN Crypt(@, total) ELSE @]

AfterRecv(d, total) ==
  [d EXCEPT !.seq = (@ + 1) % SeqSpace,
            !.ctr = IF d.enc THEN Crypt(Crypt(@, Block), total - Block) ELSE @]

\* A packet as the sender's state d seals it: in clear without a MAC before
\* NEWKEYS, encrypted and with a MAC over its sequence number after.
Seal(d, msg, total) ==
  [msg |-> msg, total |-> total, enc |-> d.enc,
   keys |-> IF d.enc THEN d.keys ELSE NoKeys, ctr |-> d.ctr, seq |-> d.seq,
   whole |-> TRUE, intact |-> TRUE]

\* Slip: the MAC is received but not compared.
Opens_NoMac(d, p) == p.whole /\ d.enc = p.enc

\* Does the receiver's state d make sense of packet p?  In clear nothing is
\* verified; an encrypted packet needs the keys, the keystream position and the
\* sequence number it was sealed with, and every byte of it.
Opens(d, p) ==
  /\ p.whole
  /\ d.enc = p.enc
  /\ d.enc => /\ p.intact
              /\ p.keys = d.keys
              /\ p.ctr = d.ctr
              /\ p.seq = d.seq

\* The size of the payload state d makes of p: nonsense (0) if it is decrypted
\* with the wrong keystream or was damaged.
PayloadRead(d, p) ==
  IF p.intact /\ p.keys = d.keys /\ p.ctr = d.ctr THEN p.msg.size ELSE 0
=============================================================================
