---------------------------- MODULE PacketCheck ----------------------------
(***************************************************************************)
(* The packet layer's pure part over a range of sizes: a payload of n      *)
(* bytes is sent with the padding sshe_tx_send_payload chooses, or by a    *)
(* peer that pads with any number of further blocks, and read back by      *)
(* sshe_tx_recv_packet.                                                    *)
(***************************************************************************)
EXTENDS Packet

CONSTANT Sizes   \* payload sizes to try, and what a header may say its length is
ASSUME SizesAssumption == Sizes \subseteq Nat \ {0}

VARIABLES n, pad
vars == <<n, pad>>

Init == n \in Sizes /\ pad = PadLen(n)

\* The peer may pad longer, up to what the padding length byte can say.
PadMore ==
  /\ pad + Block <= 255
  /\ pad' = pad + Block
  /\ UNCHANGED n

Next == PadMore
Spec == Init /\ [][Next]_vars

-----------------------------------------------------------------------------
\* The padding of transport.c 122-125 is what RFC 4253 section 6 allows, and
\* no longer than it has to be: at least 4 bytes, whole blocks on the wire.
Legal(k, p) == p >= 4 /\ Total(k, p) % Block = 0
PaddingLegal == Legal(n, PadLen(n)) /\ ~Legal(n, PadLen(n) - Block)

\* A packet that may arrive is accepted and exactly its payload is handed out,
\* also when it ends in the first block (transport.c 198-260).
RoundTrip ==
  LET len == LengthField(n, pad) IN
  len <= MaxPacket =>
    /\ Accepts(len, pad)
    /\ Extracted(len, pad) = Header .. (Header + n - 1)

\* The largest SSH_MSG_CHANNEL_DATA the client allows - 32768 bytes of data
\* (client.c 153) after 9 of type, channel and length - fits the limit of 35000
\* (transport.c 200) with the longest padding there is.
LargestDataFits == n <= 32768 + 9 => LengthField(n, pad) <= MaxPacket

\* Whatever a header says - here the case's n as its length, and every padding byte,
\* once a case - nothing is handed out but bytes that were received: the offsets stay
\* clear of the header and of the padding (transport.c 198-260).
PadBytes == 0 .. 255
Inside(len, p) == Accepts(len, p) => Extracted(len, p) \subseteq Header .. (len + 3 - p)
ReadsInside == pad = PadLen(n) => \A p \in PadBytes : Inside(n, p)

\* Sender and receiver advance the counter alike although the receiver decrypts
\* the first block apart from the rest (transport.c 162, 195, 212).
CountersAgree ==
  LET d == [NewDir EXCEPT !.enc = TRUE] IN
  AfterSend(d, Total(n, pad)) = AfterRecv(d, Total(n, pad))
=============================================================================
