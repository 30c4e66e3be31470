---------------------------- MODULE StreamProofs ----------------------------
(***************************************************************************)
(* The properties of PacketCheck for every set of sizes; those of Stream   *)
(* for every set of sizes, every way the sockets may cut the stream and    *)
(* wherever the connection is lost; of Formats the parse of a reply, name  *)
(* lists, key material, the padding of hashes and what out_print shows,    *)
(* for every size of them, and its arithmetic, for every limbs; and the    *)
(* range of the limbs at the code's size, over FieldProofs.                *)
(***************************************************************************)
EXTENDS Formats, Induction, SequenceTheorems

-----------------------------------------------------------------------------
(* The packet layer, for every payload, padding and cipher state. *)

\* The padding chosen for any payload is between 4 and 19 bytes and completes
\* the last block; 16 bytes less would be too few (transport.c 122-125).
THEOREM PadLenFits ==
  ASSUME NEW size \in Nat
  PROVE  /\ PadLen(size) \in 4 .. 19
         /\ Total(size, PadLen(size)) % Block = 0
         /\ Total(size, PadLen(size)) >= Block
  BY DEF PadLen, Total, Header, Block

\* A packet of whole blocks holding a payload is never shorter than one block.
LEMMA TotalBlocks ==
  ASSUME NEW size \in Nat \ {0}, NEW padding \in Nat, padding >= 4, Total(size, padding) % Block = 0
  PROVE  Total(size, padding) \in Nat /\ Total(size, padding) >= Block
  BY DEF Total, Header, Block

\* Decrypting the first block apart from the rest moves the counter as far as
\* encrypting all of it at once (transport.c 162, 195, 212).
LEMMA CryptSplits ==
  ASSUME NEW c \in Nat, NEW bytes \in Nat, bytes % Block = 0, bytes >= Block
  PROVE  Crypt(Crypt(c, Block), bytes - Block) = Crypt(c, bytes)
  BY DEF Crypt, Block

\* The counter moves past every block it was used for.
LEMMA CryptMoves ==
  ASSUME NEW c \in Nat, NEW bytes \in Nat
  PROVE  Crypt(c, bytes) \in Nat /\ Crypt(c, bytes) >= c
  BY DEF Crypt

\* Sending and receiving a packet of whole blocks change a cipher state in the
\* same way.
LEMMA SendIsRecv ==
  ASSUME NEW d, d.ctr \in Nat, NEW total \in Nat,
         total % Block = 0, total >= Block
  PROVE  AfterRecv(d, total) = AfterSend(d, total)
  BY CryptSplits DEF AfterRecv, AfterSend

-----------------------------------------------------------------------------
(* PacketCheck. *)

\* What the paddings of PacketCheck have in common.
PadInv == n \in Nat \ {0} /\ pad \in 4 .. 255 /\ Total(n, pad) % Block = 0

\* A case has a size and a legal padding, and keeps them.
LEMMA PadInvHolds == Spec => []PadInv
<1>1. Init => PadInv
  BY PadLenFits, SizesAssumption DEF Init, PadInv
<1>2. PadInv /\ [Next]_vars => PadInv'
  BY DEF PadInv, Next, PadMore, vars, Total, Header, Block
<1> QED  BY <1>1, <1>2, PTL DEF Spec

\* transport.c 122-125 pads every payload legally, and with no block too many.
THEOREM PaddingIsLegal == Spec => []PaddingLegal
<1>1. PadInv => PaddingLegal
  BY PadLenFits DEF PadInv, PaddingLegal, Legal, Block
<1> QED  BY <1>1, PadInvHolds, PTL

\* Every payload comes out of sshe_tx_recv_packet as it went in, whatever legal
\* padding it travelled with (transport.c 198-260).
THEOREM PayloadsRoundTrip == Spec => []RoundTrip
<1>1. ASSUME PadInv, LengthField(n, pad) <= MaxPacket
      PROVE  Accepts(LengthField(n, pad), pad)
  <2>1. n + pad + 5 >= 16
    BY <1>1 DEF PadInv, Total, Header, Block
  <2> QED
    BY <1>1, <2>1
    DEF PadInv, Accepts, Allocates, Rest, LengthField, Block
<1>2. ASSUME PadInv
      PROVE  Extracted(LengthField(n, pad), pad) = Header .. (Header + n - 1)
  <2>1. LengthField(n, pad) - 1 - pad = n
    BY <1>2 DEF PadInv, LengthField
  <2>2. CASE n <= Block - Header
    BY <2>1, <2>2 DEF Extracted
  <2>3. CASE n > Block - Header
    <3>1. Extracted(LengthField(n, pad), pad)
            = (Header .. (Block - 1)) \cup (Block .. (Block + (n - (Block - Header)) - 1))
      BY <1>2, <2>1, <2>3 DEF PadInv, Extracted, Header, Block
    <3>2. n \in Nat /\ n > 11
      BY <1>2, <2>3 DEF PadInv, Header, Block
    <3>3. (5 .. 15) \cup (16 .. (16 + (n - 11) - 1)) = 5 .. (5 + n - 1)
      BY <3>2
    <3> QED  BY <3>1, <3>3 DEF Header, Block
  <2> QED  BY <1>2, <2>2, <2>3 DEF PadInv, Block, Header
<1>3. PadInv => RoundTrip
  BY <1>1, <1>2 DEF RoundTrip
<1> QED  BY <1>3, PadInvHolds, PTL

\* The largest CHANNEL_DATA the client allows is never refused for its length
\* (client.c 153, transport.c 200).
THEOREM LargestDataAlwaysFits == Spec => []LargestDataFits
<1>1. PadInv => LargestDataFits
  BY DEF PadInv, LargestDataFits, LengthField, MaxPacket
<1> QED  BY <1>1, PadInvHolds, PTL

\* Whatever length and padding byte an accepted header names, sshe_tx_recv_packet
\* hands out bytes it received, none of the header and none of the padding
\* (transport.c 198-260).
THEOREM ReadsAreInside ==
  /\ \A len \in Nat, p \in PadBytes : Inside(len, p)
  /\ Spec => []ReadsInside
<1>1. ASSUME NEW len \in Nat, NEW p \in PadBytes, Accepts(len, p)
      PROVE  Extracted(len, p) \subseteq Header .. (len + 3 - p)
  <2>1. p \in Nat
    BY DEF PadBytes
  <2>2. len - 1 - p > 0 /\ len >= 12
    BY <1>1, <2>1 DEF Accepts, Allocates, Rest, Block
  <2> QED
    BY <2>1, <2>2 DEF Extracted, Header, Block
<1>2. \A len \in Nat, p \in PadBytes : Inside(len, p)
  BY <1>1 DEF Inside
<1>3. PadInv => ReadsInside
  BY <1>2 DEF PadInv, ReadsInside
<1> QED  BY <1>2, <1>3, PadInvHolds, PTL

\* One packet moves the sender's and the receiver's cipher state alike.
THEOREM CountersAlwaysAgree == Spec => []CountersAgree
<1>1. ASSUME PadInv PROVE CountersAgree
  <2>1. Total(n, pad) \in Nat /\ Total(n, pad) >= Block
    BY <1>1, TotalBlocks DEF PadInv
  <2> DEFINE d == [NewDir EXCEPT !.enc = TRUE]
  <2>2. d.ctr \in Nat
    BY DEF NewDir
  <2>3. AfterRecv(d, Total(n, pad)) = AfterSend(d, Total(n, pad))
    <3> HIDE DEF d
    <3> QED  BY <1>1, <2>1, <2>2, SendIsRecv DEF PadInv
  <2> QED  BY <2>3 DEF CountersAgree
<1> QED  BY <1>1, PadInvHolds, PTL


-----------------------------------------------------------------------------
(* sshe_buf_reserve: its loop as a function that exists, and what it yields. *)

Bufs == [len : Nat, cap : Nat, pos : Nat]

Doubles(f, t) == f = [cap \in Nat |-> IF cap >= t THEN cap ELSE f[2 * cap]]

\* The capacities sshe_buf_reserve tries exist as a function.
LEMMA DoublesExists ==
  ASSUME NEW t \in Nat
  PROVE  \E f : Doubles(f, t)
<1> DEFINE Right(f, m) == \A c \in Nat : c + m >= t => f[c] = IF c >= t THEN c ELSE f[2 * c]
           S == {m \in 0 .. t : \E f : DOMAIN f = Nat /\ Right(f, m)}
<1>1. 0 \in S
  <2> DEFINE f == [c \in Nat |-> c]
  <2>1. DOMAIN f = Nat /\ Right(f, 0)
    OBVIOUS
  <2> HIDE DEF f
  <2>2. \E e : DOMAIN e = Nat /\ Right(e, 0)
    BY <2>1
  <2> QED  BY <2>2
<1>2. ASSUME NEW m \in 1 .. t, m - 1 \in S PROVE m \in S
  <2>1. PICK f : DOMAIN f = Nat /\ Right(f, m - 1)
    BY <1>2
  <2> DEFINE c0 == t - m
             g == [c \in Nat |-> IF c = c0 THEN f[2 * c0] ELSE f[c]]
  <2>2. c0 \in Nat /\ 2 * c0 \in Nat /\ ~(c0 >= t) /\ DOMAIN g = Nat
    BY <1>2
  <2>3. g[c0] = f[2 * c0] /\ \A c \in Nat : c # c0 => g[c] = f[c]
    BY <2>2
  <2> HIDE DEF g
  <2>4. g[2 * c0] = f[2 * c0]
    BY <2>2, <2>3
  <2>5. ASSUME NEW c \in Nat, c + m >= t, c # c0
        PROVE  g[c] = IF c >= t THEN c ELSE g[2 * c]
    <3>1. c + (m - 1) >= t /\ c > c0 /\ 2 * c \in Nat /\ 2 * c # c0
      BY <1>2, <2>2, <2>5
    <3>2. g[c] = f[c] /\ g[2 * c] = f[2 * c]
      BY <2>3, <2>5, <3>1
    <3>3. f[c] = IF c >= t THEN c ELSE f[2 * c]
      BY <2>1, <3>1
    <3> QED  BY <3>2, <3>3
  <2>6. Right(g, m)
    BY <2>2, <2>3, <2>4, <2>5
  <2> QED  BY <1>2, <2>2, <2>6
<1>3. \A m \in 0 .. t : m \in S
  <2> HIDE DEF S
  <2> QED  BY <1>1, <1>2, Upto
<1>4. PICK f : DOMAIN f = Nat /\ Right(f, t)
  <2> HIDE DEF S
  <2>1. t \in 0 .. t
    OBVIOUS
  <2>2. t \in S
    BY <1>3, <2>1
  <2> QED  BY <2>2 DEF S
<1>5. PICK g : g = [c \in Nat |-> f[c]]
  OBVIOUS
<1>6. \A c \in Nat : f[c] = IF c >= t THEN c ELSE g[2 * c]
  <2>1. \A c \in Nat : 2 * c \in Nat /\ g[2 * c] = f[2 * c]
    BY <1>5
  <2> QED  BY <1>4, <2>1
<1>7. g = [c \in Nat |-> IF c >= t THEN c ELSE g[2 * c]]
  <2>1. [c \in Nat |-> f[c]] = [c \in Nat |-> IF c >= t THEN c ELSE g[2 * c]]
    BY <1>6
  <2> QED  BY <1>5, <2>1
<1> QED  BY <1>7 DEF Doubles

\* The first capacity on the way of doubling that is enough is less than twice
\* what is needed.
LEMMA DoublesEnough ==
  ASSUME NEW t \in Nat, NEW f, Doubles(f, t), NEW c \in Nat \ {0}
  PROVE  /\ f[c] \in Nat /\ f[c] >= t
         /\ c >= t => f[c] = c
         /\ c < t => f[c] < 2 * t
<1> DEFINE Good(x) == f[x] \in Nat /\ f[x] >= t /\ (x >= t => f[x] = x) /\ (x < t => f[x] < 2 * t)
           S == {m \in 0 .. t : \A x \in Nat \ {0} : x + m >= t => Good(x)}
<1>1. \A x \in Nat : f[x] = IF x >= t THEN x ELSE f[2 * x]
  BY DEF Doubles
<1>2. 0 \in S
  BY <1>1
<1>3. ASSUME NEW m \in 1 .. t, m - 1 \in S PROVE m \in S
  <2> SUFFICES ASSUME NEW x \in Nat \ {0}, x + m >= t PROVE Good(x)
    BY <1>3
  <2>1. CASE x >= t
    BY <1>1, <2>1
  <2>2. CASE x < t
    <3>1. 2 * x \in Nat \ {0} /\ 2 * x + (m - 1) >= t /\ 2 * x < 2 * t
      BY <1>3, <2>2
    <3>2. Good(2 * x)
      BY <1>3, <3>1
    <3>3. f[x] = f[2 * x]
      BY <1>1, <2>2
    <3> QED  BY <2>2, <3>1, <3>2, <3>3
  <2> QED  BY <2>1, <2>2
<1>4. \A m \in 0 .. t : m \in S
  <2> HIDE DEF S
  <2> QED  BY <1>2, <1>3, Upto
<1>5. t \in S /\ c + t >= t
  BY <1>4
<1> QED  BY <1>5

\* What buf.c 19-39 promises every writer: room for what it appends, nothing
\* else changed, and never twice as much as is needed, the first allocation
\* aside.
LEMMA Reserves ==
  ASSUME NEW b \in Bufs, NEW need \in Nat, NEW r, r = sshe_buf_reserve(b, need)
  PROVE  /\ r \in Bufs /\ r.len = b.len /\ r.pos = b.pos
         /\ r.cap >= b.len + need
         /\ b.len + need <= b.cap => r.cap = b.cap
         /\ r.cap = b.cap \/ r.cap = FirstCap \/ r.cap < 2 * (b.len + need)
<1>1. CASE b.len + need <= b.cap
  <2>1. r = b
    BY <1>1 DEF sshe_buf_reserve
  <2> QED  BY <1>1, <2>1 DEF Bufs
<1>2. CASE ~(b.len + need <= b.cap)
  <2> DEFINE t == b.len + need
             grown == CHOOSE f : Doubles(f, t)
             c == IF b.cap = 0 THEN FirstCap ELSE b.cap
  <2>1. r = [b EXCEPT !.cap = grown[c]]
    BY <1>2 DEF sshe_buf_reserve, Doubles
  <2>2. t \in Nat /\ c \in Nat \ {0}
    BY FirstCapAssumption DEF Bufs
  <2>3. Doubles(grown, t)
    BY <2>2, DoublesExists
  <2> HIDE DEF grown, c
  <2>4. /\ grown[c] \in Nat /\ grown[c] >= t
        /\ c >= t => grown[c] = c
        /\ c < t => grown[c] < 2 * t
    BY <2>2, <2>3, DoublesEnough
  <2>5. r.cap = grown[c] /\ r \in Bufs /\ r.len = b.len /\ r.pos = b.pos
    BY <2>1, <2>4 DEF Bufs
  <2>6. r.cap = FirstCap \/ r.cap < 2 * t
    <3>1. CASE c < t
      BY <2>4, <2>5, <3>1
    <3>2. CASE c >= t
      <4>1. c = FirstCap
        BY <1>2, <2>2, <3>2 DEF c, Bufs
      <4> QED  BY <2>4, <2>5, <3>2, <4>1
    <3> QED  BY <2>2, <3>1, <3>2
  <2> QED  BY <1>2, <2>4, <2>5, <2>6
<1> QED  BY <1>1, <1>2


-----------------------------------------------------------------------------
(* Stream's sizes, boundaries and cipher states as functions of the case:   *)
(* encrypted or not (e), payload (a) and padding (p).                       *)

SizeOf(a, p, k) == IF k = 0 THEN Total(a, p) ELSE Total(1, PadLen(1))
MacOf(e) == IF e THEN MacLen ELSE 0
BeforeOf(e, a, p, k) ==
  CASE k = 0 -> 0
    [] k = 1 -> SizeOf(a, p, 0) + MacOf(e)
    [] OTHER -> SizeOf(a, p, 0) + MacOf(e) + (SizeOf(a, p, 1) + MacOf(e))
StateOf(e, a, p, k) ==
  CASE k = 0 -> [NewDir EXCEPT !.enc = e]
    [] k = 1 -> AfterRecv([NewDir EXCEPT !.enc = e], SizeOf(a, p, 0))
    [] OTHER -> AfterRecv(AfterRecv([NewDir EXCEPT !.enc = e], SizeOf(a, p, 0)), SizeOf(a, p, 1))

Ciphers == [keys : {NoKeys}, ctr : Nat, seq : Nat, enc : BOOLEAN]

\* The first block decrypted; all of it, the sequence number not yet moved.
Half(d) == [d EXCEPT !.ctr = IF d.enc THEN Crypt(@, Block) ELSE @]
Full(d, size) == [AfterRecv(d, size) EXCEPT !.seq = d.seq]

\* Both packets of a case are whole blocks.
LEMMA SizeFacts ==
  ASSUME PadInv
  PROVE  /\ \A k : /\ SizeOf(n, pad, k) \in Nat /\ SizeOf(n, pad, k) % Block = 0
                   /\ SizeOf(n, pad, k) >= Block
                   /\ Size(k) = SizeOf(n, pad, k) /\ Body(k) = SizeOf(n, pad, k) - Block
         /\ SizeOf(n, pad, 0) = Total(n, pad)
<1>1. Total(n, pad) \in Nat /\ Total(n, pad) % Block = 0 /\ Total(n, pad) >= Block
  BY TotalBlocks DEF PadInv
<1>2. /\ PadLen(1) \in 4 .. 19 /\ Total(1, PadLen(1)) % Block = 0
      /\ Total(1, PadLen(1)) >= Block
  BY PadLenFits
<1>3. Total(1, PadLen(1)) \in Nat
  BY <1>2 DEF Total, Header
<1>4. \A k : Size(k) = SizeOf(n, pad, k)
  BY DEF Size, Payload, Padding, SizeOf
<1>5. \A k : Body(k) = SizeOf(n, pad, k) - Block
  BY <1>2 DEF PadInv, Body, Payload, Padding, SizeOf, Total, Rest, LengthField, Header, Block
<1> QED  BY <1>1, <1>2, <1>3, <1>4, <1>5 DEF SizeOf

\* A packet moves the state within its type, and one call moves it as two.
LEMMA CipherTypes ==
  ASSUME NEW d \in Ciphers, NEW size \in Nat, size >= Block, size % Block = 0
  PROVE  /\ AfterRecv(d, size) \in Ciphers /\ AfterRecv(d, size).enc = d.enc
         /\ AfterSend(d, size) = AfterRecv(d, size)
         /\ Half(d) \in Ciphers /\ Half(d).enc = d.enc
         /\ Full(d, size) \in Ciphers /\ Full(d, size).enc = d.enc
<1>1. Crypt(d.ctr, Block) \in Nat
  BY CryptMoves DEF Ciphers, Block
<1>2. Crypt(Crypt(d.ctr, Block), size - Block) \in Nat
  <2>1. PICK c \in Nat : c = Crypt(d.ctr, Block)
    BY <1>1
  <2>2. size - Block \in Nat
    BY DEF Block
  <2>3. Crypt(c, size - Block) \in Nat
    BY <2>2, CryptMoves
  <2> QED  BY <2>1, <2>3
<1>3. (d.seq + 1) % SeqSpace \in Nat
  BY SeqSpaceAssumption DEF Ciphers
<1>4. AfterRecv(d, size) \in Ciphers /\ AfterRecv(d, size).enc = d.enc
  BY <1>2, <1>3 DEF Ciphers, AfterRecv
<1>5. AfterSend(d, size) = AfterRecv(d, size)
  BY SendIsRecv DEF Ciphers
<1>6. Half(d) \in Ciphers /\ Half(d).enc = d.enc
  BY <1>1 DEF Half, Ciphers
<1>7. Full(d, size) \in Ciphers /\ Full(d, size).enc = d.enc
  BY <1>4 DEF Full, Ciphers
<1> QED  BY <1>4, <1>5, <1>6, <1>7

\* What the decryptions of a packet come to, with a body and without one.
LEMMA CipherSteps ==
  ASSUME NEW d \in Ciphers, NEW size \in Nat, size >= Block
  PROVE  /\ d.enc => /\ [d EXCEPT !.ctr = Crypt(@, Block)] = Half(d)
                     /\ [Half(d) EXCEPT !.ctr = Crypt(@, size - Block)] = Full(d, size)
                     /\ size = Block => Half(d) = Full(d, size)
         /\ ~d.enc => /\ Half(d) = d
                      /\ [d EXCEPT !.seq = (@ + 1) % SeqSpace] = AfterRecv(d, size)
         /\ [Full(d, size) EXCEPT !.seq = (@ + 1) % SeqSpace] = AfterRecv(d, size)
<1>1. AfterRecv(d, size) = [d EXCEPT !.seq = (d.seq + 1) % SeqSpace,
                              !.ctr = IF d.enc THEN Crypt(Crypt(d.ctr, Block), size - Block) ELSE d.ctr]
  BY DEF AfterRecv
<1>2. Full(d, size) = [d EXCEPT !.ctr = IF d.enc THEN Crypt(Crypt(d.ctr, Block), size - Block) ELSE d.ctr]
  BY <1>1 DEF Full, Ciphers
<1>3. d.enc => /\ [d EXCEPT !.ctr = Crypt(@, Block)] = Half(d)
               /\ [Half(d) EXCEPT !.ctr = Crypt(@, size - Block)] = Full(d, size)
  BY <1>2 DEF Half, Ciphers
<1>4. d.enc /\ size = Block => Half(d) = Full(d, size)
  <2>1. Crypt(d.ctr, Block) \in Nat
    BY CryptMoves DEF Ciphers, Block
  <2>2. Crypt(Crypt(d.ctr, Block), 0) = Crypt(d.ctr, Block)
    BY <2>1 DEF Crypt
  <2>3. size = Block => size - Block = 0
    BY DEF Block
  <2> QED  BY <1>2, <2>2, <2>3 DEF Half, Ciphers
<1>5. ~d.enc => /\ Half(d) = d
                /\ [d EXCEPT !.seq = (@ + 1) % SeqSpace] = AfterRecv(d, size)
  BY <1>1 DEF Half, Ciphers
<1>6. [Full(d, size) EXCEPT !.seq = (@ + 1) % SeqSpace] = AfterRecv(d, size)
  BY <1>1, <1>2 DEF Ciphers
<1> QED  BY <1>3, <1>4, <1>5, <1>6

\* The states and offsets at the packets' boundaries follow each other.
LEMMA StateFacts ==
  ASSUME PadInv, NEW e \in BOOLEAN
  PROVE  /\ \A k \in 0 .. 2 : /\ StateOf(e, n, pad, k) \in Ciphers
                              /\ StateOf(e, n, pad, k).enc = e
                              /\ BeforeOf(e, n, pad, k) \in Nat
         /\ \A k \in 0 .. 1 :
              /\ StateOf(e, n, pad, k + 1) = AfterRecv(StateOf(e, n, pad, k), SizeOf(n, pad, k))
              /\ StateOf(e, n, pad, k + 1) = AfterSend(StateOf(e, n, pad, k), SizeOf(n, pad, k))
              /\ BeforeOf(e, n, pad, k + 1) = BeforeOf(e, n, pad, k) + SizeOf(n, pad, k) + MacOf(e)
         /\ BeforeOf(e, n, pad, 0) = 0
         /\ \A k \in 1 .. 2 : BeforeOf(e, n, pad, k) > 0
         /\ StateOf(e, n, pad, 0) = [NewDir EXCEPT !.enc = e]
<1> DEFINE d0 == [NewDir EXCEPT !.enc = e]
           s0 == SizeOf(n, pad, 0)
           s1 == SizeOf(n, pad, 1)
           d1 == AfterRecv(d0, s0)
           d2 == AfterRecv(d1, s1)
<1>1. d0 \in Ciphers /\ d0.enc = e
  BY DEF NewDir, Ciphers
<1>2. /\ s0 \in Nat /\ s0 % Block = 0 /\ s0 >= Block
      /\ s1 \in Nat /\ s1 % Block = 0 /\ s1 >= Block
  BY SizeFacts
<1>3. MacOf(e) \in Nat
  BY DEF MacOf, MacLen
<1>4. /\ StateOf(e, n, pad, 0) = d0 /\ StateOf(e, n, pad, 1) = d1 /\ StateOf(e, n, pad, 2) = d2
      /\ BeforeOf(e, n, pad, 0) = 0 /\ BeforeOf(e, n, pad, 1) = s0 + MacOf(e)
      /\ BeforeOf(e, n, pad, 2) = s0 + MacOf(e) + (s1 + MacOf(e))
  BY DEF StateOf, BeforeOf
<1> HIDE DEF d0, s0, s1
<1>5. d1 \in Ciphers /\ d1.enc = e /\ AfterSend(d0, s0) = d1
  BY <1>1, <1>2, CipherTypes
<1> HIDE DEF d1
<1>6. d2 \in Ciphers /\ d2.enc = e /\ AfterSend(d1, s1) = d2
  BY <1>2, <1>5, CipherTypes
<1>7. Block = 16
  BY DEF Block
<1>8. \A k \in 0 .. 2 : k = 0 \/ k = 1 \/ k = 2
  OBVIOUS
<1> HIDE DEF d2
<1>9. /\ \A k \in 0 .. 2 : /\ StateOf(e, n, pad, k) \in Ciphers
                           /\ StateOf(e, n, pad, k).enc = e
                           /\ BeforeOf(e, n, pad, k) \in Nat
      /\ \A k \in 1 .. 2 : BeforeOf(e, n, pad, k) > 0
  BY <1>1, <1>2, <1>3, <1>4, <1>5, <1>6, <1>7, <1>8
<1>10. ASSUME NEW k \in 0 .. 1
       PROVE  /\ StateOf(e, n, pad, k + 1) = AfterRecv(StateOf(e, n, pad, k), SizeOf(n, pad, k))
              /\ StateOf(e, n, pad, k + 1) = AfterSend(StateOf(e, n, pad, k), SizeOf(n, pad, k))
              /\ BeforeOf(e, n, pad, k + 1) = BeforeOf(e, n, pad, k) + SizeOf(n, pad, k) + MacOf(e)
  <2>1. CASE k = 0
    BY <1>2, <1>3, <1>4, <1>5, <2>1 DEF d1, s0
  <2>2. CASE k = 1
    BY <1>2, <1>3, <1>4, <1>6, <2>2 DEF d2, s1
  <2> QED  BY <2>1, <2>2
<1> QED  BY <1>4, <1>9, <1>10 DEF d0


-----------------------------------------------------------------------------
(* The inductive invariant of Stream: how far into which packet each end    *)
(* is, as functions of what it depends on.                                  *)

SenderOk(a, p, s, t, g, up) ==
  LET size  == SizeOf(a, p, s.done)
      start == BeforeOf(t.enc, a, p, s.done)
  IN
  /\ t = StateOf(t.enc, a, p, IF s.at = "idle" THEN s.done ELSE s.done + 1)
  /\ s.at # "idle" => s.done < Packets
  /\ s.at = "idle" /\ up => g = start
  /\ s.at = "packet" => s.off < size /\ (up => g = start + s.off)
  /\ s.at = "mac" => t.enc /\ s.off < MacLen /\ (up => g = start + size + s.off)
  /\ s.at = "failed" => ~up

ReceiverOk(a, p, r, x, e, got) ==
  LET size  == SizeOf(a, p, r.done)
      start == BeforeOf(e, a, p, r.done)
      d     == StateOf(e, a, p, r.done)
  IN
  /\ r.at # "idle" => r.done < Packets
  /\ r.at = "idle" => got = start /\ x = d
  /\ r.at = "first" => r.off < Block /\ got = start + r.off /\ x = d
  /\ r.at = "body" => r.off < size - Block /\ got = start + Block + r.off /\ x = Half(d)
  /\ r.at = "mac" => e /\ r.off < MacLen /\ got = start + size + r.off /\ x = Full(d, size)
  /\ r.at = "failed" => x \in {d, Half(d), Full(d, size)}

OutOk(a, r, o) ==
  /\ o \in Bufs
  /\ o.len <= o.cap
  /\ o.cap > FirstCap => o.cap < 2 * a
  /\ r.at = "idle" /\ r.done > 0 => o.len = (IF r.done = 1 THEN a ELSE 1) /\ o.pos = 0
  /\ r.at \in {"first", "body", "mac"} => o.len = 0 /\ o.pos = 0

StreamTypes ==
  /\ snd \in [at : {"idle", "packet", "mac", "failed"}, off : Nat, done : 0 .. Packets]
  /\ rcv \in [at : {"idle", "first", "body", "mac", "failed"}, off : Nat, done : 0 .. Packets]
  /\ given \in Nat /\ taken \in Nat /\ taken <= given
  /\ tx.enc \in BOOLEAN /\ alive \in BOOLEAN

StreamInv ==
  /\ PadInv
  /\ StreamTypes
  /\ SenderOk(n, pad, snd, tx, given, alive)
  /\ ReceiverOk(n, pad, rcv, rx, tx.enc, taken)
  /\ OutOk(n, rcv, out)


\* A call that moves anything moves no more than was asked.
LEMMA MovedSome ==
  ASSUME NEW w \in Nat \ {0}, NEW k \in Moved(w)
  PROVE  k \in 1 .. w
  BY StreamAssumption DEF Moved

\* The sender's call, whatever the sockets do under it.
LEMMA SenderStep ==
  ASSUME StreamInv, Sending
  PROVE  /\ snd' \in [at : {"idle", "packet", "mac", "failed"}, off : Nat, done : 0 .. Packets]
         /\ given' \in Nat /\ given' >= given
         /\ tx'.enc = tx.enc
         /\ SenderOk(n, pad, snd', tx', given', alive)
<1>1. PICK e \in BOOLEAN : e = tx.enc
  BY DEF StreamInv, StreamTypes
<1>2. /\ snd \in [at : {"idle", "packet", "mac", "failed"}, off : Nat, done : 0 .. Packets]
      /\ given \in Nat /\ PadInv
      /\ SenderOk(n, pad, snd, tx, given, alive)
  BY DEF StreamInv, StreamTypes
<1>3. CASE SendPacket
  <2>1. PICK k \in 0 .. 1 : k = snd.done
    BY <1>2, <1>3 DEF SendPacket, Packets
  <2>2. tx = StateOf(e, n, pad, k)
    BY <1>1, <1>2, <1>3, <2>1 DEF SendPacket, SenderOk
  <2>3. tx' = AfterSend(StateOf(e, n, pad, k), SizeOf(n, pad, k))
    BY <1>2, <1>3, <2>1, <2>2, SizeFacts DEF SendPacket
  <2>4. tx' = StateOf(e, n, pad, k + 1) /\ tx'.enc = e
    BY <1>2, <2>3, StateFacts
  <2>5. snd' = [at |-> "packet", off |-> 0, done |-> k] /\ given' = given
    BY <1>2, <1>3, <2>1 DEF SendPacket
  <2>6. SizeOf(n, pad, k) > 0 /\ BeforeOf(e, n, pad, k) \in Nat
    <3>1. SizeOf(n, pad, k) \in Nat /\ SizeOf(n, pad, k) >= 16
      BY <1>2, SizeFacts DEF Block
    <3>2. BeforeOf(e, n, pad, k) \in Nat
      BY <1>2, StateFacts
    <3> QED  BY <3>1, <3>2
  <2>7. alive => given = BeforeOf(e, n, pad, k)
    BY <1>1, <1>2, <1>3, <2>1 DEF SendPacket, SenderOk
  <2>8. SenderOk(n, pad, snd', tx', given', alive)
    BY <1>2, <2>4, <2>5, <2>6, <2>7 DEF SenderOk, Packets
  <2> QED  BY <1>1, <1>2, <2>1, <2>4, <2>5, <2>8 DEF Packets
<1>4. CASE raw_send
  <2>1. PICK k \in 0 .. 1 : k = snd.done
    BY <1>2, <1>4 DEF raw_send, SenderOk, Packets
  <2>2. PICK size \in Nat, start \in Nat :
          size = SizeOf(n, pad, k) /\ start = BeforeOf(e, n, pad, k)
    BY <1>2, SizeFacts, StateFacts
  <2>3. /\ tx = StateOf(e, n, pad, k + 1) /\ tx' = tx
        /\ snd.at = "packet" => snd.off < size /\ (alive => given = start + snd.off)
        /\ snd.at = "mac" => e /\ snd.off < MacLen /\ (alive => given = start + size + snd.off)
    BY <1>1, <1>2, <1>4, <2>1, <2>2 DEF raw_send, SenderOk
  <2>4. BeforeOf(e, n, pad, k + 1) = start + size + MacOf(e)
    BY <1>2, <2>2, StateFacts
  <2>5. SendLen = (IF snd.at = "packet" THEN size ELSE MacLen)
    BY <1>2, <2>1, <2>2, SizeFacts DEF SendLen
  <2>6. SendLen - snd.off \in Nat \ {0}
    BY <1>2, <1>4, <2>3, <2>5 DEF raw_send, MacLen
  <2>7. PICK m \in 1 .. (SendLen - snd.off) :
          /\ snd' = IF snd.off + m = SendLen THEN Sent ELSE [snd EXCEPT !.off = @ + m]
          /\ given' = IF alive THEN given + m ELSE given
    BY <1>4, <2>6, MovedSome DEF raw_send
  <2>8. CASE snd.off + m # SendLen
    <3>1. snd' = [at |-> snd.at, off |-> snd.off + m, done |-> k]
      BY <1>2, <2>1, <2>7, <2>8
    <3>2. snd.off + m < SendLen /\ snd.at \in {"packet", "mac"}
      <4>1. SendLen \in Nat /\ snd.off \in Nat
        BY <1>2, <2>2, <2>5 DEF MacLen
      <4> QED  BY <1>4, <2>7, <2>8, <4>1 DEF raw_send
    <3>3. SenderOk(n, pad, snd', tx', given', alive)
      BY <1>1, <1>2, <2>2, <2>3, <2>5, <2>7, <3>1, <3>2 DEF SenderOk, Packets, MacLen
    <3> QED  BY <1>2, <2>1, <2>3, <2>7, <3>1, <3>2, <3>3 DEF Packets
  <2>9. CASE snd.off + m = SendLen /\ snd.at = "packet" /\ e
    <3>1. snd' = [at |-> "mac", off |-> 0, done |-> k]
      BY <1>1, <1>2, <2>1, <2>7, <2>9 DEF Sent
    <3>2. alive => given' = start + size
      BY <1>2, <2>3, <2>5, <2>7, <2>9
    <3>3. SenderOk(n, pad, snd', tx', given', alive)
      <4>1. given' \in Nat /\ start + size + 0 = start + size
        BY <1>2, <2>7
      <4>2. tx'.enc = e /\ e /\ tx' = StateOf(e, n, pad, k + 1)
        BY <1>1, <2>3, <2>9
      <4>3. /\ snd'.at = "mac" /\ snd'.off = 0 /\ snd'.done = k
            /\ 0 < MacLen /\ k < Packets
        BY <3>1 DEF MacLen, Packets
      <4> QED  BY <2>2, <3>2, <4>1, <4>2, <4>3 DEF SenderOk
    <3> QED  BY <1>2, <2>1, <2>3, <2>7, <3>1, <3>3 DEF Packets
  <2>10. CASE snd.off + m = SendLen /\ ~(snd.at = "packet" /\ e)
    <3>1. snd' = [at |-> "idle", off |-> 0, done |-> k + 1]
      BY <1>1, <1>2, <2>1, <2>7, <2>10 DEF Sent
    <3>2. CASE snd.at = "packet"
      <4>1. alive => given' = start + size + MacOf(e)
        BY <1>2, <2>3, <2>5, <2>7, <2>10, <3>2 DEF MacOf
      <4> QED  BY <1>1, <1>2, <2>1, <2>3, <2>4, <2>7, <3>1, <4>1 DEF SenderOk, Packets
    <3>3. CASE snd.at = "mac"
      <4>1. alive => given' = start + size + MacOf(e)
        BY <1>2, <2>3, <2>5, <2>7, <2>10, <3>3 DEF MacOf, MacLen
      <4> QED  BY <1>1, <1>2, <2>1, <2>3, <2>4, <2>7, <3>1, <4>1 DEF SenderOk, Packets
    <3> QED  BY <1>4, <3>2, <3>3 DEF raw_send
  <2> QED  BY <2>8, <2>9, <2>10
<1>5. CASE SendFails
  BY <1>2, <1>5 DEF SendFails, SenderOk
<1> QED  BY <1>3, <1>4, <1>5 DEF Sending


\* buf.c 41-45: r is b with so many bytes more, which fit.
Appended(b, bytes, r) ==
  /\ r \in Bufs /\ r.len = b.len + bytes /\ r.pos = b.pos
  /\ r.cap >= r.len
  /\ r.cap = b.cap \/ r.cap = FirstCap \/ r.cap < 2 * r.len
\* That is what sshe_buf_raw does.
LEMMA Appends ==
  ASSUME NEW b \in Bufs, NEW bytes \in Nat, NEW r, r = sshe_buf_raw(b, bytes)
  PROVE  Appended(b, bytes, r)
<1>1. PICK g : g = sshe_buf_reserve(b, bytes)
  OBVIOUS
<1>2. /\ g \in Bufs /\ g.len = b.len /\ g.pos = b.pos
      /\ g.cap >= b.len + bytes
      /\ g.cap = b.cap \/ g.cap = FirstCap \/ g.cap < 2 * (b.len + bytes)
  BY <1>1, Reserves
<1>3. r = [g EXCEPT !.len = @ + bytes]
  BY <1>1 DEF sshe_buf_raw
<1> QED  BY <1>2, <1>3 DEF Bufs, Appended

\* The payload, in one piece or in two, in an emptied buffer.
LEMMA HandedWhole ==
  ASSUME n \in Nat \ {0}, NEW k \in 0 .. 1, NEW r, r = Handed(k),
         out \in Bufs, out.len = 0, out.pos = 0, out.cap > FirstCap => out.cap < 2 * n
  PROVE  /\ r \in Bufs /\ r.len = (IF k = 0 THEN n ELSE 1) /\ r.pos = 0
         /\ r.len <= r.cap
         /\ r.cap > FirstCap => r.cap < 2 * n
<1>1. PICK p \in 1 .. n : p = Payload(k)
  BY DEF Payload
<1>2. p = IF k = 0 THEN n ELSE 1
  BY <1>1 DEF Payload
<1>3. CASE p <= 11
  <2>1. r = sshe_buf_raw(out, p)
    BY <1>1, <1>3 DEF Handed, Block, Header
  <2>2. /\ r \in Bufs /\ r.len = 0 + p /\ r.pos = 0 /\ r.cap >= r.len
        /\ r.cap = out.cap \/ r.cap = FirstCap \/ r.cap < 2 * r.len
    <3>1. p \in Nat
      OBVIOUS
    <3>2. /\ r \in Bufs /\ r.len = out.len + p /\ r.pos = out.pos /\ r.cap >= r.len
          /\ r.cap = out.cap \/ r.cap = FirstCap \/ r.cap < 2 * r.len
      BY <2>1, <3>1, Appends, ZenonT(60) DEF Appended
    <3> QED  BY <3>2
  <2>3. r.len = p /\ r.cap \in Nat /\ out.cap \in Nat
    BY <2>2 DEF Bufs
  <2> QED  BY <1>2, <2>2, <2>3, FirstCapAssumption
<1>4. CASE ~(p <= 11)
  <2>1. PICK h : h = sshe_buf_raw(out, 11)
    OBVIOUS
  <2>2. /\ h \in Bufs /\ h.len = 11 /\ h.pos = 0
        /\ h.cap = out.cap \/ h.cap = FirstCap \/ h.cap < 22
    <3>1. /\ h \in Bufs /\ h.len = 0 + 11 /\ h.pos = 0
          /\ h.cap = out.cap \/ h.cap = FirstCap \/ h.cap < 2 * h.len
      <4>1. 11 \in Nat
        OBVIOUS
      <4>2. /\ h \in Bufs /\ h.len = out.len + 11 /\ h.pos = out.pos
            /\ h.cap = out.cap \/ h.cap = FirstCap \/ h.cap < 2 * h.len
        BY <2>1, <4>1, Appends DEF Appended
      <4> QED  BY <4>2
    <3> QED  BY <3>1
  <2>3. r = sshe_buf_raw(h, p - 11) /\ p - 11 \in Nat
    BY <1>1, <1>4, <2>1 DEF Handed, Block, Header
  <2>4. /\ r \in Bufs /\ r.len = p /\ r.pos = 0 /\ r.cap >= p
        /\ r.cap = h.cap \/ r.cap = FirstCap \/ r.cap < 2 * p
    <3>1. /\ r \in Bufs /\ r.len = 11 + (p - 11) /\ r.pos = 0 /\ r.cap >= r.len
          /\ r.cap = h.cap \/ r.cap = FirstCap \/ r.cap < 2 * r.len
      <4>1. /\ r \in Bufs /\ r.len = h.len + (p - 11) /\ r.pos = h.pos /\ r.cap >= r.len
            /\ r.cap = h.cap \/ r.cap = FirstCap \/ r.cap < 2 * r.len
        <5>1. PICK w \in Nat : w = p - 11
          BY <2>3
        <5>2. r = sshe_buf_raw(h, w) /\ h \in Bufs
          BY <2>2, <2>3, <5>1
        <5>3. Appended(h, w, r)
          BY <5>1, <5>2, Appends
        <5> QED  BY <5>1, <5>3 DEF Appended
      <4> QED  BY <2>2, <4>1
    <3> QED  BY <3>1
  <2>5. r.cap \in Nat /\ h.cap \in Nat /\ out.cap \in Nat
    BY <2>2, <2>4 DEF Bufs
  <2> QED  BY <1>2, <1>4, <2>2, <2>4, <2>5, FirstCapAssumption
<1> QED  BY <1>3, <1>4

\* A raw_recv that is through, given everything that was asked for.
LEMMA ReadDoneStep ==
  ASSUME StreamInv, Reading, ReadDone,
         NEW got, got = taken + (RecvLen - rcv.off)
  PROVE  /\ rcv' \in [at : {"idle", "first", "body", "mac", "failed"}, off : Nat, done : 0 .. Packets]
         /\ ReceiverOk(n, pad, rcv', rx', tx.enc, got)
         /\ OutOk(n, rcv', out')
<1>1. PICK e \in BOOLEAN : e = tx.enc
  BY DEF StreamInv, StreamTypes
<1>2. /\ rcv \in [at : {"idle", "first", "body", "mac", "failed"}, off : Nat, done : 0 .. Packets]
      /\ taken \in Nat /\ PadInv /\ n \in Nat \ {0}
      /\ ReceiverOk(n, pad, rcv, rx, e, taken)
      /\ OutOk(n, rcv, out)
  BY <1>1 DEF StreamInv, StreamTypes, PadInv
<1>3. rcv.at \in {"first", "body", "mac"}
  BY DEF Reading
<1>4. PICK k \in 0 .. 1 : k = rcv.done
  BY <1>2, <1>3 DEF ReceiverOk, Packets
<1>5. PICK size \in Nat, start \in Nat, d \in Ciphers :
        /\ size = SizeOf(n, pad, k) /\ start = BeforeOf(e, n, pad, k)
        /\ d = StateOf(e, n, pad, k)
  BY <1>2, SizeFacts, StateFacts
<1>6. /\ size >= Block /\ size % Block = 0 /\ d.enc = e /\ Body(k) = size - Block
      /\ StateOf(e, n, pad, k + 1) = AfterRecv(d, size)
      /\ BeforeOf(e, n, pad, k + 1) = start + size + MacOf(e)
  BY <1>2, <1>5, SizeFacts, StateFacts
<1>7. /\ Half(d) \in Ciphers /\ Half(d).enc = e /\ Full(d, size) \in Ciphers /\ Full(d, size).enc = e
  BY <1>6, CipherTypes
<1>8. /\ rcv.at = "first" => rcv.off < Block /\ taken = start + rcv.off /\ rx = d
      /\ rcv.at = "body" => rcv.off < size - Block /\ taken = start + Block + rcv.off /\ rx = Half(d)
      /\ rcv.at = "mac" => e /\ rcv.off < MacLen /\ taken = start + size + rcv.off /\ rx = Full(d, size)
  BY <1>2, <1>4, <1>5 DEF ReceiverOk
<1>9. rx \in Ciphers /\ rx.enc = e
  BY <1>3, <1>6, <1>7, <1>8
<1>10. PICK total : total = IF rcv.at = "first" THEN start + Block ELSE
                             IF rcv.at = "body" THEN start + size ELSE start + size + MacLen
  OBVIOUS
<1>11. got = total
  BY <1>2, <1>3, <1>4, <1>6, <1>8, <1>10 DEF RecvLen, Block, MacLen
<1>12. Decrypted = IF rcv.at = "first" THEN Half(d) ELSE Full(d, size)
  <2>1. CASE e /\ rcv.at = "first"
    BY <1>6, <1>8, <1>9, <2>1, CipherSteps DEF Decrypted, RecvLen
  <2>2. CASE e /\ rcv.at = "body"
    BY <1>4, <1>6, <1>8, <1>9, <2>2, CipherSteps DEF Decrypted, RecvLen
  <2>3. CASE e /\ rcv.at = "mac"
    BY <1>8, <2>3 DEF Decrypted
  <2>4. CASE ~e
    <3>1. Decrypted = rx /\ rcv.at # "mac"
      BY <1>8, <1>9, <2>4 DEF Decrypted
    <3>2. Half(d) = d /\ Full(d, size) = d
      BY <1>5, <1>6, <2>4 DEF Half, Full, AfterRecv, Ciphers
    <3> QED  BY <1>3, <1>8, <3>1, <3>2
  <2> QED  BY <1>3, <2>1, <2>2, <2>3, <2>4
<1>13. CASE NextRead = "body"
  <2>1. rcv.at = "first" /\ size - Block > 0
    BY <1>4, <1>6, <1>13 DEF NextRead
  <2>2. rcv' = [at |-> "body", off |-> 0, done |-> k] /\ rx' = Half(d) /\ out' = out
    BY <1>2, <1>4, <1>12, <1>13, <2>1 DEF ReadDone
  <2>3. ReceiverOk(n, pad, rcv', rx', e, got)
    BY <1>4, <1>5, <1>10, <1>11, <2>1, <2>2 DEF ReceiverOk, Packets, Block
  <2>4. OutOk(n, rcv', out')
    BY <1>2, <1>3, <2>2 DEF OutOk
  <2> QED  BY <1>1, <2>2, <2>3, <2>4 DEF Packets
<1>14. CASE NextRead = "mac"
  <2>1. e /\ rcv.at # "mac" /\ (rcv.at = "first" => size = Block)
    <3>1. rcv.at # "mac" /\ rx.enc /\ ~(rcv.at = "first" /\ Body(rcv.done) > 0)
      BY <1>3, <1>14 DEF NextRead
    <3> QED  BY <1>4, <1>6, <1>9, <3>1 DEF Block
  <2>2. rcv' = [at |-> "mac", off |-> 0, done |-> k] /\ out' = out
    BY <1>2, <1>4, <1>14 DEF ReadDone
  <2>3. rx' = Full(d, size)
    BY <1>6, <1>12, <1>14, <2>1, CipherSteps DEF ReadDone
  <2>4. got = start + size
    BY <1>3, <1>10, <1>11, <2>1
  <2>5. ReceiverOk(n, pad, rcv', rx', e, got)
    <3>1. start + size + 0 = start + size
      OBVIOUS
    <3>2. /\ rcv'.at = "mac" /\ rcv'.off = 0 /\ rcv'.done = k
          /\ 0 < MacLen /\ k < Packets
      BY <2>2 DEF MacLen, Packets
    <3> QED  BY <1>5, <2>1, <2>3, <2>4, <3>1, <3>2 DEF ReceiverOk
  <2>6. OutOk(n, rcv', out')
    BY <1>2, <1>3, <2>2 DEF OutOk
  <2> QED  BY <1>1, <2>2, <2>5, <2>6 DEF Packets
<1>15. CASE NextRead = "idle"
  <2>1. /\ rcv.at = "mac" \/ ~e
        /\ rcv.at = "first" => size = Block
    BY <1>4, <1>6, <1>9, <1>15 DEF NextRead, Block
  <2>2. rcv' = [at |-> "idle", off |-> 0, done |-> k + 1] /\ out' = Handed(k)
    BY <1>2, <1>4, <1>15 DEF ReadDone
  <2>3. rx' = [Full(d, size) EXCEPT !.seq = (@ + 1) % SeqSpace]
    <3>1. Decrypted = Full(d, size)
      <4>1. CASE rcv.at = "first"
        <5>1. Half(d) = d /\ Full(d, size) = d
          BY <1>5, <1>6, <2>1, <4>1 DEF Half, Full, AfterRecv, Ciphers
        <5> QED  BY <1>12, <4>1, <5>1
      <4>2. CASE rcv.at # "first"
        BY <1>12, <4>2
      <4> QED  BY <4>1, <4>2
    <3> QED  BY <1>15, <3>1 DEF ReadDone
  <2>4. rx' = StateOf(e, n, pad, k + 1)
    BY <1>6, <2>3, CipherSteps
  <2>5. got = BeforeOf(e, n, pad, k + 1)
    BY <1>3, <1>6, <1>8, <1>10, <1>11, <2>1 DEF MacOf
  <2>6. ReceiverOk(n, pad, rcv', rx', e, got)
    BY <2>2, <2>4, <2>5 DEF ReceiverOk
  <2>7. OutOk(n, rcv', out')
    <3>1. out \in Bufs /\ out.len = 0 /\ out.pos = 0 /\ (out.cap > FirstCap => out.cap < 2 * n)
      BY <1>2, <1>3 DEF OutOk
    <3>2. PICK r : r = Handed(k)
      OBVIOUS
    <3>3. /\ r \in Bufs /\ r.len = (IF k = 0 THEN n ELSE 1) /\ r.pos = 0
          /\ r.len <= r.cap
          /\ r.cap > FirstCap => r.cap < 2 * n
      BY <1>2, <3>1, <3>2, HandedWhole
    <3> QED  BY <2>2, <3>2, <3>3 DEF OutOk
  <2> QED  BY <1>1, <2>2, <2>6, <2>7 DEF Packets
<1>16. NextRead \in {"body", "mac", "idle"}
  BY DEF NextRead
<1> QED  BY <1>13, <1>14, <1>15, <1>16


\* The receiver's call, however few bytes the sockets bring it.
LEMMA ReceiverStep ==
  ASSUME StreamInv, Receiving
  PROVE  /\ rcv' \in [at : {"idle", "first", "body", "mac", "failed"}, off : Nat, done : 0 .. Packets]
         /\ taken' \in Nat /\ taken' <= given
         /\ ReceiverOk(n, pad, rcv', rx', tx.enc, taken')
         /\ OutOk(n, rcv', out')
<1>1. /\ rcv \in [at : {"idle", "first", "body", "mac", "failed"}, off : Nat, done : 0 .. Packets]
      /\ taken \in Nat /\ given \in Nat /\ taken <= given /\ PadInv /\ tx.enc \in BOOLEAN
      /\ ReceiverOk(n, pad, rcv, rx, tx.enc, taken)
      /\ OutOk(n, rcv, out)
  BY DEF StreamInv, StreamTypes
<1>2. CASE RecvPacket
  <2>1. PICK k \in 0 .. 1 : k = rcv.done
    BY <1>1, <1>2 DEF RecvPacket, Packets
  <2>2. rcv' = [at |-> "first", off |-> 0, done |-> k] /\ taken' = taken /\ rx' = rx
    BY <1>1, <1>2, <2>1 DEF RecvPacket
  <2>3. BeforeOf(tx.enc, n, pad, k) \in Nat
    BY <1>1, StateFacts
  <2>4. ReceiverOk(n, pad, rcv', rx', tx.enc, taken')
    BY <1>1, <1>2, <2>1, <2>2, <2>3 DEF RecvPacket, ReceiverOk, Packets, Block
  <2>5. out' = [out EXCEPT !.pos = 0, !.len = 0]
    BY <1>2 DEF RecvPacket
  <2>6. OutOk(n, rcv', out')
    <3>1. out \in Bufs /\ out.cap \in Nat /\ (out.cap > FirstCap => out.cap < 2 * n)
      BY <1>1 DEF OutOk, Bufs
    <3>2. out' = [len |-> 0, cap |-> out.cap, pos |-> 0]
      BY <2>5, <3>1 DEF Bufs
    <3> QED  BY <2>2, <3>1, <3>2 DEF OutOk, Bufs
  <2> QED  BY <1>1, <2>2, <2>4, <2>6 DEF Packets
<1>3. CASE raw_recv
  <2>1. /\ Reading /\ taken < given
        /\ \E k \in Moved(Arriving(RecvLen - rcv.off)) :
             /\ taken' = taken + k
             /\ IF rcv.off + k = RecvLen THEN ReadDone
                ELSE rcv' = [rcv EXCEPT !.off = @ + k] /\ rx' = rx /\ out' = out
    BY <1>3 DEF raw_recv
  <2>2. PICK k \in 0 .. 1 : k = rcv.done
    BY <1>1, <2>1 DEF Reading, ReceiverOk, Packets
  <2>3. PICK size \in Nat, start \in Nat :
          size = SizeOf(n, pad, k) /\ start = BeforeOf(tx.enc, n, pad, k)
    BY <1>1, SizeFacts, StateFacts
  <2>4. RecvLen = (IF rcv.at = "first" THEN Block ELSE
                   IF rcv.at = "body" THEN size - Block ELSE MacLen)
    BY <1>1, <2>1, <2>2, <2>3, SizeFacts DEF RecvLen, Reading
  <2>5. RecvLen \in Nat /\ RecvLen - rcv.off \in Nat \ {0}
    BY <1>1, <2>1, <2>2, <2>3, <2>4 DEF ReceiverOk, Reading, Block, MacLen
  <2>6. PICK w \in Nat \ {0} : w = Arriving(RecvLen - rcv.off) /\ w <= RecvLen - rcv.off /\ w <= given - taken
    BY <1>1, <2>1, <2>5 DEF Arriving
  <2>7. PICK m \in 1 .. w :
          /\ taken' = taken + m
          /\ IF rcv.off + m = RecvLen THEN ReadDone
             ELSE rcv' = [rcv EXCEPT !.off = @ + m] /\ rx' = rx /\ out' = out
    BY <2>1, <2>6, MovedSome
  <2>8. taken' \in Nat /\ taken' <= given
    BY <1>1, <2>6, <2>7
  <2>9. CASE rcv.off + m = RecvLen
    <3>1. ReadDone /\ taken' = taken + (RecvLen - rcv.off)
      BY <1>1, <2>5, <2>7, <2>9
    <3> QED  BY <2>1, <2>8, <3>1, ReadDoneStep
  <2>10. CASE rcv.off + m # RecvLen
    <3>1. /\ rcv' = [at |-> rcv.at, off |-> rcv.off + m, done |-> k]
          /\ rx' = rx /\ out' = out
      BY <1>1, <2>2, <2>7, <2>10
    <3>2. rcv.off + m < RecvLen
      BY <1>1, <2>5, <2>6, <2>7, <2>10
    <3>3. rcv.at \in {"first", "body", "mac"}
      BY <2>1 DEF Reading
    <3>4. ReceiverOk(n, pad, rcv', rx', tx.enc, taken')
      BY <1>1, <2>2, <2>3, <2>4, <2>7, <3>1, <3>2, <3>3 DEF ReceiverOk, Packets, Block, MacLen
    <3>5. OutOk(n, rcv', out')
      BY <1>1, <2>2, <3>1, <3>3 DEF OutOk
    <3> QED  BY <1>1, <2>2, <2>7, <2>8, <3>1, <3>4, <3>5 DEF Packets
  <2> QED  BY <2>9, <2>10
<1>4. CASE RecvFails
  <2>1. rcv.at \in {"first", "body", "mac"} /\ rcv' = [rcv EXCEPT !.at = "failed"]
    BY <1>4 DEF RecvFails, Reading
  <2>2. rx' = rx /\ taken' = taken /\ out' = out
    BY <1>4 DEF RecvFails
  <2>3. ReceiverOk(n, pad, rcv', rx', tx.enc, taken')
    BY <1>1, <2>1, <2>2 DEF ReceiverOk
  <2>4. OutOk(n, rcv', out')
    BY <1>1, <2>1, <2>2 DEF OutOk
  <2> QED  BY <1>1, <2>1, <2>2, <2>3, <2>4
<1> QED  BY <1>2, <1>3, <1>4 DEF Receiving

\* The invariant holds throughout.
LEMMA StreamInvHolds == StreamSpec => []StreamInv
<1>1. StreamInit => StreamInv
  <2> SUFFICES ASSUME StreamInit PROVE StreamInv
    OBVIOUS
  <2>1. PadInv
    BY PadLenFits, SizesAssumption DEF StreamInit, Init, PadInv
  <2>2. PICK e \in BOOLEAN : tx = [NewDir EXCEPT !.enc = e]
    BY DEF StreamInit
  <2>3. tx.enc = e /\ tx = StateOf(e, n, pad, 0) /\ BeforeOf(e, n, pad, 0) = 0
    BY <2>1, <2>2, StateFacts DEF NewDir
  <2>4. /\ rx = tx /\ given = 0 /\ taken = 0 /\ alive = TRUE /\ out = NewBuf
        /\ snd = [at |-> "idle", off |-> 0, done |-> 0]
        /\ rcv = [at |-> "idle", off |-> 0, done |-> 0]
    BY DEF StreamInit
  <2>5. StreamTypes
    BY <2>3, <2>4 DEF StreamTypes, Packets
  <2>6. SenderOk(n, pad, snd, tx, given, alive)
    BY <2>3, <2>4 DEF SenderOk
  <2>7. ReceiverOk(n, pad, rcv, rx, tx.enc, taken)
    BY <2>3, <2>4 DEF ReceiverOk
  <2>8. OutOk(n, rcv, out)
    BY <2>4, FirstCapAssumption DEF OutOk, NewBuf, Bufs
  <2> QED  BY <2>1, <2>5, <2>6, <2>7, <2>8 DEF StreamInv
<1>2. ASSUME StreamInv, StreamPadMore PROVE StreamInv'
  <2>1. /\ snd.at = "idle" /\ snd.done = 0 /\ rcv.at = "idle" /\ alive
        /\ n' = n /\ snd' = snd /\ rcv' = rcv /\ tx' = tx /\ rx' = rx
        /\ given' = given /\ taken' = taken /\ alive' = alive /\ out' = out
    BY <1>2 DEF StreamPadMore, PadMore
  <2>2. PadInv'
    BY <1>2 DEF StreamInv, PadInv, StreamPadMore, PadMore, Total, Header, Block
  <2>3. PadInv /\ tx.enc \in BOOLEAN
    BY <1>2 DEF StreamInv, StreamTypes
  <2>4. \A k \in 1 .. 2 : BeforeOf(tx.enc, n, pad, k) > 0
    BY <2>3, StateFacts
  <2>5. given = 0
    BY <1>2, <2>1 DEF StreamInv, SenderOk, BeforeOf
  <2>6. taken = 0 /\ rcv.done \in 0 .. 2 /\ taken = BeforeOf(tx.enc, n, pad, rcv.done)
    BY <1>2, <2>1, <2>5 DEF StreamInv, StreamTypes, ReceiverOk, Packets
  <2>7. rcv.done = 0
    BY <2>4, <2>6
  <2>8. /\ tx = [NewDir EXCEPT !.enc = tx.enc] /\ rx = tx
    BY <1>2, <2>1, <2>7 DEF StreamInv, SenderOk, ReceiverOk, StateOf
  <2>9. SenderOk(n', pad', snd', tx', given', alive')
    BY <2>1, <2>5, <2>8 DEF SenderOk, StateOf, BeforeOf
  <2>10. ReceiverOk(n', pad', rcv', rx', tx'.enc, taken')
    BY <2>1, <2>6, <2>7, <2>8 DEF ReceiverOk, StateOf, BeforeOf
  <2>11. StreamTypes' /\ OutOk(n', rcv', out')
    BY <1>2, <2>1 DEF StreamInv, StreamTypes
  <2> QED  BY <2>2, <2>9, <2>10, <2>11 DEF StreamInv
<1>3. ASSUME StreamInv, Sending PROVE StreamInv'
  <2>1. /\ snd' \in [at : {"idle", "packet", "mac", "failed"}, off : Nat, done : 0 .. Packets]
        /\ given' \in Nat /\ given' >= given
        /\ tx'.enc = tx.enc
        /\ SenderOk(n, pad, snd', tx', given', alive)
    BY <1>3, SenderStep
  <2>2. /\ n' = n /\ pad' = pad /\ rcv' = rcv /\ rx' = rx
        /\ taken' = taken /\ alive' = alive /\ out' = out
    BY <1>3 DEF Sending, SendPacket, raw_send, SendFails
  <2>3. StreamTypes'
    BY <1>3, <2>1, <2>2 DEF StreamInv, StreamTypes
  <2> QED  BY <1>3, <2>1, <2>2, <2>3 DEF StreamInv, PadInv
<1>4. ASSUME StreamInv, Receiving PROVE StreamInv'
  <2>1. /\ rcv' \in [at : {"idle", "first", "body", "mac", "failed"}, off : Nat, done : 0 .. Packets]
        /\ taken' \in Nat /\ taken' <= given
        /\ ReceiverOk(n, pad, rcv', rx', tx.enc, taken')
        /\ OutOk(n, rcv', out')
    BY <1>4, ReceiverStep
  <2>2. /\ n' = n /\ pad' = pad /\ snd' = snd /\ tx' = tx
        /\ given' = given /\ alive' = alive
    BY <1>4 DEF Receiving, RecvPacket, raw_recv, RecvFails
  <2>3. StreamTypes'
    BY <1>4, <2>1, <2>2 DEF StreamInv, StreamTypes
  <2> QED  BY <1>4, <2>1, <2>2, <2>3 DEF StreamInv, PadInv
<1>5. ASSUME StreamInv, Cut PROVE StreamInv'
  <2>1. /\ n' = n /\ pad' = pad /\ snd' = snd /\ rcv' = rcv /\ tx' = tx /\ rx' = rx
        /\ taken' = taken /\ out' = out /\ alive' = FALSE
    BY <1>5 DEF Cut
  <2>2. PICK k \in Moved(given - taken) \cup {0} : given' = taken + k
    BY <1>5 DEF Cut
  <2>3. k \in Nat
    BY <1>5, <2>2, StreamAssumption DEF Moved, StreamInv, StreamTypes
  <2>4. StreamTypes'
    <3>1. taken \in Nat /\ given' \in Nat /\ taken' \in Nat /\ taken' <= given'
      BY <1>5, <2>1, <2>2, <2>3 DEF StreamInv, StreamTypes
    <3> QED  BY <1>5, <2>1, <3>1 DEF StreamInv, StreamTypes
  <2>5. SenderOk(n', pad', snd', tx', given', alive')
    BY <1>5, <2>1 DEF StreamInv, SenderOk
  <2> QED  BY <1>5, <2>1, <2>4, <2>5 DEF StreamInv, PadInv
<1>6. ASSUME StreamInv, UNCHANGED streamVars PROVE StreamInv'
  BY <1>6 DEF streamVars, StreamInv, StreamTypes, PadInv
<1>7. StreamInv /\ [StreamNext]_streamVars => StreamInv'
  BY <1>2, <1>3, <1>4, <1>5, <1>6 DEF StreamNext
<1> QED  BY <1>1, <1>7, PTL DEF StreamSpec

-----------------------------------------------------------------------------
(* Stream's properties. *)

\* A receive that has returned stands at the end of a packet, and so does a send
\* on a connection that holds, whatever the sockets did to the stream.
THEOREM FramesStayAligned == StreamSpec => []FramesAligned
<1>1. ASSUME StreamInv PROVE FramesAligned
  <2>1. PadInv /\ Size(0) = SizeOf(n, pad, 0) /\ Size(1) = SizeOf(n, pad, 1)
    BY <1>1, SizeFacts DEF StreamInv
  <2>2. \A k : Before(k) = BeforeOf(tx.enc, n, pad, k)
    BY <2>1 DEF Before, OnWire, BeforeOf, MacOf
  <2> QED  BY <1>1, <2>2 DEF StreamInv, SenderOk, ReceiverOk, FramesAligned
<1> QED  BY <1>1, StreamInvHolds, PTL

\* The cipher states are where Transport takes them to be: after a receive that
\* returned, after one that failed wherever it was, and during and after a send.
THEOREM CipherStaysAsModelled == StreamSpec => []CipherAsModelled
<1>1. ASSUME StreamInv PROVE CipherAsModelled
  <2>1. PadInv /\ \A k : Size(k) = SizeOf(n, pad, k)
    BY <1>1, SizeFacts DEF StreamInv
  <2>2. \A k : After(k) = StateOf(tx.enc, n, pad, k)
    BY <2>1 DEF After, Started, StateOf
  <2>3. rcv.at = "idle" => rx = After(rcv.done)
    BY <1>1, <2>2 DEF StreamInv, ReceiverOk
  <2>4. tx = After(IF snd.at = "idle" THEN snd.done ELSE snd.done + 1)
    BY <1>1, <2>2 DEF StreamInv, SenderOk
  <2>5. rcv.at = "failed" =>
          LET d == After(rcv.done) IN rx \in {d, Half(d), Full(d, Size(rcv.done))}
    BY <1>1, <2>1, <2>2 DEF StreamInv, ReceiverOk
  <2> QED  BY <2>3, <2>4, <2>5 DEF CipherAsModelled, Half, Full
<1> QED  BY <1>1, StreamInvHolds, PTL

\* What sshe_tx_recv_packet leaves in its caller's buffer is the payload of the
\* packet it returned for, in a buffer never twice as large as it needed to be.
THEOREM OutStaysPayload == StreamSpec => []OutIsPayload
<1>1. ASSUME StreamInv PROVE OutIsPayload
  <2>1. rcv.done \in 0 .. 2 /\ out.len <= out.cap /\ (out.cap > FirstCap => out.cap < 2 * n)
    BY <1>1 DEF StreamInv, StreamTypes, OutOk, Packets
  <2>2. ASSUME rcv.at = "idle", rcv.done > 0
        PROVE  out.len = Payload(rcv.done - 1) /\ out.pos = 0
    BY <1>1, <2>1, <2>2 DEF StreamInv, OutOk, Payload
  <2> QED  BY <2>1, <2>2 DEF OutIsPayload
<1> QED  BY <1>1, StreamInvHolds, PTL

-----------------------------------------------------------------------------
(* Formats: what the program computes from a message, for every size.      *)

\* A case has at least one byte.
LEMMA SizesAreNatural == StreamSpec => [](n \in Nat \ {0})
<1>1. StreamInv => n \in Nat \ {0}
  BY DEF StreamInv, PadInv
<1> QED  BY <1>1, StreamInvHolds, PTL

\* What a buffer holds grows by what is appended (buf.c 35-60).
LEMMA Writes ==
  ASSUME NEW b \in Bufs, NEW s \in Nat, NEW r, r = sshe_buf_str(b, s)
  PROVE  r \in Bufs /\ r.len = b.len + (4 + s)
<1>1. PICK w : w = sshe_buf_raw(b, 4)
  OBVIOUS
<1>2. w \in Bufs /\ w.len = b.len + 4
  BY <1>1, Appends DEF Appended
<1>3. r = sshe_buf_raw(w, s)
  BY <1>1 DEF sshe_buf_str, sshe_buf_u32
<1>4. r \in Bufs /\ r.len = w.len + s
  BY <1>2, <1>3, Appends DEF Appended
<1> QED  BY <1>2, <1>4 DEF Bufs

\* A reply is a type and three strings, each behind the word that says its size.
LEMMA ReplySize ==
  ASSUME NEW a \in Nat, NEW b \in Nat, NEW c \in Nat
  PROVE  WriteReply(<<a, b, c>>).len = a + b + c + 13
<1>1. NewBuf \in Bufs /\ NewBuf.len = 0
  BY DEF NewBuf, Bufs
<1>2. PICK w0 : w0 = sshe_buf_raw(NewBuf, 1)
  OBVIOUS
<1>3. PICK w1 : w1 = sshe_buf_str(w0, a)
  OBVIOUS
<1>4. PICK w2 : w2 = sshe_buf_str(w1, b)
  OBVIOUS
<1>5. PICK w3 : w3 = sshe_buf_str(w2, c)
  OBVIOUS
<1>6. w0 \in Bufs /\ w0.len = 0 + 1
  BY <1>1, <1>2, Appends DEF Appended
<1>7. w1 \in Bufs /\ w1.len = w0.len + (4 + a)
  BY <1>3, <1>6, Writes
<1>8. w2 \in Bufs /\ w2.len = w1.len + (4 + b)
  BY <1>4, <1>7, Writes
<1>9. w3 \in Bufs /\ w3.len = w2.len + (4 + c)
  BY <1>5, <1>8, Writes
<1>10. WriteReply(<<a, b, c>>) = w3
  BY <1>2, <1>3, <1>4, <1>5 DEF WriteReply, sshe_buf_u8
<1> QED  BY <1>6, <1>7, <1>8, <1>9, <1>10

\* The getter of a string moves past it or says that it is not there (buf.c 84-95).
LEMMA Gets ==
  ASSUME NEW len \in Nat, NEW p \in Nat, NEW s \in Nat
  PROVE  sshe_buf_get_str(len, p, s) = IF p + (4 + s) <= len THEN p + (4 + s) ELSE Exhausted
  BY DEF sshe_buf_get_str, sshe_buf_get_u32, Exhausted

\* However a reply is divided into its strings and wherever it is cut, the parse
\* fails exactly if something is missing, and otherwise ends where the reply does
\* (buf.c 62-95, transport.c 482-487).
THEOREM TruncationAlwaysNoticed == StreamSpec => []TruncationNoticed
<1>1. ASSUME NEW a \in Nat, NEW b \in Nat, NEW c \in Nat, NEW len \in 0 .. a + b + c + 13
      PROVE  ParseReply(len, <<a, b, c>>) = IF len = a + b + c + 13 THEN len ELSE Exhausted
  <2>1. PICK p0 : p0 = sshe_buf_get_u8(len, 0)
    OBVIOUS
  <2>2. PICK p1 : p1 = IF p0 = Exhausted THEN p0 ELSE sshe_buf_get_str(len, p0, a)
    OBVIOUS
  <2>3. PICK p2 : p2 = IF p1 = Exhausted THEN p1 ELSE sshe_buf_get_str(len, p1, b)
    OBVIOUS
  <2>4. PICK p3 : p3 = IF p2 = Exhausted THEN p2 ELSE sshe_buf_get_str(len, p2, c)
    OBVIOUS
  <2>5. ParseReply(len, <<a, b, c>>) = p3
    BY <2>1, <2>2, <2>3, <2>4 DEF ParseReply
  <2>6. len \in Nat /\ Exhausted = -1
    BY DEF Exhausted
  <2>7. p0 = IF 1 <= len THEN 1 ELSE Exhausted
    BY <2>1, <2>6 DEF sshe_buf_get_u8
  <2>8. p1 = IF 5 + a <= len THEN 5 + a ELSE Exhausted
    BY <2>2, <2>6, <2>7, Gets
  <2>9. p2 = IF 9 + a + b <= len THEN 9 + a + b ELSE Exhausted
    BY <2>3, <2>6, <2>8, Gets
  <2>10. p3 = IF 13 + a + b + c <= len THEN 13 + a + b + c ELSE Exhausted
    BY <2>4, <2>6, <2>9, Gets
  <2> QED  BY <2>5, <2>6, <2>10
<1>2. ASSUME n \in Nat \ {0} PROVE TruncationNoticed
  <2>1. ASSUME NEW a \in 0 .. n, NEW b \in 0 .. n - a, NEW len \in 0 .. WriteReply(<<a, b, n - a - b>>).len
        PROVE  ParseReply(len, <<a, b, n - a - b>>)
                 = IF len = WriteReply(<<a, b, n - a - b>>).len
                   THEN WriteReply(<<a, b, n - a - b>>).len ELSE Exhausted
    <3>1. PICK c \in Nat : c = n - a - b
      BY <1>2
    <3>2. a \in Nat /\ b \in Nat
      BY <1>2
    <3>3. WriteReply(<<a, b, c>>).len = a + b + c + 13
      BY <3>2, ReplySize
    <3> QED  BY <1>1, <2>1, <3>1, <3>2, <3>3
  <2> QED  BY <2>1 DEF TruncationNoticed
<1> QED  BY <1>2, SizesAreNatural, PTL

-----------------------------------------------------------------------------
(* Name lists.  namelist_has is a recursive function; StandsFrom satisfies *)
(* its equation, and nothing else does.                                    *)

Comma(nl, i) == Min({k \in i .. Len(nl) : nl[k] = "comma"} \cup {Len(nl) + 1})
Finds(nl, want, f) ==
  f = [i \in 1 .. Len(nl) + 2 |->
         /\ i <= Len(nl)
         /\ LET j == Min({k \in i .. Len(nl) : nl[k] = "comma"} \cup {Len(nl) + 1}) IN
            SubSeq(nl, i, j - 1) = want \/ f[j + 1]]

\* A name of the list stands at x to y, where a reader that is at i may meet it.
StandsAt(nl, want, i, x, y) ==
  /\ SubSeq(nl, x, y) = want
  /\ x = i \/ nl[x - 1] = "comma"
  /\ y = Len(nl) \/ nl[y + 1] = "comma"
StandsFrom(nl, want, i) ==
  \E x \in i .. Len(nl), y \in 1 .. Len(nl) : StandsAt(nl, want, i, x, y)

Letters(nl, m) == Len(nl) = m /\ \A k \in 1 .. m : nl[k] \in {"a", "b", "comma"}
Plain(want) == Len(want) \in Nat \ {0} /\ \A k \in 1 .. Len(want) : want[k] # "comma"

\* Where a name ends: at the next comma, or at the end.
LEMMA CommaNext ==
  ASSUME NEW nl, NEW m \in Nat, Letters(nl, m), NEW i \in 1 .. m, NEW j, j = Comma(nl, i)
  PROVE  /\ j \in i .. m + 1
         /\ j = m + 1 \/ nl[j] = "comma"
         /\ \A k \in i .. j - 1 : nl[k] # "comma"
<1> DEFINE C == {k \in i .. m : nl[k] = "comma"} \cup {m + 1}
<1>1. C \in SUBSET Nat /\ C # {}
  OBVIOUS
<1>2. j = CHOOSE x \in C : \A y \in C : x <= y
  BY DEF Comma, Min, Letters
<1>3. j \in C /\ \A y \in C : j <= y
  <2> HIDE DEF C
  <2> QED  BY <1>1, <1>2, Least
<1>4. j \in i .. m + 1 /\ (j = m + 1 \/ nl[j] = "comma")
  BY <1>3
<1>5. ASSUME NEW k \in i .. j - 1, nl[k] = "comma" PROVE FALSE
  BY <1>3, <1>4, <1>5
<1> QED  BY <1>4, <1>5

\* Where a name stands there is no comma.
LEMMA NoCommaWithin ==
  ASSUME NEW nl, NEW m \in Nat, Letters(nl, m), NEW want, Plain(want),
         NEW x \in 1 .. m, NEW y \in 0 .. m, SubSeq(nl, x, y) = want
  PROVE  x <= y /\ \A k \in x .. y : nl[k] # "comma"
<1>1. \A k \in x .. y : nl[k] \in {"a", "b", "comma"}
  BY DEF Letters
<1>2. /\ Len(SubSeq(nl, x, y)) = IF x <= y THEN y - x + 1 ELSE 0
      /\ \A k \in 1 .. y - x + 1 : SubSeq(nl, x, y)[k] = nl[x + k - 1]
  BY <1>1, SubSeqProperties
<1>3. x <= y /\ Len(want) = y - x + 1
  BY <1>2 DEF Plain
<1>4. ASSUME NEW k \in x .. y PROVE nl[k] # "comma"
  <2>1. k - x + 1 \in 1 .. y - x + 1 /\ x + (k - x + 1) - 1 = k
    BY <1>4
  <2>2. want[k - x + 1] = nl[x + (k - x + 1) - 1]
    BY <1>2, <2>1
  <2>3. want[k - x + 1] # "comma"
    BY <1>3, <2>1 DEF Plain
  <2> QED  BY <2>1, <2>2, <2>3
<1> QED  BY <1>3, <1>4

\* A name that stands at i or later stands up to the next comma or behind it.
LEMMA StandsNext ==
  ASSUME NEW nl, NEW m \in Nat, Letters(nl, m), NEW want, Plain(want),
         NEW i \in 1 .. m, NEW j, j = Comma(nl, i)
  PROVE  StandsFrom(nl, want, i) <=>
           SubSeq(nl, i, j - 1) = want \/ StandsFrom(nl, want, j + 1)
<1>1. /\ j \in i .. m + 1
      /\ j = m + 1 \/ nl[j] = "comma"
      /\ \A k \in i .. j - 1 : nl[k] # "comma"
  BY CommaNext
<1>2. Len(nl) = m
  BY DEF Letters
<1>3. ASSUME SubSeq(nl, i, j - 1) = want PROVE StandsFrom(nl, want, i)
  <2>1. j - 1 \in 0 .. m
    BY <1>1
  <2>2. i <= j - 1
    BY <1>3, <2>1, NoCommaWithin
  <2>3. i \in i .. m /\ j - 1 \in 1 .. m
    BY <2>1, <2>2
  <2>4. j - 1 = m \/ nl[(j - 1) + 1] = "comma"
    BY <1>1
  <2>5. StandsAt(nl, want, i, i, j - 1)
    BY <1>2, <1>3, <2>4 DEF StandsAt
  <2> QED  BY <1>2, <2>3, <2>5 DEF StandsFrom
<1>4. ASSUME StandsFrom(nl, want, j + 1) PROVE StandsFrom(nl, want, i)
  <2>1. PICK x \in j + 1 .. m, y \in 1 .. m : StandsAt(nl, want, j + 1, x, y)
    BY <1>2, <1>4 DEF StandsFrom
  <2>2. x \in i .. m /\ j # m + 1
    BY <1>1, <2>1
  <2>3. nl[x - 1] = "comma"
    BY <1>1, <2>1, <2>2 DEF StandsAt
  <2>4. StandsAt(nl, want, i, x, y)
    BY <2>1, <2>3 DEF StandsAt
  <2> QED  BY <1>2, <2>1, <2>2, <2>4 DEF StandsFrom
<1>5. ASSUME StandsFrom(nl, want, i)
      PROVE  SubSeq(nl, i, j - 1) = want \/ StandsFrom(nl, want, j + 1)
  <2>1. PICK x \in i .. m, y \in 1 .. m : StandsAt(nl, want, i, x, y)
    BY <1>2, <1>5 DEF StandsFrom
  <2>2. x <= y /\ \A k \in x .. y : nl[k] # "comma"
    <3>1. x \in 1 .. m /\ y \in 0 .. m
      OBVIOUS
    <3> QED  BY <2>1, <3>1, NoCommaWithin DEF StandsAt
  <2>3. CASE x = i
    <3>1. ~(j \in x .. y)
      BY <1>1, <2>2
    <3>2. j > y
      BY <1>1, <2>3, <3>1
    <3>3. ~(y + 1 < j)
      <4>1. y + 1 < j => y + 1 \in i .. j - 1 /\ y # m
        BY <1>1, <2>2, <2>3
      <4> QED  BY <1>1, <1>2, <2>1, <4>1 DEF StandsAt
    <3>4. j - 1 = y
      BY <1>1, <3>2, <3>3
    <3> QED  BY <2>1, <2>3, <3>4 DEF StandsAt
  <2>4. CASE x # i
    <3>1. nl[x - 1] = "comma" /\ x - 1 >= i
      BY <2>1, <2>4 DEF StandsAt
    <3>2. ~(x - 1 < j)
      <4>1. x - 1 < j => x - 1 \in i .. j - 1
        BY <1>1, <3>1
      <4> QED  BY <1>1, <3>1, <4>1
    <3>3. x \in j + 1 .. m
      BY <1>1, <3>2
    <3>4. StandsAt(nl, want, j + 1, x, y)
      BY <2>1, <3>1 DEF StandsAt
    <3> QED  BY <1>2, <3>3, <3>4 DEF StandsFrom
  <2> QED  BY <2>3, <2>4
<1> QED  BY <1>3, <1>4, <1>5

\* Beyond the end there is nothing.
LEMMA StandsNowhere ==
  ASSUME NEW nl, NEW m \in Nat, Letters(nl, m), NEW want, NEW i \in {m + 1, m + 2}
  PROVE  ~StandsFrom(nl, want, i)
  BY DEF StandsFrom, Letters

\* The scan of namelist_has exists as a function.
LEMMA FindsExists ==
  ASSUME NEW nl, NEW m \in Nat, Letters(nl, m), NEW want, Plain(want)
  PROVE  \E f : Finds(nl, want, f)
<1>1. PICK f : f = [i \in 1 .. m + 2 |-> StandsFrom(nl, want, i)]
  OBVIOUS
<1>2. ASSUME NEW i \in 1 .. m + 2, NEW j, j = Comma(nl, i)
      PROVE  StandsFrom(nl, want, i) = (i <= m /\ (SubSeq(nl, i, j - 1) = want \/ f[j + 1]))
  <2>1. CASE i <= m
    <3>1. i \in 1 .. m
      BY <2>1
    <3>2. j + 1 \in 1 .. m + 2
      BY <1>2, <3>1, CommaNext
    <3>3. f[j + 1] = StandsFrom(nl, want, j + 1)
      BY <1>1, <3>2
    <3>4. StandsFrom(nl, want, i) <=> (SubSeq(nl, i, j - 1) = want \/ f[j + 1])
      BY <1>2, <3>1, <3>3, StandsNext, Zenon
    <3>5. StandsFrom(nl, want, i) \in BOOLEAN
      BY DEF StandsFrom
    <3> QED  BY <2>1, <3>4, <3>5, Zenon
  <2>2. CASE ~(i <= m)
    <3>1. i \in {m + 1, m + 2}
      BY <2>2
    <3>2. ~StandsFrom(nl, want, i)
      BY <3>1, StandsNowhere
    <3>3. StandsFrom(nl, want, i) \in BOOLEAN
      BY DEF StandsFrom
    <3> QED  BY <2>2, <3>2, <3>3, Zenon
  <2> QED  BY <2>1, <2>2
<1>3. Len(nl) = m
  BY DEF Letters
<1>4. f = [i \in 1 .. m + 2 |->
             i <= m /\ (SubSeq(nl, i, Comma(nl, i) - 1) = want \/ f[Comma(nl, i) + 1])]
  <2>1. [i \in 1 .. m + 2 |-> StandsFrom(nl, want, i)]
          = [i \in 1 .. m + 2 |->
               i <= m /\ (SubSeq(nl, i, Comma(nl, i) - 1) = want \/ f[Comma(nl, i) + 1])]
    BY <1>2, Zenon
  <2> QED  BY <1>1, <2>1, Zenon
<1>5. Finds(nl, want, f)
  BY <1>3, <1>4, Zenon DEF Finds, Comma
<1> QED  BY <1>5

\* From any place the scan finds exactly what stands from there on.
LEMMA FindsWhatStands ==
  ASSUME NEW nl, NEW m \in Nat, Letters(nl, m), NEW want, Plain(want),
         NEW f, Finds(nl, want, f)
  PROVE  \A i \in 1 .. m + 2 : f[i] <=> StandsFrom(nl, want, i)
<1>1. ASSUME NEW i \in 1 .. m + 2, NEW j, j = Comma(nl, i)
      PROVE  f[i] = (i <= m /\ (SubSeq(nl, i, j - 1) = want \/ f[j + 1]))
  <2>1. Len(nl) = m
    BY DEF Letters
  <2>2. f = [k \in 1 .. m + 2 |->
               k <= m /\ (SubSeq(nl, k, Comma(nl, k) - 1) = want \/ f[Comma(nl, k) + 1])]
    BY <2>1, Zenon DEF Finds, Comma
  <2> QED  BY <1>1, <2>2, Zenon
<1> DEFINE S == {k \in 0 .. m + 1 : \A i \in m + 2 - k .. m + 2 :
                                      f[i] <=> StandsFrom(nl, want, i)}
<1>2. ASSUME NEW i \in {m + 1, m + 2} PROVE f[i] <=> StandsFrom(nl, want, i)
  <2>1. i \in 1 .. m + 2 /\ ~(i <= m)
    BY <1>2
  <2>2. ~f[i]
    BY <1>1, <2>1, Zenon
  <2>3. ~StandsFrom(nl, want, i)
    BY <1>2, StandsNowhere
  <2> QED  BY <2>2, <2>3, Zenon
<1>3. 0 \in S
  <2>1. \A i \in m + 2 - 0 .. m + 2 : i \in {m + 1, m + 2}
    OBVIOUS
  <2>2. 0 \in 0 .. m + 1
    OBVIOUS
  <2> QED  BY <1>2, <2>1, <2>2
<1>4. ASSUME NEW k \in 1 .. m + 1, k - 1 \in S PROVE k \in S
  <2>1. PICK i : i = m + 2 - k
    OBVIOUS
  <2>2. /\ i \in 1 .. m + 1
        /\ \A h \in m + 2 - k .. m + 2 : h = i \/ h \in m + 2 - (k - 1) .. m + 2
    BY <2>1
  <2>3. \A h \in m + 2 - (k - 1) .. m + 2 : f[h] <=> StandsFrom(nl, want, h)
    BY <1>4
  <2>4. f[i] <=> StandsFrom(nl, want, i)
    <3>1. CASE i = m + 1
      BY <1>2, <3>1
    <3>2. CASE i <= m
      <4>1. PICK j : j = Comma(nl, i)
        OBVIOUS
      <4>2. i \in 1 .. m /\ i \in 1 .. m + 2
        BY <2>2, <3>2
      <4>3. j \in i .. m + 1
        BY <4>1, <4>2, CommaNext
      <4>4. j + 1 \in m + 2 - (k - 1) .. m + 2
        BY <2>1, <4>3
      <4>5. f[j + 1] <=> StandsFrom(nl, want, j + 1)
        BY <2>3, <4>4, Zenon
      <4>6. StandsFrom(nl, want, i) <=> SubSeq(nl, i, j - 1) = want \/ StandsFrom(nl, want, j + 1)
        BY <4>1, <4>2, StandsNext
      <4>7. f[i] = (i <= m /\ (SubSeq(nl, i, j - 1) = want \/ f[j + 1]))
        BY <1>1, <4>1, <4>2, Zenon
      <4> QED  BY <3>2, <4>5, <4>6, <4>7, Zenon
    <3> QED  BY <2>2, <3>1, <3>2
  <2>5. \A h \in m + 2 - k .. m + 2 : f[h] <=> StandsFrom(nl, want, h)
    BY <2>2, <2>3, <2>4, Zenon
  <2>6. k \in 0 .. m + 1
    OBVIOUS
  <2> QED  BY <2>5, <2>6, Zenon
<1>5. m + 1 \in S
  <2> HIDE DEF S
  <2>1. m + 1 \in Nat /\ m + 1 \in 0 .. m + 1
    OBVIOUS
  <2>2. \A k \in 0 .. m + 1 : k \in S
    BY <1>3, <1>4, <2>1, Upto
  <2> QED  BY <2>1, <2>2
<1>6. \A i \in m + 2 - (m + 1) .. m + 2 : f[i] <=> StandsFrom(nl, want, i)
  BY <1>5, Zenon
<1>7. \A i \in 1 .. m + 2 : i \in m + 2 - (m + 1) .. m + 2
  OBVIOUS
<1> QED  BY <1>6, <1>7, Zenon

\* A name is found in a list of any length exactly if it stands there between two
\* commas or the list's ends (transport.c 98-110).
THEOREM NamesAlwaysFound == StreamSpec => []NamesFound
<1>1. ASSUME NEW nl, NEW m \in Nat, Letters(nl, m), NEW want, Plain(want)
      PROVE  namelist_has(nl, want) <=> StandsFrom(nl, want, 1)
  <2>1. PICK f : f = CHOOSE g : Finds(nl, want, g)
    OBVIOUS
  <2>2. Finds(nl, want, f)
    BY <1>1, <2>1, FindsExists
  <2>3. namelist_has(nl, want) <=> f[1]
    BY <2>1, Zenon DEF namelist_has, Finds
  <2>4. 1 \in 1 .. m + 2
    OBVIOUS
  <2>5. f[1] <=> StandsFrom(nl, want, 1)
    BY <1>1, <2>2, <2>4, FindsWhatStands, Zenon
  <2> QED  BY <2>3, <2>5, Zenon
<1>2. ASSUME NEW nl, NEW m \in Nat, Letters(nl, m), NEW want
      PROVE  Stands(nl, want) <=> StandsFrom(nl, want, 1)
  BY <1>2 DEF Stands, StandsFrom, StandsAt, Letters
<1>3. ASSUME NEW want \in Names PROVE Plain(want)
  BY DEF Names, Plain
<1>4. ASSUME n \in Nat \ {0} PROVE NamesFound
  <2>1. ASSUME NEW nl \in [1 .. n -> {"a", "b", "comma"}] PROVE Letters(nl, n) /\ n \in Nat
    <3>1. n \in Nat
      BY <1>4
    <3>2. nl \in Seq({"a", "b", "comma"}) /\ Len(nl) = n
      BY <2>1, <3>1, LenProperties
    <3> QED  BY <2>1, <3>1, <3>2 DEF Letters
  <2>2. ASSUME NEW nl \in [1 .. n -> {"a", "b", "comma"}], NEW want \in Names
        PROVE  namelist_has(nl, want) <=> Stands(nl, want)
    BY <1>1, <1>2, <1>3, <2>1, Zenon
  <2> QED  BY <2>2 DEF NamesFound
<1> QED  BY <1>4, SizesAreNatural, PTL

-----------------------------------------------------------------------------
(* Numbers: what a run of multiplying by c and adding yields.              *)

Run(f, c, b, m) == f = [i \in 0 .. m |-> IF i = 0 THEN 0 ELSE c * f[i - 1] + b[i]]

\* The run exists as a function.
LEMMA RunExists ==
  ASSUME NEW m \in Nat, NEW c \in Nat, NEW b, \A i \in 1 .. m : b[i] \in Nat
  PROVE  \E f : Run(f, c, b, m)
<1> DEFINE Right(f, k) == /\ f[0] = 0
                          /\ \A i \in 1 .. k : f[i] = c * f[i - 1] + b[i]
           S == {k \in 0 .. m : \E f : Right(f, k)}
<1>1. 0 \in S
  <2>1. PICK f : f = [i \in 0 .. 0 |-> 0]
    OBVIOUS
  <2>2. Right(f, 0)
    BY <2>1
  <2>3. 0 \in 0 .. m
    OBVIOUS
  <2> HIDE DEF Right
  <2> QED  BY <2>2, <2>3
<1>2. ASSUME NEW k \in 1 .. m, k - 1 \in S PROVE k \in S
  <2>1. PICK f : Right(f, k - 1)
    BY <1>2
  <2>2. PICK g : g = [i \in 0 .. k |-> IF i = k THEN c * f[k - 1] + b[k] ELSE f[i]]
    OBVIOUS
  <2>3. g[k] = c * f[k - 1] + b[k] /\ \A i \in 0 .. k - 1 : g[i] = f[i]
    BY <2>2
  <2>4. ASSUME NEW i \in 1 .. k PROVE g[i] = c * g[i - 1] + b[i]
    <3>1. CASE i = k
      <4>1. g[k - 1] = f[k - 1]
        BY <2>3
      <4> QED  BY <2>3, <3>1, <4>1
    <3>2. CASE i # k
      <4>1. i \in 1 .. k - 1 /\ i \in 0 .. k - 1 /\ i - 1 \in 0 .. k - 1
        BY <3>2
      <4>2. f[i] = c * f[i - 1] + b[i]
        BY <2>1, <4>1
      <4> QED  BY <2>3, <4>1, <4>2
    <3> QED  BY <3>1, <3>2
  <2>5. g[0] = 0
    BY <2>1, <2>3
  <2>6. Right(g, k)
    BY <2>4, <2>5
  <2>7. k \in 0 .. m
    OBVIOUS
  <2> HIDE DEF Right
  <2> QED  BY <2>6, <2>7
<1>3. m \in S
  <2> HIDE DEF S
  <2>1. m \in 0 .. m /\ \A k \in 0 .. m : k \in S
    BY <1>1, <1>2, Upto
  <2> QED  BY <2>1
<1>4. PICK f : Right(f, m)
  BY <1>3
<1>5. PICK g : g = [i \in 0 .. m |-> f[i]]
  OBVIOUS
<1>6. \A i \in 0 .. m : f[i] = IF i = 0 THEN 0 ELSE c * g[i - 1] + b[i]
  <2>1. ASSUME NEW i \in 1 .. m PROVE f[i] = c * g[i - 1] + b[i]
    <3>1. i - 1 \in 0 .. m
      OBVIOUS
    <3>2. g[i - 1] = f[i - 1]
      BY <1>5, <3>1
    <3> QED  BY <1>4, <3>2
  <2>2. \A i \in 0 .. m : i = 0 \/ i \in 1 .. m
    OBVIOUS
  <2> QED  BY <1>4, <2>1, <2>2
<1>7. [i \in 0 .. m |-> f[i]] = [i \in 0 .. m |-> IF i = 0 THEN 0 ELSE c * g[i - 1] + b[i]]
  BY <1>6
<1> QED  BY <1>5, <1>7 DEF Run

\* The steps of a run, whose values are natural numbers.
LEMMA RunSteps ==
  ASSUME NEW m \in Nat, NEW c \in Nat, NEW b, \A i \in 1 .. m : b[i] \in Nat,
         NEW f, Run(f, c, b, m)
  PROVE  /\ f[0] = 0
         /\ \A i \in 1 .. m : f[i] = c * f[i - 1] + b[i]
         /\ \A i \in 0 .. m : f[i] \in Nat
<1>1. f[0] = 0 /\ \A i \in 1 .. m : f[i] = c * f[i - 1] + b[i]
  BY DEF Run
<1> DEFINE S == {k \in 0 .. m : f[k] \in Nat}
<1>2. 0 \in S
  BY <1>1
<1>3. ASSUME NEW k \in 1 .. m, k - 1 \in S PROVE k \in S
  <2>1. f[k - 1] \in Nat /\ b[k] \in Nat /\ f[k] = c * f[k - 1] + b[k]
    BY <1>1, <1>3
  <2>2. PICK x \in Nat : x = f[k - 1]
    BY <2>1
  <2>3. c * x \in Nat
    OBVIOUS
  <2>4. f[k] \in Nat
    BY <2>1, <2>2, <2>3
  <2> QED  BY <2>4
<1>4. \A k \in 0 .. m : k \in S
  <2> HIDE DEF S
  <2> QED  BY <1>2, <1>3, Upto
<1> QED  BY <1>1, <1>4

\* d is what follows the z zeros that b begins with.
Behind(d, w, b, m, z) ==
  /\ m = z + w /\ \A i \in 1 .. z : b[i] = 0
  /\ \A i \in 1 .. w : d[i] = b[z + i]
  /\ \A i \in 1 .. m : b[i] \in Nat

\* Zeros in front change nothing.
LEMMA RunShifted ==
  ASSUME NEW m \in Nat, NEW c \in Nat, NEW b, NEW z \in Nat, NEW w \in Nat, NEW d, Behind(d, w, b, m, z),
         NEW f, Run(f, c, b, m), NEW g, Run(g, c, d, w)
  PROVE  f[m] = g[w]
<1>0. /\ m = z + w /\ \A i \in 1 .. z : b[i] = 0
      /\ \A i \in 1 .. w : d[i] = b[z + i]
      /\ \A i \in 1 .. m : b[i] \in Nat
  BY DEF Behind
<1>1. /\ f[0] = 0 /\ \A i \in 1 .. m : f[i] = c * f[i - 1] + b[i]
  BY <1>0, RunSteps
<1>2. /\ g[0] = 0 /\ \A i \in 1 .. w : g[i] = c * g[i - 1] + d[i]
  BY DEF Run
<1> DEFINE Z == {k \in 0 .. z : f[k] = 0}
           S == {k \in 0 .. w : f[z + k] = g[k]}
<1>3. f[z] = 0
  <2>1. 0 \in Z
    BY <1>1
  <2>2. ASSUME NEW k \in 1 .. z, k - 1 \in Z PROVE k \in Z
    <3>1. f[k - 1] = 0 /\ k \in 1 .. m /\ b[k] = 0
      BY <1>0, <2>2
    <3>2. f[k] = c * 0 + 0
      BY <1>1, <3>1
    <3> QED  BY <3>2
  <2>3. z \in 0 .. z /\ \A k \in 0 .. z : k \in Z
    <3> HIDE DEF Z
    <3> QED  BY <2>1, <2>2, Upto
  <2> QED  BY <2>3
<1>4. 0 \in S
  BY <1>2, <1>3
<1>5. ASSUME NEW k \in 1 .. w, k - 1 \in S PROVE k \in S
  <2>1. z + k \in 1 .. m /\ (z + k) - 1 = z + (k - 1)
    BY <1>0
  <2>2. f[z + (k - 1)] = g[k - 1]
    BY <1>5
  <2>3. f[z + k] = c * f[z + (k - 1)] + b[z + k]
    BY <1>1, <2>1
  <2>4. g[k] = c * g[k - 1] + b[z + k]
    BY <1>0, <1>2
  <2> QED  BY <2>2, <2>3, <2>4
<1>6. w \in 0 .. w /\ \A k \in 0 .. w : k \in S
  <2> HIDE DEF S
  <2> QED  BY <1>4, <1>5, Upto
<1>7. f[z + w] = g[w]
  BY <1>6
<1> QED  BY <1>0, <1>7

-----------------------------------------------------------------------------
(* mpint_encode. *)

\* A number is the end of the run over its bytes.
LEMMA NumberIs ==
  ASSUME NEW m \in Nat, NEW b, Len(b) = m, \A i \in 1 .. m : b[i] \in Nat
  PROVE  \E f : Run(f, 256, b, m) /\ Number(b) = f[m]
<1>1. PICK f : f = CHOOSE g : Run(g, 256, b, m)
  OBVIOUS
<1>2. Run(f, 256, b, m)
  BY <1>1, RunExists
<1>3. Number(b) = f[m]
  BY <1>1, Zenon DEF Number, Run
<1> QED  BY <1>2, <1>3

\* Leading zeros do not count.
LEMMA NumberShifted ==
  ASSUME NEW m \in Nat, NEW b, Len(b) = m, NEW z \in Nat, NEW w \in Nat, NEW d, Len(d) = w, Behind(d, w, b, m, z)
  PROVE  Number(d) = Number(b)
<1>0. \A i \in 1 .. m : b[i] \in Nat
  BY DEF Behind
<1>1. PICK f : Run(f, 256, b, m) /\ Number(b) = f[m]
  BY <1>0, NumberIs
<1>2. \A i \in 1 .. w : z + i \in 1 .. m /\ d[i] = b[z + i]
  BY DEF Behind
<1>3. \A i \in 1 .. w : d[i] \in Nat
  BY <1>0, <1>2
<1>4. PICK g : Run(g, 256, d, w) /\ Number(d) = g[w]
  BY <1>3, NumberIs
<1>5. f[m] = g[w]
  <2>1. PICK c \in Nat : Run(f, c, b, m) /\ Run(g, c, d, w)
    BY <1>1, <1>4
  <2>2. \A u, v : Run(u, c, b, m) /\ Run(v, c, d, w) => u[m] = v[w]
    BY RunShifted
  <2> QED  BY <2>1, <2>2
<1> QED  BY <1>1, <1>4, <1>5

Bytes(b, m) == Len(b) = m /\ \A i \in 1 .. m : b[i] \in 0 .. 255

\* Where the number begins (transport.c 342-356).
LEMMA MpintForm ==
  ASSUME NEW m \in Nat, NEW b, Bytes(b, m)
  PROVE  \/ \A i \in 1 .. m : b[i] = 0
         \/ \E z \in 1 .. m :
              /\ b[z] # 0 /\ \A i \in 1 .. z - 1 : b[i] = 0
              /\ Key!mpint_encode(b) = IF b[z] >= 128 THEN <<0>> \o SubSeq(b, z, m)
                                       ELSE SubSeq(b, z, m)
<1> SUFFICES ASSUME NEW h \in 1 .. m, b[h] # 0
             PROVE  \E z \in 1 .. m :
                      /\ b[z] # 0 /\ \A i \in 1 .. z - 1 : b[i] = 0
                      /\ Key!mpint_encode(b) = IF b[z] >= 128 THEN <<0>> \o SubSeq(b, z, m)
                                               ELSE SubSeq(b, z, m)
  OBVIOUS
<1>1. PICK I : I = {i \in 1 .. m : b[i] # 0}
  OBVIOUS
<1>2. I \in SUBSET Nat /\ I # {}
  BY <1>1
<1>3. PICK z : z = CHOOSE x \in I : \A y \in I : x <= y
  OBVIOUS
<1>4. z \in I /\ \A y \in I : z <= y
  BY <1>2, <1>3, Least
<1>5. z \in 1 .. m /\ b[z] # 0
  BY <1>1, <1>4
<1>6. ASSUME NEW i \in 1 .. z - 1 PROVE b[i] = 0
  BY <1>1, <1>4, <1>5
<1>7. Key!mpint_encode(b) = IF b[z] >= 128 THEN <<0>> \o SubSeq(b, z, m) ELSE SubSeq(b, z, m)
  <2>0. Len(b) = m
    BY DEF Bytes
  <2>1. I = {i \in 1 .. Len(b) : b[i] # 0}
    BY <1>1, <2>0
  <2>2. Key!Min(I) = z
    BY <1>3, Zenon DEF Key!Min
  <2>3. Key!SelectInSeq(b, LAMBDA x : x # 0) = z
    BY <1>2, <2>1, <2>2, Zenon DEF Key!SelectInSeq
  <2>4. z # 0
    BY <1>5
  <2>5. Key!mpint_encode(b) = IF b[z] >= 128 THEN <<0>> \o SubSeq(b, z, Len(b))
                              ELSE SubSeq(b, z, Len(b))
    BY <2>3, <2>4, Zenon DEF Key!mpint_encode
  <2> QED  BY <2>0, <2>5
<1> QED  BY <1>5, <1>6, <1>7

\* A byte put in front.
LEMMA Prefixed ==
  ASSUME NEW T, NEW x \in T, NEW d \in Seq(T), NEW k, k = <<x>> \o d
  PROVE  /\ k \in Seq(T) /\ Len(k) = 1 + Len(d) /\ k[1] = x
         /\ \A i \in 1 .. Len(d) : k[1 + i] = d[i]
<1>1. PICK o : o = <<x>>
  OBVIOUS
<1>2. o \in Seq(T) /\ Len(o) = 1 /\ o[1] = x
  BY <1>1
<1>3. /\ k \in Seq(T) /\ Len(k) = Len(o) + Len(d)
      /\ \A i \in 1 .. Len(o) + Len(d) : k[i] = IF i <= Len(o) THEN o[i] ELSE d[i - Len(o)]
  BY <1>1, <1>2, ConcatProperties
<1>4. Len(d) \in Nat
  OBVIOUS
<1>5. ASSUME NEW i \in 1 .. Len(d) PROVE k[1 + i] = d[i]
  <2>1. 1 + i \in 1 .. Len(o) + Len(d) /\ ~(1 + i <= Len(o)) /\ (1 + i) - Len(o) = i
    BY <1>2, <1>4
  <2>2. k[1 + i] = d[(1 + i) - Len(o)]
    BY <1>3, <2>1
  <2> QED  BY <2>1, <2>2
<1> QED  BY <1>2, <1>3, <1>4, <1>5

\* The encoding keeps the value, its high bit is clear, and it cannot be shorter.
LEMMA MpintRight ==
  ASSUME NEW m \in Nat, NEW b, Bytes(b, m), Number(b) # 0,
         NEW k, k = Key!mpint_encode(b)
  PROVE  /\ Number(k) = Number(b) /\ k[1] < 128
         /\ k[1] = 0 => Len(k) > 1 /\ k[2] >= 128
<1>1. Len(b) = m /\ \A i \in 1 .. m : b[i] \in 0 .. 255 /\ b[i] \in Nat
  <2>1. Len(b) = m /\ \A i \in 1 .. m : b[i] \in 0 .. 255
    BY DEF Bytes
  <2>2. \A x \in 0 .. 255 : x \in Nat
    OBVIOUS
  <2> QED  BY <2>1, <2>2, Zenon
<1>2. ~(\A i \in 1 .. m : b[i] = 0)
  <2> SUFFICES ASSUME \A i \in 1 .. m : b[i] = 0 PROVE FALSE
    OBVIOUS
  <2>1. PICK e : e = <<>>
    OBVIOUS
  <2>2. Len(e) = 0 /\ Behind(e, 0, b, m, m)
    BY <1>1, <2>1 DEF Behind
  <2>3. Number(e) = Number(b)
    BY <1>1, <2>2, NumberShifted
  <2>4. PICK f : Run(f, 256, e, 0) /\ Number(e) = f[0]
    BY <2>2, NumberIs
  <2>5. f[0] = 0
    BY <2>4 DEF Run
  <2> QED  BY <2>3, <2>4, <2>5
<1>3. PICK z \in 1 .. m :
        /\ b[z] # 0 /\ \A i \in 1 .. z - 1 : b[i] = 0
        /\ k = IF b[z] >= 128 THEN <<0>> \o SubSeq(b, z, m) ELSE SubSeq(b, z, m)
  BY <1>2, MpintForm
<1>4. PICK d : d = SubSeq(b, z, m)
  OBVIOUS
<1>5. /\ d \in Seq(0 .. 255) /\ Len(d) = m - (z - 1)
      /\ \A i \in 1 .. m - (z - 1) : d[i] = b[(z - 1) + i]
  <2>1. \A i \in z .. m : b[i] \in 0 .. 255
    BY <1>1
  <2>2. /\ d \in Seq(0 .. 255) /\ Len(d) = m - z + 1
        /\ \A i \in 1 .. m - z + 1 : d[i] = b[z + i - 1]
    BY <1>4, <2>1, SubSeqProperties
  <2>3. m - (z - 1) = m - z + 1 /\ \A i \in 1 .. m - z + 1 : z + i - 1 = (z - 1) + i
    OBVIOUS
  <2> QED  BY <2>2, <2>3
<1>6. Number(d) = Number(b)
  <2>1. PICK y \in Nat, w \in Nat : y = z - 1 /\ w = m - (z - 1) /\ m = y + w
    OBVIOUS
  <2>2. Len(d) = w /\ Behind(d, w, b, m, y)
    BY <1>1, <1>3, <1>5, <2>1 DEF Behind
  <2> QED  BY <1>1, <2>1, <2>2, NumberShifted
<1>7. Len(d) \in Nat \ {0} /\ d[1] = b[z] /\ d[1] \in 1 .. 255
  <2>1. 1 \in 1 .. m - (z - 1) /\ (z - 1) + 1 = z
    OBVIOUS
  <2> QED  BY <1>1, <1>3, <1>5, <2>1
<1>8. CASE b[z] >= 128
  <2>1. k = <<0>> \o d
    BY <1>3, <1>4, <1>8
  <2>2. /\ Len(k) = 1 + Len(d) /\ k[1] = 0
        /\ \A i \in 1 .. Len(d) : k[1 + i] = d[i]
    <3>1. PICK T : T = 0 .. 255
      OBVIOUS
    <3>2. 0 \in T /\ d \in Seq(T)
      BY <1>5, <3>1
    <3> QED  BY <2>1, <3>2, Prefixed
  <2>3. PICK w \in Nat \ {0} : w = Len(d)
    BY <1>7
  <2>4. ASSUME NEW i \in 1 .. 1 + w PROVE k[i] \in Nat
    <3>1. \A h \in 1 .. w : d[h] \in Nat
      <4>1. \A h \in 1 .. w : (z - 1) + h \in 1 .. m /\ d[h] = b[(z - 1) + h]
        BY <1>5, <2>3
      <4> QED  BY <1>1, <4>1
    <3>2. CASE i = 1
      BY <2>2, <3>2
    <3>3. CASE i # 1
      <4>1. i - 1 \in 1 .. w /\ 1 + (i - 1) = i
        BY <3>3
      <4>2. k[1 + (i - 1)] = d[i - 1]
        BY <2>2, <2>3, <4>1
      <4> QED  BY <3>1, <4>1, <4>2
    <3> QED  BY <3>2, <3>3
  <2>5. Behind(d, w, k, 1 + w, 1)
    BY <2>2, <2>3, <2>4 DEF Behind
  <2>6. Number(d) = Number(k)
    <3>1. 1 + w \in Nat /\ 1 \in Nat /\ Len(k) = 1 + w /\ Len(d) = w
      BY <2>2, <2>3
    <3> QED  BY <2>4, <2>5, <3>1, NumberShifted
  <2>7. k[2] = d[1] /\ Len(k) > 1
    <3>1. 1 \in 1 .. Len(d) /\ 1 + 1 = 2
      BY <2>3
    <3>2. k[1 + 1] = d[1]
      BY <2>2, <3>1
    <3> QED  BY <2>2, <2>3, <3>2
  <2> QED  BY <1>6, <1>7, <1>8, <2>2, <2>6, <2>7
<1>9. CASE ~(b[z] >= 128)
  <2>1. k = d
    BY <1>3, <1>4, <1>9
  <2>2. k[1] < 128 /\ k[1] # 0
    <3>1. b[z] \in 0 .. 255 /\ k[1] = b[z] /\ ~(b[z] >= 128) /\ b[z] # 0
      BY <1>1, <1>3, <1>7, <1>9, <2>1
    <3>2. PICK x \in 0 .. 255 : x = b[z]
      BY <3>1
    <3> QED  BY <3>1, <3>2
  <2> QED  BY <1>6, <2>1, <2>2
<1> QED  BY <1>8, <1>9

-----------------------------------------------------------------------------
(* derive_key.                                                             *)

\* A turn of its loop, and the function its turns are.
Extended(s, k, h, x, size) ==
  LET d    == <<Len(k), k, h, x, s.last>>
      left == (size - s.got) % 256
      take == IF left > DigestLen THEN DigestLen ELSE left
  IN IF s.got = size THEN s
     ELSE [got |-> s.got + take, last |-> d, out |-> Append(s.out, <<d, take>>)]
Turns(f, k, h, x, sid, size) ==
  f = [j \in 0 .. size \div DigestLen + 1 |->
         IF j = 0 THEN [got |-> 0, last |-> sid, out |-> <<>>]
         ELSE Extended(f[j - 1], k, h, x, size)]

\* The turns exist as a function.
LEMMA TurnsExist ==
  ASSUME NEW k, NEW h, NEW x, NEW sid, NEW size, NEW m \in Nat, m = size \div DigestLen + 1
  PROVE  \E f : Turns(f, k, h, x, sid, size)
<1> DEFINE Right(f, q) == /\ f[0] = [got |-> 0, last |-> sid, out |-> <<>>]
                          /\ \A j \in 1 .. q : f[j] = Extended(f[j - 1], k, h, x, size)
           S == {q \in 0 .. m : \E f : Right(f, q)}
<1>1. 0 \in S
  <2>1. PICK f : f = [j \in 0 .. 0 |-> [got |-> 0, last |-> sid, out |-> <<>>]]
    OBVIOUS
  <2>2. Right(f, 0)
    BY <2>1
  <2>3. 0 \in 0 .. m
    OBVIOUS
  <2> HIDE DEF Right
  <2> QED  BY <2>2, <2>3
<1>2. ASSUME NEW q \in 1 .. m, q - 1 \in S PROVE q \in S
  <2>1. PICK f : Right(f, q - 1)
    BY <1>2
  <2>2. PICK g : g = [j \in 0 .. q |-> IF j = q THEN Extended(f[q - 1], k, h, x, size) ELSE f[j]]
    OBVIOUS
  <2>3. g[q] = Extended(f[q - 1], k, h, x, size) /\ \A j \in 0 .. q - 1 : g[j] = f[j]
    BY <2>2
  <2>4. ASSUME NEW j \in 1 .. q PROVE g[j] = Extended(g[j - 1], k, h, x, size)
    <3>1. CASE j = q
      <4>1. g[q - 1] = f[q - 1]
        BY <2>3
      <4> QED  BY <2>3, <3>1, <4>1
    <3>2. CASE j # q
      <4>1. j \in 1 .. q - 1 /\ j \in 0 .. q - 1 /\ j - 1 \in 0 .. q - 1
        BY <3>2
      <4>2. f[j] = Extended(f[j - 1], k, h, x, size)
        BY <2>1, <4>1
      <4> QED  BY <2>3, <4>1, <4>2
    <3> QED  BY <3>1, <3>2
  <2>5. g[0] = f[0]
    BY <2>3
  <2>6. Right(g, q)
    BY <2>1, <2>4, <2>5
  <2>7. q \in 0 .. m
    OBVIOUS
  <2> HIDE DEF Right
  <2> QED  BY <2>6, <2>7
<1>3. m \in S
  <2> HIDE DEF S
  <2>1. m \in 0 .. m /\ \A q \in 0 .. m : q \in S
    BY <1>1, <1>2, Upto
  <2> QED  BY <2>1
<1>4. PICK f : Right(f, m)
  BY <1>3
<1>5. PICK g : g = [j \in 0 .. m |-> f[j]]
  OBVIOUS
<1>6. \A j \in 0 .. m : f[j] = IF j = 0 THEN [got |-> 0, last |-> sid, out |-> <<>>]
                               ELSE Extended(g[j - 1], k, h, x, size)
  <2>1. ASSUME NEW j \in 1 .. m PROVE f[j] = Extended(g[j - 1], k, h, x, size)
    <3>1. j - 1 \in 0 .. m
      OBVIOUS
    <3>2. g[j - 1] = f[j - 1]
      BY <1>5, <3>1
    <3> QED  BY <1>4, <3>2
  <2>2. \A j \in 0 .. m : j = 0 \/ j \in 1 .. m
    OBVIOUS
  <2> QED  BY <1>4, <2>1, <2>2
<1>7. [j \in 0 .. m |-> f[j]]
        = [j \in 0 .. m |-> IF j = 0 THEN [got |-> 0, last |-> sid, out |-> <<>>]
                            ELSE Extended(g[j - 1], k, h, x, size)]
  BY <1>6
<1> QED  BY <1>5, <1>7 DEF Turns

\* Enough turns.
LEMMA EnoughTurns ==
  ASSUME NEW size \in Nat, NEW d \in Nat \ {0}
  PROVE  size \div d \in Nat /\ (size \div d + 1) * d > size
<1>1. PICK q \in Nat, r \in 0 .. d - 1 : q = size \div d /\ size = d * q + r
  OBVIOUS
<1>2. (q + 1) * d = d * q + d
  OBVIOUS
<1> QED  BY <1>1, <1>2

\* The pieces, in order, make up v bytes.
Partial(f, pieces, v) ==
  /\ f[0] = 0 /\ f[Len(pieces)] = v
  /\ \A i \in 1 .. Len(pieces) : f[i] = f[i - 1] + pieces[i][2]
Chained(s, sid) ==
  /\ \A i \in 1 .. Len(s.out) - 1 : s.out[i + 1][1][5] = s.out[i][1]
  /\ s.last = IF Len(s.out) = 0 THEN sid ELSE s.out[Len(s.out)][1]

\* After j turns.
KeyInv(s, j, k, h, x, sid, size) ==
  /\ s.got \in 0 .. size /\ (s.got = size \/ s.got = j * DigestLen)
  /\ \E T : s.out \in Seq(T)
  /\ \E f : Partial(f, s.out, s.got)
  /\ Chained(s, sid)
  /\ j = 0 => s.got = 0 /\ Len(s.out) = 0
  /\ j # 0 /\ size <= DigestLen =>
       s.got = size /\ s.out = <<<<<<Len(k), k, h, x, sid>>, size>>>>

\* e is put behind m pieces.
OneMore(pieces, more, e, m) ==
  /\ m \in Nat /\ m = Len(pieces) /\ \E U : more \in Seq(U)
  /\ Len(more) = m + 1 /\ more[m + 1] = e
  /\ \A i \in 1 .. m : more[i] = pieces[i]
\* That is what Append does.
LEMMA PieceMore ==
  ASSUME NEW T, NEW pieces \in Seq(T), NEW e
  PROVE  OneMore(pieces, Append(pieces, e), e, Len(pieces))
<1>0. PICK m, more : m = Len(pieces) /\ more = Append(pieces, e)
  OBVIOUS
<1>1. PICK U : U = T \cup {e}
  OBVIOUS
<1>2. m \in Nat /\ \A i \in 1 .. m : pieces[i] \in T
  BY <1>0
<1>3. pieces = [i \in 1 .. m |-> pieces[i]]
  BY <1>0
<1>4. pieces \in Seq(U) /\ e \in U
  <2>1. pieces \in [1 .. m -> U]
    BY <1>1, <1>2, <1>3
  <2> QED  BY <1>1, <1>2, <2>1
<1>5. more \in Seq(U) /\ Len(more) = m + 1
  BY <1>0, <1>4
<1>6. more[m + 1] = e /\ \A i \in 1 .. m : more[i] = pieces[i]
  BY <1>0, <1>2, <1>4
<1> QED  BY <1>0, <1>2, <1>5, <1>6 DEF OneMore

\* With a piece more the sum is that much more.
LEMMA PartialMore ==
  ASSUME NEW f, NEW pieces, NEW more, NEW e, NEW m \in Nat, NEW v, NEW take, take = e[2],
         Partial(f, pieces, v), OneMore(pieces, more, e, m)
  PROVE  \E g : Partial(g, more, v + take)
<1>1. /\ f[0] = 0 /\ f[m] = v /\ m \in Nat
      /\ \A i \in 1 .. m : f[i] = f[i - 1] + pieces[i][2]
      /\ Len(more) = m + 1 /\ more[m + 1][2] = take
      /\ \A i \in 1 .. m : more[i] = pieces[i]
  BY DEF Partial, OneMore
<1>2. PICK g : g = [i \in 0 .. m + 1 |-> IF i <= m THEN f[i] ELSE v + take]
  OBVIOUS
<1>3. g[m + 1] = v + take /\ \A i \in 0 .. m : g[i] = f[i]
  BY <1>2
<1>4. ASSUME NEW i \in 1 .. m + 1 PROVE g[i] = g[i - 1] + more[i][2]
  <2>1. CASE i <= m
    <3>1. i \in 1 .. m /\ i \in 0 .. m /\ i - 1 \in 0 .. m
      BY <2>1
    <3>2. f[i] = f[i - 1] + pieces[i][2]
      BY <1>1, <3>1
    <3> QED  BY <1>1, <1>3, <3>1, <3>2
  <2>2. CASE i = m + 1
    <3>1. i - 1 = m /\ m \in 0 .. m
      BY <2>2
    <3>2. g[i - 1] = v
      BY <1>1, <1>3, <3>1
    <3> QED  BY <1>1, <1>3, <2>2, <3>2
  <2>3. i <= m \/ i = m + 1
    OBVIOUS
  <2> QED  BY <2>1, <2>2, <2>3
<1>5. g[0] = 0
  BY <1>1, <1>3
<1> QED  BY <1>1, <1>3, <1>4, <1>5 DEF Partial

\* A turn keeps the invariant: a digest, and as much of it as is still wanted.
LEMMA KeyStep ==
  ASSUME NEW k, NEW h, NEW x, NEW sid, NEW size \in 1 .. 255, NEW j \in Nat \ {0},
         NEW s, KeyInv(s, j - 1, k, h, x, sid, size),
         NEW t, t = Extended(s, k, h, x, size)
  PROVE  KeyInv(t, j, k, h, x, sid, size)
<1>0. DigestLen \in 1 .. 255
  BY FormatsAssumption
<1>1. /\ s.got \in 0 .. size /\ (s.got = size \/ s.got = (j - 1) * DigestLen)
      /\ Chained(s, sid)
      /\ j - 1 = 0 => s.got = 0 /\ Len(s.out) = 0
      /\ j - 1 # 0 /\ size <= DigestLen =>
           s.got = size /\ s.out = <<<<<<Len(k), k, h, x, sid>>, size>>>>
  BY DEF KeyInv
<1>2. PICK T, f : s.out \in Seq(T) /\ Partial(f, s.out, s.got)
  BY DEF KeyInv
<1>3. CASE s.got = size
  <2>1. t = s
    BY <1>3 DEF Extended
  <2>2. j - 1 # 0
    <3>1. s.got # 0
      BY <1>3
    <3> QED  BY <1>1, <3>1
  <2> QED  BY <1>1, <1>2, <1>3, <2>1, <2>2 DEF KeyInv
<1>4. CASE s.got # size
  <2>1. PICK left \in 1 .. 255 : left = size - s.got /\ left = (size - s.got) % 256
    <3>1. PICK b \in 0 .. size : b = s.got
      BY <1>1
    <3>2. b # size
      BY <1>4, <3>1
    <3>3. size - b \in 1 .. 255
      BY <3>2
    <3>4. \A y \in 1 .. 255 : y % 256 = y
      OBVIOUS
    <3>5. (size - b) % 256 = size - b
      BY <3>3, <3>4
    <3>6. PICK y \in 1 .. 255 : y = size - b /\ y = (size - b) % 256
      BY <3>3, <3>5
    <3> QED  BY <3>1, <3>6
  <2>2. PICK take : take = IF left > DigestLen THEN DigestLen ELSE left
    OBVIOUS
  <2>3. take \in 1 .. 255 /\ take <= left
    BY <1>0, <2>2
  <2>4. PICK d : d = <<Len(k), k, h, x, s.last>>
    OBVIOUS
  <2>5. t = [got |-> s.got + take, last |-> d, out |-> Append(s.out, <<d, take>>)]
    BY <1>4, <2>1, <2>2, <2>4 DEF Extended
  <2>6. t.got = s.got + take /\ t.last = d /\ t.out = Append(s.out, <<d, take>>)
    BY <2>5
  <2>7. PICK m, e : m = Len(s.out) /\ e = <<d, take>>
    OBVIOUS
  <2>71. OneMore(s.out, t.out, e, m)
    BY <1>2, <2>6, <2>7, PieceMore
  <2>8. /\ m \in Nat /\ \E U : t.out \in Seq(U)
        /\ Len(t.out) = m + 1 /\ t.out[m + 1] = <<d, take>>
        /\ \A i \in 1 .. m : t.out[i] = s.out[i]
    BY <2>7, <2>71 DEF OneMore
  <2>9. t.got \in 0 .. size /\ (t.got = size \/ t.got = j * DigestLen)
    <3>1. CASE left > DigestLen
      <4>0. PICK b \in 0 .. size : b = s.got /\ b = (j - 1) * DigestLen
        BY <1>1, <1>4
      <4>1. t.got = (j - 1) * DigestLen + DigestLen /\ t.got \in 0 .. size
        <5>1. take = DigestLen /\ left = size - b /\ t.got = b + take
          BY <2>1, <2>2, <2>6, <3>1, <4>0
        <5>2. b + DigestLen \in 0 .. size
          BY <1>0, <3>1, <5>1
        <5> QED  BY <4>0, <5>1, <5>2
      <4>2. (j - 1) * DigestLen + DigestLen = j * DigestLen
        BY <1>0
      <4> QED  BY <4>1, <4>2
    <3>2. CASE ~(left > DigestLen)
      BY <1>1, <2>1, <2>2, <2>6, <3>2
    <3> QED  BY <3>1, <3>2
  <2>10. \E g : Partial(g, t.out, t.got)
    <3>0. m \in Nat
      BY <2>8
    <3>1. take = e[2] /\ t.got = s.got + take
      BY <2>6, <2>7
    <3>2. PICK v : v = s.got /\ Partial(f, s.out, v)
      BY <1>2
    <3>3. \E g : Partial(g, t.out, v + take)
      BY <2>71, <3>0, <3>1, <3>2, PartialMore
    <3>4. v + take = t.got
      BY <3>1, <3>2
    <3> QED  BY <3>3, <3>4, Zenon
  <2>11. Chained(t, sid)
    <3>1. t.last = t.out[Len(t.out)][1] /\ Len(t.out) # 0
      BY <2>6, <2>8
    <3>2. ASSUME NEW i \in 1 .. m PROVE t.out[i + 1][1][5] = t.out[i][1]
      <4>1. CASE i = m
        <5>1. t.out[m + 1][1][5] = s.last
          BY <2>4, <2>8
        <5>2. s.last = s.out[m][1] /\ t.out[m] = s.out[m]
          BY <1>1, <2>7, <2>8, <3>2, <4>1 DEF Chained
        <5> QED  BY <4>1, <5>1, <5>2
      <4>2. CASE i # m
        <5>1. i \in 1 .. m - 1 /\ i + 1 \in 1 .. m
          BY <2>8, <4>2
        <5>2. s.out[i + 1][1][5] = s.out[i][1]
          BY <1>1, <2>7, <5>1 DEF Chained
        <5> QED  BY <2>8, <5>1, <5>2
      <4> QED  BY <4>1, <4>2
    <3>3. Len(t.out) - 1 = m
      BY <2>8
    <3> QED  BY <3>1, <3>2, <3>3 DEF Chained
  <2>12. ASSUME size <= DigestLen
         PROVE  t.got = size /\ t.out = <<<<<<Len(k), k, h, x, sid>>, size>>>>
    <3>1. j - 1 = 0
      BY <1>1, <1>4, <2>12
    <3>2. s.got = 0 /\ m = 0 /\ s.last = sid
      BY <1>1, <2>7, <3>1 DEF Chained
    <3>3. left = size /\ take = size
      BY <1>0, <2>1, <2>2, <2>12, <3>2
    <3>4. s.out = <<>>
      <4>1. PICK b \in Seq(T) : b = s.out /\ Len(b) = 0
        BY <1>2, <2>7, <3>2
      <4>2. b = <<>>
        BY <4>1, EmptySeq
      <4> QED  BY <4>1, <4>2
    <3>5. t.out = <<<<d, size>>>>
      <4>1. e = <<d, size>>
        BY <2>7, <3>3
      <4>2. t.out = Append(<<>>, e)
        BY <2>6, <2>7, <3>4
      <4> QED  BY <4>1, <4>2
    <3>6. t.got = size
      BY <2>6, <3>2, <3>3
    <3>7. d = <<Len(k), k, h, x, sid>>
      BY <2>4, <3>2
    <3> QED  BY <3>5, <3>6, <3>7
  <2> QED  BY <2>8, <2>9, <2>10, <2>11, <2>12 DEF KeyInv
<1> QED  BY <1>3, <1>4


\* What derive_key returns (transport.c 358-394).
Derived(key, k, h, x, sid, size) ==
  /\ Len(key) \in Nat /\ \E f : Partial(f, key, size)
  /\ \A i \in 1 .. Len(key) - 1 : key[i + 1][1][5] = key[i][1]
  /\ size <= DigestLen => key = <<<<<<Len(k), k, h, x, sid>>, size>>>>
\* Its turns suffice, and add up to the size.
LEMMA DeriveRight ==
  ASSUME NEW k, NEW h, NEW x, NEW sid, NEW size \in 1 .. 255
  PROVE  Derived(Key!derive_key(k, h, x, sid, size), k, h, x, sid, size)
<1>0. DigestLen \in 1 .. 255
  BY FormatsAssumption
<1>1. PICK m \in Nat \ {0} : m = size \div DigestLen + 1
  BY <1>0
<1>2. PICK f : f = CHOOSE g : Turns(g, k, h, x, sid, size)
  OBVIOUS
<1>3. Turns(f, k, h, x, sid, size)
  BY <1>1, <1>2, TurnsExist
<1>4. Key!derive_key(k, h, x, sid, size) = f[size \div DigestLen + 1].out
  BY <1>2, Zenon DEF Key!derive_key, Turns, Extended
<1>5. /\ f[0] = [got |-> 0, last |-> sid, out |-> <<>>]
      /\ \A q \in 1 .. m : f[q] = Extended(f[q - 1], k, h, x, size)
  BY <1>1, <1>3 DEF Turns
<1> DEFINE S == {q \in 0 .. m : KeyInv(f[q], q, k, h, x, sid, size)}
<1>6. 0 \in S
  <2>1. PICK s : s = f[0] /\ s = [got |-> 0, last |-> sid, out |-> <<>>]
    BY <1>5
  <2>2. s.got = 0 /\ s.last = sid /\ s.out = <<>> /\ Len(s.out) = 0
    BY <2>1
  <2>3. PICK g : g = [i \in 0 .. 0 |-> 0]
    OBVIOUS
  <2>4. Partial(g, s.out, s.got)
    BY <2>2, <2>3 DEF Partial
  <2>5. Chained(s, sid)
    BY <2>2 DEF Chained
  <2>6. s.out \in Seq({})
    BY <2>2
  <2>7. /\ \E T : s.out \in Seq(T)
        /\ \E a : Partial(a, s.out, s.got)
    BY <2>4, <2>6
  <2>8. s.got \in 0 .. size /\ s.got = 0 * DigestLen
    BY <1>0, <2>2
  <2>9. KeyInv(s, 0, k, h, x, sid, size)
    BY <2>2, <2>5, <2>7, <2>8, Zenon DEF KeyInv
  <2>10. KeyInv(f[0], 0, k, h, x, sid, size) /\ 0 \in 0 .. m
    BY <2>1, <2>9
  <2> QED  BY <2>10
<1>7. ASSUME NEW q \in 1 .. m, q - 1 \in S PROVE q \in S
  <2>1. KeyInv(f[q - 1], q - 1, k, h, x, sid, size)
    BY <1>7
  <2>2. q \in Nat \ {0} /\ q \in 0 .. m
    OBVIOUS
  <2>3. KeyInv(f[q], q, k, h, x, sid, size)
    BY <1>5, <2>1, <2>2, KeyStep
  <2> QED  BY <2>2, <2>3
<1>8. m \in S
  <2> HIDE DEF S
  <2>1. m \in 0 .. m /\ \A q \in 0 .. m : q \in S
    BY <1>6, <1>7, Upto
  <2> QED  BY <2>1
<1>9. PICK s : s = f[m] /\ KeyInv(s, m, k, h, x, sid, size)
  BY <1>8
<1>10. s.got = size
  <2>1. m * DigestLen > size
    BY <1>0, <1>1, EnoughTurns
  <2>2. s.got \in 0 .. size /\ (s.got = size \/ s.got = m * DigestLen)
    BY <1>9 DEF KeyInv
  <2> QED  BY <1>0, <2>1, <2>2
<1>11. PICK key : key = s.out /\ key = Key!derive_key(k, h, x, sid, size)
  BY <1>1, <1>4, <1>9
<1>12. Len(key) \in Nat /\ \E g : Partial(g, key, size)
  <2>1. PICK T, g : s.out \in Seq(T) /\ Partial(g, s.out, s.got)
    BY <1>9 DEF KeyInv
  <2>2. key \in Seq(T) /\ Partial(g, key, size)
    BY <1>10, <1>11, <2>1
  <2> QED  BY <2>2
<1>13. \A i \in 1 .. Len(key) - 1 : key[i + 1][1][5] = key[i][1]
  BY <1>9, <1>11 DEF KeyInv, Chained
<1>14. size <= DigestLen => key = <<<<<<Len(k), k, h, x, sid>>, size>>>>
  BY <1>1, <1>9, <1>11 DEF KeyInv
<1> QED  BY <1>11, <1>12, <1>13, <1>14 DEF Derived

\* The function KeyMaterial adds the pieces up with.
Sums(f, key) == f = [i \in 0 .. Len(key) |-> IF i = 0 THEN 0 ELSE f[i - 1] + key[i][2]]
Summed(key) == (CHOOSE f : Sums(f, key))[Len(key)]
\* It is the sum of the pieces.
LEMMA SumRight ==
  ASSUME NEW key, Len(key) \in Nat, NEW f, NEW v, Partial(f, key, v)
  PROVE  Summed(key) = v
<1>1. PICK m \in Nat : m = Len(key)
  OBVIOUS
<1>2. f[0] = 0 /\ f[m] = v /\ \A i \in 1 .. m : f[i] = f[i - 1] + key[i][2]
  BY <1>1 DEF Partial
<1>3. PICK g : g = [i \in 0 .. m |-> f[i]]
  OBVIOUS
<1>4. \A i \in 0 .. m : f[i] = IF i = 0 THEN 0 ELSE g[i - 1] + key[i][2]
  <2>1. ASSUME NEW i \in 1 .. m PROVE f[i] = g[i - 1] + key[i][2]
    <3>1. i - 1 \in 0 .. m
      OBVIOUS
    <3>2. g[i - 1] = f[i - 1]
      BY <1>3, <3>1
    <3> QED  BY <1>2, <3>2
  <2>2. \A i \in 0 .. m : i = 0 \/ i \in 1 .. m
    OBVIOUS
  <2> QED  BY <1>2, <2>1, <2>2
<1>5. [i \in 0 .. m |-> f[i]] = [i \in 0 .. m |-> IF i = 0 THEN 0 ELSE g[i - 1] + key[i][2]]
  BY <1>4
<1>6. Sums(g, key)
  BY <1>1, <1>3, <1>5 DEF Sums
<1>7. PICK a : a = CHOOSE b : Sums(b, key)
  OBVIOUS
<1>8. Sums(a, key)
  BY <1>6, <1>7, Zenon
<1>9. a[0] = 0 /\ \A i \in 1 .. m : a[i] = a[i - 1] + key[i][2]
  BY <1>1, <1>8 DEF Sums
<1> DEFINE S == {i \in 0 .. m : a[i] = f[i]}
<1>10. 0 \in S
  BY <1>2, <1>9
<1>11. ASSUME NEW i \in 1 .. m, i - 1 \in S PROVE i \in S
  BY <1>2, <1>9, <1>11
<1>12. m \in S
  <2> HIDE DEF S
  <2>1. m \in 0 .. m /\ \A i \in 0 .. m : i \in S
    BY <1>10, <1>11, Upto, SMTT(60)
  <2> QED  BY <2>1
<1>13. a[m] = v
  BY <1>2, <1>12
<1> QED  BY <1>1, <1>7, <1>13 DEF Summed

\* The key KeyMaterial looks at.
KeyOf(size) == Key!derive_key(<<1>>, "H", "A", "session_id", size)

\* A secret goes into the hash as its shortest non-negative mpint, and a key has the
\* length asked for, each of its digests hashing the one before (transport.c 342-394).
THEOREM KeyMaterialRight == StreamSpec => []KeyMaterial
<1>1. ASSUME NEW m \in Nat, NEW s \in [1 .. m -> SecretBytes] PROVE Bytes(s, m)
  <2>1. s \in Seq(SecretBytes) /\ Len(s) = m
    BY LenProperties
  <2>2. SecretBytes \subseteq 0 .. 255
    BY FormatsAssumption, Zenon
  <2>3. \A i \in 1 .. m : s[i] \in 0 .. 255
    BY <2>2
  <2> QED  BY <2>1, <2>3 DEF Bytes
<1> DEFINE Whole(key, size) ==
             /\ Summed(key) = size
             /\ size <= DigestLen => key = <<<<<<1, <<1>>, "H", "A", "session_id">>, size>>>>
             /\ \A i \in 1 .. Len(key) - 1 : key[i + 1][1][5] = key[i][1]
<1>2. ASSUME NEW size \in 1 .. 255, NEW key, key = KeyOf(size)
      PROVE  Whole(key, size)
  <2>1. PICK k : k = <<1>>
    OBVIOUS
  <2>2. Derived(key, k, "H", "A", "session_id", size)
    BY <1>2, <2>1, DeriveRight DEF KeyOf
  <2>3. PICK f : Len(key) \in Nat /\ Partial(f, key, size)
    BY <2>2 DEF Derived
  <2>4. Summed(key) = size
    BY <2>3, SumRight
  <2>5. Len(k) = 1
    BY <2>1
  <2> QED  BY <2>1, <2>2, <2>4, <2>5 DEF Derived
<1>3. ASSUME n \in Nat \ {0} PROVE KeyMaterial
  <2>1. ASSUME NEW s \in [1 .. n -> SecretBytes], Number(s) # 0
        PROVE  /\ Number(Key!mpint_encode(s)) = Number(s) /\ Key!mpint_encode(s)[1] < 128
               /\ Key!mpint_encode(s)[1] = 0 =>
                    Len(Key!mpint_encode(s)) > 1 /\ Key!mpint_encode(s)[2] >= 128
    BY <1>1, <1>3, <2>1, MpintRight
  <2>2. ASSUME n < 256
        PROVE  Whole(KeyOf(n), n)
    <3>1. n \in 1 .. 255
      BY <1>3, <2>2
    <3> HIDE DEF Whole
    <3> QED  BY <1>2, <3>1, Zenon
  <2>3. Fresh /\ n = SecretLen =>
          \A s \in [1 .. n -> SecretBytes] :
            LET k == Key!mpint_encode(s) IN
            Number(s) # 0 =>
              /\ Number(k) = Number(s) /\ k[1] < 128
              /\ k[1] = 0 => Len(k) > 1 /\ k[2] >= 128
    BY <2>1, Zenon
  <2>4. Fresh /\ n < 256 =>
          LET key == Key!derive_key(<<1>>, "H", "A", "session_id", n)
              sum[i \in 0 .. Len(key)] == IF i = 0 THEN 0 ELSE sum[i - 1] + key[i][2]
          IN /\ sum[Len(key)] = n
             /\ n <= DigestLen => key = <<<<<<1, <<1>>, "H", "A", "session_id">>, n>>>>
             /\ \A i \in 1 .. Len(key) - 1 : key[i + 1][1][5] = key[i][1]
    BY <2>2, Zenon DEF Summed, Sums, KeyOf
  <2> QED  BY <2>3, <2>4, Zenon DEF KeyMaterial
<1> QED  BY <1>3, SizesAreNatural, PTL

-----------------------------------------------------------------------------
(* out_print: what the loop collects, character by character.              *)

Chars == {"a", "b", "LF", "CR", "ESC"}
Shown(d, i) == IF d[i] \in {"CR", "ESC"} THEN <<>> ELSE <<d[i]>>
Shows(f, d) ==
  f = [i \in 0 .. Len(d) |-> IF i = 0 THEN <<>> ELSE f[i - 1] \o Shown(d, i)]
\* What of d can be shown, character by character.
Showing(f, d, m) ==
  /\ Len(d) = m /\ Visible(d) = f[m]
  /\ f[0] = <<>> /\ \A i \in 0 .. m : f[i] \in Seq(Chars)
  /\ \A i \in 1 .. m : f[i] = f[i - 1] \o Shown(d, i)

\* Visible goes through d character by character.
LEMMA VisibleSteps ==
  ASSUME NEW d \in Seq(Chars), NEW m, m = Len(d)
  PROVE  \E f : Showing(f, d, m)
<1>1. m \in Nat /\ \A i \in 1 .. m : d[i] \in Chars
  BY LenProperties
<1>2. PICK step : step = [p \in Seq(Chars) \X (1 .. m) |-> p[1] \o Shown(d, p[2])]
  OBVIOUS
<1>3. ASSUME NEW s \in Seq(Chars), NEW i \in 1 .. m
      PROVE  s \o Shown(d, i) \in Seq(Chars)
  <2>1. Shown(d, i) \in Seq(Chars)
    BY <1>1 DEF Shown
  <2> QED  BY <2>1, ConcatProperties
<1>4. step \in [Seq(Chars) \X (1 .. m) -> Seq(Chars)]
  BY <1>2, <1>3
<1>5. <<>> \in Seq(Chars)
  OBVIOUS
<1>6. PICK f : Folded(f, m, Seq(Chars), <<>>, step)
  BY <1>1, <1>4, <1>5, FoldExists
<1>7. f \in [0 .. m -> Seq(Chars)]
  BY <1>6, Zenon DEF Folded
<1>8. ASSUME NEW i \in 1 .. m PROVE step[<<f[i - 1], i>>] = f[i - 1] \o Shown(d, i)
  <2>1. i - 1 \in 0 .. m
    BY <1>1
  <2>2. f[i - 1] \in Seq(Chars)
    BY <2>1, <1>7
  <2> QED  BY <1>2, <2>2
<1>9. [i \in 0 .. m |-> IF i = 0 THEN <<>> ELSE step[<<f[i - 1], i>>]]
        = [i \in 0 .. m |-> IF i = 0 THEN <<>> ELSE f[i - 1] \o Shown(d, i)]
  <2>1. \A i \in 0 .. m : i = 0 \/ i \in 1 .. m
    BY <1>1
  <2> QED  BY <1>8, <2>1
<1>10. \E g : Shows(g, d)
  <2>1. f = [i \in 0 .. m |-> IF i = 0 THEN <<>> ELSE f[i - 1] \o Shown(d, i)]
    BY <1>6, <1>9, Zenon DEF Folded
  <2> QED  BY <2>1, Zenon DEF Shows
<1>11. PICK g : g = CHOOSE h : Shows(h, d)
  OBVIOUS
<1>12. Shows(g, d)
  BY <1>10, <1>11, Zenon
<1>13. Visible(d) = g[m]
  BY <1>11, Zenon DEF Visible, Shows, Shown
<1>14. PICK e : e = <<>> /\ e \in Seq(Chars)
  BY <1>5
<1>15. g[0] = e /\ \A i \in 1 .. m : g[i] = g[i - 1] \o Shown(d, i)
  <2>1. g = [i \in 0 .. m |-> IF i = 0 THEN e ELSE g[i - 1] \o Shown(d, i)]
    BY <1>12, <1>14, Zenon DEF Shows
  <2>2. ASSUME NEW i \in 1 .. m PROVE g[i] = g[i - 1] \o Shown(d, i)
    <3>1. i \in 0 .. m /\ i # 0
      BY <1>1
    <3> QED  BY <2>1, <3>1
  <2>3. 0 \in 0 .. m
    BY <1>1
  <2>4. g[0] = e
    BY <2>1, <2>3
  <2> QED  BY <2>2, <2>4
<1> DEFINE T == {i \in 0 .. m : g[i] \in Seq(Chars)}
<1>16. 0 \in T
  <2>1. g[0] \in Seq(Chars)
    BY <1>14, <1>15
  <2> QED  BY <1>1, <2>1
<1>17. ASSUME NEW i \in 1 .. m, i - 1 \in T PROVE i \in T
  <2>1. g[i - 1] \in Seq(Chars) /\ g[i] = g[i - 1] \o Shown(d, i)
    BY <1>15, <1>17
  <2>2. g[i] \in Seq(Chars)
    BY <1>3, <2>1
  <2> QED  BY <1>1, <2>2
<1>18. \A i \in 0 .. m : i \in T
  <2> HIDE DEF T
  <2> QED  BY <1>1, <1>16, <1>17, Upto
<1> QED  BY <1>13, <1>14, <1>15, <1>18 DEF Showing

Short(v, i) == v[i] = "LF" \/ i <= LineMax \/ \E j \in i - LineMax .. i - 1 : v[j] = "LF"
Kept(v, i) == IF Short(v, i) THEN <<v[i]>> ELSE <<>>
Clips(f, v) ==
  f = [i \in 0 .. Len(v) |-> IF i = 0 THEN <<>> ELSE f[i - 1] \o Kept(v, i)]
\* What of v is left, character by character.
Clipping(f, v, m) ==
  /\ Len(v) = m /\ Clipped(v) = f[m]
  /\ f[0] = <<>> /\ \A i \in 0 .. m : f[i] \in Seq(Chars)
  /\ \A i \in 1 .. m : f[i] = f[i - 1] \o Kept(v, i)

\* So does Clipped.
LEMMA ClippedSteps ==
  ASSUME NEW d \in Seq(Chars), NEW m, m = Len(d)
  PROVE  \E f : Clipping(f, d, m)
<1>1. m \in Nat /\ \A i \in 1 .. m : d[i] \in Chars
  BY LenProperties
<1>2. PICK step : step = [p \in Seq(Chars) \X (1 .. m) |-> p[1] \o Kept(d, p[2])]
  OBVIOUS
<1>3. ASSUME NEW s \in Seq(Chars), NEW i \in 1 .. m
      PROVE  s \o Kept(d, i) \in Seq(Chars)
  <2>1. Kept(d, i) \in Seq(Chars)
    BY <1>1 DEF Kept
  <2> QED  BY <2>1, ConcatProperties
<1>4. step \in [Seq(Chars) \X (1 .. m) -> Seq(Chars)]
  BY <1>2, <1>3
<1>5. <<>> \in Seq(Chars)
  OBVIOUS
<1>6. PICK f : Folded(f, m, Seq(Chars), <<>>, step)
  BY <1>1, <1>4, <1>5, FoldExists
<1>7. f \in [0 .. m -> Seq(Chars)]
  BY <1>6, Zenon DEF Folded
<1>8. ASSUME NEW i \in 1 .. m PROVE step[<<f[i - 1], i>>] = f[i - 1] \o Kept(d, i)
  <2>1. i - 1 \in 0 .. m
    BY <1>1
  <2>2. f[i - 1] \in Seq(Chars)
    BY <2>1, <1>7
  <2> QED  BY <1>2, <2>2
<1>9. [i \in 0 .. m |-> IF i = 0 THEN <<>> ELSE step[<<f[i - 1], i>>]]
        = [i \in 0 .. m |-> IF i = 0 THEN <<>> ELSE f[i - 1] \o Kept(d, i)]
  <2>1. \A i \in 0 .. m : i = 0 \/ i \in 1 .. m
    BY <1>1
  <2> QED  BY <1>8, <2>1
<1>10. \E g : Clips(g, d)
  <2>1. f = [i \in 0 .. m |-> IF i = 0 THEN <<>> ELSE f[i - 1] \o Kept(d, i)]
    BY <1>6, <1>9, Zenon DEF Folded
  <2> QED  BY <2>1, Zenon DEF Clips
<1>11. PICK g : g = CHOOSE h : Clips(h, d)
  OBVIOUS
<1>12. Clips(g, d)
  BY <1>10, <1>11, Zenon
<1>13. Clipped(d) = g[m]
  BY <1>11, Zenon DEF Clipped, Clips, Kept, Short
<1>14. PICK e : e = <<>> /\ e \in Seq(Chars)
  BY <1>5
<1>15. g[0] = e /\ \A i \in 1 .. m : g[i] = g[i - 1] \o Kept(d, i)
  <2>1. g = [i \in 0 .. m |-> IF i = 0 THEN e ELSE g[i - 1] \o Kept(d, i)]
    BY <1>12, <1>14, Zenon DEF Clips
  <2>2. ASSUME NEW i \in 1 .. m PROVE g[i] = g[i - 1] \o Kept(d, i)
    <3>1. i \in 0 .. m /\ i # 0
      BY <1>1
    <3> QED  BY <2>1, <3>1
  <2>3. 0 \in 0 .. m
    BY <1>1
  <2>4. g[0] = e
    BY <2>1, <2>3
  <2> QED  BY <2>2, <2>4
<1> DEFINE T == {i \in 0 .. m : g[i] \in Seq(Chars)}
<1>16. 0 \in T
  <2>1. g[0] \in Seq(Chars)
    BY <1>14, <1>15
  <2> QED  BY <1>1, <2>1
<1>17. ASSUME NEW i \in 1 .. m, i - 1 \in T PROVE i \in T
  <2>1. g[i - 1] \in Seq(Chars) /\ g[i] = g[i - 1] \o Kept(d, i)
    BY <1>15, <1>17
  <2>2. g[i] \in Seq(Chars)
    BY <1>3, <2>1
  <2> QED  BY <1>1, <2>2
<1>18. \A i \in 0 .. m : i \in T
  <2> HIDE DEF T
  <2> QED  BY <1>1, <1>16, <1>17, Upto
<1> QED  BY <1>13, <1>14, <1>15, <1>18 DEF Clipping

Screens == [shown : Seq(Chars), line : Seq(Chars)]
Nothing == [shown |-> <<>>, line |-> <<>>]
AfterChar(s, c) ==
  IF c = "LF" THEN [shown |-> s.shown \o s.line \o <<"LF">>, line |-> <<>>]
  ELSE IF c \in {"CR", "ESC"} \/ Len(s.line) = LineMax THEN s
  ELSE [s EXCEPT !.line = Append(@, c)]
Prints(f, d) ==
  f = [i \in 0 .. Len(d) |-> IF i = 0 THEN Nothing ELSE AfterChar(f[i - 1], d[i])]
\* The screen and the line collected, character by character.
Printing(f, d, m) ==
  /\ Len(d) = m /\ Scr!out_print(d) = f[m].shown \o f[m].line
  /\ f[0] = Nothing /\ \A i \in 0 .. m : f[i] \in Screens
  /\ \A i \in 1 .. m : f[i] = AfterChar(f[i - 1], d[i])

\* So does the loop of out_print.
LEMMA PrintSteps ==
  ASSUME NEW d \in Seq(Chars), NEW m, m = Len(d)
  PROVE  \E f : Printing(f, d, m)
<1>1. m \in Nat /\ \A i \in 1 .. m : d[i] \in Chars
  BY LenProperties
<1>2. PICK step : step = [p \in Screens \X (1 .. m) |-> AfterChar(p[1], d[p[2]])]
  OBVIOUS
<1>3. ASSUME NEW s \in Screens, NEW i \in 1 .. m
      PROVE  AfterChar(s, d[i]) \in Screens
  <2>1. d[i] \in Chars /\ s.shown \in Seq(Chars) /\ s.line \in Seq(Chars)
    BY <1>1 DEF Screens
  <2>2. <<"LF">> \in Seq(Chars)
    BY DEF Chars
  <2>3. s.shown \o s.line \o <<"LF">> \in Seq(Chars)
    BY <2>1, <2>2, ConcatProperties
  <2>4. Append(s.line, d[i]) \in Seq(Chars)
    BY <2>1, AppendProperties
  <2>5. PICK x \in Seq(Chars) : x = Append(s.line, d[i])
    BY <2>4
  <2>6. [s EXCEPT !.line = x] \in Screens
    BY <2>1 DEF Screens
  <2>7. PICK y \in Seq(Chars) : y = s.shown \o s.line \o <<"LF">>
    BY <2>3
  <2>8. <<>> \in Seq(Chars)
    OBVIOUS
  <2>9. PICK z \in Seq(Chars) : z = <<>>
    BY <2>8, Zenon
  <2>10. [shown |-> y, line |-> z] \in Screens
    BY DEF Screens
  <2> QED  BY <2>5, <2>6, <2>7, <2>9, <2>10 DEF AfterChar
<1>4. step \in [Screens \X (1 .. m) -> Screens]
  BY <1>2, <1>3
<1>5. Nothing \in Screens
  BY DEF Nothing, Screens
<1>6. PICK f : Folded(f, m, Screens, Nothing, step)
  BY <1>1, <1>4, <1>5, FoldExists
<1>7. f \in [0 .. m -> Screens]
  BY <1>6, Zenon DEF Folded
<1>8. ASSUME NEW i \in 1 .. m PROVE step[<<f[i - 1], i>>] = AfterChar(f[i - 1], d[i])
  <2>1. i - 1 \in 0 .. m
    BY <1>1
  <2>2. f[i - 1] \in Screens
    BY <2>1, <1>7
  <2> QED  BY <1>2, <2>2
<1>9. [i \in 0 .. m |-> IF i = 0 THEN Nothing ELSE step[<<f[i - 1], i>>]]
        = [i \in 0 .. m |-> IF i = 0 THEN Nothing ELSE AfterChar(f[i - 1], d[i])]
  <2>1. \A i \in 0 .. m : i = 0 \/ i \in 1 .. m
    BY <1>1
  <2> QED  BY <1>8, <2>1
<1>10. \E g : Prints(g, d)
  <2>1. f = [i \in 0 .. m |-> IF i = 0 THEN Nothing ELSE AfterChar(f[i - 1], d[i])]
    BY <1>6, <1>9, Zenon DEF Folded
  <2> QED  BY <2>1, Zenon DEF Prints
<1>11. PICK g : g = CHOOSE h : Prints(h, d)
  OBVIOUS
<1>12. Prints(g, d)
  BY <1>10, <1>11, Zenon
<1>13. Scr!out_print(d) = g[m].shown \o g[m].line
  BY <1>11, Zenon DEF Scr!out_print, Prints, AfterChar, Nothing
<1>14. PICK e : e = Nothing /\ e \in Screens
  BY <1>5
<1>15. g[0] = e /\ \A i \in 1 .. m : g[i] = AfterChar(g[i - 1], d[i])
  <2>1. g = [i \in 0 .. m |-> IF i = 0 THEN e ELSE AfterChar(g[i - 1], d[i])]
    BY <1>12, <1>14, Zenon DEF Prints
  <2>2. ASSUME NEW i \in 1 .. m PROVE g[i] = AfterChar(g[i - 1], d[i])
    <3>1. i \in 0 .. m /\ i # 0
      BY <1>1
    <3> QED  BY <2>1, <3>1
  <2>3. 0 \in 0 .. m
    BY <1>1
  <2>4. g[0] = e
    BY <2>1, <2>3
  <2> QED  BY <2>2, <2>4
<1> DEFINE T == {i \in 0 .. m : g[i] \in Screens}
<1>16. 0 \in T
  <2>1. g[0] \in Screens
    BY <1>14, <1>15
  <2> QED  BY <1>1, <2>1
<1>17. ASSUME NEW i \in 1 .. m, i - 1 \in T PROVE i \in T
  <2>1. g[i - 1] \in Screens /\ g[i] = AfterChar(g[i - 1], d[i])
    BY <1>15, <1>17
  <2>2. g[i] \in Screens
    BY <1>3, <2>1
  <2> QED  BY <1>1, <2>2
<1>18. \A i \in 0 .. m : i \in T
  <2> HIDE DEF T
  <2> QED  BY <1>1, <1>16, <1>17, Upto
<1> QED  BY <1>13, <1>14, <1>15, <1>18 DEF Printing

Begins(s, t) == Len(s) <= Len(t) /\ \A j \in 1 .. Len(s) : s[j] = t[j]
\* r is where the last line of u, of k characters, begins.
LineBegins(u, k, r) == (r = 0 \/ u[r] = "LF") /\ \A j \in r + 1 .. k : u[j] # "LF"
\* The screen and the line collected are what is left of u, whose k characters C clips.
CollectedFrom(s, u, k, r, C) ==
  /\ k = Len(u) /\ r <= k /\ LineBegins(u, k, r)
  /\ s.shown \o s.line = C[k]
  /\ Len(s.line) = IF k - r < LineMax THEN k - r ELSE LineMax
Collected(s, u, C) == \E k \in Nat, r \in Nat : CollectedFrom(s, u, k, r, C)

\* A character that is not shown leaves everything as it is.
LEMMA Unshown ==
  ASSUME NEW s \in Screens, NEW u \in Seq(Chars), NEW c \in {"CR", "ESC"}
  PROVE  AfterChar(s, c) = s /\ u \o <<>> = u
BY ConcatEmptySeq DEF AfterChar

\* What one more character does to a sequence.
LEMMA OneCharacter ==
  ASSUME NEW u \in Seq(Chars), NEW c \in Chars, NEW k \in Nat, k = Len(u),
         NEW w, w = u \o <<c>>
  PROVE  /\ w \in Seq(Chars) /\ Len(w) = k + 1 /\ w[k + 1] = c
         /\ \A j \in 1 .. k : w[j] = u[j]
<1>1. PICK x \in Seq(Chars) : x = <<c>> /\ Len(x) = 1 /\ x[1] = c
  <2>1. <<c>> \in Seq(Chars) /\ Len(<<c>>) = 1 /\ <<c>>[1] = c
    OBVIOUS
  <2> QED  BY <2>1, Zenon
<1>2. w = u \o x
  BY <1>1
<1>3. w \in Seq(Chars) /\ Len(w) = k + 1
  BY <1>1, <1>2, ConcatProperties
<1>4. \A j \in 1 .. k + 1 : w[j] = IF j <= k THEN u[j] ELSE x[j - k]
  BY <1>1, <1>2, ConcatProperties
<1> QED  BY <1>1, <1>3, <1>4

\* Where the brackets are does not matter.
LEMMA Reassociated ==
  ASSUME NEW p \in Seq(Chars), NEW q \in Seq(Chars), NEW z \in Seq(Chars)
  PROVE  (p \o q) \o z = p \o (q \o z)
BY ConcatAssociative

\* One turn of the loop for a character that can be shown.
LEMMA PrintStep ==
  ASSUME NEW s \in Screens, NEW u \in Seq(Chars), NEW c \in {"a", "b", "LF"}, NEW v, NEW C,
         Collected(s, u, C), NEW k \in Nat, k = Len(u),
         NEW w \in Seq(Chars), Len(w) = k + 1, w[k + 1] = c, \A j \in 1 .. k : w[j] = u[j],
         Begins(w, v), C[k] \in Seq(Chars), C[k + 1] = C[k] \o Kept(v, k + 1)
  PROVE  Collected(AfterChar(s, c), w, C)
<1>1. PICK r \in Nat :
        /\ r <= k /\ LineBegins(u, k, r)
        /\ s.shown \o s.line = C[k]
        /\ Len(s.line) = IF k - r < LineMax THEN k - r ELSE LineMax
  BY DEF Collected, CollectedFrom
<1>2. v[k + 1] = c /\ \A j \in 1 .. k : v[j] = u[j]
  BY DEF Begins
<1>3. s.shown \in Seq(Chars) /\ s.line \in Seq(Chars) /\ c \in Chars
  BY DEF Screens, Chars
<1>4. LineMax \in Nat \ {0}
  BY FormatsAssumption
<1>5. <<>> \in Seq(Chars) /\ Len(<<>>) = 0
  OBVIOUS
<1>6. CASE c = "LF"
  <2>1. Kept(v, k + 1) = <<"LF">>
    BY <1>2, <1>6 DEF Kept, Short
  <2>2. PICK y \in Seq(Chars) : y = s.shown \o s.line \o <<"LF">> /\ y = C[k + 1]
    <3>1. C[k + 1] = s.shown \o s.line \o <<"LF">>
      BY <1>1, <2>1
    <3>2. C[k] \o <<"LF">> \in Seq(Chars)
      BY <1>3, <1>6, OneCharacter, LenProperties
    <3> QED  BY <2>1, <3>1, <3>2, Zenon
  <2>3. AfterChar(s, c).shown = y /\ AfterChar(s, c).line = <<>>
    BY <1>6, <2>2 DEF AfterChar
  <2>4. AfterChar(s, c).shown \o AfterChar(s, c).line = C[k + 1]
    BY <2>2, <2>3, ConcatEmptySeq
  <2>5. LineBegins(w, k + 1, k + 1)
    BY <1>6 DEF LineBegins
  <2>6. Len(AfterChar(s, c).line) = 0 /\ (k + 1) - (k + 1) < LineMax
    BY <1>4, <1>5, <2>3
  <2>7. CollectedFrom(AfterChar(s, c), w, k + 1, k + 1, C)
    BY <1>4, <2>4, <2>5, <2>6 DEF CollectedFrom
  <2>8. k + 1 \in Nat
    OBVIOUS
  <2> QED  BY <2>7, <2>8, Zenon DEF Collected
<1>7. ASSUME c # "LF" PROVE LineBegins(w, k + 1, r)
  <2>1. (r = 0 \/ u[r] = "LF") /\ \A j \in r + 1 .. k : u[j] # "LF"
    BY <1>1 DEF LineBegins
  <2>2. r = 0 \/ w[r] = "LF"
    BY <1>1, <2>1
  <2>3. ASSUME NEW j \in r + 1 .. k + 1 PROVE w[j] # "LF"
    <3>1. j = k + 1 \/ (j \in r + 1 .. k /\ j \in 1 .. k)
      OBVIOUS
    <3> QED  BY <1>7, <2>1, <3>1
  <2> QED  BY <2>2, <2>3 DEF LineBegins
<1>8. CASE c # "LF" /\ Len(s.line) = LineMax
  <2>1. r <= k - LineMax
    BY <1>1, <1>4, <1>8
  <2>2. ~Short(v, k + 1)
    <3>1. ASSUME NEW j \in (k + 1) - LineMax .. (k + 1) - 1 PROVE v[j] # "LF"
      <4>1. j \in r + 1 .. k /\ j \in 1 .. k
        BY <1>4, <2>1
      <4> QED  BY <1>1, <1>2, <4>1 DEF LineBegins
    <3> QED  BY <1>2, <1>4, <1>8, <2>1, <3>1 DEF Short
  <2>3. C[k + 1] = C[k]
    BY <2>2, ConcatEmptySeq DEF Kept
  <2>4. AfterChar(s, c) = s
    BY <1>8 DEF AfterChar
  <2>5. ~((k + 1) - r < LineMax) /\ r <= k + 1
    BY <1>1, <1>4, <2>1
  <2>6. LineBegins(w, k + 1, r)
    BY <1>7, <1>8
  <2>7. s.shown \o s.line = C[k + 1]
    BY <1>1, <2>3
  <2>8. CollectedFrom(AfterChar(s, c), w, k + 1, r, C)
    BY <1>8, <2>5, <2>6, <2>7, <2>4 DEF CollectedFrom
  <2>9. k + 1 \in Nat
    OBVIOUS
  <2> QED  BY <2>8, <2>9, Zenon DEF Collected
<1>9. CASE c # "LF" /\ Len(s.line) # LineMax
  <2>1. k - r < LineMax /\ Len(s.line) = k - r
    BY <1>1, <1>4, <1>9
  <2>2. Short(v, k + 1)
    <3>1. CASE r = 0
      BY <1>4, <2>1, <3>1 DEF Short
    <3>2. CASE r # 0
      <4>1. r \in 1 .. k /\ r \in (k + 1) - LineMax .. (k + 1) - 1
        BY <1>1, <1>4, <2>1, <3>2
      <4>2. v[r] = "LF"
        BY <1>1, <1>2, <3>2, <4>1 DEF LineBegins
      <4> QED  BY <4>1, <4>2 DEF Short
    <3> QED  BY <3>1, <3>2
  <2>3. C[k + 1] = C[k] \o <<c>>
    BY <1>2, <2>2 DEF Kept
  <2>4. PICK y \in Seq(Chars) : y = Append(s.line, c) /\ Len(y) = (k - r) + 1
    <3>1. Append(s.line, c) \in Seq(Chars) /\ Len(Append(s.line, c)) = (k - r) + 1
      BY <1>3, <2>1, AppendProperties
    <3> QED  BY <3>1, Zenon
  <2>5. AfterChar(s, c).shown = s.shown /\ AfterChar(s, c).line = y
    <3>1. AfterChar(s, c) = [s EXCEPT !.line = y]
      BY <1>9, <2>4 DEF AfterChar
    <3> QED  BY <3>1 DEF Screens
  <2>6. s.shown \o y = (s.shown \o s.line) \o <<c>>
    <3>1. y = s.line \o <<c>>
      BY <1>3, <2>4, AppendIsConcat
    <3>2. <<c>> \in Seq(Chars)
      BY <1>3
    <3>3. PICK z \in Seq(Chars) : z = <<c>>
      BY <3>2, Zenon
    <3>4. s.shown \o (s.line \o z) = (s.shown \o s.line) \o z
      <4>1. PICK p \in Seq(Chars), q \in Seq(Chars) : p = s.shown /\ q = s.line
        BY <1>3, Zenon
      <4>2. (p \o q) \o z = p \o (q \o z)
        BY Reassociated, ZenonT(60)
      <4> QED  BY <4>1, <4>2, Zenon
    <3> QED  BY <3>1, <3>3, <3>4
  <2>7. AfterChar(s, c).shown \o AfterChar(s, c).line = C[k + 1]
    BY <1>1, <2>3, <2>5, <2>6
  <2>8. Len(AfterChar(s, c).line) = IF (k + 1) - r < LineMax THEN (k + 1) - r ELSE LineMax
    BY <1>1, <1>4, <2>1, <2>4, <2>5
  <2>9. CollectedFrom(AfterChar(s, c), w, k + 1, r, C)
    BY <1>1, <1>7, <1>9, <2>7, <2>8 DEF CollectedFrom
  <2>10. k + 1 \in Nat
    OBVIOUS
  <2> QED  BY <2>9, <2>10, Zenon DEF Collected
<1> QED  BY <1>6, <1>8, <1>9

\* What a turn starts from.
Turn(s, u, c, v, C, k, w) ==
  /\ s \in Screens /\ u \in Seq(Chars) /\ c \in {"a", "b", "LF"} /\ k \in Nat /\ k = Len(u)
  /\ w \in Seq(Chars) /\ Len(w) = k + 1 /\ w[k + 1] = c /\ \A j \in 1 .. k : w[j] = u[j]
  /\ Collected(s, u, C) /\ Begins(w, v)
  /\ C[k] \in Seq(Chars) /\ C[k + 1] = C[k] \o Kept(v, k + 1)

\* The same, from Turn.
LEMMA PrintTurn ==
  ASSUME NEW s, NEW u, NEW c, NEW v, NEW C, NEW k, NEW w, Turn(s, u, c, v, C, k, w)
  PROVE  Collected(AfterChar(s, c), w, C)
BY PrintStep DEF Turn

\* A beginning stays one when more is appended.
LEMMA BeginsMore ==
  ASSUME NEW s \in Seq(Chars), NEW u \in Seq(Chars), Begins(s, u), NEW x \in Seq(Chars)
  PROVE  Begins(s, u \o x)
<1>1. PICK a \in Nat, b \in Nat, c \in Nat : a = Len(s) /\ b = Len(u) /\ c = Len(x)
  BY LenProperties
<1>2. Len(u \o x) = b + c /\ \A j \in 1 .. b + c : (u \o x)[j] = IF j <= b THEN u[j] ELSE x[j - b]
  BY <1>1, ConcatProperties
<1>3. a <= b /\ \A j \in 1 .. a : s[j] = u[j]
  BY <1>1 DEF Begins
<1>4. \A j \in 1 .. a : (u \o x)[j] = s[j]
  BY <1>2, <1>3
<1> QED  BY <1>1, <1>2, <1>3, <1>4 DEF Begins

\* What of a beginning can be shown is a beginning of what of all can.
LEMMA VisibleBegins ==
  ASSUME NEW d \in Seq(Chars), NEW m \in Nat, NEW f, Showing(f, d, m)
  PROVE  \A i \in 0 .. m : Begins(f[i], f[m])
<1>1. \A i \in 0 .. m : f[i] \in Seq(Chars)
  BY DEF Showing
<1>2. \A i \in 0 .. m : Begins(f[i], f[i])
  BY <1>1, LenProperties DEF Begins
<1> DEFINE S == {k \in 0 .. m : \A i \in 0 .. k : Begins(f[i], f[k])}
<1>3. 0 \in S
  BY <1>2
<1>4. ASSUME NEW k \in 1 .. m, k - 1 \in S PROVE k \in S
  <2>1. k - 1 \in 0 .. m /\ k \in 0 .. m
    OBVIOUS
  <2>2. PICK x \in Seq(Chars) : f[k] = f[k - 1] \o x
    <3>1. f[k] = f[k - 1] \o Shown(d, k)
      BY DEF Showing
    <3>2. d[k] \in Chars
      <4>1. Len(d) = m
        BY DEF Showing
      <4> QED  BY <4>1, LenProperties
    <3>3. Shown(d, k) \in Seq(Chars)
      BY <3>2 DEF Shown
    <3> QED  BY <3>1, <3>3, Zenon
  <2>3. ASSUME NEW i \in 0 .. k PROVE Begins(f[i], f[k])
    <3>1. CASE i = k
      BY <1>2, <2>1, <3>1
    <3>2. CASE i # k
      <4>1. i \in 0 .. k - 1 /\ i \in 0 .. m
        BY <3>2
      <4>2. Begins(f[i], f[k - 1]) /\ f[i] \in Seq(Chars) /\ f[k - 1] \in Seq(Chars)
        BY <1>1, <1>4, <2>1, <4>1
      <4>3. Begins(f[i], f[k - 1] \o x)
        BY <4>2, BeginsMore
      <4> QED  BY <2>2, <4>3
    <3> QED  BY <3>1, <3>2
  <2> QED  BY <2>1, <2>3
<1>5. m \in S
  <2> HIDE DEF S
  <2>1. \A k \in 0 .. m : k \in S
    BY <1>3, <1>4, Upto
  <2>2. m \in 0 .. m
    OBVIOUS
  <2> QED  BY <2>1, <2>2, Zenon
<1> QED  BY <1>5

\* out_print shows what can be shown, clipped to its buffer (main.c 271-294).
LEMMA PrintRight ==
  ASSUME NEW d \in Seq(Chars)
  PROVE  Scr!out_print(d) = Clipped(Visible(d))
<1>1. PICK m \in Nat : m = Len(d)
  BY LenProperties
<1>2. PICK f : Showing(f, d, m)
  BY <1>1, VisibleSteps
<1>3. PICK v \in Seq(Chars), w \in Nat : v = f[m] /\ w = Len(v)
  <2>1. f[m] \in Seq(Chars)
    BY <1>2 DEF Showing
  <2> QED  BY <2>1, LenProperties
<1>4. PICK C : Clipping(C, v, w)
  BY <1>3, ClippedSteps
<1>5. PICK g : Printing(g, d, m)
  BY <1>1, PrintSteps
<1> DEFINE S == {i \in 0 .. m : Collected(g[i], f[i], C)}
<1>6. 0 \in S
  <2>1. PICK e : e = <<>> /\ e \in Seq(Chars) /\ Len(e) = 0
    <3>1. <<>> \in Seq(Chars) /\ Len(<<>>) = 0
      OBVIOUS
    <3> QED  BY <3>1, Zenon
  <2>2. f[0] = e /\ g[0] = Nothing /\ C[0] = e
    BY <1>2, <1>4, <1>5, <2>1, Zenon DEF Showing, Clipping, Printing
  <2>3. g[0].shown = e /\ g[0].line = e
    BY <2>1, <2>2 DEF Nothing
  <2>4. e \o e = e
    BY <2>1, ConcatEmptySeq
  <2>5. LineBegins(f[0], 0, 0)
    BY DEF LineBegins
  <2>6. CollectedFrom(g[0], f[0], 0, 0, C)
    BY <2>1, <2>2, <2>3, <2>4, <2>5, FormatsAssumption DEF CollectedFrom
  <2>7. Collected(g[0], f[0], C)
    <3>1. 0 \in Nat
      OBVIOUS
    <3> QED  BY <2>6, <3>1, Zenon DEF Collected
  <2> QED  BY <2>7
<1>7. ASSUME NEW i \in 1 .. m, i - 1 \in S PROVE i \in S
  <2>1. PICK s \in Screens, u \in Seq(Chars), c \in Chars : s = g[i - 1] /\ u = f[i - 1] /\ c = d[i]
    <3>1. i - 1 \in 0 .. m
      OBVIOUS
    <3>2. g[i - 1] \in Screens /\ f[i - 1] \in Seq(Chars)
      BY <1>2, <1>5, <3>1 DEF Showing, Printing
    <3>3. d[i] \in Chars
      BY <1>1, LenProperties
    <3> QED  BY <3>2, <3>3
  <2>2. Collected(s, u, C)
    BY <1>7, <2>1
  <2>3. g[i] = AfterChar(s, c) /\ f[i] = u \o Shown(d, i) /\ i \in 0 .. m
    BY <1>2, <1>5, <2>1, SMTT(60) DEF Showing, Printing
  <2>4. CASE c \in {"CR", "ESC"}
    <3>1. Shown(d, i) = <<>>
      BY <2>1, <2>4 DEF Shown
    <3>2. g[i] = s /\ f[i] = u
      BY <2>3, <2>4, <3>1, Unshown
    <3> QED  BY <2>2, <2>3, <3>2
  <2>5. CASE c \notin {"CR", "ESC"}
    <3>1. f[i] = u \o <<c>>
      BY <2>1, <2>3, <2>5 DEF Shown
    <3>2. PICK k \in Nat : k = Len(u)
      BY LenProperties
    <3>3. PICK x \in Seq(Chars) : /\ x = f[i] /\ Len(x) = k + 1 /\ x[k + 1] = c
                                  /\ \A j \in 1 .. k : x[j] = u[j]
      <4>1. PICK x : x = u \o <<c>>
        OBVIOUS
      <4>2. x \in Seq(Chars) /\ Len(x) = k + 1 /\ x[k + 1] = c /\ \A j \in 1 .. k : x[j] = u[j]
        BY <3>2, <4>1, OneCharacter
      <4> QED  BY <3>1, <4>1, <4>2, Zenon
    <3>4. Begins(x, v)
      BY <1>2, <1>3, <2>3, <3>3, VisibleBegins
    <3>5. k \in 0 .. w /\ k + 1 \in 1 .. w
      BY <1>3, <3>3, <3>4 DEF Begins
    <3>6. C[k] \in Seq(Chars) /\ C[k + 1] = C[k] \o Kept(v, k + 1)
      <4>1. PICK l \in 1 .. w : l = k + 1 /\ l - 1 = k
        BY <3>5
      <4>2. C[l] = C[l - 1] \o Kept(v, l)
        BY <1>4 DEF Clipping
      <4> QED  BY <1>4, <3>5, <4>1, <4>2 DEF Clipping
    <3>7. c \in {"a", "b", "LF"}
      BY <2>5 DEF Chars
    <3>8. Collected(AfterChar(s, c), x, C)
      <4>1. Turn(s, u, c, v, C, k, x)
        BY <2>2, <3>2, <3>3, <3>4, <3>6, <3>7 DEF Turn
      <4> QED  BY <4>1, PrintTurn
    <3> QED  BY <2>3, <3>3, <3>8
  <2> QED  BY <2>4, <2>5
<1>8. m \in S
  <2> HIDE DEF S
  <2>1. \A i \in 0 .. m : i \in S
    BY <1>6, <1>7, Upto
  <2>2. m \in 0 .. m
    OBVIOUS
  <2> QED  BY <2>1, <2>2, Zenon
<1>9. g[m].shown \o g[m].line = C[w]
  BY <1>3, <1>8 DEF Collected, CollectedFrom
<1>10. Scr!out_print(d) = C[w] /\ Visible(d) = v /\ Clipped(v) = C[w]
  BY <1>2, <1>3, <1>4, <1>5, <1>9 DEF Showing, Clipping, Printing
<1> QED  BY <1>10

AllShort(v, w) == \A i \in 1 .. w : Short(v, i)

\* Nothing is missing only if no character is past the buffer.
LEMMA ClippedNothing ==
  ASSUME NEW v \in Seq(Chars), NEW w \in Nat, w = Len(v), Clipped(v) = v
  PROVE  AllShort(v, w)
<1>1. PICK C : Clipping(C, v, w)
  BY ClippedSteps
<1>2. SUFFICES ASSUME NEW z \in 1 .. w, ~Short(v, z) PROVE FALSE
  BY DEF AllShort
<1> DEFINE S == {i \in 0 .. w : Len(C[i]) <= (IF i >= z THEN i - 1 ELSE i)}
<1>3. 0 \in S
  <2>1. C[0] = <<>> /\ Len(<<>>) = 0
    BY <1>1 DEF Clipping
  <2>2. Len(C[0]) = 0
    BY <2>1
  <2> QED  BY <2>2
<1>4. ASSUME NEW i \in 1 .. w, i - 1 \in S PROVE i \in S
  <2>1. PICK c \in Seq(Chars), k \in Nat : c = C[i - 1] /\ k = Len(c)
    <3>1. i - 1 \in 0 .. w
      OBVIOUS
    <3>2. C[i - 1] \in Seq(Chars)
      BY <1>1, <3>1 DEF Clipping
    <3> QED  BY <3>2, LenProperties
  <2>2. C[i] = c \o Kept(v, i)
    BY <1>1, <2>1 DEF Clipping
  <2>3. v[i] \in Chars
    BY LenProperties
  <2>4. Len(C[i]) = IF Short(v, i) THEN k + 1 ELSE k
    <3>1. CASE Short(v, i)
      BY <2>1, <2>2, <2>3, <3>1, OneCharacter DEF Kept
    <3>2. CASE ~Short(v, i)
      BY <2>1, <2>2, <3>2, ConcatEmptySeq DEF Kept
    <3> QED  BY <3>1, <3>2
  <2>5. k <= (IF i - 1 >= z THEN (i - 1) - 1 ELSE i - 1)
    BY <1>4, <2>1
  <2>6. i = z => ~Short(v, i)
    BY <1>2
  <2>7. Len(C[i]) <= (IF i >= z THEN i - 1 ELSE i)
    BY <2>4, <2>5, <2>6
  <2> QED  BY <2>7
<1>5. w \in S
  <2> HIDE DEF S
  <2>1. \A i \in 0 .. w : i \in S
    BY <1>3, <1>4, Upto
  <2>2. w \in 0 .. w
    OBVIOUS
  <2> QED  BY <2>1, <2>2, Zenon
<1>6. C[w] = v
  BY <1>1 DEF Clipping
<1> QED  BY <1>5, <1>6

\* And if none is, nothing is missing.
LEMMA NothingClipped ==
  ASSUME NEW v \in Seq(Chars), NEW w \in Nat, w = Len(v), AllShort(v, w)
  PROVE  Clipped(v) = v
<1>1. PICK C : Clipping(C, v, w)
  BY ClippedSteps
<1> DEFINE S == {i \in 0 .. w : Len(C[i]) = i /\ \A j \in 1 .. i : C[i][j] = v[j]}
<1>2. 0 \in S
  <2>1. C[0] = <<>> /\ Len(<<>>) = 0
    BY <1>1 DEF Clipping
  <2>2. Len(C[0]) = 0
    BY <2>1
  <2> QED  BY <2>2
<1>3. ASSUME NEW i \in 1 .. w, i - 1 \in S PROVE i \in S
  <2>1. PICK c \in Seq(Chars), k \in Nat : c = C[i - 1] /\ k = Len(c) /\ k = i - 1
    <3>1. i - 1 \in 0 .. w
      OBVIOUS
    <3>2. C[i - 1] \in Seq(Chars)
      BY <1>1, <3>1 DEF Clipping
    <3> QED  BY <1>3, <3>2, LenProperties
  <2>2. C[i] = c \o <<v[i]>>
    BY <1>1, <2>1 DEF Clipping, Kept, AllShort
  <2>3. v[i] \in Chars
    BY LenProperties
  <2>4. PICK x : x = C[i] /\ Len(x) = k + 1 /\ x[k + 1] = v[i] /\ \A j \in 1 .. k : x[j] = c[j]
    <3>1. PICK x : x = c \o <<v[i]>>
      OBVIOUS
    <3>2. PICK e \in Chars : e = v[i]
      BY <2>3
    <3>3. x = c \o <<e>>
      BY <3>1, <3>2
    <3>4. x \in Seq(Chars) /\ Len(x) = k + 1 /\ x[k + 1] = e /\ \A j \in 1 .. k : x[j] = c[j]
      <4>1. k = Len(c)
        BY <2>1
      <4> QED  BY <3>2, <3>3, <4>1, OneCharacter
    <3> QED  BY <2>2, <3>1, <3>2, <3>4, Zenon
  <2>5. \A j \in 1 .. k : c[j] = v[j]
    BY <1>3, <2>1
  <2>6. \A j \in 1 .. i : j = k + 1 \/ j \in 1 .. k
    BY <2>1
  <2>7. k + 1 = i
    BY <2>1
  <2>8. Len(C[i]) = i /\ \A j \in 1 .. i : C[i][j] = v[j]
    BY <2>4, <2>5, <2>6, <2>7
  <2> QED  BY <2>8
<1>4. w \in S
  <2> HIDE DEF S
  <2>1. \A i \in 0 .. w : i \in S
    BY <1>2, <1>3, Upto
  <2>2. w \in 0 .. w
    OBVIOUS
  <2> QED  BY <2>1, <2>2, Zenon
<1>5. C[w] \in Seq(Chars) /\ Clipped(v) = C[w]
  BY <1>1 DEF Clipping
<1>6. C[w] = v
  BY <1>4, <1>5, SeqEqual
<1> QED  BY <1>5, <1>6

\* q is the l characters of d from z on; f and g say what of them can be shown.
PartOf(f, d, m, g, q, l, z, y) ==
  /\ Showing(f, d, m) /\ Showing(g, q, l)
  /\ d \in Seq(Chars) /\ q \in Seq(Chars) /\ m \in Nat /\ l \in Nat /\ z \in Nat
  /\ y = z + l /\ y <= m /\ \A i \in 1 .. l : q[i] = d[z + i]

Joins(f, y, z, g, l) == f[y] = f[z] \o g[l]

\* Then f goes on from z as g does.
LEMMA VisibleShifted ==
  ASSUME NEW f, NEW d, NEW m, NEW g, NEW q, NEW l, NEW z, NEW y, PartOf(f, d, m, g, q, l, z, y)
  PROVE  Joins(f, y, z, g, l)
<1>1. /\ Showing(f, d, m) /\ Showing(g, q, l)
      /\ d \in Seq(Chars) /\ q \in Seq(Chars) /\ m \in Nat /\ l \in Nat /\ z \in Nat
      /\ y = z + l /\ y <= m /\ \A i \in 1 .. l : q[i] = d[z + i]
  BY DEF PartOf
<1> DEFINE S == {i \in 0 .. l : f[z + i] = f[z] \o g[i]}
<1>2. f[z] \in Seq(Chars)
  <2>1. z \in 0 .. m
    BY <1>1
  <2> QED  BY <1>1, <2>1 DEF Showing
<1>3. 0 \in S
  <2>1. g[0] = <<>> /\ z + 0 = z
    BY <1>1 DEF Showing
  <2>2. f[z + 0] = f[z] \o g[0]
    BY <1>2, <2>1, ConcatEmptySeq
  <2>3. 0 \in 0 .. l
    BY <1>1
  <2> QED  BY <2>2, <2>3, Zenon
<1>4. ASSUME NEW i \in 1 .. l, i - 1 \in S PROVE i \in S
  <2>1. PICK k \in 1 .. m : k = z + i /\ k - 1 = z + (i - 1)
    BY <1>1
  <2>2. f[k] = f[k - 1] \o Shown(d, k)
    BY <1>1, <2>1 DEF Showing
  <2>3. Shown(d, k) = Shown(q, i) /\ Shown(q, i) \in Seq(Chars)
    <3>1. q[i] = d[k]
      BY <1>1, <2>1
    <3>2. Len(q) = l
      BY <1>1 DEF Showing
    <3>3. q[i] \in Chars
      BY <1>1, <3>2, LenProperties
    <3> QED  BY <3>1, <3>3 DEF Shown
  <2>4. g[i] = g[i - 1] \o Shown(q, i)
    BY <1>1 DEF Showing
  <2>5. g[i - 1] \in Seq(Chars)
    <3>1. i - 1 \in 0 .. l
      BY <1>1
    <3> QED  BY <1>1, <3>1 DEF Showing
  <2>6. f[k - 1] = f[z] \o g[i - 1]
    BY <1>4, <2>1
  <2>7. (f[z] \o g[i - 1]) \o Shown(q, i) = f[z] \o (g[i - 1] \o Shown(q, i))
    BY <1>2, <2>3, <2>5, Reassociated, Zenon
  <2>8. f[k] = f[z] \o g[i]
    BY <2>2, <2>3, <2>4, <2>6, <2>7, Zenon
  <2>9. f[z + i] = f[z] \o g[i] /\ i \in 0 .. l
    BY <1>1, <2>1, <2>8
  <2> QED  BY <2>9, Zenon
<1>5. \A i \in 0 .. l : i \in S
  <2> HIDE DEF S
  <2> QED  BY <1>1, <1>3, <1>4, Upto
<1>6. l \in 0 .. l /\ y = z + l
  BY <1>1
<1> QED  BY <1>5, <1>6 DEF Joins

\* What can be shown of d is what can be shown of its two parts.
LEMMA VisibleParts ==
  ASSUME NEW d \in Seq(Chars), NEW m \in Nat, m = Len(d), NEW z \in 0 .. m
  PROVE  /\ SubSeq(d, 1, z) \in Seq(Chars) /\ SubSeq(d, z + 1, m) \in Seq(Chars)
         /\ Visible(d) = Visible(SubSeq(d, 1, z)) \o Visible(SubSeq(d, z + 1, m))
<1>1. \A i \in 1 .. m : d[i] \in Chars
  BY LenProperties
<1>2. PICK l \in Nat : l = m - z
  <2>1. m - z \in Nat
    OBVIOUS
  <2> QED  BY <2>1, Zenon
<1>3. PICK p \in Seq(Chars) : p = SubSeq(d, 1, z) /\ Len(p) = z /\ \A i \in 1 .. z : p[i] = d[i]
  <2>1. \A i \in 1 .. z : d[i] \in Chars
    BY <1>1
  <2>2. SubSeq(d, 1, z) \in Seq(Chars) /\ Len(SubSeq(d, 1, z)) = z
    BY <2>1, SubSeqProperties
  <2>3. \A i \in 1 .. z : SubSeq(d, 1, z)[i] = d[i]
    BY <2>1, SubSeqProperties
  <2> QED  BY <2>2, <2>3, Zenon
<1>4. PICK q \in Seq(Chars) : q = SubSeq(d, z + 1, m) /\ Len(q) = l /\ \A i \in 1 .. l : q[i] = d[z + i]
  <2>1. \A i \in z + 1 .. m : d[i] \in Chars
    BY <1>1
  <2>2. SubSeq(d, z + 1, m) \in Seq(Chars) /\ Len(SubSeq(d, z + 1, m)) = l
    BY <1>2, <2>1, SubSeqProperties
  <2>3. \A i \in 1 .. l : SubSeq(d, z + 1, m)[i] = d[z + i]
    BY <1>2, <2>1, SubSeqProperties
  <2> QED  BY <2>2, <2>3, Zenon
<1>5. PICK f : Showing(f, d, m)
  BY VisibleSteps
<1>6. PICK g : Showing(g, p, z)
  BY <1>3, VisibleSteps
<1>7. PICK h : Showing(h, q, l)
  BY <1>4, VisibleSteps
<1>8. f[z] = g[z]
  <2>1. PICK o \in Nat : o = 0
    OBVIOUS
  <2>2. PartOf(f, d, m, g, p, z, o, z)
    BY <1>3, <1>5, <1>6, <2>1 DEF PartOf
  <2>3. f[z] = f[o] \o g[z]
    <3>1. Joins(f, z, o, g, z)
      BY <2>2, VisibleShifted
    <3> QED  BY <3>1, Zenon DEF Joins
  <2>4. f[o] = <<>> /\ g[z] \in Seq(Chars)
    <3>1. z \in 0 .. z
      OBVIOUS
    <3> QED  BY <1>5, <1>6, <2>1, <3>1 DEF Showing
  <2> QED  BY <2>3, <2>4, ConcatEmptySeq
<1>9. f[m] = f[z] \o h[l]
  <2>1. PartOf(f, d, m, h, q, l, z, m)
    BY <1>2, <1>4, <1>5, <1>7 DEF PartOf
  <2>2. Joins(f, m, z, h, l)
    BY <2>1, VisibleShifted
  <2> QED  BY <2>2, Zenon DEF Joins
<1>10. Visible(d) = f[m] /\ Visible(p) = g[z] /\ Visible(q) = h[l]
  BY <1>5, <1>6, <1>7 DEF Showing
<1> QED  BY <1>3, <1>4, <1>8, <1>9, <1>10

\* What can be shown is a text.
LEMMA VisibleIsText ==
  ASSUME NEW d \in Seq(Chars)
  PROVE  Visible(d) \in Seq(Chars)
<1>1. PICK m \in Nat : m = Len(d)
  BY LenProperties
<1>2. PICK f : Showing(f, d, m)
  BY <1>1, VisibleSteps
<1>3. m \in 0 .. m
  OBVIOUS
<1> QED  BY <1>2, <1>3 DEF Showing

\* The parts of a text with no line past the buffer have none either.
LEMMA PartsShort ==
  ASSUME NEW a \in Seq(Chars), NEW b \in Seq(Chars), NEW k \in Nat, NEW l \in Nat,
         k = Len(a), l = Len(b), AllShort(a \o b, k + l)
  PROVE  AllShort(a, k) /\ AllShort(b, l)
<1>1. PICK v : v = a \o b
  OBVIOUS
<1>2. /\ \A i \in 1 .. k : v[i] = a[i]
      /\ \A i \in 1 .. l : v[k + i] = b[i]
  <2>1. \A i \in 1 .. k + l : v[i] = IF i <= k THEN a[i] ELSE b[i - k]
    BY <1>1, ConcatProperties
  <2>2. ASSUME NEW i \in 1 .. l PROVE v[k + i] = b[i]
    <3>1. PICK j \in 1 .. k + l : j = k + i /\ ~(j <= k) /\ j - k = i
      OBVIOUS
    <3> QED  BY <2>1, <3>1
  <2> QED  BY <2>1, <2>2
<1>3. \A i \in 1 .. k + l : Short(v, i)
  BY <1>1 DEF AllShort
<1>4. LineMax \in Nat \ {0}
  BY FormatsAssumption
<1>5. ASSUME NEW i \in 1 .. k PROVE Short(a, i)
  <2>1. Short(v, i)
    BY <1>3
  <2>2. CASE v[i] = "LF" \/ i <= LineMax
    BY <1>2, <2>2 DEF Short
  <2>3. CASE i > LineMax /\ \E j \in i - LineMax .. i - 1 : v[j] = "LF"
    <3>1. PICK j \in i - LineMax .. i - 1 : v[j] = "LF"
      BY <2>3
    <3>2. a[j] = "LF"
      BY <1>2, <1>4, <2>3, <3>1
    <3> QED  BY <3>2 DEF Short
  <2> QED  BY <1>4, <2>1, <2>2, <2>3 DEF Short
<1>6. ASSUME NEW i \in 1 .. l PROVE Short(b, i)
  <2>1. PICK t \in 1 .. k + l : t = k + i
    OBVIOUS
  <2>2. Short(v, t)
    BY <1>3
  <2>3. CASE v[t] = "LF" \/ t <= LineMax
    BY <1>2, <1>4, <2>1, <2>3 DEF Short
  <2>4. CASE \E j \in t - LineMax .. t - 1 : v[j] = "LF"
    <3>1. PICK j \in t - LineMax .. t - 1 : v[j] = "LF"
      BY <2>4
    <3>2. CASE j <= k
      <4>1. i <= LineMax
        BY <1>4, <2>1, <3>2
      <4> QED  BY <4>1 DEF Short
    <3>3. CASE j > k
      <4>1. PICK r \in 1 .. l : j = k + r /\ r \in i - LineMax .. i - 1
        <5>1. j - k \in 1 .. l /\ j = k + (j - k) /\ j - k \in i - LineMax .. i - 1
          BY <1>4, <2>1, <3>3
        <5> QED  BY <5>1, Zenon
      <4>2. b[r] = "LF"
        BY <1>2, <3>1, <4>1
      <4> QED  BY <4>1, <4>2 DEF Short
    <3> QED  BY <1>4, <3>2, <3>3
  <2> QED  BY <2>2, <2>3, <2>4 DEF Short
<1> QED  BY <1>5, <1>6 DEF AllShort

\* What is on the screen is what can be shown, however it is cut, clipped to the
\* line buffer (main.c 271-294).
THEOREM OutputAlwaysRendered == StreamSpec => []OutputRendered
<1>1. ASSUME NEW d \in Seq(Chars), NEW m \in Nat, m = Len(d), NEW z \in 0 .. m,
             Clipped(Visible(d)) = Visible(d)
      PROVE  Scr!out_print(SubSeq(d, 1, z)) \o Scr!out_print(SubSeq(d, z + 1, m)) = Visible(d)
  <2>1. PICK p \in Seq(Chars), q \in Seq(Chars) : p = SubSeq(d, 1, z) /\ q = SubSeq(d, z + 1, m)
    BY <1>1, VisibleParts, Zenon
  <2>2. PICK a \in Seq(Chars), b \in Seq(Chars) : a = Visible(p) /\ b = Visible(q)
    BY VisibleIsText
  <2>3. Visible(d) = a \o b
    BY <1>1, <2>1, <2>2, VisibleParts
  <2>4. PICK k \in Nat, l \in Nat : k = Len(a) /\ l = Len(b)
    BY LenProperties
  <2>5. a \o b \in Seq(Chars) /\ k + l = Len(a \o b) /\ k + l \in Nat
    BY <2>4, ConcatProperties
  <2>6. AllShort(a \o b, k + l)
    BY <1>1, <2>3, <2>5, ClippedNothing
  <2>7. AllShort(a, k) /\ AllShort(b, l)
    BY <2>4, <2>6, PartsShort
  <2>8. Clipped(a) = a /\ Clipped(b) = b
    BY <2>4, <2>7, NothingClipped
  <2>9. Scr!out_print(p) = a /\ Scr!out_print(q) = b
    BY <2>2, <2>8, PrintRight
  <2> QED  BY <2>1, <2>3, <2>9
<1>2. ASSUME n \in Nat \ {0} PROVE OutputRendered
  <2>1. ASSUME NEW d \in [1 .. n -> {"a", "b", "LF", "CR", "ESC"}]
        PROVE  /\ Scr!out_print(d) = Clipped(Visible(d))
               /\ Clipped(Visible(d)) = Visible(d) =>
                    \A cut \in 0 .. n :
                      Scr!out_print(SubSeq(d, 1, cut)) \o Scr!out_print(SubSeq(d, cut + 1, n)) = Visible(d)
    <3>1. d \in Seq(Chars) /\ Len(d) = n /\ n \in Nat
      BY <1>2 DEF Chars
    <3> QED  BY <1>1, <3>1, PrintRight
  <2> QED  BY <2>1, Zenon DEF OutputRendered
<1> QED  BY <1>2, SizesAreNatural, PTL

-----------------------------------------------------------------------------
(* Hashes: how a message is cut into blocks and ended.                     *)

Row64 == [0 .. 63 -> Int]
Blocks64 == Seq(Row64)
\* ctx has been fed the bytes 0 .. len - 1: q blocks of them, and r in the buffer.
Fed(ctx, len, q, r) ==
  /\ q \in Nat /\ r \in 0 .. 63 /\ len = 64 * q + r
  /\ ctx.datalen = r /\ ctx.bitlen = 512 * q
  /\ ctx.blocks \in Blocks64 /\ Len(ctx.blocks) = q
  /\ \A b \in 1 .. q : \A t \in 0 .. 63 : ctx.blocks[b][t] = 64 * (b - 1) + t
  /\ \A t \in 0 .. r - 1 : ctx.data[t] = 64 * q + t

\* A number is so many blocks and a rest, smaller than a block,
LEMMA Divided ==
  ASSUME NEW x \in Nat
  PROVE  /\ x \div 64 \in Nat /\ x % 64 \in 0 .. 63 /\ x = 64 * (x \div 64) + (x % 64)
         /\ x \div 128 \in Nat /\ x % 128 \in 0 .. 127 /\ x = 128 * (x \div 128) + (x % 128)
<1>1. x \div 64 \in Nat /\ x % 64 \in 0 .. 63 /\ x = 64 * (x \div 64) + (x % 64)
  OBVIOUS
<1>2. x \div 128 \in Nat /\ x % 128 \in 0 .. 127 /\ x = 128 * (x \div 128) + (x % 128)
  OBVIOUS
<1> QED  BY <1>1, <1>2

\* in one way only.
LEMMA Quotient ==
  ASSUME NEW q \in Nat, NEW r \in 0 .. 63
  PROVE  (64 * q + r) \div 64 = q /\ (64 * q + r) % 64 = r
OBVIOUS

\* The same for SHA-512's blocks.
LEMMA Quotient128 ==
  ASSUME NEW q \in Nat, NEW r \in 0 .. 127
  PROVE  (128 * q + r) \div 128 = q /\ (128 * q + r) % 128 = r
OBVIOUS

\* What one more call of update makes of the bytes it puts together.
AllBytes(ctx, from, all) ==
  [i \in 0 .. all - 1 |-> IF i < ctx.datalen THEN ctx.data[i] ELSE from + (i - ctx.datalen)]
CutBlocks(byte, full) == [b \in 1 .. full |-> [i \in 0 .. 63 |-> byte[64 * (b - 1) + i]]]
BufferAfter(ctx, byte, full, left) ==
  [i \in 0 .. 63 |->
     LET j == IF i < left THEN 64 * full + i ELSE 64 * (full - 1) + i
     IN IF j >= 0 THEN byte[j] ELSE ctx.data[i]]

Updated(res, ctx, byte, full, left) ==
  /\ res.datalen = left /\ res.bitlen = ctx.bitlen + 512 * full
  /\ res.data = BufferAfter(ctx, byte, full, left)
  /\ res.blocks = ctx.blocks \o CutBlocks(byte, full)

\* sha256_update in these terms.
LEMMA UpdateIs ==
  ASSUME NEW ctx, NEW from, NEW bytes, NEW all, all = ctx.datalen + bytes,
         NEW full, full = all \div 64, NEW left, left = all % 64,
         NEW byte, byte = AllBytes(ctx, from, all), NEW res, res = sha256_update(ctx, from, bytes)
  PROVE  Updated(res, ctx, byte, full, left)
<1>1. sha256_update(ctx, from, bytes) =
        [datalen |-> (ctx.datalen + bytes) % 64,
         bitlen  |-> ctx.bitlen + 512 * ((ctx.datalen + bytes) \div 64),
         data    |-> BufferAfter(ctx, AllBytes(ctx, from, ctx.datalen + bytes),
                           (ctx.datalen + bytes) \div 64, (ctx.datalen + bytes) % 64),
         blocks  |-> ctx.blocks \o CutBlocks(AllBytes(ctx, from, ctx.datalen + bytes),
                                       (ctx.datalen + bytes) \div 64)]
  BY Zenon DEF sha256_update, HashBlock, AllBytes, CutBlocks, BufferAfter
<1>2. res = [datalen |-> left, bitlen |-> ctx.bitlen + 512 * full,
             data |-> BufferAfter(ctx, byte, full, left),
             blocks |-> ctx.blocks \o CutBlocks(byte, full)]
  BY <1>1
<1>3. PICK data, blocks : /\ data = BufferAfter(ctx, byte, full, left)
                          /\ blocks = ctx.blocks \o CutBlocks(byte, full)
  OBVIOUS
<1>4. res = [datalen |-> left, bitlen |-> ctx.bitlen + 512 * full, data |-> data, blocks |-> blocks]
  BY <1>2, <1>3, ZenonT(60)
<1>5. /\ res.datalen = left /\ res.bitlen = ctx.bitlen + 512 * full
      /\ res.data = data /\ res.blocks = blocks
  BY <1>4
<1> QED  BY <1>3, <1>5, ZenonT(60) DEF Updated

\* A context fed the next bytes has been fed all of them (sha256.c 99-110).
LEMMA FedMore ==
  ASSUME NEW ctx, NEW len, NEW q, NEW r, Fed(ctx, len, q, r), NEW bytes \in Nat,
         NEW res, res = sha256_update(ctx, len, bytes)
  PROVE  \E q2, r2 : Fed(res, len + bytes, q2, r2)
<1>1. /\ q \in Nat /\ r \in 0 .. 63 /\ len = 64 * q + r
      /\ ctx.datalen = r /\ ctx.bitlen = 512 * q
      /\ ctx.blocks \in Blocks64 /\ Len(ctx.blocks) = q
      /\ \A b \in 1 .. q : \A t \in 0 .. 63 : ctx.blocks[b][t] = 64 * (b - 1) + t
      /\ \A t \in 0 .. r - 1 : ctx.data[t] = 64 * q + t
  BY DEF Fed
<1>2. q \in Nat /\ r \in 0 .. 63 /\ len = 64 * q + r
  BY <1>1
<1>3. PICK all \in Nat : all = r + bytes
  BY <1>2
<1>4. PICK full \in Nat, left \in 0 .. 63 :
        full = all \div 64 /\ left = all % 64 /\ all = 64 * full + left
  BY Divided
<1>5. PICK byte : byte = AllBytes(ctx, len, all)
  OBVIOUS
<1>6. \A i \in 0 .. all - 1 : byte[i] = 64 * q + i
  BY <1>1, <1>3, <1>5 DEF AllBytes
<1>7. PICK cut : cut = CutBlocks(byte, full)
  OBVIOUS
<1>8. /\ res.datalen = left /\ res.bitlen = ctx.bitlen + 512 * full
      /\ res.data = BufferAfter(ctx, byte, full, left) /\ res.blocks = ctx.blocks \o cut
  <2>1. all = ctx.datalen + bytes
    BY <1>1, <1>3
  <2>2. Updated(res, ctx, byte, full, left)
    BY <1>4, <1>5, <2>1, UpdateIs
  <2> QED  BY <1>7, <2>2 DEF Updated
<1>9. ASSUME NEW b \in 1 .. full, NEW t \in 0 .. 63
      PROVE  /\ cut[b] = [i \in 0 .. 63 |-> byte[64 * (b - 1) + i]]
             /\ cut[b][t] = 64 * (q + (b - 1)) + t
  <2>1. PICK x \in 0 .. all - 1 : x = 64 * (b - 1) + t
    BY <1>3, <1>4
  <2>2. cut[b] = [i \in 0 .. 63 |-> byte[64 * (b - 1) + i]]
    BY <1>7 DEF CutBlocks
  <2>3. cut[b][t] = byte[x]
    BY <2>1, <2>2
  <2>4. byte[x] = 64 * q + x
    BY <1>6
  <2> QED  BY <1>2, <2>1, <2>2, <2>3, <2>4
<1>10. cut \in Blocks64 /\ Len(cut) = full
  <2>1. ASSUME NEW b \in 1 .. full PROVE cut[b] \in Row64
    <3>1. ASSUME NEW i \in 0 .. 63 PROVE byte[64 * (b - 1) + i] \in Int
      <4>1. PICK x \in 0 .. all - 1 : x = 64 * (b - 1) + i
        BY <1>3, <1>4
      <4> QED  BY <1>6, <1>2, <4>1
    <3>2. cut[b] = [i \in 0 .. 63 |-> byte[64 * (b - 1) + i]]
      BY <1>7 DEF CutBlocks
    <3> QED  BY <3>1, <3>2 DEF Row64
  <2>2. cut \in [1 .. full -> Row64]
    <3>1. cut = [b \in 1 .. full |-> cut[b]]
      BY <1>7 DEF CutBlocks
    <3> QED  BY <2>1, <3>1
  <2> QED  BY <2>2 DEF Blocks64
<1>11. /\ res.blocks \in Blocks64 /\ Len(res.blocks) = q + full
       /\ \A b \in 1 .. q + full : res.blocks[b] = IF b <= q THEN ctx.blocks[b] ELSE cut[b - q]
  <2>1. PICK s \in Blocks64 : s = ctx.blocks /\ Len(s) = q
    BY <1>1
  <2>2. /\ s \o cut \in Blocks64 /\ Len(s \o cut) = q + full
        /\ \A b \in 1 .. q + full : (s \o cut)[b] = IF b <= q THEN s[b] ELSE cut[b - q]
    BY <1>10, <2>1, ConcatProperties, ZenonT(60) DEF Blocks64
  <2> QED  BY <1>8, <2>1, <2>2
<1>12. ASSUME NEW b \in 1 .. q + full, NEW t \in 0 .. 63
       PROVE  res.blocks[b][t] = 64 * (b - 1) + t
  <2>1. CASE b <= q
    <3>1. b \in 1 .. q
      BY <1>2, <2>1
    <3>2. ctx.blocks[b][t] = 64 * (b - 1) + t
      BY <1>1, <3>1
    <3>3. res.blocks[b] = ctx.blocks[b]
      BY <1>11, <2>1
    <3> QED  BY <3>2, <3>3
  <2>2. CASE ~(b <= q)
    <3>1. PICK c \in 1 .. full : c = b - q
      BY <1>2, <2>2
    <3>2. cut[c][t] = 64 * (q + (c - 1)) + t
      BY <1>9
    <3>3. res.blocks[b] = cut[c]
      BY <1>11, <2>2, <3>1
    <3>4. 64 * (q + (c - 1)) + t = 64 * (b - 1) + t
      BY <1>2, <3>1
    <3> QED  BY <3>2, <3>3, <3>4
  <2> QED  BY <2>1, <2>2
<1>13. ASSUME NEW t \in 0 .. left - 1 PROVE res.data[t] = 64 * (q + full) + t
  <2>1. PICK x \in 0 .. all - 1 : x = 64 * full + t
    BY <1>3, <1>4
  <2>2. t \in 0 .. 63 /\ t < left /\ x >= 0
    BY <1>4, <2>1
  <2>3. res.data[t] = byte[x]
    BY <1>8, <2>1, <2>2 DEF BufferAfter
  <2>4. byte[x] = 64 * q + x
    BY <1>6
  <2> QED  BY <1>4, <1>2, <2>1, <2>3, <2>4
<1>14. Fed(res, len + bytes, q + full, left)
  <2>1. q + full \in Nat /\ len + bytes = 64 * (q + full) + left
    BY <1>3, <1>4, <1>2
  <2>2. res.bitlen = 512 * (q + full)
    BY <1>1, <1>4, <1>8
  <2> QED  BY <1>4, <1>8, <1>11, <1>12, <1>13, <2>1, <2>2 DEF Fed
<1> QED  BY <1>14

\* Byte j of what follows q whole blocks: r message bytes, and padding to the end.
Ending(j, r, before, end, count) ==
  IF j < r THEN before + j ELSE IF j = r THEN Mark ELSE IF j < end - count THEN Zero ELSE Length
Marked(ctx, end) ==
  [i \in 0 .. 63 |-> IF i < ctx.datalen THEN ctx.data[i]
                     ELSE IF i = ctx.datalen THEN Mark
                     ELSE IF i < end THEN Zero ELSE Length]
Last == [i \in 0 .. 63 |-> IF i < 56 THEN Zero ELSE Length]
\* The m blocks of 64 that end a message.
EndingBlocks(tail, m, q, r) ==
  /\ m = (IF r < 56 THEN 1 ELSE 2) /\ tail \in Blocks64 /\ Len(tail) = m
  /\ \A b \in 1 .. m : \A t \in 0 .. 63 :
       tail[b][t] = Ending(64 * (b - 1) + t, r, 64 * q, 64 * m, 8)

\* The block the mark goes to.
LEMMA MarkedIs ==
  ASSUME NEW ctx, NEW len, NEW q, NEW r, Fed(ctx, len, q, r), NEW m \in {1, 2},
         NEW end, end = (IF m = 1 THEN 56 ELSE 64), m = (IF r < 56 THEN 1 ELSE 2)
  PROVE  /\ Marked(ctx, end) \in Row64
         /\ \A t \in 0 .. 63 : Marked(ctx, end)[t] = Ending(t, r, 64 * q, 64 * m, 8)
<1>1. q \in Nat /\ r \in 0 .. 63 /\ ctx.datalen = r /\ \A t \in 0 .. r - 1 : ctx.data[t] = 64 * q + t
  BY DEF Fed
<1>2. PICK row : row = Marked(ctx, end)
  OBVIOUS
<1>3. ASSUME NEW t \in 0 .. 63 PROVE row[t] = Ending(t, r, 64 * q, 64 * m, 8) /\ row[t] \in Int
  <2>1. row[t] = IF t < r THEN ctx.data[t] ELSE IF t = r THEN Mark ELSE IF t < end THEN Zero ELSE Length
    BY <1>1, <1>2 DEF Marked
  <2>2. t < r => ctx.data[t] = 64 * q + t
    BY <1>1
  <2>3. t > r => (t < end <=> t < 64 * m - 8)
    BY <1>1
  <2>4. row[t] = Ending(t, r, 64 * q, 64 * m, 8)
    BY <1>1, <2>1, <2>2, <2>3 DEF Ending
  <2>5. row[t] \in Int
    BY <1>1, <2>1, <2>2 DEF Mark, Zero, Length
  <2> QED  BY <2>4, <2>5
<1>4. row \in Row64
  <2>1. row = [t \in 0 .. 63 |-> row[t]]
    BY <1>2 DEF Marked
  <2> QED  BY <1>3, <2>1 DEF Row64
<1> QED  BY <1>2, <1>3, <1>4

Ended(res, ctx, len, tail, m, q, r) ==
  EndingBlocks(tail, m, q, r) /\ res.blocks = ctx.blocks \o tail /\ res.bits = 8 * len

\* sha256_final ends the message as prescribed: in one block if mark and length fit.
LEMMA EndingIs ==
  ASSUME NEW ctx, NEW len, NEW q, NEW r, Fed(ctx, len, q, r),
         NEW res, res = sha256_final(ctx)
  PROVE  \E tail \in Blocks64, m \in {1, 2} : Ended(res, ctx, len, tail, m, q, r)
<1>1. q \in Nat /\ r \in 0 .. 63 /\ len = 64 * q + r /\ ctx.datalen = r /\ ctx.bitlen = 512 * q
  BY DEF Fed
<1>2. PICK tail : tail = IF r < 56 THEN <<Marked(ctx, 56)>> ELSE <<Marked(ctx, 64), Last>>
  OBVIOUS
<1>3. sha256_final(ctx) =
        [blocks |-> ctx.blocks \o IF ctx.datalen < 56 THEN <<Marked(ctx, 56)>> ELSE <<Marked(ctx, 64), Last>>,
         bits   |-> ctx.bitlen + 8 * ctx.datalen]
  BY Zenon DEF sha256_final, Marked, Last
<1>4. res.blocks = ctx.blocks \o tail /\ res.bits = 8 * len
  <2>1. PICK blocks : blocks = ctx.blocks \o tail
    OBVIOUS
  <2>2. res = [blocks |-> blocks, bits |-> ctx.bitlen + 8 * ctx.datalen]
    BY <1>1, <1>2, <1>3, <2>1
  <2>3. ctx.bitlen + 8 * ctx.datalen = 8 * len
    BY <1>1
  <2> QED  BY <2>1, <2>2, <2>3
<1>5. CASE r < 56
  <2>1. PICK row \in Row64 : row = Marked(ctx, 56) /\ \A t \in 0 .. 63 : row[t] = Ending(t, r, 64 * q, 64 * 1, 8)
    BY <1>5, MarkedIs
  <2>2. tail = <<row>>
    BY <1>2, <1>5, <2>1
  <2>3. tail \in Blocks64 /\ Len(tail) = 1 /\ tail[1] = row
    BY <2>2 DEF Blocks64
  <2>4. ASSUME NEW b \in 1 .. 1, NEW t \in 0 .. 63
        PROVE  tail[b][t] = Ending(64 * (b - 1) + t, r, 64 * q, 64 * 1, 8)
    <3>1. b = 1 /\ 64 * (b - 1) + t = t
      OBVIOUS
    <3> QED  BY <2>1, <2>3, <3>1
  <2>5. EndingBlocks(tail, 1, q, r)
    BY <1>5, <2>3, <2>4 DEF EndingBlocks
  <2>6. Ended(res, ctx, len, tail, 1, q, r) /\ tail \in Blocks64
    BY <1>4, <2>3, <2>5, Zenon DEF Ended
  <2> QED  BY <2>6
<1>6. CASE ~(r < 56)
  <2>1. PICK row \in Row64 : row = Marked(ctx, 64) /\ \A t \in 0 .. 63 : row[t] = Ending(t, r, 64 * q, 64 * 2, 8)
    BY <1>6, MarkedIs
  <2>2. PICK last \in Row64 : last = Last /\ \A t \in 0 .. 63 : last[t] = Ending(64 + t, r, 64 * q, 64 * 2, 8)
    <3>1. Last \in Row64
      BY DEF Last, Row64, Zero, Length
    <3>2. ASSUME NEW t \in 0 .. 63 PROVE Last[t] = Ending(64 + t, r, 64 * q, 64 * 2, 8)
      BY <1>1 DEF Last, Ending
    <3> QED  BY <3>1, <3>2
  <2>3. tail = <<row, last>>
    BY <1>2, <1>6, <2>1, <2>2
  <2>4. tail \in Blocks64 /\ Len(tail) = 2 /\ tail[1] = row /\ tail[2] = last
    BY <2>3 DEF Blocks64
  <2>5. ASSUME NEW b \in 1 .. 2, NEW t \in 0 .. 63
        PROVE  tail[b][t] = Ending(64 * (b - 1) + t, r, 64 * q, 64 * 2, 8)
    <3>1. (b = 1 /\ 64 * (b - 1) + t = t) \/ (b = 2 /\ 64 * (b - 1) + t = 64 + t)
      OBVIOUS
    <3> QED  BY <2>1, <2>2, <2>4, <3>1
  <2>6. EndingBlocks(tail, 2, q, r)
    BY <1>6, <2>4, <2>5 DEF EndingBlocks
  <2>7. Ended(res, ctx, len, tail, 2, q, r) /\ tail \in Blocks64
    BY <1>4, <2>4, <2>6, Zenon DEF Ended
  <2> QED  BY <2>7
<1> QED  BY <1>5, <1>6

\* All blocks of the message together (sha256.c 112-144).
LEMMA FinalRight ==
  ASSUME NEW ctx, NEW len, NEW q, NEW r, Fed(ctx, len, q, r),
         NEW res, res = sha256_final(ctx)
  PROVE  Hashes(res, len, 64, 8)
<1>1. PICK tail \in Blocks64, m \in {1, 2} : Ended(res, ctx, len, tail, m, q, r)
  BY EndingIs
<1>2. EndingBlocks(tail, m, q, r) /\ res.blocks = ctx.blocks \o tail /\ res.bits = 8 * len
  BY <1>1, Zenon DEF Ended
<1>3. q \in Nat /\ r \in 0 .. 63 /\ len = 64 * q + r
  BY DEF Fed
<1>4. PICK fed \in Blocks64 : /\ fed = ctx.blocks /\ Len(fed) = q
                              /\ \A b \in 1 .. q : \A t \in 0 .. 63 : fed[b][t] = 64 * (b - 1) + t
  BY ZenonT(60) DEF Fed
<1>5. /\ m = (IF r < 56 THEN 1 ELSE 2) /\ tail \in Blocks64 /\ Len(tail) = m
      /\ \A b \in 1 .. m : \A t \in 0 .. 63 :
           tail[b][t] = Ending(64 * (b - 1) + t, r, 64 * q, 64 * m, 8)
  BY <1>2 DEF EndingBlocks
<1>6. PICK blocks : /\ blocks = res.blocks /\ Len(blocks) = q + m
                    /\ \A b \in 1 .. q + m : blocks[b] = IF b <= q THEN fed[b] ELSE tail[b - q]
  <2>1. /\ Len(fed \o tail) = q + m
        /\ \A b \in 1 .. q + m : (fed \o tail)[b] = IF b <= q THEN fed[b] ELSE tail[b - q]
    <3>1. fed \in Blocks64 /\ tail \in Blocks64 /\ Len(fed) = q /\ Len(tail) = m
      BY <1>4, <1>5
    <3> QED  BY <3>1, ConcatProperties DEF Blocks64
  <2> QED  BY <1>2, <1>4, <2>1
<1>7. PICK end \in Nat : end = 64 * (q + m)
  BY <1>3
<1>8. 64 * ((len + 1 + 8 + 64 - 1) \div 64) = end
  <2>1. m = (IF r < 56 THEN 1 ELSE 2)
    BY <1>5
  <2> QED  BY <1>3, <1>7, <2>1
<1>9. ASSUME NEW i \in 0 .. end - 1
      PROVE  blocks[1 + (i \div 64)][i % 64]
               = IF i < len THEN i ELSE IF i = len THEN Mark ELSE IF i < end - 8 THEN Zero ELSE Length
  <2>1. PICK b \in 1 .. q + m, t \in 0 .. 63 : b = 1 + (i \div 64) /\ t = i % 64 /\ i = 64 * (b - 1) + t
    <3>1. i \div 64 \in Nat /\ i % 64 \in 0 .. 63 /\ i = 64 * (i \div 64) + (i % 64)
      BY Divided
    <3>2. 1 + (i \div 64) \in 1 .. q + m
      BY <1>3, <1>7, <3>1
    <3> QED  BY <3>1, <3>2
  <2>2. CASE b <= q
    <3>1. b \in 1 .. q
      BY <1>3, <2>2
    <3>2. fed[b][t] = 64 * (b - 1) + t
      BY <1>4, <3>1
    <3>3. blocks[b] = fed[b]
      BY <1>6, <2>2
    <3>4. i < len
      BY <1>3, <2>1, <3>1
    <3> QED  BY <2>1, <3>2, <3>3, <3>4
  <2>3. CASE ~(b <= q)
    <3>1. PICK c \in 1 .. m : c = b - q
      BY <1>3, <2>3
    <3>2. tail[c][t] = Ending(64 * (c - 1) + t, r, 64 * q, 64 * m, 8)
      BY <1>5
    <3>3. blocks[b] = tail[c]
      BY <1>6, <2>3, <3>1
    <3>4. PICK j \in Nat : j = 64 * (c - 1) + t /\ i = 64 * q + j
      BY <1>3, <2>1, <3>1
    <3>5. Ending(j, r, 64 * q, 64 * m, 8)
            = IF i < len THEN i ELSE IF i = len THEN Mark ELSE IF i < end - 8 THEN Zero ELSE Length
      BY <1>3, <1>7, <3>4 DEF Ending
    <3> QED  BY <2>1, <3>2, <3>3, <3>4, <3>5
  <2> QED  BY <2>2, <2>3
<1>10. [i \in 0 .. end - 1 |-> blocks[1 + (i \div 64)][i % 64]] = Prescribed(len, 64, 8)
  <2>1. Prescribed(len, 64, 8) =
          [i \in 0 .. end - 1 |-> IF i < len THEN i ELSE IF i = len THEN Mark
                                   ELSE IF i < end - 8 THEN Zero ELSE Length]
    BY <1>8 DEF Prescribed
  <2> QED  BY <1>9, <2>1
<1>11. 64 * Len(res.blocks) = end
  BY <1>6, <1>7
<1> QED  BY <1>2, <1>6, <1>10, <1>11 DEF Hashes

Row128 == [0 .. 127 -> Int]
XByte(i, full, rest, size) ==
  CASE i < rest -> 128 * full + i [] i = rest -> Mark
    [] i >= size - 9 -> Length [] OTHER -> Zero
XBlocks(full, rest, size, m) ==
  [b \in 1 .. m |-> [i \in 0 .. 127 |-> XByte(128 * (b - 1) + i, full, rest, size)]]
WholeBlocks(full) == [b \in 1 .. full |-> [i \in 0 .. 127 |-> 128 * (b - 1) + i]]

IsCryptoHash(digest, len, q, r, m) ==
  digest = [blocks |-> WholeBlocks(q) \o XBlocks(q, r, 128 * m, m), bits |-> 8 * len]

\* crypto_hash's blocks: the whole ones, and what x holds.
LEMMA CryptoHashIs ==
  ASSUME NEW len \in Nat, NEW q \in Nat, NEW r \in 0 .. 127, len = 128 * q + r,
         NEW m, m = (IF r < 112 THEN 1 ELSE 2)
  PROVE  IsCryptoHash(crypto_hash(len), len, q, r, m)
<1>1. crypto_hash(len) =
        [blocks |-> WholeBlocks(len \div 128)
                    \o XBlocks(len \div 128, len % 128, IF len % 128 < 112 THEN 128 ELSE 256,
                               (IF len % 128 < 112 THEN 128 ELSE 256) \div 128),
         bits   |-> 8 * len]
  BY Zenon DEF crypto_hash, WholeBlocks, XBlocks, XByte
<1>2. len \div 128 = q /\ len % 128 = r
  BY Quotient128
<1>3. (IF len % 128 < 112 THEN 128 ELSE 256) = 128 * m
  BY <1>2
<1>4. (IF len % 128 < 112 THEN 128 ELSE 256) \div 128 = m
  BY <1>2
<1> QED  BY <1>1, <1>2, <1>3, <1>4, ZenonT(60) DEF IsCryptoHash

AreEnding(tail, m, q, r) ==
  /\ tail \in Seq(Row128) /\ Len(tail) = m
  /\ \A b \in 1 .. m : \A t \in 0 .. 127 :
       tail[b][t] = Ending(128 * (b - 1) + t, r, 128 * q, 128 * m, 9)
AreWhole(fed, q) ==
  /\ fed \in Seq(Row128) /\ Len(fed) = q
  /\ \A b \in 1 .. q : \A t \in 0 .. 127 : fed[b][t] = 128 * (b - 1) + t

\* What crypto_hash's x holds.
LEMMA XBlocksAre ==
  ASSUME NEW q \in Nat, NEW r \in 0 .. 127, NEW m \in {1, 2}, m = (IF r < 112 THEN 1 ELSE 2),
         NEW tail, tail = XBlocks(q, r, 128 * m, m)
  PROVE  AreEnding(tail, m, q, r)
<1>1. ASSUME NEW j \in Nat
      PROVE  /\ XByte(j, q, r, 128 * m) = Ending(j, r, 128 * q, 128 * m, 9)
             /\ XByte(j, q, r, 128 * m) \in Int
  <2>1. CASE j < r
    BY <2>1 DEF XByte, Ending
  <2>2. CASE j = r
    BY <2>2 DEF XByte, Ending, Mark
  <2>3. CASE j > r /\ j >= 128 * m - 9
    BY <2>3 DEF XByte, Ending, Length
  <2>4. CASE j > r /\ j < 128 * m - 9
    BY <2>4 DEF XByte, Ending, Zero
  <2> QED  BY <2>1, <2>2, <2>3, <2>4
<1>2. ASSUME NEW b \in 1 .. m
      PROVE  /\ tail[b] \in Row128
             /\ \A t \in 0 .. 127 : tail[b][t] = Ending(128 * (b - 1) + t, r, 128 * q, 128 * m, 9)
  <2>1. PICK row : row = tail[b]
    OBVIOUS
  <2>2. row = [i \in 0 .. 127 |-> XByte(128 * (b - 1) + i, q, r, 128 * m)]
    BY <2>1 DEF XBlocks
  <2>3. ASSUME NEW t \in 0 .. 127
        PROVE  row[t] = Ending(128 * (b - 1) + t, r, 128 * q, 128 * m, 9) /\ row[t] \in Int
    <3>1. PICK j \in Nat : j = 128 * (b - 1) + t
      OBVIOUS
    <3>2. row[t] = XByte(j, q, r, 128 * m)
      BY <2>2, <3>1
    <3> QED  BY <1>1, <3>1, <3>2
  <2>4. row \in Row128
    <3>1. row = [t \in 0 .. 127 |-> row[t]]
      BY <2>2
    <3> QED  BY <2>3, <3>1 DEF Row128
  <2> QED  BY <2>1, <2>3, <2>4
<1>3. tail \in [1 .. m -> Row128]
  <2>1. tail = [b \in 1 .. m |-> tail[b]]
    BY DEF XBlocks
  <2> QED  BY <1>2, <2>1
<1>4. tail \in Seq(Row128) /\ Len(tail) = m
  BY <1>3
<1> QED  BY <1>2, <1>4, ZenonT(60) DEF AreEnding

\* And the blocks before it.
LEMMA WholeBlocksAre ==
  ASSUME NEW q \in Nat, NEW fed, fed = WholeBlocks(q)
  PROVE  AreWhole(fed, q)
<1>1. ASSUME NEW b \in 1 .. q
      PROVE  fed[b] \in Row128 /\ \A t \in 0 .. 127 : fed[b][t] = 128 * (b - 1) + t
  BY DEF WholeBlocks, Row128
<1>2. fed \in [1 .. q -> Row128]
  <2>1. fed = [b \in 1 .. q |-> fed[b]]
    BY DEF WholeBlocks
  <2> QED  BY <1>1, <2>1
<1>3. fed \in Seq(Row128) /\ Len(fed) = q
  BY <1>2
<1> QED  BY <1>1, <1>3 DEF AreWhole

\* crypto_hash's blocks are those prescribed (tweetnacl.c 559-586).
LEMMA CryptoHashRight ==
  ASSUME NEW len \in Nat
  PROVE  Hashes(crypto_hash(len), len, 128, 16)
<1>1. PICK q \in Nat, r \in 0 .. 127 : len = 128 * q + r
  <2>1. len \div 128 \in Nat /\ len % 128 \in 0 .. 127 /\ len = 128 * (len \div 128) + (len % 128)
    BY Divided
  <2> QED  BY <2>1, Zenon
<1>2. PICK m \in {1, 2} : m = IF r < 112 THEN 1 ELSE 2
  OBVIOUS
<1>3. PICK fed : fed = WholeBlocks(q)
  OBVIOUS
<1>4. PICK tail : tail = XBlocks(q, r, 128 * m, m)
  OBVIOUS
<1>5. fed \in Seq(Row128) /\ Len(fed) = q
  BY <1>3, WholeBlocksAre DEF AreWhole
<1>6. \A b \in 1 .. q : \A t \in 0 .. 127 : fed[b][t] = 128 * (b - 1) + t
  <2>1. AreWhole(fed, q)
    BY <1>3, WholeBlocksAre
  <2> QED  BY <2>1, Zenon DEF AreWhole
<1>7. AreEnding(tail, m, q, r)
  BY <1>2, <1>4, XBlocksAre
<1>8. tail \in Seq(Row128) /\ Len(tail) = m
  BY <1>7, Zenon DEF AreEnding
<1>9. \A b \in 1 .. m : \A t \in 0 .. 127 :
        tail[b][t] = Ending(128 * (b - 1) + t, r, 128 * q, 128 * m, 9)
  BY <1>7, Zenon DEF AreEnding
<1>10. PICK blocks : /\ blocks = fed \o tail /\ Len(blocks) = q + m
                    /\ \A b \in 1 .. q + m : blocks[b] = IF b <= q THEN fed[b] ELSE tail[b - q]
  <2>1. /\ Len(fed \o tail) = q + m
        /\ \A b \in 1 .. q + m : (fed \o tail)[b] = IF b <= q THEN fed[b] ELSE tail[b - q]
    BY <1>5, <1>8, ConcatProperties
  <2> QED  BY <2>1
<1>11. crypto_hash(len) = [blocks |-> blocks, bits |-> 8 * len]
  <2>1. IsCryptoHash(crypto_hash(len), len, q, r, m)
    BY <1>1, <1>2, CryptoHashIs
  <2> QED  BY <1>3, <1>4, <1>10, <2>1, Zenon DEF IsCryptoHash
<1>12. PICK end \in Nat : end = 128 * (q + m)
  BY <1>2
<1>13. 128 * ((len + 1 + 16 + 128 - 1) \div 128) = end
  BY <1>1, <1>2, <1>12
<1>14. ASSUME NEW i \in 0 .. end - 1
       PROVE  blocks[1 + (i \div 128)][i % 128]
                = IF i < len THEN i ELSE IF i = len THEN Mark ELSE IF i < end - 9 THEN Zero ELSE Length
  <2>1. PICK b \in 1 .. q + m, t \in 0 .. 127 : b = 1 + (i \div 128) /\ t = i % 128 /\ i = 128 * (b - 1) + t
    <3>1. i \div 128 \in Nat /\ i % 128 \in 0 .. 127 /\ i = 128 * (i \div 128) + (i % 128)
      BY Divided
    <3>2. 1 + (i \div 128) \in 1 .. q + m
      BY <1>2, <1>12, <3>1
    <3> QED  BY <3>1, <3>2
  <2>2. CASE b <= q
    <3>1. b \in 1 .. q
      BY <2>2
    <3>2. fed[b][t] = 128 * (b - 1) + t
      BY <1>6, <3>1
    <3>3. blocks[b] = fed[b]
      BY <1>10, <2>2
    <3>4. i < len
      BY <1>1, <2>1, <3>1
    <3> QED  BY <2>1, <3>2, <3>3, <3>4
  <2>3. CASE ~(b <= q)
    <3>1. PICK c \in 1 .. m : c = b - q
      BY <1>2, <2>3
    <3>2. tail[c][t] = Ending(128 * (c - 1) + t, r, 128 * q, 128 * m, 9)
      BY <1>9, ZenonT(60)
    <3>3. blocks[b] = tail[c]
      BY <1>10, <2>3, <3>1
    <3>4. PICK j \in Nat : j = 128 * (c - 1) + t /\ i = 128 * q + j
      BY <1>2, <2>1, <3>1
    <3>5. Ending(j, r, 128 * q, 128 * m, 9)
            = IF i < len THEN i ELSE IF i = len THEN Mark ELSE IF i < end - 9 THEN Zero ELSE Length
      BY <1>1, <1>2, <1>12, <3>4 DEF Ending
    <3> QED  BY <2>1, <3>2, <3>3, <3>4, <3>5
  <2> QED  BY <2>2, <2>3
<1>15. [i \in 0 .. end - 1 |-> blocks[1 + (i \div 128)][i % 128]] = Prescribed(len, 128, 16)
  <2>1. Prescribed(len, 128, 16) =
          [i \in 0 .. end - 1 |-> IF i < len THEN i ELSE IF i = len THEN Mark
                                   ELSE IF i < end - 9 THEN Zero ELSE Length]
    BY <1>13 DEF Prescribed
  <2> QED  BY <1>14, <2>1, ZenonT(60)
<1>16. 128 * Len(blocks) = end
  BY <1>10, <1>12
<1>17. PICK digest : digest = crypto_hash(len) /\ digest.blocks = blocks /\ digest.bits = 8 * len
  BY <1>11
<1>18. Hashes(digest, len, 128, 16)
  BY <1>15, <1>16, <1>17 DEF Hashes
<1> QED  BY <1>17, <1>18

\* A new context has been fed nothing.
LEMMA FedNothing == Fed(sha256_init, 0, 0, 0)
<1>1. PICK e \in Blocks64 : e = <<>> /\ Len(e) = 0
  <2>1. <<>> \in Blocks64 /\ Len(<<>>) = 0
    BY DEF Blocks64
  <2> QED  BY <2>1, Zenon
<1>2. PICK ctx : ctx = sha256_init
  OBVIOUS
<1>3. ctx.datalen = 0 /\ ctx.bitlen = 0 /\ ctx.blocks = e
  BY <1>1, <1>2 DEF sha256_init
<1>4. Fed(ctx, 0, 0, 0)
  BY <1>1, <1>3 DEF Fed
<1> QED  BY <1>2, <1>4

\* A message hashed with one call.
LEMMA OneCall ==
  ASSUME NEW len \in Nat
  PROVE  Hashes(sha256_final(sha256_update(sha256_init, 0, len)), len, 64, 8)
<1>1. PICK ctx : ctx = sha256_update(sha256_init, 0, len)
  OBVIOUS
<1>2. PICK q, r : Fed(ctx, 0 + len, q, r)
  BY <1>1, FedNothing, FedMore
<1>3. 0 + len = len
  OBVIOUS
<1>4. Fed(ctx, len, q, r)
  BY <1>2, <1>3
<1>5. Hashes(sha256_final(ctx), len, 64, 8)
  BY <1>4, FinalRight
<1> QED  BY <1>1, <1>5

\* A message behind a block, with two, as HMAC does.
LEMMA TwoCalls ==
  ASSUME NEW len \in Nat
  PROVE  Hashes(sha256_final(sha256_update(sha256_update(sha256_init, 0, 64), 64, len)), 64 + len, 64, 8)
<1>1. PICK ctx : ctx = sha256_update(sha256_init, 0, 64)
  OBVIOUS
<1>2. PICK q, r : Fed(ctx, 0 + 64, q, r)
  BY <1>1, FedNothing, FedMore
<1>3. PICK next : next = sha256_update(ctx, 64, len)
  OBVIOUS
<1>4. Fed(ctx, 64, q, r)
  BY <1>2
<1>5. PICK q2, r2 : Fed(next, 64 + len, q2, r2)
  BY <1>3, <1>4, FedMore
<1>6. Hashes(sha256_final(next), 64 + len, 64, 8)
  BY <1>5, FinalRight
<1> QED  BY <1>1, <1>3, <1>6

\* Every message, however long, reaches the transform in the blocks FIPS 180-4
\* prescribes, alone and under HMAC (sha256.c 99-144, sshcrypto.c 27-79).
THEOREM HashesAlwaysPadded == StreamSpec => []HashPadded
<1>1. ASSUME n \in Nat \ {0} PROVE HashPadded
  <2>1. Hashes(ssh_sha256(n), n, HashBlock, 8)
    BY <1>1, OneCall DEF ssh_sha256, HashBlock
  <2>2. Hashes(sha1_final(sha1_update(sha1_init, 0, n)), n, HashBlock, 8)
    BY <1>1, OneCall DEF sha1_final, sha1_update, sha1_init, HashBlock
  <2>3. Hashes(crypto_hash(n), n, 128, 16)
    BY <1>1, CryptoHashRight
  <2>4. ASSUME NEW size \in {20, 32}, NEW mac, mac = hmac_block(n, n, size)
        PROVE  /\ Hashes(mac.inner, HashBlock + n, HashBlock, 8)
               /\ Hashes(mac.outer, HashBlock + size, HashBlock, 8)
               /\ \A i \in 0 .. 63 :
                    IF n <= 64 THEN mac.k[i] = IF i < n THEN i ELSE Zero
                               ELSE mac.k[i] = IF i < size THEN Digest ELSE Zero
    <3>1. PICK inner, outer, k :
            /\ inner = sha256_final(sha256_update(sha256_update(sha256_init, 0, 64), 64, n))
            /\ outer = sha256_final(sha256_update(sha256_update(sha256_init, 0, 64), 64, size))
            /\ k = [i \in 0 .. 63 |-> IF n > 64 THEN IF i < size THEN Digest ELSE Zero
                                      ELSE IF i < n THEN i ELSE Zero]
      OBVIOUS
    <3>2. hmac_block(n, n, size) = [k |-> k, inner |-> inner, outer |-> outer]
      BY <3>1, Zenon DEF hmac_block, HashBlock
    <3>3. mac.k = k /\ mac.inner = inner /\ mac.outer = outer
      BY <2>4, <3>2
    <3>4. Hashes(inner, 64 + n, 64, 8) /\ Hashes(outer, 64 + size, 64, 8)
      BY <1>1, <3>1, TwoCalls
    <3>5. \A i \in 0 .. 63 : k[i] = IF n > 64 THEN IF i < size THEN Digest ELSE Zero
                                     ELSE IF i < n THEN i ELSE Zero
      BY <3>1
    <3>6. n <= 64 <=> ~(n > 64)
      BY <1>1
    <3> QED  BY <3>3, <3>4, <3>5, <3>6 DEF HashBlock
  <2> QED  BY <2>1, <2>2, <2>3, <2>4, Zenon DEF HashPadded
<1> QED  BY <1>1, SizesAreNatural, PTL

-----------------------------------------------------------------------------
(* Formats: arithmetic modulo P. *)

\* Field's arithmetic at the size FieldExact looks at, and at the code's.
Small == INSTANCE FieldProofs WITH Limbs <- 3, LimbBits <- 7
Real  == INSTANCE FieldProofs WITH Limbs <- 16, LimbBits <- 16

LEMMA RingIsSmall ==
  /\ Ring!Top = Small!Top /\ Ring!Base = Small!Base /\ Ring!P = Small!P
  /\ \A a : Ring!Value(a) = Small!Value(a) /\ Ring!Digits(a) = Small!Digits(a)
  /\ \A a : Ring!pack25519(a) = Small!pack25519(a)
  /\ \A a, b : Ring!M(a, b) = Small!M(a, b)
<1> USE DEF Ring!Top, Small!Top, Ring!Base, Small!Base, Ring!gf, Small!gf, Ring!Weight, Small!Weight
<1>1. Ring!Top = Small!Top /\ Ring!Base = Small!Base
  BY Zenon
<1>2. Ring!P = Small!P
  BY Zenon DEF Ring!P, Small!P
<1>3. ASSUME NEW a PROVE Ring!Value(a) = Small!Value(a) /\ Ring!Digits(a) = Small!Digits(a)
  BY Zenon DEF Ring!Value, Small!Value, Ring!Digits, Small!Digits
<1> USE DEF Ring!car25519, Small!car25519, Ring!Carries, Small!Carries, Ring!Carry, Small!Carry
<1>4. ASSUME NEW a PROVE Ring!pack25519(a) = Small!pack25519(a)
  BY Zenon DEF Ring!pack25519, Small!pack25519, Ring!LessP, Small!LessP, Ring!sel25519, Small!sel25519,
               Ring!Borrow, Small!Borrow
<1>5. ASSUME NEW a, NEW b PROVE Ring!M(a, b) = Small!M(a, b)
  BY Zenon DEF Ring!M, Small!M, Ring!Product, Small!Product, Ring!Column, Small!Column
<1> QED  BY <1>1, <1>2, <1>3, <1>4, <1>5, Zenon

LEMMA SmallSized ==
  /\ Small!Sized /\ Small!Base = 128 /\ Small!Top = 2
  /\ Small!P \in Nat \ {0} /\ Small!gf = [0 .. 2 -> Int]
<1>1. Small!Base = 128 /\ Small!Top = 2
  BY DEF Small!Base, Small!Top
<1>2. Small!Sized
  BY <1>1 DEF Small!Sized
<1>3. /\ Small!Weight[0] = 1
      /\ \A i \in 1 .. 3 : Small!Weight[i] = Small!Base * Small!Weight[i - 1]
  BY <1>2, Small!WeightNext
<1>4. Small!P = 64 * Small!Weight[2] - 19
  BY <1>1 DEF Small!P
<1>5. Small!Weight[1] = 128 /\ Small!Weight[2] = 128 * 128
  BY <1>1, <1>3
<1> QED  BY <1>1, <1>2, <1>4, <1>5 DEF Small!gf

\* Three times what the limbs of a product reach.
LEMMA SmallFits == \E g, k : Small!Exactly(g, k)
<1>1. Small!Roomy(7507)
  <2>1. /\ Small!Weight[0] = 1
        /\ \A i \in 1 .. 3 : Small!Weight[i] = Small!Base * Small!Weight[i - 1]
    BY SmallSized, Small!WeightNext
  <2>2. Small!Weight[1] = 128 /\ Small!Weight[2] = 128 * 128
    BY <2>1, SmallSized
  <2>3. Small!Weight[3] = 128 * (128 * 128)
    BY <2>1, <2>2, SmallSized
  <2> QED  BY <2>3, SMT DEF Small!Roomy
<1>2. 3 * (Small!Base + 37) = 495
  BY SmallSized
<1>3. Small!Fits(495, 225732, 7507)
  BY <1>1, SmallSized, SMT DEF Small!Fits
<1>4. Small!Exactly(225732, 7507)
  BY <1>2, <1>3, SMT DEF Small!Exactly
<1> QED  BY <1>4, SMT

LEMMA DividesInto ==
  ASSUME NEW m \in Nat, m > 0, NEW x \in Int
  PROVE  x = m * (x \div m) + (x % m) /\ x \div m \in Int /\ x % m \in 0 .. m - 1
OBVIOUS

LEMMA DividesIntoOnce ==
  ASSUME NEW m \in Nat, m > 0, NEW q \in Int, NEW r \in 0 .. m - 1, NEW x \in Int, x = m * q + r
  PROVE  x \div m = q /\ x % m = r
OBVIOUS

\* The product TLC computes in two steps is the product.
LEMMA TimesIs ==
  ASSUME NEW a \in Nat, NEW b \in Nat, NEW m \in Nat \ {0}
  PROVE  Times(a, b, m) = (a * b) % m
<1>1. PICK e \in Nat, f \in Nat : e = b % 1024 /\ f = b \div 1024 /\ b = 1024 * f + e
  BY SMT
<1>2. PICK u \in Nat, v \in Nat, w \in Nat : u = a * e /\ v = a * 1024 /\ w = a * f
  <2>1. a * e \in Nat /\ a * 1024 \in Nat /\ a * f \in Nat
    OBVIOUS
  <2> QED  BY <2>1
<1>3. a * b = v * f + u
  <2>1. a * (1024 * f + e) = (a * 1024) * f + a * e
    OBVIOUS
  <2> QED  BY <1>1, <1>2, <2>1
<1>4. PICK q \in Int, r \in 0 .. m - 1 : r = v % m /\ v = m * q + r
  <2>1. v \in Int /\ m \in Nat /\ m > 0
    OBVIOUS
  <2>2. v = m * (v \div m) + (v % m) /\ v \div m \in Int /\ v % m \in 0 .. m - 1
    BY <2>1, DividesInto
  <2> QED  BY <2>2, Zenon
<1>5. PICK s \in Int, t \in 0 .. m - 1 : t = (r * f) % m /\ r * f = m * s + t
  <2>1. r * f \in Int /\ m \in Nat /\ m > 0
    OBVIOUS
  <2>2. r * f = m * ((r * f) \div m) + ((r * f) % m) /\ (r * f) \div m \in Int /\ (r * f) % m \in 0 .. m - 1
    BY <2>1, DividesInto
  <2> QED  BY <2>2, Zenon
<1>6. PICK i \in Int, j \in 0 .. m - 1 : j = u % m /\ u = m * i + j
  <2>1. u \in Int /\ m \in Nat /\ m > 0
    OBVIOUS
  <2>2. u = m * (u \div m) + (u % m) /\ u \div m \in Int /\ u % m \in 0 .. m - 1
    BY <2>1, DividesInto
  <2> QED  BY <2>2, Zenon
<1>7. PICK z \in Int : a * b = (j + t) + m * z
  <2>1. PICK c \in Int : c = q * f
    OBVIOUS
  <2>2. v * f = m * c + r * f
    <3>1. (m * q + r) * f = m * (q * f) + r * f
      OBVIOUS
    <3> QED  BY <1>4, <2>1, <3>1
  <2>3. m * (c + s + i) = m * c + m * s + m * i
    OBVIOUS
  <2>4. a * b = (j + t) + m * (c + s + i)
    BY <1>3, <1>5, <1>6, <2>2, <2>3
  <2> QED  BY <2>4
<1>8. (a * b) % m = (j + t) % m
  <2>1. j + t \in Int /\ m \in Nat /\ m > 0
    OBVIOUS
  <2>2. j + t = m * ((j + t) \div m) + ((j + t) % m) /\ (j + t) \div m \in Int /\ (j + t) % m \in 0 .. m - 1
    BY <2>1, DividesInto
  <2>3. PICK h \in Int, l \in 0 .. m - 1 : h = (j + t) \div m /\ l = (j + t) % m /\ j + t = m * h + l
    BY <2>2
  <2>4. m * (h + z) = m * h + m * z
    OBVIOUS
  <2>5. a * b = m * (h + z) + l
    <3>1. PICK y \in Int, x \in Int : y = m * h /\ x = m * z
      OBVIOUS
    <3>2. a * b = (m * h + l) + m * z
      BY <1>7, <2>3
    <3>3. a * b = (y + l) + x /\ m * (h + z) = y + x
      BY <2>4, <3>1, <3>2, Zenon
    <3> QED  BY <3>3
  <2>6. (a * b) % m = l
    <3>1. a * b \in Int /\ h + z \in Int
      OBVIOUS
    <3> QED  BY <2>1, <2>3, <2>5, <3>1, DividesIntoOnce
  <2> QED  BY <2>3, <2>6
<1>9. Times(a, b, m) = (((a * e) % m) + ((((a * 1024) % m) * f) % m)) % m
  BY <1>1 DEF Times
<1> QED  BY <1>2, <1>4, <1>5, <1>6, <1>8, <1>9

LEMMA ModOfProduct ==
  ASSUME NEW u \in Int, NEW v \in Int, NEW m \in Nat, m > 0
  PROVE  (u * v) % m = ((u % m) * (v % m)) % m
<1>1. u = m * (u \div m) + (u % m) /\ u \div m \in Int /\ u % m \in 0 .. m - 1
  BY DividesInto
<1>2. v = m * (v \div m) + (v % m) /\ v \div m \in Int /\ v % m \in 0 .. m - 1
  BY DividesInto
<1>3. PICK a \in Int, c \in 0 .. m - 1 : c = u % m /\ u = m * a + c
  BY <1>1, Zenon
<1>4. PICK b \in Int, d \in 0 .. m - 1 : d = v % m /\ v = m * b + d
  BY <1>2, Zenon
<1>5. c * d \in Int /\ u * v \in Int
  BY <1>3, <1>4
<1>6. c * d = m * ((c * d) \div m) + ((c * d) % m) /\ (c * d) \div m \in Int /\ (c * d) % m \in 0 .. m - 1
  BY <1>5, DividesInto
<1>7. PICK h \in Int, l \in 0 .. m - 1 : l = (c * d) % m /\ c * d = m * h + l
  BY <1>6, Zenon
<1>8. PICK z \in Int : u * v = m * z + c * d
  <2>1. (m * a + c) * (m * b + d) = m * (a * (m * b) + a * d + c * b) + c * d
    BY <1>3, <1>4
  <2>2. a * (m * b) + a * d + c * b \in Int
    BY <1>3, <1>4
  <2>3. u * v = m * (a * (m * b) + a * d + c * b) + c * d
    BY <1>3, <1>4, <2>1
  <2> QED  BY <2>2, <2>3, Zenon
<1>9. u * v = m * (z + h) + l
  <2>1. m * (z + h) = m * z + m * h
    OBVIOUS
  <2>2. PICK x \in Int, y \in Int : x = m * z /\ y = m * h
    OBVIOUS
  <2>3. u * v = x + (y + l) /\ m * (z + h) = x + y
    BY <1>7, <1>8, <2>1, <2>2, Zenon
  <2> QED  BY <2>2, <2>3
<1>10. (u * v) % m = l
  <2>1. PICK q \in Int : q = z + h
    OBVIOUS
  <2>2. PICK x \in Int : x = u * v
    BY <1>5
  <2>3. x = m * q + l
    BY <1>9, <2>1, <2>2, Zenon
  <2>4. m \in Nat /\ m > 0 /\ q \in Int /\ l \in 0 .. m - 1 /\ x \in Int
    BY <1>7, <2>1, <2>2
  <2>5. x % m = l
    BY <2>3, <2>4, DividesIntoOnce
  <2> QED  BY <2>2, <2>5, Zenon
<1> QED  BY <1>3, <1>4, <1>7, <1>10, Zenon

LEMMA ValueTyped ==
  ASSUME NEW a \in Small!gf
  PROVE  Small!Value(a) \in Int
BY SmallSized, Small!ValueIs

\* FieldExact, for whatever limbs: those no further out than three times what a product leaves
\* are packed exactly, their product is exact, and its limbs stay (tweetnacl.c 273-363).
THEOREM FieldAlwaysExact == StreamSpec => []FieldExact
<1>1. ASSUME n \in Nat \ {0}, n <= Len(LimbCases) PROVE \A a \in Vectors :
        /\ Ring!pack25519(a) = Ring!Digits(Residue(a))
        /\ \A b \in Vectors : LET m == Ring!M(a, b) IN
             Reduced(m) /\ Residue(m) = Times(Residue(a), Residue(b), Ring!P)
  <2>1. ASSUME NEW a \in Vectors PROVE a \in Small!gf /\ Small!Limbed(a, 495) /\ Small!Wide(a)
    <3>1. PICK Z : Z = -495 .. 495
      OBVIOUS
    <3>2. LimbCases \in Seq(Z) /\ OtherLimbs \subseteq Z
      BY <3>1, FormatsAssumption, Zenon
    <3>3. a \in [0 .. 2 -> Z]
      <4>1. n \in 1 .. Len(LimbCases)
        BY <1>1, <3>2
      <4>2. LimbCases[n] \in Z
        BY <3>2, <4>1
      <4>3. a \in [0 .. 2 -> OtherLimbs \cup {LimbCases[n]}]
        BY Zenon DEF Vectors
      <4> QED  BY <3>2, <4>2, <4>3
    <3>4. 3 * (Small!Base + 37) = 495
      BY SmallSized
    <3>5. a \in Small!gf /\ Small!Limbed(a, 495)
      <4>1. a \in [0 .. 2 -> Int] /\ \A i \in 0 .. 2 : a[i] \in Z
        <5>1. Z \subseteq Int
          BY <3>1
        <5> QED  BY <3>3, <5>1
      <4>2. \A i \in 0 .. 2 : a[i] \in -495 .. 495
        BY <3>1, <4>1, Zenon
      <4>3. a \in Small!gf
        BY <4>1, SmallSized, Zenon
      <4> QED  BY <4>2, <4>3, SmallSized, Zenon DEF Small!Limbed
    <3> QED  BY <3>4, <3>5 DEF Small!Wide
  <2>2. ASSUME NEW a \in Vectors PROVE Ring!pack25519(a) = Ring!Digits(Residue(a))
    <3>1. Small!pack25519(a) = Small!Digits(Small!Value(a) % Small!P)
      BY <2>1, SmallSized, Small!PackWide
    <3> QED  BY <3>1, RingIsSmall, Zenon DEF Residue
  <2>3. ASSUME NEW a \in Vectors, NEW b \in Vectors, NEW m, m = Ring!M(a, b)
        PROVE  Reduced(m) /\ Residue(m) = Times(Residue(a), Residue(b), Ring!P)
    <3>1. m = Small!M(a, b)
      BY <2>3, RingIsSmall, Zenon
    <3>2. Small!IsReduced(m)
      <4>1. PICK g, k : Small!Exactly(g, k)
        BY SmallFits
      <4>2. Small!IsReduced(Small!M(a, b))
        BY <2>1, <4>1, SmallSized, Small!WideProduct
      <4> QED  BY <3>1, <4>2
    <3>3. Reduced(m)
      <4>1. Ring!Base = 128
        BY SmallSized, RingIsSmall, Zenon
      <4> QED  BY <3>2, <4>1, SmallSized DEF Small!IsReduced, Reduced
    <3>4. PICK u \in Int, v \in Int, w \in Int :
            u = Small!Value(a) /\ v = Small!Value(b) /\ w = Small!Value(m)
      <4>1. m \in Small!gf
        BY <3>2 DEF Small!IsReduced
      <4> QED  BY <2>1, <4>1, ValueTyped, Zenon
    <3>5. Small!Cong(w, u * v)
      <4>1. Small!Cong(Small!Value(Small!M(a, b)), Small!Value(a) * Small!Value(b))
        BY <2>1, SmallSized, Small!MExact
      <4> QED  BY <3>1, <3>4, <4>1, Zenon
    <3>6. PICK p \in Nat \ {0} : p = Small!P
      BY SmallSized
    <3>7. w % p = (u * v) % p
      <4>1. u * v \in Int
        OBVIOUS
      <4> QED  BY <3>5, <3>6, <4>1, SmallSized, Small!CongMod
    <3>8. Ring!P = p
      BY <3>6, RingIsSmall
    <3>9. Residue(a) = u % p /\ Residue(b) = v % p /\ Residue(m) = w % p
      BY <3>4, <3>8, RingIsSmall, Zenon DEF Residue
    <3>10. Residue(a) \in Nat /\ Residue(b) \in Nat
      <4>1. u % p \in 0 .. p - 1 /\ v % p \in 0 .. p - 1
        BY DividesInto
      <4> QED  BY <3>9, <4>1
    <3>11. Times(Residue(a), Residue(b), p) = (Residue(a) * Residue(b)) % p
      BY <3>10, TimesIs
    <3>12. (u * v) % p = ((u % p) * (v % p)) % p
      <4>1. p \in Nat /\ p > 0
        BY <3>6
      <4> QED  BY <4>1, ModOfProduct
    <3> QED  BY <3>3, <3>7, <3>8, <3>9, <3>11, <3>12, Zenon
  <2> QED  BY <2>2, <2>3, Zenon
<1>2. ASSUME n \in Nat \ {0} PROVE FieldExact
  BY <1>1, <1>2, Zenon DEF FieldExact
<1> QED  BY <1>2, SizesAreNatural, PTL

-----------------------------------------------------------------------------
(* The code's size: 16 limbs of 16 bits, each in an i64. *)

LEMMA RealSized == Real!Sized /\ Real!Base = 65536 /\ Real!PBits = 255
<1>1. Real!Base = 65536
  BY SMT DEF Real!Base
<1>2. Real!PBits = 255
  BY DEF Real!PBits
<1> QED  BY <1>1, <1>2, SMT DEF Real!Sized

\* Three times what the limbs of a product reach, 196719, is within what two carries
\* bring back.
LEMMA RealFits ==
  /\ \E g, k : Real!Exactly(g, k)
  /\ 3 * (Real!Base + 37) = 196719
<1>1. 3 * (Real!Base + 37) = 196719
  BY RealSized, SMT
<1>2. Real!Roomy(9453466)
  <2>1. Real!Weight[16] >= Real!Base * Real!Base
    BY RealSized, Real!WeightGrows, SMT
  <2>2. Real!Base * Real!Base = 65536 * 65536
    BY RealSized, SMT
  <2>3. Real!Weight[16] \in Nat
    BY RealSized, Real!WeightNext, SMT
  <2>4. PICK w \in Nat : w = Real!Weight[16] /\ w >= 65536 * 65536
    BY <2>1, <2>2, <2>3, SMT
  <2>5. 76 * (9453466 + 1) <= w
    BY <2>4, SMT
  <2> QED  BY <2>4, <2>5, SMT DEF Real!Roomy
<1>3. Real!Fits(196719, 368471500, 9453466)
  BY <1>2, RealSized, SMT DEF Real!Fits
<1>4. Real!Exactly(368471500, 9453466)
  BY <1>1, <1>3, SMT DEF Real!Exactly
<1> QED  BY <1>1, <1>4, SMT

\* Operands with limbs up to three times what a product leaves: no sum M or its two
\* carries form passes 2^45, far within an i64, though the code never checks; what is
\* left is a limb of 16 bits, the lowest apart; the product is exact, and so is what
\* pack25519 makes of a number (tweetnacl.c 273-363).
THEOREM LimbsStayInRange ==
  ASSUME NEW a, NEW b, Real!Wide(a), Real!Wide(b)
  PROVE  /\ Real!Stays(a, b, 32768 * 1073741824)
         /\ Real!IsReduced(Real!M(a, b))
         /\ Real!Value(Real!M(a, b)) % Real!P = (Real!Value(a) * Real!Value(b)) % Real!P
         /\ Real!pack25519(a) = Real!Digits(Real!Value(a) % Real!P)
<1>1. PICK x \in Nat : x = 196719 /\ Real!Limbed(a, x) /\ Real!Limbed(b, x)
  BY RealFits, SMT DEF Real!Wide
<1>2. Real!Limbed(a, x) /\ Real!Limbed(b, x) /\ Real!Sized
  BY <1>1, RealSized, SMT
<1>3. Real!Stays(a, b, 32768 * 1073741824)
  <2>1. PICK y \in Nat, k \in Nat : y = 32768 * 1073741824 /\ k = 536879105
    BY SMT
  <2>2. y + k <= k * Real!Base
    BY <2>1, RealSized, SMT
  <2>3. 39 * (16 * (x * x)) + 2 * (39 * k + Real!Base) <= y
    BY <1>1, <2>1, RealSized, SMT
  <2>4. Real!Stays(a, b, y)
    BY <1>2, <2>2, <2>3, Real!MStays, Zenon
  <2> QED  BY <2>1, <2>4, SMT
<1>4. Real!IsReduced(Real!M(a, b))
  <2>1. PICK g, k : Real!Exactly(g, k)
    BY RealFits, SMT
  <2> QED  BY <2>1, RealSized, Real!WideProduct, SMT
<1>5. Real!Value(Real!M(a, b)) % Real!P = (Real!Value(a) * Real!Value(b)) % Real!P
  <2>1. a \in Real!gf /\ b \in Real!gf
    BY <1>2, Zenon DEF Real!Limbed
  <2>2. /\ Real!M(a, b) \in Real!gf
        /\ Real!Cong(Real!Value(Real!M(a, b)), Real!Value(a) * Real!Value(b))
    BY <2>1, RealSized, Real!MExact, SMT
  <2>3. PICK u \in Int, v \in Int, w \in Int :
          u = Real!Value(a) /\ v = Real!Value(b) /\ w = Real!Value(Real!M(a, b))
    <3>1. Real!Value(a) \in Int /\ Real!Value(b) \in Int /\ Real!Value(Real!M(a, b)) \in Int
      BY <2>1, <2>2, RealSized, Real!ValueIs, SMT
    <3> QED  BY <3>1, SMT
  <2>4. u * v \in Int
    BY SMT
  <2>5. Real!Cong(w, u * v)
    BY <2>2, <2>3, SMT
  <2> QED  BY <2>3, <2>4, <2>5, RealSized, Real!CongMod, SMT
<1> QED  BY <1>3, <1>4, <1>5, RealSized, Real!PackWide, SMT

\* Whatever the scalar and the bytes of the peer's point, each turn of the ladder and
\* the inversion leave limbs a product takes, so that crypto_scalarmult gives the
\* quotient reduced below P (tweetnacl.c 394-443).
THEOREM SecretPacked ==
  ASSUME NEW p, Real!IsDigits(p), NEW k, NEW s, s = Real!Ladder(Real!unpack25519(p), Real!Clamped(k))
  PROVE  /\ \A i \in 0 .. 255 : s[i] \in Real!Points
         /\ Real!Narrow(s[255][1]) /\ Real!Narrow(Real!inv25519(s[255][3]))
         /\ Real!crypto_scalarmult(k, p) =
              Real!Digits(Real!Value(Real!M(s[255][1], Real!inv25519(s[255][3]))) % Real!P)
<1>1. PICK g, h : Real!Exactly(g, h)
  BY RealFits, SMT
<1>2. \A i \in 0 .. 255 : s[i] \in Real!Points
  <2>1. Real!Narrow(Real!unpack25519(p))
    BY RealSized, Real!UnpackNarrow, SMT
  <2>2. Real!PBits \in Nat
    BY RealSized, SMT
  <2>3. \A i \in 0 .. Real!PBits :
          Real!Ladder(Real!unpack25519(p), Real!Clamped(k))[i] \in Real!Points
    BY <1>1, <2>1, <2>2, RealSized, Real!LadderStays, SMT
  <2> QED  BY <2>3, RealSized, SMT
<1>3. PICK t : t = s[255]
  OBVIOUS
<1>4. Real!PBits \in Nat \ {0} /\ t = Real!Ladder(Real!unpack25519(p), Real!Clamped(k))[Real!PBits]
  BY <1>3, RealSized, SMT
<1>5. /\ Real!Narrow(t[1]) /\ Real!Narrow(Real!inv25519(t[3]))
      /\ Real!crypto_scalarmult(k, p) =
           Real!Digits(Real!Value(Real!M(t[1], Real!inv25519(t[3]))) % Real!P)
  BY <1>1, <1>4, RealSized, Real!SecretExact, SMT
<1> QED  BY <1>2, <1>3, <1>5, SMT

\* So do the turns of scalarmult, from any point whose limbs a product left and for
\* any scalar (tweetnacl.c 588-654).
THEOREM MultiplesStayInRange ==
  ASSUME EdwardsD \in Int, NEW q \in [1 .. 4 -> Real!gf], Real!Narrow4(q), NEW s
  PROVE  \A i \in 0 .. 256 : Real!Twins(q, s)[i] \in Real!Twin
<1>1. PICK g, h : Real!Exactly(g, h)
  BY RealFits, SMT
<1>2. \A i \in 0 .. Real!PBits + 1 : Real!Twins(q, s)[i] \in Real!Twin
  <2>1. Real!PBits \in Nat
    BY RealSized, SMT
  <2> QED  BY <1>1, <2>1, RealSized, Real!TwinsStay, SMT
<1> QED  BY <1>2, RealSized, SMT
=============================================================================
