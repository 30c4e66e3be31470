------------------------------- MODULE Stream -------------------------------
(***************************************************************************)
(* A packet's way over the sockets, byte by byte: sshe_tx_send_payload     *)
(* writes it with raw_send, sshe_tx_recv_packet reads it with three calls  *)
(* of raw_recv (src/ssh/transport.c), and the sockets move any number of   *)
(* bytes at a time, fewer than asked for if they like.                     *)
(*                                                                         *)
(* Two packets follow each other in one direction: a payload of n bytes    *)
(* with padding pad, PacketCheck's case, and one of a single byte.  The    *)
(* module justifies what Transport takes for granted: that packets arrive  *)
(* whole or not at all, and where a receive that fails leaves the cipher   *)
(* state.                                                                  *)
(***************************************************************************)
EXTENDS PacketCheck, Buf

CONSTANTS
  Streamed,     \* bounds: payload sizes sent,
  MaxStreamed,  \* in packets of at most that many bytes
  Chunks,       \* how much a call may move, besides all it is asked to
  CutAllowed    \* may the connection be lost?

ASSUME StreamAssumption ==
  /\ MaxStreamed \in Nat
  /\ Chunks \subseteq Nat \ {0}
  /\ CutAllowed \in BOOLEAN

VARIABLES
  snd,    \* the sender's call, how far its raw_send is, and packets sent
  rcv,    \* the receiver's call, how far its raw_recv is, and packets received
  tx, rx, \* their cipher states
  given,  \* bytes the connection has taken and not lost
  taken,  \* bytes it has delivered
  alive,  \* is it up?
  out     \* the buffer the payload is received in

streamVars == <<n, pad, snd, rcv, tx, rx, given, taken, alive, out>>

MacLen == 32   \* SSH_MAC_LEN
Packets == 2

\* Payload, padding and size of packet k, counted from 0.
Payload(k) == IF k = 0 THEN n ELSE 1
Padding(k) == IF k = 0 THEN pad ELSE PadLen(1)
Size(k)    == Total(Payload(k), Padding(k))
Body(k)    == Rest(LengthField(Payload(k), Padding(k)))

InBounds == n \in Streamed /\ Size(0) <= MaxStreamed

StreamInit ==
  /\ Init
  /\ \E enc \in BOOLEAN : tx = [NewDir EXCEPT !.enc = enc]
  /\ rx = tx
  /\ snd = [at |-> "idle", off |-> 0, done |-> 0]
  /\ rcv = [at |-> "idle", off |-> 0, done |-> 0]
  /\ given = 0 /\ taken = 0 /\ alive = TRUE
  /\ out = NewBuf

\* Another padding: a case of its own.
StreamPadMore ==
  /\ snd.at = "idle" /\ snd.done = 0 /\ rcv.at = "idle" /\ alive
  /\ PadMore
  /\ UNCHANGED <<snd, rcv, tx, rx, given, taken, alive, out>>

\* What a call of the sockets moves of wanted bytes.
Moved(wanted) == {k \in Chunks : k < wanted} \cup {wanted}

-----------------------------------------------------------------------------
(* Sending. *)

\* sshe_tx_send_payload up to its first raw_send.
SendPacket ==
  /\ snd.at = "idle" /\ snd.done < Packets /\ InBounds
  /\ snd' = [snd EXCEPT !.at = "packet", !.off = 0]
  /\ tx' = AfterSend(tx, Size(snd.done))
  /\ UNCHANGED <<n, pad, rcv, rx, given, taken, alive, out>>

SendLen == IF snd.at = "packet" THEN Size(snd.done) ELSE MacLen

\* The raw_send is through: on to the MAC, or back to the caller.
Sent ==
  IF snd.at = "packet" /\ tx.enc
    THEN [snd EXCEPT !.at = "mac", !.off = 0]
    ELSE [snd EXCEPT !.at = "idle", !.off = 0, !.done = @ + 1]

\* One turn of raw_send.  A connection that is lost may go on taking bytes.
raw_send ==
  /\ snd.at \in {"packet", "mac"}
  /\ \E k \in Moved(SendLen - snd.off) :
       /\ snd' = IF snd.off + k = SendLen THEN Sent ELSE [snd EXCEPT !.off = @ + k]
       /\ given' = IF alive THEN given + k ELSE given
  /\ UNCHANGED <<n, pad, rcv, tx, rx, taken, alive, out>>

SendFails ==
  /\ snd.at \in {"packet", "mac"} /\ ~alive
  /\ snd' = [snd EXCEPT !.at = "failed"]
  /\ UNCHANGED <<n, pad, rcv, tx, rx, given, taken, alive, out>>

-----------------------------------------------------------------------------
(* Receiving. *)

\* Slip: the last payload stays in the buffer.
RecvPacket_KeepsOut ==
  /\ rcv.at = "idle" /\ rcv.done < Packets /\ InBounds
  /\ rcv' = [rcv EXCEPT !.at = "first", !.off = 0]
  /\ out' = [out EXCEPT !.pos = 0]
  /\ UNCHANGED <<n, pad, snd, tx, rx, given, taken, alive>>

\* sshe_tx_recv_packet up to its first raw_recv.
RecvPacket ==
  /\ rcv.at = "idle" /\ rcv.done < Packets /\ InBounds
  /\ rcv' = [rcv EXCEPT !.at = "first", !.off = 0]
  /\ out' = [out EXCEPT !.pos = 0, !.len = 0]
  /\ UNCHANGED <<n, pad, snd, tx, rx, given, taken, alive>>

Reading == rcv.at \in {"first", "body", "mac"}
RecvLen ==
  CASE rcv.at = "first" -> Block
    [] rcv.at = "body"  -> Body(rcv.done)
    [] OTHER            -> MacLen

\* What comes after the raw_recv under way; a body of no bytes needs no call.
NextRead ==
  IF rcv.at = "first" /\ Body(rcv.done) > 0 THEN "body"
  ELSE IF rcv.at # "mac" /\ rx.enc THEN "mac" ELSE "idle"

\* Decrypts what has been read.
Decrypted ==
  IF rx.enc /\ rcv.at # "mac" THEN [rx EXCEPT !.ctr = Crypt(@, RecvLen)] ELSE rx

\* The payload is copied from the first block, then from the body.
Handed(k) ==
  LET inFirst == Block - Header IN
  IF Payload(k) <= inFirst THEN sshe_buf_raw(out, Payload(k))
  ELSE sshe_buf_raw(sshe_buf_raw(out, inFirst), Payload(k) - inFirst)

\* Slip: the sequence number moves before the MAC has come.
ReadDone_SeqEarly ==
  /\ rcv' = IF NextRead = "idle" THEN [rcv EXCEPT !.at = "idle", !.off = 0, !.done = @ + 1]
                                 ELSE [rcv EXCEPT !.at = NextRead, !.off = 0]
  /\ rx' = IF rcv.at = "first" THEN [Decrypted EXCEPT !.seq = (@ + 1) % SeqSpace] ELSE Decrypted
  /\ out' = IF NextRead = "idle" THEN Handed(rcv.done) ELSE out

\* A raw_recv is through.  The last one ends the packet.
ReadDone ==
  IF NextRead = "idle"
    THEN /\ rcv' = [rcv EXCEPT !.at = "idle", !.off = 0, !.done = @ + 1]
         /\ rx' = [Decrypted EXCEPT !.seq = (@ + 1) % SeqSpace]
         /\ out' = Handed(rcv.done)
    ELSE /\ rcv' = [rcv EXCEPT !.at = NextRead, !.off = 0]
         /\ rx' = Decrypted
         /\ UNCHANGED out

Arriving(wanted) == IF given - taken < wanted THEN given - taken ELSE wanted

\* Slips: every turn of raw_recv asks for all of the length again; a read that
\* brings less than was asked for is an error.
raw_recv_AllAgain ==
  /\ Reading /\ taken < given
  /\ \E k \in Moved(Arriving(RecvLen)) :
       /\ taken' = taken + k
       /\ IF rcv.off + k >= RecvLen THEN ReadDone
          ELSE rcv' = [rcv EXCEPT !.off = @ + k] /\ UNCHANGED <<rx, out>>
  /\ UNCHANGED <<n, pad, snd, tx, given, alive>>
raw_recv_ShortIsFatal ==
  /\ Reading /\ taken < given
  /\ \E k \in Moved(Arriving(RecvLen - rcv.off)) :
       /\ taken' = taken + k
       /\ IF rcv.off + k = RecvLen THEN ReadDone
          ELSE rcv' = [rcv EXCEPT !.at = "failed"] /\ UNCHANGED <<rx, out>>
  /\ UNCHANGED <<n, pad, snd, tx, given, alive>>

\* One turn of raw_recv.
raw_recv ==
  /\ Reading /\ taken < given
  /\ \E k \in Moved(Arriving(RecvLen - rcv.off)) :
       /\ taken' = taken + k
       /\ IF rcv.off + k = RecvLen THEN ReadDone
          ELSE rcv' = [rcv EXCEPT !.off = @ + k] /\ UNCHANGED <<rx, out>>
  /\ UNCHANGED <<n, pad, snd, tx, given, alive>>

RecvFails ==
  /\ Reading /\ ~alive
  /\ rcv' = [rcv EXCEPT !.at = "failed"]
  /\ UNCHANGED <<n, pad, snd, tx, rx, given, taken, alive, out>>

-----------------------------------------------------------------------------
\* The connection is lost, and with it any part of what was on its way.
Cut ==
  /\ CutAllowed /\ alive /\ InBounds
  /\ alive' = FALSE
  /\ \E k \in Moved(given - taken) \cup {0} : given' = taken + k
  /\ UNCHANGED <<n, pad, snd, rcv, tx, rx, taken, out>>

Sending   == SendPacket \/ raw_send \/ SendFails
Receiving == RecvPacket \/ raw_recv \/ RecvFails
StreamNext == StreamPadMore \/ Sending \/ Receiving \/ Cut

\* Both calls loop until they are through.
StreamFairness == WF_streamVars(raw_send \/ SendFails) /\ WF_streamVars(Receiving)
StreamSpec == StreamInit /\ [][StreamNext]_streamVars /\ StreamFairness

-----------------------------------------------------------------------------
(* Correctness. *)

\* Bytes of the first k packets on the connection.
OnWire(k) == Size(k) + IF tx.enc THEN MacLen ELSE 0
Before(k) == CASE k = 0 -> 0 [] k = 1 -> OnWire(0) [] OTHER -> OnWire(0) + OnWire(1)

\* Between two calls both ends stand at the boundary of a packet, however the
\* sockets cut the stream (transport.c 75-96 under 113-261).
FramesAligned ==
  /\ rcv.at = "idle" => taken = Before(rcv.done)
  /\ snd.at = "idle" /\ alive => given = Before(snd.done)

\* A receive that returns moves the cipher state as AfterRecv says, one that
\* fails leaves it in one of the three states Transport's GivenUp allows, and a
\* send moves it whether it fails or not (transport.c 142-163, 193-242).
Started == [NewDir EXCEPT !.enc = tx.enc]
After(k) ==
  CASE k = 0 -> Started
    [] k = 1 -> AfterRecv(Started, Size(0))
    [] OTHER -> AfterRecv(AfterRecv(Started, Size(0)), Size(1))
CipherAsModelled ==
  /\ rcv.at = "idle" => rx = After(rcv.done)
  /\ rcv.at = "failed" =>
       LET d == After(rcv.done) IN
       rx \in {d, [d EXCEPT !.ctr = IF d.enc THEN Crypt(@, Block) ELSE @],
               [AfterRecv(d, Size(rcv.done)) EXCEPT !.seq = d.seq]}
  /\ tx = After(IF snd.at = "idle" THEN snd.done ELSE snd.done + 1)

\* The caller finds exactly the payload of this packet in its buffer, nothing of
\* the one before, and the buffer is large enough, yet less than twice as large
\* as it ever had to be (transport.c 189-190 and 252-257, buf.c 19-39).
OutIsPayload ==
  /\ rcv.at = "idle" /\ rcv.done > 0 => out.len = Payload(rcv.done - 1) /\ out.pos = 0
  /\ out.len <= out.cap
  /\ out.cap > FirstCap => out.cap < 2 * n

\* What has been sent is received, on a connection that holds (transport.c 75-96).
Delivered ==
  \A k \in 1 .. Packets : snd.done >= k ~> rcv.done >= k \/ ~alive

=============================================================================
