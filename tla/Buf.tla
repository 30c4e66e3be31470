--------------------------------- MODULE Buf ---------------------------------
(***************************************************************************)
(* src/ssh/buf.c: the growable buffer every message is written to and read *)
(* from, as constant-level operators over its len, cap and pos.  Bytes are *)
(* positions; a length word is taken to say what the writer meant.         *)
(* Allocations succeed (the callers ignore it when they do not), and sizes *)
(* are far from the largest size_t.                                        *)
(***************************************************************************)
EXTENDS Integers, Sequences, FiniteSetsExt

CONSTANT FirstCap   \* capacity of the first allocation: 256 in the code
ASSUME FirstCapAssumption == FirstCap \in Nat \ {0}

\* sshe_buf_init.
NewBuf == [len |-> 0, cap |-> 0, pos |-> 0]

\* Doubles the capacity until need more bytes fit.
sshe_buf_reserve(b, need) ==
  LET grown[cap \in Nat] == IF cap >= b.len + need THEN cap ELSE grown[2 * cap] IN
  IF b.len + need <= b.cap THEN b
  ELSE [b EXCEPT !.cap = grown[IF @ = 0 THEN FirstCap ELSE @]]

sshe_buf_raw(b, bytes) ==
  [sshe_buf_reserve(b, bytes) EXCEPT !.len = @ + bytes]
sshe_buf_u8(b)       == sshe_buf_raw(b, 1)
sshe_buf_u32(b)      == sshe_buf_raw(b, 4)
sshe_buf_str(b, len) == sshe_buf_raw(sshe_buf_u32(b), len)

-----------------------------------------------------------------------------
(* Reading: where a getter leaves the read position of a buffer of len     *)
(* bytes, or Exhausted.                                                    *)

Exhausted == -1

sshe_buf_get_u8(len, pos) == IF pos + 1 > len THEN Exhausted ELSE pos + 1
sshe_buf_get_u32(len, pos) == IF pos + 4 > len THEN Exhausted ELSE pos + 4

\* Slip: only the length word is checked against the buffer.
sshe_buf_get_str_WordOnly(len, pos, size) ==
  LET p == sshe_buf_get_u32(len, pos) IN IF p = Exhausted THEN p ELSE p + size

sshe_buf_get_str(len, pos, size) ==
  LET p == sshe_buf_get_u32(len, pos) IN
  IF p = Exhausted \/ p + size > len THEN Exhausted ELSE p + size

\* SSH_MSG_KEX_ECDH_REPLY holds a type and three strings, as a peer with this code
\* would write it; the first getter that fails ends the parse (transport.c).
WriteReply(sizes) ==
  LET str(b, i) == sshe_buf_str(b, sizes[i])
  IN str(str(str(sshe_buf_u8(NewBuf), 1), 2), 3)
ParseReply(len, sizes) ==
  LET str(p, i) == IF p = Exhausted THEN p ELSE sshe_buf_get_str(len, p, sizes[i])
  IN str(str(str(sshe_buf_get_u8(len, 0), 1), 2), 3)

-----------------------------------------------------------------------------
(* Name lists. *)

\* Slip: a name that begins with the one wanted is taken for it.
namelist_has_Prefix(nl, want) ==
  LET has[i \in 1 .. Len(nl) + 2] ==
        /\ i <= Len(nl)
        /\ LET j == Min({k \in i .. Len(nl) : nl[k] = "comma"} \cup {Len(nl) + 1}) IN
           \/ i + Len(want) <= j /\ SubSeq(nl, i, i + Len(want) - 1) = want
           \/ has[j + 1]
  IN has[1]

\* The loop of namelist_has: from i to the next comma at j, then on behind it.
namelist_has(nl, want) ==
  LET has[i \in 1 .. Len(nl) + 2] ==
        /\ i <= Len(nl)
        /\ LET j == Min({k \in i .. Len(nl) : nl[k] = "comma"} \cup {Len(nl) + 1}) IN
           SubSeq(nl, i, j - 1) = want \/ has[j + 1]
  IN has[1]
=============================================================================
