-------------------------------- MODULE Keys --------------------------------
(***************************************************************************)
(* From the shared secret to the keys: mpint_encode and derive_key of      *)
(* src/ssh/transport.c, as constant operators.  The secret is a sequence   *)
(* of bytes, highest first, of any length (32 in the code); a digest is    *)
(* what was hashed.                                                        *)
(***************************************************************************)
EXTENDS Integers, SequencesExt

CONSTANT DigestLen   \* 32; 1 to 255, the width of take being a byte

\* Slip: the high bit is taken for a part of the number.
mpint_encode_Unsigned(in) ==
  LET start == SelectInSeq(in, LAMBDA b : b # 0)
  IN IF start = 0 THEN <<0>> ELSE SubSeq(in, start, Len(in))

\* Leading zeros are left out, and one put before a number whose high bit is set.
mpint_encode(in) ==
  LET start  == SelectInSeq(in, LAMBDA b : b # 0)
      digits == SubSeq(in, start, Len(in))
  IN IF start = 0 THEN <<0>>
     ELSE IF in[start] >= 128 THEN <<0>> \o digits ELSE digits

\* Key x, as pairs of a digest and how many of its bytes are taken.  (When 256 bytes
\* are left, take is 0 for ever: out_len is less.)
derive_key(k, h, x, sid, out_len) ==
  LET turn[j \in 0 .. out_len \div DigestLen + 1] ==
        IF j = 0 THEN [got |-> 0, last |-> sid, out |-> <<>>]
        ELSE LET s    == turn[j - 1]
                 d    == <<Len(k), k, h, x, s.last>>
                 left == (out_len - s.got) % 256
                 take == IF left > DigestLen THEN DigestLen ELSE left
             IN IF s.got = out_len THEN s
                ELSE [got |-> s.got + take, last |-> d, out |-> Append(s.out, <<d, take>>)]
  IN turn[out_len \div DigestLen + 1].out
=============================================================================
