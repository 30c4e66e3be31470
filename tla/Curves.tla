------------------------------- MODULE Curves -------------------------------
(***************************************************************************)
(* The two scalar multiplications of src/crypto/tweetnacl.c over Field:    *)
(* the Montgomery ladder of the key exchange and the Edwards curve of the  *)
(* host key's signature, with how a point is packed and unpacked.          *)
(* The curves' constants are the code's, or parameters where a smaller     *)
(* field needs others.                                                     *)
(***************************************************************************)
EXTENDS Field, Sequences

CONSTANTS
  EdwardsD,     \* D
  RootOfMinus1, \* I
  BaseX, BaseY  \* X and Y: the base point

C121665 == Digits(121665 % P)
LOCAL D  == Digits(EdwardsD)
D2 == Digits((2 * EdwardsD) % P)
LOCAL I  == Digits(RootOfMinus1)
LOCAL X  == Digits(BaseX)
LOCAL Y  == Digits(BaseY)

Bit(k, i) == (k \div 2 ^ i) % 2

\* The scalar of crypto_scalarmult: top bit set, the lowest three cleared.
Clamped(n) == 2 ^ (PBits - 1) + 8 * ((n % 2 ^ (PBits - 1)) \div 8)

\* A turn of the ladder on a, b and c, d, already exchanged; then with e = a + c and
\* a - c in place of a; then with their squares d, f and the two products.
Turn(a, b, c, d, x) ==
  LET Last(dd, ff, aa, cc) ==
        <<M(dd, ff), S(A(aa, cc)),
          M(Z(dd, ff), A(M(Z(dd, ff), C121665), dd)), M(S(Z(aa, cc)), x)>>
      Second(e, ac) == Last(S(e), S(ac), M(A(b, d), ac), M(Z(b, d), e))
  IN Second(A(a, c), Z(a, c))

Exchanged(s, r) == sel25519(s[1], s[2], r) \o sel25519(s[3], s[4], r)

\* Slip: the working points are not exchanged back.
LadderStep_NoSwapBack(s, x, r) ==
  [t \in Seq(gf) |-> Turn(t[1], t[2], t[3], t[4], x)][Exchanged(s, r)]

\* s = <<a, b, c, d>> after the turn for the bit r.
LadderStep(s, x, r) ==
  Exchanged([t \in Seq(gf) |-> Turn(t[1], t[2], t[3], t[4], x)][Exchanged(s, r)], r)

\* After each of the turns, the last of k for bit PBits - k.
Ladder(x, z) ==
  LET after[k \in 0 .. PBits] ==
        IF k = 0 THEN <<gf1, x, gf0, gf1>> ELSE LadderStep(after[k - 1], x, Bit(z, PBits - k))
  IN after

crypto_scalarmult(n, p) ==
  LET From(s) == pack25519(M(s[1], inv25519(s[3])))
  IN From(Ladder(unpack25519(p), Clamped(n))[PBits])

-----------------------------------------------------------------------------
(* The Edwards curve: points in extended coordinates <<X, Y, Z, T>>. *)

add(p, q) ==
  LET Last(e, f, g, h) == <<M(e, f), M(h, g), M(g, f), M(e, h)>>
      Second(a, b, c, d) == Last(Z(b, a), Z(d, c), A(d, c), A(b, a))
      zz == M(p[3], q[3])
  IN Second(M(Z(p[2], p[1]), Z(q[2], q[1])), M(A(p[1], p[2]), A(q[1], q[2])),
            M(M(p[4], q[4]), D2), A(zz, zz))

cswap(p, q, b) ==
  [j \in 1 .. 2 |-> [i \in 1 .. 4 |-> sel25519(p[i], q[i], b)[j]]]

\* The two points after each of the turns, the last of k for bit PBits + 1 - k.
Twins(q, s) ==
  LET both(pq, b) == [t \in [1 .. 2 -> [1 .. 4 -> gf]] |->
                        cswap(add(t[1], t[1]), add(t[2], t[1]), b)][cswap(pq[1], pq[2], b)]
      after[k \in 0 .. PBits + 1] ==
        IF k = 0 THEN <<<<gf0, gf1, gf1, gf0>>, q>> ELSE both(after[k - 1], Bit(s, PBits + 1 - k))
  IN after
scalarmult(q, s) == Twins(q, s)[PBits + 1][1]
scalarbase(s) == scalarmult(<<X, Y, gf1, M(X, Y)>>, s)

\* y, with the lowest bit of x as the topmost one.
Signed(y, b) == [i \in 0 .. Top |-> IF i = Top THEN y[i] + (Base \div 2) * b ELSE y[i]]
pack(p) ==
  LET zi == inv25519(p[3])
      y  == pack25519(M(p[2], zi))
  IN Signed(y, par25519(M(p[1], zi)))

\* The negative of the point packed, or <<>> if there is none.
unpackneg(p) ==
  LET First(num, den, den2) ==
        M(M(M(M(pow2523(M(M(M(S(den2), den2), num), den)), num), den), den), den)
      Wrong(x, num, den)  == neq25519(M(S(x), den), num)
      Root(x, num, den)   == IF Wrong(x, num, den) THEN M(x, I) ELSE x
      Signs(x)            == IF par25519(x) = p[Top] \div (Base \div 2) THEN Z(gf0, x) ELSE x
      Point(x, y)         == <<x, y, gf1, M(x, y)>>
      Result(x, y, num, den) == IF Wrong(x, num, den) THEN <<>> ELSE Point(Signs(x), y)
      From(y, num, den)   == Result(Root(First(num, den, S(den)), num, den), y, num, den)
      y == unpack25519(p)
  IN From(y, Z(S(y), gf1), A(gf1, M(S(y), D)))

\* The signature <<r, s>> is taken for one of the message that hashes to h with the
\* key pk: r is compared as it is packed.
crypto_sign_open(r, s, h, pk) ==
  LET q == unpackneg(pk)
  IN q # <<>> /\ pack(add(scalarmult(q, h), scalarbase(s))) = r
=============================================================================
