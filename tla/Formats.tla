------------------------------ MODULE Formats -------------------------------
(***************************************************************************)
(* What the program computes from a message alone - parsing, name lists,   *)
(* hashing, keys, field and curve arithmetic, printing - stated against    *)
(* reference definitions.  Stream's cases of n bytes drive it: each        *)
(* property is looked at where a case begins, n being the size of a        *)
(* message, or the number of a case.                                       *)
(***************************************************************************)
EXTENDS Stream, Hash

CONSTANTS
  LineMax, DigestLen,         \* of Screen and of Keys
  EdwardsD, RootOfMinus1, BaseX, BaseY,   \* of Curves
  MaxHashed,    \* bound: message sizes that are hashed,
  MaxParsed,    \* parsed,
  MaxNames,     \* read as name lists
  MaxPrinted,   \* and printed
  SecretBytes,  \* bytes that make up a shared secret,
  SecretLen,    \* so many of them
  LimbCases,    \* values of the lowest limb, one per n,
  OtherLimbs,   \* and of the others
  Scalars       \* what points are multiplied by

ASSUME FormatsAssumption ==
  /\ LineMax \in Nat \ {0} /\ DigestLen \in 1 .. 255
  /\ MaxHashed \in Nat /\ MaxParsed \in Nat /\ MaxNames \in Nat /\ MaxPrinted \in Nat
  /\ SecretBytes \subseteq 0 .. 255 /\ SecretLen \in Nat \ {0}
  \* limbs of Ring as far out as add takes them: three times Ring's Base + 37
  /\ LimbCases \in Seq(-495 .. 495) /\ OtherLimbs \subseteq -495 .. 495
  /\ Scalars \subseteq Nat

Scr == INSTANCE Screen
Key == INSTANCE Keys
\* Three limbs, so that there is one in the middle; and two, where P is a prime.
Ring  == INSTANCE Field WITH Limbs <- 3, LimbBits <- 7
Prime == INSTANCE Curves WITH Limbs <- 2, LimbBits <- 6
Order == INSTANCE Order

\* Where a case begins.
Fresh ==
  /\ snd.at = "idle" /\ snd.done = 0 /\ rcv.at = "idle" /\ rcv.done = 0
  /\ alive /\ ~tx.enc /\ pad = PadLen(n)

-----------------------------------------------------------------------------
(* Messages. *)

\* Three strings of n bytes together, as an ECDH reply has them, are read back
\* to the end, and a reply cut short anywhere is refused (buf.c 62-95 as
\* transport.c 482-487 uses it).
TruncationNoticed ==
  Fresh /\ n <= MaxParsed =>
    \A a \in 0 .. n : \A b \in 0 .. n - a :
      LET sizes == <<a, b, n - a - b>>
          full == WriteReply(sizes).len
      IN \A len \in 0 .. full :
           ParseReply(len, sizes) = IF len = full THEN full ELSE Exhausted

\* namelist_has finds a name if and only if it stands between commas, also at
\* either end, next to an empty name or beside names that begin like it.
Names == {<<"a">>, <<"b">>, <<"a", "b">>, <<"a", "a">>, <<"b", "a", "b">>}
Stands(nl, name) ==
  \E i \in 1 .. Len(nl), j \in 1 .. Len(nl) :
    /\ SubSeq(nl, i, j) = name
    /\ i = 1 \/ nl[i - 1] = "comma"
    /\ j = Len(nl) \/ nl[j + 1] = "comma"
NamesFound ==
  Fresh /\ n <= MaxNames =>
    \A nl \in [1 .. n -> {"a", "b", "comma"}] : \A name \in Names :
      namelist_has(nl, name) <=> Stands(nl, name)

\* However a session's output is cut into pieces, the screen shows the characters
\* that can be shown, in order, with the line feeds; of a line longer than the buffer
\* exactly what its piece has past that is missing (main.c 271-294).
Visible(d) ==
  LET from[i \in 0 .. Len(d)] ==
        IF i = 0 THEN <<>> ELSE from[i - 1] \o IF d[i] \in {"CR", "ESC"} THEN <<>> ELSE <<d[i]>>
  IN from[Len(d)]
Clipped(v) ==
  LET short(i) == v[i] = "LF" \/ i <= LineMax \/ \E j \in i - LineMax .. i - 1 : v[j] = "LF"
      from[i \in 0 .. Len(v)] ==
        IF i = 0 THEN <<>> ELSE from[i - 1] \o IF short(i) THEN <<v[i]>> ELSE <<>>
  IN from[Len(v)]
OutputRendered ==
  Fresh /\ n <= MaxPrinted =>
    \A d \in [1 .. n -> {"a", "b", "LF", "CR", "ESC"}] :
      /\ Scr!out_print(d) = Clipped(Visible(d))
      /\ Clipped(Visible(d)) = Visible(d) =>
           \A cut \in 0 .. n :
             Scr!out_print(SubSeq(d, 1, cut)) \o Scr!out_print(SubSeq(d, cut + 1, n)) = Visible(d)

-----------------------------------------------------------------------------
(* Hashes and keys. *)

\* A message of n bytes reaches the transform in the blocks FIPS 180-4 section 5
\* prescribes - its bytes in order, a mark, as few zeros as possible, the number
\* of its bits - fed at once or, as HMAC does, behind another block, and whatever
\* the buffer held before; and HMAC's key is a block, as RFC 2104 wants it
\* (sha256.c 99-144, sha1.c 93-137, tweetnacl.c 559-586, sshcrypto.c 27-79).
Prescribed(len, block, count) ==
  LET end == block * ((len + 1 + count + block - 1) \div block) IN
  [i \in 0 .. end - 1 |-> IF i < len THEN i ELSE IF i = len THEN Mark
                          ELSE IF i < end - (IF count = 16 THEN 9 ELSE 8) THEN Zero ELSE Length]
Hashes(digest, len, block, count) ==
  /\ [i \in 0 .. block * Len(digest.blocks) - 1 |->
        digest.blocks[1 + i \div block][i % block]] = Prescribed(len, block, count)
  /\ digest.bits = 8 * len
HashPadded ==
  Fresh /\ n <= MaxHashed =>
    /\ Hashes(ssh_sha256(n), n, HashBlock, 8)
    /\ Hashes(sha1_final(sha1_update(sha1_init, 0, n)), n, HashBlock, 8)
    /\ Hashes(crypto_hash(n), n, 128, 16)
    /\ \A size \in {20, 32} : LET mac == hmac_block(n, n, size) IN
         /\ Hashes(mac.inner, HashBlock + n, HashBlock, 8)
         /\ Hashes(mac.outer, HashBlock + size, HashBlock, 8)
         /\ \A i \in 0 .. 63 :
              IF n <= 64 THEN mac.k[i] = IF i < n THEN i ELSE Zero
                         ELSE mac.k[i] = IF i < size THEN Digest ELSE Zero

\* The secret goes into every hash as RFC 4251 writes a number that is not negative -
\* its value kept, as short as can be, high bit clear - so that the two ends, and no
\* two secrets, agree on it; and a key of up to 32 bytes is the beginning of the
\* digest RFC 4253 7.2 names, a longer one as long as it was asked for
\* (transport.c 342-394).  A secret of zero would be written as a byte.
Number(bytes) ==
  LET v[i \in 0 .. Len(bytes)] == IF i = 0 THEN 0 ELSE 256 * v[i - 1] + bytes[i] IN v[Len(bytes)]
KeyMaterial ==
  /\ Fresh /\ n = SecretLen =>
       \A s \in [1 .. n -> SecretBytes] :
         LET k == Key!mpint_encode(s) IN
         Number(s) # 0 =>
           /\ Number(k) = Number(s) /\ k[1] < 128
           /\ k[1] = 0 => Len(k) > 1 /\ k[2] >= 128
  /\ Fresh /\ n < 256 =>
       LET key == Key!derive_key(<<1>>, "H", "A", "session_id", n)
           sum[i \in 0 .. Len(key)] == IF i = 0 THEN 0 ELSE sum[i - 1] + key[i][2]
       IN /\ sum[Len(key)] = n
          /\ n <= DigestLen => key = <<<<<<1, <<1>>, "H", "A", "session_id">>, n>>>>
          /\ \A i \in 1 .. Len(key) - 1 : key[i + 1][1][5] = key[i][1]

-----------------------------------------------------------------------------
(* Numbers modulo P, and curves. *)

\* (a * b) % m, in two steps because TLC's integers have 32 bits.
Times(a, b, m) == (((a * (b % 1024)) % m) + ((((a * 1024) % m) * (b \div 1024)) % m)) % m

Vectors == {a \in [0 .. 2 -> OtherLimbs \cup {LimbCases[n]}] : a[0] = LimbCases[n]}

Residue(a) == Ring!Value(a) % Ring!P
Reduced(a) == a[0] \in -38 .. Ring!Base + 37 /\ \A i \in 1 .. 2 : a[i] \in 0 .. Ring!Base - 1

\* Whatever limbs additions, subtractions and products leave behind, negative ones
\* and ones past the top among them: a packed number is the one below P, and a
\* product is exact, with limbs that stay in a range (tweetnacl.c 273-363).
FieldExact ==
  Fresh /\ n <= Len(LimbCases) =>
    \A a \in Vectors :
      /\ Ring!pack25519(a) = Ring!Digits(Residue(a))
      /\ \A b \in Vectors : LET m == Ring!M(a, b) IN
           Reduced(m) /\ Residue(m) = Times(Residue(a), Residue(b), Ring!P)

\* References for the curves, over numbers: points as pairs, the one at infinity as <<>>.
prime == Prime!P
x \otimes y  == ((x % prime) * (y % prime)) % prime
x \oslash y  == CHOOSE q \in 0 .. prime - 1 : q \otimes y = x % prime
IsSquare(x) == \E r \in 0 .. prime - 1 : r \otimes r = x

\* B y^2 = x^3 + A x^2 + x with the B that puts <<x, 1>> on it.
CurveA == 486662 % prime
CurveB(x) == x \otimes ((x \otimes (x + CurveA)) + 1)
Plus(B, u, v) ==
  LET slope == IF u = v THEN ((3 * (u[1] \otimes u[1])) + (2 * (CurveA \otimes u[1])) + 1)
                             \oslash (2 * (B \otimes u[2]))
               ELSE (v[2] - u[2]) \oslash (v[1] - u[1])
      x == ((B \otimes (slope \otimes slope)) - CurveA - u[1] - v[1]) % prime
  IN IF u = <<>> THEN v ELSE IF v = <<>> THEN u
     ELSE IF u[1] = v[1] /\ (u[2] + v[2]) % prime = 0 THEN <<>>
     ELSE <<x, ((slope \otimes (u[1] - x)) - u[2]) % prime>>

\* -x^2 + y^2 = 1 + D x^2 y^2
EdwardsPlus(u, v) ==
  LET xx == u[1] \otimes v[1]   yy == u[2] \otimes v[2]
      d  == EdwardsD \otimes (xx \otimes yy)
  IN <<((u[1] \otimes v[2]) + (v[1] \otimes u[2])) \oslash (1 + d), (yy + xx) \oslash (1 - d)>>

Packed(u) == Prime!Signed(Prime!Digits(u[2]), u[1] % 2)

\* k times u, from the top bit of k (of 12) down.
Multiple(Add(_, _), zero, u, k) ==
  LET from[i \in -1 .. 11, w \in Seq(Nat)] ==
        IF i < 0 THEN w
        ELSE from[i - 1, IF Prime!Bit(k, i) = 1 THEN Add(Add(w, w), u) ELSE Add(w, w)]
  IN from[11, zero]

\* Numbers as bytes, lowest first: 0, 1, the largest remainder, and q * L + r.
Remainders == {[j \in 0 .. 31 |-> 0], [j \in 0 .. 31 |-> IF j = 0 THEN 1 ELSE 0],
               [j \in 0 .. 31 |-> IF j = 0 THEN Order!L[j] - 1 ELSE Order!L[j]]}
MultipleOfL(q, r) ==
  LET column[k \in 0 .. 63] ==
        LET sum[i \in 0 .. 32] ==
              IF i = 0 THEN IF k < 32 THEN r[k] ELSE 0
              ELSE sum[i - 1] + IF k - i + 1 \in 0 .. 31 THEN q[i - 1] * Order!L[k - i + 1] ELSE 0
        IN sum[32]
      carry[k \in 0 .. 63] == IF k = 0 THEN 0 ELSE (column[k - 1] + carry[k - 1]) \div 256
  IN [k \in 0 .. 63 |-> (column[k] + carry[k]) % 256]

\* The ladder computes the multiple of a point on every curve of its family, for each
\* clamped scalar; a packed Edwards point is unpacked to its negative, whatever the
\* sign asked for, or refused if there is none; its multiples are the curve's; and a
\* signature <<r, s>> of h is taken exactly if r is s times the base point less h times
\* the key; and a hash of 64 bytes, which is r and so many times the group's order, is
\* reduced to r (tweetnacl.c 394-443, 588-809).
CurvesExact ==
  Fresh /\ n <= Len(LimbCases) =>
    LET v == LimbCases[n] % prime   B == CurveB(v) IN
    /\ B # 0 => \A k \in Scalars :
         LET q == Multiple(LAMBDA s, t : Plus(B, s, t), <<>>, <<v, 1>>, Prime!Clamped(k)) IN
         Prime!crypto_scalarmult(k, Prime!Digits(v)) =
           Prime!Digits(IF q = <<>> THEN 0 ELSE q[1])
    /\ \A sign \in {0, 1} :
         LET packed == Prime!Signed(Prime!Digits(v), sign)
             q == Prime!unpackneg(packed)
             square == ((v \otimes v) - 1) \oslash ((EdwardsD \otimes (v \otimes v)) + 1)
             x == Prime!Value(q[1]) % prime
         IN IF ~IsSquare(square) THEN q = <<>>
            ELSE /\ q # <<>> /\ x \otimes x = square /\ (x # 0 => x % 2 # sign)
                 /\ \A k \in Scalars :
                      LET r == Multiple(EdwardsPlus, <<0, 1>>, <<x, v>>, k) IN
                      Prime!pack(Prime!scalarmult(q, k)) =
                        Packed(r)
                 /\ \A k \in Scalars, h \in {1, 1000} :
                      LET r == EdwardsPlus(Multiple(EdwardsPlus, <<0, 1>>, <<BaseX, BaseY>>, k),
                                           Multiple(EdwardsPlus, <<0, 1>>, <<x, v>>, h))
                          other == EdwardsPlus(r, <<BaseX, BaseY>>)
                      IN /\ Prime!crypto_sign_open(Packed(r), k, h, packed)
                         /\ ~Prime!crypto_sign_open(Packed(other), k, h, packed)
    /\ \A r \in Remainders, u \in {0, 255}, m \in {1, 31} :
         Order!modL(MultipleOfL([i \in 0 .. 31 |-> IF i < m THEN u ELSE LimbCases[n] % 256], r)) = r
=============================================================================
