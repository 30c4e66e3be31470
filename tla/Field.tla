------------------------------- MODULE Field --------------------------------
(***************************************************************************)
(* Arithmetic modulo 2^255 - 19 as src/crypto/tweetnacl.c does it: numbers *)
(* in limbs that may leave their range, brought back by carries that fold  *)
(* what passes the top limb into the lowest one.  Constant operators.      *)
(*                                                                         *)
(* The number and the width of the limbs are parameters, 16 and 16 in the  *)
(* code; the modulus is 2^(Limbs * LimbBits - 1) - 19, so that 38 is what  *)
(* a carry out of the top limb is worth.  A packed number is its limbs,    *)
(* not its bytes.  Limbs are integers of any size: that none leaves the    *)
(* range of an i64 at the code's size is proved in StreamProofs.           *)
(* [x \in gf |-> ...][o] is the expression for o, which TLC computes once.  *)
(***************************************************************************)
EXTENDS Integers

CONSTANTS Limbs, LimbBits   \* at least 2 limbs, of 6 bits or more

Base  == 2 ^ LimbBits
PBits == Limbs * LimbBits - 1
Top   == Limbs - 1

\* What limb i is worth; the modulus is 19 less than half of a limb past the top.
Weight[i \in 0 .. Limbs] == IF i = 0 THEN 1 ELSE Base * Weight[i - 1]
P == (Base \div 2) * Weight[Top] - 19

gf == [0 .. Top -> Int]

Value(a) ==
  LET sum[i \in 0 .. Limbs] == IF i = 0 THEN 0 ELSE sum[i - 1] + a[i - 1] * Weight[i - 1]
  IN sum[Limbs]
Digits(v) == [i \in 0 .. Top |-> (v \div Weight[i]) % Base]
gf0 == Digits(0)
gf1 == Digits(1)

\* What passes limb i goes into the next, out of the top limb fold times into the
\* lowest; so for one limb after the other, from the lowest up.
Carry(x0, i, fold) ==
  [x \in gf |->
     [j \in 0 .. Top |->
        IF j = i THEN x[j] % Base
        ELSE IF j # (i + 1) % Limbs THEN x[j]
        ELSE x[j] + (IF i = Top THEN fold ELSE 1) * (x[i] \div Base)]][x0]
Carries(o, fold) ==
  [x \in gf |->
     LET pass[i \in 0 .. Limbs] == IF i = 0 THEN x ELSE Carry(pass[i - 1], i - 1, fold) IN pass][o]

\* Slip: the carry out of the top limb is folded in as 2^255 and not 2^256.
car25519_Fold19(o) == Carries(o, 19)[Limbs]
car25519(o)        == Carries(o, 38)[Limbs]

\* Both, exchanged if b.
sel25519(p, q, b) == IF b = 1 THEN <<q, p>> ELSE <<p, q>>

\* One turn of pack25519's loop: P is subtracted, limb by limb, and the
\* difference taken if it is not negative.
Borrow(x) == (x \div Base) % 2
LessP(t) ==
  LET m[i \in 0 .. Top] ==
        t[i] - (CASE i = 0 -> Base - 19 [] i = Top -> Base \div 2 - 1 [] OTHER -> Base - 1)
             - (IF i = 0 THEN 0 ELSE Borrow(m[i - 1]))
  IN sel25519(t, [i \in 0 .. Top |-> IF i = Top THEN m[i] ELSE m[i] % Base],
              1 - Borrow(m[Top]))[1]
pack25519(n) ==
  LET t == LessP(LessP(car25519(car25519(car25519(n)))))
  IN [i \in 0 .. Top |-> t[i] % Base]

neq25519(a, b) == pack25519(a) # pack25519(b)
par25519(a)    == pack25519(a)[0] % 2

\* The topmost bit is not part of the number.
unpack25519(n) == [i \in 0 .. Top |-> IF i = Top THEN n[i] % (Base \div 2) ELSE n[i]]

A(a, b) == [i \in 0 .. Top |-> a[i] + b[i]]
Z(a, b) == [i \in 0 .. Top |-> a[i] - b[i]]

\* Limb k of the product, term by term; and all of them, those past the top folded in.
Column(x, y, k) ==
  LET sum[i \in 0 .. Limbs] ==
        IF i = 0 THEN 0
        ELSE sum[i - 1] + IF k - (i - 1) \in 0 .. Top THEN x[i - 1] * y[k - (i - 1)] ELSE 0
  IN sum
Product(a, b) ==
  [x \in gf |-> [y \in gf |-> [k \in 0 .. Top |->
     Column(x, y, k)[Limbs] + IF k < Top THEN 38 * Column(x, y, k + Limbs)[Limbs] ELSE 0]]][a][b]
M(a, b) == car25519(car25519(Product(a, b)))
S(a) == M(a, a)

\* a ^ (2^len - 1 - the sum of 2^b over the bits skipped), from the top bit down.
Power(a, len, skipped) ==
  LET after[k \in 0 .. len - 1] ==   \* turns, the last for bit len - 1 - k
        IF k = 0 THEN a
        ELSE [x \in gf |-> IF len - 1 - k \in skipped THEN x ELSE M(x, a)][S(after[k - 1])]
  IN after[len - 1]
inv25519(i) == Power(i, PBits, {2, 4})
pow2523(i)  == Power(i, PBits - 3, {1})
=============================================================================
