---------------------------- MODULE FieldProofs -----------------------------
(***************************************************************************)
(* Field's carries, products and packing, for limbs of any number and      *)
(* width: exact modulo P, and the limbs they leave; and with them that     *)
(* the turns of the ladder and of Curves' scalarmult never leave more.     *)
(***************************************************************************)
EXTENDS Curves, Induction, SequenceTheorems

-----------------------------------------------------------------------------
(* Sums, of the terms g[0] up to g[n - 1].                                 *)

Adds(s, g, n) == s = [i \in 0 .. n |-> IF i = 0 THEN 0 ELSE s[i - 1] + g[i - 1]]
Sum(g, n)     == (CHOOSE s : Adds(s, g, n))[n]
Terms(g, n)   == \A i \in 0 .. n - 1 : g[i] \in Int

LEMMA AddsExists ==
  ASSUME NEW n \in Nat, NEW g, Terms(g, n)
  PROVE  \E s : Adds(s, g, n)
<1>1. PICK step : step = [p \in Int \X (1 .. n) |-> p[1] + g[p[2] - 1]]
  OBVIOUS
<1>2. step \in [Int \X (1 .. n) -> Int]
  <2>1. ASSUME NEW p \in Int \X (1 .. n) PROVE p[1] + g[p[2] - 1] \in Int
    <3>1. p[1] \in Int /\ p[2] - 1 \in 0 .. n - 1
      OBVIOUS
    <3> QED  BY <3>1 DEF Terms
  <2> QED  BY <1>1, <2>1
<1>3. 0 \in Int
  OBVIOUS
<1>4. PICK s : Folded(s, n, Int, 0, step)
  BY <1>2, <1>3, FoldExists
<1>5. /\ s \in [0 .. n -> Int]
      /\ s = [i \in 0 .. n |-> IF i = 0 THEN 0 ELSE step[<<s[i - 1], i>>]]
  BY <1>4, Zenon DEF Folded
<1>6. \A i \in 0 .. n : i # 0 => step[<<s[i - 1], i>>] = s[i - 1] + g[i - 1]
  <2>1. ASSUME NEW i \in 0 .. n, i # 0 PROVE step[<<s[i - 1], i>>] = s[i - 1] + g[i - 1]
    <3>1. i - 1 \in 0 .. n /\ i \in 1 .. n
      BY <2>1
    <3>2. <<s[i - 1], i>> \in Int \X (1 .. n)
      BY <1>5, <3>1
    <3> QED  BY <1>1, <3>2
  <2> QED  BY <2>1
<1>7. [i \in 0 .. n |-> IF i = 0 THEN 0 ELSE step[<<s[i - 1], i>>]]
        = [i \in 0 .. n |-> IF i = 0 THEN 0 ELSE s[i - 1] + g[i - 1]]
  BY <1>6
<1> QED  BY <1>5, <1>7, Zenon DEF Adds

\* Two functions that add the same terms up agree.
LEMMA AddsAgree ==
  ASSUME NEW n \in Nat, NEW s, NEW r, s[0] = r[0],
         NEW g, \A i \in 1 .. n : s[i] = s[i - 1] + g[i - 1],
         \A i \in 1 .. n : r[i] = r[i - 1] + g[i - 1]
  PROVE  \A i \in 0 .. n : s[i] = r[i]
<1> DEFINE T == {i \in 0 .. n : s[i] = r[i]}
<1>1. 0 \in T
  OBVIOUS
<1>2. ASSUME NEW i \in 1 .. n, i - 1 \in T PROVE i \in T
  BY <1>2
<1>3. \A i \in 0 .. n : i \in T
  <2> HIDE DEF T
  <2> QED  BY <1>1, <1>2, Upto
<1> QED  BY <1>3

LEMMA SumSteps ==
  ASSUME NEW n \in Nat, NEW g, Terms(g, n)
  PROVE  \E s : /\ s = CHOOSE t : Adds(t, g, n)
                /\ s[0] = 0 /\ \A i \in 1 .. n : s[i] = s[i - 1] + g[i - 1]
<1>1. PICK s : s = CHOOSE t : Adds(t, g, n)
  OBVIOUS
<1>2. Adds(s, g, n)
  BY <1>1, AddsExists, Zenon
<1>3. s[0] = 0 /\ \A i \in 1 .. n : s[i] = s[i - 1] + g[i - 1]
  BY <1>2 DEF Adds
<1> QED  BY <1>1, <1>3

\* Whatever adds the terms up is their sum.
LEMMA SumIs ==
  ASSUME NEW n \in Nat, NEW g, Terms(g, n),
         NEW s, s[0] = 0, \A i \in 1 .. n : s[i] = s[i - 1] + g[i - 1]
  PROVE  Sum(g, n) = s[n]
<1>1. PICK t : /\ t = CHOOSE u : Adds(u, g, n)
               /\ t[0] = 0 /\ \A i \in 1 .. n : t[i] = t[i - 1] + g[i - 1]
  BY SumSteps
<1>2. \A i \in 0 .. n : t[i] = s[i]
  BY <1>1, AddsAgree
<1>3. n \in 0 .. n
  OBVIOUS
<1> QED  BY <1>1, <1>2, <1>3, Zenon DEF Sum

LEMMA SumNext ==
  ASSUME NEW n \in Nat, NEW g, Terms(g, n)
  PROVE  /\ Sum(g, 0) = 0
         /\ \A i \in 1 .. n : Sum(g, i) = Sum(g, i - 1) + g[i - 1]
         /\ \A i \in 0 .. n : Sum(g, i) \in Int
<1>1. PICK s : s[0] = 0 /\ \A i \in 1 .. n : s[i] = s[i - 1] + g[i - 1]
  BY SumSteps
<1>2. ASSUME NEW i \in 0 .. n PROVE Sum(g, i) = s[i]
  <2>1. i \in Nat /\ Terms(g, i) /\ \A j \in 1 .. i : s[j] = s[j - 1] + g[j - 1]
    BY <1>1 DEF Terms
  <2> QED  BY <1>1, <2>1, SumIs
<1>3. Sum(g, 0) = 0
  BY <1>1, <1>2
<1>4. ASSUME NEW i \in 1 .. n PROVE Sum(g, i) = Sum(g, i - 1) + g[i - 1]
  <2>1. i \in 0 .. n /\ i - 1 \in 0 .. n
    OBVIOUS
  <2> QED  BY <1>1, <1>2, <2>1
<1> DEFINE T == {i \in 0 .. n : s[i] \in Int}
<1>5. 0 \in T
  BY <1>1
<1>6. ASSUME NEW i \in 1 .. n, i - 1 \in T PROVE i \in T
  <2>1. g[i - 1] \in Int
    BY DEF Terms
  <2> QED  BY <1>1, <1>6, <2>1
<1>7. \A i \in 0 .. n : i \in T
  <2> HIDE DEF T
  <2> QED  BY <1>5, <1>6, Upto
<1> QED  BY <1>2, <1>3, <1>4, <1>7

\* The sum of sums, and of multiples.
LEMMA SumLinear ==
  ASSUME NEW n \in Nat, NEW a, NEW b, NEW c \in Int, Terms(a, n), Terms(b, n),
         NEW d, \A i \in 0 .. n - 1 : d[i] = a[i] + c * b[i]
  PROVE  Sum(d, n) = Sum(a, n) + c * Sum(b, n)
<1>1. Terms(d, n)
  <2>1. ASSUME NEW i \in 0 .. n - 1 PROVE d[i] \in Int
    <3>1. a[i] \in Int /\ b[i] \in Int
      BY DEF Terms
    <3> QED  BY <3>1
  <2> QED  BY <2>1 DEF Terms
<1> DEFINE T == {i \in 0 .. n : Sum(d, i) = Sum(a, i) + c * Sum(b, i)}
<1>2. 0 \in T
  BY <1>1, SumNext
<1>3. ASSUME NEW i \in 1 .. n, i - 1 \in T PROVE i \in T
  <2>1. PICK x \in Int, y \in Int : x = Sum(a, i - 1) /\ y = Sum(b, i - 1)
    <3>1. i - 1 \in 0 .. n
      OBVIOUS
    <3> QED  BY <3>1, SumNext
  <2>2. PICK u \in Int, v \in Int : u = a[i - 1] /\ v = b[i - 1]
    <3>1. i - 1 \in 0 .. n - 1
      OBVIOUS
    <3> QED  BY <3>1 DEF Terms
  <2>3. Sum(d, i) = (x + c * y) + (u + c * v)
    <3>1. Sum(d, i) = Sum(d, i - 1) + d[i - 1]
      BY <1>1, SumNext
    <3>2. i - 1 \in 0 .. n - 1
      OBVIOUS
    <3> QED  BY <1>3, <2>1, <2>2, <3>1, <3>2
  <2>4. Sum(a, i) = x + u /\ Sum(b, i) = y + v
    BY <2>1, <2>2, SumNext
  <2>5. c * (y + v) = c * y + c * v
    OBVIOUS
  <2>6. c * y \in Int /\ c * v \in Int
    OBVIOUS
  <2>7. (x + c * y) + (u + c * v) = (x + u) + c * (y + v)
    BY <2>5, <2>6
  <2> QED  BY <2>3, <2>4, <2>7
<1>4. \A i \in 0 .. n : i \in T
  <2> HIDE DEF T
  <2> QED  BY <1>2, <1>3, Upto
<1> QED  BY <1>4

LEMMA SumSame ==
  ASSUME NEW n \in Nat, NEW g, NEW h, Terms(g, n), \A i \in 0 .. n - 1 : h[i] = g[i]
  PROVE  Sum(h, n) = Sum(g, n)
<1>1. PICK s : s[0] = 0 /\ \A i \in 1 .. n : s[i] = s[i - 1] + g[i - 1]
  BY SumSteps
<1>2. Sum(g, n) = s[n]
  BY <1>1, SumIs
<1>3. Terms(h, n) /\ \A i \in 1 .. n : s[i] = s[i - 1] + h[i - 1]
  BY <1>1 DEF Terms
<1> QED  BY <1>1, <1>2, <1>3, SumIs

-----------------------------------------------------------------------------
(* What limbs are worth. *)

Sized == Limbs \in Nat /\ Limbs >= 2 /\ Base \in Nat /\ Base >= 38 /\ Base % 2 = 0

WeightStep(w) == w = [i \in 0 .. Limbs |-> IF i = 0 THEN 1 ELSE Base * w[i - 1]]

LEMMA WeightNext ==
  ASSUME Sized
  PROVE  /\ Weight[0] = 1
         /\ \A i \in 1 .. Limbs : Weight[i] = Base * Weight[i - 1]
         /\ \A i \in 0 .. Limbs : Weight[i] \in Nat /\ Weight[i] >= 1
<1>1. PICK b \in Nat, n \in Nat : b = Base /\ n = Limbs /\ b >= 38 /\ n >= 2
  BY DEF Sized
<1> DEFINE Positive == {x \in Nat : x >= 1}
<1>2. PICK step : step = [p \in Positive \X (1 .. n) |-> b * p[1]]
  OBVIOUS
<1>3. ASSUME NEW x \in Positive PROVE b * x \in Positive
  <2>1. b * x >= 1 * x
    BY <1>1
  <2> QED  BY <2>1
<1>4. step \in [Positive \X (1 .. n) -> Positive]
  <2>1. ASSUME NEW p \in Positive \X (1 .. n) PROVE b * p[1] \in Positive
    <3>1. p[1] \in Positive
      OBVIOUS
    <3> QED  BY <1>3, <3>1
  <2> HIDE DEF Positive
  <2> QED  BY <1>2, <2>1
<1>5. PICK s : Folded(s, n, Positive, 1, step)
  <2>1. 1 \in Positive
    OBVIOUS
  <2> HIDE DEF Positive
  <2> QED  BY <1>4, <2>1, FoldExists
<1>6. /\ s \in [0 .. n -> Positive]
      /\ s = [i \in 0 .. n |-> IF i = 0 THEN 1 ELSE step[<<s[i - 1], i>>]]
  BY <1>5, Zenon DEF Folded
<1>7. \A i \in 0 .. n : i # 0 => step[<<s[i - 1], i>>] = b * s[i - 1]
  <2>1. ASSUME NEW i \in 0 .. n, i # 0 PROVE step[<<s[i - 1], i>>] = b * s[i - 1]
    <3>1. i - 1 \in 0 .. n /\ i \in 1 .. n
      BY <2>1
    <3>2. s[i - 1] \in Positive
      <4> HIDE DEF Positive
      <4> QED  BY <1>6, <3>1
    <3>3. <<s[i - 1], i>> \in Positive \X (1 .. n)
      BY <3>1, <3>2
    <3> HIDE DEF Positive
    <3> QED  BY <1>2, <3>3
  <2> QED  BY <2>1
<1>8. [i \in 0 .. n |-> IF i = 0 THEN 1 ELSE step[<<s[i - 1], i>>]]
        = [i \in 0 .. n |-> IF i = 0 THEN 1 ELSE b * s[i - 1]]
  BY <1>7
<1>9. \E w : WeightStep(w)
  <2>1. s = [i \in 0 .. Limbs |-> IF i = 0 THEN 1 ELSE Base * s[i - 1]]
    BY <1>1, <1>6, <1>8, Zenon
  <2> QED  BY <2>1, Zenon DEF WeightStep
<1>10. PICK w : w = CHOOSE u : WeightStep(u)
  OBVIOUS
<1>11. WeightStep(w)
  BY <1>9, <1>10, Zenon
<1>12. Weight = w
  BY <1>10, Zenon DEF Weight, WeightStep
<1>13. w[0] = 1 /\ \A i \in 1 .. n : w[i] = b * w[i - 1]
  <2>1. w = [i \in 0 .. n |-> IF i = 0 THEN 1 ELSE b * w[i - 1]]
    BY <1>1, <1>11, Zenon DEF WeightStep
  <2> QED  BY <2>1
<1> DEFINE T == {i \in 0 .. n : w[i] \in Positive}
<1>14. 0 \in T
  BY <1>13
<1>15. ASSUME NEW i \in 1 .. n, i - 1 \in T PROVE i \in T
  <2>1. w[i - 1] \in Positive /\ w[i] = b * w[i - 1]
    BY <1>13, <1>15
  <2>2. b * w[i - 1] \in Positive
    BY <1>3, <2>1
  <2> QED  BY <2>1, <2>2
<1>16. \A i \in 0 .. n : i \in T
  <2> HIDE DEF T
  <2> QED  BY <1>14, <1>15, Upto
<1> QED  BY <1>1, <1>12, <1>13, <1>16

Weighed(a) == [i \in 0 .. Top |-> a[i] * Weight[i]]

LEMMA Weighs ==
  ASSUME Sized, NEW a \in gf
  PROVE  Terms(Weighed(a), Limbs)
<1>1. ASSUME NEW i \in 0 .. Limbs - 1 PROVE a[i] * Weight[i] \in Int
  <2>1. i \in 0 .. Limbs /\ a[i] \in Int
    BY DEF gf, Top, Sized
  <2>2. Weight[i] \in Nat
    BY <2>1, WeightNext
  <2> QED  BY <2>1, <2>2
<1> QED  BY <1>1 DEF Terms, Weighed, Top

ValueStep(s, a) == s = [i \in 0 .. Limbs |-> IF i = 0 THEN 0 ELSE s[i - 1] + a[i - 1] * Weight[i - 1]]

LEMMA ValueIs ==
  ASSUME Sized, NEW a \in gf
  PROVE  Value(a) = Sum(Weighed(a), Limbs) /\ Value(a) \in Int
<1>1. PICK n \in Nat : n = Limbs /\ n >= 2
  BY DEF Sized
<1>2. PICK g : g = Weighed(a) /\ Terms(g, n)
  BY <1>1, Weighs
<1>3. \A i \in 0 .. n : i # 0 => g[i - 1] = a[i - 1] * Weight[i - 1]
  BY <1>1, <1>2 DEF Weighed, Top
<1>4. PICK s : Adds(s, g, n)
  BY <1>2, AddsExists
<1>5. [i \in 0 .. n |-> IF i = 0 THEN 0 ELSE s[i - 1] + g[i - 1]]
       = [i \in 0 .. n |-> IF i = 0 THEN 0 ELSE s[i - 1] + a[i - 1] * Weight[i - 1]]
  BY <1>3
<1>6. \E t : ValueStep(t, a)
  BY <1>1, <1>4, <1>5, Zenon DEF Adds, ValueStep
<1>7. PICK t : t = CHOOSE u : ValueStep(u, a)
  OBVIOUS
<1>8. ValueStep(t, a)
  BY <1>6, <1>7, Zenon
<1>9. Value(a) = t[n]
  BY <1>1, <1>7, Zenon DEF Value, ValueStep
<1>10. t[0] = 0 /\ \A i \in 1 .. n : t[i] = t[i - 1] + g[i - 1]
  <2>1. t = [i \in 0 .. n |-> IF i = 0 THEN 0 ELSE t[i - 1] + a[i - 1] * Weight[i - 1]]
    BY <1>1, <1>8, Zenon DEF ValueStep
  <2>2. t[0] = 0 /\ \A i \in 1 .. n : t[i] = t[i - 1] + a[i - 1] * Weight[i - 1]
    BY <2>1
  <2> QED  BY <1>3, <2>2
<1>11. Sum(g, n) = t[n]
  BY <1>2, <1>10, SumIs
<1>12. Sum(g, n) \in Int
  <2>1. n \in 0 .. n
    OBVIOUS
  <2> QED  BY <1>2, <2>1, SumNext
<1> QED  BY <1>1, <1>2, <1>9, <1>11, <1>12

-----------------------------------------------------------------------------
(* Carries. *)

\* What division by a positive number gives.
LEMMA Divides ==
  ASSUME NEW b \in Nat, b > 0, NEW x \in Int
  PROVE  x = b * (x \div b) + (x % b) /\ x \div b \in Int /\ x % b \in 0 .. b - 1
OBVIOUS

LEMMA DividesOnce ==
  ASSUME NEW b \in Nat, b > 0, NEW q \in Int, NEW r \in 0 .. b - 1, NEW x \in Int, x = b * q + r
  PROVE  x \div b = q /\ x % b = r
OBVIOUS

\* Carry, without the function it is written with.
CarryAt(x, i, fold) ==
  [j \in 0 .. Top |->
     IF j = i THEN x[j] % Base
     ELSE IF j # (i + 1) % Limbs THEN x[j]
     ELSE x[j] + (IF i = Top THEN fold ELSE 1) * (x[i] \div Base)]

LEMMA CarryIs ==
  ASSUME NEW x \in gf, NEW i, NEW fold
  PROVE  Carry(x, i, fold) = CarryAt(x, i, fold)
  BY Zenon DEF Carry, CarryAt

Moved(y, x, i, fold) ==
  /\ y \in gf /\ y[i] = x[i] % Base
  /\ \A j \in 0 .. Top : j # i /\ j # 0 /\ j # i + 1 => y[j] = x[j]
  /\ i < Top => y[i + 1] = x[i + 1] + (x[i] \div Base)
  /\ i < Top /\ i # 0 => y[0] = x[0]
  /\ i = Top => y[0] = x[0] + fold * (x[Top] \div Base)

\* Only limb i and the next one, or the lowest, change.
LEMMA CarryMoves ==
  ASSUME Sized, NEW x \in gf, NEW i \in 0 .. Top, NEW fold \in Int, NEW y, y = Carry(x, i, fold)
  PROVE  Moved(y, x, i, fold)
<1>1. PICK n \in Nat, b \in Nat : n = Top /\ n >= 1 /\ Limbs = n + 1 /\ b = Base /\ b > 0
  <2>1. Top \in Nat /\ Top >= 1 /\ Limbs = Top + 1 /\ Base \in Nat /\ Base > 0
    BY DEF Sized, Top
  <2> QED  BY <2>1, Zenon
<1>2. (i + 1) % Limbs = IF i = n THEN 0 ELSE i + 1
  <2>1. CASE i = n
    <3>1. (n + 1) % (n + 1) = 0
      OBVIOUS
    <3> QED  BY <1>1, <2>1, <3>1
  <2>2. CASE i # n
    <3>1. i + 1 \in 0 .. (n + 1) - 1 /\ n + 1 \in Nat /\ n + 1 > 0
      BY <1>1, <2>2
    <3>2. (i + 1) % (n + 1) = i + 1
      BY <3>1
    <3> QED  BY <1>1, <2>2, <3>2
  <2> QED  BY <2>1, <2>2
<1>3. \A j \in 0 .. n : x[j] \in Int /\ x[j] % b \in Int /\ x[j] \div b \in Int
  BY <1>1 DEF gf
<1>4. PICK c \in Int : c = x[i] \div b
  BY <1>1, <1>3
<1>5. y = CarryAt(x, i, fold)
  BY CarryIs
<1>6. y = [j \in 0 .. n |-> IF j = i THEN x[j] % b
                            ELSE IF j # (IF i = n THEN 0 ELSE i + 1) THEN x[j]
                            ELSE x[j] + (IF i = n THEN fold ELSE 1) * c]
  BY <1>1, <1>2, <1>4, <1>5 DEF CarryAt
<1>7. y \in [0 .. n -> Int]
  <2>1. fold * c \in Int /\ 1 * c \in Int
    OBVIOUS
  <2> QED  BY <1>3, <1>6, <2>1
<1>8. y[i] = x[i] % b /\ \A j \in 0 .. n : j # i /\ j # 0 /\ j # i + 1 => y[j] = x[j]
  BY <1>1, <1>6
<1>9. i < n => y[i + 1] = x[i + 1] + c
  BY <1>1, <1>3, <1>6
<1>10. i < n /\ i # 0 => y[0] = x[0]
  BY <1>1, <1>6
<1>11. i = n => y[0] = x[0] + fold * c
  BY <1>1, <1>6
<1> QED  BY <1>1, <1>4, <1>7, <1>8, <1>9, <1>10, <1>11 DEF gf, Moved

PassStep(s, o, fold) ==
  s = [i \in 0 .. Limbs |-> IF i = 0 THEN o ELSE Carry(s[i - 1], i - 1, fold)]

\* The passes exist, and each is made of the one before.
LEMMA PassNext ==
  ASSUME Sized, NEW o \in gf, NEW fold \in Int
  PROVE  \E s : /\ s = Carries(o, fold) /\ s[0] = o
                /\ \A i \in 0 .. Limbs : s[i] \in gf
                /\ \A i \in 0 .. Top : s[i + 1] = Carry(s[i], i, fold)
<1>1. PICK n \in Nat : n = Limbs /\ n >= 2 /\ Top = n - 1
  BY DEF Sized, Top
<1>2. PICK step : step = [p \in gf \X (1 .. n) |-> Carry(p[1], p[2] - 1, fold)]
  OBVIOUS
<1>3. ASSUME NEW x \in gf, NEW i \in 1 .. n
      PROVE  Carry(x, i - 1, fold) \in gf /\ step[<<x, i>>] = Carry(x, i - 1, fold)
  <2>1. i - 1 \in 0 .. Top
    BY <1>1
  <2>2. Carry(x, i - 1, fold) \in gf
    BY <2>1, CarryMoves DEF Moved
  <2>3. step[<<x, i>>] = Carry(x, i - 1, fold)
    BY <1>2
  <2> QED  BY <2>2, <2>3
<1>4. step \in [gf \X (1 .. n) -> gf]
  <2>1. ASSUME NEW p \in gf \X (1 .. n) PROVE Carry(p[1], p[2] - 1, fold) \in gf
    <3>1. p[1] \in gf /\ p[2] \in 1 .. n
      BY <2>1
    <3> QED  BY <1>3, <3>1
  <2> QED  BY <1>2, <2>1
<1>5. PICK s : Folded(s, n, gf, o, step)
  BY <1>4, FoldExists
<1>6. /\ s \in [0 .. n -> gf]
      /\ s = [i \in 0 .. n |-> IF i = 0 THEN o ELSE step[<<s[i - 1], i>>]]
  BY <1>5, Zenon DEF Folded
<1>7. \A i \in 0 .. n : i # 0 => step[<<s[i - 1], i>>] = Carry(s[i - 1], i - 1, fold)
  <2>1. ASSUME NEW i \in 0 .. n, i # 0 PROVE step[<<s[i - 1], i>>] = Carry(s[i - 1], i - 1, fold)
    <3>1. i \in 1 .. n /\ i - 1 \in 0 .. n
      BY <2>1
    <3>2. s[i - 1] \in gf
      BY <1>6, <3>1
    <3> QED  BY <1>3, <3>1, <3>2
  <2> QED  BY <2>1
<1>8. [i \in 0 .. n |-> IF i = 0 THEN o ELSE step[<<s[i - 1], i>>]]
        = [i \in 0 .. n |-> IF i = 0 THEN o ELSE Carry(s[i - 1], i - 1, fold)]
  BY <1>7
<1>9. \E t : PassStep(t, o, fold)
  <2>1. s = [i \in 0 .. n |-> IF i = 0 THEN o ELSE Carry(s[i - 1], i - 1, fold)]
    BY <1>6, <1>8, Zenon
  <2> QED  BY <1>1, <2>1, Zenon DEF PassStep
<1>10. PICK t : t = CHOOSE u : PassStep(u, o, fold)
  OBVIOUS
<1>11. PassStep(t, o, fold)
  BY <1>9, <1>10, Zenon
<1>12. Carries(o, fold) = t
  BY <1>10, Zenon DEF Carries, PassStep
<1>13. t[0] = o /\ \A i \in 1 .. n : t[i] = Carry(t[i - 1], i - 1, fold)
  <2>1. t = [i \in 0 .. n |-> IF i = 0 THEN o ELSE Carry(t[i - 1], i - 1, fold)]
    BY <1>1, <1>11, Zenon DEF PassStep
  <2> QED  BY <2>1
<1> DEFINE T == {i \in 0 .. n : t[i] \in gf}
<1>14. 0 \in T
  BY <1>13
<1>15. ASSUME NEW i \in 1 .. n, i - 1 \in T PROVE i \in T
  <2>1. t[i - 1] \in gf
    BY <1>15
  <2>2. Carry(t[i - 1], i - 1, fold) \in gf
    BY <1>3, <2>1
  <2> QED  BY <1>13, <2>2
<1>16. \A i \in 0 .. n : i \in T
  <2> HIDE DEF T
  <2> QED  BY <1>14, <1>15, Upto
<1>17. ASSUME NEW i \in 0 .. Top PROVE t[i + 1] = Carry(t[i], i, fold)
  <2>1. i + 1 \in 1 .. n /\ (i + 1) - 1 = i
    BY <1>1
  <2> QED  BY <1>13, <2>1
<1> QED  BY <1>1, <1>12, <1>13, <1>16, <1>17

\* What limb j is when it is its turn, c being the carries out of every limb.
In(o, c, j) == IF j = 0 THEN o[0] ELSE o[j] + c[j - 1]
Chain(c, o) == c \in [0 .. Top -> Int] /\ \A j \in 0 .. Top : c[j] = In(o, c, j) \div Base
\* The limbs when it is limb i's turn, and at the end.
Passed(x, o, c, i) ==
  \A j \in 0 .. Top : x[j] = IF j < i THEN In(o, c, j) % Base ELSE IF j = i THEN In(o, c, j) ELSE o[j]
Carried(r, o, c, fold) ==
  /\ r \in gf
  /\ \A j \in 0 .. Top : r[j] = (In(o, c, j) % Base) + IF j = 0 THEN fold * c[Top] ELSE 0

LEMMA CarriesAre ==
  ASSUME Sized, NEW o \in gf, NEW fold \in Int
  PROVE  \E c : /\ Chain(c, o) /\ Carried(Carries(o, fold)[Limbs], o, c, fold)
                /\ \A i \in 0 .. Top : Passed(Carries(o, fold)[i], o, c, i)
<1>1. PICK n \in Nat, b \in Nat : n = Top /\ n >= 1 /\ Limbs = n + 1 /\ b = Base /\ b > 0
  <2>1. Top \in Nat /\ Top >= 1 /\ Limbs = Top + 1 /\ Base \in Nat /\ Base > 0
    BY DEF Sized, Top
  <2> QED  BY <2>1, Zenon
<1>2. PICK s : /\ s = Carries(o, fold) /\ s[0] = o /\ \A i \in 0 .. Limbs : s[i] \in gf
               /\ \A i \in 0 .. Top : s[i + 1] = Carry(s[i], i, fold)
  BY PassNext
<1>3. PICK c : c = [j \in 0 .. n |-> s[j][j] \div b]
  OBVIOUS
<1>4. ASSUME NEW j \in 0 .. n PROVE s[j][j] \in Int /\ c[j] = s[j][j] \div b /\ c[j] \in Int
  <2>1. s[j] \in [0 .. n -> Int]
    BY <1>1, <1>2 DEF gf
  <2>2. s[j][j] \in Int /\ c[j] = s[j][j] \div b
    BY <1>3, <2>1
  <2> QED  BY <1>1, <2>2
<1>5. ASSUME NEW i \in 0 .. n
      PROVE  /\ s[i + 1] \in gf /\ s[i + 1][i] = s[i][i] % b
             /\ \A j \in 0 .. n : j # i /\ j # 0 /\ j # i + 1 => s[i + 1][j] = s[i][j]
             /\ i < n => s[i + 1][i + 1] = s[i][i + 1] + c[i]
             /\ i < n /\ i # 0 => s[i + 1][0] = s[i][0]
             /\ i = n => s[i + 1][0] = s[i][0] + fold * c[n]
  <2>1. PICK x, y : x = s[i] /\ x \in gf /\ y = s[i + 1] /\ y = Carry(x, i, fold)
    BY <1>1, <1>2
  <2>2. c[i] = x[i] \div b
    BY <1>4, <2>1
  <2>3. Moved(y, x, i, fold)
    <3>1. i \in 0 .. Top
      BY <1>1
    <3> QED  BY <2>1, <3>1, CarryMoves, Zenon
  <2> QED  BY <1>1, <2>1, <2>2, <2>3 DEF Moved
<1> DEFINE T == {i \in 0 .. n : Passed(s[i], o, c, i)}
<1>6. 0 \in T
  BY <1>1, <1>2 DEF Passed, In
<1>7. ASSUME NEW i \in 1 .. n, i - 1 \in T PROVE i \in T
  <2>1. PICK h \in 0 .. n : h = i - 1 /\ i = h + 1 /\ h < n
    OBVIOUS
  <2>2. Passed(s[h], o, c, h)
    BY <1>7, <2>1
  <2>3. ASSUME NEW j \in 0 .. n
        PROVE s[i][j] = IF j < i THEN In(o, c, j) % b ELSE IF j = i THEN In(o, c, j) ELSE o[j]
    <3>1. s[h][j] = IF j < h THEN In(o, c, j) % b ELSE IF j = h THEN In(o, c, j) ELSE o[j]
      BY <1>1, <2>2 DEF Passed
    <3>2. s[h][h] = In(o, c, h)
      BY <1>1, <2>2 DEF Passed
    <3>3. CASE j < h
      <4>1. s[i][j] = s[h][j]
        BY <1>5, <2>1, <3>3
      <4> QED  BY <2>1, <3>1, <3>3, <4>1
    <3>4. CASE j = h
      BY <1>5, <2>1, <3>2, <3>4
    <3>5. CASE j = i
      <4>1. s[i][i] = o[i] + c[h]
        BY <1>5, <2>1, <3>1, <3>5
      <4> QED  BY <2>1, <3>5, <4>1 DEF In
    <3>6. CASE j > i
      <4>1. s[i][j] = s[h][j]
        BY <1>5, <2>1, <3>6
      <4>2. ~(j < h) /\ j # h /\ ~(j < i) /\ j # i
        BY <2>1, <3>6
      <4> QED  BY <3>1, <4>1, <4>2, Zenon
    <3> QED  BY <2>1, <3>3, <3>4, <3>5, <3>6
  <2> QED  BY <1>1, <2>3 DEF Passed
<1>8. \A i \in 0 .. n : Passed(s[i], o, c, i)
  <2>1. \A i \in 0 .. n : i \in T
    <3> HIDE DEF T
    <3> QED  BY <1>6, <1>7, Upto
  <2> QED  BY <2>1
<1>9. ASSUME NEW j \in 0 .. n PROVE s[j][j] = In(o, c, j)
  BY <1>1, <1>8 DEF Passed
<1>10. Chain(c, o)
  <2>1. c \in [0 .. n -> Int]
    BY <1>3, <1>4
  <2> QED  BY <1>1, <1>4, <1>9, <2>1 DEF Chain
<1>11. Carried(s[n + 1], o, c, fold)
  <2>1. ASSUME NEW j \in 0 .. n
        PROVE  s[n + 1][j] = (In(o, c, j) % b) + IF j = 0 THEN fold * c[n] ELSE 0
    <3>1. s[n][j] = IF j < n THEN In(o, c, j) % b ELSE In(o, c, j)
      BY <1>1, <1>8 DEF Passed
    <3>2. In(o, c, j) % b \in Int
      <4>1. In(o, c, j) \in Int
        BY <1>4, <1>9
      <4> QED  BY <1>1, <4>1
    <3>3. CASE j = n
      BY <1>1, <1>5, <1>9, <3>2, <3>3
    <3>4. CASE j = 0
      BY <1>1, <1>5, <3>1, <3>4
    <3>5. CASE j # n /\ j # 0
      BY <1>1, <1>5, <3>1, <3>2, <3>5
    <3> QED  BY <3>3, <3>4, <3>5
  <2>2. s[n + 1] \in gf
    BY <1>5
  <2> QED  BY <1>1, <2>1, <2>2 DEF Carried
<1> QED  BY <1>1, <1>2, <1>8, <1>10, <1>11

\* A pass changes the number by what its last carry is worth out of the top limb.
LEMMA CarriedValue ==
  ASSUME Sized, NEW o \in gf, NEW c, Chain(c, o), NEW fold \in Int, NEW r, Carried(r, o, c, fold)
  PROVE  Value(r) + c[Top] * Weight[Limbs] = Value(o) + fold * c[Top]
<1>1. PICK n \in Nat, b \in Nat : n = Top /\ n >= 1 /\ Limbs = n + 1 /\ b = Base /\ b > 0
  <2>1. Top \in Nat /\ Top >= 1 /\ Limbs = Top + 1 /\ Base \in Nat /\ Base > 0
    BY DEF Sized, Top
  <2> QED  BY <2>1, Zenon
<1>2. PICK g, h : g = Weighed(o) /\ h = Weighed(r)
  OBVIOUS
<1>3. r \in gf
  BY DEF Carried
<1>4. Terms(g, n + 1) /\ Terms(h, n + 1) /\ Value(o) = Sum(g, n + 1) /\ Value(r) = Sum(h, n + 1)
  BY <1>1, <1>2, <1>3, Weighs, ValueIs
<1>5. \A k \in 0 .. n : o[k] \in Int /\ r[k] \in Int /\ c[k] \in Int
  BY <1>1, <1>3 DEF gf, Chain
<1>6. PICK F \in Int : F = fold * c[n]
  BY <1>1, <1>5
<1>7. /\ Weight[0] = 1 /\ \A i \in 1 .. n + 1 : Weight[i] = b * Weight[i - 1]
      /\ \A i \in 0 .. n + 1 : Weight[i] \in Int
  BY <1>1, WeightNext
<1>8. ASSUME NEW k \in 0 .. n
      PROVE  /\ g[k] = o[k] * Weight[k] /\ h[k] = r[k] * Weight[k]
             /\ Weight[k] \in Int /\ Weight[k + 1] = b * Weight[k]
  BY <1>1, <1>2, <1>7 DEF Weighed
<1>9. ASSUME NEW k \in 0 .. n
      PROVE  /\ In(o, c, k) \in Int
             /\ In(o, c, k) = b * c[k] + (In(o, c, k) % b)
             /\ r[k] = (In(o, c, k) % b) + IF k = 0 THEN F ELSE 0
             /\ In(o, c, k) % b \in Int
  <2>1. PICK x \in Int : x = In(o, c, k)
    BY <1>5 DEF In
  <2>2. x = b * (x \div b) + (x % b) /\ x \div b \in Int /\ x % b \in Int
    BY <1>1, Divides
  <2>3. c[k] = x \div b
    BY <1>1, <2>1 DEF Chain
  <2>4. r[k] = (x % b) + IF k = 0 THEN F ELSE 0
    BY <1>1, <1>6, <2>1 DEF Carried
  <2> QED  BY <2>1, <2>2, <2>3, <2>4
<1>10. /\ Sum(g, 0) = 0 /\ \A i \in 1 .. n + 1 : Sum(g, i) = Sum(g, i - 1) + g[i - 1]
       /\ \A i \in 0 .. n + 1 : Sum(g, i) \in Int
  BY <1>1, <1>4, SumNext
<1>11. /\ Sum(h, 0) = 0 /\ \A i \in 1 .. n + 1 : Sum(h, i) = Sum(h, i - 1) + h[i - 1]
       /\ \A i \in 0 .. n + 1 : Sum(h, i) \in Int
  BY <1>1, <1>4, SumNext
<1>12. ASSUME NEW k \in 0 .. n
       PROVE  /\ Sum(g, k + 1) = Sum(g, k) + o[k] * Weight[k] /\ Sum(g, k) \in Int
              /\ Sum(h, k + 1) = Sum(h, k) + r[k] * Weight[k] /\ Sum(h, k) \in Int
              /\ Sum(g, k + 1) \in Int /\ Sum(h, k + 1) \in Int
  <2>1. k + 1 \in 1 .. n + 1 /\ (k + 1) - 1 = k /\ k \in 0 .. n + 1 /\ k + 1 \in 0 .. n + 1
    OBVIOUS
  <2> QED  BY <1>8, <1>10, <1>11, <2>1
<1> DEFINE T == {k \in 0 .. n : Sum(g, k + 1) + F = Sum(h, k + 1) + c[k] * Weight[k + 1]}
<1>13. 0 \in T
  <2>1. PICK x \in Int, c0 \in Int, q \in Int : x = o[0] /\ c0 = c[0] /\ q = x % b /\ x = b * c0 + q /\ r[0] = q + F
    <3>1. 0 \in 0 .. n
      BY <1>1
    <3>2. In(o, c, 0) = o[0]
      BY DEF In
    <3>3. /\ o[0] \in Int /\ c[0] \in Int /\ o[0] % b \in Int
          /\ o[0] = b * c[0] + (o[0] % b) /\ r[0] = (o[0] % b) + F
      BY <1>5, <1>9, <3>1, <3>2
    <3> QED  BY <3>3
  <2>2. Sum(g, 0 + 1) = x /\ Sum(h, 0 + 1) = q + F /\ Weight[0 + 1] = b
    <3>1. x * 1 = x /\ (q + F) * 1 = q + F /\ b * 1 = b
      OBVIOUS
    <3>2. 0 \in 0 .. n
      BY <1>1
    <3>3. Weight[0 + 1] = b
      BY <1>7, <1>8, <3>1, <3>2
    <3>4. Sum(g, 0 + 1) = 0 + x * 1 /\ Sum(h, 0 + 1) = 0 + (q + F) * 1
      BY <1>7, <1>10, <1>11, <1>12, <2>1, <3>2
    <3> QED  BY <3>1, <3>3, <3>4
  <2>3. x + F = (q + F) + c0 * b
    BY <2>1
  <2> QED  BY <2>1, <2>2, <2>3
<1>14. ASSUME NEW k \in 1 .. n, k - 1 \in T PROVE k \in T
  <2>1. PICK x \in Int, p \in Int, q \in Int, ck \in Int, w \in Int :
          x = o[k] /\ p = c[k - 1] /\ q = r[k] /\ ck = c[k] /\ w = Weight[k] /\ x + p = q + b * ck
    <3>1. k \in 0 .. n /\ k - 1 \in 0 .. n /\ k # 0
      OBVIOUS
    <3>2. In(o, c, k) = o[k] + c[k - 1]
      BY DEF In
    <3>3. /\ o[k] \in Int /\ c[k - 1] \in Int /\ r[k] \in Int /\ c[k] \in Int /\ Weight[k] \in Int
      BY <1>5, <1>8, <3>1
    <3>4. In(o, c, k) = b * c[k] + (In(o, c, k) % b) /\ r[k] = (In(o, c, k) % b) + 0
      BY <1>9, <3>1
    <3>5. PICK y \in Int, m \in Int : y = In(o, c, k) /\ m = y % b
      BY <1>9, <3>1
    <3>6. o[k] + c[k - 1] = r[k] + b * c[k]
      BY <1>1, <3>2, <3>3, <3>4, <3>5
    <3> QED  BY <3>3, <3>6
  <2>2. PICK u \in Int, v \in Int : u = Sum(g, k) /\ v = Sum(h, k)
    BY <1>12
  <2>3. u + F = v + p * w
    BY <1>14, <2>1, <2>2
  <2>4. Sum(g, k + 1) = u + x * w /\ Sum(h, k + 1) = v + q * w /\ Weight[k + 1] = b * w
    BY <1>8, <1>12, <2>1, <2>2
  <2>5. x * w + p * w = q * w + ck * (b * w)
    <3>1. x * w + p * w = (x + p) * w
      OBVIOUS
    <3>2. (q + b * ck) * w = q * w + ck * (b * w)
      OBVIOUS
    <3> QED  BY <2>1, <3>1, <3>2
  <2>6. PICK xw \in Int, pw \in Int, qw \in Int, cw \in Int :
          xw = x * w /\ pw = p * w /\ qw = q * w /\ cw = ck * (b * w)
    OBVIOUS
  <2>7. (u + xw) + F = (v + qw) + cw
    BY <2>3, <2>5, <2>6
  <2> QED  BY <2>1, <2>4, <2>6, <2>7
<1>15. n \in T
  <2>1. \A k \in 0 .. n : k \in T
    <3> HIDE DEF T
    <3> QED  BY <1>13, <1>14, Upto
  <2> QED  BY <2>1
<1> QED  BY <1>1, <1>4, <1>6, <1>15

-----------------------------------------------------------------------------
(* Numbers that P divides the difference of. *)

Cong(u, v) == \E q \in Int : u = v + q * P

\* What a carry out of the top limb is worth.
LEMMA TopWeight ==
  ASSUME Sized
  PROVE  P \in Nat /\ P > 38 /\ Weight[Limbs] = 2 * P + 38
<1>1. PICK n \in Nat, b \in Nat, h \in Nat, w \in Nat :
        /\ n = Top /\ n >= 1 /\ Limbs = n + 1 /\ b = Base /\ b = 2 * h /\ h >= 19 /\ b >= 38
        /\ h = Base \div 2 /\ w = Weight[n] /\ w >= 1
  <2>1. Top \in Nat /\ Top >= 1 /\ Limbs = Top + 1 /\ Base \in Nat /\ Top \in 0 .. Limbs
    BY DEF Sized, Top
  <2>2. Base \div 2 \in Nat /\ Base = 2 * (Base \div 2) /\ Base \div 2 >= 19 /\ Base >= 38
    BY <2>1 DEF Sized
  <2>3. Weight[Top] \in Nat /\ Weight[Top] >= 1
    BY <2>1, WeightNext
  <2> QED  BY <2>1, <2>2, <2>3, Zenon
<1>2. Weight[n + 1] = b * w
  <2>1. n + 1 \in 1 .. Limbs /\ (n + 1) - 1 = n
    BY <1>1
  <2> QED  BY <1>1, <2>1, WeightNext
<1>3. w >= 38
  <2>1. n \in 1 .. Limbs /\ n - 1 \in 0 .. Limbs
    BY <1>1
  <2>2. PICK v \in Nat : v = Weight[n - 1] /\ v >= 1 /\ w = b * v
    BY <1>1, <2>1, WeightNext
  <2>3. b * v >= b * 1
    BY <2>2
  <2> QED  BY <1>1, <2>2, <2>3
<1>4. PICK p \in Nat : p = h * w /\ b * w = 2 * p /\ p >= 60
  <2>1. (2 * h) * w = 2 * (h * w)
    OBVIOUS
  <2>2. h * w >= 19 * 38
    BY <1>1, <1>3
  <2> QED  BY <1>1, <2>1, <2>2
<1>5. P = p - 19
  <2>1. P = h * w - 19
    BY <1>1, Zenon DEF P
  <2> QED  BY <1>4, <2>1, Zenon
<1>6. Weight[Limbs] = 2 * p
  BY <1>1, <1>2, <1>4
<1>7. p \in Nat /\ p >= 60
  BY <1>4
<1> QED  BY <1>5, <1>6, <1>7

LEMMA CongMod ==
  ASSUME Sized, NEW u \in Int, NEW v \in Int, Cong(u, v)
  PROVE  u % P = v % P
<1>1. PICK p \in Nat : p = P /\ p > 0
  BY TopWeight
<1>2. PICK q \in Int : u = v + q * p
  BY <1>1 DEF Cong
<1>3. PICK d \in Int, r \in 0 .. p - 1 : d = v \div p /\ r = v % p /\ v = p * d + r
  BY <1>1, Divides
<1>4. u = p * (d + q) + r
  <2>1. p * (d + q) = p * d + q * p
    OBVIOUS
  <2> QED  BY <1>2, <1>3, <2>1
<1>5. d + q \in Int
  OBVIOUS
<1>6. u % p = r
  BY <1>1, <1>4, <1>5, DividesOnce
<1> QED  BY <1>1, <1>3, <1>6

LEMMA CongSelf ==
  ASSUME Sized, NEW u \in Int
  PROVE  Cong(u, u)
<1>1. u = u + 0 * P
  BY TopWeight
<1> QED  BY <1>1 DEF Cong

LEMMA CongTrans ==
  ASSUME Sized, NEW u \in Int, NEW v \in Int, NEW w \in Int, Cong(u, v), Cong(v, w)
  PROVE  Cong(u, w)
<1>1. PICK p \in Int : p = P
  BY TopWeight
<1>2. PICK q \in Int : u = v + q * p
  BY <1>1 DEF Cong
<1>3. PICK r \in Int : v = w + r * p
  BY <1>1 DEF Cong
<1>4. u = w + (q + r) * p /\ q + r \in Int
  BY <1>2, <1>3
<1> QED  BY <1>1, <1>4 DEF Cong

\* Multiples and sums go along.
LEMMA CongLinear ==
  ASSUME Sized, NEW u \in Int, NEW v \in Int, NEW x \in Int, NEW y \in Int, NEW c \in Int,
         Cong(u, v), Cong(x, y)
  PROVE  Cong(u + c * x, v + c * y)
<1>1. PICK p \in Int : p = P
  BY TopWeight
<1>2. PICK q \in Int : u = v + q * p
  BY <1>1 DEF Cong
<1>3. PICK r \in Int : x = y + r * p
  BY <1>1 DEF Cong
<1>4. c * (y + r * p) = c * y + (c * r) * p /\ c * r \in Int
  OBVIOUS
<1>5. (q + c * r) * p = q * p + (c * r) * p
  OBVIOUS
<1>6. u + c * x = (v + c * y) + (q + c * r) * p /\ q + c * r \in Int
  BY <1>2, <1>3, <1>4, <1>5
<1> QED  BY <1>1, <1>6 DEF Cong

\* car25519 keeps the number modulo P (tweetnacl.c 273-283).
LEMMA CarExact ==
  ASSUME Sized, NEW o \in gf
  PROVE  car25519(o) \in gf /\ Cong(Value(car25519(o)), Value(o))
<1>1. PICK c : Chain(c, o) /\ Carried(Carries(o, 38)[Limbs], o, c, 38)
  <2>1. 38 \in Int
    OBVIOUS
  <2> QED  BY <2>1, CarriesAre
<1>2. PICK r : r = car25519(o) /\ Carried(r, o, c, 38)
  BY <1>1, Zenon DEF car25519
<1>3. r \in gf
  BY <1>2 DEF Carried
<1>4. PICK d \in Int, p \in Int, v \in Int, u \in Int :
        d = c[Top] /\ p = P /\ v = Value(o) /\ u = Value(r) /\ Weight[Limbs] = 2 * p + 38
  <2>1. Top \in 0 .. Top
    BY DEF Top, Sized
  <2>2. c[Top] \in Int
    BY <1>1, <2>1 DEF Chain
  <2> QED  BY <1>3, <2>2, TopWeight, ValueIs
<1>5. u + d * (2 * p + 38) = v + 38 * d
  <2>1. 38 \in Int
    OBVIOUS
  <2> QED  BY <1>1, <1>2, <1>4, <2>1, CarriedValue
<1>6. d * (2 * p + 38) = (2 * d) * p + 38 * d
  OBVIOUS
<1>7. u = v + (-2 * d) * p /\ -2 * d \in Int
  <2>1. (-2 * d) * p = -((2 * d) * p) /\ (2 * d) * p \in Int
    OBVIOUS
  <2> QED  BY <1>5, <1>6, <2>1
<1> QED  BY <1>2, <1>3, <1>4, <1>7 DEF Cong

-----------------------------------------------------------------------------
(* Products. *)

Combined(d, a, c, b) == \A k \in 0 .. Top : d[k] = a[k] + c * b[k]

LEMMA ValueLinear ==
  ASSUME Sized, NEW a \in gf, NEW b \in gf, NEW c \in Int, NEW d \in gf, Combined(d, a, c, b)
  PROVE  Value(d) = Value(a) + c * Value(b)
<1>1. PICK n \in Nat : n = Limbs /\ Top = n - 1
  BY DEF Sized, Top
<1>2. PICK f, g, h : f = Weighed(a) /\ g = Weighed(b) /\ h = Weighed(d)
  OBVIOUS
<1>3. /\ Terms(f, n) /\ Terms(g, n)
      /\ Value(a) = Sum(f, n) /\ Value(b) = Sum(g, n) /\ Value(d) = Sum(h, n)
  BY <1>1, <1>2, Weighs, ValueIs
<1>4. ASSUME NEW k \in 0 .. n - 1 PROVE h[k] = f[k] + c * g[k]
  <2>1. PICK x \in Int, y \in Int, w \in Int :
          x = a[k] /\ y = b[k] /\ w = Weight[k] /\ d[k] = x + c * y
    <3>1. k \in 0 .. Top /\ k \in 0 .. Limbs
      BY <1>1
    <3>2. a[k] \in Int /\ b[k] \in Int
      BY <3>1 DEF gf
    <3>3. Weight[k] \in Int
      BY <3>1, WeightNext
    <3>4. d[k] = a[k] + c * b[k]
      BY <3>1 DEF Combined
    <3> QED  BY <3>2, <3>3, <3>4
  <2>2. f[k] = x * w /\ g[k] = y * w /\ h[k] = (x + c * y) * w
    BY <1>1, <1>2, <2>1 DEF Weighed
  <2>3. (x + c * y) * w = x * w + c * (y * w)
    OBVIOUS
  <2> QED  BY <2>2, <2>3
<1> QED  BY <1>3, <1>4, SumLinear

\* Limbs moved up by one, the top one coming back 38 times, are Base times the number.
LEMMA ShiftValue ==
  ASSUME Sized, NEW x \in gf, NEW y \in gf, y[0] = 38 * x[Top],
         \A k \in 1 .. Top : y[k] = x[k - 1]
  PROVE  Cong(Value(y), Base * Value(x))
<1>1. PICK n \in Nat, b \in Nat : n = Top /\ n >= 1 /\ Limbs = n + 1 /\ b = Base /\ b > 0
  <2>1. Top \in Nat /\ Top >= 1 /\ Limbs = Top + 1 /\ Base \in Nat /\ Base > 0
    BY DEF Sized, Top
  <2> QED  BY <2>1, Zenon
<1>2. PICK g, h : g = Weighed(x) /\ h = Weighed(y)
  OBVIOUS
<1>3. /\ Terms(g, n + 1) /\ Terms(h, n + 1)
      /\ Value(x) = Sum(g, n + 1) /\ Value(y) = Sum(h, n + 1)
  BY <1>1, <1>2, Weighs, ValueIs
<1>4. ASSUME NEW k \in 0 .. n
      PROVE  /\ g[k] = x[k] * Weight[k] /\ h[k] = y[k] * Weight[k]
             /\ x[k] \in Int /\ y[k] \in Int /\ Weight[k] \in Int
             /\ Weight[k + 1] = b * Weight[k]
  <2>1. k \in 0 .. Top /\ k \in 0 .. Limbs /\ k + 1 \in 1 .. Limbs /\ (k + 1) - 1 = k
    BY <1>1
  <2>2. g[k] = x[k] * Weight[k] /\ h[k] = y[k] * Weight[k]
    BY <1>2, <2>1 DEF Weighed
  <2>3. x[k] \in Int /\ y[k] \in Int
    BY <2>1 DEF gf
  <2>4. Weight[k] \in Int /\ Weight[k + 1] = Base * Weight[k]
    BY <2>1, WeightNext
  <2> QED  BY <1>1, <2>2, <2>3, <2>4
<1>5. ASSUME NEW k \in 0 .. n
      PROVE  /\ Sum(g, k + 1) = Sum(g, k) + x[k] * Weight[k] /\ Sum(g, k) \in Int
             /\ Sum(h, k + 1) = Sum(h, k) + y[k] * Weight[k] /\ Sum(h, k) \in Int
             /\ Sum(g, 0) = 0 /\ Sum(h, 0) = 0
  <2>1. k + 1 \in 1 .. n + 1 /\ (k + 1) - 1 = k /\ k \in 0 .. n + 1
    OBVIOUS
  <2> QED  BY <1>3, <1>4, <2>1, SumNext
<1>6. PICK t \in Int : t = x[n]
  BY <1>1, <1>4
<1> DEFINE T == {k \in 0 .. n : Sum(h, k + 1) = 38 * t + b * Sum(g, k)}
<1>7. 0 \in T
  <2>1. 0 \in 0 .. n
    BY <1>1
  <2>2. Weight[0] = 1
    BY WeightNext
  <2>3. y[0] * Weight[0] = 38 * t /\ b * 0 = 0
    BY <1>1, <1>6, <2>2
  <2> QED  BY <1>5, <2>1, <2>3
<1>8. ASSUME NEW k \in 1 .. n, k - 1 \in T PROVE k \in T
  <2>1. PICK j \in 0 .. n : j = k - 1 /\ k = j + 1 /\ k \in 0 .. n
    OBVIOUS
  <2>2. PICK u \in Int, z \in Int, w \in Int : u = Sum(g, j) /\ z = x[j] /\ w = Weight[j]
    BY <1>4, <1>5
  <2>3. Sum(h, k) = 38 * t + b * u
    BY <1>8, <2>1, <2>2
  <2>4. Sum(h, k + 1) = Sum(h, k) + y[k] * Weight[k]
    BY <1>5
  <2>5. y[k] = z
    BY <1>1, <2>1, <2>2
  <2>6. Weight[k] = b * w
    BY <1>4, <2>1, <2>2
  <2>7. Sum(g, k) = u + z * w
    BY <1>5, <2>1, <2>2
  <2>8. b * (u + z * w) = b * u + z * (b * w)
    OBVIOUS
  <2>9. PICK bu \in Int, zw \in Int : bu = b * u /\ zw = z * (b * w)
    OBVIOUS
  <2>10. Sum(h, k + 1) = (38 * t + bu) + zw
    BY <2>3, <2>4, <2>5, <2>6, <2>9
  <2>11. 38 * t + b * Sum(g, k) = 38 * t + (bu + zw)
    BY <2>7, <2>8, <2>9
  <2> QED  BY <2>1, <2>10, <2>11
<1>9. n \in T
  <2>1. \A k \in 0 .. n : k \in T
    <3> HIDE DEF T
    <3> QED  BY <1>7, <1>8, Upto
  <2> QED  BY <2>1
<1>10. PICK s \in Int, w \in Int, p \in Int :
         /\ s = Sum(g, n) /\ w = Weight[n] /\ p = P /\ b * w = 2 * p + 38
         /\ Value(y) = 38 * t + b * s /\ Value(x) = s + t * w
  <2>1. n \in 0 .. n
    BY <1>1
  <2>2. Weight[n + 1] = 2 * P + 38 /\ P \in Int
    BY <1>1, TopWeight
  <2>3. Sum(g, n) \in Int /\ Weight[n] \in Int /\ b * Weight[n] = 2 * P + 38
    BY <1>4, <1>5, <2>1, <2>2
  <2>4. Value(y) = 38 * t + b * Sum(g, n)
    BY <1>3, <1>9
  <2>5. Value(x) = Sum(g, n) + t * Weight[n]
    BY <1>3, <1>5, <1>6, <2>1
  <2> QED  BY <2>2, <2>3, <2>4, <2>5
<1>11. 38 * t + b * s = b * (s + t * w) + (-2 * t) * p /\ -2 * t \in Int
  <2>1. b * (s + t * w) = b * s + t * (b * w)
    OBVIOUS
  <2>2. t * (2 * p + 38) = (2 * t) * p + 38 * t
    OBVIOUS
  <2>3. (-2 * t) * p = -((2 * t) * p) /\ (2 * t) * p \in Int /\ b * s \in Int
    OBVIOUS
  <2> QED  BY <1>10, <2>1, <2>2, <2>3
<1> QED  BY <1>1, <1>10, <1>11 DEF Cong

\* y moved up by i limbs.
Shifted(y, i) == [k \in 0 .. Top |-> IF k >= i THEN y[k - i] ELSE 38 * y[k + Limbs - i]]

\* Each limb further is worth Base more.
LEMMA MovedValue ==
  ASSUME Sized, NEW y \in gf
  PROVE  \A i \in 0 .. Top : Shifted(y, i) \in gf /\ Cong(Value(Shifted(y, i)), Weight[i] * Value(y))
<1>1. PICK n \in Nat : n = Top /\ n >= 1 /\ Limbs = n + 1
  <2>1. Top \in Nat /\ Top >= 1 /\ Limbs = Top + 1
    BY DEF Sized, Top
  <2> QED  BY <2>1, Zenon
<1>2. \A k \in 0 .. n : y[k] \in Int
  BY <1>1 DEF gf
<1>3. ASSUME NEW i \in 0 .. n, NEW k \in 0 .. n
      PROVE  /\ Shifted(y, i)[k] = IF k >= i THEN y[k - i] ELSE 38 * y[k + n + 1 - i]
             /\ Shifted(y, i)[k] \in Int
  <2>1. Shifted(y, i)[k] = IF k >= i THEN y[k - i] ELSE 38 * y[k + n + 1 - i]
    <3>1. k + Limbs - i = k + n + 1 - i
      BY <1>1
    <3> QED  BY <1>1, <3>1 DEF Shifted
  <2>2. k >= i => k - i \in 0 .. n
    OBVIOUS
  <2>3. ~(k >= i) => k + n + 1 - i \in 0 .. n
    OBVIOUS
  <2> QED  BY <1>2, <2>1, <2>2, <2>3
<1>4. ASSUME NEW i \in 0 .. n PROVE Shifted(y, i) \in gf
  <2>1. Shifted(y, i) = [k \in 0 .. n |-> Shifted(y, i)[k]]
    BY <1>1 DEF Shifted
  <2>2. Shifted(y, i) \in [0 .. n -> Int]
    BY <1>3, <2>1
  <2> QED  BY <1>1, <2>2 DEF gf
<1> DEFINE T == {i \in 0 .. n : Cong(Value(Shifted(y, i)), Weight[i] * Value(y))}
<1>5. 0 \in T
  <2>1. Shifted(y, 0) = y
    <3>1. ASSUME NEW k \in 0 .. n PROVE Shifted(y, 0)[k] = y[k]
      <4>1. 0 \in 0 .. n /\ k >= 0 /\ k - 0 = k
        BY <1>1
      <4> QED  BY <1>3, <4>1
    <3>2. Shifted(y, 0) \in [0 .. n -> Int] /\ y \in [0 .. n -> Int]
      BY <1>1, <1>4 DEF gf
    <3> QED  BY <3>1, <3>2
  <2>2. Weight[0] * Value(y) = Value(y) /\ Value(y) \in Int
    BY WeightNext, ValueIs
  <2>3. Cong(Value(y), Value(y))
    BY <2>2, CongSelf
  <2> QED  BY <1>1, <2>1, <2>2, <2>3
<1>6. ASSUME NEW i \in 1 .. n, i - 1 \in T PROVE i \in T
  <2>1. PICK h \in 0 .. n : h = i - 1 /\ i = h + 1 /\ i \in 0 .. n
    OBVIOUS
  <2>2. PICK x, z : x = Shifted(y, h) /\ z = Shifted(y, i) /\ x \in gf /\ z \in gf
    BY <1>4, <2>1
  <2>3. z[0] = 38 * x[Top]
    <3>1. z[0] = 38 * y[0 + n + 1 - i] /\ x[n] = y[n - h] /\ 0 + n + 1 - i = n - h
      BY <1>1, <1>3, <2>1, <2>2
    <3> QED  BY <1>1, <3>1
  <2>4. ASSUME NEW k \in 1 .. Top PROVE z[k] = x[k - 1]
    <3>1. PICK j \in 0 .. n : j = k - 1 /\ k = j + 1 /\ k \in 0 .. n
      BY <1>1
    <3>2. z[k] = IF k >= i THEN y[k - i] ELSE 38 * y[k + n + 1 - i]
      BY <1>3, <2>1, <2>2, <3>1
    <3>3. x[j] = IF j >= h THEN y[j - h] ELSE 38 * y[j + n + 1 - h]
      BY <1>3, <2>1, <2>2, <3>1
    <3>4. k - i = j - h /\ k + n + 1 - i = j + n + 1 - h /\ (k >= i <=> j >= h)
      BY <2>1, <3>1
    <3> QED  BY <3>1, <3>2, <3>3, <3>4
  <2>5. Cong(Value(z), Base * Value(x))
    BY <2>2, <2>3, <2>4, ShiftValue
  <2>6. PICK b \in Int, u \in Int, v \in Int, s \in Int, w \in Int :
          /\ b = Base /\ u = Value(z) /\ v = Value(x) /\ s = Value(y) /\ w = Weight[h]
          /\ Weight[i] = b * w
    <3>1. Value(x) \in Int /\ Value(y) \in Int /\ Value(z) \in Int
      BY <2>2, ValueIs
    <3>2. h \in 0 .. Limbs /\ i \in 1 .. Limbs /\ i - 1 = h
      BY <1>1, <2>1
    <3>3. Weight[h] \in Int /\ Weight[i] = Base * Weight[h] /\ Base \in Int
      BY <3>2, WeightNext DEF Sized
    <3> QED  BY <3>1, <3>3
  <2>7. Cong(v, w * s)
    BY <1>6, <2>1, <2>2, <2>6
  <2>8. Cong(u, b * v)
    BY <2>5, <2>6
  <2>9. Cong(b * v, b * (w * s))
    <3>1. 0 \in Int /\ w * s \in Int
      OBVIOUS
    <3>2. Cong(0, 0)
      BY CongSelf
    <3>3. Cong(0 + b * v, 0 + b * (w * s))
      BY <2>7, <3>1, <3>2, CongLinear
    <3> QED  BY <3>3
  <2>10. Cong(u, b * (w * s))
    <3>1. b * v \in Int /\ b * (w * s) \in Int
      OBVIOUS
    <3> QED  BY <2>8, <2>9, <3>1, CongTrans
  <2>11. (b * w) * s = b * (w * s)
    OBVIOUS
  <2> QED  BY <2>1, <2>2, <2>6, <2>10, <2>11
<1>7. \A i \in 0 .. n : i \in T
  <2> HIDE DEF T
  <2> QED  BY <1>5, <1>6, Upto
<1> QED  BY <1>1, <1>4, <1>7

\* What row i of the product adds to column k.
Entry(x, y, k) == [i \in 0 .. Top |-> IF k - i \in 0 .. Top THEN x[i] * y[k - i] ELSE 0]
ColumnStep(s, x, y, k) ==
  s = [i \in 0 .. Limbs |->
         IF i = 0 THEN 0
         ELSE s[i - 1] + IF k - (i - 1) \in 0 .. Top THEN x[i - 1] * y[k - (i - 1)] ELSE 0]

LEMMA ColumnIs ==
  ASSUME Sized, NEW x \in gf, NEW y \in gf, NEW k \in Int
  PROVE  /\ Column(x, y, k)[0] = 0
         /\ \A i \in 0 .. Top : /\ Column(x, y, k)[i + 1] = Column(x, y, k)[i] + Entry(x, y, k)[i]
                                /\ Entry(x, y, k)[i] \in Int
         /\ \A i \in 0 .. Limbs : Column(x, y, k)[i] \in Int
<1>1. PICK n \in Nat : n = Limbs /\ n >= 2 /\ Top = n - 1
  BY DEF Sized, Top
<1>2. PICK g : g = Entry(x, y, k)
  OBVIOUS
<1>3. \A i \in 0 .. n - 1 : g[i] = (IF k - i \in 0 .. Top THEN x[i] * y[k - i] ELSE 0) /\ g[i] \in Int
  <2>1. ASSUME NEW i \in 0 .. n - 1
        PROVE g[i] = (IF k - i \in 0 .. Top THEN x[i] * y[k - i] ELSE 0) /\ g[i] \in Int
    <3>1. g[i] = IF k - i \in 0 .. Top THEN x[i] * y[k - i] ELSE 0
      BY <1>1, <1>2 DEF Entry
    <3>2. x[i] \in Int /\ (k - i \in 0 .. Top => y[k - i] \in Int)
      BY <1>1 DEF gf
    <3>3. k - i \in 0 .. Top => x[i] * y[k - i] \in Int
      BY <3>2
    <3> QED  BY <3>1, <3>3
  <2> QED  BY <2>1
<1>4. Terms(g, n)
  BY <1>3 DEF Terms
<1>5. PICK s : Adds(s, g, n)
  BY <1>4, AddsExists
<1>6. \A i \in 0 .. n : i # 0 =>
        g[i - 1] = IF k - (i - 1) \in 0 .. Top THEN x[i - 1] * y[k - (i - 1)] ELSE 0
  <2>1. ASSUME NEW i \in 0 .. n, i # 0
        PROVE g[i - 1] = IF k - (i - 1) \in 0 .. Top THEN x[i - 1] * y[k - (i - 1)] ELSE 0
    <3>1. i - 1 \in 0 .. n - 1
      BY <2>1
    <3> QED  BY <1>3, <3>1
  <2> QED  BY <2>1
<1>7. [i \in 0 .. n |-> IF i = 0 THEN 0 ELSE s[i - 1] + g[i - 1]]
       = [i \in 0 .. n |-> IF i = 0 THEN 0
           ELSE s[i - 1] + IF k - (i - 1) \in 0 .. Top THEN x[i - 1] * y[k - (i - 1)] ELSE 0]
  BY <1>6
<1>8. \E t : ColumnStep(t, x, y, k)
  BY <1>1, <1>5, <1>7, Zenon DEF Adds, ColumnStep
<1>9. PICK t : t = CHOOSE u : ColumnStep(u, x, y, k)
  OBVIOUS
<1>10. ColumnStep(t, x, y, k)
  BY <1>8, <1>9, Zenon
<1>11. Column(x, y, k) = t
  BY <1>9, Zenon DEF Column, ColumnStep
<1>12. t[0] = 0 /\ \A i \in 1 .. n : t[i] = t[i - 1] + g[i - 1]
  <2>1. t = [i \in 0 .. n |-> IF i = 0 THEN 0
           ELSE t[i - 1] + IF k - (i - 1) \in 0 .. Top THEN x[i - 1] * y[k - (i - 1)] ELSE 0]
    BY <1>1, <1>10, Zenon DEF ColumnStep
  <2>2. t[0] = 0
    BY <2>1
  <2>3. ASSUME NEW i \in 1 .. n PROVE t[i] = t[i - 1] + g[i - 1]
    <3>1. i \in 0 .. n /\ i # 0
      OBVIOUS
    <3>2. t[i] = t[i - 1] + IF k - (i - 1) \in 0 .. Top THEN x[i - 1] * y[k - (i - 1)] ELSE 0
      BY <2>1, <3>1
    <3>3. g[i - 1] = IF k - (i - 1) \in 0 .. Top THEN x[i - 1] * y[k - (i - 1)] ELSE 0
      BY <1>6, <3>1
    <3> QED  BY <3>2, <3>3
  <2> QED  BY <2>2, <2>3
<1> DEFINE T == {i \in 0 .. n : t[i] \in Int}
<1>13. 0 \in T
  BY <1>12
<1>14. ASSUME NEW i \in 1 .. n, i - 1 \in T PROVE i \in T
  <2>1. t[i - 1] \in Int /\ g[i - 1] \in Int
    BY <1>3, <1>14
  <2> QED  BY <1>12, <2>1
<1>15. \A i \in 0 .. n : i \in T
  <2> HIDE DEF T
  <2> QED  BY <1>13, <1>14, Upto
<1>16. ASSUME NEW i \in 0 .. Top PROVE t[i + 1] = t[i] + g[i]
  <2>1. i + 1 \in 1 .. n /\ (i + 1) - 1 = i
    BY <1>1
  <2> QED  BY <1>12, <2>1
<1> QED  BY <1>1, <1>2, <1>3, <1>11, <1>12, <1>15, <1>16

\* The product after n rows, with what passes the top folded in.
Rows(x, y, n) ==
  [k \in 0 .. Top |-> Column(x, y, k)[n] + IF k < Top THEN 38 * Column(x, y, k + Limbs)[n] ELSE 0]

LEMMA ProductIs ==
  ASSUME NEW x \in gf, NEW y \in gf
  PROVE  Product(x, y) = Rows(x, y, Limbs)
  BY Zenon DEF Product, Rows

LEMMA RowsNext ==
  ASSUME Sized, NEW x \in gf, NEW y \in gf
  PROVE  /\ \A n \in 0 .. Limbs : Rows(x, y, n) \in gf
         /\ \A k \in 0 .. Top : Rows(x, y, 0)[k] = 0
         /\ \A n \in 0 .. Top, k \in 0 .. Top :
              Rows(x, y, n + 1)[k] = Rows(x, y, n)[k] + x[n] * Shifted(y, n)[k]
<1>1. PICK t \in Nat : t = Top /\ t >= 1 /\ Limbs = t + 1
  <2>1. Top \in Nat /\ Top >= 1 /\ Limbs = Top + 1
    BY DEF Sized, Top
  <2> QED  BY <2>1, Zenon
<1>2. ASSUME NEW n \in 0 .. t + 1, NEW k \in 0 .. t
      PROVE  /\ Rows(x, y, n)[k] = Column(x, y, k)[n]
                                    + IF k < t THEN 38 * Column(x, y, k + t + 1)[n] ELSE 0
             /\ Column(x, y, k)[n] \in Int /\ Column(x, y, k + t + 1)[n] \in Int
             /\ Rows(x, y, n)[k] \in Int
  <2>1. k \in Int /\ k + t + 1 \in Int /\ k + Limbs = k + t + 1
    BY <1>1
  <2>2. Column(x, y, k)[n] \in Int /\ Column(x, y, k + t + 1)[n] \in Int
    BY <1>1, <2>1, ColumnIs
  <2>3. Rows(x, y, n)[k] = Column(x, y, k)[n]
                            + IF k < t THEN 38 * Column(x, y, k + t + 1)[n] ELSE 0
    BY <1>1, <2>1 DEF Rows
  <2> QED  BY <2>2, <2>3
<1>3. ASSUME NEW n \in 0 .. t + 1 PROVE Rows(x, y, n) \in gf
  <2>1. Rows(x, y, n) = [k \in 0 .. t |-> Rows(x, y, n)[k]]
    BY <1>1 DEF Rows
  <2>2. Rows(x, y, n) \in [0 .. t -> Int]
    BY <1>2, <2>1
  <2> QED  BY <1>1, <2>2 DEF gf
<1>4. ASSUME NEW k \in 0 .. t PROVE Rows(x, y, 0)[k] = 0
  <2>1. k \in Int /\ k + t + 1 \in Int
    OBVIOUS
  <2>2. Column(x, y, k)[0] = 0 /\ Column(x, y, k + t + 1)[0] = 0
    BY <2>1, ColumnIs
  <2>3. 0 \in 0 .. t + 1
    OBVIOUS
  <2> QED  BY <1>2, <2>2, <2>3
<1>5. ASSUME NEW n \in 0 .. t, NEW k \in 0 .. t
      PROVE  Rows(x, y, n + 1)[k] = Rows(x, y, n)[k] + x[n] * Shifted(y, n)[k]
  <2>1. k \in Int /\ k + t + 1 \in Int /\ n \in 0 .. t + 1 /\ n + 1 \in 0 .. t + 1
    OBVIOUS
  <2>2. PICK p \in Int, q \in Int, d \in Int, e \in Int :
          /\ p = Column(x, y, k)[n] /\ q = Column(x, y, k + t + 1)[n]
          /\ d = Entry(x, y, k)[n] /\ e = Entry(x, y, k + t + 1)[n]
          /\ Column(x, y, k)[n + 1] = p + d /\ Column(x, y, k + t + 1)[n + 1] = q + e
    <3>1. Column(x, y, k)[n + 1] = Column(x, y, k)[n] + Entry(x, y, k)[n] /\ Entry(x, y, k)[n] \in Int
      BY <1>1, <2>1, ColumnIs
    <3>2. /\ Column(x, y, k + t + 1)[n + 1] = Column(x, y, k + t + 1)[n] + Entry(x, y, k + t + 1)[n]
          /\ Entry(x, y, k + t + 1)[n] \in Int
      BY <1>1, <2>1, ColumnIs
    <3> QED  BY <1>2, <2>1, <3>1, <3>2
  <2>3. /\ Rows(x, y, n)[k] = p + IF k < t THEN 38 * q ELSE 0
        /\ Rows(x, y, n + 1)[k] = (p + d) + IF k < t THEN 38 * (q + e) ELSE 0
    BY <1>2, <2>1, <2>2
  <2>4. Shifted(y, n)[k] = IF k >= n THEN y[k - n] ELSE 38 * y[k + t + 1 - n]
    <3>1. k + Limbs - n = k + t + 1 - n
      BY <1>1
    <3> QED  BY <1>1, <3>1 DEF Shifted
  <2>5. x[n] \in Int /\ \A i \in 0 .. t : y[i] \in Int
    BY <1>1 DEF gf
  <2>6. CASE k >= n
    <3>1. k - n \in 0 .. t /\ ~((k + t + 1) - n \in 0 .. t)
      BY <2>6
    <3>2. d = x[n] * y[k - n] /\ e = 0
      BY <1>1, <2>2, <3>1 DEF Entry
    <3>3. Shifted(y, n)[k] = y[k - n]
      BY <2>4, <2>6
    <3> QED  BY <2>2, <2>3, <3>2, <3>3
  <2>7. CASE ~(k >= n)
    <3>1. ~(k - n \in 0 .. t) /\ (k + t + 1) - n \in 0 .. t /\ k < t /\ k + t + 1 - n = (k + t + 1) - n
      BY <2>7
    <3>2. d = 0 /\ e = x[n] * y[(k + t + 1) - n]
      BY <1>1, <2>2, <3>1 DEF Entry
    <3>3. PICK z \in Int, w \in Int : z = y[(k + t + 1) - n] /\ w = x[n]
      BY <2>5, <3>1
    <3>4. Shifted(y, n)[k] = 38 * z
      BY <2>4, <2>7, <3>1, <3>3
    <3>5. 38 * (q + e) = 38 * q + w * (38 * z)
      <4>1. e = w * z
        BY <3>2, <3>3
      <4>2. 38 * (q + w * z) = 38 * q + w * (38 * z)
        OBVIOUS
      <4> QED  BY <4>1, <4>2
    <3> QED  BY <2>2, <2>3, <3>1, <3>2, <3>3, <3>4, <3>5
  <2> QED  BY <2>6, <2>7
<1> QED  BY <1>1, <1>3, <1>4, <1>5

LEMMA ProductExact ==
  ASSUME Sized, NEW x \in gf, NEW y \in gf
  PROVE  Product(x, y) \in gf /\ Cong(Value(Product(x, y)), Value(x) * Value(y))
<1>1. PICK t \in Nat : t = Top /\ Limbs = t + 1
  <2>1. Top \in Nat /\ Limbs = Top + 1
    BY DEF Sized, Top
  <2> QED  BY <2>1, Zenon
<1>2. PICK g : g = Weighed(x) /\ Terms(g, t + 1) /\ Value(x) = Sum(g, t + 1)
  BY <1>1, Weighs, ValueIs
<1>3. PICK v \in Int : v = Value(y)
  BY ValueIs
<1>4. /\ Sum(g, 0) = 0 /\ \A i \in 1 .. t + 1 : Sum(g, i) = Sum(g, i - 1) + g[i - 1]
      /\ \A i \in 0 .. t + 1 : Sum(g, i) \in Int
  BY <1>2, SumNext
<1> DEFINE T == {n \in 0 .. t + 1 : Cong(Value(Rows(x, y, n)), Sum(g, n) * v)}
<1>5. 0 \in T
  <2>1. PICK z : z = Rows(x, y, 0) /\ z \in gf /\ \A k \in 0 .. Top : z[k] = 0
    <3>1. 0 \in 0 .. Limbs
      BY <1>1
    <3> QED  BY <3>1, RowsNext
  <2>2. Value(z) = 0
    <3>1. Combined(z, z, 1, z)
      BY <2>1 DEF Combined
    <3>2. 1 \in Int /\ Value(z) \in Int
      BY <2>1, ValueIs
    <3>3. PICK u \in Int : u = Value(z)
      BY <3>2
    <3>4. u = u + 1 * u
      BY <2>1, <3>1, <3>3, ValueLinear
    <3>5. u + 1 * u = 2 * u
      OBVIOUS
    <3>6. u = 0
      BY <3>4, <3>5
    <3> QED  BY <3>3, <3>6
  <2>3. 0 * v = 0 /\ Cong(0, 0)
    BY CongSelf
  <2> QED  BY <1>4, <2>1, <2>2, <2>3
<1>6. ASSUME NEW i \in 1 .. t + 1, i - 1 \in T PROVE i \in T
  <2>1. PICK n \in 0 .. t : n = i - 1 /\ i = n + 1 /\ i - 1 \in 0 .. t + 1 /\ i \in 0 .. t + 1
    OBVIOUS
  <2>2. PICK q, r, m : /\ q = Rows(x, y, n) /\ r = Rows(x, y, i) /\ m = Shifted(y, n)
                       /\ q \in gf /\ r \in gf /\ m \in gf
    BY <1>1, <2>1, RowsNext, MovedValue
  <2>3. PICK c \in Int, w \in Int : c = x[n] /\ w = Weight[n] /\ g[n] = c * w
    <3>1. n \in 0 .. Top /\ n \in 0 .. Limbs
      BY <1>1
    <3>2. x[n] \in Int
      BY <3>1 DEF gf
    <3>3. Weight[n] \in Int
      BY <3>1, WeightNext
    <3>4. g[n] = x[n] * Weight[n]
      BY <1>2, <3>1 DEF Weighed
    <3> QED  BY <3>2, <3>3, <3>4
  <2>4. Combined(r, q, c, m)
    <3>1. r = Rows(x, y, n + 1)
      BY <2>1, <2>2
    <3>2. n \in 0 .. Top
      BY <1>1
    <3>3. \A k \in 0 .. Top :
            Rows(x, y, n + 1)[k] = Rows(x, y, n)[k] + x[n] * Shifted(y, n)[k]
      BY <3>2, RowsNext, Zenon
    <3>4. \A k \in 0 .. Top : r[k] = q[k] + c * m[k]
      BY <2>2, <2>3, <3>1, <3>3, Zenon
    <3> QED  BY <3>4, Zenon DEF Combined
  <2>5. PICK qv \in Int, rv \in Int, mv \in Int : qv = Value(q) /\ rv = Value(r) /\ mv = Value(m)
    BY <2>2, ValueIs
  <2>6. rv = qv + c * mv
    <3>1. Value(r) = Value(q) + c * Value(m)
      BY <2>2, <2>3, <2>4, ValueLinear
    <3> QED  BY <2>5, <3>1
  <2>7. PICK s \in Int : s = Sum(g, n) /\ Sum(g, i) = s + c * w
    BY <1>4, <2>1, <2>3
  <2>8. Cong(qv, s * v) /\ s * v \in Int
    BY <1>6, <2>1, <2>2, <2>5, <2>7
  <2>9. Cong(mv, w * v) /\ w * v \in Int
    <3>1. n \in 0 .. Top
      BY <1>1
    <3> QED  BY <1>3, <2>2, <2>3, <2>5, <3>1, MovedValue
  <2>10. Cong(qv + c * mv, s * v + c * (w * v))
    BY <2>8, <2>9, CongLinear
  <2>11. (s + c * w) * v = s * v + c * (w * v)
    OBVIOUS
  <2> QED  BY <2>1, <2>2, <2>5, <2>6, <2>7, <2>10, <2>11
<1>7. \A n \in 0 .. t + 1 : n \in T
  <2> HIDE DEF T
  <2> QED  BY <1>5, <1>6, Upto
<1>8. t + 1 \in T
  <2>1. t + 1 \in 0 .. t + 1
    OBVIOUS
  <2> HIDE DEF T
  <2> QED  BY <1>7, <2>1
<1>9. Cong(Value(Rows(x, y, Limbs)), Value(x) * v)
  BY <1>1, <1>2, <1>8
<1>10. Rows(x, y, Limbs) \in gf
  <2>1. Limbs \in 0 .. Limbs
    BY <1>1
  <2> QED  BY <2>1, RowsNext
<1> QED  BY <1>3, <1>9, <1>10, ProductIs

\* M multiplies modulo P, whatever the limbs (tweetnacl.c 354-363).
THEOREM MExact ==
  ASSUME Sized, NEW a \in gf, NEW b \in gf
  PROVE  M(a, b) \in gf /\ Cong(Value(M(a, b)), Value(a) * Value(b))
<1>1. PICK p : p = Product(a, b) /\ p \in gf /\ Cong(Value(p), Value(a) * Value(b))
  BY ProductExact
<1>2. PICK q : q = car25519(p) /\ q \in gf /\ Cong(Value(q), Value(p))
  BY <1>1, CarExact
<1>3. PICK r : r = car25519(q) /\ r \in gf /\ Cong(Value(r), Value(q))
  BY <1>2, CarExact
<1>4. Value(a) * Value(b) \in Int /\ Value(p) \in Int /\ Value(q) \in Int /\ Value(r) \in Int
  BY <1>1, <1>2, <1>3, ValueIs
<1>5. Cong(Value(q), Value(a) * Value(b))
  BY <1>1, <1>2, <1>4, CongTrans
<1>6. Cong(Value(r), Value(a) * Value(b))
  BY <1>3, <1>4, <1>5, CongTrans
<1> QED  BY <1>1, <1>2, <1>3, <1>6 DEF M

-----------------------------------------------------------------------------
(* Packing. *)

IsDigits(t) == t \in gf /\ \A i \in 0 .. Top : t[i] \in 0 .. Base - 1

\* Digits are worth less than the limb after them.
LEMMA DigitsBound ==
  ASSUME Sized, NEW t, IsDigits(t)
  PROVE  \A k \in 0 .. Limbs : Sum(Weighed(t), k) \in 0 .. Weight[k] - 1
<1>1. PICK n \in Nat, b \in Nat : n = Limbs /\ b = Base /\ b > 0 /\ Top = n - 1
  <2>1. Limbs \in Nat /\ Base \in Nat /\ Base > 0 /\ Top = Limbs - 1
    BY DEF Sized, Top
  <2> QED  BY <2>1, Zenon
<1>2. PICK g : g = Weighed(t) /\ Terms(g, n)
  BY <1>1, Weighs DEF IsDigits
<1>3. /\ Sum(g, 0) = 0 /\ \A i \in 1 .. n : Sum(g, i) = Sum(g, i - 1) + g[i - 1]
  BY <1>2, SumNext
<1> DEFINE T == {k \in 0 .. n : Sum(g, k) \in 0 .. Weight[k] - 1}
<1>4. 0 \in T
  BY <1>3, WeightNext
<1>5. ASSUME NEW k \in 1 .. n, k - 1 \in T PROVE k \in T
  <2>1. PICK w \in Nat, d \in 0 .. b - 1, s \in Int :
          /\ s \in 0 .. w - 1 /\ w = Weight[k - 1] /\ w >= 1 /\ Weight[k] = b * w
          /\ d = t[k - 1] /\ s = Sum(g, k - 1) /\ Sum(g, k) = s + d * w
    <3>1. k \in 1 .. Limbs /\ k - 1 \in 0 .. Limbs /\ k - 1 \in 0 .. Top
      BY <1>1
    <3>2. Weight[k - 1] \in Nat /\ Weight[k - 1] >= 1 /\ Weight[k] = b * Weight[k - 1]
      BY <1>1, <3>1, WeightNext
    <3>3. t[k - 1] \in 0 .. b - 1
      BY <1>1, <3>1 DEF IsDigits
    <3>4. g[k - 1] = t[k - 1] * Weight[k - 1]
      BY <1>2, <3>1 DEF Weighed
    <3>5. Sum(g, k - 1) \in 0 .. Weight[k - 1] - 1 /\ Sum(g, k) = Sum(g, k - 1) + g[k - 1]
      BY <1>3, <1>5
    <3> QED  BY <3>2, <3>3, <3>4, <3>5
  <2>2. d * w \in Nat /\ d * w <= (b - 1) * w /\ (b - 1) * w = b * w - w /\ b * w \in Nat
    OBVIOUS
  <2>3. s + d * w \in 0 .. b * w - 1
    BY <2>1, <2>2
  <2> QED  BY <2>1, <2>3
<1>6. \A k \in 0 .. n : k \in T
  <2> HIDE DEF T
  <2> QED  BY <1>4, <1>5, Upto
<1> QED  BY <1>1, <1>2, <1>6

\* The digits of a number are those Digits takes from it.
LEMMA DigitsOnce ==
  ASSUME Sized, NEW t, IsDigits(t)
  PROVE  t = Digits(Value(t))
<1>1. PICK n \in Nat, b \in Nat : n = Limbs /\ b = Base /\ b > 0 /\ Top = n - 1
  <2>1. Limbs \in Nat /\ Base \in Nat /\ Base > 0 /\ Top = Limbs - 1
    BY DEF Sized, Top
  <2> QED  BY <2>1, Zenon
<1>2. PICK g : g = Weighed(t) /\ Terms(g, n)
  BY <1>1, Weighs DEF IsDigits
<1>3. PICK v \in Int : v = Value(t) /\ v = Sum(g, n)
  BY <1>1, <1>2, ValueIs DEF IsDigits
<1>4. ASSUME NEW k \in 0 .. n - 1
      PROVE  /\ Sum(g, k + 1) = Sum(g, k) + t[k] * Weight[k]
             /\ Sum(g, k) \in 0 .. Weight[k] - 1 /\ t[k] \in 0 .. b - 1
             /\ Weight[k] \in Nat /\ Weight[k] >= 1 /\ Weight[k + 1] = b * Weight[k]
  <2>1. k + 1 \in 1 .. n /\ (k + 1) - 1 = k /\ k \in 0 .. n
    OBVIOUS
  <2>2. Sum(g, k + 1) = Sum(g, k) + g[k]
    BY <1>2, <2>1, SumNext
  <2>3. g[k] = t[k] * Weight[k]
    BY <1>1, <1>2 DEF Weighed
  <2>4. Sum(g, k) \in 0 .. Weight[k] - 1
    BY <1>1, <1>2, <2>1, DigitsBound
  <2>5. t[k] \in 0 .. b - 1
    BY <1>1 DEF IsDigits
  <2>6. Weight[k] \in Nat /\ Weight[k] >= 1 /\ Weight[k + 1] = b * Weight[k]
    BY <1>1, <2>1, WeightNext
  <2> QED  BY <2>2, <2>3, <2>4, <2>5, <2>6
<1> DEFINE Above(k, h) == v = Sum(g, k) + Weight[k] * h
           T == {j \in 0 .. n : \E h \in Int : Above(n - j, h)}
<1>5. 0 \in T
  <2>1. Weight[n] \in Int /\ n \in 0 .. n
    BY <1>1, WeightNext
  <2>2. v = Sum(g, n) + Weight[n] * 0
    BY <1>3, <2>1
  <2> QED  BY <2>1, <2>2
<1>6. ASSUME NEW k \in 0 .. n - 1, NEW h \in Int, Above(k + 1, h) PROVE Above(k, t[k] + b * h)
  <2>1. PICK w \in Int, d \in Int, s \in Int : w = Weight[k] /\ d = t[k] /\ s = Sum(g, k)
    BY <1>4
  <2>2. v = (s + d * w) + (b * w) * h
    BY <1>4, <1>6, <2>1
  <2>3. w * (d + b * h) = d * w + (b * w) * h /\ d * w \in Int /\ (b * w) * h \in Int
    OBVIOUS
  <2> QED  BY <2>1, <2>2, <2>3
<1>7. ASSUME NEW j \in 1 .. n, j - 1 \in T PROVE j \in T
  <2>1. PICK k \in 0 .. n - 1 : k = n - j /\ k + 1 = n - (j - 1)
    OBVIOUS
  <2>2. PICK h \in Int : Above(k + 1, h)
    <3> HIDE DEF Above
    <3> QED  BY <1>7, <2>1
  <2>3. t[k] + b * h \in Int
    BY <1>4
  <2>4. Above(k, t[k] + b * h)
    BY <1>6, <2>2
  <2> HIDE DEF Above
  <2> QED  BY <2>1, <2>3, <2>4
<1>8. \A j \in 0 .. n : j \in T
  <2> HIDE DEF T
  <2> QED  BY <1>5, <1>7, Upto
<1>9. ASSUME NEW k \in 0 .. n - 1 PROVE (v \div Weight[k]) % b = t[k]
  <2>1. PICK h \in Int : Above(k + 1, h)
    <3>1. n - (k + 1) \in 0 .. n /\ n - (n - (k + 1)) = k + 1
      OBVIOUS
    <3>2. n - (k + 1) \in T
      BY <1>8, <3>1
    <3> HIDE DEF Above
    <3> QED  BY <3>1, <3>2
  <2>2. Above(k, t[k] + b * h)
    BY <1>6, <2>1
  <2>3. PICK w \in Nat, d \in 0 .. b - 1, s \in Int, q \in Int :
          s \in 0 .. w - 1 /\ w = Weight[k] /\ d = t[k] /\ s = Sum(g, k) /\ w > 0 /\ q = b * h + d /\ v = w * q + s
    BY <1>4, <2>2
  <2>4. v \div w = q
    <3>1. w > 0 /\ s \in 0 .. w - 1 /\ v = w * q + s
      BY <2>3
    <3> QED  BY <3>1, DividesOnce
  <2>5. q % b = d
    <3>1. b > 0 /\ q = b * h + d
      BY <1>1, <2>3
    <3> QED  BY <3>1, DividesOnce
  <2> QED  BY <2>3, <2>4, <2>5
<1>10. \A k \in 0 .. n - 1 : Digits(v)[k] = t[k]
  BY <1>1, <1>9 DEF Digits
<1>11. t = [k \in 0 .. n - 1 |-> t[k]] /\ Digits(v) = [k \in 0 .. n - 1 |-> Digits(v)[k]]
  BY <1>1 DEF IsDigits, gf, Digits
<1> QED  BY <1>3, <1>10, <1>11

\* What LessP subtracts from limb i, P's digit.
Digit(i) == CASE i = 0 -> Base - 19 [] i = Top -> Base \div 2 - 1 [] OTHER -> Base - 1
PDigits  == [i \in 0 .. Top |-> Digit(i)]

LEMMA PDigitsValue ==
  ASSUME Sized
  PROVE  IsDigits(PDigits) /\ Value(PDigits) = P
<1>1. PICK n \in Nat, b \in Nat, hb \in Nat :
        n = Top /\ n >= 1 /\ Limbs = n + 1 /\ b = Base /\ b >= 38 /\ hb = Base \div 2 /\ b = 2 * hb
  <2>1. Top \in Nat /\ Top >= 1 /\ Limbs = Top + 1 /\ Base \in Nat /\ Base >= 38
    BY DEF Sized, Top
  <2>2. Base \div 2 \in Nat /\ Base = 2 * (Base \div 2)
    BY <2>1 DEF Sized
  <2> QED  BY <2>1, <2>2, Zenon
<1>2. PICK t : t = PDigits
  OBVIOUS
<1>3. ASSUME NEW i \in 0 .. n
      PROVE  t[i] = (IF i = 0 THEN b - 19 ELSE IF i = n THEN hb - 1 ELSE b - 1)
  <2>1. t[i] = Digit(i)
    BY <1>1, <1>2 DEF PDigits
  <2>2. Top # 0
    BY <1>1
  <2>3. Digit(i) = IF i = 0 THEN Base - 19 ELSE IF i = Top THEN Base \div 2 - 1 ELSE Base - 1
    BY <2>2 DEF Digit
  <2>4. n = Top /\ b = Base /\ hb = Base \div 2
    BY <1>1, Zenon
  <2> QED  BY <2>1, <2>3, <2>4, Zenon
<1>4. IsDigits(t)
  <2>1. \A i \in 0 .. n : t[i] \in 0 .. b - 1
    BY <1>1, <1>3
  <2>2. t = [i \in 0 .. n |-> t[i]]
    BY <1>1, <1>2 DEF PDigits
  <2>3. t \in [0 .. n -> Int]
    BY <2>1, <2>2
  <2> QED  BY <1>1, <2>1, <2>3 DEF IsDigits, gf
<1>5. PICK g : g = Weighed(t) /\ Terms(g, n + 1) /\ Value(t) = Sum(g, n + 1)
  BY <1>1, <1>4, Weighs, ValueIs DEF IsDigits
<1>6. ASSUME NEW k \in 0 .. n
      PROVE  /\ Sum(g, k + 1) = Sum(g, k) + t[k] * Weight[k] /\ Sum(g, k) \in Int
             /\ Weight[k] \in Int /\ Weight[k + 1] = b * Weight[k]
  <2>1. k + 1 \in 1 .. n + 1 /\ (k + 1) - 1 = k /\ k \in 0 .. n + 1
    OBVIOUS
  <2>2. Sum(g, k + 1) = Sum(g, k) + g[k] /\ Sum(g, k) \in Int
    BY <1>5, <2>1, SumNext
  <2>3. g[k] = t[k] * Weight[k]
    BY <1>1, <1>5 DEF Weighed
  <2>4. Weight[k] \in Int /\ Weight[k + 1] = b * Weight[k]
    BY <1>1, <2>1, WeightNext
  <2> QED  BY <2>2, <2>3, <2>4
<1> DEFINE T == {j \in 0 .. n - 1 : Sum(g, j + 1) = Weight[j + 1] - 19}
<1>7. 0 \in T
  <2>1. 0 \in 0 .. n /\ 0 \in 0 .. n - 1
    BY <1>1
  <2>2. Weight[0] = 1 /\ Sum(g, 0) = 0
    BY <1>5, WeightNext, SumNext
  <2>3. (b - 19) * 1 = b - 19 /\ b * 1 = b
    OBVIOUS
  <2>4. Sum(g, 0 + 1) = 0 + (b - 19) * 1 /\ Weight[0 + 1] = b * 1
    BY <1>3, <1>6, <2>1, <2>2
  <2> QED  BY <2>1, <2>3, <2>4
<1>8. ASSUME NEW j \in 1 .. n - 1, j - 1 \in T PROVE j \in T
  <2>1. PICK w \in Int : w = Weight[j] /\ Weight[j + 1] = b * w
    BY <1>6
  <2>2. Sum(g, j) = w - 19
    BY <1>8, <2>1
  <2>3. Sum(g, j + 1) = (w - 19) + (b - 1) * w
    BY <1>3, <1>6, <2>1, <2>2
  <2>4. (b - 1) * w = b * w - w /\ b * w \in Int
    OBVIOUS
  <2> QED  BY <2>1, <2>3, <2>4
<1>9. n - 1 \in T
  <2>1. n - 1 \in Nat /\ n - 1 \in 0 .. n - 1
    BY <1>1
  <2>2. \A j \in 0 .. n - 1 : j \in T
    <3> HIDE DEF T
    <3> QED  BY <1>7, <1>8, <2>1, Upto
  <2> QED  BY <2>1, <2>2
<1>10. PICK w \in Int : w = Weight[n] /\ Sum(g, n) = w - 19
  <2>1. (n - 1) + 1 = n /\ n \in 0 .. n
    BY <1>1
  <2>2. Weight[n] \in Int
    BY <1>6, <2>1
  <2>3. Sum(g, n) = Weight[n] - 19
    BY <1>9, <2>1
  <2> QED  BY <2>2, <2>3
<1>11. Sum(g, n + 1) = (w - 19) + (hb - 1) * w
  <2>1. n \in 0 .. n /\ n # 0
    BY <1>1
  <2>2. t[n] = hb - 1
    BY <1>3, <2>1
  <2> QED  BY <1>6, <1>10, <2>1, <2>2
<1>12. (hb - 1) * w = hb * w - w /\ hb * w \in Int
  OBVIOUS
<1>13. P = hb * w - 19
  BY <1>1, <1>10, Zenon DEF P
<1>14. Sum(g, n + 1) = hb * w - 19
  BY <1>11, <1>12
<1> QED  BY <1>2, <1>4, <1>5, <1>13, <1>14

LEMMA BorrowIs ==
  ASSUME Sized, NEW x \in -Base .. Base - 1
  PROVE  /\ Borrow(x) = (IF x < 0 THEN 1 ELSE 0)
         /\ x % Base = x + Base * Borrow(x) /\ x % Base \in 0 .. Base - 1
<1>1. PICK b \in Nat : b = Base /\ b > 0
  BY DEF Sized
<1>2. CASE x < 0
  <2>1. x = b * (-1) + (x + b) /\ x + b \in 0 .. b - 1
    BY <1>1, <1>2
  <2>2. x \div b = -1 /\ x % b = x + b
    BY <1>1, <2>1, DividesOnce
  <2>3. PICK y \in Int, q \in Int, two \in Nat, one \in 0 .. 1 :
          y = -1 /\ q = -1 /\ two = 2 /\ one = 1
    OBVIOUS
  <2>4. y = two * q + one
    BY <2>3
  <2>5. y % two = one
    <3>1. two > 0 /\ one \in 0 .. two - 1
      BY <2>3
    <3> QED  BY <3>1, <2>4, DividesOnce
  <2>6. Borrow(x) = 1
    BY <1>1, <2>2, <2>3, <2>5 DEF Borrow
  <2>7. b * 1 = b
    BY <1>1
  <2> QED  BY <1>1, <1>2, <2>1, <2>2, <2>6, <2>7
<1>3. CASE ~(x < 0)
  <2>1. x = b * 0 + x /\ x \in 0 .. b - 1
    BY <1>1, <1>3
  <2>2. x \div b = 0 /\ x % b = x
    BY <1>1, <2>1, DividesOnce
  <2>3. Borrow(x) = 0
    BY <1>1, <2>2 DEF Borrow
  <2> QED  BY <1>1, <1>3, <2>1, <2>2, <2>3
<1> QED  BY <1>2, <1>3

DiffStep(m, t) ==
  m = [i \in 0 .. Top |->
         t[i] - (CASE i = 0 -> Base - 19 [] i = Top -> Base \div 2 - 1 [] OTHER -> Base - 1)
              - (IF i = 0 THEN 0 ELSE Borrow(m[i - 1]))]

Differs(m, t) ==
  \A i \in 0 .. Top :
    /\ m[i] = t[i] - Digit(i) - (IF i = 0 THEN 0 ELSE Borrow(m[i - 1]))
    /\ m[i] \in -Base .. Base - 1
Low(m) == [i \in 0 .. Top |-> m[i] % Base]
LessBy(m, t) ==
  sel25519(t, [i \in 0 .. Top |-> IF i = Top THEN m[i] ELSE m[i] % Base], 1 - Borrow(m[Top]))[1]

\* The differences limb by limb, and what they borrow.
LEMMA Differences ==
  ASSUME Sized, NEW t, IsDigits(t)
  PROVE  \E m : m = (CHOOSE d : DiffStep(d, t)) /\ DiffStep(m, t) /\ Differs(m, t)
<1>1. PICK n \in Nat, b \in Nat : n = Top /\ b = Base /\ b > 0
  <2>1. Top \in Nat /\ Base \in Nat /\ Base > 0
    BY DEF Sized, Top
  <2> QED  BY <2>1, Zenon
<1>2. ASSUME NEW i \in 0 .. n PROVE Digit(i) \in 0 .. b - 1 /\ t[i] \in 0 .. b - 1
  <2>1. PDigits[i] \in 0 .. b - 1 /\ t[i] \in 0 .. b - 1
    BY <1>1, PDigitsValue DEF IsDigits
  <2> QED  BY <1>1, <2>1 DEF PDigits
<1> DEFINE Span == -b .. b - 1
<1>3. PICK step : step = [p \in Span \X (1 .. n) |-> t[p[2]] - Digit(p[2]) - Borrow(p[1])]
  OBVIOUS
<1>4. ASSUME NEW x \in Span, NEW i \in 0 .. n PROVE t[i] - Digit(i) - Borrow(x) \in Span
  <2>1. Borrow(x) \in {0, 1}
    BY <1>1, BorrowIs
  <2> QED  BY <1>2, <2>1
<1>5. step \in [Span \X (1 .. n) -> Span]
  <2>1. ASSUME NEW p \in Span \X (1 .. n) PROVE t[p[2]] - Digit(p[2]) - Borrow(p[1]) \in Span
    <3>1. p[1] \in Span /\ p[2] \in 0 .. n
      BY <2>1
    <3> HIDE DEF Span
    <3> QED  BY <1>4, <3>1
  <2> HIDE DEF Span
  <2> QED  BY <1>3, <2>1
<1>6. PICK z \in Span : z = t[0] - Digit(0) - 0
  <2>1. 0 \in 0 .. n
    BY <1>1
  <2> QED  BY <1>2, <2>1
<1>7. PICK f : Folded(f, n, Span, z, step)
  <2> HIDE DEF Span
  <2> QED  BY <1>5, FoldExists
<1>8. /\ f \in [0 .. n -> Span]
      /\ f = [i \in 0 .. n |-> IF i = 0 THEN z ELSE step[<<f[i - 1], i>>]]
  BY <1>7, Zenon DEF Folded
<1>9. \A i \in 0 .. n : (IF i = 0 THEN z ELSE step[<<f[i - 1], i>>])
                          = t[i] - Digit(i) - (IF i = 0 THEN 0 ELSE Borrow(f[i - 1]))
  <2>1. ASSUME NEW i \in 0 .. n, i # 0 PROVE step[<<f[i - 1], i>>] = t[i] - Digit(i) - Borrow(f[i - 1])
    <3>1. i - 1 \in 0 .. n /\ i \in 1 .. n
      BY <2>1
    <3>2. f[i - 1] \in Span
      <4> HIDE DEF Span
      <4> QED  BY <1>8, <3>1
    <3> HIDE DEF Span
    <3> QED  BY <1>3, <3>1, <3>2
  <2> QED  BY <1>6, <2>1
<1>10. [i \in 0 .. n |-> IF i = 0 THEN z ELSE step[<<f[i - 1], i>>]]
         = [i \in 0 .. n |-> t[i] - Digit(i) - (IF i = 0 THEN 0 ELSE Borrow(f[i - 1]))]
  BY <1>9
<1>11. \E d : DiffStep(d, t)
  <2>1. f = [i \in 0 .. n |-> t[i] - Digit(i) - (IF i = 0 THEN 0 ELSE Borrow(f[i - 1]))]
    BY <1>8, <1>10, Zenon
  <2> QED  BY <1>1, <2>1, Zenon DEF DiffStep, Digit
<1>12. PICK m : m = CHOOSE d : DiffStep(d, t)
  OBVIOUS
<1>13. DiffStep(m, t)
  BY <1>11, <1>12, Zenon
<1>14. \A i \in 0 .. n : m[i] = t[i] - Digit(i) - (IF i = 0 THEN 0 ELSE Borrow(m[i - 1]))
  <2>1. m = [i \in 0 .. n |-> t[i] - Digit(i) - (IF i = 0 THEN 0 ELSE Borrow(m[i - 1]))]
    BY <1>1, <1>13, Zenon DEF DiffStep, Digit
  <2> QED  BY <2>1, Zenon
<1> DEFINE T == {i \in 0 .. n : m[i] \in Span}
<1>15. 0 \in T
  <2>1. 0 \in 0 .. n
    BY <1>1
  <2>2. m[0] = z
    BY <1>6, <1>14, <2>1
  <2> QED  BY <1>6, <2>1, <2>2
<1>16. ASSUME NEW i \in 1 .. n, i - 1 \in T PROVE i \in T
  <2>1. m[i] = t[i] - Digit(i) - Borrow(m[i - 1])
    BY <1>14
  <2>2. m[i - 1] \in Span
    BY <1>16
  <2>3. t[i] - Digit(i) - Borrow(m[i - 1]) \in Span
    <3> HIDE DEF Span
    <3> QED  BY <1>4, <2>2
  <2> QED  BY <2>1, <2>3
<1>17. \A i \in 0 .. n : i \in T
  <2> HIDE DEF T
  <2> QED  BY <1>15, <1>16, Upto
<1>18. Differs(m, t)
  BY <1>1, <1>14, <1>17 DEF Differs
<1> QED  BY <1>12, <1>13, <1>18

\* The difference is the number less P, borrowing past the top limb if it is negative.
LEMMA DifferenceValue ==
  ASSUME Sized, NEW t, IsDigits(t), NEW m, Differs(m, t), NEW d, d = Low(m)
  PROVE  IsDigits(d) /\ Value(d) = Value(t) - P + Weight[Limbs] * Borrow(m[Top])
<1>1. PICK n \in Nat, b \in Nat : n = Top /\ b = Base /\ b > 0 /\ Limbs = n + 1
  <2>1. Top \in Nat /\ Base \in Nat /\ Base > 0 /\ Limbs = Top + 1
    BY DEF Sized, Top
  <2> QED  BY <2>1, Zenon
<1>2. PICK p : p = PDigits /\ IsDigits(p) /\ Value(p) = P
  BY PDigitsValue
<1>3. ASSUME NEW i \in 0 .. n
      PROVE  /\ m[i] = t[i] - p[i] - (IF i = 0 THEN 0 ELSE Borrow(m[i - 1]))
             /\ m[i] \in Int /\ Borrow(m[i]) \in Int
             /\ d[i] = m[i] + b * Borrow(m[i]) /\ d[i] \in 0 .. b - 1
  <2>0. /\ m[i] = t[i] - Digit(i) - (IF i = 0 THEN 0 ELSE Borrow(m[i - 1]))
        /\ m[i] \in -Base .. Base - 1
    BY <1>1 DEF Differs
  <2>1. m[i] % Base = m[i] + Base * Borrow(m[i]) /\ m[i] % Base \in 0 .. Base - 1
        /\ Borrow(m[i]) \in {0, 1}
    BY <2>0, BorrowIs
  <2>2. d[i] = m[i] % Base
    BY <1>1 DEF Low
  <2>3. p[i] = Digit(i) /\ m[i] \in Int
    BY <1>1, <1>2, <2>0 DEF PDigits
  <2> QED  BY <1>1, <2>0, <2>1, <2>2, <2>3
<1>4. IsDigits(d)
  <2>1. \A i \in 0 .. n : d[i] \in Int
    BY <1>3
  <2>2. d = [i \in 0 .. n |-> d[i]]
    BY <1>1 DEF Low
  <2>3. d \in [0 .. n -> Int]
    BY <2>1, <2>2
  <2> QED  BY <1>1, <1>3, <2>3 DEF IsDigits, gf
<1>5. PICK f, g, h : f = Weighed(t) /\ g = Weighed(p) /\ h = Weighed(d)
  OBVIOUS
<1>6. /\ Terms(f, n + 1) /\ Terms(g, n + 1) /\ Terms(h, n + 1)
      /\ Value(t) = Sum(f, n + 1) /\ Value(p) = Sum(g, n + 1) /\ Value(d) = Sum(h, n + 1)
  BY <1>1, <1>2, <1>4, <1>5, Weighs, ValueIs DEF IsDigits
<1>7. ASSUME NEW k \in 0 .. n
      PROVE  /\ Sum(f, k + 1) = Sum(f, k) + t[k] * Weight[k] /\ Sum(f, k) \in Int
             /\ Sum(g, k + 1) = Sum(g, k) + p[k] * Weight[k] /\ Sum(g, k) \in Int
             /\ Sum(h, k + 1) = Sum(h, k) + d[k] * Weight[k] /\ Sum(h, k) \in Int
             /\ Weight[k] \in Int /\ Weight[k + 1] = b * Weight[k]
             /\ t[k] \in Int /\ p[k] \in Int /\ d[k] \in Int
             /\ Sum(f, k + 1) \in Int /\ Sum(g, k + 1) \in Int /\ Sum(h, k + 1) \in Int
  <2>1. k + 1 \in 1 .. n + 1 /\ (k + 1) - 1 = k /\ k \in 0 .. n + 1 /\ k + 1 \in 0 .. n + 1
    OBVIOUS
  <2>2. /\ Sum(f, k + 1) = Sum(f, k) + f[k] /\ Sum(f, k) \in Int /\ Sum(f, k + 1) \in Int
    BY <1>6, <2>1, SumNext
  <2>3. /\ Sum(g, k + 1) = Sum(g, k) + g[k] /\ Sum(g, k) \in Int /\ Sum(g, k + 1) \in Int
    BY <1>6, <2>1, SumNext
  <2>4. /\ Sum(h, k + 1) = Sum(h, k) + h[k] /\ Sum(h, k) \in Int /\ Sum(h, k + 1) \in Int
    BY <1>6, <2>1, SumNext
  <2>5. f[k] = t[k] * Weight[k] /\ g[k] = p[k] * Weight[k] /\ h[k] = d[k] * Weight[k]
    BY <1>1, <1>5 DEF Weighed
  <2>6. Weight[k] \in Int /\ Weight[k + 1] = b * Weight[k]
    BY <1>1, <2>1, WeightNext
  <2>7. t[k] \in Int /\ p[k] \in Int /\ d[k] \in Int
    BY <1>1, <1>2, <1>4 DEF IsDigits, gf
  <2> QED  BY <2>2, <2>3, <2>4, <2>5, <2>6, <2>7
<1> DEFINE T == {k \in 0 .. n :
                   Sum(h, k + 1) = Sum(f, k + 1) - Sum(g, k + 1) + Weight[k + 1] * Borrow(m[k])}
<1>8. 0 \in T
  <2>1. 0 \in 0 .. n
    BY <1>1
  <2>2. PICK x \in Int, y \in Int, z \in Int, c \in Int :
          x = t[0] /\ y = p[0] /\ z = d[0] /\ c = Borrow(m[0]) /\ z = x - y + b * c
    <3>1. m[0] = t[0] - p[0] - 0
      BY <1>3, <2>1
    <3>2. d[0] = m[0] + b * Borrow(m[0]) /\ Borrow(m[0]) \in Int
      BY <1>3, <2>1
    <3>3. t[0] \in Int /\ p[0] \in Int /\ d[0] \in Int
      BY <1>7, <2>1
    <3> QED  BY <3>1, <3>2, <3>3
  <2>3. Weight[0] = 1 /\ Sum(f, 0) = 0 /\ Sum(g, 0) = 0 /\ Sum(h, 0) = 0
    BY <1>6, WeightNext, SumNext
  <2>4. Sum(f, 0 + 1) = x * 1 /\ Sum(g, 0 + 1) = y * 1 /\ Sum(h, 0 + 1) = z * 1 /\ Weight[0 + 1] = b * 1
    <3>1. Sum(f, 0 + 1) = Sum(f, 0) + t[0] * Weight[0]
      BY <1>7, <2>1
    <3>2. Sum(g, 0 + 1) = Sum(g, 0) + p[0] * Weight[0]
      BY <1>7, <2>1
    <3>3. Sum(h, 0 + 1) = Sum(h, 0) + d[0] * Weight[0]
      BY <1>7, <2>1
    <3>4. Weight[0 + 1] = b * Weight[0]
      BY <1>7, <2>1
    <3> QED  BY <2>2, <2>3, <3>1, <3>2, <3>3, <3>4
  <2>5. x * 1 = x /\ y * 1 = y /\ z * 1 = z /\ b * 1 = b
    OBVIOUS
  <2> QED  BY <2>1, <2>2, <2>4, <2>5
<1>9. ASSUME NEW k \in 1 .. n, k - 1 \in T PROVE k \in T
  <2>1. PICK x \in Int, y \in Int, z \in Int, c \in Int, c0 \in Int, w \in Int :
          /\ x = t[k] /\ y = p[k] /\ z = d[k] /\ c = Borrow(m[k]) /\ c0 = Borrow(m[k - 1])
          /\ w = Weight[k] /\ z = x - y - c0 + b * c
    <3>1. k \in 0 .. n /\ k - 1 \in 0 .. n /\ k # 0
      OBVIOUS
    <3>2. m[k] = t[k] - p[k] - Borrow(m[k - 1])
      BY <1>3, <3>1
    <3>3. t[k] \in Int /\ p[k] \in Int /\ d[k] \in Int /\ Weight[k] \in Int
      BY <1>7, <3>1
    <3>4. Borrow(m[k]) \in Int /\ Borrow(m[k - 1]) \in Int /\ d[k] = m[k] + b * Borrow(m[k])
      BY <1>3, <3>1
    <3> QED  BY <3>2, <3>3, <3>4
  <2>2. PICK u \in Int, v \in Int, s \in Int : u = Sum(f, k) /\ v = Sum(g, k) /\ s = Sum(h, k)
    BY <1>7
  <2>3. s = u - v + w * c0
    BY <1>9, <2>1, <2>2
  <2>4. Sum(f, k + 1) = u + x * w /\ Sum(g, k + 1) = v + y * w /\ Sum(h, k + 1) = s + z * w
        /\ Weight[k + 1] = b * w
    <3>1. k \in 0 .. n
      OBVIOUS
    <3>2. Sum(f, k + 1) = Sum(f, k) + t[k] * Weight[k]
      BY <1>7, <3>1
    <3>3. Sum(g, k + 1) = Sum(g, k) + p[k] * Weight[k]
      BY <1>7, <3>1
    <3>4. Sum(h, k + 1) = Sum(h, k) + d[k] * Weight[k]
      BY <1>7, <3>1
    <3>5. Weight[k + 1] = b * Weight[k]
      BY <1>7, <3>1
    <3> QED  BY <2>1, <2>2, <3>2, <3>3, <3>4, <3>5
  <2>5. z * w = x * w - y * w - w * c0 + (b * w) * c
    <3>1. (x - y - c0 + b * c) * w = x * w - y * w - w * c0 + (b * w) * c
      OBVIOUS
    <3> QED  BY <2>1, <3>1
  <2>6. PICK xw \in Int, yw \in Int, cw \in Int, bwc \in Int :
          xw = x * w /\ yw = y * w /\ cw = w * c0 /\ bwc = (b * w) * c
    OBVIOUS
  <2>7. (u - v + cw) + (xw - yw - cw + bwc) = (u + xw) - (v + yw) + bwc
    OBVIOUS
  <2> QED  BY <2>1, <2>3, <2>4, <2>5, <2>6, <2>7
<1>10. n \in T
  <2>1. \A k \in 0 .. n : k \in T
    <3> HIDE DEF T
    <3> QED  BY <1>8, <1>9, Upto
  <2> QED  BY <2>1
<1> QED  BY <1>1, <1>2, <1>4, <1>6, <1>10

\* A turn of pack25519's loop takes P away if that leaves no less than nothing.
LEMMA LessPIs ==
  ASSUME Sized, NEW t, IsDigits(t)
  PROVE  /\ IsDigits(LessP(t))
         /\ Value(LessP(t)) = IF Value(t) >= P THEN Value(t) - P ELSE Value(t)
<1>1. PICK m : m = (CHOOSE d : DiffStep(d, t)) /\ DiffStep(m, t) /\ Differs(m, t)
  BY Differences
<1>2. PICK x, d : d = Low(m) /\ x = [i \in 0 .. Top |-> IF i = Top THEN m[i] ELSE m[i] % Base]
  OBVIOUS
<1>3. LessP(t) = sel25519(t, x, 1 - Borrow(m[Top]))[1]
  <2>1. LessP(t) = LessBy(CHOOSE e : DiffStep(e, t), t)
    BY Zenon DEF LessP, LessBy, DiffStep
  <2>2. LessP(t) = LessBy(m, t)
    BY <1>1, <2>1, Zenon
  <2> QED  BY <1>2, <2>2, Zenon DEF LessBy
<1>4. IsDigits(d) /\ Value(d) = Value(t) - P + Weight[Limbs] * Borrow(m[Top])
  BY <1>1, <1>2, DifferenceValue
<1>5. PICK c \in Int : c = Borrow(m[Top]) /\ c = IF m[Top] < 0 THEN 1 ELSE 0
  <2>1. m[Top] \in -Base .. Base - 1
    <3>1. Top \in 0 .. Top
      BY DEF Top, Sized
    <3> QED  BY <1>1, <3>1 DEF Differs
  <2> QED  BY <2>1, BorrowIs
<1>6. PICK v \in Int, w \in Int, p \in Int, e \in Int :
        v = Value(t) /\ w = Weight[Limbs] /\ p = P /\ e = Value(d) /\ e = v - p + w * c
        /\ v \in 0 .. w - 1 /\ e \in 0 .. w - 1
  <2>1. Limbs \in 0 .. Limbs
    BY DEF Sized
  <2>2. Value(t) \in 0 .. Weight[Limbs] - 1 /\ Value(d) \in 0 .. Weight[Limbs] - 1
    BY <1>4, <2>1, DigitsBound, ValueIs DEF IsDigits
  <2>3. Weight[Limbs] \in Int /\ P \in Int
    BY <2>1, WeightNext, TopWeight
  <2> QED  BY <1>4, <1>5, <2>2, <2>3
<1>7. CASE m[Top] < 0
  <2>1. c = 1 /\ w * 1 = w
    BY <1>5, <1>7
  <2>2. LessP(t) = t
    BY <1>3, <1>5, <2>1 DEF sel25519
  <2>3. ~(v >= p)
    BY <1>6, <2>1
  <2> QED  BY <1>6, <2>2, <2>3
<1>8. CASE ~(m[Top] < 0)
  <2>1. c = 0 /\ w * 0 = 0
    BY <1>5, <1>8
  <2>2. LessP(t) = x
    BY <1>3, <1>5, <2>1 DEF sel25519
  <2>3. x = d
    <3>1. m[Top] % Base = m[Top]
      <4>1. m[Top] \in -Base .. Base - 1
        <5>1. Top \in 0 .. Top
          BY DEF Top, Sized
        <5> QED  BY <1>1, <5>1 DEF Differs
      <4>2. m[Top] % Base = m[Top] + Base * Borrow(m[Top])
        BY <4>1, BorrowIs
      <4>3. Base * 0 = 0
        BY DEF Sized
      <4> QED  BY <1>5, <2>1, <4>1, <4>2, <4>3
    <3>2. \A i \in 0 .. Top : (IF i = Top THEN m[i] ELSE m[i] % Base) = m[i] % Base
      BY <3>1
    <3> QED  BY <1>2, <3>2 DEF Low
  <2>4. v >= p /\ e = v - p
    BY <1>6, <2>1
  <2> QED  BY <1>4, <1>6, <2>2, <2>3, <2>4
<1> QED  BY <1>7, <1>8

-----------------------------------------------------------------------------
(* What a carry leaves, and packing. *)

\* The digits d of a number, and a carry out of the top limb of q.
FoldsIn(r, d, q) == r \in gf /\ \A j \in 0 .. Top : r[j] = d[j] + (IF j = 0 THEN 38 * q ELSE 0)

LEMMA CarDigits ==
  ASSUME Sized, NEW o \in gf
  PROVE  \E d : /\ IsDigits(d) /\ Value(d) = Value(o) % Weight[Limbs]
                /\ FoldsIn(car25519(o), d, Value(o) \div Weight[Limbs])
                /\ Value(car25519(o)) = Value(d) + 38 * (Value(o) \div Weight[Limbs])
<1>1. PICK n \in Nat, b \in Nat : n = Top /\ b = Base /\ b > 0
  <2>1. Top \in Nat /\ Base \in Nat /\ Base > 0
    BY DEF Sized, Top
  <2> QED  BY <2>1, Zenon
<1>2. PICK c : Chain(c, o) /\ Carried(Carries(o, 38)[Limbs], o, c, 38)
  <2>1. 38 \in Int
    OBVIOUS
  <2> QED  BY <2>1, CarriesAre
<1>3. PICK r : r = car25519(o) /\ Carried(r, o, c, 38)
  BY <1>2, Zenon DEF car25519
<1>4. PICK d : d = [j \in 0 .. n |-> In(o, c, j) % b]
  OBVIOUS
<1>5. ASSUME NEW j \in 0 .. n PROVE In(o, c, j) \in Int
  <2>1. o[j] \in Int /\ 0 \in 0 .. n
    BY <1>1 DEF gf
  <2>2. CASE j = 0
    BY <2>1, <2>2 DEF In
  <2>3. CASE j # 0
    <3>1. j - 1 \in 0 .. n
      BY <2>3
    <3>2. c[j - 1] \in Int
      BY <1>1, <1>2, <3>1 DEF Chain
    <3> QED  BY <2>1, <2>3, <3>2 DEF In
  <2> QED  BY <2>2, <2>3
<1>6. \A j \in 0 .. n : d[j] \in 0 .. b - 1
  <2>1. ASSUME NEW j \in 0 .. n PROVE In(o, c, j) % b \in 0 .. b - 1
    <3>1. PICK x \in Int : x = In(o, c, j)
      BY <1>5
    <3> QED  BY <1>1, <3>1, Divides
  <2> QED  BY <1>4, <2>1
<1>7. IsDigits(d)
  <2>1. d \in [0 .. n -> Int]
    BY <1>4, <1>6
  <2> QED  BY <1>1, <1>6, <2>1 DEF IsDigits, gf
<1>8. PICK q \in Int : q = c[Top]
  <2>1. Top \in 0 .. Top
    BY DEF Top, Sized
  <2> QED  BY <1>2, <2>1 DEF Chain
<1>9. Carried(d, o, c, 0)
  <2>1. 0 * q = 0
    OBVIOUS
  <2>2. \A j \in 0 .. n : d[j] = In(o, c, j) % b /\ In(o, c, j) % b \in Int
    BY <1>4, <1>6
  <2>3. \A j \in 0 .. n : d[j] = (In(o, c, j) % b) + IF j = 0 THEN 0 * q ELSE 0
    BY <2>1, <2>2
  <2> QED  BY <1>1, <1>7, <1>8, <2>3 DEF Carried, IsDigits
<1>10. PICK v \in Int, w \in Nat, e \in Int :
         v = Value(o) /\ w = Weight[Limbs] /\ w > 0 /\ e = Value(d) /\ e \in 0 .. w - 1
  <2>1. Limbs \in 0 .. Limbs
    BY DEF Sized
  <2>2. Value(d) \in 0 .. Weight[Limbs] - 1
    BY <1>7, <2>1, DigitsBound, ValueIs DEF IsDigits
  <2>3. Weight[Limbs] \in Nat /\ Weight[Limbs] >= 1
    BY <2>1, WeightNext
  <2> QED  BY <2>2, <2>3, ValueIs
<1>11. v = w * q + e
  <2>1. e + q * w = v + 0 * q
    <3>1. 0 \in Int
      OBVIOUS
    <3> QED  BY <1>2, <1>8, <1>9, <1>10, <3>1, CarriedValue
  <2>2. 0 * q = 0 /\ q * w = w * q /\ w * q \in Int
    OBVIOUS
  <2> QED  BY <2>1, <2>2
<1>12. v \div w = q /\ v % w = e
  BY <1>10, <1>11, DividesOnce
<1>13. FoldsIn(r, d, q)
  <2>1. ASSUME NEW j \in 0 .. n PROVE r[j] = d[j] + (IF j = 0 THEN 38 * q ELSE 0)
    <3>1. r[j] = (In(o, c, j) % Base) + IF j = 0 THEN 38 * c[Top] ELSE 0
      BY <1>1, <1>3 DEF Carried
    <3>2. d[j] = In(o, c, j) % b
      BY <1>4
    <3> QED  BY <1>1, <1>8, <3>1, <3>2
  <2> QED  BY <1>1, <1>3, <2>1 DEF Carried, FoldsIn
<1>14. Value(r) = e + 38 * q
  <2>1. r \in gf
    BY <1>3 DEF Carried
  <2>2. PICK u \in Int : u = Value(r)
    BY <2>1, ValueIs
  <2>3. u + q * w = v + 38 * q
    <3>1. 38 \in Int
      OBVIOUS
    <3> QED  BY <1>2, <1>3, <1>8, <1>10, <2>2, <3>1, CarriedValue
  <2>4. q * w = w * q /\ w * q \in Int
    OBVIOUS
  <2> QED  BY <1>11, <2>2, <2>3, <2>4
<1>15. Value(o) % Weight[Limbs] = Value(d) /\ Value(o) \div Weight[Limbs] = q
  BY <1>10, <1>12
<1> QED  BY <1>3, <1>7, <1>10, <1>13, <1>14, <1>15

\* Numbers of at most k times what the limb past the top would be worth, and so many
\* times that 38 k is less than half of it.
Within(v, k) == -(k * Weight[Limbs]) <= v /\ v <= k * Weight[Limbs]
Roomy(k)     == k \in Nat /\ 76 * (k + 1) <= Weight[Limbs]

LEMMA QuotientBound ==
  ASSUME NEW w \in Nat, w > 0, NEW k \in Nat, NEW v \in Int, -(k * w) <= v, v <= k * w
  PROVE  v \div w \in -k .. k
<1>1. PICK q \in Int, e \in Int : q = v \div w /\ e = v % w /\ v = w * q + e /\ e \in 0 .. w - 1
  BY Divides
<1>2. q <= k
  <2>1. SUFFICES ASSUME q >= k + 1 PROVE FALSE
    OBVIOUS
  <2>2. w * q >= w * (k + 1)
    BY <2>1
  <2>3. w * (k + 1) = k * w + w
    OBVIOUS
  <2>4. k * w \in Int /\ w * q \in Int
    OBVIOUS
  <2> QED  BY <1>1, <2>2, <2>3, <2>4
<1>3. q >= -k
  <2>1. SUFFICES ASSUME q <= -k - 1 PROVE FALSE
    OBVIOUS
  <2>2. w * q <= w * (-k - 1)
    BY <2>1
  <2>3. w * (-k - 1) = -(k * w) - w
    OBVIOUS
  <2>4. k * w \in Int /\ w * q \in Int
    OBVIOUS
  <2> QED  BY <1>1, <2>2, <2>3, <2>4
<1> QED  BY <1>1, <1>2, <1>3

\* After two passes the number is less than what the limb past the top would be worth,
\* and only the lowest limb may be no digit.
LEMMA CarTwice ==
  ASSUME Sized, NEW k, Roomy(k), NEW o \in gf, Within(Value(o), k)
  PROVE  \E d, r : /\ r = car25519(car25519(o)) /\ IsDigits(d) /\ Cong(Value(r), Value(o))
                   /\ Value(r) \in 0 .. Weight[Limbs] - 1
                   /\ \E q \in {-1, 0, 1} : FoldsIn(r, d, q)
<1>1. PICK w \in Nat, v \in Int : w = Weight[Limbs] /\ w > 0 /\ v = Value(o)
  <2>1. Limbs \in 0 .. Limbs
    BY DEF Sized
  <2>2. Weight[Limbs] \in Nat /\ Weight[Limbs] >= 1
    BY <2>1, WeightNext
  <2> QED  BY <2>2, ValueIs
<1>2. k \in Nat /\ 76 * (k + 1) <= w
  BY <1>1 DEF Roomy
<1>3. PICK s : s = car25519(o) /\ s \in gf /\ Cong(Value(s), Value(o))
  BY CarExact
<1>4. PICK d1 : /\ IsDigits(d1) /\ Value(d1) = v % w
                /\ Value(s) = Value(d1) + 38 * (v \div w)
  BY <1>1, <1>3, CarDigits
<1>5. PICK q1 \in -k .. k : q1 = v \div w
  <2>1. -(k * w) <= v /\ v <= k * w
    BY <1>1 DEF Within
  <2> QED  BY <1>1, <1>2, <2>1, QuotientBound
<1>6. PICK u \in Int : u = Value(s) /\ u >= -38 * k /\ u <= w - 1 + 38 * k
  <2>1. v % w \in 0 .. w - 1
    BY <1>1
  <2>2. PICK e \in 0 .. w - 1 : e = v % w
    BY <2>1
  <2> QED  BY <1>2, <1>4, <1>5, <2>2
<1>7. PICK r : r = car25519(s) /\ r \in gf /\ Cong(Value(r), Value(s))
  BY <1>3, CarExact
<1>8. PICK d : /\ IsDigits(d) /\ Value(d) = u % w /\ FoldsIn(r, d, u \div w)
               /\ Value(r) = Value(d) + 38 * (u \div w)
  BY <1>1, <1>3, <1>6, <1>7, CarDigits
<1>9. PICK q \in Int, e \in 0 .. w - 1 : q = u \div w /\ e = u % w /\ u = w * q + e
  BY <1>1, <1>6, Divides
<1>10. q \in {-1, 0, 1}
  <2>1. PICK one \in Nat : one = 1
    OBVIOUS
  <2>2. one * w = w
    BY <2>1
  <2>3. -(one * w) <= u /\ u <= one * w + w - 1
    BY <1>2, <1>6, <2>2
  <2>4. ~(q >= 2)
    <3>1. SUFFICES ASSUME q >= 2 PROVE FALSE
      OBVIOUS
    <3>2. w * q >= w * 2
      BY <3>1, <1>1
    <3> QED  BY <1>9, <2>2, <2>3, <3>2
  <2>5. ~(q <= -2)
    <3>1. SUFFICES ASSUME q <= -2 PROVE FALSE
      OBVIOUS
    <3>2. w * q <= w * (-2)
      BY <3>1, <1>1
    <3>3. w * (-2) = -(2 * w)
      OBVIOUS
    <3> QED  BY <1>9, <2>2, <2>3, <3>2, <3>3
  <2> QED  BY <2>4, <2>5
<1>11. e + 38 * q \in 0 .. w - 1
  <2>1. CASE q = 0
    BY <2>1
  <2>2. CASE q = 1
    <3>1. w * q = w
      BY <2>2
    <3>2. e <= 38 * k - 1
      BY <1>2, <1>6, <1>9, <3>1
    <3> QED  BY <1>2, <2>2, <3>2
  <2>3. CASE q = -1
    <3>1. w * q = -w
      BY <2>3
    <3>2. e >= w - 38 * k
      BY <1>2, <1>6, <1>9, <3>1
    <3> QED  BY <1>2, <2>3, <3>2
  <2> QED  BY <1>10, <2>1, <2>2, <2>3
<1>12. Value(r) \in 0 .. w - 1
  BY <1>8, <1>9, <1>11
<1>13. Cong(Value(r), Value(o))
  <2>1. Value(r) \in Int /\ Value(s) \in Int /\ Value(o) \in Int
    BY <1>3, <1>7, ValueIs
  <2> QED  BY <1>3, <1>7, <2>1, CongTrans
<1>14. r = car25519(car25519(o)) /\ FoldsIn(r, d, q)
  BY <1>3, <1>7, <1>8, <1>9
<1> QED  BY <1>1, <1>8, <1>10, <1>12, <1>13, <1>14

\* The remainder, from a number below it and congruent.
LEMMA Remains ==
  ASSUME Sized, NEW u \in Int, NEW v \in Int, Cong(u, v), u >= 0, u < P
  PROVE  u = v % P
<1>1. PICK p \in Nat : p = P /\ p > 0
  BY TopWeight
<1>2. u = p * 0 + u /\ u \in 0 .. p - 1 /\ 0 \in Int
  BY <1>1
<1>3. u % p = u
  BY <1>1, <1>2, DividesOnce
<1> QED  BY <1>1, <1>3, CongMod

LEMMA PackExact ==
  ASSUME Sized, NEW k, Roomy(k), NEW n \in gf, Within(Value(n), k)
  PROVE  pack25519(n) = Digits(Value(n) % P)
<1>1. PICK d, r : /\ r = car25519(car25519(n)) /\ IsDigits(d) /\ Cong(Value(r), Value(n))
                  /\ Value(r) \in 0 .. Weight[Limbs] - 1
                  /\ \E q \in {-1, 0, 1} : FoldsIn(r, d, q)
  BY CarTwice
<1>2. r \in gf
  BY <1>1 DEF FoldsIn
<1>3. PICK w \in Nat, v \in Int : w = Weight[Limbs] /\ v = Value(r) /\ v \in 0 .. w - 1 /\ w > 0
  <2>1. Limbs \in 0 .. Limbs
    BY DEF Sized
  <2>2. Weight[Limbs] \in Nat /\ Weight[Limbs] >= 1
    BY <2>1, WeightNext
  <2> QED  BY <1>1, <1>2, <2>2, ValueIs
<1>4. v \div w = 0 /\ v % w = v
  <2>1. v = w * 0 + v
    OBVIOUS
  <2> QED  BY <1>3, <2>1, DividesOnce
<1>5. PICK t : IsDigits(t) /\ Value(t) = v /\ FoldsIn(car25519(r), t, 0)
  BY <1>2, <1>3, <1>4, CarDigits
<1>6. car25519(r) = t
  <2>0. PICK c : c = car25519(r) /\ FoldsIn(c, t, 0)
    BY <1>5
  <2>1. \A j \in 0 .. Top : t[j] + (IF j = 0 THEN 38 * 0 ELSE 0) = t[j]
    BY <1>5 DEF IsDigits, gf
  <2>2. c = [j \in 0 .. Top |-> c[j]] /\ t = [j \in 0 .. Top |-> t[j]]
    BY <1>5, <2>0 DEF FoldsIn, IsDigits, gf
  <2>3. \A j \in 0 .. Top : c[j] = t[j]
    BY <2>0, <2>1 DEF FoldsIn
  <2>4. [j \in 0 .. Top |-> c[j]] = [j \in 0 .. Top |-> t[j]]
    BY <2>3
  <2>5. c = t
    BY <2>2, <2>4, Zenon
  <2> QED  BY <2>0, <2>5, Zenon
<1>7. PICK t1 : t1 = LessP(t) /\ IsDigits(t1) /\ Value(t1) = IF v >= P THEN v - P ELSE v
  BY <1>5, LessPIs
<1>8. PICK t2 : t2 = LessP(t1) /\ IsDigits(t2) /\ Value(t2) = IF Value(t1) >= P THEN Value(t1) - P ELSE Value(t1)
  BY <1>7, LessPIs
<1>9. PICK p \in Nat : p = P /\ p > 0 /\ w = 2 * p + 38 /\ p >= 38
  BY <1>3, TopWeight
<1>10. PICK u \in Int, i \in {0, 1, 2} : u = Value(t2) /\ u = v - i * p /\ u >= 0 /\ u < p
  BY <1>3, <1>7, <1>8, <1>9
<1>11. u = Value(n) % P
  <2>1. u = v + (-i) * p /\ -i \in Int
    <3>1. i = 0 \/ i = 1 \/ i = 2
      BY <1>10
    <3> QED  BY <1>10, <3>1
  <2>2. Cong(u, v)
    BY <1>9, <2>1 DEF Cong
  <2>3. Cong(u, Value(n)) /\ Value(n) \in Int
    BY <1>1, <1>3, <2>2, CongTrans, ValueIs
  <2> QED  BY <1>9, <1>10, <2>3, Remains
<1>12. pack25519(n) = [i2 \in 0 .. Top |-> t2[i2] % Base]
  BY <1>1, <1>6, <1>7, <1>8, Zenon DEF pack25519
<1>13. [i2 \in 0 .. Top |-> t2[i2] % Base] = t2
  <2>1. PICK b \in Nat : b = Base /\ b > 0
    BY DEF Sized
  <2>2. ASSUME NEW j \in 0 .. Top PROVE t2[j] % b = t2[j]
    <3>1. t2[j] \in 0 .. b - 1 /\ t2[j] = b * 0 + t2[j]
      BY <1>8, <2>1 DEF IsDigits
    <3>2. 0 \in Int /\ t2[j] \in Int
      BY <3>1
    <3> QED  BY <2>1, <3>1, <3>2, DividesOnce
  <2>3. t2 = [j \in 0 .. Top |-> t2[j]]
    BY <1>8 DEF IsDigits, gf
  <2> QED  BY <2>1, <2>2, <2>3
<1>14. t2 = Digits(u)
  BY <1>8, <1>10, DigitsOnce
<1> QED  BY <1>11, <1>12, <1>13, <1>14

-----------------------------------------------------------------------------
(* How far limbs go. *)

Limbed(a, x) == a \in gf /\ \A i \in 0 .. Top : a[i] \in -x .. x

\* A term after the other, a sum grows by no more than the largest.
LEMMA SumGrows ==
  ASSUME NEW n \in Nat, NEW g, NEW h \in Nat, \A i \in 0 .. n - 1 : g[i] \in -h .. h
  PROVE  Terms(g, n) /\ \A i \in 0 .. n : Sum(g, i) \in -(i * h) .. i * h
<1>1. Terms(g, n)
  BY DEF Terms
<1> DEFINE T == {i \in 0 .. n : Sum(g, i) \in -(i * h) .. i * h}
<1>2. 0 \in T
  BY <1>1, SumNext
<1>3. ASSUME NEW i \in 1 .. n, i - 1 \in T PROVE i \in T
  <2>1. PICK s \in Int, e \in Int : s = Sum(g, i - 1) /\ e = g[i - 1] /\ e \in -h .. h
    <3>1. i - 1 \in 0 .. n - 1
      OBVIOUS
    <3> QED  BY <1>3, <3>1
  <2>2. Sum(g, i) = s + e
    BY <1>1, <2>1, SumNext
  <2>3. PICK m \in Int : m = (i - 1) * h /\ i * h = m + h
    <3>1. (i - 1) * h = i * h - h /\ i * h \in Int
      OBVIOUS
    <3> QED  BY <3>1
  <2>4. s \in -m .. m
    BY <1>3, <2>1, <2>3
  <2>5. s + e \in -(m + h) .. m + h
    BY <2>1, <2>4
  <2> QED  BY <2>2, <2>3, <2>5
<1>4. \A i \in 0 .. n : i \in T
  <2> HIDE DEF T
  <2> QED  BY <1>2, <1>3, Upto
<1> QED  BY <1>1, <1>4

LEMMA Times2 ==
  ASSUME NEW x \in Nat, NEW u \in -x .. x, NEW v \in -x .. x
  PROVE  u * v \in -(x * x) .. x * x
<1>1. PICK s \in Nat, t \in Nat : /\ s = (IF u >= 0 THEN u ELSE -u) /\ t = (IF v >= 0 THEN v ELSE -v)
                                  /\ s <= x /\ t <= x
  OBVIOUS
<1>2. s * t <= s * x /\ s * x <= x * x
  BY <1>1
<1>3. s * t \in Nat /\ x * x \in Nat /\ s * x \in Nat
  OBVIOUS
<1>4. u * v = s * t \/ u * v = -(s * t)
  BY <1>1
<1> QED  BY <1>2, <1>3, <1>4

\* The partial sums of a column.
LEMMA ColumnBound ==
  ASSUME Sized, NEW x \in Nat, NEW a, NEW b, Limbed(a, x), Limbed(b, x), NEW k \in Int, NEW i \in 0 .. Limbs
  PROVE  Column(a, b, k)[i] \in -(i * (x * x)) .. i * (x * x)
<1>1. PICK n \in Nat : n = Limbs /\ Top = n - 1
  BY DEF Sized, Top
<1>2. PICK g : g = Entry(a, b, k)
  OBVIOUS
<1>3. PICK h \in Nat : h = x * x
  <2>1. x * x \in Nat
    OBVIOUS
  <2> QED  BY <2>1
<1>4. ASSUME NEW j \in 0 .. n - 1 PROVE g[j] \in -h .. h
  <2>1. g[j] = IF k - j \in 0 .. Top THEN a[j] * b[k - j] ELSE 0
    BY <1>1, <1>2 DEF Entry
  <2>2. CASE k - j \in 0 .. Top
    <3>1. PICK u \in -x .. x, v \in -x .. x : u = a[j] /\ v = b[k - j]
      BY <1>1, <2>2 DEF Limbed
    <3>2. u * v \in -h .. h
      BY <1>3, Times2
    <3> QED  BY <2>1, <2>2, <3>1, <3>2
  <2>3. CASE ~(k - j \in 0 .. Top)
    BY <2>1, <2>3
  <2> QED  BY <2>2, <2>3
<1>5. PICK s : s = Column(a, b, k)
  OBVIOUS
<1>6. s[0] = 0 /\ \A j \in 1 .. n : s[j] = s[j - 1] + g[j - 1]
  <2>1. a \in gf /\ b \in gf
    BY DEF Limbed
  <2>2. s[0] = 0 /\ \A j \in 0 .. Top : s[j + 1] = s[j] + g[j]
    BY <1>2, <1>5, <2>1, ColumnIs
  <2>3. ASSUME NEW j \in 1 .. n PROVE s[j] = s[j - 1] + g[j - 1]
    <3>1. PICK m \in 0 .. Top : m = j - 1 /\ m + 1 = j
      BY <1>1
    <3>2. s[m + 1] = s[m] + g[m]
      BY <2>2
    <3> QED  BY <3>1, <3>2
  <2> QED  BY <2>2, <2>3
<1>7. Sum(g, i) = s[i]
  <2>1. i \in Nat /\ i <= n
    BY <1>1
  <2>2. Terms(g, i)
    BY <1>4, <2>1 DEF Terms
  <2>3. \A j \in 1 .. i : s[j] = s[j - 1] + g[j - 1]
    BY <1>6, <2>1
  <2> QED  BY <1>6, <2>1, <2>2, <2>3, SumIs
<1>8. Sum(g, i) \in -(i * h) .. i * h
  BY <1>1, <1>4, SumGrows
<1> QED  BY <1>3, <1>5, <1>7, <1>8

\* A product's limbs: the topmost has nothing folded in.
LEMMA ProductBound ==
  ASSUME Sized, NEW x \in Nat, NEW a, NEW b, Limbed(a, x), Limbed(b, x), NEW h \in Nat, h = Limbs * (x * x)
  PROVE  /\ Product(a, b) \in gf /\ Product(a, b)[Top] \in -h .. h
         /\ \A k \in 0 .. Top : Product(a, b)[k] \in -(39 * h) .. 39 * h
<1>1. PICK n \in Nat : n = Limbs /\ Top = n - 1 /\ n >= 2
  BY DEF Sized, Top
<1>2. a \in gf /\ b \in gf
  BY DEF Limbed
<1>3. ASSUME NEW k \in Int PROVE Column(a, b, k)[n] \in -h .. h
  <2>1. n \in 0 .. Limbs
    BY <1>1
  <2> QED  BY <1>1, <2>1, ColumnBound
<1>4. PICK p : p = Product(a, b) /\ p \in gf
  BY <1>2, ProductExact
<1>5. ASSUME NEW k \in 0 .. Top
      PROVE p[k] = Column(a, b, k)[n] + IF k < Top THEN 38 * Column(a, b, k + Limbs)[n] ELSE 0
  BY <1>1, <1>2, <1>4, ProductIs DEF Rows
<1>6. p[Top] \in -h .. h
  <2>1. Top \in 0 .. Top /\ Top \in Int /\ ~(Top < Top)
    BY <1>1
  <2>2. PICK c \in -h .. h : c = Column(a, b, Top)[n]
    BY <1>3, <2>1
  <2>3. p[Top] = c + 0
    BY <1>5, <2>1, <2>2
  <2> QED  BY <2>3
<1>7. ASSUME NEW k \in 0 .. Top PROVE p[k] \in -(39 * h) .. 39 * h
  <2>1. k \in Int /\ k + Limbs \in Int
    BY <1>1
  <2>2. PICK c \in -h .. h, d \in -h .. h : c = Column(a, b, k)[n] /\ d = Column(a, b, k + Limbs)[n]
    BY <1>3, <2>1
  <2>3. p[k] = c + IF k < Top THEN 38 * d ELSE 0
    BY <1>5, <2>2
  <2> QED  BY <2>2, <2>3
<1> QED  BY <1>4, <1>6, <1>7

LEMMA Scaled ==
  ASSUME NEW x \in Nat, NEW u \in -x .. x, NEW w \in Nat
  PROVE  u * w \in -(x * w) .. x * w
<1>1. u * w <= x * w
  OBVIOUS
<1>2. (-x) * w <= u * w
  OBVIOUS
<1>3. (-x) * w = -(x * w) /\ x * w \in Nat /\ u * w \in Int
  OBVIOUS
<1> QED  BY <1>1, <1>2, <1>3

\* What a number may be, of which the topmost limb is known more closely.
LEMMA ValueBound ==
  ASSUME Sized, NEW o \in gf, NEW h \in Nat, NEW t \in Nat,
         \A i \in 0 .. Top : i < Top => o[i] \in -(h * (Base - 1)) .. h * (Base - 1),
         o[Top] \in -t .. t, NEW k \in Nat, h + t <= k * Base
  PROVE  Within(Value(o), k)
<1>1. PICK n \in Nat, b \in Nat : n = Top /\ b = Base /\ b > 0 /\ Limbs = n + 1
  <2>1. Top \in Nat /\ Base \in Nat /\ Base > 0 /\ Limbs = Top + 1
    BY DEF Sized, Top
  <2> QED  BY <2>1, Zenon
<1>2. PICK g : g = Weighed(o) /\ Terms(g, n + 1) /\ Value(o) = Sum(g, n + 1)
  BY <1>1, Weighs, ValueIs
<1>3. /\ Sum(g, 0) = 0 /\ \A i \in 1 .. n + 1 : Sum(g, i) = Sum(g, i - 1) + g[i - 1]
      /\ \A i \in 0 .. n + 1 : Sum(g, i) \in Int
  BY <1>2, SumNext
<1>4. \A i \in 0 .. n : g[i] = o[i] * Weight[i]
  BY <1>1, <1>2 DEF Weighed
<1>5. ASSUME NEW i \in 0 .. n
      PROVE Weight[i] \in Nat /\ Weight[i + 1] = b * Weight[i]
  <2>1. i + 1 \in 1 .. Limbs /\ (i + 1) - 1 = i /\ i \in 0 .. Limbs
    BY <1>1
  <2> QED  BY <1>1, <2>1, WeightNext
<1>6. Weight[0] = 1
  BY WeightNext
<1>7. PICK a \in Nat : a = h * (b - 1)
  <2>1. h * (b - 1) \in Nat
    BY <1>1
  <2> QED  BY <2>1
<1>8. \A i \in 0 .. n : i < n => o[i] \in -a .. a
  BY <1>1, <1>7
<1> DEFINE T == {i \in 0 .. n : Sum(g, i) \in -(h * (Weight[i] - 1)) .. h * (Weight[i] - 1)}
<1>9. 0 \in T
  <2>1. h * (1 - 1) = 0 /\ 0 \in 0 .. n
    BY <1>1
  <2> QED  BY <1>3, <1>6, <2>1
<1>10. ASSUME NEW i \in 1 .. n, i - 1 \in T PROVE i \in T
  <2>1. PICK j \in 0 .. n : j = i - 1 /\ j < n /\ j + 1 = i /\ i \in 1 .. n + 1
    OBVIOUS
  <2>2. PICK w \in Nat : w = Weight[j] /\ Weight[i] = b * w
    BY <1>5, <2>1
  <2>3. PICK s \in Int, u \in -a .. a : s = Sum(g, j) /\ u = o[j] /\ Sum(g, i) = s + u * w
    <3>1. Sum(g, i) = Sum(g, j) + g[j]
      BY <1>3, <2>1
    <3>2. Sum(g, j) \in Int
      BY <1>3, <2>1
    <3> QED  BY <1>4, <1>8, <2>1, <2>2, <3>1, <3>2
  <2>4. PICK m \in Int, c \in Int, hw \in Int :
          /\ m = h * (w - 1) /\ c = u * w /\ hw = a * w /\ m + hw = h * (b * w - 1)
    <3>1. h * (w - 1) + (h * (b - 1)) * w = h * (b * w - 1)
      BY <1>1
    <3>2. h * (w - 1) \in Int /\ u * w \in Int /\ a * w \in Int
      OBVIOUS
    <3> QED  BY <1>7, <3>1, <3>2
  <2>5. s \in -m .. m
    BY <1>10, <2>1, <2>2, <2>3, <2>4
  <2>6. c \in -hw .. hw
    BY <2>4, Scaled
  <2>7. s + c \in -(m + hw) .. m + hw
    BY <2>5, <2>6
  <2> QED  BY <2>2, <2>3, <2>4, <2>7
<1>11. n \in T
  <2>1. \A i \in 0 .. n : i \in T
    <3> HIDE DEF T
    <3> QED  BY <1>9, <1>10, Upto
  <2> QED  BY <2>1
<1>12. PICK w \in Nat, s \in Int, u \in -t .. t :
         w = Weight[n] /\ Weight[Limbs] = b * w /\ s = Sum(g, n) /\ u = o[n] /\ Value(o) = s + u * w
  <2>1. n \in 0 .. n /\ n + 1 \in 1 .. n + 1 /\ (n + 1) - 1 = n /\ n \in 0 .. n + 1
    OBVIOUS
  <2>2. Sum(g, n + 1) = Sum(g, n) + g[n]
    BY <1>3, <2>1
  <2>3. g[n] = o[n] * Weight[n]
    BY <1>4, <2>1
  <2>4. Weight[n] \in Nat /\ Weight[n + 1] = b * Weight[n]
    BY <1>5, <2>1
  <2>5. Sum(g, n) \in Int
    BY <1>3, <2>1
  <2> QED  BY <1>1, <1>2, <2>2, <2>3, <2>4, <2>5
<1>13. PICK m \in Int, c \in Int, tw \in Int : m = h * w /\ c = u * w /\ tw = t * w /\ c \in -tw .. tw
  <2>1. u * w \in -(t * w) .. t * w
    BY Scaled
  <2>2. h * w \in Int /\ u * w \in Int /\ t * w \in Int
    OBVIOUS
  <2> QED  BY <2>1, <2>2
<1>14. s \in -m .. m
  <2>1. h * (w - 1) = h * w - h
    OBVIOUS
  <2> QED  BY <1>11, <1>12, <1>13, <2>1
<1>15. m + tw <= k * (b * w)
  <2>1. (h + t) * w <= (k * b) * w
    <3>1. h + t <= k * b /\ k * b \in Int
      BY <1>1
    <3> QED  BY <3>1
  <2>2. (h + t) * w = h * w + t * w /\ (k * b) * w = k * (b * w)
    OBVIOUS
  <2> QED  BY <1>13, <2>1, <2>2
<1>16. s + c \in -(m + tw) .. m + tw
  BY <1>13, <1>14
<1>17. PICK z \in Int : z = k * (b * w)
  OBVIOUS
<1>18. -z <= s + c /\ s + c <= z
  BY <1>15, <1>16, <1>17
<1> QED  BY <1>12, <1>13, <1>17, <1>18 DEF Within

IsReduced(m) == m \in gf /\ m[0] \in -38 .. Base + 37 /\ \A i \in 1 .. Top : m[i] \in 0 .. Base - 1

\* The product of limbs up to x is brought back by two passes.
Fits(x, g, k) ==
  /\ x \in Nat /\ g \in Nat /\ Roomy(k)
  /\ 39 * (Limbs * (x * x)) <= g * (Base - 1)
  /\ g + Limbs * (x * x) <= k * Base

LEMMA MReduced ==
  ASSUME Sized, NEW x, NEW g, NEW k, Fits(x, g, k), NEW a, NEW b, Limbed(a, x), Limbed(b, x)
  PROVE  IsReduced(M(a, b))
<1>1. PICK n \in Nat, e \in Nat : n = Top /\ e = Base /\ e > 0
  <2>1. Top \in Nat /\ Base \in Nat /\ Base > 0
    BY DEF Sized, Top
  <2> QED  BY <2>1, Zenon
<1>2. PICK h \in Nat : h = Limbs * (x * x) /\ 39 * h <= g * (e - 1) /\ g + h <= k * e /\ k \in Nat /\ g \in Nat
  <2>1. Limbs * (x * x) \in Nat
    BY DEF Fits, Sized
  <2> QED  BY <1>1, <2>1 DEF Fits, Roomy
<1>3. PICK p : /\ p = Product(a, b) /\ p \in gf /\ p[Top] \in -h .. h
               /\ \A i \in 0 .. Top : p[i] \in -(39 * h) .. 39 * h
  <2>1. x \in Nat
    BY DEF Fits
  <2> QED  BY <1>2, <2>1, ProductBound
<1>4. \A i \in 0 .. Top : i < Top => p[i] \in -(g * (e - 1)) .. g * (e - 1)
  <2>1. PICK z \in Int : z = g * (e - 1) /\ 39 * h <= z
    BY <1>2
  <2>2. \A i \in 0 .. Top : p[i] \in -z .. z
    BY <1>3, <2>1
  <2> QED  BY <2>1, <2>2
<1>5. Within(Value(p), k)
  BY <1>1, <1>2, <1>3, <1>4, ValueBound
<1>6. PICK d, r : /\ r = car25519(car25519(p)) /\ IsDigits(d)
                  /\ \E q \in {-1, 0, 1} : FoldsIn(r, d, q)
  <2>1. Roomy(k)
    BY DEF Fits
  <2> QED  BY <1>3, <1>5, <2>1, CarTwice
<1>7. r = M(a, b)
  BY <1>3, <1>6, Zenon DEF M
<1>8. IsReduced(r)
  <2>1. PICK q \in {-1, 0, 1} : FoldsIn(r, d, q)
    BY <1>6
  <2>2. 0 \in 0 .. n
    BY <1>1
  <2>3. r[0] = d[0] + 38 * q /\ d[0] \in 0 .. e - 1
    BY <1>1, <1>6, <2>1, <2>2 DEF FoldsIn, IsDigits
  <2>4. r[0] \in -38 .. e + 37
    BY <2>3
  <2>5. ASSUME NEW i \in 1 .. Top PROVE r[i] \in 0 .. e - 1
    <3>1. i \in 0 .. Top /\ i # 0
      BY <1>1
    <3>2. r[i] = d[i] + 0 /\ d[i] \in 0 .. e - 1
      BY <1>1, <1>6, <2>1, <3>1 DEF FoldsIn, IsDigits
    <3> QED  BY <3>2
  <2> QED  BY <1>1, <2>1, <2>4, <2>5 DEF IsReduced, FoldsIn
<1> QED  BY <1>7, <1>8

\* What is carried, and what limbs it leaves on the way.
LEMMA PassesBound ==
  ASSUME Sized, NEW l \in Nat, NEW k \in Nat, l + k <= k * Base, NEW o, Limbed(o, l),
         NEW y \in Nat, l + 39 * k + Base <= y
  PROVE  \A i \in 0 .. Limbs, j \in 0 .. Top : Carries(o, 38)[i][j] \in -y .. y
<1>1. PICK n \in Nat, b \in Nat : n = Top /\ b = Base /\ b > 0 /\ Limbs = n + 1
  <2>1. Top \in Nat /\ Base \in Nat /\ Base > 0 /\ Limbs = Top + 1
    BY DEF Sized, Top
  <2> QED  BY <2>1, Zenon
<1>2. PICK c, s : /\ s = Carries(o, 38) /\ Chain(c, o) /\ Carried(s[Limbs], o, c, 38)
                  /\ \A i \in 0 .. Top : Passed(s[i], o, c, i)
  <2>1. 38 \in Int /\ o \in gf
    BY DEF Limbed
  <2> QED  BY <2>1, CarriesAre
<1>3. \A j \in 0 .. n : o[j] \in -l .. l
  BY <1>1 DEF Limbed
<1>4. PICK kb \in Int : kb = k * b /\ l + k <= kb
  BY <1>1
<1>5. ASSUME NEW x \in Int, x \in -(l + k) .. l + k PROVE x \div b \in -k .. k
  <2>1. -kb <= x /\ x <= kb
    BY <1>4, <1>5
  <2>2. -(k * b) <= x /\ x <= k * b
    BY <1>4, <2>1
  <2> QED  BY <1>1, <2>2, QuotientBound
<1> DEFINE T == {j \in 0 .. n : c[j] \in -k .. k}
<1>6. 0 \in T
  <2>1. c[0] = In(o, c, 0) \div b /\ 0 \in 0 .. n
    BY <1>1, <1>2 DEF Chain
  <2>2. In(o, c, 0) = o[0] /\ o[0] \in -l .. l
    BY <1>3, <2>1 DEF In
  <2>3. o[0] \in -(l + k) .. l + k
    BY <2>2
  <2>4. c[0] \in -k .. k
    BY <1>5, <2>1, <2>2, <2>3
  <2> QED  BY <2>1, <2>4
<1>7. ASSUME NEW j \in 1 .. n, j - 1 \in T PROVE j \in T
  <2>1. c[j] = In(o, c, j) \div b /\ j \in 0 .. n /\ j # 0
    BY <1>1, <1>2 DEF Chain
  <2>2. In(o, c, j) = o[j] + c[j - 1] /\ o[j] \in -l .. l /\ c[j - 1] \in -k .. k
    BY <1>3, <1>7, <2>1 DEF In
  <2>3. PICK x \in -(l + k) .. l + k : x = In(o, c, j)
    BY <2>2
  <2>4. c[j] \in -k .. k
    BY <1>5, <2>1, <2>3
  <2> QED  BY <2>1, <2>4
<1>8. \A j \in 0 .. n : c[j] \in -k .. k
  <2>1. \A j \in 0 .. n : j \in T
    <3> HIDE DEF T
    <3> QED  BY <1>6, <1>7, Upto
  <2> QED  BY <2>1
<1>9. ASSUME NEW j \in 0 .. n
      PROVE  In(o, c, j) \in -(l + k) .. l + k /\ In(o, c, j) % b \in 0 .. b - 1
  <2>1. In(o, c, j) \in -(l + k) .. l + k
    <3>1. CASE j = 0
      <4>1. o[0] \in -l .. l
        BY <1>3, <3>1
      <4> QED  BY <3>1, <4>1 DEF In
    <3>2. CASE j # 0
      <4>1. j - 1 \in 0 .. n
        BY <3>2
      <4>2. o[j] \in -l .. l /\ c[j - 1] \in -k .. k
        BY <1>3, <1>8, <4>1
      <4> QED  BY <3>2, <4>2 DEF In
    <3> QED  BY <3>1, <3>2
  <2>2. PICK x \in Int : x = In(o, c, j)
    BY <2>1
  <2> QED  BY <1>1, <2>1, <2>2, Divides
<1>10. l + 39 * k + b <= y
  BY <1>1
<1>11. ASSUME NEW i \in 0 .. n, NEW j \in 0 .. n PROVE s[i][j] \in -y .. y
  <2>1. s[i][j] = IF j < i THEN In(o, c, j) % Base ELSE IF j = i THEN In(o, c, j) ELSE o[j]
    BY <1>1, <1>2 DEF Passed
  <2>2. PICK p \in -(l + k) .. l + k, q \in 0 .. b - 1, r \in -l .. l :
          p = In(o, c, j) /\ q = In(o, c, j) % Base /\ r = o[j]
    BY <1>1, <1>3, <1>9
  <2>3. s[i][j] = IF j < i THEN q ELSE IF j = i THEN p ELSE r
    BY <2>1, <2>2
  <2> QED  BY <1>1, <1>10, <2>2, <2>3
<1>12. ASSUME NEW j \in 0 .. n PROVE s[n + 1][j] \in -y .. y
  <2>1. s[n + 1][j] = (In(o, c, j) % Base) + IF j = 0 THEN 38 * c[Top] ELSE 0
    BY <1>1, <1>2 DEF Carried
  <2>2. PICK q \in 0 .. b - 1, t \in -k .. k : q = In(o, c, j) % Base /\ t = c[Top]
    <3>1. n \in 0 .. n
      OBVIOUS
    <3> QED  BY <1>1, <1>8, <1>9, <3>1
  <2>3. s[n + 1][j] = q + IF j = 0 THEN 38 * t ELSE 0
    BY <2>1, <2>2
  <2> QED  BY <1>1, <1>10, <2>2, <2>3
<1>13. ASSUME NEW i \in 0 .. Limbs, NEW j \in 0 .. Top PROVE s[i][j] \in -y .. y
  <2>1. i \in 0 .. n \/ i = n + 1
    BY <1>1
  <2> QED  BY <1>1, <1>11, <1>12, <2>1
<1> QED  BY <1>2, <1>13

\* No number the code forms on the way to a product is beyond y: not the sums of its
\* columns, not 38 times those past the top, not the limbs between two carries.
Within38(s, y) == s \in -y .. y /\ 38 * s \in -y .. y
Stays(a, b, y) ==
  /\ \A k \in 0 .. 2 * Top, i \in 0 .. Limbs : Within38(Column(a, b, k)[i], y)
  /\ \A k \in 0 .. Top : Product(a, b)[k] \in -y .. y
  /\ \A i \in 0 .. Limbs, j \in 0 .. Top :
       /\ Carries(Product(a, b), 38)[i][j] \in -y .. y
       /\ Carries(car25519(Product(a, b)), 38)[i][j] \in -y .. y

LEMMA MStays ==
  ASSUME Sized, NEW x \in Nat, NEW a, NEW b, Limbed(a, x), Limbed(b, x),
         NEW k \in Nat, NEW y \in Nat, y + k <= k * Base,
         39 * (Limbs * (x * x)) + 2 * (39 * k + Base) <= y
  PROVE  Stays(a, b, y)
<1>1. PICK n \in Nat, e \in Nat : n = Limbs /\ Top = n - 1 /\ n >= 2 /\ e = Base
  BY DEF Sized, Top
<1>2. PICK h \in Nat, q \in Nat : q = x * x /\ h = n * q /\ 39 * h + 2 * (39 * k + e) <= y /\ h = Limbs * (x * x)
  <2>1. x * x \in Nat
    OBVIOUS
  <2>2. n * (x * x) \in Nat
    BY <2>1
  <2> QED  BY <1>1, <2>1, <2>2
<1>3. ASSUME NEW c \in Int, NEW i \in 0 .. Limbs PROVE Within38(Column(a, b, c)[i], y)
  <2>1. Column(a, b, c)[i] \in -(i * (x * x)) .. i * (x * x)
    BY ColumnBound
  <2>2. PICK m \in Nat : m = i * q /\ m <= h
    <3>1. i \in Nat /\ i <= n
      BY <1>1
    <3>2. i * q <= n * q /\ i * q \in Nat
      BY <3>1
    <3> QED  BY <1>2, <3>2
  <2>3. PICK s \in -m .. m : s = Column(a, b, c)[i]
    BY <1>2, <2>1, <2>2
  <2> QED  BY <1>1, <1>2, <2>2, <2>3 DEF Within38
<1>4. PICK p : p = Product(a, b) /\ p \in gf /\ \A i \in 0 .. Top : p[i] \in -(39 * h) .. 39 * h
  BY <1>2, ProductBound
<1>5. PICK l \in Nat : l = 39 * h
  <2>1. 39 * h \in Nat
    OBVIOUS
  <2> QED  BY <2>1
<1>6. Limbed(p, l)
  BY <1>4, <1>5 DEF Limbed
<1>7. PICK m \in Nat : m = l + 39 * k + e
  <2>1. l + 39 * k + e \in Nat
    OBVIOUS
  <2> QED  BY <2>1
<1>8. PICK ke \in Int : ke = k * Base /\ y + k <= ke
  BY <1>1
<1>9. \A i \in 0 .. Limbs, j \in 0 .. Top : Carries(p, 38)[i][j] \in -m .. m
  <2>1. l + k <= k * Base
    BY <1>2, <1>5, <1>8
  <2>2. l + 39 * k + Base <= m
    BY <1>1, <1>7
  <2> QED  BY <1>6, <2>1, <2>2, PassesBound
<1>10. PICK r : r = car25519(p) /\ Limbed(r, m)
  <2>1. PICK r : r = car25519(p) /\ r \in gf
    BY <1>4, CarExact
  <2>2. r = Carries(p, 38)[Limbs]
    BY <2>1, Zenon DEF car25519
  <2>3. Limbs \in 0 .. Limbs
    BY <1>1
  <2>4. \A j \in 0 .. Top : r[j] \in -m .. m
    BY <1>9, <2>2, <2>3
  <2> QED  BY <2>1, <2>4 DEF Limbed
<1>11. \A i \in 0 .. Limbs, j \in 0 .. Top : Carries(r, 38)[i][j] \in -y .. y
  <2>1. m + k <= k * Base
    BY <1>2, <1>5, <1>7, <1>8
  <2>2. m + 39 * k + Base <= y
    BY <1>1, <1>2, <1>5, <1>7
  <2> QED  BY <1>10, <2>1, <2>2, PassesBound
<1>12. \A i \in 0 .. Limbs, j \in 0 .. Top : Carries(p, 38)[i][j] \in -y .. y
  <2>1. m <= y
    BY <1>2, <1>5, <1>7
  <2>2. ASSUME NEW i \in 0 .. Limbs, NEW j \in 0 .. Top PROVE Carries(p, 38)[i][j] \in -y .. y
    <3>1. PICK z \in -m .. m : z = Carries(p, 38)[i][j]
      BY <1>9
    <3> QED  BY <2>1, <3>1
  <2> QED  BY <2>2
<1>13. \A i \in 0 .. Top : p[i] \in -y .. y
  <2>1. l <= y
    BY <1>2, <1>5
  <2> QED  BY <1>4, <1>5, <2>1
<1> QED  BY <1>3, <1>4, <1>10, <1>11, <1>12, <1>13 DEF Stays

LEMMA WeightGrows ==
  ASSUME Sized
  PROVE  Weight[Limbs] >= Base * Base
<1>1. PICK n \in Nat, b \in Nat : n = Limbs /\ n >= 2 /\ b = Base /\ b >= 38
  BY DEF Sized
<1>2. PICK q \in Nat : q = b * b
  <2>1. b * b \in Nat
    OBVIOUS
  <2> QED  BY <2>1
<1>3. /\ Weight[0] = 1 /\ \A i \in 1 .. n : Weight[i] = b * Weight[i - 1]
      /\ \A i \in 0 .. n : Weight[i] \in Nat
  BY <1>1, WeightNext
<1>4. Weight[1] = b * 1
  <2>1. 1 \in 1 .. n
    BY <1>1
  <2>2. Weight[1] = b * Weight[1 - 1]
    BY <1>3, <2>1
  <2> QED  BY <1>3, <2>2
<1>5. Weight[2] = q
  <2>1. 2 \in 1 .. n
    BY <1>1
  <2>2. Weight[2] = b * Weight[2 - 1]
    BY <1>3, <2>1
  <2> QED  BY <1>2, <1>4, <2>2
<1> DEFINE T == {i \in 0 .. n : i >= 2 => Weight[i] >= q}
<1>6. 0 \in T
  OBVIOUS
<1>7. ASSUME NEW i \in 1 .. n, i - 1 \in T PROVE i \in T
  <2>1. CASE i = 1
    BY <2>1
  <2>2. CASE i = 2
    BY <1>5, <2>2
  <2>3. CASE i > 2
    <3>1. PICK w \in Nat : w = Weight[i - 1] /\ w >= q
      <4>1. i - 1 \in 0 .. n
        OBVIOUS
      <4> QED  BY <1>3, <1>7, <2>3, <4>1
    <3>2. b * w >= 1 * w
      BY <1>1
    <3>3. Weight[i] = b * w /\ b * w \in Int
      BY <1>3, <3>1
    <3> QED  BY <3>1, <3>2, <3>3
  <2> QED  BY <2>1, <2>2, <2>3
<1>8. \A i \in 0 .. n : i \in T
  <2> HIDE DEF T
  <2> QED  BY <1>6, <1>7, Upto
<1>9. n \in T
  <2>1. n \in 0 .. n
    OBVIOUS
  <2> QED  BY <1>8, <2>1
<1> QED  BY <1>1, <1>2, <1>9

LEMMA DigitsTyped ==
  ASSUME Sized, NEW v \in Int
  PROVE  IsDigits(Digits(v))
<1>1. PICK b \in Nat : b = Base /\ b > 0
  BY DEF Sized
<1>2. ASSUME NEW i \in 0 .. Top PROVE (v \div Weight[i]) % b \in 0 .. b - 1
  <2>1. i \in 0 .. Limbs
    BY DEF Top, Sized
  <2>2. PICK w \in Nat : w = Weight[i] /\ w > 0
    <3>1. Weight[i] \in Nat /\ Weight[i] >= 1
      BY <2>1, WeightNext
    <3> QED  BY <3>1
  <2>3. PICK q \in Int : q = v \div w
    BY <2>2, Divides
  <2>4. q % b \in 0 .. b - 1
    BY <1>1, Divides
  <2> QED  BY <2>2, <2>3, <2>4
<1>3. PICK d : d = Digits(v)
  OBVIOUS
<1>4. d = [i \in 0 .. Top |-> (v \div Weight[i]) % b]
  BY <1>1, <1>3, Zenon DEF Digits
<1>5. \A i \in 0 .. Top : d[i] \in 0 .. b - 1
  BY <1>2, <1>4
<1>6. d \in [0 .. Top -> Int]
  BY <1>4, <1>5
<1> QED  BY <1>1, <1>3, <1>5, <1>6 DEF IsDigits, gf

-----------------------------------------------------------------------------
(* Points: a product's limbs, and what sums and differences make of them. *)

Narrow(a) == Limbed(a, Base + 37)
Wide(a)   == Limbed(a, 3 * (Base + 37))
Exactly(g, k) == Fits(3 * (Base + 37), g, k)

LEMMA NarrowIsWide ==
  ASSUME Sized, NEW a, Narrow(a)
  PROVE  Wide(a)
<1>1. PICK b \in Nat : b = Base
  BY DEF Sized
<1>2. \A i \in 0 .. Top : a[i] \in -(3 * (b + 37)) .. 3 * (b + 37)
  BY <1>1 DEF Narrow, Limbed
<1> QED  BY <1>1, <1>2 DEF Narrow, Wide, Limbed

LEMMA ReducedIsNarrow ==
  ASSUME Sized, NEW a, IsReduced(a)
  PROVE  Narrow(a)
<1>1. PICK b \in Nat : b = Base /\ b >= 38
  BY DEF Sized
<1>2. ASSUME NEW i \in 0 .. Top PROVE a[i] \in -(b + 37) .. b + 37
  <2>1. CASE i = 0
    BY <1>1, <2>1 DEF IsReduced
  <2>2. CASE i # 0
    <3>1. i \in 1 .. Top
      BY <2>2 DEF Top, Sized
    <3> QED  BY <1>1, <3>1 DEF IsReduced
  <2> QED  BY <2>1, <2>2
<1> QED  BY <1>1, <1>2 DEF IsReduced, Narrow, Limbed

LEMMA DigitsAreNarrow ==
  ASSUME Sized, NEW a, IsDigits(a)
  PROVE  Narrow(a)
<1>1. PICK b \in Nat : b = Base /\ b >= 38
  BY DEF Sized
<1>2. \A i \in 0 .. Top : a[i] \in -(b + 37) .. b + 37
  BY <1>1 DEF IsDigits
<1> QED  BY <1>1, <1>2 DEF IsDigits, Narrow, Limbed

LEMMA SumsAreWide ==
  ASSUME Sized, NEW a, NEW b, Narrow(a), Narrow(b)
  PROVE  Wide(A(a, b)) /\ Wide(Z(a, b))
<1>1. PICK x \in Nat : x = Base + 37
  BY DEF Sized
<1>2. \A i \in 0 .. Top : a[i] \in -x .. x /\ b[i] \in -x .. x
  BY <1>1 DEF Narrow, Limbed
<1>3. PICK s, d : s = A(a, b) /\ d = Z(a, b)
  OBVIOUS
<1>4. \A i \in 0 .. Top : /\ s[i] = a[i] + b[i] /\ d[i] = a[i] - b[i]
                          /\ s[i] \in -(3 * x) .. 3 * x /\ d[i] \in -(3 * x) .. 3 * x
  BY <1>2, <1>3 DEF A, Z
<1>5. s \in gf /\ d \in gf
  <2>1. s = [i \in 0 .. Top |-> s[i]] /\ d = [i \in 0 .. Top |-> d[i]]
    BY <1>3 DEF A, Z
  <2>2. \A i \in 0 .. Top : s[i] \in Int /\ d[i] \in Int
    BY <1>4
  <2> QED  BY <2>1, <2>2 DEF gf
<1> QED  BY <1>1, <1>3, <1>4, <1>5 DEF Wide, Limbed

\* The widest operands of all: those of add, of which one is a product twice.
LEMMA TwiceIsWide ==
  ASSUME Sized, NEW a, NEW c, Narrow(a), Narrow(c), NEW t, t = A(a, a)
  PROVE  Wide(A(t, c)) /\ Wide(Z(t, c))
<1>1. PICK x \in Nat : x = Base + 37
  BY DEF Sized
<1>2. \A i \in 0 .. Top : a[i] \in -x .. x /\ c[i] \in -x .. x /\ t[i] = a[i] + a[i]
  BY <1>1 DEF Narrow, Limbed, A
<1>3. PICK s, d : s = A(t, c) /\ d = Z(t, c)
  OBVIOUS
<1>4. \A i \in 0 .. Top : /\ s[i] = t[i] + c[i] /\ d[i] = t[i] - c[i]
                          /\ s[i] \in -(3 * x) .. 3 * x /\ d[i] \in -(3 * x) .. 3 * x
  BY <1>2, <1>3 DEF A, Z
<1>5. s \in gf /\ d \in gf
  <2>1. s = [i \in 0 .. Top |-> s[i]] /\ d = [i \in 0 .. Top |-> d[i]]
    BY <1>3 DEF A, Z
  <2>2. \A i \in 0 .. Top : s[i] \in Int /\ d[i] \in Int
    BY <1>4
  <2> QED  BY <2>1, <2>2 DEF gf
<1> QED  BY <1>1, <1>3, <1>4, <1>5 DEF Wide, Limbed

LEMMA WideProduct ==
  ASSUME Sized, NEW g, NEW k, Exactly(g, k), NEW a, NEW b, Wide(a), Wide(b)
  PROVE  IsReduced(M(a, b)) /\ Narrow(M(a, b)) /\ Wide(M(a, b))
<1>1. IsReduced(M(a, b))
  BY MReduced DEF Exactly, Wide
<1> QED  BY <1>1, ReducedIsNarrow, NarrowIsWide

LEMMA Pairs ==
  ASSUME NEW E, NEW a \in E, NEW b \in E, NEW c \in E, NEW d \in E, NEW u, NEW v, NEW w,
         u = <<a, b>>, v = <<c, d>>, w = u \o v
  PROVE  w \in Seq(E) /\ w[1] = a /\ w[2] = b /\ w[3] = c /\ w[4] = d
<1>1. u \in Seq(E) /\ v \in Seq(E) /\ Len(u) = 2 /\ Len(v) = 2
  OBVIOUS
<1>2. \A i \in 1 .. Len(u) + Len(v) : w[i] = IF i <= Len(u) THEN u[i] ELSE v[i - Len(u)]
  BY <1>1, ConcatProperties
<1>3. w[1] = u[1] /\ w[2] = u[2] /\ w[3] = v[1] /\ w[4] = v[2]
  BY <1>1, <1>2
<1>4. w \in Seq(E)
  BY <1>1, ConcatProperties
<1> QED  BY <1>3, <1>4

\* The ladder's a, b, c, d, or a point.
Narrow4(s) == Narrow(s[1]) /\ Narrow(s[2]) /\ Narrow(s[3]) /\ Narrow(s[4])
Points     == {s \in Seq(gf) : Narrow4(s)}

LEMMA ExchangedIs ==
  ASSUME NEW s, NEW r, Narrow4(s)
  PROVE  Exchanged(s, r) \in Points
<1>1. PICK a, b, c, d : a = s[1] /\ b = s[2] /\ c = s[3] /\ d = s[4]
  OBVIOUS
<1>2. Narrow(a) /\ Narrow(b) /\ Narrow(c) /\ Narrow(d)
  BY <1>1 DEF Narrow4
<1>3. a \in gf /\ b \in gf /\ c \in gf /\ d \in gf
  BY <1>2 DEF Narrow, Limbed
<1>4. PICK w : w = Exchanged(s, r)
  OBVIOUS
<1>5. w = sel25519(a, b, r) \o sel25519(c, d, r)
  BY <1>1, <1>4 DEF Exchanged
<1>6. CASE r = 1
  <2>1. w = <<b, a>> \o <<d, c>>
    BY <1>5, <1>6 DEF sel25519
  <2>2. w \in Seq(gf) /\ w[1] = b /\ w[2] = a /\ w[3] = d /\ w[4] = c
    BY <1>3, <2>1, Pairs
  <2> QED  BY <1>2, <1>4, <2>2 DEF Narrow4, Points
<1>7. CASE r # 1
  <2>1. w = <<a, b>> \o <<c, d>>
    BY <1>5, <1>7 DEF sel25519
  <2>2. w \in Seq(gf) /\ w[1] = a /\ w[2] = b /\ w[3] = c /\ w[4] = d
    BY <1>3, <2>1, Pairs
  <2> QED  BY <1>2, <1>4, <2>2 DEF Narrow4, Points
<1> QED  BY <1>6, <1>7

\* The operands of a turn's products are never wider than a sum of two reduced numbers.
LEMMA TurnStays ==
  ASSUME Sized, NEW g, NEW k, Exactly(g, k), NEW a, NEW b, NEW c, NEW d, NEW x,
         Narrow(a), Narrow(b), Narrow(c), Narrow(d), Narrow(x)
  PROVE  Narrow4(Turn(a, b, c, d, x))
<1>1. PICK e, ac : e = A(a, c) /\ ac = Z(a, c) /\ Wide(e) /\ Wide(ac)
  BY SumsAreWide
<1>2. PICK dd, ff : dd = S(e) /\ ff = S(ac) /\ Narrow(dd) /\ Narrow(ff) /\ Wide(dd) /\ Wide(ff)
  <2>1. Narrow(M(e, e)) /\ Wide(M(e, e)) /\ Narrow(M(ac, ac)) /\ Wide(M(ac, ac))
    BY <1>1, WideProduct
  <2> QED  BY <2>1 DEF S
<1>3. PICK aa, cc : aa = M(A(b, d), ac) /\ cc = M(Z(b, d), e) /\ Narrow(aa) /\ Narrow(cc)
  <2>1. Wide(A(b, d)) /\ Wide(Z(b, d))
    BY SumsAreWide
  <2>2. Narrow(M(A(b, d), ac)) /\ Narrow(M(Z(b, d), e))
    BY <1>1, <2>1, WideProduct
  <2> QED  BY <2>2
<1>4. PICK df : df = Z(dd, ff) /\ Wide(df)
  BY <1>2, SumsAreWide
<1>5. PICK t1 : t1 = M(dd, ff) /\ Narrow(t1)
  BY <1>2, WideProduct
<1>6. PICK t2 : t2 = S(A(aa, cc)) /\ Narrow(t2)
  <2>1. Wide(A(aa, cc))
    BY <1>3, SumsAreWide
  <2> QED  BY <2>1, WideProduct DEF S
<1>7. PICK t3 : t3 = M(df, A(M(df, C121665), dd)) /\ Narrow(t3)
  <2>1. Wide(C121665)
    <3>1. 121665 % P \in Int
      <4>1. P \in Nat /\ P > 0
        BY TopWeight
      <4>2. PICK p \in Nat : p = P /\ p > 0
        BY <4>1
      <4>3. 121665 % p \in Int
        BY <4>2
      <4> QED  BY <4>2, <4>3
    <3>2. IsDigits(C121665)
      BY <3>1, DigitsTyped DEF C121665
    <3> QED  BY <3>2, DigitsAreNarrow, NarrowIsWide
  <2>2. Narrow(M(df, C121665))
    BY <1>4, <2>1, WideProduct
  <2>3. Wide(A(M(df, C121665), dd))
    BY <1>2, <2>2, SumsAreWide
  <2>4. Narrow(M(df, A(M(df, C121665), dd)))
    BY <1>4, <2>3, WideProduct
  <2> QED  BY <2>4
<1>8. PICK t4 : t4 = M(S(Z(aa, cc)), x) /\ Narrow(t4)
  <2>1. Wide(Z(aa, cc)) /\ Wide(x)
    BY <1>3, SumsAreWide, NarrowIsWide
  <2>2. Wide(S(Z(aa, cc)))
    BY <2>1, WideProduct DEF S
  <2> QED  BY <2>1, <2>2, WideProduct
<1>9. Turn(a, b, c, d, x) = <<t1, t2, t3, t4>>
  BY <1>1, <1>2, <1>3, <1>4, <1>5, <1>6, <1>7, <1>8, Zenon DEF Turn
<1>10. PICK t : t = <<t1, t2, t3, t4>>
  OBVIOUS
<1>11. t[1] = t1 /\ t[2] = t2 /\ t[3] = t3 /\ t[4] = t4
  BY <1>10
<1>12. Narrow4(t)
  BY <1>5, <1>6, <1>7, <1>8, <1>11 DEF Narrow4
<1> QED  BY <1>9, <1>10, <1>12

LEMMA LadderStepStays ==
  ASSUME Sized, NEW g, NEW k, Exactly(g, k), NEW s, NEW x, NEW r, Narrow4(s), Narrow(x)
  PROVE  LadderStep(s, x, r) \in Points
<1>1. PICK t : t = Exchanged(s, r) /\ Narrow4(t) /\ t \in Seq(gf)
  BY ExchangedIs DEF Points
<1>2. PICK u : u = Turn(t[1], t[2], t[3], t[4], x) /\ Narrow4(u)
  BY <1>1, TurnStays DEF Narrow4
<1>3. Exchanged(u, r) \in Points
  BY <1>2, ExchangedIs
<1>4. LadderStep(s, x, r) = Exchanged(u, r)
  BY <1>1, <1>2, Zenon DEF LadderStep
<1> QED  BY <1>3, <1>4

LadderTurns(f, x, z) ==
  f = [k \in 0 .. PBits |->
         IF k = 0 THEN <<gf1, x, gf0, gf1>> ELSE LadderStep(f[k - 1], x, Bit(z, PBits - k))]

\* ... for as many turns as there are bits.
LEMMA LadderStays ==
  ASSUME Sized, NEW g, NEW k, Exactly(g, k), PBits \in Nat, NEW x, Narrow(x), NEW z
  PROVE  \A i \in 0 .. PBits : Ladder(x, z)[i] \in Points
<1>1. PICK n \in Nat : n = PBits
  OBVIOUS
<1>2. PICK step : step = [p \in Points \X (1 .. n) |-> LadderStep(p[1], x, Bit(z, n - p[2]))]
  OBVIOUS
<1>3. ASSUME NEW s \in Points, NEW i \in 1 .. n
      PROVE  /\ LadderStep(s, x, Bit(z, n - i)) \in Points
             /\ step[<<s, i>>] = LadderStep(s, x, Bit(z, n - i))
  <2>1. Narrow4(s)
    BY DEF Points
  <2>2. LadderStep(s, x, Bit(z, n - i)) \in Points
    BY <2>1, LadderStepStays
  <2>3. step[<<s, i>>] = LadderStep(s, x, Bit(z, n - i))
    BY <1>2
  <2> QED  BY <2>2, <2>3
<1>4. step \in [Points \X (1 .. n) -> Points]
  <2>1. ASSUME NEW p \in Points \X (1 .. n) PROVE LadderStep(p[1], x, Bit(z, n - p[2])) \in Points
    <3>1. p[1] \in Points /\ p[2] \in 1 .. n
      BY <2>1
    <3> QED  BY <1>3, <3>1
  <2> QED  BY <1>2, <2>1
<1>5. PICK o : o = <<gf1, x, gf0, gf1>> /\ o \in Points
  <2>1. 0 \in Int /\ 1 \in Int
    OBVIOUS
  <2>2. Narrow(gf0) /\ Narrow(gf1)
    BY <2>1, DigitsTyped, DigitsAreNarrow DEF gf0, gf1
  <2>3. gf0 \in gf /\ gf1 \in gf /\ x \in gf
    BY <2>2 DEF Narrow, Limbed
  <2>4. PICK o : o = <<gf1, x, gf0, gf1>>
    OBVIOUS
  <2>5. o \in Seq(gf) /\ o[1] = gf1 /\ o[2] = x /\ o[3] = gf0 /\ o[4] = gf1
    BY <2>3, <2>4
  <2> QED  BY <2>2, <2>4, <2>5 DEF Points, Narrow4
<1>6. PICK f : Folded(f, n, Points, o, step)
  BY <1>4, <1>5, FoldExists
<1>7. /\ f \in [0 .. n -> Points]
      /\ f = [i \in 0 .. n |-> IF i = 0 THEN o ELSE step[<<f[i - 1], i>>]]
  BY <1>6, Zenon DEF Folded
<1>8. \A i \in 0 .. n : i # 0 => step[<<f[i - 1], i>>] = LadderStep(f[i - 1], x, Bit(z, n - i))
  <2>1. ASSUME NEW i \in 0 .. n, i # 0 PROVE step[<<f[i - 1], i>>] = LadderStep(f[i - 1], x, Bit(z, n - i))
    <3>1. i \in 1 .. n /\ i - 1 \in 0 .. n
      BY <2>1
    <3>2. f[i - 1] \in Points
      BY <1>7, <3>1
    <3> QED  BY <1>3, <3>1, <3>2
  <2> QED  BY <2>1
<1>9. [i \in 0 .. n |-> IF i = 0 THEN o ELSE step[<<f[i - 1], i>>]]
        = [i \in 0 .. n |-> IF i = 0 THEN o ELSE LadderStep(f[i - 1], x, Bit(z, n - i))]
  BY <1>8
<1>10. \E h : LadderTurns(h, x, z)
  <2>1. f = [i \in 0 .. n |-> IF i = 0 THEN o ELSE LadderStep(f[i - 1], x, Bit(z, n - i))]
    BY <1>7, <1>9, Zenon
  <2> QED  BY <1>1, <1>5, <2>1, Zenon DEF LadderTurns
<1>11. PICK h : h = CHOOSE e : LadderTurns(e, x, z)
  OBVIOUS
<1>12. LadderTurns(h, x, z)
  BY <1>10, <1>11, Zenon
<1>13. Ladder(x, z) = h
  BY <1>11, Zenon DEF Ladder, LadderTurns
<1>14. \A i \in 0 .. n : h[i] = IF i = 0 THEN o ELSE LadderStep(h[i - 1], x, Bit(z, n - i))
  <2>1. h = [i \in 0 .. n |-> IF i = 0 THEN o ELSE LadderStep(h[i - 1], x, Bit(z, n - i))]
    BY <1>1, <1>5, <1>12, Zenon DEF LadderTurns
  <2> QED  BY <2>1, Zenon
<1> DEFINE T == {i \in 0 .. n : h[i] \in Points}
<1>15. 0 \in T
  <2>1. 0 \in 0 .. n
    OBVIOUS
  <2> QED  BY <1>5, <1>14, <2>1
<1>16. ASSUME NEW i \in 1 .. n, i - 1 \in T PROVE i \in T
  <2>1. h[i] = LadderStep(h[i - 1], x, Bit(z, n - i)) /\ i \in 0 .. n
    BY <1>14
  <2>2. h[i - 1] \in Points
    BY <1>16
  <2>3. h[i] \in Points
    BY <1>3, <2>1, <2>2
  <2> QED  BY <2>1, <2>3
<1>17. \A i \in 0 .. n : i \in T
  <2> HIDE DEF T
  <2> QED  BY <1>15, <1>16, Upto
<1> QED  BY <1>1, <1>13, <1>17

\* So does the addition of two points.
LEMMA AddStays ==
  ASSUME Sized, NEW g, NEW k, Exactly(g, k), EdwardsD \in Int, NEW p, NEW q, Narrow4(p), Narrow4(q)
  PROVE  add(p, q) \in Points
<1>1. PICK x1, y1, z1, t1 : x1 = p[1] /\ y1 = p[2] /\ z1 = p[3] /\ t1 = p[4]
  OBVIOUS
<1>2. PICK x2, y2, z2, t2 : x2 = q[1] /\ y2 = q[2] /\ z2 = q[3] /\ t2 = q[4]
  OBVIOUS
<1>3. Narrow(x1) /\ Narrow(y1) /\ Narrow(z1) /\ Narrow(t1) /\ Narrow(x2) /\ Narrow(y2) /\ Narrow(z2) /\ Narrow(t2)
  BY <1>1, <1>2 DEF Narrow4
<1>4. PICK a : a = M(Z(y1, x1), Z(y2, x2)) /\ Narrow(a)
  <2>1. Wide(Z(y1, x1)) /\ Wide(Z(y2, x2))
    BY <1>3, SumsAreWide
  <2>2. Narrow(M(Z(y1, x1), Z(y2, x2)))
    BY <2>1, WideProduct
  <2> QED  BY <2>2
<1>5. PICK b : b = M(A(x1, y1), A(x2, y2)) /\ Narrow(b)
  <2>1. Wide(A(x1, y1)) /\ Wide(A(x2, y2))
    BY <1>3, SumsAreWide
  <2>2. Narrow(M(A(x1, y1), A(x2, y2)))
    BY <2>1, WideProduct
  <2> QED  BY <2>2
<1>6. PICK c : c = M(M(t1, t2), D2) /\ Narrow(c)
  <2>1. Wide(D2)
    <3>1. PICK n \in Nat : n = P /\ n > 0
      <4>1. P \in Nat /\ P > 0
        BY TopWeight
      <4> QED  BY <4>1
    <3>2. PICK m \in Int : m = 2 * EdwardsD
      OBVIOUS
    <3>3. m % n \in Int
      BY <3>1, Divides
    <3>4. IsDigits(D2)
      BY <3>1, <3>2, <3>3, DigitsTyped DEF D2
    <3> QED  BY <3>4, DigitsAreNarrow, NarrowIsWide
  <2>2. Wide(t1) /\ Wide(t2)
    BY <1>3, NarrowIsWide
  <2>3. Wide(M(t1, t2))
    BY <2>2, WideProduct
  <2>4. Narrow(M(M(t1, t2), D2))
    BY <2>1, <2>3, WideProduct
  <2> QED  BY <2>4
<1>7. PICK zz : zz = M(z1, z2) /\ Narrow(zz)
  <2>1. Wide(z1) /\ Wide(z2)
    BY <1>3, NarrowIsWide
  <2>2. Narrow(M(z1, z2))
    BY <2>1, WideProduct
  <2> QED  BY <2>2
<1>8. PICK d : d = A(zz, zz) /\ Wide(Z(d, c)) /\ Wide(A(d, c))
  BY <1>6, <1>7, TwiceIsWide
<1>9. PICK e, f, u, h : /\ e = Z(b, a) /\ f = Z(d, c) /\ u = A(d, c) /\ h = A(b, a)
                        /\ Wide(e) /\ Wide(f) /\ Wide(u) /\ Wide(h)
  <2>1. Wide(Z(b, a)) /\ Wide(A(b, a))
    BY <1>4, <1>5, SumsAreWide
  <2> QED  BY <1>8, <2>1
<1>10. PICK m1, m2, m3, m4 : m1 = M(e, f) /\ m2 = M(h, u) /\ m3 = M(u, f) /\ m4 = M(e, h)
  OBVIOUS
<1>11. Narrow(m1) /\ Narrow(m2) /\ Narrow(m3) /\ Narrow(m4)
  BY <1>9, <1>10, WideProduct
<1>12. add(p, q) = <<m1, m2, m3, m4>>
  BY <1>1, <1>2, <1>4, <1>5, <1>6, <1>7, <1>8, <1>9, <1>10, Zenon DEF add
<1>13. PICK t : t = <<m1, m2, m3, m4>>
  OBVIOUS
<1>14. t \in Seq(gf) /\ t[1] = m1 /\ t[2] = m2 /\ t[3] = m3 /\ t[4] = m4
  <2>1. m1 \in gf /\ m2 \in gf /\ m3 \in gf /\ m4 \in gf
    BY <1>11 DEF Narrow, Limbed
  <2> QED  BY <1>13, <2>1
<1>15. t \in Points
  BY <1>11, <1>14 DEF Points, Narrow4
<1> QED  BY <1>12, <1>13, <1>15

\* Two points, and what cswap makes of them.
Twin == {t \in [1 .. 2 -> [1 .. 4 -> gf]] : Narrow4(t[1]) /\ Narrow4(t[2])}

LEMMA SwappedIs ==
  ASSUME NEW p, NEW q, NEW b, Narrow4(p), Narrow4(q)
  PROVE  cswap(p, q, b) \in Twin
<1>1. ASSUME NEW i \in 1 .. 4 PROVE Narrow(p[i]) /\ Narrow(q[i])
  <2>1. i = 1 \/ i = 2 \/ i = 3 \/ i = 4
    OBVIOUS
  <2> QED  BY <2>1 DEF Narrow4
<1>2. ASSUME NEW i \in 1 .. 4, NEW j \in 1 .. 2 PROVE Narrow(sel25519(p[i], q[i], b)[j])
  <2>1. j = 1 \/ j = 2
    OBVIOUS
  <2>2. sel25519(p[i], q[i], b) = <<q[i], p[i]>> \/ sel25519(p[i], q[i], b) = <<p[i], q[i]>>
    BY DEF sel25519
  <2>3. PICK u, v : u = p[i] /\ v = q[i] /\ Narrow(u) /\ Narrow(v)
    BY <1>1
  <2>4. sel25519(p[i], q[i], b)[j] = u \/ sel25519(p[i], q[i], b)[j] = v
    BY <2>1, <2>2, <2>3
  <2> QED  BY <2>3, <2>4
<1>3. PICK t : t = cswap(p, q, b)
  OBVIOUS
<1>4. t = [j \in 1 .. 2 |-> [i \in 1 .. 4 |-> sel25519(p[i], q[i], b)[j]]]
  BY <1>3 DEF cswap
<1>5. \A j \in 1 .. 2, i \in 1 .. 4 : Narrow(t[j][i])
  BY <1>2, <1>4
<1>6. \A j \in 1 .. 2, i \in 1 .. 4 : t[j][i] \in gf
  BY <1>5 DEF Narrow, Limbed
<1>7. t \in [1 .. 2 -> [1 .. 4 -> gf]]
  <2>1. \A j \in 1 .. 2 : [i \in 1 .. 4 |-> sel25519(p[i], q[i], b)[j]] \in [1 .. 4 -> gf]
    BY <1>2 DEF Narrow, Limbed
  <2> QED  BY <1>4, <2>1
<1>8. Narrow4(t[1]) /\ Narrow4(t[2])
  BY <1>5 DEF Narrow4
<1> QED  BY <1>3, <1>7, <1>8 DEF Twin

\* A turn of scalarmult.
Both(pq, b) ==
  [t \in [1 .. 2 -> [1 .. 4 -> gf]] |->
     cswap(add(t[1], t[1]), add(t[2], t[1]), b)][cswap(pq[1], pq[2], b)]

LEMMA BothStay ==
  ASSUME Sized, NEW g, NEW k, Exactly(g, k), EdwardsD \in Int, NEW t \in Twin, NEW b
  PROVE  Both(t, b) \in Twin
<1>1. PICK u : u = cswap(t[1], t[2], b) /\ u \in Twin /\ u \in [1 .. 2 -> [1 .. 4 -> gf]]
  BY SwappedIs DEF Twin
<1>2. PICK v, w : v = add(u[1], u[1]) /\ w = add(u[2], u[1]) /\ Narrow4(v) /\ Narrow4(w)
  <2>1. Narrow4(u[1]) /\ Narrow4(u[2])
    BY <1>1 DEF Twin
  <2>2. add(u[1], u[1]) \in Points /\ add(u[2], u[1]) \in Points
    BY <2>1, AddStays
  <2> QED  BY <2>2 DEF Points
<1>3. Both(t, b) = cswap(v, w, b)
  BY <1>1, <1>2, Zenon DEF Both
<1> QED  BY <1>2, <1>3, SwappedIs

TwinTurns(f, q, s) ==
  f = [i \in 0 .. PBits + 1 |->
         IF i = 0 THEN <<<<gf0, gf1, gf1, gf0>>, q>> ELSE Both(f[i - 1], Bit(s, PBits + 1 - i))]

LEMMA TwinsStay ==
  ASSUME Sized, NEW g, NEW k, Exactly(g, k), EdwardsD \in Int, PBits \in Nat,
         NEW q \in [1 .. 4 -> gf], Narrow4(q), NEW s
  PROVE  \A i \in 0 .. PBits + 1 : Twins(q, s)[i] \in Twin
<1>1. PICK n \in Nat : n = PBits + 1
  <2>1. PBits + 1 \in Nat
    OBVIOUS
  <2> QED  BY <2>1
<1>2. PICK step : step = [p \in Twin \X (1 .. n) |-> Both(p[1], Bit(s, n - p[2]))]
  OBVIOUS
<1>3. ASSUME NEW t \in Twin, NEW i \in 1 .. n
      PROVE  /\ Both(t, Bit(s, n - i)) \in Twin
             /\ step[<<t, i>>] = Both(t, Bit(s, n - i))
  <2>1. Both(t, Bit(s, n - i)) \in Twin
    BY BothStay
  <2>2. step[<<t, i>>] = Both(t, Bit(s, n - i))
    BY <1>2
  <2> QED  BY <2>1, <2>2
<1>4. step \in [Twin \X (1 .. n) -> Twin]
  <2>1. ASSUME NEW p \in Twin \X (1 .. n) PROVE Both(p[1], Bit(s, n - p[2])) \in Twin
    <3>1. p[1] \in Twin /\ p[2] \in 1 .. n
      BY <2>1
    <3> QED  BY <1>3, <3>1
  <2> QED  BY <1>2, <2>1
<1>5. PICK o : o = <<<<gf0, gf1, gf1, gf0>>, q>> /\ o \in Twin
  <2>1. 0 \in Int /\ 1 \in Int
    OBVIOUS
  <2>2. Narrow(gf0) /\ Narrow(gf1)
    BY <2>1, DigitsTyped, DigitsAreNarrow DEF gf0, gf1
  <2>3. gf0 \in gf /\ gf1 \in gf
    BY <2>2 DEF Narrow, Limbed
  <2>4. PICK z : z = <<gf0, gf1, gf1, gf0>>
    OBVIOUS
  <2>5. z \in [1 .. 4 -> gf] /\ z[1] = gf0 /\ z[2] = gf1 /\ z[3] = gf1 /\ z[4] = gf0
    BY <2>3, <2>4
  <2>6. PICK o : o = <<z, q>>
    OBVIOUS
  <2>7. o \in [1 .. 2 -> [1 .. 4 -> gf]] /\ o[1] = z /\ o[2] = q
    BY <2>5, <2>6
  <2>8. Narrow4(z)
    BY <2>2, <2>5 DEF Narrow4
  <2> QED  BY <2>4, <2>6, <2>7, <2>8 DEF Twin
<1>6. PICK f : Folded(f, n, Twin, o, step)
  BY <1>4, <1>5, FoldExists
<1>7. /\ f \in [0 .. n -> Twin]
      /\ f = [i \in 0 .. n |-> IF i = 0 THEN o ELSE step[<<f[i - 1], i>>]]
  BY <1>6, Zenon DEF Folded
<1>8. \A i \in 0 .. n : i # 0 => step[<<f[i - 1], i>>] = Both(f[i - 1], Bit(s, n - i))
  <2>1. ASSUME NEW i \in 0 .. n, i # 0 PROVE step[<<f[i - 1], i>>] = Both(f[i - 1], Bit(s, n - i))
    <3>1. i \in 1 .. n /\ i - 1 \in 0 .. n
      BY <2>1
    <3>2. f[i - 1] \in Twin
      BY <1>7, <3>1
    <3> QED  BY <1>3, <3>1, <3>2
  <2> QED  BY <2>1
<1>9. [i \in 0 .. n |-> IF i = 0 THEN o ELSE step[<<f[i - 1], i>>]]
        = [i \in 0 .. n |-> IF i = 0 THEN o ELSE Both(f[i - 1], Bit(s, n - i))]
  BY <1>8
<1>10. \E h : TwinTurns(h, q, s)
  <2>1. f = [i \in 0 .. n |-> IF i = 0 THEN o ELSE Both(f[i - 1], Bit(s, n - i))]
    BY <1>7, <1>9, Zenon
  <2>2. [i \in 0 .. n |-> IF i = 0 THEN o ELSE Both(f[i - 1], Bit(s, n - i))]
          = [i \in 0 .. PBits + 1 |-> IF i = 0 THEN o ELSE Both(f[i - 1], Bit(s, PBits + 1 - i))]
    BY <1>1
  <2>3. f = [i \in 0 .. PBits + 1 |-> IF i = 0 THEN o ELSE Both(f[i - 1], Bit(s, PBits + 1 - i))]
    BY <2>1, <2>2, Zenon
  <2> QED  BY <1>5, <2>3, Zenon DEF TwinTurns
<1>11. PICK h : h = CHOOSE e : TwinTurns(e, q, s)
  OBVIOUS
<1>12. TwinTurns(h, q, s)
  BY <1>10, <1>11, Zenon
<1>13. Twins(q, s) = h
  BY <1>11, Zenon DEF Twins, TwinTurns, Both
<1>14. \A i \in 0 .. n : h[i] = IF i = 0 THEN o ELSE Both(h[i - 1], Bit(s, n - i))
  <2>1. h = [i \in 0 .. n |-> IF i = 0 THEN o ELSE Both(h[i - 1], Bit(s, n - i))]
    <3>1. h = [i \in 0 .. PBits + 1 |-> IF i = 0 THEN o ELSE Both(h[i - 1], Bit(s, PBits + 1 - i))]
      BY <1>5, <1>12, Zenon DEF TwinTurns
    <3>2. [i \in 0 .. n |-> IF i = 0 THEN o ELSE Both(h[i - 1], Bit(s, n - i))]
            = [i \in 0 .. PBits + 1 |-> IF i = 0 THEN o ELSE Both(h[i - 1], Bit(s, PBits + 1 - i))]
      BY <1>1
    <3> QED  BY <3>1, <3>2, Zenon
  <2> QED  BY <2>1, Zenon
<1> DEFINE T == {i \in 0 .. n : h[i] \in Twin}
<1>15. 0 \in T
  <2>1. 0 \in 0 .. n
    OBVIOUS
  <2> QED  BY <1>5, <1>14, <2>1
<1>16. ASSUME NEW i \in 1 .. n, i - 1 \in T PROVE i \in T
  <2>1. h[i] = Both(h[i - 1], Bit(s, n - i)) /\ i \in 0 .. n
    BY <1>14
  <2>2. h[i - 1] \in Twin
    BY <1>16
  <2>3. h[i] \in Twin
    BY <1>3, <2>1, <2>2
  <2> QED  BY <2>1, <2>3
<1>17. \A i \in 0 .. n : i \in T
  <2> HIDE DEF T
  <2> QED  BY <1>15, <1>16, Upto
<1> QED  BY <1>1, <1>13, <1>17

\* The turns of inv25519 and pow2523.
Narrows == {a \in gf : Narrow(a)}
Raised(x, a, skip) ==
  [y \in gf |-> IF skip THEN y ELSE M(y, a)][S(x)]

LEMMA RaisedStays ==
  ASSUME Sized, NEW g, NEW k, Exactly(g, k), NEW a, Narrow(a), NEW x, Narrow(x), NEW skip
  PROVE  Raised(x, a, skip) \in Narrows
<1>1. PICK c : c = S(x) /\ Narrow(c) /\ Wide(c)
  <2>1. Wide(x)
    BY NarrowIsWide
  <2> QED  BY <2>1, WideProduct DEF S
<1>2. Narrow(M(c, a))
  <2>1. Wide(a)
    BY NarrowIsWide
  <2> QED  BY <1>1, <2>1, WideProduct
<1>3. c \in Narrows /\ M(c, a) \in Narrows
  BY <1>1, <1>2 DEF Narrows, Narrow, Limbed
<1>4. Raised(x, a, skip) = IF skip THEN c ELSE M(c, a)
  <2>1. c \in gf
    BY <1>1 DEF Narrow, Limbed
  <2> QED  BY <1>1, <2>1, Zenon DEF Raised
<1> QED  BY <1>3, <1>4, Zenon

PowerTurns(f, a, len, skipped) ==
  f = [k \in 0 .. len - 1 |-> IF k = 0 THEN a ELSE Raised(f[k - 1], a, len - 1 - k \in skipped)]

LEMMA PowerStays ==
  ASSUME Sized, NEW g, NEW k, Exactly(g, k), NEW a, Narrow(a), NEW len \in Nat \ {0}, NEW skipped
  PROVE  Power(a, len, skipped) \in Narrows
<1>1. PICK n \in Nat : n = len - 1
  <2>1. len - 1 \in Nat
    OBVIOUS
  <2> QED  BY <2>1
<1>2. PICK step : step = [p \in Narrows \X (1 .. n) |-> Raised(p[1], a, n - p[2] \in skipped)]
  OBVIOUS
<1>3. ASSUME NEW x \in Narrows, NEW i \in 1 .. n
      PROVE  /\ Raised(x, a, n - i \in skipped) \in Narrows
             /\ step[<<x, i>>] = Raised(x, a, n - i \in skipped)
  <2>1. Raised(x, a, n - i \in skipped) \in Narrows
    BY RaisedStays DEF Narrows
  <2>2. step[<<x, i>>] = Raised(x, a, n - i \in skipped)
    BY <1>2
  <2> QED  BY <2>1, <2>2
<1>4. step \in [Narrows \X (1 .. n) -> Narrows]
  <2>1. ASSUME NEW p \in Narrows \X (1 .. n) PROVE Raised(p[1], a, n - p[2] \in skipped) \in Narrows
    <3>1. p[1] \in Narrows /\ p[2] \in 1 .. n
      BY <2>1
    <3> QED  BY <1>3, <3>1
  <2> QED  BY <1>2, <2>1
<1>5. a \in Narrows
  BY DEF Narrows, Narrow, Limbed
<1>6. PICK f : Folded(f, n, Narrows, a, step)
  BY <1>4, <1>5, FoldExists
<1>7. /\ f \in [0 .. n -> Narrows]
      /\ f = [i \in 0 .. n |-> IF i = 0 THEN a ELSE step[<<f[i - 1], i>>]]
  BY <1>6, Zenon DEF Folded
<1>8. \A i \in 0 .. n : i # 0 => step[<<f[i - 1], i>>] = Raised(f[i - 1], a, n - i \in skipped)
  <2>1. ASSUME NEW i \in 0 .. n, i # 0 PROVE step[<<f[i - 1], i>>] = Raised(f[i - 1], a, n - i \in skipped)
    <3>1. i \in 1 .. n /\ i - 1 \in 0 .. n
      BY <2>1
    <3>2. f[i - 1] \in Narrows
      BY <1>7, <3>1
    <3> QED  BY <1>3, <3>1, <3>2
  <2> QED  BY <2>1
<1>9. [i \in 0 .. n |-> IF i = 0 THEN a ELSE step[<<f[i - 1], i>>]]
        = [i \in 0 .. len - 1 |-> IF i = 0 THEN a ELSE Raised(f[i - 1], a, len - 1 - i \in skipped)]
  <2>1. \A i \in 0 .. n : i # 0 => step[<<f[i - 1], i>>] = Raised(f[i - 1], a, len - 1 - i \in skipped)
    BY <1>1, <1>8
  <2> QED  BY <1>1, <2>1
<1>10. \E h : PowerTurns(h, a, len, skipped)
  <2>1. f = [i \in 0 .. len - 1 |-> IF i = 0 THEN a ELSE Raised(f[i - 1], a, len - 1 - i \in skipped)]
    BY <1>7, <1>9, Zenon
  <2> QED  BY <2>1, Zenon DEF PowerTurns
<1>11. PICK h : h = CHOOSE e : PowerTurns(e, a, len, skipped)
  OBVIOUS
<1>12. PowerTurns(h, a, len, skipped)
  BY <1>10, <1>11, Zenon
<1>13. Power(a, len, skipped) = h[n]
  <2>1. Power(a, len, skipped) = h[len - 1]
    BY <1>11, Zenon DEF Power, PowerTurns, Raised
  <2> QED  BY <1>1, <2>1
<1>14. \A i \in 0 .. n : h[i] = IF i = 0 THEN a ELSE Raised(h[i - 1], a, n - i \in skipped)
  <2>1. h = [i \in 0 .. len - 1 |-> IF i = 0 THEN a ELSE Raised(h[i - 1], a, len - 1 - i \in skipped)]
    BY <1>12, Zenon DEF PowerTurns
  <2>2. \A i \in 0 .. len - 1 : h[i] = IF i = 0 THEN a ELSE Raised(h[i - 1], a, len - 1 - i \in skipped)
    BY <2>1, Zenon
  <2> QED  BY <1>1, <2>2
<1> DEFINE T == {i \in 0 .. n : h[i] \in Narrows}
<1>15. 0 \in T
  <2>1. 0 \in 0 .. n
    OBVIOUS
  <2> QED  BY <1>5, <1>14, <2>1
<1>16. ASSUME NEW i \in 1 .. n, i - 1 \in T PROVE i \in T
  <2>1. h[i] = Raised(h[i - 1], a, n - i \in skipped) /\ i \in 0 .. n
    BY <1>14
  <2>2. h[i - 1] \in Narrows
    BY <1>16
  <2>3. h[i] \in Narrows
    BY <1>3, <2>1, <2>2
  <2> QED  BY <2>1, <2>3
<1>17. \A i \in 0 .. n : i \in T
  <2> HIDE DEF T
  <2> QED  BY <1>15, <1>16, Upto
<1>18. n \in 0 .. n
  OBVIOUS
<1> QED  BY <1>13, <1>17, <1>18

\* What is unpacked are digits.
LEMMA UnpackNarrow ==
  ASSUME Sized, NEW p, IsDigits(p)
  PROVE  Narrow(unpack25519(p))
<1>1. PICK b \in Nat, h \in Nat : b = Base /\ h = Base \div 2 /\ h > 0 /\ h <= b
  <2>1. Base \in Nat /\ Base \div 2 \in Nat /\ Base \div 2 > 0 /\ Base \div 2 <= Base
    BY DEF Sized
  <2> QED  BY <2>1, Zenon
<1>2. PICK u : u = unpack25519(p)
  OBVIOUS
<1>3. ASSUME NEW i \in 0 .. Top PROVE p[i] \in 0 .. b - 1 /\ p[i] % h \in 0 .. b - 1
  <2>1. PICK x \in Int : x = p[i] /\ x \in 0 .. b - 1
    BY <1>1 DEF IsDigits
  <2>2. x % h \in 0 .. h - 1
    BY <1>1, Divides
  <2> QED  BY <1>1, <2>1, <2>2
<1>4. u = [i \in 0 .. Top |-> IF i = Top THEN p[i] % h ELSE p[i]]
  BY <1>1, <1>2, Zenon DEF unpack25519
<1>5. \A i \in 0 .. Top : u[i] \in 0 .. b - 1
  BY <1>3, <1>4
<1>6. u \in [0 .. Top -> Int]
  BY <1>4, <1>5
<1>7. IsDigits(u)
  BY <1>1, <1>5, <1>6 DEF IsDigits, gf
<1> QED  BY <1>2, <1>7, DigitsAreNarrow

\* pack25519 gives the number below P for limbs three times past what a product
\* leaves, of any number and width (tweetnacl.c 295-318).
THEOREM PackWide ==
  ASSUME Sized, NEW a, Wide(a)
  PROVE  pack25519(a) = Digits(Value(a) % P)
<1>1. PICK b \in Nat : b = Base /\ b >= 38
  BY DEF Sized
<1>2. PICK h \in Nat, t \in Nat, k \in Nat : h = 7 /\ t = 3 * b + 111 /\ k = 7 /\ h + t <= k * b
  <2>1. 3 * b + 111 \in Nat /\ 7 + (3 * b + 111) <= 7 * b
    BY <1>1
  <2> QED  BY <2>1
<1>3. \A i \in 0 .. Top : a[i] \in -t .. t
  <2>1. 3 * (b + 37) = t
    BY <1>2
  <2> QED  BY <1>1, <2>1 DEF Wide, Limbed
<1>4. \A i \in 0 .. Top : i < Top => a[i] \in -(h * (Base - 1)) .. h * (Base - 1)
  <2>1. PICK m \in Nat : m = h * (Base - 1) /\ t <= m
    <3>1. 7 * (b - 1) \in Nat /\ t <= 7 * (b - 1)
      BY <1>1, <1>2
    <3> QED  BY <1>1, <1>2, <3>1
  <2>2. \A i \in 0 .. Top : a[i] \in -m .. m
    BY <1>3, <2>1
  <2> QED  BY <2>1, <2>2
<1>5. a[Top] \in -t .. t
  <2>1. Top \in 0 .. Top
    BY DEF Top, Sized
  <2> QED  BY <1>3, <2>1
<1>6. a \in gf
  BY DEF Wide, Limbed
<1>7. Within(Value(a), k)
  BY <1>1, <1>2, <1>4, <1>5, <1>6, ValueBound
<1>8. Roomy(k)
  <2>1. b * b >= 38 * 38
    BY <1>1
  <2>2. PICK w \in Int : w = Weight[Limbs] /\ w >= b * b
    <3>1. Limbs \in 0 .. Limbs
      BY DEF Sized
    <3>2. Weight[Limbs] \in Nat
      BY <3>1, WeightNext
    <3> QED  BY <1>1, <3>2, WeightGrows
  <2>3. w >= 38 * 38
    BY <2>1, <2>2
  <2> QED  BY <1>2, <2>2, <2>3 DEF Roomy
<1> QED  BY <1>6, <1>7, <1>8, PackExact

\* The ladder's last operands are no wider than the others, and its secret is packed
\* exactly.
LEMMA SecretExact ==
  ASSUME Sized, NEW g, NEW k, Exactly(g, k), PBits \in Nat \ {0}, NEW p, IsDigits(p), NEW n,
         NEW s, s = Ladder(unpack25519(p), Clamped(n))[PBits]
  PROVE  /\ Narrow(s[1]) /\ Narrow(inv25519(s[3]))
         /\ crypto_scalarmult(n, p) = Digits(Value(M(s[1], inv25519(s[3]))) % P)
<1>1. Narrow4(s)
  <2>1. PBits \in 0 .. PBits /\ PBits \in Nat
    OBVIOUS
  <2>2. \A i \in 0 .. PBits : Ladder(unpack25519(p), Clamped(n))[i] \in Points
    BY <2>1, UnpackNarrow, LadderStays
  <2> QED  BY <2>1, <2>2 DEF Points
<1>2. PICK a, c : a = s[1] /\ c = s[3] /\ Narrow(a) /\ Narrow(c)
  BY <1>1 DEF Narrow4
<1>3. PICK i : i = inv25519(c) /\ Narrow(i)
  <2>1. Power(c, PBits, {2, 4}) \in Narrows
    BY <1>2, PowerStays
  <2> QED  BY <2>1 DEF inv25519, Narrows
<1>4. PICK m : m = M(a, i) /\ Wide(m)
  <2>1. Wide(a) /\ Wide(i)
    BY <1>2, <1>3, NarrowIsWide
  <2> QED  BY <2>1, WideProduct
<1>5. crypto_scalarmult(n, p) = pack25519(M(s[1], inv25519(s[3])))
  BY Zenon DEF crypto_scalarmult
<1>6. pack25519(m) = Digits(Value(m) % P)
  BY <1>4, PackWide
<1> QED  BY <1>2, <1>3, <1>4, <1>5, <1>6
=============================================================================
