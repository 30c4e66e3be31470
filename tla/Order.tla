------------------------------- MODULE Order --------------------------------
(***************************************************************************)
(* modL of src/crypto/tweetnacl.c: a number of 64 bytes, lowest first,     *)
(* modulo the order of the group of Ed25519, in signed bytes.  Its bytes   *)
(* have their width; none of the integers leaves the range of an i64.      *)
(***************************************************************************)
EXTENDS Integers

Ls == <<237, 211, 245, 92, 26, 99, 18, 88, 214, 156, 247, 162, 222, 249, 222, 20>>
L  == [j \in 0 .. 31 |-> IF j < 16 THEN Ls[j + 1] ELSE IF j = 31 THEN 16 ELSE 0]

\* Byte i is folded into the twenty bytes from i - 32, and what they carry into the next.
Fold(x, i) ==
  LET low  == i - 32
      c[j \in low .. low + 20] ==
        IF j = low THEN 0 ELSE (x[j - 1] + c[j - 1] - 16 * x[i] * L[j - 1 - low] + 128) \div 256
  IN [j \in 0 .. 63 |->
        IF j = i THEN 0
        ELSE IF j = low + 20 THEN x[j] + c[j]
        ELSE IF j \in low .. low + 19 THEN x[j] + c[j] - 16 * x[i] * L[j - low] - 256 * c[j + 1]
        ELSE x[j]]

\* Then the multiple of L that the topmost byte tells is subtracted, L added again if
\* that was too much, and the bytes carried out.
modL(x0) ==
  LET fold[i \in 31 .. 63, x \in [0 .. 63 -> Int]] ==
        IF i = 31 THEN x ELSE fold[i - 1, Fold(x, i)]
      x == fold[63, x0]
      z(j) == x[j] - (x[31] \div 16) * L[j]
      c[j \in 0 .. 32] == IF j = 0 THEN 0 ELSE (z(j - 1) + c[j - 1]) \div 256
      y(j) == ((z(j) + c[j]) % 256) - c[32] * L[j]
      e[j \in 0 .. 31] == IF j = 0 THEN 0 ELSE (y(j - 1) + e[j - 1]) \div 256
  IN [j \in 0 .. 31 |-> (y(j) + e[j]) % 256]
=============================================================================
