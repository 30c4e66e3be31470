----------------------------- MODULE Induction ------------------------------
(***************************************************************************)
(* Induction over the numbers 0 .. n, for a set rather than a predicate:   *)
(* from the well-foundedness of < on Nat.  It shows that a recursive       *)
(* function exists and what it computes, as Flat of Interactive and the    *)
(* loops of Keys, Buf, Screen and Field need.                              *)
(***************************************************************************)
EXTENDS Integers, TLAPS, WellFoundedInduction

\* A set of naturals with an element has a least one.
LEMMA Least ==
  ASSUME NEW T \in SUBSET Nat, T # {}
  PROVE  \E x \in T : \A y \in T : x <= y
<1> DEFINE R == {ss \in Nat \X Nat : ss[1] < ss[2]}
<1>1. OpToRel(<,Nat) = R
  BY DEF OpToRel
<1>2. IsWellFoundedOn(R, Nat)
  BY <1>1, NatLessThanWellFounded, Zenon
<1>3. PICK x \in T : \A y \in T : ~(<<y,x>> \in R)
  <2> HIDE DEF R
  <2> QED  BY <1>2, WFMin
<1>4. \A y \in T : ~(y < x)
  BY <1>3
<1> QED  BY <1>3, <1>4

\* What holds of 0, and of every number up to n when of the one before, holds of all.
LEMMA Upto ==
  ASSUME NEW n \in Nat, NEW S, 0 \in S, \A k \in 1 .. n : k - 1 \in S => k \in S
  PROVE  \A k \in 0 .. n : k \in S
<1> SUFFICES ASSUME {k \in 0 .. n : k \notin S} # {} PROVE FALSE
  OBVIOUS
<1> DEFINE T == {k \in 0 .. n : k \notin S}
<1>1. T \in SUBSET Nat
  OBVIOUS
<1>2. PICK x \in T : \A y \in T : x <= y
  <2> HIDE DEF T
  <2> QED  BY <1>1, Least DEF T
<1>3. x \in 1 .. n /\ x - 1 \in 0 .. n
  BY <1>2
<1>4. x - 1 \in S
  BY <1>2, <1>3
<1> QED  BY <1>2, <1>3, <1>4

Folded(f, m, S, z, step) ==
  /\ f \in [0 .. m -> S]
  /\ f = [i \in 0 .. m |-> IF i = 0 THEN z ELSE step[<<f[i - 1], i>>]]

\* A function that goes on from its value at the number before exists, and stays in S.
LEMMA FoldExists ==
  ASSUME NEW m \in Nat, NEW S, NEW z \in S, NEW step \in [S \X (1 .. m) -> S]
  PROVE  \E f : Folded(f, m, S, z, step)
<1> DEFINE Right(f, k) == /\ f[0] = z /\ \A i \in 0 .. k : f[i] \in S
                          /\ \A i \in 1 .. k : f[i] = step[<<f[i - 1], i>>]
           T == {k \in 0 .. m : \E f : Right(f, k)}
<1>1. 0 \in T
  <2>1. PICK f : f = [i \in 0 .. 0 |-> z]
    OBVIOUS
  <2>2. Right(f, 0)
    BY <2>1
  <2>3. 0 \in 0 .. m
    OBVIOUS
  <2> HIDE DEF Right
  <2> QED  BY <2>2, <2>3
<1>2. ASSUME NEW k \in 1 .. m, k - 1 \in T PROVE k \in T
  <2>1. PICK f : Right(f, k - 1)
    BY <1>2
  <2>2. PICK g : g = [i \in 0 .. k |-> IF i = k THEN step[<<f[k - 1], k>>] ELSE f[i]]
    OBVIOUS
  <2>3. g[k] = step[<<f[k - 1], k>>] /\ \A i \in 0 .. k - 1 : g[i] = f[i]
    BY <2>2
  <2>4. ASSUME NEW i \in 1 .. k PROVE g[i] = step[<<g[i - 1], i>>]
    <3>1. CASE i = k
      <4>1. g[k - 1] = f[k - 1]
        BY <2>3
      <4> QED  BY <2>3, <3>1, <4>1
    <3>2. CASE i # k
      <4>1. i \in 1 .. k - 1 /\ i \in 0 .. k - 1 /\ i - 1 \in 0 .. k - 1
        BY <3>2
      <4>2. f[i] = step[<<f[i - 1], i>>]
        BY <2>1, <4>1
      <4> QED  BY <2>3, <4>1, <4>2
    <3> QED  BY <3>1, <3>2
  <2>5. g[0] = z
    BY <2>1, <2>3
  <2>6. \A i \in 0 .. k : g[i] \in S
    <3>1. f[k - 1] \in S
      BY <2>1
    <3>2. step[<<f[k - 1], k>>] \in S
      BY <3>1
    <3> QED  BY <2>1, <2>3, <3>2
  <2>7. Right(g, k)
    BY <2>4, <2>5, <2>6
  <2>8. k \in 0 .. m
    OBVIOUS
  <2> HIDE DEF Right
  <2> QED  BY <2>7, <2>8
<1>3. m \in T
  <2> HIDE DEF T
  <2>1. m \in 0 .. m /\ \A k \in 0 .. m : k \in T
    BY <1>1, <1>2, Upto
  <2> QED  BY <2>1
<1>4. PICK f : Right(f, m)
  BY <1>3
<1>5. PICK g : g = [i \in 0 .. m |-> f[i]]
  OBVIOUS
<1>6. \A i \in 0 .. m : f[i] = IF i = 0 THEN z ELSE step[<<g[i - 1], i>>]
  <2>1. ASSUME NEW i \in 1 .. m PROVE f[i] = step[<<g[i - 1], i>>]
    <3>1. i - 1 \in 0 .. m
      OBVIOUS
    <3>2. g[i - 1] = f[i - 1]
      BY <1>5, <3>1
    <3> QED  BY <1>4, <3>2
  <2>2. \A i \in 0 .. m : i = 0 \/ i \in 1 .. m
    OBVIOUS
  <2> QED  BY <1>4, <2>1, <2>2
<1>7. [i \in 0 .. m |-> f[i]] = [i \in 0 .. m |-> IF i = 0 THEN z ELSE step[<<g[i - 1], i>>]]
  BY <1>6
<1>8. g \in [0 .. m -> S]
  BY <1>4, <1>5
<1> QED  BY <1>5, <1>7, <1>8 DEF Folded
=============================================================================
