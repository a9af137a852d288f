------------------------------ MODULE SetLemmas ------------------------------
(* Facts about finite sets and positions that several proofs need. *)
EXTENDS Integers, FiniteSetsExt, FiniteSetTheorems, NaturalsInduction,
        WellFoundedInduction, TLAPS

(* A non-empty set of positions has a least element, which Min returns. *)
LEMMA MinOfPositions ==
  ASSUME NEW S \in SUBSET Nat, S # {}
  PROVE  Min(S) \in S /\ \A y \in S : Min(S) <= y
<1> DEFINE R == {ss \in Nat \X Nat : ss[1] < ss[2]}
<1>1. IsWellFoundedOn(R, Nat)
  BY NatLessThanWellFounded DEF OpToRel
<1>2. PICK n \in S : \A m \in S : ~ (<<m, n>> \in R)
  BY <1>1, WFMin
<1>3. ASSUME NEW m \in S
      PROVE  n <= m
  <2>1. m \in Nat /\ n \in Nat
    OBVIOUS
  <2>2. <<m, n>> \in Nat \X Nat /\ ~ (<<m, n>> \in R)
    BY <1>2, <2>1
  <2>3. ~ (m < n)
    BY <2>2
  <2> QED
    BY <2>1, <2>3
<1> QED
  BY <1>3 DEF Min

(* A set of numbers that holds 0 and with each the next one, up to n. *)
LEMMA Ascent ==
  ASSUME NEW n \in Nat, NEW S, 0 \in S,
         \A k \in 1..n : k - 1 \in S => k \in S
  PROVE  0..n \subseteq S
<1> DEFINE missing == {k \in 0..n : k \notin S}
<1> SUFFICES ASSUME missing # {} PROVE FALSE
  OBVIOUS
<1>1. missing \in SUBSET Nat
  OBVIOUS
<1>2. Min(missing) \in missing /\ \A y \in missing : Min(missing) <= y
  BY <1>1, MinOfPositions
<1> DEFINE m == Min(missing)
<1>3. m \in missing /\ \A y \in missing : m <= y
  BY <1>2
<1> HIDE DEF m
<1>4. m \in 1..n /\ m - 1 \in 0..n /\ ~ (m <= m - 1)
  BY <1>3
<1>5. m - 1 \in S
  BY <1>3, <1>4
<1> QED
  BY <1>3, <1>4, <1>5

(* A sequence of values each computed from the one before. *)
Iterates(f, T, a, n, step) ==
  /\ f \in [0..n -> T]
  /\ f[0] = a
  /\ \A k \in 1..n : f[k] = step[k][f[k - 1]]

LEMMA Recurrence ==
  ASSUME NEW T, NEW a \in T, NEW n \in Nat, NEW step \in [1..n -> [T -> T]]
  PROVE  \E f : Iterates(f, T, a, n, step)
<1> DEFINE good == {m \in 0..n :
                      \E f \in [0..m -> T] :
                        f[0] = a /\ \A k \in 1..m : f[k] = step[k][f[k - 1]]}
<1>1. 0 \in good
  <2> DEFINE f == [k \in 0..0 |-> a]
  <2>1. f \in [0..0 -> T] /\ f[0] = a /\ \A k \in 1..0 : f[k] = step[k][f[k - 1]]
    OBVIOUS
  <2> HIDE DEF f
  <2> QED
    BY <2>1
<1>2. ASSUME NEW k \in 1..n, k - 1 \in good
      PROVE  k \in good
  <2>1. PICK f \in [0..k - 1 -> T] :
          f[0] = a /\ \A j \in 1..k - 1 : f[j] = step[j][f[j - 1]]
    BY <1>2
  <2> DEFINE g == [j \in 0..k |-> IF j = k THEN step[k][f[k - 1]] ELSE f[j]]
  <2>2. g \in [0..k -> T] /\ g[0] = a
    <3>1. k - 1 \in 0..k - 1 /\ f[k - 1] \in T /\ step[k][f[k - 1]] \in T
      BY <2>1
    <3> QED
      BY <2>1, <3>1
  <2>3. ASSUME NEW j \in 1..k
        PROVE  g[j] = step[j][g[j - 1]]
    <3>1. j \in 0..k /\ j - 1 \in 0..k /\ j - 1 # k
      OBVIOUS
    <3>2. g[j - 1] = f[j - 1]
      BY <3>1
    <3>3. CASE j = k
      BY <3>1, <3>2, <3>3
    <3>4. CASE j # k
      <4>1. j \in 1..k - 1
        BY <3>4
      <4> QED
        BY <2>1, <3>1, <3>2, <3>4, <4>1
    <3> QED
      BY <3>3, <3>4
  <2> HIDE DEF g
  <2>4. \E h \in [0..k -> T] :
          h[0] = a /\ \A j \in 1..k : h[j] = step[j][h[j - 1]]
    BY ONLY <2>2, <2>3, Zenon
  <2>5. k \in 0..n
    OBVIOUS
  <2> QED
    BY ONLY <2>4, <2>5, Zenon
<1> HIDE DEF good
<1>3. 0..n \subseteq good
  BY <1>1, <1>2, Ascent
<1> QED
  BY <1>3 DEF good, Iterates
==============================================================================
