------------------------------ MODULE PartsProofs ------------------------------
(***************************************************************************)
(* Lemmas about Part: the elements of a sequence at some of its indices are *)
(* a subsequence of it, whatever the indices.                               *)
(***************************************************************************)
EXTENDS Parts, WellFoundedInduction, TLAPS

-------------------------------------------------------------------------------
(* Induction over numbers.  The library's induction theorems take the       *)
(* formula as a parameter; here it is the set of the numbers it holds of.   *)

Below == OpToRel(<, Nat)

(* The order of the naturals is well founded.                              *)
LEMMA BelowIsWellFounded ==
  Below = {p \in Nat \X Nat : p[1] < p[2]} /\ IsWellFoundedOn(Below, Nat)
<1>1. Below = {p \in Nat \X Nat : p[1] < p[2]}  BY Zenon DEF Below, OpToRel
<1>2. IsWellFoundedOn(Below, Nat)  BY Zenon, NatLessThanWellFounded DEF Below
<1> QED  BY <1>1, <1>2

(* A set that has 0 and the successor of each of its numbers has them all. *)
LEMMA AllNaturals ==
  ASSUME NEW S, 0 \in S, \A n \in Nat : n \in S => n + 1 \in S
  PROVE  \A n \in Nat : n \in S
<1> DEFINE T == Nat \ S
<1>1. ASSUME T # {} PROVE FALSE
  <2>1. PICK n \in T : \A m \in T : ~ (<<m, n>> \in Below)
    BY <1>1, WFMin, BelowIsWellFounded
  <2>2. n # 0 /\ n - 1 \in Nat  BY <2>1
  <2>3. <<n - 1, n>> \in Below  BY <2>1, <2>2, BelowIsWellFounded
  <2>4. n - 1 \in S /\ (n - 1) + 1 = n  BY <2>1, <2>2, <2>3
  <2> QED  BY <2>1, <2>2, <2>4
<1> QED  BY <1>1

(* Part(s, I) is s at the indices I, in increasing order.                  *)
Enumerates(p, m, s, I, k) ==
  /\ Len(p) <= k /\ (\A b \in Nat : (\A i \in I : i <= b) => Len(p) <= b)
  /\ m \in [1..Len(p) -> I \cap (1..k)]
  /\ \A j \in 1..Len(p) : p[j] = s[m[j]]
  /\ \A j, l \in 1..Len(p) : j < l => m[j] < m[l]
  /\ \A i \in I \cap (1..k) : \E j \in 1..Len(p) : m[j] = i
PartsOf(f, s, I, n) == f = [k \in 0..n |->
  IF k = 0 THEN <<>> ELSE IF k \in I THEN Append(f[k - 1], s[k]) ELSE f[k - 1]]

LEMMA PartsExist ==
  ASSUME NEW s, NEW I, NEW n \in Nat
  PROVE  \E f : PartsOf(f, s, I, n)
<1> DEFINE K == {k \in Nat : \E f : PartsOf(f, s, I, k)}
<1>1. 0 \in K
  <2>1. PartsOf([k \in 0..0 |-> <<>>], s, I, 0)  BY DEF PartsOf
  <2> QED  BY <2>1
<1>2. ASSUME NEW n0 \in Nat, n0 \in K PROVE n0 + 1 \in K
  <2>1. PICK f : PartsOf(f, s, I, n0)  BY <1>2
  <2> DEFINE last == IF n0 + 1 \in I THEN Append(f[n0], s[n0 + 1]) ELSE f[n0]
             g == [k \in 0..(n0 + 1) |-> IF k = n0 + 1 THEN last ELSE f[k]]
  <2>2. ASSUME NEW k \in 0..(n0 + 1)
        PROVE  g[k] = IF k = 0 THEN <<>> ELSE IF k \in I THEN Append(g[k - 1], s[k]) ELSE g[k - 1]
    <3>1. CASE k = n0 + 1
      <4>1. g[k - 1] = f[n0] /\ k # 0  BY <3>1
      <4> QED  BY <3>1, <4>1
    <3>2. CASE k = 0
      <4>1. f[0] = <<>>  BY <2>1 DEF PartsOf
      <4> QED  BY <3>2, <4>1
    <3>3. CASE k # 0 /\ k # n0 + 1
      <4>1. k \in 0..n0 /\ k - 1 \in 0..n0 /\ k - 1 # n0 + 1  BY <3>3
      <4>2. g[k] = f[k] /\ g[k - 1] = f[k - 1]  BY <3>3, <4>1
      <4> QED  BY <2>1, <3>3, <4>1, <4>2 DEF PartsOf
    <3> QED  BY <3>1, <3>2, <3>3
  <2>3. PartsOf(g, s, I, n0 + 1)  BY <2>2, Zenon DEF PartsOf
  <2> QED  BY <2>3
<1> HIDE DEF K
<1>3. n \in K  BY <1>1, <1>2, AllNaturals
<1> QED  BY <1>3 DEF K

LEMMA PartEnumerates ==
  ASSUME NEW E, NEW s \in Seq(E), NEW I
  PROVE  /\ Part(s, I) \in Seq(E)
         /\ \E m : Enumerates(Part(s, I), m, s, I, Len(s))
<1> DEFINE n == Len(s)
           f == CHOOSE f : PartsOf(f, s, I, n)
           K == {k \in Nat : k <= n => f[k] \in Seq(E) /\ \E m : Enumerates(f[k], m, s, I, k)}
<1>1. PartsOf(f, s, I, n)  BY PartsExist
<1>2. Part(s, I) = f[n]  BY Zenon DEF Part, PartsOf
<1> HIDE DEF f
<1>3. 0 \in K
  <2>1. f[0] = <<>>  BY <1>1 DEF PartsOf
  <2>2. Enumerates(<<>>, <<>>, s, I, 0)  BY DEF Enumerates
  <2>3. <<>> \in Seq(E)  OBVIOUS
  <2>4. f[0] \in Seq(E) /\ \E m : Enumerates(f[0], m, s, I, 0)  BY <2>1, <2>2, <2>3
  <2> QED  BY <2>4
<1>4. ASSUME NEW k \in Nat, k \in K PROVE k + 1 \in K
  <2> SUFFICES ASSUME k + 1 <= n
               PROVE  f[k + 1] \in Seq(E) /\ \E m : Enumerates(f[k + 1], m, s, I, k + 1)
    OBVIOUS
  <2>1. k + 1 \in 0..n /\ k + 1 # 0 /\ (k + 1) - 1 = k  OBVIOUS
  <2>2. f[k + 1] = IF k + 1 \in I THEN Append(f[k], s[k + 1]) ELSE f[k]
    BY <1>1, <2>1 DEF PartsOf
  <2>3. f[k] \in Seq(E)  BY <1>4
  <2>4. PICK m : Enumerates(f[k], m, s, I, k)  BY <1>4
  <2>5. CASE k + 1 \in I
    <3> DEFINE p == f[k + 1]
               w == [j \in 1..(Len(f[k]) + 1) |-> IF j = Len(f[k]) + 1 THEN k + 1 ELSE m[j]]
    <3>1. p = Append(f[k], s[k + 1]) /\ s[k + 1] \in E  BY <2>2, <2>5
    <3>2. /\ p \in Seq(E) /\ Len(p) = Len(f[k]) + 1 /\ p[Len(f[k]) + 1] = s[k + 1]
          /\ \A j \in 1..Len(f[k]) : p[j] = f[k][j]
      BY <2>3, <3>1
    <3> HIDE DEF p
    <3>3. Len(p) <= k + 1 /\ w \in [1..Len(p) -> I \cap (1..(k + 1))]
      BY <2>3, <2>4, <2>5, <3>2 DEF Enumerates
    <3>8. \A b \in Nat : (\A i \in I : i <= b) => Len(p) <= b
      BY <2>3, <2>4, <2>5, <3>2 DEF Enumerates
    <3>4. \A j \in 1..Len(p) : p[j] = s[w[j]]  BY <2>3, <2>4, <3>2 DEF Enumerates
    <3>5. \A j, l \in 1..Len(p) : j < l => w[j] < w[l]
      <4> SUFFICES ASSUME NEW j \in 1..Len(p), NEW l \in 1..Len(p), j < l PROVE w[j] < w[l]
        OBVIOUS
      <4>3. j \in 1..Len(f[k])  BY <2>3, <3>2
      <4>4. w[j] = m[j]  BY <2>3, <4>3
      <4>1. j \in 1..Len(f[k]) /\ w[j] = m[j] /\ m[j] \in 1..k  BY <2>4, <4>3, <4>4 DEF Enumerates
      <4>2. l \in 1..Len(f[k]) \/ l = Len(f[k]) + 1  BY <2>3, <3>2
      <4> QED  BY <2>3, <2>4, <4>1, <4>2, <3>2 DEF Enumerates
    <3>6. \A i \in I \cap (1..(k + 1)) : \E j \in 1..Len(p) : w[j] = i
      <4> SUFFICES ASSUME NEW i \in I \cap (1..(k + 1)) PROVE \E j \in 1..Len(p) : w[j] = i
        OBVIOUS
      <4>1. CASE i = k + 1
        <5>1. Len(f[k]) + 1 \in 1..Len(p) /\ w[Len(f[k]) + 1] = i  BY <2>3, <3>2, <4>1
        <5> QED  BY <5>1
      <4>2. CASE i # k + 1
        <5>1. i \in I \cap (1..k)  BY <4>2
        <5>2. PICK j \in 1..Len(f[k]) : m[j] = i  BY <2>4, <5>1 DEF Enumerates
        <5>3. j \in 1..Len(p) /\ w[j] = i  BY <2>3, <3>2, <5>2
        <5> QED  BY <5>3
      <4> QED  BY <4>1, <4>2
    <3> HIDE DEF w
    <3>7. Enumerates(p, w, s, I, k + 1)  BY <3>3, <3>4, <3>5, <3>6, <3>8 DEF Enumerates
    <3> QED  BY <3>2, <3>7 DEF p
  <2>6. CASE k + 1 \notin I
    <3>1. f[k + 1] = f[k]  BY <2>2, <2>6
    <3>2. \A i \in I \cap (1..(k + 1)) : i \in 1..k  BY <2>6
    <3>3. I \cap (1..(k + 1)) = I \cap (1..k)  BY <3>2
    <3>4. Enumerates(f[k], m, s, I, k + 1)  BY <2>3, <2>4, <3>3 DEF Enumerates
    <3> QED  BY <2>3, <3>1, <3>4
  <2> QED  BY <2>5, <2>6
<1>5. n \in Nat  OBVIOUS
<1> HIDE DEF K, n
<1>6. n \in K  BY <1>3, <1>4, <1>5, AllNaturals
<1> QED  BY <1>2, <1>5, <1>6 DEF K, n
================================================================================
