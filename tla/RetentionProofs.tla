--------------------------- MODULE RetentionProofs ---------------------------
(***************************************************************************)
(* What keeping and cutting elements of a sequence gives, and that every    *)
(* set of naturals has a least element, from which induction over data      *)
(* follows where it is needed.                                              *)
(***************************************************************************)
EXTENDS Retention, TLAPS, FiniteSetTheorems, SequenceTheorems

(* Every sequence in KeptAt reads its source through an increasing          *)
(* enumeration of the kept positions.                                       *)
Reads(r, f, s, K) ==
    /\ DOMAIN r = 1 .. Cardinality(K)
    /\ \A a \in DOMAIN r : f[a] \in K /\ r[a] = s[f[a]]
    /\ \A a, b \in DOMAIN r : a < b => f[a] < f[b]
    /\ \A k \in K : \E a \in DOMAIN r : f[a] = k

(* A set of positions of a sequence is finite and no larger than it is.     *)
LEMMA Positions ==
    ASSUME NEW S, NEW s \in Seq(S), NEW K \in SUBSET DOMAIN s
    PROVE  /\ IsFiniteSet(DOMAIN s) /\ Cardinality(DOMAIN s) = Len(s)
           /\ IsFiniteSet(K) /\ Cardinality(K) \in Nat /\ Cardinality(K) <= Len(s)
<1>1. IsFiniteSet(DOMAIN s) /\ Cardinality(DOMAIN s) = Len(s)
  <2>1. DOMAIN s = 1 .. Len(s) /\ Len(s) \in Nat
    OBVIOUS
  <2>2. IsFiniteSet(1 .. Len(s)) /\ Cardinality(1 .. Len(s)) = IF 1 > Len(s) THEN 0 ELSE Len(s) - 1 + 1
    BY <2>1, FS_Interval
  <2> QED
    BY <2>1, <2>2
<1> QED
  BY <1>1, FS_Subset, FS_CardinalityType

(* Every position kept is read.                                             *)
LEMMA ReadsAll ==
    ASSUME NEW r, NEW f, NEW s, NEW K, Reads(r, f, s, K), NEW k \in K
    PROVE  \E a \in DOMAIN r : r[a] = s[k]
BY DEF Reads

LEMMA KeptAtLemma ==
    ASSUME NEW S, NEW s \in Seq(S), NEW K \in SUBSET DOMAIN s, NEW r \in KeptAt(s, K)
    PROVE  /\ Cardinality(K) \in Nat /\ Cardinality(K) <= Len(s)
           /\ r \in Seq(S) /\ Len(r) = Cardinality(K)
           /\ \E f : Reads(r, f, s, K)
<1>1. IsFiniteSet(K) /\ Cardinality(K) \in Nat /\ Cardinality(K) <= Len(s)
  BY Positions
<1>2. PICK f \in Enumerations(K) : r = [i \in DOMAIN f |-> s[f[i]]]
  BY DEF KeptAt
<1>3. /\ f \in [1 .. Cardinality(K) -> K]
      /\ \A a, b \in DOMAIN f : a < b => f[a] < f[b]
      /\ \A k \in K : \E a \in DOMAIN f : f[a] = k
  BY <1>2 DEF Enumerations
<1>4. DOMAIN r = 1 .. Cardinality(K) /\ \A a \in DOMAIN r : f[a] \in K /\ r[a] = s[f[a]]
  BY <1>2, <1>3
<1>5. \A a \in DOMAIN r : r[a] \in S
  BY <1>4
<1>6. r \in Seq(S)
  BY <1>1, <1>2, <1>3, <1>4, <1>5
<1>7. Len(r) = Cardinality(K)
  BY <1>1, <1>4, <1>6
<1>8. Reads(r, f, s, K)
  BY <1>3, <1>4 DEF Reads
<1> QED
  BY <1>1, <1>6, <1>7, <1>8

(* What is kept and what is not have the length of the whole.               *)
LEMMA KeptApart ==
    ASSUME NEW S, NEW s \in Seq(S), NEW K \in SUBSET DOMAIN s,
           NEW r \in KeptAt(s, K), NEW q \in KeptAt(s, DOMAIN s \ K)
    PROVE  Len(r) + Len(q) = Len(s)
<1>1. Len(r) = Cardinality(K) /\ Len(q) = Cardinality(DOMAIN s \ K)
  BY KeptAtLemma
<1>2. IsFiniteSet(DOMAIN s) /\ Cardinality(DOMAIN s) = Len(s) /\ Cardinality(K) \in Nat
  BY Positions
<1>3. DOMAIN s \cap K = K
  OBVIOUS
<1>4. Cardinality(DOMAIN s \ K) = Cardinality(DOMAIN s) - Cardinality(K)
  <2>1. Cardinality(DOMAIN s \ K) = Cardinality(DOMAIN s) - Cardinality(DOMAIN s \cap K)
    BY <1>2, FS_Difference, Zenon
  <2> QED
    BY <2>1, <1>3, Zenon
<1> QED
  BY <1>1, <1>2, <1>4

(* A sequence without its i-th element.                                     *)
LEMMA CutLemma ==
    ASSUME NEW S, NEW s \in Seq(S), NEW i \in DOMAIN s
    PROVE  LET c == SubSeq(s, 1, i - 1) \o SubSeq(s, i + 1, Len(s))
           IN  /\ c \in Seq(S) /\ Len(c) = Len(s) - 1
               /\ \A k \in DOMAIN c : c[k] = s[IF k < i THEN k ELSE k + 1]
<1> DEFINE p == SubSeq(s, 1, i - 1)
           q == SubSeq(s, i + 1, Len(s))
<1>1. i \in 1 .. Len(s) /\ Len(s) \in Nat
  OBVIOUS
<1>2. p \in Seq(S) /\ Len(p) = i - 1 /\ \A k \in 1 .. i - 1 : p[k] = s[k]
  BY <1>1, SubSeqProperties
<1>3. q \in Seq(S) /\ Len(q) = Len(s) - i /\ \A k \in 1 .. Len(s) - i : q[k] = s[i + k]
  BY <1>1, SubSeqProperties
<1> HIDE DEF p, q
<1>4. /\ p \o q \in Seq(S) /\ Len(p \o q) = Len(s) - 1
      /\ \A k \in 1 .. Len(s) - 1 : (p \o q)[k] = IF k <= i - 1 THEN p[k] ELSE q[k - (i - 1)]
  <2>1. /\ p \o q \in Seq(S) /\ Len(p \o q) = Len(p) + Len(q)
        /\ \A k \in 1 .. Len(p) + Len(q) : (p \o q)[k] = IF k <= Len(p) THEN p[k] ELSE q[k - Len(p)]
    BY <1>2, <1>3, ConcatProperties
  <2>2. Len(p) = i - 1 /\ Len(p) + Len(q) = Len(s) - 1
    BY <1>1, <1>2, <1>3
  <2> QED
    BY <2>1, <2>2
<1>5. DOMAIN (p \o q) = 1 .. Len(s) - 1
  BY <1>4
<1>6. ASSUME NEW k \in 1 .. Len(s) - 1 PROVE (p \o q)[k] = s[IF k < i THEN k ELSE k + 1]
  <2>1. CASE k < i
    BY <2>1, <1>1, <1>2, <1>4
  <2>2. CASE ~(k < i)
    <3>1. k - (i - 1) \in 1 .. Len(s) - i /\ i + (k - (i - 1)) = k + 1
      BY <2>2, <1>1
    <3>2. (p \o q)[k] = q[k - (i - 1)]
      BY <2>2, <1>1, <1>4
    <3>3. q[k - (i - 1)] = s[k + 1]
      BY <3>1, <1>3, Zenon
    <3> QED
      BY <2>2, <3>2, <3>3, Zenon
  <2> QED
    BY <2>1, <2>2
<1> QED
  BY <1>4, <1>5, <1>6 DEF p, q
-----------------------------------------------------------------------------
(* A set of naturals that is not empty has a least element: the intervals   *)
(* below its elements are finite sets, which are well ordered by inclusion. *)
LEMMA LeastOf ==
    ASSUME NEW T \in SUBSET Nat, T # {}
    PROVE  \E x \in T : \A y \in T : x <= y
<1> DEFINE Below == {1 .. x : x \in T}
<1>1. Below \subseteq FiniteSubsetsOf(Nat)
  <2> SUFFICES ASSUME NEW x \in T PROVE IsFiniteSet(1 .. x) /\ 1 .. x \in SUBSET Nat
    BY DEF FiniteSubsetsOf
  <2> QED
    BY FS_Interval
<1>2. Below # {}
  OBVIOUS
<1>3. PICK B \in Below : \A C \in Below : <<C, B>> \notin StrictSubsetOrdering(Nat)
  <2> HIDE DEF Below
  <2> QED
    BY <1>1, <1>2, FS_StrictSubsetOrderingWellFounded, WFMin
<1>4. PICK x \in T : B = 1 .. x
  OBVIOUS
<1>5. ASSUME NEW y \in T, y < x PROVE FALSE
  <2>1. 1 .. y \in Below
    OBVIOUS
  <2>2. 1 .. y \subseteq 1 .. x /\ x \in 1 .. x /\ x \notin 1 .. y
    BY <1>5
  <2>3. <<1 .. y, 1 .. x>> \in StrictSubsetOrdering(Nat)
    BY <2>2 DEF StrictSubsetOrdering
  <2> QED
    BY <1>3, <1>4, <2>1, <2>3
<1> QED
  BY <1>5

(* What holds at 0 and is handed on from each number to the next one holds   *)
(* up to N.                                                                  *)
LEMMA UpTo ==
    ASSUME NEW N \in Nat, NEW G, 0 \in G, \A n \in 1..N : n - 1 \in G => n \in G
    PROVE  0..N \subseteq G
<1> SUFFICES ASSUME NEW k \in 0..N, k \notin G PROVE FALSE
  OBVIOUS
<1> DEFINE T == {n \in 0..N : n \notin G}
<1>1. PICK n \in T : \A m \in T : n <= m
  <2>1. T \in SUBSET Nat /\ T # {}
    OBVIOUS
  <2> HIDE DEF T
  <2> QED
    BY <2>1, LeastOf
<1>2. n \in 1..N /\ n - 1 \notin T
  BY <1>1
<1> QED
  BY <1>1, <1>2
=============================================================================
