------------------------------ MODULE Induction ------------------------------
(***************************************************************************)
(* Induction over numbers and over finite sets, in the form in which the   *)
(* other modules need it: about sets of numbers and sets of sets, where a  *)
(* proof by induction names the set of those for which its claim holds.    *)
(***************************************************************************)
EXTENDS Integers, Sequences, FiniteSetTheorems, TLAPS

\* A set of natural numbers that is not empty has a least one.
LEMMA LeastNatural ==
  ASSUME NEW S \in SUBSET Nat, S # {}
  PROVE  \E n \in S : \A m \in S : n <= m
<1> DEFINE R == OpToRel(<, Nat)
<1>1. \A m, n \in Nat : m < n => <<m, n>> \in R
  BY DEF OpToRel
<1>2. IsWellFoundedOn(R, Nat)
  BY NatLessThanWellFounded
<1> HIDE DEF R
<1>3. PICK n \in S : \A m \in S : ~(<<m, n>> \in R)
  BY <1>2, WFMin
<1>4. \A m \in S : ~(m < n)
  BY <1>1, <1>3
<1> QED  BY <1>4

\* A set that holds 0 and, with a number, the next, holds all.
LEMMA SetInduction ==
  ASSUME NEW S, 0 \in S, \A n \in S \cap Nat : n + 1 \in S
  PROVE  Nat \subseteq S
<1> SUFFICES ASSUME NEW N \in Nat, N \notin S PROVE FALSE
  OBVIOUS
<1> DEFINE Out == {n \in Nat : n \notin S}
<1>1. PICK n \in Out : \A m \in Out : n <= m
  BY LeastNatural
<1>2. n # 0 /\ n - 1 \in Nat /\ n - 1 \notin Out
  BY <1>1
<1> QED  BY <1>1, <1>2

\* Finitely many numbers have a greatest.
LEMMA FiniteMaximum ==
  ASSUME NEW S, S \subseteq Int, IsFiniteSet(S), S # {}
  PROVE  \E m \in S : \A o \in S : m >= o
<1>1. PICK seq \in Seq(S) : \A s \in S : \E n \in 1..Len(seq) : seq[n] = s
  BY DEF IsFiniteSet
<1>2. Len(seq) \in Nat /\ \A i \in 1..Len(seq) : seq[i] \in S /\ seq[i] \in Int
  <2>1. Len(seq) \in Nat /\ \A i \in 1..Len(seq) : seq[i] \in S
    OBVIOUS
  <2>2. \A x \in S : x \in Int
    OBVIOUS
  <2> QED  BY <2>1, <2>2
<1> DEFINE P == {k \in Nat : k + 1 \in 1..Len(seq) =>
                   \E m \in 1..(k + 1) : \A j \in 1..(k + 1) : seq[m] >= seq[j]}
<1>3. 0 \in P
  BY <1>2
<1>4. ASSUME NEW k \in P \cap Nat PROVE k + 1 \in P
  <2> SUFFICES ASSUME k + 2 \in 1..Len(seq)
               PROVE  \E m \in 1..(k + 2) : \A j \in 1..(k + 2) : seq[m] >= seq[j]
    OBVIOUS
  <2>1. PICK m \in 1..(k + 1) : \A j \in 1..(k + 1) : seq[m] >= seq[j]
    BY <1>2
  <2>2. m \in 1..(k + 2) /\ k + 2 \in 1..(k + 2) /\ seq[m] \in Int /\ seq[k + 2] \in Int
    BY <1>2
  <2>3. \A j \in 1..(k + 2) : j = k + 2 \/ j \in 1..(k + 1)
    OBVIOUS
  <2>4. \A j \in 1..(k + 2) : seq[j] \in Int
    BY <1>2
  <2>5. CASE seq[m] >= seq[k + 2]
    <3>1. \A j \in 1..(k + 2) : seq[m] >= seq[j]
      BY <2>1, <2>3, <2>5
    <3> QED  BY <2>2, <3>1, Zenon
  <2>6. CASE seq[k + 2] >= seq[m]
    <3>1. \A j \in 1..(k + 1) : seq[k + 2] >= seq[j]
      BY <2>1, <2>2, <2>4, <2>6
    <3>2. \A j \in 1..(k + 2) : seq[k + 2] >= seq[j]
      BY <2>2, <2>3, <3>1
    <3> QED  BY <2>2, <3>2, Zenon
  <2>7. seq[m] >= seq[k + 2] \/ seq[k + 2] >= seq[m]
    BY <2>2
  <2> QED  BY <2>5, <2>6, <2>7, Zenon
<1>5. Len(seq) # 0
  <2>1. PICK s \in S : TRUE
    OBVIOUS
  <2>2. PICK n \in 1..Len(seq) : seq[n] = s
    BY <1>1
  <2> QED  BY <1>2, <2>2
<1>6. Len(seq) - 1 \in P
  <2>1. Len(seq) - 1 \in Nat
    BY <1>2, <1>5
  <2> HIDE DEF P
  <2>2. Nat \subseteq P
    BY <1>3, <1>4, SetInduction
  <2> QED  BY <2>1, <2>2
<1>7. PICK m \in 1..Len(seq) : \A j \in 1..Len(seq) : seq[m] >= seq[j]
  BY <1>2, <1>5, <1>6
<1> QED  BY <1>1, <1>2, <1>7

\* Among sets of finitely many elements, one has no other within it.
LEMMA SmallestSet ==
  ASSUME NEW S, IsFiniteSet(S), NEW T \in SUBSET (SUBSET S), T # {}
  PROVE  \E x \in T : \A y \in T : y \subseteq x => y = x
<1> DEFINE R == StrictSubsetOrdering(S)
<1>1. IsWellFoundedOn(R, FiniteSubsetsOf(S))
  BY FS_StrictSubsetOrderingWellFounded
<1>2. T \subseteq FiniteSubsetsOf(S)
  BY FS_FiniteSubsetsOfFinite
<1>3. \A x, y \in T : y \subseteq x /\ y # x => <<y, x>> \in R
  BY DEF StrictSubsetOrdering
<1> HIDE DEF R
<1>4. PICK x \in T : \A y \in T : ~(<<y, x>> \in R)
  BY <1>1, <1>2, WFMin
<1> QED  BY <1>3, <1>4
=============================================================================
