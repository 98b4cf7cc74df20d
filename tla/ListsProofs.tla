----------------------------- MODULE ListsProofs -----------------------------
(* What the other proofs need of numbers and lists.                          *)
EXTENDS Lists, FiniteSetTheorems, WellFoundedInduction, TLAPS

\* A set of numbers that is not empty has a smallest one.
LEMMA LeastNatural ==
    ASSUME NEW T \in SUBSET Nat, T # {}
    PROVE  \E x \in T : \A y \in T : x <= y
<1> DEFINE R == {ss \in Nat \X Nat : ss[1] < ss[2]}
<1>1. OpToRel(<, Nat) = R
      BY DEF OpToRel
<1>2. IsWellFoundedOn(R, Nat)
      BY <1>1, NatLessThanWellFounded
<1>3. PICK x \in T : \A y \in T : <<y, x>> \notin R
  <2> HIDE DEF R
  <2> QED BY <1>2, WFMin
<1>4. ASSUME NEW y \in T PROVE x <= y
  <2>1. x \in Nat /\ y \in Nat
        OBVIOUS
  <2>2. CASE y < x
    <3> DEFINE p == <<y, x>>
    <3>1. p \in Nat \X Nat /\ p[1] = y /\ p[2] = x
          BY <2>1
    <3>2. p \notin R
          BY <1>3
    <3> QED BY <2>2, <3>1, <3>2
  <2> QED BY <2>1, <2>2
<1> QED BY <1>4

\* A list that follows another keeps its elements, each so much further on.
LEMMA Followed ==
    ASSUME NEW S, NEW a \in Seq(S), NEW b \in Seq(S), NEW c, c = a \o b
    PROVE  /\ c \in Seq(S)
           /\ \A e \in DOMAIN a : e \in DOMAIN c /\ c[e] = a[e]
           /\ \A p \in DOMAIN b : Len(a) + p \in DOMAIN c /\ c[Len(a) + p] = b[p]
           /\ \A e \in DOMAIN c : e \notin DOMAIN a =>
                 e - Len(a) \in DOMAIN b /\ c[e] = b[e - Len(a)]
<1> DEFINE m == Len(a)
           n == Len(b)
<1>1. m \in Nat /\ n \in Nat /\ DOMAIN a = 1..m /\ DOMAIN b = 1..n
      OBVIOUS
<1>2. c \in Seq(S) /\ Len(c) = m + n
      OBVIOUS
<1>3. DOMAIN c = 1..(m + n)
      BY <1>2
<1>4. \A e \in 1..m : c[e] = a[e]
      OBVIOUS
<1>5. \A p \in 1..n : c[m + p] = b[p]
      OBVIOUS
<1> HIDE DEF m, n
<1>6. \A e \in (1..(m + n)) \ (1..m) : e - m \in 1..n /\ m + (e - m) = e
      BY <1>1
<1>7. \A e \in 1..m : e \in 1..(m + n)
      BY <1>1
<1>8. \A p \in 1..n : m + p \in 1..(m + n)
      BY <1>1
<1>9. \A e \in 1..(m + n) : e \notin 1..m => e - m \in 1..n /\ c[e] = b[e - m]
      BY <1>5, <1>6
<1> QED BY <1>1, <1>2, <1>3, <1>4, <1>5, <1>7, <1>8, <1>9 DEF m

-----------------------------------------------------------------------------
(* Numbers in their order.                                                   *)

LEMMA NumbersFinite ==
    ASSUME NEW n \in Nat, NEW numbers \in SUBSET (0..n)
    PROVE  IsFiniteSet(numbers)
<1>1. IsFiniteSet(0..n)
      BY FS_Interval
<1> QED BY <1>1, FS_Subset

\* Places follow the numbers, tell them apart and leave no gap.
LEMMA PlaceFacts ==
    ASSUME NEW numbers \in SUBSET Nat, IsFiniteSet(numbers)
    PROVE  /\ Cardinality(numbers) \in Nat
           /\ \A i \in numbers : Place(numbers, i) \in 1..Cardinality(numbers)
           /\ \A i, j \in numbers : i < j => Place(numbers, i) < Place(numbers, j)
           /\ \A i, j \in numbers : Place(numbers, i) = Place(numbers, j) => i = j
           /\ \A k \in 1..Cardinality(numbers) : \E i \in numbers : Place(numbers, i) = k
<1> DEFINE c == Cardinality(numbers)
           upTo(i) == {j \in numbers : j <= i}
           f == [i \in numbers |-> Place(numbers, i)]
<1>1. c \in Nat
      BY FS_CardinalityType
<1>2. ASSUME NEW i \in numbers
      PROVE  /\ IsFiniteSet(upTo(i)) /\ Cardinality(upTo(i)) \in 1..c
             /\ Place(numbers, i) = Cardinality(upTo(i))
  <2>1. IsFiniteSet(upTo(i)) /\ Cardinality(upTo(i)) <= c /\ Cardinality(upTo(i)) \in Nat
        BY FS_Subset, FS_CardinalityType
  <2>2. i \in upTo(i)
        OBVIOUS
  <2>3. Cardinality(upTo(i)) # 0
        BY <2>1, <2>2, FS_EmptySet
  <2> QED BY <1>1, <2>1, <2>3 DEF Place
<1>3. ASSUME NEW i \in numbers, NEW j \in numbers, i < j
      PROVE  Place(numbers, i) < Place(numbers, j)
  <2>1. upTo(i) \subseteq upTo(j)
    <3>1. numbers \subseteq Nat
          OBVIOUS
    <3>2. \A k \in upTo(i) : k \in numbers /\ k <= j
          BY <1>3, <3>1
    <3> QED BY <3>2
  <2>2. j \in upTo(j) /\ j \notin upTo(i)
        BY <1>3
  <2> HIDE DEF upTo
  <2>3. Cardinality(upTo(i)) <= Cardinality(upTo(j)) /\ Cardinality(upTo(i)) # Cardinality(upTo(j))
        BY <1>2, <2>1, <2>2, FS_Subset
  <2> QED BY <1>1, <1>2, <2>3
<1>4. \A i, j \in numbers : Place(numbers, i) = Place(numbers, j) => i = j
  <2>1. \A i, j \in numbers : i = j \/ i < j \/ j < i
        OBVIOUS
  <2>2. \A i \in numbers : Place(numbers, i) \in 1..c
        BY <1>2
  <2> QED BY <1>1, <1>3, <2>1, <2>2
<1>5. f \in Injection(numbers, 1..c)
      BY <1>2, <1>4 DEF Injection, IsInjective
<1>6. f \in Surjection(numbers, 1..c)
  <2>1. IsFiniteSet(1..c) /\ Cardinality(1..c) = c
        BY <1>1, FS_Interval
  <2> HIDE DEF f
  <2> QED BY <1>5, <2>1, FS_Injection
<1>7. \A k \in 1..c : \E i \in numbers : Place(numbers, i) = k
      BY <1>6 DEF Surjection
<1> QED BY <1>1, <1>2, <1>3, <1>4, <1>7

\* The ascending list holds every number once, at its place.
LEMMA AscendingFacts ==
    ASSUME NEW numbers \in SUBSET Nat, IsFiniteSet(numbers)
    PROVE  /\ Cardinality(numbers) \in Nat /\ DOMAIN Ascending(numbers) = 1..Cardinality(numbers)
           /\ \A k \in 1..Cardinality(numbers) :
                 Ascending(numbers)[k] \in numbers /\ Place(numbers, Ascending(numbers)[k]) = k
           /\ \A i \in numbers : /\ Place(numbers, i) \in 1..Cardinality(numbers)
                                 /\ Ascending(numbers)[Place(numbers, i)] = i
           /\ \A k, l \in 1..Cardinality(numbers) :
                 k < l => Ascending(numbers)[k] < Ascending(numbers)[l]
<1> DEFINE c == Cardinality(numbers)
           who(k) == CHOOSE i \in numbers : Place(numbers, i) = k
<1>1. /\ c \in Nat
      /\ \A i \in numbers : Place(numbers, i) \in 1..c
      /\ \A i, j \in numbers : i < j => Place(numbers, i) < Place(numbers, j)
      /\ \A i, j \in numbers : Place(numbers, i) = Place(numbers, j) => i = j
      /\ \A k \in 1..c : \E i \in numbers : Place(numbers, i) = k
      BY PlaceFacts
<1>2. \A k \in 1..c : who(k) \in numbers /\ Place(numbers, who(k)) = k
      BY <1>1
<1>3. Ascending(numbers) = [k \in 1..c |-> who(k)]
      BY DEF Ascending
<1> HIDE DEF c, who
<1>4. \A i \in numbers : who(Place(numbers, i)) = i
      BY <1>1, <1>2
<1>5. ASSUME NEW k \in 1..c, NEW l \in 1..c, k < l
      PROVE  who(k) < who(l)
  <2>1. who(k) \in Nat /\ who(l) \in Nat /\ who(k) \in numbers /\ who(l) \in numbers
        BY <1>2
  <2>2. who(k) # who(l)
        BY <1>2, <1>5
  <2>3. ~(who(l) < who(k))
        BY <1>1, <1>2, <1>5, <2>1
  <2> QED BY <2>1, <2>2, <2>3
<1> QED BY <1>1, <1>2, <1>3, <1>4, <1>5 DEF c

-----------------------------------------------------------------------------
(* Positions that stay.                                                      *)

\* What stays of a list has each element at its position's place, and nothing else.
LEMMA KeptFacts ==
    ASSUME NEW S, NEW list \in Seq(S), NEW kept \in SUBSET DOMAIN list
    PROVE  /\ Kept(list, kept) \in Seq(S) /\ Cardinality(kept) \in Nat
           /\ DOMAIN Kept(list, kept) = 1..Cardinality(kept)
           /\ \A i \in kept : /\ Place(kept, i) \in DOMAIN Kept(list, kept)
                              /\ Kept(list, kept)[Place(kept, i)] = list[i]
           /\ \A k \in DOMAIN Kept(list, kept) :
                 \E i \in kept : k = Place(kept, i) /\ Kept(list, kept)[k] = list[i]
<1> DEFINE c == Cardinality(kept)
           at == Ascending(kept)
<1>1. Len(list) \in Nat /\ DOMAIN list = 1..Len(list)
      OBVIOUS
<1>2. kept \in SUBSET (0..Len(list)) /\ kept \in SUBSET Nat
      BY <1>1
<1>3. IsFiniteSet(kept)
      BY <1>1, <1>2, NumbersFinite
<1>4. /\ c \in Nat /\ DOMAIN at = 1..c
      /\ \A k \in 1..c : at[k] \in kept /\ Place(kept, at[k]) = k
      /\ \A i \in kept : Place(kept, i) \in 1..c /\ at[Place(kept, i)] = i
      BY <1>2, <1>3, AscendingFacts
<1>5. Kept(list, kept) = [k \in 1..c |-> list[at[k]]]
      BY DEF Kept
<1> HIDE DEF c, at
<1>6. \A k \in 1..c : list[at[k]] \in S
      BY <1>1, <1>4
<1>7. Kept(list, kept) \in [1..c -> S]
      BY <1>5, <1>6
<1>8. Kept(list, kept) \in Seq(S) /\ DOMAIN Kept(list, kept) = 1..c
      BY <1>4, <1>7
<1>9. \A i \in kept : /\ Place(kept, i) \in DOMAIN Kept(list, kept)
                      /\ Kept(list, kept)[Place(kept, i)] = list[i]
      BY <1>4, <1>5
<1>10. \A k \in 1..c : at[k] \in kept /\ k = Place(kept, at[k]) /\ Kept(list, kept)[k] = list[at[k]]
      BY <1>4, <1>5
<1> QED BY <1>4, <1>8, <1>9, <1>10 DEF c

-----------------------------------------------------------------------------
(* The largest of numbers.                                                   *)

LEMMA LargestNumber ==
    ASSUME NEW numbers \in SUBSET Nat, IsFiniteSet(numbers), numbers # {}
    PROVE  \E x \in numbers : \A y \in numbers : y <= x
<1> DEFINE c == Cardinality(numbers)
           asc == Ascending(numbers)
<1>1. /\ c \in Nat
      /\ \A k \in 1..c : asc[k] \in numbers
      /\ \A i \in numbers : Place(numbers, i) \in 1..c /\ asc[Place(numbers, i)] = i
      /\ \A k, l \in 1..c : k < l => asc[k] < asc[l]
      BY AscendingFacts
<1> HIDE DEF c, asc
<1>2. c \in 1..c
  <2>1. PICK i \in numbers : TRUE
        OBVIOUS
  <2>2. Place(numbers, i) \in 1..c
        BY <1>1
  <2> QED BY <1>1, <2>2
<1>3. ASSUME NEW y \in numbers PROVE y <= asc[c]
  <2>1. Place(numbers, y) = c \/ Place(numbers, y) < c
        BY <1>1
  <2>2. y \in Nat /\ asc[c] \in Nat
        BY <1>1, <1>2
  <2> QED BY <1>1, <1>2, <2>1, <2>2
<1> QED BY <1>1, <1>2, <1>3

=============================================================================
