-------------------------------- MODULE Sums --------------------------------
(***************************************************************************)
(* Sums over finite sets, and what the arithmetic of smooth weighted round *)
(* robin does to them: every candidate earns its weight, the largest pays  *)
(* what all have earned.  A bound for the sums over all sets at once is    *)
(* what such a step keeps, as no bound for single weights is.  There is no *)
(* state here: the lemmas are about functions from a finite set.           *)
(***************************************************************************)
EXTENDS Integers, FiniteSetTheorems, WellFoundedInduction, TLAPS

-----------------------------------------------------------------------------
(* Sums over finite sets, by what adding an element does to them. *)
IsSum(F, w, S) == /\ F \in [SUBSET S -> Int]
                  /\ F[{}] = 0
                  /\ \A A \in SUBSET S : \A a \in S \ A :
                        F[A \cup {a}] = F[A] + w[a]

SumOver(w, S) == CHOOSE F : IsSum(F, w, S)

\* Among sets of elements of a finite set there is one with the fewest elements.
LEMMA SmallestSet ==
  ASSUME NEW S, IsFiniteSet(S), NEW X, X \subseteq SUBSET S, X # {}
  PROVE  \E A \in X : \A B \in X : Cardinality(A) <= Cardinality(B)
<1> DEFINE sizes == {Cardinality(A) : A \in X}
<1>1. \A A \in X : Cardinality(A) \in Nat
  BY FS_Subset, FS_CardinalityType
<1>2. sizes \subseteq Nat /\ sizes # {}
  BY <1>1
<1>3. PICK k \in sizes : \A l \in sizes : ~(<<l, k>> \in OpToRel(<, Nat))
  <2> HIDE DEF sizes
  <2> QED
    BY <1>2, NatLessThanWellFounded, WFMin
<1>4. \A l \in sizes : k <= l
  <2> TAKE l \in sizes
  <2>1. k \in Nat /\ l \in Nat
    BY <1>2
  <2>2. l < k => <<l, k>> \in OpToRel(<, Nat)
    BY <2>1 DEF OpToRel
  <2>3. ~(l < k)
    BY <1>3, <2>2, Zenon
  <2> QED
    BY <2>1, <2>3
<1>5. PICK A \in X : k = Cardinality(A)
  OBVIOUS
<1> QED
  BY <1>4, <1>5

\* And one with the most.
LEMMA LargestSet ==
  ASSUME NEW S, IsFiniteSet(S), NEW X, X \subseteq SUBSET S, X # {}
  PROVE  \E A \in X : \A B \in X : Cardinality(B) <= Cardinality(A)
<1> DEFINE gaps == {Cardinality(S) - Cardinality(A) : A \in X}
<1>1. \A A \in X : /\ Cardinality(A) \in Nat /\ Cardinality(S) \in Nat
                   /\ Cardinality(A) <= Cardinality(S)
  BY FS_Subset, FS_CardinalityType
<1>2. gaps \subseteq Nat /\ gaps # {}
  BY <1>1
<1>3. PICK k \in gaps : \A l \in gaps : ~(<<l, k>> \in OpToRel(<, Nat))
  <2> HIDE DEF gaps
  <2> QED
    BY <1>2, NatLessThanWellFounded, WFMin
<1>4. \A l \in gaps : k <= l
  <2> TAKE l \in gaps
  <2>1. k \in Nat /\ l \in Nat
    BY <1>2
  <2>2. l < k => <<l, k>> \in OpToRel(<, Nat)
    BY <2>1 DEF OpToRel
  <2>3. ~(l < k)
    BY <1>3, <2>2, Zenon
  <2> QED
    BY <2>1, <2>3
<1>5. PICK A \in X : k = Cardinality(S) - Cardinality(A)
  OBVIOUS
<1>6. ASSUME NEW B \in X  PROVE  Cardinality(B) <= Cardinality(A)
  <2>1. k <= Cardinality(S) - Cardinality(B)
    BY <1>4
  <2> QED
    BY <1>1, <1>5, <2>1
<1> QED
  BY <1>6

\* Taking an element away.
LEMMA SumOfRest ==
  ASSUME NEW S, NEW w, NEW F, IsSum(F, w, S), NEW A \in SUBSET S, NEW a \in A
  PROVE  F[A] = F[A \ {a}] + w[a]
<1>1. A \ {a} \in SUBSET S /\ a \in S \ (A \ {a}) /\ (A \ {a}) \cup {a} = A
  OBVIOUS
<1> QED
  BY <1>1 DEF IsSum

\* A set is smaller by one without one of its elements.
LEMMA SmallerWithout ==
  ASSUME NEW S, IsFiniteSet(S), NEW A \in SUBSET S, NEW a \in A
  PROVE  /\ A \ {a} \in SUBSET S
         /\ Cardinality(A) \in Nat \ {0}
         /\ Cardinality(A \ {a}) = Cardinality(A) - 1
<1>1. IsFiniteSet(A)
  BY FS_Subset
<1>2. Cardinality(A \ {a}) = Cardinality(A) - 1 /\ IsFiniteSet(A \ {a})
  BY <1>1, FS_RemoveElement
<1>3. Cardinality(A) \in Nat /\ Cardinality(A \ {a}) \in Nat
  BY <1>1, <1>2, FS_CardinalityType
<1> QED
  BY <1>2, <1>3

\* Every function to the integers has its sums: a smallest set without could
\* be summed from the one that lacks an element.
LEMMA SumsExist ==
  ASSUME NEW S, IsFiniteSet(S), NEW w \in [S -> Int]
  PROVE  IsSum(SumOver(w, S), w, S)
<1> DEFINE X == {A \in SUBSET S : ~ \E F : IsSum(F, w, A)}
<1>1. X = {}
  <2> SUFFICES ASSUME X # {}  PROVE FALSE
    OBVIOUS
  <2>1. PICK A \in X : \A B \in X : Cardinality(A) <= Cardinality(B)
    BY SmallestSet, Zenon
  <2>2. CASE A = {}
    <3>1. IsSum([B \in SUBSET {} |-> 0], w, {})
      BY DEF IsSum
    <3> QED
      BY <2>1, <2>2, <3>1
  <2>3. CASE A # {}
    <3>1. PICK a : a \in A
      BY <2>3
    <3>2. A \ {a} \in SUBSET S /\ ~ Cardinality(A) <= Cardinality(A \ {a})
      BY <3>1, SmallerWithout, A \in SUBSET S
    <3>3. PICK F : IsSum(F, w, A \ {a})
      BY <2>1, <3>2
    <3> DEFINE H == [B \in SUBSET A |-> F[B \ {a}] + (IF a \in B THEN w[a] ELSE 0)]
    <3>4. \A B \in SUBSET A : B \ {a} \in SUBSET (A \ {a}) /\ F[B \ {a}] \in Int
      BY <3>3 DEF IsSum
    <3>5. w[a] \in Int
      BY <3>1
    <3>6. H \in [SUBSET A -> Int]
      <4> SUFFICES ASSUME NEW B \in SUBSET A
                   PROVE  F[B \ {a}] + (IF a \in B THEN w[a] ELSE 0) \in Int
        BY Zenon
      <4>1. F[B \ {a}] \in Int
        BY <3>4
      <4> QED
        BY <3>5, <4>1
    <3>7. H[{}] = 0
      <4>1. {} \ {a} = {} /\ {} \in SUBSET A /\ a \notin {}
        OBVIOUS
      <4>2. F[{}] = 0
        BY <3>3 DEF IsSum
      <4> QED
        BY <4>1, <4>2
    <3>8. ASSUME NEW B \in SUBSET A, NEW b \in A \ B
          PROVE  H[B \cup {b}] = H[B] + w[b]
      <4>1. B \cup {b} \in SUBSET A
        OBVIOUS
      <4>2. CASE b = a
        <5>1. (B \cup {b}) \ {a} = B \ {a} /\ a \in B \cup {b} /\ a \notin B
          BY <4>2
        <5>2. H[B \cup {b}] = F[B \ {a}] + w[a] /\ H[B] = F[B \ {a}] + 0
          BY <4>1, <5>1
        <5>3. F[B \ {a}] \in Int
          BY <3>4
        <5> HIDE DEF H
        <5> QED
          BY <3>5, <4>2, <5>2, <5>3
      <4>3. CASE b # a
        <5>1. /\ (B \cup {b}) \ {a} = (B \ {a}) \cup {b}
              /\ b \in (A \ {a}) \ (B \ {a})
              /\ a \in B \cup {b} <=> a \in B
          BY <4>3
        <5>2. F[(B \ {a}) \cup {b}] = F[B \ {a}] + w[b]
          BY <3>3, <3>4, <5>1 DEF IsSum
        <5>3. w[b] \in Int /\ F[B \ {a}] \in Int
          BY <3>4
        <5>4. H[B \cup {b}] = F[(B \ {a}) \cup {b}] + (IF a \in B THEN w[a] ELSE 0)
          BY <4>1, <5>1
        <5>5. H[B] = F[B \ {a}] + (IF a \in B THEN w[a] ELSE 0)
          OBVIOUS
        <5> HIDE DEF H
        <5> QED
          BY <3>5, <5>2, <5>3, <5>4, <5>5
      <4> QED
        BY <4>2, <4>3
    <3>9. IsSum(H, w, A)
      <4> HIDE DEF H
      <4> QED
        BY <3>6, <3>7, <3>8 DEF IsSum
    <3> QED
      BY <2>1, <3>9
  <2> QED
    BY <2>2, <2>3
<1>2. \E F : IsSum(F, w, S)
  BY <1>1
<1> QED
  BY <1>2 DEF SumOver

\* And only one: a smallest set on which two differ has a smaller one.
LEMMA SumsAgree ==
  ASSUME NEW S, IsFiniteSet(S), NEW w, NEW F, NEW H,
         IsSum(F, w, S), IsSum(H, w, S), NEW A \in SUBSET S
  PROVE  F[A] = H[A]
<1> DEFINE X == {B \in SUBSET S : F[B] # H[B]}
<1> SUFFICES ASSUME X # {}  PROVE FALSE
  OBVIOUS
<1>1. PICK B \in X : \A C \in X : Cardinality(B) <= Cardinality(C)
  BY SmallestSet, Zenon
<1>2. B # {}
  BY <1>1 DEF IsSum
<1>3. PICK b : b \in B
  BY <1>2
<1>4. B \ {b} \in SUBSET S /\ ~ Cardinality(B) <= Cardinality(B \ {b})
  BY <1>3, SmallerWithout, B \in SUBSET S
<1>5. F[B \ {b}] = H[B \ {b}]
  BY <1>1, <1>4
<1>6. F[B] = F[B \ {b}] + w[b] /\ H[B] = H[B \ {b}] + w[b]
  BY <1>3, SumOfRest, B \in SUBSET S
<1> QED
  BY <1>5, <1>6

\* v is w within B, and u more within L.
Joins(S, v, w, B, u, L) ==
    /\ IsFiniteSet(S) /\ B \in SUBSET S /\ L \in SUBSET S
    /\ w \in [S -> Int] /\ u \in [S -> Int] /\ v \in [S -> Int]
    /\ \A b \in S : v[b] = (IF b \in B THEN w[b] ELSE 0)
                           + (IF b \in L THEN u[b] ELSE 0)

SumsJoin(S, v, w, B, u, L) ==
    \A A \in SUBSET S :
        SumOver(v, S)[A] = SumOver(w, S)[A \cap B] + SumOver(u, S)[A \cap L]

\* The sums of a function that joins two are the sums of the two.
LEMMA SumOfRaised ==
  ASSUME NEW S, NEW B, NEW L, NEW w, NEW u, NEW v, Joins(S, v, w, B, u, L)
  PROVE  SumsJoin(S, v, w, B, u, L)
<1> SUFFICES ASSUME NEW A \in SUBSET S
             PROVE  SumOver(v, S)[A] = SumOver(w, S)[A \cap B] + SumOver(u, S)[A \cap L]
  BY DEF SumsJoin
<1> DEFINE F == SumOver(w, S)
           G == SumOver(u, S)
           H == [C \in SUBSET S |-> F[C \cap B] + G[C \cap L]]
<1> USE DEF Joins
<1>1. IsSum(F, w, S) /\ IsSum(G, u, S) /\ IsSum(SumOver(v, S), v, S)
  BY SumsExist
<1> HIDE DEF F, G
<1>2. \A C \in SUBSET S : F[C] \in Int /\ G[C] \in Int
  BY <1>1 DEF IsSum
<1>3. H \in [SUBSET S -> Int]
  <2> SUFFICES ASSUME NEW C \in SUBSET S  PROVE F[C \cap B] + G[C \cap L] \in Int
    BY Zenon
  <2>1. F[C \cap B] \in Int /\ G[C \cap L] \in Int
    BY <1>2
  <2> QED
    BY <2>1
<1>4. H[{}] = 0
  <2>1. F[{}] = 0 /\ G[{}] = 0 /\ {} \cap B = {} /\ {} \cap L = {} /\ {} \in SUBSET S
    BY <1>1 DEF IsSum
  <2> QED
    BY <2>1
<1>5. ASSUME NEW C \in SUBSET S, NEW a \in S \ C
      PROVE  H[C \cup {a}] = H[C] + v[a]
  <2>1. H[C \cup {a}] = F[(C \cup {a}) \cap B] + G[(C \cup {a}) \cap L]
    BY C \cup {a} \in SUBSET S
  <2>2. H[C] = F[C \cap B] + G[C \cap L]
    OBVIOUS
  <2>3. F[(C \cup {a}) \cap B] = F[C \cap B] + (IF a \in B THEN w[a] ELSE 0)
    <3>0. F[C \cap B] \in Int
      BY <1>2
    <3>1. CASE a \in B
      <4>1. (C \cup {a}) \cap B = (C \cap B) \cup {a} /\ a \in S \ (C \cap B)
        BY <3>1
      <4>2. F[(C \cap B) \cup {a}] = F[C \cap B] + w[a]
        BY <1>1, <4>1 DEF IsSum
      <4> QED
        BY <3>1, <4>1, <4>2
    <3>2. CASE a \notin B
      <4>1. (C \cup {a}) \cap B = C \cap B
        BY <3>2
      <4>2. (IF a \in B THEN w[a] ELSE 0) = 0
        BY <3>2
      <4>3. F[(C \cup {a}) \cap B] = F[C \cap B]
        BY <4>1, Zenon
      <4>4. F[C \cap B] = F[C \cap B] + 0
        BY <3>0
      <4> HIDE DEF Joins
      <4> QED
        BY <4>2, <4>3, <4>4, Zenon
    <3> QED
      BY <3>1, <3>2
  <2>4. G[(C \cup {a}) \cap L] = G[C \cap L] + (IF a \in L THEN u[a] ELSE 0)
    <3>0. G[C \cap L] \in Int
      BY <1>2
    <3>1. CASE a \in L
      <4>1. (C \cup {a}) \cap L = (C \cap L) \cup {a} /\ a \in S \ (C \cap L)
        BY <3>1
      <4>2. G[(C \cap L) \cup {a}] = G[C \cap L] + u[a]
        BY <1>1, <4>1 DEF IsSum
      <4> QED
        BY <3>1, <4>1, <4>2
    <3>2. CASE a \notin L
      <4>1. (C \cup {a}) \cap L = C \cap L
        BY <3>2
      <4>2. (IF a \in L THEN u[a] ELSE 0) = 0
        BY <3>2
      <4>3. G[(C \cup {a}) \cap L] = G[C \cap L]
        BY <4>1, Zenon
      <4>4. G[C \cap L] = G[C \cap L] + 0
        BY <3>0
      <4> HIDE DEF Joins
      <4> QED
        BY <4>2, <4>3, <4>4, Zenon
    <3> QED
      BY <3>1, <3>2
  <2>5. v[a] = (IF a \in B THEN w[a] ELSE 0) + (IF a \in L THEN u[a] ELSE 0)
    OBVIOUS
  <2>6. /\ F[C \cap B] \in Int /\ G[C \cap L] \in Int
        /\ (IF a \in B THEN w[a] ELSE 0) \in Int
        /\ (IF a \in L THEN u[a] ELSE 0) \in Int
    BY <1>2
  <2> HIDE DEF H
  <2> QED
    BY <2>1, <2>2, <2>3, <2>4, <2>5, <2>6
<1>6. IsSum(H, v, S)
  <2> HIDE DEF H
  <2> QED
    BY <1>3, <1>4, <1>5 DEF IsSum
<1>7. SumOver(v, S)[A] = H[A]
  <2> HIDE DEF H
  <2> QED
    BY <1>1, <1>6, SumsAgree
<1> QED
  BY <1>7 DEF F, G

\* Taking from one element.
Charged(S, v, w, b, x) ==
    /\ IsFiniteSet(S) /\ w \in [S -> Int] /\ b \in S /\ x \in Int
    /\ v = [w EXCEPT ![b] = @ - x]

\* Charging one element charges the sets that it is in.
LEMMA SumOfCharged ==
  ASSUME NEW S, NEW v, NEW w, NEW b, NEW x, NEW A,
         Charged(S, v, w, b, x), A \in SUBSET S
  PROVE  SumOver(v, S)[A] = SumOver(w, S)[A] - (IF b \in A THEN x ELSE 0)
<1> DEFINE F == SumOver(w, S)
           H == [C \in SUBSET S |-> F[C] - (IF b \in C THEN x ELSE 0)]
<1>0. /\ IsFiniteSet(S) /\ b \in S /\ x \in Int
      /\ w \in [S -> Int] /\ v \in [S -> Int]
      /\ \A a \in S : v[a] = IF a = b THEN w[a] - x ELSE w[a]
  BY DEF Charged
<1>1. IsSum(F, w, S) /\ IsSum(SumOver(v, S), v, S)
  BY <1>0, SumsExist
<1> HIDE DEF F
<1>2. \A C \in SUBSET S : F[C] \in Int
  BY <1>1 DEF IsSum
<1>3. H \in [SUBSET S -> Int]
  <2> SUFFICES ASSUME NEW C \in SUBSET S
               PROVE  F[C] - (IF b \in C THEN x ELSE 0) \in Int
    BY Zenon
  <2>1. F[C] \in Int
    BY <1>2
  <2> QED
    BY <1>0, <2>1
<1>4. H[{}] = 0
  <2>1. F[{}] = 0 /\ {} \in SUBSET S
    BY <1>1 DEF IsSum
  <2> QED
    BY <2>1
<1>5. ASSUME NEW C \in SUBSET S, NEW a \in S \ C
      PROVE  H[C \cup {a}] = H[C] + v[a]
  <2>1. H[C \cup {a}] = F[C \cup {a}] - (IF b \in C \cup {a} THEN x ELSE 0)
    BY C \cup {a} \in SUBSET S
  <2>2. H[C] = F[C] - (IF b \in C THEN x ELSE 0)
    OBVIOUS
  <2>3. F[C \cup {a}] = F[C] + w[a]
    BY <1>1 DEF IsSum
  <2>4. F[C] \in Int /\ w[a] \in Int /\ x \in Int
    BY <1>0, <1>2
  <2>5. v[a] = IF a = b THEN w[a] - x ELSE w[a]
    BY <1>0
  <2>6. /\ a = b => b \in C \cup {a} /\ b \notin C
        /\ a # b => (b \in C \cup {a} <=> b \in C)
    OBVIOUS
  <2> HIDE DEF H
  <2> QED
    BY <2>1, <2>2, <2>3, <2>4, <2>5, <2>6
<1>6. IsSum(H, v, S)
  <2> HIDE DEF H
  <2> QED
    BY <1>3, <1>4, <1>5 DEF IsSum
<1>7. SumOver(v, S)[A] = H[A]
  <2> HIDE DEF H
  <2> QED
    BY <1>0, <1>1, <1>6, SumsAgree
<1> QED
  BY <1>7 DEF F

\* Sums of what is not negative are not negative.
LEMMA SumNotNegative ==
  ASSUME NEW S, IsFiniteSet(S), NEW w \in [S -> Int], \A b \in S : w[b] >= 0,
         NEW A \in SUBSET S
  PROVE  SumOver(w, S)[A] >= 0
<1> DEFINE F == SumOver(w, S)
           X == {B \in SUBSET S : ~ F[B] >= 0}
<1>1. IsSum(F, w, S)
  BY SumsExist
<1> HIDE DEF F
<1>2. X = {}
  <2> SUFFICES ASSUME X # {}  PROVE FALSE
    OBVIOUS
  <2>1. PICK B \in X : \A C \in X : Cardinality(B) <= Cardinality(C)
    BY SmallestSet, Zenon
  <2>2. F[{}] = 0 /\ \A C \in SUBSET S : F[C] \in Int
    BY <1>1 DEF IsSum
  <2>a. B # {}
    <3>1. ~ F[B] >= 0
      BY <2>1
    <3>2. F[{}] >= 0
      BY <2>2
    <3> QED
      BY <3>1, <3>2
  <2>3. PICK b : b \in B
    BY <2>a
  <2>4. B \ {b} \in SUBSET S /\ ~ Cardinality(B) <= Cardinality(B \ {b})
    BY <2>3, SmallerWithout, B \in SUBSET S
  <2>5. F[B \ {b}] >= 0
    BY <2>1, <2>4
  <2>6. F[B] = F[B \ {b}] + w[b]
    BY <1>1, <2>3, SumOfRest, B \in SUBSET S
  <2>7. w[b] \in Int /\ w[b] >= 0 /\ F[B \ {b}] \in Int
    BY <2>2, <2>3, <2>4
  <2>8. F[B] >= 0
    BY <2>5, <2>6, <2>7
  <2> QED
    BY <2>8
<1> QED
  BY <1>2 DEF F

\* And a part of a set has no more than the set.
LEMMA SumOfPart ==
  ASSUME NEW S, IsFiniteSet(S), NEW w \in [S -> Int], \A b \in S : w[b] >= 0,
         NEW B \in SUBSET S, NEW A \in SUBSET B
  PROVE  /\ SumOver(w, S)[A] \in Nat
         /\ SumOver(w, S)[B] \in Nat
         /\ SumOver(w, S)[A] <= SumOver(w, S)[B]
<1> DEFINE F == SumOver(w, S)
<1>1. IsSum(F, w, S)
  BY SumsExist
<1>2. F[A] \in Int /\ F[B] \in Int /\ F[B \ A] \in Int
  <2>1. A \in SUBSET S /\ B \ A \in SUBSET S
    OBVIOUS
  <2> QED
    BY <1>1, <2>1 DEF IsSum
<1>3. F[A] >= 0 /\ F[B] >= 0 /\ F[B \ A] >= 0
  <2>1. A \in SUBSET S /\ B \ A \in SUBSET S
    OBVIOUS
  <2> QED
    BY <2>1, SumNotNegative
<1>4. F[B] = F[B \cap A] + F[B \cap (S \ A)]
  <2>1. Joins(S, w, w, A, w, S \ A)
    BY DEF Joins
  <2>2. SumsJoin(S, w, w, A, w, S \ A)
    BY <2>1, SumOfRaised
  <2>3. B \in SUBSET S
    OBVIOUS
  <2> QED
    BY <2>2, <2>3 DEF SumsJoin
<1>5. B \cap A = A /\ B \cap (S \ A) = B \ A
  OBVIOUS
<1> HIDE DEF F
<1>6. F[A] \in Nat /\ F[B] \in Nat /\ F[A] <= F[B]
  BY <1>2, <1>3, <1>4, <1>5
<1> QED
  BY <1>6 DEF F

-----------------------------------------------------------------------------
(* Bounds on the sums, one for each number of summands: g grows by twice d,*)
(* and d falls by t from one to the next.                                  *)
Ladder(n, g, d, t) ==
    /\ n \in Nat /\ t \in Nat
    /\ g \in [0 .. n -> Int] /\ d \in [0 .. n -> Int]
    /\ g[0] >= 0
    /\ \A k \in 0 .. n - 1 : d[k] >= 0 /\ g[k + 1] = g[k] + 2 * d[k]
    /\ \A k \in 1 .. n - 1 : d[k - 1] = d[k] + t

SumsWithin(w, S, g) ==
    \A A \in SUBSET S : /\ 2 * SumOver(w, S)[A] <= g[Cardinality(A)]
                        /\ 2 * SumOver(w, S)[A] >= -g[Cardinality(A)]

\* The weights v after a call that finds p, raises those of L by u and charges
\* best with x.
Raises(S, p, u, L, best, x, v) ==
    /\ IsFiniteSet(S) /\ L \in SUBSET S /\ best \in S /\ x \in Int
    /\ p \in [S -> Int] /\ u \in [S -> Int] /\ v \in [S -> Int]
    /\ \A b \in S : u[b] >= 0
    /\ \A b \in S : v[b] = p[b] + (IF b \in L THEN u[b] ELSE 0)
                           - (IF b = best THEN x ELSE 0)

\* It charges the largest of those that it raised with all that it raised.
Serves(S, p, u, L, best, v) ==
    /\ Raises(S, p, u, L, best, SumOver(u, S)[L], v)
    /\ best \in L
    /\ \A a \in L : p[a] + u[a] <= p[best] + u[best]

SumsRaised(S, p, u, L, best, x, v) ==
    \A A \in SUBSET S :
        /\ SumOver(v, S)[A] \in Int /\ SumOver(p, S)[A] \in Int
        /\ SumOver(v, S)[A] = SumOver(p, S)[A] + SumOver(u, S)[A \cap L]
                              - (IF best \in A THEN x ELSE 0)

\* What raising some and charging one does to a sum.
LEMMA SumsAfter ==
  ASSUME NEW S, NEW p, NEW u, NEW L, NEW best, NEW x, NEW v,
         Raises(S, p, u, L, best, x, v)
  PROVE  SumsRaised(S, p, u, L, best, x, v)
<1> SUFFICES ASSUME NEW A \in SUBSET S
             PROVE  /\ SumOver(v, S)[A] \in Int /\ SumOver(p, S)[A] \in Int
                    /\ SumOver(v, S)[A] = SumOver(p, S)[A] + SumOver(u, S)[A \cap L]
                                          - (IF best \in A THEN x ELSE 0)
  BY DEF SumsRaised
<1> USE DEF Raises
<1> DEFINE r == [b \in S |-> p[b] + (IF b \in L THEN u[b] ELSE 0)]
<1>1. r \in [S -> Int] /\ \A b \in S : r[b] = p[b] + (IF b \in L THEN u[b] ELSE 0)
  OBVIOUS
<1> HIDE DEF r
<1>2. \A b \in S : r[b] = (IF b \in S THEN p[b] ELSE 0) + (IF b \in L THEN u[b] ELSE 0)
  BY <1>1
<1>3. Joins(S, r, p, S, u, L)
  BY <1>1, <1>2 DEF Joins
<1>4. SumOver(r, S)[A] = SumOver(p, S)[A] + SumOver(u, S)[A \cap L]
  <2>1. SumOver(r, S)[A] = SumOver(p, S)[A \cap S] + SumOver(u, S)[A \cap L]
    <3>1. SumsJoin(S, r, p, S, u, L)
      BY <1>3, SumOfRaised
    <3> HIDE DEF Raises
    <3> QED
      BY <3>1 DEF SumsJoin
  <2>2. A \cap S = A
    OBVIOUS
  <2> QED
    BY <2>1, <2>2, Zenon
<1>5. \A b \in S : v[b] = IF b = best THEN r[b] - x ELSE r[b]
  BY <1>1
<1>6. Charged(S, v, r, best, x)
  <2>1. v = [r EXCEPT ![best] = @ - x]
    <3> DEFINE z == [r EXCEPT ![best] = @ - x]
    <3>1. z \in [S -> Int]
      BY <1>1
    <3>2. \A b \in S : v[b] = z[b]
      BY <1>1, <1>5
    <3>3. v \in [S -> Int]
      OBVIOUS
    <3> HIDE DEF z, Raises
    <3>4. v = z
      BY <3>1, <3>2, <3>3
    <3> QED
      BY <3>4 DEF z
  <2> QED
    BY <1>1, <2>1 DEF Charged
<1>7. SumOver(v, S)[A] = SumOver(r, S)[A] - (IF best \in A THEN x ELSE 0)
  BY <1>6, SumOfCharged
<1>8. SumOver(v, S)[A] \in Int /\ SumOver(p, S)[A] \in Int
  <2>1. IsSum(SumOver(v, S), v, S) /\ IsSum(SumOver(p, S), p, S)
    BY SumsExist
  <2> QED
    BY <2>1 DEF IsSum
<1>9. SumOver(u, S)[A \cap L] \in Nat
  BY SumOfPart
<1> QED
  BY <1>4, <1>7, <1>8, <1>9

\* When all that was raised is charged to one, sums with it do not grow and sums
\* without it do not shrink; nor do those with nothing raised, or with all of it.
LEMMA SumsAtCall ==
  ASSUME NEW S, NEW p, NEW u, NEW L, NEW best, NEW v, NEW A,
         Serves(S, p, u, L, best, v), A \in SUBSET S
  PROVE  /\ SumOver(v, S)[A] \in Int /\ SumOver(p, S)[A] \in Int
         /\ best \in A => SumOver(v, S)[A] <= SumOver(p, S)[A]
         /\ best \notin A => SumOver(v, S)[A] >= SumOver(p, S)[A]
         /\ A \cap L = {} => SumOver(v, S)[A] <= SumOver(p, S)[A]
         /\ L \subseteq A => SumOver(v, S)[A] >= SumOver(p, S)[A]
<1> DEFINE W == SumOver(u, S)
<1>0. /\ IsFiniteSet(S) /\ u \in [S -> Int] /\ \A b \in S : u[b] >= 0
      /\ L \in SUBSET S /\ best \in L
  BY DEF Serves, Raises
<1>1. W[A \cap L] \in Nat /\ W[L] \in Nat /\ W[A \cap L] <= W[L]
  <2>1. A \cap L \in SUBSET L
    OBVIOUS
  <2> QED
    BY <1>0, <2>1, SumOfPart
<1> HIDE DEF W
<1>2. /\ SumOver(v, S)[A] \in Int /\ SumOver(p, S)[A] \in Int
      /\ SumOver(v, S)[A] = SumOver(p, S)[A] + W[A \cap L]
                             - (IF best \in A THEN W[L] ELSE 0)
  <2> DEFINE x == W[L]
  <2>1. Raises(S, p, u, L, best, x, v)
    BY DEF W, Serves
  <2> HIDE DEF x
  <2>2. SumsRaised(S, p, u, L, best, x, v)
    BY <2>1, SumsAfter
  <2> QED
    BY <2>2 DEF W, x, SumsRaised
<1>3. A \cap L = {} => W[A \cap L] = 0 /\ best \notin A
  <2> SUFFICES ASSUME A \cap L = {}  PROVE W[{}] = 0 /\ best \notin A
    BY Zenon
  <2>1. IsSum(W, u, S)
    BY <1>0, SumsExist DEF W
  <2> QED
    BY <1>0, <2>1 DEF IsSum
<1>4. L \subseteq A => W[A \cap L] = W[L] /\ best \in A
  <2> SUFFICES ASSUME L \subseteq A  PROVE A \cap L = L /\ best \in A
    BY Zenon
  <2> QED
    BY <1>0
<1> QED
  BY <1>1, <1>2, <1>3, <1>4

\* Adding an element, as sets, numbers and rungs see it.
LEMMA LargerWith ==
  ASSUME NEW S, IsFiniteSet(S), NEW A \in SUBSET S, NEW a \in S \ A
  PROVE  /\ A \cup {a} \in SUBSET S
         /\ Cardinality(A) \in Nat
         /\ Cardinality(A \cup {a}) = Cardinality(A) + 1
         /\ Cardinality(A) + 1 <= Cardinality(S)
<1>1. IsFiniteSet(A) /\ A \cup {a} \in SUBSET S
  BY FS_Subset
<1>2. Cardinality(A \cup {a}) = Cardinality(A) + 1 /\ Cardinality(A) \in Nat
  BY <1>1, FS_AddElement, FS_CardinalityType
<1>3. Cardinality(A \cup {a}) <= Cardinality(S)
  BY <1>1, FS_Subset
<1> QED
  BY <1>1, <1>2, <1>3

\* Two rungs next to each other.
LEMMA Rungs ==
  ASSUME NEW n, NEW g, NEW d, NEW t, NEW k, Ladder(n, g, d, t),
         k \in Nat, 1 <= k, k + 1 <= n
  PROVE  /\ g[k + 1] = g[k] + 2 * d[k] /\ g[k] = g[k - 1] + 2 * d[k - 1]
         /\ d[k - 1] = d[k] + t
         /\ g[k + 1] \in Int /\ g[k - 1] \in Int /\ d[k] \in Int /\ d[k - 1] \in Int
         /\ t \in Int
<1>0. n \in Nat
  BY DEF Ladder
<1>1. k \in 0 .. n - 1 /\ k - 1 \in 0 .. n - 1
      /\ k \in 1 .. n - 1 /\ (k - 1) + 1 = k
      /\ k + 1 \in 0 .. n /\ k - 1 \in 0 .. n
      /\ k \in 0 .. n
  BY <1>0
<1>2. g[k + 1] = g[k] + 2 * d[k]
  BY <1>1 DEF Ladder
<1>3. g[(k - 1) + 1] = g[k - 1] + 2 * d[k - 1]
  BY <1>1 DEF Ladder
<1>4. d[k - 1] = d[k] + t
  BY <1>1 DEF Ladder
<1>5. /\ g[k + 1] \in Int /\ g[k - 1] \in Int /\ d[k] \in Int /\ d[k - 1] \in Int
      /\ t \in Int
  BY <1>1 DEF Ladder
<1> QED
  BY <1>1, <1>2, <1>3, <1>4, <1>5

\* Of the sets whose sum is too large the smallest has no best one, ...
LEMMA CallKeepsBelow ==
  ASSUME NEW S, NEW p, NEW u, NEW L, NEW best, NEW v, NEW g, NEW d, NEW t,
         Serves(S, p, u, L, best, v), SumsWithin(p, S, g),
         Ladder(Cardinality(S), g, d, t), SumOver(u, S)[L] <= t,
         NEW A \in SUBSET S
  PROVE  2 * SumOver(v, S)[A] <= g[Cardinality(A)]
<1> DEFINE V == SumOver(v, S)
           X == {B \in SUBSET S : ~ 2 * V[B] <= g[Cardinality(B)]}
<1>0. /\ IsFiniteSet(S) /\ p \in [S -> Int] /\ u \in [S -> Int] /\ v \in [S -> Int]
      /\ L \in SUBSET S /\ best \in L /\ best \in S /\ SumOver(u, S)[L] \in Int
  BY DEF Serves, Raises
<1> SUFFICES ASSUME X # {}  PROVE FALSE
  OBVIOUS
<1>1. PICK B \in X : \A C \in X : Cardinality(B) <= Cardinality(C)
  BY <1>0, SmallestSet, Zenon
<1> DEFINE k == Cardinality(B)
<1>2. B \in SUBSET S /\ ~ 2 * V[B] <= g[k]
  OBVIOUS
<1>3. IsSum(V, v, S)
  BY <1>0, SumsExist
<1>4. /\ V[B] \in Int /\ SumOver(p, S)[B] \in Int
      /\ best \in B => V[B] <= SumOver(p, S)[B]
      /\ B \cap L = {} => V[B] <= SumOver(p, S)[B]
  <2>1. V[B] \in Int /\ SumOver(p, S)[B] \in Int
    BY <1>2, SumsAtCall, Zenon
  <2>2. best \in B => V[B] <= SumOver(p, S)[B]
    BY <1>2, SumsAtCall
  <2>3. B \cap L = {} => V[B] <= SumOver(p, S)[B]
    BY <1>2, SumsAtCall
  <2> QED
    BY <2>1, <2>2, <2>3
<1>5. 2 * SumOver(p, S)[B] <= g[k]
  BY <1>2 DEF SumsWithin
<1>6. IsFiniteSet(B) /\ k \in Nat /\ k <= Cardinality(S) /\ Cardinality(S) \in Nat
  BY <1>0, <1>2, FS_Subset, FS_CardinalityType
<1>7. g[k] \in Int
  BY <1>6 DEF Ladder
<1> HIDE DEF V
<1>8. best \notin B /\ B \cap L # {}
  BY <1>2, <1>4, <1>5, <1>7
<1>9. PICK a \in B \cap L : TRUE
  BY <1>8
<1> DEFINE C == B \cup {best}
           D == B \ {a}
<1>10. /\ C \in SUBSET S /\ best \in C /\ Cardinality(C) = k + 1
       /\ k + 1 <= Cardinality(S) /\ C \ {best} = B
  BY <1>0, <1>2, <1>8, LargerWith
<1>11. /\ D \in SUBSET S /\ k >= 1 /\ Cardinality(D) = k - 1
  <2>1. a \in B /\ IsFiniteSet(S)
    BY <1>0
  <2> QED
    BY <1>2, <1>6, <2>1, SmallerWithout
<1>12. V[C] = V[B] + v[best] /\ V[B] = V[D] + v[a]
  <2>1. V[C] = V[C \ {best}] + v[best]
    BY <1>3, <1>10, SumOfRest
  <2>2. V[B] = V[B \ {a}] + v[a]
    BY <1>2, <1>3, SumOfRest, a \in B
  <2> QED
    BY <1>10, <2>1, <2>2
<1>13. V[C] \in Int /\ V[D] \in Int /\ v[best] \in Int /\ v[a] \in Int
  <2>1. \A E \in SUBSET S : V[E] \in Int
    BY <1>3 DEF IsSum
  <2> QED
    BY <1>0, <1>10, <1>11, <2>1
<1>14. 2 * V[C] <= g[k + 1]
  <2>1. V[C] <= SumOver(p, S)[C] /\ SumOver(p, S)[C] \in Int
    BY <1>10, SumsAtCall DEF V
  <2>2. 2 * SumOver(p, S)[C] <= g[k + 1]
    BY <1>10 DEF SumsWithin
  <2>3. g[k + 1] \in Int
    BY <1>6, <1>10 DEF Ladder
  <2> QED
    BY <1>13, <2>1, <2>2, <2>3
<1>15. 2 * V[D] <= g[k - 1]
  <2>1. ~ k <= k - 1
    BY <1>6
  <2>2. D \notin X
    BY <1>1, <1>11, <2>1
  <2> QED
    BY <1>11, <2>2
<1>16. /\ v[a] = p[a] + u[a] /\ v[best] = p[best] + u[best] - SumOver(u, S)[L]
       /\ p[a] + u[a] <= p[best] + u[best]
       /\ p[a] \in Int /\ u[a] \in Int /\ p[best] \in Int /\ u[best] \in Int
  <2>1. a \in L /\ a \in S /\ a # best
    BY <1>8, <1>0
  <2>2. p[a] \in Int /\ u[a] \in Int /\ p[best] \in Int /\ u[best] \in Int
    BY <1>0, <2>1
  <2>3. /\ v[a] = p[a] + (IF a \in L THEN u[a] ELSE 0)
                  - (IF a = best THEN SumOver(u, S)[L] ELSE 0)
        /\ v[best] = p[best] + (IF best \in L THEN u[best] ELSE 0)
                     - (IF best = best THEN SumOver(u, S)[L] ELSE 0)
    BY <1>0, <2>1 DEF Serves, Raises
  <2>4. p[a] + u[a] <= p[best] + u[best]
    BY <2>1 DEF Serves
  <2> QED
    BY <1>0, <2>1, <2>2, <2>3, <2>4
<1>17. /\ g[k + 1] = g[k] + 2 * d[k] /\ g[k] = g[k - 1] + 2 * d[k - 1]
       /\ d[k - 1] = d[k] + t
       /\ g[k + 1] \in Int /\ g[k - 1] \in Int /\ d[k] \in Int /\ d[k - 1] \in Int
       /\ t \in Int
  BY <1>6, <1>10, <1>11, Rungs
<1> HIDE DEF C, D, k, X
<1>18. 2 * v[best] < 2 * d[k]
  BY <1>2, <1>4, <1>7, <1>12, <1>13, <1>14, <1>17
<1>19. 2 * v[a] < 2 * d[k - 1]
  BY <1>0, <1>13, <1>16, <1>17, <1>18
<1> QED
  BY <1>2, <1>4, <1>7, <1>12, <1>13, <1>15, <1>17, <1>19

\* ... and of those whose sum is too small the largest has all raised ones.
LEMMA CallKeepsAbove ==
  ASSUME NEW S, NEW p, NEW u, NEW L, NEW best, NEW v, NEW g, NEW d, NEW t,
         Serves(S, p, u, L, best, v), SumsWithin(p, S, g),
         Ladder(Cardinality(S), g, d, t), SumOver(u, S)[L] <= t,
         NEW A \in SUBSET S
  PROVE  2 * SumOver(v, S)[A] >= -g[Cardinality(A)]
<1> DEFINE V == SumOver(v, S)
           X == {B \in SUBSET S : ~ 2 * V[B] >= -g[Cardinality(B)]}
<1>0. /\ IsFiniteSet(S) /\ p \in [S -> Int] /\ u \in [S -> Int] /\ v \in [S -> Int]
      /\ L \in SUBSET S /\ best \in L /\ best \in S /\ SumOver(u, S)[L] \in Int
  BY DEF Serves, Raises
<1> SUFFICES ASSUME X # {}  PROVE FALSE
  OBVIOUS
<1>1. PICK B \in X : \A C \in X : Cardinality(C) <= Cardinality(B)
  BY <1>0, LargestSet, Zenon
<1> DEFINE k == Cardinality(B)
<1>2. B \in SUBSET S /\ ~ 2 * V[B] >= -g[k]
  OBVIOUS
<1>3. IsSum(V, v, S)
  BY <1>0, SumsExist
<1>4. /\ V[B] \in Int /\ SumOver(p, S)[B] \in Int
      /\ best \notin B => V[B] >= SumOver(p, S)[B]
      /\ L \subseteq B => V[B] >= SumOver(p, S)[B]
  <2>1. V[B] \in Int /\ SumOver(p, S)[B] \in Int
    BY <1>2, SumsAtCall, Zenon
  <2>2. best \notin B => V[B] >= SumOver(p, S)[B]
    BY <1>2, SumsAtCall
  <2>3. L \subseteq B => V[B] >= SumOver(p, S)[B]
    BY <1>2, SumsAtCall
  <2> QED
    BY <2>1, <2>2, <2>3
<1>5. 2 * SumOver(p, S)[B] >= -g[k]
  BY <1>2 DEF SumsWithin
<1>6. IsFiniteSet(B) /\ k \in Nat /\ k <= Cardinality(S) /\ Cardinality(S) \in Nat
  BY <1>0, <1>2, FS_Subset, FS_CardinalityType
<1>7. g[k] \in Int
  BY <1>6 DEF Ladder
<1> HIDE DEF V
<1>8. best \in B /\ ~ L \subseteq B
  BY <1>2, <1>4, <1>5, <1>7
<1>9. PICK a \in L : a \notin B
  BY <1>8
<1> DEFINE C == B \cup {a}
           D == B \ {best}
<1>10. /\ C \in SUBSET S /\ a \in C /\ Cardinality(C) = k + 1
       /\ k + 1 <= Cardinality(S) /\ C \ {a} = B
  BY <1>0, <1>2, <1>9, LargerWith
<1>11. /\ D \in SUBSET S /\ k >= 1 /\ Cardinality(D) = k - 1
  BY <1>0, <1>2, <1>8, SmallerWithout
<1>12. V[C] = V[B] + v[a] /\ V[B] = V[D] + v[best]
  <2>1. V[C] = V[C \ {a}] + v[a]
    BY <1>3, <1>10, SumOfRest
  <2>2. V[B] = V[B \ {best}] + v[best]
    BY <1>2, <1>3, <1>8, SumOfRest
  <2> QED
    BY <1>10, <2>1, <2>2
<1>13. V[C] \in Int /\ V[D] \in Int /\ v[best] \in Int /\ v[a] \in Int
  <2>1. \A E \in SUBSET S : V[E] \in Int
    BY <1>3 DEF IsSum
  <2> QED
    BY <1>0, <1>9, <1>10, <1>11, <2>1
<1>14. 2 * V[D] >= -g[k - 1]
  <2>0. best \notin D
    OBVIOUS
  <2>1. V[D] >= SumOver(p, S)[D] /\ SumOver(p, S)[D] \in Int
    BY <1>11, <2>0, SumsAtCall DEF V
  <2>2. 2 * SumOver(p, S)[D] >= -g[k - 1]
    BY <1>11 DEF SumsWithin
  <2>3. g[k - 1] \in Int
    BY <1>6, <1>11 DEF Ladder
  <2> QED
    BY <1>13, <2>1, <2>2, <2>3
<1>15. 2 * V[C] >= -g[k + 1]
  <2>1. ~ k + 1 <= k
    BY <1>6
  <2>2. C \notin X
    BY <1>1, <1>10, <2>1
  <2> QED
    BY <1>10, <2>2
<1>16. /\ v[a] = p[a] + u[a] /\ v[best] = p[best] + u[best] - SumOver(u, S)[L]
       /\ p[a] + u[a] <= p[best] + u[best]
       /\ p[a] \in Int /\ u[a] \in Int /\ p[best] \in Int /\ u[best] \in Int
  <2>1. a \in L /\ a \in S /\ a # best
    BY <1>0, <1>8, <1>9
  <2>2. p[a] \in Int /\ u[a] \in Int /\ p[best] \in Int /\ u[best] \in Int
    BY <1>0, <2>1
  <2>3. /\ v[a] = p[a] + (IF a \in L THEN u[a] ELSE 0)
                  - (IF a = best THEN SumOver(u, S)[L] ELSE 0)
        /\ v[best] = p[best] + (IF best \in L THEN u[best] ELSE 0)
                     - (IF best = best THEN SumOver(u, S)[L] ELSE 0)
    BY <1>0, <2>1 DEF Serves, Raises
  <2>4. p[a] + u[a] <= p[best] + u[best]
    BY <2>1 DEF Serves
  <2> QED
    BY <1>0, <2>1, <2>2, <2>3, <2>4
<1>17. /\ g[k + 1] = g[k] + 2 * d[k] /\ g[k] = g[k - 1] + 2 * d[k - 1]
       /\ d[k - 1] = d[k] + t
       /\ g[k + 1] \in Int /\ g[k - 1] \in Int /\ d[k] \in Int /\ d[k - 1] \in Int
       /\ t \in Int
  BY <1>6, <1>10, <1>11, Rungs
<1> HIDE DEF C, D, k, X
<1>18. 2 * v[best] < -(2 * d[k - 1])
  BY <1>2, <1>4, <1>7, <1>12, <1>13, <1>14, <1>17
<1>19. 2 * v[a] < -(2 * d[k])
  BY <1>0, <1>13, <1>16, <1>17, <1>18
<1> QED
  BY <1>2, <1>4, <1>7, <1>12, <1>13, <1>15, <1>17, <1>19

\* So a call keeps sums within a ladder.
LEMMA CallKeepsSums ==
  ASSUME NEW S, NEW p, NEW u, NEW L, NEW best, NEW v, NEW g, NEW d, NEW t,
         Serves(S, p, u, L, best, v), SumsWithin(p, S, g),
         Ladder(Cardinality(S), g, d, t), SumOver(u, S)[L] <= t
  PROVE  SumsWithin(v, S, g)
BY CallKeepsBelow, CallKeepsAbove DEF SumsWithin

\* p is w within B, and zero elsewhere.
Prunes(S, p, w, B) ==
    /\ IsFiniteSet(S) /\ B \in SUBSET S /\ w \in [S -> Int] /\ p \in [S -> Int]
    /\ \A b \in S : p[b] = IF b \in B THEN w[b] ELSE 0

Rising(n, g) == \A k \in 0 .. n : \A j \in 0 .. k :
                    g[j] \in Int /\ g[k] \in Int /\ g[j] <= g[k]

\* Pruning drops summands, and fewer of them have less room.
LEMMA PruneKeepsSums ==
  ASSUME NEW S, NEW p, NEW w, NEW B, NEW g, Prunes(S, p, w, B),
         Rising(Cardinality(S), g), SumsWithin(w, S, g)
  PROVE  SumsWithin(p, S, g)
<1> SUFFICES ASSUME NEW A \in SUBSET S
             PROVE  /\ 2 * SumOver(p, S)[A] <= g[Cardinality(A)]
                    /\ 2 * SumOver(p, S)[A] >= -g[Cardinality(A)]
  BY DEF SumsWithin
<1> DEFINE F == SumOver(w, S)
           none == {}
<1>1. Joins(S, p, w, B, w, none)
  BY DEF Joins, Prunes
<1>2. IsSum(F, w, S) /\ IsFiniteSet(S)
  BY SumsExist DEF Prunes
<1>3. A \cap none = {} /\ A \cap B \in SUBSET S
  OBVIOUS
<1> HIDE DEF none, F
<1>4. SumOver(p, S)[A] = F[A \cap B] + F[A \cap none]
  <2>1. SumsJoin(S, p, w, B, w, none)
    BY <1>1, SumOfRaised
  <2> QED
    BY <2>1 DEF SumsJoin, F
<1>5. F[A \cap none] = 0 /\ F[A \cap B] \in Int
  BY <1>2, <1>3 DEF IsSum
<1>6. /\ 2 * F[A \cap B] <= g[Cardinality(A \cap B)]
      /\ 2 * F[A \cap B] >= -g[Cardinality(A \cap B)]
  BY <1>3 DEF SumsWithin, F
<1>7. Cardinality(A) \in 0 .. Cardinality(S) /\ Cardinality(A \cap B) \in 0 .. Cardinality(A)
  <2>1. IsFiniteSet(A) /\ Cardinality(A) <= Cardinality(S)
    BY <1>2, FS_Subset
  <2>2. IsFiniteSet(A \cap B) /\ Cardinality(A \cap B) <= Cardinality(A)
    BY <2>1, FS_Subset, A \cap B \in SUBSET A
  <2>3. Cardinality(A) \in Nat /\ Cardinality(A \cap B) \in Nat /\ Cardinality(S) \in Nat
    BY <1>2, <2>1, <2>2, FS_CardinalityType
  <2> QED
    BY <2>1, <2>2, <2>3
<1>8. /\ g[Cardinality(A \cap B)] \in Int /\ g[Cardinality(A)] \in Int
      /\ g[Cardinality(A \cap B)] <= g[Cardinality(A)]
  BY <1>7 DEF Rising
<1> QED
  BY <1>4, <1>5, <1>6, <1>8

(* A torn call shifts every sum by no more than a round, one way or other. *)
LEMMA TornKeepsSums ==
  ASSUME NEW S, NEW p, NEW u, NEW L, NEW best, NEW x, NEW v, NEW g, NEW h, NEW t,
         Raises(S, p, u, L, best, x, v), t \in Nat, x \in 0 .. t,
         SumOver(u, S)[S] <= t, SumsWithin(p, S, g),
         \A k \in 0 .. Cardinality(S) : g[k] \in Int /\ h[k] = g[k] + 2 * t
  PROVE  SumsWithin(v, S, h)
<1> SUFFICES ASSUME NEW A \in SUBSET S
             PROVE  /\ 2 * SumOver(v, S)[A] <= h[Cardinality(A)]
                    /\ 2 * SumOver(v, S)[A] >= -h[Cardinality(A)]
  BY DEF SumsWithin
<1> DEFINE e == SumOver(u, S)[A \cap L]
           y == IF best \in A THEN x ELSE 0
           k == Cardinality(A)
<1>0. SumsRaised(S, p, u, L, best, x, v)
  BY SumsAfter
<1>1. SumOver(v, S)[A] \in Int /\ SumOver(p, S)[A] \in Int
  BY <1>0 DEF SumsRaised
<1>2. SumOver(v, S)[A] = SumOver(p, S)[A] + e - y
  BY <1>0 DEF SumsRaised
<1>3. e \in Nat /\ e <= t
  <2>1. /\ IsFiniteSet(S) /\ u \in [S -> Int] /\ \A b \in S : u[b] >= 0
        /\ S \in SUBSET S /\ A \cap L \in SUBSET S
    BY DEF Raises
  <2>2. e \in Nat /\ SumOver(u, S)[S] \in Nat /\ e <= SumOver(u, S)[S]
    BY <2>1, SumOfPart
  <2> HIDE DEF e
  <2> QED
    BY <2>2
<1>4. y \in 0 .. t
  OBVIOUS
<1>5. k \in 0 .. Cardinality(S)
  <2>1. IsFiniteSet(S)
    BY DEF Raises
  <2>2. IsFiniteSet(A) /\ Cardinality(A) <= Cardinality(S)
    BY <2>1, FS_Subset
  <2>3. Cardinality(A) \in Nat /\ Cardinality(S) \in Nat
    BY <2>1, <2>2, FS_CardinalityType
  <2> QED
    BY <2>2, <2>3
<1>6. /\ g[k] \in Int /\ h[k] = g[k] + 2 * t
      /\ 2 * SumOver(p, S)[A] <= g[k] /\ 2 * SumOver(p, S)[A] >= -g[k]
  BY <1>5 DEF SumsWithin
<1> HIDE DEF e, y, k
<1>7. 2 * SumOver(v, S)[A] <= h[k] /\ 2 * SumOver(v, S)[A] >= -h[k]
  BY <1>1, <1>2, <1>3, <1>4, <1>6
<1> QED
  BY <1>7 DEF k
=============================================================================
