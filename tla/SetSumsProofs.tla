---------------------------- MODULE SetSumsProofs ----------------------------
(***************************************************************************)
(* What the accounting proofs need of a sum over a finite set.  The sum is *)
(* defined by recursion over the set; it is shown to count a finite set of *)
(* units, one for each 1 in each element's value, and the theorems about   *)
(* cardinalities give the rest.                                            *)
(***************************************************************************)
EXTENDS SetSums, FiniteSetTheorems, WellFoundedInduction, TLAPS

(***************************************************************************)
(* Induction over the subsets of a finite set, in the first-order form the *)
(* provers can use: if some subset is bad, there is a bad one that is good *)
(* again when any element is taken from it.                                *)
(***************************************************************************)
LEMMA SmallestSet ==
  ASSUME NEW S, IsFiniteSet(S), NEW Bad \in SUBSET SUBSET S, Bad # {}
  PROVE  \E T \in Bad : \A x \in T : T \ {x} \notin Bad
<1>1. IsWellFoundedOn(StrictSubsetOrdering(S), SUBSET S)
  BY FS_StrictSubsetOrderingWellFounded, FS_FiniteSubsetsOfFinite
<1>2. PICK T \in Bad : \A U \in Bad : ~ (<<U, T>> \in StrictSubsetOrdering(S))
  BY <1>1, WFMin
<1>3. \A x \in T : <<T \ {x}, T>> \in StrictSubsetOrdering(S)
  BY DEF StrictSubsetOrdering
<1> QED BY <1>2, <1>3

\* f counts something at every element of S.
Natural(f, S) == \A x \in S : f[x] \in Nat

\* As many units of each element as its value.
Units(f, S) == {u \in S \X Nat : u[2] \in 1 .. f[u[1]]}

(***************************************************************************)
(* One element has as many units as its value.                             *)
(***************************************************************************)
LEMMA UnitsOfOne ==
  ASSUME NEW f, NEW x, f[x] \in Nat
  PROVE  IsFiniteSet({x} \X (1 .. f[x])) /\ Cardinality({x} \X (1 .. f[x])) = f[x]
<1> DEFINE n == f[x]
<1>0. n \in Nat
  OBVIOUS
<1> HIDE DEF n
<1> DEFINE I == 1 .. n
           J == {x}
<1>1. IsFiniteSet(J) /\ Cardinality(J) = 1
  BY FS_Singleton
<1>2. IsFiniteSet(I) /\ Cardinality(I) = n
  BY <1>0, FS_Interval
<1>3. 1 * n = n
  BY <1>0
<1> HIDE DEF I, J
<1>4. IsFiniteSet(J \X I) /\ Cardinality(J \X I) = 1 * n
  BY <1>1, <1>2, FS_Product
<1> QED BY <1>3, <1>4 DEF n, I, J

(***************************************************************************)
(* A new element adds its value to the number of units.                    *)
(***************************************************************************)
LEMMA UnitsAdd ==
  ASSUME NEW f, NEW S, NEW x, x \notin S, f[x] \in Nat, IsFiniteSet(Units(f, S))
  PROVE  /\ IsFiniteSet(Units(f, S \cup {x}))
         /\ Cardinality(Units(f, S \cup {x})) = Cardinality(Units(f, S)) + f[x]
<1> DEFINE A == Units(f, S)
           B == {x} \X (1 .. f[x])
<1>1. Units(f, S \cup {x}) = A \cup B
  BY DEF Units
<1>2. A \cap B = {}
  BY DEF Units
<1>3. IsFiniteSet(B) /\ Cardinality(B) = f[x]
  BY UnitsOfOne
<1> HIDE DEF B
<1>4. IsFiniteSet(A)
  OBVIOUS
<1> HIDE DEF A
<1>5. /\ IsFiniteSet(A \cup B)
      /\ Cardinality(A \cup B) = Cardinality(A) + Cardinality(B) - Cardinality(A \cap B)
  BY <1>3, <1>4, FS_Union
<1>6. Cardinality(A \cap B) = 0
  BY <1>2, FS_EmptySet
<1>7. Cardinality(A) \in Nat
  BY <1>4, FS_CardinalityType
<1>8. Cardinality(A \cup B) = Cardinality(A) + f[x]
  BY <1>3, <1>5, <1>6, <1>7
<1> QED BY <1>1, <1>5, <1>8 DEF A

(***************************************************************************)
(* The units over every part of a finite set are finitely many.            *)
(***************************************************************************)
LEMMA UnitsFinite ==
  ASSUME NEW f, NEW S, IsFiniteSet(S), Natural(f, S)
  PROVE  \A T \in SUBSET S : IsFiniteSet(Units(f, T)) /\ Cardinality(Units(f, T)) \in Nat
<1> DEFINE Bad == {T \in SUBSET S : ~IsFiniteSet(Units(f, T))}
<1> SUFFICES ASSUME Bad # {} PROVE FALSE
  BY FS_CardinalityType
<1>1. PICK T \in Bad : \A x \in T : T \ {x} \notin Bad
  <2> HIDE DEF Bad
  <2>1. Bad \in SUBSET SUBSET S
    BY DEF Bad
  <2> QED BY <2>1, SmallestSet
<1>2. T # {}
  <2>1. Units(f, {}) = {}
    BY DEF Units
  <2> QED BY <2>1, FS_EmptySet
<1>3. PICK x \in T : TRUE
  BY <1>2
<1>4. IsFiniteSet(Units(f, T \ {x})) /\ (T \ {x}) \cup {x} = T /\ f[x] \in Nat
  BY <1>1, <1>3 DEF Natural
<1>5. IsFiniteSet(Units(f, (T \ {x}) \cup {x}))
  BY <1>4, UnitsAdd
<1> QED BY <1>4, <1>5

\* The equation by which the library defines a sum.
Pick(s) == CHOOSE x \in s : TRUE
Iterates(iter, f, S) ==
  iter = [s \in SUBSET S |->
            IF s = {} THEN 0 ELSE f[Pick(s)] + iter[s \ {Pick(s)}]]

(***************************************************************************)
(* The library's sum is a function that obeys the recursive equation of    *)
(* Iterates, at the whole set.                                             *)
(***************************************************************************)
LEMMA SumIsIterate ==
  ASSUME NEW f, NEW S
  PROVE  SumOver(f, S) = (CHOOSE iter : Iterates(iter, f, S))[S]
BY DEF SumOver, MapThenSumSet, MapThenFoldSet, Iterates, Pick

(***************************************************************************)
(* Counting units obeys the equation of the sum.                           *)
(***************************************************************************)
LEMMA CountIterates ==
  ASSUME NEW f, NEW S, IsFiniteSet(S), Natural(f, S)
  PROVE  Iterates([T \in SUBSET S |-> Cardinality(Units(f, T))], f, S)
<1> DEFINE count == [T \in SUBSET S |-> Cardinality(Units(f, T))]
<1> SUFFICES ASSUME NEW T \in SUBSET S
             PROVE  count[T] = IF T = {} THEN 0
                               ELSE f[Pick(T)] + count[T \ {Pick(T)}]
  BY DEF Iterates
<1>1. CASE T = {}
  <2>1. Units(f, {}) = {}
    BY DEF Units
  <2> QED BY <1>1, <2>1, FS_EmptySet
<1>2. CASE T # {}
  <2> DEFINE x == Pick(T)
             U == T \ {x}
  <2>1. x \in T
    BY <1>2 DEF Pick
  <2> HIDE DEF x
  <2>2. U \cup {x} = T /\ x \notin U /\ U \in SUBSET S
    BY <2>1
  <2>3. f[x] \in Nat
    BY <2>1 DEF Natural
  <2> HIDE DEF U
  <2>4. IsFiniteSet(Units(f, U)) /\ Cardinality(Units(f, U)) \in Nat
    BY <2>2, UnitsFinite
  <2>5. Cardinality(Units(f, U \cup {x})) = Cardinality(Units(f, U)) + f[x]
    BY <2>2, <2>3, <2>4, UnitsAdd
  <2>6. count[T] = Cardinality(Units(f, T)) /\ count[U] = Cardinality(Units(f, U))
    BY <2>2
  <2> HIDE DEF count
  <2>7. Cardinality(Units(f, T)) = Cardinality(Units(f, U)) + f[x]
    BY <2>2, <2>5
  <2>8. count[T] = f[x] + count[U]
    BY <2>3, <2>4, <2>6, <2>7
  <2> QED BY <1>2, <2>8 DEF x, U
<1> QED BY <1>1, <1>2

(***************************************************************************)
(* The equation has one solution: no two functions that obey it differ on  *)
(* the whole set.                                                          *)
(***************************************************************************)
LEMMA OneIterate ==
  ASSUME NEW f, NEW S, IsFiniteSet(S), NEW i, NEW j,
         Iterates(i, f, S), Iterates(j, f, S)
  PROVE  i[S] = j[S]
<1> DEFINE Bad == {T \in SUBSET S : i[T] # j[T]}
<1> SUFFICES ASSUME Bad # {} PROVE FALSE
  OBVIOUS
<1>1. PICK T \in Bad : \A x \in T : T \ {x} \notin Bad
  <2> HIDE DEF Bad
  <2>1. Bad \in SUBSET SUBSET S
    BY DEF Bad
  <2> QED BY <2>1, SmallestSet
<1>2. CASE T = {}
  BY <1>2 DEF Iterates
<1>3. CASE T # {}
  <2>1. Pick(T) \in T
    BY <1>3 DEF Pick
  <2>2. i[T \ {Pick(T)}] = j[T \ {Pick(T)}]
    BY <1>1, <2>1
  <2> QED BY <1>3, <2>2 DEF Iterates
<1> QED BY <1>2, <1>3

(***************************************************************************)
(* The sum of natural numbers over a finite set is the number of its       *)
(* units.                                                                  *)
(***************************************************************************)
LEMMA SumIsCount ==
  ASSUME NEW f, NEW S, IsFiniteSet(S), Natural(f, S)
  PROVE  SumOver(f, S) = Cardinality(Units(f, S))
<1> DEFINE count == [T \in SUBSET S |-> Cardinality(Units(f, T))]
           iter  == CHOOSE iter : Iterates(iter, f, S)
<1>1. Iterates(count, f, S)
  BY CountIterates
<1>2. count[S] = Cardinality(Units(f, S))
  OBVIOUS
<1> HIDE DEF count
<1>3. Iterates(iter, f, S)
  BY <1>1
<1>4. SumOver(f, S) = iter[S]
  BY SumIsIterate
<1> HIDE DEF iter
<1> QED BY <1>1, <1>2, <1>3, <1>4, OneIterate

(***************************************************************************)
(* The sum of natural numbers is a natural number.                         *)
(***************************************************************************)
LEMMA SumIsNatural ==
  ASSUME NEW f, NEW S, IsFiniteSet(S), Natural(f, S)
  PROVE  SumOver(f, S) \in Nat
BY SumIsCount, UnitsFinite

(***************************************************************************)
(* Nothing sums to 0.                                                      *)
(***************************************************************************)
LEMMA SumEmpty == \A f : SumOver(f, {}) = 0
<1> TAKE f
<1>1. Units(f, {}) = {} /\ Natural(f, {})
  BY DEF Units, Natural
<1> QED BY <1>1, SumIsCount, FS_EmptySet

(***************************************************************************)
(* One element more adds its value.                                        *)
(***************************************************************************)
LEMMA SumAdd ==
  ASSUME NEW f, NEW S, IsFiniteSet(S), Natural(f, S),
         NEW x, x \notin S, f[x] \in Nat
  PROVE  SumOver(f, S \cup {x}) = SumOver(f, S) + f[x]
<1>1. IsFiniteSet(S \cup {x}) /\ Natural(f, S \cup {x})
  BY FS_AddElement DEF Natural
<1>2. IsFiniteSet(Units(f, S))
  BY UnitsFinite
<1>3. SumOver(f, S \cup {x}) = Cardinality(Units(f, S \cup {x}))
  BY <1>1, SumIsCount
<1>4. SumOver(f, S) = Cardinality(Units(f, S))
  BY SumIsCount
<1> QED BY <1>2, <1>3, <1>4, UnitsAdd

(***************************************************************************)
(* One element less takes its value away.                                  *)
(***************************************************************************)
LEMMA SumRemove ==
  ASSUME NEW f, NEW S, IsFiniteSet(S), Natural(f, S), NEW x \in S
  PROVE  SumOver(f, S) = SumOver(f, S \ {x}) + f[x]
<1>1. IsFiniteSet(S \ {x}) /\ Natural(f, S \ {x}) /\ f[x] \in Nat
  BY FS_RemoveElement DEF Natural
<1>2. (S \ {x}) \cup {x} = S /\ x \notin S \ {x}
  OBVIOUS
<1>3. SumOver(f, (S \ {x}) \cup {x}) = SumOver(f, S \ {x}) + f[x]
  BY <1>1, <1>2, SumAdd
<1> QED BY <1>2, <1>3

(***************************************************************************)
(* Functions that agree on the set have the same sum.                      *)
(***************************************************************************)
LEMMA SumSame ==
  ASSUME NEW f, NEW g, NEW S, IsFiniteSet(S), Natural(f, S), \A x \in S : f[x] = g[x]
  PROVE  SumOver(f, S) = SumOver(g, S)
<1>1. Natural(g, S)
  BY DEF Natural
<1>2. Units(f, S) = Units(g, S)
  BY DEF Units
<1> QED BY <1>1, <1>2, SumIsCount

(***************************************************************************)
(* A function updated at one element changes the sum by the difference     *)
(* there.                                                                  *)
(***************************************************************************)
LEMMA SumUpdate ==
  ASSUME NEW f, NEW g, NEW S, IsFiniteSet(S), Natural(f, S), Natural(g, S),
         NEW x \in S, \A y \in S \ {x} : g[y] = f[y]
  PROVE  SumOver(g, S) + f[x] = SumOver(f, S) + g[x]
<1>1. IsFiniteSet(S \ {x}) /\ Natural(f, S \ {x}) /\ Natural(g, S \ {x})
      /\ f[x] \in Nat /\ g[x] \in Nat
  BY FS_RemoveElement DEF Natural
<1>2. SumOver(f, S \ {x}) = SumOver(g, S \ {x})
  BY <1>1, SumSame
<1>3. SumOver(f, S \ {x}) \in Nat
  BY <1>1, SumIsNatural
<1> QED BY <1>1, <1>2, <1>3, SumRemove

(***************************************************************************)
(* No element is larger than the sum.                                      *)
(***************************************************************************)
LEMMA SumAtLeast ==
  ASSUME NEW f, NEW S, IsFiniteSet(S), Natural(f, S), NEW x \in S
  PROVE  f[x] <= SumOver(f, S)
<1>1. IsFiniteSet(S \ {x}) /\ Natural(f, S \ {x}) /\ f[x] \in Nat
  BY FS_RemoveElement DEF Natural
<1>2. SumOver(f, S \ {x}) \in Nat
  BY <1>1, SumIsNatural
<1> QED BY <1>1, <1>2, SumRemove

(***************************************************************************)
(* A sum changes by what happens at the one element that joins the set,    *)
(* leaves it, or gets another value.                                       *)
(***************************************************************************)
LEMMA SumChange ==
  ASSUME NEW f, NEW g, NEW T, NEW U, NEW x,
         IsFiniteSet(T), Natural(f, T), Natural(g, U),
         T \ {x} = U \ {x}, \A y \in T \ {x} : f[y] = g[y]
  PROVE  SumOver(g, U) + (IF x \in T THEN f[x] ELSE 0)
           = SumOver(f, T) + (IF x \in U THEN g[x] ELSE 0)
<1> DEFINE W == T \ {x}
<1>1. IsFiniteSet(W) /\ IsFiniteSet(U)
  <2>1. IsFiniteSet(W)
    BY FS_RemoveElement
  <2>2. IsFiniteSet(W \cup {x})
    BY <2>1, FS_AddElement
  <2>3. U \subseteq W \cup {x}
    OBVIOUS
  <2> QED BY <2>1, <2>2, <2>3, FS_Subset
<1>2. Natural(f, W) /\ SumOver(f, W) = SumOver(g, W)
  <2>1. Natural(f, W)
    BY DEF Natural
  <2> QED BY <1>1, <2>1, SumSame
<1>3. SumOver(f, W) \in Nat
  BY <1>1, <1>2, SumIsNatural
<1>4. SumOver(f, T) = SumOver(f, W) + (IF x \in T THEN f[x] ELSE 0)
  <2>1. CASE x \in T
    BY <2>1, SumRemove
  <2>2. CASE x \notin T
    <3>1. T = W
      BY <2>2
    <3> HIDE DEF W
    <3> QED BY <1>3, <2>2, <3>1
  <2> QED BY <2>1, <2>2
<1>5. SumOver(g, U) = SumOver(g, W) + (IF x \in U THEN g[x] ELSE 0)
  <2>1. CASE x \in U
    <3>1. SumOver(g, U) = SumOver(g, U \ {x}) + g[x]
      BY <1>1, <2>1, SumRemove
    <3> QED BY <2>1, <3>1
  <2>2. CASE x \notin U
    <3>1. U = W
      BY <2>2
    <3> HIDE DEF W
    <3> QED BY <1>2, <1>3, <2>2, <3>1
  <2> QED BY <2>1, <2>2
<1>6. (x \in T => f[x] \in Nat) /\ (x \in U => g[x] \in Nat)
  BY DEF Natural
<1> HIDE DEF W
<1> QED BY <1>2, <1>3, <1>4, <1>5, <1>6

(***************************************************************************)
(* The sum of zeros is 0.                                                  *)
(***************************************************************************)
LEMMA SumOfZeros ==
  ASSUME NEW f, NEW S, IsFiniteSet(S), \A x \in S : f[x] = 0
  PROVE  SumOver(f, S) = 0
<1>1. Natural(f, S) /\ Units(f, S) = {}
  BY DEF Natural, Units
<1> QED BY <1>1, SumIsCount, FS_EmptySet

(***************************************************************************)
(* The sum over two sets with nothing in common is the sum of the sums.    *)
(***************************************************************************)
LEMMA SumUnion ==
  ASSUME NEW f, NEW T, NEW U, IsFiniteSet(T), IsFiniteSet(U), T \cap U = {},
         Natural(f, T), Natural(f, U)
  PROVE  SumOver(f, T \cup U) = SumOver(f, T) + SumOver(f, U)
<1> DEFINE A == Units(f, T)
           B == Units(f, U)
<1>1. IsFiniteSet(A) /\ IsFiniteSet(B)
  BY UnitsFinite
<1>2. Units(f, T \cup U) = A \cup B /\ A \cap B = {}
  BY DEF Units
<1>3. SumOver(f, T) = Cardinality(A) /\ SumOver(f, U) = Cardinality(B)
  BY SumIsCount
<1>4. IsFiniteSet(T \cup U) /\ Natural(f, T \cup U)
  BY FS_Union DEF Natural
<1>5. SumOver(f, T \cup U) = Cardinality(Units(f, T \cup U))
  BY <1>4, SumIsCount
<1> HIDE DEF A, B
<1>6. Cardinality(A \cup B) = Cardinality(A) + Cardinality(B) - Cardinality(A \cap B)
  BY <1>1, FS_Union
<1>7. Cardinality(A \cap B) = 0
  <2>1. A \cap B = {}
    BY <1>2 DEF A, B
  <2> QED BY <2>1, FS_EmptySet
<1>8. Cardinality(A) \in Nat /\ Cardinality(B) \in Nat
  BY <1>1, FS_CardinalityType
<1>9. SumOver(f, T \cup U) = Cardinality(A \cup B)
  BY <1>2, <1>5 DEF A, B
<1> QED BY <1>3, <1>6, <1>7, <1>8, <1>9

(***************************************************************************)
(* A part of a finite set that is bad where the empty set is not, and the  *)
(* element it is bad by.                                                   *)
(***************************************************************************)
LEMMA FirstBadElement ==
  ASSUME NEW S, IsFiniteSet(S), NEW Bad \in SUBSET SUBSET S, Bad # {}, {} \notin Bad
  PROVE  \E T \in Bad, x \in S :
           /\ x \in T /\ T \ {x} \notin Bad
           /\ T \ {x} \in SUBSET S /\ (T \ {x}) \cup {x} = T
           /\ IsFiniteSet(T \ {x})
<1>1. PICK T \in Bad : \A x \in T : T \ {x} \notin Bad
  BY SmallestSet
<1>2. PICK x \in T : TRUE
  OBVIOUS
<1>3. T \in SUBSET S /\ x \in S
  OBVIOUS
<1>4. IsFiniteSet(T \ {x})
  BY <1>3, FS_Subset
<1> QED BY <1>1, <1>2, <1>3, <1>4

(***************************************************************************)
(* The sum of sums is the sum of the sums.                                 *)
(***************************************************************************)
LEMMA SumSplit ==
  ASSUME NEW f, NEW g, NEW h, NEW S, IsFiniteSet(S), Natural(f, S), Natural(g, S),
         \A x \in S : h[x] = f[x] + g[x]
  PROVE  SumOver(h, S) = SumOver(f, S) + SumOver(g, S)
<1> DEFINE Bad == {T \in SUBSET S : SumOver(h, T) # SumOver(f, T) + SumOver(g, T)}
<1> SUFFICES ASSUME Bad # {} PROVE FALSE
  OBVIOUS
<1>1. {} \notin Bad
  BY SumEmpty
<1>2. PICK T \in Bad, x \in S :
        /\ x \in T /\ T \ {x} \notin Bad
        /\ T \ {x} \in SUBSET S /\ (T \ {x}) \cup {x} = T
        /\ IsFiniteSet(T \ {x})
  <2> HIDE DEF Bad
  <2>1. Bad \in SUBSET SUBSET S
    BY DEF Bad
  <2> QED BY <1>1, <2>1, FirstBadElement
<1> DEFINE U == T \ {x}
<1>3. Natural(f, U) /\ Natural(g, U) /\ Natural(h, U)
  BY <1>2 DEF Natural
<1>4. /\ f[x] \in Nat /\ g[x] \in Nat /\ h[x] \in Nat
      /\ h[x] = f[x] + g[x]
  BY <1>2 DEF Natural
<1>5. SumOver(h, U) = SumOver(f, U) + SumOver(g, U)
  BY <1>2
<1>6. U \cup {x} = T /\ x \notin U /\ IsFiniteSet(U)
  BY <1>2
<1>7. SumOver(h, T) # SumOver(f, T) + SumOver(g, T)
  BY <1>2
<1> HIDE DEF U, Bad
<1>8. /\ SumOver(f, T) = SumOver(f, U) + f[x]
      /\ SumOver(g, T) = SumOver(g, U) + g[x]
      /\ SumOver(h, T) = SumOver(h, U) + h[x]
  BY <1>3, <1>4, <1>6, SumAdd
<1>9. SumOver(f, U) \in Nat /\ SumOver(g, U) \in Nat
  BY <1>3, <1>6, SumIsNatural
<1> QED BY <1>4, <1>5, <1>7, <1>8, <1>9

(***************************************************************************)
(* The values a function takes on a finite set are finitely many.          *)
(***************************************************************************)
LEMMA ImageIsFinite ==
  ASSUME NEW h, NEW S, IsFiniteSet(S)
  PROVE  IsFiniteSet({h[x] : x \in S})
<1> DEFINE T == {h[x] : x \in S}
           s == [x \in S |-> h[x]]
<1>1. s \in Surjection(S, T)
  BY DEF Surjection
<1> HIDE DEF s, T
<1>2. IsFiniteSet(T)
  BY <1>1, FS_Surjection
<1> QED BY <1>2 DEF T

(***************************************************************************)
(* A sum may be taken over the names of the elements, when they differ.    *)
(***************************************************************************)
LEMMA SumRenamed ==
  ASSUME NEW f, NEW g, NEW h, NEW S, IsFiniteSet(S), Natural(f, S),
         \A x \in S : g[h[x]] = f[x],
         \A x, y \in S : h[x] = h[y] => x = y
  PROVE  SumOver(g, {h[x] : x \in S}) = SumOver(f, S)
<1> DEFINE Names(T) == {h[x] : x \in T}
           Bad == {T \in SUBSET S : SumOver(g, Names(T)) # SumOver(f, T)}
<1> SUFFICES ASSUME Bad # {} PROVE FALSE
  OBVIOUS
<1>1. {} \notin Bad
  <2>1. Names({}) = {}
    OBVIOUS
  <2> HIDE DEF Names
  <2> QED BY <2>1, SumEmpty
<1>2. PICK T \in Bad, x \in S :
        /\ x \in T /\ T \ {x} \notin Bad
        /\ T \ {x} \in SUBSET S /\ (T \ {x}) \cup {x} = T
        /\ IsFiniteSet(T \ {x})
  <2> HIDE DEF Bad
  <2>1. Bad \in SUBSET SUBSET S
    BY DEF Bad
  <2> QED BY <1>1, <2>1, FirstBadElement
<1> DEFINE U == T \ {x}
<1>3. Natural(f, U) /\ f[x] \in Nat /\ g[h[x]] = f[x]
  BY <1>2 DEF Natural
<1>4. Natural(g, Names(U)) /\ h[x] \notin Names(U)
  BY <1>2 DEF Natural
<1>5. SumOver(g, Names(U)) = SumOver(f, U)
  BY <1>2
<1>6. U \cup {x} = T /\ x \notin U /\ IsFiniteSet(U)
  BY <1>2
<1>7. SumOver(g, Names(T)) # SumOver(f, T)
  BY <1>2
<1>8. Names(T) = Names(U) \cup {h[x]}
  BY <1>6
<1>9. IsFiniteSet(Names(U))
  BY <1>6, ImageIsFinite
<1> HIDE DEF U, Bad, Names
<1>10. SumOver(f, T) = SumOver(f, U) + f[x]
  BY <1>3, <1>6, SumAdd
<1>11. SumOver(g, Names(T)) = SumOver(g, Names(U)) + g[h[x]]
  BY <1>3, <1>4, <1>8, <1>9, SumAdd
<1> QED BY <1>3, <1>5, <1>7, <1>10, <1>11
=============================================================================
