--------------------------------- MODULE Sums ---------------------------------
(***************************************************************************)
(* What the sums of the community modules compute, for every finite set:   *)
(* SumFunctionOnSet and SumFunction unfold to a function that is defined   *)
(* by recursion on the subsets of a set.  Induction is on sets too: a      *)
(* statement that fails for some subset of a finite set fails for a        *)
(* smallest one.  At the end, lists: an ordered finite set can be listed.  *)
(***************************************************************************)
EXTENDS Integers, FiniteSets, FiniteSetsExt, Functions, FiniteSetTheorems, FunctionTheorems, TLAPS

Pick(s) == CHOOSE x \in s : TRUE

(* g sums F over the subsets of T, as the recursive definition says.       *)
Sums(g, F, T) ==
  g = [s \in SUBSET T |-> IF s = {} THEN 0 ELSE F[Pick(s)] + g[s \ {Pick(s)}]]

Sum(F, T) == (CHOOSE g : Sums(g, F, T))[T]

(* The sum of a function over a set, as the community module defines it.   *)
LEMMA SumOnSet == \A F, T : SumFunctionOnSet(F, T) = Sum(F, T)
  BY DEF SumFunctionOnSet, FoldFunctionOnSet, MapThenFoldSet, Sum, Sums, Pick

(* The sum of all its values.                                              *)
LEMMA SumOfAll == \A F : SumFunction(F) = Sum(F, DOMAIN F)
  BY SumOnSet DEF SumFunction

(* Of the subsets of a finite set that have a property one is smallest.    *)
LEMMA SmallestSubset ==
  ASSUME NEW S, IsFiniteSet(S), NEW W, W \subseteq SUBSET S, W # {}
  PROVE  \E T \in W : \A U \in W : U \subseteq T => U = T
<1>1. IsWellFoundedOn(StrictSubsetOrdering(S), FiniteSubsetsOf(S))
  BY FS_StrictSubsetOrderingWellFounded
<1>2. FiniteSubsetsOf(S) = SUBSET S
  BY FS_FiniteSubsetsOfFinite
<1>3. PICK T \in W : \A U \in W : ~(<<U, T>> \in StrictSubsetOrdering(S))
  BY <1>1, <1>2, WFMin
<1> QED
  BY <1>3 DEF StrictSubsetOrdering

(* A nonempty finite set of numbers has a largest one.                     *)
LEMMA LargestOf ==
  ASSUME NEW S, S \subseteq Nat, IsFiniteSet(S), S # {}
  PROVE  \E m \in S : \A n \in S : n <= m
<1> DEFINE W == {T \in SUBSET S : T # {} /\ ~\E m \in T : \A n \in T : n <= m}
<1>1. SUFFICES ASSUME W # {} PROVE FALSE
  OBVIOUS
<1>2. PICK T \in W : \A U \in W : U \subseteq T => U = T
  <2>1. W \subseteq SUBSET S
    OBVIOUS
  <2>2. IsFiniteSet(S) /\ W # {}
    BY <1>1
  <2> HIDE DEF W
  <2> QED
    BY ONLY <2>1, <2>2, SmallestSubset
<1>3. PICK x \in T : TRUE
  BY <1>2
<1>4. CASE T \ {x} = {}
  BY <1>2, <1>3, <1>4
<1>5. CASE T \ {x} # {}
  <2>1. T \ {x} \notin W
    BY <1>2, <1>3
  <2>2. PICK y \in T \ {x} : \A n \in T \ {x} : n <= y
    BY <1>2, <1>5, <2>1
  <2>3. x \in Nat /\ y \in Nat /\ \A n \in T : n \in Nat
    BY <1>2, <1>3, <2>2
  <2>4. CASE x <= y
    BY <1>2, <2>2, <2>3, <2>4
  <2>5. CASE y <= x
    <3>1. \A n \in T : n <= x
      BY <2>2, <2>3, <2>5
    <3> QED
      BY <1>2, <1>3, <3>1
  <2> QED
    BY <2>3, <2>4, <2>5
<1> QED
  BY <1>4, <1>5

(* What is picked is in the set.                                           *)
LEMMA PickIn == ASSUME NEW s, s # {} PROVE Pick(s) \in s
  BY DEF Pick

(* The recursive definition has a solution, and all its solutions agree.   *)
Solved(F, T) ==
  /\ \E g : Sums(g, F, T)
  /\ \A g : Sums(g, F, T) => \A s \in SUBSET T : g[s] = Sum(F, s)

(* A set is solved if its proper subsets are,                              *)
LEMMA SolvedStep ==
  ASSUME NEW F, NEW T, \A s \in SUBSET T : s # T => Solved(F, s)
  PROVE  Solved(F, T)
<1> DEFINE rest(s) == s \ {Pick(s)}
           value(s) == IF s = {} THEN 0 ELSE F[Pick(s)] + Sum(F, rest(s))
           g == [s \in SUBSET T |-> value(s)]
<1>1. \A s \in SUBSET T : s # {} => rest(s) \in SUBSET s /\ rest(s) \in SUBSET T /\ rest(s) # s /\ rest(s) # T
  BY PickIn
<1>2. ASSUME NEW s \in SUBSET T, Solved(F, s)
      PROVE  Sum(F, s) = value(s)
  <2>1. PICK k : k = CHOOSE h : Sums(h, F, s)
    OBVIOUS
  <2>2. Sums(k, F, s)
    BY <1>2, <2>1 DEF Solved
  <2>3. k[s] = IF s = {} THEN 0 ELSE F[Pick(s)] + k[rest(s)]
    BY <2>2 DEF Sums
  <2>4. s # {} => k[rest(s)] = Sum(F, rest(s))
    BY <1>1, <1>2, <2>2 DEF Solved
  <2> QED
    BY <2>1, <2>3, <2>4 DEF Sum
<1>3. Sums(g, F, T)
  <2>1. ASSUME NEW s \in SUBSET T, s # {} PROVE g[rest(s)] = Sum(F, rest(s))
    BY <1>1, <1>2, <2>1
  <2> QED
    BY <2>1 DEF Sums
<1>4. ASSUME NEW h, Sums(h, F, T), NEW s \in SUBSET T, s # T
      PROVE  h[s] = Sum(F, s)
  <2> DEFINE k == [u \in SUBSET s |-> h[u]]
  <2>1. ASSUME NEW u \in SUBSET s PROVE h[u] = IF u = {} THEN 0 ELSE F[Pick(u)] + k[u \ {Pick(u)}]
    BY <1>4 DEF Sums
  <2>2. Sums(k, F, s)
    BY <2>1 DEF Sums
  <2> QED
    BY <1>4, <2>2 DEF Solved
<1>5. ASSUME NEW h, Sums(h, F, T) PROVE h[T] = value(T)
  <2>1. h[T] = IF T = {} THEN 0 ELSE F[Pick(T)] + h[rest(T)]
    BY <1>5 DEF Sums
  <2>2. T # {} => h[rest(T)] = Sum(F, rest(T))
    BY <1>1, <1>4, <1>5
  <2> QED
    BY <2>1, <2>2
<1>6. Sum(F, T) = value(T)
  <2>1. Sums(CHOOSE h : Sums(h, F, T), F, T)
    BY <1>3
  <2> QED
    BY <2>1, <1>5 DEF Sum
<1> HIDE DEF g, value
<1> QED
  BY <1>3, <1>4, <1>5, <1>6 DEF Solved

(* so every finite set is.                                                 *)
LEMMA AlwaysSolved == ASSUME NEW F, NEW S, IsFiniteSet(S) PROVE Solved(F, S)
<1> DEFINE W == {T \in SUBSET S : ~Solved(F, T)}
<1>1. SUFFICES ASSUME W # {} PROVE FALSE
  OBVIOUS
<1>2. PICK T \in W : \A U \in W : U \subseteq T => U = T
  <2>1. W \subseteq SUBSET S
    OBVIOUS
  <2> HIDE DEF W
  <2> QED
    BY <1>1, <2>1, SmallestSubset
<1>3. \A s \in SUBSET T : s # T => Solved(F, s)
  BY <1>2
<1> QED
  BY <1>2, <1>3, SolvedStep

(* A sum is one summand and the sum of the rest.                           *)
LEMMA SumUnfolds ==
  ASSUME NEW F, NEW T, IsFiniteSet(T)
  PROVE  Sum(F, T) = IF T = {} THEN 0 ELSE F[Pick(T)] + Sum(F, T \ {Pick(T)})
<1>1. PICK g : g = CHOOSE h : Sums(h, F, T)
  OBVIOUS
<1>2. Sums(g, F, T) /\ \A s \in SUBSET T : g[s] = Sum(F, s)
  BY <1>1, AlwaysSolved DEF Solved
<1>3. g[T] = IF T = {} THEN 0 ELSE F[Pick(T)] + g[T \ {Pick(T)}]
  BY <1>2 DEF Sums
<1> QED
  BY <1>2, <1>3

(* The sum over nothing.                                                   *)
LEMMA SumEmpty == \A F : Sum(F, {}) = 0
  BY SumUnfolds, FS_EmptySet

(* Integers sum to an integer.                                             *)
LEMMA SumInt ==
  ASSUME NEW F, NEW S, IsFiniteSet(S), \A x \in S : F[x] \in Int
  PROVE  Sum(F, S) \in Int
<1> DEFINE W == {T \in SUBSET S : Sum(F, T) \notin Int}
<1>1. W \subseteq SUBSET S
  OBVIOUS
<1>2. SUFFICES ASSUME W # {} PROVE FALSE
  OBVIOUS
<1>3. PICK T \in W : \A U \in W : U \subseteq T => U = T
  <2> HIDE DEF W
  <2> QED
    BY <1>1, <1>2, SmallestSubset
<1>4. IsFiniteSet(T)
  BY FS_Subset
<1>5. T # {}
  BY SumEmpty
<1>6. Pick(T) \in T /\ Sum(F, T \ {Pick(T)}) \in Int
  BY <1>3, <1>5, PickIn
<1> QED
  BY <1>4, <1>5, <1>6, SumUnfolds

(* It does not matter which element is taken first.                        *)
LEMMA SumTake ==
  ASSUME NEW F, NEW S, IsFiniteSet(S), \A x \in S : F[x] \in Int, NEW x \in S
  PROVE  Sum(F, S) = F[x] + Sum(F, S \ {x})
<1> DEFINE W == {T \in SUBSET S : \E y \in T : Sum(F, T) # F[y] + Sum(F, T \ {y})}
<1>1. W \subseteq SUBSET S
  OBVIOUS
<1>2. SUFFICES ASSUME W # {} PROVE FALSE
  OBVIOUS
<1>3. PICK T \in W : \A U \in W : U \subseteq T => U = T
  <2> HIDE DEF W
  <2> QED
    BY <1>1, <1>2, SmallestSubset
<1>4. PICK y \in T : Sum(F, T) # F[y] + Sum(F, T \ {y})
  OBVIOUS
<1> DEFINE p == Pick(T)
<1>5. p \in T /\ Sum(F, T) = F[p] + Sum(F, T \ {p})
  BY <1>4, PickIn, SumUnfolds, FS_Subset
<1>6. p # y
  BY <1>4, <1>5
<1>7. T \ {p} \notin W /\ T \ {y} \notin W
  <2> HIDE DEF W
  <2> QED
    BY <1>3, <1>4, <1>5
<1>8. Sum(F, T \ {p}) = F[y] + Sum(F, (T \ {p}) \ {y})
  BY <1>4, <1>6, <1>7
<1>9. Sum(F, T \ {y}) = F[p] + Sum(F, (T \ {y}) \ {p})
  BY <1>5, <1>6, <1>7
<1>10. (T \ {p}) \ {y} = (T \ {y}) \ {p}
  OBVIOUS
<1>11. Sum(F, (T \ {p}) \ {y}) \in Int /\ F[p] \in Int /\ F[y] \in Int
  <2>1. IsFiniteSet((T \ {p}) \ {y}) /\ (T \ {p}) \ {y} \subseteq S
    BY FS_Subset
  <2> QED
    BY <1>4, <1>5, <2>1, SumInt
<1> HIDE DEF W
<1>12. F[p] + (F[y] + Sum(F, (T \ {p}) \ {y})) = F[y] + (F[p] + Sum(F, (T \ {p}) \ {y}))
  <2> HIDE DEF p
  <2> QED
    BY <1>11
<1> QED
  BY <1>4, <1>5, <1>8, <1>9, <1>10, <1>12, Zenon

(* One more element adds its value.                                        *)
LEMMA SumAdd ==
  ASSUME NEW F, NEW S, IsFiniteSet(S), NEW x, x \notin S, \A y \in S \cup {x} : F[y] \in Int
  PROVE  Sum(F, S \cup {x}) = Sum(F, S) + F[x]
<1>1. IsFiniteSet(S \cup {x})
  BY FS_AddElement
<1>2. (S \cup {x}) \ {x} = S
  OBVIOUS
<1>3. Sum(F, S) \in Int
  BY SumInt
<1>4. Sum(F, S \cup {x}) = F[x] + Sum(F, (S \cup {x}) \ {x})
  BY <1>1, SumTake
<1>5. F[x] \in Int
  OBVIOUS
<1>6. Sum(F, S \cup {x}) = F[x] + Sum(F, S)
  BY <1>2, <1>4
<1> QED
  BY <1>3, <1>5, <1>6

(* Only the values on the set matter.                                      *)
LEMMA SumSame ==
  ASSUME NEW F, NEW G, NEW S, IsFiniteSet(S), \A x \in S : F[x] = G[x]
  PROVE  Sum(F, S) = Sum(G, S)
<1> DEFINE W == {T \in SUBSET S : Sum(F, T) # Sum(G, T)}
<1>1. W \subseteq SUBSET S
  OBVIOUS
<1>2. SUFFICES ASSUME W # {} PROVE FALSE
  OBVIOUS
<1>3. PICK T \in W : \A U \in W : U \subseteq T => U = T
  <2> HIDE DEF W
  <2> QED
    BY <1>1, <1>2, SmallestSubset
<1>4. IsFiniteSet(T) /\ T # {}
  BY FS_Subset, SumEmpty
<1>5. Pick(T) \in T /\ Sum(F, T \ {Pick(T)}) = Sum(G, T \ {Pick(T)})
  BY <1>3, <1>4, PickIn
<1> QED
  BY <1>4, <1>5, SumUnfolds

(* Zeros sum to zero.                                                      *)
LEMMA SumZero ==
  ASSUME NEW F, NEW S, IsFiniteSet(S), \A x \in S : F[x] = 0
  PROVE  Sum(F, S) = 0
<1> DEFINE W == {T \in SUBSET S : Sum(F, T) # 0}
<1>1. W \subseteq SUBSET S
  OBVIOUS
<1>2. SUFFICES ASSUME W # {} PROVE FALSE
  OBVIOUS
<1>3. PICK T \in W : \A U \in W : U \subseteq T => U = T
  <2> HIDE DEF W
  <2> QED
    BY <1>1, <1>2, SmallestSubset
<1>4. IsFiniteSet(T) /\ T # {}
  BY FS_Subset, SumEmpty
<1>5. Pick(T) \in T /\ Sum(F, T \ {Pick(T)}) = 0
  BY <1>3, <1>4, PickIn
<1> QED
  BY <1>4, <1>5, SumUnfolds

(* Sums over two sets with nothing in common.                              *)
LEMMA SumJoin ==
  ASSUME NEW F, NEW S, NEW T, IsFiniteSet(S), IsFiniteSet(T), S \cap T = {},
         \A x \in S \cup T : F[x] \in Int
  PROVE  Sum(F, S \cup T) = Sum(F, S) + Sum(F, T)
<1> DEFINE W == {U \in SUBSET T : Sum(F, S \cup U) # Sum(F, S) + Sum(F, U)}
<1>1. W \subseteq SUBSET T
  OBVIOUS
<1>2. SUFFICES ASSUME W # {} PROVE FALSE
  OBVIOUS
<1>3. PICK U \in W : \A V \in W : V \subseteq U => V = U
  <2> HIDE DEF W
  <2> QED
    BY <1>1, <1>2, SmallestSubset
<1>4. Sum(F, S) \in Int
  BY SumInt
<1>5. U # {}
  <2>1. Sum(F, S \cup {}) = Sum(F, S) + Sum(F, {})
    BY <1>4, SumEmpty
  <2> QED
    BY <2>1
<1>6. PICK x : x \in U
  BY <1>5
<1> DEFINE V == U \ {x}
<1>7. V \notin W
  <2> HIDE DEF W
  <2> QED
    BY <1>3, <1>6
<1>8. Sum(F, S \cup V) = Sum(F, S) + Sum(F, V)
  BY <1>7
<1>9. IsFiniteSet(V) /\ IsFiniteSet(U) /\ IsFiniteSet(S \cup V)
  BY FS_Subset, FS_Union
<1>10. Sum(F, U) = F[x] + Sum(F, V)
  BY <1>6, <1>9, SumTake
<1>11. (S \cup V) \cup {x} = S \cup U /\ x \notin S \cup V
  BY <1>6
<1>12. Sum(F, S \cup U) = Sum(F, S \cup V) + F[x]
  <2> HIDE DEF V
  <2> QED
    BY <1>6, <1>9, <1>11, SumAdd DEF V
<1>13. Sum(F, V) \in Int /\ F[x] \in Int
  BY <1>6, <1>9, SumInt
<1> HIDE DEF V, W
<1>14. Sum(F, S \cup U) = Sum(F, S) + Sum(F, U)
  BY <1>4, <1>8, <1>10, <1>12, <1>13
<1> QED
  BY <1>14 DEF W

(* Naturals sum to a natural.                                              *)
LEMMA SumNat ==
  ASSUME NEW F, NEW S, IsFiniteSet(S), \A x \in S : F[x] \in Nat
  PROVE  Sum(F, S) \in Nat
<1> DEFINE W == {T \in SUBSET S : Sum(F, T) \notin Nat}
<1>1. W \subseteq SUBSET S
  OBVIOUS
<1>2. SUFFICES ASSUME W # {} PROVE FALSE
  OBVIOUS
<1>3. PICK T \in W : \A U \in W : U \subseteq T => U = T
  <2> HIDE DEF W
  <2> QED
    BY <1>1, <1>2, SmallestSubset
<1>4. IsFiniteSet(T) /\ T # {}
  <2>1. Sum(F, {}) \in Nat
    BY SumEmpty
  <2> QED
    BY <2>1, FS_Subset
<1>5. Pick(T) \in T /\ Sum(F, T \ {Pick(T)}) \in Nat
  BY <1>3, <1>4, PickIn
<1> QED
  BY <1>4, <1>5, SumUnfolds

(* A bijection carries a sum over.                                         *)
LEMMA SumCarried ==
  ASSUME NEW F, NEW G, NEW S, NEW T, IsFiniteSet(S), NEW b \in Bijection(S, T),
         \A x \in S : F[x] = G[b[x]], \A y \in T : G[y] \in Int
  PROVE  Sum(F, S) = Sum(G, T)
<1> DEFINE image(U) == {b[x] : x \in U}
           W == {U \in SUBSET S : Sum(F, U) # Sum(G, image(U))}
<1>1. W \subseteq SUBSET S
  OBVIOUS
<1>b. /\ b \in [S -> T]
      /\ \A x, y \in S : b[x] = b[y] => x = y
      /\ \A y \in T : \E x \in S : b[x] = y
  BY DEF Bijection, Injection, Surjection, IsInjective
<1>2. SUFFICES ASSUME W # {} PROVE FALSE
  <2>1. image(S) = T
    BY <1>b
  <2> QED
    BY <2>1
<1>3. PICK U \in W : \A V \in W : V \subseteq U => V = U
  <2> HIDE DEF W
  <2> QED
    BY <1>1, <1>2, SmallestSubset
<1>4. U # {}
  <2>1. image({}) = {}
    OBVIOUS
  <2> QED
    BY <2>1, SumEmpty
<1> DEFINE x == Pick(U)
           V == U \ {x}
<1>5. x \in U
  BY <1>4, PickIn
<1>6. Sum(F, V) = Sum(G, image(V))
  <2> V \notin W
    <3> HIDE DEF W
    <3> QED
      BY <1>3, <1>5
  <2> QED
    OBVIOUS
<1>7. IsFiniteSet(U) /\ \A y \in U : F[y] \in Int
  BY <1>b, FS_Subset
<1>8. Sum(F, U) = F[x] + Sum(F, V)
  BY <1>5, <1>7, SumTake
<1>9. /\ IsFiniteSet(image(V)) /\ b[x] \notin image(V)
      /\ image(U) = image(V) \cup {b[x]} /\ image(U) \subseteq T
  <2>1. /\ b[x] \notin image(V)
        /\ image(U) = image(V) \cup {b[x]} /\ image(U) \subseteq T
    BY <1>b, <1>5
  <2>2. IsFiniteSet(V)
    BY <1>7, FS_Subset
  <2>3. IsFiniteSet(image(V))
    <3> DEFINE c == [y \in V |-> b[y]]
    <3>1. c \in Surjection(V, image(V))
      BY <1>b DEF Surjection
    <3> HIDE DEF image, V, c
    <3> QED
      BY <2>2, <3>1, FS_Surjection
  <2> QED
    BY <2>1, <2>3
<1>10. Sum(G, image(V) \cup {b[x]}) = Sum(G, image(V)) + G[b[x]]
  <2> \A y \in image(V) \cup {b[x]} : G[y] \in Int
    BY <1>9
  <2>1. \A A, z : IsFiniteSet(A) /\ z \notin A /\ (\A y \in A \cup {z} : G[y] \in Int)
                    => Sum(G, A \cup {z}) = Sum(G, A) + G[z]
    BY SumAdd
  <2> HIDE DEF image, x, V
  <2> QED
    BY <1>9, <2>1
<1>11. F[x] = G[b[x]] /\ F[x] \in Int /\ Sum(F, V) \in Int
  BY <1>5, <1>7, SumInt, FS_Subset
<1>12. Sum(F, U) = Sum(G, image(U))
  <2> HIDE DEF image, V, x
  <2>1. Sum(G, image(U)) = Sum(G, image(V)) + G[b[x]]
    BY <1>9, <1>10, Zenon
  <2> QED
    BY <1>6, <1>8, <1>11, <2>1
<1> QED
  BY <1>12

(* The sum over one element.                                               *)
LEMMA SumSingle == ASSUME NEW F, NEW x, F[x] \in Int PROVE Sum(F, {x}) = F[x]
<1>1. Sum(F, {x}) = F[x] + Sum(F, {x} \ {x})
  BY SumTake, FS_Singleton
<1>2. {x} \ {x} = {}
  OBVIOUS
<1> QED
  BY <1>1, <1>2, SumEmpty

(* What leaves a set and what joins it moves its sum.                      *)
LEMMA SumMoved ==
  ASSUME NEW F, NEW G, NEW S, NEW T, IsFiniteSet(S), IsFiniteSet(T),
         NEW gone \in SUBSET S, NEW new, T = (S \ gone) \cup new, (S \ gone) \cap new = {},
         \A x \in S : F[x] \in Int, \A x \in T : G[x] \in Int,
         \A x \in S \ gone : F[x] = G[x]
  PROVE  Sum(G, T) = Sum(F, S) - Sum(F, gone) + Sum(G, new)
<1> DEFINE rest == S \ gone
<1>1. IsFiniteSet(rest) /\ IsFiniteSet(gone) /\ IsFiniteSet(new)
  BY FS_Subset
<1>2. Sum(F, rest) = Sum(G, rest)
  BY <1>1, SumSame
<1>3. Sum(F, rest \cup gone) = Sum(F, rest) + Sum(F, gone)
  <2>1. rest \cap gone = {} /\ \A x \in rest \cup gone : F[x] \in Int
    OBVIOUS
  <2> HIDE DEF rest
  <2> QED
    BY <1>1, <2>1, SumJoin
<1>4. Sum(G, rest \cup new) = Sum(G, rest) + Sum(G, new)
  <2>1. \A x \in rest \cup new : G[x] \in Int
    OBVIOUS
  <2> QED
    BY <1>1, <2>1, SumJoin
<1>5. rest \cup gone = S /\ rest \cup new = T
  OBVIOUS
<1>6. Sum(F, rest) \in Int /\ Sum(F, gone) \in Int /\ Sum(G, new) \in Int
  BY <1>1, SumInt
<1> HIDE DEF rest
<1>7. Sum(F, S) = Sum(F, rest) + Sum(F, gone) /\ Sum(G, T) = Sum(G, rest) + Sum(G, new)
  BY <1>3, <1>4, <1>5
<1> QED
  BY <1>2, <1>6, <1>7

-----------------------------------------------------------------------------
(* Lists: a finite set that is ordered can be listed in its order.         *)

(* What is listed without a repeat, as often as there are members, is all.  *)
LEMMA ListedOnce ==
  ASSUME NEW S, IsFiniteSet(S), NEW s \in [1..Cardinality(S) -> S],
         \A i, j \in 1..Cardinality(S) : i < j => s[i] # s[j]
  PROVE  \A x \in S : \E i \in 1..Cardinality(S) : s[i] = x
<1>1. Cardinality(S) \in Nat
  BY FS_CardinalityType
<1>2. Cardinality(1..Cardinality(S)) = Cardinality(S)
  BY <1>1, FS_Interval
<1>3. s \in Injection(1..Cardinality(S), S)
  BY <1>1 DEF Injection, IsInjective
<1>4. s \in Surjection(1..Cardinality(S), S)
  BY <1>2, <1>3, FS_Injection
<1> QED
  BY <1>4 DEF Surjection

(* A strict and total order of S, as a set of pairs.                        *)
IsOrder(R, S) ==
  /\ \A x, y, z \in S : <<x, y>> \in R /\ <<y, z>> \in R => <<x, z>> \in R
  /\ \A x \in S : <<x, x>> \notin R
  /\ \A x, y \in S : x # y => <<x, y>> \in R \/ <<y, x>> \in R

(* A finite set that is ordered has a last member ...                       *)
LEMMA LastOf ==
  ASSUME NEW S, IsFiniteSet(S), S # {}, NEW R, IsOrder(R, S)
  PROVE  \E m \in S : \A x \in S : x # m => <<x, m>> \in R
<1> DEFINE From(y) == {x \in S : x = y \/ <<y, x>> \in R}
           W == {From(y) : y \in S}
<1>1. PICK T \in W : \A U \in W : U \subseteq T => U = T
  <2>1. W \subseteq SUBSET S /\ W # {}
    OBVIOUS
  <2> HIDE DEF W
  <2> QED
    BY <2>1, SmallestSubset
<1>2. PICK m \in S : T = From(m)
  OBVIOUS
<1>3. ASSUME NEW x \in S, x # m PROVE <<x, m>> \in R
  <2>1. SUFFICES ASSUME <<m, x>> \in R PROVE FALSE
    BY <1>3 DEF IsOrder
  <2>2. From(x) \subseteq From(m)
    BY <2>1 DEF IsOrder
  <2>3. m \in From(x)
    BY <1>1, <1>2, <2>2
  <2>4. <<x, m>> \in R
    BY <1>3, <2>3
  <2> QED
    BY <2>1, <2>4 DEF IsOrder
<1> QED
  BY <1>3

IsListing(s, S, R) ==
  /\ s \in [1..Cardinality(S) -> S]
  /\ \A i, j \in 1..Cardinality(S) : i < j => <<s[i], s[j]>> \in R

(* ... and can be listed in that order.                                     *)
LEMMA SetListed ==
  ASSUME NEW S, IsFiniteSet(S), NEW R, IsOrder(R, S)
  PROVE  \E s : IsListing(s, S, R)
<1> DEFINE W == {T \in SUBSET S : ~\E s : IsListing(s, T, R)}
<1>1. SUFFICES ASSUME W # {} PROVE FALSE
  OBVIOUS
<1>2. PICK T \in W : \A U \in W : U \subseteq T => U = T
  <2>1. W \subseteq SUBSET S
    OBVIOUS
  <2> HIDE DEF W
  <2> QED
    BY <1>1, <2>1, SmallestSubset
<1>3. T \subseteq S /\ IsFiniteSet(T) /\ IsOrder(R, T) /\ ~\E s : IsListing(s, T, R)
  BY FS_Subset DEF IsOrder
<1>4. CASE T = {}
  <2>1. Cardinality(T) = 0
    BY <1>4, FS_EmptySet
  <2>2. [i \in 1..0 |-> i] \in [1..0 -> T]
    OBVIOUS
  <2>3. IsListing([i \in 1..0 |-> i], T, R)
    BY <2>1, <2>2 DEF IsListing
  <2> QED
    BY <1>3, <2>3
<1>5. CASE T # {}
  <2>1. PICK m \in T : \A x \in T : x # m => <<x, m>> \in R
    BY <1>3, <1>5, LastOf
  <2> DEFINE U == T \ {m}
             n == Cardinality(U)
  <2>2. IsFiniteSet(U) /\ n \in Nat /\ Cardinality(T) = n + 1
    <3>1. IsFiniteSet(U) /\ Cardinality(U) = Cardinality(T) - 1
      BY <1>3, FS_RemoveElement
    <3>2. Cardinality(U) \in Nat /\ Cardinality(T) \in Nat
      BY <3>1, <1>3, FS_CardinalityType
    <3> QED
      BY <3>1, <3>2
  <2>3. U \notin W
    BY <1>2
  <2>4. PICK s : IsListing(s, U, R)
    BY <1>3, <2>3
  <2> DEFINE t == [i \in 1..(n + 1) |-> IF i = n + 1 THEN m ELSE s[i]]
  <2>5. \A i \in 1..n : s[i] \in U
    BY <2>4 DEF IsListing
  <2>6. t \in [1..(n + 1) -> T]
    BY <2>2, <2>5
  <2>7. \A i, j \in 1..n : i < j => <<s[i], s[j]>> \in R
    BY <2>4 DEF IsListing
  <2>8. \A i, j \in 1..(n + 1) : i < j => <<t[i], t[j]>> \in R
    <3> SUFFICES ASSUME NEW i \in 1..(n + 1), NEW j \in 1..(n + 1), i < j PROVE <<t[i], t[j]>> \in R
      OBVIOUS
    <3>1. n \in Nat /\ i \in 1..n /\ t[i] = s[i] /\ (j = n + 1 \/ j \in 1..n)
      BY <2>2
    <3>2. CASE j = n + 1
      BY <2>1, <2>5, <3>1, <3>2
    <3>3. CASE j \in 1..n
      BY <2>2, <2>7, <3>1, <3>3
    <3> QED
      BY <3>1, <3>2, <3>3
  <2>9. IsListing(t, T, R)
    BY <2>2, <2>6, <2>8 DEF IsListing
  <2> QED
    BY <1>3, <2>9
<1> QED
  BY <1>4, <1>5

===============================================================================
