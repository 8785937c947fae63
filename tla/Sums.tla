-------------------------------- MODULE Sums --------------------------------
(***************************************************************************)
(* Facts about the sum of a function over a finite set, SumFunctionOnSet   *)
(* of the community module Functions: the proofs about balances, holds and *)
(* spending caps rest on them.  The fold behind it chooses an element and  *)
(* goes on with the rest; that it is a sum at all, whatever is chosen, is  *)
(* shown here by induction over the set.                                   *)
(***************************************************************************)
EXTENDS Integers, FiniteSets, Functions, FiniteSetTheorems, WellFoundedInduction, TLAPS

(***************************************************************************)
(* Induction over a finite set: a family that has the empty set and, with  *)
(* a set, the set and one more element, has the whole set.  The family P   *)
(* is a set, so that the induction needs no operator as its parameter; a   *)
(* least counterexample exists since strict inclusion is well founded on   *)
(* finite sets.                                                            *)
(***************************************************************************)
LEMMA SetInduction ==
  ASSUME NEW S, IsFiniteSet(S), NEW P, {} \in P,
         \A T \in SUBSET S : \A x \in S : T \in P /\ x \notin T => T \cup {x} \in P
  PROVE  S \in P
<1> DEFINE C == {T \in SUBSET S : T \notin P}
<1>1. SUFFICES ASSUME S \notin P PROVE FALSE
  OBVIOUS
<1>2. C # {} /\ C \subseteq FiniteSubsetsOf(S)
  BY <1>1, FS_Subset DEF FiniteSubsetsOf
<1>3. IsWellFoundedOn(StrictSubsetOrdering(S), FiniteSubsetsOf(S))
  BY FS_StrictSubsetOrderingWellFounded
<1>4. PICK T \in C : \A U \in C : <<U, T>> \notin StrictSubsetOrdering(S)
  <2> HIDE DEF C
  <2> QED BY <1>2, <1>3, WFMin
<1>5. PICK x : x \in T
  BY <1>4
<1>6. T \ {x} \in SUBSET S /\ T \ {x} # T /\ x \in S
  BY <1>4, <1>5
<1>7. T \ {x} \in P
  BY <1>4, <1>6 DEF StrictSubsetOrdering
<1>8. (T \ {x}) \cup {x} = T
  BY <1>5
<1> QED
  BY <1>4, <1>6, <1>7, <1>8

(***************************************************************************)
(* The same for natural numbers, by the size of 1..n.                      *)
(***************************************************************************)
LEMMA NatSetInduction ==
  ASSUME NEW P, 0 \in P, \A n \in Nat : n \in P => n + 1 \in P
  PROVE  \A n \in Nat : n \in P
<1> TAKE n \in Nat
<1> DEFINE Q == {T \in SUBSET (1..n) : Cardinality(T) \in P}
<1>1. IsFiniteSet(1..n) /\ Cardinality(1..n) = n
  BY FS_Interval
<1>2. {} \in Q
  BY FS_EmptySet
<1>3. ASSUME NEW T \in SUBSET (1..n), NEW x \in 1..n, T \in Q, x \notin T
      PROVE  T \cup {x} \in Q
  <2>1. IsFiniteSet(T)
    BY <1>1, FS_Subset
  <2>2. Cardinality(T) \in Nat /\ Cardinality(T \cup {x}) = Cardinality(T) + 1
    BY <2>1, <1>3, FS_AddElement, FS_CardinalityType
  <2> QED
    BY <1>3, <2>2
<1>4. 1..n \in Q
  <2> HIDE DEF Q
  <2> QED BY <1>1, <1>2, <1>3, SetInduction
<1> QED
  BY <1>1, <1>4

\* The element a sum over s takes first.
Chosen(s) == CHOOSE x \in s : TRUE
\* The sum over s from the sums g over smaller sets.
SumStep(f, g, s) == IF s = {} THEN 0 ELSE f[Chosen(s)] + g[s \ {Chosen(s)}]
\* The recursive function on subsets of S behind the fold.
PartialSums(f, S) == CHOOSE g : g = [s \in SUBSET S |-> SumStep(f, g, s)]

(***************************************************************************)
(* A sum is the last of its partial sums.                                  *)
(***************************************************************************)
LEMMA SumIsPartialSum ==
  ASSUME NEW f, NEW S
  PROVE  SumFunctionOnSet(f, S) = PartialSums(f, S)[S]
BY DEF SumFunctionOnSet, FoldFunctionOnSet, MapThenFoldSet, PartialSums, SumStep, Chosen

(***************************************************************************)
(* Taking the first element away leaves a smaller set.                     *)
(***************************************************************************)
LEMMA ChosenRemoved ==
  ASSUME NEW s, IsFiniteSet(s), s # {}
  PROVE  /\ Chosen(s) \in s
         /\ IsFiniteSet(s \ {Chosen(s)})
         /\ Cardinality(s) \in Nat \ {0}
         /\ Cardinality(s \ {Chosen(s)}) = Cardinality(s) - 1
<1>1. Chosen(s) \in s
  BY DEF Chosen
<1>2. Cardinality(s) \in Nat \ {0}
  BY FS_EmptySet, FS_CardinalityType
<1> QED
  BY <1>1, <1>2, FS_RemoveElement

(***************************************************************************)
(* A function with the recursion of the partial sums exists, so that the   *)
(* one the fold chooses has it: built by induction on the size of the      *)
(* subsets.                                                                *)
(***************************************************************************)
LEMMA PartialSumsDefined ==
  ASSUME NEW f, NEW S, IsFiniteSet(S)
  PROVE  PartialSums(f, S) = [s \in SUBSET S |-> SumStep(f, PartialSums(f, S), s)]
<1> DEFINE Upto(n, g) == /\ g = [s \in SUBSET S |-> g[s]]
                         /\ \A s \in SUBSET S : Cardinality(s) <= n => g[s] = SumStep(f, g, s)
           P == {n \in Nat : \E g : Upto(n, g)}
<1>0. \A s \in SUBSET S : IsFiniteSet(s) /\ Cardinality(s) \in Nat /\ (Cardinality(s) = 0 <=> s = {})
  BY FS_Subset, FS_CardinalityType, FS_EmptySet
<1>1. 0 \in P
  <2> DEFINE g == [s \in SUBSET S |-> 0]
  <2>1. g = [s \in SUBSET S |-> g[s]]
    OBVIOUS
  <2>2. ASSUME NEW s \in SUBSET S, Cardinality(s) <= 0 PROVE g[s] = SumStep(f, g, s)
    <3>1. s = {} 
      BY <1>0, <2>2
    <3> QED BY <3>1 DEF SumStep
  <2>3. Upto(0, g)
    BY <2>1, <2>2
  <2> QED BY <2>3
<1>2. ASSUME NEW n \in Nat, n \in P PROVE n + 1 \in P
  <2>1. PICK g : Upto(n, g)
    BY <1>2
  <2> DEFINE h == [s \in SUBSET S |-> IF Cardinality(s) <= n THEN g[s] ELSE SumStep(f, g, s)]
  <2>2. h = [s \in SUBSET S |-> h[s]]
    OBVIOUS
  <2>3. ASSUME NEW s \in SUBSET S, Cardinality(s) <= n + 1 PROVE h[s] = SumStep(f, h, s)
    <3>1. h[s] = SumStep(f, g, s)
      BY <2>1
    <3>2. CASE s = {}
      BY <3>1, <3>2 DEF SumStep
    <3>3. CASE s # {}
      <4>1. /\ s \ {Chosen(s)} \in SUBSET S
            /\ Cardinality(s \ {Chosen(s)}) <= n
        BY <1>0, <2>3, <3>3, ChosenRemoved
      <4>2. h[s \ {Chosen(s)}] = g[s \ {Chosen(s)}]
        BY <4>1
      <4> HIDE DEF h
      <4> QED BY <3>1, <4>2 DEF SumStep
    <3> QED BY <3>2, <3>3
  <2>4. Upto(n + 1, h)
    <3> HIDE DEF h
    <3> QED BY <2>2, <2>3
  <2> HIDE DEF Upto
  <2> QED BY <2>4
<1>3. Cardinality(S) \in P
  <2> HIDE DEF P
  <2> QED BY <1>0, <1>1, <1>2, NatSetInduction
<1>4. PICK g : Upto(Cardinality(S), g)
  BY <1>3
<1>5. g = [s \in SUBSET S |-> SumStep(f, g, s)]
  <2>1. \A s \in SUBSET S : Cardinality(s) <= Cardinality(S)
    BY FS_Subset
  <2>2. \A s \in SUBSET S : g[s] = SumStep(f, g, s)
    BY <2>1, <1>4
  <2>3. g = [s \in SUBSET S |-> g[s]]
    BY <1>4
  <2> QED BY <2>2, <2>3
<1> QED
  BY <1>5 DEF PartialSums

(***************************************************************************)
(* The recursion, one subset at a time.                                    *)
(***************************************************************************)
LEMMA PartialSumsStep ==
  ASSUME NEW f, NEW S, IsFiniteSet(S), NEW T \in SUBSET S
  PROVE  /\ T = {} => PartialSums(f, S)[T] = 0
         /\ T # {} => /\ Chosen(T) \in T
                      /\ PartialSums(f, S)[T] = f[Chosen(T)] + PartialSums(f, S)[T \ {Chosen(T)}]
<1>1. PartialSums(f, S)[T] = SumStep(f, PartialSums(f, S), T)
  <2> DEFINE g == PartialSums(f, S)
  <2>1. g = [s \in SUBSET S |-> SumStep(f, g, s)]
    BY PartialSumsDefined
  <2> HIDE DEF g
  <2>2. g[T] = SumStep(f, g, T)
    BY <2>1
  <2> QED BY <2>2 DEF g
<1> QED
  BY <1>1 DEF SumStep, Chosen

(***************************************************************************)
(* The partial sum over T is the same in every superset.                   *)
(***************************************************************************)
LEMMA PartialSumsRestricted ==
  ASSUME NEW f, NEW S, IsFiniteSet(S), NEW T \in SUBSET S
  PROVE  PartialSums(f, S)[T] = PartialSums(f, T)[T]
<1> DEFINE P == {n \in Nat : \A U \in SUBSET S : \A V \in SUBSET U :
                               Cardinality(V) = n => PartialSums(f, U)[V] = PartialSums(f, V)[V]}
<1>0. \A U \in SUBSET S : IsFiniteSet(U) /\ Cardinality(U) \in Nat /\ (Cardinality(U) = 0 <=> U = {})
  BY FS_Subset, FS_CardinalityType, FS_EmptySet
<1>1. 0 \in P
  <2> SUFFICES ASSUME NEW U \in SUBSET S, NEW V \in SUBSET U, Cardinality(V) = 0
               PROVE  PartialSums(f, U)[V] = PartialSums(f, V)[V]
    OBVIOUS
  <2> QED BY <1>0, PartialSumsStep
<1>2. ASSUME NEW n \in Nat, n \in P PROVE n + 1 \in P
  <2> SUFFICES ASSUME NEW U \in SUBSET S, NEW V \in SUBSET U, Cardinality(V) = n + 1
               PROVE  PartialSums(f, U)[V] = PartialSums(f, V)[V]
    OBVIOUS
  <2> DEFINE p == Chosen(V)
  <2>1. V # {} /\ IsFiniteSet(U) /\ IsFiniteSet(V) /\ V \in SUBSET S
    BY <1>0
  <2>2. /\ V \ {p} \in SUBSET U
        /\ V \ {p} \in SUBSET V
        /\ Cardinality(V \ {p}) = n
    BY <2>1, ChosenRemoved
  <2>3. PartialSums(f, U)[V \ {p}] = PartialSums(f, V \ {p})[V \ {p}]
    BY <1>2, <2>1, <2>2
  <2>4. PartialSums(f, V)[V \ {p}] = PartialSums(f, V \ {p})[V \ {p}]
    BY <1>2, <2>1, <2>2
  <2>5. PartialSums(f, U)[V] = f[p] + PartialSums(f, U)[V \ {p}]
    BY <2>1, PartialSumsStep
  <2>6. PartialSums(f, V)[V] = f[p] + PartialSums(f, V)[V \ {p}]
    BY <2>1, PartialSumsStep
  <2> QED BY <2>3, <2>4, <2>5, <2>6
<1>3. Cardinality(T) \in P
  <2> HIDE DEF P
  <2> QED BY <1>0, <1>1, <1>2, NatSetInduction
<1> QED
  BY <1>3

(***************************************************************************)
(* The sum over nothing is 0.                                              *)
(***************************************************************************)
LEMMA SumEmpty ==
  ASSUME NEW f
  PROVE  SumFunctionOnSet(f, {}) = 0
BY SumIsPartialSum, PartialSumsStep, FS_EmptySet

(***************************************************************************)
(* A sum is its first element and the sum over the rest.                   *)
(***************************************************************************)
LEMMA SumChosen ==
  ASSUME NEW f, NEW S, IsFiniteSet(S), S # {}
  PROVE  /\ Chosen(S) \in S
         /\ SumFunctionOnSet(f, S) = f[Chosen(S)] + SumFunctionOnSet(f, S \ {Chosen(S)})
<1>1. SumFunctionOnSet(f, S) = f[Chosen(S)] + PartialSums(f, S)[S \ {Chosen(S)}]
  BY SumIsPartialSum, PartialSumsStep
<1>2. PartialSums(f, S)[S \ {Chosen(S)}] = SumFunctionOnSet(f, S \ {Chosen(S)})
  BY SumIsPartialSum, PartialSumsRestricted
<1> QED
  BY <1>1, <1>2, ChosenRemoved

(***************************************************************************)
(* A sum of integers is one, and any element may be taken out first: the   *)
(* order of the fold does not matter.                                      *)
(***************************************************************************)
LEMMA SumByRemoval ==
  ASSUME NEW f, NEW S, IsFiniteSet(S), \A x \in S : f[x] \in Int
  PROVE  /\ SumFunctionOnSet(f, S) \in Int
         /\ \A x \in S : SumFunctionOnSet(f, S) = f[x] + SumFunctionOnSet(f, S \ {x})
<1> DEFINE sum(T) == SumFunctionOnSet(f, T)
           Good(T) == sum(T) \in Int /\ \A x \in T : sum(T) = f[x] + sum(T \ {x})
           P == {n \in Nat : \A T \in SUBSET S : Cardinality(T) <= n => Good(T)}
<1>0. \A U \in SUBSET S : IsFiniteSet(U) /\ Cardinality(U) \in Nat /\ (Cardinality(U) = 0 <=> U = {})
  BY FS_Subset, FS_CardinalityType, FS_EmptySet
<1>1. 0 \in P
  <2> SUFFICES ASSUME NEW T \in SUBSET S, Cardinality(T) <= 0
               PROVE  Good(T)
    OBVIOUS
  <2>1. T = {}
    BY <1>0
  <2> QED BY <2>1, SumEmpty
<1>2. ASSUME NEW n \in Nat, n \in P PROVE n + 1 \in P
  <2> SUFFICES ASSUME NEW T \in SUBSET S, Cardinality(T) <= n + 1
               PROVE  Good(T)
    OBVIOUS
  <2>0. CASE Cardinality(T) <= n
    BY <1>2, <2>0
  <2>1. CASE Cardinality(T) = n + 1
    <3> DEFINE p == Chosen(T)
    <3>1. T # {} /\ IsFiniteSet(T) /\ p \in T
      <4>1. Cardinality(T) # 0
        BY <2>1
      <4> QED BY <1>0, <4>1, SumChosen
    <3>2. sum(T) = f[p] + sum(T \ {p})
      BY <3>1, SumChosen
    <3>3. ASSUME NEW y \in T PROVE Cardinality(T \ {y}) <= n /\ T \ {y} \in SUBSET S
      <4>1. Cardinality(T \ {y}) = Cardinality(T) - 1
        BY <3>1, FS_RemoveElement
      <4> QED BY <2>1, <4>1
    <3> HIDE DEF p, sum
    <3>4. \A y \in T : Good(T \ {y})
      BY <1>2, <3>3
    <3>5. sum(T) \in Int
      BY <3>1, <3>2, <3>4
    <3>6. ASSUME NEW x \in T PROVE sum(T) = f[x] + sum(T \ {x})
      <4>1. CASE x = p
        BY <4>1, <3>2
      <4>2. CASE x # p
        <5>1. sum(T \ {p}) = f[x] + sum((T \ {p}) \ {x})
          BY <3>1, <3>4, <4>2
        <5>2. sum(T \ {x}) = f[p] + sum((T \ {x}) \ {p})
          BY <3>1, <3>4, <4>2
        <5>3. (T \ {p}) \ {x} = (T \ {x}) \ {p}
          OBVIOUS
        <5>4. (T \ {p}) \ {x} \in SUBSET S /\ Cardinality((T \ {p}) \ {x}) <= n
          <6>1. x \in T \ {p} /\ T \ {p} \in SUBSET S /\ IsFiniteSet(T \ {p})
            BY <1>0, <4>2
          <6>2. Cardinality((T \ {p}) \ {x}) = Cardinality(T \ {p}) - 1
            BY <6>1, FS_RemoveElement
          <6>3. Cardinality(T \ {p}) \in Nat /\ Cardinality(T \ {p}) <= n
            BY <1>0, <3>1, <3>3, <6>1
          <6> QED
            BY <6>1, <6>2, <6>3
        <5>5. sum((T \ {p}) \ {x}) \in Int
          BY <1>2, <5>4
        <5>6. f[x] \in Int /\ f[p] \in Int
          BY <3>1
        <5>7. sum(T) = f[p] + (f[x] + sum((T \ {p}) \ {x}))
          BY <3>2, <5>1
        <5>8. f[x] + sum(T \ {x}) = f[x] + (f[p] + sum((T \ {p}) \ {x}))
          BY <5>2, <5>3
        <5> QED BY <5>5, <5>6, <5>7, <5>8
      <4> QED BY <4>1, <4>2
    <3> QED BY <3>5, <3>6
  <2> QED BY <1>0, <2>0, <2>1
<1>3. Cardinality(S) \in P
  <2> HIDE DEF P
  <2> QED BY <1>0, <1>1, <1>2, NatSetInduction
<1> QED
  BY <1>0, <1>3

(***************************************************************************)
(* A sum of integers is an integer.                                        *)
(***************************************************************************)
LEMMA SumType ==
  ASSUME NEW f, NEW S, IsFiniteSet(S), \A x \in S : f[x] \in Int
  PROVE  SumFunctionOnSet(f, S) \in Int
BY SumByRemoval

(***************************************************************************)
(* Taking one element out of a sum.                                        *)
(***************************************************************************)
LEMMA SumRemove ==
  ASSUME NEW f, NEW S, IsFiniteSet(S), \A x \in S : f[x] \in Int, NEW x \in S
  PROVE  SumFunctionOnSet(f, S) = f[x] + SumFunctionOnSet(f, S \ {x})
BY SumByRemoval

(***************************************************************************)
(* Adding one element to a sum.                                            *)
(***************************************************************************)
LEMMA SumInsert ==
  ASSUME NEW f, NEW S, IsFiniteSet(S), \A y \in S : f[y] \in Int,
         NEW x, x \notin S, f[x] \in Int
  PROVE  SumFunctionOnSet(f, S \cup {x}) = SumFunctionOnSet(f, S) + f[x]
<1> DEFINE U == S \cup {x}
<1>1. IsFiniteSet(U) /\ (\A y \in U : f[y] \in Int) /\ x \in U /\ U \ {x} = S
  BY FS_AddElement
<1>2. SumFunctionOnSet(f, S) \in Int
  BY SumType
<1> HIDE DEF U
<1>3. SumFunctionOnSet(f, U) = f[x] + SumFunctionOnSet(f, S)
  BY <1>1, SumRemove
<1> QED
  BY <1>2, <1>3 DEF U

(***************************************************************************)
(* Equal elements have equal sums.                                         *)
(***************************************************************************)
LEMMA SumCong ==
  ASSUME NEW f, NEW g, NEW S, IsFiniteSet(S),
         \A x \in S : f[x] \in Int /\ f[x] = g[x]
  PROVE  SumFunctionOnSet(f, S) = SumFunctionOnSet(g, S)
<1> DEFINE P == {T \in SUBSET S : SumFunctionOnSet(f, T) = SumFunctionOnSet(g, T)}
<1>1. {} \in P
  BY SumEmpty
<1>2. ASSUME NEW T \in SUBSET S, NEW x \in S, T \in P, x \notin T
      PROVE  T \cup {x} \in P
  <2>1. IsFiniteSet(T)
    BY FS_Subset
  <2>2. SumFunctionOnSet(f, T \cup {x}) = SumFunctionOnSet(f, T) + f[x]
    BY <1>2, <2>1, SumInsert
  <2>3. SumFunctionOnSet(g, T \cup {x}) = SumFunctionOnSet(g, T) + g[x]
    BY <1>2, <2>1, SumInsert
  <2> QED BY <1>2, <2>2, <2>3
<1>3. S \in P
  <2> HIDE DEF P
  <2> QED BY <1>1, <1>2, SetInduction
<1> QED
  BY <1>3

(***************************************************************************)
(* Smaller elements have a smaller sum.                                    *)
(***************************************************************************)
LEMMA SumMono ==
  ASSUME NEW f, NEW g, NEW S, IsFiniteSet(S),
         \A x \in S : f[x] \in Int /\ g[x] \in Int /\ f[x] <= g[x]
  PROVE  SumFunctionOnSet(f, S) <= SumFunctionOnSet(g, S)
<1> DEFINE P == {T \in SUBSET S : SumFunctionOnSet(f, T) <= SumFunctionOnSet(g, T)}
<1>1. {} \in P
  BY SumEmpty
<1>2. ASSUME NEW T \in SUBSET S, NEW x \in S, T \in P, x \notin T
      PROVE  T \cup {x} \in P
  <2>1. IsFiniteSet(T)
    BY FS_Subset
  <2>2. SumFunctionOnSet(f, T \cup {x}) = SumFunctionOnSet(f, T) + f[x]
    BY <1>2, <2>1, SumInsert
  <2>3. SumFunctionOnSet(g, T \cup {x}) = SumFunctionOnSet(g, T) + g[x]
    BY <1>2, <2>1, SumInsert
  <2>4. SumFunctionOnSet(f, T) \in Int /\ SumFunctionOnSet(g, T) \in Int
    BY <2>1, SumType
  <2>5. f[x] \in Int /\ g[x] \in Int /\ f[x] <= g[x]
    OBVIOUS
  <2> QED BY <1>2, <2>2, <2>3, <2>4, <2>5
<1>3. S \in P
  <2> HIDE DEF P
  <2> QED BY <1>1, <1>2, SetInduction
<1> QED
  BY <1>3

(***************************************************************************)
(* A sum of zeros is 0.                                                    *)
(***************************************************************************)
LEMMA SumZero ==
  ASSUME NEW f, NEW S, IsFiniteSet(S), \A x \in S : f[x] = 0
  PROVE  SumFunctionOnSet(f, S) = 0
<1> DEFINE P == {T \in SUBSET S : SumFunctionOnSet(f, T) = 0}
<1>1. {} \in P
  BY SumEmpty
<1>2. ASSUME NEW T \in SUBSET S, NEW x \in S, T \in P, x \notin T
      PROVE  T \cup {x} \in P
  <2>1. IsFiniteSet(T)
    BY FS_Subset
  <2>2. SumFunctionOnSet(f, T \cup {x}) = SumFunctionOnSet(f, T) + f[x]
    BY <1>2, <2>1, SumInsert
  <2> QED BY <1>2, <2>2
<1>3. S \in P
  <2> HIDE DEF P
  <2> QED BY <1>1, <1>2, SetInduction
<1> QED
  BY <1>3

(***************************************************************************)
(* A sum of natural numbers is one.                                        *)
(***************************************************************************)
LEMMA SumNat ==
  ASSUME NEW f, NEW S, IsFiniteSet(S), \A x \in S : f[x] \in Nat
  PROVE  SumFunctionOnSet(f, S) \in Nat
<1> DEFINE z == [x \in S |-> 0]
<1>1. SumFunctionOnSet(f, S) \in Int
  BY SumType
<1>2. SumFunctionOnSet(z, S) = 0
  BY SumZero
<1>3. SumFunctionOnSet(z, S) <= SumFunctionOnSet(f, S)
  BY SumMono
<1> HIDE DEF z
<1> QED
  BY <1>1, <1>2, <1>3

(***************************************************************************)
(* What a sum becomes when one element changes.                            *)
(***************************************************************************)
LEMMA SumChange ==
  ASSUME NEW f, NEW g, NEW S, IsFiniteSet(S), NEW x \in S,
         \A y \in S : f[y] \in Int /\ g[y] \in Int,
         \A y \in S : y # x => g[y] = f[y]
  PROVE  SumFunctionOnSet(g, S) = SumFunctionOnSet(f, S) - f[x] + g[x]
<1> DEFINE U == S \ {x}
<1>1. IsFiniteSet(U)
  BY FS_RemoveElement
<1>2. SumFunctionOnSet(f, U) = SumFunctionOnSet(g, U) /\ SumFunctionOnSet(f, U) \in Int
  BY <1>1, SumCong, SumType
<1>3. /\ SumFunctionOnSet(f, S) = f[x] + SumFunctionOnSet(f, U)
      /\ SumFunctionOnSet(g, S) = g[x] + SumFunctionOnSet(g, U)
  BY SumRemove
<1> HIDE DEF U
<1> QED
  BY <1>2, <1>3

(***************************************************************************)
(* The sum over a disjoint union.                                          *)
(***************************************************************************)
LEMMA SumUnion ==
  ASSUME NEW f, NEW S, NEW T, IsFiniteSet(S), IsFiniteSet(T), S \cap T = {},
         \A x \in S \cup T : f[x] \in Int
  PROVE  SumFunctionOnSet(f, S \cup T) = SumFunctionOnSet(f, S) + SumFunctionOnSet(f, T)
<1> DEFINE P == {U \in SUBSET T : SumFunctionOnSet(f, S \cup U)
                    = SumFunctionOnSet(f, S) + SumFunctionOnSet(f, U)}
<1>0. SumFunctionOnSet(f, S) \in Int
  BY SumType
<1>1. {} \in P
  <2>1. S \cup {} = S
    OBVIOUS
  <2> QED BY <1>0, <2>1, SumEmpty
<1>2. ASSUME NEW U \in SUBSET T, NEW x \in T, U \in P, x \notin U
      PROVE  U \cup {x} \in P
  <2>1. IsFiniteSet(U) /\ IsFiniteSet(S \cup U) /\ x \notin S \cup U
    BY <1>2, FS_Subset, FS_Union
  <2>2. SumFunctionOnSet(f, U \cup {x}) = SumFunctionOnSet(f, U) + f[x]
    BY <1>2, <2>1, SumInsert
  <2>3. SumFunctionOnSet(f, (S \cup U) \cup {x}) = SumFunctionOnSet(f, S \cup U) + f[x]
    BY <1>2, <2>1, SumInsert
  <2>4. (S \cup U) \cup {x} = S \cup (U \cup {x})
    OBVIOUS
  <2>5. SumFunctionOnSet(f, U) \in Int /\ f[x] \in Int
    BY <2>1, SumType
  <2>6. SumFunctionOnSet(f, S \cup (U \cup {x})) = SumFunctionOnSet(f, S \cup U) + f[x]
    <3> HIDE DEF P
    <3> QED BY <2>3, <2>4, Zenon
  <2>7. /\ U \cup {x} \in SUBSET T
        /\ SumFunctionOnSet(f, S \cup U) = SumFunctionOnSet(f, S) + SumFunctionOnSet(f, U)
    BY <1>2
  <2> QED BY <1>0, <2>2, <2>5, <2>6, <2>7
<1>3. T \in P
  <2> HIDE DEF P
  <2> QED BY <1>1, <1>2, SetInduction
<1> QED
  BY <1>3

(***************************************************************************)
(* A part of a sum of natural numbers is not more than the sum.            *)
(***************************************************************************)
LEMMA SumSubset ==
  ASSUME NEW f, NEW S, IsFiniteSet(S), NEW T \in SUBSET S, \A x \in S : f[x] \in Nat
  PROVE  SumFunctionOnSet(f, T) <= SumFunctionOnSet(f, S)
<1>1. IsFiniteSet(T) /\ IsFiniteSet(S \ T)
  BY FS_Subset
<1>2. T \cup (S \ T) = S /\ T \cap (S \ T) = {}
  OBVIOUS
<1>3. SumFunctionOnSet(f, T \cup (S \ T)) = SumFunctionOnSet(f, T) + SumFunctionOnSet(f, S \ T)
  BY <1>1, <1>2, SumUnion
<1>4. SumFunctionOnSet(f, T) \in Nat /\ SumFunctionOnSet(f, S \ T) \in Nat
  BY <1>1, SumNat
<1>5. SumFunctionOnSet(f, S) = SumFunctionOnSet(f, T) + SumFunctionOnSet(f, S \ T)
  BY <1>2, <1>3, Zenon
<1> QED
  BY <1>4, <1>5
=============================================================================
