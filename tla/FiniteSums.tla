----------------------------- MODULE FiniteSums -----------------------------
(***************************************************************************)
(* Sums over finite sets.                                                  *)
(*                                                                         *)
(* SumFunctionOnSet(f, S), which the models add up bytes with, is defined  *)
(* by a recursive function that takes any element away from S at a time.   *)
(* These lemmas say what such a sum is, whatever the elements and however  *)
(* many: the induction is the minimality of a smallest counterexample.     *)
(***************************************************************************)
EXTENDS Integers, FiniteSets, FiniteSetsExt, FiniteSetTheorems, TLAPS

\* Every set of subsets of a finite set that holds a subset whenever it holds
\* all its smaller ones holds them all.
LEMMA SubsetInduction ==
  ASSUME NEW U, IsFiniteSet(U), NEW P,
         \A s \in SUBSET U : (\A t \in SUBSET s : t # s => t \in P) => s \in P
  PROVE  \A s \in SUBSET U : s \in P
  <1>1. SUFFICES ASSUME NEW w \in SUBSET U, w \notin P PROVE FALSE
    OBVIOUS
  <1> DEFINE T == {s \in SUBSET U : s \notin P}
             R == StrictSubsetOrdering(U)
  <1>2. T \subseteq FiniteSubsetsOf(U) /\ T # {}
    BY <1>1, FS_Subset DEF FiniteSubsetsOf
  <1>3. \E s \in T : \A t \in T : <<t, s>> \notin R
    <2> HIDE DEF T, R
    <2>1. IsWellFoundedOn(R, FiniteSubsetsOf(U))
      BY FS_StrictSubsetOrderingWellFounded DEF R
    <2> QED BY <2>1, <1>2, WFMin
  <1>4. PICK s \in T : \A t \in T : <<t, s>> \notin R
    BY <1>3
  <1>5. ASSUME NEW t \in SUBSET s, t # s PROVE t \in P
    BY <1>4, <1>5 DEF StrictSubsetOrdering
  <1> QED BY <1>4, <1>5

\* The same from one element more at a time.
LEMMA ElementInduction ==
  ASSUME NEW U, IsFiniteSet(U), NEW P, {} \in P,
         \A s \in SUBSET U : \A x \in s : s \ {x} \in P => s \in P
  PROVE  U \in P
  <1>1. ASSUME NEW s \in SUBSET U, \A t \in SUBSET s : t # s => t \in P
        PROVE  s \in P
    <2>1. CASE s = {}
      BY <2>1
    <2>2. ASSUME NEW x \in s PROVE s \in P
      <3>1. s \ {x} \in P
        BY <1>1
      <3> QED BY <3>1
    <2> QED BY <2>1, <2>2
  <1> QED BY <1>1, SubsetInduction

\* A set that holds the start of an interval and, with a number of the
\* interval, the next one holds the whole interval.
LEMMA IntervalInduction ==
  ASSUME NEW a \in Int, NEW b \in Int, a <= b, NEW P, a \in P,
         \A m \in a .. b - 1 : m \in P => m + 1 \in P
  PROVE  b \in P
  <1> DEFINE U == a .. b
             Q == {s \in SUBSET U : \A m \in U : s = a .. m => m \in P}
  <1>1. IsFiniteSet(U)
    BY FS_Interval
  <1>2. ASSUME NEW s \in SUBSET U, \A t \in SUBSET s : t # s => t \in Q
        PROVE  s \in Q
    <2>1. ASSUME NEW m \in U, s = a .. m PROVE m \in P
      <3>1. CASE m = a
        BY <3>1
      <3>2. CASE m # a
        <4>1. m - 1 \in a .. b - 1 /\ m - 1 \in U
          BY <3>2
        <4>2. a .. (m - 1) \in SUBSET s /\ m \in s /\ m \notin a .. (m - 1)
          BY <2>1
        <4>3. a .. (m - 1) \in Q
          BY <1>2, <4>2
        <4>4. m - 1 \in P
          BY <4>1, <4>3
        <4> QED BY <4>1, <4>4
      <3> QED BY <3>1, <3>2
    <2> QED BY <2>1
  <1>3. \A s \in SUBSET U : s \in Q
    <2> HIDE DEF Q, U
    <2> QED BY <1>1, <1>2, SubsetInduction
  <1> QED BY <1>3

-----------------------------------------------------------------------------
(* The recursive function behind a sum *)

Pick(s) == CHOOSE x \in s : TRUE
SumBody(f, g, s) == IF s = {} THEN 0 ELSE f[Pick(s)] + g[s \ {Pick(s)}]
Solves(g, f, S) == g = [s \in SUBSET S |-> SumBody(f, g, s)]

LEMMA PickIn == ASSUME NEW s, s # {} PROVE Pick(s) \in s
  BY DEF Pick

\* The library's definition, unfolded.
LEMMA SumUnfolds ==
  ASSUME NEW f, NEW S
  PROVE  SumFunctionOnSet(f, S) = (CHOOSE g : Solves(g, f, S))[S]
  BY DEF SumFunctionOnSet, FoldFunctionOnSet, MapThenFoldSet, Solves, SumBody, Pick

\* Two solutions agree where both are defined.
LEMMA SolutionsAgree ==
  ASSUME NEW f, NEW S, NEW T, NEW g, NEW h, NEW W, IsFiniteSet(W),
         W \subseteq S, W \subseteq T, Solves(g, f, S), Solves(h, f, T)
  PROVE  g[W] = h[W]
  <1> DEFINE P == {s \in SUBSET W : g[s] = h[s]}
  <1>1. ASSUME NEW s \in SUBSET W, \A t \in SUBSET s : t # s => t \in P
        PROVE  s \in P
    <2>1. g[s] = SumBody(f, g, s) /\ h[s] = SumBody(f, h, s)
      BY DEF Solves
    <2>2. CASE s = {}
      BY <2>1, <2>2 DEF SumBody
    <2>3. CASE s # {}
      <3>1. s \ {Pick(s)} \in P
        BY <1>1, <2>3, PickIn
      <3> QED BY <2>1, <2>3, <3>1 DEF SumBody
    <2> QED BY <2>2, <2>3
  <1>2. \A s \in SUBSET W : s \in P
    <2> HIDE DEF P
    <2> QED BY <1>1, SubsetInduction
  <1> QED BY <1>2

\* Every finite set has a solution.
LEMMA SolutionExists ==
  ASSUME NEW f, NEW U, IsFiniteSet(U)
  PROVE  \E g : Solves(g, f, U)
  <1> DEFINE P == {s \in SUBSET U : \E g : Solves(g, f, s)}
             G(s) == CHOOSE g : Solves(g, f, s)
  <1>1. ASSUME NEW s \in SUBSET U, \A t \in SUBSET s : t # s => t \in P
        PROVE  s \in P
    <2>1. ASSUME NEW t \in SUBSET s, t # s PROVE Solves(G(t), f, t)
      BY <1>1, <2>1
    <2> DEFINE g == [t \in SUBSET s |->
                       IF t = {} THEN 0
                       ELSE f[Pick(t)] + G(t \ {Pick(t)})[t \ {Pick(t)}]]
    <2> HIDE DEF G
    <2>2. ASSUME NEW t \in SUBSET s PROVE g[t] = SumBody(f, g, t)
      <3>1. CASE t = {}
        BY <3>1 DEF SumBody
      <3>2. CASE t # {}
        <4> DEFINE u == t \ {Pick(t)}
        <4>1. u \in SUBSET s /\ u # s
          BY <3>2, PickIn
        <4>2. g[t] = f[Pick(t)] + G(u)[u]
          BY <3>2
        <4>3. g[u] = G(u)[u]
          <5>1. Solves(G(u), f, u)
            BY <2>1, <4>1
          <5>2. CASE u = {}
            <6>1. G(u)[u] = 0
              BY <5>1, <5>2 DEF Solves, SumBody
            <6>2. g[u] = 0
              BY <4>1, <5>2
            <6> QED BY <6>1, <6>2
          <5>3. CASE u # {}
            <6> DEFINE v == u \ {Pick(u)}
            <6>1. v \in SUBSET u /\ v \in SUBSET s /\ v # s
              BY <4>1, <5>3, PickIn
            <6>2. G(u)[u] = f[Pick(u)] + G(u)[v]
              BY <5>1, <5>3 DEF Solves, SumBody
            <6>3. G(u)[v] = G(v)[v]
              <7>1. Solves(G(v), f, v) /\ IsFiniteSet(v)
                BY <2>1, <6>1, FS_Subset
              <7> HIDE DEF u, v
              <7> QED BY <5>1, <6>1, <7>1, SolutionsAgree
            <6>4. g[u] = f[Pick(u)] + G(v)[v]
              BY <4>1, <5>3
            <6> QED BY <6>2, <6>3, <6>4
          <5> QED BY <5>2, <5>3
        <4> QED BY <3>2, <4>2, <4>3 DEF SumBody
      <3> QED BY <3>1, <3>2
    <2>3. g = [t \in SUBSET s |-> SumBody(f, g, t)]
      BY <2>2
    <2>4. Solves(g, f, s)
      BY <2>3 DEF Solves
    <2> QED BY <2>4
  <1>2. \A s \in SUBSET U : s \in P
    <2> HIDE DEF P, G
    <2> QED BY <1>1, SubsetInduction
  <1> QED BY <1>2

\* A sum is the value of any solution.
LEMMA SumIsSolution ==
  ASSUME NEW f, NEW U, IsFiniteSet(U), NEW g, Solves(g, f, U), NEW S \in SUBSET U
  PROVE  SumFunctionOnSet(f, S) = g[S]
  <1>1. IsFiniteSet(S)
    BY FS_Subset
  <1> DEFINE h == CHOOSE h : Solves(h, f, S)
  <1>2. Solves(h, f, S)
    BY <1>1, SolutionExists
  <1>3. SumFunctionOnSet(f, S) = h[S]
    BY SumUnfolds
  <1>4. S \subseteq U /\ S \subseteq S
    OBVIOUS
  <1>5. g[S] = h[S]
    <2> HIDE DEF h
    <2> QED BY <1>1, <1>2, <1>4, SolutionsAgree
  <1> QED BY <1>3, <1>5

-----------------------------------------------------------------------------
(* What a sum is *)

\* The sum over nothing.
LEMMA SumEmpty == \A f : SumFunctionOnSet(f, {}) = 0
  <1> SUFFICES ASSUME NEW f PROVE SumFunctionOnSet(f, {}) = 0
    OBVIOUS
  <1>1. IsFiniteSet({})
    BY FS_EmptySet
  <1>2. PICK g : Solves(g, f, {})
    BY <1>1, SolutionExists
  <1>3. g[{}] = 0
    BY <1>2 DEF Solves, SumBody
  <1> QED BY <1>1, <1>2, <1>3, SumIsSolution

\* The element the recursion takes first.
LEMMA SumPick ==
  ASSUME NEW f, NEW S, IsFiniteSet(S), S # {}
  PROVE  SumFunctionOnSet(f, S) = f[Pick(S)] + SumFunctionOnSet(f, S \ {Pick(S)})
  <1>1. PICK g : Solves(g, f, S)
    BY SolutionExists
  <1>2. g[S] = f[Pick(S)] + g[S \ {Pick(S)}]
    BY <1>1 DEF Solves, SumBody
  <1>3. SumFunctionOnSet(f, S) = g[S]
    BY <1>1, SumIsSolution
  <1>4. SumFunctionOnSet(f, S \ {Pick(S)}) = g[S \ {Pick(S)}]
    BY <1>1, SumIsSolution
  <1> QED BY <1>2, <1>3, <1>4

\* A sum of natural numbers is one.
LEMMA SumType ==
  ASSUME NEW f, NEW S, IsFiniteSet(S), \A x \in S : f[x] \in Nat
  PROVE  SumFunctionOnSet(f, S) \in Nat
  <1> DEFINE P == {s \in SUBSET S : SumFunctionOnSet(f, s) \in Nat}
  <1>1. ASSUME NEW s \in SUBSET S, \A t \in SUBSET s : t # s => t \in P
        PROVE  s \in P
    <2>1. CASE s = {}
      BY <2>1, SumEmpty
    <2>2. CASE s # {}
      <3>1. Pick(s) \in s /\ s \ {Pick(s)} \in P
        BY <1>1, <2>2, PickIn
      <3>2. IsFiniteSet(s)
        BY FS_Subset
      <3> QED BY <2>2, <3>1, <3>2, SumPick
    <2> QED BY <2>1, <2>2
  <1>2. \A s \in SUBSET S : s \in P
    <2> HIDE DEF P
    <2> QED BY <1>1, SubsetInduction
  <1> QED BY <1>2

\* It does not matter which element is taken first.
LEMMA SumRemove ==
  ASSUME NEW f, NEW S, IsFiniteSet(S), \A x \in S : f[x] \in Nat, NEW x \in S
  PROVE  SumFunctionOnSet(f, S) = f[x] + SumFunctionOnSet(f, S \ {x})
  <1> DEFINE Sum(s) == SumFunctionOnSet(f, s)
             P == {s \in SUBSET S : \A y \in s : Sum(s) = f[y] + Sum(s \ {y})}
  <1>1. ASSUME NEW s \in SUBSET S, \A t \in SUBSET s : t # s => t \in P
        PROVE  s \in P
    <2>1. SUFFICES ASSUME NEW y \in s PROVE Sum(s) = f[y] + Sum(s \ {y})
      OBVIOUS
    <2> DEFINE z == Pick(s)
    <2>2. z \in s /\ Sum(s) = f[z] + Sum(s \ {z})
      BY PickIn, SumPick, FS_Subset
    <2>3. CASE y = z
      BY <2>2, <2>3
    <2>4. CASE y # z
      <3>1. s \ {z} \in P /\ s \ {y} \in P
        BY <1>1, <2>2
      <3>2. Sum(s \ {z}) = f[y] + Sum((s \ {z}) \ {y})
        BY <2>4, <3>1
      <3>3. Sum(s \ {y}) = f[z] + Sum((s \ {y}) \ {z})
        BY <2>2, <2>4, <3>1
      <3>4. (s \ {z}) \ {y} = (s \ {y}) \ {z}
        OBVIOUS
      <3>5. Sum((s \ {z}) \ {y}) \in Nat
        BY SumType, FS_Subset
      <3> HIDE DEF Sum, P, z
      <3> QED BY <2>2, <3>2, <3>3, <3>4, <3>5
    <2> QED BY <2>3, <2>4
  <1>2. \A s \in SUBSET S : s \in P
    <2> HIDE DEF P
    <2> QED BY <1>1, SubsetInduction
  <1> QED BY <1>2

\* One element more.
LEMMA SumAdd ==
  ASSUME NEW f, NEW S, IsFiniteSet(S), NEW x, x \notin S,
         \A y \in S \cup {x} : f[y] \in Nat
  PROVE  SumFunctionOnSet(f, S \cup {x}) = f[x] + SumFunctionOnSet(f, S)
  <1>1. IsFiniteSet(S \cup {x}) /\ (S \cup {x}) \ {x} = S
    BY FS_AddElement
  <1> QED BY <1>1, SumRemove

\* Values that are no smaller have a sum that is no smaller.
LEMMA SumMonotone ==
  ASSUME NEW f, NEW g, NEW S, IsFiniteSet(S),
         \A x \in S : f[x] \in Nat /\ g[x] \in Nat /\ f[x] <= g[x]
  PROVE  SumFunctionOnSet(f, S) <= SumFunctionOnSet(g, S)
  <1> DEFINE P == {s \in SUBSET S : SumFunctionOnSet(f, s) <= SumFunctionOnSet(g, s)}
  <1>1. {} \in P
    BY SumEmpty
  <1>2. ASSUME NEW s \in SUBSET S, NEW x \in s, s \ {x} \in P
        PROVE  s \in P
    <2>1. IsFiniteSet(s) /\ IsFiniteSet(s \ {x})
      BY FS_Subset
    <2>2. /\ SumFunctionOnSet(f, s) = f[x] + SumFunctionOnSet(f, s \ {x})
          /\ SumFunctionOnSet(g, s) = g[x] + SumFunctionOnSet(g, s \ {x})
      BY <2>1, SumRemove
    <2>3. SumFunctionOnSet(f, s \ {x}) \in Nat /\ SumFunctionOnSet(g, s \ {x}) \in Nat
      BY <2>1, SumType
    <2>4. f[x] \in Nat /\ g[x] \in Nat /\ f[x] <= g[x]
      OBVIOUS
    <2> QED BY <1>2, <2>2, <2>3, <2>4
  <1>3. S \in P
    <2> HIDE DEF P
    <2> QED BY <1>1, <1>2, ElementInduction
  <1> QED BY <1>3

\* Equal values have the same sum.
LEMMA SumSame ==
  ASSUME NEW f, NEW g, NEW S, IsFiniteSet(S),
         \A x \in S : f[x] \in Nat /\ f[x] = g[x]
  PROVE  SumFunctionOnSet(f, S) = SumFunctionOnSet(g, S)
  <1>1. SumFunctionOnSet(f, S) \in Nat /\ SumFunctionOnSet(g, S) \in Nat
    BY SumType
  <1>2. SumFunctionOnSet(f, S) <= SumFunctionOnSet(g, S)
    BY SumMonotone
  <1>3. SumFunctionOnSet(g, S) <= SumFunctionOnSet(f, S)
    BY SumMonotone
  <1> QED BY <1>1, <1>2, <1>3

\* Only the value at x differs.
LEMMA SumChanged ==
  ASSUME NEW f, NEW g, NEW S, IsFiniteSet(S), NEW x \in S,
         \A y \in S : f[y] \in Nat /\ g[y] \in Nat,
         \A y \in S \ {x} : f[y] = g[y]
  PROVE  SumFunctionOnSet(g, S) - g[x] = SumFunctionOnSet(f, S) - f[x]
  <1>1. IsFiniteSet(S \ {x})
    BY FS_RemoveElement
  <1>2. SumFunctionOnSet(f, S \ {x}) = SumFunctionOnSet(g, S \ {x})
    BY <1>1, SumSame
  <1>3. SumFunctionOnSet(f, S \ {x}) \in Nat
    BY <1>1, SumType
  <1>4. /\ SumFunctionOnSet(f, S) = f[x] + SumFunctionOnSet(f, S \ {x})
        /\ SumFunctionOnSet(g, S) = g[x] + SumFunctionOnSet(g, S \ {x})
    BY SumRemove
  <1>5. f[x] \in Nat /\ g[x] \in Nat
    OBVIOUS
  <1> QED BY <1>2, <1>3, <1>4, <1>5

\* A table of rows, keyed by S, that gets or changes the row at x.
LEMMA SumWritten ==
  ASSUME NEW f, NEW g, NEW S, IsFiniteSet(S), NEW x,
         \A y \in S \cup {x} : f[y] \in Nat /\ g[y] \in Nat,
         \A y \in S \ {x} : f[y] = g[y],
         x \notin S => f[x] = 0
  PROVE  SumFunctionOnSet(g, S \cup {x}) = SumFunctionOnSet(f, S) + (g[x] - f[x])
  <1>1. f[x] \in Nat /\ g[x] \in Nat /\ SumFunctionOnSet(f, S) \in Nat
    BY SumType
  <1>2. CASE x \in S
    <2>1. SumFunctionOnSet(g, S) - g[x] = SumFunctionOnSet(f, S) - f[x]
      BY <1>2, SumChanged
    <2>2. SumFunctionOnSet(g, S) \in Nat
      BY <1>2, SumType
    <2>3. SumFunctionOnSet(g, S) = SumFunctionOnSet(f, S) + (g[x] - f[x])
      BY <1>1, <2>1, <2>2
    <2>4. S \cup {x} = S
      BY <1>2
    <2> QED BY <2>3, <2>4
  <1>3. CASE x \notin S
    <2>1. SumFunctionOnSet(g, S \cup {x}) = g[x] + SumFunctionOnSet(g, S)
      BY <1>3, SumAdd
    <2>2. SumFunctionOnSet(f, S) = SumFunctionOnSet(g, S)
      BY <1>3, SumSame
    <2>3. f[x] = 0 /\ g[x] \in Nat
      BY <1>3
    <2> QED BY <1>1, <2>1, <2>2, <2>3
  <1> QED BY <1>2, <1>3

\* The sum over two sets without a common element.
LEMMA SumUnion ==
  ASSUME NEW f, NEW S, NEW T, IsFiniteSet(S), IsFiniteSet(T), S \cap T = {},
         \A x \in S \cup T : f[x] \in Nat
  PROVE  SumFunctionOnSet(f, S \cup T) = SumFunctionOnSet(f, S) + SumFunctionOnSet(f, T)
  <1> DEFINE Sum(s) == SumFunctionOnSet(f, s)
             P == {s \in SUBSET T : Sum(S \cup s) = Sum(S) + Sum(s)}
  <1>1. {} \in P
    <2>1. Sum(S) \in Nat /\ Sum({}) = 0 /\ S \cup {} = S
      BY SumType, SumEmpty
    <2> QED BY <2>1
  <1>2. ASSUME NEW s \in SUBSET T, NEW x \in s, s \ {x} \in P
        PROVE  s \in P
    <2>1. IsFiniteSet(s) /\ IsFiniteSet(s \ {x}) /\ IsFiniteSet(S \cup s)
      BY FS_Subset, FS_Union
    <2>2. (S \cup s) \ {x} = S \cup (s \ {x})
      OBVIOUS
    <2>3. Sum(S \cup s) = f[x] + Sum((S \cup s) \ {x})
      BY <2>1, SumRemove
    <2>4. Sum(s) = f[x] + Sum(s \ {x})
      BY <2>1, SumRemove
    <2>5. f[x] \in Nat /\ Sum(S) \in Nat /\ Sum(s \ {x}) \in Nat
      BY <2>1, SumType
    <2>6. Sum(S \cup (s \ {x})) = Sum(S) + Sum(s \ {x})
      BY <1>2
    <2>7. Sum((S \cup s) \ {x}) = Sum(S) + Sum(s \ {x})
      BY <2>2, <2>6
    <2>8. Sum(S \cup s) = Sum(S) + Sum(s)
      BY <2>3, <2>4, <2>5, <2>7
    <2> QED BY <2>8
  <1>3. T \in P
    <2> HIDE DEF P
    <2> QED BY <1>1, <1>2, ElementInduction
  <1> QED BY <1>3

\* The sum over a part of a set.
LEMMA SumSubset ==
  ASSUME NEW f, NEW T, IsFiniteSet(T), NEW S \in SUBSET T, \A x \in T : f[x] \in Nat
  PROVE  SumFunctionOnSet(f, S) <= SumFunctionOnSet(f, T)
  <1>1. IsFiniteSet(S) /\ IsFiniteSet(T \ S)
    BY FS_Subset
  <1>2. T = S \cup (T \ S) /\ S \cap (T \ S) = {}
    OBVIOUS
  <1>3. SumFunctionOnSet(f, T) = SumFunctionOnSet(f, S) + SumFunctionOnSet(f, T \ S)
    BY <1>1, <1>2, SumUnion
  <1>4. SumFunctionOnSet(f, S) \in Nat /\ SumFunctionOnSet(f, T \ S) \in Nat
    BY <1>1, SumType
  <1> QED BY <1>3, <1>4

\* A sum of nothing but zeros.
LEMMA SumZero ==
  ASSUME NEW f, NEW S, IsFiniteSet(S), \A x \in S : f[x] = 0
  PROVE  SumFunctionOnSet(f, S) = 0
  <1> DEFINE P == {s \in SUBSET S : SumFunctionOnSet(f, s) = 0}
  <1>1. {} \in P
    BY SumEmpty
  <1>2. ASSUME NEW s \in SUBSET S, NEW x \in s, s \ {x} \in P
        PROVE  s \in P
    <2>1. IsFiniteSet(s) /\ f[x] = 0 /\ SumFunctionOnSet(f, s \ {x}) = 0
      BY <1>2, FS_Subset
    <2>2. SumFunctionOnSet(f, s) = f[x] + SumFunctionOnSet(f, s \ {x})
      BY <2>1, SumRemove
    <2> QED BY <2>1, <2>2
  <1>3. S \in P
    <2> HIDE DEF P
    <2> QED BY <1>1, <1>2, ElementInduction
  <1> QED BY <1>3

\* U is divided into the sets F[r], and g[r] is the sum over F[r].
Divides(F, R, U, f, g) ==
  /\ \A r \in R : IsFiniteSet(F[r]) /\ g[r] = SumFunctionOnSet(f, F[r])
  /\ \A r \in R : \A x \in F[r] : f[x] \in Nat
  /\ \A r, s \in R : r # s => F[r] \cap F[s] = {}
  /\ \A x : x \in U <=> \E r \in R : x \in F[r]

\* A sum of sums over sets that have no element in common.
LEMMA SumOfParts ==
  ASSUME NEW R, IsFiniteSet(R), NEW F, NEW U, NEW f, NEW g, Divides(F, R, U, f, g)
  PROVE  SumFunctionOnSet(g, R) = SumFunctionOnSet(f, U)
  <1>0. /\ \A r \in R : IsFiniteSet(F[r]) /\ g[r] = SumFunctionOnSet(f, F[r])
        /\ \A r \in R : \A x \in F[r] : f[x] \in Nat
        /\ \A r, s \in R : r # s => F[r] \cap F[s] = {}
        /\ \A x : x \in U <=> \E r \in R : x \in F[r]
    BY DEF Divides
  <1> USE <1>0
  <1> DEFINE All(s) == UNION {F[r] : r \in s}
             P == {s \in SUBSET R : /\ IsFiniteSet(All(s))
                                   /\ SumFunctionOnSet(g, s) = SumFunctionOnSet(f, All(s))}
  <1>1. \A r \in R : g[r] \in Nat
    BY SumType
  <1>2. {} \in P
    <2>1. All({}) = {}
      OBVIOUS
    <2> QED BY <2>1, SumEmpty, FS_EmptySet
  <1>3. ASSUME NEW s \in SUBSET R, NEW x \in s, s \ {x} \in P
        PROVE  s \in P
    <2> DEFINE rest == All(s \ {x})
    <2>1. All(s) = rest \cup F[x]
      OBVIOUS
    <2>2. rest \cap F[x] = {}
      OBVIOUS
    <2>3. \A y \in rest \cup F[x] : f[y] \in Nat
      OBVIOUS
    <2>4. IsFiniteSet(rest) /\ IsFiniteSet(F[x])
      BY <1>3
    <2>5. SumFunctionOnSet(g, s \ {x}) = SumFunctionOnSet(f, rest)
      BY <1>3
    <2> HIDE DEF All, rest
    <2>6. IsFiniteSet(s)
      BY FS_Subset
    <2>7. SumFunctionOnSet(g, s) = g[x] + SumFunctionOnSet(g, s \ {x})
      BY <1>1, <2>6, SumRemove
    <2>8. /\ SumFunctionOnSet(f, rest \cup F[x]) = SumFunctionOnSet(f, rest) + g[x]
          /\ IsFiniteSet(rest \cup F[x])
      <3>1. SumFunctionOnSet(f, rest \cup F[x])
              = SumFunctionOnSet(f, rest) + SumFunctionOnSet(f, F[x])
        BY <2>2, <2>3, <2>4, SumUnion
      <3> QED BY <2>4, <3>1, FS_Union
    <2>9. g[x] \in Nat /\ SumFunctionOnSet(f, rest) \in Nat
      BY <1>1, <2>3, <2>4, SumType
    <2>10. IsFiniteSet(All(s)) /\ SumFunctionOnSet(g, s) = SumFunctionOnSet(f, All(s))
      BY <2>1, <2>5, <2>7, <2>8, <2>9
    <2> QED BY <2>10
  <1>4. R \in P
    <2> HIDE DEF P
    <2> QED BY <1>2, <1>3, ElementInduction
  <1>5. U = All(R)
    OBVIOUS
  <1> QED BY <1>4, <1>5
=============================================================================
