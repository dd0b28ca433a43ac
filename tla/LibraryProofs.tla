---------------------------- MODULE LibraryProofs ----------------------------
(***************************************************************************)
(* What TLAPS proves of module Library, for every value of its constants:  *)
(* every track in the list has its object in S3, a walk over the pages     *)
(* misses no track that stays, a copy that the client holds up to date is  *)
(* the list, and only tracks that were on their way survive the deletion   *)
(* of an account.                                                          *)
(*                                                                         *)
(* The invariant LibInv adds what these rest on: the ids of tracks that    *)
(* are being stored or removed belong to nobody else, the revision that a  *)
(* copy or a walk carries is not ahead of the one in the database, and a   *)
(* change that is not announced yet has a task that will announce it.      *)
(*                                                                         *)
(* Then the sums: the sizes that the code adds up are finite sums, for     *)
(* which the section Sums shows what a sum over a part, over a map of its  *)
(* indices, and of a larger set is.  From these follow that the running    *)
(* totals of the rows add up (invariant Tabled), that an account goes over *)
(* its quota only by tracks that the request had not seen when it counted  *)
(* (QuotaInv), and that every variable has its type (LibBounds).           *)
(***************************************************************************)
EXTENDS MCStorage, StartupProofs, FiniteSetTheorems, WellFoundedInduction, TLAPS

(* A finite set has a least element under a total order.                   *)
LEMMA FiniteLeast ==
    ASSUME NEW S, IsFiniteSet(S), S # {}, NEW R,
           \A x, y \in S : <<x, y>> \in R \/ <<y, x>> \in R,
           \A x, y, z \in S : <<x, y>> \in R /\ <<y, z>> \in R => <<x, z>> \in R
    PROVE  \E l \in S : \A s \in S : <<l, s>> \in R
<1> DEFINE Least(U) == \E l \in U : \A s \in U : <<l, s>> \in R
           T == {U \in SUBSET S : U # {} /\ ~Least(U)}
<1>1. SUFFICES ASSUME T # {} PROVE FALSE
  OBVIOUS
<1>2. T \subseteq FiniteSubsetsOf(S)
  BY FS_FiniteSubsetsOfFinite
<1>3. PICK U \in T : \A V \in T : <<V, U>> \notin StrictSubsetOrdering(S)
  <2> HIDE DEF T
  <2> QED
    BY <1>1, <1>2, WFMin, FS_StrictSubsetOrderingWellFounded
<1>4. PICK x \in U : TRUE
  OBVIOUS
<1>5. U \ {x} \notin T
  <2>1. <<U \ {x}, U>> \in StrictSubsetOrdering(S)
    BY <1>4 DEF StrictSubsetOrdering
  <2> HIDE DEF T
  <2> QED
    BY <1>3, <2>1
<1>6. CASE U \ {x} = {}
  BY <1>4, <1>6
<1>7. CASE U \ {x} # {}
  <2>1. PICK l \in U \ {x} : \A s \in U \ {x} : <<l, s>> \in R
    BY <1>5, <1>7
  <2>2. CASE <<l, x>> \in R
    <3>1. \A s \in U : <<l, s>> \in R
      BY <2>1, <2>2
    <3> QED
      BY <2>1, <3>1
  <2>3. CASE <<x, l>> \in R
    <3>1. \A s \in U : <<x, s>> \in R
      BY <1>4, <2>1, <2>3
    <3> QED
      BY <1>4, <3>1
  <2> QED
    BY <1>4, <2>1, <2>2, <2>3
<1> QED
  BY <1>6, <1>7

-----------------------------------------------------------------------------
(* Sums.                                                                   *)

(* What holds of a subset when it holds of every smaller one holds of all  *)
(* subsets of a finite set.                                                *)
LEMMA SubsetInduction ==
    ASSUME NEW S, IsFiniteSet(S), NEW A,
           \A s \in SUBSET S : (\A u \in SUBSET s : u # s => u \in A) => s \in A
    PROVE  \A s \in SUBSET S : s \in A
<1> DEFINE T == (SUBSET S) \ A
<1>1. SUFFICES ASSUME T # {} PROVE FALSE
  OBVIOUS
<1>2. T \subseteq FiniteSubsetsOf(S)
  BY FS_FiniteSubsetsOfFinite
<1>3. PICK U \in T : \A V \in T : <<V, U>> \notin StrictSubsetOrdering(S)
  <2> HIDE DEF T
  <2> QED
    BY <1>1, <1>2, WFMin, FS_StrictSubsetOrderingWellFounded
<1>4. ASSUME NEW u \in SUBSET U, u # U PROVE u \in A
  <2>1. <<u, U>> \in StrictSubsetOrdering(S)
    BY <1>4 DEF StrictSubsetOrdering
  <2> QED
    BY <1>3, <2>1
<1> QED
  BY <1>3, <1>4

(* A set of naturals that holds 0 and is closed under successor is Nat.    *)
LEMMA NatSetInduction ==
    ASSUME NEW S, S \subseteq Nat, 0 \in S, \A n \in S : n + 1 \in S
    PROVE  \A n \in Nat : n \in S
<1>1. SUFFICES ASSUME Nat \ S # {} PROVE FALSE
  OBVIOUS
<1>2. PICK m \in Nat \ S : \A y \in Nat \ S : <<y, m>> \notin OpToRel(<, Nat)
  BY <1>1, WFMin, NatLessThanWellFounded
<1>3. m # 0
  OBVIOUS
<1>4. m - 1 \in Nat \ S
  <2>1. m - 1 \in Nat
    BY <1>3
  <2>2. m = (m - 1) + 1
    OBVIOUS
  <2> QED
    BY <2>1, <2>2
<1>5. <<m - 1, m>> \in OpToRel(<, Nat)
  BY <1>4 DEF OpToRel
<1> QED
  BY <1>2, <1>4, <1>5

(* The element that the sum over s takes first, and the function that sums *)
(* f over the subsets of S in this order.                                  *)
First(s) == CHOOSE x \in s : TRUE
Sums(g, f, S) ==
    /\ g \in [SUBSET S -> Nat]
    /\ \A s \in SUBSET S :
          g[s] = IF s = {} THEN 0 ELSE f[First(s)] + g[s \ {First(s)}]
Summable(f, S) == IsFiniteSet(S) /\ \A x \in S : f[x] \in Nat
Sum(f, S) == MapThenSumSet(LAMBDA x : f[x], S)

(* A set that is not empty has an element to begin with.                   *)
LEMMA FirstIsIn == ASSUME NEW s, s # {} PROVE First(s) \in s
BY DEF First

(* Such a function exists: it is built for one element more at a time.     *)
LEMMA SumsExist ==
    ASSUME NEW S, NEW f, Summable(f, S)
    PROVE  \E g : Sums(g, f, S)
<1> DEFINE Body(g, s) == IF s = {} THEN 0 ELSE f[First(s)] + g[s \ {First(s)}]
           Upto(g, n) == \A s \in SUBSET S : Cardinality(s) <= n => g[s] = Body(g, s)
           N == {n \in Nat : \E g \in [SUBSET S -> Nat] : Upto(g, n)}
<1>1. \A s \in SUBSET S : IsFiniteSet(s) /\ Cardinality(s) \in Nat
  BY FS_Subset, FS_CardinalityType DEF Summable
<1>2. 0 \in N
  <2> DEFINE g == [s \in SUBSET S |-> 0]
  <2>1. g \in [SUBSET S -> Nat]
    OBVIOUS
  <2>2. \A s \in SUBSET S : Cardinality(s) <= 0 => s = {}
    BY <1>1, FS_EmptySet
  <2>3. Upto(g, 0)
    BY <2>2
  <2> HIDE DEF g
  <2> QED
    BY <2>1, <2>3
<1>3. ASSUME NEW n \in N PROVE n + 1 \in N
  <2>1. PICK g \in [SUBSET S -> Nat] : Upto(g, n)
    OBVIOUS
  <2> DEFINE h == [s \in SUBSET S |-> Body(g, s)]
  <2>2. \A s \in SUBSET S : s # {} => /\ First(s) \in S
                                      /\ s \ {First(s)} \in SUBSET S
    BY FirstIsIn
  <2>3. h \in [SUBSET S -> Nat]
    BY <2>2 DEF Summable
  <2>4. ASSUME NEW s \in SUBSET S, Cardinality(s) <= n PROVE h[s] = g[s]
    BY <2>1, <2>4
  <2>5. ASSUME NEW s \in SUBSET S, Cardinality(s) <= n + 1, s # {}
        PROVE  Cardinality(s \ {First(s)}) <= n
    <3>1. First(s) \in s /\ IsFiniteSet(s)
      BY <1>1, <2>5, FirstIsIn
    <3>2. Cardinality(s \ {First(s)}) = Cardinality(s) - 1
      BY <3>1, FS_RemoveElement
    <3> QED
      BY <1>1, <2>5, <3>2
  <2>6. ASSUME NEW s \in SUBSET S, Cardinality(s) <= n + 1
        PROVE  h[s] = Body(h, s)
    <3>1. CASE s = {}
      BY <3>1
    <3>2. CASE s # {}
      <4>1. s \ {First(s)} \in SUBSET S /\ Cardinality(s \ {First(s)}) <= n
        BY <2>2, <2>5, <2>6, <3>2
      <4>2. h[s \ {First(s)}] = g[s \ {First(s)}]
        BY <2>4, <4>1
      <4>3. h[s] = f[First(s)] + g[s \ {First(s)}]
        BY <3>2
      <4> HIDE DEF h
      <4> QED
        BY <3>2, <4>2, <4>3
    <3> QED
      BY <3>1, <3>2
  <2>7. n + 1 \in Nat /\ Upto(h, n + 1)
    <3> HIDE DEF h, Body
    <3> QED
      BY <2>6
  <2> HIDE DEF h, Upto
  <2> QED
    BY <2>3, <2>7
<1>4. Cardinality(S) \in N
  <2> HIDE DEF N
  <2>1. N \subseteq Nat
    BY DEF N
  <2> QED
    BY <1>1, <1>2, <1>3, <2>1, NatSetInduction
<1>5. PICK g \in [SUBSET S -> Nat] : Upto(g, Cardinality(S))
  BY <1>4
<1>6. \A s \in SUBSET S : Cardinality(s) <= Cardinality(S)
  BY FS_Subset DEF Summable
<1>7. Sums(g, f, S)
  BY <1>5, <1>6 DEF Sums
<1> QED
  BY <1>7

(* It adds the value at x of any x, whichever it takes first.              *)
LEMMA SumsSplit ==
    ASSUME NEW S, NEW f, NEW g, Summable(f, S), Sums(g, f, S)
    PROVE  \A s \in SUBSET S : \A x \in s : g[s] = f[x] + g[s \ {x}]
<1> DEFINE A == {s \in SUBSET S : \A x \in s : g[s] = f[x] + g[s \ {x}]}
<1>1. ASSUME NEW s \in SUBSET S, \A u \in SUBSET s : u # s => u \in A, NEW x \in s
      PROVE  g[s] = f[x] + g[s \ {x}]
  <2> DEFINE y == First(s)
  <2>1. y \in s
    BY FirstIsIn
  <2>2. g[s] = f[y] + g[s \ {y}]
    BY <1>1 DEF Sums
  <2>3. CASE x = y
    BY <2>2, <2>3
  <2>4. CASE x # y
    <3> HIDE DEF y
    <3>1. s \ {y} \in A /\ s \ {x} \in A
      <4>1. s \ {y} \in SUBSET s /\ s \ {x} \in SUBSET s /\ s \ {y} # s /\ s \ {x} # s
        BY <2>1
      <4> QED
        BY <1>1, <4>1
    <3>2. g[s \ {y}] = f[x] + g[(s \ {y}) \ {x}]
      BY <2>4, <3>1
    <3>3. g[s \ {x}] = f[y] + g[(s \ {x}) \ {y}]
      BY <2>1, <2>4, <3>1
    <3>4. (s \ {y}) \ {x} = (s \ {x}) \ {y}
      OBVIOUS
    <3>5. f[x] \in Nat /\ f[y] \in Nat /\ g[(s \ {x}) \ {y}] \in Nat
      BY <2>1 DEF Sums, Summable
    <3>6. g[(s \ {y}) \ {x}] = g[(s \ {x}) \ {y}]
      BY <3>4
    <3> DEFINE rest == g[(s \ {x}) \ {y}]
               fx == f[x]
               fy == f[y]
    <3>7. g[s] = fy + (fx + rest) /\ fx + g[s \ {x}] = fx + (fy + rest)
      BY <2>2, <3>2, <3>3, <3>6
    <3>8. fx \in Nat /\ fy \in Nat /\ rest \in Nat
      BY <3>5
    <3> HIDE DEF rest, fx, fy
    <3>9. fy + (fx + rest) = fx + (fy + rest)
      BY <3>8
    <3> QED
      BY <3>7, <3>9 DEF fx
  <2> QED
    BY <2>3, <2>4
<1>2. \A s \in SUBSET S : (\A u \in SUBSET s : u # s => u \in A) => s \in A
  BY <1>1
<1>3. \A s \in SUBSET S : s \in A
  <2> HIDE DEF A
  <2> QED
    BY <1>2, SubsetInduction DEF Summable
<1> QED
  BY <1>3

Alike(e, f, T) == \A x \in T : e[x] = f[x]

(* Two of them agree where both are defined and the values are the same.   *)
LEMMA SumsAgree ==
    ASSUME NEW S, NEW T \in SUBSET S, NEW f, NEW e, NEW g, NEW h,
           Summable(f, S), Alike(e, f, T), Sums(g, f, S), Sums(h, e, T)
    PROVE  \A s \in SUBSET T : h[s] = g[s]
<1> DEFINE A == {s \in SUBSET T : h[s] = g[s]}
<1>1. ASSUME NEW s \in SUBSET T, \A u \in SUBSET s : u # s => u \in A
      PROVE  h[s] = g[s]
  <2>1. CASE s = {}
    BY <2>1 DEF Sums
  <2>2. CASE s # {}
    <3>1. First(s) \in s
      BY <2>2, FirstIsIn
    <3>2. s \ {First(s)} \in A
      BY <1>1, <3>1
    <3> QED
      BY <2>2, <3>1, <3>2 DEF Sums, Alike
  <2> QED
    BY <2>1, <2>2
<1>2. \A s \in SUBSET T : (\A u \in SUBSET s : u # s => u \in A) => s \in A
  BY <1>1
<1>3. IsFiniteSet(T)
  BY FS_Subset DEF Summable
<1>4. \A s \in SUBSET T : s \in A
  <2> HIDE DEF A
  <2> QED
    BY <1>2, <1>3, SubsetInduction
<1> QED
  BY <1>4

(* There is one function that sums.                                        *)
LEMMA SumsUnique ==
    ASSUME NEW S, NEW f, NEW g, NEW h, Summable(f, S), Sums(g, f, S), Sums(h, f, S)
    PROVE  g[S] = h[S]
<1>1. S \in SUBSET S /\ Alike(f, f, S)
  BY DEF Alike
<1>2. \A s \in SUBSET S : h[s] = g[s]
  BY <1>1, SumsAgree
<1> QED
  BY <1>1, <1>2

(* The recursion of MapThenSumSet, once more as an equation of functions.  *)
Step(g, f, S) ==
    [s \in SUBSET S |-> IF s = {} THEN 0 ELSE f[First(s)] + g[s \ {First(s)}]]

(* A function that satisfies the recursion is the one that sums.           *)
LEMMA RecursionSums ==
    ASSUME NEW S, NEW f, NEW g, Summable(f, S)
    PROVE  g = Step(g, f, S) <=> Sums(g, f, S)
<1>1. ASSUME Sums(g, f, S) PROVE g = Step(g, f, S)
  BY <1>1 DEF Sums, Step
<1>2. ASSUME g = Step(g, f, S) PROVE Sums(g, f, S)
  <2> DEFINE A == {s \in SUBSET S : g[s] \in Nat}
  <2>0. g = [s \in SUBSET S |-> g[s]]
    BY <1>2 DEF Step
  <2>1. /\ DOMAIN g = SUBSET S
        /\ \A s \in SUBSET S : g[s] = IF s = {} THEN 0
                                      ELSE f[First(s)] + g[s \ {First(s)}]
    BY <1>2 DEF Step
  <2>2. ASSUME NEW s \in SUBSET S, \A u \in SUBSET s : u # s => u \in A
        PROVE  g[s] \in Nat
    <3>1. CASE s = {}
      BY <2>1, <3>1
    <3>2. CASE s # {}
      <4>1. First(s) \in s
        BY <3>2, FirstIsIn
      <4>2. s \ {First(s)} \in A
        BY <2>2, <4>1
      <4> QED
        BY <2>1, <3>2, <4>1, <4>2 DEF Summable
    <3> QED
      BY <3>1, <3>2
  <2>3. \A s \in SUBSET S : (\A u \in SUBSET s : u # s => u \in A) => s \in A
    BY <2>2
  <2>4. \A s \in SUBSET S : s \in A
    <3> HIDE DEF A
    <3> QED
      BY <2>3, SubsetInduction DEF Summable
  <2> QED
    BY <2>0, <2>1, <2>4 DEF Sums
<1> QED
  BY <1>1, <1>2

(* The sum of the module is the value of that function.                    *)
LEMMA SumIsSums ==
    ASSUME NEW S, NEW f, Summable(f, S)
    PROVE  \E g : Sums(g, f, S) /\ Sum(f, S) = g[S]
<1> DEFINE G == CHOOSE g : g = Step(g, f, S)
<1>1. Sum(f, S) = G[S]
  BY DEF Sum, First, Step, MapThenSumSet, MapThenFoldSet
<1>2. \E g : g = Step(g, f, S)
  BY SumsExist, RecursionSums
<1>3. G = Step(G, f, S)
  BY <1>2
<1>4. Sums(G, f, S)
  BY <1>3, RecursionSums
<1> QED
  BY <1>1, <1>4

(* What a sum is: a natural, nothing over nothing, and the value at any    *)
(* element with the sum over the others.                                   *)
LEMMA SumFacts ==
    ASSUME NEW S, NEW f, Summable(f, S)
    PROVE  /\ Sum(f, S) \in Nat
           /\ S = {} => Sum(f, S) = 0
           /\ \A x \in S : /\ Summable(f, S \ {x})
                           /\ Sum(f, S) = f[x] + Sum(f, S \ {x})
<1>1. PICK g : Sums(g, f, S) /\ Sum(f, S) = g[S]
  BY SumIsSums
<1>2. Sum(f, S) \in Nat /\ (S = {} => Sum(f, S) = 0)
  BY <1>1 DEF Sums
<1>3. ASSUME NEW x \in S
      PROVE  Summable(f, S \ {x}) /\ Sum(f, S) = f[x] + Sum(f, S \ {x})
  <2>1. Summable(f, S \ {x})
    BY FS_Subset DEF Summable
  <2>2. PICK h : Sums(h, f, S \ {x}) /\ Sum(f, S \ {x}) = h[S \ {x}]
    BY <2>1, SumIsSums
  <2>3. h[S \ {x}] = g[S \ {x}]
    <3>1. S \ {x} \in SUBSET S /\ Alike(f, f, S \ {x})
      BY DEF Alike
    <3>2. \A s \in SUBSET (S \ {x}) : h[s] = g[s]
      BY <1>1, <2>2, <3>1, SumsAgree
    <3> QED
      BY <3>2
  <2>4. g[S] = f[x] + g[S \ {x}]
    BY <1>1, SumsSplit
  <2> QED
    BY <1>1, <2>1, <2>2, <2>3, <2>4
<1> QED
  BY <1>2, <1>3

(* Equal values have equal sums.                                           *)
LEMMA SumSame ==
    ASSUME NEW S, NEW f, NEW e, Summable(f, S), \A x \in S : e[x] = f[x]
    PROVE  Summable(e, S) /\ Sum(e, S) = Sum(f, S)
<1>1. Summable(e, S)
  BY DEF Summable
<1>2. PICK g : Sums(g, f, S) /\ Sum(f, S) = g[S]
  BY SumIsSums
<1>3. PICK h : Sums(h, e, S) /\ Sum(e, S) = h[S]
  BY <1>1, SumIsSums
<1>4. h[S] = g[S]
  <2>1. S \in SUBSET S /\ Alike(e, f, S)
    BY DEF Alike
  <2>2. \A s \in SUBSET S : h[s] = g[s]
    BY <1>2, <1>3, <2>1, SumsAgree
  <2> QED
    BY <2>2
<1> QED
  BY <1>1, <1>2, <1>3, <1>4

(* The sum over a part is not more, and it is all when nothing but zeros   *)
(* are left out.                                                           *)
LEMMA SumPart ==
    ASSUME NEW S, NEW f, Summable(f, S), NEW T \in SUBSET S
    PROVE  /\ Sum(f, T) <= Sum(f, S)
           /\ (\A x \in S \ T : f[x] = 0) => Sum(f, T) = Sum(f, S)
<1> DEFINE Part(s) == \A u \in SUBSET s :
                         /\ Sum(f, u) <= Sum(f, s)
                         /\ (\A x \in s \ u : f[x] = 0) => Sum(f, u) = Sum(f, s)
           A == {s \in SUBSET S : Part(s)}
<1>1. \A s \in SUBSET S : Summable(f, s)
  BY FS_Subset DEF Summable
<1>2. ASSUME NEW s \in SUBSET S, \A v \in SUBSET s : v # s => v \in A, NEW u \in SUBSET s
      PROVE  /\ Sum(f, u) <= Sum(f, s)
             /\ (\A x \in s \ u : f[x] = 0) => Sum(f, u) = Sum(f, s)
  <2>1. CASE u = s
    <3>1. Sum(f, s) \in Nat
      BY <1>1, SumFacts
    <3> QED
      BY <2>1, <3>1
  <2>2. CASE u # s
    <3>1. PICK x \in s \ u : TRUE
      BY <2>2
    <3>2. /\ Sum(f, s) = f[x] + Sum(f, s \ {x})
          /\ Sum(f, u) \in Nat /\ Sum(f, s \ {x}) \in Nat /\ f[x] \in Nat
      BY <1>1, <3>1, SumFacts DEF Summable
    <3>3. s \ {x} \in A /\ u \in SUBSET (s \ {x})
      BY <1>2, <3>1
    <3>4. /\ Sum(f, u) <= Sum(f, s \ {x})
          /\ (\A y \in (s \ {x}) \ u : f[y] = 0) => Sum(f, u) = Sum(f, s \ {x})
      BY <3>3
    <3>5. Sum(f, u) <= Sum(f, s)
      BY <3>2, <3>4
    <3>6. ASSUME \A y \in s \ u : f[y] = 0 PROVE Sum(f, u) = Sum(f, s)
      BY <3>1, <3>2, <3>4, <3>6
    <3> QED
      BY <3>5, <3>6
  <2> QED
    BY <2>1, <2>2
<1>3. \A s \in SUBSET S : (\A u \in SUBSET s : u # s => u \in A) => s \in A
  BY <1>2
<1>4. S \in A
  <2> HIDE DEF A
  <2> QED
    BY <1>3, SubsetInduction DEF Summable
<1> QED
  BY <1>4

(* A value is not more than the sum.                                       *)
LEMMA SumBounds ==
    ASSUME NEW S, NEW f, Summable(f, S), NEW x \in S
    PROVE  f[x] <= Sum(f, S)
<1>1. f[x] \in Nat /\ Sum(f, S \ {x}) \in Nat
  BY SumFacts DEF Summable
<1> QED
  BY <1>1, SumFacts

(* What is summed over S is not more than what is summed over U when each  *)
(* element of S has one of its own in U with the same value.               *)
LEMMA SumEmbeds ==
    ASSUME NEW S, NEW f, Summable(f, S), NEW U, NEW e, Summable(e, U), NEW m,
           \A x \in S : m[x] \in U /\ e[m[x]] = f[x],
           \A x, y \in S : m[x] = m[y] => x = y
    PROVE  Sum(f, S) <= Sum(e, U)
<1> DEFINE Embeds(s) == \A u \in SUBSET U : (\A x \in s : m[x] \in u)
                                               => Sum(f, s) <= Sum(e, u)
           A == {s \in SUBSET S : Embeds(s)}
<1>1. (\A s \in SUBSET S : Summable(f, s)) /\ \A u \in SUBSET U : Summable(e, u)
  BY FS_Subset DEF Summable
<1>2. ASSUME NEW s \in SUBSET S, \A v \in SUBSET s : v # s => v \in A,
             NEW u \in SUBSET U, \A x \in s : m[x] \in u
      PROVE  Sum(f, s) <= Sum(e, u)
  <2>1. CASE s = {}
    <3>1. Sum(f, s) = 0 /\ Sum(e, u) \in Nat
      BY <1>1, <2>1, SumFacts
    <3> QED
      BY <3>1
  <2>2. CASE s # {}
    <3>1. PICK x \in s : TRUE
      BY <2>2
    <3>2. s \ {x} \in A /\ u \ {m[x]} \in SUBSET U /\ m[x] \in u
      BY <1>2, <3>1
    <3>3. \A y \in s \ {x} : m[y] \in u \ {m[x]}
      BY <1>2, <3>1
    <3>4. Sum(f, s \ {x}) <= Sum(e, u \ {m[x]})
      BY <3>2, <3>3
    <3>5. /\ Sum(f, s) = f[x] + Sum(f, s \ {x})
          /\ Sum(e, u) = e[m[x]] + Sum(e, u \ {m[x]})
          /\ Sum(f, s \ {x}) \in Nat /\ Sum(e, u \ {m[x]}) \in Nat
      BY <1>1, <3>1, <3>2, SumFacts
    <3>6. e[m[x]] = f[x] /\ f[x] \in Nat
      BY <3>1 DEF Summable
    <3> QED
      BY <3>4, <3>5, <3>6
  <2> QED
    BY <2>1, <2>2
<1>3. \A s \in SUBSET S : (\A u \in SUBSET s : u # s => u \in A) => s \in A
  BY <1>2
<1>4. S \in A
  <2> HIDE DEF A
  <2> QED
    BY <1>3, SubsetInduction DEF Summable
<1> QED
  BY <1>4

-----------------------------------------------------------------------------
(* The sums of the library are sums of a function.                         *)
SizesOf(r) == [t \in DOMAIN r |-> r[t].size]
CountedSizes(counted) == [c \in counted |-> c.size]

(* A sum over some of the rows.                                            *)
LEMMA RowSums ==
    ASSUME NEW r, NEW T \in SUBSET DOMAIN r, Summable(SizesOf(r), T)
    PROVE  MapThenSumSet(LAMBDA t : r[t].size, T) = Sum(SizesOf(r), T)
<1> DEFINE f == SizesOf(r)
           Body(g) == [s \in SUBSET T |-> IF s = {} THEN 0
                           ELSE r[First(s)].size + g[s \ {First(s)}]]
           G == CHOOSE g : g = Body(g)
<1>1. MapThenSumSet(LAMBDA t : r[t].size, T) = G[T]
  BY DEF First, MapThenSumSet, MapThenFoldSet
<1>2. \A s \in SUBSET T : s # {} => f[First(s)] = r[First(s)].size
  BY FirstIsIn DEF SizesOf
<1>3. ASSUME NEW g PROVE Body(g) = Step(g, f, T)
  BY <1>2 DEF Step
<1>4. PICK g : Sums(g, f, T) /\ Sum(f, T) = g[T]
  BY SumIsSums
<1>5. g = Body(g)
  BY <1>3, <1>4, RecursionSums
<1>6. G = Body(G)
  BY <1>5
<1> HIDE DEF G, f
<1>7. Sums(G, f, T)
  BY <1>3, <1>6, RecursionSums DEF f
<1>8. Summable(f, T)
  BY DEF f
<1>9. G[T] = g[T]
  BY <1>4, <1>7, <1>8, SumsUnique
<1> QED
  BY <1>1, <1>4, <1>9 DEF f

(* The sum over all of them.                                               *)
LEMMA SizeSums ==
    ASSUME NEW r, Summable(SizesOf(r), DOMAIN r)
    PROVE  SizeOf(r) = Sum(SizesOf(r), DOMAIN r)
BY RowSums DEF SizeOf

(* The sum over what was counted.                                          *)
LEMMA UsageSums ==
    ASSUME NEW counted, Summable(CountedSizes(counted), counted)
    PROVE  Usage(counted) = Sum(CountedSizes(counted), counted)
<1> DEFINE f == CountedSizes(counted)
           T == counted
           Body(g) == [s \in SUBSET T |-> IF s = {} THEN 0
                           ELSE First(s).size + g[s \ {First(s)}]]
           G == CHOOSE g : g = Body(g)
<1>1. Usage(counted) = G[T]
  BY DEF Usage, First, MapThenSumSet, MapThenFoldSet
<1>2. \A s \in SUBSET T : s # {} => f[First(s)] = First(s).size
  BY FirstIsIn DEF CountedSizes
<1>3. ASSUME NEW g PROVE Body(g) = Step(g, f, T)
  BY <1>2 DEF Step
<1>4. PICK g : Sums(g, f, T) /\ Sum(f, T) = g[T]
  BY SumIsSums
<1>5. g = Body(g)
  BY <1>3, <1>4, RecursionSums
<1>6. G = Body(G)
  BY <1>5
<1> HIDE DEF G, f
<1>7. Sums(G, f, T)
  BY <1>3, <1>6, RecursionSums DEF f
<1>8. Summable(f, T)
  BY DEF f
<1>9. G[T] = g[T]
  BY <1>4, <1>7, <1>8, SumsUnique
<1> QED
  BY <1>1, <1>4, <1>9 DEF f

-----------------------------------------------------------------------------
(* The invariant.                                                          *)

(* Where a task is, what it has read, and what it goes on to after it has  *)
(* announced its change.                                                   *)
After == {Idle, [at |-> "cascade"]} \cup [at : {"purge"}, track : Nat]
Counts == SUBSET [id : Nat, size : Sizes]
TaskStates ==
    {Idle, [at |-> "audio"], [at |-> "cascade"], [at |-> "bumpRead"]}
    \cup [at : {"body"}, counted : Counts]
    \cup [at : {"put", "cover"}, track : Nat, size : Sizes, counted : Counts]
    \cup [at : {"bumpRead"}, next : After]
    \cup [at : {"bumpWrite"}, rev : Nat, next : After]
    \cup [at : {"purge", "edit"}, track : Nat]
    \cup [at : {"wipe"}, ids : SUBSET Nat, next : After]
    \cup [at : {"erase"}, ids : SUBSET Nat]

(* A row has its columns.  (Of their values, Table says more below.)       *)
RowsOK ==
    \A t \in Present : /\ DOMAIN rows[t] = {"size", "at", "cum", "ver"}
                       /\ rows[t].size \in Sizes /\ rows[t].at \in Times

(* Types and fields, and ids that were drawn.                              *)
LibShape ==
    /\ Present \subseteq 1..drawn /\ RowsOK
    /\ drawn \in Nat /\ revision \in Nat
    /\ account \in {"live", "gone"}
    /\ unannounced \in BOOLEAN /\ regressed \in BOOLEAN
    /\ \A p \in Workers : task[p] \in TaskStates
    /\ DOMAIN task = Workers
    /\ client.rev \in Nat
    /\ walk # NoWalk =>
          /\ DOMAIN walk = {"at", "rev", "start", "got", "cursor"}
          /\ walk.at = "page" /\ walk.rev \in Nat /\ walk.start \subseteq 1..drawn
          /\ walk.cursor = NoCursor \/ walk.cursor \in [at : Nat, id : Nat]

(* A task that stores a track; and what a task will do once it has         *)
(* announced its change.                                                   *)
Storing(p) == task[p].at \in {"put", "cover"}
Later(p) == IF "next" \in DOMAIN task[p] THEN task[p].next ELSE task[p]

(* The id of a track that is being stored is in no list, is awaited by no  *)
(* walk and by no other task, and has its object from the upload on.       *)
FreshTracks ==
    \A p \in Workers : Storing(p) =>
        /\ task[p].track \in 1..drawn
        /\ task[p].track \notin Present
        /\ walk # NoWalk => task[p].track \notin walk.start
        /\ \A q \in Workers \ {p} :
              Storing(q) => task[q].track # task[p].track
        /\ At(p, "cover") => task[p].track \in objects

(* A track whose objects will be purged has left the list, and nobody      *)
(* stores it.                                                              *)
PurgedTracks ==
    \A p \in Workers : Later(p).at = "purge" =>
        /\ Later(p).track \in (1..drawn) \ Present
        /\ \A q \in Workers : Storing(q) => task[q].track # Later(p).track

(* Whoever erases the account has read every track but late ones.          *)
ErasersKnow ==
    /\ OnlyLateTracksSurvive
    /\ \A p \in Workers : At(p, "erase") => Present \subseteq task[p].ids \cup late

(* What excuses a copy or a walk of revision rev from being the list: the  *)
(* account is gone, a change stays unannounced, the counter went back, the *)
(* client will see a newer revision, or a task is about to announce one.   *)
Excused(rev) ==
    \/ account = "gone" \/ unannounced \/ regressed
    \/ revision > rev
    \/ \E p \in Workers : At(p, "bumpRead")
    \/ \E p \in Workers : At(p, "bumpWrite") /\ task[p].rev >= rev

(* Unless the counter went back, no client is ahead of it.                 *)
RevisionsGrow ==
    ~regressed => /\ client.rev <= revision
                  /\ walk # NoWalk => walk.rev <= revision

(* A copy is the list, or excused.                                         *)
CopyCurrent ==
    Excused(client.rev) \/ client.copy = {Listed(t) : t \in Present}

(* A walk got the tracks up to its cursor, or is excused.                  *)
WalkCurrent ==
    walk # NoWalk =>
        \/ Excused(walk.rev)
        \/ walk.got = {Listed(t) : t \in {s \in Present : ~Beyond(walk.cursor, s)}}

LibInv ==
    /\ LibShape /\ FreshTracks /\ PurgedTracks /\ ErasersKnow
    /\ EveryTrackHasItsObject /\ WalkMissesNothing
    /\ RevisionsGrow /\ CopyCurrent /\ WalkCurrent

-----------------------------------------------------------------------------
(* Pages.                                                                  *)

(* The list is finite, and its ids are numbers.                            *)
LEMMA PresentIsFinite ==
    ASSUME LibShape, NEW S \in SUBSET Present
    PROVE  IsFiniteSet(S) /\ S \subseteq Nat
<1>1. drawn \in Nat /\ Present \subseteq 1..drawn
  BY DEF LibShape
<1>2. IsFiniteSet(1..drawn) /\ 1..drawn \subseteq Nat
  BY <1>1, FS_Interval
<1>3. S \in SUBSET (1..drawn)
  BY <1>1
<1> QED
  BY <1>2, <1>3, FS_Subset

(* Ids and dates of rows are numbers.                                      *)
LEMMA RowTypes ==
    ASSUME LibShape, NEW t \in Present
    PROVE  t \in Nat /\ rows[t].at \in Nat
<1>1. t \in Nat
  BY PresentIsFinite
<1>2. rows[t].at \in Times
  BY DEF LibShape, RowsOK
<1>3. Times \subseteq Nat
  BY LibraryAssumption
<1> QED
  BY <1>1, <1>2, <1>3

(* (created_at, id) orders the rows totally.                               *)
LEMMA RowsAreOrdered ==
    ASSUME LibShape
    PROVE  /\ \A s, t \in Present : /\ NotAfter(rows, s, t) \/ NotAfter(rows, t, s)
                                    /\ NotAfter(rows, s, t) /\ NotAfter(rows, t, s) => s = t
           /\ \A s, t, u \in Present :
                 NotAfter(rows, s, t) /\ NotAfter(rows, t, u) => NotAfter(rows, s, u)
<1>1. \A s \in Present : s \in Nat /\ rows[s].at \in Nat
  BY RowTypes
<1> QED
  BY <1>1 DEF NotAfter

(* Some row of a set is the oldest, and some is the newest.                *)
LEMMA OldestAndNewest ==
    ASSUME LibShape, NEW S \in SUBSET Present, S # {}
    PROVE  /\ \E l \in S : \A s \in S : NotAfter(rows, l, s)
           /\ \E l \in S : \A s \in S : NotAfter(rows, s, l)
<1> DEFINE Upward == {st \in S \X S : NotAfter(rows, st[1], st[2])}
           Downward == {st \in S \X S : NotAfter(rows, st[2], st[1])}
<1>1. IsFiniteSet(S)
  BY PresentIsFinite
<1>2. \A s, t \in S : /\ <<s, t>> \in Upward <=> NotAfter(rows, s, t)
                      /\ <<s, t>> \in Downward <=> NotAfter(rows, t, s)
  OBVIOUS
<1> HIDE DEF Upward, Downward
<1>3. \E l \in S : \A s \in S : <<l, s>> \in Upward
  <2>1. \A x, y \in S : <<x, y>> \in Upward \/ <<y, x>> \in Upward
    BY <1>2, RowsAreOrdered
  <2>2. \A x, y, z \in S : <<x, y>> \in Upward /\ <<y, z>> \in Upward => <<x, z>> \in Upward
    BY <1>2, RowsAreOrdered
  <2> QED
    BY <1>1, <2>1, <2>2, FiniteLeast
<1>4. \E l \in S : \A s \in S : <<l, s>> \in Downward
  <2>1. \A x, y \in S : <<x, y>> \in Downward \/ <<y, x>> \in Downward
    BY <1>2, RowsAreOrdered
  <2>2. \A x, y, z \in S : <<x, y>> \in Downward /\ <<y, z>> \in Downward => <<x, z>> \in Downward
    BY <1>2, RowsAreOrdered
  <2> QED
    BY <1>1, <2>1, <2>2, FiniteLeast
<1> QED
  BY <1>2, <1>3, <1>4

Rest(c) == {t \in Present : Beyond(c, t)}

(* What is beyond a page is older than all of it.                          *)
LEMMA PageIsNewest ==
    ASSUME LibShape, NEW c, NEW s \in Page(c), NEW t \in Rest(c) \ Page(c)
    PROVE  NotAfter(rows, t, s)
<1> DEFINE Newer(x) == {u \in Rest(c) : ~NotAfter(rows, u, x)}
<1>1. SUFFICES ASSUME ~NotAfter(rows, t, s) PROVE FALSE
  OBVIOUS
<1>2. s \in Rest(c) /\ Rest(c) \subseteq Present
  BY DEF Page, Rest
<1>3. Newer(t) \subseteq Newer(s)
  BY <1>1, <1>2, RowsAreOrdered
<1>4. IsFiniteSet(Newer(s)) /\ IsFiniteSet(Newer(t))
  BY <1>2, PresentIsFinite
<1>5. Cardinality(Newer(t)) <= Cardinality(Newer(s))
  BY <1>3, <1>4, FS_Subset
<1>6. Cardinality(Newer(s)) < PageSize
  BY DEF Page, Rest
<1>7. Cardinality(Newer(t)) < PageSize
  BY <1>4, <1>5, <1>6, FS_CardinalityType, LibraryAssumption
<1> QED
  BY <1>7 DEF Page, Rest

(* A page that has more behind it is not empty.                            *)
LEMMA PageIsNotEmpty ==
    ASSUME LibShape, NEW c, HasMore(c)
    PROVE  Page(c) # {}
<1>1. Rest(c) # {} /\ Rest(c) \in SUBSET Present
  BY DEF HasMore, Page, Rest
<1>2. PICK l \in Rest(c) : \A s \in Rest(c) : NotAfter(rows, s, l)
  BY <1>1, OldestAndNewest
<1>3. {s \in Rest(c) : ~NotAfter(rows, s, l)} = {}
  BY <1>2
<1>4. Cardinality({s \in Rest(c) : ~NotAfter(rows, s, l)}) < PageSize
  BY <1>3, FS_EmptySet, LibraryAssumption
<1> QED
  BY <1>4 DEF Page, Rest

(* A page moves the cursor over its own rows and over no other.            *)
LEMMA PageMovesCursor ==
    ASSUME LibShape, NEW c, c = NoCursor \/ c \in [at : Nat, id : Nat], HasMore(c)
    PROVE  /\ CursorAfter(Page(c)) \in [at : Nat, id : Nat]
           /\ \A t \in Present : ~Beyond(CursorAfter(Page(c)), t)
                                    <=> ~Beyond(c, t) \/ t \in Page(c)
<1> DEFINE last == CHOOSE t \in Page(c) : \A s \in Page(c) : NotAfter(rows, t, s)
<1>1. Page(c) # {} /\ Page(c) \in SUBSET Present /\ Page(c) \subseteq Rest(c)
  BY PageIsNotEmpty DEF Page, Rest
<1>2. last \in Page(c) /\ \A s \in Page(c) : NotAfter(rows, last, s)
  <2>1. \E l \in Page(c) : \A s \in Page(c) : NotAfter(rows, l, s)
    BY <1>1, OldestAndNewest
  <2> QED
    BY <2>1
<1>3. CursorAfter(Page(c)) = [at |-> rows[last].at, id |-> last]
  BY DEF CursorAfter
<1> HIDE DEF last
<1>4. \A t \in Present : t \in Nat /\ rows[t].at \in Nat
  BY RowTypes
<1>5. CursorAfter(Page(c)) \in [at : Nat, id : Nat]
  BY <1>1, <1>2, <1>3, <1>4
<1>6. CursorAfter(Page(c)) # NoCursor
  BY <1>3 DEF NoCursor
<1>7. ASSUME NEW t \in Present
      PROVE  ~Beyond(CursorAfter(Page(c)), t) <=> NotAfter(rows, last, t)
  BY <1>1, <1>2, <1>3, <1>4, <1>6 DEF Beyond, NotAfter
<1>8. ASSUME NEW t \in Present, ~Beyond(c, t) PROVE NotAfter(rows, last, t)
  <2>1. Beyond(c, last) /\ last \in Present
    BY <1>1, <1>2 DEF Rest
  <2> QED
    BY <1>4, <1>8, <2>1 DEF Beyond, NotAfter
<1>9. ASSUME NEW t \in Present, Beyond(c, t), t \notin Page(c)
      PROVE  ~NotAfter(rows, last, t)
  <2>1. NotAfter(rows, t, last)
    BY <1>2, <1>9, PageIsNewest DEF Rest
  <2>2. t # last /\ last \in Present
    BY <1>1, <1>2, <1>9
  <2> QED
    BY <2>1, <2>2, RowsAreOrdered
<1> QED
  BY <1>2, <1>5, <1>7, <1>8, <1>9

-----------------------------------------------------------------------------
(* Tasks and rows.                                                         *)

(* The fields of a task follow from where it is.                           *)
LEMMA TaskFields ==
    ASSUME LibShape, NEW p \in Workers
    PROVE  /\ At(p, "body") => task[p] \in [at : {"body"}, counted : Counts]
           /\ Storing(p) => task[p] \in [at : {"put", "cover"}, track : Nat,
                                         size : Sizes, counted : Counts]
           /\ At(p, "bumpRead") => \/ task[p] = [at |-> "bumpRead"]
                                   \/ task[p] \in [at : {"bumpRead"}, next : After]
           /\ At(p, "bumpWrite") =>
                 task[p] \in [at : {"bumpWrite"}, rev : Nat, next : After]
           /\ task[p].at \in {"purge", "edit"} =>
                 task[p] \in [at : {"purge", "edit"}, track : Nat]
           /\ At(p, "wipe") =>
                 task[p] \in [at : {"wipe"}, ids : SUBSET Nat, next : After]
           /\ At(p, "erase") => task[p] \in [at : {"erase"}, ids : SUBSET Nat]
<1>1. task[p] \in TaskStates
  BY DEF LibShape
<1> QED
  BY <1>1 DEF TaskStates, Idle, At, Storing

(* The rebuild of the totals leaves the other columns alone.               *)
LEMMA RebuildRows ==
    ASSUME NEW r, \A t \in DOMAIN r : DOMAIN r[t] = {"size", "at", "cum", "ver"}
    PROVE  /\ DOMAIN Rebuild(r) = DOMAIN r
           /\ \A t \in DOMAIN r :
                 /\ DOMAIN Rebuild(r)[t] = {"size", "at", "cum", "ver"}
                 /\ Rebuild(r)[t].size = r[t].size
                 /\ Rebuild(r)[t].at = r[t].at
<1> DEFINE Cum(t) == MapThenSumSet(LAMBDA s : r[s].size,
                                   {s \in DOMAIN r : NotAfter(r, s, t)})
<1>1. Rebuild(r) = [t \in DOMAIN r |-> [r[t] EXCEPT !.cum = Cum(t)]]
  BY DEF Rebuild
<1> HIDE DEF Cum
<1> QED
  BY <1>1

(* The step leaves the dates of the rows that stay, and new rows are rows. *)
RowsStay ==
    /\ RowsOK'
    /\ \A t \in Present \cap Present' : rows'[t].at = rows[t].at

(* A row is added with or without a rebuild of the totals.                 *)
LEMMA RowAdded ==
    ASSUME LibShape, NEW x, x \notin Present, NEW new,
           DOMAIN new = {"size", "at", "cum", "ver"},
           new.size \in Sizes, new.at \in Times,
           LET r == [t \in Present \cup {x} |-> IF t = x THEN new ELSE rows[t]]
           IN  rows' = r \/ rows' = Rebuild(r)
    PROVE  RowsStay /\ Present' = Present \cup {x}
<1> DEFINE r == [t \in Present \cup {x} |-> IF t = x THEN new ELSE rows[t]]
<1>1. /\ DOMAIN r = Present \cup {x}
      /\ r[x] = new
      /\ \A t \in Present : r[t] = rows[t]
  OBVIOUS
<1>2. rows' = r \/ rows' = Rebuild(r)
  OBVIOUS
<1> HIDE DEF r
<1>3. \A t \in DOMAIN r : /\ DOMAIN r[t] = {"size", "at", "cum", "ver"}
                          /\ r[t].size \in Sizes /\ r[t].at \in Times
  BY <1>1 DEF LibShape, RowsOK
<1>4. /\ DOMAIN rows' = DOMAIN r
      /\ \A t \in DOMAIN r : /\ DOMAIN rows'[t] = {"size", "at", "cum", "ver"}
                             /\ rows'[t].size = r[t].size
                             /\ rows'[t].at = r[t].at
  BY <1>2, <1>3, RebuildRows
<1> QED
  BY <1>1, <1>3, <1>4 DEF RowsStay, RowsOK, Present

(* Rows are removed, with or without a rebuild.                            *)
LEMMA RowsRemoved ==
    ASSUME LibShape, NEW S \in SUBSET Present,
           rows' = Restrict(rows, S) \/ rows' = Rebuild(Restrict(rows, S))
    PROVE  RowsStay /\ Present' = S
<1> DEFINE r == Restrict(rows, S)
<1>1. DOMAIN r = S /\ \A t \in S : r[t] = rows[t]
  BY DEF Restrict
<1>2. rows' = r \/ rows' = Rebuild(r)
  OBVIOUS
<1> HIDE DEF r
<1>3. \A t \in DOMAIN r : /\ DOMAIN r[t] = {"size", "at", "cum", "ver"}
                          /\ r[t].size \in Sizes /\ r[t].at \in Times
  BY <1>1 DEF LibShape, RowsOK
<1>4. /\ DOMAIN rows' = DOMAIN r
      /\ \A t \in DOMAIN r : /\ DOMAIN rows'[t] = {"size", "at", "cum", "ver"}
                             /\ rows'[t].size = r[t].size
                             /\ rows'[t].at = r[t].at
  BY <1>2, <1>3, RebuildRows
<1> QED
  BY <1>1, <1>3, <1>4 DEF RowsStay, RowsOK, Present

(* Only the task of p, the rows, and what is listed here change.           *)
Unmoved == UNCHANGED <<objects, drawn, revision, client, walk, cleaned, stranded,
                       unannounced, regressed>>

(* A track is stored: one row more, and its announcement to come.          *)
LEMMA StoreTrackEffect ==
    ASSUME LibInv, NEW p \in Workers, StoreTrack(p)
    PROVE  /\ At(p, "cover")
           /\ RowsStay /\ Present' = Present \cup {task[p].track}
           /\ late' = IF Leaving THEN late \cup {task[p].track} ELSE late
           /\ Goto(p, IF account = "live" THEN [at |-> "bumpRead"] ELSE Idle)
           /\ Unmoved /\ UNCHANGED account
<1>1. LibShape /\ task[p].track \notin Present /\ task[p].size \in Sizes
  BY TaskFields DEF StoreTrack, At, Storing, LibInv, FreshTracks
<1>2. PICK at \in Times :
          rows' = Rebuild([t \in Present \cup {task[p].track} |->
                     IF t = task[p].track
                     THEN [size |-> task[p].size, at |-> at, cum |-> 0,
                           ver |-> 0]
                     ELSE rows[t]])
  BY DEF StoreTrack
<1> DEFINE new == [size |-> task[p].size, at |-> at, cum |-> 0, ver |-> 0]
<1>3. /\ DOMAIN new = {"size", "at", "cum", "ver"}
      /\ new.size \in Sizes /\ new.at \in Times
  BY <1>1
<1>4. rows' = Rebuild([t \in Present \cup {task[p].track} |->
                         IF t = task[p].track THEN new ELSE rows[t]])
  BY <1>2
<1> HIDE DEF new
<1>5. RowsStay /\ Present' = Present \cup {task[p].track}
  BY <1>1, <1>3, <1>4, RowAdded
<1> QED
  BY <1>5 DEF StoreTrack, Unmoved, reader, bounds

(* SoundSlop adds a track and announces nothing.                           *)
LEMMA GenerateTrackEffect ==
    ASSUME LibInv, GenerateTrack
    PROVE  /\ RowsStay /\ Present' = Present \cup {drawn + 1}
           /\ drawn' = drawn + 1 /\ objects' = objects \cup {drawn + 1}
           /\ late' = IF Leaving THEN late \cup {drawn + 1} ELSE late
           /\ unannounced' = TRUE
           /\ UNCHANGED <<revision, account, task, client, walk, cleaned, stranded,
                          regressed>>
<1>1. LibShape /\ drawn + 1 \notin Present
  BY DEF LibInv, LibShape
<1>2. PICK size \in Sizes, at \in Times :
          rows' = [t \in Present \cup {drawn + 1} |->
                     IF t = drawn + 1
                     THEN [size |-> size, at |-> at, cum |-> 0, ver |-> 0]
                     ELSE rows[t]]
  BY DEF GenerateTrack
<1> DEFINE new == [size |-> size, at |-> at, cum |-> 0, ver |-> 0]
<1>3. /\ DOMAIN new = {"size", "at", "cum", "ver"}
      /\ new.size \in Sizes /\ new.at \in Times
  OBVIOUS
<1>4. rows' = [t \in Present \cup {drawn + 1} |->
                 IF t = drawn + 1 THEN new ELSE rows[t]]
  BY <1>2
<1> HIDE DEF new
<1>5. RowsStay /\ Present' = Present \cup {drawn + 1}
  BY <1>1, <1>3, <1>4, RowAdded
<1> QED
  BY <1>5 DEF GenerateTrack, reader

(* A track leaves the list, and its objects will go.                       *)
LEMMA DeleteTrackEffect ==
    ASSUME LibInv, NEW p \in Workers, NEW t \in Present, DeleteTrack(p, t)
    PROVE  /\ At(p, "idle") /\ RowsStay /\ Present' = Present \ {t}
           /\ Goto(p, [at |-> "bumpRead",
                       next |-> [at |-> "purge", track |-> t]])
           /\ Unmoved /\ UNCHANGED <<account, late>>
<1>1. RowsStay /\ Present' = Present \ {t}
  BY RowsRemoved DEF LibInv, DeleteTrack
<1> QED
  BY <1>1 DEF DeleteTrack, Start, Unmoved, reader, history

(* The account goes, with the tracks that were read before.                *)
LEMMA EraseEffect ==
    ASSUME LibInv, NEW p \in Workers, Erase(p)
    PROVE  /\ At(p, "erase") /\ RowsStay
           /\ Present' = Present \ task[p].ids /\ account' = "gone"
           /\ Goto(p, Idle)
           /\ Unmoved /\ UNCHANGED late
<1>1. RowsStay /\ Present' = Present \ task[p].ids
  BY RowsRemoved DEF LibInv, Erase
<1> QED
  BY <1>1 DEF Erase, Unmoved, reader, bounds, history

(* Every track of the account leaves the list.                             *)
LEMMA WipeEffect ==
    ASSUME LibInv, NEW p \in Workers, Wipe(p)
    PROVE  /\ At(p, "wipe") /\ RowsStay /\ Present' = {}
           /\ Goto(p, [at |-> "bumpRead", next |-> task[p].next])
           /\ Unmoved /\ UNCHANGED <<account, late>>
BY DEF Wipe, RowsStay, RowsOK, Present, Unmoved, reader, bounds, history

(* An edit of a track, or of one that is gone.                             *)
LEMMA CommitEditEffect ==
    ASSUME LibInv, NEW p \in Workers, CommitEdit(p)
    PROVE  /\ At(p, "edit") /\ RowsStay /\ Present' = Present
           /\ \/ Goto(p, [at |-> "bumpRead"])
              \/ Goto(p, Idle) /\ UNCHANGED rows
           /\ Unmoved /\ UNCHANGED <<account, late>>
<1>1. RowsOK
  BY DEF LibInv, LibShape
<1>2. \/ UNCHANGED rows
      \/ /\ task[p].track \in Present
         /\ rows' = [rows EXCEPT ![task[p].track].ver = @ + 1]
  BY DEF CommitEdit
<1>3. RowsStay /\ Present' = Present
  BY <1>1, <1>2 DEF RowsStay, RowsOK, Present
<1> QED
  BY <1>3 DEF CommitEdit, Unmoved, reader, bounds, history

(* A check of the quota draws an id, or ends the request.                  *)
LEMMA CheckEffect ==
    ASSUME LibInv, NEW p \in Workers, CheckUpload(p) \/ CheckImport(p)
    PROVE  /\ task[p].at \in {"body", "audio"}
           /\ \/ Goto(p, Idle) /\ UNCHANGED drawn
              \/ \E size \in Sizes, counted \in Counts :
                    /\ drawn' = drawn + 1
                    /\ Goto(p, [at |-> "put", track |-> drawn + 1,
                                size |-> size, counted |-> counted])
           /\ UNCHANGED <<rows, objects, revision, account, client, walk,
                          history>>
<1>1. ASSUME NEW counted \in Counts, NEW size \in Sizes,
             Admit(p, counted, size) \/ Refuse(p, counted, size)
      PROVE  \/ Goto(p, Idle) /\ UNCHANGED drawn
             \/ \E sz \in Sizes, ct \in Counts :
                   /\ drawn' = drawn + 1
                   /\ Goto(p, [at |-> "put", track |-> drawn + 1,
                               size |-> sz, counted |-> ct])
  BY <1>1 DEF Admit, Refuse
<1>2. CASE CheckUpload(p)
  <2>1. At(p, "body") /\ task[p].counted \in Counts
    BY <1>2, TaskFields DEF CheckUpload, LibInv, At
  <2>2. PICK size \in Sizes : \/ Admit(p, task[p].counted, size)
                              \/ Refuse(p, task[p].counted, size)
    BY <1>2 DEF CheckUpload
  <2> QED
    BY <1>1, <1>2, <2>1, <2>2 DEF CheckUpload, At, reader, bounds
<1>3. CASE CheckImport(p)
  <2>1. Counted \in Counts
    BY PresentIsFinite DEF Counted, Counts, LibInv, LibShape, RowsOK
  <2>2. \/ Goto(p, Idle) /\ UNCHANGED drawn
        \/ \E size \in Sizes : Admit(p, Counted, size) \/ Refuse(p, Counted, size)
    BY <1>3 DEF CheckImport
  <2> QED
    BY <1>1, <1>3, <2>1, <2>2 DEF CheckImport, At, reader, bounds
<1> QED
  BY <1>2, <1>3

(* The shape survives when p goes on to a task and rows stay rows.         *)
LEMMA ShapeKept ==
    ASSUME LibShape, NEW p \in Workers, NEW k \in TaskStates, Goto(p, k),
           RowsOK', Present' \subseteq 1..drawn', drawn' \in Nat,
           drawn <= drawn', revision' \in Nat,
           account' \in {"live", "gone"},
           unannounced' \in BOOLEAN, regressed' \in BOOLEAN,
           UNCHANGED <<client, walk>>
    PROVE  LibShape'
<1>1. \A q \in Workers : task'[q] \in TaskStates
  BY DEF Goto, LibShape
<1>2. DOMAIN task' = Workers
  BY DEF Goto, LibShape
<1>3. walk' # NoWalk =>
          /\ DOMAIN walk' = {"at", "rev", "start", "got", "cursor"}
          /\ walk'.at = "page" /\ walk'.rev \in Nat
          /\ walk'.start \subseteq 1..drawn'
          /\ walk'.cursor = NoCursor \/ walk'.cursor \in [at : Nat, id : Nat]
  BY DEF LibShape
<1>4. client'.rev \in Nat
  BY DEF LibShape
<1> QED
  BY <1>1, <1>2, <1>3, <1>4 DEF LibShape

(* A bump excuses what was excused before it.                              *)
LEMMA BumpExcuses ==
    ASSUME LibInv, NEW p \in Workers, BumpWrite(p), NEW rev \in Nat,
           ~regressed => rev <= revision, Excused(rev)
    PROVE  Excused(rev)'
<1>1. LibShape /\ revision \in Nat /\ account \in {"live", "gone"}
  BY DEF LibInv, LibShape
<1>2. task[p] \in [at : {"bumpWrite"}, rev : Nat, next : After]
  BY <1>1, TaskFields DEF BumpWrite
<1>3. task[p].rev \in Nat /\ account' = account
  BY <1>2 DEF BumpWrite
<1>4. \A q \in Workers \ {p} : task'[q] = task[q]
  BY DEF BumpWrite, Goto, LibInv, LibShape
<1>5. CASE account = "gone"
  BY <1>3, <1>5 DEF Excused
<1>6. CASE account = "live"
  <2>1. /\ revision' = task[p].rev + 1
        /\ unannounced' = (unannounced /\ task[p].rev + 1 <= revision)
        /\ regressed' = (regressed \/ task[p].rev + 1 < revision)
    BY <1>6 DEF BumpWrite
  <2>2. CASE regressed \/ task[p].rev + 1 < revision
    BY <2>1, <2>2 DEF Excused
  <2>3. CASE ~regressed /\ task[p].rev + 1 >= revision
    <3>1. rev <= revision
      BY <2>3
    <3>2. CASE unannounced
      <4>1. CASE task[p].rev + 1 <= revision
        BY <2>1, <3>2, <4>1 DEF Excused
      <4>2. CASE ~(task[p].rev + 1 <= revision)
        <5>1. revision' > rev
          BY <1>1, <1>3, <2>1, <3>1, <4>2
        <5> QED
          BY <5>1 DEF Excused
      <4> QED
        BY <4>1, <4>2
    <3>3. CASE \/ revision > rev
               \/ At(p, "bumpWrite") /\ task[p].rev >= rev
      <4>1. revision' > rev
        BY <1>1, <1>3, <2>1, <2>3, <3>3
      <4> QED
        BY <4>1 DEF Excused
    <3>4. CASE \E q \in Workers \ {p} :
                  \/ At(q, "bumpRead")
                  \/ At(q, "bumpWrite") /\ task[q].rev >= rev
      BY <1>4, <3>4 DEF Excused, At
    <3> QED
      BY <1>2, <1>6, <2>3, <3>2, <3>3, <3>4 DEF Excused, At
  <2> QED
    BY <1>1, <1>3, <2>2, <2>3
<1> QED
  BY <1>1, <1>5, <1>6

(* A step of the client leaves the rest of the library alone.              *)
LEMMA ReaderFrame ==
    ASSUME LibInv, UNCHANGED <<data, revision, account, task, bounds, history>>
    PROVE  /\ PurgedTracks' /\ ErasersKnow' /\ EveryTrackHasItsObject'
           /\ LibShape' <=>
                 /\ client'.rev \in Nat
                 /\ walk' # NoWalk =>
                       /\ DOMAIN walk' = {"at", "rev", "start", "got", "cursor"}
                       /\ walk'.at = "page" /\ walk'.rev \in Nat
                       /\ walk'.start \subseteq 1..drawn
                       /\ \/ walk'.cursor = NoCursor
                          \/ walk'.cursor \in [at : Nat, id : Nat]
           /\ \A rev : Excused(rev)' <=> Excused(rev)
<1>1. PurgedTracks'
  BY DEF LibInv, PurgedTracks, Later, Storing, Present, data
<1>2. ErasersKnow'
  BY DEF LibInv, ErasersKnow, OnlyLateTracksSurvive, At, Present, data, history
<1>3. EveryTrackHasItsObject'
  BY DEF LibInv, EveryTrackHasItsObject, At, Present, data, bounds, history
<1>4. LibShape' <=>
         /\ client'.rev \in Nat
         /\ walk' # NoWalk =>
               /\ DOMAIN walk' = {"at", "rev", "start", "got", "cursor"}
               /\ walk'.at = "page" /\ walk'.rev \in Nat
               /\ walk'.start \subseteq 1..drawn
               /\ \/ walk'.cursor = NoCursor
                  \/ walk'.cursor \in [at : Nat, id : Nat]
  BY DEF LibInv, LibShape, RowsOK, Present, data, bounds, history
<1>5. ASSUME NEW rev PROVE Excused(rev)' <=> Excused(rev)
  BY DEF Excused, At, history
<1> QED
  BY <1>1, <1>2, <1>3, <1>4, <1>5

-----------------------------------------------------------------------------
(* One lemma for each step, and in it one step for each conjunct that it   *)
(* can disturb.                                                            *)

(* An upload begins, with the sizes it counted.                            *)
LEMMA StartUploadKeeps ==
    ASSUME LibInv, NEW p \in Workers, StartUpload(p)
    PROVE  LibInv'
<1>1. LibShape'
  BY DEF LibInv, LibShape, StartUpload, Start, Goto, Counted, RowsOK, Present,
      TaskStates, Counts, data, reader, history
<1>2. FreshTracks'
  BY DEF LibInv, FreshTracks, StartUpload, Start, Goto, At, Present, Storing,
      data, reader
<1>3. PurgedTracks'
  BY DEF LibInv, PurgedTracks, StartUpload, Start, Goto, Present, Storing,
      Later, data
<1>4. ErasersKnow'
  BY DEF LibInv, ErasersKnow, StartUpload, Start, Goto, At,
      OnlyLateTracksSurvive, Present, data, history
<1>5. EveryTrackHasItsObject'
  BY DEF LibInv, EveryTrackHasItsObject, StartUpload, Start, Goto, At,
      Present, data, history
<1>6. CopyCurrent'
  BY TaskFields DEF LibInv, CopyCurrent, StartUpload, Start, Goto, At,
      Counted, Excused, LibShape, RevisionsGrow, Present, Listed, Idle, After,
      data, reader, bounds, history
<1>7. WalkCurrent'
  BY DEF LibInv, WalkCurrent, StartUpload, Start, Goto, At, Excused, Present,
      Listed, Beyond, data, reader, history
<1>8. (WalkMissesNothing /\ RevisionsGrow)'
  BY DEF LibInv, WalkMissesNothing, RevisionsGrow, StartUpload, Present,
      Beyond, data, reader, history
<1> QED
  BY <1>1, <1>2, <1>3, <1>4, <1>5, <1>6, <1>7, <1>8 DEF LibInv

(* The quota is checked, and an id is drawn.                               *)
LEMMA CheckKeeps ==
    ASSUME LibInv, NEW p \in Workers, (CheckUpload(p) \/ CheckImport(p))
    PROVE  LibInv'
<1>1. LibShape'
  BY CheckEffect DEF LibInv, LibShape, Goto, history, RowsOK, Present,
      TaskStates
<1>2. FreshTracks'
  BY CheckEffect DEF LibInv, FreshTracks, At, Goto, LibShape, Present,
      Storing, Idle
<1>3. PurgedTracks'
  BY CheckEffect DEF LibInv, PurgedTracks, Goto, LibShape, Present, Storing,
      Later, Idle
<1>4. ErasersKnow'
  BY CheckEffect DEF LibInv, ErasersKnow, At, Goto, history,
      OnlyLateTracksSurvive, LibShape, Present, Idle
<1>5. EveryTrackHasItsObject'
  BY CheckEffect DEF LibInv, EveryTrackHasItsObject, At, Goto, history,
      LibShape, Present
<1>6. CopyCurrent'
  BY CheckEffect DEF LibInv, CopyCurrent, At, Goto, history, Excused,
      LibShape, Present, Listed
<1>7. WalkCurrent'
  BY CheckEffect DEF LibInv, WalkCurrent, At, Goto, history, Excused,
      LibShape, Present, Listed, Beyond
<1>8. (WalkMissesNothing /\ RevisionsGrow)'
  BY CheckEffect DEF LibInv, WalkMissesNothing, RevisionsGrow, history,
      Present, Beyond
<1> QED
  BY <1>1, <1>2, <1>3, <1>4, <1>5, <1>6, <1>7, <1>8 DEF LibInv

(* An import begins.                                                       *)
LEMMA StartRemoteKeeps ==
    ASSUME LibInv, NEW p \in Workers, StartRemote(p)
    PROVE  LibInv'
<1>1. LibShape'
  BY DEF LibInv, LibShape, StartRemote, Start, Goto, RowsOK, Present,
      TaskStates, data, reader, history
<1>2. FreshTracks'
  BY DEF LibInv, FreshTracks, StartRemote, Start, Goto, At, Present, Storing,
      data, reader
<1>3. PurgedTracks'
  BY DEF LibInv, PurgedTracks, StartRemote, Start, Goto, Present, Storing,
      Later, data
<1>4. ErasersKnow'
  BY DEF LibInv, ErasersKnow, StartRemote, Start, Goto, At,
      OnlyLateTracksSurvive, Present, data, history
<1>5. EveryTrackHasItsObject'
  BY DEF LibInv, EveryTrackHasItsObject, StartRemote, Start, Goto, At,
      Present, data, history
<1>6. CopyCurrent'
  BY DEF LibInv, CopyCurrent, StartRemote, Start, Goto, At, Excused, Present,
      Listed, data, reader, history
<1>7. WalkCurrent'
  BY DEF LibInv, WalkCurrent, StartRemote, Start, Goto, At, Excused, Present,
      Listed, Beyond, data, reader, history
<1>8. (WalkMissesNothing /\ RevisionsGrow)'
  BY DEF LibInv, WalkMissesNothing, RevisionsGrow, StartRemote, Present,
      Beyond, data, reader, history
<1> QED
  BY <1>1, <1>2, <1>3, <1>4, <1>5, <1>6, <1>7, <1>8 DEF LibInv

(* The import of a link begins.                                            *)
LEMMA StartDirectKeeps ==
    ASSUME LibInv, NEW p \in Workers, StartDirect(p)
    PROVE  LibInv'
<1>1. LibShape'
  BY DEF LibInv, LibShape, StartDirect, Start, Goto, RowsOK, Present,
      TaskStates, data, reader, history
<1>2. FreshTracks'
  BY DEF LibInv, FreshTracks, StartDirect, Start, Goto, At, Present, Storing,
      data, reader
<1>3. PurgedTracks'
  BY DEF LibInv, PurgedTracks, StartDirect, Start, Goto, Present, Storing,
      Later, data
<1>4. ErasersKnow'
  BY DEF LibInv, ErasersKnow, StartDirect, Start, Goto, At,
      OnlyLateTracksSurvive, Present, data, history
<1>5. EveryTrackHasItsObject'
  BY DEF LibInv, EveryTrackHasItsObject, StartDirect, Start, Goto, At,
      Present, data, history
<1>6. CopyCurrent'
  BY DEF LibInv, CopyCurrent, StartDirect, Start, Goto, At, Excused, Present,
      Listed, data, reader, history
<1>7. WalkCurrent'
  BY DEF LibInv, WalkCurrent, StartDirect, Start, Goto, At, Excused, Present,
      Listed, Beyond, data, reader, history
<1>8. (WalkMissesNothing /\ RevisionsGrow)'
  BY DEF LibInv, WalkMissesNothing, RevisionsGrow, StartDirect, Present,
      Beyond, data, reader, history
<1> QED
  BY <1>1, <1>2, <1>3, <1>4, <1>5, <1>6, <1>7, <1>8 DEF LibInv

(* The audio is in S3.                                                     *)
LEMMA PutObjectKeeps ==
    ASSUME LibInv, NEW p \in Workers, PutObject(p)
    PROVE  LibInv'
<1>1. LibShape'
  BY DEF LibInv, LibShape, PutObject, At, Goto, RowsOK, Present, TaskStates,
      Idle, reader, bounds, history
<1>2. FreshTracks'
  BY DEF LibInv, FreshTracks, PutObject, At, Goto, Present, Storing, reader
<1>3. PurgedTracks'
  BY DEF LibInv, PurgedTracks, PutObject, At, Goto, Present, Storing, Later
<1>4. ErasersKnow'
  BY DEF LibInv, ErasersKnow, PutObject, At, Goto, OnlyLateTracksSurvive,
      Present, history
<1>5. EveryTrackHasItsObject'
  BY DEF LibInv, EveryTrackHasItsObject, PutObject, At, Goto, Present, bounds,
      history
<1>6. CopyCurrent'
  BY DEF LibInv, CopyCurrent, PutObject, At, Goto, Excused, Present, Listed,
      reader, history
<1>7. WalkCurrent'
  BY DEF LibInv, WalkCurrent, PutObject, At, Goto, Excused, Present, Listed,
      Beyond, reader, history
<1>8. (WalkMissesNothing /\ RevisionsGrow)'
  BY DEF LibInv, WalkMissesNothing, RevisionsGrow, PutObject, Present, Beyond,
      reader, history
<1> QED
  BY <1>1, <1>2, <1>3, <1>4, <1>5, <1>6, <1>7, <1>8 DEF LibInv

(* The upload to S3 fails.                                                 *)
LEMMA PutFailsKeeps ==
    ASSUME LibInv, NEW p \in Workers, PutFails(p)
    PROVE  LibInv'
<1>1. LibShape'
  BY DEF LibInv, LibShape, PutFails, Goto, RowsOK, Present, TaskStates,
      reader, bounds, history
<1>2. FreshTracks'
  BY DEF LibInv, FreshTracks, PutFails, At, Goto, Present, Storing, Idle,
      reader
<1>3. PurgedTracks'
  BY DEF LibInv, PurgedTracks, PutFails, Goto, Present, Storing, Later, Idle
<1>4. ErasersKnow'
  BY DEF LibInv, ErasersKnow, PutFails, At, Goto, OnlyLateTracksSurvive,
      Present, Idle, history
<1>5. EveryTrackHasItsObject'
  BY DEF LibInv, EveryTrackHasItsObject, PutFails, At, Goto, Present, bounds,
      history
<1>6. CopyCurrent'
  BY DEF LibInv, CopyCurrent, PutFails, At, Goto, Excused, Present, Listed,
      reader, history
<1>7. WalkCurrent'
  BY DEF LibInv, WalkCurrent, PutFails, At, Goto, Excused, Present, Listed,
      Beyond, reader, history
<1>8. (WalkMissesNothing /\ RevisionsGrow)'
  BY DEF LibInv, WalkMissesNothing, RevisionsGrow, PutFails, Present, Beyond,
      reader, history
<1> QED
  BY <1>1, <1>2, <1>3, <1>4, <1>5, <1>6, <1>7, <1>8 DEF LibInv

(* A row joins the list.                                                   *)
LEMMA StoreTrackKeeps ==
    ASSUME LibInv, NEW p \in Workers, StoreTrack(p)
    PROVE  LibInv'
<1>1. LibShape'
  <2>1. LibShape /\ (IF account = "live" THEN [at |-> "bumpRead"] ELSE Idle) \in TaskStates
    BY StoreTrackEffect, TaskFields DEF LibInv, LibShape, TaskStates, Idle
  <2>2. task[p].track \in 1..drawn /\ Present \subseteq 1..drawn
    BY StoreTrackEffect DEF LibInv, LibShape, FreshTracks, Storing, At
  <2>3. Present' \subseteq 1..drawn' /\ RowsOK'
    BY <2>2, StoreTrackEffect DEF Unmoved, RowsStay
  <2> QED
    BY <2>1, <2>3, StoreTrackEffect, ShapeKept DEF LibShape, Unmoved
<1>2. FreshTracks'
  BY StoreTrackEffect DEF LibInv, FreshTracks, At, Goto, Unmoved, LibShape,
      Storing, Idle
<1>3. PurgedTracks'
  BY StoreTrackEffect DEF LibInv, PurgedTracks, At, Goto, Unmoved, LibShape,
      Storing, Later, Idle
<1>4. ErasersKnow'
  <2>1. Leaving => late' = late \cup {task[p].track}
    BY StoreTrackEffect
  <2>2. \A q \in Workers : At(q, "erase")' => At(q, "erase") /\ task'[q] = task[q]
    BY StoreTrackEffect DEF LibInv, LibShape, Goto, At, Idle
  <2>3. Present' = Present \cup {task[p].track} /\ late \subseteq late' /\ account' = account
    BY StoreTrackEffect
  <2> QED
    BY <2>1, <2>2, <2>3 DEF ErasersKnow, OnlyLateTracksSurvive, LibInv, Leaving
<1>5. EveryTrackHasItsObject'
  <2>1. Present' \ objects' = Present \ objects
    BY StoreTrackEffect DEF LibInv, FreshTracks, Storing, At, Unmoved
  <2>2. \A q \in Workers : At(q, "wipe") => At(q, "wipe")' /\ task'[q] = task[q]
    BY StoreTrackEffect DEF LibInv, LibShape, Goto, At
  <2> QED
    BY <2>1, <2>2, StoreTrackEffect DEF EveryTrackHasItsObject, LibInv, Unmoved
<1>6. WalkMissesNothing'
  BY StoreTrackEffect DEF LibInv, WalkMissesNothing, At, Unmoved, RowsStay,
      FreshTracks, Storing, Beyond, NoWalk
<1>7. CopyCurrent'
  BY StoreTrackEffect DEF LibInv, CopyCurrent, At, Goto, Excused, LibShape
<1>8. WalkCurrent'
  BY StoreTrackEffect DEF LibInv, WalkCurrent, At, Goto, Leaving, Excused,
      LibShape
<1>9. RevisionsGrow'
  BY StoreTrackEffect DEF LibInv, RevisionsGrow, Unmoved
<1> QED
  BY <1>1, <1>2, <1>3, <1>4, <1>5, <1>6, <1>7, <1>8, <1>9 DEF LibInv

(* A row joins the list and is not announced.                              *)
LEMMA GenerateTrackKeeps ==
    ASSUME LibInv, GenerateTrack
    PROVE  LibInv'
<1>1. LibShape'
  <2>1. /\ drawn \in Nat /\ drawn' = drawn + 1
        /\ Present \subseteq 1..drawn
    BY GenerateTrackEffect DEF LibInv, LibShape
  <2>2. drawn + 1 \notin 1..drawn /\ 1..drawn \subseteq 1..drawn' /\ drawn + 1 \in 1..drawn'
    BY <2>1
  <2>3. Present' \subseteq 1..drawn' /\ RowsOK'
    BY <2>1, <2>2, GenerateTrackEffect DEF RowsStay
  <2>4. walk' # NoWalk =>
          /\ DOMAIN walk' = {"at", "rev", "start", "got", "cursor"}
          /\ walk'.at = "page" /\ walk'.rev \in Nat
          /\ walk'.start \subseteq 1..drawn'
          /\ walk'.cursor = NoCursor \/ walk'.cursor \in [at : Nat, id : Nat]
    BY <2>2, GenerateTrackEffect DEF LibInv, LibShape
  <2>5. /\ client'.rev \in Nat /\ revision' \in Nat
        /\ account' \in {"live", "gone"} /\ unannounced' \in BOOLEAN
        /\ regressed' \in BOOLEAN /\ DOMAIN task' = Workers
        /\ \A q \in Workers : task'[q] \in TaskStates
    BY GenerateTrackEffect DEF LibInv, LibShape
  <2>6. drawn' \in Nat
    BY <2>1
  <2> QED
    BY <2>3, <2>4, <2>5, <2>6 DEF LibShape
<1>2. FreshTracks'
  <2>1. /\ drawn \in Nat /\ drawn' = drawn + 1
        /\ Present \subseteq 1..drawn
    BY GenerateTrackEffect DEF LibInv, LibShape
  <2>2. drawn + 1 \notin 1..drawn /\ 1..drawn \subseteq 1..drawn' /\ drawn + 1 \in 1..drawn'
    BY <2>1
  <2> QED
    BY <2>1, <2>2, GenerateTrackEffect DEF LibInv, FreshTracks, Storing, At
<1>3. PurgedTracks'
  <2>1. /\ drawn \in Nat /\ drawn' = drawn + 1
        /\ Present \subseteq 1..drawn
    BY GenerateTrackEffect DEF LibInv, LibShape
  <2>2. drawn + 1 \notin 1..drawn /\ 1..drawn \subseteq 1..drawn' /\ drawn + 1 \in 1..drawn'
    BY <2>1
  <2> QED
    BY <2>1, <2>2, GenerateTrackEffect DEF LibInv, PurgedTracks, Later, Storing
<1>4. ErasersKnow'
  BY GenerateTrackEffect DEF LibInv, ErasersKnow, At, Leaving,
      OnlyLateTracksSurvive, LibShape, Idle, After
<1>5. EveryTrackHasItsObject'
  BY GenerateTrackEffect, ZenonT(30) DEF LibInv, EveryTrackHasItsObject, At, Leaving,
      LibShape, Idle, PurgedTracks, FreshTracks, Later, Storing, After
<1>6. WalkMissesNothing'
  <2>1. walk.at = "page" => drawn + 1 \notin walk.start
    BY DEF LibInv, LibShape, NoWalk
  <2> QED
    BY <2>1, GenerateTrackEffect DEF LibInv, WalkMissesNothing, Beyond, RowsStay
<1>7. CopyCurrent'
  BY GenerateTrackEffect DEF LibInv, CopyCurrent, At, Leaving, Excused,
      LibShape, RevisionsGrow, Listed, Idle, After
<1>8. WalkCurrent'
  BY GenerateTrackEffect DEF LibInv, WalkCurrent, At, Leaving, RowsStay,
      Excused, LibShape, RevisionsGrow, Listed, Beyond, NoWalk, NoCursor,
      Idle, After
<1>9. RevisionsGrow'
  BY GenerateTrackEffect DEF LibInv, RevisionsGrow, At, Leaving, Storing,
      Later, Beyond, Excused, Listed, NoWalk, LibShape
<1> QED
  BY <1>1, <1>2, <1>3, <1>4, <1>5, <1>6, <1>7, <1>8, <1>9 DEF LibInv

(* The revision is read.                                                   *)
LEMMA BumpReadKeeps ==
    ASSUME LibInv, NEW p \in Workers, BumpRead(p)
    PROVE  LibInv'
<1>1. LibShape'
  BY TaskFields DEF LibInv, LibShape, BumpRead, Goto, AfterBump, RowsOK,
      Present, TaskStates, After, data, reader, bounds, history
<1>2. FreshTracks'
  BY DEF LibInv, FreshTracks, BumpRead, At, Goto, Present, Storing, Idle,
      data, reader
<1>3. PurgedTracks'
  BY DEF LibInv, PurgedTracks, BumpRead, Goto, AfterBump, Present, Storing,
      Later, Idle, data
<1>4. ErasersKnow'
  BY DEF LibInv, ErasersKnow, BumpRead, At, Goto, OnlyLateTracksSurvive,
      Present, Idle, data, history
<1>5. EveryTrackHasItsObject'
  BY DEF LibInv, EveryTrackHasItsObject, BumpRead, At, Goto, Present, data,
      bounds, history
<1>6. CopyCurrent'
  BY DEF LibInv, CopyCurrent, BumpRead, At, Goto, Excused, LibShape,
      RevisionsGrow, reader, history
<1>7. WalkCurrent'
  BY DEF LibInv, WalkCurrent, BumpRead, At, Goto, Excused, LibShape,
      RevisionsGrow, reader, history
<1>8. (WalkMissesNothing /\ RevisionsGrow)'
  BY DEF LibInv, WalkMissesNothing, RevisionsGrow, BumpRead, Present, Beyond,
      data, reader, history
<1> QED
  BY <1>1, <1>2, <1>3, <1>4, <1>5, <1>6, <1>7, <1>8 DEF LibInv

(* The revision is written.  Whatever was excused stays so, and what was   *)
(* the list still is, since the rows stay.                                 *)
LEMMA BumpWriteKeeps ==
    ASSUME LibInv, NEW p \in Workers, BumpWrite(p)
    PROVE  LibInv'
<1>1. LibShape'
  <2>1. LibShape /\ revision \in Nat /\ account \in {"live", "gone"}
    BY DEF LibInv, LibShape
  <2>2. task[p] \in [at : {"bumpWrite"}, rev : Nat, next : After]
    BY <2>1, TaskFields DEF BumpWrite
  <2>3. task[p].rev + 1 \in Nat /\ task[p].next \in TaskStates /\ Idle \in TaskStates
    BY <2>2 DEF TaskStates, After
  <2>4. /\ revision' \in Nat /\ unannounced' \in BOOLEAN /\ regressed' \in BOOLEAN
        /\ Goto(p, task[p].next) \/ Goto(p, Idle)
    BY <2>1, <2>3 DEF BumpWrite, LibShape
  <2>5. RowsOK' /\ Present' \subseteq 1..drawn' /\ drawn' \in Nat /\ drawn <= drawn'
    BY DEF LibInv, LibShape, RowsOK, Present, BumpWrite, data
  <2> QED
    BY <2>1, <2>3, <2>4, <2>5, ShapeKept DEF LibShape, BumpWrite, data, reader, bounds
<1>2. FreshTracks'
  <2>1. LibShape /\ revision \in Nat /\ account \in {"live", "gone"}
    BY DEF LibInv, LibShape
  <2>2. task[p] \in [at : {"bumpWrite"}, rev : Nat, next : After]
    BY <2>1, TaskFields DEF BumpWrite
  <2>3. Goto(p, task[p].next) \/ Goto(p, Idle)
    BY DEF BumpWrite
  <2>4. task[p].next.at \notin {"put", "cover"} /\ Idle.at \notin {"put", "cover"}
    BY <2>2 DEF After, Idle
  <2>5. \A q \in Workers : Storing(q)' => Storing(q) /\ task'[q] = task[q]
    BY <2>1, <2>3, <2>4 DEF Storing, Goto, LibShape
  <2> QED
    BY <2>5 DEF LibInv, FreshTracks, At, Storing, Present, BumpWrite, data, reader
<1>3. PurgedTracks'
  BY TaskFields DEF LibInv, PurgedTracks, BumpWrite, Goto, LibShape, Present,
      Storing, Later, After, Idle, data
<1>4. ErasersKnow'
  BY TaskFields DEF LibInv, ErasersKnow, BumpWrite, At, Goto,
      OnlyLateTracksSurvive, LibShape, Present, Idle, After, data
<1>5. EveryTrackHasItsObject'
  BY DEF LibInv, EveryTrackHasItsObject, BumpWrite, At, Goto, LibShape,
      Present, data, bounds
<1>6. RevisionsGrow'
  <2>1. LibShape /\ revision \in Nat /\ account \in {"live", "gone"}
    BY DEF LibInv, LibShape
  <2>2. task[p] \in [at : {"bumpWrite"}, rev : Nat, next : After]
    BY <2>1, TaskFields DEF BumpWrite
  <2>3. client.rev \in Nat /\ (walk # NoWalk => walk.rev \in Nat)
    BY <2>1 DEF LibShape
  <2>4. task[p].rev \in Nat
    BY <2>2
  <2>5. UNCHANGED <<client, walk>> /\ (regressed => regressed')
    BY <2>1 DEF BumpWrite, reader
  <2>6. revision' \in Nat /\ (~regressed' => revision <= revision')
    <3>1. CASE account = "live"
      <4>1. /\ revision' = task[p].rev + 1
            /\ regressed' = (regressed \/ task[p].rev + 1 < revision)
        BY <3>1 DEF BumpWrite
      <4>2. CASE task[p].rev + 1 < revision
        <5>1. regressed'
          BY <4>1, <4>2
        <5>2. revision' \in Nat
          BY <2>4, <4>1
        <5> QED
          BY <5>1, <5>2
      <4>3. CASE ~(task[p].rev + 1 < revision)
        BY <2>1, <2>4, <4>1, <4>3
      <4> QED
        BY <4>2, <4>3
    <3>2. CASE account = "gone"
      BY <2>1, <3>2 DEF BumpWrite
    <3> QED
      BY <2>1, <3>1, <3>2
  <2>7. RevisionsGrow
    BY DEF LibInv
  <2>8. \A rev \in Nat : rev <= revision /\ revision <= revision' => rev <= revision'
    BY <2>1, <2>6
  <2> QED
    BY <2>3, <2>5, <2>6, <2>7, <2>8 DEF RevisionsGrow
<1>7. CopyCurrent'
  <2>1. UNCHANGED <<rows, client, walk>>
    BY DEF BumpWrite, data, reader
  <2>2. PICK rev : rev = client.rev
    OBVIOUS
  <2>3. rev \in Nat /\ (~regressed => rev <= revision)
    BY <2>2 DEF LibInv, LibShape, RevisionsGrow
  <2>4. (Excused(rev) => Excused(rev)')
    BY <2>3, BumpExcuses
  <2> QED
    BY <2>1, <2>2, <2>4 DEF CopyCurrent, LibInv, Listed, Present
<1>8. WalkCurrent'
  <2>1. UNCHANGED <<rows, client, walk>>
    BY DEF BumpWrite, data, reader
  <2>2. PICK rev : rev = walk.rev
    OBVIOUS
  <2>3. walk # NoWalk => rev \in Nat /\ (~regressed => rev <= revision)
    BY <2>2 DEF LibInv, LibShape, RevisionsGrow
  <2>4. walk # NoWalk => (Excused(rev) => Excused(rev)')
    BY <2>3, BumpExcuses
  <2> QED
    BY <2>1, <2>2, <2>4 DEF WalkCurrent, LibInv, Listed, Present, Beyond
<1>9. WalkMissesNothing'
  BY DEF LibInv, WalkMissesNothing, BumpWrite, Present, Beyond, data, reader
<1> QED
  BY <1>1, <1>2, <1>3, <1>4, <1>5, <1>6, <1>7, <1>8, <1>9 DEF LibInv

(* A row leaves the list.                                                  *)
LEMMA DeleteTrackKeeps ==
    ASSUME LibInv, NEW p \in Workers, NEW t \in Present,
           DeleteTrack(p, t)
    PROVE  LibInv'
<1>1. LibShape'
  <2>1. LibShape /\ [at |-> "bumpRead", next |-> [at |-> "purge", track |-> t]] \in TaskStates
    BY DeleteTrackEffect, TaskFields DEF LibInv, LibShape, TaskStates, After
  <2>2. Present' \subseteq 1..drawn' /\ RowsOK'
    BY DeleteTrackEffect DEF LibInv, LibShape, Unmoved, RowsStay
  <2> QED
    BY <2>1, <2>2, DeleteTrackEffect, ShapeKept DEF LibShape, Unmoved
<1>2. FreshTracks'
  BY DeleteTrackEffect DEF LibInv, FreshTracks, Goto, At, Unmoved, LibShape,
      Storing
<1>3. PurgedTracks'
  BY DeleteTrackEffect DEF LibInv, PurgedTracks, Goto, Unmoved, LibShape,
      FreshTracks, Storing, Later
<1>4. ErasersKnow'
  <2>1. Present' = Present \ {t} /\ late' = late /\ account' = account
    BY DeleteTrackEffect
  <2>2. \A q \in Workers : At(q, "erase")' => At(q, "erase") /\ task'[q] = task[q]
    <3>1. /\ task'[p].at = "bumpRead"
          /\ \A q \in Workers \ {p} : task'[q] = task[q]
      BY DeleteTrackEffect DEF LibInv, LibShape, Goto
    <3> QED
      BY <3>1 DEF At
  <2> QED
    BY <2>1, <2>2 DEF ErasersKnow, OnlyLateTracksSurvive, LibInv
<1>5. EveryTrackHasItsObject'
  <2>1. Present' \ objects' \subseteq Present \ objects
    BY DeleteTrackEffect DEF Unmoved
  <2>2. \A q \in Workers : At(q, "wipe") => At(q, "wipe")' /\ task'[q] = task[q]
    <3>1. task[p].at = "idle" /\ \A q \in Workers \ {p} : task'[q] = task[q]
      BY DeleteTrackEffect DEF LibInv, LibShape, Goto, At
    <3> QED
      BY <3>1 DEF At
  <2> QED
    BY <2>1, <2>2, DeleteTrackEffect DEF EveryTrackHasItsObject, LibInv, Unmoved
<1>6. WalkMissesNothing'
  BY DeleteTrackEffect DEF LibInv, WalkMissesNothing, Goto, Unmoved, RowsStay,
      Beyond
<1>7. CopyCurrent'
  BY DeleteTrackEffect DEF LibInv, CopyCurrent, Goto, At, Excused, LibShape,
      Idle
<1>8. WalkCurrent'
  BY DeleteTrackEffect DEF LibInv, WalkCurrent, Goto, At, Excused, LibShape
<1>9. RevisionsGrow'
  BY DeleteTrackEffect DEF LibInv, RevisionsGrow, Goto, At, Unmoved, Storing,
      Later, Beyond, Excused, Listed, NoWalk, LibShape
<1> QED
  BY <1>1, <1>2, <1>3, <1>4, <1>5, <1>6, <1>7, <1>8, <1>9 DEF LibInv

(* Objects of a track that left the list go.                               *)
LEMMA PurgeKeeps ==
    ASSUME LibInv, NEW p \in Workers, Purge(p)
    PROVE  LibInv'
<1>1. LibShape'
  BY DEF LibInv, LibShape, Purge, Goto, RowsOK, Present, TaskStates, reader,
      bounds, history
<1>2. FreshTracks'
  BY TaskFields DEF LibInv, FreshTracks, Purge, At, Goto, Present, Storing,
      Idle, reader, PurgedTracks, Later
<1>3. PurgedTracks'
  BY DEF LibInv, PurgedTracks, Purge, Goto, Present, Storing, Later, Idle
<1>4. ErasersKnow'
  BY DEF LibInv, ErasersKnow, Purge, At, Goto, OnlyLateTracksSurvive, Present,
      Idle, history
<1>5. EveryTrackHasItsObject'
  BY TaskFields DEF LibInv, EveryTrackHasItsObject, Purge, At, Goto, Present,
      PurgedTracks, Later, bounds, history
<1>6. CopyCurrent'
  BY DEF LibInv, CopyCurrent, Purge, At, Goto, Excused, Present, Listed,
      reader, history
<1>7. WalkCurrent'
  BY DEF LibInv, WalkCurrent, Purge, At, Goto, Excused, Present, Listed,
      Beyond, reader, history
<1>8. (WalkMissesNothing /\ RevisionsGrow)'
  BY DEF LibInv, WalkMissesNothing, RevisionsGrow, Purge, Present, Beyond,
      reader, history
<1> QED
  BY <1>1, <1>2, <1>3, <1>4, <1>5, <1>6, <1>7, <1>8 DEF LibInv

(* An edit begins.                                                         *)
LEMMA StartEditKeeps ==
    ASSUME LibInv, NEW p \in Workers, NEW t \in Present,
           StartEdit(p, t)
    PROVE  LibInv'
<1>1. LibShape'
  BY DEF LibInv, LibShape, StartEdit, Start, Goto, RowsOK, Present,
      TaskStates, data, reader, history
<1>2. FreshTracks'
  BY DEF LibInv, FreshTracks, StartEdit, Start, Goto, At, Present, Storing,
      data, reader
<1>3. PurgedTracks'
  BY DEF LibInv, PurgedTracks, StartEdit, Start, Goto, Present, Storing,
      Later, data
<1>4. ErasersKnow'
  BY DEF LibInv, ErasersKnow, StartEdit, Start, Goto, At,
      OnlyLateTracksSurvive, Present, data, history
<1>5. EveryTrackHasItsObject'
  BY DEF LibInv, EveryTrackHasItsObject, StartEdit, Start, Goto, At, Present,
      data, history
<1>6. CopyCurrent'
  BY DEF LibInv, CopyCurrent, StartEdit, Start, Goto, At, Excused, Present,
      Listed, data, reader, history
<1>7. WalkCurrent'
  BY DEF LibInv, WalkCurrent, StartEdit, Start, Goto, At, Excused, Present,
      Listed, Beyond, data, reader, history
<1>8. (WalkMissesNothing /\ RevisionsGrow)'
  BY DEF LibInv, WalkMissesNothing, RevisionsGrow, StartEdit, Present, Beyond,
      data, reader, history
<1> QED
  BY <1>1, <1>2, <1>3, <1>4, <1>5, <1>6, <1>7, <1>8 DEF LibInv

(* The repair of a duration begins.                                        *)
LEMMA StartRepairKeeps ==
    ASSUME LibInv, NEW p \in Workers, NEW t \in Present,
           StartRepair(p, t)
    PROVE  LibInv'
<1>1. LibShape'
  BY DEF LibInv, LibShape, StartRepair, Start, Goto, RowsOK, Present,
      TaskStates, data, reader, history
<1>2. FreshTracks'
  BY DEF LibInv, FreshTracks, StartRepair, Start, Goto, At, Present, Storing,
      Idle, data, reader
<1>3. PurgedTracks'
  BY DEF LibInv, PurgedTracks, StartRepair, Start, Goto, Present, Storing,
      Later, Idle, data
<1>4. ErasersKnow'
  BY DEF LibInv, ErasersKnow, StartRepair, Start, Goto, At,
      OnlyLateTracksSurvive, Present, Idle, data, history
<1>5. EveryTrackHasItsObject'
  BY DEF LibInv, EveryTrackHasItsObject, StartRepair, Start, Goto, At,
      Present, data, history
<1>6. CopyCurrent'
  BY DEF LibInv, CopyCurrent, StartRepair, Start, Goto, At, Excused, Present,
      Listed, data, reader, history
<1>7. WalkCurrent'
  BY DEF LibInv, WalkCurrent, StartRepair, Start, Goto, At, Excused, Present,
      Listed, Beyond, data, reader, history
<1>8. (WalkMissesNothing /\ RevisionsGrow)'
  BY DEF LibInv, WalkMissesNothing, RevisionsGrow, StartRepair, Present,
      Beyond, data, reader, history
<1> QED
  BY <1>1, <1>2, <1>3, <1>4, <1>5, <1>6, <1>7, <1>8 DEF LibInv

(* An edit is committed.                                                   *)
LEMMA CommitEditKeeps ==
    ASSUME LibInv, NEW p \in Workers, CommitEdit(p)
    PROVE  LibInv'
<1>1. LibShape'
  <2>1. LibShape /\ Idle \in TaskStates /\ [at |-> "bumpRead"] \in TaskStates
    BY DEF LibInv, TaskStates
  <2>2. Present' \subseteq 1..drawn' /\ RowsOK'
    BY CommitEditEffect DEF LibInv, LibShape, Unmoved, RowsStay
  <2> QED
    BY <2>1, <2>2, CommitEditEffect, ShapeKept DEF LibShape, Unmoved
<1>2. FreshTracks'
  BY CommitEditEffect DEF LibInv, FreshTracks, Goto, At, Unmoved, LibShape,
      Storing, Idle
<1>3. PurgedTracks'
  BY CommitEditEffect DEF LibInv, PurgedTracks, Goto, Unmoved, LibShape,
      Storing, Later, Idle
<1>4. ErasersKnow'
  <2>1. Present' = Present /\ late' = late /\ account' = account
    BY CommitEditEffect
  <2>2. \A q \in Workers : At(q, "erase")' => At(q, "erase") /\ task'[q] = task[q]
    BY CommitEditEffect DEF LibInv, LibShape, Goto, At, Idle
  <2> QED
    BY <2>1, <2>2 DEF ErasersKnow, OnlyLateTracksSurvive, LibInv
<1>5. EveryTrackHasItsObject'
  <2>1. Present' = Present /\ UNCHANGED <<objects, cleaned, stranded>>
    BY CommitEditEffect DEF Unmoved
  <2>2. \A q \in Workers : At(q, "wipe") => At(q, "wipe")' /\ task'[q] = task[q]
    BY CommitEditEffect DEF LibInv, LibShape, Goto, At, Idle
  <2> QED
    BY <2>1, <2>2 DEF EveryTrackHasItsObject, LibInv
<1>6. WalkMissesNothing'
  BY CommitEditEffect DEF LibInv, WalkMissesNothing, Unmoved, RowsStay, Beyond
<1>7. CopyCurrent'
  <2>1. CASE Goto(p, [at |-> "bumpRead"])
    BY <2>1 DEF CopyCurrent, Excused, At, Goto, LibInv, LibShape
  <2>2. CASE Goto(p, Idle) /\ UNCHANGED rows
    <3>1. Excused(client.rev) => Excused(client.rev)'
      BY <2>2, CommitEditEffect DEF Excused, At, Goto, Idle, LibInv, LibShape, Unmoved
    <3> QED
      BY <2>2, <3>1, CommitEditEffect DEF CopyCurrent, Listed, LibInv, Unmoved
  <2> QED
    BY <2>1, <2>2, CommitEditEffect
<1>8. WalkCurrent'
  <2>1. CASE Goto(p, [at |-> "bumpRead"])
    BY <2>1 DEF WalkCurrent, Excused, At, Goto, LibInv, LibShape
  <2>2. CASE Goto(p, Idle) /\ UNCHANGED rows
    <3>1. Excused(walk.rev) => Excused(walk.rev)'
      BY <2>2, CommitEditEffect DEF Excused, At, Goto, Idle, LibInv, LibShape, Unmoved
    <3> QED
      BY <2>2, <3>1, CommitEditEffect DEF WalkCurrent, Beyond, Listed, LibInv, Unmoved
  <2> QED
    BY <2>1, <2>2, CommitEditEffect
<1>9. RevisionsGrow'
  BY CommitEditEffect DEF LibInv, RevisionsGrow, Unmoved
<1> QED
  BY <1>1, <1>2, <1>3, <1>4, <1>5, <1>6, <1>7, <1>8, <1>9 DEF LibInv

(* An administrator cleans up: the objects go first.                       *)
LEMMA StartCleanupKeeps ==
    ASSUME LibInv, NEW p \in Workers, NEW eraseAccount \in BOOLEAN,
           StartCleanup(p, eraseAccount)
    PROVE  LibInv'
<1>1. LibShape'
  BY DEF LibInv, LibShape, StartCleanup, Start, Goto, RowsOK, Present,
      TaskStates, After, Idle, reader
<1>2. FreshTracks'
  BY DEF LibInv, FreshTracks, StartCleanup, Start, Goto, At, Present, Storing,
      reader
<1>3. PurgedTracks'
  BY DEF LibInv, PurgedTracks, StartCleanup, Start, Goto, Present, Storing,
      Later
<1>4. ErasersKnow'
  BY DEF LibInv, ErasersKnow, StartCleanup, Start, Goto, At,
      OnlyLateTracksSurvive, Present
<1>5. EveryTrackHasItsObject'
  BY DEF LibInv, EveryTrackHasItsObject, StartCleanup, Start, Goto, At,
      LibShape, Present
<1>6. CopyCurrent'
  BY DEF LibInv, CopyCurrent, StartCleanup, Start, Goto, At, Excused, Present,
      Listed, reader
<1>7. WalkCurrent'
  BY DEF LibInv, WalkCurrent, StartCleanup, Start, Goto, At, Excused, Present,
      Listed, Beyond, reader
<1>8. (WalkMissesNothing /\ RevisionsGrow)'
  BY DEF LibInv, WalkMissesNothing, RevisionsGrow, StartCleanup, Present,
      Beyond, reader
<1> QED
  BY <1>1, <1>2, <1>3, <1>4, <1>5, <1>6, <1>7, <1>8 DEF LibInv

(* The rows go after the objects.                                          *)
LEMMA WipeKeeps ==
    ASSUME LibInv, NEW p \in Workers, Wipe(p)
    PROVE  LibInv'
<1>1. LibShape'
  <2>1. LibShape /\ [at |-> "bumpRead", next |-> task[p].next] \in TaskStates
    BY WipeEffect, TaskFields DEF LibInv, LibShape, TaskStates, At
  <2>2. Present' \subseteq 1..drawn' /\ RowsOK'
    BY WipeEffect DEF LibInv, LibShape, Unmoved, RowsStay
  <2> QED
    BY <2>1, <2>2, WipeEffect, ShapeKept DEF LibShape, Unmoved
<1>2. FreshTracks'
  BY WipeEffect DEF LibInv, FreshTracks, Goto, At, Unmoved, LibShape, Storing
<1>3. PurgedTracks'
  BY WipeEffect, TaskFields DEF LibInv, PurgedTracks, Goto, Unmoved, LibShape,
      Storing, Later
<1>4. ErasersKnow'
  BY WipeEffect DEF LibInv, ErasersKnow, Goto, OnlyLateTracksSurvive
<1>5. EveryTrackHasItsObject'
  BY WipeEffect DEF LibInv, EveryTrackHasItsObject, Goto
<1>6. WalkMissesNothing'
  BY WipeEffect DEF LibInv, WalkMissesNothing, Goto
<1>7. CopyCurrent'
  BY WipeEffect DEF LibInv, CopyCurrent, Goto, At, Excused, LibShape
<1>8. WalkCurrent'
  BY WipeEffect DEF LibInv, WalkCurrent, Goto, At, Excused, LibShape
<1>9. RevisionsGrow'
  BY WipeEffect DEF LibInv, RevisionsGrow, Goto, Unmoved
<1> QED
  BY <1>1, <1>2, <1>3, <1>4, <1>5, <1>6, <1>7, <1>8, <1>9 DEF LibInv

(* The owner deletes the account.                                          *)
LEMMA StartDeleteMeKeeps ==
    ASSUME LibInv, NEW p \in Workers, StartDeleteMe(p)
    PROVE  LibInv'
<1>1. LibShape'
  BY DEF LibInv, LibShape, StartDeleteMe, Start, Goto, RowsOK, Present,
      TaskStates, data, reader, history
<1>2. FreshTracks'
  BY DEF LibInv, FreshTracks, StartDeleteMe, Start, Goto, At, Present,
      Storing, data, reader
<1>3. PurgedTracks'
  BY DEF LibInv, PurgedTracks, StartDeleteMe, Start, Goto, Present, Storing,
      Later, data
<1>4. ErasersKnow'
  BY DEF LibInv, ErasersKnow, StartDeleteMe, Start, Goto, At,
      OnlyLateTracksSurvive, Present, data, history
<1>5. EveryTrackHasItsObject'
  BY DEF LibInv, EveryTrackHasItsObject, StartDeleteMe, Start, Goto, At,
      Present, data, history
<1>6. CopyCurrent'
  BY DEF LibInv, CopyCurrent, StartDeleteMe, Start, Goto, At, Excused,
      Present, Listed, data, reader, history
<1>7. WalkCurrent'
  BY DEF LibInv, WalkCurrent, StartDeleteMe, Start, Goto, At, Excused,
      Present, Listed, Beyond, data, reader, history
<1>8. (WalkMissesNothing /\ RevisionsGrow)'
  BY DEF LibInv, WalkMissesNothing, RevisionsGrow, StartDeleteMe, Present,
      Beyond, data, reader, history
<1> QED
  BY <1>1, <1>2, <1>3, <1>4, <1>5, <1>6, <1>7, <1>8 DEF LibInv

(* The rows of the account are read.                                       *)
LEMMA CascadeKeeps ==
    ASSUME LibInv, NEW p \in Workers, Cascade(p)
    PROVE  LibInv'
<1>1. LibShape'
  BY DEF LibInv, LibShape, Cascade, Goto, RowsOK, Present, TaskStates, data,
      reader, bounds, history
<1>2. FreshTracks'
  BY DEF LibInv, FreshTracks, Cascade, At, Goto, Present, Storing, Idle, data,
      reader
<1>3. PurgedTracks'
  BY DEF LibInv, PurgedTracks, Cascade, Goto, Present, Storing, Later, Idle,
      data
<1>4. ErasersKnow'
  BY DEF LibInv, ErasersKnow, Cascade, At, Goto, OnlyLateTracksSurvive,
      Present, Idle, data, history
<1>5. EveryTrackHasItsObject'
  BY DEF LibInv, EveryTrackHasItsObject, Cascade, At, Goto, Present, data,
      bounds, history
<1>6. CopyCurrent'
  BY DEF LibInv, CopyCurrent, Cascade, At, Goto, Excused, Present, Listed,
      data, reader, history
<1>7. WalkCurrent'
  BY DEF LibInv, WalkCurrent, Cascade, At, Goto, Excused, Present, Listed,
      Beyond, data, reader, history
<1>8. (WalkMissesNothing /\ RevisionsGrow)'
  BY DEF LibInv, WalkMissesNothing, RevisionsGrow, Cascade, Present, Beyond,
      data, reader, history
<1> QED
  BY <1>1, <1>2, <1>3, <1>4, <1>5, <1>6, <1>7, <1>8 DEF LibInv

(* The account and the rows that were read go.                             *)
LEMMA EraseKeeps ==
    ASSUME LibInv, NEW p \in Workers, Erase(p)
    PROVE  LibInv'
<1>1. LibShape'
  <2>1. LibShape /\ Idle \in TaskStates
    BY EraseEffect, TaskFields DEF LibInv, LibShape, TaskStates, Idle
  <2>2. Present' \subseteq 1..drawn' /\ RowsOK'
    BY EraseEffect DEF LibInv, LibShape, Unmoved, RowsStay
  <2> QED
    BY <2>1, <2>2, EraseEffect, ShapeKept DEF LibShape, Unmoved
<1>2. FreshTracks'
  BY EraseEffect DEF LibInv, FreshTracks, Goto, At, Unmoved, LibShape,
      Storing, Idle
<1>3. PurgedTracks'
  BY EraseEffect DEF LibInv, PurgedTracks, Goto, Unmoved, LibShape, Storing,
      Later, Idle
<1>4. ErasersKnow'
  <2>1. At(p, "erase") /\ Present' = Present \ task[p].ids /\ late' = late
    BY EraseEffect
  <2>2. \A q \in Workers : At(q, "erase")' => At(q, "erase") /\ task'[q] = task[q]
    BY EraseEffect DEF LibInv, LibShape, Goto, At, Idle
  <2> QED
    BY <2>1, <2>2 DEF ErasersKnow, OnlyLateTracksSurvive, LibInv
<1>5. EveryTrackHasItsObject'
  <2>1. Present' \ objects' \subseteq Present \ objects
    BY EraseEffect DEF Unmoved
  <2>2. \A q \in Workers : At(q, "wipe") => At(q, "wipe")' /\ task'[q] = task[q]
    BY EraseEffect DEF LibInv, LibShape, Goto, At
  <2> QED
    BY <2>1, <2>2, EraseEffect DEF EveryTrackHasItsObject, LibInv, Unmoved
<1>6. WalkMissesNothing'
  BY EraseEffect DEF LibInv, WalkMissesNothing, Unmoved, RowsStay, Beyond
<1>7. CopyCurrent'
  BY EraseEffect DEF LibInv, CopyCurrent, Excused
<1>8. WalkCurrent'
  BY EraseEffect DEF LibInv, WalkCurrent, Goto, RowsStay, Excused
<1>9. RevisionsGrow'
  BY EraseEffect DEF LibInv, RevisionsGrow, Unmoved
<1> QED
  BY <1>1, <1>2, <1>3, <1>4, <1>5, <1>6, <1>7, <1>8, <1>9 DEF LibInv

(* The client begins to walk over the pages.                               *)
LEMMA StartWalkKeeps ==
    ASSUME LibInv, StartWalk
    PROVE  LibInv'
<1>1. LibShape'
  BY DEF LibInv, LibShape, StartWalk, RowsOK, Present, data, bounds, history
<1>2. FreshTracks'
  BY DEF LibInv, FreshTracks, StartWalk, Present, Storing, At, data
<1>3. WalkMissesNothing'
  BY DEF LibInv, WalkMissesNothing, StartWalk, Beyond
<1>4. RevisionsGrow'
  BY DEF LibInv, RevisionsGrow, StartWalk, LibShape, history
<1>5. WalkCurrent'
  BY DEF LibInv, WalkCurrent, StartWalk, Beyond
<1>6. CopyCurrent'
  BY ReaderFrame DEF LibInv, CopyCurrent, Listed, Present, StartWalk, data
<1>7. (PurgedTracks /\ ErasersKnow /\ EveryTrackHasItsObject)'
  BY ReaderFrame DEF StartWalk
<1> QED
  BY <1>1, <1>2, <1>3, <1>4, <1>5, <1>6, <1>7 DEF LibInv

(* A page is read.  It moves the cursor over its own rows only, so that    *)
(* what was got are the rows before the cursor; the last page leaves none  *)
(* beyond it.                                                              *)
LEMMA ReadPageKeeps ==
    ASSUME LibInv, ReadPage
    PROVE  LibInv'
<1>1. LibShape'
  <2> DEFINE c == walk.cursor
  <2>1. LibShape /\ walk # NoWalk
    BY DEF LibInv, ReadPage, NoWalk
  <2>2. CASE HasMore(c)
    <3>1. PICK got : walk' = [walk EXCEPT !.got = got, !.cursor = CursorAfter(Page(c))]
      BY <2>2 DEF ReadPage
    <3>2. CursorAfter(Page(c)) \in [at : Nat, id : Nat]
      BY <2>1, <2>2, PageMovesCursor DEF LibShape
    <3>3. client' = client
      BY <2>2 DEF ReadPage
    <3>4. /\ DOMAIN walk' = {"at", "rev", "start", "got", "cursor"}
          /\ walk'.at = "page" /\ walk'.rev \in Nat
          /\ walk'.start \subseteq 1..drawn
          /\ walk'.cursor \in [at : Nat, id : Nat]
      BY <2>1, <3>1, <3>2 DEF LibShape
    <3> QED
      BY <2>1, <3>3, <3>4, ReaderFrame DEF ReadPage, LibShape
  <2>3. CASE ~HasMore(c)
    <3>1. walk' = NoWalk /\ client'.rev = walk.rev
      BY <2>3 DEF ReadPage
    <3> QED
      BY <2>1, <3>1, ReaderFrame DEF ReadPage, LibShape
  <2> QED
    BY <2>2, <2>3
<1>2. FreshTracks'
  BY ZenonT(30) DEF LibInv, FreshTracks, ReadPage, LibShape, Present, Storing, At, Idle,
      NoWalk, data, reader, bounds, history
<1>3. WalkMissesNothing'
  <2> DEFINE c == walk.cursor
             new == CursorAfter(Page(c))
             read == walk.got \cup {Listed(t) : t \in Page(c)}
  <2>1. LibShape /\ walk # NoWalk /\ (c = NoCursor \/ c \in [at : Nat, id : Nat])
    BY DEF LibInv, ReadPage, NoWalk, LibShape
  <2>2. UNCHANGED rows
    BY DEF ReadPage, data
  <2>3. CASE HasMore(c)
    <3>1. walk' = [walk EXCEPT !.got = read, !.cursor = new]
      BY <2>3 DEF ReadPage
    <3>2. \A t \in Present : ~Beyond(new, t) <=> ~Beyond(c, t) \/ t \in Page(c)
      BY <2>1, <2>3, PageMovesCursor
    <3>3. walk'.start = walk.start /\ walk'.got = read /\ walk'.cursor = new
      BY <2>1, <3>1 DEF LibShape
    <3>4. \A t \in walk.start \cap Present : Beyond(c, t) \/ \E g \in walk.got : g.id = t
      BY DEF LibInv, WalkMissesNothing, ReadPage
    <3>5. ASSUME NEW t \in Page(c) PROVE \E g \in read : g.id = t
      <4>1. Listed(t) \in read /\ Listed(t).id = t
        BY DEF Listed
      <4> QED
        BY <4>1
    <3> HIDE DEF new, c
    <3>6. \A t \in walk.start \cap Present : Beyond(new, t) \/ \E g \in read : g.id = t
      BY <3>2, <3>4, <3>5
    <3> QED
      BY <2>2, <3>3, <3>6 DEF WalkMissesNothing, Present, Beyond
  <2>4. CASE ~HasMore(c)
    BY <2>4 DEF ReadPage, WalkMissesNothing, NoWalk
  <2> QED
    BY <2>3, <2>4
<1>4. RevisionsGrow'
  <2>1. CASE HasMore(walk.cursor)
    BY <2>1 DEF LibInv, LibShape, RevisionsGrow, ReadPage, NoWalk, history
  <2>2. CASE ~HasMore(walk.cursor)
    BY <2>2 DEF LibInv, LibShape, RevisionsGrow, ReadPage, NoWalk, history
  <2> QED
    BY <2>1, <2>2
<1>5. CopyCurrent'
  <2> DEFINE c == walk.cursor
             new == CursorAfter(Page(c))
             read == walk.got \cup {Listed(t) : t \in Page(c)}
  <2>1. LibShape /\ walk # NoWalk /\ (c = NoCursor \/ c \in [at : Nat, id : Nat])
    BY DEF LibInv, ReadPage, NoWalk, LibShape
  <2>2. UNCHANGED rows
    BY DEF ReadPage, data
  <2>3. CASE HasMore(c)
    BY <2>3 DEF ReadPage, CopyCurrent, LibInv, Excused, At, Listed, Present, data, history
  <2>4. CASE ~HasMore(c)
    <3>1. client' = [rev |-> walk.rev, copy |-> read]
      BY <2>4 DEF ReadPage
    <3>2. Page(c) = {t \in Present : Beyond(c, t)}
      BY <2>4 DEF HasMore
    <3>3. \/ Excused(walk.rev)
          \/ walk.got = {Listed(t) : t \in {s \in Present : ~Beyond(c, s)}}
      BY <2>1 DEF LibInv, WalkCurrent
    <3>4. ASSUME walk.got = {Listed(t) : t \in {s \in Present : ~Beyond(c, s)}}
          PROVE  read = {Listed(t) : t \in Present}
      BY <3>2, <3>4
    <3>5. Excused(walk.rev) => Excused(client.rev)'
      BY <3>1 DEF ReadPage, Excused, At, history
    <3> HIDE DEF read
    <3> QED
      BY <2>2, <3>1, <3>3, <3>4, <3>5 DEF CopyCurrent, Listed, Present
  <2> QED
    BY <2>3, <2>4
<1>6. WalkCurrent'
  <2> DEFINE c == walk.cursor
             new == CursorAfter(Page(c))
             read == walk.got \cup {Listed(t) : t \in Page(c)}
  <2>1. LibShape /\ walk # NoWalk /\ (c = NoCursor \/ c \in [at : Nat, id : Nat])
    BY DEF LibInv, ReadPage, NoWalk, LibShape
  <2>2. UNCHANGED rows
    BY DEF ReadPage, data
  <2>3. CASE HasMore(c)
    <3>1. walk' = [walk EXCEPT !.got = read, !.cursor = new]
      BY <2>3 DEF ReadPage
    <3>2. \A t \in Present : ~Beyond(new, t) <=> ~Beyond(c, t) \/ t \in Page(c)
      BY <2>1, <2>3, PageMovesCursor
    <3>3. walk'.rev = walk.rev /\ walk'.got = read /\ walk'.cursor = new
      BY <2>1, <3>1 DEF LibShape
    <3>4. \/ Excused(walk.rev)
          \/ walk.got = {Listed(t) : t \in {s \in Present : ~Beyond(c, s)}}
      BY <2>1 DEF LibInv, WalkCurrent
    <3>5. Page(c) \subseteq Present
      BY DEF Page
    <3>6. {s \in Present : ~Beyond(new, s)} = {s \in Present : ~Beyond(c, s)} \cup Page(c)
      BY <3>2, <3>5
    <3>7. ASSUME walk.got = {Listed(t) : t \in {s \in Present : ~Beyond(c, s)}}
          PROVE  read = {Listed(t) : t \in {s \in Present : ~Beyond(new, s)}}
      BY <3>6, <3>7
    <3>8. Excused(walk.rev) => Excused(walk.rev)'
      BY <3>3 DEF ReadPage, Excused, At, history
    <3> HIDE DEF read, new
    <3> QED
      BY <2>2, <3>3, <3>4, <3>7, <3>8 DEF WalkCurrent, Listed, Present, Beyond
  <2>4. CASE ~HasMore(c)
    BY <2>4 DEF ReadPage, WalkCurrent
  <2> QED
    BY <2>3, <2>4
<1>7. (PurgedTracks /\ ErasersKnow /\ EveryTrackHasItsObject)'
  BY ReaderFrame DEF ReadPage
<1> QED
  BY <1>1, <1>2, <1>3, <1>4, <1>5, <1>6, <1>7 DEF LibInv

(* The client drops its walk.                                              *)
LEMMA DropWalkKeeps ==
    ASSUME LibInv, DropWalk
    PROVE  LibInv'
<1>1. LibShape'
  BY DEF LibInv, LibShape, DropWalk, RowsOK, Present, data, bounds, history
<1>2. FreshTracks'
  BY DEF LibInv, FreshTracks, DropWalk, Present, Storing, At, data
<1>3. WalkMissesNothing'
  BY DEF LibInv, WalkMissesNothing, DropWalk, NoWalk
<1>4. RevisionsGrow'
  BY DEF LibInv, RevisionsGrow, DropWalk, history
<1>5. WalkCurrent'
  BY DEF LibInv, WalkCurrent, DropWalk
<1>6. CopyCurrent'
  BY ReaderFrame DEF LibInv, CopyCurrent, Listed, Present, DropWalk, data
<1>7. (PurgedTracks /\ ErasersKnow /\ EveryTrackHasItsObject)'
  BY ReaderFrame DEF DropWalk
<1> QED
  BY <1>1, <1>2, <1>3, <1>4, <1>5, <1>6, <1>7 DEF LibInv

(* A process dies.  If it had changed the list, the change stays           *)
(* unannounced.                                                            *)
LEMMA InterruptKeeps ==
    ASSUME LibInv, NEW p \in Workers, Interrupt(p)
    PROVE  LibInv'
<1>1. LibShape'
  BY DEF LibInv, LibShape, Interrupt, Goto, RowsOK, Present, TaskStates, data,
      reader
<1>2. FreshTracks'
  BY DEF LibInv, FreshTracks, Interrupt, At, Goto, Present, Storing, Idle, data,
      reader
<1>3. PurgedTracks'
  BY DEF LibInv, PurgedTracks, Interrupt, Goto, Present, Storing, Later, Idle, data
<1>4. ErasersKnow'
  BY DEF LibInv, ErasersKnow, Interrupt, At, Goto, OnlyLateTracksSurvive, Present,
      Idle, data
<1>5. EveryTrackHasItsObject'
  <2>1. ASSUME NEW t \in Present' \ objects'
        PROVE  /\ t \in cleaned'
               /\ \/ t \in stranded'
                  \/ \E q \in Workers : At(q, "wipe")' /\ t \in task'[q].ids
    <3>1. /\ t \in Present \ objects
          /\ cleaned' = cleaned /\ stranded \subseteq stranded'
          /\ At(p, "wipe") => task[p].ids \subseteq stranded'
          /\ \A q \in Workers \ {p} : task'[q] = task[q]
      BY DEF Interrupt, Goto, Present, data
    <3>2. /\ t \in cleaned
          /\ \/ t \in stranded
             \/ \E q \in Workers : At(q, "wipe") /\ t \in task[q].ids
      BY <3>1 DEF LibInv, EveryTrackHasItsObject
    <3> QED
      BY <3>1, <3>2 DEF At
  <2> QED
    BY <2>1 DEF EveryTrackHasItsObject
<1>6. CopyCurrent'
  BY TaskFields DEF LibInv, CopyCurrent, Interrupt, At, Goto, Excused, LibShape,
      RevisionsGrow, Present, Listed, Idle, After, data, reader, bounds,
      history
<1>7. WalkCurrent'
  BY TaskFields DEF LibInv, WalkCurrent, Interrupt, At, Goto, Excused, LibShape,
      RevisionsGrow, Present, Listed, Beyond, NoWalk, NoCursor, Idle, After,
      data, reader, bounds, history
<1>8. (WalkMissesNothing /\ RevisionsGrow)'
  BY DEF LibInv, WalkMissesNothing, RevisionsGrow, Interrupt, Present, Beyond,
      data, reader
<1> QED
  BY <1>1, <1>2, <1>3, <1>4, <1>5, <1>6, <1>7, <1>8 DEF LibInv

-----------------------------------------------------------------------------
(* The theorems.                                                           *)

(* Nothing is there yet.                                                   *)
LEMMA InitHolds ==
    ASSUME Init
    PROVE  LibInv
<1>1. Present = {}
  BY DEF Init, Present
<1>2. LibShape
  BY <1>1 DEF Init, LibShape, RowsOK, TaskStates, Idle, NoCopy, NoWalk
<1>3. FreshTracks /\ PurgedTracks
  BY DEF Init, FreshTracks, PurgedTracks, Storing, Later, Idle
<1>4. ErasersKnow /\ EveryTrackHasItsObject
  BY <1>1 DEF Init, ErasersKnow, OnlyLateTracksSurvive,
              EveryTrackHasItsObject, At, Idle
<1>5. WalkMissesNothing /\ RevisionsGrow /\ WalkCurrent
  BY DEF Init, WalkMissesNothing, RevisionsGrow, WalkCurrent, NoWalk, NoCopy
<1>6. CopyCurrent
  BY DEF Init, CopyCurrent, NoCopy, Excused
<1> QED
  BY <1>2, <1>3, <1>4, <1>5, <1>6 DEF LibInv

(* A step that changes nothing.                                            *)
LEMMA StutterKeeps ==
    ASSUME LibInv, UNCHANGED vars
    PROVE  LibInv'
<1>1. PurgedTracks' /\ ErasersKnow' /\ EveryTrackHasItsObject'
  BY ReaderFrame DEF vars
<1>2. LibShape' /\ FreshTracks'
  BY DEF LibInv, LibShape, FreshTracks, RowsOK, Storing, At, Present, vars,
         data, reader, bounds, history
<1>3. WalkMissesNothing' /\ RevisionsGrow'
  BY DEF LibInv, WalkMissesNothing, RevisionsGrow, Beyond, Present, vars,
         data, reader, history
<1>4. CopyCurrent' /\ WalkCurrent'
  BY DEF LibInv, CopyCurrent, WalkCurrent, Excused, At, Beyond, Listed,
         Present, vars, data, reader, history
<1> QED
  BY <1>1, <1>2, <1>3, <1>4 DEF LibInv

(* The steps, together.                                                    *)
LEMMA StepKeeps ==
    ASSUME LibInv, [Next]_vars
    PROVE  LibInv'
<1>1. ASSUME NEW p \in Workers, Begin(p) PROVE LibInv'
  BY <1>1, StartUploadKeeps, StartRemoteKeeps, StartDirectKeeps,
     DeleteTrackKeeps, StartEditKeeps, StartRepairKeeps, StartCleanupKeeps,
     StartDeleteMeKeeps DEF Begin
<1>2. ASSUME NEW p \in Workers, Continue(p) PROVE LibInv'
  BY <1>2, CheckKeeps, PutObjectKeeps, PutFailsKeeps, StoreTrackKeeps,
     BumpReadKeeps, BumpWriteKeeps, PurgeKeeps, CommitEditKeeps, WipeKeeps,
     CascadeKeeps, EraseKeeps DEF Continue
<1> QED
  BY <1>1, <1>2, InterruptKeeps, GenerateTrackKeeps, StartWalkKeeps, ReadPageKeeps,
     DropWalkKeeps, StutterKeeps DEF Next

(* The invariant of the library.                                           *)
THEOREM LibInvariant == Spec => []LibInv
<1> QED
  BY InitHolds, StepKeeps, PTL DEF Spec

(* A track in the list has its audio in S3, since the row follows the      *)
(* upload and leaves before the objects do, but for a clean-up by an       *)
(* administrator (api/tracks.py, api/admin.py).                            *)
THEOREM ObjectsBehindTracks == Spec => []EveryTrackHasItsObject
<1>1. LibInv => EveryTrackHasItsObject
  BY DEF LibInv
<1> QED
  BY <1>1, LibInvariant, PTL

(* A walk by (created_at, id) misses no track that was there from its      *)
(* start on, whatever joins and leaves the list meanwhile.                 *)
THEOREM WalksAreComplete == Spec => []WalkMissesNothing
<1>1. LibInv => WalkMissesNothing
  BY DEF LibInv
<1> QED
  BY <1>1, LibInvariant, PTL

(* What is left of a deleted account are tracks whose upload or import was *)
(* under way when the rows were read.                                      *)
THEOREM DeletedAccountsAreEmpty == Spec => []OnlyLateTracksSurvive
<1>1. LibInv => OnlyLateTracksSurvive
  BY DEF LibInv, ErasersKnow
<1> QED
  BY <1>1, LibInvariant, PTL

(* A client whose revision is the one it is told has the list, but for the *)
(* changes the property names.                                             *)
THEOREM CopiesAreCurrent == Spec => []SyncedCopyIsCurrent
<1>1. LibInv => SyncedCopyIsCurrent
  BY DEF LibInv, LibShape, CopyCurrent, SyncedCopyIsCurrent, Excused,
         Unchanged, At
<1> QED
  BY <1>1, LibInvariant, PTL

-----------------------------------------------------------------------------
(* The table of the rows.                                                  *)

(* A row with its columns, and a table of rows.                            *)
Row == [size : Sizes, at : Times, cum : Nat, ver : Nat]
Table(r) == /\ IsFiniteSet(DOMAIN r) /\ DOMAIN r \subseteq Nat
            /\ \A t \in DOMAIN r : r[t] \in Row

(* The sizes of a table can be added up.                                   *)
LEMMA TableSums ==
    ASSUME NEW r, Table(r), NEW T \in SUBSET DOMAIN r
    PROVE  Summable(SizesOf(r), T)
<1>1. IsFiniteSet(T)
  BY FS_Subset DEF Table
<1>2. \A t \in T : SizesOf(r)[t] = r[t].size /\ r[t].size \in Sizes
  BY DEF SizesOf, Table, Row
<1> QED
  BY <1>1, <1>2, LibraryAssumption DEF Summable

(* What a rebuild makes of a table: a total is the sum up to its row.      *)
LEMMA RebuildTable ==
    ASSUME NEW r, Table(r)
    PROVE  /\ Table(Rebuild(r)) /\ DOMAIN Rebuild(r) = DOMAIN r
           /\ \A t \in DOMAIN r :
                 /\ Rebuild(r)[t].size = r[t].size
                 /\ Rebuild(r)[t].at = r[t].at
                 /\ Rebuild(r)[t].ver = r[t].ver
                 /\ Rebuild(r)[t].cum =
                       Sum(SizesOf(r), {s \in DOMAIN r : NotAfter(r, s, t)})
<1> DEFINE Upto(t) == {s \in DOMAIN r : NotAfter(r, s, t)}
           Cum(t) == MapThenSumSet(LAMBDA s : r[s].size, Upto(t))
<1>1. Rebuild(r) = [t \in DOMAIN r |-> [r[t] EXCEPT !.cum = Cum(t)]]
  BY DEF Rebuild
<1>2. ASSUME NEW t \in DOMAIN r
      PROVE  Cum(t) = Sum(SizesOf(r), Upto(t)) /\ Cum(t) \in Nat
  <2>1. Upto(t) \in SUBSET DOMAIN r
    OBVIOUS
  <2> HIDE DEF Upto
  <2>2. Summable(SizesOf(r), Upto(t))
    BY <2>1, TableSums
  <2>3. Cum(t) = Sum(SizesOf(r), Upto(t))
    BY <2>1, <2>2, RowSums
  <2>4. Sum(SizesOf(r), Upto(t)) \in Nat
    BY <2>2, SumFacts
  <2> QED
    BY <2>3, <2>4
<1> HIDE DEF Cum, Upto
<1>3. \A t \in DOMAIN r :
         /\ Rebuild(r)[t] \in Row
         /\ Rebuild(r)[t].size = r[t].size /\ Rebuild(r)[t].at = r[t].at
         /\ Rebuild(r)[t].ver = r[t].ver /\ Rebuild(r)[t].cum = Cum(t)
  BY <1>1, <1>2 DEF Table, Row
<1>4. DOMAIN Rebuild(r) = DOMAIN r
  BY <1>1
<1> QED
  BY <1>2, <1>3, <1>4 DEF Table, Upto

-----------------------------------------------------------------------------
(* The running totals.                                                     *)

(* The totals of a table add up; TotalsAddUp says so of the rows.          *)
WithTotal(r) == {t \in DOMAIN r : r[t].cum # 0}
AddUp(r) ==
    \A t \in WithTotal(r) :
        r[t].cum = SizeOf(Restrict(r, {s \in WithTotal(r) : NotAfter(r, s, t)}))

(* The size of a part of a table.                                          *)
LEMMA PartSize ==
    ASSUME NEW r, Table(r), NEW T \in SUBSET DOMAIN r
    PROVE  SizeOf(Restrict(r, T)) = Sum(SizesOf(r), T)
<1> DEFINE q == Restrict(r, T)
<1>1. DOMAIN q = T /\ \A t \in T : q[t] = r[t]
  BY DEF Restrict
<1> HIDE DEF q
<1>2. \A t \in T : SizesOf(q)[t] = SizesOf(r)[t]
  BY <1>1 DEF SizesOf
<1>3. Summable(SizesOf(r), T)
  BY TableSums
<1>4. Summable(SizesOf(q), T) /\ Sum(SizesOf(q), T) = Sum(SizesOf(r), T)
  BY <1>2, <1>3, SumSame
<1>5. SizeOf(q) = Sum(SizesOf(q), T)
  BY <1>1, <1>4, SizeSums
<1> QED
  BY <1>4, <1>5 DEF q

(* Rebuilt totals add up: rows of total 0 are empty files.                 *)
LEMMA RebuiltAddUp ==
    ASSUME NEW r, Table(r)
    PROVE  AddUp(Rebuild(r))
<1> DEFINE q == Rebuild(r)
           Upto(t) == {s \in DOMAIN r : NotAfter(r, s, t)}
           Part(t) == {s \in WithTotal(q) : NotAfter(q, s, t)}
<1>1. /\ Table(q) /\ DOMAIN q = DOMAIN r
      /\ \A t \in DOMAIN r : /\ q[t].size = r[t].size /\ q[t].at = r[t].at
                             /\ q[t].cum = Sum(SizesOf(r), Upto(t))
  BY RebuildTable
<1> HIDE DEF q
<1>2. SUFFICES ASSUME NEW t \in WithTotal(q)
               PROVE  q[t].cum = SizeOf(Restrict(q, Part(t)))
  BY DEF AddUp, q
<1>3. t \in DOMAIN r
  BY <1>1 DEF WithTotal
<1>4. Part(t) \in SUBSET Upto(t) /\ Part(t) \in SUBSET DOMAIN q
  BY <1>1, <1>3 DEF WithTotal, NotAfter
<1>5. ASSUME NEW s \in Upto(t) \ Part(t) PROVE SizesOf(r)[s] = 0
  <2>1. s \in DOMAIN r /\ s \notin WithTotal(q)
    BY <1>1, <1>3, <1>5 DEF NotAfter
  <2>2. Sum(SizesOf(r), Upto(s)) = 0
    BY <1>1, <2>1 DEF WithTotal
  <2>3. s \in Upto(s)
    BY <2>1 DEF NotAfter, Table
  <2>4. Upto(s) \in SUBSET DOMAIN r
    OBVIOUS
  <2> HIDE DEF Upto
  <2>5. Summable(SizesOf(r), Upto(s))
    BY <2>4, TableSums
  <2>6. SizesOf(r)[s] <= Sum(SizesOf(r), Upto(s)) /\ SizesOf(r)[s] \in Nat
    BY <2>3, <2>5, SumBounds DEF Summable
  <2> QED
    BY <2>2, <2>6
<1>6. Upto(t) \in SUBSET DOMAIN r
  OBVIOUS
<1> HIDE DEF Upto, Part
<1>7. Summable(SizesOf(r), Upto(t))
  BY <1>6, TableSums
<1>8. Sum(SizesOf(r), Part(t)) = Sum(SizesOf(r), Upto(t))
  BY <1>4, <1>5, <1>7, SumPart
<1>9. SizeOf(Restrict(q, Part(t))) = Sum(SizesOf(q), Part(t))
  BY <1>1, <1>4, PartSize
<1>10. Summable(SizesOf(q), Part(t))
  BY <1>1, <1>4, TableSums
<1>11. \A s \in Part(t) : SizesOf(r)[s] = SizesOf(q)[s]
  BY <1>1, <1>4 DEF SizesOf
<1>12. Sum(SizesOf(r), Part(t)) = Sum(SizesOf(q), Part(t))
  BY <1>10, <1>11, SumSame
<1> QED
  BY <1>1, <1>3, <1>8, <1>9, <1>12

(* They still add up when the rows with a total keep it, their size and    *)
(* their date, and no other row gets one.                                  *)
LEMMA KeptAddUp ==
    ASSUME NEW r, NEW q, Table(r), Table(q), AddUp(r), WithTotal(q) = WithTotal(r),
           \A t \in WithTotal(r) : /\ q[t].cum = r[t].cum
                                   /\ q[t].size = r[t].size /\ q[t].at = r[t].at
    PROVE  AddUp(q)
<1> DEFINE Part(t) == {s \in WithTotal(r) : NotAfter(r, s, t)}
<1>1. SUFFICES ASSUME NEW t \in WithTotal(q)
               PROVE  q[t].cum = SizeOf(Restrict(q, {s \in WithTotal(q) : NotAfter(q, s, t)}))
  BY DEF AddUp
<1>2. {s \in WithTotal(q) : NotAfter(q, s, t)} = Part(t)
  BY DEF NotAfter
<1>3. q[t].cum = r[t].cum /\ r[t].cum = SizeOf(Restrict(r, Part(t)))
  BY DEF AddUp
<1>4. Part(t) \in SUBSET DOMAIN r /\ Part(t) \in SUBSET DOMAIN q /\ Part(t) \subseteq WithTotal(r)
  BY DEF WithTotal
<1> HIDE DEF Part
<1>5. /\ SizeOf(Restrict(q, Part(t))) = Sum(SizesOf(q), Part(t))
      /\ SizeOf(Restrict(r, Part(t))) = Sum(SizesOf(r), Part(t))
  BY <1>4, PartSize
<1>6. Summable(SizesOf(r), Part(t))
  BY <1>4, TableSums
<1>7. \A s \in Part(t) : SizesOf(q)[s] = SizesOf(r)[s]
  BY <1>4 DEF SizesOf
<1>8. Sum(SizesOf(q), Part(t)) = Sum(SizesOf(r), Part(t))
  BY <1>6, <1>7, SumSame
<1> QED
  BY <1>2, <1>3, <1>5, <1>8

(* What the steps do to the table.                                         *)
Tabled == Table(rows) /\ (account = "live" => AddUp(rows))

(* The rows that stay keep their size and, but for an edit, their version. *)
SizesStay == \A t \in Present \cap Present' : rows'[t].size = rows[t].size
VersStay == \A t \in Present \cap Present' : rows'[t].ver = rows[t].ver

(* Only these steps change the rows.                                       *)
LEMMA RowSteps ==
    ASSUME [Next]_vars
    PROVE  \/ UNCHANGED <<rows, account>>
           \/ GenerateTrack
           \/ \E p \in Workers : \/ StoreTrack(p) \/ CommitEdit(p) \/ Wipe(p)
                                 \/ Erase(p)
                                 \/ \E t \in Present : DeleteTrack(p, t)
<1>1. ASSUME NEW p \in Workers, Begin(p), ~\E t \in Present : DeleteTrack(p, t)
      PROVE  UNCHANGED <<rows, account>>
  BY <1>1 DEF Begin, StartUpload, StartRemote, StartDirect, StartEdit,
              StartRepair, StartCleanup, StartDeleteMe, data
<1>2. ASSUME NEW p \in Workers, Continue(p), ~StoreTrack(p), ~CommitEdit(p),
             ~Wipe(p), ~Erase(p)
      PROVE  UNCHANGED <<rows, account>>
  BY <1>2 DEF Continue, CheckUpload, CheckImport, PutObject, PutFails, BumpRead,
              BumpWrite, Purge, Cascade, data
<1>3. ASSUME (\E p \in Workers : Interrupt(p)) \/ StartWalk \/ ReadPage \/ DropWalk
             \/ UNCHANGED vars
      PROVE  UNCHANGED <<rows, account>>
  BY <1>3 DEF Interrupt, StartWalk, ReadPage, DropWalk, vars, data
<1> QED
  BY <1>1, <1>2, <1>3 DEF Next

(* A row with total 0 is added; it counts in no total.                     *)
LEMMA RowJoins ==
    ASSUME Table(rows), NEW x \in Nat, x \notin Present,
           NEW size \in Sizes, NEW at \in Times,
           NEW r, r = [t \in Present \cup {x} |->
                         IF t = x THEN [size |-> size, at |-> at, cum |-> 0, ver |-> 0]
                         ELSE rows[t]]
    PROVE  /\ Table(r) /\ DOMAIN r = Present \cup {x}
           /\ r[x].size = size /\ r[x].ver = 0
           /\ \A t \in Present : r[t] = rows[t]
           /\ AddUp(rows) => AddUp(r)
<1>1. /\ DOMAIN r = Present \cup {x}
      /\ r[x] = [size |-> size, at |-> at, cum |-> 0, ver |-> 0]
      /\ \A t \in Present : r[t] = rows[t]
  OBVIOUS
<1>2. r[x] \in Row /\ r[x].cum = 0 /\ r[x].size = size /\ r[x].ver = 0
  BY <1>1 DEF Row
<1>3. IsFiniteSet(Present \cup {x})
  BY FS_AddElement DEF Table, Present
<1>4. Table(r)
  BY <1>1, <1>2, <1>3 DEF Table, Present
<1>5. WithTotal(r) = WithTotal(rows)
  BY <1>1, <1>2 DEF WithTotal, Present
<1>6. \A t \in WithTotal(rows) : r[t] = rows[t]
  BY <1>1 DEF WithTotal, Present
<1>7. AddUp(rows) => AddUp(r)
  BY <1>4, <1>5, <1>6, KeptAddUp
<1> QED
  BY <1>1, <1>2, <1>4, <1>7

(* A track is stored.                                                      *)
LEMMA StoreTable ==
    ASSUME LibInv, Tabled, NEW p \in Workers, StoreTrack(p)
    PROVE  /\ Tabled' /\ SizesStay /\ VersStay
           /\ task[p].track \notin Present
           /\ Present' = Present \cup {task[p].track}
           /\ rows'[task[p].track].size = task[p].size
           /\ rows'[task[p].track].ver = 0
<1>1. /\ At(p, "cover") /\ task[p].track \notin Present
      /\ task[p].track \in Nat /\ task[p].size \in Sizes
  BY TaskFields DEF StoreTrack, At, Storing, LibInv, FreshTracks
<1>2. PICK at \in Times :
          rows' = Rebuild([t \in Present \cup {task[p].track} |->
                     IF t = task[p].track
                     THEN [size |-> task[p].size, at |-> at, cum |-> 0,
                           ver |-> 0]
                     ELSE rows[t]])
  BY DEF StoreTrack
<1> DEFINE r == [t \in Present \cup {task[p].track} |->
                     IF t = task[p].track
                     THEN [size |-> task[p].size, at |-> at, cum |-> 0,
                           ver |-> 0]
                     ELSE rows[t]]
<1>3. /\ Table(r) /\ DOMAIN r = Present \cup {task[p].track}
      /\ r[task[p].track].size = task[p].size /\ r[task[p].track].ver = 0
      /\ \A t \in Present : r[t] = rows[t]
  BY <1>1, RowJoins DEF Tabled
<1>4. rows' = Rebuild(r)
  BY <1>2
<1> HIDE DEF r
<1>5. /\ Table(rows') /\ AddUp(rows') /\ DOMAIN rows' = DOMAIN r
      /\ \A t \in DOMAIN r : rows'[t].size = r[t].size /\ rows'[t].ver = r[t].ver
  BY <1>3, <1>4, RebuildTable, RebuiltAddUp
<1> QED
  BY <1>1, <1>3, <1>5 DEF Tabled, SizesStay, VersStay, Present

(* A generated track joins with total 0.                                   *)
LEMMA GenerateTable ==
    ASSUME LibInv, Tabled, GenerateTrack
    PROVE  /\ Tabled' /\ SizesStay /\ VersStay
           /\ drawn + 1 \notin Present
           /\ Present' = Present \cup {drawn + 1}
           /\ rows'[drawn + 1].ver = 0
<1>1. drawn + 1 \in Nat /\ drawn + 1 \notin Present
  BY DEF LibInv, LibShape
<1>2. PICK size \in Sizes, at \in Times :
          rows' = [t \in Present \cup {drawn + 1} |->
                     IF t = drawn + 1
                     THEN [size |-> size, at |-> at, cum |-> 0, ver |-> 0]
                     ELSE rows[t]]
  BY DEF GenerateTrack
<1>3. /\ Table(rows') /\ DOMAIN rows' = Present \cup {drawn + 1}
      /\ rows'[drawn + 1].ver = 0
      /\ \A t \in Present : rows'[t] = rows[t]
      /\ AddUp(rows) => AddUp(rows')
  BY <1>1, <1>2, RowJoins DEF Tabled
<1>4. account' = account
  BY DEF GenerateTrack
<1> QED
  BY <1>1, <1>3, <1>4 DEF Tabled, SizesStay, VersStay, Present

(* A track is deleted and the totals are rebuilt; or the account goes, and *)
(* its totals with it.                                                     *)
LEMMA RemoveTable ==
    ASSUME LibInv, Tabled, NEW p \in Workers,
           (\E t \in Present : DeleteTrack(p, t)) \/ Erase(p) \/ Wipe(p)
    PROVE  Tabled' /\ SizesStay /\ VersStay /\ Present' \subseteq Present
<1>1. ASSUME NEW S \in SUBSET Present
      PROVE  /\ Table(Restrict(rows, S)) /\ DOMAIN Restrict(rows, S) = S
             /\ \A t \in S : Restrict(rows, S)[t] = rows[t]
  <2>1. DOMAIN Restrict(rows, S) = S /\ \A t \in S : Restrict(rows, S)[t] = rows[t]
    BY DEF Restrict
  <2>2. IsFiniteSet(S)
    BY FS_Subset DEF Tabled, Table, Present
  <2> QED
    BY <2>1, <2>2 DEF Tabled, Table, Present
<1>2. CASE \E t \in Present : DeleteTrack(p, t)
  <2>1. PICK t \in Present : rows' = Rebuild(Restrict(rows, Present \ {t}))
    BY <1>2 DEF DeleteTrack
  <2> DEFINE r == Restrict(rows, Present \ {t})
  <2>2. /\ Table(r) /\ DOMAIN r = Present \ {t}
        /\ \A s \in Present \ {t} : r[s] = rows[s]
    BY <1>1
  <2> HIDE DEF r
  <2>3. /\ Table(rows') /\ AddUp(rows') /\ DOMAIN rows' = DOMAIN r
        /\ \A s \in DOMAIN r : rows'[s].size = r[s].size /\ rows'[s].ver = r[s].ver
    BY <2>1, <2>2, RebuildTable, RebuiltAddUp DEF r
  <2> QED
    BY <2>2, <2>3 DEF Tabled, SizesStay, VersStay, Present
<1>3. CASE Erase(p)
  <2> DEFINE S == Present \ task[p].ids
  <2>1. rows' = Restrict(rows, S) /\ account' = "gone" /\ S \in SUBSET Present
    BY <1>3 DEF Erase
  <2> HIDE DEF S
  <2>2. Table(rows') /\ DOMAIN rows' = S /\ \A t \in S : rows'[t] = rows[t]
    BY <1>1, <2>1
  <2> QED
    BY <2>1, <2>2 DEF Tabled, SizesStay, VersStay, Present
<1>4. CASE Wipe(p)
  <2>1. DOMAIN rows' = {}
    BY <1>4 DEF Wipe
  <2>2. Table(rows') /\ AddUp(rows')
    BY <2>1, FS_EmptySet DEF Table, AddUp, WithTotal
  <2> QED
    BY <2>1, <2>2 DEF Tabled, SizesStay, VersStay, Present
<1> QED
  BY <1>2, <1>3, <1>4

(* An edit counts the versions on, and leaves sizes and totals alone.      *)
LEMMA EditTable ==
    ASSUME LibInv, Tabled, NEW p \in Workers, CommitEdit(p)
    PROVE  /\ Tabled' /\ SizesStay /\ Present' = Present
           /\ \/ UNCHANGED rows
              \/ /\ Goto(p, [at |-> "bumpRead"]) /\ At(p, "edit")
                 /\ \A t \in Present : rows'[t].ver <= rows[t].ver + 1
<1>1. CASE UNCHANGED rows
  BY <1>1 DEF CommitEdit, Tabled, SizesStay, Present
<1>2. CASE /\ task[p].track \in Present
           /\ rows' = [rows EXCEPT ![task[p].track].ver = @ + 1]
           /\ Goto(p, [at |-> "bumpRead"])
  <2>1. \A t \in Present : rows[t] \in Row
    BY DEF Tabled, Table, Present
  <2>2. /\ DOMAIN rows' = Present
        /\ \A t \in Present : /\ rows'[t] \in Row
                              /\ rows'[t].size = rows[t].size
                              /\ rows'[t].at = rows[t].at
                              /\ rows'[t].cum = rows[t].cum
                              /\ rows'[t].ver <= rows[t].ver + 1
    BY <1>2, <2>1 DEF Row, Present
  <2>3. Table(rows')
    BY <2>2 DEF Tabled, Table, Present
  <2>4. WithTotal(rows') = WithTotal(rows)
    BY <2>2 DEF WithTotal, Present
  <2>5. AddUp(rows) => AddUp(rows')
    BY <2>2, <2>3, <2>4, KeptAddUp DEF Tabled, WithTotal, Present
  <2>6. account' = account /\ At(p, "edit")
    BY DEF CommitEdit
  <2> QED
    BY <1>2, <2>2, <2>3, <2>5, <2>6 DEF Tabled, SizesStay, Present
<1> QED
  BY <1>1, <1>2 DEF CommitEdit

(* Every step keeps the table, its totals, and the sizes.                  *)
LEMMA StepsTable ==
    ASSUME LibInv, Tabled, [Next]_vars
    PROVE  Tabled' /\ SizesStay
<1>1. CASE UNCHANGED <<rows, account>>
  BY <1>1 DEF Tabled, SizesStay, Present
<1> QED
  BY <1>1, RowSteps, GenerateTable, StoreTable, RemoveTable, EditTable

(* The invariant of the table: at every commit the rows of a live account  *)
(* have their columns, and the totals that _rebuild_cumulative_bytes left  *)
(* in cumulative_bytes add up.                                             *)
THEOREM TableInvariant == Spec => []Tabled
<1>1. Init => Tabled
  BY FS_EmptySet DEF Init, Tabled, Table, AddUp, WithTotal
<1>2. LibInv /\ Tabled /\ [Next]_vars => Tabled'
  BY StepsTable
<1> QED
  BY <1>1, <1>2, LibInvariant, PTL DEF Spec

(* The cumulative_bytes of each track that has one is the sum of the sizes *)
(* of the tracks up to it that have one, in the order of (created_at, id), *)
(* whatever uploads, deletions and generated tracks (which have none) of   *)
(* several processes interleave (api/tracks.py, api/admin.py): what        *)
(* freezes tracks beyond the quota reads no total that is out of date.     *)
THEOREM TotalsCorrect == Spec => []TotalsAddUp
<1>1. Tabled => TotalsAddUp
  BY DEF Tabled, AddUp, WithTotal, TotalsAddUp, Present
<1> QED
  BY <1>1, TableInvariant, PTL

-----------------------------------------------------------------------------
(* The quota.                                                              *)

(* A row is new when a task stored it, or SoundSlop did under a new id.    *)
LEMMA NewRows ==
    ASSUME LibInv, Tabled, [Next]_vars, NEW t \in Present' \ Present
    PROVE  \/ t = drawn + 1
           \/ \E p \in Workers :
                 /\ At(p, "cover") /\ t = task[p].track
                 /\ Present' = Present \cup {t} /\ rows'[t].size = task[p].size
<1>1. CASE GenerateTrack
  BY <1>1, GenerateTable
<1>2. CASE \E p \in Workers : StoreTrack(p)
  <2>1. PICK p \in Workers : StoreTrack(p)
    BY <1>2
  <2>2. At(p, "cover")
    BY <2>1 DEF StoreTrack
  <2> QED
    BY <2>1, <2>2, StoreTable
<1>3. CASE UNCHANGED rows
  BY <1>3 DEF Present
<1> QED
  BY <1>1, <1>2, <1>3, RowSteps, RemoveTable, EditTable

(* A task that holds what it counted; and how it came to it, and to the    *)
(* track it stores.                                                        *)
Holding(p) == task[p].at \in {"body", "put", "cover"}
KeepsCount(p) == Holding(p) /\ task'[p].counted = task[p].counted
TakesCount(p) == task'[p].counted = Counted /\ UNCHANGED rows
KeepsTrack(p) == /\ Storing(p) /\ KeepsCount(p)
                 /\ task'[p].track = task[p].track /\ task'[p].size = task[p].size
TakesTrack(p) == /\ drawn' = drawn + 1 /\ task'[p].track = drawn + 1
                 /\ Usage(task'[p].counted) + task'[p].size <= Limit

(* A task that holds a count has kept it or has just counted the rows, and *)
(* one that stores a track has kept it or has just drawn it, having found  *)
(* room for it.                                                            *)
LEMMA TakesAndKeeps ==
    ASSUME LibInv, [Next]_vars, NEW p \in Workers
    PROVE  /\ Holding(p)' => KeepsCount(p) \/ TakesCount(p)
           /\ Storing(p)' => KeepsTrack(p) \/ TakesTrack(p)
           /\ drawn' \in Nat /\ drawn <= drawn'
<1> USE DEF At
<1>1. LibShape /\ DOMAIN task = Workers /\ drawn \in Nat
  BY DEF LibInv, LibShape
<1>2. CASE UNCHANGED task /\ drawn' \in Nat /\ drawn <= drawn'
  BY <1>2 DEF Holding, Storing, KeepsCount, KeepsTrack
<1>3. ASSUME NEW q \in Workers, NEW k, Goto(q, k), k.at \notin {"body", "put", "cover"},
             UNCHANGED drawn
      PROVE  /\ Holding(p)' => KeepsCount(p) \/ TakesCount(p)
             /\ Storing(p)' => KeepsTrack(p) \/ TakesTrack(p)
             /\ drawn' \in Nat /\ drawn <= drawn'
  BY <1>1, <1>3 DEF Goto, Holding, Storing, KeepsCount, KeepsTrack
<1>4. ASSUME NEW q \in Workers, Begin(q)
      PROVE  /\ Holding(p)' => KeepsCount(p) \/ TakesCount(p)
             /\ Storing(p)' => KeepsTrack(p) \/ TakesTrack(p)
             /\ drawn' \in Nat /\ drawn <= drawn'
  <2>1. CASE StartUpload(q)
    BY <1>1, <2>1 DEF StartUpload, Start, Goto, Holding, Storing, KeepsCount, TakesCount,
                      KeepsTrack, TakesTrack, data
  <2>2. CASE StartRemote(q) \/ StartDirect(q)
    BY <1>3, <2>2 DEF StartRemote, StartDirect, Start, data
  <2>3. CASE \E t \in Present : DeleteTrack(q, t)
    BY <1>3, <2>3 DEF DeleteTrack, Start
  <2>4. CASE \E t \in Present : StartEdit(q, t)
    BY <1>3, <2>4 DEF StartEdit, Start, data
  <2>5. CASE \E t \in Present : StartRepair(q, t)
    BY <1>3, <2>5 DEF StartRepair, Start, data, Idle
  <2>6. CASE \E eraseAccount \in BOOLEAN : StartCleanup(q, eraseAccount)
    <3>1. PICK e \in BOOLEAN : StartCleanup(q, e)
      BY <2>6
    <3> DEFINE last == [at |-> IF e THEN "cascade" ELSE "idle"]
               k == IF Present = {} THEN last
                    ELSE [at |-> "wipe", ids |-> Present, next |-> last]
    <3>2. Goto(q, k) /\ UNCHANGED drawn
      BY <3>1 DEF StartCleanup, Start
    <3>3. k.at \notin {"body", "put", "cover"}
      OBVIOUS
    <3> HIDE DEF k
    <3> QED
      BY <1>3, <3>2, <3>3
  <2>7. CASE StartDeleteMe(q)
    BY <1>3, <2>7 DEF StartDeleteMe, Start, data
  <2> QED
    BY <1>4, <2>1, <2>2, <2>3, <2>4, <2>5, <2>6, <2>7 DEF Begin
<1>5. ASSUME NEW q \in Workers, NEW counted, NEW size, UNCHANGED rows,
             \/ Admit(q, counted, size) \/ Refuse(q, counted, size),
             counted = Counted \/ (Holding(q) /\ counted = task[q].counted)
      PROVE  /\ Holding(p)' => KeepsCount(p) \/ TakesCount(p)
             /\ Storing(p)' => KeepsTrack(p) \/ TakesTrack(p)
             /\ drawn' \in Nat /\ drawn <= drawn'
  <2>1. CASE Admit(q, counted, size)
    BY <1>1, <1>5, <2>1 DEF Admit, Goto, Holding, Storing, KeepsCount, TakesCount,
                            KeepsTrack, TakesTrack
  <2>2. CASE Refuse(q, counted, size)
    BY <1>3, <2>2 DEF Refuse, Idle
  <2> QED
    BY <1>5, <2>1, <2>2
<1>6. ASSUME NEW q \in Workers, Continue(q)
      PROVE  /\ Holding(p)' => KeepsCount(p) \/ TakesCount(p)
             /\ Storing(p)' => KeepsTrack(p) \/ TakesTrack(p)
             /\ drawn' \in Nat /\ drawn <= drawn'
  <2>1. CASE CheckUpload(q)
    <3>1. PICK size \in Sizes : \/ Admit(q, task[q].counted, size)
                                \/ Refuse(q, task[q].counted, size)
      BY <2>1 DEF CheckUpload
    <3> QED
      BY <1>5, <2>1, <3>1 DEF CheckUpload, Holding
  <2>2. CASE CheckImport(q)
    <3>1. CASE Goto(q, Idle) /\ UNCHANGED drawn
      BY <1>3, <3>1 DEF Idle
    <3>2. CASE \E size \in Sizes : Admit(q, Counted, size) \/ Refuse(q, Counted, size)
      BY <1>5, <2>2, <3>2 DEF CheckImport
    <3> QED
      BY <2>2, <3>1, <3>2 DEF CheckImport
  <2>3. CASE PutObject(q)
    <3>1. /\ task[q] \in [at : {"put", "cover"}, track : Nat, size : Sizes, counted : Counts]
          /\ At(q, "put") /\ UNCHANGED drawn
          /\ task' = [task EXCEPT ![q] = [task[q] EXCEPT !.at = "cover"]]
      BY <1>1, <2>3, TaskFields DEF PutObject, Goto, Storing
    <3>2. CASE p = q
      BY <1>1, <3>1, <3>2 DEF Holding, Storing, KeepsCount, KeepsTrack
    <3>3. CASE p # q
      BY <1>1, <3>1, <3>3 DEF Holding, Storing, KeepsCount, KeepsTrack
    <3> QED
      BY <3>2, <3>3
  <2>4. CASE PutFails(q) \/ Purge(q) \/ CommitEdit(q) \/ Wipe(q) \/ Cascade(q) \/ Erase(q)
    BY <1>3, <2>4 DEF PutFails, Purge, CommitEdit, Wipe, Cascade, Erase, Idle, data
  <2>5. CASE StoreTrack(q)
    BY <1>3, <2>5 DEF StoreTrack, Idle
  <2>6. CASE BumpRead(q)
    BY <1>3, <2>6 DEF BumpRead, Idle, data
  <2>7. CASE BumpWrite(q)
    <3>1. task[q] \in [at : {"bumpWrite"}, rev : Nat, next : After]
      BY <1>1, <2>7, TaskFields DEF BumpWrite
    <3>2. task[q].next.at \notin {"body", "put", "cover"}
      BY <3>1 DEF After, Idle
    <3>3. (Goto(q, Idle) \/ Goto(q, task[q].next)) /\ UNCHANGED drawn
      BY <2>7 DEF BumpWrite, data
    <3> QED
      BY <1>3, <3>2, <3>3 DEF Idle
  <2> QED
    BY <1>6, <2>1, <2>2, <2>3, <2>4, <2>5, <2>6, <2>7 DEF Continue
<1>7. ASSUME \E q \in Workers : Interrupt(q)
      PROVE  /\ Holding(p)' => KeepsCount(p) \/ TakesCount(p)
             /\ Storing(p)' => KeepsTrack(p) \/ TakesTrack(p)
             /\ drawn' \in Nat /\ drawn <= drawn'
  BY <1>3, <1>7 DEF Interrupt, Idle, data
<1>8. CASE GenerateTrack \/ StartWalk \/ ReadPage \/ DropWalk \/ UNCHANGED vars
  BY <1>1, <1>2, <1>8 DEF GenerateTrack, StartWalk, ReadPage, DropWalk, vars, data
<1> QED
  BY <1>4, <1>6, <1>7, <1>8 DEF Next

(* What a task counted are tracks that were there, with the sizes they     *)
(* have as long as they stay, and none that is being stored; and the file  *)
(* that it stores fits beside them.                                        *)
QuotaInv ==
    \A p \in Workers : Holding(p) =>
        /\ IsFiniteSet(task[p].counted)
        /\ \A c \in task[p].counted :
              /\ c.id \in 1..drawn
              /\ c.id \in Present => rows[c.id].size = c.size
              /\ \A q \in Workers : Storing(q) => task[q].track # c.id
        /\ Storing(p) => Usage(task[p].counted) + task[p].size <= Limit

(* Every step keeps it: rows keep their sizes, and an id is drawn once.    *)
LEMMA QuotaKeeps ==
    ASSUME LibInv, Tabled, QuotaInv, [Next]_vars
    PROVE  QuotaInv'
<1>1. SUFFICES ASSUME NEW p \in Workers, Holding(p)'
      PROVE  /\ IsFiniteSet(task'[p].counted)
             /\ \A c \in task'[p].counted :
                   /\ c.id \in 1..drawn'
                   /\ c.id \in Present' => rows'[c.id].size = c.size
                   /\ \A q \in Workers : Storing(q)' => task'[q].track # c.id
             /\ Storing(p)' => Usage(task'[p].counted) + task'[p].size <= Limit
  BY DEF QuotaInv
<1>2. drawn \in Nat /\ drawn' \in Nat /\ drawn <= drawn' /\ Present \subseteq 1..drawn
  BY TakesAndKeeps DEF LibInv, LibShape
<1>3. CASE KeepsCount(p)
  <2>1. IsFiniteSet(task'[p].counted)
    BY <1>3 DEF QuotaInv, KeepsCount
  <2>2. ASSUME NEW c \in task'[p].counted
        PROVE  /\ c.id \in 1..drawn'
               /\ c.id \in Present' => rows'[c.id].size = c.size
               /\ \A q \in Workers : Storing(q)' => task'[q].track # c.id
    <3>1. /\ c.id \in 1..drawn
          /\ c.id \in Present => rows[c.id].size = c.size
          /\ \A q \in Workers : Storing(q) => task[q].track # c.id
      BY <1>3, <2>2 DEF QuotaInv, KeepsCount
    <3>2. c.id \in 1..drawn' /\ c.id # drawn + 1
      BY <1>2, <3>1
    <3>3. ASSUME c.id \in Present' PROVE c.id \in Present
      BY <3>1, <3>2, <3>3, NewRows DEF Storing, At
    <3>4. c.id \in Present' => rows'[c.id].size = c.size
      BY <3>1, <3>3, StepsTable DEF SizesStay
    <3>5. ASSUME NEW q \in Workers, Storing(q)' PROVE task'[q].track # c.id
      BY <3>1, <3>2, <3>5, TakesAndKeeps DEF KeepsTrack, TakesTrack
    <3> QED
      BY <3>2, <3>4, <3>5
  <2>3. ASSUME Storing(p)' PROVE Usage(task'[p].counted) + task'[p].size <= Limit
    <3>1. CASE KeepsTrack(p)
      BY <3>1 DEF KeepsTrack, KeepsCount, QuotaInv
    <3> QED
      BY <2>3, <3>1, TakesAndKeeps DEF TakesTrack
  <2> QED
    BY <2>1, <2>2, <2>3
<1>4. CASE TakesCount(p) /\ ~KeepsCount(p)
  <2>1. IsFiniteSet(task'[p].counted)
    <3>1. IsFiniteSet(Present)
      BY DEF Tabled, Table, Present
    <3>2. IsFiniteSet(Counted)
      <4> DEFINE f == [t \in Present |-> [id |-> t, size |-> rows[t].size]]
      <4>1. Counted = {f[t] : t \in Present}
        BY DEF Counted
      <4>2. f \in Surjection(Present, Counted)
        <5>1. f \in [Present -> Counted]
          BY DEF Counted
        <5>2. \A c \in Counted : \E t \in Present : f[t] = c
          BY DEF Counted
        <5> QED
          BY <5>1, <5>2 DEF Surjection
      <4> QED
        BY <3>1, <4>2, FS_Surjection
    <3> QED
      BY <1>4, <3>2 DEF TakesCount
  <2>2. ASSUME NEW c \in task'[p].counted
        PROVE  /\ c.id \in 1..drawn'
               /\ c.id \in Present' => rows'[c.id].size = c.size
               /\ \A q \in Workers : Storing(q)' => task'[q].track # c.id
    <3>1. c.id \in Present /\ c.size = rows[c.id].size
      BY <1>4, <2>2 DEF TakesCount, Counted
    <3>2. c.id \in 1..drawn' /\ c.id # drawn + 1
      <4>1. c.id \in 1..drawn
        BY <1>2, <3>1, Zenon
      <4> QED
        BY <1>2, <4>1
    <3>3. ASSUME NEW q \in Workers, Storing(q)' PROVE task'[q].track # c.id
      <4>1. Storing(q) => task[q].track # c.id
        BY <3>1 DEF LibInv, FreshTracks
      <4> QED
        BY <3>2, <3>3, <4>1, TakesAndKeeps DEF KeepsTrack, TakesTrack
    <3> QED
      BY <1>4, <3>1, <3>2, <3>3 DEF TakesCount
  <2>3. Storing(p)' => Usage(task'[p].counted) + task'[p].size <= Limit
    BY <1>4, TakesAndKeeps DEF TakesTrack, KeepsTrack
  <2> QED
    BY <2>1, <2>2, <2>3
<1> QED
  BY <1>1, <1>3, <1>4, TakesAndKeeps

(* If every track was counted, the new one fits beside all of them.        *)
LEMMA CountedFits ==
    ASSUME LibInv, Tabled, QuotaInv, [Next]_vars, NEW p \in Workers, At(p, "cover"),
           task[p].track \in Present', \A t \in Present : \E c \in task[p].counted : c.id = t
    PROVE  SizeOf(rows') <= Limit
<1> DEFINE x == task[p].track
           U == task[p].counted
<1>1. /\ LibShape /\ x \in 1..drawn /\ x \notin Present
      /\ task[p].size \in Sizes /\ U \in Counts
      /\ \A q \in Workers \ {p} : Storing(q) => task[q].track # x
  BY TaskFields DEF LibInv, FreshTracks, Storing, At
<1>2. Present' = Present \cup {x} /\ rows'[x].size = task[p].size
  <2>1. x # drawn + 1
    BY <1>1 DEF LibShape
  <2>2. PICK q \in Workers : /\ At(q, "cover") /\ x = task[q].track
                             /\ Present' = Present \cup {x}
                             /\ rows'[x].size = task[q].size
    BY <1>1, <2>1, NewRows
  <2>3. q = p
    BY <1>1, <2>2 DEF Storing, At
  <2> QED
    BY <2>2, <2>3
<1>3. IsFiniteSet(U) /\ Usage(U) + task[p].size <= Limit
      /\ \A c \in U : c.id \in Present => rows[c.id].size = c.size
  BY DEF QuotaInv, Holding, Storing, At
<1>4. Table(rows') /\ Table(rows) /\ \A t \in Present : rows'[t].size = rows[t].size
  BY <1>2, StepsTable DEF Tabled, SizesStay
<1> DEFINE f == SizesOf(rows')
           e == CountedSizes(U)
           m == [t \in Present |-> CHOOSE c \in U : c.id = t]
<1> HIDE DEF x, U
<1>5. Summable(f, Present') /\ Summable(f, Present)
  BY <1>2, <1>4, TableSums DEF Present
<1>6. \A c \in U : e[c] = c.size /\ c.size \in Nat
  BY <1>1, LibraryAssumption DEF CountedSizes, Counts
<1>7. Summable(e, U)
  BY <1>3, <1>6 DEF Summable
<1>8. \A t \in Present : m[t] \in U /\ m[t].id = t
  BY DEF U
<1>9. \A t \in Present : f[t] = rows[t].size
  BY <1>2, <1>4 DEF SizesOf, Present
<1>10. f[x] = task[p].size
  BY <1>2 DEF SizesOf, Present
<1> HIDE DEF f, e, m
<1>11. \A t \in Present : m[t] \in U /\ e[m[t]] = f[t]
  BY <1>3, <1>6, <1>8, <1>9
<1>12. \A s, t \in Present : m[s] = m[t] => s = t
  BY <1>8
<1>13. Sum(f, Present) <= Sum(e, U)
  BY <1>5, <1>7, <1>11, <1>12, SumEmbeds
<1>14. Sum(f, Present') = f[x] + Sum(f, Present)
  <2>1. x \in Present' /\ Present' \ {x} = Present
    BY <1>1, <1>2
  <2> QED
    BY <1>5, <2>1, SumFacts
<1>15. SizeOf(rows') = Sum(f, Present')
  BY <1>5, SizeSums DEF f, Present
<1>16. Usage(U) = Sum(e, U)
  BY <1>7, UsageSums DEF e
<1>17. Sum(f, Present) \in Nat /\ Sum(e, U) \in Nat /\ task[p].size \in Nat /\ Limit \in Nat
  BY <1>1, <1>5, <1>7, SumFacts, LibraryAssumption
<1> QED
  BY <1>3, <1>10, <1>13, <1>14, <1>15, <1>16, <1>17

(* What a request counted before it awaited the body or S3 stays true of   *)
(* the rows it has seen.                                                   *)
THEOREM QuotaInvariant == Spec => []QuotaInv
<1>1. Init => QuotaInv
  BY DEF Init, QuotaInv, Holding, Idle
<1>2. LibInv /\ Tabled /\ QuotaInv /\ [Next]_vars => QuotaInv'
  BY QuotaKeeps
<1> QED
  BY <1>1, <1>2, LibInvariant, TableInvariant, PTL DEF Spec

(* An upload or an import (api/tracks.py) takes the account over its limit *)
(* only by tracks that came while it awaited: the check before the await   *)
(* is stale in no other way.                                               *)
THEOREM QuotaKept == Spec => QuotaHonoured
<1> DEFINE Honoured == \A p \in Workers :
                          (/\ At(p, "cover")
                           /\ task[p].track \in DOMAIN rows'
                           /\ SizeOf(rows') > Limit)
                          => \E t \in Present : \A c \in task[p].counted : c.id # t
<1>1. LibInv /\ Tabled /\ QuotaInv /\ [Next]_vars => [Honoured]_vars
  <2>1. ASSUME LibInv, Tabled, QuotaInv, [Next]_vars, NEW p \in Workers,
               At(p, "cover"), task[p].track \in DOMAIN rows', SizeOf(rows') > Limit
        PROVE  \E t \in Present : \A c \in task[p].counted : c.id # t
    <3>1. SizeOf(rows') \in Nat /\ Limit \in Nat
      <4>1. Table(rows')
        BY <2>1, StepsTable DEF Tabled
      <4>2. Summable(SizesOf(rows'), DOMAIN rows')
        BY <4>1, TableSums
      <4> QED
        BY <4>2, SizeSums, SumFacts, LibraryAssumption
    <3>2. ~(SizeOf(rows') <= Limit)
      BY <2>1, <3>1
    <3> QED
      BY <2>1, <3>2, CountedFits DEF Present
  <2> QED
    BY <2>1
<1>2. QuotaHonoured <=> [][Honoured]_vars
  BY DEF QuotaHonoured
<1> HIDE DEF Honoured
<1> QED
  BY <1>1, <1>2, LibInvariant, TableInvariant, QuotaInvariant, PTL DEF Spec

-----------------------------------------------------------------------------
(* The types, and those of the instance.                                   *)

(* The tasks in some stages; among them those that may still announce a    *)
(* change, each of them once.                                              *)
Doing(stages) == {p \in Workers : task[p].at \in stages}
Announcing == {"body", "audio", "put", "cover", "edit", "wipe", "bumpRead", "bumpWrite"}

(* A task that moves enters a set of stages, leaves it, or does neither.   *)
LEMMA DoingMoves ==
    ASSUME LibShape, NEW p \in Workers, NEW k, Goto(p, k), NEW stages,
           IsFiniteSet(Doing(stages))
    PROVE  /\ IsFiniteSet(Doing(stages)')
           /\ Cardinality(Doing(stages)) \in Nat
           /\ Cardinality(Doing(stages)') \in Nat
           /\ Cardinality(Doing(stages)') <= Cardinality(Doing(stages)) + 1
           /\ (k.at \in stages => task[p].at \in stages)
                 => Cardinality(Doing(stages)') <= Cardinality(Doing(stages))
           /\ task[p].at \in stages /\ k.at \notin stages
                 => Cardinality(Doing(stages)') = Cardinality(Doing(stages)) - 1
<1> DEFINE D == Doing(stages)
           E == Doing(stages)'
<1>1. /\ p \in D <=> task[p].at \in stages
      /\ E = IF k.at \in stages THEN D \cup {p} ELSE D \ {p}
  BY DEF Doing, Goto, LibShape
<1>2. IsFiniteSet(D) /\ Cardinality(D) \in Nat
  BY FS_CardinalityType
<1> HIDE DEF D, E
<1>3. CASE k.at \in stages
  <2>1. /\ IsFiniteSet(D \cup {p})
        /\ Cardinality(D \cup {p}) = IF p \in D THEN Cardinality(D) ELSE Cardinality(D) + 1
    BY <1>2, FS_AddElement
  <2>2. /\ IsFiniteSet(E) /\ Cardinality(E) \in Nat
        /\ Cardinality(E) <= Cardinality(D) + 1
        /\ p \in D => Cardinality(E) <= Cardinality(D)
    BY <1>1, <1>2, <1>3, <2>1
  <2> QED
    BY <1>1, <1>2, <1>3, <2>2 DEF D, E
<1>4. CASE k.at \notin stages
  <2>1. /\ IsFiniteSet(D \ {p})
        /\ Cardinality(D \ {p}) = IF p \in D THEN Cardinality(D) - 1 ELSE Cardinality(D)
    BY <1>2, FS_RemoveElement
  <2>2. IsFiniteSet(E) /\ Cardinality(E) \in Nat
    BY <1>1, <1>4, <2>1, FS_CardinalityType
  <2>3. /\ Cardinality(E) <= Cardinality(D) + 1
        /\ Cardinality(E) <= Cardinality(D)
        /\ p \in D => Cardinality(E) = Cardinality(D) - 1
    BY <1>1, <1>2, <1>4, <2>1, <2>2
  <2> QED
    BY <1>1, <1>2, <1>4, <2>2, <2>3 DEF D, E
<1> QED
  BY <1>3, <1>4

(* How a step counts: a request starts, a task moves on, or it announces.  *)
Starts(p, k) == /\ requests < MaxRequests /\ requests' = requests + 1
                /\ Goto(p, k) /\ k.at # "bumpWrite" /\ UNCHANGED revision
MovesOn(p, k) == /\ UNCHANGED <<requests, revision>> /\ Goto(p, k)
                 /\ k.at \in Announcing => task[p].at \in Announcing
                 /\ k.at # "edit"
                 /\ k.at = "bumpWrite" => k.rev = revision
Announces(p, k) == /\ UNCHANGED requests /\ Goto(p, k)
                   /\ At(p, "bumpWrite") /\ k.at \notin Announcing
                   /\ revision' = task[p].rev + 1

(* Each step of the library is one of these, or leaves the counts alone.   *)
LEMMA StepsCount ==
    ASSUME LibInv, [Next]_vars
    PROVE  \/ UNCHANGED <<requests, revision, task>>
           \/ \E p \in Workers : \E k : Starts(p, k) \/ MovesOn(p, k) \/ Announces(p, k)
<1> USE DEF At
<1>1. LibShape
  BY DEF LibInv
<1>2. ASSUME NEW p \in Workers, Begin(p) PROVE \E k : Starts(p, k)
  <2>1. ASSUME NEW k, Start(p, k), k.at # "bumpWrite", UNCHANGED revision
        PROVE  \E l : Starts(p, l)
    BY <2>1 DEF Start, Starts
  <2>2. CASE StartUpload(p)
    BY <2>1, <2>2 DEF StartUpload
  <2>3. CASE StartRemote(p) \/ StartDirect(p)
    BY <2>1, <2>3 DEF StartRemote, StartDirect
  <2>4. CASE \E t \in Present : DeleteTrack(p, t)
    BY <2>1, <2>4 DEF DeleteTrack
  <2>5. CASE \E t \in Present : StartEdit(p, t)
    BY <2>1, <2>5 DEF StartEdit
  <2>6. CASE \E t \in Present : StartRepair(p, t)
    BY <2>1, <2>6 DEF StartRepair, Idle
  <2>7. CASE \E eraseAccount \in BOOLEAN : StartCleanup(p, eraseAccount)
    <3>1. PICK e \in BOOLEAN : StartCleanup(p, e)
      BY <2>7
    <3> DEFINE last == [at |-> IF e THEN "cascade" ELSE "idle"]
               k == IF Present = {} THEN last
                    ELSE [at |-> "wipe", ids |-> Present, next |-> last]
    <3>2. Start(p, k) /\ UNCHANGED revision
      BY <3>1 DEF StartCleanup
    <3>3. k.at # "bumpWrite"
      OBVIOUS
    <3> HIDE DEF k
    <3> QED
      BY <2>1, <3>2, <3>3
  <2>8. CASE StartDeleteMe(p)
    BY <2>1, <2>8 DEF StartDeleteMe
  <2> QED
    BY <1>2, <2>2, <2>3, <2>4, <2>5, <2>6, <2>7, <2>8 DEF Begin
<1>3. ASSUME NEW p \in Workers, NEW k, Goto(p, k), UNCHANGED <<requests, revision>>,
             k.at \in Announcing => task[p].at \in Announcing,
             k.at \notin {"edit", "bumpWrite"}
      PROVE  \E l : MovesOn(p, l)
  BY <1>3 DEF MovesOn
<1>4. Idle.at = "idle"
  BY DEF Idle
<1>5. ASSUME NEW p \in Workers, Continue(p)
      PROVE  \E k : MovesOn(p, k) \/ Announces(p, k)
  <2>1. CASE CheckUpload(p) \/ CheckImport(p)
    <3>1. /\ task[p].at \in Announcing /\ UNCHANGED <<requests, revision>>
      BY <2>1 DEF CheckUpload, CheckImport, Announcing, bounds
    <3>2. \/ Goto(p, Idle)
          \/ \E size \in Sizes, counted \in Counts :
                Goto(p, [at |-> "put", track |-> drawn + 1,
                         size |-> size, counted |-> counted])
      BY <2>1, CheckEffect
    <3> QED
      BY <1>3, <1>4, <3>1, <3>2 DEF Announcing
  <2>2. CASE PutObject(p)
    <3>1. task[p] \in [at : {"put", "cover"}, track : Nat, size : Sizes, counted : Counts]
      BY <1>1, <2>2, TaskFields DEF PutObject, Storing
    <3>2. [task[p] EXCEPT !.at = "cover"].at = "cover" /\ task[p].at \in Announcing
      BY <3>1 DEF Announcing
    <3>3. Goto(p, [task[p] EXCEPT !.at = "cover"]) /\ UNCHANGED <<requests, revision>>
      BY <2>2 DEF PutObject, bounds
    <3> QED
      BY <1>3, <3>2, <3>3
  <2>3. CASE StoreTrack(p)
    BY <1>3, <1>4, <2>3 DEF StoreTrack, Announcing, bounds
  <2>4. CASE PutFails(p) \/ Purge(p) \/ Erase(p)
    BY <1>3, <1>4, <2>4 DEF PutFails, Purge, Erase, Announcing, bounds
  <2>5. CASE CommitEdit(p) \/ Wipe(p)
    BY <1>3, <1>4, <2>5 DEF CommitEdit, Wipe, Announcing, bounds
  <2>6. CASE Cascade(p)
    BY <1>3, <1>4, <2>6 DEF Cascade, Announcing, bounds
  <2>7. CASE BumpRead(p)
    <3> DEFINE k == [at |-> "bumpWrite", rev |-> revision, next |-> AfterBump(task[p])]
    <3>1. CASE account = "live"
      <4>1. Goto(p, k) /\ At(p, "bumpRead") /\ UNCHANGED <<requests, revision>>
        BY <2>7, <3>1 DEF BumpRead, bounds
      <4>2. k.at = "bumpWrite" /\ k.rev = revision
        OBVIOUS
      <4> HIDE DEF k
      <4> QED
        BY <4>1, <4>2 DEF MovesOn, Announcing
    <3>2. CASE account # "live"
      BY <1>3, <1>4, <2>7, <3>2 DEF BumpRead, Announcing, bounds
    <3> QED
      BY <3>1, <3>2
  <2>8. CASE BumpWrite(p)
    <3>1. task[p] \in [at : {"bumpWrite"}, rev : Nat, next : After]
      BY <1>1, <2>8, TaskFields DEF BumpWrite
    <3>2. task[p].next.at \notin Announcing
      BY <3>1 DEF After, Idle, Announcing
    <3>3. CASE account = "live"
      BY <2>8, <3>2, <3>3 DEF BumpWrite, Announces, bounds
    <3>4. CASE account # "live"
      BY <1>3, <1>4, <2>8, <3>4 DEF BumpWrite, Announcing, bounds
    <3> QED
      BY <3>3, <3>4
  <2> QED
    BY <1>5, <2>1, <2>2, <2>3, <2>4, <2>5, <2>6, <2>7, <2>8 DEF Continue
<1>6. ASSUME NEW p \in Workers, Interrupt(p) PROVE \E k : MovesOn(p, k)
  BY <1>3, <1>4, <1>6 DEF Interrupt, Announcing
<1>7. CASE GenerateTrack \/ StartWalk \/ ReadPage \/ DropWalk \/ UNCHANGED vars
  BY <1>7 DEF GenerateTrack, StartWalk, ReadPage, DropWalk, vars, bounds
<1> QED
  BY <1>2, <1>5, <1>6, <1>7 DEF Next

(* What requests can do: a request that is under way has changed the       *)
(* version of a track or the revision at most once.                        *)
LibBounds ==
    /\ requests \in 0..MaxRequests /\ drawn \in 0..MaxTracks
    /\ objects \subseteq 1..drawn
    /\ IsFiniteSet(Doing(Announcing))
    /\ \A t \in Present : rows[t].ver + Cardinality(Doing({"edit"})) <= requests
    /\ revision >= 1
    /\ revision + Cardinality(Doing(Announcing)) <= requests + 1
    /\ \A p \in Workers : At(p, "bumpWrite")
          => task[p].rev + Cardinality(Doing(Announcing)) <= requests + 1

(* Those that edit are among them.                                         *)
LEMMA EditorsAnnounce ==
    ASSUME IsFiniteSet(Doing(Announcing))
    PROVE  /\ IsFiniteSet(Doing({"edit"}))
           /\ Cardinality(Doing({"edit"})) \in Nat
           /\ Cardinality(Doing(Announcing)) \in Nat
           /\ Cardinality(Doing({"edit"})) <= Cardinality(Doing(Announcing))
<1>1. Doing({"edit"}) \in SUBSET Doing(Announcing)
  BY DEF Doing, Announcing
<1> QED
  BY <1>1, FS_Subset, FS_CardinalityType

(* No id too many is drawn, and no object has another.                     *)
LEMMA DrawnBounded ==
    ASSUME LibInv, drawn \in 0..MaxTracks, objects \subseteq 1..drawn, [Next]_vars
    PROVE  drawn' \in 0..MaxTracks /\ objects' \subseteq 1..drawn'
<1>1. drawn \in Nat /\ MaxTracks \in Nat
  BY LibraryAssumption
<1> DEFINE Drawn == \/ UNCHANGED drawn /\ objects' \subseteq 1..drawn
                    \/ /\ drawn < MaxTracks /\ drawn' = drawn + 1
                       /\ objects' \subseteq objects \cup {drawn + 1}
<1>2. SUFFICES Drawn
  <2>1. CASE UNCHANGED drawn
    BY <2>1
  <2>2. CASE drawn < MaxTracks /\ drawn' = drawn + 1
    <3>1. drawn' \in 0..MaxTracks /\ drawn + 1 \in 1..drawn' /\ 1..drawn \subseteq 1..drawn'
      BY <1>1, <2>2
    <3> QED
      BY <2>2, <3>1
  <2> QED
    BY <2>1, <2>2
<1>3. ASSUME NEW p \in Workers, Begin(p) PROVE Drawn
  BY <1>3 DEF Begin, StartUpload, StartRemote, StartDirect, DeleteTrack, StartEdit,
              StartRepair, StartCleanup, StartDeleteMe, data
<1>4. ASSUME NEW p \in Workers, Continue(p) PROVE Drawn
  <2>1. CASE CheckUpload(p) \/ CheckImport(p)
    BY <2>1 DEF CheckUpload, CheckImport, Admit, Refuse
  <2>2. CASE PutObject(p) \/ PutFails(p)
    <3>1. task[p].track \in 1..drawn
      BY <2>2 DEF LibInv, FreshTracks, Storing, PutObject, PutFails, At
    <3> QED
      BY <2>2, <3>1 DEF PutObject, PutFails
  <2>3. CASE Purge(p)
    BY <2>3 DEF Purge
  <2> QED
    BY <1>4, <2>1, <2>2, <2>3
    DEF Continue, StoreTrack, BumpRead, BumpWrite, CommitEdit, Wipe, Cascade, Erase, data
<1>5. CASE GenerateTrack
  BY <1>5 DEF GenerateTrack
<1>6. ASSUME (\E p \in Workers : Interrupt(p)) \/ StartWalk \/ ReadPage \/ DropWalk
             \/ UNCHANGED vars
      PROVE  Drawn
  BY <1>6 DEF Interrupt, StartWalk, ReadPage, DropWalk, vars, data
<1> HIDE DEF Drawn
<1> QED
  BY <1>3, <1>4, <1>5, <1>6 DEF Next

(* The version of a row grows by the edit that is done with.               *)
LEMMA VersBounded ==
    ASSUME LibInv, Tabled, LibBounds, [Next]_vars, IsFiniteSet(Doing(Announcing)'),
           requests' \in Nat, requests <= requests',
           Cardinality(Doing(Announcing)') <= requests',
           Cardinality(Doing({"edit"})') - requests' <= Cardinality(Doing({"edit"})) - requests
    PROVE  \A t \in Present' : rows'[t].ver + Cardinality(Doing({"edit"})') <= requests'
<1> DEFINE n == Cardinality(Doing({"edit"}))
           m == Cardinality(Doing({"edit"})')
<1>1. LibShape /\ IsFiniteSet(Doing({"edit"})) /\ n \in Nat
  BY EditorsAnnounce DEF LibBounds, LibInv
<1>2. m \in Nat /\ m <= requests'
  <2>1. Doing({"edit"})' \in SUBSET Doing(Announcing)'
    BY DEF Doing, Announcing
  <2>2. /\ m \in Nat /\ Cardinality(Doing(Announcing)') \in Nat
        /\ m <= Cardinality(Doing(Announcing)')
    BY <2>1, FS_Subset, FS_CardinalityType
  <2> QED
    BY <2>2
<1>3. requests \in Nat /\ m - requests' <= n - requests
  BY LibraryAssumption DEF LibBounds
<1>4. \A t \in Present : rows[t].ver \in Nat /\ rows[t].ver + n <= requests
  BY DEF Tabled, Table, Row, Present, LibBounds
<1>5. ASSUME VersStay, \A t \in Present' \ Present : rows'[t].ver = 0
      PROVE  \A t \in Present' : rows'[t].ver + m <= requests'
  <2> HIDE DEF n, m
  <2> QED
    BY <1>1, <1>2, <1>3, <1>4, <1>5 DEF VersStay
<1>6. CASE \E p \in Workers : CommitEdit(p)
  <2>1. PICK p \in Workers : CommitEdit(p)
    BY <1>6
  <2>2. CASE UNCHANGED rows
    BY <1>5, <2>2 DEF VersStay, Present
  <2>3. CASE /\ Goto(p, [at |-> "bumpRead"]) /\ At(p, "edit") /\ Present' = Present
             /\ \A t \in Present : rows'[t].ver <= rows[t].ver + 1
    <3>1. m = n - 1
      BY <1>1, <2>3, DoingMoves DEF At
    <3>2. requests' = requests
      BY <2>1 DEF CommitEdit, bounds
    <3>3. Table(rows')
      BY StepsTable DEF Tabled
    <3>4. \A t \in Present' : rows'[t].ver \in Nat
      BY <3>3 DEF Table, Row, Present
    <3> HIDE DEF n, m
    <3>5. ASSUME NEW t \in Present' PROVE rows'[t].ver + m <= requests'
      <4>1. /\ rows[t].ver \in Nat /\ rows[t].ver + n <= requests
            /\ rows'[t].ver \in Nat /\ rows'[t].ver <= rows[t].ver + 1
        BY <1>4, <2>3, <3>4
      <4> QED
        BY <1>1, <1>3, <3>1, <3>2, <4>1
    <3> QED
      BY <3>5 DEF m
  <2> QED
    BY <2>1, <2>2, <2>3, EditTable
<1>7. CASE UNCHANGED rows
  BY <1>5, <1>7 DEF VersStay, Present
<1>8. CASE GenerateTrack \/ \E p \in Workers : StoreTrack(p)
  BY <1>5, <1>8, GenerateTable, StoreTable
<1>9. CASE \E p \in Workers : Erase(p) \/ Wipe(p) \/ \E t \in Present : DeleteTrack(p, t)
  BY <1>5, <1>9, RemoveTable
<1> QED
  BY <1>6, <1>7, <1>8, <1>9, RowSteps

(* Every step keeps revisions, versions and ids below the count of the     *)
(* requests that can raise them.                                           *)
LEMMA BoundsKeep ==
    ASSUME LibInv, Tabled, LibBounds, [Next]_vars
    PROVE  LibBounds'
<1> DEFINE c == Cardinality(Doing(Announcing))
           d == Cardinality(Doing(Announcing)')
           n == Cardinality(Doing({"edit"}))
           m == Cardinality(Doing({"edit"})')
<1>1. LibShape /\ requests \in Nat /\ MaxRequests \in Nat /\ revision \in Nat
  BY LibraryAssumption DEF LibInv, LibShape, LibBounds
<1>2. /\ IsFiniteSet(Doing(Announcing)) /\ IsFiniteSet(Doing({"edit"}))
      /\ c \in Nat /\ n \in Nat
  BY EditorsAnnounce DEF LibBounds
<1>3. /\ revision >= 1 /\ revision + c <= requests + 1
      /\ \A p \in Workers : At(p, "bumpWrite") => task[p].rev + c <= requests + 1
  BY DEF LibBounds
<1>4. \A p \in Workers : At(p, "bumpWrite") => task[p].rev \in Nat
  BY <1>1, TaskFields
<1>5. SUFFICES /\ IsFiniteSet(Doing(Announcing)') /\ d \in Nat
               /\ requests' \in 0..MaxRequests /\ requests <= requests'
               /\ m - requests' <= n - requests
               /\ revision' \in Nat /\ revision' >= 1 /\ revision' + d <= requests' + 1
               /\ \A p \in Workers : At(p, "bumpWrite")'
                     => task'[p].rev + d <= requests' + 1
  <2>1. d <= requests'
    <3> HIDE DEF d
    <3> QED
      BY <1>1, <1>5
  <2>2. \A t \in Present' : rows'[t].ver + m <= requests'
    BY <1>1, <1>5, <2>1, VersBounded
  <2> QED
    BY <1>5, <2>2, DrawnBounded DEF LibBounds, At
<1>6. CASE UNCHANGED <<requests, revision, task>>
  <2>1. Doing(Announcing)' = Doing(Announcing) /\ Doing({"edit"})' = Doing({"edit"})
    BY <1>6 DEF Doing
  <2>2. d = c /\ m = n
    BY <2>1
  <2>3. requests \in 0..MaxRequests
    BY DEF LibBounds
  <2> HIDE DEF c, d, n, m
  <2> QED
    BY <1>1, <1>2, <1>3, <1>6, <2>1, <2>2, <2>3 DEF At
<1>7. ASSUME NEW p \in Workers, NEW k, Starts(p, k) \/ MovesOn(p, k) \/ Announces(p, k)
      PROVE  /\ IsFiniteSet(Doing(Announcing)') /\ d \in Nat
             /\ requests' \in 0..MaxRequests /\ requests <= requests'
             /\ m - requests' <= n - requests
             /\ revision' \in Nat /\ revision' >= 1 /\ revision' + d <= requests' + 1
             /\ \A q \in Workers : At(q, "bumpWrite")'
                   => task'[q].rev + d <= requests' + 1
  <2>1. Goto(p, k)
    BY <1>7 DEF Starts, MovesOn, Announces
  <2>2. /\ IsFiniteSet(Doing(Announcing)') /\ d \in Nat /\ d <= c + 1
        /\ (k.at \in Announcing => task[p].at \in Announcing) => d <= c
        /\ task[p].at \in Announcing /\ k.at \notin Announcing => d = c - 1
    BY <1>1, <1>2, <2>1, DoingMoves
  <2>3. m \in Nat /\ m <= n + 1 /\ (k.at # "edit" => m <= n)
    BY <1>1, <1>2, <2>1, DoingMoves
  <2>4. ASSUME NEW q \in Workers, At(q, "bumpWrite")'
        PROVE  \/ q = p /\ k.at = "bumpWrite" /\ task'[q].rev = k.rev
               \/ q # p /\ At(q, "bumpWrite") /\ task'[q].rev = task[q].rev
    BY <1>1, <2>1, <2>4 DEF Goto, At, LibShape
  <2> HIDE DEF c, d, n, m
  <2>5. requests \in 0..MaxRequests
    BY DEF LibBounds
  <2>6. CASE Starts(p, k)
    <3>1. /\ requests' = requests + 1 /\ requests < MaxRequests /\ revision' = revision
          /\ k.at # "bumpWrite"
      BY <2>6 DEF Starts
    <3>2. \A q \in Workers : At(q, "bumpWrite")' => task'[q].rev + d <= requests' + 1
      BY <1>1, <1>2, <1>3, <1>4, <2>2, <2>4, <3>1
    <3> QED
      BY <1>1, <1>2, <1>3, <2>2, <2>3, <3>1, <3>2
  <2>7. CASE MovesOn(p, k)
    <3>1. /\ requests' = requests /\ revision' = revision /\ d <= c /\ m <= n
          /\ k.at = "bumpWrite" => k.rev = revision
      BY <2>2, <2>3, <2>7 DEF MovesOn
    <3>2. \A q \in Workers : At(q, "bumpWrite")' => task'[q].rev + d <= requests' + 1
      BY <1>1, <1>2, <1>3, <1>4, <2>2, <2>4, <3>1
    <3> QED
      BY <1>1, <1>2, <1>3, <2>2, <2>3, <2>5, <3>1, <3>2
  <2>8. CASE Announces(p, k)
    <3>1. /\ requests' = requests /\ revision' = task[p].rev + 1 /\ d = c - 1 /\ m <= n
          /\ k.at # "bumpWrite" /\ At(p, "bumpWrite")
      BY <2>2, <2>3, <2>8 DEF Announces, Announcing, At
    <3>2. \A q \in Workers : At(q, "bumpWrite")' => task'[q].rev + d <= requests' + 1
      BY <1>1, <1>2, <1>3, <1>4, <2>2, <2>4, <3>1
    <3>3. task[p].rev \in Nat /\ task[p].rev + c <= requests + 1
      BY <1>3, <1>4, <3>1
    <3> QED
      BY <1>1, <1>2, <1>3, <2>2, <2>3, <2>5, <3>1, <3>2, <3>3
  <2> QED
    BY <1>7, <2>6, <2>7, <2>8
<1> QED
  BY <1>6, <1>7, StepsCount

(* Each request bumps the revision once at most, however often the bumps   *)
(* of library_sync.py overwrite each other, and edits a row once.          *)
THEOREM LibBoundsInvariant == Spec => []LibBounds
<1>1. ASSUME Init PROVE LibBounds
  <2>1. Doing(Announcing) = {} /\ Doing({"edit"}) = {}
    BY <1>1 DEF Init, Doing, Announcing, Idle
  <2> QED
    BY <1>1, <2>1, FS_EmptySet, LibraryAssumption
    DEF Init, LibBounds, At, Idle, Present
<1>2. LibInv /\ Tabled /\ LibBounds /\ [Next]_vars => LibBounds'
  BY BoundsKeep
<1> QED
  BY <1>1, <1>2, LibInvariant, TableInvariant, PTL DEF Spec

(* The rows, the objects in S3, the revision and the copies of the clients *)
(* have their types: every total is a number, no revision or version runs  *)
(* ahead of the requests, and no client is ahead of the revision unless a  *)
(* bump has lowered it.                                                    *)
THEOREM LibTypeCorrect == Spec => []LibTypeOK
<1>1. ASSUME LibInv, Tabled, LibBounds PROVE LibTypeOK
  <2>1. Present \subseteq 1..drawn /\ objects \subseteq 1..drawn
    BY <1>1 DEF LibInv, LibShape, LibBounds
  <2>2. /\ requests \in 0..MaxRequests /\ MaxRequests \in Nat
        /\ Cardinality(Doing({"edit"})) \in Nat
        /\ Cardinality(Doing(Announcing)) \in Nat
    BY <1>1, EditorsAnnounce, LibraryAssumption DEF LibBounds
  <2>3. ASSUME NEW t \in Present
        PROVE  rows[t] \in [size : Sizes, at : Times, cum : Nat, ver : 0..MaxRequests]
    <3>1. rows[t] \in Row /\ rows[t].ver + Cardinality(Doing({"edit"})) <= requests
      BY <1>1, <2>3 DEF Tabled, Table, LibBounds, Present
    <3>2. rows[t].ver \in 0..MaxRequests
      BY <2>2, <3>1 DEF Row
    <3> QED
      BY <3>1, <3>2 DEF Row
  <2>4. revision \in 1..(MaxRequests + 1)
    BY <1>1, <2>2 DEF LibBounds, LibInv, LibShape
  <2>5. client.rev \in 0..revision \/ regressed
    BY <1>1 DEF LibInv, LibShape, RevisionsGrow
  <2>6. \A p \in Workers :
           task[p].at \in {"idle", "body", "audio", "put", "cover", "bumpRead",
                           "bumpWrite", "purge", "edit", "wipe", "cascade", "erase"}
    BY <1>1 DEF LibInv, LibShape, TaskStates, Idle
  <2> QED
    BY <1>1, <2>1, <2>2, <2>3, <2>4, <2>5, <2>6 DEF LibTypeOK, LibInv, LibShape, LibBounds
<1> QED
  BY <1>1, LibInvariant, TableInvariant, LibBoundsInvariant, PTL

(* A step of the instance is a step of each component or leaves it alone.  *)
LEMMA StorageSteps ==
    ASSUME [StorageNext]_storageVars
    PROVE  [Next]_vars /\ [StartupNext]_startupVars
BY DEF StorageNext, storageVars

(* What the runs check is a behaviour of each component, so whatever is    *)
(* proved of the library and of the start-up alone holds in the instance.  *)
THEOREM StorageImplementsBoth == StorageSpec => Spec /\ StartupSpec
<1>1. StorageInit => Init /\ StartupInit
  BY DEF StorageInit
<1>2. [StorageNext]_storageVars => [Next]_vars /\ [StartupNext]_startupVars
  BY StorageSteps
<1> QED
  BY <1>1, <1>2, PTL DEF StorageSpec, Spec, StartupSpec

(* The library and the start-up keep to their types in the specification   *)
(* that the runs check, whose steps are those of one of them at a time.    *)
THEOREM StorageTypeCorrect == StorageSpec => []StorageTypeOK
<1>1. LibTypeOK /\ StartupTypeOK => StorageTypeOK
  BY DEF StorageTypeOK
<1> QED
  BY <1>1, StorageImplementsBoth, LibTypeCorrect, StartupTypeCorrect, PTL
=============================================================================
