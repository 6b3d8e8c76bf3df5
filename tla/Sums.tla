--------------------------------- MODULE Sums ---------------------------------
(***************************************************************************)
(* Sums over finite sets - what MapThenSumSet of the community modules does   *)
(* when an element joins the set - and least elements.  The recursion behind *)
(* a sum is over subsets, so the induction is too: a set of counterexamples  *)
(* that is not empty has a smallest member                                   *)
(* (FS_StrictSubsetOrderingWellFounded).                                     *)
(***************************************************************************)
EXTENDS Integers, FiniteSetsExt, FiniteSetTheorems, WellFoundedInduction, TLAPS

Sum(f, S) == MapThenSumSet(LAMBDA x : f[x], S)

-------------------------------------------------------------------------------

Pick(s) == CHOOSE x \in s : TRUE

\* What g says of the whole set s, when it is right about the rest of s.
Added(f, g, s) == IF s = {} THEN 0 ELSE f[Pick(s)] + g[s \ {Pick(s)}]

Adds(f, g, S) == \A s \in SUBSET S : g[s] = Added(f, g, s)

Adder(f, S) == CHOOSE g : g = [s \in SUBSET S |-> Added(f, g, s)]

LEMMA SumIsAdder == ASSUME NEW f, NEW S PROVE Sum(f, S) = Adder(f, S)[S]
BY DEF Sum, MapThenSumSet, MapThenFoldSet, Adder, Added, Pick

\* A set of finite subsets that is not empty has a member with no strict subset
\* in it.
LEMMA SmallestSubset ==
  ASSUME NEW S, IsFiniteSet(S), NEW T \in SUBSET SUBSET S, T # {}
  PROVE  \E s \in T : \A r \in SUBSET s : r # s => r \notin T
<1>1. T \subseteq FiniteSubsetsOf(S)
  BY FS_FiniteSubsetsOfFinite
<1>2. PICK s \in T : \A r \in T : ~ (<<r, s>> \in StrictSubsetOrdering(S))
  BY <1>1, FS_StrictSubsetOrderingWellFounded, WFMin
<1>3. \A r \in SUBSET s : r # s /\ r \in T => <<r, s>> \in StrictSubsetOrdering(S)
  BY DEF StrictSubsetOrdering
<1>4. \A r \in SUBSET s : r # s => r \notin T
  BY <1>2, <1>3
<1>5. QED
  BY <1>4

LEMMA PickIn == ASSUME NEW s, s # {} PROVE Pick(s) \in s
BY DEF Pick

\* Two functions that add up agree.
LEMMA AddersAgree ==
  ASSUME NEW S, IsFiniteSet(S), NEW f, NEW g, NEW h, Adds(f, g, S), Adds(f, h, S)
  PROVE  \A s \in SUBSET S : g[s] = h[s]
<1> DEFINE T == {s \in SUBSET S : g[s] # h[s]}
<1> SUFFICES ASSUME T # {} PROVE FALSE
  OBVIOUS
<1>0. T \in SUBSET SUBSET S
  OBVIOUS
<1>1. PICK s \in T : \A r \in SUBSET s : r # s => r \notin T
  <2> HIDE DEF T
  <2> QED
    BY <1>0, SmallestSubset
<1>2. g[s] = Added(f, g, s) /\ h[s] = Added(f, h, s)
  BY DEF Adds
<1>3. s # {}
  BY <1>2 DEF Added
<1>4. Pick(s) \in s
  BY <1>3, PickIn
<1>5. s \ {Pick(s)} \in SUBSET S /\ s \ {Pick(s)} \notin T
  BY <1>1, <1>4
<1>6. QED
  BY <1>2, <1>5 DEF Added

LEMMA AdderOfPart ==
  ASSUME NEW S, NEW R \in SUBSET S, NEW f, NEW g, Adds(f, g, S)
  PROVE  Adds(f, g, R)
BY DEF Adds

\* There is a function that adds up, for every finite set.
LEMMA AdderAdds ==
  ASSUME NEW S, IsFiniteSet(S), NEW f
  PROVE  Adds(f, Adder(f, S), S)
<1> DEFINE T == {s \in SUBSET S : ~ Adds(f, Adder(f, s), s)}
<1> SUFFICES ASSUME T # {} PROVE FALSE
  BY DEF Adds
<1>0. T \in SUBSET SUBSET S
  OBVIOUS
<1>1. PICK s \in T : \A r \in SUBSET s : r # s => r \notin T
  <2> HIDE DEF T
  <2> QED
    BY <1>0, SmallestSubset
<1>2. \A r \in SUBSET s : IsFiniteSet(r) /\ (r # s => Adds(f, Adder(f, r), r))
  BY <1>1, FS_Subset
<1> DEFINE rest(r) == r \ {Pick(r)}
           g == [r \in SUBSET s |->
                   IF r = {} THEN 0 ELSE f[Pick(r)] + Adder(f, rest(r))[rest(r)]]
<1>3. \A r \in SUBSET s : r # {} => rest(r) \in SUBSET s /\ rest(r) # r /\ rest(r) # s
  <2> SUFFICES ASSUME NEW r \in SUBSET s, r # {}
               PROVE  rest(r) \in SUBSET s /\ rest(r) # r /\ rest(r) # s
    OBVIOUS
  <2>1. Pick(r) \in r
    BY PickIn
  <2>2. QED
    BY <2>1
<1>4. \A r \in SUBSET s : r # s => g[r] = Adder(f, r)[r]
  <2> SUFFICES ASSUME NEW r \in SUBSET s, r # s PROVE g[r] = Adder(f, r)[r]
    OBVIOUS
  <2>1. Adder(f, r)[r] = Added(f, Adder(f, r), r)
    BY <1>2 DEF Adds
  <2>2. CASE r = {}
    BY <2>1, <2>2 DEF Added
  <2>3. CASE r # {}
    <3>1. rest(r) \in SUBSET r /\ rest(r) \in SUBSET s /\ rest(r) # s
      BY <1>3, <2>3
    <3>2. Adds(f, Adder(f, r), rest(r)) /\ Adds(f, Adder(f, rest(r)), rest(r))
      BY <1>2, <3>1, AdderOfPart
    <3>3. IsFiniteSet(rest(r))
      BY <1>2, <3>1
    <3>4. Adder(f, r)[rest(r)] = Adder(f, rest(r))[rest(r)]
      BY <3>2, <3>3, AddersAgree
    <3>5. QED
      BY <2>1, <2>3, <3>4 DEF Added
  <2>4. QED
    BY <2>2, <2>3
<1>5. \A r \in SUBSET s : g[r] = Added(f, g, r)
  <2> SUFFICES ASSUME NEW r \in SUBSET s, r # {} PROVE g[r] = Added(f, g, r)
    BY DEF Added
  <2>1. g[rest(r)] = Adder(f, rest(r))[rest(r)]
    BY <1>3, <1>4
  <2>2. QED
    BY <2>1 DEF Added
<1>6. g = [r \in SUBSET s |-> Added(f, g, r)]
  BY <1>5
<1>7. Adder(f, s) = [r \in SUBSET s |-> Added(f, Adder(f, s), r)]
  <2> HIDE DEF g
  <2> QED
    BY <1>6 DEF Adder
<1>8. Adds(f, Adder(f, s), s)
  <2> DEFINE A == Adder(f, s)
  <2>1. A = [r \in SUBSET s |-> Added(f, A, r)]
    BY <1>7
  <2> HIDE DEF A
  <2>2. Adds(f, A, s)
    BY <2>1 DEF Adds
  <2> QED
    BY <2>2 DEF A
<1>9. QED
  BY <1>1, <1>8

-------------------------------------------------------------------------------
(* What the proofs cite.                                                    *)

\* A sum is a sum of parts: one function adds up every subset.
LEMMA SumOfParts ==
  ASSUME NEW S, IsFiniteSet(S), NEW f
  PROVE  \A s \in SUBSET S : Sum(f, s) = Added(f, [r \in SUBSET S |-> Sum(f, r)], s)
<1> DEFINE A == Adder(f, S)
<1>1. Adds(f, A, S)
  BY AdderAdds
<1>2. \A s \in SUBSET S : Sum(f, s) = A[s]
  <2> SUFFICES ASSUME NEW s \in SUBSET S PROVE Sum(f, s) = A[s]
    OBVIOUS
  <2>1. IsFiniteSet(s)
    BY FS_Subset
  <2>2. Adds(f, A, s) /\ Adds(f, Adder(f, s), s)
    BY <1>1, <2>1, AdderOfPart, AdderAdds
  <2>3. Adder(f, s)[s] = A[s]
    BY <2>1, <2>2, AddersAgree
  <2> QED
    BY <2>3, SumIsAdder
<1> HIDE DEF A
<1> SUFFICES ASSUME NEW s \in SUBSET S
             PROVE  Sum(f, s) = Added(f, [r \in SUBSET S |-> Sum(f, r)], s)
  OBVIOUS
<1>3. A[s] = Added(f, A, s)
  BY <1>1 DEF Adds
<1>4. CASE s = {}
  BY <1>2, <1>3, <1>4 DEF Added
<1>5. CASE s # {}
  <2>1. s \ {Pick(s)} \in SUBSET S
    OBVIOUS
  <2>2. QED
    BY <1>2, <1>3, <1>5, <2>1 DEF Added
<1>6. QED
  BY <1>4, <1>5

LEMMA SumOfNone == ASSUME NEW f PROVE Sum(f, {}) = 0
<1>1. IsFiniteSet({})
  BY FS_EmptySet
<1>2. QED
  BY <1>1, SumOfParts DEF Added

LEMMA SumStep ==
  ASSUME NEW s, IsFiniteSet(s), NEW f, s # {}
  PROVE  Pick(s) \in s /\ Sum(f, s) = f[Pick(s)] + Sum(f, s \ {Pick(s)})
<1>1. Sum(f, s) = Added(f, [r \in SUBSET s |-> Sum(f, r)], s)
  BY SumOfParts
<1>2. s \ {Pick(s)} \in SUBSET s
  OBVIOUS
<1>3. QED
  BY <1>1, <1>2, PickIn DEF Added

\* A sum of numbers is a number.
LEMMA SumIsNat ==
  ASSUME NEW S, IsFiniteSet(S), NEW f, \A x \in S : f[x] \in Nat
  PROVE  Sum(f, S) \in Nat
<1> DEFINE T == {s \in SUBSET S : Sum(f, s) \notin Nat}
<1> SUFFICES ASSUME T # {} PROVE FALSE
  OBVIOUS
<1>0. T \in SUBSET SUBSET S
  OBVIOUS
<1>1. PICK s \in T : \A r \in SUBSET s : r # s => r \notin T
  <2> HIDE DEF T
  <2> QED
    BY <1>0, SmallestSubset
<1>2. s # {}
  BY SumOfNone
<1>3. IsFiniteSet(s)
  BY FS_Subset
<1>4. Pick(s) \in s /\ Sum(f, s) = f[Pick(s)] + Sum(f, s \ {Pick(s)})
  BY <1>2, <1>3, SumStep
<1>5. Sum(f, s \ {Pick(s)}) \in Nat
  BY <1>1, <1>4
<1>6. QED
  BY <1>4, <1>5

LEMMA SumIsInt ==
  ASSUME NEW S, IsFiniteSet(S), NEW f, \A x \in S : f[x] \in Int
  PROVE  Sum(f, S) \in Int
<1> DEFINE T == {s \in SUBSET S : Sum(f, s) \notin Int}
<1> SUFFICES ASSUME T # {} PROVE FALSE
  OBVIOUS
<1>0. T \in SUBSET SUBSET S
  OBVIOUS
<1>1. PICK s \in T : \A r \in SUBSET s : r # s => r \notin T
  <2> HIDE DEF T
  <2> QED
    BY <1>0, SmallestSubset
<1>2. s # {}
  BY SumOfNone
<1>3. IsFiniteSet(s)
  BY FS_Subset
<1>4. Pick(s) \in s /\ Sum(f, s) = f[Pick(s)] + Sum(f, s \ {Pick(s)})
  BY <1>2, <1>3, SumStep
<1>5. Sum(f, s \ {Pick(s)}) \in Int
  BY <1>1, <1>4
<1>6. QED
  BY <1>4, <1>5

\* Whichever element is taken out of a sum, the rest is the same.
LEMMA SumWithout ==
  ASSUME NEW S, IsFiniteSet(S), NEW f, \A x \in S : f[x] \in Int
  PROVE  \A x \in S : Sum(f, S) = f[x] + Sum(f, S \ {x})
<1> DEFINE Wrong(s) == \E x \in s : Sum(f, s) # f[x] + Sum(f, s \ {x})
           T == {s \in SUBSET S : Wrong(s)}
<1> SUFFICES ASSUME T # {} PROVE FALSE
  OBVIOUS
<1>0. T \in SUBSET SUBSET S
  OBVIOUS
<1>1. PICK s \in T : \A r \in SUBSET s : r # s => r \notin T
  <2> HIDE DEF T
  <2> QED
    BY <1>0, SmallestSubset
<1>2. PICK x \in s : Sum(f, s) # f[x] + Sum(f, s \ {x})
  OBVIOUS
<1> DEFINE p == Pick(s)
           rest == (s \ {x}) \ {p}
<1>3. IsFiniteSet(s) /\ IsFiniteSet(rest)
  BY FS_Subset
<1>4. p \in s /\ Sum(f, s) = f[p] + Sum(f, s \ {p})
  BY <1>2, <1>3, SumStep
<1>5. x # p
  BY <1>2, <1>4
<1>6. \A r \in SUBSET s : r # s => \A y \in r : Sum(f, r) = f[y] + Sum(f, r \ {y})
  BY <1>1
<1> HIDE DEF p
<1>7. Sum(f, s \ {p}) = f[x] + Sum(f, (s \ {p}) \ {x})
  BY <1>2, <1>4, <1>5, <1>6
<1>8. Sum(f, s \ {x}) = f[p] + Sum(f, rest)
  BY <1>2, <1>4, <1>5, <1>6
<1>9. (s \ {p}) \ {x} = rest
  OBVIOUS
<1>10. f[x] \in Int /\ f[p] \in Int /\ Sum(f, rest) \in Int
  BY <1>2, <1>3, <1>4, SumIsInt
<1> HIDE DEF rest
<1>11. Sum(f, s) = f[p] + (f[x] + Sum(f, rest))
  BY <1>4, <1>7, <1>9
<1>12. \A a, b, c \in Int : a + (b + c) = b + (a + c)
  OBVIOUS
<1>13. Sum(f, s) = f[x] + (f[p] + Sum(f, rest))
  BY <1>10, <1>11, <1>12
<1>14. QED
  BY <1>2, <1>8, <1>13

\* An element that joins the set adds its amount.
LEMMA SumAddInt ==
  ASSUME NEW S, IsFiniteSet(S), NEW x, x \notin S, NEW f,
         \A y \in S \cup {x} : f[y] \in Int
  PROVE  Sum(f, S \cup {x}) = Sum(f, S) + f[x]
<1>1. IsFiniteSet(S \cup {x})
  BY FS_AddElement
<1>2. Sum(f, S \cup {x}) = f[x] + Sum(f, (S \cup {x}) \ {x})
  BY <1>1, SumWithout
<1>3. (S \cup {x}) \ {x} = S
  OBVIOUS
<1>4. Sum(f, S) \in Int /\ f[x] \in Int
  BY SumIsInt
<1>5. Sum(f, S \cup {x}) = f[x] + Sum(f, S)
  BY <1>2, <1>3
<1>6. \A a, b \in Int : a + b = b + a
  OBVIOUS
<1>7. QED
  BY <1>4, <1>5, <1>6

LEMMA SumAdd ==
  ASSUME NEW S, IsFiniteSet(S), NEW x, x \notin S, NEW f,
         \A y \in S \cup {x} : f[y] \in Nat
  PROVE  Sum(f, S \cup {x}) = Sum(f, S) + f[x]
<1>1. \A y \in S \cup {x} : f[y] \in Int
  OBVIOUS
<1>2. QED
  BY <1>1, SumAddInt

\* Functions that agree on a set have the same sum over it.
LEMMA SumAgrees ==
  ASSUME NEW S, IsFiniteSet(S), NEW f, NEW g, \A x \in S : f[x] = g[x]
  PROVE  Sum(f, S) = Sum(g, S)
<1> DEFINE T == {s \in SUBSET S : Sum(f, s) # Sum(g, s)}
<1> SUFFICES ASSUME T # {} PROVE FALSE
  OBVIOUS
<1>0. T \in SUBSET SUBSET S
  OBVIOUS
<1>1. PICK s \in T : \A r \in SUBSET s : r # s => r \notin T
  <2> HIDE DEF T
  <2> QED
    BY <1>0, SmallestSubset
<1>2. s # {}
  BY SumOfNone
<1>3. IsFiniteSet(s)
  BY FS_Subset
<1>4. /\ Pick(s) \in s
      /\ Sum(f, s) = f[Pick(s)] + Sum(f, s \ {Pick(s)})
      /\ Sum(g, s) = g[Pick(s)] + Sum(g, s \ {Pick(s)})
  BY <1>2, <1>3, SumStep
<1>5. Sum(f, s \ {Pick(s)}) = Sum(g, s \ {Pick(s)})
  BY <1>1, <1>4
<1>6. QED
  BY <1>4, <1>5

\* When one amount changes, so does the sum, by as much.
LEMMA SumChange ==
  ASSUME NEW S, IsFiniteSet(S), NEW x \in S, NEW f, NEW g,
         \A y \in S : f[y] \in Int /\ g[y] \in Int /\ (y # x => f[y] = g[y])
  PROVE  Sum(g, S) = Sum(f, S) + (g[x] - f[x])
<1>1. Sum(f, S) = f[x] + Sum(f, S \ {x}) /\ Sum(g, S) = g[x] + Sum(g, S \ {x})
  BY SumWithout
<1>2. IsFiniteSet(S \ {x})
  BY FS_Subset
<1>3. Sum(f, S \ {x}) = Sum(g, S \ {x})
  BY <1>2, SumAgrees
<1>4. Sum(f, S \ {x}) \in Int /\ f[x] \in Int /\ g[x] \in Int
  BY <1>2, SumIsInt
<1>5. QED
  BY <1>1, <1>3, <1>4

\* The sum over a set is the sum over a part of it and over the rest.
LEMMA SumOfPieces ==
  ASSUME NEW S, IsFiniteSet(S), NEW f, \A x \in S : f[x] \in Int
  PROVE  \A R \in SUBSET S : Sum(f, S) = Sum(f, R) + Sum(f, S \ R)
<1> DEFINE T == {R \in SUBSET S : Sum(f, S) # Sum(f, R) + Sum(f, S \ R)}
<1> SUFFICES ASSUME T # {} PROVE FALSE
  OBVIOUS
<1>0. T \in SUBSET SUBSET S
  OBVIOUS
<1>1. PICK R \in T : \A P \in SUBSET R : P # R => P \notin T
  <2> HIDE DEF T
  <2> QED
    BY <1>0, SmallestSubset
<1>2. \A P \in SUBSET S : IsFiniteSet(P) /\ Sum(f, P) \in Int
  BY FS_Subset, SumIsInt
<1>3. CASE R = {}
  <2>1. Sum(f, R) = 0 /\ S \ R = S
    BY <1>3, SumOfNone
  <2>2. QED
    BY <2>1, <1>2
<1>4. ASSUME NEW x \in R PROVE FALSE
  <2> DEFINE P == R \ {x}
  <2>1. P \in SUBSET R /\ P # R /\ x \in S /\ P \in SUBSET S
    OBVIOUS
  <2>2. Sum(f, S) = Sum(f, P) + Sum(f, S \ P)
    BY <1>1, <2>1
  <2>3. S \ P = (S \ R) \cup {x} /\ x \notin S \ R
    BY <2>1
  <2>4. Sum(f, S \ P) = Sum(f, S \ R) + f[x]
    <3>1. IsFiniteSet(S \ R) /\ \A y \in (S \ R) \cup {x} : f[y] \in Int
      BY <1>2, <2>1
    <3>2. Sum(f, (S \ R) \cup {x}) = Sum(f, S \ R) + f[x]
      BY <2>3, <3>1, SumAddInt
    <3>3. QED
      BY <2>3, <3>2
  <2>5. Sum(f, R) = f[x] + Sum(f, P)
    BY <1>2, <1>4, SumWithout
  <2>6. Sum(f, P) \in Int /\ Sum(f, S \ R) \in Int /\ f[x] \in Int
    BY <1>2, <2>1
  <2>7. Sum(f, S) = Sum(f, R) + Sum(f, S \ R)
    BY <2>2, <2>4, <2>5, <2>6
  <2>8. QED
    BY <2>7
<1>5. QED
  BY <1>3, <1>4

-------------------------------------------------------------------------------

\* Of numbers there is a least.
LEMMA LeastNumber ==
  ASSUME NEW N \in SUBSET Nat, N # {}
  PROVE  \E n \in N : \A m \in N : n <= m
<1>1. PICK n \in N : \A m \in N : ~ (<<m, n>> \in OpToRel(<, Nat))
  BY NatLessThanWellFounded, WFMin
<1>2. \A m \in N : m < n => <<m, n>> \in OpToRel(<, Nat)
  BY DEF OpToRel
<1>3. \A m \in N : m \in Nat /\ n \in Nat /\ ~ (m < n)
  BY <1>1, <1>2
<1>4. QED
  BY <1>3

\* And of things that an order R compares there is a first.
LEMMA FirstExists ==
  ASSUME NEW S, IsFiniteSet(S), S # {}, NEW R,
         \A x, y \in S : x # y => <<x, y>> \in R \/ <<y, x>> \in R,
         \A x, y, z \in S : <<x, y>> \in R /\ <<y, z>> \in R => <<x, z>> \in R
  PROVE  \E x \in S : \A y \in S \ {x} : <<x, y>> \in R
<1> DEFINE HasFirst(s) == \E x \in s : \A y \in s \ {x} : <<x, y>> \in R
           T == {s \in SUBSET S : s # {} /\ ~HasFirst(s)}
<1> SUFFICES ASSUME T # {} PROVE FALSE
  OBVIOUS
<1>0. T \in SUBSET SUBSET S
  OBVIOUS
<1>1. PICK s \in T : \A r \in SUBSET s : r # s => r \notin T
  <2> HIDE DEF T
  <2> QED
    BY <1>0, SmallestSubset
<1>2. PICK x \in s : TRUE
  OBVIOUS
<1>3. CASE s \ {x} = {}
  BY <1>1, <1>2, <1>3
<1>4. CASE s \ {x} # {}
  <2>1. HasFirst(s \ {x})
    <3>1. s \ {x} \in SUBSET s /\ s \ {x} # s /\ s \ {x} \in SUBSET S
      BY <1>1, <1>2
    <3>2. s \ {x} \notin T
      <4> HIDE DEF T
      <4> QED BY <1>1, <3>1
    <3>3. QED
      BY <1>4, <3>1, <3>2
  <2>2. PICK z \in s \ {x} : \A y \in (s \ {x}) \ {z} : <<z, y>> \in R
    BY <2>1
  <2>3. x \in S /\ z \in S /\ s \in SUBSET S /\ x # z
    BY <1>1, <1>2, <2>2
  <2>4. CASE <<z, x>> \in R
    <3>1. \A y \in s \ {z} : <<z, y>> \in R
      BY <2>2, <2>4
    <3>2. QED
      BY <1>1, <2>2, <3>1
  <2>5. CASE <<x, z>> \in R
    <3>1. \A y \in s \ {x} : <<x, y>> \in R
      BY <2>2, <2>3, <2>5
    <3>2. QED
      BY <1>1, <1>2, <3>1
  <2>6. QED
    BY <2>3, <2>4, <2>5
<1>5. QED
  BY <1>3, <1>4

===============================================================================
