------------------------ MODULE EcmAttributionProofs ------------------------
(***************************************************************************)
(* For any addresses, devices, interfaces, clock and order in which the    *)
(* kernel lists its neighbours: every byte that the kprobes counted is     *)
(* booked once, the total of an interface is the sum of its parts, no rate *)
(* exceeds the line, a new address is polled for in time, and an owner is  *)
(* the only claimant of its address.                                       *)
(*                                                                         *)
(* The totals are sums over finite sets, defined by a CHOOSE of the next   *)
(* element.  The library's induction theorems take operators, which no     *)
(* installed prover instantiates, so the lemmas that a sum is additive and *)
(* changes by what one of its terms does rest on an induction over subsets *)
(* stated here, which follows from the least-number principle.             *)
(***************************************************************************)
EXTENDS EcmAttribution, FiniteSetTheorems, WellFoundedInduction, TLAPS

\* A set of natural numbers that is not empty has a least element.
LEMMA LeastNumber ==
  ASSUME NEW T \in SUBSET Nat, T # {}
  PROVE  \E x \in T : \A y \in T : x <= y
<1> DEFINE R == OpToRel(<, Nat)
<1>1. IsWellFoundedOn(R, Nat)
  BY NatLessThanWellFounded
<1> HIDE DEF R
<1>2. PICK x \in T : \A y \in T : ~(<<y, x>> \in R)
  BY <1>1, WFMin
<1>3. \A y \in T : y < x => <<y, x>> \in R
  BY DEF R, OpToRel
<1>4. \A y \in T : ~(y < x)
  BY <1>2, <1>3
<1> QED BY ONLY <1>4, x \in T, T \in SUBSET Nat

\* Induction over the subsets of a finite set: P holds for T when it holds
\* for T without any one of its elements.
Inherits(P, S) == \A T \in SUBSET S : (\A x \in T : T \ {x} \in P) => T \in P

LEMMA SubsetInduction ==
  ASSUME NEW S, IsFiniteSet(S), NEW P, Inherits(P, S)
  PROVE  \A T \in SUBSET S : T \in P
<1> SUFFICES ASSUME NEW U \in SUBSET S, U \notin P PROVE FALSE
  OBVIOUS
<1> DEFINE Bad == {T \in SUBSET S : T \notin P}
           Ns == {Cardinality(T) : T \in Bad}
<1>1. \A T \in SUBSET S : IsFiniteSet(T) /\ Cardinality(T) \in Nat
  BY FS_Subset, FS_CardinalityType
<1>2. Ns \in SUBSET Nat /\ Ns # {}
  BY <1>1
<1>3. PICK n \in Ns : \A m \in Ns : n <= m
  <2> HIDE DEF Ns
  <2> QED BY <1>2, LeastNumber
<1>4. PICK T \in Bad : n = Cardinality(T)
  OBVIOUS
<1>5. ASSUME NEW x \in T PROVE T \ {x} \in P
  <2>1. Cardinality(T \ {x}) = Cardinality(T) - 1
    BY <1>1, <1>4, FS_RemoveElement
  <2>2. CASE T \ {x} \in Bad
    <3>1. Cardinality(T \ {x}) \in Ns
      BY <2>2
    <3> HIDE DEF Ns, Bad
    <3> QED BY <3>1, <1>2, <1>3, <1>4, <2>1
  <2> QED BY <2>2, <1>4
<1> QED BY <1>4, <1>5 DEF Inherits

-----------------------------------------------------------------------------
(* Sums over finite sets.                                                  *)

Pick(T) == CHOOSE x \in T : TRUE
Measures(f, S) == \A x \in S : f[x] \in Nat

\* g[T] is the sum over T, for every subset T of S.
SumTable(g, f, S) ==
  /\ g \in [SUBSET S -> Nat]
  /\ \A T \in SUBSET S : g[T] = IF T = {} THEN 0 ELSE f[Pick(T)] + g[T \ {Pick(T)}]

LEMMA PickInSet ==
  ASSUME NEW T, T # {}
  PROVE  Pick(T) \in T
BY DEF Pick

LEMMA SumTablesAgree ==
  ASSUME NEW S, IsFiniteSet(S), NEW f, NEW R, NEW g, NEW h,
         SumTable(g, f, S), SumTable(h, f, R)
  PROVE  \A T \in SUBSET S : T \in SUBSET R => g[T] = h[T]
<1> DEFINE P == {T \in SUBSET S : T \in SUBSET R => g[T] = h[T]}
<1>1. ASSUME NEW T \in SUBSET S, \A x \in T : T \ {x} \in P PROVE T \in P
  <2> SUFFICES ASSUME T \in SUBSET R PROVE g[T] = h[T]
    OBVIOUS
  <2>1. CASE T = {}
    BY <2>1 DEF SumTable
  <2>2. CASE T # {}
    <3>1. Pick(T) \in T
      BY <2>2, PickInSet
    <3>2. T \ {Pick(T)} \in SUBSET R /\ g[T \ {Pick(T)}] = h[T \ {Pick(T)}]
      BY <1>1, <3>1
    <3> QED BY <2>2, <3>2 DEF SumTable
  <2> QED BY <2>1, <2>2
<1> HIDE DEF P
<1>2. Inherits(P, S)
  BY <1>1 DEF Inherits
<1>3. \A T \in SUBSET S : T \in P
  BY <1>2, SubsetInduction
<1> QED BY <1>3 DEF P

\* The table exists for every finite set: the table of a set is put together
\* from those of its subsets.
LEMMA SumTableExists ==
  ASSUME NEW S, IsFiniteSet(S), NEW f, Measures(f, S)
  PROVE  \E g : SumTable(g, f, S)
<1> DEFINE P == {T \in SUBSET S : \E g : SumTable(g, f, T)}
<1>1. ASSUME NEW T \in SUBSET S, \A x \in T : T \ {x} \in P PROVE T \in P
  <2> DEFINE Of(U) == CHOOSE g : SumTable(g, f, U)
  <2>1. ASSUME NEW x \in T PROVE SumTable(Of(T \ {x}), f, T \ {x})
    BY <1>1, <2>1
  <2> HIDE DEF Of
  <2> DEFINE below(U) == Of(T \ {Pick(T \ U)})[U]
             g == [U \in SUBSET T |-> IF U # T THEN below(U)
                     ELSE IF T = {} THEN 0 ELSE f[Pick(T)] + below(T \ {Pick(T)})]
  <2>2. ASSUME NEW U \in SUBSET T, U # T
        PROVE  Pick(T \ U) \in T /\ U \in SUBSET (T \ {Pick(T \ U)})
    <3>1. T \ U # {}
      BY <2>2
    <3>2. Pick(T \ U) \in T \ U
      BY <3>1, PickInSet
    <3> QED BY <3>2
  <2>3. ASSUME NEW U \in SUBSET T, U # T PROVE below(U) \in Nat
    <3> DEFINE x == Pick(T \ U)
    <3>1. x \in T /\ U \in SUBSET (T \ {x})
      BY <2>2, <2>3
    <3> HIDE DEF x
    <3>2. Of(T \ {x}) \in [SUBSET (T \ {x}) -> Nat]
      BY <2>1, <3>1 DEF SumTable
    <3>3. Of(T \ {x})[U] \in Nat
      BY <3>1, <3>2
    <3> QED BY <3>3 DEF x
  <2>4. ASSUME NEW U \in SUBSET T, U # T, U # {}
        PROVE  below(U) = f[Pick(U)] + below(U \ {Pick(U)})
    <3> DEFINE V == U \ {Pick(U)}
               x == Pick(T \ U)
               y == Pick(T \ V)
    <3>1. V \in SUBSET T /\ V # T /\ V \in SUBSET U
      BY <2>4
    <3>2. x \in T /\ U \in SUBSET (T \ {x})
      BY <2>2, <2>4
    <3>3. y \in T /\ V \in SUBSET (T \ {y})
      BY <2>2, <3>1
    <3> HIDE DEF x, y
    <3>4. Of(T \ {x})[U] = f[Pick(U)] + Of(T \ {x})[V]
      BY <2>1, <3>2, <2>4 DEF SumTable
    <3>5. IsFiniteSet(T \ {x})
      BY FS_Subset
    <3>6. V \in SUBSET (T \ {x})
      BY <3>1, <3>2
    <3> HIDE DEF V
    <3>7. Of(T \ {x})[V] = Of(T \ {y})[V]
      BY <2>1, <3>2, <3>3, <3>5, <3>6, SumTablesAgree
    <3> QED BY <3>4, <3>7 DEF V, x, y
  <2>5. ASSUME NEW U \in SUBSET T, U = {}, T # {} PROVE below(U) = 0
    BY <2>1, <2>2, <2>5 DEF SumTable
  <2> HIDE DEF below
  <2>6. ASSUME T # {}
        PROVE  /\ Pick(T) \in T /\ f[Pick(T)] \in Nat
               /\ T \ {Pick(T)} \in SUBSET T /\ T \ {Pick(T)} # T
    BY <2>6, PickInSet DEF Measures
  <2>7. ASSUME NEW U \in SUBSET T PROVE g[U] \in Nat
    <3>1. CASE U # T
      BY <2>3, <3>1
    <3>2. CASE U = T /\ T = {}
      BY <3>2
    <3>3. CASE U = T /\ T # {}
      BY <2>3, <2>6, <3>3
    <3> QED BY <3>1, <3>2, <3>3
  <2>8. ASSUME NEW U \in SUBSET T
        PROVE  g[U] = IF U = {} THEN 0 ELSE f[Pick(U)] + g[U \ {Pick(U)}]
    <3>1. CASE U # T /\ U = {}
      BY <2>5, <3>1
    <3>2. CASE U # T /\ U # {}
      <4>1. U \ {Pick(U)} \in SUBSET T /\ U \ {Pick(U)} # T
        BY <3>2
      <4> QED BY <2>4, <3>2, <4>1
    <3>3. CASE U = T /\ T = {}
      BY <3>3
    <3>4. CASE U = T /\ T # {}
      BY <2>6, <3>4
    <3> QED BY <3>1, <3>2, <3>3, <3>4
  <2> HIDE DEF g
  <2>9. g \in [SUBSET T -> Nat]
    <3>1. g = [U \in SUBSET T |-> g[U]]
      BY DEF g
    <3> QED BY <3>1, <2>7
  <2>10. SumTable(g, f, T)
    BY <2>8, <2>9 DEF SumTable
  <2> QED BY <2>10
<1> HIDE DEF P
<1>2. Inherits(P, S)
  BY <1>1 DEF Inherits
<1>3. S \in P
  BY <1>2, SubsetInduction
<1> QED BY <1>3 DEF P

\* The library's sum over S is the last entry of a table of S.
LEMMA SumIsTable ==
  ASSUME NEW S, IsFiniteSet(S), NEW f, Measures(f, S), NEW g, SumTable(g, f, S)
  PROVE  SumFunctionOnSet(f, S) = g[S]
<1> DEFINE Is(h) == h = [T \in SUBSET S |->
                           IF T = {} THEN 0
                           ELSE f[CHOOSE x \in T : TRUE] + h[T \ {CHOOSE x \in T : TRUE}]]
           sum == CHOOSE h : Is(h)
<1>1. SumFunctionOnSet(f, S) = sum[S]
  BY DEF SumFunctionOnSet, FoldFunctionOnSet, MapThenFoldSet
<1>2. Is(g)
  BY DEF SumTable, Pick
<1>3. Is(sum)
  <2> HIDE DEF Is
  <2> QED BY <1>2
<1> HIDE DEF sum
<1> DEFINE P == {T \in SUBSET S : sum[T] = g[T]}
<1>4. ASSUME NEW T \in SUBSET S, \A x \in T : T \ {x} \in P PROVE T \in P
  <2>1. CASE T = {}
    BY <1>3, <2>1 DEF SumTable
  <2>2. CASE T # {}
    <3>1. Pick(T) \in T
      BY <2>2, PickInSet
    <3>2. sum[T \ {Pick(T)}] = g[T \ {Pick(T)}]
      BY <1>4, <3>1
    <3>3. sum[T] = f[Pick(T)] + sum[T \ {Pick(T)}]
      BY <1>3, <2>2 DEF Pick
    <3> QED BY <2>2, <3>2, <3>3 DEF SumTable
  <2> QED BY <2>1, <2>2
<1> HIDE DEF P
<1>5. Inherits(P, S)
  BY <1>4 DEF Inherits
<1>6. S \in P
  BY <1>5, SubsetInduction
<1> QED BY <1>1, <1>6 DEF P

\* The recursion, with the element the library chooses.
LEMMA SumPick ==
  ASSUME NEW S, IsFiniteSet(S), NEW f, Measures(f, S)
  PROVE  /\ SumFunctionOnSet(f, S) \in Nat
         /\ S = {} => SumFunctionOnSet(f, S) = 0
         /\ S # {} => SumFunctionOnSet(f, S)
                        = f[Pick(S)] + SumFunctionOnSet(f, S \ {Pick(S)})
<1>1. PICK g : SumTable(g, f, S)
  BY SumTableExists
<1>2. SumFunctionOnSet(f, S) = g[S]
  BY <1>1, SumIsTable
<1>3. ASSUME S # {} PROVE SumFunctionOnSet(f, S \ {Pick(S)}) = g[S \ {Pick(S)}]
  <2> DEFINE R == S \ {Pick(S)}
  <2>1. R \in SUBSET S /\ IsFiniteSet(R) /\ Measures(f, R)
    BY FS_Subset DEF Measures
  <2> HIDE DEF R
  <2>2. PICK h : SumTable(h, f, R)
    BY <2>1, SumTableExists
  <2>3. SumFunctionOnSet(f, R) = h[R]
    BY <2>1, <2>2, SumIsTable
  <2>4. h[R] = g[R]
    BY <1>1, <2>1, <2>2, SumTablesAgree
  <2> QED BY <2>3, <2>4 DEF R
<1> QED BY <1>1, <1>2, <1>3 DEF SumTable

\* Any element may be taken out first.
LEMMA SumRemove ==
  ASSUME NEW S, IsFiniteSet(S), NEW f, Measures(f, S), NEW x \in S
  PROVE  SumFunctionOnSet(f, S) = f[x] + SumFunctionOnSet(f, S \ {x})
<1> DEFINE Sum(T) == SumFunctionOnSet(f, T)
           P == {T \in SUBSET S : \A y \in T : Sum(T) = f[y] + Sum(T \ {y})}
<1>0. \A T \in SUBSET S : IsFiniteSet(T) /\ Measures(f, T) /\ Sum(T) \in Nat
  BY FS_Subset, SumPick DEF Measures
<1>1. ASSUME NEW T \in SUBSET S, \A y \in T : T \ {y} \in P PROVE T \in P
  <2> SUFFICES ASSUME NEW y \in T PROVE Sum(T) = f[y] + Sum(T \ {y})
    OBVIOUS
  <2> DEFINE c == Pick(T)
  <2>1. c \in T
    BY PickInSet
  <2>2. Sum(T) = f[c] + Sum(T \ {c})
    BY <1>0, SumPick
  <2> HIDE DEF c, Sum
  <2>3. CASE y = c
    BY <2>2, <2>3
  <2>4. CASE y # c
    <3>1. T \ {c} \in P /\ T \ {y} \in P
      BY <1>1, <2>1
    <3>2. Sum(T \ {c}) = f[y] + Sum((T \ {c}) \ {y})
      BY <3>1, <2>4
    <3>3. Sum(T \ {y}) = f[c] + Sum((T \ {y}) \ {c})
      BY <3>1, <2>4, <2>1
    <3>4. (T \ {c}) \ {y} = (T \ {y}) \ {c}
      OBVIOUS
    <3>5. f[c] \in Nat /\ f[y] \in Nat /\ Sum((T \ {y}) \ {c}) \in Nat
      BY <1>0, <2>1 DEF Measures
    <3>6. PICK w : w = Sum((T \ {y}) \ {c})
      OBVIOUS
    <3>7. w \in Nat /\ Sum(T \ {y}) = f[c] + w
      BY <3>3, <3>5, <3>6
    <3>8. Sum(T \ {c}) = f[y] + w
      BY <3>2, <3>4, <3>6, Zenon
    <3> QED BY <2>2, <3>5, <3>7, <3>8
  <2> QED BY <2>3, <2>4
<1> HIDE DEF P
<1>2. Inherits(P, S)
  BY <1>1 DEF Inherits
<1>3. S \in P
  BY <1>2, SubsetInduction
<1> QED BY <1>3 DEF P

LEMMA SumNat ==
  ASSUME NEW S, IsFiniteSet(S), NEW f, Measures(f, S)
  PROVE  SumFunctionOnSet(f, S) \in Nat
BY SumPick

LEMMA SumEmpty ==
  ASSUME NEW f
  PROVE  SumFunctionOnSet(f, {}) = 0
<1>1. IsFiniteSet({}) /\ Measures(f, {})
  BY FS_EmptySet DEF Measures
<1> QED BY <1>1, SumPick

\* The sum of the sums of f and g is the sum of their sum h.
Adds(h, f, g, S) == \A x \in S : h[x] = f[x] + g[x]

LEMMA SumAdds ==
  ASSUME NEW S, IsFiniteSet(S), NEW f, NEW g, NEW h,
         Measures(f, S), Measures(g, S), Adds(h, f, g, S)
  PROVE  SumFunctionOnSet(h, S) = SumFunctionOnSet(f, S) + SumFunctionOnSet(g, S)
<1> DEFINE Sum(e, T) == SumFunctionOnSet(e, T)
           P == {T \in SUBSET S : Sum(h, T) = Sum(f, T) + Sum(g, T)}
<1>0. Measures(h, S)
  BY DEF Measures, Adds
<1>1. ASSUME NEW T \in SUBSET S
      PROVE  /\ IsFiniteSet(T) /\ Measures(f, T) /\ Measures(g, T) /\ Measures(h, T)
  BY <1>0, FS_Subset DEF Measures
<1>2. ASSUME NEW T \in SUBSET S, \A y \in T : T \ {y} \in P PROVE T \in P
  <2>1. CASE T = {}
    BY <2>1, SumEmpty
  <2>2. CASE T # {}
    <3>1. PICK x : x \in T
      BY <2>2
    <3> DEFINE U == T \ {x}
    <3>2. U \in SUBSET S /\ Sum(h, U) = Sum(f, U) + Sum(g, U)
      BY <1>2, <3>1
    <3>3. Sum(f, U) \in Nat /\ Sum(g, U) \in Nat
      BY <1>1, <3>2, SumNat
    <3>4. /\ Sum(f, T) = f[x] + Sum(f, U) /\ Sum(g, T) = g[x] + Sum(g, U)
          /\ Sum(h, T) = h[x] + Sum(h, U)
      BY <1>1, <3>1, SumRemove
    <3>5. f[x] \in Nat /\ g[x] \in Nat /\ h[x] = f[x] + g[x]
      BY <3>1 DEF Measures, Adds
    <3> HIDE DEF U, Sum
    <3> QED BY <3>2, <3>3, <3>4, <3>5
  <2> QED BY <2>1, <2>2
<1> HIDE DEF P
<1>3. Inherits(P, S)
  BY <1>2 DEF Inherits
<1>4. S \in P
  BY <1>3, SubsetInduction
<1> QED BY <1>4 DEF P

Vanishes(f, S) == \A x \in S : f[x] = 0

LEMMA SumZero ==
  ASSUME NEW S, IsFiniteSet(S), NEW f, Vanishes(f, S)
  PROVE  SumFunctionOnSet(f, S) = 0
<1>1. Measures(f, S) /\ Adds(f, f, f, S)
  BY DEF Vanishes, Measures, Adds
<1>2. SumFunctionOnSet(f, S) = SumFunctionOnSet(f, S) + SumFunctionOnSet(f, S)
  BY <1>1, SumAdds
<1>3. PICK n \in Nat : n = SumFunctionOnSet(f, S)
  BY <1>1, SumNat
<1>4. n = n + n
  BY <1>2, <1>3, Zenon
<1>5. n = 0
  BY <1>4
<1> QED BY <1>3, <1>5

Agree(f, g, S) == \A x \in S : f[x] = g[x]

LEMMA SumAgree ==
  ASSUME NEW S, IsFiniteSet(S), NEW f, NEW g, Measures(f, S), Agree(f, g, S)
  PROVE  SumFunctionOnSet(g, S) = SumFunctionOnSet(f, S)
<1> DEFINE z == [x \in S |-> 0]
<1>1. Measures(z, S) /\ Vanishes(z, S) /\ Adds(g, f, z, S)
  BY DEF Measures, Vanishes, Adds, Agree
<1> HIDE DEF z
<1>2. SumFunctionOnSet(g, S) = SumFunctionOnSet(f, S) + SumFunctionOnSet(z, S)
  BY <1>1, SumAdds
<1>3. SumFunctionOnSet(z, S) = 0 /\ SumFunctionOnSet(f, S) \in Nat
  BY <1>1, SumZero, SumNat
<1> QED BY <1>2, <1>3

\* Two parts that have no element in common.
LEMMA SumParts ==
  ASSUME NEW A, IsFiniteSet(A), NEW B, IsFiniteSet(B), A \cap B = {},
         NEW f, Measures(f, A \cup B)
  PROVE  SumFunctionOnSet(f, A \cup B) = SumFunctionOnSet(f, A) + SumFunctionOnSet(f, B)
<1> DEFINE Sum(T) == SumFunctionOnSet(f, T)
           P == {T \in SUBSET A : Sum(T \cup B) = Sum(T) + Sum(B)}
<1>1. ASSUME NEW T \in SUBSET A
      PROVE  /\ IsFiniteSet(T) /\ Measures(f, T) /\ IsFiniteSet(T \cup B)
             /\ Measures(f, T \cup B)
  BY FS_Subset, FS_Union DEF Measures
<1>2. Sum(B) \in Nat
  BY SumNat DEF Measures
<1>3. ASSUME NEW T \in SUBSET A, \A y \in T : T \ {y} \in P PROVE T \in P
  <2>1. CASE T = {}
    <3>1. T \cup B = B /\ Sum(T) = 0
      BY <2>1, SumEmpty
    <3>2. Sum(T \cup B) = Sum(B)
      BY <3>1, Zenon
    <3> HIDE DEF Sum
    <3>3. Sum(T \cup B) = Sum(T) + Sum(B)
      BY <1>2, <3>1, <3>2
    <3> QED BY <3>3
  <2>2. CASE T # {}
    <3>1. PICK x : x \in T
      BY <2>2
    <3> DEFINE U == T \ {x}
    <3>2. U \in SUBSET A /\ Sum(U \cup B) = Sum(U) + Sum(B)
      BY <1>3, <3>1
    <3>3. (T \cup B) \ {x} = U \cup B
      BY <3>1
    <3>4. Sum(T) = f[x] + Sum(U) /\ Sum(U) \in Nat
      BY <1>1, <3>1, <3>2, SumRemove, SumNat
    <3>5. Sum(T \cup B) = f[x] + Sum((T \cup B) \ {x})
      BY <1>1, <3>1, SumRemove
    <3>6. f[x] \in Nat
      BY <3>1 DEF Measures
    <3> HIDE DEF U, Sum
    <3>7. Sum(T \cup B) = f[x] + Sum(U \cup B)
      BY <3>3, <3>5, Zenon
    <3> QED BY <1>2, <3>2, <3>4, <3>6, <3>7
  <2> QED BY <2>1, <2>2
<1> HIDE DEF P
<1>4. Inherits(P, A)
  BY <1>3 DEF Inherits
<1>5. A \in P
  BY <1>4, SubsetInduction
<1> QED BY <1>5 DEF P

\* G[d] is the sum over the elements that k sends to d.
Grouped(k, S, d) == {x \in S : k[x] = d}
Groups(G, f, k, S, D) ==
  /\ \A x \in S : k[x] \in D
  /\ \A d \in D : G[d] = SumFunctionOnSet(f, Grouped(k, S, d))

\* The sums of the groups add up to the sum of all.
LEMMA SumGroups ==
  ASSUME NEW S, IsFiniteSet(S), NEW D, IsFiniteSet(D), NEW f, Measures(f, S),
         NEW k, NEW G, Groups(G, f, k, S, D)
  PROVE  Measures(G, D) /\ SumFunctionOnSet(G, D) = SumFunctionOnSet(f, S)
<1> DEFINE Sum(e, T) == SumFunctionOnSet(e, T)
           H(T) == [d \in D |-> Sum(f, Grouped(k, T, d))]
           P == {T \in SUBSET S : Sum(H(T), D) = Sum(f, T)}
<1>1. ASSUME NEW T \in SUBSET S PROVE IsFiniteSet(T) /\ Measures(f, T)
  BY FS_Subset DEF Measures
<1>2. ASSUME NEW T \in SUBSET S, NEW d
      PROVE  Grouped(k, T, d) \in SUBSET S
  BY DEF Grouped
<1>3. ASSUME NEW T \in SUBSET S PROVE Measures(H(T), D)
  <2>1. ASSUME NEW d \in D PROVE H(T)[d] \in Nat
    BY <1>1, <1>2, SumNat
  <2> QED BY <2>1 DEF Measures
<1>4. ASSUME NEW T \in SUBSET S, \A y \in T : T \ {y} \in P PROVE T \in P
  <2>1. CASE T = {}
    <3>1. \A d \in D : Grouped(k, T, d) = {}
      BY <2>1 DEF Grouped
    <3>2. Vanishes(H(T), D)
      BY <3>1, SumEmpty DEF Vanishes
    <3> HIDE DEF H
    <3> QED BY <2>1, <3>2, SumZero, SumEmpty
  <2>2. CASE T # {}
    <3>1. PICK x : x \in T
      BY <2>2
    <3> DEFINE U == T \ {x}
               c == k[x]
    <3>2. U \in SUBSET S /\ Sum(H(U), D) = Sum(f, U)
      BY <1>4, <3>1
    <3>3. c \in D /\ f[x] \in Nat
      BY <3>1 DEF Groups, Measures
    <3>4. Sum(f, T) = f[x] + Sum(f, U) /\ Sum(f, U) \in Nat
      BY <1>1, <3>1, <3>2, SumRemove, SumNat
    <3>5. Grouped(k, U, c) = Grouped(k, T, c) \ {x} /\ x \in Grouped(k, T, c)
      BY <3>1 DEF Grouped
    <3>6. H(T)[c] = f[x] + H(U)[c]
      <4>1. Sum(f, Grouped(k, T, c)) = f[x] + Sum(f, Grouped(k, T, c) \ {x})
        BY <1>1, <1>2, <3>5, SumRemove
      <4> QED BY <3>3, <3>5, <4>1
    <3>7. ASSUME NEW d \in D \ {c} PROVE H(U)[d] = H(T)[d]
      <4>1. Grouped(k, U, d) = Grouped(k, T, d)
        BY DEF Grouped
      <4> QED BY <4>1
    <3>8. Agree(H(U), H(T), D \ {c}) /\ Measures(H(U), D \ {c})
      BY <3>7, <3>2, <1>3 DEF Agree, Measures
    <3>9. Measures(H(U), D) /\ Measures(H(T), D)
      BY <1>3, <3>2
    <3>10. H(U)[c] \in Nat
      BY <3>3, <3>9 DEF Measures
    <3> HIDE DEF H
    <3>11. IsFiniteSet(D \ {c})
      BY FS_Subset
    <3>12. Sum(H(T), D \ {c}) = Sum(H(U), D \ {c}) /\ Sum(H(U), D \ {c}) \in Nat
      BY <3>8, <3>11, SumAgree, SumNat
    <3>13. /\ Sum(H(T), D) = H(T)[c] + Sum(H(T), D \ {c})
           /\ Sum(H(U), D) = H(U)[c] + Sum(H(U), D \ {c})
      BY <3>3, <3>9, SumRemove
    <3> HIDE DEF Sum, U, c
    <3> QED BY <3>2, <3>3, <3>4, <3>6, <3>10, <3>12, <3>13
  <2> QED BY <2>1, <2>2
<1>5. Agree(H(S), G, D)
  BY DEF Groups, Agree
<1>6. Measures(G, D)
  BY <1>3, <1>5 DEF Measures, Agree
<1> HIDE DEF P
<1>7. Inherits(P, S)
  BY <1>4 DEF Inherits
<1>8. S \in P
  BY <1>7, SubsetInduction
<1>9. Sum(G, D) = Sum(H(S), D)
  <2>1. Measures(H(S), D)
    BY <1>3
  <2> HIDE DEF H
  <2> QED BY <1>5, <2>1, SumAgree
<1> QED BY <1>6, <1>8, <1>9 DEF P

-----------------------------------------------------------------------------
(* Who owns an address.                                                    *)

Claimant == Devices \cup {NoDevice}

LEMMA ObserveClaim ==
  ASSUME NEW x, NEW d
  PROVE  /\ Observe([device |-> x, in_tick |-> FALSE], d) = [device |-> d, in_tick |-> TRUE]
         /\ x # d => Observe([device |-> x, in_tick |-> TRUE], d)
                      = [device |-> NoDevice, in_tick |-> TRUE]
BY DEF Observe

\* Of the devices a neighbour table lists for an address, in any order, the
\* only one becomes the owner, and of several none.
LEMMA ObserveAllOutcome ==
  ASSUME NEW L \in SUBSET Devices, NEW order \in SetToSeqs(L), NEW device
  PROVE  /\ L = {} <=> order = <<>>
         /\ L # {} =>
              LET last == ObserveAll([device |-> device, in_tick |-> FALSE], order).device
              IN last \in Claimant /\ (last # NoDevice => L = {last})
<1> DEFINE n == Cardinality(L)
           start == [device |-> device, in_tick |-> FALSE]
           Is(h) == h = [i \in 0..Len(order) |->
                           IF i = 0 THEN start ELSE Observe(h[i - 1], order[i])]
           entry == CHOOSE h : Is(h)
           first == [device |-> order[1], in_tick |-> TRUE]
           conflict == [device |-> NoDevice, in_tick |-> TRUE]
           g == [i \in 0..n |-> IF i = 0 THEN start ELSE IF i = 1 THEN first ELSE conflict]
<1>1. IsFiniteSet(L) /\ n \in Nat
  BY AttributionAssumption, FS_Subset, FS_CardinalityType
<1>2. order \in [1..n -> L] /\ \A i, j \in 1..n : i # j => order[i] # order[j]
  BY DEF SetToSeqs
<1>3. Len(order) = n
  <2> HIDE DEF n
  <2> QED BY <1>1, <1>2
<1>4. L = {} <=> n = 0
  BY <1>1, FS_EmptySet
<1>5. n = 0 <=> order = <<>>
  <2> HIDE DEF n
  <2>1. DOMAIN order = 1..n
    BY <1>2
  <2> QED BY <1>1, <1>2, <1>3, <2>1
<1> DEFINE last == ObserveAll(start, order).device
<1>6. SUFFICES ASSUME n # 0 PROVE last \in Claimant /\ (last # NoDevice => L = {last})
  BY <1>4, <1>5
<1>7. ObserveAll(start, order) = entry[n]
  BY <1>3 DEF ObserveAll
<1>8. \A i \in 1..n : order[i] \in Devices /\ order[i] # NoDevice
  BY <1>2, AttributionAssumption
<1> HIDE DEF n
<1>9. /\ Observe(start, order[1]) = first
      /\ \A d : order[1] # d => Observe(first, d) = conflict
      /\ \A d : NoDevice # d => Observe(conflict, d) = conflict
  BY ObserveClaim
<1>a. first.device = order[1] /\ conflict.device = NoDevice
  OBVIOUS
<1> HIDE DEF start, first, conflict
<1>b. /\ g[0] = start /\ g[1] = first /\ g = [i \in 0..n |-> g[i]]
      /\ \A i \in 2..n : g[i] = conflict
  BY <1>1, <1>6
<1> HIDE DEF g
<1>c. ASSUME NEW i \in 1..n PROVE g[i] = Observe(g[i - 1], order[i])
  <2>1. CASE i = 1
    <3>1. i - 1 = 0
      BY <2>1
    <3> QED BY <1>9, <1>b, <2>1, <3>1
  <2>2. CASE i = 2
    <3>1. i - 1 = 1 /\ i \in 2..n /\ 1 \in 1..n
      BY <1>1, <2>2
    <3>2. order[1] # order[i]
      BY <1>2, <2>2, <3>1
    <3> QED BY <1>9, <1>b, <3>1, <3>2
  <2>3. CASE i > 2
    <3>1. i - 1 \in 2..n /\ i \in 2..n
      BY <1>1, <2>3
    <3>2. g[i - 1] = conflict /\ g[i] = conflict /\ NoDevice # order[i]
      BY <1>8, <1>b, <3>1
    <3> QED BY <1>9, <3>2
  <2>4. i = 1 \/ i = 2 \/ i > 2
    BY <1>1
  <2> QED BY <2>1, <2>2, <2>3, <2>4
<1>10. Is(g)
  <2>1. \A i \in 0..n : g[i] = IF i = 0 THEN start ELSE Observe(g[i - 1], order[i])
    <3> SUFFICES ASSUME NEW i \in 0..n
                 PROVE  g[i] = IF i = 0 THEN start ELSE Observe(g[i - 1], order[i])
      OBVIOUS
    <3>1. CASE i = 0
      BY <1>b, <3>1
    <3>2. CASE i # 0
      <4>1. i \in 1..n
        BY <1>1, <3>2
      <4> QED BY <1>c, <3>2, <4>1
    <3> QED BY <3>1, <3>2
  <2> QED BY <1>3, <1>b, <2>1
<1>11. Is(entry)
  <2> HIDE DEF Is
  <2> QED BY <1>10
<1> HIDE DEF entry
<1>12. \A i \in 0..n : entry[i] = g[i]
  <2> DEFINE Bad == {i \in 0..n : entry[i] # g[i]}
  <2> SUFFICES ASSUME Bad # {} PROVE FALSE
    OBVIOUS
  <2>1. Bad \in SUBSET Nat
    BY <1>1
  <2>2. PICK i \in Bad : \A j \in Bad : i <= j
    <3> HIDE DEF Bad
    <3> QED BY <2>1, LeastNumber
  <2>3. i # 0
    BY <1>1, <1>3, <1>10, <1>11, <2>2
  <2>4. i \in 1..n /\ i - 1 \in 0..n /\ i - 1 \notin Bad
    BY <1>1, <2>2, <2>3
  <2>5. entry[i] = Observe(entry[i - 1], order[i])
    BY <1>1, <1>3, <1>11, <2>4
  <2> QED BY <1>c, <2>2, <2>4, <2>5
<1>13. CASE n = 1
  <2>1. PICK x : L = {x}
    BY <1>1, <1>13, FS_Singleton DEF n
  <2>2. ObserveAll(start, order).device = order[1]
    <3>1. 1 \in 0..n /\ entry[1] = g[1]
      BY <1>1, <1>12, <1>13
    <3> QED BY <1>7, <1>13, <1>a, <1>b, <3>1
  <2> QED BY <1>2, <1>8, <1>13, <2>1, <2>2 DEF Claimant
<1>14. CASE n > 1
  <2>1. ObserveAll(start, order).device = NoDevice
    <3>1. n \in 0..n /\ n \in 2..n
      BY <1>1, <1>14
    <3> QED BY <1>7, <1>12, <1>a, <1>b, <3>1
  <2> QED BY <2>1 DEF Claimant
<1> QED BY <1>1, <1>6, <1>13, <1>14

-----------------------------------------------------------------------------
(* The inductive invariants.                                               *)

\* The types of what only the properties look at.
HistoryOK ==
  /\ total \in [Addresses -> Nat] /\ unbooked \in Nat /\ lost \in Nat
  /\ forgotten \in [Ifaces -> Nat] /\ too_fast \in BOOLEAN

\* A counter grew by at most one in every unit of time since the first one,
\* and is not below its baseline (None is less than any count).  A key the
\* tick wants to prune has a baseline, and is removed at that value.
CountersOK ==
  /\ now >= 1
  /\ \A a \in Addresses : kernel[a] < now /\ prev[a] <= kernel[a]
  /\ \A a \in prune : prev[a] # None
  /\ \A r \in removing : r.seen = prev[r.key]

\* What no tick has read yet came since the last read that succeeded; until
\* the first tick at most one unit of time passes.
IntervalOK ==
  /\ last_snapshot <= now /\ last_ecm <= now
  /\ last_ecm = None => /\ now <= 2 /\ last_snapshot = None
                        /\ \A a \in Addresses : prev[a] = None
  /\ last_ecm # None => /\ last_snapshot # None
                        /\ \A a \in Addresses : Pending(a) <= now - last_ecm
  /\ ~too_fast

\* The claims that pass the filter, of those on an address.
Passing(a, S) ==
  {d \in S : IfaceOf[d] \in Monitored /\ (place[a].v6 \/ IfaceOf[d] \in place[a].subnets)}

\* What the cached IPv6 table says is what was claimed when it was read.
ClaimsOK ==
  /\ claims \in [Addresses -> [by : SUBSET Devices, at : Time \cup {None}]]
  /\ \A a \in Addresses :
       place[a].v6 /\ Passing(a, cached[a]) # {}
         => claims[a] = [by |-> Passing(a, cached[a]), at |-> last_fetch]

\* A new address was looked up since, or the request is pending and the last
\* tick was still too early for a poll.
RequestOK ==
  \A a \in Addresses :
    /\ unmapped[a] <= now
    /\ unmapped[a] # None =>
         \/ last_fetch >= unmapped[a]
         \/ /\ refresh_pending /\ last_fetch # None
            /\ last_snapshot - last_fetch < FastPoll

-----------------------------------------------------------------------------
(* The parts of a tick, by name.                                           *)

Readable == {a \in Addresses : kernel[a] # None}
Delta == [a \in Readable |-> EcmDelta(a)]
Active == {a \in Readable : Delta[a] > 0}
Owned(owners) == {a \in Active : ValidOwner(owners[a])}
Group(owners, online) ==
  online \cup ({owners[a].device : a \in Owned(owners)} \cap registry)
Booked(owners, online) == {a \in Owned(owners) : owners[a].device \in Group(owners, online)}
Ownerless(owners, s) == {a \in Active \ Owned(owners) : Share(a) = s}
Nobodys(owners) ==
  Ownerless(owners, "own") \cup Ownerless(owners, "global") \cup Ownerless(owners, "dropped")
Bytes(S) == SumFunctionOnSet(Delta, S)
OfDevice(owners, online, d) == Bytes({a \in Booked(owners, online) : owners[a].device = d})
OfIface(owners, online, i) ==
  Bytes({a \in Booked(owners, online) : IfaceOf[owners[a].device] = i})
Unresolved(owners, i) == Bytes({a \in Ownerless(owners, "iface") : i \in place[a].subnets})

\* What a tick does to the baselines and to the keys to prune.
Rebased ==
  /\ prev' = kernel /\ last_ecm' = now
  /\ last_active' = [a \in Addresses |->
       IF a \in Active \/ (a \in Readable /\ last_active[a] = None) THEN now
       ELSE last_active[a]]
  /\ prune' \subseteq Readable

\* Where a tick puts the bytes it read.
Booking(owners, online) ==
  /\ cum_device' = [d \in Devices |-> cum_device[d] + OfDevice(owners, online, d)]
  /\ cum_unresolved' = [i \in Ifaces |-> cum_unresolved[i] + Unresolved(owners, i)]
  /\ cum_lan' = [i \in Ifaces |->
       IF i \in Monitored THEN cum_lan[i] + (OfIface(owners, online, i) + Unresolved(owners, i))
       ELSE cum_lan[i]]
  /\ cum_wan' = cum_wan + Bytes(Ownerless(owners, "wan"))
  /\ unbooked' = unbooked + Bytes(Nobodys(owners))
                 + Bytes(Owned(owners) \ Booked(owners, online))

LEMMA AttributeParts ==
  ASSUME NEW owners, NEW online, NEW sec, Attribute(owners, online, sec)
  PROVE  /\ registry' = registry \cup Group(owners, online)
         /\ Rebased /\ Booking(owners, online)
         /\ too_fast' = (too_fast \/ \E a \in Active : Delta[a] > EcmSeconds(sec))
<1> USE DEF Bytes, Nobodys, Ownerless, Booked, Owned, Group, Active, Delta, Readable
<1>1. registry' = registry \cup Group(owners, online)
  BY DEF Attribute
<1>2. prev' = kernel /\ last_ecm' = now
  BY DEF Attribute
<1>3. last_active' = [a \in Addresses |->
       IF a \in Active \/ (a \in Readable /\ last_active[a] = None) THEN now
       ELSE last_active[a]]
  BY DEF Attribute
<1>4. prune' \subseteq Readable
  BY DEF Attribute
<1>5. cum_device' = [d \in Devices |-> cum_device[d] + OfDevice(owners, online, d)]
  BY DEF Attribute, OfDevice
<1>6. cum_unresolved' = [i \in Ifaces |-> cum_unresolved[i] + Unresolved(owners, i)]
  BY DEF Attribute, Unresolved
<1>7. cum_lan' = [i \in Ifaces |->
       IF i \in Monitored THEN cum_lan[i] + (OfIface(owners, online, i) + Unresolved(owners, i))
       ELSE cum_lan[i]]
  BY DEF Attribute, OfIface, Unresolved, LanGain
<1>8. cum_wan' = cum_wan + Bytes(Ownerless(owners, "wan"))
  BY DEF Attribute
<1>9. unbooked' = unbooked + Bytes(Nobodys(owners))
                 + Bytes(Owned(owners) \ Booked(owners, online))
  BY DEF Attribute
<1>10. too_fast' = (too_fast \/ \E a \in Active : Delta[a] > EcmSeconds(sec))
  BY DEF Attribute
<1> QED BY <1>1, <1>2, <1>3, <1>4, <1>5, <1>6, <1>7, <1>8, <1>9, <1>10 DEF Rebased, Booking

Seconds == IF last_snapshot = None THEN 1 ELSE now - last_snapshot
NewOnes(read_ok) == {a \in Addresses : read_ok /\ NewUnmapped(a)}
Online == UNION {Listed(a) : a \in Addresses}

\* The tick but for the attribution.
TickWith(read_ok, answered, order) ==
  /\ prune = {} /\ last_snapshot # now /\ last_snapshot' = now
  /\ Poll(NewOnes(read_ok) # {}, answered)
  /\ unmapped' = [a \in Addresses |-> IF a \in NewOnes(read_ok) THEN now ELSE unmapped[a]]
  /\ \A a \in Addresses : order[a] \in SetToSeqs(Listed(a))
  /\ owner' = [a \in Addresses |-> Observed(a, order[a])]
  /\ claims' = [a \in Addresses |->
       IF Listed(a) # {} /\ (place[a].v6 => last_fetch' = now)
       THEN [by |-> Listed(a), at |-> now] ELSE claims[a]]
  /\ UNCHANGED <<now, place, neighbors, kernel, total, removing, lost, forgotten>>

LEMMA CollectParts ==
  ASSUME Collect
  PROVE  \E read_ok, answered \in BOOLEAN : \E order :
           /\ TickWith(read_ok, answered, order)
           /\ IF read_ok THEN Attribute(owner', Online, Seconds) ELSE Skip(Online, Seconds)
<1>1. PICK read_ok, answered \in BOOLEAN,
           order \in [Addresses -> UNION {SetToSeqs(S) : S \in SUBSET Devices}] :
       /\ Poll(NewOnes(read_ok) # {}, answered)
       /\ unmapped' = [a \in Addresses |-> IF a \in NewOnes(read_ok) THEN now ELSE unmapped[a]]
       /\ \A a \in Addresses : order[a] \in SetToSeqs(Listed(a))
       /\ owner' = [a \in Addresses |-> Observed(a, order[a])]
       /\ IF read_ok THEN Attribute(owner', Online, Seconds) ELSE Skip(Online, Seconds)
  BY Zenon DEF Collect, NewOnes, Online, Seconds
<1>2. /\ prune = {} /\ last_snapshot # now /\ last_snapshot' = now
      /\ claims' = [a \in Addresses |->
           IF Listed(a) # {} /\ (place[a].v6 => last_fetch' = now)
           THEN [by |-> Listed(a), at |-> now] ELSE claims[a]]
      /\ UNCHANGED <<now, place, neighbors, kernel, total, removing, lost, forgotten>>
  BY DEF Collect, kernelVars
<1>3. TickWith(read_ok, answered, order)
  BY <1>1, <1>2, Zenon DEF TickWith
<1> QED BY <1>1, <1>3, Zenon

-----------------------------------------------------------------------------
(* Types.                                                                  *)

Moment == Time \cup {None}
Entry == [device : Claimant, observed : Moment]

LEMMA Moments ==
  /\ None \in Moment /\ Time \subseteq Moment /\ Time \subseteq Nat
  /\ \A t \in Moment : t \in Int /\ t >= -1 /\ (t # None => t \in Time /\ t >= 0)
BY AttributionAssumption DEF Moment, Time, None

LEMMA PollTyped ==
  ASSUME TypeOK, NEW flagged \in BOOLEAN, NEW answered \in BOOLEAN, Poll(flagged, answered)
  PROVE  /\ cached' \in [Addresses -> SUBSET Devices]
         /\ last_fetch' \in Moment /\ refresh_pending' \in BOOLEAN
<1>1. cached' \in [Addresses -> SUBSET Devices]
  <2>1. CASE PollDue(Requested(flagged))
    BY <2>1 DEF Poll, TypeOK
  <2>2. CASE ~PollDue(Requested(flagged))
    BY <2>2 DEF Poll, TypeOK
  <2> QED BY <2>1, <2>2
<1>2. last_fetch' \in Moment
  BY DEF Poll, TypeOK, Moment
<1>3. refresh_pending' \in BOOLEAN
  BY DEF Poll
<1> QED BY <1>1, <1>2, <1>3

LEMMA ListedTyped ==
  ASSUME TypeOK, cached' \in [Addresses -> SUBSET Devices], NEW a \in Addresses
  PROVE  Listed(a) \in SUBSET Devices /\ \A d \in Listed(a) : IfaceOf[d] \in Monitored
<1>1. neighbors[a] \in SUBSET Devices /\ cached'[a] \in SUBSET Devices
  BY DEF TypeOK
<1> QED BY <1>1 DEF Listed

LEMMA OwnerStep ==
  ASSUME TypeOK, NEW read_ok \in BOOLEAN, NEW answered \in BOOLEAN, NEW order,
         TickWith(read_ok, answered, order), NEW a \in Addresses
  PROVE  /\ owner'[a] \in Entry
         /\ Listed(a) = {} => owner'[a] = Retained(owner[a])
         /\ Listed(a) # {} =>
              /\ owner'[a].observed = SeenAt(a)
              /\ owner'[a].device # NoDevice => Listed(a) = {owner'[a].device}
<1>1. owner[a] \in Entry /\ now \in Moment
  BY DEF TypeOK, Entry, Moment, Claimant
<1>2. Retained(owner[a]) \in Entry
  BY <1>1, Moments DEF Retained, NoOwner, Entry, Claimant
<1>3. /\ cached' \in [Addresses -> SUBSET Devices] /\ last_fetch' \in Moment
  BY PollTyped DEF TickWith
<1>4. Listed(a) \in SUBSET Devices
  BY <1>3, ListedTyped
<1>5. SeenAt(a) \in Moment
  BY <1>1, <1>3 DEF SeenAt
<1>6. order[a] \in SetToSeqs(Listed(a)) /\ owner'[a] = Observed(a, order[a])
  BY DEF TickWith
<1> DEFINE start == [device |-> Retained(owner[a]).device, in_tick |-> FALSE]
           last == ObserveAll(start, order[a]).device
<1>7. /\ Listed(a) = {} <=> order[a] = <<>>
      /\ Listed(a) # {} => last \in Claimant /\ (last # NoDevice => Listed(a) = {last})
  BY <1>4, <1>6, ObserveAllOutcome
<1>8. Observed(a, order[a]) = IF order[a] = <<>> THEN Retained(owner[a])
                              ELSE [device |-> last, observed |-> SeenAt(a)]
  BY DEF Observed
<1> HIDE DEF last
<1>9. CASE Listed(a) = {}
  BY <1>2, <1>6, <1>7, <1>8, <1>9
<1>10. CASE Listed(a) # {}
  <2>1. owner'[a] = [device |-> last, observed |-> SeenAt(a)]
    BY <1>6, <1>7, <1>8, <1>10
  <2> QED BY <1>5, <1>7, <1>10, <2>1 DEF Entry
<1> QED BY <1>9, <1>10

\* What a tick reads of an address is what was pending.
LEMMA DeltaIsPending ==
  ASSUME TypeOK, CountersOK, NEW a \in Addresses
  PROVE  /\ Pending(a) \in Nat
         /\ a \in Readable => Delta[a] = Pending(a)
         /\ a \notin Readable => Pending(a) = 0
         /\ a \in Active <=> Pending(a) > 0
<1>1. kernel[a] \in Moment /\ prev[a] \in Moment /\ prev[a] <= kernel[a]
  BY DEF TypeOK, CountersOK, Moment
<1>2. /\ kernel[a] \in Int /\ kernel[a] >= -1 /\ prev[a] \in Int /\ prev[a] >= -1
      /\ kernel[a] # None => kernel[a] >= 0
  BY <1>1, Moments
<1>3. Pending(a) \in Nat
  BY <1>1, <1>2 DEF Pending, None
<1>4. ASSUME a \in Readable PROVE Delta[a] = Pending(a)
  <2>1. kernel[a] # None /\ Delta[a] = EcmDelta(a)
    BY <1>4 DEF Readable, Delta
  <2> QED BY <1>1, <1>2, <2>1 DEF EcmDelta, Pending, None
<1>5. ASSUME a \notin Readable PROVE Pending(a) = 0
  BY <1>5 DEF Readable, Pending
<1>6. a \in Active <=> a \in Readable /\ Delta[a] > 0
  BY DEF Active
<1> QED BY <1>3, <1>4, <1>5, <1>6

LEMMA DeltaMeasures ==
  ASSUME TypeOK, CountersOK
  PROVE  /\ Active \subseteq Readable /\ Readable \subseteq Addresses
         /\ \A S \in SUBSET Readable : IsFiniteSet(S) /\ Measures(Delta, S) /\ Bytes(S) \in Nat
<1>1. Active \subseteq Readable /\ Readable \subseteq Addresses
  BY DEF Active, Readable
<1>2. \A a \in Readable : Delta[a] \in Nat
  BY <1>1, DeltaIsPending
<1>3. ASSUME NEW S \in SUBSET Readable
      PROVE  IsFiniteSet(S) /\ Measures(Delta, S) /\ Bytes(S) \in Nat
  <2>1. IsFiniteSet(Addresses) /\ S \in SUBSET Addresses
    BY <1>1, AttributionAssumption
  <2>2. IsFiniteSet(S)
    BY <2>1, FS_Subset
  <2>3. Measures(Delta, S)
    BY <1>2 DEF Measures
  <2> QED BY <2>2, <2>3, SumNat DEF Bytes
<1> QED BY <1>1, <1>3

LEMMA PartsReadable ==
  ASSUME NEW owners, NEW online
  PROVE  /\ Owned(owners) \subseteq Active /\ Booked(owners, online) \subseteq Owned(owners)
         /\ \A s : Ownerless(owners, s) \subseteq Active
         /\ Nobodys(owners) \subseteq Active
BY DEF Owned, Booked, Ownerless, Nobodys

\* The sums a tick books are numbers of bytes.
LEMMA BookingTyped ==
  ASSUME TypeOK, HistoryOK, CountersOK, NEW owners, NEW online, Booking(owners, online)
  PROVE  /\ cum_device' \in [Devices -> Nat] /\ cum_lan' \in [Ifaces -> Nat]
         /\ cum_unresolved' \in [Ifaces -> Nat] /\ cum_wan' \in Nat /\ unbooked' \in Nat
<1>1. /\ \A d : OfDevice(owners, online, d) \in Nat
      /\ \A i : OfIface(owners, online, i) \in Nat /\ Unresolved(owners, i) \in Nat
  <2>1. \A d : {a \in Booked(owners, online) : owners[a].device = d} \in SUBSET Readable
    BY DeltaMeasures, PartsReadable
  <2>2. \A i : {a \in Booked(owners, online) : IfaceOf[owners[a].device] = i} \in SUBSET Readable
    BY DeltaMeasures, PartsReadable
  <2>3. \A i : {a \in Ownerless(owners, "iface") : i \in place[a].subnets} \in SUBSET Readable
    BY DeltaMeasures, PartsReadable
  <2> QED BY <2>1, <2>2, <2>3, DeltaMeasures DEF OfDevice, OfIface, Unresolved
<1>2. Bytes(Ownerless(owners, "wan")) \in Nat
  BY DeltaMeasures, PartsReadable
<1>3. Bytes(Nobodys(owners)) \in Nat
  BY DeltaMeasures, PartsReadable
<1>4. Bytes(Owned(owners) \ Booked(owners, online)) \in Nat
  BY DeltaMeasures, PartsReadable
<1>5. cum_device' \in [Devices -> Nat]
  BY <1>1 DEF Booking, TypeOK
<1>6. cum_lan' \in [Ifaces -> Nat]
  BY <1>1 DEF Booking, TypeOK
<1>7. cum_unresolved' \in [Ifaces -> Nat]
  BY <1>1 DEF Booking, TypeOK
<1>8. cum_wan' \in Nat
  BY <1>2 DEF Booking, TypeOK
<1>9. unbooked' \in Nat
  BY <1>3, <1>4 DEF Booking, HistoryOK
<1> QED BY <1>5, <1>6, <1>7, <1>8, <1>9

\* The types and the counters, which every other invariant rests on.
Basic == TypeOK /\ HistoryOK /\ CountersOK

LEMMA BasicInit == Init => Basic
<1> SUFFICES ASSUME Init PROVE Basic
  OBVIOUS
<1>1. 1 \in Time /\ 0 \in Nat
  BY AttributionAssumption DEF Time
<1>2. [device |-> NoDevice, observed |-> None]
        \in [device : Devices \cup {NoDevice}, observed : Time \cup {None}]
  OBVIOUS
<1>3. Cardinality({}) = 0
  BY FS_EmptySet
<1>4. TypeOK
  <2>1. owner \in [Addresses -> [device : Devices \cup {NoDevice}, observed : Time \cup {None}]]
    BY <1>2 DEF Init, NoOwner
  <2>2. removing = {} /\ prune = {} /\ Cardinality(removing) = 0
    BY <1>3 DEF Init
  <2>3. /\ kernel \in [Addresses -> Time \cup {None}] /\ now \in Time
        /\ prev \in [Addresses -> Time \cup {None}]
        /\ last_active \in [Addresses -> Time \cup {None}]
        /\ \A a \in Addresses : prev[a] = None <=> last_active[a] = None
        /\ last_ecm \in Time \cup {None} /\ last_snapshot \in Time \cup {None}
        /\ last_fetch \in Time \cup {None} /\ unmapped \in [Addresses -> Time \cup {None}]
    BY <1>1 DEF Init
  <2>4. /\ cum_device \in [Devices -> Nat] /\ cum_lan \in [Ifaces -> Nat]
        /\ cum_unresolved \in [Ifaces -> Nat] /\ cum_wan \in Nat
    BY <1>1 DEF Init
  <2>5. /\ place \in [Addresses -> Places] /\ neighbors \in [Addresses -> SUBSET Devices]
        /\ cached \in [Addresses -> SUBSET Devices] /\ refresh_pending \in BOOLEAN
        /\ registry = {}
    BY DEF Init
  <2>6. \A a \in Addresses : owner[a].device = NoDevice
    BY DEF Init, NoOwner
  <2> QED BY <2>1, <2>2, <2>3, <2>4, <2>5, <2>6 DEF TypeOK
<1>5. HistoryOK
  BY <1>1 DEF Init, HistoryOK
<1>6. CountersOK
  BY DEF Init, CountersOK, None
<1> QED BY <1>4, <1>5, <1>6 DEF Basic

LEMMA BasicAdvance ==
  ASSUME Basic, Advance
  PROVE  Basic'
<1> USE DEF Basic
<1>1. PICK S \in SUBSET Addresses :
        /\ kernel' = [a \in Addresses |->
             IF a \notin S THEN kernel[a]
             ELSE IF kernel[a] = None THEN 1 ELSE kernel[a] + 1]
        /\ total' = [a \in Addresses |-> total[a] + (IF a \in S THEN 1 ELSE 0)]
  BY DEF Advance
<1>2. /\ now' = now + 1 /\ now < MaxTime
      /\ UNCHANGED <<place, neighbors, cached, last_fetch, refresh_pending, unmapped, owner,
                     registry, prev, last_active, last_ecm, last_snapshot, cum_device, cum_lan,
                     cum_unresolved, cum_wan, prune, removing, unbooked, lost, forgotten,
                     too_fast>>
  BY DEF Advance, pollVars, baseVars, cumVars, tickVars
<1>3. now \in Nat /\ now >= 1 /\ now + 1 \in Time /\ 1 \in Time
  BY <1>2, AttributionAssumption DEF TypeOK, CountersOK, Time
<1>4. ASSUME NEW a \in Addresses
      PROVE  /\ kernel'[a] \in Time \cup {None} /\ kernel'[a] < now + 1
             /\ prev[a] <= kernel'[a]
  <2>1. /\ kernel[a] \in Moment /\ prev[a] \in Moment
        /\ prev[a] <= kernel[a] /\ kernel[a] < now
    BY DEF TypeOK, CountersOK, Moment
  <2>2. /\ kernel[a] \in Int /\ kernel[a] >= -1 /\ prev[a] \in Int
        /\ kernel[a] # None => kernel[a] >= 0
    BY <2>1, Moments
  <2>3. kernel'[a] = IF a \notin S THEN kernel[a]
                     ELSE IF kernel[a] = None THEN 1 ELSE kernel[a] + 1
    BY <1>1
  <2>4. CASE a \notin S
    BY <1>3, <2>1, <2>2, <2>3, <2>4 DEF Moment
  <2>5. CASE a \in S /\ kernel[a] = None
    BY <1>3, <2>1, <2>2, <2>3, <2>5 DEF None
  <2>6. CASE a \in S /\ kernel[a] # None
    <3>1. kernel'[a] = kernel[a] + 1 /\ kernel[a] >= 0
      BY <2>2, <2>3, <2>6
    <3>2. kernel[a] + 1 \in Time
      BY <1>2, <1>3, <2>1, <2>2, <3>1, AttributionAssumption DEF Time
    <3> QED BY <1>3, <2>1, <2>2, <3>1, <3>2
  <2> QED BY <2>4, <2>5, <2>6
<1>5. kernel' \in [Addresses -> Time \cup {None}]
  <2>1. kernel' = [a \in Addresses |-> kernel'[a]]
    BY <1>1
  <2> QED BY <1>4, <2>1
<1>6. TypeOK'
  BY <1>2, <1>3, <1>5 DEF TypeOK
<1>7. HistoryOK'
  BY <1>1, <1>2 DEF HistoryOK
<1>8. CountersOK'
  BY <1>2, <1>3, <1>4 DEF CountersOK
<1> QED BY <1>6, <1>7, <1>8

LEMMA BasicNeighborChange ==
  ASSUME Basic, NeighborChange
  PROVE  Basic'
<1> USE DEF Basic
<1>1. PICK a \in Addresses, S \in SUBSET Devices : neighbors' = [neighbors EXCEPT ![a] = S]
  BY DEF NeighborChange
<1>2. UNCHANGED <<now, place, kernel, total, cached, last_fetch, refresh_pending, unmapped, owner,
                  registry, prev, last_active, last_ecm, last_snapshot, cum_device, cum_lan,
                  cum_unresolved, cum_wan, prune, removing, unbooked, lost, forgotten, too_fast>>
  BY DEF NeighborChange, pollVars, baseVars, cumVars, tickVars
<1>3. TypeOK'
  BY <1>1, <1>2 DEF TypeOK
<1>4. HistoryOK' /\ CountersOK'
  BY <1>2 DEF HistoryOK, CountersOK
<1> QED BY <1>3, <1>4

LEMMA BasicRecheck ==
  ASSUME Basic, Recheck
  PROVE  Basic'
<1> USE DEF Basic
<1>1. UNCHANGED <<now, place, neighbors, kernel, total, cached, last_fetch, refresh_pending,
                  unmapped, owner, registry, prev, last_active, last_ecm, last_snapshot,
                  cum_device, cum_lan, cum_unresolved, cum_wan, unbooked, lost, forgotten,
                  too_fast>>
  BY DEF Recheck, kernelVars, pollVars, baseVars, cumVars
<1>2. PICK a \in prune :
        \/ /\ kernel[a] = prev[a] /\ prune' = prune
           /\ removing' = {[key |-> a, seen |-> kernel[a]]}
        \/ removing' = {} /\ prune' = prune \ {a}
  BY DEF Recheck, StillIdle
<1>3. a \in Addresses /\ prev[a] # None /\ prev[a] \in Time
  BY DEF TypeOK, CountersOK
<1>4. /\ prune' \subseteq prune
      /\ removing' \subseteq [key : prune', seen : Time] /\ Cardinality(removing') <= 1
      /\ \A r \in removing' : r.seen = prev[r.key]
  <2>1. CASE /\ kernel[a] = prev[a] /\ prune' = prune
             /\ removing' = {[key |-> a, seen |-> kernel[a]]}
    <3>1. Cardinality(removing') = 1
      BY <2>1, FS_Singleton
    <3> QED BY <1>3, <2>1, <3>1
  <2>2. CASE removing' = {} /\ prune' = prune \ {a}
    BY <2>2, FS_EmptySet
  <2> QED BY <1>2, <2>1, <2>2
<1>5. TypeOK'
  BY <1>1, <1>4 DEF TypeOK
<1>6. HistoryOK' /\ CountersOK'
  BY <1>1, <1>4 DEF HistoryOK, CountersOK
<1> QED BY <1>5, <1>6

\* The removal of a key succeeds or fails.
Removed(r) ==
  /\ kernel' = [kernel EXCEPT ![r.key] = None]
  /\ lost' = lost + (kernel[r.key] - r.seen)
  /\ prev' = [prev EXCEPT ![r.key] = None]
  /\ last_active' = [last_active EXCEPT ![r.key] = None]
NotRemoved == UNCHANGED <<kernel, lost, prev, last_active>>

LEMMA RemoveKeyParts ==
  ASSUME RemoveKey
  PROVE  \E r \in removing : prune' = prune \ {r.key} /\ (Removed(r) \/ NotRemoved)
BY DEF RemoveKey, Removed, NotRemoved, Forget, baseVars

LEMMA BasicRemoveKey ==
  ASSUME Basic, RemoveKey
  PROVE  Basic'
<1> USE DEF Basic
<1>1. /\ removing' = {}
      /\ UNCHANGED <<now, place, neighbors, total, cached, last_fetch, refresh_pending, unmapped,
                     owner, registry, last_ecm, last_snapshot, cum_device, cum_lan,
                     cum_unresolved, cum_wan, unbooked, forgotten, too_fast>>
  BY DEF RemoveKey, pollVars, cumVars
<1>2. PICK r \in removing : prune' = prune \ {r.key} /\ (Removed(r) \/ NotRemoved)
  BY RemoveKeyParts
<1>3. /\ r.key \in Addresses /\ r.key \in prune /\ r.seen = prev[r.key] /\ r.seen \in Time
      /\ prev[r.key] <= kernel[r.key] /\ kernel[r.key] \in Moment /\ now >= 1 /\ now \in Time
  BY DEF TypeOK, CountersOK, Moment
<1>4. kernel[r.key] - r.seen \in Nat
  <2>1. kernel[r.key] \in Int /\ r.seen \in Nat /\ r.seen <= kernel[r.key]
    BY <1>3, Moments
  <2> QED BY <2>1
<1>5. now \in Nat
  BY <1>3, Moments
<1>6. Cardinality(removing') = 0
  BY <1>1, FS_EmptySet
<1>7. CASE Removed(r)
  <2> USE DEF Removed
  <2>1. TypeOK'
    BY <1>1, <1>2, <1>3, <1>6, <1>7 DEF TypeOK
  <2>2. HistoryOK'
    BY <1>1, <1>4, <1>7 DEF HistoryOK
  <2>3. ASSUME NEW a \in Addresses PROVE kernel'[a] < now' /\ prev'[a] <= kernel'[a]
    <3>1. /\ kernel'[a] = IF a = r.key THEN None ELSE kernel[a]
          /\ prev'[a] = IF a = r.key THEN None ELSE prev[a]
      BY <1>7 DEF TypeOK
    <3>2. CASE a = r.key
      BY <1>1, <1>3, <1>5, <3>1, <3>2 DEF None
    <3>3. CASE a # r.key
      BY <1>1, <3>1, <3>3 DEF CountersOK
    <3> QED BY <3>2, <3>3
  <2>4. \A a \in prune' : prev'[a] # None
    BY <1>2, <1>7 DEF TypeOK, CountersOK
  <2>5. CountersOK'
    BY <1>1, <1>3, <2>3, <2>4 DEF CountersOK
  <2> QED BY <2>1, <2>2, <2>5
<1>8. CASE NotRemoved
  <2> USE DEF NotRemoved
  <2>1. TypeOK'
    BY <1>1, <1>2, <1>3, <1>6, <1>8 DEF TypeOK
  <2>2. HistoryOK'
    BY <1>1, <1>8 DEF HistoryOK
  <2>3. CountersOK'
    BY <1>1, <1>2, <1>8 DEF CountersOK
  <2> QED BY <2>1, <2>2, <2>3
<1> QED BY <1>2, <1>7, <1>8

LEMMA BasicRemoveDevice ==
  ASSUME Basic, RemoveDevice
  PROVE  Basic'
<1> USE DEF Basic
<1>1. UNCHANGED <<now, place, neighbors, kernel, total, cached, last_fetch, refresh_pending,
                  unmapped, prev, last_active, last_ecm, last_snapshot, cum_lan, cum_unresolved,
                  cum_wan, prune, removing, unbooked, lost, too_fast>>
  BY DEF RemoveDevice, kernelVars, pollVars, baseVars, tickVars
<1>2. PICK d \in registry :
        /\ registry' = registry \ {d}
        /\ owner' = [a \in Addresses |-> IF owner[a].device = d THEN NoOwner ELSE owner[a]]
        /\ cum_device' = [cum_device EXCEPT ![d] = 0]
        /\ forgotten' = [forgotten EXCEPT ![IfaceOf[d]] = @ + cum_device[d]]
  BY DEF RemoveDevice
<1>3. d \in Devices /\ IfaceOf[d] \in Ifaces /\ cum_device[d] \in Nat
  BY AttributionAssumption DEF TypeOK
<1>4. owner' \in [Addresses -> [device : Devices \cup {NoDevice}, observed : Time \cup {None}]]
  <2>1. NoOwner \in [device : Devices \cup {NoDevice}, observed : Time \cup {None}]
    BY DEF NoOwner
  <2> QED BY <1>2, <2>1 DEF TypeOK
<1>5. TypeOK'
  <2>1. \A a \in Addresses :
          owner'[a].device # NoDevice => IfaceOf[owner'[a].device] \in Monitored
    BY <1>2 DEF TypeOK, NoOwner
  <2> QED BY <1>1, <1>2, <1>3, <1>4, <2>1 DEF TypeOK
<1>6. HistoryOK'
  BY <1>1, <1>2, <1>3 DEF HistoryOK
<1>7. CountersOK'
  BY <1>1 DEF CountersOK
<1> QED BY <1>5, <1>6, <1>7

LEMMA BasicCollect ==
  ASSUME Basic, Collect
  PROVE  Basic'
<1> USE DEF Basic
<1>1. PICK read_ok, answered \in BOOLEAN : \E order :
        /\ TickWith(read_ok, answered, order)
        /\ IF read_ok THEN Attribute(owner', Online, Seconds) ELSE Skip(Online, Seconds)
  BY CollectParts
<1>2. PICK order :
        /\ TickWith(read_ok, answered, order)
        /\ IF read_ok THEN Attribute(owner', Online, Seconds) ELSE Skip(Online, Seconds)
  BY <1>1
<1>3. /\ UNCHANGED <<now, place, neighbors, kernel, total, removing, lost, forgotten>>
      /\ prune = {} /\ last_snapshot' = now
  BY <1>2 DEF TickWith
<1>4. /\ cached' \in [Addresses -> SUBSET Devices] /\ last_fetch' \in Time \cup {None}
      /\ refresh_pending' \in BOOLEAN
  BY <1>2, PollTyped DEF TickWith, Moment
<1>5. unmapped' \in [Addresses -> Time \cup {None}]
  BY <1>2 DEF TickWith, TypeOK
<1>6. owner' \in [Addresses -> [device : Devices \cup {NoDevice}, observed : Time \cup {None}]]
  <2>1. owner' = [a \in Addresses |-> owner'[a]]
    BY <1>2 DEF TickWith
  <2>2. \A a \in Addresses : owner'[a] \in Entry
    BY <1>2, OwnerStep
  <2> QED BY <2>1, <2>2 DEF Entry, Claimant, Moment
<1>6a. ASSUME NEW a \in Addresses, owner'[a].device # NoDevice
       PROVE  IfaceOf[owner'[a].device] \in Monitored
  <2>1. CASE Listed(a) = {}
    <3>1. owner'[a] = Retained(owner[a])
      BY <1>2, <2>1, OwnerStep
    <3>2. Retained(owner[a]) = owner[a]
      BY <1>6a, <3>1 DEF Retained, NoOwner
    <3> QED BY <1>6a, <3>1, <3>2 DEF TypeOK
  <2>2. CASE Listed(a) # {}
    <3>1. Listed(a) = {owner'[a].device}
      BY <1>2, <1>6a, <2>2, OwnerStep
    <3> QED BY <1>4, <3>1, ListedTyped
  <2> QED BY <2>1, <2>2
<1>7. Online \subseteq Devices /\ \A d \in Online : IfaceOf[d] \in Monitored
  BY <1>4, ListedTyped DEF Online
<1>8. removing' = {} /\ Cardinality(removing') = 0
  BY <1>3, FS_EmptySet DEF TypeOK
<1>9. now \in Time /\ now \in Nat /\ now >= 1 /\ \A a \in Addresses : kernel[a] \in Int
  BY Moments DEF TypeOK, CountersOK, Moment
<1>10. CASE read_ok
  <2>1. Attribute(owner', Online, Seconds)
    BY <1>2, <1>10
  <2>2. /\ registry' = registry \cup Group(owner', Online)
        /\ Rebased /\ Booking(owner', Online)
        /\ too_fast' = (too_fast \/ \E a \in Active : Delta[a] > EcmSeconds(Seconds))
    BY <2>1, AttributeParts
  <2>3. /\ cum_device' \in [Devices -> Nat] /\ cum_lan' \in [Ifaces -> Nat]
        /\ cum_unresolved' \in [Ifaces -> Nat] /\ cum_wan' \in Nat /\ unbooked' \in Nat
    BY <2>2, BookingTyped
  <2>4. registry' \subseteq Devices /\ \A d \in registry' : IfaceOf[d] \in Monitored
    BY <1>7, <2>2 DEF Group, TypeOK
  <2>5. /\ prev' = kernel /\ last_ecm' = now /\ prune' \subseteq Readable
        /\ last_active' \in [Addresses -> Time \cup {None}]
    BY <2>2 DEF Rebased, TypeOK
  <2>6. ASSUME NEW a \in Addresses PROVE prev'[a] = None <=> last_active'[a] = None
    <3>1. /\ last_active'[a] = IF a \in Active \/ (a \in Readable /\ last_active[a] = None)
                               THEN now ELSE last_active[a]
          /\ prev'[a] = kernel[a]
      BY <2>2 DEF Rebased
    <3>2. a \in Readable <=> kernel[a] # None
      BY DEF Readable
    <3>3. Active \subseteq Readable /\ now # None
      BY <1>9 DEF Active, None
    <3>4. kernel[a] = None => last_active[a] = None
      <4>1. kernel[a] = None => prev[a] = None
        <5>1. prev[a] \in Moment /\ prev[a] <= kernel[a]
          BY DEF TypeOK, CountersOK, Moment
        <5>2. prev[a] \in Int /\ prev[a] >= -1
          BY <5>1, Moments
        <5> QED BY <5>1, <5>2 DEF None
      <4> QED BY <4>1 DEF TypeOK
    <3> QED BY <3>1, <3>2, <3>3, <3>4
  <2>7. Readable \subseteq Addresses
    BY DEF Readable
  <2>8. TypeOK'
    BY <1>3, <1>4, <1>5, <1>6, <1>8, <1>9, <1>6a, <2>3, <2>4, <2>5, <2>6, <2>7 DEF TypeOK
  <2>9. HistoryOK'
    BY <1>3, <2>2, <2>3 DEF HistoryOK
  <2>10. CountersOK'
    BY <1>3, <1>8, <1>9, <2>5 DEF CountersOK, Readable
  <2> QED BY <2>8, <2>9, <2>10
<1>11. CASE ~read_ok
  <2>1. Skip(Online, Seconds)
    BY <1>2, <1>11
  <2>2. /\ registry' = registry \cup Online
        /\ last_ecm' = IF last_ecm = None THEN now - Seconds ELSE last_ecm
        /\ UNCHANGED <<prev, last_active, cum_device, cum_lan, cum_unresolved, cum_wan,
                       unbooked, too_fast, prune>>
    BY <2>1 DEF Skip, baseVars, cumVars
  <2>3. registry' \subseteq Devices /\ \A d \in registry' : IfaceOf[d] \in Monitored
    BY <1>7, <2>2 DEF TypeOK
  <2>4. last_ecm' \in Time \cup {None}
    <3>1. now - Seconds \in Time
      <4>1. CASE last_snapshot = None
        BY <1>9, <4>1, AttributionAssumption DEF Seconds, Time
      <4>2. CASE last_snapshot # None
        <5>1. last_snapshot \in Time
          BY <4>2 DEF TypeOK
        <5> QED BY <1>9, <4>2, <5>1, AttributionAssumption DEF Seconds, Time
      <4> QED BY <4>1, <4>2
    <3> QED BY <2>2, <3>1 DEF TypeOK
  <2>5. TypeOK'
    BY <1>3, <1>4, <1>5, <1>6, <1>8, <1>9, <1>6a, <2>2, <2>3, <2>4 DEF TypeOK
  <2>6. HistoryOK'
    BY <1>3, <2>2 DEF HistoryOK
  <2>7. CountersOK'
    BY <1>3, <2>2 DEF CountersOK
  <2> QED BY <2>5, <2>6, <2>7
<1> QED BY <1>10, <1>11

LEMMA BasicStutter ==
  ASSUME Basic, UNCHANGED vars
  PROVE  Basic'
BY DEF Basic, TypeOK, HistoryOK, CountersOK, vars, kernelVars, pollVars, baseVars, cumVars, tickVars

LEMMA BasicStep == Basic /\ [Next]_vars => Basic'
BY BasicAdvance, BasicNeighborChange, BasicCollect, BasicRecheck, BasicRemoveKey,
   BasicRemoveDevice, BasicStutter DEF Next

LEMMA BasicHolds == Spec => []Basic
BY BasicInit, BasicStep, PTL DEF Spec

(* Every variable keeps its type: counters, baselines and times stay within *)
(* the clock, only devices of monitored interfaces are registered, a key   *)
(* has a baseline exactly when it has a time of activity, and at most one  *)
(* key, one of those found idle, is about to be removed.                   *)
THEOREM TypeCorrect == Spec => []TypeOK
<1>1. Basic => TypeOK
  BY DEF Basic
<1> QED BY <1>1, BasicHolds, PTL

-----------------------------------------------------------------------------
(* No rate exceeds the line rate.                                          *)

LEMMA Numbers ==
  ASSUME Basic
  PROVE  /\ now \in Int /\ now >= 1
         /\ last_ecm \in Int /\ last_ecm >= -1
         /\ last_snapshot \in Int /\ last_snapshot >= -1
         /\ last_fetch \in Int /\ last_fetch >= -1
         /\ \A a \in Addresses : /\ kernel[a] \in Int /\ prev[a] \in Int /\ unmapped[a] \in Int
                                 /\ kernel[a] < now /\ kernel[a] >= -1 /\ prev[a] >= -1
                                 /\ unmapped[a] >= -1 /\ prev[a] <= kernel[a]
                                 /\ Pending(a) \in Nat
<1>1. now \in Int /\ now >= 1
  BY Moments DEF Basic, TypeOK, CountersOK, Moment
<1>2. last_ecm \in Moment /\ last_snapshot \in Moment /\ last_fetch \in Moment
  BY DEF Basic, TypeOK, Moment
<1>3. ASSUME NEW a \in Addresses
      PROVE  /\ kernel[a] \in Moment /\ prev[a] \in Moment /\ unmapped[a] \in Moment
             /\ kernel[a] < now /\ prev[a] <= kernel[a]
  BY DEF Basic, TypeOK, CountersOK, Moment
<1>4. \A a \in Addresses : Pending(a) \in Nat
  BY DeltaIsPending DEF Basic
<1> QED BY <1>1, <1>2, <1>3, <1>4, Moments

LEMMA IntervalInit == Init => IntervalOK
<1> SUFFICES ASSUME Init PROVE IntervalOK
  OBVIOUS
<1>1. now = 1 /\ last_snapshot = -1 /\ last_ecm = -1 /\ too_fast = FALSE
  BY DEF Init, None
<1>2. \A a \in Addresses : prev[a] = None
  BY DEF Init
<1> QED BY <1>1, <1>2 DEF IntervalOK, None

LEMMA IntervalAdvance ==
  ASSUME Basic, IntervalOK, Advance
  PROVE  IntervalOK'
<1>1. /\ now' = now + 1 /\ (last_snapshot # None \/ now = 1)
      /\ UNCHANGED <<prev, last_ecm, last_snapshot, too_fast>>
  BY DEF Advance, baseVars
<1>2. now \in Int /\ last_ecm \in Int /\ last_snapshot \in Int
  BY Numbers
<1>3. ASSUME NEW a \in Addresses PROVE Pending(a)' \in Nat /\ Pending(a)' <= Pending(a) + 1
  <2>1. kernel'[a] = kernel[a] \/ kernel'[a] = IF kernel[a] = None THEN 1 ELSE kernel[a] + 1
    BY DEF Advance
  <2>2. kernel[a] \in Int /\ prev[a] \in Int /\ prev[a] <= kernel[a] /\ kernel[a] >= -1 /\ prev[a] >= -1
    BY Numbers
  <2>3. prev'[a] = prev[a]
    BY <1>1
  <2> QED BY <2>1, <2>2, <2>3 DEF Pending, None
<1>4. ASSUME last_ecm' = None
      PROVE  now' <= 2 /\ last_snapshot' = None /\ \A a \in Addresses : prev'[a] = None
  BY <1>1, <1>2, <1>4 DEF IntervalOK
<1>5. ASSUME last_ecm' # None
      PROVE  /\ last_snapshot' # None
             /\ \A a \in Addresses : Pending(a)' <= now' - last_ecm'
  <2>1. last_ecm # None
    BY <1>1, <1>5
  <2>2. last_snapshot # None /\ \A a \in Addresses : Pending(a) <= now - last_ecm
    BY <2>1 DEF IntervalOK
  <2>3. ASSUME NEW a \in Addresses PROVE Pending(a)' <= now' - last_ecm'
    BY <1>1, <1>2, <1>3, <2>2, Numbers
  <2> QED BY <1>1, <2>2, <2>3
<1>6. last_snapshot' <= now' /\ last_ecm' <= now' /\ ~too_fast'
  BY <1>1, <1>2 DEF IntervalOK
<1> QED BY <1>4, <1>5, <1>6 DEF IntervalOK

\* Every other step but the tick's leaves the times alone and does not add to
\* what is pending.
LEMMA IntervalKept ==
  ASSUME Basic, IntervalOK, UNCHANGED <<now, last_ecm, last_snapshot, too_fast>>,
         \A a \in Addresses :
           \/ kernel'[a] = kernel[a] /\ prev'[a] = prev[a]
           \/ kernel'[a] = None /\ prev'[a] = None
  PROVE  IntervalOK'
<1>1. ASSUME NEW a \in Addresses
      PROVE  /\ Pending(a)' <= Pending(a) /\ Pending(a)' \in Int
             /\ prev[a] = None => prev'[a] = None
  <2>1. CASE kernel'[a] = kernel[a] /\ prev'[a] = prev[a]
    BY <2>1, Numbers DEF Pending
  <2>2. CASE kernel'[a] = None /\ prev'[a] = None
    BY <2>2, Numbers DEF Pending
  <2> QED BY <2>1, <2>2
<1>2. now - last_ecm \in Int
  BY Numbers
<1>3. ASSUME last_ecm' # None, NEW a \in Addresses PROVE Pending(a)' <= now' - last_ecm'
  <2>1. Pending(a) <= now - last_ecm /\ Pending(a) \in Int
    BY <1>3, Numbers DEF IntervalOK
  <2> QED BY <1>1, <1>2, <2>1
<1> QED BY <1>1, <1>3 DEF IntervalOK

LEMMA IntervalCollect ==
  ASSUME Basic, IntervalOK, Collect
  PROVE  IntervalOK'
<1>1. PICK read_ok, answered \in BOOLEAN : \E order :
        /\ TickWith(read_ok, answered, order)
        /\ IF read_ok THEN Attribute(owner', Online, Seconds) ELSE Skip(Online, Seconds)
  BY CollectParts
<1>2. now' = now /\ kernel' = kernel /\ last_snapshot' = now
  BY <1>1 DEF TickWith
<1>3. /\ now \in Int /\ now >= 1 /\ last_ecm \in Int /\ last_ecm <= now
      /\ last_snapshot \in Int /\ last_snapshot <= now
  BY Numbers DEF IntervalOK
<1>4. now # None /\ now - 1 # None
  BY <1>3 DEF None
<1>5. CASE read_ok
  <2>1. Attribute(owner', Online, Seconds)
    BY <1>1, <1>5
  <2>2. /\ prev' = kernel /\ last_ecm' = now
        /\ too_fast' = (too_fast \/ \E a \in Active : Delta[a] > EcmSeconds(Seconds))
    BY <2>1, AttributeParts DEF Rebased
  <2>3. ASSUME NEW a \in Active PROVE ~(Delta[a] > EcmSeconds(Seconds))
    <3>1. a \in Readable /\ a \in Addresses
      BY DEF Active, Readable
    <3>2. Delta[a] = Pending(a) /\ Pending(a) \in Nat
      BY <3>1, DeltaIsPending DEF Basic
    <3>3. CASE last_ecm = None
      <4>1. EcmSeconds(Seconds) = 1 /\ now <= 2 /\ prev[a] = None
        BY <3>1, <3>3 DEF IntervalOK, EcmSeconds, Seconds
      <4>2. kernel[a] \in Int /\ kernel[a] < now
        BY <3>1, Numbers
      <4>3. Pending(a) <= 1
        BY <1>3, <4>1, <4>2 DEF Pending
      <4> QED BY <3>2, <4>1, <4>3
    <3>4. CASE last_ecm # None
      <4>1. EcmSeconds(Seconds) = now - last_ecm /\ Pending(a) <= now - last_ecm
        BY <3>1, <3>4 DEF IntervalOK, EcmSeconds
      <4> QED BY <1>3, <3>2, <4>1
    <3> QED BY <3>3, <3>4
  <2>4. ~too_fast'
    BY <2>2, <2>3 DEF IntervalOK
  <2>5. ASSUME NEW a \in Addresses PROVE Pending(a)' = 0
    <3>1. kernel[a] \in Int
      BY Numbers
    <3>2. prev'[a] = kernel[a] /\ kernel'[a] = kernel[a]
      BY <1>2, <2>2
    <3> QED BY <3>1, <3>2 DEF Pending
  <2> QED BY <1>2, <1>3, <1>4, <2>2, <2>4, <2>5 DEF IntervalOK
<1>6. CASE ~read_ok
  <2>1. Skip(Online, Seconds)
    BY <1>1, <1>6
  <2>2. /\ last_ecm' = IF last_ecm = None THEN now - Seconds ELSE last_ecm
        /\ prev' = prev /\ too_fast' = too_fast
    BY <2>1 DEF Skip, baseVars
  <2>3. ASSUME NEW a \in Addresses PROVE Pending(a)' = Pending(a)
    BY <1>2, <2>2 DEF Pending
  <2>4. CASE last_ecm = None
    <3>1. Seconds = 1 /\ now <= 2 /\ \A a \in Addresses : prev[a] = None
      BY <2>4 DEF Seconds, IntervalOK
    <3>2. last_ecm' = now - 1
      BY <2>2, <2>4, <3>1
    <3>3. ASSUME NEW a \in Addresses PROVE Pending(a)' <= now' - last_ecm'
      <4>1. kernel[a] \in Int /\ kernel[a] < now /\ prev[a] = None
        BY <3>1, Numbers
      <4>2. Pending(a) <= 1
        BY <1>3, <3>1, <4>1 DEF Pending
      <4> QED BY <1>2, <1>3, <2>3, <3>2, <4>2
    <3> QED BY <1>2, <1>3, <1>4, <2>2, <3>2, <3>3 DEF IntervalOK
  <2>5. CASE last_ecm # None
    <3>1. last_ecm' = last_ecm /\ \A a \in Addresses : Pending(a) <= now - last_ecm
      BY <2>2, <2>5 DEF IntervalOK
    <3>2. \A a \in Addresses : Pending(a)' <= now' - last_ecm'
      BY <1>2, <2>3, <3>1
    <3> QED BY <1>2, <1>3, <1>4, <2>2, <2>5, <3>1, <3>2 DEF IntervalOK
  <2> QED BY <2>4, <2>5
<1> QED BY <1>5, <1>6

LEMMA IntervalStep == Basic /\ IntervalOK /\ [Next]_vars => IntervalOK'
<1> SUFFICES ASSUME Basic, IntervalOK, [Next]_vars PROVE IntervalOK'
  OBVIOUS
<1>1. CASE NeighborChange
  BY <1>1, IntervalKept DEF NeighborChange, baseVars
<1>2. CASE Recheck
  BY <1>2, IntervalKept DEF Recheck, kernelVars, baseVars
<1>3. CASE RemoveKey
  <2>1. UNCHANGED <<now, last_ecm, last_snapshot, too_fast>>
    BY <1>3 DEF RemoveKey
  <2>2. PICK r \in removing : Removed(r) \/ NotRemoved
    BY <1>3, RemoveKeyParts
  <2>3. ASSUME NEW a \in Addresses
        PROVE  \/ kernel'[a] = kernel[a] /\ prev'[a] = prev[a]
               \/ kernel'[a] = None /\ prev'[a] = None
    <3>1. CASE NotRemoved
      BY <3>1 DEF NotRemoved
    <3>2. CASE Removed(r)
      <4>1. /\ kernel'[a] = IF a = r.key THEN None ELSE kernel[a]
            /\ prev'[a] = IF a = r.key THEN None ELSE prev[a]
        BY <3>2 DEF Removed, Basic, TypeOK
      <4> QED BY <4>1
    <3> QED BY <2>2, <3>1, <3>2
  <2> QED BY <2>1, <2>3, IntervalKept
<1>4. CASE RemoveDevice
  BY <1>4, IntervalKept DEF RemoveDevice, kernelVars, baseVars
<1>5. CASE UNCHANGED vars
  BY <1>5, IntervalKept DEF vars, kernelVars, baseVars
<1> QED BY <1>1, <1>2, <1>3, <1>4, <1>5, IntervalAdvance, IntervalCollect DEF Next

(* No device, interface or WAN is ever reported with more than the line    *)
(* carries: however many reads of the kernel's map fail, the bytes that    *)
(* piled up are divided by the time since the last good read, and the      *)
(* first tick comes at once after the probes were attached.                *)
THEOREM RatesStayWithinLine == Spec => []RateWithinLine
<1>1. Basic /\ IntervalOK => RateWithinLine
  BY DEF IntervalOK, RateWithinLine
<1> QED BY <1>1, BasicHolds, IntervalInit, IntervalStep, PTL DEF Spec

-----------------------------------------------------------------------------
(* A new IPv6 address is looked up soon.                                   *)

LEMMA RequestInit == Init => RequestOK
BY DEF Init, RequestOK, None

LEMMA RequestKept ==
  ASSUME Basic, RequestOK, now' = now \/ now' = now + 1,
         UNCHANGED <<unmapped, last_fetch, refresh_pending, last_snapshot>>
  PROVE  RequestOK'
BY Numbers DEF RequestOK

LEMMA RequestCollect ==
  ASSUME Basic, RequestOK, Collect
  PROVE  RequestOK'
<1>1. PICK read_ok, answered \in BOOLEAN : \E order : TickWith(read_ok, answered, order)
  BY CollectParts
<1> DEFINE force == Requested(NewOnes(read_ok) # {})
<1>2. /\ now' = now /\ last_snapshot' = now
      /\ unmapped' = [a \in Addresses |-> IF a \in NewOnes(read_ok) THEN now ELSE unmapped[a]]
      /\ last_fetch' = IF PollDue(force) THEN now ELSE last_fetch
      /\ refresh_pending' = (force /\ ~PollDue(TRUE))
  BY <1>1 DEF TickWith, Poll
<1>3. now \in Int /\ last_fetch \in Int /\ now # None
  BY Numbers DEF None
<1>4. FastPoll \in Int /\ PollInterval \in Int /\ FastPoll <= PollInterval
  BY AttributionAssumption
<1>5. force = (refresh_pending \/ NewOnes(read_ok) # {})
  BY DEF Requested
<1> HIDE DEF force
<1>6. ASSUME NEW a \in Addresses
      PROVE  /\ unmapped'[a] <= now /\ unmapped'[a] \in Int
             /\ unmapped'[a] # None =>
                  \/ last_fetch' >= unmapped'[a]
                  \/ refresh_pending' /\ last_fetch' # None /\ last_snapshot' - last_fetch' < FastPoll
  <2>1. unmapped[a] \in Int /\ unmapped[a] <= now
    BY Numbers DEF RequestOK
  <2>2. unmapped'[a] = IF a \in NewOnes(read_ok) THEN now ELSE unmapped[a]
    BY <1>2
  <2>3. unmapped'[a] \in Int /\ unmapped'[a] <= now
    BY <1>3, <2>1, <2>2
  <2>4. CASE PollDue(force)
    BY <1>2, <2>3, <2>4
  <2>5. CASE ~PollDue(force) /\ force
    <3>1. SincePoll < FastPoll /\ ~PollDue(TRUE)
      BY <1>3, <1>4, <2>5 DEF PollDue, SincePoll
    <3>2. last_fetch # None /\ now - last_fetch < FastPoll
      BY <1>3, <1>4, <3>1 DEF SincePoll
    <3> QED BY <1>2, <2>3, <2>5, <3>1, <3>2
  <2>6. CASE ~PollDue(force) /\ ~force
    <3>1. unmapped'[a] = unmapped[a] /\ last_fetch' = last_fetch /\ ~refresh_pending
      BY <1>2, <1>5, <2>2, <2>6
    <3> QED BY <2>3, <3>1 DEF RequestOK
  <2> QED BY <2>4, <2>5, <2>6
<1> QED BY <1>2, <1>6 DEF RequestOK

LEMMA RequestStep == Basic /\ RequestOK /\ [Next]_vars => RequestOK'
<1> SUFFICES ASSUME Basic, RequestOK, [Next]_vars PROVE RequestOK'
  OBVIOUS
<1>1. CASE Advance
  BY <1>1, RequestKept DEF Advance, pollVars
<1>2. CASE NeighborChange
  BY <1>2, RequestKept DEF NeighborChange, pollVars
<1>3. CASE Recheck
  BY <1>3, RequestKept DEF Recheck, kernelVars, pollVars
<1>4. CASE RemoveKey
  BY <1>4, RequestKept DEF RemoveKey, pollVars
<1>5. CASE RemoveDevice
  BY <1>5, RequestKept DEF RemoveDevice, kernelVars, pollVars
<1>6. CASE UNCHANGED vars
  BY <1>6, RequestKept DEF vars, kernelVars, pollVars
<1> QED BY <1>1, <1>2, <1>3, <1>4, <1>5, <1>6, RequestCollect DEF Next

(* The neighbour table is asked for within the fast poll interval after a  *)
(* new IPv6 address without an owner was first read, whatever polls came   *)
(* before, however the requests of several addresses overlap and although  *)
(* a request that comes too early is only remembered.                      *)
THEOREM NewAddressesPolled == Spec => []NewAddressPolled
<1>1. Basic /\ RequestOK => NewAddressPolled
  <2> SUFFICES ASSUME Basic, RequestOK, NEW a \in Addresses, unmapped[a] # None,
                      last_snapshot >= unmapped[a] + FastPoll
               PROVE  last_fetch >= unmapped[a]
    BY DEF NewAddressPolled
  <2>1. FastPoll \in Int
    BY AttributionAssumption
  <2> QED BY <2>1, Numbers DEF RequestOK
<1> QED BY <1>1, BasicHolds, RequestInit, RequestStep, PTL DEF Spec

-----------------------------------------------------------------------------
(* An owner was the only claimant.                                         *)

LEMMA ClaimsInit == Init => ClaimsOK /\ OwnerIsSoleClaimant
<1> SUFFICES ASSUME Init PROVE ClaimsOK /\ OwnerIsSoleClaimant
  OBVIOUS
<1>1. \A a \in Addresses : Passing(a, cached[a]) = {}
  BY DEF Init, Passing
<1>2. claims \in [Addresses -> [by : SUBSET Devices, at : Time \cup {None}]]
  BY DEF Init
<1>3. \A a \in Addresses : owner[a].device = NoDevice
  BY DEF Init, NoOwner
<1> QED BY <1>1, <1>2, <1>3 DEF ClaimsOK, OwnerIsSoleClaimant

\* A step that neither reads a table nor makes an owner.
LEMMA ClaimsKept ==
  ASSUME ClaimsOK, OwnerIsSoleClaimant, UNCHANGED <<place, cached, last_fetch, claims>>,
         \A a \in Addresses : owner'[a] = owner[a] \/ owner'[a] = NoOwner
  PROVE  ClaimsOK' /\ OwnerIsSoleClaimant'
<1>1. ClaimsOK'
  BY DEF ClaimsOK, Passing
<1>2. OwnerIsSoleClaimant'
  BY DEF OwnerIsSoleClaimant, NoOwner
<1> QED BY <1>1, <1>2

LEMMA ClaimsCollect ==
  ASSUME Basic, ClaimsOK, OwnerIsSoleClaimant, Collect
  PROVE  ClaimsOK' /\ OwnerIsSoleClaimant'
<1>1. PICK read_ok, answered \in BOOLEAN : \E order : TickWith(read_ok, answered, order)
  BY CollectParts
<1>2. PICK order : TickWith(read_ok, answered, order)
  BY <1>1
<1>3. /\ place' = place /\ now' = now
      /\ claims' = [a \in Addresses |->
           IF Listed(a) # {} /\ (place[a].v6 => last_fetch' = now)
           THEN [by |-> Listed(a), at |-> now] ELSE claims[a]]
      /\ Poll(NewOnes(read_ok) # {}, answered)
  BY <1>2 DEF TickWith
<1>4. cached' \in [Addresses -> SUBSET Devices] /\ now \in Time
  BY <1>3, PollTyped DEF Basic, TypeOK
<1>5. ASSUME NEW a \in Addresses, place[a].v6
      PROVE  /\ Listed(a) = Passing(a, cached'[a])
             /\ last_fetch' = now \/ (cached' = cached /\ last_fetch' = last_fetch)
  BY <1>3, <1>5 DEF Listed, Passing, Poll
<1>6. ASSUME NEW a \in Addresses, ~place[a].v6 \/ last_fetch' = now, Listed(a) # {}
      PROVE  claims'[a] = [by |-> Listed(a), at |-> now]
  BY <1>3, <1>6
<1>7. ASSUME NEW a \in Addresses, place[a].v6, last_fetch' # now \/ Listed(a) = {}
      PROVE  claims'[a] = claims[a]
  BY <1>3, <1>7
<1>8. ASSUME NEW a \in Addresses, place[a].v6, Listed(a) # {}
      PROVE  claims'[a] = [by |-> Listed(a), at |-> last_fetch']
  <2>1. CASE last_fetch' = now
    BY <1>6, <1>8, <2>1
  <2>2. CASE last_fetch' # now
    <3>1. cached' = cached /\ last_fetch' = last_fetch /\ Listed(a) = Passing(a, cached[a])
      BY <1>5, <1>8, <2>2
    <3> QED BY <1>7, <1>8, <2>2, <3>1 DEF ClaimsOK
  <2> QED BY <2>1, <2>2
<1>9. ClaimsOK'
  <2>1. claims' \in [Addresses -> [by : SUBSET Devices, at : Time \cup {None}]]
    <3>1. \A a \in Addresses : Listed(a) \in SUBSET Devices
      BY <1>4, ListedTyped DEF Basic
    <3> QED BY <1>3, <1>4, <3>1 DEF ClaimsOK
  <2>2. ASSUME NEW a \in Addresses PROVE Passing(a, cached[a])' = Passing(a, cached'[a])
    BY <1>3 DEF Passing
  <2> QED BY <1>3, <1>5, <1>8, <2>1, <2>2 DEF ClaimsOK
<1>10. ASSUME NEW a \in Addresses, owner'[a].device # NoDevice
       PROVE  claims'[a] = [by |-> {owner'[a].device}, at |-> owner'[a].observed]
  <2>1. CASE Listed(a) = {}
    <3>1. owner'[a] = Retained(owner[a])
      BY <1>2, <2>1, OwnerStep DEF Basic
    <3>2. owner'[a] = owner[a]
      BY <1>10, <3>1 DEF Retained, NoOwner
    <3>3. claims'[a] = claims[a]
      BY <1>3, <2>1
    <3> QED BY <1>10, <3>2, <3>3 DEF OwnerIsSoleClaimant
  <2>2. CASE Listed(a) # {}
    <3>1. owner'[a].observed = SeenAt(a) /\ Listed(a) = {owner'[a].device}
      BY <1>2, <1>10, <2>2, OwnerStep DEF Basic
    <3>2. claims'[a] = [by |-> Listed(a), at |-> SeenAt(a)]
      BY <1>6, <1>8, <2>2 DEF SeenAt
    <3> QED BY <3>1, <3>2
  <2> QED BY <2>1, <2>2
<1> QED BY <1>9, <1>10 DEF OwnerIsSoleClaimant

LEMMA ClaimsStep ==
  Basic /\ ClaimsOK /\ OwnerIsSoleClaimant /\ [Next]_vars => ClaimsOK' /\ OwnerIsSoleClaimant'
<1> SUFFICES ASSUME Basic, ClaimsOK, OwnerIsSoleClaimant, [Next]_vars
             PROVE  ClaimsOK' /\ OwnerIsSoleClaimant'
  OBVIOUS
<1>1. CASE Advance
  BY <1>1, ClaimsKept DEF Advance, pollVars
<1>2. CASE NeighborChange
  BY <1>2, ClaimsKept DEF NeighborChange, pollVars
<1>3. CASE Recheck
  BY <1>3, ClaimsKept DEF Recheck, kernelVars, pollVars
<1>4. CASE RemoveKey
  BY <1>4, ClaimsKept DEF RemoveKey, pollVars
<1>5. CASE RemoveDevice
  BY <1>5, ClaimsKept DEF RemoveDevice, kernelVars, pollVars
<1>6. CASE UNCHANGED vars
  BY <1>6, ClaimsKept DEF vars, kernelVars, pollVars
<1> QED BY <1>1, <1>2, <1>3, <1>4, <1>5, <1>6, ClaimsCollect DEF Next

(* No address belongs to a device that had to share it: for any number of  *)
(* devices that claim it, in whatever order the kernel lists them, over    *)
(* polls that fail or are not due, the owner is the only device of the     *)
(* table that last listed the address, since the time of that table.       *)
THEOREM OwnersAreSoleClaimants == Spec => []OwnerIsSoleClaimant
BY BasicHolds, ClaimsInit, ClaimsStep, PTL DEF Spec

-----------------------------------------------------------------------------
(* The total of an interface is the sum of its parts.                      *)

On(i) == {d \in Devices : IfaceOf[d] = i}

LEMMA InterfaceParts ==
  InterfaceIsSumOfParts <=>
    \A i \in Ifaces :
      cum_lan[i] = SumFunctionOnSet(cum_device, On(i)) + cum_unresolved[i] + forgotten[i]
BY DEF InterfaceIsSumOfParts, On

LEMMA OnFinite ==
  ASSUME NEW i
  PROVE  IsFiniteSet(On(i)) /\ On(i) \in SUBSET Devices
<1>1. IsFiniteSet(Devices)
  BY AttributionAssumption
<1>2. On(i) \in SUBSET Devices
  BY DEF On
<1> QED BY <1>1, <1>2, FS_Subset

LEMMA DevicesMeasured ==
  ASSUME Basic, NEW S \in SUBSET Devices
  PROVE  Measures(cum_device, S)
BY DEF Basic, TypeOK, Measures

\* A booked address belongs to a device.
LEMMA BookedTyped ==
  ASSUME NEW owners, NEW online, owners \in [Addresses -> Entry]
  PROVE  \A a \in Booked(owners, online) : a \in Addresses /\ owners[a].device \in Devices
<1>1. \A a \in Booked(owners, online) : a \in Owned(owners)
  BY PartsReadable
<1>2. \A a \in Owned(owners) : a \in Addresses /\ ValidOwner(owners[a])
  BY DEF Owned, Active, Readable
<1>3. \A e \in Entry : e.device \in Devices \cup {NoDevice}
  BY DEF Entry, Claimant
<1> QED BY <1>1, <1>2, <1>3 DEF ValidOwner

\* What the devices of an interface gain in a tick is what the interface
\* gains through them.
LEMMA DevicesOfIface ==
  ASSUME Basic, NEW owners, NEW online, owners \in [Addresses -> Entry],
         NEW G, G = [d \in Devices |-> OfDevice(owners, online, d)], NEW i
  PROVE  /\ Measures(G, On(i))
         /\ SumFunctionOnSet(G, On(i)) = OfIface(owners, online, i)
<1> DEFINE k == [a \in Addresses |-> owners[a].device]
           S == {a \in Booked(owners, online) : IfaceOf[owners[a].device] = i}
<1>1. \A a \in Booked(owners, online) : a \in Addresses /\ owners[a].device \in Devices
  BY BookedTyped
<1>2. S \in SUBSET Readable
  BY DeltaMeasures, PartsReadable DEF Basic
<1>3. IsFiniteSet(S) /\ Measures(Delta, S)
  BY <1>2, DeltaMeasures DEF Basic
<1>4. \A a \in S : k[a] \in On(i)
  BY <1>1 DEF On
<1>5. ASSUME NEW d \in On(i)
      PROVE  G[d] = SumFunctionOnSet(Delta, Grouped(k, S, d))
  <2>1. d \in Devices /\ IfaceOf[d] = i
    BY DEF On
  <2>2. Grouped(k, S, d) = {a \in Booked(owners, online) : owners[a].device = d}
    BY <1>1, <2>1 DEF Grouped
  <2>3. G[d] = OfDevice(owners, online, d)
    BY <2>1
  <2> QED BY <2>2, <2>3 DEF OfDevice, Bytes
<1>6. Groups(G, Delta, k, S, On(i))
  <2> HIDE DEF k, S
  <2> QED BY <1>4, <1>5 DEF Groups
<1>7. OfIface(owners, online, i) = SumFunctionOnSet(Delta, S)
  BY DEF OfIface, Bytes
<1> HIDE DEF k, S
<1>8. Measures(G, On(i)) /\ SumFunctionOnSet(G, On(i)) = SumFunctionOnSet(Delta, S)
  BY <1>3, <1>6, OnFinite, SumGroups
<1> QED BY <1>7, <1>8

\* An interface that is not monitored gains nothing: no owner is on it, and
\* the bytes of its subnet are dropped.
LEMMA UnmonitoredGains ==
  ASSUME Basic, Basic', NEW online, NEW i \in Ifaces, i \notin Monitored
  PROVE  OfIface(owner', online, i) = 0 /\ Unresolved(owner', i) = 0
<1>1. {a \in Booked(owner', online) : IfaceOf[owner'[a].device] = i} = {}
  <2>1. \A a \in Booked(owner', online) : a \in Addresses /\ ValidOwner(owner'[a])
    BY DEF Booked, Owned, Active, Readable
  <2>2. \A a \in Addresses :
          owner'[a].device # NoDevice => IfaceOf[owner'[a].device] \in Monitored
    BY DEF Basic, TypeOK
  <2> QED BY <2>1, <2>2 DEF ValidOwner
<1>2. {a \in Ownerless(owner', "iface") : i \in place[a].subnets} = {}
  <2>1. \A a \in Ownerless(owner', "iface") : place[a].subnets \subseteq Monitored
    BY DEF Ownerless, Share
  <2> QED BY <2>1
<1>3. Bytes({}) = 0
  BY SumEmpty DEF Bytes
<1> QED BY <1>1, <1>2, <1>3 DEF OfIface, Unresolved

LEMMA InterfaceInit == Init => InterfaceIsSumOfParts
<1> SUFFICES ASSUME Init, NEW i \in Ifaces
             PROVE  cum_lan[i] = SumFunctionOnSet(cum_device, On(i)) + cum_unresolved[i] + forgotten[i]
  BY InterfaceParts
<1>1. Vanishes(cum_device, On(i))
  BY DEF Init, Vanishes, On
<1>2. SumFunctionOnSet(cum_device, On(i)) = 0
  BY <1>1, OnFinite, SumZero
<1>3. cum_lan[i] = 0 /\ cum_unresolved[i] = 0 /\ forgotten[i] = 0
  BY DEF Init
<1> QED BY <1>2, <1>3

LEMMA InterfaceCollect ==
  ASSUME Basic, Basic', InterfaceIsSumOfParts, Collect
  PROVE  InterfaceIsSumOfParts'
<1>1. PICK read_ok, answered \in BOOLEAN : \E order :
        /\ TickWith(read_ok, answered, order)
        /\ IF read_ok THEN Attribute(owner', Online, Seconds) ELSE Skip(Online, Seconds)
  BY CollectParts
<1>2. forgotten' = forgotten
  BY <1>1 DEF TickWith
<1>3. CASE read_ok
  <2>1. Attribute(owner', Online, Seconds)
    BY <1>1, <1>3
  <2>2. Booking(owner', Online)
    BY <2>1, AttributeParts
  <2>3. owner' \in [Addresses -> Entry]
    BY DEF Basic, TypeOK, Entry, Claimant, Moment
  <2> SUFFICES ASSUME NEW i \in Ifaces
               PROVE  cum_lan'[i] = SumFunctionOnSet(cum_device', On(i)) + cum_unresolved'[i]
                                    + forgotten'[i]
    BY DEF InterfaceIsSumOfParts, On
  <2> DEFINE G == [d \in Devices |-> OfDevice(owner', Online, d)]
             n == SumFunctionOnSet(cum_device, On(i))
             lan == OfIface(owner', Online, i)
             more == Unresolved(owner', i)
  <2>4. Measures(G, On(i)) /\ SumFunctionOnSet(G, On(i)) = lan
    BY <2>3, DevicesOfIface
  <2>5. Adds(cum_device', cum_device, G, On(i))
    BY <2>2 DEF Booking, Adds, On
  <2> HIDE DEF G
  <2>6. SumFunctionOnSet(cum_device', On(i)) = n + lan
    BY <2>4, <2>5, OnFinite, DevicesMeasured, SumAdds
  <2>7. n \in Nat
    BY OnFinite, DevicesMeasured, SumNat
  <2>8. lan \in Nat
    BY <2>4, OnFinite, SumNat
  <2>9. cum_lan'[i] = cum_lan[i] + (lan + more) /\ cum_unresolved'[i] = cum_unresolved[i] + more
    <3>1. CASE i \in Monitored
      BY <2>2, <3>1 DEF Booking
    <3>2. CASE i \notin Monitored
      <4>1. lan = 0 /\ more = 0
        BY <3>2, UnmonitoredGains
      <4>2. cum_lan[i] \in Nat
        BY DEF Basic, TypeOK
      <4> QED BY <2>2, <3>2, <4>1, <4>2 DEF Booking
    <3> QED BY <3>1, <3>2
  <2>10. cum_unresolved[i] \in Nat /\ cum_unresolved'[i] \in Nat /\ forgotten[i] \in Nat
    BY DEF Basic, TypeOK, HistoryOK
  <2>11. more \in Nat
    <3>1. {a \in Ownerless(owner', "iface") : i \in place[a].subnets} \in SUBSET Readable
      BY DeltaMeasures, PartsReadable DEF Basic
    <3> QED BY <3>1, DeltaMeasures DEF Basic, Unresolved
  <2>12. cum_lan[i] = n + cum_unresolved[i] + forgotten[i]
    BY DEF InterfaceIsSumOfParts, On
  <2> HIDE DEF n, lan, more
  <2> QED BY <1>2, <2>6, <2>7, <2>8, <2>9, <2>10, <2>11, <2>12
<1>4. CASE ~read_ok
  <2>1. Skip(Online, Seconds)
    BY <1>1, <1>4
  <2>2. UNCHANGED <<cum_device, cum_lan, cum_unresolved, forgotten>>
    BY <1>2, <2>1 DEF Skip, cumVars
  <2> QED BY <2>2 DEF InterfaceIsSumOfParts
<1> QED BY <1>3, <1>4

LEMMA InterfaceRemoveDevice ==
  ASSUME Basic, InterfaceIsSumOfParts, RemoveDevice
  PROVE  InterfaceIsSumOfParts'
<1>1. UNCHANGED <<cum_lan, cum_unresolved>>
  BY DEF RemoveDevice
<1>2. PICK d \in registry :
        /\ cum_device' = [cum_device EXCEPT ![d] = 0]
        /\ forgotten' = [forgotten EXCEPT ![IfaceOf[d]] = @ + cum_device[d]]
  BY DEF RemoveDevice
<1>3. d \in Devices /\ cum_device[d] \in Nat
  BY DEF Basic, TypeOK
<1> SUFFICES ASSUME NEW i \in Ifaces
             PROVE  cum_lan'[i] = SumFunctionOnSet(cum_device', On(i)) + cum_unresolved'[i]
                                  + forgotten'[i]
  BY DEF InterfaceIsSumOfParts, On
<1> DEFINE R == On(i) \ {d}
<1>4. IsFiniteSet(On(i)) /\ On(i) \in SUBSET Devices /\ IsFiniteSet(R) /\ R \in SUBSET Devices
  BY OnFinite, FS_Subset
<1>5. /\ Measures(cum_device, On(i)) /\ Measures(cum_device, R)
      /\ Measures(cum_device', On(i)) /\ Agree(cum_device, cum_device', R)
  BY <1>2, <1>4 DEF Measures, Agree, Basic, TypeOK
<1> HIDE DEF R
<1>6. /\ SumFunctionOnSet(cum_device', R) = SumFunctionOnSet(cum_device, R)
      /\ SumFunctionOnSet(cum_device, R) \in Nat
  BY <1>4, <1>5, SumAgree, SumNat
<1>7. cum_lan[i] = SumFunctionOnSet(cum_device, On(i)) + cum_unresolved[i] + forgotten[i]
  BY DEF InterfaceIsSumOfParts, On
<1>8. cum_unresolved[i] \in Nat /\ forgotten[i] \in Nat
  BY DEF Basic, TypeOK, HistoryOK
<1>9. CASE IfaceOf[d] = i
  <2>1. d \in On(i)
    BY <1>3, <1>9 DEF On
  <2>2. /\ SumFunctionOnSet(cum_device, On(i)) = cum_device[d] + SumFunctionOnSet(cum_device, R)
        /\ SumFunctionOnSet(cum_device', On(i)) = cum_device'[d] + SumFunctionOnSet(cum_device', R)
    BY <1>4, <1>5, <2>1, SumRemove DEF R
  <2>3. cum_device'[d] = 0 /\ forgotten'[i] = forgotten[i] + cum_device[d]
    BY <1>2, <1>3, <1>9 DEF Basic, TypeOK, HistoryOK
  <2> QED BY <1>1, <1>3, <1>6, <1>7, <1>8, <2>2, <2>3
<1>10. CASE IfaceOf[d] # i
  <2>1. R = On(i)
    BY <1>10 DEF On, R
  <2>2. forgotten'[i] = forgotten[i]
    BY <1>2, <1>10 DEF Basic, HistoryOK
  <2> QED BY <1>1, <1>6, <1>7, <2>1, <2>2
<1> QED BY <1>9, <1>10

LEMMA InterfaceStep ==
  Basic /\ Basic' /\ InterfaceIsSumOfParts /\ [Next]_vars => InterfaceIsSumOfParts'
<1> SUFFICES ASSUME Basic, Basic', InterfaceIsSumOfParts, [Next]_vars
             PROVE  InterfaceIsSumOfParts'
  OBVIOUS
<1>1. ASSUME UNCHANGED <<cum_device, cum_lan, cum_unresolved, forgotten>>
      PROVE  InterfaceIsSumOfParts'
  BY <1>1 DEF InterfaceIsSumOfParts
<1>2. CASE Advance
  BY <1>1, <1>2 DEF Advance, cumVars
<1>3. CASE NeighborChange
  BY <1>1, <1>3 DEF NeighborChange, cumVars
<1>4. CASE Recheck
  BY <1>1, <1>4 DEF Recheck, cumVars
<1>5. CASE RemoveKey
  BY <1>1, <1>5 DEF RemoveKey, cumVars
<1>6. CASE UNCHANGED vars
  BY <1>1, <1>6 DEF vars, cumVars
<1> QED BY <1>2, <1>3, <1>4, <1>5, <1>6, InterfaceCollect, InterfaceRemoveDevice DEF Next

(* For any devices on any interfaces the total of an interface is what its *)
(* devices, also those that were removed, and its unresolved share add up  *)
(* to: no address is booked to a device and not to its interface, or to    *)
(* two of either.                                                          *)
THEOREM InterfacesAddUp == Spec => []InterfaceIsSumOfParts
BY BasicHolds, InterfaceInit, InterfaceStep, PTL DEF Spec

-----------------------------------------------------------------------------
(* Every byte is attributed once.                                          *)

Sum(f, S) == SumFunctionOnSet(f, S)
Pend == [a \in Addresses |-> Pending(a)]

LEMMA Ledger ==
  ASSUME Basic
  PROVE  /\ EveryEcmByteOnce <=>
              Sum(total, Addresses) =
                Sum(cum_device, Devices) + Sum(forgotten, Ifaces) + Sum(cum_unresolved, Ifaces)
                + cum_wan + unbooked + lost + Sum(Pend, Addresses)
         /\ Measures(total, Addresses) /\ Measures(cum_device, Devices)
         /\ Measures(forgotten, Ifaces) /\ Measures(cum_unresolved, Ifaces)
         /\ Measures(Pend, Addresses) /\ cum_wan \in Nat /\ unbooked \in Nat /\ lost \in Nat
         /\ Sum(total, Addresses) \in Nat /\ Sum(cum_device, Devices) \in Nat
         /\ Sum(forgotten, Ifaces) \in Nat /\ Sum(cum_unresolved, Ifaces) \in Nat
         /\ Sum(Pend, Addresses) \in Nat
<1>1. /\ DOMAIN total = Addresses /\ DOMAIN cum_device = Devices
      /\ DOMAIN forgotten = Ifaces /\ DOMAIN cum_unresolved = Ifaces /\ DOMAIN Pend = Addresses
  BY DEF Basic, TypeOK, HistoryOK, Pend
<1>2. EveryEcmByteOnce <=>
        Sum(total, Addresses) =
          Sum(cum_device, Devices) + Sum(forgotten, Ifaces) + Sum(cum_unresolved, Ifaces)
          + cum_wan + unbooked + lost + Sum(Pend, Addresses)
  <2>1. /\ SumFunction(total) = Sum(total, Addresses)
        /\ SumFunction(cum_device) = Sum(cum_device, Devices)
        /\ SumFunction(forgotten) = Sum(forgotten, Ifaces)
        /\ SumFunction(cum_unresolved) = Sum(cum_unresolved, Ifaces)
        /\ SumFunction(Pend) = Sum(Pend, Addresses)
    BY <1>1, Zenon DEF SumFunction, Sum
  <2>2. SumFunction([a \in Addresses |-> Pending(a)]) = SumFunction(Pend)
    BY DEF Pend
  <2> QED BY <2>1, <2>2, Zenon DEF EveryEcmByteOnce
<1>3. /\ Measures(total, Addresses) /\ Measures(cum_device, Devices)
      /\ Measures(forgotten, Ifaces) /\ Measures(cum_unresolved, Ifaces)
  BY DEF Basic, TypeOK, HistoryOK, Measures
<1>4. Measures(Pend, Addresses)
  BY Numbers DEF Measures, Pend
<1>5. IsFiniteSet(Addresses) /\ IsFiniteSet(Devices) /\ IsFiniteSet(Ifaces)
  BY AttributionAssumption
<1>6. /\ Sum(total, Addresses) \in Nat /\ Sum(cum_device, Devices) \in Nat
      /\ Sum(forgotten, Ifaces) \in Nat /\ Sum(cum_unresolved, Ifaces) \in Nat
      /\ Sum(Pend, Addresses) \in Nat
  BY <1>3, <1>4, <1>5, SumNat DEF Sum
<1>7. cum_wan \in Nat /\ unbooked \in Nat /\ lost \in Nat
  BY DEF Basic, TypeOK, HistoryOK
<1> QED BY <1>2, <1>3, <1>4, <1>6, <1>7

LEMMA LedgerNext ==
  Basic' =>
    /\ EveryEcmByteOnce' <=>
         Sum(total', Addresses) =
           Sum(cum_device', Devices) + Sum(forgotten', Ifaces) + Sum(cum_unresolved', Ifaces)
           + cum_wan' + unbooked' + lost' + Sum(Pend', Addresses)
    /\ Measures(Pend', Addresses)
<1>1. Basic => /\ EveryEcmByteOnce <=>
                    Sum(total, Addresses) =
                      Sum(cum_device, Devices) + Sum(forgotten, Ifaces)
                      + Sum(cum_unresolved, Ifaces)
                      + cum_wan + unbooked + lost + Sum(Pend, Addresses)
               /\ Measures(Pend, Addresses)
  BY Ledger
<1>2. (Basic => /\ EveryEcmByteOnce <=>
                     Sum(total, Addresses) =
                       Sum(cum_device, Devices) + Sum(forgotten, Ifaces)
                       + Sum(cum_unresolved, Ifaces)
                       + cum_wan + unbooked + lost + Sum(Pend, Addresses)
                /\ Measures(Pend, Addresses))'
  BY <1>1, PTL
<1> QED BY <1>2

LEMMA BytesInit == Init => EveryEcmByteOnce
<1> SUFFICES ASSUME Init PROVE EveryEcmByteOnce
  OBVIOUS
<1>1. Basic
  BY BasicInit
<1>2. /\ Vanishes(total, Addresses) /\ Vanishes(cum_device, Devices)
      /\ Vanishes(forgotten, Ifaces) /\ Vanishes(cum_unresolved, Ifaces)
      /\ Vanishes(Pend, Addresses) /\ cum_wan = 0 /\ unbooked = 0 /\ lost = 0
  BY DEF Init, Vanishes, Pend, Pending
<1>3. IsFiniteSet(Addresses) /\ IsFiniteSet(Devices) /\ IsFiniteSet(Ifaces)
  BY AttributionAssumption
<1>4. /\ Sum(total, Addresses) = 0 /\ Sum(cum_device, Devices) = 0
      /\ Sum(forgotten, Ifaces) = 0 /\ Sum(cum_unresolved, Ifaces) = 0
      /\ Sum(Pend, Addresses) = 0
  BY <1>2, <1>3, SumZero DEF Sum
<1> QED BY <1>1, <1>2, <1>4, Ledger

LEMMA BytesAdvance ==
  ASSUME Basic, Basic', EveryEcmByteOnce, Advance
  PROVE  EveryEcmByteOnce'
<1>1. PICK S \in SUBSET Addresses :
        /\ kernel' = [a \in Addresses |->
             IF a \notin S THEN kernel[a]
             ELSE IF kernel[a] = None THEN 1 ELSE kernel[a] + 1]
        /\ total' = [a \in Addresses |-> total[a] + (IF a \in S THEN 1 ELSE 0)]
  BY DEF Advance
<1>2. UNCHANGED <<prev, cum_device, cum_unresolved, cum_wan, unbooked, lost, forgotten>>
  BY DEF Advance, baseVars, cumVars
<1> DEFINE one == [a \in Addresses |-> IF a \in S THEN 1 ELSE 0]
           n == Sum(one, Addresses)
<1>3. Measures(one, Addresses) /\ Adds(total', total, one, Addresses)
  BY <1>1 DEF Measures, Adds
<1>4. Adds(Pend', Pend, one, Addresses)
  <2>1. ASSUME NEW a \in Addresses PROVE Pending(a)' = Pending(a) + one[a]
    <3>1. /\ kernel[a] \in Int /\ prev[a] \in Int /\ prev[a] <= kernel[a]
          /\ kernel[a] >= -1 /\ prev[a] >= -1
      BY Numbers
    <3>2. prev'[a] = prev[a]
      BY <1>2
    <3>3. CASE a \notin S
      BY <1>1, <3>1, <3>2, <3>3 DEF Pending
    <3>4. CASE a \in S
      BY <1>1, <3>1, <3>2, <3>4 DEF Pending, None
    <3> QED BY <3>3, <3>4
  <2>2. ASSUME NEW a \in Addresses PROVE Pend'[a] = Pend[a] + one[a]
    <3>1. Pend'[a] = Pending(a)' /\ Pend[a] = Pending(a)
      BY DEF Pend
    <3> QED BY <2>1, <3>1
  <2> QED BY <2>2 DEF Adds
<1> HIDE DEF one
<1>5. IsFiniteSet(Addresses)
  BY AttributionAssumption
<1>6. Sum(total', Addresses) = Sum(total, Addresses) + n /\ n \in Nat
  BY <1>3, <1>5, Ledger, SumAdds, SumNat DEF Sum
<1>7. Sum(Pend', Addresses) = Sum(Pend, Addresses) + n
  BY <1>3, <1>4, <1>5, Ledger, SumAdds DEF Sum
<1> HIDE DEF n
<1> QED BY <1>2, <1>6, <1>7, Ledger, LedgerNext

\* Every other step leaves the kernel's count alone.
LEMMA BytesKept ==
  ASSUME Basic, Basic', EveryEcmByteOnce,
         UNCHANGED <<kernel, prev, total, cum_device, cum_unresolved, cum_wan, unbooked, lost,
                     forgotten>>
  PROVE  EveryEcmByteOnce'
<1>1. Pend' = Pend
  BY DEF Pend, Pending
<1> QED BY <1>1, Ledger, LedgerNext

LEMMA BytesRemoveKey ==
  ASSUME Basic, Basic', EveryEcmByteOnce, RemoveKey
  PROVE  EveryEcmByteOnce'
<1>1. UNCHANGED <<total, cum_device, cum_unresolved, cum_wan, unbooked, forgotten>>
  BY DEF RemoveKey, cumVars
<1>2. PICK r \in removing : Removed(r) \/ NotRemoved
  BY RemoveKeyParts
<1>3. CASE NotRemoved
  BY <1>1, <1>3, BytesKept DEF NotRemoved
<1>4. CASE Removed(r)
  <2> DEFINE x == r.key
             R == Addresses \ {x}
  <2>1. x \in Addresses /\ r.seen = prev[x] /\ r.seen \in Time
    BY DEF Basic, TypeOK, CountersOK
  <2>2. /\ kernel[x] \in Int /\ prev[x] \in Int /\ prev[x] <= kernel[x] /\ prev[x] # None
        /\ prev[x] >= 0
    BY <2>1, Numbers, Moments DEF None
  <2>3. \A a \in Addresses : /\ kernel'[a] = IF a = x THEN None ELSE kernel[a]
                            /\ prev'[a] = IF a = x THEN None ELSE prev[a]
    BY <1>4 DEF Removed, Basic, TypeOK
  <2>4. Pend'[x] = 0 /\ Pend[x] = kernel[x] - r.seen
    BY <2>1, <2>2, <2>3 DEF Pend, Pending, None
  <2>5. Agree(Pend, Pend', R)
    BY <2>3 DEF Agree, Pend, Pending
  <2>6. IsFiniteSet(Addresses)
    BY AttributionAssumption
  <2>7. IsFiniteSet(R) /\ Measures(Pend, R)
    BY <2>6, FS_Subset, Ledger DEF Measures
  <2>8. lost' = lost + (kernel[x] - r.seen)
    BY <1>4 DEF Removed
  <2>9. /\ Sum(Pend, Addresses) = Pend[x] + Sum(Pend, R)
        /\ Sum(Pend', Addresses) = Pend'[x] + Sum(Pend', R)
    BY <2>1, <2>6, Ledger, LedgerNext, SumRemove DEF Sum
  <2> HIDE DEF R
  <2>10. Sum(Pend', R) = Sum(Pend, R) /\ Sum(Pend, R) \in Nat
    BY <2>5, <2>7, SumAgree, SumNat DEF Sum
  <2>11. kernel[x] - r.seen \in Nat
    BY <2>1, <2>2
  <2> QED BY <1>1, <2>4, <2>8, <2>9, <2>10, <2>11, Ledger, LedgerNext
<1> QED BY <1>2, <1>3, <1>4

LEMMA BytesRemoveDevice ==
  ASSUME Basic, Basic', EveryEcmByteOnce, RemoveDevice
  PROVE  EveryEcmByteOnce'
<1>1. UNCHANGED <<kernel, prev, total, cum_unresolved, cum_wan, unbooked, lost>>
  BY DEF RemoveDevice, kernelVars, baseVars
<1>2. Pend' = Pend
  BY <1>1 DEF Pend, Pending
<1>3. PICK d \in registry :
        /\ cum_device' = [cum_device EXCEPT ![d] = 0]
        /\ forgotten' = [forgotten EXCEPT ![IfaceOf[d]] = @ + cum_device[d]]
  BY DEF RemoveDevice
<1> DEFINE i == IfaceOf[d]
           D == Devices \ {d}
           F == Ifaces \ {i}
<1>4. d \in Devices /\ cum_device[d] \in Nat /\ i \in Ifaces /\ forgotten[i] \in Nat
  BY AttributionAssumption DEF Basic, TypeOK, HistoryOK
<1>5. cum_device'[d] = 0 /\ forgotten'[i] = forgotten[i] + cum_device[d]
  BY <1>3, <1>4 DEF Basic, TypeOK, HistoryOK
<1>6. Agree(cum_device, cum_device', D) /\ Agree(forgotten, forgotten', F)
  BY <1>3 DEF Agree, Basic, TypeOK, HistoryOK
<1>7. IsFiniteSet(Devices) /\ IsFiniteSet(Ifaces) /\ IsFiniteSet(D) /\ IsFiniteSet(F)
  BY AttributionAssumption, FS_Subset
<1>8. /\ Measures(cum_device, Devices) /\ Measures(cum_device, D)
      /\ Measures(forgotten, Ifaces) /\ Measures(forgotten, F)
  BY Ledger DEF Measures
<1>9. Measures(cum_device', Devices) /\ Measures(forgotten', Ifaces)
  BY DEF Measures, Basic, TypeOK, HistoryOK
<1>10. /\ Sum(cum_device, Devices) = cum_device[d] + Sum(cum_device, D)
       /\ Sum(cum_device', Devices) = cum_device'[d] + Sum(cum_device', D)
  BY <1>4, <1>7, <1>8, <1>9, SumRemove DEF Sum
<1>11. /\ Sum(forgotten, Ifaces) = forgotten[i] + Sum(forgotten, F)
       /\ Sum(forgotten', Ifaces) = forgotten'[i] + Sum(forgotten', F)
  BY <1>4, <1>7, <1>8, <1>9, SumRemove DEF Sum
<1> HIDE DEF i, D, F
<1>12. Sum(cum_device', D) = Sum(cum_device, D) /\ Sum(cum_device, D) \in Nat
  BY <1>6, <1>7, <1>8, SumAgree, SumNat DEF Sum
<1>13. Sum(forgotten', F) = Sum(forgotten, F) /\ Sum(forgotten, F) \in Nat
  BY <1>6, <1>7, <1>8, SumAgree, SumNat DEF Sum
<1>14. Sum(cum_device, Devices) = cum_device[d] + Sum(cum_device', Devices)
  BY <1>4, <1>5, <1>10, <1>12
<1>15. Sum(forgotten', Ifaces) = Sum(forgotten, Ifaces) + cum_device[d]
  BY <1>4, <1>5, <1>11, <1>13
<1>16. Sum(cum_device', Devices) \in Nat
  BY <1>5, <1>10, <1>12
<1> QED BY <1>1, <1>2, <1>4, <1>14, <1>15, <1>16, Ledger, LedgerNext

\* What all devices gain in a tick is what was booked.
LEMMA DevicesTogether ==
  ASSUME Basic, NEW owners, NEW online, owners \in [Addresses -> Entry],
         NEW G, G = [d \in Devices |-> OfDevice(owners, online, d)]
  PROVE  Measures(G, Devices) /\ Sum(G, Devices) = Bytes(Booked(owners, online))
<1> DEFINE k == [a \in Addresses |-> owners[a].device]
           S == Booked(owners, online)
<1>1. \A a \in S : a \in Addresses /\ owners[a].device \in Devices
  BY BookedTyped
<1>2. S \in SUBSET Readable
  BY DeltaMeasures, PartsReadable DEF Basic
<1>3. IsFiniteSet(S) /\ Measures(Delta, S) /\ IsFiniteSet(Devices)
  BY <1>2, DeltaMeasures, AttributionAssumption DEF Basic
<1>4. \A a \in S : k[a] \in Devices
  BY <1>1
<1>5. ASSUME NEW d \in Devices
      PROVE  G[d] = SumFunctionOnSet(Delta, Grouped(k, S, d))
  <2>1. Grouped(k, S, d) = {a \in Booked(owners, online) : owners[a].device = d}
    BY <1>1 DEF Grouped
  <2>2. G[d] = OfDevice(owners, online, d)
    OBVIOUS
  <2> QED BY <2>1, <2>2 DEF OfDevice, Bytes
<1>6. Groups(G, Delta, k, S, Devices)
  <2> HIDE DEF k, S
  <2> QED BY <1>4, <1>5 DEF Groups
<1> HIDE DEF k
<1> QED BY <1>3, <1>6, SumGroups DEF Sum, Bytes

\* The interface to which the bytes of an address without an owner go.
LEMMA OnlyInterface ==
  ASSUME Basic, NEW owners, NEW a \in Ownerless(owners, "iface")
  PROVE  a \in Addresses /\ \E i \in Ifaces : place[a].subnets = {i}
<1>1. a \in Addresses
  BY DEF Ownerless, Active, Readable
<1>2. place[a].subnets \in SUBSET Ifaces
  <2>1. place[a] \in Place
    BY <1>1, AttributionAssumption DEF Basic, TypeOK
  <2> QED BY <2>1 DEF Place
<1>3. Cardinality(place[a].subnets) = 1
  BY DEF Ownerless, Share
<1>4. IsFiniteSet(place[a].subnets)
  BY <1>2, AttributionAssumption, FS_Subset
<1>5. PICK i : place[a].subnets = {i}
  BY <1>3, <1>4, FS_Singleton
<1> QED BY <1>1, <1>2, <1>5

\* What all interfaces gain that no device owns.
LEMMA UnresolvedTogether ==
  ASSUME Basic, NEW owners, NEW G, G = [i \in Ifaces |-> Unresolved(owners, i)]
  PROVE  Measures(G, Ifaces) /\ Sum(G, Ifaces) = Bytes(Ownerless(owners, "iface"))
<1> DEFINE k == [a \in Addresses |-> CHOOSE i \in Ifaces : place[a].subnets = {i}]
           S == Ownerless(owners, "iface")
<1>1. ASSUME NEW a \in S
      PROVE  a \in Addresses /\ k[a] \in Ifaces /\ place[a].subnets = {k[a]}
  BY <1>1, OnlyInterface
<1>2. S \in SUBSET Readable
  BY DeltaMeasures, PartsReadable DEF Basic
<1>3. IsFiniteSet(S) /\ Measures(Delta, S) /\ IsFiniteSet(Ifaces)
  BY <1>2, DeltaMeasures, AttributionAssumption DEF Basic
<1> HIDE DEF k
<1>4. ASSUME NEW i \in Ifaces
      PROVE  G[i] = SumFunctionOnSet(Delta, Grouped(k, S, i))
  <2>1. Grouped(k, S, i) = {a \in Ownerless(owners, "iface") : i \in place[a].subnets}
    BY <1>1 DEF Grouped
  <2>2. G[i] = Unresolved(owners, i)
    OBVIOUS
  <2> QED BY <2>1, <2>2 DEF Unresolved, Bytes
<1>5. Groups(G, Delta, k, S, Ifaces)
  <2> HIDE DEF S
  <2> QED BY <1>1, <1>4 DEF Groups
<1> QED BY <1>3, <1>5, SumGroups DEF Sum, Bytes

\* A tick attributes what it reads once: to a device, to nobody, to an
\* interface or to the WAN.
LEMMA ActiveParts ==
  ASSUME Basic, NEW owners, NEW online
  PROVE  LET booked == Booked(owners, online)
             own == Nobodys(owners)
             iface == Ownerless(owners, "iface")
             wan == Ownerless(owners, "wan")
         IN /\ Bytes(Active) = Bytes(booked) + Bytes(Owned(owners) \ booked)
                               + Bytes(own) + Bytes(iface) + Bytes(wan)
            /\ Bytes(booked) \in Nat /\ Bytes(Owned(owners) \ booked) \in Nat
            /\ Bytes(own) \in Nat /\ Bytes(iface) \in Nat /\ Bytes(wan) \in Nat
<1> DEFINE A == Booked(owners, online)
           B == Owned(owners) \ A
           C == Nobodys(owners)
           D == Ownerless(owners, "iface")
           E == Ownerless(owners, "wan")
<1>1. /\ A \subseteq Active /\ B \subseteq Active /\ C \subseteq Active
      /\ D \subseteq Active /\ E \subseteq Active
  BY PartsReadable
<1>2. Active = (((A \cup B) \cup C) \cup D) \cup E
  <2>1. \A a : Share(a) \in {"own", "iface", "global", "dropped", "wan"}
    BY DEF Share
  <2>2. \A a \in Active : a \in Owned(owners) \/ a \in C \/ a \in D \/ a \in E
    BY <2>1 DEF Ownerless, Nobodys
  <2> QED BY <1>1, <2>2
<1>3. /\ A \cap B = {} /\ (A \cup B) \cap C = {} /\ ((A \cup B) \cup C) \cap D = {}
      /\ (((A \cup B) \cup C) \cup D) \cap E = {}
  <2>1. A \cup B \subseteq Owned(owners)
    BY PartsReadable
  <2>2. /\ \A a \in C : a \notin Owned(owners) /\ Share(a) \in {"own", "global", "dropped"}
        /\ \A a \in D : a \notin Owned(owners) /\ Share(a) = "iface"
        /\ \A a \in E : a \notin Owned(owners) /\ Share(a) = "wan"
    BY DEF Ownerless, Nobodys
  <2> HIDE DEF C, D, E
  <2> QED BY <2>1, <2>2
<1> HIDE DEF A, B, C, D, E
<1>4. ASSUME NEW S, NEW T, S \subseteq Active, T \subseteq Active, S \cap T = {}
      PROVE  Bytes(S \cup T) = Bytes(S) + Bytes(T) /\ Bytes(S) \in Nat /\ Bytes(T) \in Nat
  <2>1. S \in SUBSET Readable /\ T \in SUBSET Readable /\ S \cup T \in SUBSET Readable
    BY <1>4, DeltaMeasures DEF Basic
  <2>2. /\ IsFiniteSet(S) /\ IsFiniteSet(T) /\ Measures(Delta, S \cup T)
        /\ Bytes(S) \in Nat /\ Bytes(T) \in Nat
    BY <2>1, DeltaMeasures DEF Basic
  <2> QED BY <1>4, <2>2, SumParts DEF Bytes
<1>5. /\ A \cup B \subseteq Active /\ (A \cup B) \cup C \subseteq Active
      /\ ((A \cup B) \cup C) \cup D \subseteq Active
  BY <1>1
<1>6. Bytes(A \cup B) = Bytes(A) + Bytes(B) /\ Bytes(A) \in Nat /\ Bytes(B) \in Nat
  BY <1>1, <1>3, <1>4
<1>7. Bytes((A \cup B) \cup C) = Bytes(A \cup B) + Bytes(C) /\ Bytes(C) \in Nat
  BY <1>1, <1>3, <1>4, <1>5
<1>8. Bytes(((A \cup B) \cup C) \cup D) = Bytes((A \cup B) \cup C) + Bytes(D) /\ Bytes(D) \in Nat
  BY <1>1, <1>3, <1>4, <1>5
<1>9. /\ Bytes((((A \cup B) \cup C) \cup D) \cup E)
           = Bytes(((A \cup B) \cup C) \cup D) + Bytes(E)
      /\ Bytes(E) \in Nat
  BY <1>1, <1>3, <1>4, <1>5
<1>10. Bytes(Active) = Bytes(((A \cup B) \cup C) \cup D) + Bytes(E)
  BY <1>2, <1>9, Zenon
<1>11. Bytes(Active) = Bytes(A) + Bytes(B) + Bytes(C) + Bytes(D) + Bytes(E)
  BY <1>6, <1>7, <1>8, <1>9, <1>10
<1> QED BY <1>6, <1>7, <1>8, <1>9, <1>11 DEF A, B, C, D, E

\* A tick reads what was pending.
LEMMA ActiveIsPending ==
  ASSUME Basic
  PROVE  Bytes(Active) = Sum(Pend, Addresses)
<1> DEFINE R == Addresses \ Active
<1>1. Active \in SUBSET Readable /\ Active \subseteq Addresses
  BY DeltaMeasures DEF Basic
<1>2. IsFiniteSet(Active) /\ IsFiniteSet(R) /\ IsFiniteSet(Addresses) /\ Measures(Delta, Active)
  BY <1>1, AttributionAssumption, FS_Subset, DeltaMeasures DEF Basic
<1>3. Agree(Delta, Pend, Active) /\ Vanishes(Pend, R)
  <2>1. \A a \in Active : Pend[a] = Pending(a) /\ Delta[a] = Pending(a)
    BY <1>1, DeltaIsPending DEF Basic, Pend
  <2>2. \A a \in R : Pend[a] = Pending(a) /\ Pending(a) \in Nat /\ ~(Pending(a) > 0)
    BY DeltaIsPending DEF Basic, Pend
  <2> QED BY <2>1, <2>2 DEF Agree, Vanishes
<1>4. Active \cap R = {} /\ Active \cup R = Addresses
  BY <1>1
<1>5. Measures(Pend, Active \cup R)
  BY <1>4, Ledger
<1> HIDE DEF R
<1>6. Sum(Pend, Active \cup R) = Sum(Pend, Active) + Sum(Pend, R)
  BY <1>2, <1>4, <1>5, SumParts DEF Sum
<1>7. Sum(Pend, Active) = Bytes(Active) /\ Sum(Pend, R) = 0
  BY <1>2, <1>3, SumAgree, SumZero DEF Sum, Bytes
<1>8. Bytes(Active) \in Nat
  BY <1>1, DeltaMeasures DEF Basic
<1>9. Sum(Pend, Addresses) = Sum(Pend, Active) + Sum(Pend, R)
  BY <1>4, <1>6, Zenon
<1> QED BY <1>7, <1>8, <1>9

LEMMA BytesCollect ==
  ASSUME Basic, Basic', EveryEcmByteOnce, Collect
  PROVE  EveryEcmByteOnce'
<1>1. PICK read_ok, answered \in BOOLEAN : \E order :
        /\ TickWith(read_ok, answered, order)
        /\ IF read_ok THEN Attribute(owner', Online, Seconds) ELSE Skip(Online, Seconds)
  BY CollectParts
<1>2. UNCHANGED <<kernel, total, lost, forgotten>>
  BY <1>1 DEF TickWith
<1>3. CASE read_ok
  <2>1. Attribute(owner', Online, Seconds)
    BY <1>1, <1>3
  <2>2. Booking(owner', Online) /\ Rebased
    BY <2>1, AttributeParts
  <2>3. owner' \in [Addresses -> Entry]
    BY DEF Basic, TypeOK, Entry, Claimant, Moment
  <2>4. IsFiniteSet(Addresses) /\ IsFiniteSet(Devices) /\ IsFiniteSet(Ifaces)
    BY AttributionAssumption
  <2>5. Sum(Pend', Addresses) = 0
    <3>1. prev' = kernel /\ kernel' = kernel
      BY <1>2, <2>2 DEF Rebased
    <3>2. \A a \in Addresses : kernel[a] \in Int
      BY Numbers
    <3>3. Vanishes(Pend', Addresses)
      BY <3>1, <3>2 DEF Vanishes, Pend, Pending
    <3> QED BY <2>4, <3>3, SumZero DEF Sum
  <2> DEFINE G == [d \in Devices |-> OfDevice(owner', Online, d)]
             H == [i \in Ifaces |-> Unresolved(owner', i)]
             booked == Bytes(Booked(owner', Online))
             gone == Bytes(Owned(owner') \ Booked(owner', Online))
             own == Bytes(Nobodys(owner'))
             iface == Bytes(Ownerless(owner', "iface"))
             wan == Bytes(Ownerless(owner', "wan"))
  <2>6. Measures(G, Devices) /\ Sum(G, Devices) = booked
    BY <2>3, DevicesTogether
  <2>7. Measures(H, Ifaces) /\ Sum(H, Ifaces) = iface
    BY UnresolvedTogether
  <2>8. Adds(cum_device', cum_device, G, Devices) /\ Adds(cum_unresolved', cum_unresolved, H, Ifaces)
    BY <2>2 DEF Booking, Adds
  <2>9. cum_wan' = cum_wan + wan /\ unbooked' = unbooked + own + gone
    BY <2>2 DEF Booking
  <2>10. /\ Sum(Pend, Addresses) = booked + gone + own + iface + wan
         /\ booked \in Nat /\ gone \in Nat /\ own \in Nat /\ iface \in Nat /\ wan \in Nat
    BY ActiveParts, ActiveIsPending
  <2> HIDE DEF G, H, booked, gone, own, iface, wan
  <2>11. Sum(cum_device', Devices) = Sum(cum_device, Devices) + booked
    BY <2>4, <2>6, <2>8, Ledger, SumAdds DEF Sum
  <2>12. Sum(cum_unresolved', Ifaces) = Sum(cum_unresolved, Ifaces) + iface
    BY <2>4, <2>7, <2>8, Ledger, SumAdds DEF Sum
  <2> QED BY <1>2, <2>5, <2>9, <2>10, <2>11, <2>12, Ledger, LedgerNext
<1>4. CASE ~read_ok
  <2>1. Skip(Online, Seconds)
    BY <1>1, <1>4
  <2>2. UNCHANGED <<kernel, prev, total, cum_device, cum_unresolved, cum_wan, unbooked, lost,
                    forgotten>>
    BY <1>2, <2>1 DEF Skip, baseVars, cumVars
  <2> QED BY <2>2, BytesKept
<1> QED BY <1>3, <1>4

LEMMA BytesStep ==
  Basic /\ Basic' /\ EveryEcmByteOnce /\ [Next]_vars => EveryEcmByteOnce'
<1> SUFFICES ASSUME Basic, Basic', EveryEcmByteOnce, [Next]_vars
             PROVE  EveryEcmByteOnce'
  OBVIOUS
<1>1. CASE NeighborChange
  BY <1>1, BytesKept DEF NeighborChange, baseVars, cumVars
<1>2. CASE Recheck
  BY <1>2, BytesKept DEF Recheck, kernelVars, baseVars, cumVars
<1>3. CASE UNCHANGED vars
  BY <1>3, BytesKept DEF vars, kernelVars, baseVars, cumVars
<1> QED BY <1>1, <1>2, <1>3, BytesAdvance, BytesCollect, BytesRemoveKey, BytesRemoveDevice
        DEF Next

(* For any addresses, devices and interfaces every byte the kprobes        *)
(* counted is in exactly one place, whatever reads fail, keys are pruned   *)
(* and devices are removed: with a device or what a removed device left,   *)
(* unresolved on one monitored interface, on the WAN, with nobody, or      *)
(* still to be read.  Nobody's are the bytes of the router's own address,  *)
(* of a local address that no single subnet matches, of an owner neither   *)
(* online nor known and of an interface the snapshot does not list; all    *)
(* else that is ever lost came between the second look at an idle key and  *)
(* its removal.                                                            *)
THEOREM EveryByteAttributedOnce == Spec => []EveryEcmByteOnce
BY BasicHolds, BytesInit, BytesStep, PTL DEF Spec
=============================================================================
