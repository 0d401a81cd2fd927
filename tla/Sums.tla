-------------------------------- MODULE Sums --------------------------------
(***************************************************************************)
(* Facts about SumFunctionOnSet(f, S), the sum of f[x] for x in a finite   *)
(* set S, by which the models add up balances, votes and records.          *)
(*                                                                         *)
(* The sum is a fold that takes one element after the other in the order   *)
(* CHOOSE picks them.  That it is the sum in any order is an induction on  *)
(* the size of the set: the library's induction theorems take a predicate  *)
(* as an operator, so here the induction is over the *set* of the subsets  *)
(* for which something holds (WholeSet), from the least counterexample     *)
(* (Smallest).                                                             *)
(***************************************************************************)
EXTENDS Integers, Functions, FiniteSetTheorems, WellFoundedInduction, TLAPS

\* A non-empty set of natural numbers has a least element.
LEMMA Smallest ==
    ASSUME NEW T, T \subseteq Nat, T # {}
    PROVE  \E x \in T : \A y \in T : x <= y
<1>1. \E x \in T : \A y \in T : ~ (<<y, x>> \in OpToRel(<, Nat))
  BY NatLessThanWellFounded, WFMin, Zenon
<1>2. \A x \in T, y \in T : ~ (<<y, x>> \in OpToRel(<, Nat)) => x <= y
  BY DEF OpToRel
<1> QED BY <1>1, <1>2

\* Induction over the natural numbers, for a set of them.
LEMMA EveryNumber ==
    ASSUME NEW Q, 0 \in Q, \A n \in Nat : n \in Q => n + 1 \in Q
    PROVE  \A n \in Nat : n \in Q
<1> DEFINE Bad == {n \in Nat : n \notin Q}
<1>1. SUFFICES ASSUME Bad # {} PROVE FALSE
  OBVIOUS
<1>2. PICK m \in Bad : \A n \in Bad : m <= n
  BY <1>1, Smallest
<1>3. m \in Nat /\ m # 0 /\ m - 1 \in Nat /\ m - 1 \notin Bad
  BY <1>2
<1>4. (m - 1) + 1 \in Q
  BY <1>3
<1> QED BY <1>3, <1>4, <1>2

\* Induction over a finite set: a property that a subset has whenever it holds
\* without any one of its elements is one of the whole set.
LEMMA WholeSet ==
    ASSUME NEW U, IsFiniteSet(U), NEW Q,
           \A S \in SUBSET U : (\A x \in S : S \ {x} \in Q) => S \in Q
    PROVE  U \in Q
<1> DEFINE R == {n \in Nat : \A S \in SUBSET U : Cardinality(S) = n => S \in Q}
<1>1. \A S \in SUBSET U : IsFiniteSet(S) /\ Cardinality(S) \in Nat
  BY FS_Subset, FS_CardinalityType
<1>2. 0 \in R
  <2> SUFFICES ASSUME NEW S \in SUBSET U, Cardinality(S) = 0 PROVE S \in Q
    OBVIOUS
  <2> S = {}
    BY <1>1, FS_EmptySet
  <2> QED OBVIOUS
<1>3. ASSUME NEW n \in Nat, n \in R PROVE n + 1 \in R
  <2> SUFFICES ASSUME NEW S \in SUBSET U, Cardinality(S) = n + 1 PROVE S \in Q
    OBVIOUS
  <2> ASSUME NEW x \in S PROVE S \ {x} \in Q
    <3>1. Cardinality(S \ {x}) = n
      BY <1>1, FS_RemoveElement
    <3> QED BY <3>1, <1>3
  <2> QED OBVIOUS
<1>4. \A n \in Nat : n \in R
  <2> HIDE DEF R
  <2> QED BY <1>2, <1>3, EveryNumber
<1>5. \A S \in SUBSET U : S \in Q
  BY <1>1, <1>4
<1> QED BY <1>5

\* The element the fold takes first, and the function it computes on the
\* subsets of S.
Picked(T) == CHOOSE x \in T : TRUE

IsTotal(g, f, S) ==
    g = [T \in SUBSET S |-> IF T = {} THEN 0 ELSE f[Picked(T)] + g[T \ {Picked(T)}]]

\* The sum is the value of that function on the whole set.
LEMMA SumIsChosen ==
    ASSUME NEW f, NEW S
    PROVE  SumFunctionOnSet(f, S) = (CHOOSE g : IsTotal(g, f, S))[S]
BY DEF SumFunctionOnSet, FoldFunctionOnSet, MapThenFoldSet, IsTotal, Picked

\* What is picked from a set is in it.
LEMMA PickedIsIn == \A T : T # {} => Picked(T) \in T
BY DEF Picked

\* The recursion of the fold has a solution on every finite set ...
LEMMA TotalExists ==
    ASSUME NEW f, NEW S, IsFiniteSet(S)
    PROVE  \E g : IsTotal(g, f, S)
<1> DEFINE Small(n) == {T \in SUBSET S : Cardinality(T) <= n}
           Value(g, T) == IF T = {} THEN 0 ELSE f[Picked(T)] + g[T \ {Picked(T)}]
           Good == {n \in Nat : \E g : g = [T \in Small(n) |-> Value(g, T)]}
<1>1. \A T \in SUBSET S : IsFiniteSet(T) /\ Cardinality(T) \in Nat /\ Cardinality(T) <= Cardinality(S)
  BY FS_Subset, FS_CardinalityType
<1>2. 0 \in Good
  <2> DEFINE g == [T \in Small(0) |-> 0]
  <2>1. \A T \in Small(0) : T = {}
    BY <1>1, FS_EmptySet
  <2>2. g = [T \in Small(0) |-> Value(g, T)]
    BY <2>1
  <2> QED BY <2>2
<1>3. ASSUME NEW n \in Nat, n \in Good PROVE n + 1 \in Good
  <2> PICK g : g = [T \in Small(n) |-> Value(g, T)]
    BY <1>3
  <2> DEFINE h == [T \in Small(n + 1) |-> Value(g, T)]
  <2>1. ASSUME NEW T \in Small(n + 1), T # {} PROVE T \ {Picked(T)} \in Small(n)
    <3>1. Picked(T) \in T /\ IsFiniteSet(T)
      BY <1>1, <2>1, PickedIsIn
    <3>2. Cardinality(T \ {Picked(T)}) = Cardinality(T) - 1
      BY <3>1, FS_RemoveElement
    <3>3. Cardinality(T) \in Nat /\ Cardinality(T) <= n + 1
      BY <1>1
    <3> QED BY <3>2, <3>3
  <2>2. Small(n) \subseteq Small(n + 1)
    BY <1>1
  <2>3. \A T \in Small(n) : g[T] = Value(g, T) /\ h[T] = Value(g, T)
    BY <2>2
  <2>4. ASSUME NEW T \in Small(n + 1) PROVE Value(g, T) = Value(h, T)
    <3> CASE T = {}
      OBVIOUS
    <3> CASE T # {}
      <4>1. g[T \ {Picked(T)}] = h[T \ {Picked(T)}]
        <5>1. T \ {Picked(T)} \in Small(n)
          BY <2>1
        <5> HIDE DEF Small, Value, h
        <5> QED BY <5>1, <2>3
      <4> QED BY <4>1
    <3> QED OBVIOUS
  <2>5. h = [T \in Small(n + 1) |-> Value(h, T)]
    <3> HIDE DEF Value, Small
    <3> QED BY <2>4
  <2>6. \E k : k = [T \in Small(n + 1) |-> Value(k, T)]
    <3> HIDE DEF Value, Small, h
    <3> QED BY <2>5
  <2> QED
    <3> HIDE DEF Value, Small
    <3> QED BY <2>6
<1>4. Cardinality(S) \in Good
  <2> HIDE DEF Good
  <2> QED BY <1>2, <1>3, <1>1, EveryNumber
<1>5. Small(Cardinality(S)) = SUBSET S
  BY <1>1
<1> QED BY <1>4, <1>5 DEF IsTotal

\* ... and only one, also when it starts from a larger set.
LEMMA TotalUnique ==
    ASSUME NEW f, NEW S, IsFiniteSet(S), NEW U \in SUBSET S,
           NEW g, IsTotal(g, f, S), NEW h, IsTotal(h, f, U)
    PROVE  \A T \in SUBSET U : g[T] = h[T]
<1> DEFINE Q == {T \in SUBSET U : g[T] = h[T]}
<1>1. ASSUME NEW T \in SUBSET U, \A x \in T : T \ {x} \in Q PROVE T \in Q
  <2> T \in SUBSET S
    OBVIOUS
  <2> CASE T = {}
    BY DEF IsTotal
  <2> CASE T # {}
    BY <1>1, PickedIsIn DEF IsTotal
  <2> QED OBVIOUS
<1>2. IsFiniteSet(U)
  BY FS_Subset
<1>3. \A T \in SUBSET U : T \in Q
  <2> TAKE T \in SUBSET U
  <2>1. IsFiniteSet(T)
    BY <1>2, FS_Subset
  <2>2. \A V \in SUBSET T : (\A x \in V : V \ {x} \in Q) => V \in Q
    BY <1>1
  <2> HIDE DEF Q
  <2> QED BY <2>1, <2>2, WholeSet
<1> QED BY <1>3

\* The sum over no element is zero.
LEMMA SumEmpty == \A f : SumFunctionOnSet(f, {}) = 0
<1> TAKE f
<1>1. (CHOOSE g : IsTotal(g, f, {})) = (CHOOSE g : IsTotal(g, f, {}))
  OBVIOUS
<1>2. IsTotal(CHOOSE g : IsTotal(g, f, {}), f, {})
  BY TotalExists, FS_EmptySet
<1> QED BY <1>2, SumIsChosen DEF IsTotal

\* The sum is what was picked and the sum of the rest.
LEMMA SumPicked ==
    ASSUME NEW f, NEW S, IsFiniteSet(S), S # {}
    PROVE  SumFunctionOnSet(f, S) = f[Picked(S)] + SumFunctionOnSet(f, S \ {Picked(S)})
<1> DEFINE U == S \ {Picked(S)}
           g == CHOOSE g : IsTotal(g, f, S)
           h == CHOOSE h : IsTotal(h, f, U)
<1>1. IsFiniteSet(U) /\ U \in SUBSET S
  BY FS_Subset
<1>2. IsTotal(g, f, S) /\ IsTotal(h, f, U)
  BY <1>1, TotalExists
<1>3. SumFunctionOnSet(f, S) = g[S] /\ SumFunctionOnSet(f, U) = h[U]
  BY SumIsChosen
<1>4. g[S] = f[Picked(S)] + g[U]
  BY <1>2, PickedIsIn DEF IsTotal
<1>5. g[U] = h[U]
  <2> HIDE DEF g, h, U
  <2> QED BY <1>1, <1>2, TotalUnique
<1> QED BY <1>3, <1>4, <1>5

\* Integers add up to an integer.
LEMMA SumIsInteger ==
    ASSUME NEW S, IsFiniteSet(S), NEW f, \A x \in S : f[x] \in Int
    PROVE  SumFunctionOnSet(f, S) \in Int
<1> DEFINE Q == {T \in SUBSET S : SumFunctionOnSet(f, T) \in Int}
<1>1. ASSUME NEW T \in SUBSET S, \A x \in T : T \ {x} \in Q PROVE T \in Q
  <2> IsFiniteSet(T)
    BY FS_Subset
  <2>1. CASE T = {}
    BY <2>1, SumEmpty
  <2>2. CASE T # {}
    <3>1. Picked(T) \in T /\ T \ {Picked(T)} \in Q
      BY <1>1, <2>2, PickedIsIn
    <3>2. SumFunctionOnSet(f, T) = f[Picked(T)] + SumFunctionOnSet(f, T \ {Picked(T)})
      BY <2>2, SumPicked
    <3>3. f[Picked(T)] \in Int /\ SumFunctionOnSet(f, T \ {Picked(T)}) \in Int
      BY <3>1
    <3> QED BY <3>2, <3>3
  <2> QED BY <2>1, <2>2
<1>2. S \in Q
  <2> HIDE DEF Q
  <2> QED BY <1>1, WholeSet
<1> QED BY <1>2

\* Any element may be taken out first: the sum does not depend on the order.
LEMMA SumWithout ==
    ASSUME NEW S, IsFiniteSet(S), NEW f, \A x \in S : f[x] \in Int, NEW y \in S
    PROVE  SumFunctionOnSet(f, S) = f[y] + SumFunctionOnSet(f, S \ {y})
<1> DEFINE Total(T) == SumFunctionOnSet(f, T)
           Q == {T \in SUBSET S : \A x \in T : Total(T) = f[x] + Total(T \ {x})}
<1>1. ASSUME NEW T \in SUBSET S, \A x \in T : T \ {x} \in Q, NEW x \in T
      PROVE  Total(T) = f[x] + Total(T \ {x})
  <2> DEFINE p == Picked(T)
  <2> IsFiniteSet(T)
    BY FS_Subset
  <2>1. p \in T /\ Total(T) = f[p] + Total(T \ {p}) /\ T \ {p} \in Q
    BY <1>1, SumPicked, PickedIsIn
  <2>2. CASE x = p
    BY <2>1, <2>2
  <2>3. CASE x # p
    <3> DEFINE V == (T \ {x}) \ {p}
    <3>1. T \ {x} \in Q /\ p \in T \ {x} /\ x \in T \ {p} /\ f[x] \in Int /\ f[p] \in Int
      BY <1>1, <2>1, <2>3
    <3>2. Total(T \ {x}) = f[p] + Total(V)
      BY <3>1
    <3>3. Total(T \ {p}) = f[x] + Total((T \ {p}) \ {x})
      BY <2>1, <3>1
    <3>4. V = (T \ {p}) \ {x}
      OBVIOUS
    <3>5. Total(V) \in Int
      <4>1. IsFiniteSet(V) /\ V \subseteq S
        BY FS_Subset
      <4> QED BY <4>1, SumIsInteger
    <3> HIDE DEF Total, p, V
    <3> QED BY <2>1, <3>1, <3>2, <3>3, <3>4, <3>5
  <2> QED BY <2>2, <2>3
<1>2. S \in Q
  <2>1. \A T \in SUBSET S : (\A x \in T : T \ {x} \in Q) => T \in Q
    BY <1>1
  <2> HIDE DEF Q
  <2> QED BY <2>1, WholeSet
<1> QED BY <1>2

\* A new element adds its value.
LEMMA SumWith ==
    ASSUME NEW S, IsFiniteSet(S), NEW f, NEW y, y \notin S, \A x \in S \cup {y} : f[x] \in Int
    PROVE  SumFunctionOnSet(f, S \cup {y}) = f[y] + SumFunctionOnSet(f, S)
<1>1. IsFiniteSet(S \cup {y})
  BY FS_AddElement
<1>2. (S \cup {y}) \ {y} = S
  OBVIOUS
<1> QED BY <1>1, <1>2, SumWithout

\* Functions that agree on the set have the same sum.
LEMMA SumOfEqual ==
    ASSUME NEW S, IsFiniteSet(S), NEW f, NEW g, \A x \in S : f[x] = g[x]
    PROVE  SumFunctionOnSet(f, S) = SumFunctionOnSet(g, S)
<1> DEFINE Q == {T \in SUBSET S : SumFunctionOnSet(f, T) = SumFunctionOnSet(g, T)}
<1>1. ASSUME NEW T \in SUBSET S, \A x \in T : T \ {x} \in Q PROVE T \in Q
  <2> IsFiniteSet(T)
    BY FS_Subset
  <2>1. CASE T = {}
    BY <2>1, SumEmpty
  <2>2. CASE T # {}
    <3>1. Picked(T) \in T /\ T \ {Picked(T)} \in Q
      BY <1>1, <2>2, PickedIsIn
    <3> QED BY <2>2, <3>1, SumPicked
  <2> QED BY <2>1, <2>2
<1>2. S \in Q
  <2> HIDE DEF Q
  <2> QED BY <1>1, WholeSet
<1> QED BY <1>2

\* One value changes: so does the sum, by as much.
LEMMA SumOfChanged ==
    ASSUME NEW S, IsFiniteSet(S), NEW f, NEW g, NEW y \in S,
           \A x \in S : f[x] \in Int /\ g[x] \in Int,
           \A x \in S \ {y} : f[x] = g[x]
    PROVE  SumFunctionOnSet(g, S) = SumFunctionOnSet(f, S) + g[y] - f[y]
<1>1. IsFiniteSet(S \ {y})
  BY FS_Subset
<1>2. SumFunctionOnSet(f, S \ {y}) = SumFunctionOnSet(g, S \ {y})
  BY <1>1, SumOfEqual
<1>3. SumFunctionOnSet(f, S \ {y}) \in Int
  BY <1>1, SumIsInteger
<1>4. /\ SumFunctionOnSet(f, S) = f[y] + SumFunctionOnSet(f, S \ {y})
      /\ SumFunctionOnSet(g, S) = g[y] + SumFunctionOnSet(g, S \ {y})
  BY SumWithout
<1>5. f[y] \in Int /\ g[y] \in Int
  OBVIOUS
<1> QED BY <1>2, <1>3, <1>4, <1>5

\* Natural numbers add up to a natural number.
LEMMA SumIsNatural ==
    ASSUME NEW S, IsFiniteSet(S), NEW f, \A x \in S : f[x] \in Nat
    PROVE  SumFunctionOnSet(f, S) \in Nat
<1> DEFINE Q == {T \in SUBSET S : SumFunctionOnSet(f, T) \in Nat}
<1>1. ASSUME NEW T \in SUBSET S, \A x \in T : T \ {x} \in Q PROVE T \in Q
  <2> IsFiniteSet(T)
    BY FS_Subset
  <2>1. CASE T = {}
    BY <2>1, SumEmpty
  <2>2. CASE T # {}
    <3>1. Picked(T) \in T /\ T \ {Picked(T)} \in Q
      BY <1>1, <2>2, PickedIsIn
    <3>2. SumFunctionOnSet(f, T) = f[Picked(T)] + SumFunctionOnSet(f, T \ {Picked(T)})
      BY <2>2, SumPicked
    <3>3. f[Picked(T)] \in Nat /\ SumFunctionOnSet(f, T \ {Picked(T)}) \in Nat
      BY <3>1
    <3> QED BY <3>2, <3>3
  <2> QED BY <2>1, <2>2
<1>2. S \in Q
  <2> HIDE DEF Q
  <2> QED BY <1>1, WholeSet
<1> QED BY <1>2

\* Zeros add up to zero.
LEMMA SumOfZeros ==
    ASSUME NEW S, IsFiniteSet(S), NEW f, \A x \in S : f[x] = 0
    PROVE  SumFunctionOnSet(f, S) = 0
<1> DEFINE Q == {T \in SUBSET S : SumFunctionOnSet(f, T) = 0}
<1>1. ASSUME NEW T \in SUBSET S, \A x \in T : T \ {x} \in Q PROVE T \in Q
  <2> IsFiniteSet(T)
    BY FS_Subset
  <2>1. CASE T = {}
    BY <2>1, SumEmpty
  <2>2. CASE T # {}
    <3>1. Picked(T) \in T /\ T \ {Picked(T)} \in Q
      BY <1>1, <2>2, PickedIsIn
    <3> QED BY <2>2, <3>1, SumPicked
  <2> QED BY <2>1, <2>2
<1>2. S \in Q
  <2> HIDE DEF Q
  <2> QED BY <1>1, WholeSet
<1> QED BY <1>2

\* Smaller values add up to a smaller sum.
LEMMA SumIsMonotone ==
    ASSUME NEW S, IsFiniteSet(S), NEW f, NEW g,
           \A x \in S : f[x] \in Int /\ g[x] \in Int /\ f[x] <= g[x]
    PROVE  SumFunctionOnSet(f, S) <= SumFunctionOnSet(g, S)
<1> DEFINE Q == {T \in SUBSET S : SumFunctionOnSet(f, T) <= SumFunctionOnSet(g, T)}
<1>1. ASSUME NEW T \in SUBSET S, \A x \in T : T \ {x} \in Q PROVE T \in Q
  <2> IsFiniteSet(T)
    BY FS_Subset
  <2>1. CASE T = {}
    BY <2>1, SumEmpty
  <2>2. CASE T # {}
    <3> DEFINE p == Picked(T)
    <3>1. p \in T /\ T \ {p} \in Q
      BY <1>1, <2>2, PickedIsIn
    <3>2. /\ SumFunctionOnSet(f, T) = f[p] + SumFunctionOnSet(f, T \ {p})
          /\ SumFunctionOnSet(g, T) = g[p] + SumFunctionOnSet(g, T \ {p})
      BY <2>2, SumPicked
    <3>3. SumFunctionOnSet(f, T \ {p}) \in Int /\ SumFunctionOnSet(g, T \ {p}) \in Int
      <4>1. IsFiniteSet(T \ {p}) /\ T \ {p} \subseteq S
        BY FS_Subset
      <4> QED BY <4>1, SumIsInteger
    <3>4. f[p] \in Int /\ g[p] \in Int /\ f[p] <= g[p]
      BY <3>1
    <3>5. SumFunctionOnSet(f, T \ {p}) <= SumFunctionOnSet(g, T \ {p})
      BY <3>1
    <3> HIDE DEF p
    <3> QED BY <3>2, <3>3, <3>4, <3>5
  <2> QED BY <2>1, <2>2
<1>2. S \in Q
  <2> HIDE DEF Q
  <2> QED BY <1>1, WholeSet
<1> QED BY <1>2

\* Fewer natural numbers add up to less.
LEMMA SumOfSubset ==
    ASSUME NEW S, IsFiniteSet(S), NEW f, \A x \in S : f[x] \in Nat, NEW T \in SUBSET S
    PROVE  SumFunctionOnSet(f, T) <= SumFunctionOnSet(f, S)
<1> DEFINE Q == {V \in SUBSET (S \ T) : SumFunctionOnSet(f, T) <= SumFunctionOnSet(f, T \cup V)}
<1>0. IsFiniteSet(S \ T) /\ IsFiniteSet(T)
  BY FS_Subset
<1>1. ASSUME NEW V \in SUBSET (S \ T), \A x \in V : V \ {x} \in Q PROVE V \in Q
  <2>1. CASE V = {}
    <3>1. SumFunctionOnSet(f, T) \in Nat
      BY <1>0, SumIsNatural
    <3>2. T \cup V = T
      BY <2>1
    <3> QED BY <3>1, <3>2
  <2>2. CASE V # {}
    <3>1. PICK y \in V : TRUE
      BY <2>2
    <3> DEFINE W == T \cup (V \ {y})
    <3>2. W \subseteq S /\ y \in S /\ y \notin W /\ W \cup {y} = T \cup V
      OBVIOUS
    <3>3. IsFiniteSet(W)
      BY <3>2, FS_Subset
    <3>4. \A x \in W \cup {y} : f[x] \in Int
      BY <3>2
    <3>5. SumFunctionOnSet(f, W) \in Nat /\ SumFunctionOnSet(f, T) \in Nat /\ f[y] \in Nat
      BY <3>2, <3>3, <1>0, SumIsNatural
    <3>6. SumFunctionOnSet(f, T) <= SumFunctionOnSet(f, W)
      BY <1>1
    <3> HIDE DEF W
    <3>7. SumFunctionOnSet(f, W \cup {y}) = f[y] + SumFunctionOnSet(f, W)
      BY <3>2, <3>3, <3>4, SumWith, Zenon
    <3>8. SumFunctionOnSet(f, T) <= SumFunctionOnSet(f, W \cup {y})
      BY <3>5, <3>6, <3>7
    <3> QED BY <3>2, <3>8
  <2> QED BY <2>1, <2>2
<1>2. S \ T \in Q
  <2> HIDE DEF Q
  <2> QED BY <1>0, <1>1, WholeSet
<1>3. T \cup (S \ T) = S
  OBVIOUS
<1> QED BY <1>2, <1>3

\* Zeros and ones add up to the number of the ones.
LEMMA SumOfOnes ==
    ASSUME NEW S, IsFiniteSet(S), NEW f, \A x \in S : f[x] \in {0, 1}
    PROVE  SumFunctionOnSet(f, S) = Cardinality({x \in S : f[x] = 1})
<1> DEFINE Ones(T) == {x \in T : f[x] = 1}
           Q == {T \in SUBSET S : SumFunctionOnSet(f, T) = Cardinality(Ones(T))}
<1>1. ASSUME NEW T \in SUBSET S, \A x \in T : T \ {x} \in Q PROVE T \in Q
  <2> IsFiniteSet(T)
    BY FS_Subset
  <2>1. CASE T = {}
    <3>1. Ones(T) = {}
      BY <2>1
    <3> QED BY <2>1, <3>1, SumEmpty, FS_EmptySet
  <2>2. CASE T # {}
    <3> DEFINE p == Picked(T)
               U == T \ {p}
    <3>1. p \in T /\ U \in Q
      BY <1>1, <2>2, PickedIsIn
    <3>2. SumFunctionOnSet(f, T) = f[p] + SumFunctionOnSet(f, U)
      BY <2>2, SumPicked
    <3>3. IsFiniteSet(Ones(U)) /\ p \notin Ones(U)
      <4>1. Ones(U) \subseteq T /\ p \notin Ones(U)
        OBVIOUS
      <4> QED BY <4>1, FS_Subset
    <3>4. SumFunctionOnSet(f, U) = Cardinality(Ones(U)) /\ f[p] \in {0, 1}
      BY <3>1
    <3>5. Ones(T) = IF f[p] = 1 THEN Ones(U) \cup {p} ELSE Ones(U)
      BY <3>1
    <3>6. Cardinality(Ones(U)) \in Nat
      BY <3>3, FS_CardinalityType
    <3> HIDE DEF p, U, Ones
    <3>7. Cardinality(Ones(U) \cup {p}) = Cardinality(Ones(U)) + 1
      BY <3>3, FS_AddElement
    <3>8. SumFunctionOnSet(f, T) = Cardinality(Ones(T))
      BY <3>2, <3>4, <3>5, <3>6, <3>7
    <3> QED BY <3>8
  <2> QED BY <2>1, <2>2
<1>2. S \in Q
  <2> HIDE DEF Q
  <2> QED BY <1>1, WholeSet
<1> QED BY <1>2
=============================================================================
