-------------------------- MODULE Statistics_proofs --------------------------
(***************************************************************************)
(* Theorems about Sketch and Statistics, for every width of the hashes,    *)
(* every precision, retention and length of an hour, a day and a history.  *)
(*                                                                         *)
(* What the folds of the model compute is shown without induction: a       *)
(* closed form satisfies the equation of the fold, and two functions that  *)
(* do are the same, because there is no smallest set on which they differ. *)
(* The invariant of the tables comes first, then that of the page that is  *)
(* read, which rests on it.                                                *)
(***************************************************************************)
EXTENDS Statistics, FiniteSetTheorems, WellFoundedInduction, TLAPS

-----------------------------------------------------------------------------
(* Finite sets.                                                            *)

LEMMA LeastNumber ==
    ASSUME NEW N \in SUBSET Nat, N # {}
    PROVE  \E n \in N : \A m \in N : ~(m < n)
<1>1. \E n \in N : \A m \in N : ~(<<m, n>> \in OpToRel(<, Nat))
  BY WFMin, NatLessThanWellFounded
<1> QED BY <1>1 DEF OpToRel

(* T holds every subset of S if it holds one as soon as it holds all that  *)
(* are smaller.                                                            *)
LEMMA SubsetInduction ==
    ASSUME NEW S, IsFiniteSet(S), NEW T,
           \A s \in SUBSET S : (\A t \in SUBSET s : t # s => t \in T) => s \in T
    PROVE  \A s \in SUBSET S : s \in T
<1> SUFFICES ASSUME NEW s0 \in SUBSET S, s0 \notin T PROVE FALSE
  OBVIOUS
<1> DEFINE Bad == {s \in SUBSET S : s \notin T}
           N == {n \in Nat : \E s \in Bad : Cardinality(s) = n}
<1>1. \A s \in SUBSET S : IsFiniteSet(s) /\ Cardinality(s) \in Nat
  BY FS_Subset, FS_CardinalityType
<1>2. N \subseteq Nat /\ N # {}
  <2>1. s0 \in Bad /\ Cardinality(s0) \in N
    BY <1>1
  <2> QED BY <2>1
<1> HIDE DEF N
<1>3. PICK n \in N : \A m \in N : ~(m < n)
  BY <1>2, LeastNumber
<1>5. PICK s \in Bad : Cardinality(s) = n
  BY <1>3 DEF N
<1>6. PICK t \in SUBSET s : t # s /\ t \notin T
  BY <1>5
<1>7. t \in SUBSET S /\ s \in SUBSET S
  BY <1>5, <1>6
<1>8. Cardinality(t) <= Cardinality(s) /\ Cardinality(t) # Cardinality(s)
  BY <1>1, <1>6, <1>7, FS_Subset
<1>9. Cardinality(t) \in N /\ Cardinality(t) < n
  BY <1>1, <1>5, <1>6, <1>7, <1>8 DEF N
<1> QED BY <1>2, <1>3, <1>9

(* A set of integers with a bound has a largest element, and Max is it.    *)
LEMMA MaxOfBounded ==
    ASSUME NEW N \in Int, NEW S \in SUBSET Int, S # {}, \A x \in S : x <= N
    PROVE  Max(S) \in S /\ \A x \in S : Max(S) >= x
<1> DEFINE T == {n \in Nat : N - n \in S}
<1>1. T \subseteq Nat
  OBVIOUS
<1>2. T # {}
  <2>1. PICK x \in S : TRUE
    OBVIOUS
  <2>2. N - x \in Nat /\ N - (N - x) = x
    BY <2>1
  <2>3. N - x \in T
    BY <2>1, <2>2
  <2> QED BY <2>3
<1> HIDE DEF T
<1>4. PICK n \in T : \A m \in T : ~(m < n)
  BY <1>1, <1>2, LeastNumber
<1>5. n \in Nat /\ N - n \in S
  BY DEF T
<1>6. ASSUME NEW x \in S PROVE N - n >= x
  <2>1. N - x \in Nat /\ N - (N - x) = x
    OBVIOUS
  <2>2. N - x \in T
    BY <2>1 DEF T
  <2>3. ~(N - x < n)
    BY <1>4, <2>2
  <2> QED BY <1>5, <2>1, <2>3
<1> QED BY <1>5, <1>6 DEF Max

LEMMA MaxOfUnion ==
    ASSUME NEW N \in Int, NEW A \in SUBSET Int, NEW B \in SUBSET Int,
           A # {}, B # {}, \A x \in A \cup B : x <= N
    PROVE  Max(A \cup B) = Larger(Max(A), Max(B))
<1>1. Max(A) \in A /\ \A x \in A : Max(A) >= x
  BY MaxOfBounded
<1>2. Max(B) \in B /\ \A x \in B : Max(B) >= x
  BY MaxOfBounded
<1>3. Max(A \cup B) \in A \cup B /\ \A x \in A \cup B : Max(A \cup B) >= x
  <2> DEFINE S == A \cup B
  <2>1. S \in SUBSET Int /\ S # {} /\ \A x \in S : x <= N
    OBVIOUS
  <2> HIDE DEF S
  <2>2. Max(S) \in S /\ \A x \in S : Max(S) >= x
    BY <2>1, MaxOfBounded
  <2> QED BY <2>2 DEF S
<1> HIDE DEF Max
<1>4. /\ Max(A) \in Int /\ Max(B) \in Int /\ Max(A \cup B) \in Int
      /\ Max(A \cup B) >= Max(A) /\ Max(A \cup B) >= Max(B)
      /\ Max(A) >= Max(A \cup B) \/ Max(B) >= Max(A \cup B)
  BY <1>1, <1>2, <1>3
<1> QED BY <1>4 DEF Larger

-----------------------------------------------------------------------------
(* Sketches.                                                               *)

LEMMA RankBound ==
    ASSUME NEW p \in Precision, NEW h
    PROVE  Rank(p, h) \in Int /\ Rank(p, h) <= HashBits
<1> DEFINE n == h % 2^(HashBits - p)
           K == {k \in 0 .. HashBits - 1 : 2^k <= n}
<1>1. HashBits \in Nat /\ p \in Nat /\ 1 <= p
  BY HashBitsAssumption DEF Precision
<1>2. IsFiniteSet(0 .. HashBits - 1)
  BY <1>1, FS_Interval
<1>3. K \in SUBSET (0 .. HashBits - 1)
  OBVIOUS
<1>4. Cardinality(K) \in Nat
  BY <1>2, <1>3, FS_Subset, FS_CardinalityType
<1>5. Rank(p, h) = (HashBits - p) - Cardinality(K) + 1
  BY DEF Rank, BitLength
<1> QED BY <1>1, <1>4, <1>5

(* The ranks of the values of H that fall into register i.                 *)
Ranks(p, H, i) == {0} \cup {Rank(p, h) : h \in {x \in H : Index(p, x) = i}}

LEMMA RanksBounded ==
    ASSUME NEW p \in Precision, NEW H, NEW i
    PROVE  /\ Ranks(p, H, i) \in SUBSET Int /\ Ranks(p, H, i) # {}
           /\ \A x \in Ranks(p, H, i) : x <= HashBits
           /\ Max(Ranks(p, H, i)) \in 0 .. HashBits
<1>1. HashBits \in Nat
  BY HashBitsAssumption
<1>2. /\ Ranks(p, H, i) \in SUBSET Int /\ 0 \in Ranks(p, H, i)
      /\ \A x \in Ranks(p, H, i) : x <= HashBits
  BY <1>1, RankBound DEF Ranks
<1>3. /\ Max(Ranks(p, H, i)) \in Ranks(p, H, i)
      /\ \A x \in Ranks(p, H, i) : Max(Ranks(p, H, i)) >= x
  <2> DEFINE R == Ranks(p, H, i)
  <2>1. R \in SUBSET Int /\ R # {} /\ HashBits \in Int /\ \A x \in R : x <= HashBits
    BY <1>1, <1>2
  <2> HIDE DEF R
  <2>2. Max(R) \in R /\ \A x \in R : Max(R) >= x
    BY <2>1, MaxOfBounded
  <2> QED BY <2>2 DEF R
<1> QED BY <1>1, <1>2, <1>3

LEMMA OfRegisters ==
    ASSUME NEW p, NEW H
    PROVE  Of(p, H) = [precision |-> p,
                       registers |-> [i \in 0 .. 2^p - 1 |-> Max(Ranks(p, H, i))]]
  BY DEF Of, Ranks

(* HyperLogLog.merge(): merging the sketches of two sets is the sketch of  *)
(* their union: the order and the batches of values leave no trace.        *)
THEOREM MergeOf ==
    ASSUME NEW p \in Precision, NEW G, NEW H
    PROVE  Merge(Of(p, G), Of(p, H)) = Of(p, G \cup H)
<1>1. \A i : Max(Ranks(p, G \cup H, i)) = Larger(Max(Ranks(p, G, i)), Max(Ranks(p, H, i)))
  <2> TAKE i
  <2>1. Ranks(p, G \cup H, i) = Ranks(p, G, i) \cup Ranks(p, H, i)
    BY DEF Ranks
  <2>2. HashBits \in Int
    BY HashBitsAssumption
  <2>3. \A x \in Ranks(p, G, i) \cup Ranks(p, H, i) : x <= HashBits
    BY RanksBounded
  <2> DEFINE A == Ranks(p, G, i)
             B == Ranks(p, H, i)
  <2>4. A \in SUBSET Int /\ B \in SUBSET Int /\ A # {} /\ B # {}
    BY RanksBounded
  <2>5. \A x \in A \cup B : x <= HashBits
    BY <2>3
  <2> HIDE DEF A, B
  <2>6. Max(A \cup B) = Larger(Max(A), Max(B))
    BY <2>2, <2>4, <2>5, MaxOfUnion
  <2> QED BY <2>1, <2>6 DEF A, B
<1> DEFINE f == [i \in 0 .. 2^p - 1 |-> Max(Ranks(p, G, i))]
           g == [i \in 0 .. 2^p - 1 |-> Max(Ranks(p, H, i))]
<1>2. Of(p, G) = [precision |-> p, registers |-> f] /\ Of(p, H).registers = g
  BY OfRegisters
<1>3. Merge(Of(p, G), Of(p, H))
        = [precision |-> p, registers |-> [i \in 0 .. 2^p - 1 |-> Larger(f[i], g[i])]]
  <2> DEFINE a == Of(p, G)
             joined == [i \in DOMAIN a.registers |-> Larger(a.registers[i], g[i])]
  <2>1. Merge(a, Of(p, H)) = [a EXCEPT !.registers = joined]
    BY <1>2 DEF Merge
  <2> HIDE DEF f, g
  <2>2. a = [precision |-> p, registers |-> f] /\ a.registers = f
    BY <1>2
  <2> HIDE DEF a
  <2>3. [a EXCEPT !.registers = joined] = [precision |-> p, registers |-> joined]
    BY <2>2
  <2>4. DOMAIN f = 0 .. 2^p - 1
    BY DEF f
  <2> QED BY <2>1, <2>2, <2>3, <2>4 DEF a
<1>4. [i \in 0 .. 2^p - 1 |-> Larger(f[i], g[i])]
        = [i \in 0 .. 2^p - 1 |-> Max(Ranks(p, G \cup H, i))]
  BY <1>1
<1> QED BY <1>3, <1>4, OfRegisters

(* One value is added.                                                     *)
LEMMA AddOf ==
    ASSUME NEW p \in Precision, NEW H, NEW h
    PROVE  Add(Of(p, H), h) = Of(p, H \cup {h})
<1>1. \A i : Index(p, h) # i => Ranks(p, H \cup {h}, i) = Ranks(p, H, i)
  BY DEF Ranks
<1>2. \A i : Index(p, h) = i =>
          Max(Ranks(p, H \cup {h}, i)) = Larger(Max(Ranks(p, H, i)), Rank(p, h))
  <2> SUFFICES ASSUME NEW i, Index(p, h) = i
               PROVE  Max(Ranks(p, H \cup {h}, i)) = Larger(Max(Ranks(p, H, i)), Rank(p, h))
    OBVIOUS
  <2>1. Ranks(p, H \cup {h}, i) = Ranks(p, H, i) \cup {Rank(p, h)}
    BY DEF Ranks
  <2>2. HashBits \in Int
    BY HashBitsAssumption
  <2>3. \A x \in Ranks(p, H, i) \cup {Rank(p, h)} : x <= HashBits
    BY RanksBounded, RankBound
  <2> DEFINE A == Ranks(p, H, i)
             r == Rank(p, h)
             B == {r}
  <2>4. A \in SUBSET Int /\ A # {} /\ r \in Int
    BY RanksBounded, RankBound
  <2>5. \A x \in A \cup B : x <= HashBits
    BY <2>3
  <2> HIDE DEF A, r
  <2>6. B \in SUBSET Int /\ B # {} /\ Max(B) = r
    BY <2>4 DEF Max
  <2> HIDE DEF B
  <2>7. Max(A \cup B) = Larger(Max(A), Max(B))
    BY <2>2, <2>4, <2>5, <2>6, MaxOfUnion
  <2> QED BY <2>1, <2>6, <2>7 DEF A, B, r
<1> DEFINE f == [i \in 0 .. 2^p - 1 |-> Max(Ranks(p, H, i))]
           k == Index(p, h)
<1>3. Of(p, H) = [precision |-> p, registers |-> f]
  BY OfRegisters
<1>4. Add(Of(p, H), h)
        = [precision |-> p, registers |-> [f EXCEPT ![k] = Larger(@, Rank(p, h))]]
  <2> DEFINE a == Of(p, H)
             added == [a.registers EXCEPT ![k] = Larger(@, Rank(p, h))]
  <2> HIDE DEF f
  <2>1. a = [precision |-> p, registers |-> f] /\ a.registers = f /\ a.precision = p
    BY <1>3
  <2>2. Add(a, h) = [a EXCEPT !.registers = added]
    BY <2>1 DEF Add
  <2> HIDE DEF a
  <2>3. [a EXCEPT !.registers = added] = [precision |-> p, registers |-> added]
    BY <2>1
  <2> QED BY <2>1, <2>2, <2>3 DEF a
<1>5. [f EXCEPT ![k] = Larger(@, Rank(p, h))]
        = [i \in 0 .. 2^p - 1 |-> Max(Ranks(p, H \cup {h}, i))]
  BY <1>1, <1>2
<1> QED BY <1>4, <1>5, OfRegisters

LEMMA OfNothing ==
    ASSUME NEW p \in Precision
    PROVE  Of(p, {}) = Empty(p)
<1>1. \A i : Max(Ranks(p, {}, i)) = 0
  <2> TAKE i
  <2>1. Ranks(p, {}, i) = {0}
    BY DEF Ranks
  <2> QED BY <2>1 DEF Max
<1> QED BY <1>1, OfRegisters DEF Empty

(* g is the function that AddAll() folds with.                             *)
IsAdding(p, H, g) ==
    g = [s \in SUBSET H |->
           IF s = {} THEN Empty(p)
           ELSE LET x == CHOOSE x \in s : TRUE IN Add(g[s \ {x}], x)]

(* HyperLogLog.add(): adding the values of a batch one after the other, in *)
(* any order, makes the sketch of their set.                               *)
THEOREM AddAllOf ==
    ASSUME NEW p \in Precision, NEW H, IsFiniteSet(H)
    PROVE  AddAll(p, H) = Of(p, H)
<1> DEFINE ofs == [s \in SUBSET H |-> Of(p, s)]
           g == CHOOSE g : IsAdding(p, H, g)
<1>1. AddAll(p, H) = g[H]
  BY DEF AddAll, FoldSet, MapThenFoldSet, IsAdding
<1>2. IsAdding(p, H, ofs)
  <2>1. ASSUME NEW s \in SUBSET H, s # {}
        PROVE  Of(p, s) = LET x == CHOOSE x \in s : TRUE IN Add(ofs[s \ {x}], x)
    <3> DEFINE x == CHOOSE x \in s : TRUE
    <3>1. x \in s
      BY <2>1
    <3> HIDE DEF x
    <3>2. s \ {x} \in SUBSET H /\ (s \ {x}) \cup {x} = s
      BY <3>1
    <3>3. Of(p, s) = Add(ofs[s \ {x}], x)
      BY <3>2, AddOf
    <3> QED BY <3>3 DEF x
  <2>2. Of(p, {}) = Empty(p)
    BY OfNothing
  <2> QED BY <2>1, <2>2 DEF IsAdding
<1>3. IsAdding(p, H, g)
  BY <1>2
<1> HIDE DEF g
<1> DEFINE Same == {s \in SUBSET H : g[s] = Of(p, s)}
<1>4. \A s \in SUBSET H : (\A t \in SUBSET s : t # s => t \in Same) => s \in Same
  <2> SUFFICES ASSUME NEW s \in SUBSET H, \A t \in SUBSET s : t # s => t \in Same
               PROVE  g[s] = Of(p, s)
    OBVIOUS
  <2>1. CASE s = {}
    BY <1>3, <2>1, OfNothing DEF IsAdding
  <2>2. CASE s # {}
    <3> DEFINE x == CHOOSE x \in s : TRUE
    <3>1. x \in s
      BY <2>2
    <3>2. g[s] = Add(g[s \ {x}], x)
      BY <1>3, <2>2 DEF IsAdding
    <3> HIDE DEF x
    <3>3. s \ {x} \in SUBSET s /\ s \ {x} # s /\ (s \ {x}) \cup {x} = s
      BY <3>1
    <3>4. g[s \ {x}] = Of(p, s \ {x})
      BY <3>3
    <3> QED BY <3>2, <3>3, <3>4, AddOf
  <2> QED BY <2>1, <2>2
<1> HIDE DEF Same
<1>5. H \in Same
  BY <1>4, SubsetInduction
<1> QED BY <1>1, <1>5 DEF Same

-----------------------------------------------------------------------------
(* Sums.  A sum of natural numbers is the number of their units.           *)

Units(f, s) == UNION {{x} \X (1 .. f[x]) : x \in s}

LEMMA UnitsApart ==
    ASSUME NEW f, NEW s, NEW t, s \cap t = {}
    PROVE  Units(f, s \cup t) = Units(f, s) \cup Units(f, t)
           /\ Units(f, s) \cap Units(f, t) = {}
  BY DEF Units

LEMMA UnitsOfOne ==
    ASSUME NEW f, NEW x, f[x] \in Nat
    PROVE  IsFiniteSet(Units(f, {x})) /\ Cardinality(Units(f, {x})) = f[x]
<1>1. Units(f, {x}) = {x} \X (1 .. f[x])
  BY DEF Units
<1>2. IsFiniteSet({x}) /\ Cardinality({x}) = 1
  BY FS_Singleton
<1>3. IsFiniteSet(1 .. f[x]) /\ Cardinality(1 .. f[x]) = f[x]
  <2>1. \A a, b \in Int : /\ IsFiniteSet(a .. b)
                          /\ Cardinality(a .. b) = IF a > b THEN 0 ELSE b - a + 1
    BY FS_Interval
  <2>2. 1 \in Int /\ f[x] \in Int
    OBVIOUS
  <2>3. /\ IsFiniteSet(1 .. f[x])
        /\ Cardinality(1 .. f[x]) = IF 1 > f[x] THEN 0 ELSE f[x] - 1 + 1
    BY <2>1, <2>2
  <2> QED BY <2>3
<1>4. /\ IsFiniteSet({x} \X (1 .. f[x]))
      /\ Cardinality({x} \X (1 .. f[x])) = Cardinality({x}) * Cardinality(1 .. f[x])
  BY <1>2, <1>3, FS_Product
<1>5. Cardinality({x}) * Cardinality(1 .. f[x]) = 1 * f[x]
  BY <1>2, <1>3
<1>6. 1 * f[x] = f[x]
  OBVIOUS
<1> QED BY <1>1, <1>4, <1>5, <1>6

LEMMA UnitsStep ==
    ASSUME NEW f, NEW s, NEW x \in s, f[x] \in Nat, IsFiniteSet(Units(f, s \ {x}))
    PROVE  /\ IsFiniteSet(Units(f, s))
           /\ Cardinality(Units(f, s)) = f[x] + Cardinality(Units(f, s \ {x}))
<1> DEFINE A == Units(f, {x})
           B == Units(f, s \ {x})
<1>1. Units(f, s) = A \cup B /\ A \cap B = {}
  <2> DEFINE u == {x}
             v == s \ {x}
  <2>1. s = u \cup v /\ u \cap v = {}
    OBVIOUS
  <2> HIDE DEF u, v
  <2>2. Units(f, u \cup v) = Units(f, u) \cup Units(f, v) /\ Units(f, u) \cap Units(f, v) = {}
    BY <2>1, UnitsApart
  <2> QED BY <2>1, <2>2 DEF u, v
<1>2. IsFiniteSet(A) /\ Cardinality(A) = f[x] /\ IsFiniteSet(B)
  BY UnitsOfOne
<1> HIDE DEF A, B
<1>3. IsFiniteSet(A \cup B) /\ Cardinality(A \cup B)
          = Cardinality(A) + Cardinality(B) - Cardinality(A \cap B)
  BY <1>2, FS_Union
<1>4. Cardinality(A \cap B) = 0 /\ Cardinality(B) \in Nat
  BY <1>1, <1>2, FS_EmptySet, FS_CardinalityType
<1> QED BY <1>1, <1>2, <1>3, <1>4 DEF A, B

LEMMA UnitsFinite ==
    ASSUME NEW K, IsFiniteSet(K), NEW f, \A x \in K : f[x] \in Nat
    PROVE  \A s \in SUBSET K : IsFiniteSet(Units(f, s)) /\ Cardinality(Units(f, s)) \in Nat
<1> DEFINE T == {s \in SUBSET K : IsFiniteSet(Units(f, s))}
<1>1. \A s \in SUBSET K : (\A t \in SUBSET s : t # s => t \in T) => s \in T
  <2> SUFFICES ASSUME NEW s \in SUBSET K, \A t \in SUBSET s : t # s => t \in T
               PROVE  IsFiniteSet(Units(f, s))
    OBVIOUS
  <2>1. CASE s = {}
    <3>1. Units(f, s) = {}
      BY <2>1 DEF Units
    <3> QED BY <3>1, FS_EmptySet
  <2>2. CASE s # {}
    <3>1. PICK x \in s : TRUE
      BY <2>2
    <3>2. s \ {x} \in SUBSET s /\ s \ {x} # s
      BY <3>1
    <3>3. IsFiniteSet(Units(f, s \ {x})) /\ f[x] \in Nat
      BY <3>1, <3>2
    <3> QED BY <3>1, <3>3, UnitsStep, Zenon
  <2> QED BY <2>1, <2>2
<1> HIDE DEF T
<1>2. \A s \in SUBSET K : s \in T
  BY <1>1, SubsetInduction
<1> QED BY <1>2, FS_CardinalityType DEF T

(* g is the function that Sum() folds with.                                *)
IsSumming(f, g) ==
    g = [s \in SUBSET DOMAIN f |->
           IF s = {} THEN 0
           ELSE LET x == CHOOSE x \in s : TRUE IN f[x] + g[s \ {x}]]

LEMMA SumIsUnits ==
    ASSUME NEW f, IsFiniteSet(DOMAIN f), \A x \in DOMAIN f : f[x] \in Nat
    PROVE  Sum(f) = Cardinality(Units(f, DOMAIN f))
<1> DEFINE K == DOMAIN f
           size == [s \in SUBSET K |-> Cardinality(Units(f, s))]
           g == CHOOSE g : IsSumming(f, g)
<1>1. Sum(f) = g[K]
  BY DEF Sum, SumFunction, SumFunctionOnSet, FoldFunctionOnSet, MapThenFoldSet, IsSumming
<1>2. \A s \in SUBSET K : \A x \in s :
          Cardinality(Units(f, s)) = f[x] + Cardinality(Units(f, s \ {x}))
  <2> SUFFICES ASSUME NEW s \in SUBSET K, NEW x \in s
               PROVE  Cardinality(Units(f, s)) = f[x] + Cardinality(Units(f, s \ {x}))
    OBVIOUS
  <2>1. s \ {x} \in SUBSET K /\ f[x] \in Nat
    OBVIOUS
  <2>2. IsFiniteSet(Units(f, s \ {x}))
    BY <2>1, UnitsFinite
  <2> QED BY <2>1, <2>2, UnitsStep
<1>3. Cardinality(Units(f, {})) = 0
  BY FS_EmptySet DEF Units
<1>4. IsSumming(f, size)
  <2>1. ASSUME NEW s \in SUBSET K, s # {}
        PROVE  Cardinality(Units(f, s)) = LET x == CHOOSE x \in s : TRUE IN f[x] + size[s \ {x}]
    <3> DEFINE x == CHOOSE x \in s : TRUE
    <3>1. x \in s
      BY <2>1
    <3> HIDE DEF x
    <3>2. s \ {x} \in SUBSET K
      BY <3>1
    <3>3. Cardinality(Units(f, s)) = f[x] + size[s \ {x}]
      BY <1>2, <3>1, <3>2
    <3> QED BY <3>3 DEF x
  <2> QED BY <2>1, <1>3 DEF IsSumming
<1>5. IsSumming(f, g)
  BY <1>4
<1> HIDE DEF g
<1> DEFINE Same == {s \in SUBSET K : g[s] = Cardinality(Units(f, s))}
<1>6. \A s \in SUBSET K : (\A t \in SUBSET s : t # s => t \in Same) => s \in Same
  <2> SUFFICES ASSUME NEW s \in SUBSET K, \A t \in SUBSET s : t # s => t \in Same
               PROVE  g[s] = Cardinality(Units(f, s))
    OBVIOUS
  <2>1. CASE s = {}
    BY <1>3, <1>5, <2>1 DEF IsSumming
  <2>2. CASE s # {}
    <3> DEFINE x == CHOOSE x \in s : TRUE
    <3>1. x \in s
      BY <2>2
    <3>2. g[s] = f[x] + g[s \ {x}]
      BY <1>5, <2>2 DEF IsSumming
    <3> HIDE DEF x
    <3>3. s \ {x} \in SUBSET s /\ s \ {x} # s
      BY <3>1
    <3>4. g[s \ {x}] = Cardinality(Units(f, s \ {x}))
      BY <3>3
    <3> QED BY <1>2, <3>1, <3>2, <3>4
  <2> QED BY <2>1, <2>2
<1> HIDE DEF Same
<1> HIDE DEF K
<1>7. IsFiniteSet(K)
  BY DEF K
<1>8. \A s \in SUBSET K : s \in Same
  BY <1>6, <1>7, SubsetInduction
<1>9. K \in Same
  BY <1>8
<1> QED BY <1>1, <1>9 DEF K, Same

LEMMA SumType ==
    ASSUME NEW K, IsFiniteSet(K), NEW f \in [K -> Nat]
    PROVE  Sum(f) \in Nat
  BY SumIsUnits, UnitsFinite

LEMMA SumOfNone ==
    ASSUME NEW f, DOMAIN f = {}
    PROVE  Sum(f) = 0
<1>1. Units(f, DOMAIN f) = {}
  BY DEF Units
<1> QED BY <1>1, FS_EmptySet, SumIsUnits

LEMMA SumTake ==
    ASSUME NEW K, IsFiniteSet(K), NEW f \in [K -> Nat], NEW x \in K
    PROVE  Sum(f) = f[x] + Sum(Restrict(f, K \ {x}))
<1> DEFINE L == K \ {x}
           g == Restrict(f, L)
<1>1. IsFiniteSet(L) /\ DOMAIN g = L /\ L \in SUBSET K
  BY FS_RemoveElement DEF Restrict
<1>2. Units(g, L) = Units(f, L)
  BY DEF Units, Restrict
<1>3. Sum(g) = Cardinality(Units(g, L))
  <2>1. \A y \in L : g[y] \in Nat
    BY DEF Restrict
  <2> HIDE DEF g, L
  <2> QED BY <1>1, <2>1, SumIsUnits
<1>4. Sum(f) = Cardinality(Units(f, K))
  BY SumIsUnits
<1>5. IsFiniteSet(Units(f, L))
  BY <1>1, UnitsFinite
<1>6. Cardinality(Units(f, K)) = f[x] + Cardinality(Units(f, L))
  BY <1>5, UnitsStep
<1> QED BY <1>2, <1>3, <1>4, <1>6

(* The sum over two parts of the keys.                                     *)
LEMMA SumJoin ==
    ASSUME NEW A, NEW B, IsFiniteSet(A), IsFiniteSet(B), A \cap B = {},
           NEW K, K = A \cup B, NEW f \in [K -> Nat]
    PROVE  Sum(f) = Sum([k \in A |-> f[k]]) + Sum([k \in B |-> f[k]])
<1> DEFINE g == [k \in A |-> f[k]]
           h == [k \in B |-> f[k]]
<1>1. IsFiniteSet(K)
  BY FS_Union
<1>2. Sum(f) = Cardinality(Units(f, K))
  BY <1>1, SumIsUnits
<1>3. Sum(g) = Cardinality(Units(f, A))
  <2>1. Units(g, A) = Units(f, A)
    BY DEF Units
  <2>2. Sum(g) = Cardinality(Units(g, A))
    BY SumIsUnits
  <2> QED BY <2>1, <2>2
<1>4. Sum(h) = Cardinality(Units(f, B))
  <2>1. Units(h, B) = Units(f, B)
    BY DEF Units
  <2>2. Sum(h) = Cardinality(Units(h, B))
    BY SumIsUnits
  <2> QED BY <2>1, <2>2
<1> DEFINE U == Units(f, A)
           V == Units(f, B)
<1>5. Units(f, K) = U \cup V /\ U \cap V = {}
  BY UnitsApart
<1>6. IsFiniteSet(U) /\ IsFiniteSet(V)
  BY UnitsFinite
<1> HIDE DEF U, V, g, h
<1>7. Cardinality(U \cup V) = Cardinality(U) + Cardinality(V) - Cardinality(U \cap V)
  BY <1>6, FS_Union
<1>8. Cardinality(U \cap V) = 0 /\ Cardinality(U) \in Nat /\ Cardinality(V) \in Nat
  BY <1>5, <1>6, FS_EmptySet, FS_CardinalityType
<1>9. Sum(f) = Sum(g) + Sum(h)
  <2>1. Sum(f) = Cardinality(U \cup V)
    BY <1>2, <1>5
  <2>2. Sum(g) = Cardinality(U) /\ Sum(h) = Cardinality(V)
    BY <1>3, <1>4 DEF U, V
  <2> QED BY <1>7, <1>8, <2>1, <2>2
<1> QED BY <1>9 DEF g, h

(* Two counts of each key.                                                 *)
LEMMA SumPlus ==
    ASSUME NEW K, IsFiniteSet(K), NEW f \in [K -> Nat], NEW g \in [K -> Nat]
    PROVE  Sum([k \in K |-> f[k] + g[k]]) = Sum(f) + Sum(g)
<1> DEFINE F(s) == [k \in s |-> f[k]]
           G(s) == [k \in s |-> g[k]]
           H(s) == [k \in s |-> f[k] + g[k]]
           T == {s \in SUBSET K : Sum(H(s)) = Sum(F(s)) + Sum(G(s))}
<1>1. \A s \in SUBSET K : (\A t \in SUBSET s : t # s => t \in T) => s \in T
  <2> SUFFICES ASSUME NEW s \in SUBSET K, \A t \in SUBSET s : t # s => t \in T
               PROVE  Sum(H(s)) = Sum(F(s)) + Sum(G(s))
    OBVIOUS
  <2>1. CASE s = {}
    BY <2>1, SumOfNone
  <2>2. CASE s # {}
    <3>1. PICK x \in s : TRUE
      BY <2>2
    <3> DEFINE t == s \ {x}
    <3>2. t \in SUBSET s /\ t # s /\ IsFiniteSet(s) /\ IsFiniteSet(t)
      BY <3>1, FS_Subset
    <3>3. Sum(H(t)) = Sum(F(t)) + Sum(G(t))
      BY <3>2
    <3>4. /\ F(s) \in [s -> Nat] /\ G(s) \in [s -> Nat] /\ H(s) \in [s -> Nat]
          /\ F(t) \in [t -> Nat] /\ G(t) \in [t -> Nat]
      OBVIOUS
    <3>5. Sum(F(s)) = f[x] + Sum(F(t))
      <4> DEFINE a == F(s)
      <4>1. Restrict(a, t) = F(t) /\ a[x] = f[x]
        BY <3>1 DEF Restrict
      <4>2. a \in [s -> Nat]
        BY <3>4
      <4> HIDE DEF a
      <4>3. Sum(a) = a[x] + Sum(Restrict(a, t))
        BY <3>1, <3>2, <4>2, SumTake
      <4> QED BY <4>1, <4>3 DEF a
    <3>6. Sum(G(s)) = g[x] + Sum(G(t))
      <4> DEFINE a == G(s)
      <4>1. Restrict(a, t) = G(t) /\ a[x] = g[x]
        BY <3>1 DEF Restrict
      <4>2. a \in [s -> Nat]
        BY <3>4
      <4> HIDE DEF a
      <4>3. Sum(a) = a[x] + Sum(Restrict(a, t))
        BY <3>1, <3>2, <4>2, SumTake
      <4> QED BY <4>1, <4>3 DEF a
    <3>7. Sum(H(s)) = f[x] + g[x] + Sum(H(t))
      <4> DEFINE a == H(s)
      <4>1. Restrict(a, t) = H(t) /\ a[x] = f[x] + g[x]
        BY <3>1 DEF Restrict
      <4>2. a \in [s -> Nat]
        BY <3>4
      <4> HIDE DEF a
      <4>3. Sum(a) = a[x] + Sum(Restrict(a, t))
        BY <3>1, <3>2, <4>2, SumTake
      <4> QED BY <4>1, <4>3 DEF a
    <3>8. Sum(F(t)) \in Nat /\ Sum(G(t)) \in Nat /\ f[x] \in Nat /\ g[x] \in Nat
      BY <3>1, <3>2, <3>4, SumType
    <3> HIDE DEF F, G, H
    <3> QED BY <3>3, <3>5, <3>6, <3>7, <3>8
  <2> QED BY <2>1, <2>2
<1> HIDE DEF T
<1>2. \A s \in SUBSET K : s \in T
  BY <1>1, SubsetInduction
<1>3. K \in T
  BY <1>2
<1>4. Sum(H(K)) = Sum(F(K)) + Sum(G(K))
  BY <1>3 DEF T
<1>5. F(K) = f /\ G(K) = g
  OBVIOUS
<1> QED BY <1>4, <1>5

LEMMA SumOfZeros ==
    ASSUME NEW K, IsFiniteSet(K)
    PROVE  Sum([k \in K |-> 0]) = 0
<1> DEFINE f == [k \in K |-> 0]
<1>1. Units(f, K) = {}
  BY DEF Units
<1>2. Sum(f) = Cardinality(Units(f, K))
  BY SumIsUnits
<1> QED BY <1>1, <1>2, FS_EmptySet

-----------------------------------------------------------------------------
(* Tables of counters.                                                     *)

(* The keys of the positions I, and the positions with a key, or one of P. *)
Keys(I, key) == {key[i] : i \in I}
With(I, key, k) == {i \in I : key[i] = k}
Within(I, key, P) == {i \in I : key[i] \in P}

LEMMA KeysFinite ==
    ASSUME NEW I, IsFiniteSet(I), NEW key
    PROVE  /\ IsFiniteSet(Keys(I, key))
           /\ \A k : IsFiniteSet(With(I, key, k)) /\ Cardinality(With(I, key, k)) \in Nat
           /\ \A P : IsFiniteSet(Within(I, key, P))
<1> DEFINE T == {key[i] : i \in I}
           g == [i \in I |-> key[i]]
<1>1. g \in Surjection(I, T)
  BY DEF Surjection
<1>2. IsFiniteSet(T)
  BY <1>1, FS_Surjection
<1>3. \A k : With(I, key, k) \in SUBSET I
  BY DEF With
<1>4. \A P : Within(I, key, P) \in SUBSET I
  BY DEF Within
<1> QED BY <1>2, <1>3, <1>4, FS_Subset, FS_CardinalityType DEF Keys

(* The positions of a batch, counted by their keys.                        *)
LEMMA Groups ==
    ASSUME NEW I, IsFiniteSet(I), NEW key, NEW K, IsFiniteSet(K)
    PROVE  Sum([k \in K |-> Cardinality(With(I, key, k))]) = Cardinality(Within(I, key, K))
<1> DEFINE size(k) == Cardinality(With(I, key, k))
           F(s) == [k \in s |-> size(k)]
           T == {s \in SUBSET K : Sum(F(s)) = Cardinality(Within(I, key, s))}
<1>1. \A s \in SUBSET K : (\A t \in SUBSET s : t # s => t \in T) => s \in T
  <2> SUFFICES ASSUME NEW s \in SUBSET K, \A t \in SUBSET s : t # s => t \in T
               PROVE  Sum(F(s)) = Cardinality(Within(I, key, s))
    OBVIOUS
  <2>1. CASE s = {}
    <3>1. Within(I, key, s) = {} /\ DOMAIN F(s) = {}
      BY <2>1 DEF Within
    <3> QED BY <3>1, SumOfNone, FS_EmptySet
  <2>2. CASE s # {}
    <3>1. PICK x \in s : TRUE
      BY <2>2
    <3> DEFINE t == s \ {x}
               A == With(I, key, x)
               B == Within(I, key, t)
               a == F(s)
    <3>2. t \in SUBSET s /\ t # s /\ IsFiniteSet(s)
      BY <3>1, FS_Subset
    <3>3. Sum(F(t)) = Cardinality(B)
      BY <3>2
    <3>4. Within(I, key, s) = A \cup B /\ A \cap B = {}
      BY <3>1 DEF With, Within
    <3>5. Cardinality(Within(I, key, s)) = size(x) + Cardinality(B)
      <4>1. IsFiniteSet(A) /\ IsFiniteSet(B) /\ size(x) = Cardinality(A)
        BY KeysFinite
      <4> HIDE DEF A, B, size
      <4>2. Cardinality(A \cup B) = Cardinality(A) + Cardinality(B) - Cardinality(A \cap B)
        BY <4>1, FS_Union
      <4>3. Cardinality(A \cap B) = 0 /\ Cardinality(A) \in Nat /\ Cardinality(B) \in Nat
        BY <3>4, <4>1, FS_EmptySet, FS_CardinalityType
      <4> QED BY <3>4, <4>1, <4>2, <4>3
    <3>6. Sum(F(s)) = size(x) + Sum(F(t))
      <4>1. Restrict(a, t) = F(t) /\ a[x] = size(x)
        BY <3>1 DEF Restrict
      <4>2. a \in [s -> Nat]
        BY KeysFinite
      <4> HIDE DEF a, size, F, T
      <4>3. Sum(a) = a[x] + Sum(Restrict(a, s \ {x}))
        BY <3>1, <3>2, <4>2, SumTake
      <4> QED BY <4>1, <4>3 DEF a
    <3> QED BY <3>3, <3>5, <3>6
  <2> QED BY <2>1, <2>2
<1> HIDE DEF T
<1>2. \A s \in SUBSET K : s \in T
  BY <1>1, SubsetInduction
<1>3. K \in T
  BY <1>2
<1> QED BY <1>3 DEF T

(* Finitely many rows, each with the counters F.                           *)
IsTable(t, F) ==
    /\ IsFiniteSet(DOMAIN t)
    /\ t = [k \in DOMAIN t |-> t[k]]
    /\ \A k \in DOMAIN t, f \in F : f \in DOMAIN t[k] /\ t[k][f] \in Nat

(* What a row says, or no row.                                             *)
Cell(t, k, f) == IF k \in DOMAIN t THEN t[k][f] ELSE 0

LEMMA AddedKeys ==
    ASSUME NEW t, NEW r, NEW n, n = AddCounters(t, r)
    PROVE  DOMAIN n = DOMAIN t \cup DOMAIN r
  BY DEF AddCounters, Upsert

LEMMA AddedCells ==
    ASSUME NEW F, NEW t, NEW r, IsTable(t, F), IsTable(r, F), NEW n, n = AddCounters(t, r),
           NEW k \in DOMAIN t \cup DOMAIN r, NEW f \in F
    PROVE  /\ f \in DOMAIN n[k]
           /\ n[k][f] = Cell(t, k, f) + Cell(r, k, f)
           /\ Cell(t, k, f) \in Nat /\ Cell(r, k, f) \in Nat
<1> DEFINE both(j) == [e \in DOMAIN t[j] |-> t[j][e] + r[j][e]]
           D == DOMAIN t \cup DOMAIN r
<1>1. n = [j \in D |-> IF j \in DOMAIN t
                       THEN IF j \in DOMAIN r THEN both(j) ELSE t[j]
                       ELSE r[j]]
  BY DEF AddCounters, Upsert, Pointwise
<1> QED BY <1>1 DEF IsTable, Cell

LEMMA AddedTable ==
    ASSUME NEW F, NEW t, NEW r, IsTable(t, F), IsTable(r, F), NEW n, n = AddCounters(t, r)
    PROVE  IsTable(n, F)
<1>1. DOMAIN n = DOMAIN t \cup DOMAIN r
  BY AddedKeys
<1>2. IsFiniteSet(DOMAIN n)
  <2>1. IsFiniteSet(DOMAIN t) /\ IsFiniteSet(DOMAIN r)
    BY DEF IsTable
  <2> QED BY <1>1, <2>1, FS_Union
<1>3. n = [k \in DOMAIN n |-> n[k]]
  BY DEF AddCounters, Upsert
<1>4. \A k \in DOMAIN n, f \in F : f \in DOMAIN n[k] /\ n[k][f] \in Nat
  BY <1>1, AddedCells
<1> QED BY <1>2, <1>3, <1>4 DEF IsTable

(* Keys without a row add nothing.                                         *)
LEMMA SumOfPart ==
    ASSUME NEW D, NEW g \in [D -> Nat], NEW P, IsFiniteSet(P)
    PROVE  Sum([k \in P |-> IF k \in D THEN g[k] ELSE 0]) = Sum([k \in P \cap D |-> g[k]])
<1> DEFINE h == [k \in P |-> IF k \in D THEN g[k] ELSE 0]
           A == P \cap D
           B == P \ D
<1>1. IsFiniteSet(A) /\ IsFiniteSet(B) /\ A \cap B = {} /\ A \cup B = P
  BY FS_Subset
<1>2. h \in [P -> Nat]
  BY <1>1
<1>3. [k \in A |-> h[k]] = [k \in P \cap D |-> g[k]] /\ [k \in B |-> h[k]] = [k \in B |-> 0]
  OBVIOUS
<1> HIDE DEF h, A, B
<1>4. Sum(h) = Sum([k \in A |-> h[k]]) + Sum([k \in B |-> h[k]])
  BY <1>1, <1>2, SumJoin
<1>5. Sum([k \in B |-> 0]) = 0
  BY <1>1, SumOfZeros
<1>6. Sum([k \in A |-> h[k]]) \in Nat
  <2> DEFINE a == [k \in A |-> h[k]]
  <2>1. A \subseteq P
    BY DEF A
  <2>2. a \in [A -> Nat]
    BY <1>2, <2>1
  <2> HIDE DEF a
  <2>3. Sum(a) \in Nat
    BY <1>1, <2>2, SumType
  <2> QED BY <2>3 DEF a
<1>7. Sum(h) = Sum([k \in P \cap D |-> g[k]])
  BY <1>3, <1>4, <1>5, <1>6
<1> QED BY <1>7 DEF h

(* What two tables hold under the keys P, together.                        *)
Both(f, C, g, D, P) ==
    [k \in P |-> (IF k \in C THEN f[k] ELSE 0) + (IF k \in D THEN g[k] ELSE 0)]

LEMMA SumOfBoth ==
    ASSUME NEW C, NEW D, NEW f \in [C -> Nat], NEW g \in [D -> Nat], NEW P, IsFiniteSet(P)
    PROVE  Sum(Both(f, C, g, D, P)) = Sum(Restrict(f, P \cap C)) + Sum(Restrict(g, P \cap D))
<1> DEFINE a == [k \in P |-> IF k \in C THEN f[k] ELSE 0]
           b == [k \in P |-> IF k \in D THEN g[k] ELSE 0]
<1>1. a \in [P -> Nat] /\ b \in [P -> Nat]
  OBVIOUS
<1>2. /\ Sum(a) = Sum([k \in P \cap C |-> f[k]])
      /\ Sum(b) = Sum([k \in P \cap D |-> g[k]])
  BY SumOfPart
<1>3. [k \in P |-> (IF k \in C THEN f[k] ELSE 0) + (IF k \in D THEN g[k] ELSE 0)]
        = [k \in P |-> a[k] + b[k]]
  OBVIOUS
<1> HIDE DEF a, b
<1>4. Sum([k \in P |-> a[k] + b[k]]) = Sum(a) + Sum(b)
  BY <1>1, SumPlus
<1>5. /\ Both(f, C, g, D, P) = [k \in P |-> a[k] + b[k]]
      /\ Restrict(f, P \cap C) = [k \in P \cap C |-> f[k]]
      /\ Restrict(g, P \cap D) = [k \in P \cap D |-> g[k]]
  BY <1>3 DEF Both, Restrict
<1> QED BY <1>2, <1>4, <1>5

LEMMA TotalType ==
    ASSUME NEW F, NEW t, IsTable(t, F), NEW f \in F, NEW P \in SUBSET DOMAIN t
    PROVE  Total(t, f, P) \in Nat
<1> DEFINE a == [k \in P |-> t[k][f]]
<1>1. IsFiniteSet(P) /\ a \in [P -> Nat]
  BY FS_Subset DEF IsTable
<1>2. Total(t, f, P) = Sum(a)
  BY DEF Total
<1> HIDE DEF a
<1> QED BY <1>1, <1>2, SumType

IsBoth(n, f, P, t, r) == \A k \in P : n[k][f] = Cell(t, k, f) + Cell(r, k, f)

LEMMA TotalOfBoth ==
    ASSUME NEW F, NEW t, NEW r, IsTable(t, F), IsTable(r, F), NEW f \in F,
           NEW P \in SUBSET (DOMAIN t \cup DOMAIN r), NEW n,
           IsBoth(n, f, P, t, r)
    PROVE  Total(n, f, P) = Total(t, f, P \cap DOMAIN t) + Total(r, f, P \cap DOMAIN r)
<1> DEFINE C == DOMAIN t
           D == DOMAIN r
           a == [k \in C |-> t[k][f]]
           b == [k \in D |-> r[k][f]]
<1>1. IsFiniteSet(P)
  <2>1. IsFiniteSet(C) /\ IsFiniteSet(D)
    BY DEF IsTable
  <2> QED BY <2>1, FS_Union, FS_Subset
<1>2. a \in [C -> Nat] /\ b \in [D -> Nat]
  BY DEF IsTable
<1>3. Total(n, f, P)
        = Sum(Both(a, C, b, D, P))
  BY DEF Total, Cell, IsBoth, Both
<1>4. /\ Total(t, f, P \cap C) = Sum(Restrict(a, P \cap C))
      /\ Total(r, f, P \cap D) = Sum(Restrict(b, P \cap D))
  BY DEF Total, Restrict
<1> HIDE DEF a, b, C, D
<1>5. Total(n, f, P) = Total(t, f, P \cap C) + Total(r, f, P \cap D)
  BY <1>1, <1>2, <1>3, <1>4, SumOfBoth
<1> QED BY <1>5 DEF C, D

(* How often each event is in a table without counters of its own.         *)
IsCount(t) ==
    IsFiniteSet(DOMAIN t) /\ t \in [DOMAIN t -> Nat]

Times(t, e) == IF e \in DOMAIN t THEN t[e] ELSE 0

Together(t, r) == Upsert(t, r, +)

LEMMA CountsAdded ==
    ASSUME NEW t, NEW r, IsCount(t), IsCount(r)
    PROVE  LET n == Together(t, r)
           IN  /\ IsCount(n) /\ DOMAIN n = DOMAIN t \cup DOMAIN r
               /\ \A e \in DOMAIN n : n[e] = Times(t, e) + Times(r, e)
               /\ Sum(n) = Sum(t) + Sum(r)
<1> SUFFICES ASSUME NEW n, n = Together(t, r)
             PROVE  /\ IsCount(n) /\ DOMAIN n = DOMAIN t \cup DOMAIN r
                    /\ \A e \in DOMAIN n : n[e] = Times(t, e) + Times(r, e)
                    /\ Sum(n) = Sum(t) + Sum(r)
  OBVIOUS
<1> DEFINE C == DOMAIN t
           D == DOMAIN r
           E == C \cup D
<1>1. IsFiniteSet(E) /\ t \in [C -> Nat] /\ r \in [D -> Nat]
  BY FS_Union DEF IsCount
<1>2. n = Both(t, C, r, D, E)
  BY <1>1 DEF Together, Upsert, Both
<1> HIDE DEF C, D
<1>3. n \in [E -> Nat]
  <2>1. \A k : (IF k \in C THEN t[k] ELSE 0) \in Nat /\ (IF k \in D THEN r[k] ELSE 0) \in Nat
    BY <1>1
  <2> DEFINE m == Both(t, C, r, D, E)
  <2>2. m \in [E -> Nat]
    BY <2>1 DEF Both
  <2> QED BY <1>2, <2>2
<1>4. Restrict(t, E \cap C) = t /\ Restrict(r, E \cap D) = r
  BY <1>1 DEF Restrict
<1> HIDE DEF E
<1>5. Sum(n) = Sum(t) + Sum(r)
  <2>1. Sum(Both(t, C, r, D, E)) = Sum(Restrict(t, E \cap C)) + Sum(Restrict(r, E \cap D))
    BY <1>1, SumOfBoth
  <2> QED BY <1>2, <1>4, <2>1
<1> QED BY <1>1, <1>2, <1>3, <1>5 DEF IsCount, Times, Both, E, C, D

-----------------------------------------------------------------------------
(* The rows of a batch.                                                    *)

IsBatch(b) == \E n \in Nat \ {0} : b \in [1 .. n -> Event]

LEMMA BatchFinite ==
    ASSUME NEW b, IsBatch(b)
    PROVE  /\ IsFiniteSet(DOMAIN b) /\ \A i \in DOMAIN b : b[i] \in Event
           /\ \A I \in SUBSET DOMAIN b : IsFiniteSet(I) /\ Cardinality(I) \in Nat
<1>1. PICK n \in Nat \ {0} : b \in [1 .. n -> Event]
  BY DEF IsBatch
<1>2. IsFiniteSet(1 .. n)
  BY FS_Interval
<1>3. DOMAIN b = 1 .. n /\ \A i \in DOMAIN b : b[i] \in Event
  BY <1>1
<1>4. IsFiniteSet(DOMAIN b)
  BY <1>2, <1>3
<1> QED BY <1>3, <1>4, FS_Subset, FS_CardinalityType

LEMMA EventRowsIs ==
    ASSUME NEW b, IsBatch(b), NEW I \in SUBSET DOMAIN b
    PROVE  /\ IsCount(EventRows(b, I))
           /\ DOMAIN EventRows(b, I) = Keys(I, b)
           /\ \A e : Times(EventRows(b, I), e) = Cardinality(With(I, b, e))
           /\ Sum(EventRows(b, I)) = Cardinality(I)
<1> DEFINE K == Keys(I, b)
           r == [k \in K |-> Cardinality(With(I, b, k))]
<1>1. EventRows(b, I) = r
  BY DEF EventRows, Rows, Keys, With
<1>2. IsFiniteSet(I)
  BY BatchFinite
<1>3. IsFiniteSet(K) /\ \A e : Cardinality(With(I, b, e)) \in Nat
  BY <1>2, KeysFinite
<1>4. IsCount(r)
  BY <1>3 DEF IsCount
<1>5. \A e : Times(r, e) = Cardinality(With(I, b, e))
  <2> SUFFICES ASSUME NEW e, e \notin K
               PROVE  Cardinality(With(I, b, e)) = 0
    BY DEF Times
  <2>1. With(I, b, e) = {}
    BY DEF Keys, With
  <2> QED BY <2>1, FS_EmptySet
<1>6. Sum(r) = Cardinality(I)
  <2> HIDE DEF K
  <2>1. Sum(r) = Cardinality(Within(I, b, K))
    BY <1>2, <1>3, Groups
  <2>2. Within(I, b, K) = I
    BY DEF Within, K, Keys
  <2> QED BY <2>1, <2>2
<1> QED BY <1>1, <1>4, <1>5, <1>6

(* The positions of a batch that a row counts.                             *)
Wrong(b) == {i \in DOMAIN b : IsError(b[i])}
Failed(b) == {i \in DOMAIN b : From400(b[i])}
Strange(b) == {i \in DOMAIN b : b[i].kind.status = "beyond"}
Robots(b) == {i \in DOMAIN b : IsSpider(b[i])}

MetricFields == {"requests", "errors", "bots"}
CountFields == {"requests", "errors"}

(* The positions counted by the rows P.                                    *)
LEMMA RowTotal ==
    ASSUME NEW t, NEW f, NEW P, IsFiniteSet(P), NEW I, IsFiniteSet(I), NEW key,
           \A k \in P : t[k][f] = Cardinality(With(I, key, k))
    PROVE  Total(t, f, P) = Cardinality(Within(I, key, P))
<1>1. Total(t, f, P) = Sum([k \in P |-> Cardinality(With(I, key, k))])
  BY DEF Total
<1> QED BY <1>1, Groups

MinuteOf(b) == [i \in DOMAIN b |-> b[i].minute]

LEMMA MinuteRowsIs ==
    ASSUME NEW b, IsBatch(b)
    PROVE  /\ IsTable(MinuteRows(b), MetricFields)
           /\ DOMAIN MinuteRows(b) = Keys(DOMAIN b, MinuteOf(b))
           /\ \A m : Cell(MinuteRows(b), m, "bots")
                       = Cardinality(With(Robots(b), MinuteOf(b), m))
           /\ \A P \in SUBSET DOMAIN MinuteRows(b) :
                /\ Total(MinuteRows(b), "requests", P)
                     = Cardinality(Within(DOMAIN b, MinuteOf(b), P))
                /\ Total(MinuteRows(b), "errors", P)
                     = Cardinality(Within(Wrong(b), MinuteOf(b), P))
<1> DEFINE r == MinuteRows(b)
           key == MinuteOf(b)
           K == Keys(DOMAIN b, key)
           all(k) == With(DOMAIN b, key, k)
           row(k) == [requests |-> Cardinality(all(k)),
                      pv |-> Cardinality({i \in all(k) : IsPageView(b[i])}),
                      errors |-> Cardinality(With(Wrong(b), key, k)),
                      bots |-> Cardinality(With(Robots(b), key, k))]
<1>1. r = [k \in K |-> row(k)]
  <2>1. \A k : {i \in all(k) : IsError(b[i])} = With(Wrong(b), key, k)
    BY DEF Wrong, With
  <2>2. \A k : {i \in all(k) : IsSpider(b[i])} = With(Robots(b), key, k)
    BY DEF Robots, With
  <2> DEFINE same(k) == {i \in DOMAIN b : b[i].minute = k}
  <2>3. r = [k \in {b[i].minute : i \in DOMAIN b} |->
               [requests |-> Cardinality(same(k)),
                pv |-> Cardinality({i \in same(k) : IsPageView(b[i])}),
                errors |-> Cardinality({i \in same(k) : IsError(b[i])}),
                bots |-> Cardinality({i \in same(k) : IsSpider(b[i])})]]
    BY DEF MinuteRows, Rows
  <2>4. \A k : same(k) = all(k)
    BY DEF With, MinuteOf
  <2>5. K = {b[i].minute : i \in DOMAIN b}
    BY DEF Keys, MinuteOf
  <2> HIDE DEF r, same, all, key, K
  <2> QED BY <2>1, <2>2, <2>3, <2>4, <2>5
<1> HIDE DEF r, key
<1>2. IsFiniteSet(DOMAIN b) /\ IsFiniteSet(Wrong(b)) /\ IsFiniteSet(Robots(b))
  <2>1. Wrong(b) \in SUBSET DOMAIN b /\ Robots(b) \in SUBSET DOMAIN b
    BY DEF Wrong, Robots
  <2> QED BY <2>1, BatchFinite
<1>3. /\ IsFiniteSet(K)
      /\ \A k : /\ Cardinality(all(k)) \in Nat
                /\ Cardinality(With(Wrong(b), key, k)) \in Nat
                /\ Cardinality(With(Robots(b), key, k)) \in Nat
  BY <1>2, KeysFinite
<1>4. \A k \in K : /\ r[k].requests = Cardinality(all(k))
                   /\ r[k].errors = Cardinality(With(Wrong(b), key, k))
                   /\ r[k].bots = Cardinality(With(Robots(b), key, k))
                   /\ DOMAIN r[k] = {"requests", "pv", "errors", "bots"}
  BY <1>1
<1>5. DOMAIN r = K /\ r = [k \in K |-> r[k]]
  BY <1>1
<1> HIDE DEF K, all
<1>6. IsTable(r, MetricFields)
  <2>1. \A k \in K, f \in MetricFields : f \in DOMAIN r[k] /\ r[k][f] \in Nat
    BY <1>3, <1>4 DEF MetricFields
  <2> QED BY <1>3, <1>5, <2>1 DEF IsTable
<1>7. \A m : Cell(r, m, "bots") = Cardinality(With(Robots(b), key, m))
  <2> TAKE m
  <2>1. CASE m \in K
    BY <1>4, <1>5, <2>1 DEF Cell
  <2>2. CASE m \notin K
    <3>1. With(Robots(b), key, m) = {}
      BY <2>2 DEF With, Robots, K, Keys
    <3> QED BY <1>5, <2>2, <3>1, FS_EmptySet DEF Cell
  <2> QED BY <2>1, <2>2
<1>8. ASSUME NEW P \in SUBSET K
      PROVE  /\ Total(r, "requests", P) = Cardinality(Within(DOMAIN b, key, P))
             /\ Total(r, "errors", P) = Cardinality(Within(Wrong(b), key, P))
  <2>1. IsFiniteSet(P)
    BY <1>3, FS_Subset
  <2>2. \A k \in P : r[k]["requests"] = Cardinality(With(DOMAIN b, key, k))
    BY <1>4 DEF all
  <2>3. \A k \in P : r[k]["errors"] = Cardinality(With(Wrong(b), key, k))
    BY <1>4
  <2>4. Total(r, "requests", P) = Cardinality(Within(DOMAIN b, key, P))
    BY <1>2, <2>1, <2>2, RowTotal
  <2>5. Total(r, "errors", P) = Cardinality(Within(Wrong(b), key, P))
    BY <1>2, <2>1, <2>3, RowTotal
  <2> QED BY <2>4, <2>5
<1> QED BY <1>5, <1>6, <1>7, <1>8 DEF r, key, K

SpiderKeyOf(b) == [i \in DOMAIN b |-> <<b[i].minute, SpiderOf[b[i].kind.agent]>>]

LEMMA SpiderRowsIs ==
    ASSUME NEW b, IsBatch(b)
    PROVE  /\ IsTable(SpiderRows(b), CountFields)
           /\ \A k \in DOMAIN SpiderRows(b) : k[1] \in Keys(DOMAIN b, MinuteOf(b))
           /\ \A m, P : P = {k \in DOMAIN SpiderRows(b) : k[1] = m} =>
                Total(SpiderRows(b), "requests", P) = Cardinality(With(Robots(b), MinuteOf(b), m))
<1> DEFINE r == SpiderRows(b)
           key == SpiderKeyOf(b)
           R == Robots(b)
           K == Keys(R, key)
           all(k) == With(R, key, k)
           row(k) == [requests |-> Cardinality(all(k)),
                      errors |-> Cardinality({i \in all(k) : IsError(b[i])})]
<1>1. r = [k \in K |-> row(k)]
  <2> DEFINE same(k) == {i \in R : <<b[i].minute, SpiderOf[b[i].kind.agent]>> = k}
  <2>1. r = [k \in {<<b[i].minute, SpiderOf[b[i].kind.agent]>> : i \in R} |->
               [requests |-> Cardinality(same(k)),
                errors |-> Cardinality({i \in same(k) : IsError(b[i])})]]
    BY DEF SpiderRows, Rows, Robots
  <2>2. \A k : same(k) = all(k)
    BY DEF With, SpiderKeyOf, Robots
  <2>3. K = {<<b[i].minute, SpiderOf[b[i].kind.agent]>> : i \in R}
    BY DEF Keys, SpiderKeyOf, Robots
  <2> HIDE DEF r, same, all, K
  <2> QED BY <2>1, <2>2, <2>3
<1>2. \A i \in R : i \in DOMAIN b /\ key[i][1] = MinuteOf(b)[i]
  BY DEF Robots, SpiderKeyOf, MinuteOf
<1> HIDE DEF r, key
<1>3. IsFiniteSet(R)
  <2>1. R \in SUBSET DOMAIN b
    BY DEF Robots
  <2> QED BY <2>1, BatchFinite
<1> HIDE DEF R
<1>4. /\ IsFiniteSet(K)
      /\ \A k : /\ Cardinality(all(k)) \in Nat
                /\ Cardinality({i \in all(k) : IsError(b[i])}) \in Nat
  <2>1. IsFiniteSet(K) /\ \A k : IsFiniteSet(all(k))
    BY <1>3, KeysFinite
  <2>2. \A k : {i \in all(k) : IsError(b[i])} \in SUBSET all(k)
    OBVIOUS
  <2> HIDE DEF K, all
  <2> QED BY <2>1, <2>2, FS_Subset, FS_CardinalityType
<1>5. \A k \in K : /\ r[k].requests = Cardinality(all(k))
                   /\ r[k].errors = Cardinality({i \in all(k) : IsError(b[i])})
                   /\ DOMAIN r[k] = {"requests", "errors"}
  BY <1>1
<1>6. DOMAIN r = K /\ r = [k \in K |-> r[k]]
  BY <1>1
<1>7. \A k \in K : k[1] \in Keys(DOMAIN b, MinuteOf(b))
  BY <1>2 DEF Keys
<1> HIDE DEF K, all
<1>8. IsTable(r, CountFields)
  <2>1. \A k \in K, f \in CountFields : f \in DOMAIN r[k] /\ r[k][f] \in Nat
    BY <1>4, <1>5 DEF CountFields
  <2> QED BY <1>4, <1>6, <2>1 DEF IsTable
<1>9. ASSUME NEW m, NEW P, P = {k \in K : k[1] = m}
      PROVE  Total(r, "requests", P) = Cardinality(With(R, MinuteOf(b), m))
  <2>1. IsFiniteSet(P) /\ P \subseteq K
    BY <1>4, <1>9, FS_Subset
  <2>2. \A k \in P : r[k]["requests"] = Cardinality(With(R, key, k))
    BY <1>5, <2>1 DEF all
  <2>3. Total(r, "requests", P) = Cardinality(Within(R, key, P))
    BY <1>3, <2>1, <2>2, RowTotal
  <2>4. Within(R, key, P) = With(R, MinuteOf(b), m)
    BY <1>2, <1>9 DEF Within, With, K, Keys
  <2> QED BY <2>3, <2>4
<1> QED BY <1>6, <1>7, <1>8, <1>9 DEF r, R

DayOf(b) == [i \in DOMAIN b |-> Day(b[i].minute)]
DimensionKeyOf(b, d) == [i \in DOMAIN b |-> <<Day(b[i].minute), d, ValueOf(d, b[i])>>]

LEMMA DimensionsFinite == IsFiniteSet(Dimensions)
<1>1. IsFiniteSet({"ip"})
  BY FS_Singleton
<1>2. IsFiniteSet({"ip"} \cup {"uri"})
  BY <1>1, FS_AddElement
<1>3. IsFiniteSet({"ip"} \cup {"uri"} \cup {"browser"})
  BY <1>2, FS_AddElement
<1>4. IsFiniteSet({"ip"} \cup {"uri"} \cup {"browser"} \cup {"system"})
  BY <1>3, FS_AddElement
<1>5. IsFiniteSet({"ip"} \cup {"uri"} \cup {"browser"} \cup {"system"} \cup {"device"})
  BY <1>4, FS_AddElement
<1>6. Dimensions = {"ip"} \cup {"uri"} \cup {"browser"} \cup {"system"} \cup {"device"}
  BY DEF Dimensions
<1> QED BY <1>5, <1>6

LEMMA DimensionRowsIs ==
    ASSUME NEW b, IsBatch(b)
    PROVE  /\ IsTable(DimensionRows(b), CountFields)
           /\ \A day, d, P :
                d \in Dimensions /\ P = {k \in DOMAIN DimensionRows(b) : k[1] = day /\ k[2] = d} =>
                  /\ Total(DimensionRows(b), "requests", P)
                       = Cardinality(With(DOMAIN b, DayOf(b), day))
                  /\ Total(DimensionRows(b), "errors", P)
                       = Cardinality(With(Failed(b), DayOf(b), day))
<1> DEFINE r == DimensionRows(b)
           key(d) == DimensionKeyOf(b, d)
           D == DOMAIN b
           E == Failed(b)
           K == {key(d)[i] : d \in Dimensions, i \in D}
           row(k) == [requests |-> Cardinality(With(D, key(k[2]), k)),
                      errors |-> Cardinality(With(E, key(k[2]), k))]
<1>1. r = [k \in K |-> row(k)]
  <2> DEFINE raw(d, i) == <<Day(b[i].minute), d, ValueOf(d, b[i])>>
             same(k) == {i \in D : raw(k[2], i) = k}
  <2>1. r = [k \in {raw(d, i) : d \in Dimensions, i \in D} |->
               [requests |-> Cardinality(same(k)),
                errors |-> Cardinality({i \in same(k) : From400(b[i])})]]
    BY DEF DimensionRows
  <2>2. \A d, i : i \in D => key(d)[i] = raw(d, i)
    BY DEF DimensionKeyOf
  <2> HIDE DEF raw, key, r
  <2>3. \A k : same(k) = With(D, key(k[2]), k)
    BY <2>2 DEF With
  <2>4. \A k : {i \in same(k) : From400(b[i])} = With(E, key(k[2]), k)
    BY <2>2 DEF With, Failed
  <2>5. K = {raw(d, i) : d \in Dimensions, i \in D}
    BY <2>2
  <2> HIDE DEF same, K, D, E
  <2> QED BY <2>1, <2>3, <2>4, <2>5
<1>2. /\ \A d, i : i \in D => key(d)[i][1] = DayOf(b)[i] /\ key(d)[i][2] = d
      /\ E \subseteq D
  BY DEF DimensionKeyOf, DayOf, Failed
<1> HIDE DEF r, key
<1>3. IsFiniteSet(D) /\ IsFiniteSet(E)
  BY <1>2, BatchFinite
<1> HIDE DEF D, E
<1>4. IsFiniteSet(K)
  <2> DEFINE S == Dimensions \X D
             f == [x \in S |-> key(x[1])[x[2]]]
  <2>1. IsFiniteSet(S)
    BY <1>3, DimensionsFinite, FS_Product
  <2>2. \A d \in Dimensions, i \in D : <<d, i>> \in S /\ f[<<d, i>>] = key(d)[i]
    OBVIOUS
  <2>3. \A x \in S : x[1] \in Dimensions /\ x[2] \in D /\ f[x] = key(x[1])[x[2]]
    OBVIOUS
  <2> HIDE DEF S, f
  <2>4. Keys(S, f) \subseteq K
    BY <2>3 DEF Keys
  <2>5. K \subseteq Keys(S, f)
    <3>1. ASSUME NEW d \in Dimensions, NEW i \in D
          PROVE  key(d)[i] \in Keys(S, f)
      BY <2>2 DEF Keys
    <3> QED BY <3>1
  <2>6. K = Keys(S, f)
    BY <2>4, <2>5
  <2> HIDE DEF K
  <2> QED BY <2>1, <2>6, KeysFinite
<1>5. \A d, k : Cardinality(With(D, key(d), k)) \in Nat /\ Cardinality(With(E, key(d), k)) \in Nat
  BY <1>3, KeysFinite
<1>6. \A k \in K : /\ r[k].requests = Cardinality(With(D, key(k[2]), k))
                   /\ r[k].errors = Cardinality(With(E, key(k[2]), k))
                   /\ DOMAIN r[k] = {"requests", "errors"}
  BY <1>1
<1>7. DOMAIN r = K /\ r = [k \in K |-> r[k]]
  BY <1>1
<1>8. \A d \in Dimensions, i \in D : key(d)[i] \in K
  OBVIOUS
<1> HIDE DEF K
<1>9. IsTable(r, CountFields)
  <2>1. \A k \in K, f \in CountFields : f \in DOMAIN r[k] /\ r[k][f] \in Nat
    BY <1>5, <1>6 DEF CountFields
  <2> QED BY <1>4, <1>7, <2>1 DEF IsTable
<1>10. ASSUME NEW day, NEW d \in Dimensions, NEW P, P = {k \in K : k[1] = day /\ k[2] = d}
       PROVE  /\ Total(r, "requests", P) = Cardinality(With(D, DayOf(b), day))
              /\ Total(r, "errors", P) = Cardinality(With(E, DayOf(b), day))
  <2>1. IsFiniteSet(P) /\ P \subseteq K
    BY <1>4, <1>10, FS_Subset
  <2> DEFINE y == key(d)
  <2>2. \A k \in P : /\ r[k]["requests"] = Cardinality(With(D, y, k))
                     /\ r[k]["errors"] = Cardinality(With(E, y, k))
    BY <1>6, <1>10
  <2>3. Within(D, y, P) = With(D, DayOf(b), day) /\ Within(E, y, P) = With(E, DayOf(b), day)
    BY <1>2, <1>8, <1>10 DEF Within, With
  <2> HIDE DEF y
  <2>4. Total(r, "requests", P) = Cardinality(Within(D, y, P))
    BY <1>3, <2>1, <2>2, RowTotal
  <2>5. Total(r, "errors", P) = Cardinality(Within(E, y, P))
    BY <1>3, <2>1, <2>2, RowTotal
  <2> QED BY <2>3, <2>4, <2>5
<1> QED BY <1>7, <1>9, <1>10 DEF r, D, E

-----------------------------------------------------------------------------
(* Minutes, hours and days.                                                *)

LEMMA ProductGrows ==
    ASSUME NEW a \in Nat, NEW b \in Nat, NEW c \in Nat, a <= b
    PROVE  a * c \in Nat /\ b * c \in Nat /\ a * c <= b * c
  OBVIOUS

LEMMA QuotientIs ==
    ASSUME NEW a \in Int, NEW c \in Nat \ {0}
    PROVE  /\ a \div c \in Int
           /\ (a \div c) * c <= a /\ a < (a \div c) * c + c
  OBVIOUS

LEMMA QuotientGrows ==
    ASSUME NEW a \in Int, NEW b \in Int, NEW c \in Nat \ {0}, a <= b
    PROVE  a \div c \in Int /\ b \div c \in Int /\ a \div c <= b \div c
<1> DEFINE p == a \div c
           q == b \div c
<1>1. p \in Int /\ q \in Int /\ p * c <= a /\ b < q * c + c
  BY QuotientIs
<1> HIDE DEF p, q
<1> SUFFICES ASSUME q + 1 <= p PROVE FALSE
  BY <1>1 DEF p, q
<1>2. (q + 1) * c <= p * c
  BY <1>1
<1>3. (q + 1) * c = q * c + c
  BY <1>1
<1> QED BY <1>1, <1>2, <1>3

LEMMA MultipleRest ==
    ASSUME NEW x \in Int, NEW c \in Nat \ {0}
    PROVE  (x * c) % c = 0
  OBVIOUS

LEMMA Lengths ==
    /\ MinutesPerHour \in Nat \ {0} /\ MinutesPerDay \in Nat \ {0}
    /\ Offset \in Nat /\ LongDays \in Nat /\ DetailDays \in Nat
    /\ RawDays \in Nat /\ ErrorDays \in Nat /\ AnalyticsDays \in Nat
    /\ MaxMinute \in Nat /\ MaxEvents \in Nat /\ StartMinute \in 0 .. MaxMinute
<1>1. /\ MinutesPerHour \in Nat \ {0} /\ HoursPerDay \in Nat \ {0}
      /\ LongDays \in Nat
  BY StatisticsAssumption
<1>2. MinutesPerHour * HoursPerDay \in Nat \ {0}
  BY <1>1
<1>3. MinutesPerDay \in Nat \ {0}
  BY <1>2 DEF MinutesPerDay
<1>4. Offset \in Nat
  BY <1>3, StatisticsAssumption
<1> QED BY <1>1, <1>3, <1>4, StatisticsAssumption

LEMMA DayIs ==
    ASSUME NEW a \in Int, NEW b \in Int, a <= b
    PROVE  Day(a) \in Int /\ Day(b) \in Int /\ Day(a) <= Day(b)
<1>1. a + Offset \in Int /\ b + Offset \in Int /\ a + Offset <= b + Offset
  BY Lengths
<1> QED BY <1>1, Lengths, QuotientGrows DEF Day

LEMMA HourIs ==
    ASSUME NEW m \in Int
    PROVE  Hour(m) \in Int /\ Hour(m) % MinutesPerHour = 0
<1>1. m \div MinutesPerHour \in Int
  BY Lengths, QuotientIs
<1> QED BY <1>1, Lengths, MultipleRest DEF Hour

(* The first day that a cleanup at t leaves.                               *)
FirstDayAt(t) == Day(t - Larger(LongDays, AnalyticsDays) * MinutesPerDay)

LEMMA FirstDayGrows ==
    ASSUME NEW t \in Int, NEW u \in Int, t <= u
    PROVE  FirstDayAt(t) \in Int /\ FirstDayAt(u) \in Int /\ FirstDayAt(t) <= FirstDayAt(u)
<1> DEFINE x == Larger(LongDays, AnalyticsDays) * MinutesPerDay
<1>1. Larger(LongDays, AnalyticsDays) \in Nat
  BY Lengths DEF Larger
<1>2. x \in Nat
  BY <1>1, Lengths
<1> HIDE DEF x
<1>3. t - x \in Int /\ u - x \in Int /\ t - x <= u - x
  BY <1>2
<1> QED BY <1>3, DayIs DEF FirstDayAt, x

(* The settings and the import keep an event that long.                    *)
ListedFor(e) == IF From400(e) THEN ErrorDays ELSE RawDays
ImportedFor(e) == IF IsError(e) THEN LongDays ELSE DetailDays
Keeping(e) == {ListedFor(e), ImportedFor(e)}
Young(t, e) == e.minute >= t - Min(Keeping(e)) * MinutesPerDay

LEMMA MinOfTwo ==
    ASSUME NEW a \in Nat, NEW b \in Nat
    PROVE  Min({a, b}) \in Nat /\ Min({a, b}) <= a /\ Min({a, b}) <= b
<1>1. CASE a <= b
  <2>1. \E x \in {a, b} : \A y \in {a, b} : x <= y
    BY <1>1
  <2> QED BY <2>1 DEF Min
<1>2. CASE b <= a
  <2>1. \E x \in {a, b} : \A y \in {a, b} : x <= y
    BY <1>2
  <2> QED BY <2>1 DEF Min
<1> QED BY <1>1, <1>2

(* Whoever ends an event's stay looks no closer than that.                 *)
LEMMA YoungStays ==
    ASSUME NEW t \in Int, NEW u \in Int, u <= t, NEW e, e.minute \in Int, Young(t, e)
    PROVE  /\ Young(u, e)
           /\ InCutoffs(u, e)
           /\ ~(e.minute < t - ListedFor(e) * MinutesPerDay)
<1> DEFINE least == Min(Keeping(e))
           x == ListedFor(e)
           y == ImportedFor(e)
           M == MinutesPerDay
<1>1. M \in Nat /\ x \in Nat /\ y \in Nat
  BY Lengths DEF ListedFor, ImportedFor
<1>2. e.minute >= t - least * M
  BY DEF Young
<1>3. /\ e.minute >= u - DetailDays * M => InCutoffs(u, e)
      /\ IsError(e) /\ e.minute >= u - LongDays * M => InCutoffs(u, e)
  BY DEF InCutoffs
<1>4. Young(u, e) <=> e.minute >= u - least * M
  BY DEF Young
<1>5. y = IF IsError(e) THEN LongDays ELSE DetailDays
  BY DEF ImportedFor
<1> HIDE DEF M
<1>6. least \in Nat /\ least <= x /\ least <= y
  BY <1>1, MinOfTwo DEF Keeping
<1> HIDE DEF least, x, y
<1>7. /\ least * M \in Nat /\ x * M \in Nat /\ y * M \in Nat
      /\ least * M <= x * M /\ least * M <= y * M
  BY <1>1, <1>6, ProductGrows
<1>8. /\ e.minute >= u - least * M /\ e.minute >= u - y * M
      /\ e.minute >= t - x * M
  BY <1>2, <1>7
<1>9. ~(e.minute < t - x * M)
  BY <1>7, <1>8
<1>10. InCutoffs(u, e)
  BY <1>3, <1>5, <1>8
<1> QED BY <1>4, <1>8, <1>9, <1>10 DEF x, M

-----------------------------------------------------------------------------
(* The inductive invariant, one part for each group of tables.             *)

ClockInv ==
    /\ now \in StartMinute .. MaxMinute
    /\ precision \in Precisions

(* The list of requests never holds more than was recorded, and all of it  *)
(* that is still young.                                                    *)
DetailsInv ==
    /\ IsCount(recorded) /\ DOMAIN recorded \subseteq Event
    /\ Sum(recorded) <= MaxEvents
    /\ IsCount(details) /\ DOMAIN details \subseteq DOMAIN recorded
    /\ \A e \in DOMAIN details : details[e] <= recorded[e]
    /\ \A e \in DOMAIN recorded :
         Young(now, e) => e \in DOMAIN details /\ details[e] = recorded[e]

(* The rows of a minute, of a date, and of a dimension on a date.          *)
OfMinute(t, m) == {k \in DOMAIN t : k[1] = m}
OnDate(t, day) == {m \in DOMAIN t : Day(m) = day}
OfDimension(t, day, d) == {k \in DOMAIN t : k[1] = day /\ k[2] = d}

Tables ==
    /\ IsTable(metric, MetricFields) /\ DOMAIN metric \subseteq 0 .. MaxMinute
    /\ IsTable(spiders, CountFields)
    /\ IsTable(days, CountFields)

AllMinutes == Total(metric, "requests", DOMAIN metric) = Sum(recorded)

BotsAgree ==
    \A m : Total(spiders, "requests", OfMinute(spiders, m)) = Cell(metric, m, "bots")

(* How often events of a date were recorded with a status from 600, which  *)
(* the dimensions count as errors and the minutes do not.                  *)
BeyondOf(t, day) ==
    Sum(Restrict(t, {e \in DOMAIN t :
                        e.kind.status = "beyond" /\ Day(e.minute) = day}))

Extra(t, field, day) == IF field = "errors" THEN BeyondOf(t, day) ELSE 0

(* Also of a date no minute of which has a row yet: its first request      *)
(* finds no row of the dimensions either.                                  *)
DatesAgree ==
    \A day \in Int, d \in Dimensions, field \in CountFields :
        day >= FirstDayAt(now) =>
            Total(days, field, OfDimension(days, day, d))
              = Total(metric, field, OnDate(metric, day))
                  + Extra(recorded, field, day)

TablesInv == Tables /\ AllMinutes /\ BotsAgree /\ DatesAgree

(* The values recorded in an hour, for a kind of sketch.                   *)
Values(t, k) == {HashOf[k[2]][e.kind] : e \in {x \in DOMAIN t : Hour(x.minute) = k[1]}}

(* Every recorded event has its sketches; without that a batch might begin *)
(* the sketch of an hour that has lost its earlier values.                 *)
SketchesInv ==
    /\ \A e \in DOMAIN recorded, v \in {"uv", "ip"} :
         <<Hour(e.minute), v>> \in DOMAIN sketches
    /\ \A k \in DOMAIN sketches :
         /\ k \in Int \X {"uv", "ip"} /\ k[1] % MinutesPerHour = 0
         /\ sketches[k].precision \in Precision
         /\ sketches[k] = Of(sketches[k].precision, Values(recorded, k))

StatisticsInv == ClockInv /\ DetailsInv /\ TablesInv /\ SketchesInv

(* What every batch that is recorded has in common: an event that is not   *)
(* kept in full is beyond the cutoffs of some earlier moment.              *)
Recordable(b, kept) ==
    /\ IsBatch(b)
    /\ Sum(recorded) + Cardinality(DOMAIN b) <= MaxEvents
    /\ kept \in SUBSET DOMAIN b
    /\ \A i \in DOMAIN b \ kept : \E u \in Int : u <= now /\ ~InCutoffs(u, b[i])
    /\ \A i \in DOMAIN b : b[i].minute <= now

LEMMA BatchIs ==
    ASSUME ClockInv, DetailsInv, NEW M \in SUBSET (0 .. MaxMinute), NEW b \in Batches(M)
    PROVE  /\ IsBatch(b) /\ Sum(recorded) + Cardinality(DOMAIN b) <= MaxEvents
           /\ \A i \in DOMAIN b : b[i].minute \in M
<1>1. Sum(recorded) \in Nat
  BY SumType DEF DetailsInv, IsCount
<1> DEFINE most == Smaller(2, MaxEvents - Sum(recorded))
<1>2. most \in Int /\ Sum(recorded) + most <= MaxEvents
  BY <1>1, Lengths DEF Smaller
<1> HIDE DEF most
<1>3. PICK n \in 1 .. most : b \in [1 .. n -> [minute : M, kind : Kinds]]
  BY DEF Batches, most
<1>4. [minute : M, kind : Kinds] \subseteq Event
  BY DEF Event
<1>5. b \in [1 .. n -> Event] /\ n \in Nat \ {0} /\ DOMAIN b = 1 .. n
  BY <1>2, <1>3, <1>4
<1>6. Cardinality(1 .. n) = n
  <2>1. \A i, j \in Int : i <= j => Cardinality(i .. j) = j - i + 1
    BY FS_Interval
  <2>2. 1 \in Int /\ n \in Int /\ 1 <= n
    BY <1>5
  <2>3. Cardinality(1 .. n) = n - 1 + 1
    BY <2>1, <2>2
  <2> QED BY <2>2, <2>3
<1>7. Cardinality(DOMAIN b) = n
  BY <1>5, <1>6
<1>8. Sum(recorded) + n <= MaxEvents
  BY <1>1, <1>2, <1>3, Lengths
<1>9. IsBatch(b)
  BY <1>5 DEF IsBatch
<1>10. \A i \in DOMAIN b : b[i].minute \in M
  BY <1>3
<1> QED BY <1>7, <1>8, <1>9, <1>10

LEMMA LiveIs ==
    ASSUME StatisticsInv, RecordLive
    PROVE  \E b, kept : Recordable(b, kept) /\ Record(b, kept)
<1>1. PICK b \in Batches({now}) : Record(b, DOMAIN b)
  BY DEF RecordLive
<1>2. {now} \in SUBSET (0 .. MaxMinute)
  BY Lengths DEF StatisticsInv, ClockInv
<1>3. \A i \in DOMAIN b : b[i].minute <= now
  <2>1. \A i \in DOMAIN b : b[i].minute \in {now}
    BY <1>2, BatchIs DEF StatisticsInv
  <2> QED BY <1>2, <2>1
<1>4. Recordable(b, DOMAIN b)
  BY <1>2, <1>3, BatchIs DEF Recordable, StatisticsInv
<1> QED BY <1>1, <1>4

LEMMA ImportedIs ==
    ASSUME StatisticsInv, RecordImported
    PROVE  \E b, kept : Recordable(b, kept) /\ Record(b, kept)
<1> DEFINE M(u) == {m \in 0 .. now : m >= u - LongDays * MinutesPerDay}
           kept(u, b) == {i \in DOMAIN b : InCutoffs(u, b[i])}
<1>1. PICK u \in StartMinute .. now : \E b \in Batches(M(u)) : Record(b, kept(u, b))
  BY DEF RecordImported
<1>2. PICK b \in Batches(M(u)) : Record(b, kept(u, b))
  BY <1>1
<1>3. M(u) \in SUBSET (0 .. MaxMinute) /\ M(u) \subseteq 0 .. now
  BY Lengths DEF StatisticsInv, ClockInv
<1> HIDE DEF M
<1>4. /\ IsBatch(b) /\ Sum(recorded) + Cardinality(DOMAIN b) <= MaxEvents
      /\ \A i \in DOMAIN b : b[i].minute <= now
  <2>1. \A i \in DOMAIN b : b[i].minute \in M(u)
    BY <1>2, <1>3, BatchIs DEF StatisticsInv
  <2> QED BY <1>2, <1>3, <2>1, BatchIs DEF StatisticsInv
<1>5. u \in Int /\ u <= now
  BY <1>1, Lengths DEF StatisticsInv, ClockInv
<1>6. Recordable(b, kept(u, b))
  BY <1>4, <1>5 DEF Recordable
<1> QED BY <1>2, <1>6

-----------------------------------------------------------------------------
(* What a batch does to each group of tables.                              *)

LEMMA RecordDetails ==
    ASSUME ClockInv, DetailsInv, NEW b, NEW kept, Recordable(b, kept), Record(b, kept)
    PROVE  /\ DetailsInv'
           /\ DOMAIN recorded' = DOMAIN recorded \cup Keys(DOMAIN b, b)
           /\ Sum(recorded') = Sum(recorded) + Cardinality(DOMAIN b)
<1> DEFINE D == DOMAIN b
           all == EventRows(b, D)
           full == EventRows(b, kept)
<1>1. /\ recorded' = Together(recorded, all) /\ details' = Together(details, full)
      /\ now' = now
  BY DEF Record, Together
<1>2. /\ IsCount(all) /\ DOMAIN all = Keys(D, b)
      /\ \A e : Times(all, e) = Cardinality(With(D, b, e))
      /\ Sum(all) = Cardinality(D)
  BY EventRowsIs DEF Recordable
<1>3. /\ IsCount(full) /\ DOMAIN full = Keys(kept, b)
      /\ \A e : Times(full, e) = Cardinality(With(kept, b, e))
  BY EventRowsIs DEF Recordable
<1> HIDE DEF all, full
<1>4. /\ IsCount(recorded') /\ DOMAIN recorded' = DOMAIN recorded \cup Keys(D, b)
      /\ \A e \in DOMAIN recorded' :
           recorded'[e] = Times(recorded, e) + Cardinality(With(D, b, e))
      /\ Sum(recorded') = Sum(recorded) + Cardinality(D)
  <2>0. IsCount(recorded)
    BY DEF DetailsInv
  <2> DEFINE n == recorded'
  <2>1. n = Together(recorded, all)
    BY <1>1
  <2> HIDE DEF n
  <2>2. /\ IsCount(n) /\ DOMAIN n = DOMAIN recorded \cup DOMAIN all
        /\ \A e \in DOMAIN n : n[e] = Times(recorded, e) + Times(all, e)
        /\ Sum(n) = Sum(recorded) + Sum(all)
    BY <1>2, <2>0, <2>1, CountsAdded
  <2> QED BY <1>2, <2>2 DEF n
<1>5. /\ IsCount(details') /\ DOMAIN details' = DOMAIN details \cup Keys(kept, b)
      /\ \A e \in DOMAIN details' :
           details'[e] = Times(details, e) + Cardinality(With(kept, b, e))
  <2>0. IsCount(details)
    BY DEF DetailsInv
  <2> DEFINE n == details'
  <2>1. n = Together(details, full)
    BY <1>1
  <2> HIDE DEF n
  <2>2. /\ IsCount(n) /\ DOMAIN n = DOMAIN details \cup DOMAIN full
        /\ \A e \in DOMAIN n : n[e] = Times(details, e) + Times(full, e)
    BY <1>3, <2>0, <2>1, CountsAdded
  <2> QED BY <1>3, <2>2 DEF n
<1>6. \A e : /\ With(kept, b, e) \subseteq With(D, b, e)
             /\ IsFiniteSet(With(D, b, e))
             /\ Cardinality(With(D, b, e)) \in Nat /\ Cardinality(With(kept, b, e)) \in Nat
             /\ Cardinality(With(kept, b, e)) <= Cardinality(With(D, b, e))
  <2>1. IsFiniteSet(D) /\ IsFiniteSet(kept)
    BY BatchFinite DEF Recordable
  <2>2. \A e : With(kept, b, e) \in SUBSET With(D, b, e)
    BY DEF With, Recordable
  <2>3. \A e : IsFiniteSet(With(D, b, e))
    BY <2>1, KeysFinite
  <2> QED BY <2>1, <2>2, <2>3, FS_Subset, FS_CardinalityType
<1>7. Keys(kept, b) \subseteq Keys(D, b) /\ Keys(D, b) \subseteq Event
  BY BatchFinite DEF Keys, Recordable
<1>8. \A e : Times(details, e) \in Nat /\ Times(recorded, e) \in Nat
             /\ Times(details, e) <= Times(recorded, e)
  <2> TAKE e
  <2>1. CASE e \in DOMAIN details
    BY <2>1 DEF Times, DetailsInv, IsCount
  <2>2. CASE e \notin DOMAIN details
    BY <2>2 DEF Times, DetailsInv, IsCount
  <2> QED BY <2>1, <2>2
<1>9. DOMAIN recorded' \subseteq Event /\ DOMAIN details' \subseteq DOMAIN recorded'
  BY <1>4, <1>5, <1>7 DEF DetailsInv
<1>10. \A e \in DOMAIN details' : details'[e] <= recorded'[e]
  <2> TAKE e \in DOMAIN details'
  <2>1. /\ details'[e] = Times(details, e) + Cardinality(With(kept, b, e))
        /\ recorded'[e] = Times(recorded, e) + Cardinality(With(D, b, e))
    BY <1>4, <1>5, <1>9
  <2> QED BY <1>6, <1>8, <2>1
<1>11. ASSUME NEW e \in DOMAIN recorded', Young(now, e)
       PROVE  e \in DOMAIN details' /\ details'[e] = recorded'[e]
  <2>1. now \in Int /\ e \in Event /\ e.minute \in Int
    BY <1>9, <1>11, Lengths DEF Event, ClockInv
  <2>2. \A i \in D : b[i] = e => i \in kept
    <3> SUFFICES ASSUME NEW i \in D \ kept, b[i] = e PROVE FALSE
      OBVIOUS
    <3>1. PICK u \in Int : u <= now /\ ~InCutoffs(u, b[i])
      BY DEF Recordable
    <3>2. InCutoffs(u, e)
      BY <1>11, <2>1, <3>1, YoungStays
    <3> QED BY <3>1, <3>2
  <2>3. With(kept, b, e) = With(D, b, e)
    BY <2>2 DEF With, Recordable
  <2>4. e \in DOMAIN recorded => e \in DOMAIN details /\ details[e] = recorded[e]
    BY <1>11 DEF DetailsInv
  <2>5. e \notin DOMAIN recorded => e \notin DOMAIN details
    BY DEF DetailsInv
  <2>6. Times(details, e) = Times(recorded, e)
    BY <2>4, <2>5 DEF Times
  <2>7. e \in DOMAIN details'
    <3>1. CASE e \in DOMAIN recorded
      BY <1>5, <2>4, <3>1
    <3>2. CASE e \in Keys(D, b)
      <4>1. PICK i \in D : b[i] = e
        BY <3>2 DEF Keys
      <4>2. e \in Keys(kept, b)
        BY <2>2, <4>1 DEF Keys
      <4> QED BY <1>5, <4>2
    <3> QED BY <1>4, <1>11, <3>1, <3>2
  <2> QED BY <1>4, <1>5, <2>3, <2>6, <2>7
<1>12. Sum(recorded') <= MaxEvents
  BY <1>4 DEF Recordable
<1> QED BY <1>1, <1>4, <1>5, <1>9, <1>10, <1>11, <1>12 DEF DetailsInv

(* The rows of some keys, before and after counters are added.             *)
IsPart(n, P, t, A, r, B) ==
    /\ n = AddCounters(t, r) /\ P \subseteq DOMAIN n
    /\ A = P \cap DOMAIN t /\ B = P \cap DOMAIN r

LEMMA PartAdded ==
    ASSUME NEW F, NEW t, NEW r, IsTable(t, F), IsTable(r, F), NEW f \in F,
           NEW n, NEW P, NEW A, NEW B, IsPart(n, P, t, A, r, B)
    PROVE  Total(n, f, P) = Total(t, f, A) + Total(r, f, B)
<1>1. n = AddCounters(t, r) /\ A = P \cap DOMAIN t /\ B = P \cap DOMAIN r
  BY DEF IsPart
<1>2. P \in SUBSET (DOMAIN t \cup DOMAIN r)
  BY AddedKeys DEF IsPart
<1>3. IsBoth(n, f, P, t, r)
  BY <1>1, <1>2, AddedCells DEF IsBoth
<1> QED BY <1>1, <1>2, <1>3, TotalOfBoth

(* A status from 400 is an error by one test, or by the other one only.    *)
LEMMA TwoTests ==
    ASSUME NEW b, IsBatch(b), NEW day
    PROVE  Cardinality(With(Failed(b), DayOf(b), day))
             = Cardinality(With(Wrong(b), DayOf(b), day))
                 + Cardinality(With(Strange(b), DayOf(b), day))
<1> DEFINE A == With(Wrong(b), DayOf(b), day)
           B == With(Strange(b), DayOf(b), day)
<1>1. \A i \in DOMAIN b : b[i].kind.status \in {"ok", "error", "beyond"}
  BY BatchFinite, StatisticsAssumption DEF Event
<1>2. With(Failed(b), DayOf(b), day) = A \cup B /\ A \cap B = {}
  BY <1>1 DEF With, Failed, Wrong, Strange, IsError, From400
<1>3. A \in SUBSET DOMAIN b /\ B \in SUBSET DOMAIN b
  BY DEF With, Wrong, Strange
<1> HIDE DEF A, B
<1>4. IsFiniteSet(A) /\ IsFiniteSet(B)
  BY <1>3, BatchFinite
<1>5. Cardinality(A \cup B) = Cardinality(A) + Cardinality(B) - Cardinality(A \cap B)
  BY <1>4, FS_Union
<1>6. Cardinality(A \cap B) = 0 /\ Cardinality(A) \in Nat /\ Cardinality(B) \in Nat
  BY <1>2, <1>4, FS_EmptySet, FS_CardinalityType
<1> QED BY <1>2, <1>5, <1>6 DEF A, B

LEMMA BeyondType ==
    ASSUME NEW t, IsCount(t), NEW day
    PROVE  BeyondOf(t, day) \in Nat
<1> DEFINE S == {e \in DOMAIN t : e.kind.status = "beyond" /\ Day(e.minute) = day}
           a == [k \in S |-> t[k]]
<1>1. IsFiniteSet(S) /\ a \in [S -> Nat]
  BY FS_Subset DEF IsCount
<1>2. BeyondOf(t, day) = Sum(a)
  BY DEF BeyondOf, Restrict
<1> HIDE DEF a, S
<1> QED BY <1>1, <1>2, SumType

(* What a batch adds to the events with a status from 600.                 *)
LEMMA BeyondAdded ==
    ASSUME NEW t, IsCount(t), NEW b, IsBatch(b), NEW day, NEW n,
           n = Together(t, EventRows(b, DOMAIN b))
    PROVE  BeyondOf(n, day) = BeyondOf(t, day)
                                + Cardinality(With(Strange(b), DayOf(b), day))
<1> DEFINE I == DOMAIN b
           r == EventRows(b, I)
           C == DOMAIN t
           K == Keys(I, b)
           odd(e) == e.kind.status = "beyond" /\ Day(e.minute) = day
           S == {e \in DOMAIN n : odd(e)}
<1>1. IsCount(r) /\ DOMAIN r = K /\ \A e : Times(r, e) = Cardinality(With(I, b, e))
  BY EventRowsIs
<1>2. IsCount(n) /\ DOMAIN n = C \cup K /\ \A e \in DOMAIN n : n[e] = Times(t, e) + Times(r, e)
  <2>1. n = Together(t, r)
    OBVIOUS
  <2> HIDE DEF r, K
  <2>2. /\ IsCount(n) /\ DOMAIN n = DOMAIN t \cup DOMAIN r
        /\ \A e \in DOMAIN n : n[e] = Times(t, e) + Times(r, e)
    BY <1>1, <2>1, CountsAdded
  <2> QED BY <1>1, <2>2
<1>3. t \in [C -> Nat] /\ r \in [K -> Nat] /\ IsFiniteSet(K)
  BY <1>1 DEF IsCount
<1> HIDE DEF r
<1>4. Restrict(n, S) = Both(t, C, r, K, S)
  BY <1>1, <1>2 DEF Restrict, Both, Times
<1>5. BeyondOf(n, day) = Sum(Restrict(n, S))
  BY DEF BeyondOf
<1>6. BeyondOf(t, day) = Sum(Restrict(t, S \cap C))
  <2>1. {e \in DOMAIN t : odd(e)} = S \cap C
    BY <1>2
  <2> QED BY <2>1 DEF BeyondOf
<1>7. Within(I, b, S \cap K) = With(Strange(b), DayOf(b), day)
  <2>1. \A i \in I : b[i] \in K /\ DayOf(b)[i] = Day(b[i].minute)
    BY DEF Keys, DayOf
  <2> QED BY <1>2, <2>1 DEF Within, With, Strange
<1>8. Restrict(r, S \cap K) = [k \in S \cap K |-> Cardinality(With(I, b, k))]
  <2>1. \A k \in K : r[k] = Cardinality(With(I, b, k))
    BY <1>1 DEF Times
  <2> QED BY <2>1 DEF Restrict
<1>9. IsFiniteSet(S) /\ IsFiniteSet(S \cap K)
  BY <1>2, <1>3, FS_Subset DEF IsCount
<1>10. IsFiniteSet(I)
  BY BatchFinite
<1> HIDE DEF S, K, C, I, odd
<1>11. Sum(Both(t, C, r, K, S)) = Sum(Restrict(t, S \cap C)) + Sum(Restrict(r, S \cap K))
  BY <1>3, <1>9, SumOfBoth
<1>12. Sum([k \in S \cap K |-> Cardinality(With(I, b, k))]) = Cardinality(Within(I, b, S \cap K))
  BY <1>9, <1>10, Groups
<1> QED BY <1>4, <1>5, <1>6, <1>7, <1>8, <1>11, <1>12

LEMMA RecordTables ==
    ASSUME ClockInv, DetailsInv, TablesInv, NEW b, NEW kept, Recordable(b, kept),
           Record(b, kept), Sum(recorded') = Sum(recorded) + Cardinality(DOMAIN b)
    PROVE  TablesInv'
<1> DEFINE D == DOMAIN b
           E == Wrong(b)
           minutes == MinuteRows(b)
           robots == SpiderRows(b)
           dates == DimensionRows(b)
<1>1. /\ metric' = AddCounters(metric, minutes)
      /\ spiders' = AddCounters(spiders, robots)
      /\ days' = AddCounters(days, dates)
      /\ now' = now
  BY DEF Record
<1>2. IsBatch(b)
  BY DEF Recordable
<1>3. /\ IsTable(minutes, MetricFields)
      /\ DOMAIN minutes = Keys(D, MinuteOf(b))
      /\ \A m : Cell(minutes, m, "bots") = Cardinality(With(Robots(b), MinuteOf(b), m))
      /\ \A P \in SUBSET DOMAIN minutes :
           /\ Total(minutes, "requests", P) = Cardinality(Within(D, MinuteOf(b), P))
           /\ Total(minutes, "errors", P) = Cardinality(Within(E, MinuteOf(b), P))
  BY <1>2, MinuteRowsIs
<1>4. /\ IsTable(robots, CountFields)
      /\ \A m, P : P = {k \in DOMAIN robots : k[1] = m} =>
           Total(robots, "requests", P) = Cardinality(With(Robots(b), MinuteOf(b), m))
  BY <1>2, SpiderRowsIs
<1>5. /\ IsTable(dates, CountFields)
      /\ \A day, d, P :
           d \in Dimensions /\ P = {k \in DOMAIN dates : k[1] = day /\ k[2] = d} =>
             /\ Total(dates, "requests", P) = Cardinality(With(D, DayOf(b), day))
             /\ Total(dates, "errors", P) = Cardinality(With(Failed(b), DayOf(b), day))
  BY <1>2, DimensionRowsIs
<1> HIDE DEF minutes, robots, dates
<1>6. D = DOMAIN b /\ E \subseteq D /\ \A i \in D : b[i] \in Event
  BY <1>2, BatchFinite DEF Wrong
<1>7. Keys(D, MinuteOf(b)) \subseteq 0 .. MaxMinute
  BY <1>6 DEF Keys, MinuteOf, Event
<1>8. Tables'
  <2>1. /\ IsTable(metric', MetricFields) /\ DOMAIN metric' = DOMAIN metric \cup DOMAIN minutes
        /\ IsTable(spiders', CountFields) /\ IsTable(days', CountFields)
    <3>1. IsTable(metric, MetricFields) /\ IsTable(spiders, CountFields)
          /\ IsTable(days, CountFields)
      BY DEF TablesInv, Tables
    <3> DEFINE m == metric'
               s == spiders'
               d == days'
    <3>2. m = AddCounters(metric, minutes) /\ s = AddCounters(spiders, robots)
          /\ d = AddCounters(days, dates)
      BY <1>1
    <3> HIDE DEF m, s, d
    <3>3. IsTable(m, MetricFields) /\ DOMAIN m = DOMAIN metric \cup DOMAIN minutes
      BY <1>3, <3>1, <3>2, AddedTable, AddedKeys
    <3>4. IsTable(s, CountFields)
      BY <1>4, <3>1, <3>2, AddedTable
    <3>5. IsTable(d, CountFields)
      BY <1>5, <3>1, <3>2, AddedTable
    <3> QED BY <3>3, <3>4, <3>5 DEF m, s, d
  <2> QED BY <1>3, <1>7, <2>1 DEF TablesInv, Tables
<1>9. AllMinutes'
  <2>1. Total(metric', "requests", DOMAIN metric')
          = Total(metric, "requests", DOMAIN metric) + Total(minutes, "requests", DOMAIN minutes)
    <3> DEFINE n == metric'
    <3>1. n = AddCounters(metric, minutes) /\ IsTable(metric, MetricFields)
      BY <1>1 DEF TablesInv, Tables
    <3>2. "requests" \in MetricFields
      BY DEF MetricFields
    <3> HIDE DEF n
    <3>3. IsPart(n, DOMAIN n, metric, DOMAIN metric, minutes, DOMAIN minutes)
      <4>1. DOMAIN n = DOMAIN metric \cup DOMAIN minutes
        BY <3>1, AddedKeys
      <4>2. /\ DOMAIN n \subseteq DOMAIN n
            /\ DOMAIN metric = DOMAIN n \cap DOMAIN metric
            /\ DOMAIN minutes = DOMAIN n \cap DOMAIN minutes
        BY <4>1
      <4> QED BY <3>1, <4>2 DEF IsPart
    <3>4. Total(n, "requests", DOMAIN n)
            = Total(metric, "requests", DOMAIN metric)
                + Total(minutes, "requests", DOMAIN minutes)
      BY <1>3, <3>1, <3>2, <3>3, PartAdded
    <3> QED BY <3>4 DEF n
  <2>2. Total(minutes, "requests", DOMAIN minutes) = Cardinality(Within(D, MinuteOf(b), DOMAIN minutes))
    BY <1>3
  <2>3. Within(D, MinuteOf(b), DOMAIN minutes) = D
    BY <1>3 DEF Within, Keys
  <2> QED BY <2>1, <2>2, <2>3 DEF TablesInv, AllMinutes
<1>10. BotsAgree'
  <2> SUFFICES ASSUME NEW m
               PROVE  Total(spiders', "requests", OfMinute(spiders', m)) = Cell(metric', m, "bots")
    BY DEF BotsAgree
  <2>1. Total(spiders', "requests", OfMinute(spiders', m))
          = Total(spiders, "requests", OfMinute(spiders, m))
              + Total(robots, "requests", OfMinute(robots, m))
    <3> DEFINE n == spiders'
    <3>1. n = AddCounters(spiders, robots)
      BY <1>1
    <3>2. "requests" \in CountFields
      BY DEF CountFields
    <3> HIDE DEF n
    <3>3. IsPart(n, OfMinute(n, m), spiders, OfMinute(spiders, m), robots, OfMinute(robots, m))
      <4>1. DOMAIN n = DOMAIN spiders \cup DOMAIN robots
        BY <3>1, AddedKeys
      <4>2. /\ OfMinute(n, m) \subseteq DOMAIN n
            /\ OfMinute(spiders, m) = OfMinute(n, m) \cap DOMAIN spiders
            /\ OfMinute(robots, m) = OfMinute(n, m) \cap DOMAIN robots
        BY <4>1 DEF OfMinute
      <4> QED BY <3>1, <4>2 DEF IsPart
    <3>4. IsTable(spiders, CountFields)
      BY DEF TablesInv, Tables
    <3>5. Total(n, "requests", OfMinute(n, m))
            = Total(spiders, "requests", OfMinute(spiders, m))
                + Total(robots, "requests", OfMinute(robots, m))
      BY <1>4, <3>1, <3>2, <3>3, <3>4, PartAdded
    <3> QED BY <3>5 DEF n
  <2>2. Total(robots, "requests", OfMinute(robots, m)) = Cardinality(With(Robots(b), MinuteOf(b), m))
    BY <1>4 DEF OfMinute
  <2>3. Cell(metric', m, "bots") = Cell(metric, m, "bots") + Cell(minutes, m, "bots")
    <3> DEFINE n == metric'
    <3>1. n = AddCounters(metric, minutes) /\ IsTable(metric, MetricFields)
      BY <1>1 DEF TablesInv, Tables
    <3> HIDE DEF n
    <3>2. "bots" \in MetricFields
      BY DEF MetricFields
    <3>3. DOMAIN n = DOMAIN metric \cup DOMAIN minutes
      BY <3>1, AddedKeys
    <3>4. m \in DOMAIN n => n[m]["bots"] = Cell(metric, m, "bots") + Cell(minutes, m, "bots")
      BY <1>3, <3>1, <3>2, <3>3, AddedCells
    <3> QED BY <3>3, <3>4 DEF Cell, n
  <2> QED BY <1>3, <2>1, <2>2, <2>3 DEF TablesInv, BotsAgree
<1>11. DatesAgree'
  <2> SUFFICES ASSUME NEW day \in Int, NEW d \in Dimensions, NEW field \in CountFields,
                      day >= FirstDayAt(now)
               PROVE  Total(days', field, OfDimension(days', day, d))
                        = Total(metric', field, OnDate(metric', day))
                            + Extra(recorded', field, day)
    BY <1>1 DEF DatesAgree
  <2>0. field \in {"requests", "errors"} /\ field \in MetricFields
    BY DEF CountFields, MetricFields
  <2>1. Total(days', field, OfDimension(days', day, d))
          = Total(days, field, OfDimension(days, day, d))
              + Total(dates, field, OfDimension(dates, day, d))
    <3> DEFINE n == days'
    <3>1. n = AddCounters(days, dates)
      BY <1>1
    <3> HIDE DEF n
    <3>2. IsPart(n, OfDimension(n, day, d), days, OfDimension(days, day, d), dates, OfDimension(dates, day, d))
      <4>1. DOMAIN n = DOMAIN days \cup DOMAIN dates
        BY <3>1, AddedKeys
      <4>2. /\ OfDimension(n, day, d) \subseteq DOMAIN n
            /\ OfDimension(days, day, d) = OfDimension(n, day, d) \cap DOMAIN days
            /\ OfDimension(dates, day, d) = OfDimension(n, day, d) \cap DOMAIN dates
        BY <4>1 DEF OfDimension
      <4> QED BY <3>1, <4>2 DEF IsPart
    <3>3. IsTable(days, CountFields)
      BY DEF TablesInv, Tables
    <3>4. Total(n, field, OfDimension(n, day, d))
            = Total(days, field, OfDimension(days, day, d))
                + Total(dates, field, OfDimension(dates, day, d))
      BY <1>5, <3>2, <3>3, PartAdded
    <3> QED BY <3>4 DEF n
  <2>2. Total(metric', field, OnDate(metric', day))
          = Total(metric, field, OnDate(metric, day))
              + Total(minutes, field, OnDate(minutes, day))
    <3> DEFINE n == metric'
    <3>1. n = AddCounters(metric, minutes)
      BY <1>1
    <3> HIDE DEF n
    <3>2. IsPart(n, OnDate(n, day), metric, OnDate(metric, day), minutes, OnDate(minutes, day))
      <4>1. DOMAIN n = DOMAIN metric \cup DOMAIN minutes
        BY <3>1, AddedKeys
      <4>2. /\ OnDate(n, day) \subseteq DOMAIN n
            /\ OnDate(metric, day) = OnDate(n, day) \cap DOMAIN metric
            /\ OnDate(minutes, day) = OnDate(n, day) \cap DOMAIN minutes
        BY <4>1 DEF OnDate
      <4> QED BY <3>1, <4>2 DEF IsPart
    <3>3. IsTable(metric, MetricFields)
      BY DEF TablesInv, Tables
    <3>4. Total(n, field, OnDate(n, day))
            = Total(metric, field, OnDate(metric, day))
                + Total(minutes, field, OnDate(minutes, day))
      BY <1>3, <2>0, <3>2, <3>3, PartAdded
    <3> QED BY <3>4 DEF n
  <2>3. /\ Total(dates, "requests", OfDimension(dates, day, d)) = Cardinality(With(D, DayOf(b), day))
        /\ Total(dates, "errors", OfDimension(dates, day, d))
             = Cardinality(With(Failed(b), DayOf(b), day))
    BY <1>5 DEF OfDimension
  <2>4. OnDate(minutes, day) \in SUBSET DOMAIN minutes
    BY DEF OnDate
  <2>5. /\ Total(minutes, "requests", OnDate(minutes, day))
             = Cardinality(Within(D, MinuteOf(b), OnDate(minutes, day)))
        /\ Total(minutes, "errors", OnDate(minutes, day))
             = Cardinality(Within(E, MinuteOf(b), OnDate(minutes, day)))
    BY <1>3, <2>4
  <2>6. \A i \in D : /\ DayOf(b)[i] = Day(MinuteOf(b)[i])
                     /\ MinuteOf(b)[i] \in DOMAIN minutes
    BY <1>3 DEF DayOf, MinuteOf, Keys
  <2>7. /\ Within(D, MinuteOf(b), OnDate(minutes, day)) = With(D, DayOf(b), day)
        /\ Within(E, MinuteOf(b), OnDate(minutes, day)) = With(E, DayOf(b), day)
    BY <1>6, <2>6 DEF Within, With, OnDate
  <2> DEFINE more == Cardinality(With(Strange(b), DayOf(b), day))
             some == IF field = "errors" THEN more ELSE 0
  <2>8. Total(dates, field, OfDimension(dates, day, d))
          = Total(minutes, field, OnDate(minutes, day)) + some
    <3>1. CASE field = "requests"
      <4>1. Total(minutes, "requests", OnDate(minutes, day)) \in Nat
        BY <1>3, <2>0, <2>4, <3>1, TotalType
      <4> QED BY <2>3, <2>5, <2>7, <3>1, <4>1
    <3>2. CASE field = "errors"
      BY <1>2, <2>3, <2>5, <2>7, <3>2, TwoTests
    <3> QED BY <2>0, <3>1, <3>2
  <2>9. Total(days, field, OfDimension(days, day, d))
          = Total(metric, field, OnDate(metric, day)) + Extra(recorded, field, day)
    BY DEF TablesInv, DatesAgree
  <2>10. BeyondOf(recorded', day) = BeyondOf(recorded, day) + more
    <3> DEFINE n == recorded'
    <3>1. n = Together(recorded, EventRows(b, D)) /\ IsCount(recorded)
      BY DEF Record, Together, DetailsInv
    <3> HIDE DEF n
    <3>2. BeyondOf(n, day) = BeyondOf(recorded, day) + more
      BY <1>2, <3>1, BeyondAdded
    <3> QED BY <3>2 DEF n
  <2>11. Extra(recorded', field, day) = Extra(recorded, field, day) + some
    BY <2>10 DEF Extra
  <2>12. /\ Total(minutes, field, OnDate(minutes, day)) \in Nat
         /\ Total(metric, field, OnDate(metric, day)) \in Nat
    <3>1. OnDate(metric, day) \in SUBSET DOMAIN metric
      BY DEF OnDate
    <3> QED BY <1>3, <2>0, <2>4, <3>1, TotalType DEF TablesInv, Tables
  <2>13. some \in Nat /\ Extra(recorded, field, day) \in Nat
    <3>1. more \in Nat
      <4>1. With(Strange(b), DayOf(b), day) \in SUBSET DOMAIN b
        BY DEF With, Strange
      <4> QED BY <1>2, <4>1, BatchFinite
    <3>2. BeyondOf(recorded, day) \in Nat
      BY BeyondType DEF DetailsInv
    <3> QED BY <3>1, <3>2 DEF Extra
  <2> HIDE DEF some
  <2> QED BY <2>1, <2>2, <2>8, <2>9, <2>11, <2>12, <2>13
<1> QED BY <1>8, <1>9, <1>10, <1>11 DEF TablesInv

(* The hours of a batch, and the values of the positions of an hour.       *)
HoursOf(b) == {Hour(b[i].minute) : i \in DOMAIN b}
InHour(b, k) == {i \in DOMAIN b : Hour(b[i].minute) = k[1]}
New(b, k) == {HashOf[k[2]][b[i].kind] : i \in InHour(b, k)}

LEMMA SketchRowsIs ==
    ASSUME ClockInv, NEW b, IsBatch(b)
    PROVE  /\ DOMAIN SketchRows(b) = HoursOf(b) \X {"uv", "ip"}
           /\ \A k \in DOMAIN SketchRows(b) : SketchRows(b)[k] = Of(precision, New(b, k))
<1> DEFINE K == HoursOf(b) \X {"uv", "ip"}
<1>1. SketchRows(b) = [k \in K |-> AddAll(precision, New(b, k))]
  BY DEF SketchRows, HoursOf, InHour, New
<1>2. ASSUME NEW k PROVE AddAll(precision, New(b, k)) = Of(precision, New(b, k))
  <2> DEFINE I == InHour(b, k)
             hash == [i \in I |-> HashOf[k[2]][b[i].kind]]
             H == New(b, k)
  <2>1. I \in SUBSET DOMAIN b
    BY DEF InHour
  <2>2. IsFiniteSet(I)
    BY <2>1, BatchFinite
  <2>3. H = Keys(I, hash)
    BY DEF New, Keys
  <2> HIDE DEF I, hash, H
  <2>4. IsFiniteSet(H)
    BY <2>2, <2>3, KeysFinite
  <2>5. precision \in Precision
    BY StatisticsAssumption DEF ClockInv
  <2> QED BY <2>4, <2>5, AddAllOf DEF H
<1>3. DOMAIN SketchRows(b) = K
  BY <1>1
<1>4. \A k \in K : SketchRows(b)[k] = AddAll(precision, New(b, k))
  BY <1>1
<1> HIDE DEF K
<1> QED BY <1>2, <1>3, <1>4 DEF K

LEMMA RecordSketches ==
    ASSUME ClockInv, DetailsInv, SketchesInv, NEW b, NEW kept, Recordable(b, kept),
           Record(b, kept), DOMAIN recorded' = DOMAIN recorded \cup Keys(DOMAIN b, b)
    PROVE  SketchesInv'
<1> DEFINE r == SketchRows(b)
           H == HoursOf(b)
           V == {"uv", "ip"}
<1>1. IsBatch(b)
  BY DEF Recordable
<1>2. CanStore(r) /\ sketches' = Upsert(sketches, r, Merge)
  BY DEF Record
<1>3. /\ DOMAIN r = H \X V
      /\ \A k \in DOMAIN r : r[k] = Of(precision, New(b, k))
  BY <1>1, SketchRowsIs
<1> HIDE DEF r
<1>4. /\ DOMAIN sketches' = DOMAIN sketches \cup DOMAIN r
      /\ \A k \in DOMAIN sketches' :
           sketches'[k] = IF k \notin DOMAIN r THEN sketches[k]
                          ELSE IF k \notin DOMAIN sketches THEN r[k]
                          ELSE Merge(sketches[k], r[k])
  BY <1>2 DEF Upsert
<1>5. precision \in Precision
  BY StatisticsAssumption DEF ClockInv
<1>6. \A i \in DOMAIN b : b[i] \in Event /\ b[i].minute \in Int
  BY <1>1, BatchFinite, Lengths DEF Event
<1>7. \A p, S : Of(p, S).precision = p
  BY OfRegisters
<1>8. \A k : Values(recorded', k) = Values(recorded, k) \cup New(b, k)
  <2> TAKE k
  <2>1. Values(recorded', k) \subseteq Values(recorded, k) \cup New(b, k)
    <3> SUFFICES ASSUME NEW e \in DOMAIN recorded', Hour(e.minute) = k[1]
                 PROVE  HashOf[k[2]][e.kind] \in Values(recorded, k) \cup New(b, k)
      BY DEF Values
    <3>1. CASE e \in DOMAIN recorded
      BY <3>1 DEF Values
    <3>2. CASE e \in Keys(DOMAIN b, b)
      BY <3>2 DEF Keys, New, InHour
    <3> QED BY <3>1, <3>2
  <2>2. Values(recorded, k) \subseteq Values(recorded', k)
    BY DEF Values
  <2>3. New(b, k) \subseteq Values(recorded', k)
    <3> SUFFICES ASSUME NEW i \in DOMAIN b, Hour(b[i].minute) = k[1]
                 PROVE  HashOf[k[2]][b[i].kind] \in Values(recorded', k)
      BY DEF New, InHour
    <3>1. b[i] \in DOMAIN recorded'
      BY DEF Keys
    <3> QED BY <3>1 DEF Values
  <2> QED BY <2>1, <2>2, <2>3
<1>9. ASSUME NEW e \in DOMAIN recorded', NEW v \in V
      PROVE  <<Hour(e.minute), v>> \in DOMAIN sketches'
  <2>1. CASE e \in DOMAIN recorded
    BY <1>4, <2>1 DEF SketchesInv
  <2>2. CASE e \in Keys(DOMAIN b, b)
    <3>1. Hour(e.minute) \in H
      BY <2>2 DEF Keys, HoursOf
    <3> QED BY <1>3, <1>4, <3>1
  <2> QED BY <2>1, <2>2
<1>10. \A h \in H : h \in Int /\ h % MinutesPerHour = 0
  BY <1>6, HourIs DEF HoursOf
<1>11. ASSUME NEW k \in DOMAIN sketches'
       PROVE  k \in Int \X V /\ k[1] % MinutesPerHour = 0
  <2>1. CASE k \in DOMAIN sketches
    BY <2>1 DEF SketchesInv
  <2>2. CASE k \in DOMAIN r
    BY <1>3, <1>10, <2>2
  <2> QED BY <1>4, <2>1, <2>2
<1>12. ASSUME NEW k \in DOMAIN sketches'
       PROVE  /\ sketches'[k].precision \in Precision
              /\ sketches'[k] = Of(sketches'[k].precision, Values(recorded', k))
  <2> DEFINE old == Values(recorded, k)
             new == New(b, k)
             p == sketches[k].precision
  <2>0. Values(recorded', k) = old \cup new
    BY <1>8
  <2>1. CASE k \notin DOMAIN r
    <3>1. k \in DOMAIN sketches /\ sketches'[k] = sketches[k]
      BY <1>4, <2>1
    <3>2. k[1] \notin H
      BY <1>3, <1>11, <2>1
    <3>3. InHour(b, k) = {}
      BY <3>2 DEF HoursOf, InHour
    <3>4. new = {}
      BY <3>3 DEF New
    <3>5. p \in Precision /\ sketches[k] = Of(p, old)
      BY <3>1 DEF SketchesInv
    <3> HIDE DEF old, new, p
    <3>6. old \cup new = old
      BY <3>4
    <3> QED BY <2>0, <3>1, <3>5, <3>6 DEF p
  <2>2. CASE k \in DOMAIN r /\ k \notin DOMAIN sketches
    <3>1. sketches'[k] = Of(precision, new)
      BY <1>3, <1>4, <2>2
    <3>2. old = {}
      <4> SUFFICES ASSUME NEW e \in DOMAIN recorded, Hour(e.minute) = k[1] PROVE FALSE
        BY DEF Values
      <4>1. k = <<k[1], k[2]>> /\ k[2] \in V
        BY <1>11
      <4>2. <<Hour(e.minute), k[2]>> \in DOMAIN sketches
        BY <4>1 DEF SketchesInv
      <4> QED BY <2>2, <4>1, <4>2
    <3> HIDE DEF old, new
    <3>3. old \cup new = new
      BY <3>2
    <3> QED BY <1>5, <1>7, <2>0, <3>1, <3>3
  <2>3. CASE k \in DOMAIN r /\ k \in DOMAIN sketches
    <3>1. sketches'[k] = Merge(sketches[k], r[k]) /\ r[k] = Of(precision, new)
      BY <1>3, <1>4, <2>3
    <3>2. p = r[k].precision
      BY <1>2, <2>3 DEF CanStore, Mergeable
    <3>3. p \in Precision /\ sketches[k] = Of(p, old)
      BY <2>3 DEF SketchesInv
    <3> HIDE DEF old, new, p
    <3>4. p = precision
      BY <1>7, <3>1, <3>2
    <3>5. Merge(Of(p, old), Of(p, new)) = Of(p, old \cup new)
      BY <3>3, MergeOf
    <3>6. sketches'[k] = Of(p, old \cup new)
      BY <3>1, <3>3, <3>4, <3>5
    <3> QED BY <1>7, <2>0, <3>3, <3>6
  <2> QED BY <2>1, <2>2, <2>3
<1> QED BY <1>9, <1>11, <1>12 DEF SketchesInv

-----------------------------------------------------------------------------
(* The invariant holds.                                                    *)

LEMMA InitHolds == Init => StatisticsInv
<1> SUFFICES ASSUME Init PROVE StatisticsInv
  OBVIOUS
<1>1. /\ now = StartMinute /\ precision = Min(Precisions)
      /\ DOMAIN recorded = {} /\ DOMAIN details = {} /\ DOMAIN metric = {}
      /\ DOMAIN spiders = {} /\ DOMAIN days = {} /\ DOMAIN sketches = {}
      /\ recorded = <<>> /\ details = <<>> /\ metric = <<>> /\ spiders = <<>>
      /\ days = <<>>
  BY DEF Init
<1>2. \A f : DOMAIN f = {} => Sum(f) = 0
  BY SumOfNone
<1>3. ClockInv
  <2>1. Precisions \in SUBSET Nat /\ Precisions # {}
    BY StatisticsAssumption, HashBitsAssumption DEF Precision
  <2>2. \E p \in Precisions : \A q \in Precisions : ~(q < p)
    BY <2>1, LeastNumber
  <2>3. \E p \in Precisions : \A q \in Precisions : p <= q
    BY <2>1, <2>2
  <2>4. Min(Precisions) \in Precisions
    BY <2>3 DEF Min
  <2> QED BY <1>1, <2>4, Lengths DEF ClockInv
<1>4. IsFiniteSet({})
  BY FS_EmptySet
<1>5. DetailsInv
  <2>1. IsCount(<<>>)
    BY <1>4 DEF IsCount
  <2>2. Sum(recorded) = 0
    BY <1>1, <1>2
  <2> QED BY <1>1, <2>1, <2>2, Lengths DEF DetailsInv
<1>6. \A f, P : P = {} => Total(<<>>, f, P) = 0
  <2> TAKE f, P
  <2> HAVE P = {}
  <2> DEFINE a == [k \in P |-> <<>>[k][f]]
  <2>1. DOMAIN a = {}
    OBVIOUS
  <2> HIDE DEF a
  <2>2. Sum(a) = 0
    BY <1>2, <2>1
  <2> QED BY <2>2 DEF Total, a
<1>7. TablesInv
  <2>1. \A F : IsTable(<<>>, F)
    BY <1>4 DEF IsTable
  <2>2. Tables
    BY <1>1, <2>1 DEF Tables
  <2>3. AllMinutes
    BY <1>1, <1>2, <1>6 DEF AllMinutes
  <2>4. BotsAgree
    <3>1. \A m : OfMinute(spiders, m) = {} /\ Cell(metric, m, "bots") = 0
      BY <1>1 DEF OfMinute, Cell
    <3> QED BY <1>1, <1>6, <3>1 DEF BotsAgree
  <2>5. DatesAgree
    <3>1. \A day, d : OfDimension(days, day, d) = {} /\ OnDate(metric, day) = {}
      BY <1>1 DEF OfDimension, OnDate
    <3>2. \A day, field : Extra(recorded, field, day) = 0
      <4> SUFFICES ASSUME NEW day PROVE BeyondOf(recorded, day) = 0
        BY DEF Extra
      <4> DEFINE a == Restrict(recorded, {e \in DOMAIN recorded :
                         e.kind.status = "beyond" /\ Day(e.minute) = day})
      <4>1. DOMAIN a = {}
        BY <1>1 DEF Restrict
      <4> HIDE DEF a
      <4>2. Sum(a) = 0
        BY <1>2, <4>1
      <4> QED BY <4>2 DEF BeyondOf, a
    <3> QED BY <1>1, <1>6, <3>1, <3>2 DEF DatesAgree
  <2> QED BY <2>2, <2>3, <2>4, <2>5 DEF TablesInv
<1>8. SketchesInv
  BY <1>1 DEF SketchesInv
<1> QED BY <1>3, <1>5, <1>7, <1>8 DEF StatisticsInv

LEMMA RecordHolds ==
    ASSUME StatisticsInv, NEW b, NEW kept, Recordable(b, kept), Record(b, kept)
    PROVE  StatisticsInv'
<1>1. ClockInv /\ DetailsInv /\ TablesInv /\ SketchesInv
  BY DEF StatisticsInv
<1>2. ClockInv'
  BY <1>1 DEF Record, ClockInv
<1>3. /\ DetailsInv'
      /\ DOMAIN recorded' = DOMAIN recorded \cup Keys(DOMAIN b, b)
      /\ Sum(recorded') = Sum(recorded) + Cardinality(DOMAIN b)
  BY <1>1, RecordDetails
<1>4. TablesInv'
  BY <1>1, <1>3, RecordTables
<1>5. SketchesInv'
  BY <1>1, <1>3, RecordSketches
<1> QED BY <1>2, <1>3, <1>4, <1>5 DEF StatisticsInv

(* The rows a cleanup leaves are the rows there were.                      *)
LEMMA TotalLeft ==
    ASSUME NEW t, NEW n, NEW f, NEW P, \A k \in P : n[k] = t[k]
    PROVE  Total(n, f, P) = Total(t, f, P)
<1>1. [k \in P |-> n[k][f]] = [k \in P |-> t[k][f]]
  OBVIOUS
<1> QED BY <1>1 DEF Total

LEMMA CleanupHolds ==
    ASSUME StatisticsInv, Cleanup
    PROVE  StatisticsInv'
<1> DEFINE K == {e \in DOMAIN details : ~Expired(e)}
           L == {k \in DOMAIN days : k[1] >= FirstDay}
<1>1. /\ details' = [e \in K |-> details[e]] /\ days' = [k \in L |-> days[k]]
      /\ UNCHANGED <<now, precision, recorded, metric, spiders, sketches>>
  BY DEF Cleanup, RestrictDomain, Restrict
<1>2. ClockInv' /\ SketchesInv'
  BY <1>1 DEF StatisticsInv, ClockInv, SketchesInv, Values
<1>3. DetailsInv'
  <2>1. DOMAIN details' = K /\ \A e \in K : details'[e] = details[e]
    BY <1>1
  <2>2. K \in SUBSET DOMAIN details
    OBVIOUS
  <2>3. IsCount(details')
    <3>1. IsFiniteSet(DOMAIN details) /\ details \in [DOMAIN details -> Nat]
      BY DEF StatisticsInv, DetailsInv, IsCount
    <3>2. IsFiniteSet(K)
      BY <2>2, <3>1, FS_Subset
    <3> HIDE DEF K
    <3>3. details' \in [K -> Nat]
      BY <1>1, <2>2, <3>1
    <3> QED BY <2>1, <3>2, <3>3 DEF IsCount
  <2>4. ASSUME NEW e \in DOMAIN recorded, Young(now, e)
        PROVE  e \in K
    <3>1. e \in DOMAIN details
      BY <2>4 DEF StatisticsInv, DetailsInv
    <3>2. now \in Int /\ e.minute \in Int
      BY Lengths DEF StatisticsInv, ClockInv, DetailsInv, Event
    <3>3. ~Expired(e)
      BY <2>4, <3>2, YoungStays DEF Expired, ListedFor
    <3> QED BY <3>1, <3>3
  <2> HIDE DEF K
  <2> QED BY <1>1, <2>1, <2>2, <2>3, <2>4 DEF StatisticsInv, DetailsInv
<1>4. TablesInv'
  <2>1. DOMAIN days' = L /\ \A k \in L : days'[k] = days[k]
    BY <1>1
  <2>2. L \in SUBSET DOMAIN days
    OBVIOUS
  <2>3. IsTable(days', CountFields)
    <3>1. IsTable(days, CountFields)
      BY DEF StatisticsInv, TablesInv, Tables
    <3>2. IsFiniteSet(L)
      BY <2>2, <3>1, FS_Subset DEF IsTable
    <3> HIDE DEF L
    <3>3. days' = [k \in DOMAIN days' |-> days'[k]]
      BY <1>1
    <3> QED BY <2>1, <2>2, <3>1, <3>2, <3>3 DEF IsTable
  <2>4. Tables' /\ AllMinutes' /\ BotsAgree'
    BY <1>1, <2>3 DEF StatisticsInv, TablesInv, Tables, AllMinutes, BotsAgree
  <2>5. DatesAgree'
    <3> SUFFICES ASSUME NEW day \in Int, NEW d \in Dimensions, NEW field \in CountFields,
                        day >= FirstDayAt(now)
                 PROVE  Total(days', field, OfDimension(days', day, d))
                          = Total(metric, field, OnDate(metric, day))
                              + Extra(recorded, field, day)
      BY <1>1 DEF DatesAgree
    <3>1. day >= FirstDay
      BY DEF FirstDay, FirstDayAt
    <3>2. OfDimension(days', day, d) = OfDimension(days, day, d)
      BY <2>1, <3>1 DEF OfDimension
    <3>3. \A k \in OfDimension(days, day, d) : days'[k] = days[k]
      BY <2>1, <3>1 DEF OfDimension
    <3> HIDE DEF L
    <3>4. Total(days', field, OfDimension(days, day, d)) = Total(days, field, OfDimension(days, day, d))
      BY <3>3, TotalLeft
    <3> QED BY <3>2, <3>4 DEF StatisticsInv, TablesInv, DatesAgree
  <2> QED BY <2>4, <2>5 DEF TablesInv
<1> QED BY <1>2, <1>3, <1>4 DEF StatisticsInv

LEMMA TickHolds ==
    ASSUME StatisticsInv, Tick
    PROVE  StatisticsInv'
<1>1. now' = now + 1 /\ now < MaxMinute /\ UNCHANGED <<precision, tables>>
  BY DEF Tick
<1>2. now \in StartMinute .. MaxMinute /\ now \in Int /\ now' \in Int /\ now <= now'
  BY <1>1, Lengths DEF StatisticsInv, ClockInv
<1>3. ClockInv'
  BY <1>1, <1>2, Lengths DEF StatisticsInv, ClockInv
<1>4. SketchesInv'
  BY <1>1 DEF StatisticsInv, SketchesInv, Values, tables
<1>5. DetailsInv'
  <2>1. \A e \in DOMAIN recorded : Young(now', e) => Young(now, e)
    <3>1. \A e \in DOMAIN recorded : e.minute \in Int
      BY Lengths DEF StatisticsInv, DetailsInv, Event
    <3> QED BY <1>2, <3>1, YoungStays
  <2> QED BY <1>1, <2>1 DEF StatisticsInv, DetailsInv, tables
<1>6. TablesInv'
  <2>1. \A day \in Int : day >= FirstDayAt(now') => day >= FirstDayAt(now)
    BY <1>2, FirstDayGrows
  <2>2. DatesAgree'
    BY <1>1, <2>1 DEF StatisticsInv, TablesInv, DatesAgree, tables
  <2> QED BY <1>1, <2>2 DEF StatisticsInv, TablesInv, Tables, AllMinutes, BotsAgree, tables
<1> QED BY <1>3, <1>4, <1>5, <1>6 DEF StatisticsInv

(* Neither a restart nor a page that is read touches the tables.           *)
LEMMA QuietHolds ==
    ASSUME StatisticsInv, UNCHANGED <<now, tables>>, precision' \in Precisions
    PROVE  StatisticsInv'
<1>1. ClockInv'
  BY DEF StatisticsInv, ClockInv
<1>2. DetailsInv'
  BY DEF StatisticsInv, DetailsInv, tables
<1>3. TablesInv'
  BY DEF StatisticsInv, TablesInv, Tables, AllMinutes, BotsAgree, DatesAgree, tables
<1>4. SketchesInv'
  BY DEF StatisticsInv, SketchesInv, Values, tables
<1> QED BY <1>1, <1>2, <1>3, <1>4 DEF StatisticsInv

LEMMA StepHolds == StatisticsInv /\ [Next]_vars => StatisticsInv'
<1> SUFFICES ASSUME StatisticsInv, [Next]_vars PROVE StatisticsInv'
  OBVIOUS
<1>0. precision \in Precisions
  BY DEF StatisticsInv, ClockInv
<1>1. CASE RecordLive
  BY <1>1, LiveIs, RecordHolds
<1>2. CASE RecordImported
  BY <1>2, ImportedIs, RecordHolds
<1>3. CASE Cleanup
  BY <1>3, CleanupHolds
<1>4. CASE Tick
  BY <1>4, TickHolds
<1>5. CASE Reconfigure
  BY <1>5, QuietHolds DEF Reconfigure
<1>6. CASE Ask
  BY <1>0, <1>6, QuietHolds DEF Ask
<1>7. CASE Select
  BY <1>0, <1>7, QuietHolds DEF Select
<1>8. CASE Leave
  BY <1>0, <1>8, QuietHolds DEF Leave
<1>9. CASE UNCHANGED vars
  BY <1>0, <1>9, QuietHolds DEF vars
<1> QED BY <1>1, <1>2, <1>3, <1>4, <1>5, <1>6, <1>7, <1>8, <1>9 DEF Next

LEMMA StatisticsInvHolds == Spec => []StatisticsInv
  BY InitHolds, StepHolds, PTL DEF Spec

-----------------------------------------------------------------------------
(* Powers of two, as numbers of subsets.                                   *)

LEMMA PowerIs ==
    ASSUME NEW S, IsFiniteSet(S), NEW n \in Nat, Cardinality(S) = n
    PROVE  /\ IsFiniteSet(SUBSET S) /\ Cardinality(SUBSET S) = 2^n
           /\ 2^n \in Nat \ {0}
<1>1. IsFiniteSet(SUBSET S) /\ Cardinality(SUBSET S) = 2^n
  BY FS_SUBSET
<1>2. Cardinality(SUBSET S) \in Nat
  BY <1>1, FS_CardinalityType
<1>3. {} \in SUBSET S
  OBVIOUS
<1>4. Cardinality(SUBSET S) # 0
  BY <1>1, <1>3, FS_EmptySet
<1> QED BY <1>1, <1>2, <1>4

LEMMA Interval ==
    ASSUME NEW a \in Nat, NEW n \in Nat
    PROVE  IsFiniteSet(a + 1 .. a + n) /\ Cardinality(a + 1 .. a + n) = n
<1> DEFINE x == a + 1
           y == a + n
<1>1. x \in Int /\ y \in Int /\ (IF x > y THEN 0 ELSE y - x + 1) = n
  OBVIOUS
<1> HIDE DEF x, y
<1>2. IsFiniteSet(x .. y) /\ Cardinality(x .. y) = IF x > y THEN 0 ELSE y - x + 1
  BY <1>1, FS_Interval
<1> QED BY <1>1, <1>2 DEF x, y

LEMMA PowerType ==
    ASSUME NEW n \in Nat
    PROVE  2^n \in Nat \ {0}
<1>1. IsFiniteSet(0 + 1 .. 0 + n) /\ Cardinality(0 + 1 .. 0 + n) = n
  BY Interval
<1> QED BY <1>1, PowerIs

LEMMA PowerGrows ==
    ASSUME NEW m \in Nat, NEW n \in Nat, m <= n
    PROVE  2^m <= 2^n
<1> DEFINE S == 0 + 1 .. 0 + m
           T == 0 + 1 .. 0 + n
<1>1. S \subseteq T
  OBVIOUS
<1>2. IsFiniteSet(S) /\ Cardinality(S) = m /\ IsFiniteSet(T) /\ Cardinality(T) = n
  BY Interval
<1> HIDE DEF S, T
<1>3. /\ IsFiniteSet(SUBSET T) /\ Cardinality(SUBSET T) = 2^n
      /\ Cardinality(SUBSET S) = 2^m
  BY <1>2, PowerIs
<1>4. SUBSET S \in SUBSET (SUBSET T)
  BY <1>1
<1> QED BY <1>3, <1>4, FS_Subset

LEMMA PowerOfSum ==
    ASSUME NEW m \in Nat, NEW n \in Nat
    PROVE  2^(m + n) = 2^m * 2^n
<1> DEFINE A == 0 + 1 .. 0 + m
           B == m + 1 .. m + n
           C == 0 + 1 .. 0 + (m + n)
<1>1. A \cap B = {} /\ A \cup B = C
  OBVIOUS
<1>2. /\ IsFiniteSet(A) /\ Cardinality(A) = m
      /\ IsFiniteSet(B) /\ Cardinality(B) = n
      /\ IsFiniteSet(C) /\ Cardinality(C) = m + n
  <2>1. m + n \in Nat /\ 0 \in Nat
    OBVIOUS
  <2>2. IsFiniteSet(C) /\ Cardinality(C) = m + n
    BY <2>1, Interval
  <2>3. IsFiniteSet(A) /\ Cardinality(A) = m
    BY Interval
  <2>4. IsFiniteSet(B) /\ Cardinality(B) = n
    BY Interval
  <2> QED BY <2>2, <2>3, <2>4
<1> HIDE DEF A, B, C
<1> DEFINE P == (SUBSET A) \X (SUBSET B)
           f == [x \in P |-> x[1] \cup x[2]]
<1>3. /\ IsFiniteSet(SUBSET A) /\ Cardinality(SUBSET A) = 2^m
      /\ IsFiniteSet(SUBSET B) /\ Cardinality(SUBSET B) = 2^n
      /\ Cardinality(SUBSET C) = 2^(m + n)
  <2>1. IsFiniteSet(SUBSET A) /\ Cardinality(SUBSET A) = 2^m
    BY <1>2, PowerIs
  <2>2. IsFiniteSet(SUBSET B) /\ Cardinality(SUBSET B) = 2^n
    BY <1>2, PowerIs
  <2> DEFINE s == m + n
  <2>3. s \in Nat /\ IsFiniteSet(C) /\ Cardinality(C) = s
    BY <1>2
  <2> HIDE DEF s
  <2>4. Cardinality(SUBSET C) = 2^s
    BY <2>3, PowerIs
  <2> QED BY <2>1, <2>2, <2>4 DEF s
<1>4. IsFiniteSet(P) /\ Cardinality(P) = 2^m * 2^n
  <2> DEFINE X == SUBSET A
             Y == SUBSET B
  <2>1. IsFiniteSet(X) /\ IsFiniteSet(Y) /\ Cardinality(X) = 2^m /\ Cardinality(Y) = 2^n
    BY <1>3
  <2> HIDE DEF X, Y
  <2>2. IsFiniteSet(X \X Y) /\ Cardinality(X \X Y) = Cardinality(X) * Cardinality(Y)
    BY <2>1, FS_Product
  <2>3. IsFiniteSet(X \X Y) /\ Cardinality(X \X Y) = 2^m * 2^n
    BY <2>1, <2>2
  <2> QED BY <2>3 DEF X, Y
<1>5. f \in [P -> SUBSET C]
  BY <1>1
<1>6. \A x \in P, y \in P : f[x] = f[y] => x = y
  <2> SUFFICES ASSUME NEW x \in P, NEW y \in P, f[x] = f[y] PROVE x = y
    OBVIOUS
  <2>1. x[1] \cup x[2] = y[1] \cup y[2]
    OBVIOUS
  <2>2. x = <<x[1], x[2]>> /\ y = <<y[1], y[2]>>
    OBVIOUS
  <2>3. x[1] \subseteq A /\ x[2] \subseteq B /\ y[1] \subseteq A /\ y[2] \subseteq B
    OBVIOUS
  <2>4. x[1] = y[1] /\ x[2] = y[2]
    BY <1>1, <2>1, <2>3
  <2> QED BY <2>2, <2>4
<1>7. \A c \in SUBSET C : \E x \in P : f[x] = c
  <2> SUFFICES ASSUME NEW c \in SUBSET C PROVE \E x \in P : f[x] = c
    OBVIOUS
  <2>1. <<c \cap A, c \cap B>> \in P
    OBVIOUS
  <2>2. f[<<c \cap A, c \cap B>>] = c
    BY <1>1, <2>1
  <2> QED BY <2>1, <2>2
<1>8. f \in Bijection(P, SUBSET C)
  BY <1>5, <1>6, <1>7 DEF Bijection, Injection, Surjection, IsInjective
<1>9. ExistsBijection(P, SUBSET C)
  BY <1>8 DEF ExistsBijection
<1>10. Cardinality(SUBSET C) = Cardinality(P)
  BY <1>4, <1>9, FS_Bijection
<1> QED BY <1>3, <1>4, <1>10

-----------------------------------------------------------------------------
(* What a sketch of some values estimates.                                 *)

LEMMA RankPositive ==
    ASSUME NEW p \in Precision, NEW h \in Hash
    PROVE  Rank(p, h) >= 1
<1> DEFINE w == HashBits - p
           r == h % 2^w
           K == {k \in 0 .. HashBits - 1 : 2^k <= r}
<1>1. HashBits \in Nat /\ p \in Nat /\ w \in Nat /\ p + w = HashBits
  BY HashBitsAssumption DEF Precision
<1>2. 2^w \in Nat \ {0} /\ 2^HashBits \in Nat \ {0}
  BY <1>1, PowerType
<1>3. h \in Nat /\ r \in Nat /\ r < 2^w
  <2>1. h \in Nat
    BY <1>2 DEF Hash
  <2> DEFINE d == 2^w
  <2>2. d \in Nat \ {0}
    BY <1>2
  <2> HIDE DEF d
  <2>3. h % d \in Nat /\ h % d < d
    BY <2>1, <2>2
  <2> QED BY <2>1, <2>3 DEF d
<1> HIDE DEF r
<1>4. K \subseteq 0 .. w - 1
  <2> SUFFICES ASSUME NEW k \in 0 .. HashBits - 1, 2^k <= r, k >= w PROVE FALSE
    BY <1>1
  <2>1. k \in Nat /\ w <= k
    BY <1>1
  <2>2. 2^w <= 2^k /\ 2^k \in Nat
    BY <1>1, <2>1, PowerGrows, PowerType
  <2> QED BY <1>2, <1>3, <2>2
<1>5. IsFiniteSet(0 .. w - 1) /\ Cardinality(0 .. w - 1) = w
  <2> DEFINE y == w - 1
  <2>1. y \in Int /\ 0 \in Int /\ (IF 0 > y THEN 0 ELSE y - 0 + 1) = w
    BY <1>1
  <2> HIDE DEF y, w
  <2>2. IsFiniteSet(0 .. y) /\ Cardinality(0 .. y) = IF 0 > y THEN 0 ELSE y - 0 + 1
    BY <2>1, FS_Interval
  <2> QED BY <2>1, <2>2 DEF y
<1>6. Cardinality(K) \in Nat /\ Cardinality(K) <= w
  <2> HIDE DEF K, w
  <2> QED BY <1>4, <1>5, FS_Subset, FS_CardinalityType
<1>7. Rank(p, h) = w - Cardinality(K) + 1
  BY DEF Rank, BitLength, r
<1> QED BY <1>1, <1>6, <1>7

LEMMA IndexBound ==
    ASSUME NEW p \in Precision, NEW h \in Hash
    PROVE  Index(p, h) \in 0 .. 2^p - 1
<1> DEFINE w == HashBits - p
           P == 2^p
           W == 2^w
           q == h \div W
<1>1. HashBits \in Nat /\ p \in Nat /\ w \in Nat /\ p + w = HashBits
  BY HashBitsAssumption DEF Precision
<1>2. P \in Nat \ {0} /\ W \in Nat \ {0} /\ 2^HashBits = P * W
  BY <1>1, PowerType, PowerOfSum
<1>3. h \in Nat /\ h < P * W
  <2>1. h \in 0 .. 2^HashBits - 1
    BY DEF Hash
  <2>2. 2^HashBits \in Nat
    BY <1>1, PowerType
  <2> QED BY <1>2, <2>1, <2>2
<1>4. Index(p, h) = q
  BY DEF Index
<1> HIDE DEF P, W
<1>5. q \in Int /\ q * W <= h /\ h < q * W + W
  BY <1>2, <1>3, QuotientIs
<1>6. q \in Nat
  BY <1>2, <1>3
<1> HIDE DEF q
<1>7. ~(P <= q)
  <2> SUFFICES ASSUME P <= q PROVE FALSE
    OBVIOUS
  <2>1. P * W \in Nat /\ q * W \in Nat /\ P * W <= q * W
    BY <1>2, <1>6, ProductGrows
  <2> QED BY <1>3, <1>5, <2>1
<1>8. q \in 0 .. P - 1
  BY <1>2, <1>6, <1>7
<1> QED BY <1>4, <1>8 DEF P

(* HyperLogLog.estimate(): a sketch of any value at all is not of none.    *)
LEMMA EstimatePositive ==
    ASSUME NEW p \in Precision, NEW H \in SUBSET Hash, H # {}
    PROVE  Estimate(Of(p, H)) > 0
<1>1. PICK h \in H : TRUE
  OBVIOUS
<1> DEFINE i == Index(p, h)
           f == [j \in 0 .. 2^p - 1 |-> Max(Ranks(p, H, j))]
           U == {j \in DOMAIN f : f[j] > 0}
<1>2. i \in 0 .. 2^p - 1
  BY <1>1, IndexBound
<1>3. Max(Ranks(p, H, i)) >= 1
  <2> DEFINE R == Ranks(p, H, i)
  <2>1. R \in SUBSET Int /\ R # {} /\ \A x \in R : x <= HashBits
    BY RanksBounded
  <2>2. Rank(p, h) \in R /\ Rank(p, h) >= 1 /\ HashBits \in Int
    BY <1>1, RankPositive, HashBitsAssumption DEF Ranks
  <2> HIDE DEF R
  <2>3. Max(R) \in R /\ Max(R) >= Rank(p, h)
    BY <2>1, <2>2, MaxOfBounded
  <2> QED BY <2>1, <2>2, <2>3 DEF R
<1>4. Max(Ranks(p, H, i)) \in Int
  BY RanksBounded
<1>5. i \in U /\ DOMAIN f = 0 .. 2^p - 1
  BY <1>2, <1>3, <1>4
<1>6. IsFiniteSet(0 .. 2^p - 1)
  <2>1. 2^p \in Nat
    BY PowerType, HashBitsAssumption DEF Precision
  <2>2. 0 \in Int /\ 2^p - 1 \in Int
    BY <2>1
  <2> QED BY <2>2, FS_Interval
<1>7. Estimate(Of(p, H)) = Cardinality(U)
  BY OfRegisters DEF Estimate
<1> HIDE DEF f, i
<1>8. U \in SUBSET (0 .. 2^p - 1) /\ U # {}
  BY <1>5
<1> HIDE DEF U
<1>9. IsFiniteSet(U) /\ Cardinality(U) \in Nat /\ Cardinality(U) # 0
  BY <1>6, <1>8, FS_Subset, FS_CardinalityType, FS_EmptySet
<1> QED BY <1>7, <1>9

(* g is the function that a distinct count folds with.                     *)
IsMerging(p, s, K, g) ==
    g = [T \in SUBSET K |->
           IF T = {} THEN Empty(p)
           ELSE LET x == CHOOSE x \in T : TRUE IN Merge(g[T \ {x}], s[x])]

Merged(p, s, K) == FoldSet(LAMBDA k, t : Merge(t, s[k]), Empty(p), K)

(* The values of several sketches.                                         *)
AllValues(v, T) == UNION {v[k] : k \in T}

(* _read_hll_counts(): merging the sketches of some hours makes the sketch *)
(* of the values of all of them.                                           *)
LEMMA MergedIs ==
    ASSUME NEW p \in Precision, NEW s, NEW K, IsFiniteSet(K), NEW v,
           \A k \in K : s[k] = Of(p, v[k])
    PROVE  Merged(p, s, K) = Of(p, AllValues(v, K))
<1> DEFINE ofs == [T \in SUBSET K |-> Of(p, AllValues(v, T))]
           g == CHOOSE g : IsMerging(p, s, K, g)
<1>1. Merged(p, s, K) = g[K]
  BY DEF Merged, FoldSet, MapThenFoldSet, IsMerging
<1>2. Of(p, AllValues(v, {})) = Empty(p)
  <2>1. AllValues(v, {}) = {}
    BY DEF AllValues
  <2> QED BY <2>1, OfNothing
<1>3. ASSUME NEW T \in SUBSET K, NEW x \in T
      PROVE  Of(p, AllValues(v, T)) = Merge(Of(p, AllValues(v, T \ {x})), s[x])
  <2> DEFINE G == AllValues(v, T \ {x})
             H == v[x]
  <2>1. AllValues(v, T) = G \cup H
    BY DEF AllValues
  <2>2. s[x] = Of(p, H)
    OBVIOUS
  <2> HIDE DEF G, H
  <2>3. Merge(Of(p, G), Of(p, H)) = Of(p, G \cup H)
    BY MergeOf
  <2> QED BY <2>1, <2>2, <2>3 DEF G
<1>4. IsMerging(p, s, K, ofs)
  <2>1. ASSUME NEW T \in SUBSET K, T # {}
        PROVE  Of(p, AllValues(v, T)) = LET x == CHOOSE x \in T : TRUE IN Merge(ofs[T \ {x}], s[x])
    <3> DEFINE x == CHOOSE x \in T : TRUE
    <3>1. x \in T
      BY <2>1
    <3> HIDE DEF x
    <3>2. T \ {x} \in SUBSET K
      OBVIOUS
    <3>3. Of(p, AllValues(v, T)) = Merge(ofs[T \ {x}], s[x])
      BY <1>3, <3>1, <3>2
    <3> QED BY <3>3 DEF x
  <2> QED BY <1>2, <2>1 DEF IsMerging
<1>5. IsMerging(p, s, K, g)
  BY <1>4
<1> HIDE DEF g
<1> DEFINE Same == {T \in SUBSET K : g[T] = Of(p, AllValues(v, T))}
<1>6. \A T \in SUBSET K : (\A t \in SUBSET T : t # T => t \in Same) => T \in Same
  <2> SUFFICES ASSUME NEW T \in SUBSET K, \A t \in SUBSET T : t # T => t \in Same
               PROVE  g[T] = Of(p, AllValues(v, T))
    OBVIOUS
  <2>1. CASE T = {}
    BY <1>2, <1>5, <2>1 DEF IsMerging
  <2>2. CASE T # {}
    <3> DEFINE x == CHOOSE x \in T : TRUE
    <3>1. x \in T
      BY <2>2
    <3>2. g[T] = Merge(g[T \ {x}], s[x])
      BY <1>5, <2>2 DEF IsMerging
    <3> HIDE DEF x
    <3>3. T \ {x} \in SUBSET T /\ T \ {x} # T
      BY <3>1
    <3>4. g[T \ {x}] = Of(p, AllValues(v, T \ {x}))
      BY <3>3
    <3> QED BY <1>3, <3>1, <3>2, <3>4
  <2> QED BY <2>1, <2>2
<1> HIDE DEF Same
<1>7. K \in Same
  BY <1>6, SubsetInduction
<1> QED BY <1>1, <1>7 DEF Same

(* What was recorded in some hours.                                        *)
Seen(t, K) == UNION {Values(t, k) : k \in K}

(* A distinct count is that of the sketch of the values of all its hours.  *)
LEMMA DistinctIs ==
    ASSUME ClockInv, DetailsInv, SketchesInv, NEW kind \in {"uv", "ip"},
           NEW a \in Int, NEW b \in Int,
           NEW K, K \subseteq {k \in DOMAIN sketches : k[2] = kind /\ a <= k[1] /\ k[1] <= b},
           OnePrecision(K), NEW j \in K
    PROVE  /\ sketches[j].precision \in Precision /\ Seen(recorded, K) \in SUBSET Hash
           /\ Distinct(K) = Estimate(Of(sketches[j].precision, Seen(recorded, K)))
<1> DEFINE p == sketches[j].precision
           H == Seen(recorded, K)
           c == CHOOSE k \in K : TRUE
           v == [k \in K |-> Values(recorded, k)]
<1>1. IsFiniteSet(K)
  <2>1. K \subseteq (a .. b) \X {kind}
    <3> SUFFICES ASSUME NEW k \in K PROVE k \in (a .. b) \X {kind}
      OBVIOUS
    <3>1. k \in Int \X {"uv", "ip"} /\ k[2] = kind /\ a <= k[1] /\ k[1] <= b
      BY DEF SketchesInv
    <3> QED BY <3>1
  <2>2. IsFiniteSet(a .. b) /\ IsFiniteSet({kind})
    BY FS_Interval, FS_Singleton
  <2>3. IsFiniteSet((a .. b) \X {kind})
    BY <2>2, FS_Product
  <2> QED BY <2>1, <2>3, FS_Subset
<1>2. c \in K /\ K # {}
  OBVIOUS
<1> HIDE DEF c
<1>3. \A k \in K : k \in DOMAIN sketches /\ sketches[k].precision = p
  BY DEF OnePrecision, Mergeable
<1>4. p \in Precision /\ \A k \in K : sketches[k] = Of(p, v[k])
  BY <1>3 DEF SketchesInv
<1>5. Distinct(K) = Estimate(Merged(p, sketches, K))
  <2>1. sketches[c].precision = p
    BY <1>2, <1>3
  <2> QED BY <1>2, <2>1 DEF Distinct, Merged, c
<1>6. H \in SUBSET Hash
  <2>1. ASSUME NEW k \in K PROVE v[k] \subseteq Hash
    <3>1. k[2] \in {"uv", "ip"}
      BY <1>3 DEF SketchesInv
    <3>2. \A x \in DOMAIN recorded : x.kind \in Kinds
      BY DEF DetailsInv, Event
    <3>3. \A y \in Kinds : HashOf[k[2]][y] \in Hash
      BY <3>1, StatisticsAssumption
    <3> QED BY <3>2, <3>3 DEF Values
  <2> QED BY <2>1 DEF Seen
<1>7. H = AllValues(v, K)
  BY DEF AllValues, Seen
<1> HIDE DEF v, p, H
<1>8. Merged(p, sketches, K) = Of(p, H)
  BY <1>1, <1>4, <1>7, MergedIs
<1> QED BY <1>4, <1>5, <1>6, <1>8 DEF p, H

(* A window with the sketches of an event counts somebody.                 *)
LEMMA SomebodyCounted ==
    ASSUME ClockInv, DetailsInv, SketchesInv, NEW kind \in {"uv", "ip"},
           NEW a \in Int, NEW b \in Int,
           NEW K, K \subseteq {k \in DOMAIN sketches : k[2] = kind /\ a <= k[1] /\ k[1] <= b},
           OnePrecision(K),
           NEW e \in DOMAIN recorded, <<Hour(e.minute), kind>> \in K
    PROVE  Distinct(K) > 0
<1> DEFINE j == <<Hour(e.minute), kind>>
           p == sketches[j].precision
           H == Seen(recorded, K)
<1>1. HashOf[kind][e.kind] \in Values(recorded, j)
  <2>1. j[1] = Hour(e.minute) /\ j[2] = kind
    OBVIOUS
  <2> QED BY <2>1 DEF Values
<1>2. H # {} /\ j \in K
  BY <1>1 DEF Seen
<1> HIDE DEF j
<1>3. p \in Precision /\ H \in SUBSET Hash /\ Distinct(K) = Estimate(Of(p, H))
  BY <1>2, DistinctIs
<1> HIDE DEF p, H
<1> QED BY <1>2, <1>3, EstimatePositive

-----------------------------------------------------------------------------
(* Parts of a table.                                                       *)

LEMMA TotalJoin ==
    ASSUME NEW F, NEW t, IsTable(t, F), NEW f \in F,
           NEW A \in SUBSET DOMAIN t, NEW B \in SUBSET DOMAIN t, A \cap B = {}
    PROVE  Total(t, f, A \cup B) = Total(t, f, A) + Total(t, f, B)
<1> DEFINE K == A \cup B
           g == [k \in K |-> t[k][f]]
<1>1. IsFiniteSet(A) /\ IsFiniteSet(B)
  BY FS_Subset DEF IsTable
<1>2. g \in [K -> Nat]
  BY DEF IsTable
<1>3. /\ Total(t, f, A) = Sum([k \in A |-> g[k]])
      /\ Total(t, f, B) = Sum([k \in B |-> g[k]])
      /\ Total(t, f, K) = Sum(g)
  <2>1. [k \in A |-> g[k]] = [k \in A |-> t[k][f]] /\ [k \in B |-> g[k]] = [k \in B |-> t[k][f]]
    OBVIOUS
  <2> QED BY <2>1 DEF Total
<1>4. K = A \cup B
  OBVIOUS
<1> HIDE DEF g, K
<1>5. Sum(g) = Sum([k \in A |-> g[k]]) + Sum([k \in B |-> g[k]])
  BY <1>1, <1>2, <1>4, SumJoin
<1> QED BY <1>3, <1>5 DEF K

LEMMA TotalOfLess ==
    ASSUME NEW F, NEW t, IsTable(t, F), NEW f \in F,
           NEW Q \in SUBSET DOMAIN t, NEW P \in SUBSET Q
    PROVE  Total(t, f, P) \in Nat /\ Total(t, f, Q) \in Nat /\ Total(t, f, P) <= Total(t, f, Q)
<1> DEFINE R == Q \ P
<1>1. P \in SUBSET DOMAIN t /\ R \in SUBSET DOMAIN t /\ P \cap R = {} /\ P \cup R = Q
  OBVIOUS
<1> HIDE DEF R
<1>2. Total(t, f, P \cup R) = Total(t, f, P) + Total(t, f, R)
  BY <1>1, TotalJoin
<1>3. Total(t, f, P) \in Nat
  BY <1>1, TotalType
<1>4. Total(t, f, R) \in Nat
  BY <1>1, TotalType
<1>5. Total(t, f, Q) = Total(t, f, P) + Total(t, f, R)
  BY <1>1, <1>2
<1> QED BY <1>3, <1>4, <1>5

LEMMA TotalOfNone ==
    ASSUME NEW t, NEW f
    PROVE  Total(t, f, {}) = 0
<1> DEFINE a == [k \in {} |-> t[k][f]]
<1>1. DOMAIN a = {}
  OBVIOUS
<1> HIDE DEF a
<1>2. Sum(a) = 0
  BY <1>1, SumOfNone
<1> QED BY <1>2 DEF Total, a

(* Adding counters takes nothing away.                                     *)
LEMMA TotalGrows ==
    ASSUME NEW F, NEW t, NEW r, IsTable(t, F), IsTable(r, F), NEW f \in F,
           NEW n, n = AddCounters(t, r), NEW P, P \subseteq DOMAIN n,
           NEW A, A = P \cap DOMAIN t
    PROVE  Total(t, f, A) \in Nat /\ Total(n, f, P) \in Nat /\ Total(t, f, A) <= Total(n, f, P)
<1> DEFINE B == P \cap DOMAIN r
<1>1. IsPart(n, P, t, A, r, B)
  BY DEF IsPart
<1>2. A \in SUBSET DOMAIN t /\ B \in SUBSET DOMAIN r
  OBVIOUS
<1> HIDE DEF B
<1>3. Total(n, f, P) = Total(t, f, A) + Total(r, f, B)
  BY <1>1, PartAdded
<1>4. Total(t, f, A) \in Nat /\ Total(r, f, B) \in Nat
  BY <1>2, TotalType
<1> QED BY <1>3, <1>4

(* The minutes of some dates, and the rows of a dimension on them.         *)
OnDates(t, s) == {m \in DOMAIN t : Day(m) \in s}
OfDates(t, s, d) == {k \in DOMAIN t : k[1] \in s /\ k[2] = d}

LEMMA DatesTogether ==
    ASSUME TablesInv, NEW S \in SUBSET Int, IsFiniteSet(S), \A x \in S : x >= FirstDayAt(now),
           NEW d \in Dimensions
    PROVE  Total(days, "requests", OfDates(days, S, d)) = Total(metric, "requests", OnDates(metric, S))
<1> DEFINE T == {s \in SUBSET S : Total(days, "requests", OfDates(days, s, d))
                                    = Total(metric, "requests", OnDates(metric, s))}
<1>0. /\ IsTable(days, CountFields) /\ IsTable(metric, MetricFields)
      /\ "requests" \in CountFields /\ "requests" \in MetricFields
  BY DEF TablesInv, Tables, CountFields, MetricFields
<1>1. \A s \in SUBSET S : (\A t \in SUBSET s : t # s => t \in T) => s \in T
  <2> SUFFICES ASSUME NEW s \in SUBSET S, \A t \in SUBSET s : t # s => t \in T
               PROVE  Total(days, "requests", OfDates(days, s, d))
                        = Total(metric, "requests", OnDates(metric, s))
    OBVIOUS
  <2>1. CASE s = {}
    <3>1. OfDates(days, s, d) = {} /\ OnDates(metric, s) = {}
      BY <2>1 DEF OfDates, OnDates
    <3> QED BY <3>1, TotalOfNone
  <2>2. CASE s # {}
    <3>1. PICK x \in s : TRUE
      BY <2>2
    <3> DEFINE t == s \ {x}
    <3>2. t \in SUBSET s /\ t # s /\ x \in Int /\ x >= FirstDayAt(now)
      BY <3>1
    <3>3. Total(days, "requests", OfDates(days, t, d)) = Total(metric, "requests", OnDates(metric, t))
      BY <3>2
    <3>4. /\ OfDates(days, s, d) = OfDates(days, t, d) \cup OfDimension(days, x, d)
          /\ OfDates(days, t, d) \cap OfDimension(days, x, d) = {}
          /\ OfDates(days, t, d) \in SUBSET DOMAIN days
          /\ OfDimension(days, x, d) \in SUBSET DOMAIN days
      BY <3>1 DEF OfDates, OfDimension
    <3>5. /\ OnDates(metric, s) = OnDates(metric, t) \cup OnDate(metric, x)
          /\ OnDates(metric, t) \cap OnDate(metric, x) = {}
          /\ OnDates(metric, t) \in SUBSET DOMAIN metric
          /\ OnDate(metric, x) \in SUBSET DOMAIN metric
      BY <3>1 DEF OnDates, OnDate
    <3> HIDE DEF t
    <3>6. Total(days, "requests", OfDates(days, s, d))
            = Total(days, "requests", OfDates(days, t, d))
                + Total(days, "requests", OfDimension(days, x, d))
      BY <1>0, <3>4, TotalJoin
    <3>7. Total(metric, "requests", OnDates(metric, s))
            = Total(metric, "requests", OnDates(metric, t))
                + Total(metric, "requests", OnDate(metric, x))
      BY <1>0, <3>5, TotalJoin
    <3>8. Total(days, "requests", OfDimension(days, x, d)) = Total(metric, "requests", OnDate(metric, x))
      <4>1. Total(days, "requests", OfDimension(days, x, d))
              = Total(metric, "requests", OnDate(metric, x)) + Extra(recorded, "requests", x)
        BY <1>0, <3>2 DEF TablesInv, DatesAgree
      <4>2. Extra(recorded, "requests", x) = 0
        BY DEF Extra
      <4>3. Total(metric, "requests", OnDate(metric, x)) \in Nat
        BY <1>0, <3>5, TotalType
      <4> QED BY <4>1, <4>2, <4>3
    <3> QED BY <3>3, <3>6, <3>7, <3>8
  <2> QED BY <2>1, <2>2
<1> HIDE DEF T
<1>2. \A s \in SUBSET S : s \in T
  BY <1>1, SubsetInduction
<1>3. S \in T
  BY <1>2
<1> QED BY <1>3 DEF T

-----------------------------------------------------------------------------
(* Windows and buckets.                                                    *)

LEMMA QuotientUnique ==
    ASSUME NEW a \in Int, NEW q \in Int, NEW c \in Nat \ {0}, q * c <= a, a < q * c + c
    PROVE  a \div c = q
<1> DEFINE p == a \div c
<1>1. p \in Int /\ p * c <= a /\ a < p * c + c
  BY QuotientIs
<1> HIDE DEF p
<1>2. ~(p < q)
  <2> SUFFICES ASSUME p + 1 <= q PROVE FALSE
    BY <1>1
  <2>1. (p + 1) * c <= q * c /\ (p + 1) * c = p * c + c
    BY <1>1
  <2> QED BY <1>1, <2>1
<1>3. ~(q < p)
  <2> SUFFICES ASSUME q + 1 <= p PROVE FALSE
    BY <1>1
  <2>1. (q + 1) * c <= p * c /\ (q + 1) * c = q * c + c
    BY <1>1
  <2> QED BY <1>1, <2>1
<1> QED BY <1>1, <1>2, <1>3 DEF p

(* The date of a moment some days before or after another.                 *)
LEMMA DayShift ==
    ASSUME NEW t \in Int, NEW z \in Int
    PROVE  /\ t + z * MinutesPerDay \in Int
           /\ Day(t + z * MinutesPerDay) = Day(t) + z
<1> DEFINE M == MinutesPerDay
           a == t + Offset
           q == a \div M
<1>1. M \in Nat \ {0} /\ a \in Int
  BY Lengths
<1> HIDE DEF M, a
<1>2. q \in Int /\ q * M <= a /\ a < q * M + M
  BY <1>1, QuotientIs
<1> HIDE DEF q
<1>3. z * M \in Int /\ q * M \in Int /\ (q + z) * M = q * M + z * M
  BY <1>1, <1>2
<1>4. (a + z * M) \div M = q + z
  <2> DEFINE b == a + z * M
             r == q + z
  <2>1. b \in Int /\ r \in Int /\ r * M <= b /\ b < r * M + M
    BY <1>1, <1>2, <1>3
  <2> HIDE DEF b, r
  <2>2. b \div M = r
    BY <1>1, <2>1, QuotientUnique
  <2> QED BY <2>2 DEF b, r
<1>5. t + z * M + Offset = a + z * M
  BY <1>1, <1>3, Lengths DEF a
<1> QED BY <1>3, <1>4, <1>5 DEF Day, M, a, q

LEMMA MidnightIs ==
    ASSUME NEW t \in Int
    PROVE  /\ Midnight(t) \in Int /\ Midnight(t) <= t /\ t < Midnight(t) + MinutesPerDay
           /\ Day(Midnight(t)) = Day(t)
<1> DEFINE M == MinutesPerDay
           q == Day(t)
<1>1. M \in Nat \ {0} /\ Offset \in Nat /\ t + Offset \in Int
  BY Lengths
<1>2. q \in Int /\ q * M <= t + Offset /\ t + Offset < q * M + M
  BY <1>1, QuotientIs DEF Day
<1> HIDE DEF q, M
<1>3. q * M \in Int
  BY <1>1, <1>2
<1>4. Midnight(t) = q * M - Offset
  BY DEF Midnight, q, M
<1>5. Day(Midnight(t)) = q
  <2> DEFINE b == q * M
  <2>1. b \in Int /\ q * M <= b /\ b < q * M + M
    BY <1>1, <1>3
  <2>2. Midnight(t) + Offset = b
    BY <1>1, <1>3, <1>4
  <2> HIDE DEF b
  <2>3. b \div M = q
    BY <1>1, <1>2, <2>1, QuotientUnique
  <2> QED BY <2>2, <2>3 DEF Day, M
<1> QED BY <1>1, <1>2, <1>3, <1>4, <1>5 DEF q, M

(* A midnight comes before every minute of its date and of later ones.     *)
LEMMA AfterMidnight ==
    ASSUME NEW u \in Int, u + Offset = Day(u) * MinutesPerDay,
           NEW m \in Int, Day(u) <= Day(m)
    PROVE  u <= m
<1> DEFINE M == MinutesPerDay
           p == Day(u)
           q == Day(m)
<1>1. M \in Nat \ {0} /\ Offset \in Nat /\ m + Offset \in Int /\ u + Offset \in Int
  BY Lengths
<1>2. q \in Int /\ q * M <= m + Offset /\ p \in Int
  BY <1>1, QuotientIs DEF Day
<1>3. p <= q /\ u + Offset = p * M
  OBVIOUS
<1> HIDE DEF p, q, M
<1>4. p * M <= q * M /\ p * M \in Int /\ q * M \in Int
  BY <1>1, <1>2, <1>3
<1> QED BY <1>1, <1>2, <1>3, <1>4

(* _period_range(): what a window by dates covers.                         *)
LEMMA WindowIs ==
    ASSUME NEW t \in Int, NEW period \in {"today", "yesterday", "long"},
           NEW a, a = Window(period, t).from, NEW b, b = Window(period, t).upto
    PROVE  /\ a \in Int /\ b \in Int /\ t <= b + MinutesPerDay
           /\ period # "yesterday" =>
                /\ b = t /\ FirstDayAt(b + MinutesPerDay) <= Day(a)
                /\ \A m \in Int : Day(a) <= Day(m) => a <= m
<1> DEFINE M == MinutesPerDay
           n == Midnight(t)
           L == LongDays
           X == Larger(LongDays, AnalyticsDays)
<1>0. \A u \in Int : FirstDayAt(u) = Day(u - X * M)
  BY DEF FirstDayAt
<1>1. /\ M \in Nat \ {0} /\ Offset \in Nat /\ L \in Nat \ {0} /\ X \in Nat /\ L <= X
  BY Lengths, StatisticsAssumption DEF Larger
<1>2. n \in Int /\ n <= t /\ t < n + M /\ Day(n) = Day(t) /\ Day(t) \in Int
  BY MidnightIs, DayIs
<1>3. n + Offset = Day(n) * M
  <2>1. n = Day(t) * M - Offset /\ Day(t) * M \in Int
    BY <1>1, <1>2 DEF Midnight
  <2> QED BY <1>1, <1>2, <2>1
<1>4. FirstDayAt(t + M) = Day(t) + 1 - X
  <2> DEFINE z == 1 - X
  <2>1. z \in Int /\ X * M \in Int
    BY <1>1
  <2>2. z * M = M - X * M
    BY <1>1
  <2> HIDE DEF z, X, M
  <2>3. t + M - X * M = t + z * M
    BY <1>1, <2>1, <2>2
  <2>4. Day(t + z * M) = Day(t) + z
    BY <2>1, DayShift DEF M
  <2>5. FirstDayAt(t + M) = Day(t + M - X * M)
    <3> DEFINE v == t + M
    <3>1. v \in Int
      BY <1>1
    <3> HIDE DEF v
    <3>2. FirstDayAt(v) = Day(v - X * M)
      BY <1>0, <3>1
    <3> QED BY <1>1, <2>1, <3>2 DEF v
  <2> QED BY <1>1, <1>2, <2>3, <2>4, <2>5 DEF z
<1>5. CASE period = "today"
  <2>1. a = n /\ b = t
    BY <1>5 DEF Window
  <2>2. FirstDayAt(b + M) <= Day(a)
    BY <1>1, <1>2, <1>4, <2>1
  <2>3. \A m \in Int : Day(a) <= Day(m) => a <= m
    BY <1>2, <1>3, <2>1, AfterMidnight
  <2> HIDE DEF n
  <2> QED BY <1>1, <1>2, <2>1, <2>2, <2>3
<1>6. CASE period = "yesterday"
  <2>1. a = n - M /\ b = n
    BY <1>6 DEF Window
  <2> HIDE DEF n
  <2> QED BY <1>1, <1>2, <1>6, <2>1
<1>7. CASE period = "long"
  <2> DEFINE z == 1 - L
  <2>1. a = n - (L - 1) * M /\ b = t
    BY <1>7 DEF Window
  <2>2. z \in Int /\ z * M \in Int /\ (L - 1) * M = 0 - z * M
    BY <1>1
  <2>3. a = n + z * M
    <3> HIDE DEF n, z, M
    <3> QED BY <1>1, <1>2, <2>1, <2>2
  <2> HIDE DEF z, n
  <2>4. a \in Int /\ Day(a) = Day(n) + z
    BY <1>2, <2>2, <2>3, DayShift
  <2>5. FirstDayAt(b + M) <= Day(a)
    BY <1>1, <1>2, <1>4, <2>1, <2>4 DEF z
  <2>6. a + Offset = Day(a) * M
    <3>1. (Day(n) + z) * M = Day(n) * M + z * M /\ Day(n) * M \in Int
      BY <1>1, <1>2, <2>2
    <3> QED BY <1>1, <1>2, <1>3, <2>2, <2>3, <2>4, <3>1
  <2>7. \A m \in Int : Day(a) <= Day(m) => a <= m
    BY <2>4, <2>6, AfterMidnight
  <2> QED BY <1>1, <1>2, <2>1, <2>4, <2>5, <2>7
<1> QED BY <1>5, <1>6, <1>7

(* get_trend(), get_spiders(): every minute of a window falls into a       *)
(* bucket that is shown.                                                   *)
LEMMA BucketShown ==
    ASSUME reader.from \in Int, reader.upto \in Int, NEW m \in Int, InWindow(m)
    PROVE  Bucket(m) \in Shown
<1> DEFINE c == BucketSize
           a == reader.from
           p == a \div c
           q == m \div c
<1>1. c \in Nat \ {0}
  BY Lengths DEF BucketSize
<1>2. a <= m /\ m <= reader.upto /\ a \in Int
  BY DEF InWindow
<1> HIDE DEF c, a
<1>3. p \in Int /\ q \in Int /\ p <= q /\ q * c <= m
  BY <1>1, <1>2, QuotientGrows, QuotientIs
<1>4. Bucket(m) = q * c /\ Bucket(a) = p * c
  BY DEF Bucket, c
<1> HIDE DEF p, q
<1>5. p * c \in Int /\ q * c \in Int /\ p * c <= q * c /\ (q * c) % c = 0
  BY <1>1, <1>3, MultipleRest
<1>6. q * c \in p * c .. reader.upto
  BY <1>2, <1>3, <1>5
<1> QED BY <1>4, <1>5, <1>6 DEF Shown, a, c

-----------------------------------------------------------------------------
(* The inductive invariant of a page, between any two of its SELECTs.      *)

(* Every minute with a row is that of an event, and none is to come.       *)
PastInv ==
    /\ \A e \in DOMAIN recorded : e.minute <= now
    /\ \A m \in DOMAIN metric : \E e \in DOMAIN recorded : e.minute = m
    /\ \A k \in DOMAIN spiders \cup DOMAIN days : k[1] \in Int
    /\ \A k \in DOMAIN days : k[2] \in {"ip", "uri"} => k[3] \in Int

Reading == reader.page # None
ByDate == reader.period # "yesterday"

(* The window holds all minutes of its dates that are past, and all of     *)
(* those dates outlast the page.                                           *)
WindowInv ==
    Reading =>
        /\ reader.page \in Pages
        /\ reader.from \in Int /\ reader.upto \in Int
        /\ now <= reader.upto + MinutesPerDay
        /\ ByDate =>
            /\ FirstDayAt(reader.upto + MinutesPerDay) <= Day(reader.from)
            /\ reader.upto <= now
            /\ \A m \in Int : Day(reader.from) <= Day(m) => reader.from <= m
            /\ reader.quiet => \A m \in DOMAIN metric : m <= reader.upto

(* Which of two queries is asked first.                                    *)
Compared == {<<"totals", "trend">>, <<"totals", "uri">>, <<"uri", "ip">>,
             <<"spiders", "spiderTrend">>}
Order == Compared \cup {<<"totals", "unique">>}

InOrder(todo) ==
    \A i, j \in 1 .. Len(todo) : i < j => <<todo[j], todo[i]>> \notin Order

AskedFirst(todo, got) ==
    \A q \in got, i \in 1 .. Len(todo) : <<todo[i], q>> \notin Order

Questions == {"totals", "unique", "latest", "trend", "trendUnique", "spiders",
            "spiderTrend"} \cup Dimensions

ReaderInv ==
    /\ DOMAIN reader = {"page", "period", "from", "upto", "todo", "got", "quiet"}
    /\ reader.quiet \in BOOLEAN
    /\ reader.todo \in Seq(Questions)
    /\ InOrder(reader.todo)
    /\ AskedFirst(reader.todo, DOMAIN reader.got)
    /\ ~Reading => reader = Nobody

(* The queries for a number; those by date, unless of yesterday.           *)
Rankings == {"uri", "ip"}
Numbers == {"totals", "trend", "spiders", "spiderTrend"}
            \cup (IF ByDate THEN Rankings ELSE {})

(* The number a page has read, and the number it would read now.           *)
Read(q) ==
    IF q \in {"totals"} \cup Rankings THEN reader.got[q].requests ELSE reader.got[q]

(* A ranking may have been cut; the numbers it shows are then less.        *)
Whole(q) == q \in Rankings => ~reader.got[q].cut

Current(q) ==
    IF q \in Rankings THEN Total(days, "requests", DayKeys(q))
    ELSE IF q \in {"spiders", "spiderTrend"} THEN Total(spiders, "requests", SpiderKeys)
    ELSE Total(metric, "requests", MetricRows)

(* What has been read is still there, and nothing else while it is quiet.  *)
NumbersInv ==
    \A q \in Numbers \cap DOMAIN reader.got :
        /\ Read(q) \in Nat /\ Read(q) <= Current(q)
        /\ reader.quiet /\ Whole(q) => Read(q) = Current(q)

GrowsFrom(q, r) ==
    {q, r} \subseteq Numbers \cap DOMAIN reader.got /\ Whole(r) => Read(q) <= Read(r)

PairsInv == \A c \in Compared : GrowsFrom(c[1], c[2])

VisitorsInv ==
    {"totals", "unique"} \subseteq DOMAIN reader.got /\ Read("totals") > 0
      => reader.got["unique"].uv > 0 /\ reader.got["unique"].ip > 0

PageInv ==
    PastInv /\ ReaderInv /\ WindowInv /\ NumbersInv /\ PairsInv /\ VisitorsInv

-----------------------------------------------------------------------------
(* The rows of a batch and of a cleanup, by their minutes and dates.       *)

LEMMA PastRecorded ==
    ASSUME StatisticsInv, PastInv, NEW b, NEW kept, Recordable(b, kept), Record(b, kept)
    PROVE  PastInv'
<1> DEFINE D == DOMAIN b
           minutes == MinuteRows(b)
           robots == SpiderRows(b)
           dates == DimensionRows(b)
<1>1. /\ IsBatch(b) /\ \A i \in D : b[i].minute <= now
  BY DEF Recordable
<1>2. \A i \in D : b[i].minute \in Int
  BY <1>1, BatchFinite, Lengths DEF Event
<1>3. DOMAIN recorded' = DOMAIN recorded \cup Keys(D, b)
  BY RecordDetails DEF StatisticsInv
<1>4. DOMAIN metric' = DOMAIN metric \cup Keys(D, MinuteOf(b))
  <2> DEFINE m == metric'
  <2>1. m = AddCounters(metric, minutes)
    BY DEF Record
  <2>2. DOMAIN minutes = Keys(D, MinuteOf(b))
    BY <1>1, MinuteRowsIs
  <2> HIDE DEF minutes, m
  <2>3. DOMAIN m = DOMAIN metric \cup DOMAIN minutes
    BY <2>1, AddedKeys
  <2> QED BY <2>2, <2>3 DEF m
<1>5. /\ DOMAIN spiders' = DOMAIN spiders \cup DOMAIN robots
      /\ \A k \in DOMAIN robots : k[1] \in Int
  <2>1. spiders' = AddCounters(spiders, robots)
    BY DEF Record
  <2>2. \A k \in DOMAIN robots : k[1] \in Keys(D, MinuteOf(b))
    BY <1>1, SpiderRowsIs
  <2>3. Keys(D, MinuteOf(b)) \subseteq Int
    BY <1>2 DEF Keys, MinuteOf
  <2> HIDE DEF robots
  <2> QED BY <2>1, <2>2, <2>3, AddedKeys
<1>6. /\ DOMAIN days' = DOMAIN days \cup DOMAIN dates
      /\ \A k \in DOMAIN dates : k[1] \in Int
      /\ \A k \in DOMAIN dates : k[2] \in {"ip", "uri"} => k[3] \in Int
  <2>1. days' = AddCounters(days, dates)
    BY DEF Record
  <2>2. \A i \in D : Day(b[i].minute) \in Int
    BY <1>2, DayIs
  <2>3. \A k \in DOMAIN dates : \E d \in Dimensions, i \in D :
                                  k = <<Day(b[i].minute), d, ValueOf(d, b[i])>>
    BY DEF DimensionRows
  <2>4. \A k \in DOMAIN dates : \E i \in D : k[1] = Day(b[i].minute)
    BY <2>3
  <2>5. ASSUME NEW k \in DOMAIN dates, k[2] \in {"ip", "uri"} PROVE k[3] \in Int
    <3>1. PICK d \in Dimensions, i \in D : k = <<Day(b[i].minute), d, ValueOf(d, b[i])>>
      BY <2>3
    <3>2. b[i].kind \in Kinds
      BY <1>1, BatchFinite DEF Event
    <3>3. k[3] = b[i].kind[d] /\ d \in {"ip", "uri"}
      BY <2>5, <3>1 DEF ValueOf
    <3> QED BY <3>2, <3>3, StatisticsAssumption
  <2> HIDE DEF dates
  <2> QED BY <2>1, <2>2, <2>4, <2>5, AddedKeys
<1> HIDE DEF minutes, robots, dates
<1>7. \A e \in DOMAIN recorded' : e.minute <= now'
  <2>1. now' = now
    BY DEF Record
  <2> QED BY <1>1, <1>3, <2>1 DEF Keys, PastInv
<1>8. \A m \in DOMAIN metric' : \E e \in DOMAIN recorded' : e.minute = m
  <2> TAKE m \in DOMAIN metric'
  <2>1. CASE m \in DOMAIN metric
    BY <1>3, <2>1 DEF PastInv
  <2>2. CASE m \in Keys(D, MinuteOf(b))
    <3>1. PICK i \in D : m = b[i].minute
      BY <2>2 DEF Keys, MinuteOf
    <3>2. b[i] \in DOMAIN recorded'
      BY <1>3 DEF Keys
    <3> QED BY <3>1, <3>2
  <2> QED BY <1>4, <2>1, <2>2
<1>9. \A k \in DOMAIN spiders' \cup DOMAIN days' : k[1] \in Int
  BY <1>5, <1>6 DEF PastInv
<1>10. \A k \in DOMAIN days' : k[2] \in {"ip", "uri"} => k[3] \in Int
  BY <1>6 DEF PastInv
<1> QED BY <1>7, <1>8, <1>9, <1>10 DEF PastInv

(* A page that is neither asked nor left goes on.                          *)
SamePage ==
    \A f \in {"page", "period", "from", "upto", "todo", "got"} : reader'[f] = reader[f]

LEMMA SamePageReads ==
    ASSUME SamePage
    PROVE  /\ Reading' <=> Reading
           /\ ByDate' <=> ByDate
           /\ Numbers' = Numbers
           /\ \A q : Read(q)' = Read(q) /\ (Whole(q)' <=> Whole(q))
           /\ \A m : InWindow(m)' <=> InWindow(m)
<1>1. /\ reader'.page = reader.page /\ reader'.period = reader.period
      /\ reader'.from = reader.from /\ reader'.upto = reader.upto
      /\ reader'.got = reader.got
  BY DEF SamePage
<1> QED BY <1>1 DEF Reading, ByDate, Numbers, Rankings, Read, Whole, InWindow

(* The numbers a page would read are those of its window.                  *)
LEMMA CurrentType ==
    ASSUME StatisticsInv, NEW q
    PROVE  Current(q) \in Nat
<1>1. /\ IsTable(metric, MetricFields) /\ IsTable(spiders, CountFields)
      /\ IsTable(days, CountFields)
      /\ "requests" \in MetricFields /\ "requests" \in CountFields
  BY DEF StatisticsInv, TablesInv, Tables, MetricFields, CountFields
<1>2. MetricRows \in SUBSET DOMAIN metric /\ SpiderKeys \in SUBSET DOMAIN spiders
      /\ DayKeys(q) \in SUBSET DOMAIN days
  BY DEF MetricRows, SpiderKeys, DayKeys
<1>3. Total(metric, "requests", MetricRows) \in Nat
  BY <1>1, <1>2, TotalType
<1>4. Total(spiders, "requests", SpiderKeys) \in Nat
  BY <1>1, <1>2, TotalType
<1>5. Total(days, "requests", DayKeys(q)) \in Nat
  BY <1>1, <1>2, TotalType
<1> QED BY <1>3, <1>4, <1>5 DEF Current

(* A batch takes nothing away from them.                                   *)
LEMMA CurrentGrows ==
    ASSUME StatisticsInv, NEW b, NEW kept, Recordable(b, kept), Record(b, kept), SamePage,
           NEW q
    PROVE  Current(q) \in Nat /\ Current(q)' \in Nat /\ Current(q) <= Current(q)'
<1> DEFINE m == metric'
           s == spiders'
           d == days'
           minutes == MinuteRows(b)
           robots == SpiderRows(b)
           dates == DimensionRows(b)
           M == MetricRows'
           S == SpiderKeys'
           D == DayKeys(q)'
<1>1. /\ m = AddCounters(metric, minutes) /\ s = AddCounters(spiders, robots)
      /\ d = AddCounters(days, dates)
  BY DEF Record
<1>2. /\ IsTable(metric, MetricFields) /\ IsTable(spiders, CountFields)
      /\ IsTable(days, CountFields)
      /\ "requests" \in MetricFields /\ "requests" \in CountFields
  BY DEF StatisticsInv, TablesInv, Tables, MetricFields, CountFields
<1>3. /\ IsTable(minutes, MetricFields) /\ IsTable(robots, CountFields)
      /\ IsTable(dates, CountFields)
  BY MinuteRowsIs, SpiderRowsIs, DimensionRowsIs DEF Recordable
<1>4. /\ DOMAIN m = DOMAIN metric \cup DOMAIN minutes
      /\ DOMAIN s = DOMAIN spiders \cup DOMAIN robots
      /\ DOMAIN d = DOMAIN days \cup DOMAIN dates
  <2> HIDE DEF m, s, d, minutes, robots, dates
  <2>1. DOMAIN m = DOMAIN metric \cup DOMAIN minutes
    BY <1>1, AddedKeys
  <2>2. DOMAIN s = DOMAIN spiders \cup DOMAIN robots
    BY <1>1, AddedKeys
  <2>3. DOMAIN d = DOMAIN days \cup DOMAIN dates
    BY <1>1, AddedKeys
  <2> QED BY <2>1, <2>2, <2>3
<1> HIDE DEF minutes, robots, dates
<1>5. /\ reader'.from = reader.from /\ reader'.upto = reader.upto
  BY DEF SamePage
<1>6. M \subseteq DOMAIN m /\ MetricRows = M \cap DOMAIN metric
  BY <1>4, <1>5 DEF MetricRows, InWindow
<1>7. S \subseteq DOMAIN s /\ SpiderKeys = S \cap DOMAIN spiders
  BY <1>4, <1>5 DEF SpiderKeys, InWindow
<1>8. D \subseteq DOMAIN d /\ DayKeys(q) = D \cap DOMAIN days
  BY <1>4, <1>5 DEF DayKeys
<1>9. /\ Current(q) = IF q \in Rankings THEN Total(days, "requests", DayKeys(q))
                      ELSE IF q \in {"spiders", "spiderTrend"}
                      THEN Total(spiders, "requests", SpiderKeys)
                      ELSE Total(metric, "requests", MetricRows)
      /\ Current(q)' = IF q \in Rankings THEN Total(d, "requests", D)
                       ELSE IF q \in {"spiders", "spiderTrend"}
                       THEN Total(s, "requests", S)
                       ELSE Total(m, "requests", M)
  BY DEF Current, Total
<1> HIDE DEF m, s, d, M, S, D
<1>10. /\ Total(metric, "requests", MetricRows) \in Nat /\ Total(m, "requests", M) \in Nat
       /\ Total(metric, "requests", MetricRows) <= Total(m, "requests", M)
  BY <1>1, <1>2, <1>3, <1>6, TotalGrows
<1>11. /\ Total(spiders, "requests", SpiderKeys) \in Nat /\ Total(s, "requests", S) \in Nat
       /\ Total(spiders, "requests", SpiderKeys) <= Total(s, "requests", S)
  BY <1>1, <1>2, <1>3, <1>7, TotalGrows
<1>12. /\ Total(days, "requests", DayKeys(q)) \in Nat /\ Total(d, "requests", D) \in Nat
       /\ Total(days, "requests", DayKeys(q)) <= Total(d, "requests", D)
  BY <1>1, <1>2, <1>3, <1>8, TotalGrows
<1> QED BY <1>9, <1>10, <1>11, <1>12

-----------------------------------------------------------------------------
(* What two queries of a page say of each other.                           *)

(* _read_hll_counts(): a window with requests has sketches to count.       *)
LEMMA SomebodyThere ==
    ASSUME StatisticsInv, PastInv, reader.from \in Int, reader.upto \in Int,
           Current("totals") > 0, NEW kind \in {"uv", "ip"}, OnePrecision(SketchKeys(kind))
    PROVE  Distinct(SketchKeys(kind)) > 0
<1>1. MetricRows # {}
  <2> SUFFICES ASSUME MetricRows = {} PROVE FALSE
    OBVIOUS
  <2>1. Total(metric, "requests", MetricRows) = 0
    BY TotalOfNone
  <2> QED BY <2>1 DEF Current, Rankings
<1>2. PICK e \in DOMAIN recorded : InWindow(e.minute)
  BY <1>1 DEF MetricRows, PastInv
<1> DEFINE c == MinutesPerHour
           m == e.minute
           h == Hour(m)
           a == Hour(reader.from)
           z == reader.upto
<1>3. c \in Nat \ {0} /\ m \in Int /\ reader.from \in Int /\ z \in Int
      /\ reader.from <= m /\ m <= z
  BY <1>2, Lengths DEF InWindow, StatisticsInv, DetailsInv, Event
<1>4. a \in Int /\ h \in Int /\ a <= h /\ h <= m
  <2> DEFINE p == reader.from \div c
             q == m \div c
  <2>1. p \in Int /\ q \in Int /\ p <= q /\ q * c <= m
    BY <1>3, QuotientGrows, QuotientIs
  <2>2. a = p * c /\ h = q * c
    BY DEF Hour
  <2> HIDE DEF p, q, a, h, c, m
  <2>3. p * c \in Int /\ q * c \in Int /\ p * c <= q * c
    BY <1>3, <2>1
  <2> QED BY <2>1, <2>2, <2>3
<1> DEFINE K == SketchKeys(kind)
<1>5. <<h, kind>> \in K
  <2>1. <<h, kind>> \in DOMAIN sketches
    BY DEF StatisticsInv, SketchesInv
  <2>2. <<h, kind>>[1] = h /\ <<h, kind>>[2] = kind
    OBVIOUS
  <2>3. a <= h /\ h <= z
    <3> HIDE DEF a, h, m, z
    <3> QED BY <1>3, <1>4
  <2> QED BY <2>1, <2>2, <2>3 DEF SketchKeys
<1>6. K \subseteq {k \in DOMAIN sketches : k[2] = kind /\ a <= k[1] /\ k[1] <= z}
  BY DEF SketchKeys
<1>7. OnePrecision(K)
  OBVIOUS
<1> HIDE DEF K, a, z
<1>8. ClockInv /\ DetailsInv /\ SketchesInv
  BY DEF StatisticsInv
<1>9. Distinct(K) > 0
  BY <1>3, <1>4, <1>5, <1>6, <1>7, <1>8, SomebodyCounted
<1> QED BY <1>9 DEF K

(* What a query of a number answers is the number it would read now.       *)
(* A ranking shows some of the requests of its dates, and all of them when *)
(* it has a row for every value.                                           *)
LEMMA RankingFits ==
    ASSUME StatisticsInv, PastInv, reader.page \in Pages, NEW q \in Rankings
    PROVE  /\ Ranking(q).requests \in Nat
           /\ Ranking(q).requests <= Current(q)
           /\ ~Ranking(q).cut => Ranking(q).requests = Current(q)
<1> DEFINE K == DayKeys(q)
           V == Ranked(q)
           limit == RankLimit[reader.page]
           P == {k \in K : k[3] \in Top(q)}
<1>1. IsTable(days, CountFields) /\ "requests" \in CountFields /\ limit \in Nat
  BY StatisticsAssumption DEF StatisticsInv, TablesInv, Tables, CountFields
<1>2. K \in SUBSET DOMAIN days /\ P \in SUBSET K
  BY DEF DayKeys
<1>3. IsFiniteSet(V)
  <2> DEFINE value == [k \in K |-> k[3]]
  <2>1. IsFiniteSet(K)
    BY <1>1, <1>2, FS_Subset DEF IsTable
  <2>2. V = Keys(K, value)
    BY DEF Ranked, Keys
  <2> HIDE DEF K, value, V
  <2> QED BY <2>1, <2>2, KeysFinite
<1>4. \A v \in V : v \in Int
  BY DEF Ranked, DayKeys, Rankings, PastInv
<1>5. Ranking(q).requests = Total(days, "requests", P)
      /\ (Ranking(q).cut <=> Cardinality(V) > limit)
  BY DEF Ranking
<1>6. Current(q) = Total(days, "requests", K)
  BY DEF Current
<1>7. ASSUME ~(Cardinality(V) > limit) PROVE P = K
  <2> SUFFICES ASSUME NEW k \in K PROVE k[3] \in Top(q)
    OBVIOUS
  <2> DEFINE v == k[3]
             above == {w \in V : Outranks(q, w, v)}
  <2>1. v \in V
    BY DEF Ranked
  <2>2. ~Outranks(q, v, v)
    <3>1. {j \in DayKeys(q) : j[3] = v} \in SUBSET DOMAIN days
      BY <1>2
    <3>2. RequestsOf(q, v) \in Nat
      BY <1>1, <3>1, TotalType DEF RequestsOf
    <3>3. v \in Int
      BY <1>4, <2>1
    <3> HIDE DEF v
    <3> QED BY <3>2, <3>3 DEF Outranks
  <2>3. Top(q) = {x \in V : Cardinality({w \in V : Outranks(q, w, x)}) < limit}
    BY DEF Top
  <2> HIDE DEF V, v
  <2>4. above \in SUBSET (V \ {v})
    BY <2>2
  <2>5. IsFiniteSet(V \ {v}) /\ Cardinality(V \ {v}) = Cardinality(V) - 1
    BY <1>3, <2>1, FS_RemoveElement
  <2>6. Cardinality(above) <= Cardinality(V \ {v}) /\ IsFiniteSet(above)
    BY <2>4, <2>5, FS_Subset
  <2>7. Cardinality(above) \in Nat /\ Cardinality(V) \in Nat
    BY <1>3, <2>6, FS_CardinalityType
  <2>8. Cardinality(above) < limit
    BY <1>1, <1>7, <2>5, <2>6, <2>7
  <2> QED BY <2>1, <2>3, <2>8 DEF v
<1> HIDE DEF K, P
<1>8. /\ Total(days, "requests", P) \in Nat
      /\ Total(days, "requests", P) <= Total(days, "requests", K)
  BY <1>1, <1>2, TotalOfLess
<1> QED BY <1>5, <1>6, <1>7, <1>8

LEMMA AnswerIsCurrent ==
    ASSUME StatisticsInv, PastInv, reader.from \in Int, reader.upto \in Int,
           NEW q \in {"totals", "trend", "spiders", "spiderTrend"}
    PROVE  (IF q = "totals" THEN Answer(q).requests ELSE Answer(q)) = Current(q)
<1>1. CASE q = "totals"
  BY <1>1 DEF Answer, Current, Rankings
<1>2. CASE q = "trend"
  <2>1. \A m \in DOMAIN metric : m \in Int
    BY Lengths DEF StatisticsInv, TablesInv, Tables
  <2>2. {m \in MetricRows : Bucket(m) \in Shown} = MetricRows
    BY <2>1, BucketShown DEF MetricRows
  <2>3. Answer("trend") = Total(metric, "requests", {m \in MetricRows : Bucket(m) \in Shown})
    BY DEF Answer
  <2> QED BY <1>2, <2>2, <2>3 DEF Current, Rankings
<1>3. CASE q = "spiders"
  BY <1>3 DEF Answer, Current, Rankings
<1>4. CASE q = "spiderTrend"
  <2>1. {k \in SpiderKeys : Bucket(k[1]) \in Shown} = SpiderKeys
    BY BucketShown DEF SpiderKeys, PastInv
  <2>2. Answer("spiderTrend")
          = Total(spiders, "requests", {k \in SpiderKeys : Bucket(k[1]) \in Shown})
    BY DEF Answer
  <2> QED BY <1>4, <2>1, <2>2 DEF Current, Rankings
<1> QED BY <1>1, <1>2, <1>3, <1>4

(* A ranking by date counts at least the minutes of the window, and just   *)
(* those while nothing is recorded after it.                               *)
LEMMA RankingIs ==
    ASSUME StatisticsInv, PastInv, WindowInv, Reading, ByDate, NEW q \in Rankings
    PROVE  /\ Current(q) = Total(metric, "requests",
                                 OnDates(metric, Day(reader.from) .. Day(reader.upto)))
           /\ Current("totals") <= Current(q)
           /\ reader.quiet => Current("totals") = Current(q)
<1> DEFINE f == Day(reader.from)
           u == Day(reader.upto)
           S == f .. u
           P == MetricRows
           Q == OnDates(metric, S)
<1>1. /\ reader.from \in Int /\ reader.upto \in Int /\ now \in Int
      /\ f \in Int /\ u \in Int
      /\ now <= reader.upto + MinutesPerDay
      /\ FirstDayAt(reader.upto + MinutesPerDay) <= f
      /\ \A m \in Int : f <= Day(m) => reader.from <= m
      /\ reader.quiet => \A m \in DOMAIN metric : m <= reader.upto
  BY DayIs, Lengths DEF WindowInv, StatisticsInv, ClockInv
<1>2. S \in SUBSET Int /\ IsFiniteSet(S) /\ \A x \in S : x >= FirstDayAt(now)
  <2> DEFINE v == reader.upto + MinutesPerDay
  <2>1. v \in Int /\ now <= v
    BY <1>1, Lengths
  <2>2. FirstDayAt(now) \in Int /\ FirstDayAt(v) \in Int /\ FirstDayAt(now) <= FirstDayAt(v)
    BY <1>1, <2>1, FirstDayGrows
  <2>3. FirstDayAt(v) <= f
    BY <1>1
  <2> HIDE DEF v, f, u
  <2>4. IsFiniteSet(S)
    BY <1>1, FS_Interval
  <2> QED BY <1>1, <2>2, <2>3, <2>4
<1>3. DayKeys(q) = OfDates(days, S, q)
  BY <1>1 DEF DayKeys, OfDates, PastInv
<1>4. q \in Dimensions /\ TablesInv
  BY DEF Rankings, Dimensions, StatisticsInv
<1>5. \A m \in DOMAIN metric : m \in Int /\ Day(m) \in Int
  BY DayIs, Lengths DEF StatisticsInv, TablesInv, Tables
<1>6. P \in SUBSET Q /\ Q \in SUBSET DOMAIN metric
  <2>1. ASSUME NEW m \in P PROVE m \in Q
    <3>1. m \in DOMAIN metric /\ m \in Int /\ reader.from <= m /\ m <= reader.upto
      BY <1>5 DEF MetricRows, InWindow
    <3>2. f <= Day(m)
      BY <1>1, <3>1, DayIs
    <3>3. Day(m) <= u
      BY <1>1, <3>1, DayIs
    <3> HIDE DEF f, u
    <3> QED BY <1>1, <1>5, <3>1, <3>2, <3>3 DEF OnDates
  <2> QED BY <2>1 DEF OnDates
<1>7. reader.quiet => P = Q
  <2> SUFFICES ASSUME reader.quiet, NEW m \in Q PROVE m \in P
    BY <1>6
  <2>1. m \in DOMAIN metric /\ m \in Int /\ f <= Day(m)
    BY <1>5 DEF OnDates
  <2> QED BY <1>1, <2>1 DEF MetricRows, InWindow
<1>8. IsTable(metric, MetricFields) /\ "requests" \in MetricFields
  BY DEF StatisticsInv, TablesInv, Tables, MetricFields
<1>9. Current("totals") = Total(metric, "requests", P)
  BY DEF Current, Rankings
<1>10. Current(q) = Total(days, "requests", OfDates(days, S, q))
  BY <1>3 DEF Current
<1> HIDE DEF S, P, Q
<1>11. Total(days, "requests", OfDates(days, S, q)) = Total(metric, "requests", OnDates(metric, S))
  BY <1>2, <1>4, DatesTogether
<1>12. Total(metric, "requests", P) <= Total(metric, "requests", Q)
  BY <1>6, <1>8, TotalOfLess
<1>13. Current(q) = Total(metric, "requests", Q)
  BY <1>10, <1>11 DEF Q
<1> QED BY <1>7, <1>9, <1>12, <1>13 DEF Q, S

LEMMA CurrentPairs ==
    ASSUME StatisticsInv, PastInv, WindowInv, Reading, NEW c \in Compared,
           {c[1], c[2]} \subseteq Numbers
    PROVE  /\ Current(c[1]) <= Current(c[2])
           /\ reader.quiet => Current(c[1]) = Current(c[2])
<1>0. \A q : Current(q) \in Nat
  BY CurrentType
<1>1. CASE c = <<"totals", "trend">>
  <2>1. Current("totals") = Current("trend")
    BY DEF Current, Rankings
  <2> QED BY <1>0, <1>1, <2>1
<1>2. CASE c = <<"totals", "uri">>
  <2>1. ByDate
    BY <1>2 DEF Numbers
  <2>2. "uri" \in Rankings
    BY DEF Rankings
  <2> QED BY <1>2, <2>1, <2>2, RankingIs
<1>3. CASE c = <<"uri", "ip">>
  <2>1. ByDate
    BY <1>3 DEF Numbers
  <2>2. "uri" \in Rankings /\ "ip" \in Rankings
    BY DEF Rankings
  <2>3. Current("uri") = Current("ip")
    BY <2>1, <2>2, RankingIs
  <2> QED BY <1>0, <1>3, <2>3
<1>4. CASE c = <<"spiders", "spiderTrend">>
  <2>1. Current("spiders") = Current("spiderTrend")
    BY DEF Current, Rankings
  <2> QED BY <1>0, <1>4, <2>1
<1> QED BY <1>1, <1>2, <1>3, <1>4 DEF Compared

(* The queries of each page, the numbers of a pair in their order.         *)
LEMMA OverviewInOrder ==
    ASSUME NEW s, s = Overview \o Trend
    PROVE  s \in Seq(Questions) /\ InOrder(s)
<1>1. Overview \in Seq(Questions) /\ Trend \in Seq(Questions)
  BY DEF Overview, Trend, Questions
<1>2. Len(s) = 5 /\ s[1] = "totals" /\ s[2] = "unique" /\ s[3] = "latest"
      /\ s[4] = "trend" /\ s[5] = "trendUnique"
  BY DEF Overview, Trend
<1>3. s \in Seq(Questions)
  BY <1>1
<1>4. \A i \in 1 .. 5 : i = 1 \/ i = 2 \/ i = 3 \/ i = 4 \/ i = 5
  OBVIOUS
<1>5. ASSUME NEW i \in 1 .. 5, NEW j \in 1 .. 5, i < j
      PROVE  <<s[j], s[i]>> \notin Order
  BY <1>2, <1>4, <1>5 DEF Order, Compared
<1> QED BY <1>2, <1>3, <1>5 DEF InOrder

LEMMA ReportsInOrder ==
    ASSUME NEW s, s = Overview \o <<"uri", "ip">> \o Trend
    PROVE  s \in Seq(Questions) /\ InOrder(s)
<1>1. /\ Overview \in Seq(Questions) /\ Trend \in Seq(Questions)
      /\ <<"uri", "ip">> \in Seq(Questions)
  BY DEF Overview, Trend, Questions, Dimensions
<1>2. Len(s) = 7 /\ s[1] = "totals" /\ s[2] = "unique" /\ s[3] = "latest"
      /\ s[4] = "uri" /\ s[5] = "ip" /\ s[6] = "trend" /\ s[7] = "trendUnique"
  BY DEF Overview, Trend
<1>3. s \in Seq(Questions)
  BY <1>1
<1>4. \A i \in 1 .. 7 : i = 1 \/ i = 2 \/ i = 3 \/ i = 4 \/ i = 5 \/ i = 6 \/ i = 7
  OBVIOUS
<1>5. ASSUME NEW i \in 1 .. 7, NEW j \in 1 .. 7, i < j
      PROVE  <<s[j], s[i]>> \notin Order
  BY <1>2, <1>4, <1>5 DEF Order, Compared
<1> QED BY <1>2, <1>3, <1>5 DEF InOrder

LEMMA ShortInOrder ==
    ASSUME NEW s \in {<<"totals", "unique">>, <<"spiders", "spiderTrend">>,
                      <<"browser", "system", "device">>, <<"ip">>, <<"uri">>}
    PROVE  s \in Seq(Questions) /\ InOrder(s)
<1>1. CASE s = <<"totals", "unique">>
  BY <1>1 DEF Questions, InOrder, Order, Compared
<1>2. CASE s = <<"spiders", "spiderTrend">>
  BY <1>2 DEF Questions, InOrder, Order, Compared
<1>3. CASE s = <<"browser", "system", "device">>
  BY <1>3 DEF Questions, Dimensions, InOrder, Order, Compared
<1>4. CASE s = <<"ip">>
  BY <1>4 DEF Questions, Dimensions, InOrder, Order, Compared
<1>5. CASE s = <<"uri">>
  BY <1>5 DEF Questions, Dimensions, InOrder, Order, Compared
<1> QED BY <1>1, <1>2, <1>3, <1>4, <1>5

LEMMA QueriesInOrder ==
    ASSUME NEW page \in Pages, NEW s, s = Queries[page]
    PROVE  s \in Seq(Questions) /\ InOrder(s)
<1>1. page \in {"overview", "sites", "spiders", "clients", "ip", "uri", "reports"}
  BY StatisticsAssumption
<1>2. CASE page = "overview"
  <2>1. s = Overview \o Trend
    BY <1>2 DEF Queries
  <2> QED BY <2>1, OverviewInOrder
<1>3. CASE page = "reports"
  <2>1. s = Overview \o <<"uri", "ip">> \o Trend
    BY <1>3 DEF Queries
  <2> QED BY <2>1, ReportsInOrder
<1>4. CASE page \in {"sites", "spiders", "clients", "ip", "uri"}
  <2>1. s \in {<<"totals", "unique">>, <<"spiders", "spiderTrend">>,
               <<"browser", "system", "device">>, <<"ip">>, <<"uri">>}
    BY <1>4 DEF Queries
  <2> QED BY <2>1, ShortInOrder
<1> QED BY <1>1, <1>2, <1>3, <1>4

-----------------------------------------------------------------------------
(* The page invariant holds.                                               *)

(* Nobody reads: at first, and after every page.                           *)
Idle == reader = Nobody

LEMMA IdlePage == PastInv /\ Idle => PageInv
<1> SUFFICES ASSUME PastInv, Idle PROVE PageInv
  OBVIOUS
<1>1. /\ reader.page = None /\ reader.todo = <<>> /\ reader.got = <<>>
      /\ reader.quiet = TRUE
      /\ DOMAIN reader = {"page", "period", "from", "upto", "todo", "got", "quiet"}
  BY DEF Idle, Nobody
<1>2. ~Reading /\ DOMAIN reader.got = {} /\ Len(reader.todo) = 0
      /\ reader.todo \in Seq(Questions)
  BY <1>1 DEF Reading
<1>3. WindowInv
  BY <1>2 DEF WindowInv
<1>4. ReaderInv
  <2>1. InOrder(reader.todo)
    BY <1>2 DEF InOrder
  <2>2. AskedFirst(reader.todo, DOMAIN reader.got)
    BY <1>2 DEF AskedFirst
  <2> QED BY <1>1, <1>2, <2>1, <2>2 DEF ReaderInv, Idle
<1>5. NumbersInv /\ PairsInv /\ VisitorsInv
  BY <1>2 DEF NumbersInv, PairsInv, GrowsFrom, VisitorsInv
<1> QED BY <1>3, <1>4, <1>5 DEF PageInv

LEMMA IdlePageNext == PastInv' /\ reader' = Nobody => PageInv'
<1>1. PastInv' /\ Idle' => PageInv'
  BY IdlePage, PTL
<1>2. reader' = Nobody => Idle'
  BY DEF Idle, Nobody
<1> QED BY <1>1, <1>2

(* What is said of an answer goes on while it is not asked again.          *)
LEMMA AnswersStay ==
    ASSUME PairsInv, VisitorsInv, SamePage
    PROVE  PairsInv' /\ VisitorsInv'
<1>1. reader'.got = reader.got
  BY DEF SamePage
<1>2. Numbers' = Numbers /\ \A q : Read(q)' = Read(q) /\ (Whole(q)' <=> Whole(q))
  BY SamePageReads
<1>3. PairsInv'
  <2>1. \A q, r : GrowsFrom(q, r) => GrowsFrom(q, r)'
    BY <1>1, <1>2 DEF GrowsFrom
  <2> QED BY <2>1 DEF PairsInv, Compared
<1>4. VisitorsInv'
  BY <1>1, <1>2 DEF VisitorsInv
<1> QED BY <1>3, <1>4

LEMMA PageRecorded ==
    ASSUME StatisticsInv, PageInv, NEW b, NEW kept, Recordable(b, kept), Record(b, kept)
    PROVE  PageInv'
<1>0. PastInv /\ ReaderInv /\ WindowInv /\ NumbersInv /\ PairsInv /\ VisitorsInv
  BY DEF PageInv
<1>1. PastInv'
  BY <1>0, PastRecorded
<1>2. /\ reader' = [reader EXCEPT !.quiet = reader.page = None] /\ now' = now
      /\ DOMAIN reader = {"page", "period", "from", "upto", "todo", "got", "quiet"}
  BY <1>0 DEF Record, ReaderInv
<1>3. CASE ~Reading
  <2>1. reader = Nobody
    BY <1>0, <1>3 DEF ReaderInv
  <2>2. Nobody.page = None
    BY DEF Nobody
  <2>3. reader' = [Nobody EXCEPT !.quiet = TRUE]
    BY <1>2, <2>1, <2>2
  <2>4. reader' = Nobody
    BY <2>3 DEF Nobody
  <2> QED BY <1>1, <2>4, IdlePageNext
<1>4. CASE Reading
  <2>1. SamePage /\ reader'.quiet = FALSE /\ DOMAIN reader' = DOMAIN reader
    BY <1>2, <1>4 DEF SamePage, Reading
  <2>2. /\ Reading' /\ (ByDate' <=> ByDate) /\ Numbers' = Numbers
        /\ \A q : Read(q)' = Read(q)
        /\ reader'.from = reader.from /\ reader'.upto = reader.upto
        /\ reader'.todo = reader.todo /\ reader'.got = reader.got
    BY <1>4, <2>1, SamePageReads DEF SamePage
  <2>3. ReaderInv'
    BY <1>0, <2>1, <2>2 DEF ReaderInv
  <2>4. WindowInv'
    BY <1>0, <1>2, <1>4, <2>1, <2>2 DEF WindowInv
  <2>5. NumbersInv'
    <3> SUFFICES ASSUME NEW q \in Numbers \cap DOMAIN reader.got
                 PROVE  Read(q)' \in Nat /\ Read(q)' <= Current(q)'
      BY <2>1, <2>2 DEF NumbersInv
    <3>1. Read(q) \in Nat /\ Read(q) <= Current(q)
      BY <1>0 DEF NumbersInv
    <3>2. Current(q) \in Nat /\ Current(q)' \in Nat /\ Current(q) <= Current(q)'
      BY <2>1, CurrentGrows
    <3>3. Read(q)' = Read(q)
      BY <2>2
    <3> QED BY <3>1, <3>2, <3>3
  <2>6. PairsInv' /\ VisitorsInv'
    BY <1>0, <2>1, AnswersStay
  <2> QED BY <1>1, <2>3, <2>4, <2>5, <2>6 DEF PageInv
<1> QED BY <1>3, <1>4

(* The cleanup leaves every date that a page shows.                        *)
LEMMA PageCleaned ==
    ASSUME StatisticsInv, PageInv, Cleanup
    PROVE  PageInv'
<1> DEFINE L == {k \in DOMAIN days : k[1] >= FirstDay}
<1>0. PastInv /\ ReaderInv /\ WindowInv /\ NumbersInv /\ PairsInv /\ VisitorsInv
  BY DEF PageInv
<1>1. /\ days' = [k \in L |-> days[k]]
      /\ UNCHANGED <<now, precision, recorded, metric, spiders, sketches, reader>>
  BY DEF Cleanup, RestrictDomain, Restrict
<1>2. DOMAIN days' = L /\ \A k \in L : days'[k] = days[k]
  BY <1>1
<1>3. PastInv'
  BY <1>0, <1>1, <1>2 DEF PastInv
<1>4. ReaderInv' /\ WindowInv'
  BY <1>0, <1>1 DEF ReaderInv, WindowInv, Reading, ByDate
<1>5. SamePage
  BY <1>1 DEF SamePage
<1>6. ASSUME NEW q \in Numbers, Reading PROVE Current(q)' = Current(q)
  <2>1. CASE q \in Rankings
    <3> DEFINE v == reader.upto + MinutesPerDay
    <3>1. ByDate
      BY <2>1 DEF Numbers, Rankings
    <3>2. /\ reader.from \in Int /\ v \in Int /\ now \in Int /\ now <= v
          /\ FirstDayAt(v) <= Day(reader.from)
      BY <1>0, <1>6, <3>1, Lengths DEF WindowInv, StatisticsInv, ClockInv
    <3> HIDE DEF v
    <3>3. /\ FirstDayAt(now) \in Int /\ FirstDayAt(v) \in Int
          /\ FirstDayAt(now) <= FirstDayAt(v)
      BY <3>2, FirstDayGrows
    <3>4. Day(reader.from) \in Int /\ FirstDay = FirstDayAt(now)
      BY <3>2, DayIs DEF FirstDay, FirstDayAt
    <3>5. \A k \in DayKeys(q) : k \in L
      BY <1>0, <3>2, <3>3, <3>4 DEF DayKeys, PastInv
    <3>6. DayKeys(q)' = DayKeys(q)
      BY <1>1, <1>2, <3>5 DEF DayKeys
    <3>7. Total(days', "requests", DayKeys(q)) = Total(days, "requests", DayKeys(q))
      BY <1>2, <3>5, TotalLeft
    <3>8. Current(q)' = Total(days', "requests", DayKeys(q)')
      BY <2>1 DEF Current, Total
    <3> QED BY <2>1, <3>6, <3>7, <3>8 DEF Current
  <2>2. CASE q \notin Rankings
    BY <1>1, <2>2 DEF Current, Total, SpiderKeys, MetricRows, InWindow
  <2> QED BY <2>1, <2>2
<1>7. NumbersInv'
  <2>1. Numbers' = Numbers /\ \A q : Read(q)' = Read(q) /\ (Whole(q)' <=> Whole(q))
    BY <1>5, SamePageReads
  <2>2. CASE Reading
    BY <1>0, <1>1, <1>6, <2>1, <2>2 DEF NumbersInv
  <2>3. CASE ~Reading
    <3>1. DOMAIN reader'.got = {}
      BY <1>0, <1>1, <2>3 DEF ReaderInv, Nobody
    <3> QED BY <3>1 DEF NumbersInv
  <2> QED BY <2>2, <2>3
<1>8. PairsInv' /\ VisitorsInv'
  BY <1>0, <1>5, AnswersStay
<1> QED BY <1>3, <1>4, <1>7, <1>8 DEF PageInv

(* Time passes, and a page is read in time.                                *)
LEMMA PageTicks ==
    ASSUME StatisticsInv, PageInv, Tick
    PROVE  PageInv'
<1>0. PastInv /\ ReaderInv /\ WindowInv /\ NumbersInv /\ PairsInv /\ VisitorsInv
  BY DEF PageInv
<1>1. /\ now' = now + 1 /\ UNCHANGED <<tables, reader>>
      /\ Reading => now < reader.upto + MinutesPerDay
  BY DEF Tick, ReadInTime, Reading
<1>2. now \in Int /\ MinutesPerDay \in Nat
  BY Lengths DEF StatisticsInv, ClockInv
<1>3. PastInv'
  <2>1. \A e \in DOMAIN recorded : e.minute \in Int
    BY Lengths DEF StatisticsInv, DetailsInv, Event
  <2>2. \A e \in DOMAIN recorded : e.minute <= now'
    BY <1>0, <1>1, <1>2, <2>1 DEF PastInv
  <2> QED BY <1>0, <1>1, <2>2 DEF PastInv, tables
<1>4. WindowInv'
  <2> SUFFICES ASSUME Reading PROVE WindowInv'
    BY <1>1 DEF WindowInv, Reading
  <2>1. /\ reader.from \in Int /\ reader.upto \in Int
        /\ now' <= reader.upto + MinutesPerDay
    BY <1>0, <1>1, <1>2 DEF WindowInv
  <2>2. ByDate => reader.upto <= now'
    BY <1>0, <1>1, <1>2, <2>1 DEF WindowInv
  <2> QED BY <1>0, <1>1, <2>1, <2>2 DEF WindowInv, Reading, ByDate, tables
<1>5. SamePage
  BY <1>1 DEF SamePage
<1>6. NumbersInv'
  <2>1. Numbers' = Numbers /\ \A q : Read(q)' = Read(q) /\ (Whole(q)' <=> Whole(q))
    BY <1>5, SamePageReads
  <2>2. \A q : Current(q)' = Current(q)
    BY <1>1 DEF Current, Total, SpiderKeys, MetricRows, DayKeys, InWindow, tables
  <2> QED BY <1>0, <1>1, <2>1, <2>2 DEF NumbersInv
<1>7. ReaderInv'
  BY <1>0, <1>1 DEF ReaderInv, Reading
<1>8. PairsInv' /\ VisitorsInv'
  BY <1>0, <1>5, AnswersStay
<1> QED BY <1>3, <1>4, <1>6, <1>7, <1>8 DEF PageInv

LEMMA PageStays ==
    ASSUME PageInv, UNCHANGED <<now, tables, reader>>
    PROVE  PageInv'
<1>0. PastInv /\ ReaderInv /\ WindowInv /\ NumbersInv /\ PairsInv /\ VisitorsInv
  BY DEF PageInv
<1>1. PastInv' /\ ReaderInv' /\ WindowInv'
  BY <1>0 DEF PastInv, ReaderInv, WindowInv, Reading, ByDate, tables
<1>2. SamePage
  BY DEF SamePage
<1>3. NumbersInv'
  <2>1. Numbers' = Numbers /\ \A q : Read(q)' = Read(q) /\ (Whole(q)' <=> Whole(q))
    BY <1>2, SamePageReads
  <2>2. \A q : Current(q)' = Current(q)
    BY DEF Current, Total, SpiderKeys, MetricRows, DayKeys, InWindow, tables
  <2> QED BY <1>0, <2>1, <2>2 DEF NumbersInv
<1>4. PairsInv' /\ VisitorsInv'
  BY <1>0, <1>2, AnswersStay
<1> QED BY <1>1, <1>3, <1>4 DEF PageInv

(* No minute of a date is to come when its page is asked for.              *)
LEMMA PageAsked ==
    ASSUME StatisticsInv, PageInv, Ask
    PROVE  PageInv'
<1>0. PastInv /\ UNCHANGED <<now, tables>>
  BY DEF PageInv, Ask
<1>1. PICK page \in Pages, period \in {"today", "yesterday", "long"} :
        reader' = [page |-> page, period |-> period, from |-> Window(period, now).from,
                   upto |-> Window(period, now).upto, todo |-> Queries[page],
                   got |-> <<>>, quiet |-> TRUE]
  BY DEF Ask
<1> DEFINE a == Window(period, now).from
           z == Window(period, now).upto
           s == Queries[page]
<1>2. /\ reader'.page = page /\ reader'.period = period /\ reader'.from = a
      /\ reader'.upto = z /\ reader'.todo = s /\ reader'.got = <<>>
      /\ reader'.quiet = TRUE
      /\ DOMAIN reader' = {"page", "period", "from", "upto", "todo", "got", "quiet"}
  BY <1>1
<1>3. page # None
  BY StatisticsAssumption
<1>4. Reading' /\ (ByDate' <=> period # "yesterday") /\ DOMAIN reader'.got = {}
  BY <1>2, <1>3 DEF Reading, ByDate
<1>5. PastInv'
  BY <1>0 DEF PastInv, tables
<1>6. ReaderInv'
  <2>1. s \in Seq(Questions) /\ InOrder(s)
    BY QueriesInOrder
  <2> HIDE DEF s
  <2> QED BY <1>2, <1>4, <2>1 DEF ReaderInv, AskedFirst
<1>7. WindowInv'
  <2>1. now \in Int
    BY Lengths DEF StatisticsInv, ClockInv
  <2>2. /\ a \in Int /\ z \in Int /\ now <= z + MinutesPerDay
        /\ period # "yesterday" =>
             /\ z = now /\ FirstDayAt(z + MinutesPerDay) <= Day(a)
             /\ \A m \in Int : Day(a) <= Day(m) => a <= m
    BY <2>1, WindowIs
  <2>3. \A m \in DOMAIN metric : m <= now
    BY <1>0 DEF PastInv
  <2> HIDE DEF a, z
  <2> QED BY <1>0, <1>2, <1>4, <2>1, <2>2, <2>3 DEF WindowInv, tables
<1>8. NumbersInv' /\ PairsInv' /\ VisitorsInv'
  BY <1>4 DEF NumbersInv, PairsInv, GrowsFrom, VisitorsInv
<1> QED BY <1>5, <1>6, <1>7, <1>8 DEF PageInv

LEMMA PageLeft ==
    ASSUME PageInv, Leave
    PROVE  PageInv'
<1>1. PastInv'
  BY DEF PageInv, Leave, PastInv, tables
<1> QED BY <1>1, IdlePageNext DEF Leave

(* One SELECT: its answer is what the tables hold at that moment, so that  *)
(* it fits those that were read before.                                    *)
LEMMA PageSelected ==
    ASSUME StatisticsInv, PageInv, Select
    PROVE  PageInv'
<1> DEFINE s == reader.todo
           old == DOMAIN reader.got
<1> PICK q : q = Head(s)
  OBVIOUS
<1>0. PastInv /\ ReaderInv /\ WindowInv /\ NumbersInv /\ PairsInv /\ VisitorsInv
  BY DEF PageInv
<1>1. /\ s # <<>> /\ ~Raises(q) /\ UNCHANGED <<now, tables>>
      /\ reader' = [reader EXCEPT !.todo = Tail(s),
                                  !.got = [x \in old \cup {q} |->
                                             IF x = q THEN Answer(q) ELSE reader.got[x]]]
  BY DEF Select
<1>2. DOMAIN reader = {"page", "period", "from", "upto", "todo", "got", "quiet"}
  BY <1>0 DEF ReaderInv
<1>3. /\ reader'.page = reader.page /\ reader'.period = reader.period
      /\ reader'.from = reader.from /\ reader'.upto = reader.upto
      /\ reader'.quiet = reader.quiet /\ reader'.todo = Tail(s)
      /\ DOMAIN reader'.got = old \cup {q} /\ DOMAIN reader' = DOMAIN reader
      /\ reader'.got[q] = Answer(q)
      /\ \A x \in old : x # q => reader'.got[x] = reader.got[x]
  BY <1>1, <1>2
<1>4. Reading
  BY <1>0, <1>1 DEF ReaderInv, Nobody
<1>5. /\ s \in Seq(Questions) /\ Len(s) \in Nat /\ Len(s) > 0 /\ q = s[1]
      /\ Tail(s) \in Seq(Questions) /\ Len(Tail(s)) = Len(s) - 1
      /\ \A i \in 1 .. Len(s) - 1 : Tail(s)[i] = s[i + 1]
  BY <1>0, <1>1 DEF ReaderInv
<1>6. /\ Reading' /\ (ByDate' <=> ByDate) /\ Numbers' = Numbers
      /\ \A x : Current(x)' = Current(x)
  BY <1>1, <1>3, <1>4
     DEF Reading, ByDate, Numbers, Rankings, Current, Total, SpiderKeys, MetricRows,
         DayKeys, InWindow, tables
<1>7. \A x \in old : x # q => Read(x)' = Read(x) /\ (Whole(x)' <=> Whole(x))
  BY <1>3 DEF Read, Whole, Rankings
<1>8. \A x \in old : <<q, x>> \notin Order
  <2>1. 1 \in 1 .. Len(s)
    BY <1>5
  <2> QED BY <1>0, <1>5, <2>1 DEF ReaderInv, AskedFirst
<1>9. reader.from \in Int /\ reader.upto \in Int /\ reader.page \in Pages
  BY <1>0, <1>4 DEF WindowInv
<1>11. \A x : Current(x) \in Nat
  BY CurrentType
<1>10. ASSUME q \in Numbers
       PROVE  /\ Read(q)' \in Nat /\ Read(q)' <= Current(q)
              /\ Whole(q)' => Read(q)' = Current(q)
  <2>1. CASE q \in Rankings
    <3>1. Read(q)' = Answer(q).requests /\ (Whole(q)' <=> ~Answer(q).cut)
      BY <1>3, <2>1 DEF Read, Whole, Rankings
    <3>2. Answer(q) = Ranking(q)
      BY <2>1 DEF Answer, Rankings
    <3> QED BY <1>0, <1>9, <2>1, <3>1, <3>2, RankingFits
  <2>2. CASE q \in {"totals", "trend", "spiders", "spiderTrend"}
    <3>1. Read(q)' = IF q = "totals" THEN Answer(q).requests ELSE Answer(q)
      BY <1>3, <2>2 DEF Read, Rankings
    <3>2. (IF q = "totals" THEN Answer(q).requests ELSE Answer(q)) = Current(q)
      BY <1>0, <1>9, <2>2, AnswerIsCurrent
    <3> QED BY <1>11, <3>1, <3>2
  <2> QED BY <1>10, <2>1, <2>2 DEF Numbers
<1>12. PastInv'
  BY <1>0, <1>1 DEF PastInv, tables
<1>13. WindowInv'
  BY <1>0, <1>1, <1>3, <1>4 DEF WindowInv, Reading, ByDate, tables
<1>14. ReaderInv'
  <2>1. InOrder(Tail(s))
    <3> SUFFICES ASSUME NEW i \in 1 .. Len(s) - 1, NEW j \in 1 .. Len(s) - 1, i < j
                 PROVE  <<s[j + 1], s[i + 1]>> \notin Order
      BY <1>5 DEF InOrder
    <3>1. i + 1 \in 1 .. Len(s) /\ j + 1 \in 1 .. Len(s) /\ i + 1 < j + 1
      BY <1>5
    <3> QED BY <1>0, <3>1 DEF ReaderInv, InOrder
  <2>2. AskedFirst(Tail(s), old \cup {q})
    <3> SUFFICES ASSUME NEW x \in old \cup {q}, NEW i \in 1 .. Len(s) - 1
                 PROVE  <<s[i + 1], x>> \notin Order
      BY <1>5 DEF AskedFirst
    <3>1. 1 \in 1 .. Len(s) /\ i + 1 \in 1 .. Len(s) /\ 1 < i + 1
      BY <1>5
    <3>2. CASE x = q
      BY <1>0, <1>5, <3>1, <3>2 DEF ReaderInv, InOrder
    <3>3. CASE x \in old
      BY <1>0, <3>1, <3>3 DEF ReaderInv, AskedFirst
    <3> QED BY <3>2, <3>3
  <2> HIDE DEF s, old
  <2> QED BY <1>0, <1>2, <1>3, <1>5, <1>6, <2>1, <2>2 DEF ReaderInv
<1> HIDE DEF s, old
<1>15. NumbersInv'
  <2> SUFFICES ASSUME NEW x \in Numbers, x \in old \cup {q}
               PROVE  /\ Read(x)' \in Nat /\ Read(x)' <= Current(x)
                      /\ reader.quiet /\ Whole(x)' => Read(x)' = Current(x)
    BY <1>3, <1>6 DEF NumbersInv
  <2>1. CASE x = q
    BY <1>10, <1>11, <2>1
  <2>2. CASE x \in old /\ x # q
    <3>1. /\ Read(x) \in Nat /\ Read(x) <= Current(x)
          /\ reader.quiet /\ Whole(x) => Read(x) = Current(x)
      BY <1>0, <2>2 DEF NumbersInv, old
    <3>2. Read(x)' = Read(x) /\ (Whole(x)' <=> Whole(x))
      BY <1>7, <2>2
    <3> QED BY <3>1, <3>2
  <2> QED BY <2>1, <2>2
<1>16. PairsInv'
  <2> SUFFICES ASSUME NEW c \in Compared, c[1] \in Numbers, c[2] \in Numbers,
                      c[1] \in old \cup {q}, c[2] \in old \cup {q}, Whole(c[2])'
               PROVE  Read(c[1])' <= Read(c[2])'
    BY <1>3, <1>6 DEF PairsInv, GrowsFrom
  <2>1. c \in Order /\ c = <<c[1], c[2]>> /\ c[1] # c[2]
    BY DEF Order, Compared
  <2>2. CASE c[1] = q
    BY <1>8, <2>1, <2>2
  <2>3. CASE c[2] = q
    <3>1. c[1] \in old /\ c[1] # q
      BY <2>1, <2>3
    <3>2. Read(c[1])' = Read(c[1]) /\ Read(c[2])' = Current(c[2])
      <4>1. Whole(q)' /\ q \in Numbers
        BY <2>3
      <4>2. Read(q)' = Current(q)
        BY <1>10, <4>1
      <4> QED BY <1>7, <2>3, <3>1, <4>2
    <3>3. Read(c[1]) \in Nat /\ Read(c[1]) <= Current(c[1])
      BY <1>0, <3>1 DEF NumbersInv, old
    <3>4. Current(c[1]) <= Current(c[2])
      BY <1>0, <1>4, CurrentPairs
    <3>5. Current(c[1]) \in Nat /\ Current(c[2]) \in Nat
      BY <1>11
    <3> QED BY <3>2, <3>3, <3>4, <3>5
  <2>4. CASE c[1] # q /\ c[2] # q
    <3>1. c[1] \in old /\ c[2] \in old
      BY <2>4
    <3>0. Whole(c[2])
      BY <1>7, <2>4, <3>1
    <3>2. Read(c[1]) <= Read(c[2])
      BY <1>0, <3>0, <3>1 DEF PairsInv, GrowsFrom, old
    <3> QED BY <1>7, <2>4, <3>1, <3>2
  <2> QED BY <2>2, <2>3, <2>4
<1>17. VisitorsInv'
  <2> SUFFICES ASSUME "totals" \in old \cup {q}, "unique" \in old \cup {q},
                      Read("totals")' > 0
               PROVE  reader'.got["unique"].uv > 0 /\ reader'.got["unique"].ip > 0
    BY <1>3 DEF VisitorsInv
  <2>1. <<"totals", "unique">> \in Order /\ "totals" \in Numbers
    BY DEF Order, Numbers
  <2>2. CASE q = "totals"
    BY <1>8, <2>1, <2>2
  <2>3. CASE q = "unique"
    <3>1. "totals" \in old /\ "totals" # q
      BY <2>3
    <3>2. Read("totals") \in Nat /\ Read("totals") <= Current("totals") /\ Read("totals") > 0
      BY <1>0, <1>7, <2>1, <3>1 DEF NumbersInv, old
    <3>3. Current("totals") > 0
      BY <1>11, <3>2
    <3>4. \A k \in {"uv", "ip"} : OnePrecision(SketchKeys(k))
      BY <1>1, <2>3 DEF Raises
    <3>5. Distinct(SketchKeys("uv")) > 0
      BY <1>0, <1>9, <3>3, <3>4, SomebodyThere
    <3>6. Distinct(SketchKeys("ip")) > 0
      BY <1>0, <1>9, <3>3, <3>4, SomebodyThere
    <3>7. Answer("unique") = [k \in {"uv", "ip"} |-> Distinct(SketchKeys(k))]
      BY DEF Answer
    <3>8. /\ Answer("unique").uv = Distinct(SketchKeys("uv"))
          /\ Answer("unique").ip = Distinct(SketchKeys("ip"))
      BY <3>7
    <3> QED BY <1>3, <2>3, <3>5, <3>6, <3>8
  <2>4. CASE q # "totals" /\ q # "unique"
    <3>1. "totals" \in old /\ "unique" \in old
      BY <2>4
    <3>2. Read("totals")' = Read("totals") /\ reader'.got["unique"] = reader.got["unique"]
      BY <1>3, <1>7, <2>4, <3>1
    <3> QED BY <1>0, <3>1, <3>2 DEF VisitorsInv, old
  <2> QED BY <2>2, <2>3, <2>4
<1> QED BY <1>12, <1>13, <1>14, <1>15, <1>16, <1>17 DEF PageInv

LEMMA PageInitially == Init => PageInv
<1> SUFFICES ASSUME Init PROVE PageInv
  OBVIOUS
<1>1. /\ DOMAIN recorded = {} /\ DOMAIN metric = {} /\ DOMAIN spiders = {}
      /\ DOMAIN days = {}
  BY DEF Init
<1>2. PastInv
  BY <1>1 DEF PastInv
<1>3. Idle
  BY DEF Init, Idle
<1> QED BY <1>2, <1>3, IdlePage

LEMMA PageStep == StatisticsInv /\ PageInv /\ [Next]_vars => PageInv'
<1> SUFFICES ASSUME StatisticsInv, PageInv, [Next]_vars PROVE PageInv'
  OBVIOUS
<1>1. CASE RecordLive
  BY <1>1, LiveIs, PageRecorded
<1>2. CASE RecordImported
  BY <1>2, ImportedIs, PageRecorded
<1>3. CASE Cleanup
  BY <1>3, PageCleaned
<1>4. CASE Tick
  BY <1>4, PageTicks
<1>5. CASE Reconfigure
  BY <1>5, PageStays DEF Reconfigure
<1>6. CASE Ask
  BY <1>6, PageAsked
<1>7. CASE Select
  BY <1>7, PageSelected
<1>8. CASE Leave
  BY <1>8, PageLeft
<1>9. CASE UNCHANGED vars
  BY <1>9, PageStays DEF vars
<1> QED BY <1>1, <1>2, <1>3, <1>4, <1>5, <1>6, <1>7, <1>8, <1>9 DEF Next

LEMMA PageInvHolds == Spec => []PageInv
<1>1. StatisticsInv /\ PageInv /\ [Next]_vars => PageInv'
  BY PageStep
<1> QED BY <1>1, PageInitially, StatisticsInvHolds, PTL DEF Spec

-----------------------------------------------------------------------------
(* The theorems.                                                           *)

(* The tables stay within their types: counters are of minutes that were   *)
(* reached, the list of requests holds recorded events only, and a sketch  *)
(* has as many registers as its precision says, of ranks that fit.         *)
THEOREM TypeCorrect == Spec => []TypeOK
<1>1. StatisticsInv => TypeOK
  <2> SUFFICES ASSUME StatisticsInv PROVE TypeOK
    OBVIOUS
  <2>1. now \in 0 .. MaxMinute /\ precision \in Precisions
    BY Lengths DEF StatisticsInv, ClockInv
  <2>2. Sum(recorded) \in 0 .. MaxEvents
    <3>1. Sum(recorded) \in Nat
      BY SumType DEF StatisticsInv, DetailsInv, IsCount
    <3> QED BY <3>1, Lengths DEF StatisticsInv, DetailsInv
  <2>3. DOMAIN recorded \subseteq Event /\ DOMAIN details \subseteq DOMAIN recorded
    BY DEF StatisticsInv, DetailsInv
  <2>4. DOMAIN metric \subseteq 0 .. MaxMinute
    BY DEF StatisticsInv, TablesInv, Tables
  <2>5. ASSUME NEW k \in DOMAIN sketches
        PROVE  /\ k[1] % MinutesPerHour = 0 /\ k[2] \in {"uv", "ip"}
               /\ sketches[k].registers \in [0 .. 2^sketches[k].precision - 1 -> 0 .. HashBits]
    <3> DEFINE p == sketches[k].precision
               H == Values(recorded, k)
    <3>1. /\ k \in Int \X {"uv", "ip"} /\ k[1] % MinutesPerHour = 0
          /\ p \in Precision /\ sketches[k] = Of(p, H)
      BY DEF StatisticsInv, SketchesInv
    <3> HIDE DEF p, H
    <3>2. Of(p, H).registers = [i \in 0 .. 2^p - 1 |-> Max(Ranks(p, H, i))]
      BY OfRegisters
    <3>3. \A i : Max(Ranks(p, H, i)) \in 0 .. HashBits
      BY <3>1, RanksBounded
    <3>4. Of(p, H).registers \in [0 .. 2^p - 1 -> 0 .. HashBits]
      BY <3>2, <3>3
    <3>5. sketches[k].registers = Of(p, H).registers
      BY <3>1
    <3> QED BY <3>1, <3>4, <3>5 DEF p
  <2> QED BY <2>1, <2>2, <2>3, <2>4, <2>5 DEF TypeOK
<1> QED BY <1>1, StatisticsInvHolds, PTL

(* The tables of minutes, spiders and days tell the same story, after any  *)
(* batches, cleanups and restarts: record_batch() adds to all of them.     *)
(* Their errors differ by the requests with a status from 600.             *)
THEOREM OneStory == Spec => []TablesAgree
<1>1. StatisticsInv => TablesAgree
  <2> SUFFICES ASSUME StatisticsInv PROVE TablesAgree
    OBVIOUS
  <2>1. Total(metric, "requests", DOMAIN metric) = Sum(recorded)
    BY DEF StatisticsInv, TablesInv, AllMinutes
  <2>2. \A m \in DOMAIN metric :
          Total(spiders, "requests", {k \in DOMAIN spiders : k[1] = m}) = metric[m].bots
    BY DEF StatisticsInv, TablesInv, BotsAgree, OfMinute, Cell
  <2>3. \A m \in DOMAIN metric : Day(m) \in Int
    BY DayIs, Lengths DEF StatisticsInv, TablesInv, Tables
  <2>4. ASSUME NEW day \in KeptDays, NEW d \in Dimensions
        PROVE  /\ OfDay(d, "requests", day) = OfMinutes("requests", day)
               /\ OfDay(d, "errors", day) = OfMinutes("errors", day) + Beyond(day)
    <3>1. day \in Int /\ day >= FirstDayAt(now)
      BY <2>3 DEF FirstDay, FirstDayAt, KeptDays
    <3>2. ASSUME NEW field \in CountFields
          PROVE  OfDay(d, field, day) = OfMinutes(field, day) + Extra(recorded, field, day)
      <4>1. Total(days, field, OfDimension(days, day, d))
              = Total(metric, field, OnDate(metric, day)) + Extra(recorded, field, day)
        BY <3>1 DEF StatisticsInv, TablesInv, DatesAgree
      <4> QED BY <4>1 DEF OfDay, OfMinutes, OfDimension, OnDate
    <3>3. Beyond(day) = BeyondOf(recorded, day)
      BY DEF Beyond, BeyondOf, RestrictDomain
    <3>4. OfMinutes("requests", day) \in Nat
      <4>1. IsTable(metric, MetricFields) /\ OnDate(metric, day) \in SUBSET DOMAIN metric
            /\ "requests" \in MetricFields
        BY DEF StatisticsInv, TablesInv, Tables, OnDate, MetricFields
      <4>2. Total(metric, "requests", OnDate(metric, day)) \in Nat
        BY <4>1, TotalType
      <4> QED BY <4>2 DEF OfMinutes, OnDate
    <3>5. /\ Extra(recorded, "requests", day) = 0
          /\ Extra(recorded, "errors", day) = Beyond(day)
      BY <3>3 DEF Extra
    <3> QED BY <3>2, <3>4, <3>5 DEF CountFields
  <2> QED BY <2>1, <2>2, <2>4 DEF TablesAgree
<1> QED BY <1>1, StatisticsInvHolds, PTL

(* A stored sketch is that of the values recorded in its hour, whatever    *)
(* the batches they came in, and of one precision (_store_hll()).          *)
THEOREM SketchesOfTheirHours == Spec => []SketchesExact
<1>1. StatisticsInv => SketchesExact
  BY DEF StatisticsInv, SketchesInv, SketchesExact, Values
<1> QED BY <1>1, StatisticsInvHolds, PTL

(* The list of requests loses only what the settings or the import no      *)
(* longer keep, and counts nothing twice (cleanup_details()).              *)
THEOREM DetailsStay == Spec => []DetailsKept
<1>1. StatisticsInv => DetailsKept
  BY DEF StatisticsInv, DetailsInv, DetailsKept, Young, Keeping, ListedFor,
         ImportedFor
<1> QED BY <1>1, StatisticsInvHolds, PTL

(* The numbers of a page fit together, however batches, cleanups and       *)
(* restarts fall between its SELECTs: a later number includes an earlier   *)
(* one and equals it while nothing is recorded, unless a ranking is cut at *)
(* its limit and shows less; and requests come with visitors and addresses *)
(* (get_overview(), get_rank()).                                           *)
THEOREM PagesFit == Spec => []PagesAddUp
<1>1. StatisticsInv /\ PageInv => PagesAddUp
  <2> SUFFICES ASSUME StatisticsInv, PageInv PROVE PagesAddUp
    OBVIOUS
  <2>0. PastInv /\ ReaderInv /\ WindowInv /\ NumbersInv /\ PairsInv /\ VisitorsInv
    BY DEF PageInv
  <2>1. RequestsHaveVisitors
    BY <2>0 DEF RequestsHaveVisitors, VisitorsInv, Read, Has
  <2>2. ASSUME NEW c \in Compared, Has({c[1], c[2]}), {c[1], c[2]} \subseteq Numbers
        PROVE  /\ Whole(c[2]) => Read(c[1]) <= Read(c[2])
               /\ reader.quiet /\ Whole(c[1]) => Read(c[2]) <= Read(c[1])
    <3>1. c[1] \in Numbers \cap DOMAIN reader.got /\ c[2] \in Numbers \cap DOMAIN reader.got
      BY <2>2 DEF Has
    <3>2. Whole(c[2]) => Read(c[1]) <= Read(c[2])
      BY <2>0, <3>1 DEF PairsInv, GrowsFrom
    <3>3. Reading
      BY <2>0, <3>1 DEF ReaderInv, Nobody
    <3>4. /\ reader.quiet /\ Whole(c[1]) => Read(c[1]) = Current(c[1])
          /\ Read(c[2]) <= Current(c[2])
      BY <2>0, <3>1 DEF NumbersInv
    <3>5. reader.quiet => Current(c[1]) = Current(c[2])
      BY <2>0, <2>2, <3>3, CurrentPairs
    <3> QED BY <3>2, <3>4, <3>5
  <2>3. \A c \in Compared : Agree(c[1], c[2])
    <3> SUFFICES ASSUME NEW c \in Compared, Has({c[1], c[2]}),
                        ByDate \/ {c[1], c[2]} \cap {"ip", "uri"} = {}
                 PROVE  /\ Whole(c[2]) => Read(c[1]) <= Read(c[2])
                        /\ reader.quiet /\ Whole(c[1]) => Read(c[2]) <= Read(c[1])
      BY DEF Agree, Read, ByDate, Whole, Rankings
    <3>1. {c[1], c[2]} \subseteq Numbers
      <4>1. CASE ByDate
        BY <4>1 DEF Compared, Numbers, Rankings
      <4>2. CASE {c[1], c[2]} \cap {"ip", "uri"} = {}
        <5>1. c[2] # "uri" /\ c[2] # "ip"
          BY <4>2
        <5>2. c = <<"totals", "trend">> \/ c = <<"spiders", "spiderTrend">>
          BY <5>1 DEF Compared
        <5> QED BY <5>2 DEF Numbers
      <4> QED BY <4>1, <4>2
    <3> QED BY <2>2, <3>1
  <2>4. /\ Agree("totals", "trend") /\ Agree("totals", "uri") /\ Agree("uri", "ip")
        /\ Agree("spiders", "spiderTrend")
    BY <2>3 DEF Compared
  <2> QED BY <2>1, <2>4 DEF PagesAddUp
<1> QED BY <1>1, StatisticsInvHolds, PageInvHolds, PTL

(* Visitors and addresses of a window are counted once each, in however    *)
(* many hours and batches they came (_read_hll_counts()).                  *)
THEOREM CountedOnce == Spec => []VisitorsCountedOnce
<1>1. StatisticsInv /\ PageInv => VisitorsCountedOnce
  <2> SUFFICES ASSUME StatisticsInv, PageInv, Reading, ~Raises("unique"),
                      NEW kind \in {"uv", "ip"}, NEW j \in DOMAIN sketches,
                      j \in SketchKeys(kind)
               PROVE  Distinct(SketchKeys(kind))
                        = Estimate(Of(sketches[j].precision,
                             {HashOf[kind][e.kind] :
                                e \in {x \in DOMAIN recorded :
                                        /\ Hour(reader.from) <= Hour(x.minute)
                                        /\ Hour(x.minute) <= reader.upto}}))
    BY DEF VisitorsCountedOnce, Reading
  <2> DEFINE K == SketchKeys(kind)
             a == Hour(reader.from)
             b == reader.upto
             there(x) == a <= Hour(x.minute) /\ Hour(x.minute) <= b
             H == {HashOf[kind][e.kind] : e \in {x \in DOMAIN recorded : there(x)}}
  <2>1. a \in Int /\ b \in Int
    BY HourIs DEF PageInv, WindowInv
  <2>2. K \subseteq {k \in DOMAIN sketches : k[2] = kind /\ a <= k[1] /\ k[1] <= b}
    BY DEF SketchKeys
  <2>3. OnePrecision(K)
    BY DEF Raises
  <2>4. ClockInv /\ DetailsInv /\ SketchesInv
    BY DEF StatisticsInv
  <2>5. Seen(recorded, K) = H
    <3>1. ASSUME NEW k \in K, NEW e \in DOMAIN recorded, Hour(e.minute) = k[1]
          PROVE  HashOf[k[2]][e.kind] \in H
      <4>1. k[2] = kind /\ there(e)
        BY <2>2, <3>1
      <4> QED BY <4>1
    <3>2. ASSUME NEW e \in DOMAIN recorded, there(e)
          PROVE  HashOf[kind][e.kind] \in Seen(recorded, K)
      <4> DEFINE k == <<Hour(e.minute), kind>>
      <4>1. k[1] = Hour(e.minute) /\ k[2] = kind
        OBVIOUS
      <4>2. k \in DOMAIN sketches
        BY <2>4 DEF SketchesInv
      <4> HIDE DEF k
      <4>3. k \in K
        BY <3>2, <4>1, <4>2 DEF SketchKeys
      <4>4. HashOf[kind][e.kind] \in Values(recorded, k)
        BY <4>1 DEF Values
      <4> QED BY <4>3, <4>4 DEF Seen
    <3> HIDE DEF K, there
    <3> QED BY <3>1, <3>2 DEF Seen, Values
  <2>6. j \in K
    OBVIOUS
  <2> HIDE DEF K, a, b, H
  <2>7. Distinct(K) = Estimate(Of(sketches[j].precision, Seen(recorded, K)))
    BY <2>1, <2>2, <2>3, <2>4, <2>6, DistinctIs
  <2> QED BY <2>5, <2>7 DEF K, H, a, b
<1> QED BY <1>1, StatisticsInvHolds, PageInvHolds, PTL
=============================================================================
