------------------------------ MODULE FoldLemmas ------------------------------
(***************************************************************************)
(* What the folds of the models compute: sums and products over a finite   *)
(* set, the number of its members by group, and Max and Min over naturals. *)
(* The library states induction over finite sets with an operator as       *)
(* parameter; here each claim is proved from the well-foundedness of the   *)
(* subset ordering instead, by looking at a smallest set for which it      *)
(* fails.                                                                  *)
(***************************************************************************)
EXTENDS Integers, FiniteSetsExt, FiniteSetTheorems, TLAPS

\* The first failure of a claim about the subsets of a finite set: this is what
\* induction over finite sets comes down to, claim by claim.
LEMMA SmallestSubset ==
    ASSUME NEW S, IsFiniteSet(S), NEW Bad \in SUBSET (SUBSET S), Bad # {}
    PROVE  \E T \in Bad : \A U \in Bad : U \subseteq T => U = T
<1>1. IsWellFoundedOn(StrictSubsetOrdering(S), FiniteSubsetsOf(S))
    BY FS_StrictSubsetOrderingWellFounded
<1>2. FiniteSubsetsOf(S) = SUBSET S
    BY FS_FiniteSubsetsOfFinite
<1>3. PICK T \in Bad : \A U \in Bad : ~ (<<U, T>> \in StrictSubsetOrdering(S))
    BY <1>1, <1>2, WFMin
<1>4. ASSUME NEW U \in Bad, U \subseteq T, U # T PROVE FALSE
    <2>1. <<U, T>> \in (SUBSET S) \X (SUBSET S)
        OBVIOUS
    <2>2. <<U, T>> \in StrictSubsetOrdering(S)
        BY <1>4, <2>1 DEF StrictSubsetOrdering
    <2> QED
        BY <1>3, <2>2
<1> QED
    BY <1>4

Pick(s) == CHOOSE x \in s : TRUE

\* The two folds the models use, "sum" and "product".
Neutral(kind) == IF kind = "sum" THEN 0 ELSE 1

Join(kind, a, b) == IF kind = "sum" THEN a + b ELSE a * b

\* g folds f over every subset of S, the way the fold of the library does.
Accumulates(g, kind, f, S) ==
    g = [s \in SUBSET S |->
            IF s = {} THEN Neutral(kind) ELSE Join(kind, f[Pick(s)], g[s \ {Pick(s)}])]

\* The function the library's recursive LET stands for.
Folding(kind, f, S) == CHOOSE g : Accumulates(g, kind, f, S)

LEMMA PickIn == ASSUME NEW s, s # {} PROVE Pick(s) \in s
BY DEF Pick

\* Two functions that fold f agree wherever both are defined.
LEMMA AccumulatesUnique ==
    ASSUME NEW S, IsFiniteSet(S), NEW T \in SUBSET S, NEW kind, NEW f, NEW g, NEW h,
           Accumulates(g, kind, f, S), Accumulates(h, kind, f, T)
    PROVE  \A s \in SUBSET T : g[s] = h[s]
<1> DEFINE Bad == {s \in SUBSET T : g[s] # h[s]}
<1> SUFFICES ASSUME Bad # {} PROVE FALSE
    OBVIOUS
<1>1. Bad \in SUBSET (SUBSET S)
    OBVIOUS
<1> HIDE DEF Bad
<1>2. PICK s \in Bad : \A u \in Bad : u \subseteq s => u = s
    BY <1>1, SmallestSubset
<1> USE DEF Bad
<1>3. CASE s = {}
    BY <1>2, <1>3 DEF Accumulates
<1>4. CASE s # {}
    <2> DEFINE r == s \ {Pick(s)}
    <2>1. r \in SUBSET T /\ r # s
        BY <1>4, PickIn
    <2>2. g[r] = h[r]
        BY <1>2, <2>1
    <2>3. g[s] = Join(kind, f[Pick(s)], g[r]) /\ h[s] = Join(kind, f[Pick(s)], h[r])
        BY <1>2, <1>4 DEF Accumulates
    <2> QED
        BY <1>2, <2>2, <2>3
<1> QED
    BY <1>3, <1>4

\* So the CHOOSE of Folding finds one: the function for a set is put together from
\* those of its proper subsets.
LEMMA AccumulatesExists ==
    ASSUME NEW S, IsFiniteSet(S), NEW kind, NEW f
    PROVE  Accumulates(Folding(kind, f, S), kind, f, S)
<1> DEFINE Bad == {T \in SUBSET S : ~ \E g : Accumulates(g, kind, f, T)}
<1>1. CASE Bad = {}
    BY <1>1 DEF Folding
<1>2. ASSUME Bad # {} PROVE FALSE
    <2>1. Bad \in SUBSET (SUBSET S)
        OBVIOUS
    <2> HIDE DEF Bad
    <2>2. PICK T \in Bad : \A U \in Bad : U \subseteq T => U = T
        BY <1>2, <2>1, SmallestSubset
    <2> USE DEF Bad
    <2>3. \A U \in SUBSET T : U # T => Accumulates(Folding(kind, f, U), kind, f, U)
        BY <2>2 DEF Folding
    <2> DEFINE A(U) == Folding(kind, f, U)[U]
               less(s) == s \ {Pick(s)}
               g == [s \in SUBSET T |->
                        IF s = {} THEN Neutral(kind)
                        ELSE IF s = T THEN Join(kind, f[Pick(T)], A(less(T))) ELSE A(s)]
    <2>4. \A s \in SUBSET T : s # {} => less(s) \in SUBSET T /\ less(s) # T /\ less(s) # s
        BY PickIn
    <2>5. \A s \in SUBSET T : s # T => g[s] = A(s)
        <3> SUFFICES ASSUME T # {} PROVE A({}) = Neutral(kind)
            OBVIOUS
        <3>1. Accumulates(Folding(kind, f, {}), kind, f, {})
            BY <2>3
        <3> QED
            BY <3>1 DEF Accumulates
    <2>6. \A s \in SUBSET T : s # {} => g[s] = Join(kind, f[Pick(s)], g[less(s)])
        <3> SUFFICES ASSUME NEW s \in SUBSET T, s # {}
                     PROVE  g[s] = Join(kind, f[Pick(s)], A(less(s)))
            BY <2>4, <2>5
        <3>1. CASE s = T
            BY <3>1
        <3>2. CASE s # T
            <4>1. /\ Accumulates(Folding(kind, f, s), kind, f, s)
                  /\ Accumulates(Folding(kind, f, less(s)), kind, f, less(s))
                BY <2>3, <2>4, <3>2
            <4>2. A(s) = Join(kind, f[Pick(s)], Folding(kind, f, s)[less(s)])
                BY <4>1 DEF Accumulates
            <4>3. IsFiniteSet(s)
                BY FS_Subset
            <4>4. Folding(kind, f, s)[less(s)] = A(less(s))
                BY <4>1, <4>3, AccumulatesUnique
            <4> QED
                BY <3>2, <4>2, <4>4
        <3> QED
            BY <3>1, <3>2
    <2>7. Accumulates(g, kind, f, T)
        <3>1. g = [s \in SUBSET T |-> g[s]]
            OBVIOUS
        <3>2. g[{}] = Neutral(kind)
            OBVIOUS
        <3>3. \A s \in SUBSET T :
                 g[s] = IF s = {} THEN Neutral(kind) ELSE Join(kind, f[Pick(s)], g[less(s)])
            BY <2>6, <3>2
        <3> HIDE DEF g
        <3> QED
            BY <3>1, <3>3 DEF Accumulates
    <2> QED
        BY <2>2, <2>7
<1> QED
    BY <1>1, <1>2

\* The fold of the whole set.
FoldOver(kind, f, S) == Folding(kind, f, S)[S]

LEMMA FoldEmpty == ASSUME NEW kind, NEW f PROVE FoldOver(kind, f, {}) = Neutral(kind)
<1>1. Accumulates(Folding(kind, f, {}), kind, f, {})
    BY AccumulatesExists, FS_EmptySet
<1> QED
    BY <1>1 DEF FoldOver, Accumulates

\* The element that is taken first.
LEMMA FoldPick ==
    ASSUME NEW S, IsFiniteSet(S), S # {}, NEW kind, NEW f
    PROVE  FoldOver(kind, f, S) = Join(kind, f[Pick(S)], FoldOver(kind, f, S \ {Pick(S)}))
<1> DEFINE r == S \ {Pick(S)}
<1>1. IsFiniteSet(r) /\ r \in SUBSET S
    BY FS_Subset
<1>2. /\ Accumulates(Folding(kind, f, S), kind, f, S)
      /\ Accumulates(Folding(kind, f, r), kind, f, r)
    BY <1>1, AccumulatesExists
<1>3. Folding(kind, f, S)[S] = Join(kind, f[Pick(S)], Folding(kind, f, S)[r])
    BY <1>2 DEF Accumulates
<1>4. Folding(kind, f, S)[r] = Folding(kind, f, r)[r]
    BY <1>1, <1>2, AccumulatesUnique
<1> QED
    BY <1>3, <1>4 DEF FoldOver

(***************************************************************************)
(* A sum over a finite set is zero, or one summand more than the rest.     *)
(***************************************************************************)
\* The sum of f over S, as the models write it.
SumOver(f, S) == MapThenSumSet(LAMBDA x : f[x], S)

LEMMA SumIsFold == ASSUME NEW f, NEW S PROVE SumOver(f, S) = FoldOver("sum", f, S)
<1> DEFINE body(g) == [s \in SUBSET S |-> IF s = {} THEN 0 ELSE f[Pick(s)] + g[s \ {Pick(s)}]]
<1>1. \A g : Accumulates(g, "sum", f, S) <=> g = body(g)
    BY DEF Accumulates, Neutral, Join
<1>2. Folding("sum", f, S) = CHOOSE g : g = body(g)
    <2> HIDE DEF body
    <2> QED
        BY <1>1 DEF Folding
<1>3. SumOver(f, S) = (CHOOSE g : g = body(g))[S]
    BY DEF SumOver, MapThenSumSet, MapThenFoldSet, Pick
<1> QED
    BY <1>2, <1>3 DEF FoldOver

LEMMA SumEmpty == ASSUME NEW f PROVE SumOver(f, {}) = 0
BY SumIsFold, FoldEmpty DEF Neutral

LEMMA SumPick ==
    ASSUME NEW S, IsFiniteSet(S), S # {}, NEW f
    PROVE  SumOver(f, S) = f[Pick(S)] + SumOver(f, S \ {Pick(S)})
<1>1. /\ SumOver(f, S) = FoldOver("sum", f, S)
      /\ SumOver(f, S \ {Pick(S)}) = FoldOver("sum", f, S \ {Pick(S)})
    BY SumIsFold
<1> QED
    BY <1>1, FoldPick DEF Join

(***************************************************************************)
(* The product of a finite set of integers is an integer.                  *)
(***************************************************************************)
LEMMA ProductIsFold == ASSUME NEW S PROVE ProductSet(S) = FoldOver("product", [x \in S |-> x], S)
<1> DEFINE f == [x \in S |-> x]
           body(g) == [s \in SUBSET S |-> IF s = {} THEN 1 ELSE Pick(s) * g[s \ {Pick(s)}]]
<1>1. ASSUME NEW g PROVE Accumulates(g, "product", f, S) <=> g = body(g)
    <2>1. \A s \in SUBSET S : s # {} => f[Pick(s)] = Pick(s)
        BY PickIn
    <2>2. body(g) = [s \in SUBSET S |->
                        IF s = {} THEN 1 ELSE f[Pick(s)] * g[s \ {Pick(s)}]]
        BY <2>1
    <2> HIDE DEF body, f
    <2> QED
        BY <2>2 DEF Accumulates, Neutral, Join
<1>2. Folding("product", f, S) = CHOOSE g : g = body(g)
    <2> HIDE DEF body, f
    <2> QED
        BY <1>1 DEF Folding
<1>3. ProductSet(S) = (CHOOSE g : g = body(g))[S]
    BY DEF ProductSet, FoldSet, MapThenFoldSet, Pick
<1> QED
    BY <1>2, <1>3 DEF FoldOver

LEMMA ProductType ==
    ASSUME NEW S, IsFiniteSet(S), \A x \in S : x \in Int
    PROVE  ProductSet(S) \in Int
<1> DEFINE f == [x \in S |-> x]
           Bad == {T \in SUBSET S : FoldOver("product", f, T) \notin Int}
<1>1. \A x \in S : f[x] \in Int
    OBVIOUS
<1> HIDE DEF f
<1>2. Bad \in SUBSET (SUBSET S)
    OBVIOUS
<1> SUFFICES ASSUME Bad # {} PROVE FALSE
    BY ProductIsFold DEF f
<1> HIDE DEF Bad
<1>3. PICK T \in Bad : \A U \in Bad : U \subseteq T => U = T
    BY <1>2, SmallestSubset
<1> USE DEF Bad
<1>4. CASE T = {}
    BY <1>3, <1>4, FoldEmpty DEF Neutral
<1>5. CASE T # {}
    <2> DEFINE r == T \ {Pick(T)}
               rest == FoldOver("product", f, r)
    <2>1. IsFiniteSet(T) /\ Pick(T) \in T /\ Pick(T) \in S /\ r \in SUBSET S /\ r # T
        BY <1>5, FS_Subset, PickIn
    <2>2. rest \in Int
        BY <1>3, <2>1
    <2>3. FoldOver("product", f, T) = Join("product", f[Pick(T)], rest)
        BY <1>5, <2>1, FoldPick
    <2>4. f[Pick(T)] \in Int
        BY <1>1, <2>1
    <2> HIDE DEF rest
    <2>5. Join("product", f[Pick(T)], rest) \in Int
        BY <2>2, <2>4 DEF Join
    <2> QED
        BY <1>3, <2>3, <2>5
<1> QED
    BY <1>4, <1>5

(***************************************************************************)
(* More about sums.                                                        *)
(***************************************************************************)
\* A sum depends on its summands only.
LEMMA SumSame ==
    ASSUME NEW S, IsFiniteSet(S), NEW f, NEW g, \A x \in S : f[x] = g[x]
    PROVE  SumOver(f, S) = SumOver(g, S)
<1> DEFINE Bad == {T \in SUBSET S : SumOver(f, T) # SumOver(g, T)}
<1> SUFFICES ASSUME Bad # {} PROVE FALSE
    OBVIOUS
<1>1. Bad \in SUBSET (SUBSET S)
    OBVIOUS
<1> HIDE DEF Bad
<1>2. PICK T \in Bad : \A U \in Bad : U \subseteq T => U = T
    BY <1>1, SmallestSubset
<1> USE DEF Bad
<1>3. CASE T = {}
    BY <1>2, <1>3, SumEmpty
<1>4. CASE T # {}
    <2>1. IsFiniteSet(T) /\ Pick(T) \in T
        BY <1>4, FS_Subset, PickIn
    <2>2. SumOver(f, T \ {Pick(T)}) = SumOver(g, T \ {Pick(T)})
        BY <1>2, <2>1
    <2> QED
        BY <1>2, <1>4, <2>1, <2>2, SumPick
<1> QED
    BY <1>3, <1>4

\* A sum of integers is an integer.
LEMMA SumType ==
    ASSUME NEW S, IsFiniteSet(S), NEW f, \A x \in S : f[x] \in Int
    PROVE  SumOver(f, S) \in Int
<1> DEFINE Bad == {T \in SUBSET S : SumOver(f, T) \notin Int}
<1> SUFFICES ASSUME Bad # {} PROVE FALSE
    OBVIOUS
<1>1. Bad \in SUBSET (SUBSET S)
    OBVIOUS
<1> HIDE DEF Bad
<1>2. PICK T \in Bad : \A U \in Bad : U \subseteq T => U = T
    BY <1>1, SmallestSubset
<1> USE DEF Bad
<1>3. CASE T = {}
    BY <1>2, <1>3, SumEmpty
<1>4. CASE T # {}
    <2>1. IsFiniteSet(T) /\ Pick(T) \in T
        BY <1>4, FS_Subset, PickIn
    <2>2. SumOver(f, T \ {Pick(T)}) \in Int
        BY <1>2, <2>1
    <2>3. SumOver(f, T) = f[Pick(T)] + SumOver(f, T \ {Pick(T)})
        BY <1>4, <2>1, SumPick
    <2> QED
        BY <1>2, <2>1, <2>2, <2>3
<1> QED
    BY <1>3, <1>4

\* The order in which the summands are taken does not matter.
LEMMA SumRemove ==
    ASSUME NEW S, IsFiniteSet(S), NEW f, \A x \in S : f[x] \in Int, NEW y \in S
    PROVE  SumOver(f, S) = f[y] + SumOver(f, S \ {y})
<1> DEFINE Bad == {T \in SUBSET S : \E z \in T : SumOver(f, T) # f[z] + SumOver(f, T \ {z})}
<1> SUFFICES ASSUME Bad # {} PROVE FALSE
    OBVIOUS
<1>1. Bad \in SUBSET (SUBSET S)
    OBVIOUS
<1> HIDE DEF Bad
<1>2. PICK T \in Bad : \A U \in Bad : U \subseteq T => U = T
    BY <1>1, SmallestSubset
<1>3. T \in SUBSET S /\ \A U \in SUBSET T : U # T =>
          \A z \in U : SumOver(f, U) = f[z] + SumOver(f, U \ {z})
    BY <1>2 DEF Bad
<1>4. PICK z \in T : SumOver(f, T) # f[z] + SumOver(f, T \ {z})
    BY <1>2 DEF Bad
<1> DEFINE c == Pick(T)
           r == (T \ {c}) \ {z}
<1>5. IsFiniteSet(T) /\ c \in T
    BY <1>3, <1>4, FS_Subset, PickIn
<1>6. SumOver(f, T) = f[c] + SumOver(f, T \ {c})
    BY <1>5, SumPick
<1>7. c # z
    BY <1>4, <1>6
<1>8. SumOver(f, T \ {c}) = f[z] + SumOver(f, r)
    BY <1>3, <1>5, <1>7
<1>9. SumOver(f, T \ {z}) = f[c] + SumOver(f, r)
    <2>1. (T \ {z}) \ {c} = r
        OBVIOUS
    <2> QED
        BY <1>3, <1>4, <1>5, <1>7, <2>1
<1>10. f[c] \in Int /\ f[z] \in Int /\ SumOver(f, r) \in Int
    <2>1. r \in SUBSET S /\ IsFiniteSet(r)
        BY <1>3, FS_Subset
    <2> QED
        BY <1>3, <1>4, <1>5, <2>1, SumType
<1> HIDE DEF c, r
<1> QED
    BY <1>4, <1>6, <1>8, <1>9, <1>10

\* Larger summands have a larger sum.
LEMMA SumMonotone ==
    ASSUME NEW S, IsFiniteSet(S), NEW f, NEW g,
           \A x \in S : f[x] \in Int /\ g[x] \in Int /\ f[x] <= g[x]
    PROVE  SumOver(f, S) <= SumOver(g, S)
<1> DEFINE Bad == {T \in SUBSET S : ~ (SumOver(f, T) <= SumOver(g, T))}
<1> SUFFICES ASSUME Bad # {} PROVE FALSE
    OBVIOUS
<1>1. Bad \in SUBSET (SUBSET S)
    OBVIOUS
<1> HIDE DEF Bad
<1>2. PICK T \in Bad : \A U \in Bad : U \subseteq T => U = T
    BY <1>1, SmallestSubset
<1> USE DEF Bad
<1>3. CASE T = {}
    BY <1>2, <1>3, SumEmpty
<1>4. CASE T # {}
    <2> DEFINE r == T \ {Pick(T)}
    <2>1. IsFiniteSet(T) /\ Pick(T) \in T /\ T \in SUBSET S /\ r \in SUBSET S /\ IsFiniteSet(r)
        BY <1>4, FS_Subset, PickIn
    <2>2. SumOver(f, r) <= SumOver(g, r)
        BY <1>2, <2>1
    <2>3. /\ SumOver(f, T) = f[Pick(T)] + SumOver(f, r)
          /\ SumOver(g, T) = g[Pick(T)] + SumOver(g, r)
        BY <1>4, <2>1, SumPick
    <2>4. SumOver(f, r) \in Int /\ SumOver(g, r) \in Int
        BY <2>1, SumType
    <2>5. f[Pick(T)] \in Int /\ g[Pick(T)] \in Int /\ f[Pick(T)] <= g[Pick(T)]
        BY <2>1
    <2> HIDE DEF r
    <2> QED
        BY <1>2, <2>2, <2>3, <2>4, <2>5
<1> QED
    BY <1>3, <1>4

\* Summands that are all zero.
LEMMA SumZero ==
    ASSUME NEW S, IsFiniteSet(S), NEW f, \A x \in S : f[x] = 0
    PROVE  SumOver(f, S) = 0
<1> DEFINE Bad == {T \in SUBSET S : SumOver(f, T) # 0}
<1> SUFFICES ASSUME Bad # {} PROVE FALSE
    OBVIOUS
<1>1. Bad \in SUBSET (SUBSET S)
    OBVIOUS
<1> HIDE DEF Bad
<1>2. PICK T \in Bad : \A U \in Bad : U \subseteq T => U = T
    BY <1>1, SmallestSubset
<1> USE DEF Bad
<1>3. CASE T = {}
    BY <1>2, <1>3, SumEmpty
<1>4. CASE T # {}
    <2>1. IsFiniteSet(T) /\ Pick(T) \in T
        BY <1>4, FS_Subset, PickIn
    <2>2. SumOver(f, T \ {Pick(T)}) = 0 /\ f[Pick(T)] = 0
        BY <1>2, <2>1
    <2>3. SumOver(f, T) = f[Pick(T)] + SumOver(f, T \ {Pick(T)})
        BY <1>4, <2>1, SumPick
    <2> QED
        BY <1>2, <2>2, <2>3
<1> QED
    BY <1>3, <1>4

LEMMA ImageIsFinite ==
    ASSUME NEW S, IsFiniteSet(S), NEW f
    PROVE  IsFiniteSet({f[x] : x \in S})
<1> DEFINE T == {f[x] : x \in S}
           g == [x \in S |-> f[x]]
<1>1. g \in Surjection(S, T)
    BY DEF Surjection
<1> HIDE DEF g, T
<1>2. IsFiniteSet(T)
    BY <1>1, FS_Surjection
<1> QED
    BY <1>2 DEF T

\* Counting by groups counts everything once.
LEMMA SumOfGroups ==
    ASSUME NEW S, IsFiniteSet(S), NEW G, IsFiniteSet(G), NEW key, \A i \in S : key[i] \in G
    PROVE  SumOver([g \in G |-> Cardinality({i \in S : key[i] = g})], G) = Cardinality(S)
<1> DEFINE count(T) == [g \in G |-> Cardinality({i \in T : key[i] = g})]
           Bad == {T \in SUBSET S : SumOver(count(T), G) # Cardinality(T)}
<1> SUFFICES ASSUME Bad # {} PROVE FALSE
    OBVIOUS
<1>1. Bad \in SUBSET (SUBSET S)
    OBVIOUS
<1> HIDE DEF Bad
<1>2. PICK T \in Bad : \A U \in Bad : U \subseteq T => U = T
    BY <1>1, SmallestSubset
<1> USE DEF Bad
<1>3. CASE T = {}
    <2>1. \A g \in G : {i \in T : key[i] = g} = {}
        BY <1>3
    <2>2. \A g \in G : count(T)[g] = 0
        BY <2>1, FS_EmptySet
    <2> HIDE DEF count
    <2>3. SumOver(count(T), G) = 0
        BY <2>2, SumZero
    <2> QED
        BY <1>2, <1>3, <2>3, FS_EmptySet
<1>4. CASE T # {}
    <2> DEFINE x == Pick(T)
               U == T \ {x}
               k == key[x]
               c == count(T)
               d == count(U)
    <2>1. x \in T /\ IsFiniteSet(T) /\ U \in SUBSET S /\ U # T /\ IsFiniteSet(U) /\ k \in G
        BY <1>4, FS_Subset, PickIn
    <2>2. SumOver(d, G) = Cardinality(U)
        BY <1>2, <2>1
    <2>3. Cardinality(T) = Cardinality(U) + 1 /\ Cardinality(U) \in Nat
        BY <2>1, FS_RemoveElement, FS_CardinalityType
    <2>4. \A g \in G : c[g] \in Int /\ d[g] \in Int
        <3> TAKE g \in G
        <3>1. IsFiniteSet({i \in T : key[i] = g}) /\ IsFiniteSet({i \in U : key[i] = g})
            BY <2>1, FS_Subset
        <3> QED
            BY <3>1, FS_CardinalityType
    <2>5. c[k] = d[k] + 1
        <3> DEFINE its == {i \in T : key[i] = k}
        <3>1. IsFiniteSet(its) /\ x \in its /\ its \ {x} = {i \in U : key[i] = k}
            BY <2>1, FS_Subset
        <3>2. Cardinality(its \ {x}) = Cardinality(its) - 1 /\ Cardinality(its) \in Nat
            BY <3>1, FS_RemoveElement, FS_CardinalityType
        <3>3. c[k] = Cardinality(its) /\ d[k] = Cardinality(its \ {x})
            BY <2>1, <3>1
        <3> HIDE DEF its, c, d
        <3> QED
            BY <3>2, <3>3
    <2>6. \A g \in G \ {k} : c[g] = d[g]
        <3> TAKE g \in G \ {k}
        <3>1. {i \in T : key[i] = g} = {i \in U : key[i] = g}
            OBVIOUS
        <3> QED
            BY <3>1
    <2> HIDE DEF c, d, U, x, k
    <2>7. SumOver(c, G) = c[k] + SumOver(c, G \ {k}) /\ SumOver(d, G) = d[k] + SumOver(d, G \ {k})
        BY <2>1, <2>4, SumRemove
    <2>8. IsFiniteSet(G \ {k})
        BY FS_Subset
    <2>9. SumOver(c, G \ {k}) = SumOver(d, G \ {k})
        BY <2>6, <2>8, SumSame
    <2>10. SumOver(d, G \ {k}) \in Int /\ c[k] \in Int /\ d[k] \in Int
        BY <2>1, <2>4, <2>8, SumType
    <2>11. SumOver(c, G) = Cardinality(T)
        BY <2>2, <2>3, <2>5, <2>7, <2>9, <2>10
    <2> QED
        BY <1>2, <2>11 DEF c
<1> QED
    BY <1>3, <1>4

(***************************************************************************)
(* The least element of a set of naturals, which Min is.                   *)
(***************************************************************************)
LEMMA LeastNatural ==
    ASSUME NEW S \in SUBSET Nat, S # {}
    PROVE  \E n \in S : \A m \in S : n <= m
<1>1. PICK top \in S : TRUE
    OBVIOUS
<1> DEFINE I     == 0 .. top
           Below == {0 .. n : n \in {k \in S : k <= top}}
<1>2. IsFiniteSet(I)
    BY FS_Interval
<1>3. Below \in SUBSET (SUBSET I)
    OBVIOUS
<1>4. Below # {}
    OBVIOUS
<1> HIDE DEF Below, I
<1>5. PICK T \in Below : \A U \in Below : U \subseteq T => U = T
    BY <1>2, <1>3, <1>4, SmallestSubset
<1>6. PICK n \in S : n <= top /\ T = 0 .. n
    BY <1>5 DEF Below
<1>7. ASSUME NEW m \in S, ~ (n <= m) PROVE FALSE
    <2>1. m \in Nat /\ n \in Nat /\ top \in Nat /\ m < n /\ m <= top
        BY <1>6, <1>7
    <2>2. 0 .. m \in Below
        BY <2>1 DEF Below
    <2>3. 0 .. m \subseteq T /\ n \in T /\ n \notin 0 .. m
        BY <1>6, <2>1
    <2> QED
        BY <1>5, <2>2, <2>3
<1> QED
    BY <1>7

LEMMA MinIsLeast ==
    ASSUME NEW S \in SUBSET Nat, S # {}
    PROVE  Min(S) \in S /\ \A m \in S : Min(S) <= m
BY LeastNatural DEF Min

LEMMA MaxIsGreatest ==
    ASSUME NEW n \in Nat, NEW S \in SUBSET (0 .. n), S # {}
    PROVE  Max(S) \in S /\ \A m \in S : Max(S) >= m
<1> DEFINE D == {n - m : m \in S}
<1>1. D \in SUBSET Nat /\ D # {}
    <2>1. \A m \in S : n - m \in Nat
        OBVIOUS
    <2> QED
        BY <2>1
<1>2. PICK d \in D : \A e \in D : d <= e
    BY <1>1, LeastNatural
<1>3. PICK g \in S : d = n - g
    BY <1>2
<1>4. \A m \in S : g >= m
    <2> TAKE m \in S
    <2>1. n - g <= n - m
        BY <1>2, <1>3
    <2> QED
        BY <2>1
<1> QED
    BY <1>4 DEF Max
===============================================================================
