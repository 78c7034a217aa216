--------------------------------- MODULE Sums ---------------------------------
(***************************************************************************)
(* Facts about numbers, finite sets and sums that the proofs about the     *)
(* components rest on.                                                     *)
(*                                                                         *)
(* The sum of a function's values over a finite set is the number of cells *)
(* of a table that has f[x] cells in the row of x.  Once that is shown,    *)
(* what a sum does follows from what is known of cardinalities.            *)
(***************************************************************************)
EXTENDS Integers, FiniteSetTheorems, WellFoundedInduction, TLAPS

\* A set of numbers that is not empty has a least one.
LEMMA LeastExists ==
    ASSUME NEW T, T \subseteq Nat, T # {}
    PROVE  \E x \in T : \A y \in T : x <= y
<1> DEFINE R == OpToRel(<, Nat)
<1>1. IsWellFoundedOn(R, Nat)
  BY NatLessThanWellFounded
<1>2. \A x, y \in Nat : y < x => <<y, x>> \in R
  BY DEF OpToRel
<1> HIDE DEF R
<1>3. PICK x \in T : \A y \in T : ~ (<<y, x>> \in R)
  BY <1>1, WFMin
<1>4. \A y \in T : x <= y
  <2>1. SUFFICES ASSUME NEW y \in T PROVE x <= y
    OBVIOUS
  <2>2. x \in Nat /\ y \in Nat /\ ~ (y < x)
    BY <1>2, <1>3
  <2>3. QED
    BY <2>2
<1>5. QED
  BY <1>4

\* Induction over the subsets of a finite set: a family of them that has the empty
\* set, and with a set also what it becomes by one element more, has the whole set.
LEMMA SubsetInduction ==
    ASSUME NEW S, IsFiniteSet(S), NEW F,
           {} \in F,
           \A T \in F : \A x \in S \ T : T \subseteq S => T \cup {x} \in F
    PROVE  S \in F
<1> DEFINE Bad   == {T \in SUBSET S : T \notin F}
           Sizes == {Cardinality(T) : T \in Bad}
<1>1. SUFFICES ASSUME S \notin F PROVE FALSE
  OBVIOUS
<1>2. \A T \in SUBSET S : IsFiniteSet(T) /\ Cardinality(T) \in Nat
  <2>1. SUFFICES ASSUME NEW T \in SUBSET S
                 PROVE  IsFiniteSet(T) /\ Cardinality(T) \in Nat
    OBVIOUS
  <2>2. IsFiniteSet(T)
    BY FS_Subset
  <2>3. QED
    BY <2>2, FS_CardinalityType
<1>3. Sizes \subseteq Nat /\ Sizes # {}
  BY <1>1, <1>2
<1>4. PICK n \in Sizes : \A m \in Sizes : n <= m
  BY <1>3, LeastExists
<1>5. PICK T \in Bad : Cardinality(T) = n
  BY <1>4
<1>6. T # {}
  BY <1>5
<1>7. PICK x \in T : TRUE
  BY <1>6
<1>8. Cardinality(T \ {x}) = Cardinality(T) - 1
  BY <1>2, <1>5, <1>7, FS_RemoveElement
<1>9. T \ {x} \in F
  <2>1. SUFFICES ASSUME T \ {x} \notin F PROVE FALSE
    OBVIOUS
  <2>2. T \ {x} \in Bad
    BY <1>5, <2>1
  <2>3. n <= Cardinality(T \ {x})
    BY <1>4, <2>2
  <2>4. n \in Nat
    BY <1>2, <1>5
  <2>5. QED
    BY <1>5, <1>8, <2>3, <2>4
<1>10. (T \ {x}) \cup {x} \in F
  BY <1>5, <1>7, <1>9
<1>11. (T \ {x}) \cup {x} = T
  BY <1>7
<1>12. QED
  BY <1>5, <1>10, <1>11

------------------------------------------------------------------------------
(* Sums are numbers of cells. *)

Cells(f, S) == {c \in S \X Nat : 1 <= c[2] /\ c[2] <= f[c[1]]}

\* A table that is one row longer has the cells of that row more.
LEMMA OneRowMore ==
    ASSUME NEW f, NEW S, NEW x, x \notin S, f[x] \in Nat, IsFiniteSet(Cells(f, S))
    PROVE  /\ IsFiniteSet(Cells(f, S \cup {x}))
           /\ Cardinality(Cells(f, S \cup {x})) = Cardinality(Cells(f, S)) + f[x]
<1> DEFINE row == {x} \X (1 .. f[x])
<1>1. Cells(f, S \cup {x}) = Cells(f, S) \cup row
  BY DEF Cells
<1>2. Cells(f, S) \cap row = {}
  BY DEF Cells
<1>3. IsFiniteSet({x}) /\ Cardinality({x}) = 1
  BY FS_Singleton
<1>4. IsFiniteSet(1 .. f[x]) /\ Cardinality(1 .. f[x]) = f[x]
  BY FS_Interval
<1>5. IsFiniteSet(row) /\ Cardinality(row) = f[x]
  <2>1. IsFiniteSet(row) /\ Cardinality(row) = 1 * f[x]
    BY <1>3, <1>4, FS_Product
  <2>2. QED
    BY <2>1
<1> HIDE DEF row
<1>6. /\ IsFiniteSet(Cells(f, S) \cup row)
      /\ Cardinality(Cells(f, S) \cup row)
           = Cardinality(Cells(f, S)) + Cardinality(row) - Cardinality(Cells(f, S) \cap row)
  BY <1>5, FS_Union
<1>7. Cardinality({}) = 0 /\ Cardinality(Cells(f, S)) \in Nat
  BY FS_EmptySet, FS_CardinalityType
<1>8. QED
  <2>1. Cardinality(Cells(f, S) \cap row) = 0
    BY <1>2, <1>7
  <2>2. PICK c \in Nat : c = Cardinality(Cells(f, S))
    BY <1>7
  <2>3. Cardinality(Cells(f, S) \cup row) = c + f[x]
    BY <1>5, <1>6, <2>1, <2>2
  <2>4. QED
    BY <1>1, <1>6, <2>2, <2>3

LEMMA CellsFinite ==
    ASSUME NEW f, NEW S, IsFiniteSet(S), \A x \in S : f[x] \in Nat
    PROVE  /\ IsFiniteSet(Cells(f, S))
           /\ Cardinality(Cells(f, S)) \in Nat
<1> DEFINE F == {T \in SUBSET S : IsFiniteSet(Cells(f, T))}
<1>1. {} \in F
  <2>1. Cells(f, {}) = {}
    BY DEF Cells
  <2>2. QED
    BY <2>1, FS_EmptySet
<1>2. \A T \in F : \A x \in S \ T : T \subseteq S => T \cup {x} \in F
  <2>1. SUFFICES ASSUME NEW T \in F, NEW x \in S \ T PROVE T \cup {x} \in F
    OBVIOUS
  <2>2. IsFiniteSet(Cells(f, T \cup {x}))
    BY <2>1, OneRowMore
  <2>3. QED
    BY <2>1, <2>2
<1>3. S \in F
  <2> HIDE DEF F
  <2>1. QED
    BY <1>1, <1>2, SubsetInduction
<1>4. QED
  BY <1>3, FS_CardinalityType

\* The fold of the community modules counts the cells.
LEMMA SumIsCells ==
    ASSUME NEW f, NEW S, IsFiniteSet(S), \A x \in S : f[x] \in Nat
    PROVE  SumFunctionOnSet(f, S) = Cardinality(Cells(f, S))
<1> DEFINE pick(T)  == CHOOSE x \in T : TRUE
           Folds(h) == h = [T \in SUBSET S |->
                              IF T = {} THEN 0 ELSE f[pick(T)] + h[T \ {pick(T)}]]
           g        == [T \in SUBSET S |-> Cardinality(Cells(f, T))]
<1>1. SumFunctionOnSet(f, S) = (CHOOSE h : Folds(h))[S]
  BY DEF SumFunctionOnSet, FoldFunctionOnSet, MapThenFoldSet
<1>2. ASSUME NEW T \in SUBSET S, T # {}
      PROVE  /\ pick(T) \in T
             /\ T \ {pick(T)} \in SUBSET S
             /\ Cardinality(Cells(f, T)) = Cardinality(Cells(f, T \ {pick(T)})) + f[pick(T)]
             /\ Cardinality(Cells(f, T \ {pick(T)})) \in Nat
  <2>1. pick(T) \in T
    BY <1>2
  <2>2. PICK x \in T : x = pick(T)
    BY <2>1
  <2>3. IsFiniteSet(T \ {x})
    <3>1. T \ {x} \in SUBSET S
      OBVIOUS
    <3>2. QED
      BY <3>1, FS_Subset
  <2>4. IsFiniteSet(Cells(f, T \ {x})) /\ Cardinality(Cells(f, T \ {x})) \in Nat
    BY <2>3, CellsFinite
  <2>5. (T \ {x}) \cup {x} = T /\ x \notin T \ {x} /\ f[x] \in Nat
    BY <2>2
  <2>6. Cardinality(Cells(f, T)) = Cardinality(Cells(f, T \ {x})) + f[x]
    BY <2>4, <2>5, OneRowMore
  <2>7. QED
    BY <2>2, <2>4, <2>6
<1>3. Cardinality(Cells(f, {})) = 0
  <2>1. Cells(f, {}) = {}
    BY DEF Cells
  <2>2. QED
    BY <2>1, FS_EmptySet
<1>4. Folds(g)
  <2>1. ASSUME NEW T \in SUBSET S
        PROVE  g[T] = IF T = {} THEN 0 ELSE f[pick(T)] + g[T \ {pick(T)}]
    <3>1. CASE T = {}
      BY <1>3, <3>1
    <3>2. CASE T # {}
      <4>1. PICK x \in T : x = pick(T)
        BY <1>2, <3>2
      <4>2. /\ T \ {x} \in SUBSET S
            /\ Cardinality(Cells(f, T)) = Cardinality(Cells(f, T \ {x})) + f[x]
            /\ Cardinality(Cells(f, T \ {x})) \in Nat
            /\ f[x] \in Nat
        BY <1>2, <3>2, <4>1
      <4>3. g[T] = Cardinality(Cells(f, T)) /\ g[T \ {x}] = Cardinality(Cells(f, T \ {x}))
        BY <4>2
      <4>4. g[T] = f[x] + g[T \ {x}]
        BY <4>2, <4>3
      <4>5. QED
        BY <3>2, <4>1, <4>4
    <3>3. QED
      BY <3>1, <3>2
  <2>2. QED
    BY <2>1
<1>5. PICK h : h = (CHOOSE i : Folds(i)) /\ Folds(h)
  BY <1>4
<1>6. \A T \in SUBSET S : h[T] = IF T = {} THEN 0 ELSE f[pick(T)] + h[T \ {pick(T)}]
  BY <1>5
<1> DEFINE F == {T \in SUBSET S : h[T] = Cardinality(Cells(f, T))}
           Bad == {T \in SUBSET S : h[T] # Cardinality(Cells(f, T))}
           Sizes == {Cardinality(T) : T \in Bad}
<1>7. ASSUME Bad # {} PROVE FALSE
  <2>1. \A T \in SUBSET S : IsFiniteSet(T) /\ Cardinality(T) \in Nat
    <3>1. SUFFICES ASSUME NEW T \in SUBSET S
                   PROVE  IsFiniteSet(T) /\ Cardinality(T) \in Nat
      OBVIOUS
    <3>2. IsFiniteSet(T)
      BY FS_Subset
    <3>3. QED
      BY <3>2, FS_CardinalityType
  <2>2. Sizes \subseteq Nat /\ Sizes # {}
    BY <1>7, <2>1
  <2>3. PICK n \in Sizes : \A m \in Sizes : n <= m
    <3> HIDE DEF Sizes
    <3>1. QED
      BY <2>2, LeastExists
  <2>4. PICK T \in Bad : Cardinality(T) = n
    BY <2>3
  <2>5. T # {}
    BY <1>3, <1>6, <2>4
  <2>6. PICK x \in T : x = pick(T)
    BY <1>2, <2>4, <2>5
  <2>7. /\ T \ {x} \in SUBSET S
        /\ Cardinality(Cells(f, T)) = Cardinality(Cells(f, T \ {x})) + f[x]
        /\ Cardinality(Cells(f, T \ {x})) \in Nat
        /\ f[x] \in Nat
    BY <1>2, <2>4, <2>5, <2>6
  <2>8. h[T] = f[x] + h[T \ {x}]
    BY <1>6, <2>4, <2>5, <2>6
  <2>9. Cardinality(T \ {x}) = Cardinality(T) - 1
    BY <2>1, <2>4, <2>6, FS_RemoveElement
  <2>10. T \ {x} \notin Bad
    <3>1. SUFFICES ASSUME T \ {x} \in Bad PROVE FALSE
      OBVIOUS
    <3>2. n <= Cardinality(T \ {x}) /\ n \in Nat
      BY <2>1, <2>3, <2>4, <3>1
    <3>3. QED
      BY <2>4, <2>9, <3>2
  <2>11. h[T \ {x}] = Cardinality(Cells(f, T \ {x}))
    BY <2>7, <2>10
  <2>12. QED
    BY <2>4, <2>7, <2>8, <2>11
<1>8. h[S] = Cardinality(Cells(f, S))
  BY <1>7
<1>9. QED
  BY <1>1, <1>5, <1>8

------------------------------------------------------------------------------
(* What a sum does. *)

LEMMA SumInNat ==
    ASSUME NEW f, NEW S, IsFiniteSet(S), \A x \in S : f[x] \in Nat
    PROVE  SumFunctionOnSet(f, S) \in Nat
BY SumIsCells, CellsFinite

\* It reads its function on the set alone.
LEMMA SumSame ==
    ASSUME NEW f, NEW g, NEW S, IsFiniteSet(S),
           \A x \in S : f[x] \in Nat /\ g[x] = f[x]
    PROVE  SumFunctionOnSet(g, S) = SumFunctionOnSet(f, S)
<1>1. Cells(g, S) = Cells(f, S)
  BY DEF Cells
<1>2. SumFunctionOnSet(g, S) = Cardinality(Cells(g, S))
  BY SumIsCells
<1>3. SumFunctionOnSet(f, S) = Cardinality(Cells(f, S))
  BY SumIsCells
<1>4. QED
  BY <1>1, <1>2, <1>3

LEMMA SumOfNone ==
    ASSUME NEW f
    PROVE  SumFunctionOnSet(f, {}) = 0
<1>1. Cells(f, {}) = {}
  BY DEF Cells
<1>2. QED
  BY <1>1, SumIsCells, FS_EmptySet

LEMMA SumOfUnion ==
    ASSUME NEW f, NEW S, IsFiniteSet(S), NEW T, IsFiniteSet(T), S \cap T = {},
           \A x \in S \cup T : f[x] \in Nat
    PROVE  SumFunctionOnSet(f, S \cup T) = SumFunctionOnSet(f, S) + SumFunctionOnSet(f, T)
<1>1. IsFiniteSet(S \cup T)
  BY FS_Union
<1>2. /\ SumFunctionOnSet(f, S \cup T) = Cardinality(Cells(f, S \cup T))
      /\ SumFunctionOnSet(f, S) = Cardinality(Cells(f, S))
      /\ SumFunctionOnSet(f, T) = Cardinality(Cells(f, T))
  BY <1>1, SumIsCells
<1>3. /\ Cells(f, S \cup T) = Cells(f, S) \cup Cells(f, T)
      /\ Cells(f, S) \cap Cells(f, T) = {}
  BY DEF Cells
<1>4. /\ IsFiniteSet(Cells(f, S)) /\ Cardinality(Cells(f, S)) \in Nat
      /\ IsFiniteSet(Cells(f, T)) /\ Cardinality(Cells(f, T)) \in Nat
  BY CellsFinite
<1>5. Cardinality(Cells(f, S) \cup Cells(f, T))
        = Cardinality(Cells(f, S)) + Cardinality(Cells(f, T))
            - Cardinality(Cells(f, S) \cap Cells(f, T))
  BY <1>4, FS_Union
<1>6. Cardinality(Cells(f, S) \cap Cells(f, T)) = 0
  BY <1>3, FS_EmptySet
<1>7. PICK m \in Nat, n \in Nat : m = Cardinality(Cells(f, S)) /\ n = Cardinality(Cells(f, T))
  BY <1>4
<1>8. Cardinality(Cells(f, S) \cup Cells(f, T)) = m + n
  BY <1>5, <1>6, <1>7
<1>9. QED
  BY <1>2, <1>3, <1>7, <1>8

LEMMA SumOfOne ==
    ASSUME NEW f, NEW x, f[x] \in Nat
    PROVE  SumFunctionOnSet(f, {x}) = f[x]
<1>1. IsFiniteSet(Cells(f, {})) /\ Cardinality(Cells(f, {})) = 0
  <2>1. Cells(f, {}) = {}
    BY DEF Cells
  <2>2. QED
    BY <2>1, FS_EmptySet
<1>2. Cardinality(Cells(f, {} \cup {x})) = Cardinality(Cells(f, {})) + f[x]
  BY <1>1, OneRowMore
<1>3. {} \cup {x} = {x} /\ IsFiniteSet({x})
  BY FS_Singleton
<1>4. SumFunctionOnSet(f, {x}) = Cardinality(Cells(f, {x}))
  BY <1>3, SumIsCells
<1>5. QED
  BY <1>1, <1>2, <1>3, <1>4

\* One element more.
LEMMA SumOfMore ==
    ASSUME NEW f, NEW S, IsFiniteSet(S), NEW x, x \notin S,
           \A y \in S \cup {x} : f[y] \in Nat
    PROVE  SumFunctionOnSet(f, S \cup {x}) = SumFunctionOnSet(f, S) + f[x]
<1>1. IsFiniteSet({x}) /\ S \cap {x} = {}
  BY FS_Singleton
<1>2. SumFunctionOnSet(f, S \cup {x}) = SumFunctionOnSet(f, S) + SumFunctionOnSet(f, {x})
  BY <1>1, SumOfUnion
<1>3. SumFunctionOnSet(f, {x}) = f[x]
  BY SumOfOne
<1>4. QED
  BY <1>2, <1>3

\* One value that grows by n.
LEMMA SumGrows ==
    ASSUME NEW f, NEW g, NEW S, IsFiniteSet(S), NEW x \in S, NEW n \in Nat,
           \A y \in S : f[y] \in Nat /\ g[y] = IF y = x THEN f[y] + n ELSE f[y]
    PROVE  SumFunctionOnSet(g, S) = SumFunctionOnSet(f, S) + n
<1> DEFINE T == S \ {x}
<1>1. IsFiniteSet(T) /\ x \notin T /\ S = T \cup {x}
  BY FS_RemoveElement
<1>2. /\ f[x] \in Nat /\ g[x] = f[x] + n
      /\ \A y \in T : f[y] \in Nat /\ g[y] = f[y]
      /\ \A y \in T \cup {x} : f[y] \in Nat /\ g[y] \in Nat
  BY <1>1
<1> HIDE DEF T
<1>3. SumFunctionOnSet(f, T \cup {x}) = SumFunctionOnSet(f, T) + f[x]
  BY <1>1, <1>2, SumOfMore
<1>4. SumFunctionOnSet(g, T \cup {x}) = SumFunctionOnSet(g, T) + g[x]
  BY <1>1, <1>2, SumOfMore
<1>5. SumFunctionOnSet(g, T) = SumFunctionOnSet(f, T) /\ SumFunctionOnSet(f, T) \in Nat
  BY <1>1, <1>2, SumSame, SumInNat
<1>6. QED
  BY <1>1, <1>2, <1>3, <1>4, <1>5

\* Values that add up row by row.
LEMMA SumOfSums ==
    ASSUME NEW f, NEW g, NEW h, NEW S, IsFiniteSet(S),
           \A x \in S : f[x] \in Nat /\ g[x] \in Nat /\ h[x] = f[x] + g[x]
    PROVE  SumFunctionOnSet(h, S) = SumFunctionOnSet(f, S) + SumFunctionOnSet(g, S)
<1> DEFINE F == {T \in SUBSET S : SumFunctionOnSet(h, T)
                                    = SumFunctionOnSet(f, T) + SumFunctionOnSet(g, T)}
<1>1. {} \in F
  BY SumOfNone
<1>2. \A T \in F : \A x \in S \ T : T \subseteq S => T \cup {x} \in F
  <2>1. SUFFICES ASSUME NEW T \in F, NEW x \in S \ T PROVE T \cup {x} \in F
    OBVIOUS
  <2>2. T \in SUBSET S /\ IsFiniteSet(T) /\ T \cup {x} \in SUBSET S
    BY FS_Subset
  <2>3. \A y \in T \cup {x} : f[y] \in Nat /\ g[y] \in Nat /\ h[y] \in Nat
    BY <2>2
  <2>4. /\ SumFunctionOnSet(f, T \cup {x}) = SumFunctionOnSet(f, T) + f[x]
        /\ SumFunctionOnSet(g, T \cup {x}) = SumFunctionOnSet(g, T) + g[x]
        /\ SumFunctionOnSet(h, T \cup {x}) = SumFunctionOnSet(h, T) + h[x]
    BY <2>2, <2>3, SumOfMore
  <2>5. SumFunctionOnSet(f, T) \in Nat /\ SumFunctionOnSet(g, T) \in Nat
    BY <2>2, <2>3, SumInNat
  <2>6. h[x] = f[x] + g[x] /\ f[x] \in Nat /\ g[x] \in Nat
    OBVIOUS
  <2>7. SumFunctionOnSet(h, T) = SumFunctionOnSet(f, T) + SumFunctionOnSet(g, T)
    OBVIOUS
  <2>8. SumFunctionOnSet(h, T \cup {x})
          = SumFunctionOnSet(f, T \cup {x}) + SumFunctionOnSet(g, T \cup {x})
    <3> HIDE DEF F
    <3>1. QED
      BY <2>4, <2>5, <2>6, <2>7
  <2>9. QED
    BY <2>2, <2>8
<1>3. S \in F
  <2> HIDE DEF F
  <2>1. QED
    BY <1>1, <1>2, SubsetInduction
<1>4. QED
  BY <1>3

LEMMA SumOfZeros ==
    ASSUME NEW f, NEW S, IsFiniteSet(S), \A x \in S : f[x] = 0
    PROVE  SumFunctionOnSet(f, S) = 0
<1>1. Cells(f, S) = {}
  BY DEF Cells
<1>2. SumFunctionOnSet(f, S) = Cardinality(Cells(f, S))
  BY SumIsCells
<1>3. QED
  BY <1>1, <1>2, FS_EmptySet

\* Zeros add nothing.
LEMMA SumPadded ==
    ASSUME NEW f, NEW S, IsFiniteSet(S), NEW T \in SUBSET S,
           \A x \in T : f[x] \in Nat, \A x \in S \ T : f[x] = 0
    PROVE  SumFunctionOnSet(f, S) = SumFunctionOnSet(f, T)
<1>1. Cells(f, S) = Cells(f, T)
  BY DEF Cells
<1>2. IsFiniteSet(T) /\ \A x \in S : f[x] \in Nat
  BY FS_Subset
<1>3. QED
  BY <1>1, <1>2, SumIsCells
==============================================================================
