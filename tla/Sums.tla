-------------------------------- MODULE Sums --------------------------------
(***************************************************************************)
(* What the proofs need to know of SumFunctionOnSet of the community       *)
(* modules: a sum over a finite set of rows grows by the row added, does   *)
(* not depend on the order, and compares term by term.                     *)
(*                                                                         *)
(* Induction over the subsets of a finite set is by a minimal subset that  *)
(* fails, which is a first-order fact (WFMin).                             *)
(***************************************************************************)
EXTENDS Integers, Functions, FiniteSetTheorems, TLAPS

\* What holds of a subset whenever it holds of the subset less any one of its
\* elements holds of every subset.
LEMMA SubsetInduction ==
    ASSUME NEW S, IsFiniteSet(S), NEW G,
           \A T \in SUBSET S : (\A x \in T : T \ {x} \in G) => T \in G
    PROVE  \A T \in SUBSET S : T \in G
<1> DEFINE Bad == {T \in SUBSET S : T \notin G}
<1>1. SUFFICES ASSUME Bad # {} PROVE FALSE
  OBVIOUS
<1>2. Bad \subseteq FiniteSubsetsOf(S)
  BY FS_Subset DEF FiniteSubsetsOf
<1>3. \E T \in Bad : \A U \in Bad : ~(<<U, T>> \in StrictSubsetOrdering(S))
  <2> HIDE DEF Bad
  <2> QED  BY ONLY <1>1, <1>2, FS_StrictSubsetOrderingWellFounded, WFMin
<1>4. PICK T \in Bad : \A U \in Bad : ~(<<U, T>> \in StrictSubsetOrdering(S))
  BY <1>3
<1>5. PICK x \in T : T \ {x} \notin G
  BY <1>4
<1>6. <<T \ {x}, T>> \in StrictSubsetOrdering(S)
  BY <1>5 DEF StrictSubsetOrdering
<1>7. T \ {x} \in G
  BY <1>4, <1>6
<1> QED  BY <1>5, <1>7

-----------------------------------------------------------------------------
(* The recursion of a sum *)

\* h is the table of the sums of f over the subsets of S.
Entry(f, h, T) ==
    IF T = {} THEN 0
    ELSE LET x == CHOOSE x \in T : TRUE IN f[x] + h[T \ {x}]
IsTable(f, h, S) == h = [T \in SUBSET S |-> Entry(f, h, T)]

\* Two tables agree where both have an entry.
LEMMA TablesAgree ==
    ASSUME NEW f, NEW S, IsFiniteSet(S), NEW R, S \subseteq R,
           NEW g, NEW h, IsTable(f, g, S), IsTable(f, h, R)
    PROVE  g[S] = h[S]
<1> DEFINE Good == {T \in SUBSET S : g[T] = h[T]}
<1>1. ASSUME NEW T \in SUBSET S, \A x \in T : T \ {x} \in Good
      PROVE  T \in Good
  <2>1. T \in SUBSET R /\ g[T] = Entry(f, g, T) /\ h[T] = Entry(f, h, T)
    BY DEF IsTable
  <2>2. \A x \in T : g[T \ {x}] = h[T \ {x}]
    BY <1>1
  <2>3. T # {} => (CHOOSE x \in T : TRUE) \in T
    OBVIOUS
  <2>4. Entry(f, g, T) = Entry(f, h, T)
    BY <2>2, <2>3 DEF Entry
  <2> QED  BY <2>1, <2>4
<1>2. \A T \in SUBSET S : T \in Good
  <2> HIDE DEF Good
  <2> QED  BY ONLY IsFiniteSet(S), <1>1, SubsetInduction
<1> QED  BY <1>2

\* The part of a table over a smaller set is that set's table.
LEMMA SubTable ==
    ASSUME NEW f, NEW R, NEW S, S \subseteq R, NEW h, IsTable(f, h, R)
    PROVE  IsTable(f, [T \in SUBSET S |-> h[T]], S)
<1> DEFINE g == [T \in SUBSET S |-> h[T]]
<1>1. ASSUME NEW T \in SUBSET S PROVE g[T] = Entry(f, g, T)
  <2>1. T \in SUBSET R /\ h[T] = Entry(f, h, T)
    BY DEF IsTable
  <2>2. T # {} => (CHOOSE x \in T : TRUE) \in T
    OBVIOUS
  <2> QED  BY <2>1, <2>2 DEF Entry
<1> HIDE DEF g
<1>2. g = [T \in SUBSET S |-> g[T]]
  BY DEF g
<1>3. IsTable(f, g, S)
  BY <1>1, <1>2 DEF IsTable
<1> QED  BY <1>3 DEF g

\* Every finite set has a table: the recursion is well-founded.
LEMMA TableExists ==
    ASSUME NEW f, NEW S, IsFiniteSet(S)
    PROVE  \E h : IsTable(f, h, S)
<1> DEFINE Good == {T \in SUBSET S : \E h : IsTable(f, h, T)}
<1>1. ASSUME NEW T \in SUBSET S, \A x \in T : T \ {x} \in Good
      PROVE  T \in Good
  <2> DEFINE Table(U) == CHOOSE h : IsTable(f, h, U)
             c == CHOOSE x \in T : TRUE
             top == IF T = {} THEN 0 ELSE f[c] + Table(T \ {c})[T \ {c}]
             H == [U \in SUBSET T |-> IF U = T THEN top ELSE Table(U)[U]]
  <2>1. \A U \in SUBSET T : U # T => IsTable(f, Table(U), U)
    <3> SUFFICES ASSUME NEW U \in SUBSET T, U # T
                 PROVE  \E h : IsTable(f, h, U)
      OBVIOUS
    <3>1. PICK x \in T : U \subseteq T \ {x}
      OBVIOUS
    <3>2. PICK h : IsTable(f, h, T \ {x})
      BY <1>1
    <3> QED  BY <3>1, <3>2, SubTable
  <2>2. ASSUME NEW U \in SUBSET T PROVE H[U] = Entry(f, H, U)
    <3> DEFINE x == CHOOSE x \in U : TRUE
    <3>1. CASE U = {}
      <4>1. U # T => Table(U)[U] = Entry(f, Table(U), U)
        BY <2>1 DEF IsTable
      <4> QED  BY <3>1, <4>1 DEF Entry
    <3>2. CASE U # {}
      <4>1. x \in U /\ U \ {x} \in SUBSET T /\ U \ {x} # T /\ U \ {x} # U
        BY <3>2
      <4>2. H[U \ {x}] = Table(U \ {x})[U \ {x}]
        BY <4>1
      <4>3. Entry(f, H, U) = f[x] + Table(U \ {x})[U \ {x}]
        BY <3>2, <4>2 DEF Entry
      <4>4. CASE U = T
        BY <3>2, <4>3, <4>4
      <4>5. CASE U # T
        <5>1. H[U] = Table(U)[U]
          BY <4>5
        <5>2. IsTable(f, Table(U), U) /\ IsTable(f, Table(U \ {x}), U \ {x})
          BY <2>1, <4>1, <4>5
        <5>3. Table(U)[U] = f[x] + Table(U)[U \ {x}]
          BY <3>2, <5>2 DEF IsTable, Entry
        <5>4. IsFiniteSet(U \ {x})
          BY FS_Subset
        <5> HIDE DEF Table, x
        <5>5. Table(U \ {x})[U \ {x}] = Table(U)[U \ {x}]
          BY <5>2, <5>4, TablesAgree
        <5> QED  BY <4>3, <5>1, <5>3, <5>5
      <4> QED  BY <4>4, <4>5
    <3> QED  BY <3>1, <3>2
  <2>3. H = [U \in SUBSET T |-> H[U]]
    OBVIOUS
  <2> HIDE DEF H
  <2>4. IsTable(f, H, T)
    BY <2>2, <2>3 DEF IsTable
  <2> QED  BY <2>4
<1>2. \A T \in SUBSET S : T \in Good
  <2> HIDE DEF Good
  <2> QED  BY ONLY IsFiniteSet(S), <1>1, SubsetInduction
<1> QED  BY <1>2

\* The sum of a set is a first term and the sum of the rest.
LEMMA SumUnfolds ==
    ASSUME NEW f, NEW S, IsFiniteSet(S)
    PROVE  SumFunctionOnSet(f, S) =
             IF S = {} THEN 0
             ELSE LET x == CHOOSE x \in S : TRUE
                  IN  f[x] + SumFunctionOnSet(f, S \ {x})
<1> DEFINE Table(U) == CHOOSE h : IsTable(f, h, U)
<1>1. \A U : SumFunctionOnSet(f, U) = Table(U)[U]
  BY DEF SumFunctionOnSet, FoldFunctionOnSet, MapThenFoldSet, IsTable, Entry
<1>2. IsTable(f, Table(S), S)
  BY TableExists
<1>3. Table(S)[S] = Entry(f, Table(S), S)
  BY <1>2 DEF IsTable
<1>4. CASE S = {}
  BY <1>1, <1>3, <1>4 DEF Entry
<1>5. CASE S # {}
  <2> DEFINE x == CHOOSE x \in S : TRUE
  <2>1. x \in S /\ IsFiniteSet(S \ {x})
    BY <1>5, FS_Subset
  <2>2. IsTable(f, Table(S \ {x}), S \ {x})
    BY <2>1, TableExists
  <2>3. Table(S)[S] = f[x] + Table(S)[S \ {x}]
    BY <1>3, <1>5 DEF Entry
  <2> HIDE DEF Table, x
  <2>4. Table(S)[S \ {x}] = Table(S \ {x})[S \ {x}]
    BY <1>2, <2>1, <2>2, TablesAgree
  <2>5. SumFunctionOnSet(f, S) = f[x] + SumFunctionOnSet(f, S \ {x})
    BY <1>1, <2>3, <2>4
  <2> QED  BY <1>5, <2>5 DEF x
<1> QED  BY <1>4, <1>5

-----------------------------------------------------------------------------
(* Laws of sums *)

\* Nothing adds up to nothing.
LEMMA SumEmpty == \A f : SumFunctionOnSet(f, {}) = 0
  BY SumUnfolds, FS_EmptySet

\* A sum of whole numbers is one.
LEMMA SumInt ==
    ASSUME NEW f, NEW S, IsFiniteSet(S), \A x \in S : f[x] \in Int
    PROVE  SumFunctionOnSet(f, S) \in Int
<1> DEFINE Good == {T \in SUBSET S : SumFunctionOnSet(f, T) \in Int}
<1>1. ASSUME NEW T \in SUBSET S, \A x \in T : T \ {x} \in Good
      PROVE  T \in Good
  <2> DEFINE c == CHOOSE x \in T : TRUE
  <2>1. IsFiniteSet(T) /\ (T # {} => c \in T)
    BY FS_Subset
  <2>2. SumFunctionOnSet(f, T) =
          IF T = {} THEN 0 ELSE f[c] + SumFunctionOnSet(f, T \ {c})
    BY <2>1, SumUnfolds
  <2> HIDE DEF c
  <2>3. CASE T # {}
    <3>1. f[c] \in Int /\ SumFunctionOnSet(f, T \ {c}) \in Int
      BY <1>1, <2>1, <2>3
    <3> QED  BY <2>2, <2>3, <3>1
  <2> QED  BY <2>2, <2>3
<1>2. \A T \in SUBSET S : T \in Good
  <2> HIDE DEF Good
  <2> QED  BY ONLY IsFiniteSet(S), <1>1, SubsetInduction
<1> QED  BY <1>2

\* Any element may be taken out first.
LEMMA SumRemove ==
    ASSUME NEW f, NEW S, IsFiniteSet(S), \A x \in S : f[x] \in Int,
           NEW e \in S
    PROVE  SumFunctionOnSet(f, S) = f[e] + SumFunctionOnSet(f, S \ {e})
<1> DEFINE Sum(T) == SumFunctionOnSet(f, T)
           Good == {T \in SUBSET S : \A x \in T : Sum(T) = f[x] + Sum(T \ {x})}
<1>1. ASSUME NEW T \in SUBSET S, \A x \in T : T \ {x} \in Good
      PROVE  T \in Good
  <2> DEFINE c == CHOOSE x \in T : TRUE
  <2> SUFFICES ASSUME NEW x \in T PROVE Sum(T) = f[x] + Sum(T \ {x})
    OBVIOUS
  <2>1. c \in T /\ IsFiniteSet(T)
    BY FS_Subset
  <2>2. Sum(T) = f[c] + Sum(T \ {c})
    BY <2>1, SumUnfolds
  <2> HIDE DEF c, Sum
  <2>3. CASE x # c
    <3>1. Sum(T \ {c}) = f[x] + Sum((T \ {c}) \ {x})
      BY <1>1, <2>1, <2>3
    <3>2. Sum(T \ {x}) = f[c] + Sum((T \ {x}) \ {c})
      BY <1>1, <2>1, <2>3
    <3>3. (T \ {c}) \ {x} = (T \ {x}) \ {c}
      OBVIOUS
    <3>4. Sum((T \ {x}) \ {c}) \in Int
      <4>1. IsFiniteSet((T \ {x}) \ {c})
        BY <2>1, FS_Subset
      <4> QED  BY <4>1, SumInt DEF Sum
    <3>5. f[x] \in Int /\ f[c] \in Int
      BY <2>1
    <3> DEFINE rest == Sum((T \ {x}) \ {c})
    <3>6. /\ Sum(T) = f[c] + (f[x] + rest) /\ Sum(T \ {x}) = f[c] + rest
          /\ rest \in Int
      BY <2>2, <3>1, <3>2, <3>3, <3>4
    <3> HIDE DEF rest
    <3> QED  BY <3>5, <3>6
  <2> QED  BY <2>2, <2>3
<1>2. \A T \in SUBSET S : T \in Good
  <2> HIDE DEF Good
  <2> QED  BY ONLY IsFiniteSet(S), <1>1, SubsetInduction
<1> QED  BY <1>2

\* A row more adds its term.
LEMMA SumAdd ==
    ASSUME NEW f, NEW S, IsFiniteSet(S), \A x \in S : f[x] \in Int,
           NEW e, e \notin S, f[e] \in Int
    PROVE  SumFunctionOnSet(f, S \cup {e}) = SumFunctionOnSet(f, S) + f[e]
<1>1. IsFiniteSet(S \cup {e}) /\ (S \cup {e}) \ {e} = S
  BY FS_AddElement
<1>2. SumFunctionOnSet(f, S) \in Int
  BY SumInt
<1> QED  BY <1>1, <1>2, SumRemove

\* A sum is that of its terms, whatever the function is elsewhere.
LEMMA SumSameTerms ==
    ASSUME NEW f, NEW g, NEW S, IsFiniteSet(S), \A x \in S : f[x] = g[x]
    PROVE  SumFunctionOnSet(f, S) = SumFunctionOnSet(g, S)
<1> DEFINE Good == {T \in SUBSET S :
                       SumFunctionOnSet(f, T) = SumFunctionOnSet(g, T)}
<1>1. ASSUME NEW T \in SUBSET S, \A x \in T : T \ {x} \in Good
      PROVE  T \in Good
  <2> DEFINE c == CHOOSE x \in T : TRUE
  <2>1. IsFiniteSet(T) /\ (T # {} => c \in T)
    BY FS_Subset
  <2>2. /\ SumFunctionOnSet(f, T) =
             IF T = {} THEN 0 ELSE f[c] + SumFunctionOnSet(f, T \ {c})
        /\ SumFunctionOnSet(g, T) =
             IF T = {} THEN 0 ELSE g[c] + SumFunctionOnSet(g, T \ {c})
    BY <2>1, SumUnfolds
  <2> HIDE DEF c
  <2> QED  BY <1>1, <2>1, <2>2
<1>2. \A T \in SUBSET S : T \in Good
  <2> HIDE DEF Good
  <2> QED  BY ONLY IsFiniteSet(S), <1>1, SubsetInduction
<1> QED  BY <1>2

\* Sums compare as their terms do.
LEMMA SumMonotone ==
    ASSUME NEW f, NEW g, NEW S, IsFiniteSet(S),
           \A x \in S : f[x] \in Int /\ g[x] \in Int /\ f[x] <= g[x]
    PROVE  SumFunctionOnSet(f, S) <= SumFunctionOnSet(g, S)
<1> DEFINE Good == {T \in SUBSET S :
                       SumFunctionOnSet(f, T) <= SumFunctionOnSet(g, T)}
<1>1. ASSUME NEW T \in SUBSET S, \A x \in T : T \ {x} \in Good
      PROVE  T \in Good
  <2>1. CASE T = {}
    BY <2>1, SumEmpty
  <2>2. CASE T # {}
    <3>1. PICK e \in T : TRUE
      BY <2>2
    <3>2. IsFiniteSet(T) /\ IsFiniteSet(T \ {e})
      BY FS_Subset
    <3>3. /\ SumFunctionOnSet(f, T) = f[e] + SumFunctionOnSet(f, T \ {e})
          /\ SumFunctionOnSet(g, T) = g[e] + SumFunctionOnSet(g, T \ {e})
      BY <3>1, <3>2, SumRemove
    <3>4. /\ SumFunctionOnSet(f, T \ {e}) \in Int
          /\ SumFunctionOnSet(g, T \ {e}) \in Int
      BY <3>2, SumInt
    <3>5. SumFunctionOnSet(f, T \ {e}) <= SumFunctionOnSet(g, T \ {e})
      BY <1>1, <3>1
    <3>6. f[e] \in Int /\ g[e] \in Int /\ f[e] <= g[e]
      BY <3>1
    <3> QED  BY <3>3, <3>4, <3>5, <3>6
  <2> QED  BY <2>1, <2>2
<1>2. \A T \in SUBSET S : T \in Good
  <2> HIDE DEF Good
  <2> QED  BY ONLY IsFiniteSet(S), <1>1, SubsetInduction
<1> QED  BY <1>2

\* A sum over two sets apart is the two sums.
LEMMA SumOfUnion ==
    ASSUME NEW f, NEW R, NEW S, IsFiniteSet(R), IsFiniteSet(S), R \cap S = {},
           \A x \in R \cup S : f[x] \in Int
    PROVE  SumFunctionOnSet(f, R \cup S) =
             SumFunctionOnSet(f, R) + SumFunctionOnSet(f, S)
<1> DEFINE Sum(T) == SumFunctionOnSet(f, T)
           Good == {T \in SUBSET S : Sum(R \cup T) = Sum(R) + Sum(T)}
<1>1. ASSUME NEW T \in SUBSET S, \A x \in T : T \ {x} \in Good
      PROVE  T \in Good
  <2>1. IsFiniteSet(T) /\ IsFiniteSet(R \cup T) /\ Sum(R) \in Int
    BY FS_Subset, FS_Union, SumInt
  <2>2. CASE T = {}
    BY <2>1, <2>2, SumEmpty
  <2>3. CASE T # {}
    <3>1. PICK e \in T : TRUE
      BY <2>3
    <3>2. Sum(R \cup T) = f[e] + Sum((R \cup T) \ {e})
      BY <2>1, <3>1, SumRemove
    <3>3. Sum(T) = f[e] + Sum(T \ {e}) /\ Sum(T \ {e}) \in Int
      BY <2>1, <3>1, SumRemove, SumInt, FS_Subset
    <3>4. Sum((R \cup T) \ {e}) = Sum(R \cup (T \ {e}))
      <4>1. (R \cup T) \ {e} = R \cup (T \ {e})
        BY <3>1
      <4> QED  BY <4>1
    <3>5. Sum(R \cup (T \ {e})) = Sum(R) + Sum(T \ {e}) /\ f[e] \in Int
      BY <1>1, <3>1
    <3> HIDE DEF Sum
    <3>6. Sum(R \cup T) = Sum(R) + Sum(T)
      BY <2>1, <3>2, <3>3, <3>4, <3>5
    <3> QED  BY <3>6
  <2> QED  BY <2>2, <2>3
<1>2. \A T \in SUBSET S : T \in Good
  <2> HIDE DEF Good
  <2> QED  BY ONLY IsFiniteSet(S), <1>1, SubsetInduction
<1> QED  BY <1>2

\* A sum of terms all multiplied by one number is the sum multiplied by it.
LEMMA SumScaled ==
    ASSUME NEW f, NEW g, NEW c \in Int, NEW S, IsFiniteSet(S),
           \A x \in S : g[x] \in Int /\ f[x] = c * g[x]
    PROVE  SumFunctionOnSet(f, S) = c * SumFunctionOnSet(g, S)
<1> DEFINE F(T) == SumFunctionOnSet(f, T)
           G(T) == SumFunctionOnSet(g, T)
           Good == {T \in SUBSET S : F(T) = c * G(T)}
<1>1. ASSUME NEW T \in SUBSET S, \A x \in T : T \ {x} \in Good
      PROVE  T \in Good
  <2>1. CASE T = {}
    BY <2>1, SumEmpty
  <2>2. CASE T # {}
    <3>1. PICK e \in T : TRUE
      BY <2>2
    <3>2. IsFiniteSet(T) /\ IsFiniteSet(T \ {e})
      BY FS_Subset
    <3>3. \A x \in S : f[x] \in Int
      OBVIOUS
    <3>4. F(T) = f[e] + F(T \ {e}) /\ G(T) = g[e] + G(T \ {e})
      BY <3>1, <3>2, <3>3, SumRemove
    <3>5. G(T \ {e}) \in Int /\ F(T \ {e}) = c * G(T \ {e})
      BY <1>1, <3>1, <3>2, SumInt
    <3>6. g[e] \in Int /\ f[e] = c * g[e]
      BY <3>1
    <3> HIDE DEF F, G
    <3>7. F(T) = c * G(T)
      BY <3>4, <3>5, <3>6
    <3> QED  BY <3>7
  <2> QED  BY <2>1, <2>2
<1>2. \A T \in SUBSET S : T \in Good
  <2> HIDE DEF Good
  <2> QED  BY ONLY IsFiniteSet(S), <1>1, SubsetInduction
<1> QED  BY <1>2

\* Nothing of everyone is nothing.
LEMMA SumZero ==
    ASSUME NEW f, NEW S, IsFiniteSet(S), \A x \in S : f[x] = 0
    PROVE  SumFunctionOnSet(f, S) = 0
<1>1. SumFunctionOnSet(f, S) = 0 * SumFunctionOnSet(f, S)
  BY SumScaled
<1>2. SumFunctionOnSet(f, S) \in Int
  BY SumInt
<1> QED  BY <1>1, <1>2

\* A sum of nothing negative is not negative, is at least any of its terms,
\* and is at least what a part of it comes to.
LEMMA SumNat ==
    ASSUME NEW f, NEW S, IsFiniteSet(S), \A x \in S : f[x] \in Nat
    PROVE  /\ SumFunctionOnSet(f, S) \in Nat
           /\ \A x \in S : f[x] <= SumFunctionOnSet(f, S)
           /\ \A T \in SUBSET S :
                 SumFunctionOnSet(f, T) <= SumFunctionOnSet(f, S)
<1>1. ASSUME NEW T \in SUBSET S
      PROVE  IsFiniteSet(T) /\ SumFunctionOnSet(f, T) \in Nat
  <2> DEFINE zero == [x \in S |-> 0]
  <2>1. IsFiniteSet(T)
    BY FS_Subset
  <2>2. SumFunctionOnSet(zero, T) = 0
    BY <2>1, SumZero
  <2>3. SumFunctionOnSet(zero, T) <= SumFunctionOnSet(f, T)
    BY <2>1, SumMonotone
  <2>4. SumFunctionOnSet(f, T) \in Int
    BY <2>1, SumInt
  <2> QED  BY <2>1, <2>2, <2>3, <2>4
<1>2. ASSUME NEW T \in SUBSET S
      PROVE  SumFunctionOnSet(f, T) <= SumFunctionOnSet(f, S)
  <2>1. S = T \cup (S \ T) /\ T \cap (S \ T) = {}
    OBVIOUS
  <2>2. SumFunctionOnSet(f, S) =
          SumFunctionOnSet(f, T) + SumFunctionOnSet(f, S \ T)
    <3>1. IsFiniteSet(T) /\ IsFiniteSet(S \ T)
      BY FS_Subset
    <3>2. \A x \in T \cup (S \ T) : f[x] \in Int
      OBVIOUS
    <3> HIDE DEF SumFunctionOnSet
    <3> QED  BY <2>1, <3>1, <3>2, SumOfUnion
  <2> QED  BY <1>1, <2>2
<1>3. ASSUME NEW x \in S
      PROVE  f[x] <= SumFunctionOnSet(f, S)
  <2>1. SumFunctionOnSet(f, S) = f[x] + SumFunctionOnSet(f, S \ {x})
    BY SumRemove
  <2> QED  BY <1>1, <2>1
<1> QED  BY <1>1, <1>2, <1>3

\* A change of one term changes the sum by as much.
LEMMA SumChanged ==
    ASSUME NEW f, NEW g, NEW S, IsFiniteSet(S), NEW e \in S,
           \A x \in S : f[x] \in Int /\ g[x] \in Int,
           \A x \in S \ {e} : g[x] = f[x]
    PROVE  SumFunctionOnSet(g, S) = SumFunctionOnSet(f, S) + (g[e] - f[e])
<1> DEFINE F == SumFunctionOnSet(f, S \ {e})
           G == SumFunctionOnSet(g, S \ {e})
<1>1. IsFiniteSet(S \ {e})
  BY FS_RemoveElement
<1>2. F = G
  BY <1>1, SumSameTerms
<1>3. SumFunctionOnSet(f, S) = f[e] + F /\ SumFunctionOnSet(g, S) = g[e] + G
  BY SumRemove
<1>4. F \in Int /\ f[e] \in Int /\ g[e] \in Int
  BY <1>1, SumInt
<1> HIDE DEF F, G
<1> QED  BY <1>2, <1>3, <1>4

\* A sum of terms in two parts is the sums of the parts.
LEMMA SumPlus ==
    ASSUME NEW f, NEW g, NEW h, NEW S, IsFiniteSet(S),
           \A x \in S : g[x] \in Int /\ h[x] \in Int /\ f[x] = g[x] + h[x]
    PROVE  SumFunctionOnSet(f, S) =
             SumFunctionOnSet(g, S) + SumFunctionOnSet(h, S)
<1> DEFINE F(T) == SumFunctionOnSet(f, T)
           G(T) == SumFunctionOnSet(g, T)
           H(T) == SumFunctionOnSet(h, T)
           Good == {T \in SUBSET S : F(T) = G(T) + H(T)}
<1>1. ASSUME NEW T \in SUBSET S, \A x \in T : T \ {x} \in Good
      PROVE  T \in Good
  <2>1. CASE T = {}
    BY <2>1, SumEmpty
  <2>2. CASE T # {}
    <3>1. PICK e \in T : TRUE
      BY <2>2
    <3>2. IsFiniteSet(T) /\ IsFiniteSet(T \ {e}) /\ \A x \in S : f[x] \in Int
      BY FS_Subset
    <3>3. /\ F(T) = f[e] + F(T \ {e}) /\ G(T) = g[e] + G(T \ {e})
          /\ H(T) = h[e] + H(T \ {e})
      BY <3>1, <3>2, SumRemove
    <3>4. /\ G(T \ {e}) \in Int /\ H(T \ {e}) \in Int
          /\ F(T \ {e}) = G(T \ {e}) + H(T \ {e})
      BY <1>1, <3>1, <3>2, SumInt
    <3>5. g[e] \in Int /\ h[e] \in Int /\ f[e] = g[e] + h[e]
      BY <3>1
    <3> HIDE DEF F, G, H
    <3>6. F(T) = G(T) + H(T)
      BY <3>3, <3>4, <3>5
    <3> QED  BY <3>6
  <2> QED  BY <2>1, <2>2
<1>2. \A T \in SUBSET S : T \in Good
  <2> HIDE DEF Good
  <2> QED  BY ONLY IsFiniteSet(S), <1>1, SubsetInduction
<1> QED  BY <1>2

\* Terms that are nothing may be left out.
LEMMA SumOfPart ==
    ASSUME NEW f, NEW S, IsFiniteSet(S), NEW T, T \subseteq S,
           \A x \in T : f[x] \in Int, \A x \in S \ T : f[x] = 0
    PROVE  SumFunctionOnSet(f, S) = SumFunctionOnSet(f, T)
<1>1. IsFiniteSet(T) /\ IsFiniteSet(S \ T)
  BY FS_Subset
<1>2. SumFunctionOnSet(f, S \ T) = 0 /\ SumFunctionOnSet(f, T) \in Int
  BY <1>1, SumZero, SumInt
<1>3. SumFunctionOnSet(f, T \cup (S \ T)) =
        SumFunctionOnSet(f, T) + SumFunctionOnSet(f, S \ T)
  <2>1. T \cap (S \ T) = {} /\ \A x \in T \cup (S \ T) : f[x] \in Int
    OBVIOUS
  <2> QED  BY <1>1, <2>1, SumOfUnion
<1>4. SumFunctionOnSet(f, S) = SumFunctionOnSet(f, T \cup (S \ T))
  <2>1. S = T \cup (S \ T)
    OBVIOUS
  <2> QED  BY <2>1
<1> QED  BY <1>2, <1>3, <1>4

-----------------------------------------------------------------------------
(* Counting *)

\* Some number of a set of numbers is the least.
LEMMA LeastNumber ==
    ASSUME NEW S, S \subseteq Nat, S # {}
    PROVE  \E m \in S : \A n \in S : m <= n
<1> DEFINE Less == OpToRel(<, Nat)
<1>1. \A m, n \in Nat : m < n => <<m, n>> \in Less
  BY DEF OpToRel
<1>2. IsWellFoundedOn(Less, Nat)
  BY NatLessThanWellFounded
<1> HIDE DEF Less
<1>3. \E m \in S : \A n \in S : ~(<<n, m>> \in Less)
  BY ONLY S \subseteq Nat, S # {}, <1>2, WFMin
<1>4. PICK m \in S : \A n \in S : ~(<<n, m>> \in Less)
  BY <1>3
<1>5. ASSUME NEW n \in S PROVE m <= n
  <2>1. n \in Nat /\ m \in Nat
    OBVIOUS
  <2>2. ~(n < m)
    BY <1>1, <1>4, <2>1
  <2> QED  BY <2>1, <2>2
<1> QED  BY <1>5

\* And of numbers that none exceeds one is the greatest.
LEMMA GreatestNumber ==
    ASSUME NEW N \in Nat, NEW S, S \subseteq 0..N, S # {}
    PROVE  \E m \in S : \A n \in S : n <= m
<1> DEFINE short == {N - n : n \in S}
<1>1. short \subseteq Nat /\ short # {}
  <2>1. ASSUME NEW n \in S PROVE N - n \in Nat
    <3>1. n \in 0..N
      OBVIOUS
    <3> QED  BY <3>1
  <2> QED  BY <2>1
<1>2. PICK t \in short : \A u \in short : t <= u
  <2> HIDE DEF short
  <2> QED  BY <1>1, LeastNumber
<1>3. PICK m \in S : t = N - m
  OBVIOUS
<1>4. ASSUME NEW n \in S PROVE n <= m
  <2>1. n \in Int /\ m \in Int /\ t <= N - n
    BY <1>2
  <2> QED  BY <1>3, <2>1
<1> QED  BY <1>4

\* What holds of 0 and, when of a number, of the next holds of every number.
LEMMA NumberInduction ==
    ASSUME NEW G, 0 \in G, \A n \in Nat : n \in G => n + 1 \in G
    PROVE  \A n \in Nat : n \in G
<1> DEFINE Bad == {n \in Nat : n \notin G}
<1>1. SUFFICES ASSUME Bad # {} PROVE FALSE
  OBVIOUS
<1>2. \E n \in Bad : \A m \in Bad : n <= m
  <2>1. Bad \subseteq Nat
    OBVIOUS
  <2> HIDE DEF Bad
  <2> QED  BY ONLY <1>1, <2>1, LeastNumber
<1>3. PICK n \in Bad : \A m \in Bad : n <= m
  BY <1>2
<1>4. n \in Nat \ {0}
  BY <1>3
<1>5. n - 1 \in Nat /\ ~(n <= n - 1) /\ (n - 1) + 1 = n
  BY <1>4
<1>6. n - 1 \in G
  BY <1>3, <1>5
<1>7. (n - 1) + 1 \in G
  BY <1>5, <1>6
<1> QED  BY <1>3, <1>5, <1>7

\* How often each row is hit adds up to the number of hits.
LEMMA HitsAddUp ==
    ASSUME NEW S, IsFiniteSet(S), NEW N \in Nat, NEW h,
           \A k \in 1..N : h[k] \in S
    PROVE  SumFunctionOnSet(
               [i \in S |-> Cardinality({k \in 1..N : h[k] = i})], S) = N
<1> DEFINE Hits(n, i) == {k \in 1..n : h[k] = i}
           count(n) == [i \in S |-> Cardinality(Hits(n, i))]
           Good == {n \in Nat : n <= N => SumFunctionOnSet(count(n), S) = n}
<1>1. ASSUME NEW n \in Nat, NEW i
      PROVE  IsFiniteSet(Hits(n, i)) /\ Cardinality(Hits(n, i)) \in Nat
  <2>1. IsFiniteSet(1..n)
    BY FS_Interval
  <2> QED  BY <2>1, FS_Subset, FS_CardinalityType
<1>2. 0 \in Good
  <2>1. \A i \in S : count(0)[i] = 0
    BY FS_EmptySet
  <2> HIDE DEF count
  <2> QED  BY <2>1, SumZero
<1>3. ASSUME NEW n \in Nat, n \in Good PROVE n + 1 \in Good
  <2> SUFFICES ASSUME n + 1 <= N
               PROVE  SumFunctionOnSet(count(n + 1), S) = n + 1
    OBVIOUS
  <2> DEFINE e == h[n + 1]
  <2>1. e \in S /\ SumFunctionOnSet(count(n), S) = n
    BY <1>3
  <2>2. Hits(n + 1, e) = Hits(n, e) \cup {n + 1} /\ n + 1 \notin Hits(n, e)
    OBVIOUS
  <2>3. \A i \in S \ {e} : Hits(n + 1, i) = Hits(n, i)
    OBVIOUS
  <2>4. Cardinality(Hits(n + 1, e)) = Cardinality(Hits(n, e)) + 1
    <3>1. IsFiniteSet(Hits(n, e))
      BY <1>1
    <3>2. Cardinality(Hits(n, e) \cup {n + 1}) = Cardinality(Hits(n, e)) + 1
      <4> HIDE DEF Hits
      <4> QED  BY <2>2, <3>1, FS_AddElement
    <3> QED  BY <2>2, <3>2
  <2>5. /\ \A i \in S : count(n)[i] \in Int /\ count(n + 1)[i] \in Int
        /\ \A i \in S \ {e} : count(n + 1)[i] = count(n)[i]
        /\ count(n + 1)[e] = count(n)[e] + 1
    <3> HIDE DEF Hits
    <3> QED  BY <1>1, <2>1, <2>3, <2>4
  <2> HIDE DEF count, e
  <2>6. SumFunctionOnSet(count(n + 1), S)
          = SumFunctionOnSet(count(n), S) + (count(n + 1)[e] - count(n)[e])
    BY <2>1, <2>5, SumChanged
  <2> QED  BY <2>1, <2>5, <2>6
<1>4. \A n \in Nat : n \in Good
  <2> HIDE DEF Good
  <2> QED  BY ONLY <1>2, <1>3, NumberInduction
<1> QED  BY <1>4

\* A set counted under other names has as many elements.
LEMMA ImageCounts ==
    ASSUME NEW K, IsFiniteSet(K), NEW s, \A i, j \in K : s[i] = s[j] => i = j
    PROVE  /\ IsFiniteSet({s[k] : k \in K})
           /\ Cardinality({s[k] : k \in K}) = Cardinality(K)
<1> DEFINE T == {s[k] : k \in K}
           to == [k \in K |-> s[k]]
<1>1. to \in Surjection(K, T)
  BY DEF Surjection
<1>2. to \in Injection(K, T)
  BY <1>1 DEF Surjection, Injection, IsInjective
<1> QED  BY <1>1, <1>2, FS_Surjection

\* A sum taken under other names is the same.
LEMMA SumReindexed ==
    ASSUME NEW K, IsFiniteSet(K), NEW s, \A i, j \in K : s[i] = s[j] => i = j,
           NEW f, \A k \in K : f[s[k]] \in Int
    PROVE  SumFunctionOnSet(f, {s[k] : k \in K})
             = SumFunctionOnSet([k \in K |-> f[s[k]]], K)
<1> DEFINE Image(T) == {s[k] : k \in T}
           g == [k \in K |-> f[s[k]]]
           Good == {T \in SUBSET K :
                       SumFunctionOnSet(f, Image(T)) = SumFunctionOnSet(g, T)}
<1>1. ASSUME NEW T \in SUBSET K, \A x \in T : T \ {x} \in Good
      PROVE  T \in Good
  <2>1. CASE T = {}
    BY <2>1, SumEmpty
  <2>2. CASE T # {}
    <3>1. PICK e \in T : TRUE
      BY <2>2
    <3>2. IsFiniteSet(T) /\ IsFiniteSet(Image(T))
      BY FS_Subset, ImageCounts
    <3>3. Image(T \ {e}) = Image(T) \ {s[e]} /\ s[e] \in Image(T)
      BY <3>1
    <3>4. SumFunctionOnSet(f, Image(T)) = f[s[e]] + SumFunctionOnSet(f, Image(T) \ {s[e]})
      <4>1. \A y \in Image(T) : f[y] \in Int
        OBVIOUS
      <4> HIDE DEF Image
      <4> QED  BY <3>2, <3>3, <4>1, SumRemove
    <3>5. SumFunctionOnSet(g, T) = g[e] + SumFunctionOnSet(g, T \ {e})
      <4>1. \A y \in T : g[y] \in Int
        OBVIOUS
      <4> HIDE DEF g
      <4> QED  BY <3>1, <3>2, <4>1, SumRemove
    <3>6. SumFunctionOnSet(f, Image(T \ {e})) = SumFunctionOnSet(g, T \ {e})
      BY <1>1, <3>1
    <3>7. g[e] = f[s[e]]
      BY <3>1
    <3> HIDE DEF Image, g
    <3>8. SumFunctionOnSet(f, Image(T)) = SumFunctionOnSet(g, T)
      BY <3>3, <3>4, <3>5, <3>6, <3>7
    <3> QED  BY <3>8
  <2> QED  BY <2>1, <2>2
<1>2. \A T \in SUBSET K : T \in Good
  <2> HIDE DEF Good
  <2> QED  BY ONLY IsFiniteSet(K), <1>1, SubsetInduction
<1> QED  BY <1>2

\* A sum of ones counts them.
LEMMA SumOfOnes ==
    ASSUME NEW f, NEW S, IsFiniteSet(S), \A x \in S : f[x] = 1
    PROVE  SumFunctionOnSet(f, S) = Cardinality(S)
<1> DEFINE Good == {T \in SUBSET S : SumFunctionOnSet(f, T) = Cardinality(T)}
<1>1. ASSUME NEW T \in SUBSET S, \A x \in T : T \ {x} \in Good
      PROVE  T \in Good
  <2>1. CASE T = {}
    BY <2>1, SumEmpty, FS_EmptySet
  <2>2. CASE T # {}
    <3>1. PICK e \in T : TRUE
      BY <2>2
    <3>2. IsFiniteSet(T) /\ Cardinality(T) \in Nat
      BY FS_Subset, FS_CardinalityType
    <3>3. SumFunctionOnSet(f, T) = f[e] + SumFunctionOnSet(f, T \ {e})
      BY <3>2, SumRemove
    <3>4. Cardinality(T \ {e}) = Cardinality(T) - 1
      BY <3>2, FS_RemoveElement
    <3>5. SumFunctionOnSet(f, T \ {e}) = Cardinality(T \ {e}) /\ f[e] = 1
      BY <1>1, <3>1
    <3> QED  BY <3>2, <3>3, <3>4, <3>5
  <2> QED  BY <2>1, <2>2
<1>2. \A T \in SUBSET S : T \in Good
  <2> HIDE DEF Good
  <2> QED  BY ONLY IsFiniteSet(S), <1>1, SubsetInduction
<1> QED  BY <1>2
=============================================================================
