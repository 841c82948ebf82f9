---------------------------------- MODULE Sums ----------------------------------
(***************************************************************************)
(* Facts about SumFunctionOnSet(f, S), the sum of f[x] over the elements x *)
(* of a finite set S.  Models keep sums of balances and of rows with it,   *)
(* and the proofs need what one changed balance does to a sum.             *)
(*                                                                         *)
(* Induction on finite sets is by their smallest counterexample (WFMin).   *)
(***************************************************************************)
EXTENDS Integers, FiniteSetTheorems, FunctionTheorems, Functions, TLAPS

-------------------------------------------------------------------------------
\* Smallest sets.

\* Of finite sets, one is as small as any.
LEMMA SmallestSet ==
    ASSUME NEW S, IsFiniteSet(S), NEW Bad, Bad \subseteq SUBSET S, Bad # {}
    PROVE  \E T \in Bad : \A U \in SUBSET T : U # T => U \notin Bad
<1>1. IsWellFoundedOn(StrictSubsetOrdering(S), SUBSET S)
  BY FS_StrictSubsetOrderingWellFounded, FS_FiniteSubsetsOfFinite
<1> HIDE DEF StrictSubsetOrdering
<1>2. PICK T \in Bad : \A U \in Bad : ~ (<<U, T>> \in StrictSubsetOrdering(S))
  BY <1>1, WFMin
<1>3. \A U \in SUBSET T : U # T => U \notin Bad
  BY <1>2 DEF StrictSubsetOrdering
<1> QED
  BY <1>3

-------------------------------------------------------------------------------
\* The recursive function in the definition of SumFunctionOnSet.

Any(T) == CHOOSE x \in T : TRUE

Unfolds(g, f, S) ==
    g = [T \in SUBSET S |-> IF T = {} THEN 0 ELSE f[Any(T)] + g[T \ {Any(T)}]]

LEMMA AnyIn == ASSUME NEW T, T # {} PROVE Any(T) \in T
BY DEF Any

LEMMA UnfoldAt ==
    ASSUME NEW f, NEW S, NEW g, Unfolds(g, f, S), NEW T \in SUBSET S
    PROVE  g[T] = IF T = {} THEN 0 ELSE f[Any(T)] + g[T \ {Any(T)}]
<1> DEFINE Body(U) == IF U = {} THEN 0 ELSE f[Any(U)] + g[U \ {Any(U)}]
<1>1. g = [U \in SUBSET S |-> Body(U)]
  BY DEF Unfolds
<1> HIDE DEF Body
<1>2. g[T] = Body(T)
  BY <1>1
<1> QED
  BY <1>2 DEF Body

\* Two functions that unfold f on different sets agree where both are defined.
LEMMA UnfoldsOnce ==
    ASSUME NEW f, NEW A, IsFiniteSet(A), NEW B, NEW g, NEW h,
           Unfolds(g, f, A), Unfolds(h, f, B), NEW W, W \subseteq A, W \subseteq B
    PROVE  g[W] = h[W]
<1> DEFINE Bad == {T \in SUBSET W : g[T] # h[T]}
<1> SUFFICES ASSUME Bad # {} PROVE FALSE
  OBVIOUS
<1>1. IsFiniteSet(W)
  BY FS_Subset
<1>0. Bad \subseteq SUBSET W
  OBVIOUS
<1> HIDE DEF Bad
<1>2. PICK T \in Bad : \A U \in SUBSET T : U # T => U \notin Bad
  BY <1>0, <1>1, SmallestSet
<1> USE DEF Bad
<1>3. T \in SUBSET A /\ T \in SUBSET B
  OBVIOUS
<1>4. g[T] = IF T = {} THEN 0 ELSE f[Any(T)] + g[T \ {Any(T)}]
  BY <1>3, UnfoldAt
<1>5. h[T] = IF T = {} THEN 0 ELSE f[Any(T)] + h[T \ {Any(T)}]
  BY <1>3, UnfoldAt
<1>6. T # {}
  BY <1>4, <1>5
<1>7. g[T \ {Any(T)}] = h[T \ {Any(T)}]
  BY <1>2, <1>6, AnyIn
<1> QED
  BY <1>4, <1>5, <1>6, <1>7

LEMMA UnfoldsSomewhere ==
    ASSUME NEW f, NEW S, IsFiniteSet(S) PROVE \E g : Unfolds(g, f, S)
<1> DEFINE Bad == {T \in SUBSET S : ~ \E g : Unfolds(g, f, T)}
<1> SUFFICES ASSUME Bad # {} PROVE FALSE
  OBVIOUS
<1>0. Bad \subseteq SUBSET S
  OBVIOUS
<1> HIDE DEF Bad
<1>1. PICK T \in Bad : \A U \in SUBSET T : U # T => U \notin Bad
  BY <1>0, SmallestSet
<1> USE DEF Bad
<1> DEFINE Of(U) == CHOOSE g : Unfolds(g, f, U)
           Less(U) == U \ {Any(U)}
           h == [U \in SUBSET T |-> IF U = {} THEN 0 ELSE f[Any(U)] + Of(Less(U))[Less(U)]]
<1>2. ASSUME NEW U \in SUBSET T, U # {} PROVE Unfolds(Of(Less(U)), f, Less(U))
  BY <1>1, <1>2, AnyIn
<1> HIDE DEF Of
<1>3. ASSUME NEW U \in SUBSET T, U # {} PROVE h[Less(U)] = Of(Less(U))[Less(U)]
  <2> DEFINE V == Less(U)
  <2>1. V \in SUBSET T
    OBVIOUS
  <2>0. Unfolds(Of(V), f, V)
    BY <1>2, <1>3
  <2> HIDE DEF V
  <2>2. Of(V)[V] = IF V = {} THEN 0 ELSE f[Any(V)] + Of(V)[V \ {Any(V)}]
    BY <2>0, UnfoldAt
  <2> USE DEF V
  <2>3. CASE V = {}
    BY <2>1, <2>2, <2>3
  <2>4. CASE V # {}
    <3>1. h[V] = f[Any(V)] + Of(Less(V))[Less(V)]
      BY <2>1, <2>4
    <3>2. IsFiniteSet(Less(V))
      BY FS_Subset
    <3>3. Unfolds(Of(Less(V)), f, Less(V)) /\ Unfolds(Of(V), f, V)
      BY <1>2, <1>3, <2>1, <2>4
    <3> HIDE DEF h
    <3>4. Of(Less(V))[Less(V)] = Of(V)[Less(V)]
      BY <3>2, <3>3, UnfoldsOnce
    <3> QED
      BY <2>2, <2>4, <3>1, <3>4
  <2> QED
    BY <2>3, <2>4
<1>4. h = [U \in SUBSET T |-> IF U = {} THEN 0 ELSE f[Any(U)] + h[Less(U)]]
  BY <1>3
<1>5. Unfolds(h, f, T)
  BY <1>4 DEF Unfolds
<1> QED
  BY <1>5

LEMMA SumUnfolds ==
    ASSUME NEW f, NEW S, IsFiniteSet(S)
    PROVE  \E h : Unfolds(h, f, S) /\ SumFunctionOnSet(f, S) = h[S]
<1> DEFINE h == CHOOSE h : Unfolds(h, f, S)
<1>1. Unfolds(h, f, S)
  BY UnfoldsSomewhere
<1>2. SumFunctionOnSet(f, S) = h[S]
  BY DEF SumFunctionOnSet, FoldFunctionOnSet, MapThenFoldSet, Unfolds, Any
<1> QED
  BY <1>1, <1>2

-------------------------------------------------------------------------------
\* The equations of sums.

LEMMA SumEmpty == \A f : SumFunctionOnSet(f, {}) = 0
<1> TAKE f
<1>1. PICK h : Unfolds(h, f, {}) /\ SumFunctionOnSet(f, {}) = h[{}]
  BY SumUnfolds, FS_EmptySet
<1> QED
  BY <1>1, UnfoldAt

LEMMA SumAny ==
    ASSUME NEW f, NEW S, IsFiniteSet(S), S # {}
    PROVE  /\ Any(S) \in S
           /\ SumFunctionOnSet(f, S) = f[Any(S)] + SumFunctionOnSet(f, S \ {Any(S)})
<1> DEFINE T == S \ {Any(S)}
<1>1. IsFiniteSet(T)
  BY FS_Subset
<1>2. PICK g : Unfolds(g, f, S) /\ SumFunctionOnSet(f, S) = g[S]
  BY SumUnfolds
<1>3. PICK h : Unfolds(h, f, T) /\ SumFunctionOnSet(f, T) = h[T]
  BY <1>1, SumUnfolds
<1>4. g[T] = h[T]
  BY <1>1, <1>2, <1>3, UnfoldsOnce
<1>5. g[S] = f[Any(S)] + g[T]
  BY <1>2, UnfoldAt
<1> QED
  BY <1>2, <1>3, <1>4, <1>5, AnyIn

\* A sum depends only on the values it adds.
LEMMA SumSame ==
    ASSUME NEW S, IsFiniteSet(S), NEW f, NEW g, \A x \in S : f[x] = g[x]
    PROVE  SumFunctionOnSet(f, S) = SumFunctionOnSet(g, S)
<1> DEFINE Bad == {T \in SUBSET S : SumFunctionOnSet(f, T) # SumFunctionOnSet(g, T)}
<1> SUFFICES ASSUME Bad # {} PROVE FALSE
  OBVIOUS
<1>0. Bad \subseteq SUBSET S
  OBVIOUS
<1> HIDE DEF Bad
<1>1. PICK T \in Bad : \A U \in SUBSET T : U # T => U \notin Bad
  BY <1>0, SmallestSet
<1> USE DEF Bad
<1>2. IsFiniteSet(T) /\ T # {}
  BY FS_Subset, SumEmpty
<1>3. Any(T) \in T
  BY <1>2, SumAny
<1>4. SumFunctionOnSet(f, T \ {Any(T)}) = SumFunctionOnSet(g, T \ {Any(T)})
  BY <1>1, <1>3
<1>5. f[Any(T)] = g[Any(T)]
  BY <1>3
<1> QED
  BY <1>2, <1>4, <1>5, SumAny

LEMMA SumInt ==
    ASSUME NEW S, IsFiniteSet(S), NEW f, \A x \in S : f[x] \in Int
    PROVE  SumFunctionOnSet(f, S) \in Int
<1> DEFINE Bad == {T \in SUBSET S : SumFunctionOnSet(f, T) \notin Int}
<1> SUFFICES ASSUME Bad # {} PROVE FALSE
  OBVIOUS
<1>0. Bad \subseteq SUBSET S
  OBVIOUS
<1> HIDE DEF Bad
<1>1. PICK T \in Bad : \A U \in SUBSET T : U # T => U \notin Bad
  BY <1>0, SmallestSet
<1> USE DEF Bad
<1>2. IsFiniteSet(T) /\ T # {}
  <2>1. SumFunctionOnSet(f, {}) \in Int
    BY SumEmpty
  <2>2. T # {}
    BY <2>1
  <2> QED
    BY <2>2, FS_Subset
<1>3. Any(T) \in T
  BY <1>2, SumAny
<1>4. SumFunctionOnSet(f, T \ {Any(T)}) \in Int
  BY <1>1, <1>3
<1>5. f[Any(T)] \in Int
  BY <1>3
<1> QED
  BY <1>2, <1>4, <1>5, SumAny

\* The sum without one element.
LEMMA SumRemove ==
    ASSUME NEW S, IsFiniteSet(S), NEW f, \A y \in S : f[y] \in Int, NEW x \in S
    PROVE  SumFunctionOnSet(f, S) = f[x] + SumFunctionOnSet(f, S \ {x})
<1> DEFINE Split(T, y) == SumFunctionOnSet(f, T) = f[y] + SumFunctionOnSet(f, T \ {y})
           Bad == {T \in SUBSET S : \E y \in T : ~Split(T, y)}
<1> SUFFICES ASSUME Bad # {} PROVE FALSE
  OBVIOUS
<1>0. Bad \subseteq SUBSET S
  OBVIOUS
<1> HIDE DEF Bad
<1>1. PICK T \in Bad : \A U \in SUBSET T : U # T => U \notin Bad
  BY <1>0, SmallestSet
<1> USE DEF Bad
<1>2. PICK y \in T : ~Split(T, y)
  OBVIOUS
<1> DEFINE c == Any(T)
           rest == (T \ {y}) \ {c}
<1>3. IsFiniteSet(T) /\ T # {} /\ IsFiniteSet(rest)
  BY FS_Subset
<1>4. c \in T /\ SumFunctionOnSet(f, T) = f[c] + SumFunctionOnSet(f, T \ {c})
  BY <1>3, SumAny
<1>5. SumFunctionOnSet(f, rest) \in Int
  BY <1>3, SumInt
<1> HIDE DEF c
<1>6. c # y
  BY <1>2, <1>4
<1>7. Split(T \ {c}, y) /\ Split(T \ {y}, c)
  BY <1>1, <1>4, <1>6
<1>8. (T \ {c}) \ {y} = rest
  OBVIOUS
<1>9. f[c] \in Int /\ f[y] \in Int
  BY <1>4
<1>10. SumFunctionOnSet(f, T \ {c}) = f[y] + SumFunctionOnSet(f, rest)
  BY <1>7, <1>8
<1>11. SumFunctionOnSet(f, T \ {y}) = f[c] + SumFunctionOnSet(f, rest)
  BY <1>7
<1> HIDE DEF rest
<1> QED
  BY <1>2, <1>4, <1>5, <1>9, <1>10, <1>11

\* What one changed value does to a sum.
LEMMA SumChange ==
    ASSUME NEW S, IsFiniteSet(S), NEW f, NEW g, NEW x \in S,
           \A y \in S : f[y] \in Int /\ g[y] \in Int,
           \A y \in S : y # x => g[y] = f[y]
    PROVE  SumFunctionOnSet(g, S) = SumFunctionOnSet(f, S) + (g[x] - f[x])
<1> DEFINE T == S \ {x}
<1>1. IsFiniteSet(T)
  BY FS_Subset
<1>2. SumFunctionOnSet(f, T) = SumFunctionOnSet(g, T)
  BY <1>1, SumSame
<1>3. SumFunctionOnSet(f, T) \in Int
  BY <1>1, SumInt
<1>4. /\ SumFunctionOnSet(f, S) = f[x] + SumFunctionOnSet(f, T)
      /\ SumFunctionOnSet(g, S) = g[x] + SumFunctionOnSet(g, T)
  BY SumRemove
<1> QED
  BY <1>2, <1>3, <1>4

\* A sum over some elements is one over all of them, where the others add nothing.
LEMMA SumOver ==
    ASSUME NEW S, IsFiniteSet(S), NEW T, T \subseteq S, NEW f, NEW g,
           \A x \in S : f[x] \in Int,
           \A x \in S : g[x] = IF x \in T THEN f[x] ELSE 0
    PROVE  SumFunctionOnSet(f, T) = SumFunctionOnSet(g, S)
<1> DEFINE Bad == {U \in SUBSET S : SumFunctionOnSet(f, T \cap U) # SumFunctionOnSet(g, U)}
<1> SUFFICES ASSUME Bad # {} PROVE FALSE
  BY T \cap S = T
<1>0. Bad \subseteq SUBSET S
  OBVIOUS
<1> HIDE DEF Bad
<1>1. PICK U \in Bad : \A V \in SUBSET U : V # U => V \notin Bad
  BY <1>0, SmallestSet
<1> USE DEF Bad
<1>2. U # {}
  BY SumEmpty, T \cap {} = {}
<1>3. PICK x \in U : TRUE
  BY <1>2
<1>4. SumFunctionOnSet(f, T \cap (U \ {x})) = SumFunctionOnSet(g, U \ {x})
  BY <1>1, <1>3
<1>5. IsFiniteSet(U) /\ IsFiniteSet(T \cap U)
  BY FS_Subset
<1>6. SumFunctionOnSet(g, U) = g[x] + SumFunctionOnSet(g, U \ {x})
  BY <1>3, <1>5, SumRemove
<1>7. CASE x \in T
  <2>1. SumFunctionOnSet(f, T \cap U) = f[x] + SumFunctionOnSet(f, (T \cap U) \ {x})
    BY <1>3, <1>5, <1>7, SumRemove
  <2>2. (T \cap U) \ {x} = T \cap (U \ {x})
    OBVIOUS
  <2> QED
    BY <1>3, <1>4, <1>6, <1>7, <2>1, <2>2
<1>8. CASE x \notin T
  <2>1. T \cap U = T \cap (U \ {x})
    BY <1>8
  <2>2. IsFiniteSet(U \ {x})
    BY <1>5, FS_Subset
  <2>3. SumFunctionOnSet(g, U \ {x}) \in Int
    BY <2>2, SumInt
  <2> QED
    BY <1>3, <1>4, <1>6, <1>8, <2>1, <2>3
<1> QED
  BY <1>7, <1>8

\* Nothing but zeros add up to nothing.
LEMMA SumZero ==
    ASSUME NEW S, IsFiniteSet(S), NEW f, \A x \in S : f[x] = 0
    PROVE  SumFunctionOnSet(f, S) = 0
<1> DEFINE g == [x \in S |-> 0]
<1>1. SumFunctionOnSet(f, {}) = SumFunctionOnSet(g, S)
  <2>1. \A x \in S : g[x] = IF x \in {} THEN f[x] ELSE 0
    OBVIOUS
  <2>2. \A x \in S : f[x] \in Int
    OBVIOUS
  <2> HIDE DEF g
  <2> QED
    BY <2>1, <2>2, SumOver
<1>2. SumFunctionOnSet(f, S) = SumFunctionOnSet(g, S)
  BY SumSame
<1> QED
  BY <1>1, <1>2, SumEmpty

\* Sums are added term by term.
LEMMA SumPlus ==
    ASSUME NEW S, IsFiniteSet(S), NEW f, NEW g, NEW h,
           \A x \in S : f[x] \in Int /\ g[x] \in Int /\ h[x] = f[x] + g[x]
    PROVE  SumFunctionOnSet(h, S) = SumFunctionOnSet(f, S) + SumFunctionOnSet(g, S)
<1> DEFINE Split(T) ==
               SumFunctionOnSet(h, T) = SumFunctionOnSet(f, T) + SumFunctionOnSet(g, T)
           Bad == {T \in SUBSET S : ~Split(T)}
<1> SUFFICES ASSUME Bad # {} PROVE FALSE
  OBVIOUS
<1>0. Bad \subseteq SUBSET S
  OBVIOUS
<1> HIDE DEF Bad
<1>1. PICK T \in Bad : \A U \in SUBSET T : U # T => U \notin Bad
  BY <1>0, SmallestSet
<1> USE DEF Bad
<1>2. T # {}
  <2>1. Split({})
    BY SumEmpty
  <2> QED
    BY <2>1
<1>3. PICK x \in T : TRUE
  BY <1>2
<1> DEFINE U == T \ {x}
<1>4. Split(U)
  BY <1>1, <1>3
<1>5. IsFiniteSet(T) /\ IsFiniteSet(U)
  BY FS_Subset
<1>6. /\ SumFunctionOnSet(f, T) = f[x] + SumFunctionOnSet(f, U)
      /\ SumFunctionOnSet(g, T) = g[x] + SumFunctionOnSet(g, U)
      /\ SumFunctionOnSet(h, T) = h[x] + SumFunctionOnSet(h, U)
  BY <1>3, <1>5, SumRemove
<1>7. /\ f[x] \in Int /\ g[x] \in Int /\ h[x] = f[x] + g[x]
      /\ SumFunctionOnSet(f, U) \in Int /\ SumFunctionOnSet(g, U) \in Int
  BY <1>3, <1>5, SumInt
<1> HIDE DEF U
<1> QED
  BY <1>4, <1>6, <1>7

\* A sum may be taken over the images of its elements, if no two are the same.
LEMMA SumImage ==
    ASSUME NEW S, IsFiniteSet(S), NEW f, NEW g, NEW h,
           \A x \in S : f[x] \in Int /\ g[h[x]] = f[x],
           \A x, y \in S : h[x] = h[y] => x = y
    PROVE  SumFunctionOnSet(f, S) = SumFunctionOnSet(g, {h[x] : x \in S})
<1> DEFINE Image(T) == {h[x] : x \in T}
           Same(T) == SumFunctionOnSet(f, T) = SumFunctionOnSet(g, Image(T))
           Bad == {T \in SUBSET S : ~Same(T)}
<1> SUFFICES ASSUME Bad # {} PROVE FALSE
  OBVIOUS
<1>0. Bad \subseteq SUBSET S
  OBVIOUS
<1> HIDE DEF Bad
<1>1. PICK T \in Bad : \A U \in SUBSET T : U # T => U \notin Bad
  BY <1>0, SmallestSet
<1> USE DEF Bad
<1>2. T # {}
  <2>1. Image({}) = {}
    OBVIOUS
  <2>2. Same({})
    BY <2>1, SumEmpty
  <2> QED
    BY <2>2
<1>3. PICK x \in T : TRUE
  BY <1>2
<1>4. Same(T \ {x})
  BY <1>1, <1>3
<1>5. Image(T \ {x}) = Image(T) \ {h[x]}
  BY <1>3
<1>6. IsFiniteSet(T) /\ IsFiniteSet(Image(T)) /\ h[x] \in Image(T)
  <2> DEFINE onto == [y \in T |-> h[y]]
  <2>1. IsFiniteSet(T)
    BY FS_Subset
  <2>2. onto \in [T -> Image(T)] /\ \A z \in Image(T) : \E y \in T : onto[y] = z
    OBVIOUS
  <2> HIDE DEF onto
  <2>3. onto \in Surjection(T, Image(T))
    BY <2>2, Fun_IsSurj
  <2> QED
    BY <1>3, <2>1, <2>3, FS_Surjection
<1>7. SumFunctionOnSet(f, T) = f[x] + SumFunctionOnSet(f, T \ {x})
  BY <1>3, <1>6, SumRemove
<1>8. SumFunctionOnSet(g, Image(T)) = g[h[x]] + SumFunctionOnSet(g, Image(T) \ {h[x]})
  <2>1. \A y \in Image(T) : g[y] \in Int
    OBVIOUS
  <2> HIDE DEF Image
  <2> QED
    BY <1>6, <2>1, SumRemove
<1> QED
  BY <1>3, <1>4, <1>5, <1>7, <1>8

\* A sum of what is never negative is not, and no term exceeds it.
LEMMA SumNat ==
    ASSUME NEW S, IsFiniteSet(S), NEW f, \A x \in S : f[x] \in Nat
    PROVE  SumFunctionOnSet(f, S) \in Nat /\ \A x \in S : f[x] <= SumFunctionOnSet(f, S)
<1> DEFINE Bad == {T \in SUBSET S : SumFunctionOnSet(f, T) \notin Nat}
<1>1. ASSUME Bad # {} PROVE FALSE
  <2>0. Bad \subseteq SUBSET S
    OBVIOUS
  <2> HIDE DEF Bad
  <2>1. PICK T \in Bad : \A U \in SUBSET T : U # T => U \notin Bad
    BY <2>0, <1>1, SmallestSet
  <2> USE DEF Bad
  <2>2. IsFiniteSet(T) /\ T # {}
    <3>1. SumFunctionOnSet(f, {}) \in Nat
      BY SumEmpty
    <3>2. T # {}
      BY <3>1
    <3> QED
      BY <3>2, FS_Subset
  <2>3. Any(T) \in T
    BY <2>2, SumAny
  <2>4. SumFunctionOnSet(f, T \ {Any(T)}) \in Nat
    BY <2>1, <2>3
  <2>5. f[Any(T)] \in Nat
    BY <2>3
  <2> QED
    BY <2>2, <2>4, <2>5, SumAny
<1>2. ASSUME NEW x \in S PROVE f[x] <= SumFunctionOnSet(f, S)
  <2>1. SumFunctionOnSet(f, S) = f[x] + SumFunctionOnSet(f, S \ {x})
    BY SumRemove
  <2>2. SumFunctionOnSet(f, S \ {x}) \in Nat
    BY <1>1
  <2> QED
    BY <2>1, <2>2
<1> QED
  BY <1>1, <1>2
=================================================================================
