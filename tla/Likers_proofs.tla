---------------------------- MODULE Likers_proofs ----------------------------
(***************************************************************************)
(* Proofs about the likers in Loader: what makeIndex averages is, for any  *)
(* data in whatever order they are loaded, what the data say, and so are   *)
(* the suggestions made of it.                                             *)
(*                                                                         *)
(* First what a sum over a finite set is and what it does not depend on:   *)
(* by taking elements out of the set, one by one.                          *)
(***************************************************************************)
EXTENDS Loader_proofs

LEMMA SubsetInduction ==
  ASSUME NEW S, IsFiniteSet(S), NEW G,
         \A T \in SUBSET S : (\A U \in SUBSET T : U # T => U \in G) => T \in G
  PROVE  \A T \in SUBSET S : T \in G
  <1> SUFFICES ASSUME NEW T0 \in SUBSET S, T0 \notin G PROVE FALSE
    OBVIOUS
  <1> DEFINE Sizes == {Cardinality(T) : T \in {U \in SUBSET S : U \notin G}}
  <1>1. \A T \in SUBSET S : IsFiniteSet(T) /\ Cardinality(T) \in Nat
    BY FS_Subset, FS_CardinalityType
  <1>2. Sizes \in SUBSET Nat /\ Sizes # {}
    BY <1>1
  <1>3. PICK T \in SUBSET S : T \notin G /\ \A U \in SUBSET S : U \notin G => Cardinality(T) <= Cardinality(U)
    <2>1. PICK n \in Sizes : \A m \in Sizes : n <= m
      BY <1>2, HasLeast
    <2> QED
      BY <2>1
  <1>4. ASSUME NEW U \in SUBSET T, U # T PROVE U \in G
    <2>1. IsFiniteSet(T) /\ Cardinality(T) \in Nat /\ U \in SUBSET S /\ Cardinality(U) \in Nat
      BY <1>1
    <2>2. Cardinality(U) <= Cardinality(T) /\ Cardinality(U) # Cardinality(T)
      BY <1>4, <2>1, FS_Subset
    <2> QED
      BY <1>3, <2>1, <2>2
  <1> QED
    BY <1>3, <1>4

-----------------------------------------------------------------------------
OneOf(s) == CHOOSE x \in s : TRUE

IsSumOf(g, f, S) ==
  g = [s \in SUBSET S |-> IF s = {} THEN 0 ELSE f[OneOf(s)] + g[s \ {OneOf(s)}]]

LEMMA SumIsThat ==
  ASSUME NEW f, NEW S
  PROVE  SumFunctionOnSet(f, S) = (CHOOSE g : IsSumOf(g, f, S))[S]
  BY DEF SumFunctionOnSet, FoldFunctionOnSet, MapThenFoldSet, IsSumOf, OneOf

LEMMA OneIn == \A s : s # {} => OneOf(s) \in s
  BY DEF OneOf

LEMMA OneSum ==
  ASSUME NEW f, NEW S, NEW T, IsFiniteSet(S), NEW g, NEW h, IsSumOf(g, f, S), IsSumOf(h, f, T)
  PROVE  \A U \in SUBSET (S \cap T) : g[U] = h[U]
  <1> DEFINE G == {U \in SUBSET (S \cap T) : g[U] = h[U]}
  <1>1. IsFiniteSet(S \cap T)
    BY FS_Subset
  <1>2. ASSUME NEW U \in SUBSET (S \cap T), \A V \in SUBSET U : V # U => V \in G
        PROVE  U \in G
    <2>1. U \in SUBSET S /\ U \in SUBSET T
      OBVIOUS
    <2>2. CASE U = {}
      <3>1. g[U] = 0 /\ h[U] = 0
        BY <2>1, <2>2 DEF IsSumOf
      <3> QED
        BY <3>1
    <2>3. CASE U # {}
      <3> DEFINE V == U \ {OneOf(U)}
      <3>1. V \in SUBSET U /\ V # U
        BY <2>3, OneIn
      <3>2. g[U] = f[OneOf(U)] + g[V] /\ h[U] = f[OneOf(U)] + h[V]
        BY <2>1, <2>3 DEF IsSumOf
      <3> HIDE DEF V
      <3>3. g[V] = h[V]
        BY <1>2, <3>1
      <3> QED
        BY <3>2, <3>3
    <2> QED
      BY <2>2, <2>3
  <1> HIDE DEF G
  <1>3. \A U \in SUBSET (S \cap T) : U \in G
    BY <1>1, <1>2, SubsetInduction
  <1> QED
    BY <1>3 DEF G

LEMMA SumExists ==
  ASSUME NEW f, NEW S, IsFiniteSet(S)
  PROVE  \E g : IsSumOf(g, f, S)
  <1> DEFINE G == {T \in SUBSET S : \E g : IsSumOf(g, f, T)}
             Sum(T) == (CHOOSE g : IsSumOf(g, f, T))[T]
  <1>1. ASSUME NEW T \in SUBSET S, \A U \in SUBSET T : U # T => U \in G
        PROVE  T \in G
    <2> DEFINE h == [s \in SUBSET T |-> IF s = {} THEN 0 ELSE f[OneOf(s)] + Sum(s \ {OneOf(s)})]
    <2>1. ASSUME NEW U \in SUBSET T, U # T
          PROVE  h[U] = Sum(U)
      <3>1. PICK g : IsSumOf(g, f, U) /\ g = CHOOSE k : IsSumOf(k, f, U)
        BY <1>1, <2>1
      <3>2. Sum(U) = g[U]
        BY <3>1
      <3>3. CASE U = {}
        <4>1. g[U] = 0
          BY <3>1, <3>3 DEF IsSumOf
        <4> QED
          BY <3>2, <3>3, <4>1
      <3>4. CASE U # {}
        <4> DEFINE V == U \ {OneOf(U)}
        <4>1. V \in SUBSET U /\ V \in SUBSET T /\ V # T
          BY <2>1, <3>4, OneIn
        <4>2. g[U] = f[OneOf(U)] + g[V]
          BY <3>1, <3>4 DEF IsSumOf
        <4>3. h[U] = f[OneOf(U)] + Sum(V)
          BY <3>4
        <4>4. PICK k : IsSumOf(k, f, V) /\ Sum(V) = k[V]
          BY <1>1, <4>1
        <4>5. k[V] = g[V]
          <5>1. IsFiniteSet(U) /\ IsFiniteSet(V)
            BY FS_Subset
          <5> HIDE DEF V, h, G, Sum
          <5> QED
            BY <3>1, <4>1, <4>4, <5>1, OneSum
        <4> HIDE DEF V, h, G, Sum
        <4> QED
          BY <3>2, <4>2, <4>3, <4>4, <4>5
      <3> QED
        BY <3>3, <3>4
    <2>2. ASSUME NEW s \in SUBSET T, s # {}
          PROVE  h[s] = f[OneOf(s)] + h[s \ {OneOf(s)}]
      <3>1. s \ {OneOf(s)} \in SUBSET T /\ s \ {OneOf(s)} # T
        BY <2>2, OneIn
      <3>2. h[s] = f[OneOf(s)] + Sum(s \ {OneOf(s)})
        BY <2>2
      <3> HIDE DEF h, Sum
      <3> QED
        BY <2>1, <3>1, <3>2
    <2>3. IsSumOf(h, f, T)
      <3>1. h = [s \in SUBSET T |-> h[s]] /\ (\A s \in SUBSET T : s = {} => h[s] = 0)
        OBVIOUS
      <3> HIDE DEF h
      <3>2. [s \in SUBSET T |-> h[s]] = [s \in SUBSET T |-> IF s = {} THEN 0 ELSE f[OneOf(s)] + h[s \ {OneOf(s)}]]
        BY <2>2, <3>1
      <3> QED
        BY <3>1, <3>2 DEF IsSumOf
    <2> HIDE DEF h
    <2> QED
      BY <2>3
  <1> HIDE DEF G
  <1>2. \A T \in SUBSET S : T \in G
    BY <1>1, SubsetInduction
  <1> QED
    BY <1>2 DEF G

LEMMA SumUnfolds ==
  ASSUME NEW f, NEW S, IsFiniteSet(S)
  PROVE  SumFunctionOnSet(f, S) =
           IF S = {} THEN 0 ELSE f[OneOf(S)] + SumFunctionOnSet(f, S \ {OneOf(S)})
  <1>1. PICK g : IsSumOf(g, f, S) /\ SumFunctionOnSet(f, S) = g[S]
    BY SumExists, SumIsThat
  <1>2. g[S] = IF S = {} THEN 0 ELSE f[OneOf(S)] + g[S \ {OneOf(S)}]
    BY <1>1 DEF IsSumOf
  <1> DEFINE T == S \ {OneOf(S)}
  <1>3. IsFiniteSet(T) /\ T \in SUBSET S
    BY FS_Subset
  <1>4. PICK h : IsSumOf(h, f, T) /\ SumFunctionOnSet(f, T) = h[T]
    BY <1>3, SumExists, SumIsThat
  <1>5. h[T] = g[T]
    <2> HIDE DEF T
    <2> QED
      BY <1>1, <1>3, <1>4, OneSum
  <1> QED
    BY <1>1, <1>2, <1>4, <1>5

LEMMA SumType ==
  ASSUME NEW f, NEW S, IsFiniteSet(S), \A x \in S : f[x] \in Nat
  PROVE  SumFunctionOnSet(f, S) \in Nat
  <1> DEFINE G == {T \in SUBSET S : SumFunctionOnSet(f, T) \in Nat}
  <1>1. ASSUME NEW T \in SUBSET S, \A U \in SUBSET T : U # T => U \in G
        PROVE  T \in G
    <2> DEFINE V == T \ {OneOf(T)}
    <2>1. IsFiniteSet(T)
      BY FS_Subset
    <2>2. SumFunctionOnSet(f, T) = IF T = {} THEN 0 ELSE f[OneOf(T)] + SumFunctionOnSet(f, V)
      BY <2>1, SumUnfolds
    <2>3. T # {} => OneOf(T) \in S /\ V \in SUBSET T /\ V # T
      BY OneIn
    <2> HIDE DEF V
    <2>4. T # {} => SumFunctionOnSet(f, V) \in Nat
      BY <1>1, <2>3
    <2>5. T # {} => f[OneOf(T)] \in Nat
      BY <2>3
    <2> QED
      BY <2>2, <2>4, <2>5
  <1> HIDE DEF G
  <1>2. \A T \in SUBSET S : T \in G
    BY <1>1, SubsetInduction
  <1> QED
    BY <1>2 DEF G

LEMMA SumWithout ==
  ASSUME NEW f, NEW S, IsFiniteSet(S), \A x \in S : f[x] \in Nat
  PROVE  \A x \in S : SumFunctionOnSet(f, S) = f[x] + SumFunctionOnSet(f, S \ {x})
  <1> DEFINE sum(T) == SumFunctionOnSet(f, T)
             G == {T \in SUBSET S : \A x \in T : sum(T) = f[x] + sum(T \ {x})}
  <1>1. ASSUME NEW T \in SUBSET S PROVE IsFiniteSet(T) /\ sum(T) \in Nat
    <2>1. IsFiniteSet(T)
      BY FS_Subset
    <2> QED
      BY <2>1, SumType
  <1>2. ASSUME NEW T \in SUBSET S, T # {} PROVE sum(T) = f[OneOf(T)] + sum(T \ {OneOf(T)})
    BY <1>1, <1>2, SumUnfolds
  <1> HIDE DEF sum
  <1>3. ASSUME NEW T \in SUBSET S, \A U \in SUBSET T : U # T => U \in G
        PROVE  T \in G
    <2> SUFFICES ASSUME NEW x \in T PROVE sum(T) = f[x] + sum(T \ {x})
      OBVIOUS
    <2> DEFINE a == OneOf(T)
    <2>1. a \in T /\ sum(T) = f[a] + sum(T \ {a})
      BY <1>2, OneIn
    <2> HIDE DEF a
    <2>2. CASE x = a
      BY <2>1, <2>2
    <2>3. CASE x # a
      <3>1. T \ {a} \in G /\ T \ {x} \in G
        BY <1>3, <2>1
      <3>2. sum(T \ {a}) = f[x] + sum((T \ {a}) \ {x})
        BY <2>3, <3>1
      <3>3. sum(T \ {x}) = f[a] + sum((T \ {x}) \ {a})
        BY <2>1, <2>3, <3>1
      <3>4. (T \ {a}) \ {x} = (T \ {x}) \ {a}
        OBVIOUS
      <3>5. f[a] \in Nat /\ f[x] \in Nat /\ sum((T \ {x}) \ {a}) \in Nat
        BY <1>1, <2>1
      <3> DEFINE rest == sum((T \ {x}) \ {a})
      <3>6. sum(T) = f[a] + (f[x] + rest) /\ sum(T \ {x}) = f[a] + rest
        BY <2>1, <3>2, <3>3, <3>4
      <3> HIDE DEF rest
      <3> QED
        BY <3>5, <3>6 DEF rest
    <2> QED
      BY <2>2, <2>3
  <1> HIDE DEF G
  <1>4. \A T \in SUBSET S : T \in G
    BY <1>3, SubsetInduction
  <1> QED
    BY <1>4 DEF G, sum

IsBijection(h, S, T) ==
  /\ h \in [S -> T]
  /\ \A x, y \in S : h[x] = h[y] => x = y
  /\ \A y \in T : \E x \in S : h[x] = y

LEMMA BijectionCounts ==
  ASSUME NEW S, NEW T, NEW h, IsBijection(h, S, T), IsFiniteSet(S)
  PROVE  IsFiniteSet(T) /\ Cardinality(T) = Cardinality(S)
  <1>1. h \in Bijection(S, T)
    BY DEF IsBijection, Bijection, Injection, Surjection, IsInjective
  <1> QED
    BY <1>1, FS_Bijection DEF ExistsBijection

(* A sum does not depend on what its summands are called.                  *)
LEMMA SumMoved ==
  ASSUME NEW S, NEW T, NEW h, IsBijection(h, S, T), IsFiniteSet(S), NEW f, NEW g,
         \A x \in S : g[h[x]] \in Nat /\ f[x] = g[h[x]]
  PROVE  SumFunctionOnSet(f, S) = SumFunctionOnSet(g, T)
  <1> DEFINE image(U) == {h[x] : x \in U}
             sum(U) == SumFunctionOnSet(f, U)
             moved(U) == SumFunctionOnSet(g, U)
             G == {U \in SUBSET S : sum(U) = moved(image(U))}
  <1>1. IsFiniteSet(T) /\ \A y \in T : g[y] \in Nat
    BY BijectionCounts DEF IsBijection
  <1>2. ASSUME NEW U \in SUBSET S PROVE IsFiniteSet(image(U)) /\ image(U) \in SUBSET T
    <2>1. image(U) \in SUBSET T
      BY DEF IsBijection
    <2> HIDE DEF image
    <2> QED
      BY <1>1, <2>1, FS_Subset
  <1>3. sum({}) = 0 /\ moved({}) = 0
    BY FS_EmptySet, SumUnfolds
  <1>4. ASSUME NEW U \in SUBSET S, U # {} PROVE sum(U) = f[OneOf(U)] + sum(U \ {OneOf(U)})
    <2>1. IsFiniteSet(U)
      BY FS_Subset
    <2> QED
      BY <1>4, <2>1, SumUnfolds
  <1>5. ASSUME NEW U \in SUBSET S, NEW x \in U
        PROVE  moved(image(U)) = g[h[x]] + moved(image(U \ {x}))
    <2>1. h[x] \in image(U) /\ image(U \ {x}) = image(U) \ {h[x]}
      BY DEF IsBijection
    <2>2. \A y \in image(U) : g[y] \in Nat
      BY <1>1, <1>2
    <2>3. IsFiniteSet(image(U))
      BY <1>2
    <2> HIDE DEF image
    <2>4. moved(image(U)) = g[h[x]] + moved(image(U) \ {h[x]})
      BY <2>1, <2>2, <2>3, SumWithout
    <2> QED
      BY <2>1, <2>4
  <1>6. image({}) = {}
    OBVIOUS
  <1> HIDE DEF image, sum, moved
  <1>7. ASSUME NEW U \in SUBSET S, \A V \in SUBSET U : V # U => V \in G
        PROVE  U \in G
    <2>1. CASE U = {}
      BY <1>3, <1>6, <2>1
    <2>2. CASE U # {}
      <3> DEFINE a == OneOf(U)
      <3>1. a \in U
        BY <2>2, OneIn
      <3>2. sum(U) = f[a] + sum(U \ {a})
        BY <1>4, <2>2
      <3> HIDE DEF a
      <3>3. sum(U \ {a}) = moved(image(U \ {a}))
        BY <1>7, <3>1
      <3>4. moved(image(U)) = g[h[a]] + moved(image(U \ {a}))
        BY <1>5, <3>1
      <3> QED
        BY <3>1, <3>2, <3>3, <3>4
    <2> QED
      BY <2>1, <2>2
  <1> HIDE DEF G
  <1>8. S \in G
    BY <1>7, SubsetInduction
  <1>9. image(S) = T
    BY DEF image, IsBijection
  <1> QED
    BY <1>8, <1>9 DEF G, sum, moved

LEMMA FunctionSum ==
  ASSUME NEW S, IsFiniteSet(S), NEW f \in [S -> Nat]
  PROVE  /\ SumFunction(f) \in Nat
         /\ \A x : S = {x} => SumFunction(f) = f[x]
         /\ \A T, h, g : g \in [T -> Nat] /\ IsBijection(h, S, T) /\ (\A x \in S : f[x] = g[h[x]])
              => SumFunction(f) = SumFunction(g)
  <1>1. SumFunction(f) = SumFunctionOnSet(f, S)
    BY DEF SumFunction
  <1>2. SumFunction(f) \in Nat
    BY <1>1, SumType
  <1>3. ASSUME NEW x, S = {x} PROVE SumFunction(f) = f[x]
    <2>1. SumFunctionOnSet(f, S) = f[x] + SumFunctionOnSet(f, S \ {x})
      BY <1>3, SumWithout
    <2>2. S \ {x} = {} /\ f[x] \in Nat
      BY <1>3
    <2>3. SumFunctionOnSet(f, {}) = 0
      BY FS_EmptySet, SumUnfolds
    <2> QED
      BY <1>1, <2>1, <2>2, <2>3
  <1>4. ASSUME NEW T, NEW h, NEW g, g \in [T -> Nat], IsBijection(h, S, T),
               \A x \in S : f[x] = g[h[x]]
        PROVE  SumFunction(f) = SumFunction(g)
    <2>1. SumFunction(g) = SumFunctionOnSet(g, T)
      BY <1>4 DEF SumFunction
    <2>2. \A x \in S : g[h[x]] \in Nat
      BY <1>4 DEF IsBijection
    <2>3. SumFunctionOnSet(f, S) = SumFunctionOnSet(g, T)
      BY <1>4, <2>2, SumMoved
    <2> QED
      BY <1>1, <2>1, <2>3
  <1> QED
    BY <1>2, <1>3, <1>4

-----------------------------------------------------------------------------
(* The elements of a finite set in an order.                               *)
Orders(R, S) ==
  /\ \A d \in S : <<d, d>> \notin R
  /\ \A c, d, e \in S : <<c, d>> \in R /\ <<d, e>> \in R => <<c, e>> \in R
  /\ \A d, e \in S : d = e \/ <<d, e>> \in R \/ <<e, d>> \in R

Arranges(s, R, S) ==
  /\ IsBijection(s, 1 .. Cardinality(S), S)
  /\ \A m, n \in 1 .. Cardinality(S) : m < n => <<s[m], s[n]>> \in R

LEMMA InOrderArranges ==
  ASSUME NEW S, IsFiniteSet(S), NEW R, Orders(R, S)
  PROVE  Arranges(InOrder(S, R), R, S) /\ Cardinality(S) \in Nat
  <1> DEFINE before(e) == {d \in S : <<d, e>> \in R}
             rank(e) == Cardinality(before(e))
             N == Cardinality(S)
             s == InOrder(S, R)
  <1>1. N \in Nat
    BY FS_CardinalityType
  <1>2. ASSUME NEW T \in SUBSET S, NEW e \in T, NEW U \in SUBSET T, e \notin U
        PROVE  /\ Cardinality(U) \in Nat /\ Cardinality(T) \in Nat
               /\ Cardinality(U) < Cardinality(T)
    <2>1. IsFiniteSet(T) /\ IsFiniteSet(U)
      BY FS_Subset
    <2>2. Cardinality(U) \in Nat /\ Cardinality(T) \in Nat
      BY <2>1, FS_CardinalityType
    <2>3. Cardinality(U) <= Cardinality(T) /\ (Cardinality(T) = Cardinality(U) => T = U)
      BY <2>1, FS_Subset
    <2> QED
      BY <1>2, <2>2, <2>3
  <1>3. ASSUME NEW e \in S PROVE rank(e) \in 0 .. N - 1
    <2>1. before(e) \in SUBSET S /\ e \notin before(e)
      BY DEF Orders
    <2> HIDE DEF before
    <2> QED
      BY <1>1, <1>2, <2>1
  <1>4. ASSUME NEW d \in S, NEW e \in S, <<d, e>> \in R PROVE rank(d) < rank(e)
    <2>1. before(d) \in SUBSET before(e) /\ d \in before(e) /\ d \notin before(d) /\ before(e) \in SUBSET S
      BY <1>4 DEF Orders
    <2> HIDE DEF before
    <2> QED
      BY <1>2, <2>1
  <1>5. \A d, e \in S : rank(d) = rank(e) => d = e
    <2> HIDE DEF rank
    <2>1. ASSUME NEW d \in S, NEW e \in S, rank(d) = rank(e) PROVE d = e
      <3>1. rank(d) \in Int /\ rank(e) \in Int
        BY <1>3
      <3>2. ~ rank(d) < rank(e) /\ ~ rank(e) < rank(d)
        BY <2>1, <3>1
      <3>3. <<d, e>> \notin R /\ <<e, d>> \notin R
        BY <1>4, <3>2
      <3> QED
        BY <3>3 DEF Orders
    <2> QED
      BY <2>1
  <1> HIDE DEF before
  <1>6. \A n \in 1 .. N : \E e \in S : rank(e) = n - 1
    <2> DEFINE T == 0 .. N - 1
               f == [e \in S |-> rank(e)]
    <2>1. IsFiniteSet(T) /\ Cardinality(T) = N
      <3>1. 0 \in Int /\ N - 1 \in Int
        BY <1>1
      <3>2. IsFiniteSet(T) /\ Cardinality(T) = IF 0 > N - 1 THEN 0 ELSE N - 1 - 0 + 1
        BY <3>1, FS_Interval
      <3> QED
        BY <1>1, <3>2
    <2>2. f \in [S -> T] /\ \A d, e \in S : f[d] = f[e] => d = e
      BY <1>3, <1>5
    <2>3. \A n \in 1 .. N : n - 1 \in T
      BY <1>1
    <2> HIDE DEF T, f
    <2>4. f \in Injection(S, T)
      BY <2>2 DEF Injection, IsInjective
    <2>5. f \in Surjection(S, T)
      BY <2>1, <2>4, FS_Injection
    <2>6. \A n \in T : \E e \in S : f[e] = n
      BY <2>5 DEF Surjection
    <2> QED
      BY <2>3, <2>6 DEF f
  <1>7. s = [n \in 1 .. N |-> CHOOSE e \in S : rank(e) = n - 1]
    BY DEF InOrder, before
  <1> HIDE DEF s
  <1>8. \A n \in 1 .. N : s[n] \in S /\ rank(s[n]) = n - 1
    <2> HIDE DEF rank
    <2> QED
      BY <1>6, <1>7
  <1>9. s \in [1 .. N -> S]
    <2>1. s = [n \in 1 .. N |-> s[n]]
      BY <1>7
    <2> QED
      BY <1>8, <2>1
  <1> HIDE DEF rank
  <1>10. \A e \in S : \E n \in 1 .. N : s[n] = e
    <2> SUFFICES ASSUME NEW e \in S PROVE \E n \in 1 .. N : s[n] = e
      OBVIOUS
    <2>1. rank(e) + 1 \in 1 .. N /\ (rank(e) + 1) - 1 = rank(e)
      BY <1>1, <1>3
    <2>2. s[rank(e) + 1] \in S /\ rank(s[rank(e) + 1]) = rank(e)
      BY <1>8, <2>1
    <2> QED
      BY <1>5, <2>1, <2>2
  <1>11. \A m, n \in 1 .. N : s[m] = s[n] => m = n
    <2> SUFFICES ASSUME NEW m \in 1 .. N, NEW n \in 1 .. N, s[m] = s[n] PROVE m = n
      OBVIOUS
    <2>1. m - 1 = n - 1 /\ m \in Int /\ n \in Int
      BY <1>1, <1>8
    <2> QED
      BY <2>1
  <1>12. ASSUME NEW m \in 1 .. N, NEW n \in 1 .. N, m < n PROVE <<s[m], s[n]>> \in R
    <2>1. /\ s[m] \in S /\ s[n] \in S /\ rank(s[m]) = m - 1 /\ rank(s[n]) = n - 1
          /\ m \in Int /\ n \in Int
      BY <1>1, <1>8
    <2>2. s[m] # s[n] /\ ~ <<s[n], s[m]>> \in R
      BY <1>4, <1>12, <2>1
    <2> QED
      BY <2>1, <2>2 DEF Orders
  <1> QED
    BY <1>1, <1>9, <1>10, <1>11, <1>12 DEF Arranges, IsBijection, s

LEMMA AscendingArranges ==
  ASSUME NEW S \in SUBSET Nat, IsFiniteSet(S)
  PROVE  /\ IsBijection(Ascending(S), 1 .. Cardinality(S), S) /\ Cardinality(S) \in Nat
         /\ \A m, n \in 1 .. Cardinality(S) : m < n => Ascending(S)[m] < Ascending(S)[n]
  <1> DEFINE R == {p \in S \X S : p[1] < p[2]}
  <1>1. \A d, e \in S : <<d, e>> \in R <=> d < e
    OBVIOUS
  <1>2. Ascending(S) = InOrder(S, R)
    BY DEF Ascending
  <1> HIDE DEF R
  <1>3. \A d \in S : d \in Int
    OBVIOUS
  <1>4. Orders(R, S)
    BY <1>1, <1>3 DEF Orders
  <1>5. Arranges(Ascending(S), R, S) /\ Cardinality(S) \in Nat
    BY <1>2, <1>4, InOrderArranges
  <1> QED
    BY <1>1, <1>5 DEF Arranges, IsBijection

-----------------------------------------------------------------------------
(* Times of likes: their average, which is a single one's own.             *)
Timed(l) == \E N \in Nat : DOMAIN l = 1 .. N /\ \A n \in 1 .. N : l[n].ts \in Nat

Average(l, S) == Total(l, S) \div Cardinality(S)

LEMMA Averages ==
  ASSUME NEW l, Timed(l), NEW S \in SUBSET DOMAIN l
  PROVE  /\ IsFiniteSet(S) /\ Cardinality(S) \in Nat
         /\ S # {} => Average(l, S) \in Nat
         /\ \A n : S = {n} => Average(l, S) = l[n].ts
         /\ \A r, T, h : Timed(r) /\ T \subseteq DOMAIN r /\ IsBijection(h, S, T)
                           /\ (\A n \in S : l[n].ts = r[h[n]].ts)
              => Average(l, S) = Average(r, T)
  <1> DEFINE f == [m \in S |-> l[m].ts]
  <1>1. PICK N \in Nat : DOMAIN l = 1 .. N /\ \A n \in 1 .. N : l[n].ts \in Nat
    BY DEF Timed
  <1>2. IsFiniteSet(S) /\ Cardinality(S) \in Nat
    <2>1. IsFiniteSet(1 .. N)
      BY FS_Interval
    <2> QED
      BY <1>1, <2>1, FS_Subset, FS_CardinalityType
  <1>3. f \in [S -> Nat] /\ Total(l, S) = SumFunction(f)
    BY <1>1 DEF Total
  <1> HIDE DEF f
  <1>4. Total(l, S) \in Nat
    BY <1>2, <1>3, FunctionSum
  <1>5. S # {} => Average(l, S) \in Nat
    <2>1. S # {} => Cardinality(S) # 0
      BY <1>2, FS_EmptySet
    <2>2. \A t, c \in Nat : c # 0 => t \div c \in Nat
      OBVIOUS
    <2> QED
      BY <1>2, <1>4, <2>1, <2>2 DEF Average
  <1>6. ASSUME NEW n, S = {n} PROVE Average(l, S) = l[n].ts
    <2>1. SumFunction(f) = f[n] /\ Cardinality(S) = 1
      BY <1>2, <1>3, <1>6, FunctionSum, FS_Singleton
    <2>2. f[n] = l[n].ts
      BY <1>6 DEF f
    <2> QED
      BY <1>3, <1>4, <2>1, <2>2 DEF Average
  <1>7. ASSUME NEW r, NEW T, NEW h, Timed(r), T \subseteq DOMAIN r, IsBijection(h, S, T),
               \A n \in S : l[n].ts = r[h[n]].ts
        PROVE  Average(l, S) = Average(r, T)
    <2> DEFINE g == [m \in T |-> r[m].ts]
    <2>1. g \in [T -> Nat] /\ Total(r, T) = SumFunction(g)
      BY <1>7 DEF Timed, Total
    <2>2. \A n \in S : f[n] = g[h[n]]
      BY <1>7 DEF f, IsBijection
    <2> HIDE DEF g
    <2>3. Total(l, S) = Total(r, T)
      BY <1>2, <1>3, <1>7, <2>1, <2>2, FunctionSum
    <2>4. Cardinality(S) = Cardinality(T)
      BY <1>2, <1>7, BijectionCounts
    <2> QED
      BY <2>3, <2>4 DEF Average
  <1> QED
    BY <1>2, <1>5, <1>6, <1>7

-----------------------------------------------------------------------------
(* What is kept of an account's own likes: all of them, in another order.  *)
Reordered(l, likes) ==
  \E p : /\ IsBijection(p, DOMAIN likes, DOMAIN likes)
         /\ l = [n \in DOMAIN likes |-> likes[p[n]]]

Kept ==
  \A id \in Loaded :
    accounts[id].sex = data[id].sex /\ Reordered(accounts[id].likes, data[id].likes)

(* A list of likers has those who like the account, each once they are     *)
(* merged, and their places average to the time in the data.               *)
Tells(l, k, s) ==
  /\ l \in Seq([id : Ids, ts : Nat])
  /\ \A n \in DOMAIN l : l[n].id \in Loaded /\ data[l[n].id].sex = s /\ k \in Liked(l[n].id)
  /\ \A j \in Loaded : data[j].sex = s /\ k \in Liked(j) =>
       Places(l, j) # {} /\ Average(l, Places(l, j)) = TimeOf(j, k)

(* Those of the same liker follow each other.                              *)
Together(l) == \A m, n \in DOMAIN l : l[m].id = l[n].id => \A i \in m .. n : l[i].id = l[m].id

Single(l) == \A m, n \in DOMAIN l : l[m].id = l[n].id => m = n

LikersHold ==
  /\ likers \in [Ids -> [Sexes -> Seq([id : Ids, ts : Nat])]]
  /\ \A k \in Ids, s \in Sexes : \A l \in {likers[k][s]} :
       Tells(l, k, s) /\ Together(l) /\ (serving => Single(l))

LikesInv == Inv /\ Kept /\ LikersHold

LEMMA ListsTimed ==
  ASSUME NEW l \in Seq([id : Ids, ts : Nat])
  PROVE  /\ Timed(l) /\ \A n \in DOMAIN l : l[n].id \in Ids
         /\ \A k : Places(l, k) \in SUBSET DOMAIN l /\ Places(l, k) \in SUBSET Nat
  <1> DEFINE R == [id : Ids, ts : Nat]
  <1>1. Len(l) \in Nat /\ DOMAIN l = 1 .. Len(l) /\ \A n \in 1 .. Len(l) : l[n] \in R
    <2> HIDE DEF R
    <2>1. l \in Seq(R)
      BY DEF R
    <2> QED
      BY <2>1
  <1>2. \A n \in 1 .. Len(l) : l[n].ts \in Nat /\ l[n].id \in Ids
    BY <1>1
  <1>3. Timed(l)
    BY <1>1, <1>2 DEF Timed
  <1> QED
    BY <1>1, <1>2, <1>3 DEF Places

LEMMA LikesAreLikes ==
  ASSUME NEW a \in Accounts
  PROVE  /\ a.likes \in Seq([id : Ids, ts : Nat]) /\ Timed(a.likes) /\ a.sex \in Sexes
         /\ \A k : Places(a.likes, k) \in SUBSET DOMAIN a.likes /\ Places(a.likes, k) \in SUBSET Nat
  <1>1. a \in [fname : Names \union {NoName}, sname : Names \union {NoName}, email : Names,
               domain : Names, interests : Seq(Names), sex : Sexes,
               likes : Seq([id : Ids, ts : Nat])]
    BY AccountAssumption
  <1>2. a.likes \in Seq([id : Ids, ts : Nat]) /\ a.sex \in Sexes
    BY <1>1
  <1> QED
    BY <1>2, ListsTimed

(* The likes of a loaded account are put down at the end of the lists.     *)
LEMMA EntriesTell ==
  ASSUME NEW a \in Accounts, NEW id \in Ids, NEW k \in Ids
  PROVE  /\ Entries(a, id, k) \in Seq([id : Ids, ts : Nat])
         /\ IsBijection(Ascending(Places(a.likes, k)), DOMAIN Entries(a, id, k), Places(a.likes, k))
         /\ \A n \in DOMAIN Entries(a, id, k) :
              /\ Entries(a, id, k)[n].id = id
              /\ Entries(a, id, k)[n].ts = a.likes[Ascending(Places(a.likes, k))[n]].ts
  <1> DEFINE P == Places(a.likes, k)
             up == Ascending(P)
             N == Cardinality(P)
             e == Entries(a, id, k)
  <1>1. P \in SUBSET DOMAIN a.likes /\ P \in SUBSET Nat /\ IsFiniteSet(P)
    BY LikesAreLikes, Averages
  <1>2. IsBijection(up, 1 .. N, P) /\ N \in Nat
    <2> HIDE DEF P
    <2> QED
      BY <1>1, AscendingArranges
  <1>3. e = [n \in DOMAIN up |-> [id |-> id, ts |-> a.likes[up[n]].ts]]
    BY DEF Entries
  <1>4. \A n \in P : a.likes[n].ts \in Nat
    BY <1>1, LikesAreLikes DEF Timed
  <1> HIDE DEF P, up, N, e
  <1>5. DOMAIN up = 1 .. N /\ \A n \in 1 .. N : up[n] \in P
    BY <1>2 DEF IsBijection
  <1>6. e \in [1 .. N -> [id : Ids, ts : Nat]]
    BY <1>3, <1>4, <1>5
  <1>7. e \in Seq([id : Ids, ts : Nat]) /\ DOMAIN e = 1 .. N
    <2> DEFINE R == [id : Ids, ts : Nat]
    <2>1. e \in [1 .. N -> R]
      BY <1>6
    <2> HIDE DEF R
    <2>2. e \in Seq(R) /\ DOMAIN e = 1 .. N
      BY <1>2, <2>1
    <2> QED
      BY <2>2 DEF R
  <1> QED
    BY <1>2, <1>3, <1>5, <1>7 DEF e, up, P

Continues(r, l, e, id) ==
  /\ Len(l) \in Nat /\ DOMAIN l = 1 .. Len(l) /\ DOMAIN e = 1 .. Len(e)
  /\ r \in Seq([id : Ids, ts : Nat])
  /\ \A n \in DOMAIN r : (n \in DOMAIN l /\ r[n] = l[n]) \/ r[n].id = id
  /\ \A n \in DOMAIN e : r[Len(l) + n] = e[n]
  /\ \A j : j # id => Places(r, j) = Places(l, j) /\ Average(r, Places(l, j)) = Average(l, Places(l, j))
  /\ Places(r, id) = {Len(l) + n : n \in DOMAIN e}
  /\ Together(l) => Together(r)

LEMMA Appended ==
  ASSUME NEW l \in Seq([id : Ids, ts : Nat]), NEW e \in Seq([id : Ids, ts : Nat]), NEW id,
         \A n \in DOMAIN l : l[n].id # id, \A n \in DOMAIN e : e[n].id = id
  PROVE  Continues(l \o e, l, e, id)
  <1> DEFINE R == [id : Ids, ts : Nat]
             r == l \o e
             N == Len(l)
             M == Len(e)
  <1>1. /\ N \in Nat /\ M \in Nat /\ DOMAIN l = 1 .. N /\ DOMAIN e = 1 .. M
        /\ DOMAIN r = 1 .. N + M /\ r \in Seq(R)
        /\ \A n \in 1 .. N + M : r[n] = IF n <= N THEN l[n] ELSE e[n - N]
    <2> HIDE DEF R
    <2>1. l \in Seq(R) /\ e \in Seq(R)
      BY DEF R
    <2> QED
      BY <2>1
  <1> HIDE DEF r, N, M
  <1>2. /\ \A n \in 1 .. N : n \in 1 .. N + M /\ r[n] = l[n] /\ r[n].id # id
        /\ \A n \in 1 .. M : N + n \in 1 .. N + M /\ r[N + n] = e[n] /\ r[N + n].id = id
    <2>1. ASSUME NEW n \in 1 .. N PROVE n \in 1 .. N + M /\ r[n] = l[n] /\ r[n].id # id
      BY <1>1
    <2>2. ASSUME NEW n \in 1 .. M PROVE N + n \in 1 .. N + M /\ r[N + n] = e[n] /\ r[N + n].id = id
      <3>1. N + n \in 1 .. N + M /\ ~ N + n <= N /\ (N + n) - N = n
        BY <1>1
      <3> QED
        BY <1>1, <3>1
    <2> QED
      BY <2>1, <2>2
  <1>3. \A n \in 1 .. N + M : n \in 1 .. N \/ \E m \in 1 .. M : n = N + m
    <2> SUFFICES ASSUME NEW n \in 1 .. N + M, n \notin 1 .. N PROVE \E m \in 1 .. M : n = N + m
      OBVIOUS
    <2>1. n - N \in 1 .. M /\ n = N + (n - N)
      BY <1>1
    <2> QED
      BY <2>1
  <1>4. ASSUME NEW j, j # id
        PROVE  Places(r, j) = Places(l, j) /\ Average(r, Places(l, j)) = Average(l, Places(l, j))
    <2>1. Places(r, j) = Places(l, j)
      BY <1>1, <1>2, <1>3, <1>4 DEF Places
    <2>2. \A n \in Places(l, j) : r[n].ts = l[n].ts
      BY <1>1, <1>2 DEF Places
    <2>3. [m \in Places(l, j) |-> r[m].ts] = [m \in Places(l, j) |-> l[m].ts]
      BY <2>2
    <2> QED
      BY <2>1, <2>3 DEF Average, Total
  <1>5. Places(r, id) = {N + n : n \in 1 .. M}
    <2>1. \A m : m \in Places(r, id) <=> m \in 1 .. N + M /\ r[m].id = id
      BY <1>1 DEF Places
    <2>2. \A m : m \in Places(r, id) <=> \E n \in 1 .. M : m = N + n
      BY <1>2, <1>3, <2>1
    <2> QED
      BY <2>2
  <1>6. ASSUME Together(l), NEW m \in 1 .. N + M, NEW n \in 1 .. N + M, r[m].id = r[n].id,
               NEW i \in m .. n
        PROVE  r[i].id = r[m].id
    <2>1. i \in 1 .. N + M /\ m <= i /\ i <= n
      BY <1>1
    <2>2. CASE n \in 1 .. N
      <3>1. m \in 1 .. N /\ i \in 1 .. N
        BY <1>1, <2>1, <2>2
      <3>2. l[m].id = l[n].id /\ r[i].id = l[i].id /\ r[m].id = l[m].id
        BY <1>2, <1>6, <2>2, <3>1
      <3>3. l[i].id = l[m].id
        BY <1>1, <1>6, <2>2, <3>1, <3>2 DEF Together
      <3> QED
        BY <3>2, <3>3
    <2>3. CASE n \notin 1 .. N
      <3>1. r[m].id = id
        BY <1>2, <1>3, <1>6, <2>3
      <3>2. m \notin 1 .. N
        BY <1>2, <3>1
      <3>3. i \notin 1 .. N
        BY <1>1, <2>1, <3>2
      <3> QED
        BY <1>2, <1>3, <2>1, <3>1, <3>3
    <2> QED
      BY <2>2, <2>3
  <1>7. Together(l) => Together(r)
    BY <1>1, <1>6 DEF Together
  <1>8. \A n \in 1 .. N + M : (n \in 1 .. N /\ r[n] = l[n]) \/ r[n].id = id
    BY <1>2, <1>3
  <1>9. Continues(r, l, e, id)
    BY <1>1, <1>2, <1>4, <1>5, <1>7, <1>8 DEF Continues, N, M
  <1> QED
    BY <1>9 DEF r

LEMMA LoadTells ==
  ASSUME LikesInv, NEW id \in Ids, NEW a \in Accounts, Load(id, a)
  PROVE  LikersHold'
  <1>1. /\ Loaded' = Loaded \union {id} /\ id \notin Loaded
        /\ data'[id] = a /\ \A j \in Loaded : j # id /\ data'[j] = data[j]
        /\ serving' = serving /\ ~ serving
    BY LoadRecords DEF LikesInv, Load
  <1>2. /\ \A j \in Loaded : Liked(j)' = Liked(j) /\ \A k : TimeOf(j, k)' = TimeOf(j, k)
        /\ Liked(id)' = {a.likes[n].id : n \in DOMAIN a.likes}
        /\ \A k : TimeOf(id, k)' = Average(a.likes, Places(a.likes, k))
    BY <1>1 DEF Liked, TimeOf, Average
  <1>3. ASSUME NEW k \in Ids, NEW s \in Sexes
        PROVE  /\ likers'[k][s] \in Seq([id : Ids, ts : Nat])
               /\ \A l \in {likers'[k][s]} : Tells(l, k, s)' /\ Together(l)
    <2>1. PICK l : l = likers[k][s]
      OBVIOUS
    <2>2. PICK r : r = likers'[k][s]
      OBVIOUS
    <2>3. PICK e : e = Entries(a, id, k)
      OBVIOUS
    <2>4. PICK up : up = Ascending(Places(a.likes, k))
      OBVIOUS
    <2>5. r = IF a.sex = s THEN l \o e ELSE l
      BY <2>1, <2>2, <2>3 DEF Load, LikersWith
    <2>6. l \in Seq([id : Ids, ts : Nat]) /\ Tells(l, k, s) /\ Together(l)
      BY <2>1 DEF LikesInv, LikersHold
    <2>7. ASSUME NEW n \in DOMAIN l
          PROVE  /\ l[n].id \in Loaded /\ data[l[n].id].sex = s /\ k \in Liked(l[n].id)
                 /\ \A j : j = l[n].id => j \in Loaded' /\ data'[j].sex = s /\ k \in Liked(j)'
      <3>1. l[n].id \in Loaded /\ data[l[n].id].sex = s /\ k \in Liked(l[n].id)
        BY <2>6 DEF Tells
      <3> QED
        BY <1>1, <1>2, <3>1
    <2>8. \A j \in Loaded : data[j].sex = s /\ k \in Liked(j) =>
            Places(l, j) # {} /\ Average(l, Places(l, j)) = TimeOf(j, k)
      BY <2>6 DEF Tells
    <2>9. CASE a.sex # s
      <3>1. \A n \in DOMAIN l : \A j : j = l[n].id =>
              j \in Loaded' /\ data'[j].sex = s /\ k \in Liked(j)'
        BY <2>7
      <3>2. \A j \in Loaded' : data'[j].sex = s /\ k \in Liked(j)' =>
              Places(l, j) # {} /\ Average(l, Places(l, j)) = TimeOf(j, k)'
        BY <1>1, <1>2, <2>8, <2>9
      <3>3. Tells(l, k, s)'
        BY <2>6, <3>1, <3>2 DEF Tells
      <3>4. r = l
        BY <2>5, <2>9
      <3> QED
        BY <2>2, <2>6, <3>3, <3>4
    <2>10. CASE a.sex = s
      <3>1. /\ e \in Seq([id : Ids, ts : Nat]) /\ IsBijection(up, DOMAIN e, Places(a.likes, k))
            /\ \A n \in DOMAIN e : e[n].id = id /\ e[n].ts = a.likes[up[n]].ts
        <4>1. /\ Entries(a, id, k) \in Seq([id : Ids, ts : Nat])
              /\ IsBijection(Ascending(Places(a.likes, k)), DOMAIN Entries(a, id, k), Places(a.likes, k))
              /\ \A n \in DOMAIN Entries(a, id, k) :
                   /\ Entries(a, id, k)[n].id = id
                   /\ Entries(a, id, k)[n].ts = a.likes[Ascending(Places(a.likes, k))[n]].ts
          BY EntriesTell
        <4> QED
          BY <2>3, <2>4, <4>1, Zenon
      <3>2. \A n \in DOMAIN l : l[n].id # id
        BY <1>1, <2>7
      <3>3. Continues(l \o e, l, e, id)
        BY <2>6, <3>1, <3>2, Appended
      <3>4. Continues(r, l, e, id) /\ r \in Seq([id : Ids, ts : Nat])
        BY <2>5, <2>10, <3>3 DEF Continues
      <3>5. k \in Liked(id)' <=> Places(a.likes, k) # {}
        BY <1>2 DEF Places
      <3>6. Places(r, id) # {} <=> Places(a.likes, k) # {}
        <4>1. Places(r, id) # {} <=> DOMAIN e # {}
          BY <3>4 DEF Continues
        <4>2. DOMAIN e # {} <=> Places(a.likes, k) # {}
          BY <3>1 DEF IsBijection
        <4> QED
          BY <4>1, <4>2
      <3>7. Average(r, Places(r, id)) = TimeOf(id, k)'
        <4> DEFINE h == [m \in Places(r, id) |-> up[m - Len(l)]]
        <4>1. \A n \in DOMAIN e : /\ Len(l) + n \in Places(r, id) /\ (Len(l) + n) - Len(l) = n
                                  /\ r[Len(l) + n] = e[n]
          BY <3>4 DEF Continues
        <4>2. \A n \in DOMAIN e : h[Len(l) + n] = up[n]
          BY <4>1
        <4>3. DOMAIN h = Places(r, id) /\ h = [m \in Places(r, id) |-> h[m]]
          OBVIOUS
        <4>4. \A m \in Places(r, id) : \E n \in DOMAIN e : m = Len(l) + n
          BY <3>4 DEF Continues
        <4>5. /\ \A n \in DOMAIN e : up[n] \in Places(a.likes, k)
              /\ \A m, n \in DOMAIN e : up[m] = up[n] => m = n
              /\ \A q \in Places(a.likes, k) : \E n \in DOMAIN e : up[n] = q
          BY <3>1 DEF IsBijection
        <4> HIDE DEF h
        <4>6. \A m \in Places(r, id) : h[m] \in Places(a.likes, k)
          BY <4>2, <4>4, <4>5
        <4>7. \A m, n \in Places(r, id) : h[m] = h[n] => m = n
          BY <4>2, <4>4, <4>5
        <4>8. \A q \in Places(a.likes, k) : \E m \in Places(r, id) : h[m] = q
          BY <4>1, <4>2, <4>5
        <4>9. IsBijection(h, Places(r, id), Places(a.likes, k))
          BY <4>3, <4>6, <4>7, <4>8 DEF IsBijection
        <4>10. \A m \in Places(r, id) : r[m].ts = a.likes[h[m]].ts
          BY <3>1, <4>1, <4>2, <4>4
        <4>11. /\ Timed(a.likes) /\ Places(a.likes, k) \subseteq DOMAIN a.likes
               /\ Timed(r) /\ Places(r, id) \in SUBSET DOMAIN r
          BY <3>4, LikesAreLikes, ListsTimed
        <4>12. Average(r, Places(r, id)) = Average(a.likes, Places(a.likes, k))
          BY <4>9, <4>10, <4>11, Averages
        <4> QED
          BY <1>2, <4>12
      <3>8. ASSUME NEW n \in DOMAIN r, NEW j, j = r[n].id
            PROVE  j \in Loaded' /\ data'[j].sex = s /\ k \in Liked(j)'
        <4>1. CASE n \in DOMAIN l /\ r[n] = l[n]
          BY <2>7, <3>8, <4>1
        <4>2. CASE j = id
          <5>1. n \in Places(r, id)
            BY <3>8, <4>2 DEF Places
          <5> QED
            BY <1>1, <2>10, <3>5, <3>6, <4>2, <5>1
        <4> QED
          BY <3>4, <3>8, <4>1, <4>2 DEF Continues
      <3>9. ASSUME NEW j \in Loaded', data'[j].sex = s, k \in Liked(j)'
            PROVE  Places(r, j) # {} /\ Average(r, Places(r, j)) = TimeOf(j, k)'
        <4>1. CASE j = id
          BY <3>5, <3>6, <3>7, <3>9, <4>1
        <4>2. CASE j # id
          <5>1. Places(l, j) # {} /\ Average(l, Places(l, j)) = TimeOf(j, k)'
            BY <1>1, <1>2, <2>8, <3>9, <4>2
          <5>2. Places(r, j) = Places(l, j) /\ Average(r, Places(l, j)) = Average(l, Places(l, j))
            BY <3>4, <4>2 DEF Continues
          <5> QED
            BY <5>1, <5>2
        <4> QED
          BY <4>1, <4>2
      <3>10. Tells(r, k, s)'
        <4>1. \A n \in DOMAIN r : \A j : j = r[n].id =>
                j \in Loaded' /\ data'[j].sex = s /\ k \in Liked(j)'
          BY <3>8
        <4> QED
          BY <3>4, <3>9, <4>1 DEF Tells
      <3>11. Together(r)
        BY <2>6, <3>4 DEF Continues
      <3> QED
        BY <2>2, <3>4, <3>10, <3>11
    <2> QED
      BY <2>9, <2>10
  <1>4. likers' \in [Ids -> [Sexes -> Seq([id : Ids, ts : Nat])]]
    <2>1. likers' = [k \in Ids |-> [s \in Sexes |-> likers'[k][s]]]
      BY DEF Load, LikersWith
    <2>2. \A k \in Ids, s \in Sexes : likers'[k][s] \in Seq([id : Ids, ts : Nat])
      BY <1>3
    <2> QED
      BY <2>1, <2>2
  <1> QED
    BY <1>1, <1>3, <1>4 DEF LikersHold

LEMMA LoadKeepsLikes ==
  ASSUME LikesInv, NEW id \in Ids, NEW a \in Accounts, Load(id, a)
  PROVE  Kept'
  <1>1. /\ Loaded' = Loaded \union {id} /\ id \notin Loaded
        /\ data'[id] = a /\ \A j \in Loaded : j # id /\ data'[j] = data[j]
    BY LoadRecords DEF LikesInv
  <1>2. PICK p \in Sortings(a.likes) :
          accounts' = [accounts EXCEPT ![id] =
            [fname |-> Code(dic'.fname, a.fname), sname |-> Code(dic'.sname, a.sname),
             email |-> a.email, domain |-> dic'.domain[a.domain], sex |-> a.sex,
             likes |-> [n \in DOMAIN a.likes |-> a.likes[p[n]]]]]
    BY DEF Load
  <1>3. DOMAIN accounts = Ids /\ Loaded \subseteq Ids
    BY DEF LikesInv, Inv, Stored, Loaded
  <1>4. IsBijection(p, DOMAIN a.likes, DOMAIN a.likes)
    BY DEF Sortings, Bijection, Injection, Surjection, IsInjective, IsBijection
  <1>5. accounts'[id].sex = a.sex /\ accounts'[id].likes = [n \in DOMAIN a.likes |-> a.likes[p[n]]]
    BY <1>2, <1>3
  <1>6. \A j \in Loaded : accounts'[j] = accounts[j]
    BY <1>1, <1>2, <1>3
  <1>7. Reordered(accounts'[id].likes, a.likes)
    BY <1>4, <1>5 DEF Reordered
  <1>8. ASSUME NEW j \in Loaded'
        PROVE  accounts'[j].sex = data'[j].sex /\ Reordered(accounts'[j].likes, data'[j].likes)
    <2>1. CASE j = id
      BY <1>1, <1>5, <1>7, <2>1
    <2>2. CASE j \in Loaded
      BY <1>1, <1>6, <2>2 DEF LikesInv, Kept
    <2> QED
      BY <1>1, <2>1, <2>2
  <1> QED
    BY <1>8 DEF Kept

(* Merging: one entry for each liker, at the average of his.               *)
LEMMA MergedOnce ==
  ASSUME NEW l \in Seq([id : Ids, ts : Nat]), Together(l)
  PROVE  /\ Merged(l) \in Seq([id : Ids, ts : Nat]) /\ Single(Merged(l))
         /\ \A n \in DOMAIN Merged(l) :
              /\ Merged(l)[n].ts = Average(l, Places(l, Merged(l)[n].id))
              /\ \E m \in DOMAIN l : l[m].id = Merged(l)[n].id
         /\ \A m \in DOMAIN l : \E n \in DOMAIN Merged(l) : Merged(l)[n].id = l[m].id
  <1> DEFINE P == Starts(l)
             up == Ascending(P)
             r == Merged(l)
             N == Cardinality(P)
  <1>1. PICK L \in Nat : DOMAIN l = 1 .. L
    BY ListsTimed DEF Timed
  <1>2. /\ Timed(l) /\ \A n \in DOMAIN l : l[n].id \in Ids
        /\ \A k : Places(l, k) \in SUBSET DOMAIN l /\ Places(l, k) \in SUBSET Nat
    BY ListsTimed
  <1>3. P \in SUBSET DOMAIN l /\ P \in SUBSET Nat /\ IsFiniteSet(P)
    <2>1. P \in SUBSET DOMAIN l
      BY DEF Starts
    <2> HIDE DEF P
    <2> QED
      BY <1>1, <1>2, <2>1, Averages
  <1>4. ASSUME NEW n \in P, NEW m \in DOMAIN l, l[m].id = l[n].id
        PROVE  n <= m
    <2>1. n \in 1 .. L /\ m \in 1 .. L /\ (n = 1 \/ l[n - 1].id # l[n].id)
      BY <1>1 DEF Starts
    <2>2. ASSUME m < n PROVE FALSE
      <3>1. n - 1 \in m .. n /\ n # 1
        BY <2>1, <2>2
      <3>2. l[n - 1].id = l[m].id
        BY <1>1, <1>4, <2>1, <3>1 DEF Together
      <3> QED
        BY <1>4, <2>1, <3>1, <3>2
    <2> QED
      BY <2>1, <2>2
  <1>5. ASSUME NEW n \in P PROVE RunOf(l, n) = Places(l, l[n].id)
    <2>1. n \in DOMAIN l
      BY <1>3
    <2>2. ASSUME NEW m \in DOMAIN l, l[m].id = l[n].id
          PROVE  m >= n /\ \A i \in n .. m : l[i].id = l[n].id
      <3>1. n <= m
        BY <1>4, <2>2
      <3>2. m \in Nat /\ n \in Nat
        BY <1>1, <2>1
      <3>3. \A i \in n .. m : l[i].id = l[n].id
        BY <2>1, <2>2 DEF Together
      <3> QED
        BY <3>1, <3>2, <3>3
    <2>3. ASSUME NEW m \in DOMAIN l, m >= n, \A i \in n .. m : l[i].id = l[n].id
          PROVE  l[m].id = l[n].id
      <3>1. m \in n .. m
        BY <1>1, <2>1, <2>3
      <3> QED
        BY <2>3, <3>1
    <2> QED
      BY <2>2, <2>3 DEF RunOf, Places
  <1>6. IsBijection(up, 1 .. N, P) /\ N \in Nat
    <2> HIDE DEF P
    <2> QED
      BY <1>3, AscendingArranges
  <1>7. \A i \in 1 .. N : up[i] \in P /\ up[i] \in DOMAIN l
    BY <1>3, <1>6 DEF IsBijection
  <1>8. DOMAIN up = 1 .. N
    BY <1>6 DEF IsBijection
  <1>9. r = [i \in 1 .. N |-> [id |-> l[up[i]].id, ts |-> Average(l, RunOf(l, up[i]))]]
    <2>1. r = [i \in DOMAIN up |-> [id |-> l[up[i]].id, ts |-> Average(l, RunOf(l, up[i]))]]
      BY DEF Merged, Average
    <2> HIDE DEF up, r
    <2> QED
      BY <1>8, <2>1
  <1>10. \A m \in DOMAIN l : \E n \in P : l[n].id = l[m].id
    <2> SUFFICES ASSUME NEW m \in DOMAIN l PROVE \E n \in P : l[n].id = l[m].id
      OBVIOUS
    <2>1. Places(l, l[m].id) # {}
      BY DEF Places
    <2>2. PICK n \in Places(l, l[m].id) : \A o \in Places(l, l[m].id) : n <= o
      BY <1>2, <2>1, HasLeast
    <2>3. n \in 1 .. L /\ l[n].id = l[m].id
      BY <1>1, <2>2 DEF Places
    <2>4. n = 1 \/ l[n - 1].id # l[n].id
      <3> SUFFICES ASSUME n # 1, l[n - 1].id = l[n].id PROVE FALSE
        OBVIOUS
      <3>1. n - 1 \in 1 .. L /\ ~ n <= n - 1
        BY <2>3
      <3>2. n - 1 \in Places(l, l[m].id)
        BY <1>1, <2>3, <3>1 DEF Places
      <3> QED
        BY <2>2, <3>1, <3>2
    <2> QED
      BY <1>1, <2>3, <2>4 DEF Starts
  <1> HIDE DEF P, up, r, N
  <1>11. ASSUME NEW i \in 1 .. N
         PROVE  /\ r[i].id = l[up[i]].id /\ r[i].ts = Average(l, Places(l, r[i].id))
                /\ r[i] \in [id : Ids, ts : Nat]
    <2>1. r[i] = [id |-> l[up[i]].id, ts |-> Average(l, Places(l, l[up[i]].id))]
      BY <1>5, <1>7, <1>9
    <2>2. up[i] \in Places(l, l[up[i]].id)
      BY <1>7 DEF Places
    <2>3. Average(l, Places(l, l[up[i]].id)) \in Nat
      BY <1>2, <2>2, Averages
    <2> QED
      BY <1>2, <1>7, <2>1, <2>3
  <1>12. r \in Seq([id : Ids, ts : Nat]) /\ DOMAIN r = 1 .. N
    <2> DEFINE R == [id : Ids, ts : Nat]
    <2>1. r = [i \in 1 .. N |-> r[i]] /\ \A i \in 1 .. N : r[i] \in R
      BY <1>9, <1>11
    <2> HIDE DEF R
    <2>2. r \in [1 .. N -> R]
      BY <2>1
    <2>3. r \in Seq(R) /\ DOMAIN r = 1 .. N
      BY <1>6, <2>2
    <2> QED
      BY <2>3 DEF R
  <1>13. Single(r)
    <2> SUFFICES ASSUME NEW m \in 1 .. N, NEW n \in 1 .. N, r[m].id = r[n].id PROVE m = n
      BY <1>12 DEF Single
    <2>1. l[up[m]].id = l[up[n]].id
      BY <1>11
    <2>2. up[m] <= up[n] /\ up[n] <= up[m] /\ up[m] \in Nat /\ up[n] \in Nat
      BY <1>3, <1>4, <1>7, <2>1
    <2>3. up[m] = up[n]
      BY <2>2
    <2> QED
      BY <1>6, <2>3 DEF IsBijection
  <1>14. \A m \in DOMAIN l : \E n \in 1 .. N : r[n].id = l[m].id
    <2> SUFFICES ASSUME NEW m \in DOMAIN l PROVE \E n \in 1 .. N : r[n].id = l[m].id
      OBVIOUS
    <2>1. PICK n \in P : l[n].id = l[m].id
      BY <1>10
    <2>2. PICK i \in 1 .. N : up[i] = n
      BY <1>6 DEF IsBijection
    <2> QED
      BY <1>11, <2>1, <2>2
  <1>15. \A n \in 1 .. N : /\ r[n].ts = Average(l, Places(l, r[n].id))
                           /\ \E m \in DOMAIN l : l[m].id = r[n].id
    BY <1>7, <1>11
  <1> QED
    BY <1>12, <1>13, <1>14, <1>15 DEF r

LEMMA MakeIndexTells ==
  ASSUME LikesInv, MakeIndex
  PROVE  LikersHold'
  <1>1. /\ data' = data /\ Loaded' = Loaded /\ \A j : Liked(j)' = Liked(j)
        /\ \A j, k : TimeOf(j, k)' = TimeOf(j, k)
    BY DEF MakeIndex, Loaded, Liked, TimeOf
  <1>2. ASSUME NEW k \in Ids, NEW s \in Sexes, NEW r \in {likers'[k][s]}
        PROVE  /\ r \in Seq([id : Ids, ts : Nat])
               /\ Tells(r, k, s)' /\ Together(r) /\ Single(r)
    <2>1. PICK l : l = likers[k][s]
      OBVIOUS
    <2>2. l \in Seq([id : Ids, ts : Nat]) /\ Tells(l, k, s) /\ Together(l)
      BY <2>1 DEF LikesInv, LikersHold
    <2>3. r = Merged(l)
      BY <1>2, <2>1 DEF MakeIndex
    <2>4. /\ r \in Seq([id : Ids, ts : Nat]) /\ Single(r)
          /\ \A n \in DOMAIN r : /\ r[n].ts = Average(l, Places(l, r[n].id))
                                 /\ \E m \in DOMAIN l : l[m].id = r[n].id
          /\ \A m \in DOMAIN l : \E n \in DOMAIN r : r[n].id = l[m].id
      BY <2>2, <2>3, MergedOnce
    <2>5. Together(r)
      <3> SUFFICES ASSUME NEW m \in DOMAIN r, NEW n \in DOMAIN r, r[m].id = r[n].id, NEW i \in m .. n
                   PROVE  r[i].id = r[m].id
        BY DEF Together
      <3>1. m = n
        BY <2>4 DEF Single
      <3>2. m \in Int
        BY <2>4, ListsTimed DEF Timed
      <3>3. i = m
        BY <3>1, <3>2
      <3> QED
        BY <3>3
    <2>6. ASSUME NEW n \in DOMAIN r, NEW j, j = r[n].id
          PROVE  j \in Loaded /\ data[j].sex = s /\ k \in Liked(j)
      <3>1. PICK m \in DOMAIN l : l[m].id = j
        BY <2>4, <2>6
      <3> QED
        BY <2>2, <3>1 DEF Tells
    <2>7. ASSUME NEW j \in Loaded, data[j].sex = s, k \in Liked(j)
          PROVE  Places(r, j) # {} /\ Average(r, Places(r, j)) = TimeOf(j, k)
      <3>1. Places(l, j) # {} /\ Average(l, Places(l, j)) = TimeOf(j, k)
        BY <2>2, <2>7 DEF Tells
      <3>2. PICK n \in DOMAIN r : r[n].id = j
        BY <2>4, <3>1 DEF Places
      <3>3. Places(r, j) = {n}
        BY <2>4, <3>2 DEF Places, Single
      <3>4. Average(r, Places(r, j)) = r[n].ts
        <4>1. Timed(r) /\ Places(r, j) \in SUBSET DOMAIN r
          BY <2>4, ListsTimed
        <4> QED
          BY <3>3, <4>1, Averages
      <3>5. r[n].ts = Average(l, Places(l, j))
        BY <2>4, <3>2
      <3> QED
        BY <3>1, <3>3, <3>4, <3>5
    <2>8. Tells(r, k, s)'
      <3>1. \A n \in DOMAIN r : \A j : j = r[n].id =>
              j \in Loaded' /\ data'[j].sex = s /\ k \in Liked(j)'
        BY <1>1, <2>6
      <3>2. \A j \in Loaded' : data'[j].sex = s /\ k \in Liked(j)' =>
              Places(r, j) # {} /\ Average(r, Places(r, j)) = TimeOf(j, k)'
        BY <1>1, <2>7
      <3> QED
        BY <2>4, <3>1, <3>2 DEF Tells
    <2> QED
      BY <2>4, <2>5, <2>8
  <1>3. likers' \in [Ids -> [Sexes -> Seq([id : Ids, ts : Nat])]]
    <2>1. likers' = [k \in Ids |-> [s \in Sexes |-> likers'[k][s]]]
      BY DEF MakeIndex
    <2>2. \A k \in Ids, s \in Sexes : likers'[k][s] \in Seq([id : Ids, ts : Nat])
      BY <1>2
    <2> QED
      BY <2>1, <2>2
  <1> QED
    BY <1>2, <1>3 DEF LikersHold

LEMMA SameLikes ==
  ASSUME LikersHold, UNCHANGED <<likers, data, serving>>
  PROVE  LikersHold'
  <1>1. /\ Loaded' = Loaded /\ \A j : Liked(j)' = Liked(j)
        /\ \A j, k : TimeOf(j, k)' = TimeOf(j, k)
    BY DEF Loaded, Liked, TimeOf
  <1>2. ASSUME NEW l, NEW k, NEW s, Tells(l, k, s) PROVE Tells(l, k, s)'
    BY <1>1, <1>2 DEF Tells
  <1> QED
    BY <1>2 DEF LikersHold

LEMMA LikesInvStep == LikesInv /\ [Next]_vars => LikesInv'
  <1> SUFFICES ASSUME LikesInv, [Next]_vars PROVE LikesInv'
    OBVIOUS
  <1>1. Inv'
    BY InvStep DEF LikesInv
  <1>2. CASE UNCHANGED vars
    <2>1. Kept'
      BY <1>2 DEF LikesInv, Kept, Loaded, vars
    <2>2. LikersHold'
      BY <1>2, SameLikes DEF LikesInv, vars
    <2> QED
      BY <1>1, <2>1, <2>2 DEF LikesInv
  <1>3. CASE MakeIndex
    <2>1. Kept'
      BY <1>3 DEF LikesInv, Kept, Loaded, MakeIndex
    <2> QED
      BY <1>1, <1>3, <2>1, MakeIndexTells DEF LikesInv
  <1>4. ASSUME NEW id \in Ids, NEW a \in Accounts, Load(id, a) PROVE LikesInv'
    BY <1>1, <1>4, LoadTells, LoadKeepsLikes DEF LikesInv
  <1>5. ASSUME NEW id \in Ids, NEW a \in Accounts, PostNew(id, a) PROVE LikesInv'
    <2>1. /\ likers' = likers /\ data' = data /\ serving' = serving /\ Loaded' = Loaded
          /\ id \notin Loaded
      BY <1>5 DEF PostNew, Loaded
    <2>2. \A j \in Loaded : accounts'[j] = accounts[j]
      <3>1. DOMAIN accounts = Ids
        BY DEF LikesInv, Inv, Stored
      <3> QED
        BY <1>5, <2>1, <3>1 DEF PostNew, Loaded
    <2>3. Kept'
      BY <2>1, <2>2 DEF LikesInv, Kept
    <2>4. LikersHold'
      BY <2>1, SameLikes DEF LikesInv
    <2> QED
      BY <1>1, <2>3, <2>4 DEF LikesInv
  <1> QED
    BY <1>2, <1>3, <1>4, <1>5 DEF Next

LEMMA LikesInvInit == Init => LikesInv
  <1> SUFFICES ASSUME Init PROVE LikesInv
    OBVIOUS
  <1>1. Loaded = {}
    BY DEF Init, Loaded
  <1>2. Kept
    BY <1>1 DEF Kept
  <1>3. /\ likers = [k \in Ids |-> [s \in Sexes |-> <<>>]]
        /\ <<>> \in Seq([id : Ids, ts : Nat]) /\ DOMAIN <<>> = {}
    BY DEF Init
  <1>4. \A k \in Ids, s \in Sexes :
          Tells(<<>>, k, s) /\ Together(<<>>) /\ Single(<<>>)
    BY <1>1, <1>3 DEF Tells, Together, Single
  <1>5. LikersHold
    BY <1>3, <1>4 DEF LikersHold
  <1> QED
    BY <1>2, <1>5, InvInit DEF LikesInv

LEMMA LikesInvAlways == Spec => []LikesInv
  BY LikesInvInit, LikesInvStep, PTL DEF Spec

-----------------------------------------------------------------------------
(* Those who have a like of mine, too: each once, at his average time.     *)
LEMMA Liking ==
  ASSUME LikesInv, serving, NEW k \in Ids, NEW s \in Sexes
  PROVE  /\ \A m \in DOMAIN likers[k][s] : \A j : j = likers[k][s][m].id =>
              /\ j \in Loaded /\ data[j].sex = s /\ k \in Liked(j)
              /\ likers[k][s][m].ts = TimeOf(j, k) /\ TimeOf(j, k) \in Nat
         /\ Single(likers[k][s])
         /\ \A j \in Loaded : data[j].sex = s /\ k \in Liked(j) =>
              \E m \in DOMAIN likers[k][s] : likers[k][s][m].id = j
  <1>1. PICK l : l = likers[k][s]
    OBVIOUS
  <1>2. l \in Seq([id : Ids, ts : Nat]) /\ Tells(l, k, s) /\ Single(l)
    BY <1>1 DEF LikesInv, LikersHold
  <1>3. Timed(l) /\ \A j : Places(l, j) \in SUBSET DOMAIN l
    BY <1>2, ListsTimed
  <1>4. ASSUME NEW m \in DOMAIN l, NEW j, j = l[m].id
        PROVE  /\ j \in Loaded /\ data[j].sex = s /\ k \in Liked(j)
               /\ l[m].ts = TimeOf(j, k) /\ TimeOf(j, k) \in Nat
    <2>1. j \in Loaded /\ data[j].sex = s /\ k \in Liked(j)
      BY <1>2, <1>4 DEF Tells
    <2>2. Places(l, j) = {m}
      BY <1>2, <1>4 DEF Places, Single
    <2>3. Average(l, Places(l, j)) = l[m].ts /\ Average(l, Places(l, j)) \in Nat
      BY <1>3, <2>2, Averages
    <2>4. Average(l, Places(l, j)) = TimeOf(j, k)
      BY <1>2, <2>1 DEF Tells
    <2> QED
      BY <2>1, <2>3, <2>4
  <1>5. \A j \in Loaded : data[j].sex = s /\ k \in Liked(j) => \E m \in DOMAIN l : l[m].id = j
    BY <1>2 DEF Tells, Places
  <1> QED
    BY <1>1, <1>2, <1>4, <1>5

LEMMA GapTyped == \A s, t \in Nat : Gap(s, t) \in Nat
  BY DEF Gap

(* The sum of the gaps with somebody is how far apart the data say he is.  *)
LEMMA SumsAreApart ==
  ASSUME LikesInv, serving, NEW me \in Loaded
  PROVE  /\ likers_mp(me) = [j \in Alike(me) |-> Apart(me, j)]
         /\ \A j \in Alike(me) : Apart(me, j) \in Nat
  <1>1. PICK likes, D, s : likes = data[me].likes /\ D = DOMAIN likes /\ s = data[me].sex
    OBVIOUS
  <1>2. PICK mine : mine = accounts[me].likes
    OBVIOUS
  <1>3. PICK p : IsBijection(p, D, D) /\ mine = [n \in D |-> likes[p[n]]]
    BY <1>1, <1>2 DEF LikesInv, Kept, Reordered
  <1>4. accounts[me].sex = s /\ s \in Sexes /\ data[me] \in Accounts /\ me \in Ids
    BY <1>1, LikesAreLikes DEF LikesInv, Kept, Inv, Histories, Loaded
  <1>5. /\ \A n \in D : likes[n].id \in Ids /\ likes[n].ts \in Nat
        /\ \A S \in SUBSET D : IsFiniteSet(S)
    <2>1. likes \in Seq([id : Ids, ts : Nat]) /\ Timed(likes)
      BY <1>1, <1>4, LikesAreLikes
    <2>2. \A n \in D : likes[n].id \in Ids /\ likes[n].ts \in Nat
      BY <1>1, <2>1, ListsTimed DEF Timed
    <2> QED
      BY <1>1, <2>1, <2>2, Averages
  <1>6. \A n \in D : p[n] \in D /\ mine[n] = likes[p[n]]
    BY <1>3 DEF IsBijection
  <1> DEFINE list(n) == likers[mine[n].id][s]
             At(n, m) == [who |-> list(n)[m].id, like |-> n, entry |-> m,
                          gap |-> Gap(mine[n].ts, list(n)[m].ts)]
             With(j) == {e \in Shared(me) : e.who = j}
             Ours(j) == {q \in D : likes[q].id \in Liked(j)}
  <1>7. DOMAIN mine = D
    BY <1>3
  <1>8. Shared(me) = {e \in UNION {{At(n, m) : m \in DOMAIN list(n)} : n \in D} : e.who # me}
    BY <1>2, <1>4, <1>7 DEF Shared
  <1>9. ASSUME NEW n \in D, NEW m \in DOMAIN list(n)
        PROVE  /\ list(n)[m].id \in Loaded /\ data[list(n)[m].id].sex = s
               /\ \A j : j = list(n)[m].id =>
                    /\ likes[p[n]].id \in Liked(j)
                    /\ list(n)[m].ts = TimeOf(j, likes[p[n]].id)
                    /\ TimeOf(j, likes[p[n]].id) \in Nat
               /\ \A i \in DOMAIN list(n) : list(n)[i].id = list(n)[m].id => i = m
    BY <1>4, <1>5, <1>6, <1>9, Liking DEF Single
  <1>10. ASSUME NEW n \in D, NEW j \in Loaded, data[j].sex = s, likes[p[n]].id \in Liked(j)
         PROVE  \E m \in DOMAIN list(n) : list(n)[m].id = j
    <2>1. PICK k : k = likes[p[n]].id
      OBVIOUS
    <2>2. k \in Ids /\ mine[n].id = k /\ k \in Liked(j)
      BY <1>5, <1>6, <1>10, <2>1
    <2>3. \E m \in DOMAIN likers[k][s] : likers[k][s][m].id = j
      BY <1>4, <1>10, <2>2, Liking
    <2> QED
      BY <2>2, <2>3
  <1>11. \A n, m : /\ At(n, m).who = list(n)[m].id /\ At(n, m).like = n
                   /\ At(n, m).entry = m /\ At(n, m).gap = Gap(mine[n].ts, list(n)[m].ts)
    OBVIOUS
  <1> HIDE DEF list, At
  <1>12. ASSUME NEW e \in Shared(me)
         PROVE  \E n \in D : \E m \in DOMAIN list(n) : e = At(n, m) /\ list(n)[m].id # me
    BY <1>8, <1>11
  <1>13. ASSUME NEW n \in D, NEW m \in DOMAIN list(n), list(n)[m].id # me
         PROVE  At(n, m) \in Shared(me)
    BY <1>8, <1>11, <1>13
  <1>14. {e.who : e \in Shared(me)} = Alike(me)
    <2>1. ASSUME NEW e \in Shared(me) PROVE e.who \in Alike(me)
      <3>0. PICK n \in D : \E m \in DOMAIN list(n) : e = At(n, m) /\ list(n)[m].id # me
        BY <1>12
      <3>1. PICK m \in DOMAIN list(n) : e = At(n, m) /\ list(n)[m].id # me
        BY <3>0
      <3>2. PICK j : j = list(n)[m].id
        OBVIOUS
      <3>3. /\ j \in Loaded \ {me} /\ data[j].sex = s /\ likes[p[n]].id \in Liked(j)
            /\ e.who = j
        BY <1>9, <1>11, <3>1, <3>2
      <3>4. likes[p[n]].id \in Liked(me)
        BY <1>1, <1>6 DEF Liked
      <3> QED
        BY <1>1, <3>3, <3>4 DEF Alike
    <2>2. ASSUME NEW j \in Alike(me) PROVE \E e \in Shared(me) : e.who = j
      <3>1. j \in Loaded /\ j # me /\ data[j].sex = s /\ Liked(j) \intersect Liked(me) # {}
        BY <1>1 DEF Alike
      <3>2. PICK q \in D : likes[q].id \in Liked(j)
        BY <1>1, <3>1 DEF Liked
      <3>3. PICK n \in D : p[n] = q
        BY <1>3 DEF IsBijection
      <3>4. PICK m \in DOMAIN list(n) : list(n)[m].id = j
        BY <1>10, <3>1, <3>2, <3>3
      <3> QED
        BY <1>11, <1>13, <3>1, <3>4
    <2> QED
      BY <2>1, <2>2
  <1>15. ASSUME NEW j \in Alike(me)
         PROVE  /\ SumFunction([e \in With(j) |-> e.gap]) = Apart(me, j)
                /\ Apart(me, j) \in Nat
    <2>1. j \in Loaded /\ j # me /\ data[j].sex = s
      BY <1>1 DEF Alike
    <2>2. ASSUME NEW e \in With(j)
          PROVE  /\ e.like \in D /\ p[e.like] \in Ours(j)
                 /\ e.gap = Gap(likes[p[e.like]].ts, TimeOf(j, likes[p[e.like]].id))
                 /\ e = At(e.like, e.entry) /\ e.entry \in DOMAIN list(e.like)
                 /\ list(e.like)[e.entry].id = j
      <3>1. e \in Shared(me) /\ e.who = j
        OBVIOUS
      <3>0. PICK n \in D : \E m \in DOMAIN list(n) : e = At(n, m)
        BY <1>12, <3>1
      <3>2. PICK m \in DOMAIN list(n) : e = At(n, m)
        BY <3>0
      <3>3. e.like = n /\ e.entry = m /\ e.who = list(n)[m].id /\ e.gap = Gap(mine[n].ts, list(n)[m].ts)
        BY <1>11, <3>2
      <3>4. likes[p[n]].id \in Liked(j) /\ list(n)[m].ts = TimeOf(j, likes[p[n]].id)
        BY <1>9, <3>1, <3>3
      <3> QED
        BY <1>6, <3>1, <3>2, <3>3, <3>4
    <2> DEFINE h == [e \in With(j) |-> p[e.like]]
               f == [e \in With(j) |-> e.gap]
               g == [q \in Ours(j) |-> Gap(likes[q].ts, TimeOf(j, likes[q].id))]
    <2>3. \A e \in With(j) : h[e] \in Ours(j) /\ h[e] = p[e.like] /\ f[e] = e.gap
      BY <2>2
    <2>4. \A q \in Ours(j) : g[q] \in Nat
      <3> SUFFICES ASSUME NEW q \in Ours(j) PROVE g[q] \in Nat
        OBVIOUS
      <3>1. q \in D /\ likes[q].id \in Liked(j)
        OBVIOUS
      <3>2. PICK n \in D : p[n] = q
        BY <1>3, <3>1 DEF IsBijection
      <3>3. PICK m \in DOMAIN list(n) : list(n)[m].id = j
        BY <1>10, <2>1, <3>1, <3>2
      <3>4. TimeOf(j, likes[q].id) \in Nat /\ likes[q].ts \in Nat
        BY <1>5, <1>9, <3>1, <3>2, <3>3
      <3> QED
        BY <3>4, GapTyped
    <2>5. /\ h \in [With(j) -> Ours(j)] /\ g \in [Ours(j) -> Nat]
          /\ \A e \in With(j) : f[e] = g[h[e]]
      BY <2>2, <2>3, <2>4
    <2>6. ASSUME NEW d \in With(j), NEW e \in With(j), p[d.like] = p[e.like] PROVE d = e
      <3>1. d.like = e.like
        BY <1>3, <2>2, <2>6 DEF IsBijection
      <3>2. d.entry = e.entry
        BY <1>9, <2>2, <3>1
      <3> QED
        BY <2>2, <3>1, <3>2
    <2>7. ASSUME NEW q \in Ours(j) PROVE \E e \in With(j) : p[e.like] = q
      <3>1. PICK n \in D : p[n] = q
        BY <1>3 DEF IsBijection
      <3>2. PICK m \in DOMAIN list(n) : list(n)[m].id = j
        BY <1>10, <2>1, <3>1
      <3>3. At(n, m) \in With(j) /\ At(n, m).like = n
        BY <1>11, <1>13, <2>1, <3>2
      <3> QED
        BY <3>1, <3>3
    <2>8. Apart(me, j) = SumFunction(g)
      BY <1>1 DEF Apart
    <2>9. IsFiniteSet(Ours(j))
      BY <1>5
    <2> HIDE DEF h, f, g, With, Ours
    <2>10. IsBijection(h, With(j), Ours(j))
      BY <2>3, <2>5, <2>6, <2>7 DEF IsBijection
    <2>11. IsFiniteSet(With(j))
      <3>1. h \in Injection(With(j), Ours(j))
        BY <2>10 DEF IsBijection, Injection, IsInjective
      <3> QED
        BY <2>9, <3>1, FS_Injection
    <2>12. f \in [With(j) -> Nat]
      <3>1. f = [e \in With(j) |-> f[e]]
        BY DEF f
      <3>2. \A e \in With(j) : f[e] \in Nat
        BY <2>3, <2>4, <2>5
      <3> QED
        BY <3>1, <3>2
    <2>13. SumFunction(f) = SumFunction(g) /\ SumFunction(f) \in Nat
      BY <2>5, <2>10, <2>11, <2>12, FunctionSum
    <2> QED
      BY <2>8, <2>13 DEF f
  <1>16. likers_mp(me) = [j \in Alike(me) |-> SumFunction([e \in With(j) |-> e.gap])]
    BY <1>14 DEF likers_mp
  <1> HIDE DEF With
  <1> QED
    BY <1>15, <1>16

-----------------------------------------------------------------------------
(* The suggestions: by the liker, and of each in the order of his likes.   *)
LEMMA NearerOrders ==
  ASSUME NEW sum, NEW S \in SUBSET Nat, DOMAIN sum = S, \A j \in S : sum[j] \in Nat
  PROVE  /\ Orders(Nearer(sum), S)
         /\ \A i, j \in S : <<i, j>> \in Nearer(sum)
                              <=> sum[i] < sum[j] \/ (sum[i] = sum[j] /\ i < j)
  <1>1. \A i, j \in S : <<i, j>> \in Nearer(sum)
                          <=> sum[i] < sum[j] \/ (sum[i] = sum[j] /\ i < j)
    BY DEF Nearer
  <1>2. \A j \in S : j \in Int /\ sum[j] \in Int
    OBVIOUS
  <1>3. \A d \in S : <<d, d>> \notin Nearer(sum)
    BY <1>1, <1>2
  <1>4. ASSUME NEW c \in S, NEW d \in S, NEW e \in S,
               <<c, d>> \in Nearer(sum), <<d, e>> \in Nearer(sum)
        PROVE  <<c, e>> \in Nearer(sum)
    BY <1>1, <1>2, <1>4
  <1>5. ASSUME NEW d \in S, NEW e \in S
        PROVE  d = e \/ <<d, e>> \in Nearer(sum) \/ <<e, d>> \in Nearer(sum)
    BY <1>1, <1>2
  <1> QED
    BY <1>1, <1>3, <1>4, <1>5 DEF Orders

LEMMA InTurnOrders ==
  ASSUME NEW E, NEW W, NEW sim, Orders(sim, W),
         \A e \in E : e.who \in W /\ e.place \in Nat /\ e = [who |-> e.who, place |-> e.place]
  PROVE  Orders(InTurn(E, sim), E)
  <1> DEFINE R == InTurn(E, sim)
  <1>1. \A d, e \in E : <<d, e>> \in R
                          <=> <<d.who, e.who>> \in sim \/ (d.who = e.who /\ d.place < e.place)
    BY DEF InTurn
  <1>2. \A d, e \in E : d.who = e.who /\ d.place = e.place => d = e
    OBVIOUS
  <1>3. \A e \in E : e.who \in W /\ e.place \in Int
    OBVIOUS
  <1> HIDE DEF R
  <1>4. \A d \in E : <<d, d>> \notin R
    <2> SUFFICES ASSUME NEW d \in E PROVE <<d, d>> \notin R
      OBVIOUS
    <2>1. <<d.who, d.who>> \notin sim /\ ~ d.place < d.place
      BY <1>3 DEF Orders
    <2> QED
      BY <1>1, <2>1
  <1>5. ASSUME NEW c \in E, NEW d \in E, NEW e \in E, <<c, d>> \in R, <<d, e>> \in R
        PROVE  <<c, e>> \in R
    <2>1. CASE c.who = d.who /\ d.who = e.who
      <3>1. <<c.who, c.who>> \notin sim
        BY <1>3 DEF Orders
      <3>2. c.place < d.place /\ d.place < e.place
        BY <1>1, <1>5, <2>1, <3>1
      <3>3. c.place < e.place
        BY <1>3, <3>2
      <3> QED
        BY <1>1, <2>1, <3>3
    <2>2. CASE c.who # d.who \/ d.who # e.who
      <3>1. <<c.who, e.who>> \in sim
        BY <1>1, <1>3, <1>5, <2>2 DEF Orders
      <3> QED
        BY <1>1, <3>1
    <2> QED
      BY <2>1, <2>2
  <1>6. ASSUME NEW d \in E, NEW e \in E
        PROVE  d = e \/ <<d, e>> \in R \/ <<e, d>> \in R
    <2>1. CASE d.who = e.who
      <3>1. d.place = e.place \/ d.place < e.place \/ e.place < d.place
        BY <1>3
      <3> QED
        BY <1>1, <1>2, <2>1, <3>1
    <2>2. CASE d.who # e.who
      BY <1>1, <1>3, <2>2 DEF Orders
    <2> QED
      BY <2>1, <2>2
  <1> QED
    BY <1>4, <1>5, <1>6 DEF Orders, R

LEMMA SuggestedExactly ==
  ASSUME LikesInv, serving, NEW me \in Loaded
  PROVE  LET answer == Suggested(me)
         IN  /\ \A m, n \in DOMAIN answer :
                  LET i == answer[m].who  j == answer[n].who
                  IN  /\ i \in Alike(me) /\ answer[m].id # me
                      /\ (m < n /\ i # j) => \/ Apart(me, i) < Apart(me, j)
                                             \/ Apart(me, i) = Apart(me, j) /\ i < j
             /\ \A j \in Alike(me), k \in Ids \ {me} :
                  Cardinality({n \in DOMAIN answer : answer[n] = [who |-> j, id |-> k]})
                    = Cardinality(Places(data[j].likes, k))
  <1>1. PICK sum : sum = likers_mp(me)
    OBVIOUS
  <1>2. PICK sim : sim = Nearer(sum)
    OBVIOUS
  <1>3. PICK E : E = Listed(me)
    OBVIOUS
  <1>4. PICK s : s = InOrder(E, InTurn(E, sim))
    OBVIOUS
  <1>5. PICK answer : answer = Suggested(me)
    OBVIOUS
  <1> DEFINE own(j) == accounts[j].likes
  <1>6. /\ DOMAIN sum = Alike(me) /\ \A j \in Alike(me) : sum[j] = Apart(me, j) /\ sum[j] \in Nat
    BY <1>1, SumsAreApart
  <1>7. /\ Alike(me) \in SUBSET Ids /\ Alike(me) \in SUBSET Nat /\ IsFiniteSet(Alike(me))
        /\ Alike(me) \subseteq Loaded
    <2>1. Alike(me) \in SUBSET Ids /\ Alike(me) \subseteq Loaded
      BY DEF Alike, Loaded
    <2>2. Ids \subseteq Nat /\ IsFiniteSet(Ids)
      BY NameAssumption, FS_Interval DEF Ids
    <2> QED
      BY <2>1, <2>2, FS_Subset
  <1>8. /\ Orders(sim, Alike(me))
        /\ \A i, j \in Alike(me) : <<i, j>> \in sim
             <=> Apart(me, i) < Apart(me, j) \/ (Apart(me, i) = Apart(me, j) /\ i < j)
    BY <1>2, <1>6, <1>7, NearerOrders
  <1>9. ASSUME NEW j \in Alike(me)
        PROVE  /\ Reordered(own(j), data[j].likes) /\ DOMAIN own(j) = DOMAIN data[j].likes
               /\ IsFiniteSet(DOMAIN own(j)) /\ DOMAIN own(j) \subseteq Nat
               /\ data[j] \in Accounts
    <2>1. data[j] \in Accounts
      BY <1>7 DEF LikesInv, Inv, Histories, Loaded
    <2>2. Reordered(own(j), data[j].likes) /\ DOMAIN own(j) = DOMAIN data[j].likes
      BY <1>7 DEF LikesInv, Kept, Reordered
    <2>3. Timed(data[j].likes) /\ DOMAIN data[j].likes \in SUBSET DOMAIN data[j].likes
      BY <2>1, LikesAreLikes
    <2>4. IsFiniteSet(DOMAIN data[j].likes) /\ DOMAIN data[j].likes \subseteq Nat
      BY <2>3, Averages DEF Timed
    <2> QED
      BY <2>1, <2>2, <2>4
  <1>10. E = UNION {{[who |-> j, place |-> n] : n \in DOMAIN own(j) \ Places(own(j), me)} :
                    j \in Alike(me)}
    BY <1>1, <1>3, <1>6 DEF Listed
  <1> HIDE DEF own
  <1>11. \A e \in E : /\ e.who \in Alike(me) /\ e.place \in DOMAIN own(e.who) /\ e.place \in Nat
                      /\ e.place \notin Places(own(e.who), me)
                      /\ e = [who |-> e.who, place |-> e.place]
    BY <1>9, <1>10
  <1>12. \A j \in Alike(me) : \A n \in DOMAIN own(j) \ Places(own(j), me) :
           [who |-> j, place |-> n] \in E
    BY <1>10
  <1>13. IsFiniteSet(E)
    <2> DEFINE of(j) == {[who |-> j, place |-> n] : n \in DOMAIN own(j) \ Places(own(j), me)}
               all == {of(j) : j \in Alike(me)}
    <2>1. ASSUME NEW j \in Alike(me) PROVE IsFiniteSet(of(j))
      <3> DEFINE T == DOMAIN own(j) \ Places(own(j), me)
                 f == [n \in T |-> [who |-> j, place |-> n]]
      <3>1. IsFiniteSet(T)
        BY <1>9, FS_Subset
      <3>2. f \in Surjection(T, of(j))
        BY DEF Surjection
      <3> HIDE DEF T, f, of
      <3> QED
        BY <3>1, <3>2, FS_Surjection
    <2>2. IsFiniteSet(all)
      <3> DEFINE f == [j \in Alike(me) |-> of(j)]
      <3> HIDE DEF of
      <3>1. f \in Surjection(Alike(me), all)
        BY DEF Surjection
      <3> HIDE DEF f, all
      <3> QED
        BY <1>7, <3>1, FS_Surjection
    <2>3. E = UNION all /\ \A T \in all : IsFiniteSet(T)
      BY <1>10, <2>1
    <2> HIDE DEF all
    <2> QED
      BY <2>2, <2>3, FS_UNION
  <1>14. Arranges(s, InTurn(E, sim), E) /\ Cardinality(E) \in Nat
    <2>1. Orders(InTurn(E, sim), E)
      BY <1>8, <1>11, InTurnOrders
    <2> QED
      BY <1>4, <1>13, <2>1, InOrderArranges
  <1> DEFINE N == Cardinality(E)
  <1>15. /\ DOMAIN s = 1 .. N /\ \A n \in 1 .. N : s[n] \in E
         /\ \A m, n \in 1 .. N : s[m] = s[n] => m = n
         /\ \A e \in E : \E n \in 1 .. N : s[n] = e
         /\ \A m, n \in 1 .. N : m < n => <<s[m], s[n]>> \in InTurn(E, sim)
    BY <1>14 DEF Arranges, IsBijection
  <1>16. answer = [n \in 1 .. N |-> [who |-> s[n].who, id |-> own(s[n].who)[s[n].place].id]]
    <2>1. answer = [n \in DOMAIN s |-> [who |-> s[n].who, id |-> own(s[n].who)[s[n].place].id]]
      BY <1>1, <1>2, <1>3, <1>4, <1>5 DEF Suggested, own
    <2> QED
      BY <1>15, <2>1
  <1> HIDE DEF N
  <1>17. DOMAIN answer = 1 .. N /\ \A n \in 1 .. N :
           answer[n] = [who |-> s[n].who, id |-> own(s[n].who)[s[n].place].id]
    BY <1>16
  <1>18. ASSUME NEW m \in DOMAIN answer, NEW n \in DOMAIN answer
         PROVE  /\ answer[m].who \in Alike(me) /\ answer[m].id # me
                /\ m < n /\ answer[m].who # answer[n].who =>
                     \/ Apart(me, answer[m].who) < Apart(me, answer[n].who)
                     \/ /\ Apart(me, answer[m].who) = Apart(me, answer[n].who)
                        /\ answer[m].who < answer[n].who
    <2>1. /\ m \in 1 .. N /\ n \in 1 .. N /\ s[m] \in E /\ s[n] \in E
          /\ answer[m].who = s[m].who /\ answer[n].who = s[n].who
          /\ answer[m].id = own(s[m].who)[s[m].place].id
      BY <1>15, <1>17
    <2>2. /\ s[m].who \in Alike(me) /\ s[n].who \in Alike(me)
          /\ s[m].place \in DOMAIN own(s[m].who) /\ s[m].place \notin Places(own(s[m].who), me)
      BY <1>11, <2>1
    <2>3. answer[m].id # me
      BY <2>1, <2>2 DEF Places
    <2>4. m < n /\ s[m].who # s[n].who => <<s[m].who, s[n].who>> \in sim
      BY <1>15, <2>1 DEF InTurn
    <2> QED
      BY <1>8, <2>1, <2>2, <2>3, <2>4
  <1>19. ASSUME NEW j \in Alike(me), NEW k \in Ids \ {me}
         PROVE  Cardinality({n \in DOMAIN answer : answer[n] = [who |-> j, id |-> k]})
                  = Cardinality(Places(data[j].likes, k))
    <2>1. PICK likes : likes = data[j].likes
      OBVIOUS
    <2>2. PICK p : /\ IsBijection(p, DOMAIN likes, DOMAIN likes)
                   /\ own(j) = [n \in DOMAIN likes |-> likes[p[n]]]
      BY <1>9, <2>1 DEF Reordered
    <2> DEFINE T == {n \in DOMAIN answer : answer[n] = [who |-> j, id |-> k]}
               Q == Places(likes, k)
               h == [n \in T |-> p[s[n].place]]
    <2>3. \A n \in T : /\ n \in 1 .. N /\ s[n] \in E /\ s[n].who = j
                       /\ s[n].place \in DOMAIN likes /\ own(j)[s[n].place].id = k
      <3> SUFFICES ASSUME NEW n \in T
                   PROVE  /\ n \in 1 .. N /\ s[n] \in E /\ s[n].who = j
                          /\ s[n].place \in DOMAIN likes /\ own(j)[s[n].place].id = k
        OBVIOUS
      <3>1. /\ n \in 1 .. N /\ s[n] \in E
            /\ [who |-> s[n].who, id |-> own(s[n].who)[s[n].place].id] = [who |-> j, id |-> k]
        BY <1>15, <1>17
      <3>2. s[n].who = j /\ own(s[n].who)[s[n].place].id = k
        BY <3>1
      <3> QED
        BY <1>9, <1>11, <2>1, <3>1, <3>2
    <2>4. \A n \in 1 .. N : s[n].who = j /\ own(j)[s[n].place].id = k => n \in T
      BY <1>17
    <2>5. \A q \in DOMAIN likes : p[q] \in DOMAIN likes /\ own(j)[q] = likes[p[q]]
      BY <2>2 DEF IsBijection
    <2>6. \A n \in T : h[n] = p[s[n].place] /\ h[n] \in Q
      BY <2>3, <2>5 DEF Places
    <2>7. ASSUME NEW m \in T, NEW n \in T, h[m] = h[n] PROVE m = n
      <3>1. s[m].place = s[n].place
        BY <2>2, <2>3, <2>6, <2>7 DEF IsBijection
      <3>2. s[m] = s[n]
        BY <1>11, <2>3, <3>1
      <3> QED
        BY <1>15, <2>3, <3>2
    <2>8. ASSUME NEW q \in Q PROVE \E n \in T : h[n] = q
      <3>1. q \in DOMAIN likes /\ likes[q].id = k
        BY DEF Places
      <3>2. PICK o \in DOMAIN likes : p[o] = q
        BY <2>2, <3>1 DEF IsBijection
      <3>3. own(j)[o].id = k /\ o \in DOMAIN own(j)
        BY <1>9, <2>1, <2>5, <3>1, <3>2
      <3>4. o \notin Places(own(j), me)
        BY <3>3 DEF Places
      <3>5. [who |-> j, place |-> o] \in E
        BY <1>12, <3>3, <3>4
      <3>6. PICK n \in 1 .. N : s[n] = [who |-> j, place |-> o]
        BY <1>15, <3>5
      <3>7. s[n].who = j /\ s[n].place = o
        BY <3>6
      <3>8. n \in T
        BY <2>4, <3>3, <3>7
      <3> QED
        BY <2>6, <3>2, <3>7, <3>8
    <2>9. h \in [T -> Q]
      BY <2>6
    <2>10. IsFiniteSet(T)
      <3>1. IsFiniteSet(1 .. N)
        BY <1>14, FS_Interval DEF N
      <3> QED
        BY <1>17, <3>1, FS_Subset
    <2> HIDE DEF h, T, Q
    <2>11. IsBijection(h, T, Q)
      BY <2>7, <2>8, <2>9 DEF IsBijection
    <2>12. Cardinality(Q) = Cardinality(T)
      BY <2>10, <2>11, BijectionCounts
    <2> QED
      BY <2>1, <2>12 DEF T, Q
  <1> QED
    BY <1>5, <1>18, <1>19

-----------------------------------------------------------------------------
(* The dictionaries, the strings and the vectors are as they should be,    *)
(* and whoever is in a list of likers is an account of the data, at a time *)
(* that is a number: also after makeIndex divided by how many likes there  *)
(* were (src/index.cpp).                                                   *)
THEOREM TypeCorrect == Spec => []TypeOK
  <1>1. LikesInv => LikersTyped
    <2> SUFFICES ASSUME LikesInv, NEW k \in Ids, NEW s \in Sexes, NEW n \in DOMAIN likers[k][s]
                 PROVE  likers[k][s][n].id \in Loaded /\ likers[k][s][n].ts \in Nat
      BY DEF LikersTyped
    <2>1. PICK l : l = likers[k][s]
      OBVIOUS
    <2>2. l \in Seq([id : Ids, ts : Nat]) /\ Tells(l, k, s)
      BY <2>1 DEF LikesInv, LikersHold
    <2>3. l[n].id \in Loaded /\ l[n].ts \in Nat
      BY <2>1, <2>2, ListsTimed DEF Tells, Timed
    <2> QED
      BY <2>1, <2>3
  <1> QED
    BY <1>1, LikesInvAlways, NamesAreTyped, PTL DEF TypeOK

(* Suggestions are what the data say, in whatever order they were loaded,  *)
(* however often they were indexed and whoever was posted: those of my sex *)
(* who like someone I like, by how far apart in time, and of each all that *)
(* he likes but me, as often as he does (src/get_suggest.cpp).             *)
THEOREM SuggestionsAreExact == Spec => []SuggestExact
  <1>1. LikesInv => SuggestExact
    BY SuggestedExactly DEF SuggestExact
  <1> QED
    BY <1>1, LikesInvAlways, PTL

=============================================================================
