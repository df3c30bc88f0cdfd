----------------------------- MODULE FiniteSums -----------------------------
(***************************************************************************)
(* Sums over finite sets, of which the stock equation and the reports are  *)
(* made.  The community modules fold a set element by element, in an order *)
(* of their own; the lemmas free the sum from that order.                  *)
(***************************************************************************)
EXTENDS Integers, FiniteSetsExt, FiniteSetTheorems, TLAPS

\* The sum of f over S, as the community modules fold it.
Sigma(f, S) == MapThenSumSet(LAMBDA x : f[x], S)

\* The element that the fold takes next.
OneOf(s) == CHOOSE x \in s : TRUE

\* g gives the sums over all subsets of S.
IsSumOn(g, f, S) ==
    g = [s \in SUBSET S |-> IF s = {} THEN 0 ELSE f[OneOf(s)] + g[s \ {OneOf(s)}]]

\* The sum is the value, at the whole set, of a function on its subsets.
LEMMA SumIsChosen ==
    ASSUME NEW f, NEW S
    PROVE  Sigma(f, S) = (CHOOSE g : IsSumOn(g, f, S))[S]
BY DEF Sigma, MapThenSumSet, MapThenFoldSet, IsSumOn, OneOf

\* Induction on the subsets of a finite set, for a property given as a set G.
LEMMA SetInduction ==
    ASSUME NEW S, IsFiniteSet(S), NEW G,
           \A T \in SUBSET S : (\A U \in SUBSET T : U # T => U \in G) => T \in G
    PROVE  S \in G
<1> DEFINE bad == {T \in SUBSET S : T \notin G}
<1> SUFFICES ASSUME bad # {} PROVE FALSE
    OBVIOUS
<1>1. bad \subseteq FiniteSubsetsOf(S)
    BY FS_Subset DEF FiniteSubsetsOf
<1> HIDE DEF bad
<1>2. PICK x \in bad : \A y \in bad : ~(<<y, x>> \in StrictSubsetOrdering(S))
  <2>1. bad # {}
      BY DEF bad
  <2>2. IsWellFoundedOn(StrictSubsetOrdering(S), FiniteSubsetsOf(S))
      BY FS_StrictSubsetOrderingWellFounded
  <2> QED
      BY <1>1, <2>1, <2>2, WFMin
<1>3. \A U \in SUBSET x : U # x => U \in G
    BY <1>2 DEF StrictSubsetOrdering, bad
<1> QED
    BY <1>2, <1>3 DEF bad

\* Two of them agree where both are defined.
LEMMA SumUnique ==
    ASSUME NEW f, NEW A, NEW B, NEW g, NEW h, IsSumOn(g, f, A), IsSumOn(h, f, B),
           NEW s, IsFiniteSet(s), s \subseteq A, s \subseteq B
    PROVE  g[s] = h[s]
<1> DEFINE G == {t \in SUBSET s : g[t] = h[t]}
<1>1. ASSUME NEW t \in SUBSET s, \A u \in SUBSET t : u # t => u \in G
      PROVE  t \in G
  <2>1. /\ g[t] = IF t = {} THEN 0 ELSE f[OneOf(t)] + g[t \ {OneOf(t)}]
        /\ h[t] = IF t = {} THEN 0 ELSE f[OneOf(t)] + h[t \ {OneOf(t)}]
      BY DEF IsSumOn
  <2>2. t # {} => OneOf(t) \in t
      BY DEF OneOf
  <2>3. t # {} => g[t \ {OneOf(t)}] = h[t \ {OneOf(t)}]
      BY <1>1, <2>2
  <2> QED
      BY <2>1, <2>3
<1> HIDE DEF G
<1>2. s \in G
    BY <1>1, SetInduction
<1> QED
    BY <1>2 DEF G

\* There is one.
LEMMA SumExists ==
    ASSUME NEW f, NEW S, IsFiniteSet(S)
    PROVE  \E g : IsSumOn(g, f, S)
<1> DEFINE G == {T \in SUBSET S : \E g : IsSumOn(g, f, T)}
<1>1. ASSUME NEW T \in SUBSET S, \A U \in SUBSET T : U # T => U \in G
      PROVE  T \in G
  <2> DEFINE h(x) == CHOOSE g : IsSumOn(g, f, T \ {x})
  <2>1. \A x \in T : IsSumOn(h(x), f, T \ {x})
      BY <1>1
  <2> HIDE DEF h
  <2> DEFINE g == [s \in SUBSET T |-> IF s = {} THEN 0 ELSE f[OneOf(s)] + h(OneOf(s))[s \ {OneOf(s)}]]
  <2>2. ASSUME NEW s \in SUBSET T, s # {} PROVE g[s \ {OneOf(s)}] = h(OneOf(s))[s \ {OneOf(s)}]
    <3> DEFINE x == OneOf(s)
    <3> DEFINE r == s \ {x}
    <3>0. x \in s /\ x \in T
        BY <2>2 DEF OneOf
    <3> HIDE DEF x
    <3>1. r \in SUBSET (T \ {x}) /\ r \in SUBSET T
        BY <3>0
    <3>2. IsSumOn(h(x), f, T \ {x})
        BY <3>0, <2>1
    <3>3. h(x)[r] = IF r = {} THEN 0 ELSE f[OneOf(r)] + h(x)[r \ {OneOf(r)}]
        BY <3>1, <3>2 DEF IsSumOn
    <3>4. g[r] = IF r = {} THEN 0 ELSE f[OneOf(r)] + h(OneOf(r))[r \ {OneOf(r)}]
        BY <3>1
    <3>5. ASSUME r # {} PROVE h(x)[r \ {OneOf(r)}] = h(OneOf(r))[r \ {OneOf(r)}]
      <4>1. OneOf(r) \in r /\ OneOf(r) \in T
          BY <3>1, <3>5 DEF OneOf
      <4>2. IsSumOn(h(OneOf(r)), f, T \ {OneOf(r)})
          BY <4>1, <2>1
      <4>3. /\ (r \ {OneOf(r)}) \subseteq (T \ {x}) /\ (r \ {OneOf(r)}) \subseteq (T \ {OneOf(r)})
            /\ (r \ {OneOf(r)}) \in SUBSET S
          BY <3>1
      <4>4. IsFiniteSet(r \ {OneOf(r)})
          BY <4>3, FS_Subset
      <4> HIDE DEF r
      <4> QED
          BY <3>2, <4>2, <4>3, <4>4, SumUnique
    <3> QED
        BY <3>3, <3>4, <3>5 DEF x
  <2>3. IsSumOn(g, f, T)
      BY <2>2 DEF IsSumOn
  <2> QED
      BY <2>3
<1> HIDE DEF G
<1>2. S \in G
    BY <1>1, SetInduction
<1> QED
    BY <1>2 DEF G

\* The sum over a set is that of one element and the others.
LEMMA SumSteps ==
    ASSUME NEW f, NEW S, IsFiniteSet(S)
    PROVE  Sigma(f, S) = IF S = {} THEN 0 ELSE f[OneOf(S)] + Sigma(f, S \ {OneOf(S)})
<1> DEFINE g(T) == CHOOSE g : IsSumOn(g, f, T)
<1>1. \A T \in SUBSET S : IsSumOn(g(T), f, T) /\ Sigma(f, T) = g(T)[T] /\ IsFiniteSet(T)
  <2> SUFFICES ASSUME NEW T \in SUBSET S
               PROVE  IsSumOn(g(T), f, T) /\ Sigma(f, T) = g(T)[T] /\ IsFiniteSet(T)
      OBVIOUS
  <2>1. IsFiniteSet(T)
      BY FS_Subset
  <2>2. \E h : IsSumOn(h, f, T)
      BY <2>1, SumExists
  <2> QED
      BY <2>1, <2>2, SumIsChosen
<1> HIDE DEF g
<1>2. g(S)[S] = IF S = {} THEN 0 ELSE f[OneOf(S)] + g(S)[S \ {OneOf(S)}]
    BY <1>1 DEF IsSumOn
<1>3. g(S)[S \ {OneOf(S)}] = g(S \ {OneOf(S)})[S \ {OneOf(S)}]
  <2>1. S \ {OneOf(S)} \in SUBSET S
      OBVIOUS
  <2> DEFINE R == S \ {OneOf(S)}
  <2>2. IsSumOn(g(S), f, S) /\ IsSumOn(g(R), f, R) /\ IsFiniteSet(R) /\ R \subseteq S /\ R \subseteq R
      BY <1>1, <2>1
  <2> HIDE DEF R
  <2>3. g(S)[R] = g(R)[R]
      BY <2>2, SumUnique
  <2> QED
      BY <2>3 DEF R
<1> QED
    BY <1>1, <1>2, <1>3

\* Sums of integers are integers.
LEMMA SumInt ==
    ASSUME NEW f, NEW S, IsFiniteSet(S), \A x \in S : f[x] \in Int
    PROVE  Sigma(f, S) \in Int
<1> DEFINE G == {T \in SUBSET S : Sigma(f, T) \in Int}
<1>1. ASSUME NEW T \in SUBSET S, \A U \in SUBSET T : U # T => U \in G
      PROVE  T \in G
  <2>1. Sigma(f, T) = IF T = {} THEN 0 ELSE f[OneOf(T)] + Sigma(f, T \ {OneOf(T)})
      BY FS_Subset, SumSteps
  <2>2. T # {} => OneOf(T) \in T
      BY DEF OneOf
  <2> QED
      BY <1>1, <2>1, <2>2
<1> HIDE DEF G
<1>2. S \in G
    BY <1>1, SetInduction
<1> QED
    BY <1>2 DEF G

\* Equal functions have equal sums.
LEMMA SumSame ==
    ASSUME NEW f, NEW g, NEW S, IsFiniteSet(S), \A x \in S : f[x] = g[x]
    PROVE  Sigma(f, S) = Sigma(g, S)
<1> DEFINE G == {T \in SUBSET S : Sigma(f, T) = Sigma(g, T)}
<1>1. ASSUME NEW T \in SUBSET S, \A U \in SUBSET T : U # T => U \in G
      PROVE  T \in G
  <2>1. /\ Sigma(f, T) = IF T = {} THEN 0 ELSE f[OneOf(T)] + Sigma(f, T \ {OneOf(T)})
        /\ Sigma(g, T) = IF T = {} THEN 0 ELSE g[OneOf(T)] + Sigma(g, T \ {OneOf(T)})
      BY FS_Subset, SumSteps
  <2>2. T # {} => OneOf(T) \in T
      BY DEF OneOf
  <2> QED
      BY <1>1, <2>1, <2>2
<1> HIDE DEF G
<1>2. S \in G
    BY <1>1, SetInduction
<1> QED
    BY <1>2 DEF G

\* Any element may be split off, whatever the order of the fold.
LEMMA SumRemove ==
    ASSUME NEW f, NEW S, IsFiniteSet(S), \A x \in S : f[x] \in Int, NEW y \in S
    PROVE  Sigma(f, S) = f[y] + Sigma(f, S \ {y})
<1> DEFINE G == {T \in SUBSET S : \A z \in T : Sigma(f, T) = f[z] + Sigma(f, T \ {z})}
<1>1. ASSUME NEW T \in SUBSET S, \A U \in SUBSET T : U # T => U \in G
      PROVE  T \in G
  <2> SUFFICES ASSUME NEW z \in T PROVE Sigma(f, T) = f[z] + Sigma(f, T \ {z})
      OBVIOUS
  <2> DEFINE x == OneOf(T)
  <2>1. x \in T
      BY DEF OneOf
  <2>2. Sigma(f, T) = f[x] + Sigma(f, T \ {x})
      BY FS_Subset, SumSteps
  <2> HIDE DEF x
  <2>3. CASE x = z
      BY <2>2, <2>3
  <2>4. CASE x # z
    <3> DEFINE R == T \ {x, z}
    <3>1. (T \ {x}) \in G /\ (T \ {z}) \in G
        BY <1>1, <2>1
    <3>2. (T \ {x}) \ {z} = R /\ (T \ {z}) \ {x} = R
        OBVIOUS
    <3>3. Sigma(f, T \ {x}) = f[z] + Sigma(f, R) /\ Sigma(f, T \ {z}) = f[x] + Sigma(f, R)
        BY <2>1, <2>4, <3>1, <3>2
    <3>4. f[x] \in Int /\ f[z] \in Int /\ Sigma(f, R) \in Int
      <4>1. R \in SUBSET S /\ IsFiniteSet(R)
          BY FS_Subset
      <4> QED
          BY <2>1, <4>1, SumInt
    <3> HIDE DEF R
    <3> QED
        BY <2>2, <3>3, <3>4
  <2> QED
      BY <2>3, <2>4
<1> HIDE DEF G
<1>2. S \in G
    BY <1>1, SetInduction
<1> QED
    BY <1>2 DEF G

\* Nothing sums up to nothing.
LEMMA SumZero ==
    ASSUME NEW f, NEW S, IsFiniteSet(S), \A x \in S : f[x] = 0
    PROVE  Sigma(f, S) = 0
<1> DEFINE G == {T \in SUBSET S : Sigma(f, T) = 0}
<1>1. ASSUME NEW T \in SUBSET S, \A U \in SUBSET T : U # T => U \in G
      PROVE  T \in G
  <2>1. Sigma(f, T) = IF T = {} THEN 0 ELSE f[OneOf(T)] + Sigma(f, T \ {OneOf(T)})
      BY FS_Subset, SumSteps
  <2>2. T # {} => OneOf(T) \in T
      BY DEF OneOf
  <2> QED
      BY <1>1, <2>1, <2>2
<1> HIDE DEF G
<1>2. S \in G
    BY <1>1, SetInduction
<1> QED
    BY <1>2 DEF G

\* A function that changes at one place changes its sum by as much.
LEMMA SumChange ==
    ASSUME NEW f, NEW g, NEW S, IsFiniteSet(S), NEW y \in S,
           \A x \in S : f[x] \in Int /\ g[x] \in Int, \A x \in S \ {y} : f[x] = g[x]
    PROVE  Sigma(g, S) = Sigma(f, S) + g[y] - f[y]
<1>1. Sigma(f, S) = f[y] + Sigma(f, S \ {y}) /\ Sigma(g, S) = g[y] + Sigma(g, S \ {y})
    BY SumRemove
<1>2. IsFiniteSet(S \ {y})
    BY FS_Subset
<1>3. Sigma(f, S \ {y}) = Sigma(g, S \ {y}) /\ Sigma(f, S \ {y}) \in Int
    BY <1>2, SumSame, SumInt
<1> QED
    BY <1>1, <1>3

\* One more element adds its value.
LEMMA SumAdd ==
    ASSUME NEW f, NEW g, NEW S, IsFiniteSet(S), NEW y, y \notin S, g[y] \in Int,
           \A x \in S : f[x] \in Int /\ f[x] = g[x]
    PROVE  Sigma(g, S \union {y}) = Sigma(f, S) + g[y]
<1>1. IsFiniteSet(S \union {y}) /\ (S \union {y}) \ {y} = S
    BY FS_AddElement
<1>2. \A x \in S \union {y} : g[x] \in Int
    OBVIOUS
<1>3. Sigma(g, S \union {y}) = g[y] + Sigma(g, S)
  <2> DEFINE T == S \union {y}
  <2>1. IsFiniteSet(T) /\ y \in T /\ T \ {y} = S /\ \A x \in T : g[x] \in Int
      BY <1>1, <1>2
  <2> HIDE DEF T
  <2>2. Sigma(g, T) = g[y] + Sigma(g, T \ {y})
      BY <2>1, SumRemove
  <2> QED
      BY <2>1, <2>2 DEF T
<1>4. Sigma(g, S) = Sigma(f, S) /\ Sigma(f, S) \in Int
    BY SumSame, SumInt
<1> QED
    BY <1>1, <1>3, <1>4

\* The sum of a combination is the combination of the sums.
LEMMA SumLinear ==
    ASSUME NEW f, NEW g, NEW k, NEW h, NEW S, IsFiniteSet(S),
           \A x \in S : f[x] \in Int /\ g[x] \in Int /\ k[x] \in Int /\ h[x] = f[x] + g[x] - k[x]
    PROVE  Sigma(h, S) = Sigma(f, S) + Sigma(g, S) - Sigma(k, S)
<1> DEFINE G == {T \in SUBSET S : Sigma(h, T) = Sigma(f, T) + Sigma(g, T) - Sigma(k, T)}
<1>1. ASSUME NEW T \in SUBSET S, \A U \in SUBSET T : U # T => U \in G
      PROVE  T \in G
  <2>1. IsFiniteSet(T)
      BY FS_Subset
  <2> DEFINE y == OneOf(T)
  <2> DEFINE R == T \ {y}
  <2>2. /\ Sigma(f, T) = IF T = {} THEN 0 ELSE f[y] + Sigma(f, R)
        /\ Sigma(g, T) = IF T = {} THEN 0 ELSE g[y] + Sigma(g, R)
        /\ Sigma(k, T) = IF T = {} THEN 0 ELSE k[y] + Sigma(k, R)
        /\ Sigma(h, T) = IF T = {} THEN 0 ELSE h[y] + Sigma(h, R)
      BY <2>1, SumSteps
  <2>3. T # {} => y \in T /\ R \in G
      BY <1>1 DEF OneOf
  <2>4. /\ Sigma(f, R) \in Int /\ Sigma(g, R) \in Int /\ Sigma(k, R) \in Int
    <3>1. IsFiniteSet(R) /\ R \subseteq S
        BY FS_Subset
    <3> HIDE DEF R
    <3> QED
        BY <3>1, SumInt
  <2> HIDE DEF y, R
  <2>5. CASE T = {}
      BY <2>2, <2>5
  <2>6. CASE T # {}
    <3>1. f[y] \in Int /\ g[y] \in Int /\ k[y] \in Int /\ h[y] = f[y] + g[y] - k[y]
        BY <2>3, <2>6
    <3>2. Sigma(h, R) = Sigma(f, R) + Sigma(g, R) - Sigma(k, R)
        BY <2>3, <2>6
    <3> QED
        BY <2>2, <2>4, <2>6, <3>1, <3>2
  <2> QED
      BY <2>5, <2>6
<1> HIDE DEF G
<1>2. S \in G
    BY <1>1, SetInduction
<1> QED
    BY <1>2 DEF G

\* What is zero outside T need not be summed there.
LEMMA SumFilter ==
    ASSUME NEW f, NEW h, NEW S, IsFiniteSet(S), NEW T \in SUBSET S,
           \A x \in T : f[x] \in Int /\ h[x] = f[x], \A x \in S \ T : h[x] = 0
    PROVE  Sigma(h, S) = Sigma(f, T)
<1> DEFINE G == {U \in SUBSET S : Sigma(h, U) = Sigma(f, U \intersect T)}
<1>1. ASSUME NEW U \in SUBSET S, \A V \in SUBSET U : V # U => V \in G
      PROVE  U \in G
  <2>1. IsFiniteSet(U) /\ IsFiniteSet(U \intersect T)
      BY FS_Subset
  <2> DEFINE y == OneOf(U)
  <2> DEFINE R == U \ {y}
  <2>2. Sigma(h, U) = IF U = {} THEN 0 ELSE h[y] + Sigma(h, R)
      BY <2>1, SumSteps
  <2>3. U # {} => y \in U /\ R \in G
      BY <1>1 DEF OneOf
  <2> HIDE DEF y
  <2>4. CASE U = {}
    <3>1. U \intersect T = {} /\ Sigma(f, {}) = 0
        BY <2>4, FS_EmptySet, SumZero
    <3> QED
        BY <2>2, <2>4, <3>1
  <2>5. CASE U # {} /\ y \in T
    <3>1. (U \intersect T) \ {y} = R \intersect T /\ y \in U \intersect T
        BY <2>3, <2>5
    <3> DEFINE W == U \intersect T
    <3>2. IsFiniteSet(W) /\ y \in W /\ \A x \in W : f[x] \in Int
        BY <2>1, <3>1
    <3> HIDE DEF W
    <3>3. Sigma(f, W) = f[y] + Sigma(f, W \ {y})
        BY <3>2, SumRemove
    <3>4. Sigma(h, R) = Sigma(f, R \intersect T) /\ h[y] = f[y]
        BY <2>3, <2>5
    <3> HIDE DEF R
    <3> QED
        BY <2>2, <2>5, <3>1, <3>3, <3>4 DEF W
  <2>6. CASE U # {} /\ y \notin T
    <3>1. U \intersect T = R \intersect T /\ h[y] = 0
        BY <2>3, <2>6
    <3>2. Sigma(h, R) = Sigma(f, R \intersect T)
        BY <2>3, <2>6
    <3>3. Sigma(f, R \intersect T) \in Int
      <4>1. IsFiniteSet(R \intersect T) /\ \A x \in R \intersect T : f[x] \in Int
          BY FS_Subset
      <4> HIDE DEF R
      <4> QED
          BY <4>1, SumInt
    <3> DEFINE W == R \intersect T
    <3>4. Sigma(h, U) = Sigma(f, W)
      <4> HIDE DEF R, W
      <4>1. Sigma(h, U) = 0 + Sigma(h, R)
          BY <2>2, <2>6, <3>1
      <4> QED
          BY <4>1, <3>2, <3>3 DEF W
    <3>5. U \intersect T = W
        BY <3>1
    <3> HIDE DEF R, W
    <3> QED
        BY <3>4, <3>5
  <2> QED
      BY <2>4, <2>5, <2>6
<1> HIDE DEF G
<1>2. S \in G
    BY <1>1, SetInduction
<1>3. S \intersect T = T
    OBVIOUS
<1> QED
    BY <1>2, <1>3 DEF G

\* The sum over two disjoint sets.
LEMMA SumSplit ==
    ASSUME NEW f, NEW A, NEW B, IsFiniteSet(A), IsFiniteSet(B), A \intersect B = {},
           \A x \in A \union B : f[x] \in Int
    PROVE  Sigma(f, A \union B) = Sigma(f, A) + Sigma(f, B)
<1> DEFINE S == A \union B
<1> DEFINE a == [x \in S |-> IF x \in A THEN f[x] ELSE 0]
<1> DEFINE b == [x \in S |-> IF x \in B THEN f[x] ELSE 0]
<1> DEFINE z == [x \in S |-> 0]
<1>1. IsFiniteSet(S) /\ A \in SUBSET S /\ B \in SUBSET S
    BY FS_Union
<1>2. /\ \A x \in S : a[x] \in Int /\ b[x] \in Int /\ z[x] \in Int /\ f[x] = a[x] + b[x] - z[x] /\ z[x] = 0
      /\ \A x \in A : f[x] \in Int /\ a[x] = f[x]
      /\ \A x \in S \ A : a[x] = 0
      /\ \A x \in B : f[x] \in Int /\ b[x] = f[x]
      /\ \A x \in S \ B : b[x] = 0
    OBVIOUS
<1> HIDE DEF a, b, z, S
<1>3. Sigma(f, S) = Sigma(a, S) + Sigma(b, S) - Sigma(z, S)
    BY <1>1, <1>2, SumLinear
<1>4. Sigma(a, S) = Sigma(f, A)
    BY <1>1, <1>2, SumFilter
<1>5. Sigma(b, S) = Sigma(f, B)
    BY <1>1, <1>2, SumFilter
<1>6. Sigma(z, S) = 0
    BY <1>1, <1>2, SumZero
<1>7. Sigma(f, A) \in Int /\ Sigma(f, B) \in Int
    BY <1>2, SumInt
<1> QED
    BY <1>3, <1>4, <1>5, <1>6, <1>7 DEF S

\* The elements of S that carry label l.
Group(S, lab, l) == {x \in S : lab[x] = l}

\* What a sum over groups is made of: the elements of S carry labels of L, and
\* g holds the sum of each group.
LEMMA SumGroups ==
    ASSUME NEW f, NEW S, IsFiniteSet(S), \A x \in S : f[x] \in Int,
           NEW lab, NEW L, IsFiniteSet(L), \A x \in S : lab[x] \in L,
           NEW g, \A l \in L : g[l] = Sigma(f, Group(S, lab, l))
    PROVE  Sigma(g, L) = Sigma(f, S)
<1> DEFINE of(M) == {x \in S : lab[x] \in M}
<1> DEFINE G == {M \in SUBSET L : Sigma(g, M) = Sigma(f, of(M))}
<1>1. ASSUME NEW M \in SUBSET L, \A U \in SUBSET M : U # M => U \in G
      PROVE  M \in G
  <2> DEFINE y == OneOf(M)
  <2> DEFINE R == M \ {y}
  <2> DEFINE group == Group(S, lab, y)
  <2>1. IsFiniteSet(M) /\ IsFiniteSet(of(M)) /\ IsFiniteSet(of(R)) /\ IsFiniteSet(group)
      BY FS_Subset DEF Group
  <2>2. Sigma(g, M) = IF M = {} THEN 0 ELSE g[y] + Sigma(g, R)
      BY <2>1, SumSteps
  <2>3. M # {} => y \in M /\ R \in G
      BY <1>1 DEF OneOf
  <2>4. CASE M = {}
    <3>1. of(M) = {} /\ Sigma(f, {}) = 0
        BY <2>4, FS_EmptySet, SumZero
    <3> QED
        BY <2>2, <2>4, <3>1
  <2>5. CASE M # {}
    <3>1. of(M) = group \union of(R) /\ group \intersect of(R) = {}
        BY <2>3, <2>5 DEF Group
    <3>2. \A x \in group \union of(R) : f[x] \in Int
        BY DEF Group
    <3>3. g[y] = Sigma(f, group)
        BY <2>3, <2>5
    <3>4. Sigma(g, R) = Sigma(f, of(R))
        BY <2>3, <2>5
    <3> HIDE DEF group, of, R, y
    <3>5. Sigma(f, of(M)) = Sigma(f, group) + Sigma(f, of(R))
        BY <2>1, <3>1, <3>2, SumSplit
    <3> QED
        BY <2>2, <2>5, <3>3, <3>4, <3>5
  <2> QED
      BY <2>4, <2>5
<1> HIDE DEF G
<1>2. L \in G
    BY <1>1, SetInduction
<1>3. of(L) = S
    OBVIOUS
<1> QED
    BY <1>2, <1>3 DEF G

\* A sum does not depend on the names of what is summed.
LEMMA SumRenamed ==
    ASSUME NEW g, NEW S, IsFiniteSet(S), NEW h, \A x, y \in S : h[x] = h[y] => x = y,
           NEW f, \A x \in S : g[x] \in Int /\ f[h[x]] = g[x]
    PROVE  /\ IsFiniteSet({h[x] : x \in S})
           /\ Sigma(f, {h[x] : x \in S}) = Sigma(g, S)
<1> DEFINE image(T) == {h[x] : x \in T}
<1> DEFINE G == {T \in SUBSET S : IsFiniteSet(image(T)) /\ Sigma(f, image(T)) = Sigma(g, T)}
<1>1. ASSUME NEW T \in SUBSET S, \A U \in SUBSET T : U # T => U \in G
      PROVE  T \in G
  <2> DEFINE y == OneOf(T)
  <2> DEFINE R == T \ {y}
  <2>1. Sigma(g, T) = IF T = {} THEN 0 ELSE g[y] + Sigma(g, R)
      BY FS_Subset, SumSteps
  <2>2. T # {} => y \in T /\ R \in G
      BY <1>1 DEF OneOf
  <2>3. CASE T = {}
    <3>1. image(T) = {} /\ Sigma(f, {}) = 0 /\ IsFiniteSet({})
        BY <2>3, FS_EmptySet, SumZero
    <3> QED
        BY <2>1, <2>3, <3>1
  <2>4. CASE T # {}
    <3>1. image(T) = image(R) \union {h[y]} /\ h[y] \notin image(R)
        BY <2>2, <2>4
    <3>2. IsFiniteSet(image(R)) /\ Sigma(f, image(R)) = Sigma(g, R)
        BY <2>2, <2>4
    <3>3. \A z \in image(R) \union {h[y]} : f[z] \in Int
        BY <2>2, <2>4
    <3>4. f[h[y]] = g[y]
        BY <2>2, <2>4
    <3> HIDE DEF image, R, y
    <3>5. Sigma(f, image(R) \union {h[y]}) = Sigma(f, image(R)) + f[h[y]]
        BY <3>1, <3>2, <3>3, SumAdd
    <3>6. Sigma(g, R) \in Int
        BY <3>2, <3>3, SumInt
    <3>7. IsFiniteSet(image(R) \union {h[y]})
        BY <3>2, FS_AddElement
    <3>8. f[h[y]] \in Int
        BY <3>3
    <3> QED
        BY <2>1, <2>4, <3>1, <3>2, <3>4, <3>5, <3>6, <3>7, <3>8
  <2> QED
      BY <2>3, <2>4
<1> HIDE DEF G
<1>2. S \in G
    BY <1>1, SetInduction
<1> QED
    BY <1>2 DEF G

\* Counting is summing ones.
LEMMA CountIsSum ==
    ASSUME NEW S, IsFiniteSet(S), NEW one, \A x \in S : one[x] = 1
    PROVE  Sigma(one, S) = Cardinality(S)
<1> DEFINE G == {T \in SUBSET S : Sigma(one, T) = Cardinality(T)}
<1>1. ASSUME NEW T \in SUBSET S, \A U \in SUBSET T : U # T => U \in G
      PROVE  T \in G
  <2> DEFINE y == OneOf(T)
  <2>1. IsFiniteSet(T)
      BY FS_Subset
  <2>2. Sigma(one, T) = IF T = {} THEN 0 ELSE one[y] + Sigma(one, T \ {y})
      BY <2>1, SumSteps
  <2>3. T # {} => y \in T /\ (T \ {y}) \in G
      BY <1>1 DEF OneOf
  <2>4. T # {} => Cardinality(T \ {y}) = Cardinality(T) - 1 /\ Cardinality(T) \in Nat
      BY <2>1, <2>3, FS_RemoveElement, FS_CardinalityType
  <2> HIDE DEF y
  <2>5. CASE T = {}
      BY <2>2, <2>5, FS_EmptySet
  <2>6. CASE T # {}
    <3>1. one[y] = 1 /\ Sigma(one, T \ {y}) = Cardinality(T \ {y})
        BY <2>3, <2>6
    <3> QED
        BY <2>2, <2>4, <2>6, <3>1
  <2> QED
      BY <2>5, <2>6
<1> HIDE DEF G
<1>2. S \in G
    BY <1>1, SetInduction
<1> QED
    BY <1>2 DEF G

\* Groups of a finite set count up to the set.
LEMMA CountGroups ==
    ASSUME NEW S, IsFiniteSet(S), NEW lab, NEW L, IsFiniteSet(L), \A x \in S : lab[x] \in L,
           NEW g, \A l \in L : g[l] = Cardinality(Group(S, lab, l))
    PROVE  Sigma(g, L) = Cardinality(S)
<1> DEFINE one == [x \in S |-> 1]
<1>1. /\ \A x \in S : one[x] \in Int
      /\ \A x \in S : one[x] = 1
    OBVIOUS
<1> HIDE DEF one
<1>2. \A l \in L : g[l] = Sigma(one, Group(S, lab, l))
  <2> SUFFICES ASSUME NEW l \in L PROVE g[l] = Sigma(one, Group(S, lab, l))
      OBVIOUS
  <2> DEFINE T == Group(S, lab, l)
  <2>1. IsFiniteSet(T) /\ \A x \in T : one[x] = 1
      BY <1>1, FS_Subset DEF Group
  <2>2. g[l] = Cardinality(T)
      OBVIOUS
  <2> HIDE DEF T
  <2>3. Sigma(one, T) = Cardinality(T)
      BY <2>1, CountIsSum
  <2> QED
      BY <2>2, <2>3 DEF T
<1>3. Sigma(g, L) = Sigma(one, S)
    BY <1>1, <1>2, SumGroups
<1> QED
    BY <1>1, <1>3, CountIsSum

\* The labels of a finite set are finitely many.
LEMMA LabelsFinite ==
    ASSUME NEW S, IsFiniteSet(S), NEW lab
    PROVE  IsFiniteSet({lab[x] : x \in S})
<1> DEFINE G == {T \in SUBSET S : IsFiniteSet({lab[x] : x \in T})}
<1>1. ASSUME NEW T \in SUBSET S, \A U \in SUBSET T : U # T => U \in G
      PROVE  T \in G
  <2>1. CASE T = {}
    <3>1. {lab[x] : x \in T} = {}
        BY <2>1
    <3> QED
        BY <3>1, FS_EmptySet
  <2>2. CASE T # {}
    <3>1. PICK y \in T : TRUE
        BY <2>2
    <3>2. IsFiniteSet({lab[x] : x \in T \ {y}})
        BY <1>1
    <3>3. {lab[x] : x \in T} = {lab[x] : x \in T \ {y}} \union {lab[y]}
        OBVIOUS
    <3>4. IsFiniteSet({lab[x] : x \in T \ {y}} \union {lab[y]})
        BY <3>2, FS_AddElement
    <3> QED
        BY <3>3, <3>4
  <2> QED
      BY <2>1, <2>2
<1> HIDE DEF G
<1>2. S \in G
    BY <1>1, SetInduction
<1> QED
    BY <1>2 DEF G

\* A set of natural numbers has a least element, the one that fewest numbers
\* come before.
LEMMA LeastNatural ==
    ASSUME NEW T \in SUBSET Nat, T # {}
    PROVE  Min(T) \in T /\ \A n \in T : Min(T) <= n
<1>1. PICK k \in T : TRUE
    OBVIOUS
<1> DEFINE segments == {0..n : n \in {m \in T : m <= k}}
<1>2. segments \subseteq FiniteSubsetsOf(0..k) /\ segments # {}
  <2>1. \A n \in {m \in T : m <= k} : IsFiniteSet(0..n) /\ 0..n \in SUBSET (0..k)
      BY <1>1, FS_Interval
  <2> QED
      BY <1>1, <2>1 DEF FiniteSubsetsOf
<1>3. PICK x \in segments : \A y \in segments : <<y, x>> \notin StrictSubsetOrdering(0..k)
  <2>1. IsFiniteSet(0..k)
      BY <1>1, FS_Interval
  <2> HIDE DEF segments
  <2> QED
      BY <1>2, <2>1, FS_StrictSubsetOrderingWellFounded, WFMin, Zenon
<1>4. PICK n \in T : n <= k /\ x = 0..n
    OBVIOUS
<1>5. \A m \in T : n <= m
  <2> SUFFICES ASSUME NEW m \in T, m < n PROVE FALSE
      OBVIOUS
  <2>1. 0..m \in segments
      BY <1>4
  <2>2. <<0..m, x>> \in StrictSubsetOrdering(0..k)
      BY <1>1, <1>4 DEF StrictSubsetOrdering
  <2> QED
      BY <1>3, <2>1, <2>2
<1> QED
    BY <1>5 DEF Min

\* A set of natural numbers up to k has a greatest one as well.
LEMMA GreatestNatural ==
    ASSUME NEW k \in Nat, NEW T \in SUBSET (0..k), T # {}
    PROVE  Max(T) \in T /\ \A n \in T : n <= Max(T)
<1> DEFINE distances == {k - n : n \in T}
<1>1. distances \in SUBSET Nat /\ distances # {}
    OBVIOUS
<1>2. PICK d \in distances : \A e \in distances : d <= e
    BY <1>1, LeastNatural
<1>3. PICK n \in T : d = k - n
    OBVIOUS
<1>4. \A m \in T : n >= m
    BY <1>2, <1>3
<1> QED
    BY <1>4 DEF Max
=============================================================================
