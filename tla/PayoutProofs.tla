----------------------------- MODULE PayoutProofs -----------------------------
(***************************************************************************)
(* What the proofs need to know of numbers: the laws of Total, without     *)
(* induction (a sum of two functions is a disjoint union of their tokens); *)
(* induction on an interval, and what a running total is, from the fact    *)
(* that a finite set has no injection into itself that misses an element;  *)
(* and, with these, how a routed amount is split.                          *)
(***************************************************************************)
EXTENDS TokenSums, RoutePayout, SequencesExt, FiniteSetTheorems, SequenceTheorems, TLAPS

-----------------------------------------------------------------------------
(* Sums.                                                                   *)

\* Membership in Tokens, without the union.
LEMMA TokenMembership ==
  ASSUME NEW S, NEW max \in Nat, NEW f \in [S -> 0 .. max], NEW x, NEW i
  PROVE  <<x, i>> \in Tokens(f) <=> x \in S /\ i \in 1 .. f[x]
  BY DEF Tokens

\* A finite function has finitely many tokens, and a natural number of them.
LEMMA TotalIsNat ==
  ASSUME NEW S, IsFiniteSet(S), NEW max \in Nat, NEW f \in [S -> 0 .. max]
  PROVE  IsFiniteSet(Tokens(f)) /\ Total(f) \in Nat
<1>1. IsFiniteSet(S \X (1 .. max))
  <2>1. IsFiniteSet(1 .. max)
    BY FS_Interval
  <2>2. QED
    BY <2>1, FS_Product
<1>2. Tokens(f) \subseteq S \X (1 .. max)
  BY DEF Tokens
<1>3. IsFiniteSet(Tokens(f))
  BY <1>1, <1>2, FS_Subset
<1>4. QED
  BY <1>3, FS_CardinalityType DEF Total

\* Nothing anywhere sums to nothing.
LEMMA TotalOfNothing ==
  ASSUME NEW S, NEW f \in [S -> 0 .. 0]
  PROVE  Total(f) = 0
<1>1. \A x \in S : 1 .. f[x] = {}
  OBVIOUS
<1>2. Tokens(f) = {}
  BY <1>1 DEF Tokens
<1>3. QED
  BY <1>2, FS_EmptySet DEF Total

\* What one entry holds alone is the total.
LEMMA TotalOfOne ==
  ASSUME NEW S, NEW e \in S, NEW n \in Nat
  PROVE  Total([x \in S |-> IF x = e THEN n ELSE 0]) = n
<1> DEFINE f == [x \in S |-> IF x = e THEN n ELSE 0]
<1> SUFFICES Total(f) = n
  OBVIOUS
<1>1. Tokens(f) = {e} \X (1 .. n)
  <2>1. \A x \in S : x # e => {x} \X (1 .. f[x]) = {}
    OBVIOUS
  <2>2. {e} \X (1 .. f[e]) = {e} \X (1 .. n)
    OBVIOUS
  <2>3. QED
    BY <2>1, <2>2 DEF Tokens
<1>2. Cardinality({e} \X (1 .. n)) = 1 * n
  <2>1. IsFiniteSet({e}) /\ Cardinality({e}) = 1
    BY FS_Singleton
  <2>2. IsFiniteSet(1 .. n) /\ Cardinality(1 .. n) = n
    BY FS_Interval
  <2>3. QED
    BY <2>1, <2>2, FS_Product
<1> HIDE DEF f
<1>3. QED
  BY <1>1, <1>2 DEF Total

\* Sums add: the tokens of h are those of f, and above them as many as g has.
LEMMA TotalOfSum ==
  ASSUME NEW S, IsFiniteSet(S), NEW max \in Nat,
         NEW f \in [S -> 0 .. max], NEW g \in [S -> 0 .. max], NEW h \in [S -> 0 .. max],
         \A x \in S : h[x] = f[x] + g[x]
  PROVE  Total(h) = Total(f) + Total(g)
<1> DEFINE above == {t \in S \X (1 .. max) : f[t[1]] < t[2] /\ t[2] <= h[t[1]]}
           lift == [t \in Tokens(g) |-> <<t[1], t[2] + f[t[1]]>>]
<1>1. Tokens(h) = Tokens(f) \cup above
  <2>1. \A x, i : <<x, i>> \in Tokens(h) <=> <<x, i>> \in Tokens(f) \cup above
    <3> SUFFICES ASSUME NEW x, NEW i
                 PROVE  <<x, i>> \in Tokens(h) <=> <<x, i>> \in Tokens(f) \cup above
      OBVIOUS
    <3>1. <<x, i>> \in above <=> x \in S /\ i \in 1 .. max /\ f[x] < i /\ i <= h[x]
      OBVIOUS
    <3>2. <<x, i>> \in Tokens(h) <=> x \in S /\ i \in 1 .. h[x]
      BY TokenMembership
    <3>3. <<x, i>> \in Tokens(f) <=> x \in S /\ i \in 1 .. f[x]
      BY TokenMembership
    <3>4. x \in S => f[x] \in 0 .. max /\ g[x] \in 0 .. max /\ h[x] \in 0 .. max /\ h[x] = f[x] + g[x]
      OBVIOUS
    <3>5. QED
      BY <3>1, <3>2, <3>3, <3>4
  <2>2. \A t \in Tokens(h) : t = <<t[1], t[2]>>
    BY DEF Tokens
  <2>3. \A t \in Tokens(f) \cup above : t = <<t[1], t[2]>>
    BY DEF Tokens
  <2>4. QED
    BY <2>1, <2>2, <2>3
<1>2. Tokens(f) \cap above = {}
  BY DEF Tokens
<1>3. lift \in Bijection(Tokens(g), above)
  <2>1. \A t \in Tokens(g) : t[1] \in S /\ t[2] \in 1 .. g[t[1]] /\ t = <<t[1], t[2]>>
    BY DEF Tokens
  <2>2. \A t \in Tokens(g) : lift[t] \in above
    BY <2>1
  <2>3. \A t, v \in Tokens(g) : lift[t] = lift[v] => t = v
    BY <2>1
  <2>4. \A v \in above : \E t \in Tokens(g) : lift[t] = v
    <3> SUFFICES ASSUME NEW v \in above
                 PROVE  \E t \in Tokens(g) : lift[t] = v
      OBVIOUS
    <3>1. v = <<v[1], v[2]>> /\ v[1] \in S /\ v[2] - f[v[1]] \in 1 .. g[v[1]]
      OBVIOUS
    <3>2. <<v[1], v[2] - f[v[1]]>> \in Tokens(g)
      BY <3>1, TokenMembership
    <3>3. lift[<<v[1], v[2] - f[v[1]]>>] = v
      BY <3>1, <3>2
    <3>4. QED
      BY <3>2, <3>3
  <2>5. QED
    BY <2>2, <2>3, <2>4 DEF Bijection, Injection, Surjection, IsInjective
<1>4. IsFiniteSet(Tokens(f)) /\ IsFiniteSet(Tokens(g))
  BY TotalIsNat
<1>5. IsFiniteSet(above) /\ Cardinality(above) = Cardinality(Tokens(g))
  BY <1>3, <1>4, FS_Bijection DEF ExistsBijection
<1>6. Cardinality(Tokens(f)) \in Nat /\ Cardinality(Tokens(g)) \in Nat
  BY <1>4, FS_CardinalityType
<1>7. Cardinality(Tokens(f) \cup above) = Cardinality(Tokens(f)) + Cardinality(above)
  <2>1. Cardinality(Tokens(f) \cap above) = 0
    BY <1>2, FS_EmptySet
  <2>2. Cardinality(Tokens(f) \cup above)
          = Cardinality(Tokens(f)) + Cardinality(above) - Cardinality(Tokens(f) \cap above)
    <3> HIDE DEF above
    <3> QED
      BY <1>4, <1>5, FS_Union
  <2>3. QED
    BY <1>5, <1>6, <2>1, <2>2
<1>8. QED
  BY <1>1, <1>5, <1>7 DEF Total

\* The same, for use where the functions are not named.
LEMMA SumsAdd ==
  ASSUME NEW S, IsFiniteSet(S), NEW max \in Nat
  PROVE  \A f, g, h \in [S -> 0 .. max] :
            (\A x \in S : h[x] = f[x] + g[x]) => Total(h) = Total(f) + Total(g)
  BY TotalOfSum

\* Adding n to one entry adds n to the total.
LEMMA TotalOfIncrease ==
  ASSUME NEW S, IsFiniteSet(S), NEW max \in Nat, NEW e \in S, NEW n \in Nat,
         NEW f \in [S -> 0 .. max], NEW h \in [S -> 0 .. max],
         h[e] = f[e] + n, \A x \in S \ {e} : h[x] = f[x]
  PROVE  Total(h) = Total(f) + n
<1> DEFINE g == [x \in S |-> IF x = e THEN n ELSE 0]
<1>1. n <= max
  OBVIOUS
<1>2. g \in [S -> 0 .. max]
  BY <1>1
<1>3. \A x \in S : h[x] = f[x] + g[x]
  OBVIOUS
<1>4. Total(h) = Total(f) + Total(g)
  <2> HIDE DEF g
  <2> QED
    BY <1>2, <1>3, SumsAdd
<1>5. Total(g) = n
  BY TotalOfOne
<1> HIDE DEF g
<1>6. QED
  BY <1>4, <1>5

\* The same, for use where the functions are not named.
LEMMA IncreaseAdds ==
  ASSUME NEW S, IsFiniteSet(S), NEW max \in Nat
  PROVE  \A f, h \in [S -> 0 .. max] : \A e \in S : \A n \in Nat :
            (h[e] = f[e] + n /\ \A x \in S \ {e} : h[x] = f[x]) => Total(h) = Total(f) + n
  BY TotalOfIncrease

\* No entry is more than the total.
LEMMA EntryInTotal ==
  ASSUME NEW S, IsFiniteSet(S), NEW max \in Nat
  PROVE  \A f \in [S -> 0 .. max] : \A e \in S : f[e] <= Total(f)
<1> SUFFICES ASSUME NEW f \in [S -> 0 .. max], NEW e \in S
             PROVE  f[e] <= Total(f)
  OBVIOUS
<1> DEFINE g == [f EXCEPT ![e] = 0]
<1>1. g \in [S -> 0 .. max] /\ f[e] = g[e] + f[e] /\ f[e] \in Nat /\ \A x \in S \ {e} : f[x] = g[x]
  OBVIOUS
<1> HIDE DEF g
<1>2. Total(f) = Total(g) + f[e]
  BY <1>1, IncreaseAdds
<1>3. Total(g) \in Nat
  BY <1>1, TotalIsNat
<1> QED BY <1>1, <1>2, <1>3

\* f counts how many elements of U have each of S for their o.
CountsBy(f, S, U, o) == f = [p \in S |-> Cardinality({u \in U : o[u] = p})]

\* Counting a set by what a function gives its elements counts it.
LEMMA TotalOfCounts ==
  ASSUME NEW S, NEW U, IsFiniteSet(U), NEW o \in [U -> S], NEW f, CountsBy(f, S, U, o)
  PROVE  Total(f) = Cardinality(U)
<1>0. f = [p \in S |-> Cardinality({u \in U : o[u] = p})]
  BY DEF CountsBy
<1> DEFINE part(p) == {u \in U : o[u] = p}
           order == [p \in S |-> CHOOSE h : h \in Bijection(1 .. f[p], part(p))]
           unit == [t \in Tokens(f) |-> order[t[1]][t[2]]]
<1>1. ASSUME NEW p \in S
      PROVE  order[p] \in Bijection(1 .. f[p], part(p)) /\ f[p] \in Nat
  <2>1. IsFiniteSet(part(p))
    BY FS_Subset
  <2>2. f[p] = Cardinality(part(p)) /\ f[p] \in Nat
    BY <1>0, <2>1, FS_CardinalityType
  <2>3. ExistsBijection(1 .. f[p], part(p))
    <3> HIDE DEF part
    <3> QED BY <2>1, <2>2, FS_CardinalityType
  <2>4. \E h : h \in Bijection(1 .. f[p], part(p))
    BY <2>3 DEF ExistsBijection
  <2> QED BY <2>2, <2>4
<1>2. \A t \in Tokens(f) : t[1] \in S /\ t[2] \in 1 .. f[t[1]] /\ t = <<t[1], t[2]>>
  <2>1. DOMAIN f = S
    BY <1>0
  <2>2. ASSUME NEW p \in S, NEW t \in {p} \X (1 .. f[p])
        PROVE  t[1] \in S /\ t[2] \in 1 .. f[t[1]] /\ t = <<t[1], t[2]>>
    OBVIOUS
  <2> QED BY ONLY <2>1, <2>2 DEF Tokens
<1>3. \A p \in S : \A i \in 1 .. f[p] : <<p, i>> \in Tokens(f)
  BY <1>0 DEF Tokens
<1>4. \A p \in S : \A i \in 1 .. f[p] : order[p][i] \in U /\ o[order[p][i]] = p
  BY <1>1 DEF Bijection, Injection
<1>5. ASSUME NEW p \in S, NEW i \in 1 .. f[p], NEW j \in 1 .. f[p], order[p][i] = order[p][j]
      PROVE  i = j
  <2>1. order[p] \in Injection(1 .. f[p], part(p))
    BY <1>1 DEF Bijection
  <2>2. DOMAIN order[p] = 1 .. f[p] /\ IsInjective(order[p])
    <3> HIDE DEF order, part
    <3> QED BY <2>1 DEF Injection
  <2> HIDE DEF order
  <2> QED BY <1>5, <2>2 DEF IsInjective
<1>6. \A p \in S : \A u \in part(p) : \E i \in 1 .. f[p] : order[p][i] = u
  BY <1>1 DEF Bijection, Surjection
<1> HIDE DEF order
<1>7. unit \in Injection(Tokens(f), U)
  <2>1. unit \in [Tokens(f) -> U]
    BY <1>2, <1>4
  <2>2. ASSUME NEW t \in Tokens(f), NEW v \in Tokens(f), unit[t] = unit[v]
        PROVE  t = v
    <3>1. order[t[1]][t[2]] = order[v[1]][v[2]]
      BY <2>2
    <3>2. t[1] = v[1]
      <4>1. o[order[t[1]][t[2]]] = t[1]
        BY <1>2, <1>4
      <4>2. o[order[v[1]][v[2]]] = v[1]
        BY <1>2, <1>4
      <4> QED BY <3>1, <4>1, <4>2
    <3>3. t[2] = v[2]
      BY <1>2, <1>5, <3>1, <3>2
    <3> QED BY <1>2, <3>2, <3>3
  <2> QED BY <2>1, <2>2 DEF Injection, IsInjective
<1>8. unit \in Surjection(Tokens(f), U)
  <2>1. ASSUME NEW u \in U
        PROVE  \E t \in Tokens(f) : unit[t] = u
    <3>1. o[u] \in S /\ u \in part(o[u])
      OBVIOUS
    <3>2. PICK i \in 1 .. f[o[u]] : order[o[u]][i] = u
      BY <1>6, <3>1
    <3>3. <<o[u], i>> \in Tokens(f)
      BY <1>3, <3>1
    <3> QED BY <3>2, <3>3
  <2>2. unit \in [Tokens(f) -> U]
    BY <1>2, <1>4
  <2> QED BY <2>1, <2>2 DEF Surjection
<1>9. IsFiniteSet(Tokens(f)) /\ Cardinality(Tokens(f)) = Cardinality(U)
  <2> HIDE DEF unit
  <2> QED BY <1>7, <1>8, FS_Injection
<1> QED BY <1>9 DEF Total

-----------------------------------------------------------------------------
(* Induction and recursion on an interval.                                 *)

\* Induction on 0 .. n for a set.
LEMMA Induction ==
  ASSUME NEW n \in Nat, NEW A, 0 \in A, \A i \in 0 .. n - 1 : i \in A => i + 1 \in A
  PROVE  0 .. n \subseteq A
<1> SUFFICES ASSUME NEW m \in 0 .. n, m \notin A
             PROVE  FALSE
  OBVIOUS
<1> DEFINE B == {i \in 0 .. m - 1 : i \in A}
           next == [i \in B |-> i + 1]
<1>1. IsFiniteSet(B)
  <2>1. IsFiniteSet(0 .. m - 1)
    BY FS_Interval
  <2> QED BY <2>1, FS_Subset
<1>2. \A i \in B : i + 1 \in B
  OBVIOUS
<1>3. next \in Injection(B, B)
  BY <1>2 DEF Injection, IsInjective
<1>4. next \in Surjection(B, B)
  <2> HIDE DEF B, next
  <2> QED BY <1>1, <1>3, FS_Injection
<1>5. 0 \in B
  OBVIOUS
<1>6. \E i \in B : next[i] = 0
  BY <1>4, <1>5 DEF Surjection
<1> QED BY <1>6

\* f starts from a, and step[i] takes it from f[i - 1] to f[i].
Unfolds(f, S, n, a, step) ==
    f \in [0 .. n -> S] /\ f[0] = a /\ \A i \in 1 .. n : f[i] = step[i][f[i - 1]]

\* A definition by recursion on 0 .. n defines a function.
LEMMA Recursion ==
  ASSUME NEW S, NEW n \in Nat, NEW a \in S, NEW step \in [1 .. n -> [S -> S]]
  PROVE  \E f : Unfolds(f, S, n, a, step)
<1> DEFINE A == {m \in 0 .. n : \E f : Unfolds(f, S, m, a, step)}
<1>1. 0 \in A
  <2>1. Unfolds([i \in 0 .. 0 |-> a], S, 0, a, step)
    BY DEF Unfolds
  <2> QED BY <2>1
<1>2. \A m \in 0 .. n - 1 : m \in A => m + 1 \in A
  <2> SUFFICES ASSUME NEW m \in 0 .. n - 1, m \in A
               PROVE  m + 1 \in A
    OBVIOUS
  <2> PICK f : Unfolds(f, S, m, a, step)
    OBVIOUS
  <2> DEFINE g == [i \in 0 .. m + 1 |-> IF i <= m THEN f[i] ELSE step[m + 1][f[m]]]
  <2>0. f \in [0 .. m -> S] /\ f[0] = a /\ \A i \in 1 .. m : f[i] = step[i][f[i - 1]]
    BY DEF Unfolds
  <2>1. f[m] \in S /\ m + 1 \in 1 .. n
    BY <2>0
  <2>2. step[m + 1][f[m]] \in S
    BY <2>1
  <2>3. g \in [0 .. m + 1 -> S]
    BY <2>0, <2>2
  <2>4. g[0] = a
    BY <2>0
  <2>5. ASSUME NEW i \in 1 .. m + 1
        PROVE  g[i] = step[i][g[i - 1]]
    <3>1. i - 1 \in 0 .. m /\ g[i - 1] = f[i - 1]
      OBVIOUS
    <3>2. CASE i <= m
      BY <2>0, <3>1, <3>2
    <3>3. CASE i = m + 1
      BY <3>1, <3>3
    <3> QED BY <3>2, <3>3
  <2> HIDE DEF g
  <2>6. Unfolds(g, S, m + 1, a, step)
    BY <2>3, <2>4, <2>5 DEF Unfolds
  <2> QED BY <2>6
<1>3. 0 .. n \subseteq A
  <2> HIDE DEF A
  <2> QED BY <1>1, <1>2, Induction
<1> QED BY <1>3

\* Two functions that unfold the same definition are one.
LEMMA RecursionIsUnique ==
  ASSUME NEW S, NEW n \in Nat, NEW a, NEW step, NEW f, NEW h,
         Unfolds(f, S, n, a, step), Unfolds(h, S, n, a, step)
  PROVE  f = h
<1> DEFINE A == {i \in 0 .. n : f[i] = h[i]}
<1>1. 0 \in A
  BY DEF Unfolds
<1>2. \A i \in 0 .. n - 1 : i \in A => i + 1 \in A
  <2> SUFFICES ASSUME NEW i \in 0 .. n - 1, f[i] = h[i]
               PROVE  f[i + 1] = h[i + 1]
    OBVIOUS
  <2>1. i + 1 \in 1 .. n /\ (i + 1) - 1 = i
    OBVIOUS
  <2> QED BY <2>1 DEF Unfolds
<1>3. 0 .. n \subseteq A
  <2> HIDE DEF A
  <2> QED BY <1>1, <1>2, Induction
<1> QED BY <1>3 DEF Unfolds

\* f sums g up from a.
RunningSum(f, n, a, g) == f = [i \in 0 .. n |-> IF i = 0 THEN a ELSE f[i - 1] + g[i]]

\* A running sum is a function by recursion.
LEMMA SumUnfolds ==
  ASSUME NEW n \in Nat, NEW a \in Int, NEW g \in [1 .. n -> Int], NEW f
  PROVE  Unfolds(f, Int, n, a, [i \in 1 .. n |-> [x \in Int |-> x + g[i]]]) <=> RunningSum(f, n, a, g)
<1> DEFINE step == [i \in 1 .. n |-> [x \in Int |-> x + g[i]]]
<1>1. ASSUME Unfolds(f, Int, n, a, step)
      PROVE  RunningSum(f, n, a, g)
  <2>0. f \in [0 .. n -> Int] /\ f[0] = a /\ \A i \in 1 .. n : f[i] = step[i][f[i - 1]]
    BY <1>1 DEF Unfolds
  <2>1. ASSUME NEW i \in 1 .. n
        PROVE  f[i] = f[i - 1] + g[i]
    <3>1. f[i] = step[i][f[i - 1]] /\ i - 1 \in 0 .. n
      <4> HIDE DEF step
      <4> QED BY <2>0
    <3>2. f[i - 1] \in Int
      BY <2>0, <3>1
    <3> QED BY <3>1, <3>2
  <2>2. ASSUME NEW i \in 0 .. n
        PROVE  f[i] = IF i = 0 THEN a ELSE f[i - 1] + g[i]
    <3>1. CASE i = 0
      BY <2>0, <3>1
    <3>2. CASE i # 0
      <4>1. i \in 1 .. n
        BY <3>2
      <4> QED BY <2>1, <3>2, <4>1
    <3> QED BY <3>1, <3>2
  <2> QED BY <2>0, <2>2 DEF RunningSum
<1>2. ASSUME RunningSum(f, n, a, g)
      PROVE  Unfolds(f, Int, n, a, step)
  <2>0. f = [i \in 0 .. n |-> IF i = 0 THEN a ELSE f[i - 1] + g[i]]
    BY <1>2 DEF RunningSum
  <2>1. f[0] = a /\ \A i \in 1 .. n : f[i] = f[i - 1] + g[i]
    BY <2>0
  <2> DEFINE A == {i \in 0 .. n : f[i] \in Int}
  <2>2. 0 \in A
    BY <2>1
  <2>3. \A i \in 0 .. n - 1 : i \in A => i + 1 \in A
    <3> SUFFICES ASSUME NEW i \in 0 .. n - 1, f[i] \in Int
                 PROVE  f[i + 1] \in Int
      OBVIOUS
    <3>1. i + 1 \in 1 .. n /\ (i + 1) - 1 = i
      OBVIOUS
    <3> QED BY <2>1, <3>1
  <2>4. 0 .. n \subseteq A
    <3> HIDE DEF A
    <3> QED BY <2>2, <2>3, Induction
  <2>5. f \in [0 .. n -> Int]
    BY <2>0, <2>4
  <2>6. ASSUME NEW i \in 1 .. n
        PROVE  f[i] = step[i][f[i - 1]]
    <3>1. i - 1 \in 0 .. n
      OBVIOUS
    <3>2. f[i - 1] \in Int
      BY <2>5, <3>1
    <3> QED BY <2>1, <3>2
  <2> HIDE DEF step
  <2> QED BY <2>1, <2>5, <2>6 DEF Unfolds
<1> QED BY <1>1, <1>2

\* A running sum exists; its values are integers, the next one g further.
LEMMA SumExists ==
  ASSUME NEW n \in Nat, NEW a \in Int, NEW g \in [1 .. n -> Int]
  PROVE  \E f : RunningSum(f, n, a, g)
<1> DEFINE step == [i \in 1 .. n |-> [x \in Int |-> x + g[i]]]
<1>1. step \in [1 .. n -> [Int -> Int]]
  OBVIOUS
<1>2. \E f : Unfolds(f, Int, n, a, step)
  <2> HIDE DEF step
  <2> QED BY <1>1, Recursion
<1> QED BY <1>2, SumUnfolds

\* The same facts one by one.
SumFacts(f, n, a, g) ==
    f \in [0 .. n -> Int] /\ f[0] = a /\ \A i \in 1 .. n : f[i] = f[i - 1] + g[i]

LEMMA SumValues ==
  ASSUME NEW n \in Nat, NEW a \in Int, NEW g \in [1 .. n -> Int], NEW f, RunningSum(f, n, a, g)
  PROVE  SumFacts(f, n, a, g)
<1>1. f \in [0 .. n -> Int]
  BY SumUnfolds DEF Unfolds
<1> QED BY <1>1, SMTT(30) DEF RunningSum, SumFacts

-----------------------------------------------------------------------------
(* Division.                                                               *)

\* A quotient and a remainder determine the number, and it them.
LEMMA Divides ==
  ASSUME NEW b \in Nat \ {0}, NEW q \in Nat, NEW r \in 0 .. b - 1
  PROVE  (q * b + r) \div b = q /\ (q * b + r) % b = r
OBVIOUS

LEMMA Quotient ==
  ASSUME NEW v \in Nat, NEW b \in Nat \ {0}
  PROVE  /\ v \div b \in Nat /\ v % b \in 0 .. b - 1
         /\ v = (v \div b) * b + (v % b)
OBVIOUS

-----------------------------------------------------------------------------
(* Sequences put one behind the other.                                     *)

\* What FlattenSeq unfolds.
Flattens(f, n, seqs) == f = [i \in 1 .. n |-> IF i = 1 THEN seqs[i] ELSE f[i - 1] \o seqs[i]]

\* Two functions that unfold the same sequences are one.
LEMMA FlattenIsUnique ==
  ASSUME NEW n \in Nat \ {0}, NEW seqs, NEW f, NEW h, Flattens(f, n, seqs), Flattens(h, n, seqs)
  PROVE  f[n] = h[n]
<1> DEFINE A == {i \in 0 .. n - 1 : f[i + 1] = h[i + 1]}
<1>1. \A i \in 1 .. n : /\ f[i] = IF i = 1 THEN seqs[i] ELSE f[i - 1] \o seqs[i]
                        /\ h[i] = IF i = 1 THEN seqs[i] ELSE h[i - 1] \o seqs[i]
  BY DEF Flattens
<1>2. 0 \in A
  <2>1. 1 \in 1 .. n /\ 0 \in 0 .. n - 1 /\ 0 + 1 = 1
    OBVIOUS
  <2> QED BY <1>1, <2>1
<1>3. \A i \in 0 .. (n - 1) - 1 : i \in A => i + 1 \in A
  <2> SUFFICES ASSUME NEW i \in 0 .. (n - 1) - 1, f[i + 1] = h[i + 1]
               PROVE  f[(i + 1) + 1] = h[(i + 1) + 1]
    OBVIOUS
  <2>1. (i + 1) + 1 \in 1 .. n /\ (i + 1) + 1 # 1 /\ ((i + 1) + 1) - 1 = i + 1
    OBVIOUS
  <2>2. /\ f[(i + 1) + 1] = f[i + 1] \o seqs[(i + 1) + 1]
        /\ h[(i + 1) + 1] = h[i + 1] \o seqs[(i + 1) + 1]
    BY <1>1, <2>1
  <2> QED BY <2>2
<1>4. n - 1 \in A
  <2>1. n - 1 \in Nat /\ n - 1 \in 0 .. n - 1
    OBVIOUS
  <2> HIDE DEF A
  <2>2. 0 .. n - 1 \subseteq A
    BY <1>2, <1>3, <2>1, Induction
  <2> QED BY <2>1, <2>2
<1>5. (n - 1) + 1 = n
  OBVIOUS
<1> QED BY <1>4, <1>5

\* What unfolds the sequences ends in what FlattenSeq makes of them.
LEMMA FlattenIs ==
  ASSUME NEW n \in Nat \ {0}, NEW seqs, Len(seqs) = n, NEW f, Flattens(f, n, seqs)
  PROVE  FlattenSeq(seqs) = f[n]
<1> DEFINE flatten == CHOOSE h : h = [i \in 1 .. Len(seqs) |->
                                        IF i = 1 THEN seqs[i] ELSE h[i - 1] \o seqs[i]]
<1>1. FlattenSeq(seqs) = flatten[n]
  BY DEF FlattenSeq
<1>2. \E h : h = [i \in 1 .. Len(seqs) |-> IF i = 1 THEN seqs[i] ELSE h[i - 1] \o seqs[i]]
  BY DEF Flattens
<1>3. flatten = [i \in 1 .. Len(seqs) |-> IF i = 1 THEN seqs[i] ELSE flatten[i - 1] \o seqs[i]]
  BY <1>2, Zenon
<1>4. Flattens(flatten, n, seqs)
  <2> HIDE DEF flatten
  <2> QED BY <1>3 DEF Flattens
<1>5. flatten[n] = f[n]
  <2> HIDE DEF flatten
  <2> QED BY <1>4, FlattenIsUnique
<1> QED BY <1>1, <1>5

\* p is place d of row r, in rows of w that follow one another.
AtPlace(p, w, r, d) == p = (r - 1) * w + d
InRows(p, w, n) == \E r \in 1 .. n, d \in 1 .. w : AtPlace(p, w, r, d)

LEMMA RowPlace ==
  ASSUME NEW w \in Nat \ {0}, NEW r \in Nat \ {0}, NEW d \in 1 .. w, NEW p, AtPlace(p, w, r, d)
  PROVE  (p - 1) \div w = r - 1 /\ (p - 1) % w = d - 1
<1>1. p - 1 = (r - 1) * w + (d - 1) /\ r - 1 \in Nat /\ d - 1 \in 0 .. w - 1
  BY DEF AtPlace
<1> DEFINE q == r - 1
           e == d - 1
<1> HIDE DEF q, e
<1>2. q \in Nat /\ e \in 0 .. w - 1 /\ p - 1 = q * w + e
  BY <1>1 DEF q, e
<1>3. (q * w + e) \div w = q /\ (q * w + e) % w = e
  BY <1>2, Divides
<1>4. (p - 1) \div w = q /\ (p - 1) % w = e
  BY <1>2, <1>3
<1> QED BY <1>4 DEF q, e

\* Every place up to w * n is in one of n rows.
LEMMA PlaceRow ==
  ASSUME NEW w \in Nat \ {0}, NEW n \in Nat, NEW p \in 1 .. w * n
  PROVE  InRows(p, w, n)
<1> DEFINE q == (p - 1) \div w
           d == (p - 1) % w
<1>1. p - 1 \in Nat /\ p \in Nat
  OBVIOUS
<1>2. q \in Nat /\ d \in 0 .. w - 1 /\ p - 1 = q * w + d
  BY <1>1
<1> HIDE DEF q, d
<1>3. q < n
  <2> SUFFICES ASSUME n <= q PROVE FALSE
    BY <1>2
  <2>1. PICK y \in Nat : q = n + y
    <3>1. q - n \in Nat /\ q = n + (q - n)
      BY <1>2
    <3> QED BY <3>1
  <2>2. q * w = w * n + y * w /\ y * w \in Nat /\ w * n \in Nat
    BY <2>1
  <2>3. p <= w * n
    BY <2>2
  <2> QED BY <1>1, <1>2, <2>2, <2>3
<1>4. q + 1 \in 1 .. n /\ d + 1 \in 1 .. w /\ (q + 1) - 1 = q
  BY <1>2, <1>3
<1>5. p = ((q + 1) - 1) * w + (d + 1)
  <2>1. q * w \in Int
    BY <1>2
  <2> QED BY <1>1, <1>2, <1>4, <2>1
<1> QED BY <1>4, <1>5 DEF InRows, AtPlace

\* Rows of equal width, one after the other.
RowsIn(rows, n, w) == [p \in 1 .. w * n |-> rows[((p - 1) \div w) + 1][((p - 1) % w) + 1]]

\* n rows of w elements of S, and a sequence that has them one after the other.
EqualRows(rows, n, w, S) ==
    Len(rows) = n /\ \A r \in 1 .. n : rows[r] \in Seq(S) /\ Len(rows[r]) = w
HasRows(seq, rows, n, w, S) ==
    /\ seq \in Seq(S) /\ Len(seq) = w * n
    /\ \A r \in 1 .. n, d \in 1 .. w : seq[(r - 1) * w + d] = rows[r][d]

\* Flattening rows of equal width puts place d of row r at (r - 1) * w + d.
LEMMA FlattenHasRows ==
  \A S : \A w, n \in Nat \ {0} : \A rows :
     EqualRows(rows, n, w, S) => HasRows(FlattenSeq(rows), rows, n, w, S)
<1> SUFFICES ASSUME NEW S, NEW w \in Nat \ {0}, NEW n \in Nat \ {0}, NEW rows,
                    Len(rows) = n, \A r \in 1 .. n : rows[r] \in Seq(S) /\ Len(rows[r]) = w
             PROVE  HasRows(FlattenSeq(rows), rows, n, w, S)
  BY DEF EqualRows
<1> DEFINE flat(i) == RowsIn(rows, i, w)
<1>1. ASSUME NEW i \in 1 .. n
      PROVE  /\ flat(i) \in Seq(S) /\ Len(flat(i)) = w * i
             /\ \A r \in 1 .. i, d \in 1 .. w : flat(i)[(r - 1) * w + d] = rows[r][d]
  <2>1. w * i \in Nat
    OBVIOUS
  <2>2. ASSUME NEW r \in 1 .. i, NEW d \in 1 .. w
        PROVE  /\ (r - 1) * w + d \in 1 .. w * i
               /\ flat(i)[(r - 1) * w + d] = rows[r][d]
    <3> DEFINE p == (r - 1) * w + d
    <3>1. p \in 1 .. w * i
      <4>1. PICK y \in Nat : i = r + y
        <5>1. i - r \in Nat /\ i = r + (i - r)
          OBVIOUS
        <5> QED BY <5>1
      <4>2. w * i = (r - 1) * w + w + y * w /\ y * w \in Nat /\ (r - 1) * w \in Nat
        BY <4>1
      <4> QED BY <4>2, <2>1, SMTT(30)
    <3>2. (p - 1) \div w = r - 1 /\ (p - 1) % w = d - 1
      <4>1. AtPlace(p, w, r, d) /\ r \in Nat \ {0}
        BY DEF AtPlace
      <4> HIDE DEF p
      <4> QED BY <4>1, RowPlace
    <3>3. (r - 1) + 1 = r /\ (d - 1) + 1 = d
      OBVIOUS
    <3>4. flat(i)[p] = rows[((p - 1) \div w) + 1][((p - 1) % w) + 1]
      <4> HIDE DEF p
      <4> QED BY <3>1 DEF RowsIn
    <3> QED BY <3>1, <3>2, <3>3, <3>4
  <2>3. ASSUME NEW p \in 1 .. w * i PROVE flat(i)[p] \in S
    <3>1. PICK r \in 1 .. i, d \in 1 .. w : p = (r - 1) * w + d
      <4>1. i \in Nat
        OBVIOUS
      <4>2. InRows(p, w, i)
        BY <4>1, PlaceRow
      <4> QED BY <4>2 DEF InRows, AtPlace
    <3>2. flat(i)[p] = rows[r][d]
      BY <2>2, <3>1
    <3>3. r \in 1 .. n
      OBVIOUS
    <3> QED BY <3>2, <3>3
  <2>4. flat(i) = [p \in 1 .. w * i |-> flat(i)[p]]
    BY DEF RowsIn
  <2>5. flat(i) \in [1 .. w * i -> S]
    BY <2>3, <2>4
  <2>6. flat(i) \in Seq(S) /\ Len(flat(i)) = w * i
    <3> HIDE DEF flat
    <3> QED BY <2>1, <2>5
  <2> QED BY <2>2, <2>6
<1> HIDE DEF flat
<1>2. ASSUME NEW i \in 1 .. n
      PROVE  flat(i) = IF i = 1 THEN rows[i] ELSE flat(i - 1) \o rows[i]
  <2>1. /\ flat(i) \in Seq(S) /\ Len(flat(i)) = w * i
        /\ \A r \in 1 .. i, d \in 1 .. w : flat(i)[(r - 1) * w + d] = rows[r][d]
        /\ rows[i] \in Seq(S) /\ Len(rows[i]) = w
    BY <1>1
  <2>2. CASE i = 1
    <3>1. \A d \in 1 .. w : flat(1)[d] = rows[1][d]
      <4>1. \A d \in 1 .. w : (1 - 1) * w + d = d
        OBVIOUS
      <4> QED BY <2>1, <2>2, <4>1
    <3>2. w * 1 = w
      OBVIOUS
    <3>3. flat(1) = rows[1]
      BY <2>1, <2>2, <3>1, <3>2, SeqEqual
    <3> QED BY <2>2, <3>3
  <2>3. CASE i # 1
    <3> DEFINE j == i - 1
               both == flat(j) \o rows[i]
    <3>1. j \in 1 .. n /\ j + 1 = i /\ j \in Nat
      BY <2>3
    <3>2. /\ flat(j) \in Seq(S) /\ Len(flat(j)) = w * j
          /\ \A r \in 1 .. j, d \in 1 .. w : flat(j)[(r - 1) * w + d] = rows[r][d]
      <4> HIDE DEF j
      <4> QED BY <1>1, <3>1
    <3>3. w * i = w * j + w /\ w * j \in Nat
      BY <3>1
    <3>4. /\ both \in Seq(S) /\ Len(both) = w * i
          /\ \A p \in 1 .. w * i : both[p] = IF p <= w * j THEN flat(j)[p] ELSE rows[i][p - w * j]
      <4> DEFINE s == flat(j)
                 t == rows[i]
      <4>1. s \in Seq(S) /\ t \in Seq(S) /\ Len(s) = w * j /\ Len(t) = w
        BY <2>1, <3>2
      <4> HIDE DEF s, t, j
      <4>2. /\ s \o t \in Seq(S) /\ Len(s \o t) = Len(s) + Len(t)
            /\ \A p \in 1 .. Len(s) + Len(t) : (s \o t)[p] = IF p <= Len(s) THEN s[p] ELSE t[p - Len(s)]
        BY ONLY <4>1, ConcatProperties, ZenonT(60)
      <4>3. /\ s \o t \in Seq(S) /\ Len(s \o t) = w * i
            /\ \A p \in 1 .. w * i : (s \o t)[p] = IF p <= w * j THEN s[p] ELSE t[p - w * j]
        BY <3>3, <4>1, <4>2
      <4> QED BY <4>3 DEF s, t
    <3>5. ASSUME NEW p \in 1 .. w * i PROVE flat(i)[p] = both[p]
      <4>1. PICK r \in 1 .. i, d \in 1 .. w : p = (r - 1) * w + d
        <5>1. i \in Nat
          OBVIOUS
        <5>2. InRows(p, w, i)
          BY <5>1, PlaceRow
        <5> QED BY <5>2 DEF InRows, AtPlace
      <4>2. flat(i)[p] = rows[r][d]
        BY <2>1, <4>1
      <4>3. CASE r = i
        <5>1. p = w * j + d
          BY <4>1, <4>3
        <5>2. ~(p <= w * j) /\ p - w * j = d
          BY <3>3, <5>1
        <5> QED BY <3>4, <4>2, <4>3, <5>2
      <4>4. CASE r # i
        <5>1. r \in 1 .. j
          BY <3>1, <4>4
        <5>2. p <= w * j
          <6>1. PICK y \in Nat : j = r + y
            <7>1. j - r \in Nat /\ j = r + (j - r)
              BY <3>1, <5>1
            <7> QED BY <7>1
          <6>2. w * j = (r - 1) * w + w + y * w /\ y * w \in Nat /\ (r - 1) * w \in Nat
            BY <6>1
          <6> QED BY <4>1, <6>2
        <5>3. flat(j)[p] = rows[r][d]
          BY <3>2, <4>1, <5>1
        <5> QED BY <3>4, <4>2, <5>2, <5>3
      <4> QED BY <4>3, <4>4
    <3>6. flat(i) = both
      <4> HIDE DEF both
      <4> QED BY <2>1, <3>4, <3>5, SeqEqual
    <3> QED BY <2>3, <3>6
  <2> QED BY <2>2, <2>3
<1> DEFINE f == [i \in 1 .. n |-> flat(i)]
<1>3. Flattens(f, n, rows)
  <2>1. ASSUME NEW i \in 1 .. n PROVE f[i] = IF i = 1 THEN rows[i] ELSE f[i - 1] \o rows[i]
    <3>1. CASE i = 1
      BY <1>2, <3>1
    <3>2. CASE i # 1
      <4>1. i - 1 \in 1 .. n
        BY <3>2
      <4> QED BY <1>2, <3>2, <4>1
    <3> QED BY <3>1, <3>2
  <2>2. f = [i \in 1 .. n |-> f[i]]
    OBVIOUS
  <2> HIDE DEF f
  <2> QED BY <2>1, <2>2 DEF Flattens
<1>4. FlattenSeq(rows) = flat(n)
  <2>1. FlattenSeq(rows) = f[n]
    <3> HIDE DEF f
    <3> QED BY <1>3, FlattenIs
  <2> QED BY <2>1
<1>5. HasRows(flat(n), rows, n, w, S)
  BY <1>1 DEF HasRows
<1> QED BY <1>4, <1>5

\* The same, written out.
LEMMA FlattenRows ==
  ASSUME NEW S, NEW w \in Nat \ {0}, NEW n \in Nat \ {0}, NEW rows,
         Len(rows) = n, \A r \in 1 .. n : rows[r] \in Seq(S) /\ Len(rows[r]) = w
  PROVE  /\ FlattenSeq(rows) \in Seq(S) /\ Len(FlattenSeq(rows)) = w * n
         /\ \A r \in 1 .. n, d \in 1 .. w : FlattenSeq(rows)[(r - 1) * w + d] = rows[r][d]
<1>1. EqualRows(rows, n, w, S)
  BY DEF EqualRows
<1>2. HasRows(FlattenSeq(rows), rows, n, w, S)
  BY <1>1, FlattenHasRows
<1> QED BY <1>2 DEF HasRows

-----------------------------------------------------------------------------
(* Running totals.                                                         *)

\* What RunningTotal is.
LEMMA RunningTotalIs ==
  ASSUME NEW n \in Nat, NEW from \in Int, NEW amounts \in [1 .. n -> Int]
  PROVE  SumFacts(RunningTotal(from, amounts), n, from, amounts)
<1> DEFINE h == RunningTotal(from, amounts)
<1>1. Len(amounts) = n
  OBVIOUS
<1>2. \E f : f = [i \in 0 .. n |-> IF i = 0 THEN from ELSE f[i - 1] + amounts[i]]
  <2>1. \E f : RunningSum(f, n, from, amounts)
    BY SumExists
  <2> QED BY <2>1 DEF RunningSum
<1>3. h = [i \in 0 .. n |-> IF i = 0 THEN from ELSE h[i - 1] + amounts[i]]
  BY <1>1, <1>2, Zenon DEF RunningTotal
<1>4. RunningSum(h, n, from, amounts)
  <2> HIDE DEF h
  <2> QED BY <1>3 DEF RunningSum
<1>5. SumFacts(h, n, from, amounts)
  <2> HIDE DEF h
  <2> QED BY <1>4, SumValues
<1> QED BY <1>5

\* Totals of natural numbers do not decrease.
LEMMA RunningTotalGrows ==
  ASSUME NEW n \in Nat, NEW from \in Int, NEW amounts \in [1 .. n -> Nat],
         NEW i \in 0 .. n, NEW j \in i .. n
  PROVE  RunningTotal(from, amounts)[i] <= RunningTotal(from, amounts)[j]
<1> DEFINE h == RunningTotal(from, amounts)
           A == {d \in 0 .. n - i : h[i] <= h[i + d]}
<1>1. /\ h \in [0 .. n -> Int]
      /\ \A e \in 1 .. n : h[e] = h[e - 1] + amounts[e]
  <2>1. amounts \in [1 .. n -> Int]
    OBVIOUS
  <2>2. SumFacts(h, n, from, amounts)
    BY <2>1, RunningTotalIs
  <2> QED BY <2>2 DEF SumFacts
<1> HIDE DEF h
<1>2. 0 \in A
  BY <1>1
<1>3. \A d \in 0 .. (n - i) - 1 : d \in A => d + 1 \in A
  <2> SUFFICES ASSUME NEW d \in 0 .. (n - i) - 1, h[i] <= h[i + d]
               PROVE  h[i] <= h[i + (d + 1)]
    OBVIOUS
  <2>1. i + (d + 1) \in 1 .. n /\ (i + (d + 1)) - 1 = i + d /\ i + d \in 0 .. n
    OBVIOUS
  <2>2. h[i + (d + 1)] = h[i + d] + amounts[i + (d + 1)]
    BY <1>1, <2>1
  <2>3. amounts[i + (d + 1)] \in Nat /\ h[i + d] \in Int /\ h[i] \in Int
    BY <1>1, <2>1
  <2> QED BY <2>2, <2>3
<1>4. 0 .. n - i \subseteq A
  <2>1. n - i \in Nat
    OBVIOUS
  <2> HIDE DEF A
  <2> QED BY <1>2, <1>3, <2>1, Induction
<1>5. j - i \in A
  <2>1. j - i \in 0 .. n - i
    OBVIOUS
  <2> HIDE DEF A
  <2> QED BY <1>4, <2>1
<1>6. h[i] <= h[i + (j - i)]
  BY <1>5
<1>7. i + (j - i) = j
  OBVIOUS
<1> QED BY <1>6, <1>7 DEF h

-----------------------------------------------------------------------------
(* How a settled amount is split.                                          *)

\* The shape of a commitment.
IsRoute(k) ==
    /\ k.base \in Nat /\ k.target \in Nat
    /\ Len(k.allocations) \in Nat
    /\ DOMAIN k.allocations = 1 .. Len(k.allocations)
    /\ \A a \in 1 .. Len(k.allocations) : k.allocations[a].amount \in Nat

\* The pieces follow each other from the base on.
PiecesFollow(k) ==
    /\ PieceEnd(k) \in [0 .. Len(k.allocations) -> Int]
    /\ PieceEnd(k)[0] = k.base
    /\ \A a \in 1 .. Len(k.allocations) :
          PieceEnd(k)[a] = PieceEnd(k)[a - 1] + k.allocations[a].amount
    /\ \A a \in 0 .. Len(k.allocations) : \A b \in a .. Len(k.allocations) :
          PieceEnd(k)[a] <= PieceEnd(k)[b]

LEMMA PieceFacts ==
  ASSUME NEW k, IsRoute(k)
  PROVE  PiecesFollow(k)
<1> DEFINE n == Len(k.allocations)
           end == RunningTotal(k.base, Amounts(k))
<1>1. n \in Nat /\ k.base \in Int /\ Amounts(k) \in [1 .. n -> Nat] /\ Amounts(k) \in [1 .. n -> Int]
  BY DEF IsRoute, Amounts
<1> HIDE DEF n
<1>0. SumFacts(end, n, k.base, Amounts(k))
  BY <1>1, RunningTotalIs
<1>2. end \in [0 .. n -> Int] /\ end[0] = k.base
  BY <1>0 DEF SumFacts
<1>3. ASSUME NEW a \in 1 .. n
      PROVE  end[a] = end[a - 1] + k.allocations[a].amount
  <2>1. end[a] = end[a - 1] + Amounts(k)[a]
    BY <1>0 DEF SumFacts
  <2> QED BY <2>1 DEF Amounts, n
<1>4. ASSUME NEW a \in 0 .. n, NEW b \in a .. n
      PROVE  end[a] <= end[b]
  BY <1>1, RunningTotalGrows
<1> HIDE DEF end
<1>5. /\ end \in [0 .. n -> Int] /\ end[0] = k.base
      /\ \A a \in 1 .. n : end[a] = end[a - 1] + k.allocations[a].amount
      /\ \A a \in 0 .. n : \A b \in a .. n : end[a] <= end[b]
  BY <1>2, <1>3, <1>4
<1> QED BY <1>5 DEF PiecesFollow, PieceEnd, n, end

\* An overlap is no longer than either range; with adjacent ranges it adds up.
LEMMA OverlapIsShort ==
  \A old, new, s, e \in Int : old <= new /\ s <= e =>
     /\ Overlap(old, new, s, e) \in Nat
     /\ Overlap(old, new, s, e) <= new - old /\ Overlap(old, new, s, e) <= e - s
BY DEF Overlap

LEMMA OverlapAdds ==
  \A old, new, s, m, e \in Int : old <= new /\ s <= m /\ m <= e =>
     Overlap(old, new, s, m) + Overlap(old, new, m, e) = Overlap(old, new, s, e)
BY DEF Overlap

\* Everything the providers are paid is the overlap with all the pieces together.
LEMMA ProvidersTogether ==
  ASSUME NEW k, IsRoute(k), NEW old \in Nat, NEW new \in Nat, old <= new
  PROVE  /\ ProviderPaid(k, old, new)
              = Overlap(old, new, k.base, PieceEnd(k)[Len(k.allocations)])
         /\ Pieces(k, old, new) \in [1 .. Len(k.allocations) -> Nat]
<1> DEFINE n == Len(k.allocations)
           end == PieceEnd(k)
           pieces == Pieces(k, old, new)
           sum == RunningTotal(0, pieces)
           A == {a \in 0 .. n : sum[a] = Overlap(old, new, k.base, end[a])}
<1>1. /\ n \in Nat /\ k.base \in Int /\ old \in Int /\ new \in Int
      /\ end \in [0 .. n -> Int] /\ end[0] = k.base
      /\ \A a \in 0 .. n : \A b \in a .. n : end[a] <= end[b]
  BY PieceFacts DEF PiecesFollow, IsRoute
<1>2. \A a \in 1 .. n : pieces[a] = Overlap(old, new, end[a - 1], end[a])
  BY DEF Pieces
<1>3. DOMAIN pieces = 1 .. n /\ pieces = [a \in 1 .. n |-> pieces[a]]
  BY DEF Pieces
<1> HIDE DEF n, end, pieces
<1>4. ASSUME NEW a \in 1 .. n
      PROVE  /\ a - 1 \in 0 .. n /\ a \in 0 .. n
             /\ end[0] <= end[a - 1] /\ end[a - 1] <= end[a]
             /\ end[a - 1] \in Int /\ end[a] \in Int
  <2>1. a - 1 \in 0 .. n /\ a \in 0 .. n /\ 0 \in 0 .. n /\ a - 1 \in 0 .. n /\ a \in (a - 1) .. n
    BY <1>1
  <2> QED BY <1>1, <2>1
<1>5. ASSUME NEW a \in 1 .. n PROVE pieces[a] \in Nat
  <2>1. old \in Int /\ new \in Int /\ end[a - 1] \in Int /\ end[a] \in Int /\ end[a - 1] <= end[a]
    BY <1>1, <1>4
  <2>2. Overlap(old, new, end[a - 1], end[a]) \in Nat
    BY <2>1, OverlapIsShort
  <2> QED BY <1>2, <2>2
<1>6. pieces \in [1 .. n -> Nat] /\ pieces \in [1 .. n -> Int]
  BY <1>3, <1>5
<1>7. sum[0] = 0 /\ \A a \in 1 .. n : sum[a] = sum[a - 1] + pieces[a]
  <2>1. SumFacts(sum, n, 0, pieces)
    BY <1>1, <1>6, RunningTotalIs
  <2> QED BY <2>1 DEF SumFacts
<1> HIDE DEF sum
<1>8. 0 \in A
  BY <1>1, <1>7 DEF Overlap
<1>9. \A a \in 0 .. n - 1 : a \in A => a + 1 \in A
  <2> SUFFICES ASSUME NEW a \in 0 .. n - 1, sum[a] = Overlap(old, new, k.base, end[a])
               PROVE  sum[a + 1] = Overlap(old, new, k.base, end[a + 1])
    BY <1>1
  <2>1. a + 1 \in 1 .. n /\ (a + 1) - 1 = a
    BY <1>1
  <2>2. sum[a + 1] = sum[a] + Overlap(old, new, end[a], end[a + 1])
    BY <1>2, <1>7, <2>1
  <2>3. /\ end[a] \in Int /\ end[a + 1] \in Int
        /\ k.base <= end[a] /\ end[a] <= end[a + 1]
    BY <1>1, <1>4, <2>1
  <2> QED BY <1>1, <2>2, <2>3, OverlapAdds
<1>10. 0 .. n \subseteq A
  <2> HIDE DEF A
  <2> QED BY <1>1, <1>8, <1>9, Induction
<1>11. n \in A
  <2> HIDE DEF A
  <2>1. n \in 0 .. n
    BY <1>1
  <2> QED BY <1>10, <2>1
<1>12. ProviderPaid(k, old, new) = sum[n]
  BY DEF ProviderPaid, sum, pieces, n
<1> QED BY <1>6, <1>11, <1>12 DEF n, end, pieces

\* A validated commitment whose base is reached is never refused, and the gateway's
\* fee is what lies beyond the last piece.
LEMMA ValidatedIsAccepted ==
  ASSUME NEW k, IsRoute(k), Validate(k), NEW old \in Nat, NEW new \in Nat,
         old <= new, k.base <= old
  PROVE  /\ PayoutAccepted(k, old, new)
         /\ GatewayFee(k, old, new) \in Nat
         /\ GatewayFee(k, old, new) <= new - old
<1> DEFINE n == Len(k.allocations)
           end == PieceEnd(k)
<1>1. /\ n \in Nat /\ k.base \in Int /\ old \in Int /\ new \in Int
      /\ end \in [0 .. n -> Int] /\ end[0] = k.base
      /\ \A a \in 0 .. n : \A b \in a .. n : end[a] <= end[b]
  BY PieceFacts DEF PiecesFollow, IsRoute
<1>2. end[n] - k.base <= k.target - k.base /\ k.target \in Nat
  BY DEF Validate, Increase, IsRoute
<1>3. ProviderPaid(k, old, new) = Overlap(old, new, k.base, end[n])
  BY ProvidersTogether
<1> HIDE DEF n, end
<1>4. end[n] \in Int /\ k.base <= end[n]
  <2>1. 0 \in 0 .. n /\ n \in 0 .. n
    BY <1>1
  <2> QED BY <1>1, <2>1
<1>5. \A a \in 1 .. n : end[a] <= k.target
  <2> SUFFICES ASSUME NEW a \in 1 .. n PROVE end[a] <= k.target
    OBVIOUS
  <2>1. a \in 0 .. n /\ n \in a .. n
    BY <1>1
  <2>2. end[a] <= end[n] /\ end[a] \in Int
    BY <1>1, <2>1
  <2> QED BY <1>1, <1>2, <1>4, <2>2
<1>6. Overlap(old, new, k.base, end[n]) \in Nat /\ Overlap(old, new, k.base, end[n]) <= new - old
  <2>1. k.base <= k.base
    BY <1>1
  <2> QED BY <1>1, <1>4, OverlapIsShort
<1>7. GatewayFee(k, old, new) = new - old - Overlap(old, new, k.base, end[n])
  BY <1>3 DEF GatewayFee
<1>8. GatewayFee(k, old, new) \in Nat /\ GatewayFee(k, old, new) <= new - old
  BY <1>1, <1>6, <1>7
<1> QED BY <1>5, <1>8 DEF PayoutAccepted, n, end

\* Piece a holds unit u of the channel.
Holds(k, a, u) == PieceEnd(k)[a - 1] < u /\ u <= PieceEnd(k)[a]

\* A unit of the range is in some piece, or beyond the last one.
LEMMA UnitHasPiece ==
  ASSUME NEW k, IsRoute(k), NEW u \in Int, k.base < u,
         u <= PieceEnd(k)[Len(k.allocations)]
  PROVE  \E a \in 1 .. Len(k.allocations) : Holds(k, a, u)
<1> DEFINE n == Len(k.allocations)
           end == PieceEnd(k)
<1>1. n \in Nat /\ end \in [0 .. n -> Int] /\ end[0] = k.base
  BY PieceFacts DEF PiecesFollow, IsRoute
<1> SUFFICES ASSUME \A a \in 1 .. n : ~(end[a - 1] < u /\ u <= end[a])
             PROVE  FALSE
  BY DEF Holds
<1> DEFINE A == {a \in 0 .. n : end[a] < u}
<1> HIDE DEF n, end
<1>2. 0 \in A
  BY <1>1
<1>3. \A a \in 0 .. n - 1 : a \in A => a + 1 \in A
  <2> SUFFICES ASSUME NEW a \in 0 .. n - 1, end[a] < u
               PROVE  end[a + 1] < u
    BY <1>1
  <2>1. a + 1 \in 1 .. n /\ (a + 1) - 1 = a /\ a + 1 \in 0 .. n
    BY <1>1
  <2>2. ~(u <= end[a + 1]) /\ end[a + 1] \in Int
    BY <1>1, <2>1
  <2> QED BY <2>2
<1>4. 0 .. n \subseteq A
  <2> HIDE DEF A
  <2> QED BY <1>1, <1>2, <1>3, Induction
<1>5. end[n] < u /\ end[n] \in Int
  BY <1>1, <1>4
<1>6. u <= end[n]
  BY DEF end, n
<1> QED BY <1>5, <1>6

\* A unit is in one piece only.
LEMMA PieceIsUnique ==
  ASSUME NEW k, IsRoute(k), NEW u \in Int,
         NEW a \in 1 .. Len(k.allocations), NEW b \in 1 .. Len(k.allocations),
         Holds(k, a, u), Holds(k, b, u)
  PROVE  a = b
<1> DEFINE n == Len(k.allocations)
           end == PieceEnd(k)
<1>1. /\ n \in Nat /\ end \in [0 .. n -> Int]
      /\ \A i \in 0 .. n : \A j \in i .. n : end[i] <= end[j]
      /\ a \in 1 .. n /\ b \in 1 .. n
      /\ end[a - 1] < u /\ u <= end[a] /\ end[b - 1] < u /\ u <= end[b]
  BY PieceFacts DEF PiecesFollow, IsRoute, Holds
<1> HIDE DEF n, end
<1>2. \A i, j \in 1 .. n : i < j => end[i] <= end[j - 1] /\ end[i] \in Int /\ end[j - 1] \in Int
  <2> SUFFICES ASSUME NEW i \in 1 .. n, NEW j \in 1 .. n, i < j
               PROVE  end[i] <= end[j - 1] /\ end[i] \in Int /\ end[j - 1] \in Int
    OBVIOUS
  <2>1. i \in 0 .. n /\ j - 1 \in i .. n /\ j - 1 \in 0 .. n
    BY <1>1
  <2> QED BY <1>1, <2>1
<1>3. ~(a < b)
  BY <1>1, <1>2
<1>4. ~(b < a)
  BY <1>1, <1>2
<1> QED BY <1>1, <1>3, <1>4

\* The units of old + 1 .. new that lie in start + 1 .. end are as many as the overlap.
LEMMA OverlapCounts ==
  ASSUME NEW old \in Nat, NEW new \in Nat, old <= new, NEW s \in Int, NEW e \in Int, s <= e
  PROVE  Cardinality({u \in old + 1 .. new : s < u /\ u <= e}) = Overlap(old, new, s, e)
<1> DEFINE from == IF old >= s THEN old ELSE s
           to == IF new <= e THEN new ELSE e
<1>1. {u \in old + 1 .. new : s < u /\ u <= e} = from + 1 .. to
  OBVIOUS
<1>2. from + 1 \in Int /\ to \in Int
  OBVIOUS
<1>3. Cardinality(from + 1 .. to) = IF from + 1 > to THEN 0 ELSE to - (from + 1) + 1
  <2> HIDE DEF from, to
  <2> QED BY <1>2, FS_Interval
<1> QED BY <1>1, <1>3, SMTT(30) DEF Overlap

\* A provider is paid as many units as its piece holds.
LEMMA HeldCounts ==
  ASSUME NEW x, IsRoute(x), Validate(x), NEW old \in Nat, NEW new \in Nat,
         old <= new, NEW id
  PROVE  Cardinality({u \in old + 1 .. new :
            \E a \in 1 .. Len(x.allocations) : Holds(x, a, u) /\ x.allocations[a].id = id})
           = PaidTo(x, old, new, id)
<1> DEFINE n == Len(x.allocations)
           end == PieceEnd(x)
           units == {u \in old + 1 .. new :
                       \E a \in 1 .. n : Holds(x, a, u) /\ x.allocations[a].id = id}
           named == {a \in 1 .. n : x.allocations[a].id = id}
<1> SUFFICES Cardinality(units) = PaidTo(x, old, new, id)
  OBVIOUS
<1>1. units
        = {u \in old + 1 .. new : \E a \in named : end[a - 1] < u /\ u <= end[a]}
  BY DEF Holds
<1> HIDE DEF units
<1>2. CASE named = {}
  <2>1. units = {}
    BY <1>1, <1>2
  <2>2. PaidTo(x, old, new, id) = 0
    BY <1>2 DEF PaidTo
  <2> QED BY <2>1, <2>2, FS_EmptySet
<1>3. CASE named # {}
  <2> DEFINE a == CHOOSE b \in named : TRUE
  <2>1. a \in named
    BY <1>3
  <2>2. named = {a}
    <3>1. ASSUME NEW b \in named
          PROVE  b = a
      <4>1. /\ a \in 1 .. n /\ b \in 1 .. n /\ n \in Nat
            /\ x.allocations[a].id = x.allocations[b].id
        BY <2>1 DEF IsRoute
      <4>2. \A i, j \in 1 .. n : i < j => x.allocations[i].id # x.allocations[j].id
        BY DEF Validate
      <4> HIDE DEF n, a
      <4>3. ~(a < b) /\ ~(b < a)
        BY <4>1, <4>2
      <4> QED BY <4>1, <4>3
    <3> HIDE DEF named, a
    <3> QED BY <2>1, <3>1
  <2>3. end[a - 1] \in Int /\ end[a] \in Int /\ end[a - 1] <= end[a]
    <3>1. /\ end \in [0 .. n -> Int] /\ n \in Nat /\ a \in 1 .. n
          /\ \A i \in 0 .. n : \A j \in i .. n : end[i] <= end[j]
      BY <2>1, PieceFacts DEF PiecesFollow, IsRoute
    <3>2. a - 1 \in 0 .. n /\ a \in 0 .. n /\ a \in (a - 1) .. n
      BY <3>1
    <3> HIDE DEF n, end, a
    <3> QED BY <3>1, <3>2
  <2>4. PaidTo(x, old, new, id) = Overlap(old, new, end[a - 1], end[a])
    BY <1>3, <2>1 DEF PaidTo, Pieces
  <2>5. units = {u \in old + 1 .. new : end[a - 1] < u /\ u <= end[a]}
    <3> HIDE DEF named, a, end
    <3> QED BY <1>1, <2>2
  <2> HIDE DEF end, a
  <2> QED BY <2>3, <2>4, <2>5, OverlapCounts
<1> QED BY <1>2, <1>3

\* What no piece holds is as much as the fee.
LEMMA LeftCounts ==
  ASSUME NEW x, IsRoute(x), Validate(x), NEW old \in Nat, NEW new \in Nat,
         old <= new, x.base <= old
  PROVE  Cardinality({u \in old + 1 .. new :
            ~ \E a \in 1 .. Len(x.allocations) : Holds(x, a, u)})
           = GatewayFee(x, old, new)
<1> DEFINE n == Len(x.allocations)
           end == PieceEnd(x)
           left == {u \in old + 1 .. new : ~ \E a \in 1 .. n : Holds(x, a, u)}
<1>2. /\ end \in [0 .. n -> Int] /\ n \in Nat /\ end[0] = x.base /\ x.base \in Int
      /\ \A i \in 0 .. n : \A j \in i .. n : end[i] <= end[j]
  <2>1. PiecesFollow(x)
    BY PieceFacts
  <2> QED BY <2>1 DEF PiecesFollow, IsRoute
<1>3. end[n] \in Int /\ x.base <= end[n]
  <2>1. 0 \in 0 .. n /\ n \in 0 .. n
    BY <1>2
  <2> HIDE DEF n, end
  <2> QED BY <1>2, <2>1
<1>4. ASSUME NEW u \in old + 1 .. new
      PROVE  (~ \E a \in 1 .. n : Holds(x, a, u)) <=> ~(u <= end[n])
  <2>2. u \in Int /\ x.base < u
    <3> HIDE DEF n, end
    <3> QED BY <1>2
  <2>3. u <= end[n] => \E a \in 1 .. n : Holds(x, a, u)
    BY <2>2, UnitHasPiece
  <2>4. ASSUME NEW a \in 1 .. n, Holds(x, a, u)
        PROVE  u <= end[n]
    <3>1. a \in 0 .. n /\ n \in a .. n
      BY <1>2
    <3>2. u <= end[a]
      BY <2>4 DEF Holds
    <3>3. end[a] \in Int /\ end[a] <= end[n]
      <4> HIDE DEF n, end
      <4> QED BY <1>2, <3>1
    <3> HIDE DEF n, end
    <3> QED BY <1>3, <2>2, <3>2, <3>3
  <2> QED BY <2>3, <2>4
<1>5. left = {u \in old + 1 .. new : ~(u <= end[n])}
  BY <1>4
<1> DEFINE from == IF old >= end[n] THEN old ELSE end[n]
<1> HIDE DEF n, end
<1>6. left = from + 1 .. new
  BY <1>3, <1>5
<1>7. from + 1 \in Int
  BY <1>3
<1>8. Cardinality(left) = IF from + 1 > new THEN 0 ELSE new - (from + 1) + 1
  <2> HIDE DEF from, left
  <2> QED BY <1>6, <1>7, FS_Interval
<1>9. GatewayFee(x, old, new) = new - old - Overlap(old, new, x.base, end[n])
  BY ProvidersTogether DEF GatewayFee, n, end
<1>10. new - old - Overlap(old, new, x.base, end[n]) = IF from + 1 > new THEN 0 ELSE new - (from + 1) + 1
  BY <1>2, <1>3, SMTT(30) DEF Overlap
<1> QED BY <1>8, <1>9, <1>10 DEF left, n
=============================================================================
