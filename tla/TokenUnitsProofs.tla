------------------------- MODULE TokenUnitsProofs -------------------------
(* What the sums of module TokenUnits are, for every finite set of keys *)
EXTENDS TokenUnits, Integers, FiniteSetTheorems, WellFoundedInduction, TLAPS

(* The units of one key are its amount many. *)
LEMMA UnitsOfOne ==
  ASSUME NEW f, NEW x, f[x] \in Nat
  PROVE  /\ Units(f, {x}) = {x} \X (1..f[x])
         /\ IsFiniteSet(Units(f, {x}))
         /\ Cardinality(Units(f, {x})) = f[x]
<1>1. Units(f, {x}) = {x} \X (1..f[x])
  BY DEF Units
<1>2. IsFiniteSet({x}) /\ Cardinality({x}) = 1
  BY FS_Singleton
<1>3. IsFiniteSet(1..f[x]) /\ Cardinality(1..f[x]) = f[x]
  BY FS_Interval
<1>4. /\ IsFiniteSet({x} \X (1..f[x]))
      /\ Cardinality({x} \X (1..f[x])) = 1 * f[x]
  <2> DEFINE one == {x}
             amount == 1..f[x]
  <2>1. IsFiniteSet(one) /\ IsFiniteSet(amount) /\ Cardinality(one) = 1 /\ Cardinality(amount) = f[x]
    BY <1>2, <1>3
  <2> HIDE DEF one, amount
  <2>2. IsFiniteSet(one \X amount) /\ Cardinality(one \X amount) = Cardinality(one) * Cardinality(amount)
    BY ONLY <2>1, FS_Product
  <2> QED BY <2>1, <2>2 DEF one, amount
<1>5. 1 * f[x] = f[x]
  OBVIOUS
<1> QED
  BY <1>1, <1>4, <1>5, Zenon

(* Finitely many keys have finitely many units, so a sum is a number. *)
LEMMA UnitsFinite ==
  ASSUME NEW D, NEW f \in [D -> Nat], NEW S \in SUBSET D, IsFiniteSet(S)
  PROVE  IsFiniteSet(Units(f, S)) /\ Total(f, S) \in Nat
<1> DEFINE T == {{x} \X (1..f[x]) : x \in S}
           g == [x \in S |-> {x} \X (1..f[x])]
<1>1. g \in Surjection(S, T)
  BY DEF Surjection
<1>2. IsFiniteSet(T)
  <2> HIDE DEF g, T
  <2> QED BY <1>1, FS_Surjection
<1>3. \A U \in T : IsFiniteSet(U)
  <2> SUFFICES ASSUME NEW x \in S
               PROVE  IsFiniteSet({x} \X (1..f[x]))
    OBVIOUS
  <2> QED BY UnitsOfOne
<1>4. IsFiniteSet(UNION T)
  <2> HIDE DEF T
  <2> QED BY <1>2, <1>3, FS_UNION
<1>5. IsFiniteSet(Units(f, S))
  BY <1>4 DEF Units
<1> QED
  BY <1>5, FS_CardinalityType DEF Total

LEMMA TotalOfOne ==
  ASSUME NEW f, NEW x, f[x] \in Nat
  PROVE  Total(f, {x}) = f[x]
BY UnitsOfOne DEF Total

(* The sum depends on the amounts only. *)
LEMMA TotalSame ==
  ASSUME NEW f, NEW g, NEW S, \A x \in S : f[x] = g[x]
  PROVE  Total(f, S) = Total(g, S)
<1>1. Units(f, S) = Units(g, S)
  BY DEF Units
<1> QED
  BY <1>1 DEF Total

LEMMA TotalZero ==
  ASSUME NEW f, NEW S, \A x \in S : f[x] = 0
  PROVE  Total(f, S) = 0
<1>1. \A x \in S : 1..f[x] = {}
  OBVIOUS
<1>2. Units(f, S) = {}
  BY <1>1 DEF Units
<1> QED
  BY <1>2, FS_EmptySet DEF Total

(* The sum over a set is the sum over a part of it and over the rest. *)
LEMMA TotalSplit ==
  ASSUME NEW D, NEW f \in [D -> Nat], NEW S \in SUBSET D, IsFiniteSet(S),
         NEW R \in SUBSET S
  PROVE  /\ Total(f, S) = Total(f, R) + Total(f, S \ R)
         /\ Total(f, R) \in Nat
         /\ Total(f, S \ R) \in Nat
         /\ Total(f, R) <= Total(f, S)
<1>1. IsFiniteSet(R) /\ IsFiniteSet(S \ R)
  BY FS_Subset
<1>2. /\ IsFiniteSet(Units(f, R)) /\ Total(f, R) \in Nat
      /\ IsFiniteSet(Units(f, S \ R)) /\ Total(f, S \ R) \in Nat
  BY <1>1, UnitsFinite
<1>3. Units(f, S) = Units(f, R) \cup Units(f, S \ R)
  BY DEF Units
<1>4. Units(f, R) \cap Units(f, S \ R) = {}
  BY DEF Units
<1>5. Cardinality(Units(f, S)) = Cardinality(Units(f, R)) + Cardinality(Units(f, S \ R))
                                   - Cardinality({})
  <2> DEFINE part == Units(f, R)
             rest == Units(f, S \ R)
  <2>1. IsFiniteSet(part) /\ IsFiniteSet(rest)
    BY <1>2
  <2> HIDE DEF part, rest
  <2>2. Cardinality(part \cup rest) = Cardinality(part) + Cardinality(rest) - Cardinality(part \cap rest)
    BY ONLY <2>1, FS_Union
  <2> QED BY <1>3, <1>4, <2>2 DEF part, rest
<1> QED
  BY <1>2, <1>5, FS_EmptySet DEF Total

LEMMA TotalSplitAll ==
  ASSUME NEW S, IsFiniteSet(S), NEW R \in SUBSET S
  PROVE  \A f \in [S -> Nat] : /\ Total(f, S) = Total(f, R) + Total(f, S \ R)
                               /\ Total(f, R) \in Nat
                               /\ Total(f, S \ R) \in Nat
                               /\ Total(f, R) <= Total(f, S)
<1>1. S \in SUBSET S
  OBVIOUS
<1> QED
  BY <1>1, TotalSplit

LEMMA TotalType ==
  ASSUME NEW S, IsFiniteSet(S), NEW f \in [S -> Nat]
  PROVE  Total(f, S) \in Nat
<1>1. S \in SUBSET S
  OBVIOUS
<1> QED
  BY <1>1, UnitsFinite

LEMMA TotalOfPart ==
  ASSUME NEW S, IsFiniteSet(S), NEW f \in [S -> Nat], NEW R \in SUBSET S
  PROVE  Total(f, R) \in Nat /\ Total(f, R) <= Total(f, S) /\ Total(f, S) \in Nat
BY TotalSplitAll, TotalType

(* A larger part sums to no less. *)
LEMMA TotalGrows ==
  ASSUME NEW S, IsFiniteSet(S), NEW f \in [S -> Nat], NEW R \in SUBSET S, NEW Q \in SUBSET R
  PROVE  Total(f, Q) <= Total(f, R)
<1>1. IsFiniteSet(R)
  BY FS_Subset
<1> QED
  BY <1>1, TotalSplit

(* Two functions that agree outside R differ in their sums by what they   *)
(* differ in on R.                                                        *)
LEMMA TotalChange ==
  ASSUME NEW S, IsFiniteSet(S), NEW f \in [S -> Nat], NEW g \in [S -> Nat],
         NEW R \in SUBSET S,
         \A x \in S \ R : f[x] = g[x]
  PROVE  /\ Total(g, S) = Total(f, S) - Total(f, R) + Total(g, R)
         /\ Total(f, R) <= Total(f, S)
         /\ Total(f, S) \in Nat /\ Total(g, S) \in Nat
         /\ Total(f, R) \in Nat /\ Total(g, R) \in Nat
<1>1. Total(f, S \ R) = Total(g, S \ R)
  BY TotalSame
<1>2. \A h \in [S -> Nat] : /\ Total(h, S) = Total(h, R) + Total(h, S \ R)
                            /\ Total(h, R) \in Nat
                            /\ Total(h, S \ R) \in Nat
                            /\ Total(h, R) <= Total(h, S)
  BY TotalSplitAll, Zenon
<1> QED
  BY <1>1, <1>2

(* Adding n at one key adds n to the sum. *)
LEMMA TotalAddAtOne ==
  ASSUME NEW S, IsFiniteSet(S), NEW f \in [S -> Nat], NEW g \in [S -> Nat],
         NEW k \in S, NEW n \in Int,
         \A x \in S \ {k} : f[x] = g[x],
         g[k] = f[k] + n
  PROVE  /\ Total(g, S) = Total(f, S) + n
         /\ f[k] <= Total(f, S)
         /\ Total(f, S) \in Nat /\ Total(g, S) \in Nat
<1>1. Total(f, {k}) = f[k] /\ Total(g, {k}) = g[k]
  BY TotalOfOne
<1>2. /\ Total(g, S) = Total(f, S) - Total(f, {k}) + Total(g, {k})
      /\ Total(f, {k}) <= Total(f, S)
      /\ Total(f, S) \in Nat /\ Total(g, S) \in Nat
  <2>1. {k} \subseteq S
    OBVIOUS
  <2> QED BY <2>1, TotalChange
<1> QED
  BY <1>1, <1>2

(* Emptying the keys in R takes what they held out of the sum. *)
LEMMA TotalEmptied ==
  ASSUME NEW S, IsFiniteSet(S), NEW f \in [S -> Nat], NEW g \in [S -> Nat],
         NEW R \in SUBSET S,
         \A x \in S \ R : g[x] = f[x],
         \A x \in R : g[x] = 0
  PROVE  /\ Total(g, S) = Total(f, S) - Total(f, R)
         /\ Total(f, R) <= Total(f, S)
         /\ Total(f, S) \in Nat /\ Total(g, S) \in Nat /\ Total(f, R) \in Nat
<1>1. Total(g, R) = 0
  BY TotalZero
<1>2. \A x \in S \ R : f[x] = g[x]
  OBVIOUS
<1> QED
  BY <1>1, <1>2, TotalChange

(* The sum is the same when the keys are renamed. *)
LEMMA TotalRenamed ==
  ASSUME NEW S, IsFiniteSet(S), NEW f \in [S -> Nat],
         NEW g, NEW T, NEW b \in Bijection(S, T),
         \A x \in S : g[b[x]] = f[x]
  PROVE  Total(g, T) = Total(f, S)
<1> DEFINE U == Units(f, S)
           V == Units(g, T)
           h == [u \in U |-> <<b[u[1]], u[2]>>]
<1>1. b \in [S -> T] /\ \A y \in T : \E x \in S : b[x] = y
  BY DEF Bijection, Injection, Surjection
<1>2. \A x, y \in S : b[x] = b[y] => x = y
  BY DEF Bijection, Injection, IsInjective
<1>3. \A u : u \in U <=> \E x \in S, i \in Nat : i \in 1..f[x] /\ u = <<x, i>>
  BY DEF Units
<1>4. \A v : v \in V <=> \E y \in T, i \in Nat : i \in 1..g[y] /\ v = <<y, i>>
  BY DEF Units
<1>5. h \in [U -> V]
  BY <1>1, <1>3, <1>4
<1>6. \A u, w \in U : h[u] = h[w] => u = w
  BY <1>2, <1>3
<1>7. ASSUME NEW v \in V PROVE \E u \in U : h[u] = v
  <2>1. PICK y \in T, i \in Nat : i \in 1..g[y] /\ v = <<y, i>>
    BY <1>4
  <2>2. PICK x \in S : b[x] = y
    BY <1>1
  <2>3. <<x, i>> \in U
    BY <1>3, <2>1, <2>2
  <2>4. h[<<x, i>>] = v
    BY <2>1, <2>2, <2>3
  <2> QED BY <2>3, <2>4
<1>8. h \in Bijection(U, V)
  BY <1>5, <1>6, <1>7 DEF Bijection, Injection, Surjection, IsInjective
<1>9. IsFiniteSet(U)
  BY UnitsFinite
<1>10. ExistsBijection(U, V)
  BY <1>8 DEF ExistsBijection
<1> QED
  <2> HIDE DEF U, V
  <2> QED BY <1>9, <1>10, FS_Bijection DEF Total, U, V

(* The sum of two amounts at every key is the sum of the two sums. *)
LEMMA TotalSum ==
  ASSUME NEW S, IsFiniteSet(S),
         NEW f \in [S -> Nat], NEW g \in [S -> Nat], NEW h \in [S -> Nat],
         \A x \in S : h[x] = f[x] + g[x]
  PROVE  /\ Total(h, S) = Total(f, S) + Total(g, S)
         /\ Total(f, S) \in Nat /\ Total(g, S) \in Nat /\ Total(h, S) \in Nat
<1> DEFINE U == Units(f, S)
           V == Units(g, S)
           W == {<<v[1], f[v[1]] + v[2]>> : v \in V}
           m == [v \in V |-> <<v[1], f[v[1]] + v[2]>>]
<1>1. \A u : u \in U <=> \E x \in S, i \in Nat : i \in 1..f[x] /\ u = <<x, i>>
  BY DEF Units
<1>2. \A v : v \in V <=> \E x \in S, i \in Nat : i \in 1..g[x] /\ v = <<x, i>>
  BY DEF Units
<1>3. \A w : w \in W <=> \E x \in S, i \in Nat : i \in 1..g[x] /\ w = <<x, f[x] + i>>
  <2>1. ASSUME NEW w \in W
        PROVE  \E x \in S, i \in Nat : i \in 1..g[x] /\ w = <<x, f[x] + i>>
    <3>1. PICK v \in V : w = <<v[1], f[v[1]] + v[2]>>
      OBVIOUS
    <3>2. PICK x \in S, i \in Nat : i \in 1..g[x] /\ v = <<x, i>>
      BY <1>2
    <3> QED BY <3>1, <3>2
  <2>2. ASSUME NEW x \in S, NEW i \in Nat, i \in 1..g[x]
        PROVE  <<x, f[x] + i>> \in W
    <3>1. <<x, i>> \in V
      BY <1>2, <2>2
    <3>2. <<x, i>>[1] = x /\ <<x, i>>[2] = i
      OBVIOUS
    <3> QED BY <3>1, <3>2
  <2> QED
    <3> HIDE DEF W
    <3> QED BY <2>1, <2>2
<1>4. \A w : w \in Units(h, S) <=> \E x \in S, i \in Nat : i \in 1..h[x] /\ w = <<x, i>>
  BY DEF Units
<1>5. Units(h, S) = U \cup W
  <2>1. ASSUME NEW x \in S, NEW i
        PROVE  i \in 1..h[x] <=> \/ i \in 1..f[x]
                                 \/ \E j \in 1..g[x] : i = f[x] + j
    <3>1. ASSUME i \in 1..h[x], i \notin 1..f[x]
          PROVE  i - f[x] \in 1..g[x] /\ i = f[x] + (i - f[x])
      BY <3>1
    <3>2. ASSUME NEW j \in 1..g[x], i = f[x] + j
          PROVE  i \in 1..h[x]
      BY <3>2
    <3>3. i \in 1..f[x] => i \in 1..h[x]
      OBVIOUS
    <3> QED BY <3>1, <3>2, <3>3
  <2>2. ASSUME NEW w
        PROVE  w \in Units(h, S) <=> w \in U \/ w \in W
    <3> HIDE DEF U, W
    <3>1. ASSUME w \in Units(h, S) PROVE w \in U \/ w \in W
      <4>1. PICK x \in S, i \in Nat : i \in 1..h[x] /\ w = <<x, i>>
        BY <1>4, <3>1
      <4> QED BY <1>1, <1>3, <2>1, <4>1
    <3>2. ASSUME w \in U PROVE w \in Units(h, S)
      <4>1. PICK x \in S, i \in Nat : i \in 1..f[x] /\ w = <<x, i>>
        BY <1>1, <3>2
      <4>2. i \in 1..h[x]
        BY <2>1, <4>1
      <4> QED BY <1>4, <4>1, <4>2
    <3>3. ASSUME w \in W PROVE w \in Units(h, S)
      <4>1. PICK x \in S, j \in Nat : j \in 1..g[x] /\ w = <<x, f[x] + j>>
        BY <1>3, <3>3
      <4>2. f[x] + j \in 1..h[x]
        BY <2>1, <4>1
      <4> QED BY <1>4, <4>1, <4>2
    <3> QED BY <3>1, <3>2, <3>3
  <2> QED BY <2>2
<1>6. U \cap W = {}
  <2> SUFFICES ASSUME NEW u, u \in U, u \in W PROVE FALSE
    OBVIOUS
  <2>1. PICK x \in S, i \in Nat : i \in 1..f[x] /\ u = <<x, i>>
    BY <1>1
  <2>2. PICK y \in S, j \in Nat : j \in 1..g[y] /\ u = <<y, f[y] + j>>
    BY <1>3
  <2>3. x = y /\ i = f[x] + j
    BY <2>1, <2>2
  <2> QED BY <2>1, <2>2, <2>3
<1>7. m \in Bijection(V, W)
  <2>1. m \in [V -> W]
    OBVIOUS
  <2>2. \A w \in W : \E v \in V : m[v] = w
    OBVIOUS
  <2>3. ASSUME NEW v \in V, NEW w \in V, m[v] = m[w]
        PROVE  v = w
    <3>1. PICK x \in S, i \in Nat : i \in 1..g[x] /\ v = <<x, i>>
      BY <1>2
    <3>2. PICK y \in S, j \in Nat : j \in 1..g[y] /\ w = <<y, j>>
      BY <1>2
    <3>3. <<x, f[x] + i>> = <<y, f[y] + j>>
      BY <2>3, <3>1, <3>2
    <3>4. x = y /\ i = j
      BY <3>3
    <3> QED BY <3>1, <3>2, <3>4
  <2> QED
    BY <2>1, <2>2, <2>3 DEF Bijection, Injection, Surjection, IsInjective
<1>8. /\ IsFiniteSet(U) /\ Total(f, S) \in Nat
      /\ IsFiniteSet(V) /\ Total(g, S) \in Nat
      /\ Total(h, S) \in Nat
  BY UnitsFinite
<1>9. IsFiniteSet(W) /\ Cardinality(W) = Cardinality(V)
  <2> HIDE DEF U, V, W, m
  <2>1. ExistsBijection(V, W)
    BY <1>7 DEF ExistsBijection
  <2> QED BY <1>8, <2>1, FS_Bijection
<1>10. Cardinality(U \cup W) = Cardinality(U) + Cardinality(W) - Cardinality({})
  <2> HIDE DEF U, V, W, m
  <2> QED BY <1>6, <1>8, <1>9, FS_Union
<1> QED
  BY <1>5, <1>8, <1>9, <1>10, FS_EmptySet DEF Total

(* A sum over keys that fall into parts, one for each owner say, is the sum *)
(* of what the parts sum to.                                                *)
LEMMA TotalOfParts ==
  ASSUME NEW S, IsFiniteSet(S), NEW f \in [S -> Nat],
         NEW T, NEW part \in [T -> SUBSET S], IsFiniteSet(T),
         \A t, u \in T : t # u => part[t] \cap part[u] = {},
         NEW sums \in [T -> Nat], \A t \in T : sums[t] = Total(f, part[t]),
         NEW R, \A x : x \in R <=> \E t \in T : x \in part[t]
  PROVE  Total(sums, T) = Total(f, R)
<1> DEFINE U == Units(sums, T)
           V == Units(f, R)
           b == [t \in T |-> CHOOSE c : c \in Bijection(1..sums[t], Units(f, part[t]))]
           h == [u \in U |-> b[u[1]][u[2]]]
<1>1. ASSUME NEW t \in T PROVE b[t] \in Bijection(1..sums[t], Units(f, part[t]))
  <2>1. part[t] \in SUBSET S /\ IsFiniteSet(part[t])
    BY FS_Subset
  <2>2. IsFiniteSet(Units(f, part[t])) /\ Cardinality(Units(f, part[t])) = sums[t]
    BY <2>1, UnitsFinite DEF Total
  <2>3. ExistsBijection(1..sums[t], Units(f, part[t]))
    BY <2>2, FS_CardinalityType
  <2> QED BY <2>3 DEF ExistsBijection
<1>2. ASSUME NEW t \in T
      PROVE  /\ \A i \in 1..sums[t] : b[t][i] \in Units(f, part[t])
             /\ \A i, j \in 1..sums[t] : b[t][i] = b[t][j] => i = j
             /\ \A v \in Units(f, part[t]) : \E i \in 1..sums[t] : b[t][i] = v
  <2> DEFINE c == b[t]
  <2>1. c \in Bijection(1..sums[t], Units(f, part[t]))
    BY <1>1
  <2> HIDE DEF c
  <2>2. /\ \A i \in 1..sums[t] : c[i] \in Units(f, part[t])
        /\ \A i, j \in 1..sums[t] : c[i] = c[j] => i = j
        /\ \A v \in Units(f, part[t]) : \E i \in 1..sums[t] : c[i] = v
    BY <2>1 DEF Bijection, Injection, Surjection, IsInjective
  <2> QED BY <2>2 DEF c
<1> HIDE DEF b
<1>3. \A u : u \in U <=> \E t \in T, i \in Nat : i \in 1..sums[t] /\ u = <<t, i>>
  BY DEF Units
<1>4. \A v, Q : v \in Units(f, Q) <=> \E x \in Q : v \in {x} \X (1..f[x])
  BY DEF Units
<1>5. \A v : v \in V <=> \E t \in T : v \in Units(f, part[t])
  BY <1>4
<1>6. \A t, s \in T : \A v : v \in Units(f, part[t]) /\ v \in Units(f, part[s]) => t = s
  <2> SUFFICES ASSUME NEW t \in T, NEW s \in T, NEW v,
                      v \in Units(f, part[t]), v \in Units(f, part[s])
               PROVE  t = s
    OBVIOUS
  <2>1. v[1] \in part[t] /\ v[1] \in part[s]
    BY <1>4
  <2> QED BY <2>1
<1> HIDE DEF V
<1>7. ASSUME NEW u \in U
      PROVE  \E t \in T, i \in Nat : i \in 1..sums[t] /\ u = <<t, i>> /\ h[u] = b[t][i]
                                     /\ h[u] \in Units(f, part[t])
  BY <1>2, <1>3
<1> HIDE DEF U, h
<1>8. \A u \in U : h[u] \in V
  BY <1>5, <1>7
<1>9. ASSUME NEW u \in U, NEW w \in U, h[u] = h[w] PROVE u = w
  <2>1. PICK t \in T, i \in Nat : /\ i \in 1..sums[t] /\ u = <<t, i>> /\ h[u] = b[t][i]
                                  /\ h[u] \in Units(f, part[t])
    BY <1>7
  <2>2. PICK s \in T, j \in Nat : /\ j \in 1..sums[s] /\ w = <<s, j>> /\ h[w] = b[s][j]
                                  /\ h[w] \in Units(f, part[s])
    BY <1>7
  <2>3. t = s
    BY <1>6, <1>9, <2>1, <2>2
  <2>4. i = j
    BY <1>2, <1>9, <2>1, <2>2, <2>3
  <2> QED BY <2>1, <2>2, <2>3, <2>4
<1>10. ASSUME NEW v \in V PROVE \E u \in U : h[u] = v
  <2>1. PICK t \in T : v \in Units(f, part[t])
    BY <1>5
  <2>2. PICK i \in 1..sums[t] : b[t][i] = v
    BY <1>2, <2>1
  <2>3. <<t, i>> \in U
    BY <1>3
  <2>4. h[<<t, i>>] = v
    BY <2>2, <2>3 DEF h
  <2> QED BY <2>3, <2>4
<1>11. h \in Bijection(U, V)
  <2>1. h \in [U -> V]
    BY <1>8 DEF h
  <2> QED BY <2>1, <1>9, <1>10 DEF Bijection, Injection, Surjection, IsInjective
<1>12. IsFiniteSet(U)
  <2>1. T \in SUBSET T
    OBVIOUS
  <2> QED BY <2>1, UnitsFinite DEF U
<1>13. ExistsBijection(U, V)
  BY <1>11 DEF ExistsBijection
<1> QED
  BY <1>12, <1>13, FS_Bijection DEF Total, U, V

----------------------------------------------------------------------------
(* Induction over the parts of a finite set of keys *)

(* What holds of no keys, and of every part with one more key when it holds *)
(* of the part, holds of all: a smallest part it does not hold of would be  *)
(* one key larger than a part it holds of.                                  *)
LEMMA GrowingParts ==
  ASSUME NEW S, IsFiniteSet(S), NEW G \in SUBSET (SUBSET S), {} \in G,
         \A R \in G : \A x \in S \ R : R \cup {x} \in G
  PROVE  S \in G
<1> SUFFICES ASSUME S \notin G PROVE FALSE
  OBVIOUS
<1> DEFINE N == {Cardinality(R) : R \in (SUBSET S) \ G}
<1>1. \A R \in SUBSET S : IsFiniteSet(R) /\ Cardinality(R) \in Nat
  BY FS_Subset, FS_CardinalityType
<1>2. N \subseteq Nat /\ N # {}
  <2>1. S \in (SUBSET S) \ G
    OBVIOUS
  <2> QED BY <1>1, <2>1
<1>3. PICK n \in N : \A m \in N : ~(<<m, n>> \in OpToRel(<, Nat))
  <2> HIDE DEF N
  <2> QED BY <1>2, WFMin, NatLessThanWellFounded
<1>4. \A m \in N : ~(m < n)
  BY <1>2, <1>3 DEF OpToRel
<1>5. PICK R \in (SUBSET S) \ G : n = Cardinality(R)
  BY <1>3
<1>6. PICK x : x \in R
  <2>1. R # {}
    BY <1>5
  <2> QED BY <2>1
<1> DEFINE Q == R \ {x}
<1>7. Q \in SUBSET S /\ Cardinality(Q) = n - 1 /\ n \in Nat
  BY <1>1, <1>5, <1>6, FS_RemoveElement
<1>8. Q \in G
  <2>1. n - 1 < n
    BY <1>7
  <2>2. Cardinality(Q) \notin N
    BY <1>4, <1>7, <2>1
  <2> QED BY <1>7, <2>2
<1>9. R = Q \cup {x} /\ x \in S \ Q
  BY <1>5, <1>6
<1> HIDE DEF Q, N
<1> QED
  BY <1>5, <1>8, <1>9

(* One more key adds its amount to the sum. *)
LEMMA TotalOneMore ==
  ASSUME NEW S, IsFiniteSet(S), NEW f \in [S -> Nat], NEW R \in SUBSET S, NEW x \in S \ R
  PROVE  /\ Total(f, R \cup {x}) = Total(f, R) + f[x]
         /\ Total(f, R) \in Nat
<1> DEFINE Q == R \cup {x}
<1>1. Q \in SUBSET S /\ R \in SUBSET Q /\ Q \ R = {x}
  OBVIOUS
<1>2. IsFiniteSet(Q)
  BY <1>1, FS_Subset
<1>3. Total(f, {x}) = f[x]
  BY TotalOfOne
<1> HIDE DEF Q
<1>4. Total(f, Q) = Total(f, R) + Total(f, Q \ R) /\ Total(f, R) \in Nat
  BY <1>1, <1>2, TotalSplit
<1> QED
  BY <1>1, <1>3, <1>4 DEF Q

(* Rounding down once rounds off no more than rounding down at every key:   *)
(* if h is superadditive, the sum of what h makes of each amount is at most *)
(* what h makes of the sum.                                                 *)
LEMMA TotalSuperadditive ==
  ASSUME NEW S, IsFiniteSet(S), NEW f \in [S -> Nat], NEW g \in [S -> Nat],
         NEW h \in [Nat -> Nat], \A m, n \in Nat : h[m] + h[n] <= h[m + n],
         \A x \in S : g[x] <= h[f[x]]
  PROVE  Total(g, S) <= h[Total(f, S)]
<1> DEFINE G == {R \in SUBSET S : Total(g, R) <= h[Total(f, R)]}
<1>1. {} \in G
  <2>1. Total(g, {}) = 0 /\ Total(f, {}) = 0
    BY TotalZero
  <2> QED BY <2>1
<1>2. ASSUME NEW R \in G, NEW x \in S \ R PROVE R \cup {x} \in G
  <2> DEFINE m == Total(f, R)
             n == f[x]
             k == Total(g, R)
             j == g[x]
  <2>1. R \in SUBSET S /\ k <= h[m]
    OBVIOUS
  <2>2. Total(f, R \cup {x}) = m + n /\ m \in Nat
    <3> HIDE DEF G
    <3> QED BY <2>1, TotalOneMore
  <2>3. Total(g, R \cup {x}) = k + j /\ k \in Nat
    <3> HIDE DEF G
    <3> QED BY <2>1, TotalOneMore
  <2>4. n \in Nat /\ j \in Nat /\ j <= h[n]
    OBVIOUS
  <2> HIDE DEF G, m, n, k, j
  <2>5. h[m] + h[n] <= h[m + n]
    BY <2>2, <2>4, Zenon
  <2>6. m + n \in Nat
    BY <2>2, <2>4
  <2>7. h[m] \in Nat /\ h[n] \in Nat /\ h[m + n] \in Nat
    BY <2>2, <2>4, <2>6
  <2>8. k + j <= h[m + n]
    BY ONLY <2>1, <2>3, <2>4, <2>5, <2>7
  <2>9. R \cup {x} \in SUBSET S
    BY <2>1
  <2> QED BY <2>2, <2>3, <2>8, <2>9 DEF G
<1>3. S \in G
  <2>1. G \in SUBSET (SUBSET S)
    OBVIOUS
  <2> HIDE DEF G
  <2> QED BY <1>1, <1>2, <2>1, GrowingParts
<1> QED
  BY <1>3

(* a table of amounts with the keys S and P, by rows and by columns, and the *)
(* sums of its rows and of its columns                                       *)
Table(S, P, row, col, rowSum, colSum) ==
  /\ \A s \in S : row[s] \in [P -> Nat]
  /\ \A p \in P : col[p] \in [S -> Nat]
  /\ \A s \in S, p \in P : col[p][s] = row[s][p]
  /\ rowSum \in [S -> Nat] /\ \A s \in S : rowSum[s] = Total(row[s], P)
  /\ colSum \in [P -> Nat] /\ \A p \in P : colSum[p] = Total(col[p], S)

(* A table sums to the same by rows and by columns. *)
LEMMA TotalTransposed ==
  ASSUME NEW S, IsFiniteSet(S), NEW P, IsFiniteSet(P),
         NEW row, NEW col, NEW rowSum, NEW colSum, Table(S, P, row, col, rowSum, colSum)
  PROVE  Total(rowSum, S) = Total(colSum, P)
<1>0. /\ \A s \in S : row[s] \in [P -> Nat]
      /\ \A p \in P : col[p] \in [S -> Nat]
      /\ \A s \in S, p \in P : col[p][s] = row[s][p]
      /\ rowSum \in [S -> Nat] /\ \A s \in S : rowSum[s] = Total(row[s], P)
      /\ colSum \in [P -> Nat] /\ \A p \in P : colSum[p] = Total(col[p], S)
  BY DEF Table
<1> DEFINE part(R) == [p \in P |-> Total(col[p], R)]
           G == {R \in SUBSET S : Total(rowSum, R) = Total(part(R), P)}
<1>1. \A p \in P : col[p] \in [S -> Nat]
  BY <1>0
<1>2. ASSUME NEW R \in SUBSET S PROVE part(R) \in [P -> Nat]
  <2>1. IsFiniteSet(R)
    BY FS_Subset
  <2>2. \A p \in P : Total(col[p], R) \in Nat
    BY <1>1, <2>1, UnitsFinite
  <2> QED BY <2>2
<1>3. {} \in G
  <2>1. \A p \in P : part({})[p] = 0
    BY TotalZero
  <2>2. Total(part({}), P) = 0
    <3> HIDE DEF part
    <3> QED BY <2>1, TotalZero
  <2>3. Total(rowSum, {}) = 0
    BY TotalZero
  <2> QED BY <2>2, <2>3
<1>4. ASSUME NEW R \in G, NEW x \in S \ R PROVE R \cup {x} \in G
  <2> DEFINE Q == R \cup {x}
  <2>1. Q \in SUBSET S /\ IsFiniteSet(S) /\ R \in SUBSET S /\ x \in S \ R
    OBVIOUS
  <2>2. \A p \in P : Total(col[p], Q) = Total(col[p], R) + col[p][x]
    <3> SUFFICES ASSUME NEW p \in P PROVE Total(col[p], Q) = Total(col[p], R) + col[p][x]
      OBVIOUS
    <3> DEFINE c == col[p]
    <3>1. c \in [S -> Nat]
      BY <1>1
    <3> HIDE DEF G, c
    <3>2. Total(c, Q) = Total(c, R) + c[x]
      BY ONLY <2>1, <3>1, TotalOneMore
    <3> QED BY <3>2 DEF c
  <2>3. \A p \in P : part(Q)[p] = part(R)[p] + row[x][p]
    BY <1>0, <2>2
  <2>4. R \in SUBSET S /\ Total(rowSum, R) = Total(part(R), P)
    OBVIOUS
  <2>5. part(Q) \in [P -> Nat] /\ part(R) \in [P -> Nat] /\ row[x] \in [P -> Nat]
    BY <1>0, <1>2, <2>1, <2>4
  <2>6. Total(part(Q), P) = Total(part(R), P) + Total(row[x], P)
    <3>1. IsFiniteSet(P)
      OBVIOUS
    <3> DEFINE f == part(R)
               g == row[x]
               h == part(Q)
    <3>2. f \in [P -> Nat] /\ g \in [P -> Nat] /\ h \in [P -> Nat]
      BY <2>5
    <3>3. \A p \in P : h[p] = f[p] + g[p]
      BY <2>3
    <3> HIDE DEF f, g, h
    <3>4. Total(h, P) = Total(f, P) + Total(g, P)
      BY ONLY <3>1, <3>2, <3>3, TotalSum
    <3> QED BY <3>4 DEF f, g, h
  <2>7. Total(rowSum, Q) = Total(rowSum, R) + rowSum[x]
    <3>1. rowSum \in [S -> Nat]
      BY <1>0
    <3> QED BY ONLY <2>1, <3>1, TotalOneMore
  <2>8. Total(rowSum, Q) = Total(part(Q), P)
    BY <1>0, <2>4, <2>6, <2>7
  <2> QED BY <2>1, <2>8
<1>5. S \in G
  <2>1. G \in SUBSET (SUBSET S)
    OBVIOUS
  <2> HIDE DEF G
  <2> QED BY <1>3, <1>4, <2>1, GrowingParts
<1>6. Total(part(S), P) = Total(colSum, P)
  <2>1. \A p \in P : part(S)[p] = colSum[p]
    BY <1>0
  <2> HIDE DEF part
  <2> QED BY <2>1, TotalSame
<1> QED
  BY <1>5, <1>6

(* Larger amounts sum to no less. *)
LEMMA TotalMonotone ==
  ASSUME NEW S, IsFiniteSet(S), NEW f \in [S -> Nat], NEW g \in [S -> Nat],
         \A x \in S : g[x] <= f[x]
  PROVE  Total(g, S) <= Total(f, S) /\ Total(g, S) \in Nat /\ Total(f, S) \in Nat
<1> DEFINE rest == [x \in S |-> f[x] - g[x]]
<1>1. rest \in [S -> Nat] /\ \A x \in S : f[x] = g[x] + rest[x]
  OBVIOUS
<1>2. /\ Total(f, S) = Total(g, S) + Total(rest, S)
      /\ Total(g, S) \in Nat /\ Total(rest, S) \in Nat /\ Total(f, S) \in Nat
  <2> HIDE DEF rest
  <2> QED BY <1>1, TotalSum
<1> HIDE DEF rest
<1> QED
  BY <1>2

(* What changing one amount does to the sum over a part. *)
LEMMA TotalPartAddAtOne ==
  ASSUME NEW S, IsFiniteSet(S), NEW f \in [S -> Nat], NEW g \in [S -> Nat],
         NEW R \in SUBSET S, NEW k \in S, NEW n \in Int,
         \A x \in S \ {k} : f[x] = g[x],
         g[k] = f[k] + n
  PROVE  /\ Total(g, R) = Total(f, R) + (IF k \in R THEN n ELSE 0)
         /\ Total(f, R) \in Nat /\ Total(g, R) \in Nat
<1>1. Total(f, R) \in Nat /\ Total(g, R) \in Nat
  BY TotalOfPart
<1>2. CASE k \notin R
  <2>1. Total(g, R) = Total(f, R)
    <3>1. \A x \in R : g[x] = f[x]
      BY <1>2
    <3> QED BY <3>1, TotalSame
  <2> QED BY <1>1, <1>2, <2>1
<1>3. CASE k \in R
  <2>1. {k} \in SUBSET R /\ IsFiniteSet(R)
    BY <1>3, FS_Subset
  <2>2. /\ Total(f, R) = Total(f, {k}) + Total(f, R \ {k})
        /\ Total(f, R \ {k}) \in Nat
    BY ONLY <2>1, TotalSplit, f \in [S -> Nat], R \in SUBSET S
  <2>3. Total(g, R) = Total(g, {k}) + Total(g, R \ {k})
    BY ONLY <2>1, TotalSplit, g \in [S -> Nat], R \in SUBSET S
  <2>4. Total(f, R \ {k}) = Total(g, R \ {k})
    BY TotalSame
  <2>5. Total(f, {k}) = f[k] /\ Total(g, {k}) = g[k] /\ f[k] \in Nat /\ g[k] \in Nat
    BY TotalOfOne
  <2> QED BY <1>1, <1>3, <2>2, <2>3, <2>4, <2>5
<1> QED
  BY <1>2, <1>3

(* What emptying a part does to the sum over another part that contains it *)
(* or has nothing in common with it.                                       *)
LEMMA TotalPartEmptied ==
  ASSUME NEW S, IsFiniteSet(S), NEW f \in [S -> Nat], NEW g \in [S -> Nat],
         NEW R \in SUBSET S, NEW Q \in SUBSET S,
         \A x \in S \ Q : g[x] = f[x],
         \A x \in Q : g[x] = 0
  PROVE  /\ Q \subseteq R => Total(g, R) = Total(f, R) - Total(f, Q)
         /\ Q \cap R = {} => Total(g, R) = Total(f, R)
         /\ Total(f, R) \in Nat /\ Total(g, R) \in Nat /\ Total(f, Q) \in Nat
<1>1. Total(f, R) \in Nat /\ Total(g, R) \in Nat /\ Total(f, Q) \in Nat
  BY TotalOfPart
<1>2. ASSUME Q \cap R = {} PROVE Total(g, R) = Total(f, R)
  <2>1. \A x \in R : g[x] = f[x]
    BY <1>2
  <2> QED BY <2>1, TotalSame
<1>3. ASSUME Q \subseteq R PROVE Total(g, R) = Total(f, R) - Total(f, Q)
  <2>1. Q \in SUBSET R /\ IsFiniteSet(R)
    BY <1>3, FS_Subset
  <2>2. f \in [S -> Nat] /\ g \in [S -> Nat] /\ R \in SUBSET S
    OBVIOUS
  <2>3. \A h \in [S -> Nat] : /\ Total(h, R) = Total(h, Q) + Total(h, R \ Q)
                              /\ Total(h, R \ Q) \in Nat
    <3> SUFFICES ASSUME NEW h \in [S -> Nat]
                 PROVE  /\ Total(h, R) = Total(h, Q) + Total(h, R \ Q)
                        /\ Total(h, R \ Q) \in Nat
      OBVIOUS
    <3> QED BY ONLY <2>1, h \in [S -> Nat], R \in SUBSET S, TotalSplit
  <2>4. Total(g, Q) = 0
    BY TotalZero
  <2>5. Total(g, R \ Q) = Total(f, R \ Q)
    BY TotalSame
  <2> QED BY <1>1, <2>3, <2>4, <2>5
<1> QED
  BY <1>1, <1>2, <1>3
=============================================================================
