-------------------------- MODULE BoundedCache_proofs --------------------------
(* Proofs about BoundedCache for every finite set of keys and images, every    *)
(* set of weights and all bounds.  Part 1: sums over finite sets.  Part 2: one *)
(* entry removed, several evicted, one inserted.  Part 3: the theorems.        *)
EXTENDS BoundedCache, FiniteSetTheorems, SequenceTheorems, WellFoundedInduction, TLAPS

\* A set of numbers that is not empty has a least one.
LEMMA LeastNumber ==
  ASSUME NEW T \in SUBSET Nat, T # {}
  PROVE  \E x \in T : \A y \in T : x <= y
<1> DEFINE R == {p \in Nat \X Nat : p[1] < p[2]}
<1>1. IsWellFoundedOn(R, Nat)
  BY NatLessThanWellFounded DEF OpToRel
<1>2. T \subseteq Nat
  OBVIOUS
<1>3. PICK x \in T : \A y \in T : ~(<<y, x>> \in R)
  <2> HIDE DEF R
  <2> QED BY <1>1, <1>2, WFMin
<1>4. ASSUME NEW y \in T PROVE ~(y < x)
  <2>1. <<y, x>> \in Nat \X Nat /\ <<y, x>>[1] = y /\ <<y, x>>[2] = x
    BY <1>2
  <2> QED BY <1>3, <2>1
<1> QED BY <1>2, <1>3, <1>4

--------------------------------------------------------------------------------
(* Sums.                                                                      *)

Pick(s) == CHOOSE x \in s : TRUE

\* The function behind Total: the sum of f over the subsets of D.
Summed(f, D, g) ==
  g = [s \in SUBSET D |-> IF s = {} THEN 0 ELSE f[Pick(s)] + g[s \ {Pick(s)}]]

LEMMA TotalSummed ==
  ASSUME NEW f
  PROVE  Total(f) = (CHOOSE g : Summed(f, DOMAIN f, g))[DOMAIN f]
BY DEF Total, MapThenSumSet, MapThenFoldSet, Summed, Pick

\* That function exists: it is built up over the subsets of at most k elements.
LEMMA SumExists ==
  ASSUME NEW D, IsFiniteSet(D), NEW f
  PROVE  \E g : Summed(f, D, g)
<1> DEFINE Small(k) == {s \in SUBSET D : Cardinality(s) <= k}
           Step(g, s) == IF s = {} THEN 0 ELSE f[Pick(s)] + g[s \ {Pick(s)}]
           Built(k) == \E g : g = [s \in Small(k) |-> Step(g, s)]
           T == {k \in Nat : ~Built(k)}
<1>1. \A s \in SUBSET D : /\ IsFiniteSet(s) /\ Cardinality(s) \in Nat
                          /\ (Cardinality(s) = 0 <=> s = {})
  BY FS_Subset, FS_CardinalityType, FS_EmptySet
<1>2. \A s \in SUBSET D : s # {} =>
         /\ Pick(s) \in s /\ s \ {Pick(s)} \in SUBSET D
         /\ Cardinality(s \ {Pick(s)}) = Cardinality(s) - 1
  BY <1>1, FS_RemoveElement DEF Pick
<1>3. T = {}
  <2> SUFFICES ASSUME T # {} PROVE FALSE
    OBVIOUS
  <2>1. PICK k \in T : \A j \in T : k <= j
    <3>1. T \in SUBSET Nat
      OBVIOUS
    <3> HIDE DEF T
    <3> QED BY <3>1, LeastNumber
  <2>2. k \in Nat /\ ~Built(k)
    OBVIOUS
  <2>3. CASE k = 0
    <3> DEFINE g == [s \in Small(k) |-> 0]
    <3>1. \A s \in Small(k) : s = {}
      BY <1>1, <2>3
    <3>2. g = [s \in Small(k) |-> Step(g, s)]
      BY <3>1
    <3> HIDE DEF g
    <3> QED BY <2>2, <3>2
  <2>4. CASE k # 0
    <3>1. k - 1 \in Nat /\ k - 1 \notin T
      <4> HIDE DEF T
      <4> QED BY <2>1, <2>2, <2>4
    <3>2. PICK h : h = [s \in Small(k - 1) |-> Step(h, s)]
      BY <3>1
    <3> DEFINE g == [s \in Small(k) |-> Step(h, s)]
    <3>3. ASSUME NEW s \in Small(k), s # {}
          PROVE  g[s \ {Pick(s)}] = h[s \ {Pick(s)}]
      <4> DEFINE r == s \ {Pick(s)}
      <4>1. r \in Small(k - 1) /\ r \in Small(k)
        BY <1>1, <1>2, <2>2, <3>3
      <4> HIDE DEF r
      <4>2. h[r] = Step(h, r)
        <5> HIDE DEF Step, Small
        <5> QED BY <3>2, <4>1
      <4>3. g[r] = Step(h, r)
        <5> HIDE DEF Step, Small
        <5> QED BY <4>1
      <4> HIDE DEF g, Step
      <4>4. g[r] = h[r]
        BY <4>2, <4>3
      <4> QED BY <4>4 DEF r
    <3>4. \A s \in Small(k) : Step(h, s) = Step(g, s)
      <4> HIDE DEF g, Small
      <4> QED BY <3>3
    <3>5. g = [s \in Small(k) |-> Step(g, s)]
      <4>1. g = [s \in Small(k) |-> Step(h, s)]
        OBVIOUS
      <4> HIDE DEF g, Step, Small
      <4> QED BY <3>4, <4>1
    <3> HIDE DEF g, Step, Small
    <3> QED BY <2>2, <3>5
  <2> QED BY <2>3, <2>4
<1>4. Small(Cardinality(D)) = SUBSET D
  <2>1. \A s \in SUBSET D : Cardinality(s) <= Cardinality(D)
    BY FS_Subset
  <2> QED BY <2>1
<1>5. PICK g : g = [s \in Small(Cardinality(D)) |-> Step(g, s)]
  <2>1. Cardinality(D) \in Nat
    BY FS_CardinalityType
  <2> HIDE DEF Small, Step
  <2> QED BY <1>3, <2>1
<1>6. g = [s \in SUBSET D |-> Step(g, s)]
  <2> HIDE DEF Small, Step
  <2> QED BY <1>4, <1>5
<1> QED BY <1>6 DEF Summed

\* One element of D for every unit of its weight; a sum is their number.
Units(f, s) == UNION {{i} \X (1..f[i]) : i \in s}

LEMMA UnitsProperties ==
  ASSUME NEW D, IsFiniteSet(D), NEW f \in [D -> Nat]
  PROVE  /\ \A s \in SUBSET D : IsFiniteSet(Units(f, s)) /\ Cardinality(Units(f, s)) \in Nat
         /\ Units(f, {}) = {}
         /\ \A s \in SUBSET D : \A x \in s :
               Cardinality(Units(f, s)) = f[x] + Cardinality(Units(f, s \ {x}))
         /\ \A s : \A p : p \in Units(f, s)
                           <=> p = <<p[1], p[2]>> /\ p[1] \in s /\ p[2] \in 1..f[p[1]]
<1> DEFINE Unit(i) == {i} \X (1..f[i])
<1>1. \A i \in D : IsFiniteSet(Unit(i)) /\ Cardinality(Unit(i)) = f[i]
  <2> SUFFICES ASSUME NEW i \in D PROVE IsFiniteSet(Unit(i)) /\ Cardinality(Unit(i)) = f[i]
    OBVIOUS
  <2>1. IsFiniteSet({i}) /\ Cardinality({i}) = 1
    BY FS_Singleton
  <2>2. IsFiniteSet(1..f[i]) /\ Cardinality(1..f[i]) = f[i]
    <3>1. ASSUME NEW N \in Nat PROVE IsFiniteSet(1..N) /\ Cardinality(1..N) = N
      BY FS_Interval
    <3> QED BY <3>1
  <2>3. f[i] \in Nat /\ 1 * f[i] = f[i]
    <3>1. f[i] \in Nat
      OBVIOUS
    <3> QED BY <3>1
  <2>4. IsFiniteSet(Unit(i)) /\ Cardinality(Unit(i)) = 1 * f[i]
    BY ONLY <2>1, <2>2, FS_Product
  <2> QED BY <2>3, <2>4
<1>2. \A s \in SUBSET D : IsFiniteSet(Units(f, s)) /\ Cardinality(Units(f, s)) \in Nat
  <2> SUFFICES ASSUME NEW s \in SUBSET D PROVE IsFiniteSet(Units(f, s))
    BY FS_CardinalityType
  <2>1. IsFiniteSet(s)
    BY FS_Subset
  <2>2. IsFiniteSet({Unit(i) : i \in s})
    <3> DEFINE all == {Unit(i) : i \in s}
               h == [i \in s |-> Unit(i)]
    <3>1. h \in Surjection(s, all)
      BY DEF Surjection
    <3> HIDE DEF all, h, Unit
    <3>2. IsFiniteSet(all)
      BY <2>1, <3>1, FS_Surjection
    <3> QED BY <3>2 DEF all
  <2>3. \A u \in {Unit(i) : i \in s} : IsFiniteSet(u)
    BY <1>1
  <2> QED BY <2>2, <2>3, FS_UNION DEF Units
<1>3. Units(f, {}) = {}
  BY DEF Units
<1>4. \A s : \A p : p \in Units(f, s)
                  <=> p = <<p[1], p[2]>> /\ p[1] \in s /\ p[2] \in 1..f[p[1]]
  BY DEF Units
<1>5. ASSUME NEW s \in SUBSET D, NEW x \in s
      PROVE  Cardinality(Units(f, s)) = f[x] + Cardinality(Units(f, s \ {x}))
  <2> DEFINE r == s \ {x}
  <2>1. Units(f, s) = Unit(x) \cup Units(f, r)
    BY DEF Units
  <2>2. Unit(x) \cap Units(f, r) = {}
    BY DEF Units
  <2>3. Cardinality({}) = 0
    BY FS_EmptySet
  <2>4. r \in SUBSET D /\ x \in D /\ f[x] \in Nat
    OBVIOUS
  <2> HIDE DEF r, Unit
  <2>5. Cardinality(Unit(x) \cup Units(f, r))
          = Cardinality(Unit(x)) + Cardinality(Units(f, r)) - Cardinality({})
    BY <1>1, <1>2, <2>2, <2>4, FS_Union
  <2>6. Cardinality(Unit(x)) = f[x] /\ Cardinality(Units(f, r)) \in Nat
    BY <1>1, <1>2, <2>4
  <2>7. Cardinality(Units(f, s)) = f[x] + Cardinality(Units(f, r))
    BY <2>1, <2>3, <2>4, <2>5, <2>6
  <2> QED BY <2>7 DEF r
<1> QED BY <1>2, <1>3, <1>4, <1>5

LEMMA TotalIsUnits ==
  ASSUME NEW D, IsFiniteSet(D), NEW f \in [D -> Nat]
  PROVE  Total(f) = Cardinality(Units(f, D)) /\ Total(f) \in Nat
<1> DEFINE g == CHOOSE h : Summed(f, D, h)
           Size(s) == Cardinality(Units(f, s))
           T == {k \in Nat : \E s \in SUBSET D : Cardinality(s) = k /\ g[s] # Size(s)}
<1>1. Summed(f, D, g)
  BY SumExists
<1>2. Total(f) = g[D]
  BY TotalSummed
<1> HIDE DEF g
<1>3. \A s \in SUBSET D : /\ IsFiniteSet(s) /\ Cardinality(s) \in Nat
  BY FS_Subset, FS_CardinalityType
<1>4. T = {}
  <2> SUFFICES ASSUME T # {} PROVE FALSE
    OBVIOUS
  <2>1. PICK k \in T : \A j \in T : k <= j
    <3>1. T \in SUBSET Nat
      OBVIOUS
    <3> HIDE DEF T
    <3> QED BY <3>1, LeastNumber
  <2>2. PICK s \in SUBSET D : Cardinality(s) = k /\ g[s] # Size(s)
    OBVIOUS
  <2>3. CASE s = {}
    <3>1. g[s] = 0
      BY <1>1, <2>3 DEF Summed
    <3>2. Size(s) = 0
      BY <2>3, UnitsProperties, FS_EmptySet
    <3> QED BY <2>2, <3>1, <3>2
  <2>4. CASE s # {}
    <3> DEFINE x == Pick(s)
    <3>1. x \in s
      BY <2>4 DEF Pick
    <3>2. g[s] = f[x] + g[s \ {x}]
      BY <1>1, <2>4 DEF Summed
    <3> HIDE DEF x
    <3>3. Size(s) = f[x] + Size(s \ {x})
      BY <3>1, UnitsProperties
    <3>4. s \ {x} \in SUBSET D /\ Cardinality(s \ {x}) = k - 1 /\ k - 1 \in Nat
      <4>1. s \ {x} \in SUBSET D /\ IsFiniteSet(s)
        BY <1>3
      <4>2. Cardinality(s \ {x}) = Cardinality(s) - 1
        BY <3>1, <4>1, FS_RemoveElement
      <4>3. Cardinality(s \ {x}) \in Nat
        BY <1>3, <4>1
      <4> QED BY <2>2, <4>1, <4>2, <4>3
    <3>5. k - 1 \notin T
      <4>1. k \in Nat
        OBVIOUS
      <4> HIDE DEF T
      <4> QED BY <2>1, <3>4, <4>1
    <3>6. g[s \ {x}] = Size(s \ {x})
      <4> HIDE DEF Size
      <4> QED BY <3>4, <3>5
    <3> HIDE DEF Size, T
    <3> QED BY <2>2, <3>2, <3>3, <3>6
  <2> QED BY <2>3, <2>4
<1>5. g[D] = Size(D)
  <2>1. Cardinality(D) \in Nat /\ D \in SUBSET D
    BY FS_CardinalityType
  <2> HIDE DEF Size
  <2> QED BY <1>4, <2>1
<1> QED BY <1>2, <1>5, UnitsProperties

\* Sets with a bijection between them have as many elements.
LEMMA SameSize ==
  ASSUME NEW S, IsFiniteSet(S), NEW T, NEW h \in [S -> T],
         \A x, y \in S : h[x] = h[y] => x = y,
         \A t \in T : \E x \in S : h[x] = t
  PROVE  IsFiniteSet(T) /\ Cardinality(T) = Cardinality(S)
<1>1. h \in Bijection(S, T)
  BY DEF Bijection, Injection, Surjection, IsInjective
<1> QED BY <1>1, FS_Bijection DEF ExistsBijection

\* g is f without the summand at n, the others named anew by p.
TakesOne(f, D, n, g, E, p) ==
  /\ IsFiniteSet(D) /\ f \in [D -> Nat] /\ n \in D
  /\ IsFiniteSet(E) /\ g \in [E -> Nat] /\ p \in [E -> D \ {n}]
  /\ \A x, y \in E : p[x] = p[y] => x = y
  /\ \A i \in D \ {n} : \E x \in E : p[x] = i
  /\ \A x \in E : g[x] = f[p[x]]

LEMMA TotalTakeOne ==
  ASSUME NEW f, NEW D, NEW n, NEW g, NEW E, NEW p, TakesOne(f, D, n, g, E, p)
  PROVE  Total(f) = f[n] + Total(g)
<1> USE DEF TakesOne
<1> DEFINE S == Units(g, E)
           T == Units(f, D \ {n})
           h == [u \in S |-> <<p[u[1]], u[2]>>]
<1>1. /\ \A u : u \in S <=> u = <<u[1], u[2]>> /\ u[1] \in E /\ u[2] \in 1..g[u[1]]
      /\ IsFiniteSet(S)
  BY UnitsProperties
<1>2. /\ \A u : u \in T <=> u = <<u[1], u[2]>> /\ u[1] \in D \ {n} /\ u[2] \in 1..f[u[1]]
      /\ IsFiniteSet(T) /\ Cardinality(T) \in Nat
  BY UnitsProperties
<1> HIDE DEF S, T
<1>3. h \in [S -> T]
  BY <1>1, <1>2
<1>4. \A u, v \in S : h[u] = h[v] => u = v
  BY <1>1
<1>5. \A t \in T : \E u \in S : h[u] = t
  <2> SUFFICES ASSUME NEW t \in T PROVE \E u \in S : h[u] = t
    OBVIOUS
  <2>1. PICK x \in E : p[x] = t[1]
    BY <1>2
  <2>2. <<x, t[2]>> \in S
    BY <1>1, <1>2, <2>1
  <2>3. h[<<x, t[2]>>] = t
    BY <1>2, <2>1, <2>2
  <2> QED BY <2>2, <2>3
<1> HIDE DEF h
<1>6. Cardinality(T) = Cardinality(S)
  BY <1>1, <1>3, <1>4, <1>5, SameSize
<1>7. Total(f) = Cardinality(Units(f, D)) /\ Total(g) = Cardinality(S)
  BY TotalIsUnits DEF S
<1>8. Cardinality(Units(f, D)) = f[n] + Cardinality(T)
  BY UnitsProperties DEF T
<1> QED BY <1>6, <1>7, <1>8

\* f is g with the summands in A larger by h.
GrowsBy(f, g, D, h, A) ==
  /\ IsFiniteSet(D) /\ f \in [D -> Nat] /\ g \in [D -> Nat]
  /\ A \in SUBSET D /\ h \in [A -> Nat]
  /\ \A i \in A : f[i] = g[i] + h[i]
  /\ \A i \in D \ A : f[i] = g[i]

LEMMA TotalGrows ==
  ASSUME NEW f, NEW g, NEW D, NEW h, NEW A, GrowsBy(f, g, D, h, A)
  PROVE  Total(f) = Total(g) + Total(h) /\ Total(g) \in Nat /\ Total(h) \in Nat
<1> USE DEF GrowsBy
<1> DEFINE F == Units(f, D)
           G == Units(g, D)
           H == Units(h, A)
           q == [u \in H |-> <<u[1], u[2] + g[u[1]]>>]
<1>0. IsFiniteSet(A)
  BY FS_Subset
<1>1. /\ \A u : u \in F <=> u = <<u[1], u[2]>> /\ u[1] \in D /\ u[2] \in 1..f[u[1]]
      /\ IsFiniteSet(F) /\ Cardinality(F) \in Nat
  BY UnitsProperties
<1>2. /\ \A u : u \in G <=> u = <<u[1], u[2]>> /\ u[1] \in D /\ u[2] \in 1..g[u[1]]
      /\ IsFiniteSet(G) /\ Cardinality(G) \in Nat
  BY UnitsProperties
<1>3. /\ \A u : u \in H <=> u = <<u[1], u[2]>> /\ u[1] \in A /\ u[2] \in 1..h[u[1]]
      /\ IsFiniteSet(H) /\ Cardinality(H) \in Nat
  BY <1>0, UnitsProperties
<1> HIDE DEF F, G, H
<1>4. G \subseteq F
  <2> SUFFICES ASSUME NEW u \in G PROVE u \in F
    OBVIOUS
  <2>1. u = <<u[1], u[2]>> /\ u[1] \in D /\ u[2] \in 1..g[u[1]]
    BY <1>2
  <2>2. g[u[1]] \in Nat /\ f[u[1]] \in Nat /\ g[u[1]] <= f[u[1]]
    BY <2>1
  <2> QED BY <1>1, <2>1, <2>2
<1>5. \A u : u \in F \ G <=> /\ u = <<u[1], u[2]>> /\ u[1] \in A
                           /\ u[2] \in (g[u[1]] + 1)..(g[u[1]] + h[u[1]])
  <2> SUFFICES ASSUME NEW u
               PROVE  u \in F \ G <=> /\ u = <<u[1], u[2]>> /\ u[1] \in A
                                     /\ u[2] \in (g[u[1]] + 1)..(g[u[1]] + h[u[1]])
    OBVIOUS
  <2>1. CASE u[1] \in A
    <3>1. /\ u[1] \in D /\ f[u[1]] = g[u[1]] + h[u[1]]
          /\ g[u[1]] \in Nat /\ h[u[1]] \in Nat /\ f[u[1]] \in Nat
      BY <2>1
    <3> QED BY <1>1, <1>2, <2>1, <3>1
  <2>2. CASE u[1] \notin A
    <3>1. u[1] \in D => f[u[1]] = g[u[1]]
      BY <2>2
    <3> QED BY <1>1, <1>2, <2>2, <3>1
  <2> QED BY <2>1, <2>2
<1>6. q \in [H -> F \ G]
  <2> SUFFICES ASSUME NEW u \in H PROVE <<u[1], u[2] + g[u[1]]>> \in F \ G
    OBVIOUS
  <2>1. u[1] \in A /\ u[2] \in 1..h[u[1]] /\ g[u[1]] \in Nat /\ h[u[1]] \in Nat
    BY <1>3
  <2>2. u[2] + g[u[1]] \in (g[u[1]] + 1)..(g[u[1]] + h[u[1]])
    BY <2>1
  <2> QED BY <1>5, <2>1, <2>2
<1>7. \A u, v \in H : q[u] = q[v] => u = v
  <2> SUFFICES ASSUME NEW u \in H, NEW v \in H, q[u] = q[v] PROVE u = v
    OBVIOUS
  <2>1. /\ u = <<u[1], u[2]>> /\ u[1] \in A /\ u[2] \in 1..h[u[1]] /\ g[u[1]] \in Nat
        /\ v = <<v[1], v[2]>> /\ v[1] \in A /\ v[2] \in 1..h[v[1]] /\ g[v[1]] \in Nat
        /\ h[u[1]] \in Nat /\ h[v[1]] \in Nat
    BY <1>3
  <2>2. u[1] = v[1] /\ u[2] + g[u[1]] = v[2] + g[v[1]]
    OBVIOUS
  <2>3. u[2] = v[2]
    BY <2>1, <2>2
  <2> QED BY <2>1, <2>2, <2>3
<1>8. \A t \in F \ G : \E u \in H : q[u] = t
  <2> SUFFICES ASSUME NEW t \in F \ G PROVE \E u \in H : q[u] = t
    OBVIOUS
  <2>1. /\ t = <<t[1], t[2]>> /\ t[1] \in A /\ g[t[1]] \in Nat /\ h[t[1]] \in Nat
        /\ t[2] \in (g[t[1]] + 1)..(g[t[1]] + h[t[1]])
    BY <1>5
  <2> DEFINE u == <<t[1], t[2] - g[t[1]]>>
  <2>2. t[2] - g[t[1]] \in 1..h[t[1]] /\ (t[2] - g[t[1]]) + g[t[1]] = t[2]
    BY <2>1
  <2>3. u \in H
    BY <1>3, <2>1, <2>2
  <2>4. q[u] = t
    BY <2>1, <2>2, <2>3
  <2> QED BY <2>3, <2>4
<1> HIDE DEF q
<1>9. Cardinality(F \ G) = Cardinality(H)
  BY <1>3, <1>6, <1>7, <1>8, SameSize
<1>10. Cardinality(F \ G) = Cardinality(F) - Cardinality(G)
  <2>1. F \cap G = G
    BY <1>4
  <2>2. Cardinality(F \ G) = Cardinality(F) - Cardinality(F \cap G)
    BY <1>1, FS_Difference
  <2> QED BY <2>1, <2>2
<1>11. /\ Total(f) = Cardinality(F) /\ Total(g) = Cardinality(G)
       /\ Total(h) = Cardinality(H)
  BY <1>0, TotalIsUnits DEF F, G, H
<1> QED BY <1>1, <1>2, <1>3, <1>9, <1>10, <1>11

\* Nothing to add up.
LEMMA TotalZero ==
  ASSUME NEW D, IsFiniteSet(D), NEW f \in [D -> Nat], \A i \in D : f[i] = 0
  PROVE  Total(f) = 0
<1>1. \A u : u \in Units(f, D) => u[1] \in D /\ u[2] \in 1..f[u[1]]
  BY UnitsProperties
<1>2. Units(f, D) = {}
  BY <1>1
<1> QED BY <1>2, TotalIsUnits, FS_EmptySet

--------------------------------------------------------------------------------
(* Entries in order.                                                          *)

\* Where the place i comes from when the place n is taken away.
Shift(n, i) == IF i < n THEN i ELSE i + 1

LEMMA ShiftProperties ==
  ASSUME NEW L \in Nat, NEW n \in 1..L
  PROVE  /\ \A i \in 1..(L - 1) : Shift(n, i) \in (1..L) \ {n}
         /\ \A i, k \in 1..(L - 1) : Shift(n, i) = Shift(n, k) => i = k
         /\ \A m \in (1..L) \ {n} : \E i \in 1..(L - 1) : Shift(n, i) = m
<1>1. ASSUME NEW m \in (1..L) \ {n} PROVE \E i \in 1..(L - 1) : Shift(n, i) = m
  <2>1. CASE m < n
    <3>1. m \in 1..(L - 1) /\ Shift(n, m) = m
      BY <2>1 DEF Shift
    <3> QED BY <3>1
  <2>2. CASE m > n
    <3>1. m - 1 \in 1..(L - 1) /\ Shift(n, m - 1) = m
      BY <2>2 DEF Shift
    <3> QED BY <3>1
  <2> QED BY <2>1, <2>2
<1>2. \A i \in 1..(L - 1) : Shift(n, i) \in (1..L) \ {n}
  BY DEF Shift
<1>3. \A i, k \in 1..(L - 1) : Shift(n, i) = Shift(n, k) => i = k
  BY DEF Shift
<1> QED BY <1>1, <1>2, <1>3

\* What Remove and TryGet leave of the list when they take one node out.
Without(s, n) == SubSeq(s, 1, n - 1) \o SubSeq(s, n + 1, Len(s))

\* t is the list s without the entry at n.
TakenFrom(s, n, t) ==
  /\ s \in Seq(Entry) /\ n \in 1..Len(s) /\ t \in Seq(Entry)
  /\ Len(t) = Len(s) - 1 /\ \A k \in 1..(Len(s) - 1) : t[k] = s[Shift(n, k)]

LEMMA TakenOut ==
  ASSUME NEW s \in Seq(Entry), NEW n \in 1..Len(s)
  PROVE  TakenFrom(s, n, Without(s, n))
<1> DEFINE S == Entry
           a == SubSeq(s, 1, n - 1)
           b == SubSeq(s, n + 1, Len(s))
<1>1. Len(s) \in Nat /\ \A i \in 1..Len(s) : s[i] \in S
  BY LenProperties, ElementOfSeq
<1>2. /\ a \in Seq(S) /\ Len(a) = n - 1
      /\ \A i \in 1..(n - 1) : a[i] = s[i]
  BY <1>1, SubSeqProperties
<1>3. /\ b \in Seq(S) /\ Len(b) = Len(s) - n
      /\ \A i \in 1..(Len(s) - n) : b[i] = s[n + i]
  <2>1. /\ b \in Seq(S) /\ Len(b) = (IF n + 1 <= Len(s) THEN Len(s) - (n + 1) + 1 ELSE 0)
        /\ \A i \in 1..(Len(s) - (n + 1) + 1) : b[i] = s[n + 1 + i - 1]
    BY <1>1, SubSeqProperties
  <2> HIDE DEF b
  <2>2. ASSUME NEW i \in 1..(Len(s) - n) PROVE b[i] = s[n + i]
    <3>1. i \in 1..(Len(s) - (n + 1) + 1) /\ n + 1 + i - 1 = n + i
      BY <1>1
    <3> QED BY <2>1, <3>1
  <2> QED BY <1>1, <2>1, <2>2
<1> HIDE DEF a, b
<1>4. /\ a \o b \in Seq(S) /\ Len(a \o b) = Len(a) + Len(b)
      /\ \A i \in 1..(Len(a) + Len(b)) : (a \o b)[i] = IF i <= Len(a) THEN a[i] ELSE b[i - Len(a)]
  BY <1>2, <1>3, ConcatProperties
<1>5. ASSUME NEW i \in 1..(Len(s) - 1) PROVE (a \o b)[i] = s[Shift(n, i)]
  <2>1. i \in 1..(Len(a) + Len(b)) /\ (i <= Len(a) <=> i < n)
    BY <1>1, <1>2, <1>3
  <2>2. CASE i < n
    BY <1>2, <1>4, <2>1, <2>2 DEF Shift
  <2>3. CASE ~(i < n)
    <3>1. i - Len(a) \in 1..(Len(s) - n) /\ n + (i - Len(a)) = i + 1
      BY <1>1, <1>2, <2>3
    <3> QED BY <1>3, <1>4, <2>1, <2>3, <3>1 DEF Shift
  <2> QED BY <2>2, <2>3
<1>6. a \o b \in Seq(S) /\ Len(a \o b) = Len(s) - 1
  BY <1>1, <1>2, <1>3, <1>4
<1> QED BY <1>5, <1>6 DEF a, b, Without, TakenFrom

WeightsOf(s)  == [n \in DOMAIN s |-> s[n].weight]
Holders(s, i) == {n \in DOMAIN s : i \in DOMAIN s[n].shared}

\* t is s without the entry at n: its weight and its images are gone.
LEMMA TakenEntry ==
  ASSUME NEW s, NEW n, NEW t, TakenFrom(s, n, t)
  PROVE  /\ Total(WeightsOf(s)) \in Nat /\ Total(WeightsOf(t)) \in Nat
         /\ Total(WeightsOf(s)) = s[n].weight + Total(WeightsOf(t))
         /\ \A i : /\ \A k \in Holders(t, i) : Shift(n, k) \in Holders(s, i)
                   /\ \A m \in Holders(s, i) :
                         m = n \/ \E k \in Holders(t, i) : m = Shift(n, k)
                   /\ Cardinality(Holders(s, i)) \in Nat /\ Cardinality(Holders(t, i)) \in Nat
                   /\ IsFiniteSet(Holders(s, i)) /\ IsFiniteSet(Holders(t, i))
                   /\ Cardinality(Holders(s, i)) = Cardinality(Holders(t, i))
                                 + (IF i \in DOMAIN s[n].shared THEN 1 ELSE 0)
<1> USE DEF TakenFrom
<1> DEFINE D == 1..Len(s)
           E == 1..Len(t)
           p == [k \in E |-> Shift(n, k)]
<1>1. /\ Len(s) \in Nat /\ DOMAIN s = D /\ \A k \in D : s[k] \in Entry
      /\ Len(t) \in Nat /\ DOMAIN t = E /\ \A k \in E : t[k] \in Entry
  BY LenProperties, ElementOfSeq
<1>2. IsFiniteSet(D) /\ IsFiniteSet(E)
  BY <1>1, FS_Interval
<1>3. /\ p \in [E -> D \ {n}]
      /\ \A x, y \in E : p[x] = p[y] => x = y
      /\ \A m \in D \ {n} : \E k \in E : p[k] = m
      /\ \A k \in E : p[k] = Shift(n, k) /\ t[k] = s[p[k]]
  <2>1. E = 1..(Len(s) - 1) /\ \A k \in E : p[k] = Shift(n, k)
    OBVIOUS
  <2>2. /\ \A k \in E : Shift(n, k) \in D \ {n}
        /\ \A x, y \in E : Shift(n, x) = Shift(n, y) => x = y
        /\ \A m \in D \ {n} : \E k \in E : Shift(n, k) = m
    <3>1. /\ \A k \in 1..(Len(s) - 1) : Shift(n, k) \in (1..Len(s)) \ {n}
          /\ \A x, y \in 1..(Len(s) - 1) : Shift(n, x) = Shift(n, y) => x = y
          /\ \A m \in (1..Len(s)) \ {n} : \E k \in 1..(Len(s) - 1) : Shift(n, k) = m
      BY <1>1, ShiftProperties
    <3> QED BY <2>1, <3>1
  <2> HIDE DEF D
  <2> QED BY <2>1, <2>2
<1> HIDE DEF D, E, p
<1>4. /\ WeightsOf(s) \in [D -> Nat] /\ WeightsOf(t) \in [E -> Nat]
      /\ \A k \in E : WeightsOf(t)[k] = WeightsOf(s)[p[k]]
      /\ n \in D /\ WeightsOf(s)[n] = s[n].weight
  BY <1>1, <1>3, CacheAssumption DEF WeightsOf, Entry, D
<1>5. Total(WeightsOf(s)) = s[n].weight + Total(WeightsOf(t))
  <2>1. Total(WeightsOf(s)) = WeightsOf(s)[n] + Total(WeightsOf(t))
    <3> DEFINE f == WeightsOf(s)
               g == WeightsOf(t)
    <3>1. /\ f \in [D -> Nat] /\ g \in [E -> Nat] /\ n \in D
          /\ \A x \in E : g[x] = f[p[x]]
      BY <1>4
    <3> HIDE DEF f, g
    <3>2. TakesOne(f, D, n, g, E, p)
      BY <1>2, <1>3, <3>1 DEF TakesOne
    <3>3. Total(f) = f[n] + Total(g)
      BY <3>2, TotalTakeOne
    <3> QED BY <3>3 DEF f, g
  <2> QED BY <1>4, <2>1
<1>6. Total(WeightsOf(s)) \in Nat /\ Total(WeightsOf(t)) \in Nat
  BY <1>2, <1>4, TotalIsUnits
<1>7. ASSUME NEW i
      PROVE  /\ \A k \in Holders(t, i) : Shift(n, k) \in Holders(s, i)
             /\ \A m \in Holders(s, i) :
                   m = n \/ \E k \in Holders(t, i) : m = Shift(n, k)
             /\ Cardinality(Holders(s, i)) \in Nat /\ Cardinality(Holders(t, i)) \in Nat
             /\ IsFiniteSet(Holders(s, i)) /\ IsFiniteSet(Holders(t, i))
             /\ Cardinality(Holders(s, i)) = Cardinality(Holders(t, i))
                           + (IF i \in DOMAIN s[n].shared THEN 1 ELSE 0)
  <2> DEFINE A == Holders(s, i)
             B == Holders(t, i)
             h == [k \in B |-> p[k]]
  <2>1. A \in SUBSET D /\ B \in SUBSET E
    BY <1>1 DEF Holders
  <2>2. IsFiniteSet(A) /\ IsFiniteSet(B) /\ Cardinality(A) \in Nat /\ Cardinality(B) \in Nat
    BY <1>2, <2>1, FS_Subset, FS_CardinalityType
  <2>3. \A k \in E : k \in B <=> p[k] \in A
    BY <1>1, <1>3 DEF Holders
  <2>4. n \in A <=> i \in DOMAIN s[n].shared
    BY <1>1, <1>4 DEF Holders
  <2> HIDE DEF A, B
  <2>5. h \in [B -> A \ {n}]
    BY <1>3, <2>1, <2>3
  <2>6. \A x, y \in B : h[x] = h[y] => x = y
    BY <1>3, <2>1
  <2>7. \A m \in A \ {n} : \E k \in B : h[k] = m
    BY <1>3, <2>1, <2>3
  <2>8. Cardinality(A \ {n}) = Cardinality(B)
    <3> HIDE DEF h
    <3> QED BY <2>2, <2>5, <2>6, <2>7, SameSize
  <2>9. Cardinality(A \ {n}) = IF n \in A THEN Cardinality(A) - 1 ELSE Cardinality(A)
    BY <2>2, FS_RemoveElement
  <2>10. Cardinality(A) = Cardinality(B) + (IF i \in DOMAIN s[n].shared THEN 1 ELSE 0)
    BY <2>2, <2>4, <2>8, <2>9
  <2>11. /\ \A k \in B : Shift(n, k) \in A
         /\ \A m \in A : m = n \/ \E k \in B : m = Shift(n, k)
    BY <1>3, <2>1, <2>3
  <2> QED BY <2>2, <2>10, <2>11 DEF A, B
<1> QED BY <1>5, <1>6, <1>7

--------------------------------------------------------------------------------
(* The invariant, of the cache and of every record on the way of an Add.      *)

CacheRecord == [lru : Seq(Entry),
                images : [Images -> [weight : Weights \cup {0}, users : Nat]], bytes : Nat]

WeightsIn(c) == [i \in Images |-> c.images[i].weight]

\* An image has as many users as entries hold it, and no less than the weight they gave it.
Counted(c, i) ==
  /\ c.images[i].users = Cardinality(Holders(c.lru, i))
  /\ \A n \in Holders(c.lru, i) : c.lru[n].shared[i] <= c.images[i].weight
  /\ Holders(c.lru, i) = {} => c.images[i].weight = 0

Sound(c) ==
  /\ c \in CacheRecord
  /\ \A m, n \in DOMAIN c.lru : c.lru[m].key = c.lru[n].key => m = n
  /\ c.bytes = Total(WeightsOf(c.lru)) + Total(WeightsIn(c))
  /\ \A i \in Images : Counted(c, i)

Bounded(c) == Len(c.lru) <= Capacity /\ c.bytes <= MaxBytes

IInv == Sound(cache) /\ Bounded(cache)

LEMMA ResourceType ==
  ASSUME NEW res \in Resources
  PROVE  /\ DOMAIN res \in SUBSET Images /\ IsFiniteSet(DOMAIN res)
         /\ res \in [DOMAIN res -> Nat] /\ \A i \in DOMAIN res : res[i] \in Weights
         /\ Total(res) \in Nat
<1>1. /\ DOMAIN res \in SUBSET Images /\ res \in [DOMAIN res -> Nat]
      /\ \A i \in DOMAIN res : res[i] \in Weights
  BY CacheAssumption DEF Resources
<1>2. IsFiniteSet(DOMAIN res)
  BY <1>1, FS_Subset, CacheAssumption
<1> QED BY <1>1, <1>2, TotalIsUnits

\* Remove gives back exactly what the entry held alone, and keeps the rest.
LEMMA RemoveSound ==
  ASSUME NEW c, Sound(c), NEW n \in DOMAIN c.lru
  PROVE  /\ Sound(Remove(c, n)) /\ Remove(c, n).bytes <= c.bytes
         /\ Remove(c, n).lru = Without(c.lru, n)
         /\ Len(Remove(c, n).lru) = Len(c.lru) - 1
         /\ \A k \in 1..(Len(c.lru) - 1) :
               Remove(c, n).lru[k] = c.lru[Shift(n, k)] /\ Shift(n, k) \in DOMAIN c.lru \ {n}
<1> DEFINE d == Remove(c, n)
           e == c.lru[n]
           last == {i \in DOMAIN e.shared : c.images[i].users = 1}
           freed == [i \in last |-> c.images[i].weight]
<1>1. /\ c.lru \in Seq(Entry) /\ Len(c.lru) \in Nat /\ DOMAIN c.lru = 1..Len(c.lru)
      /\ \A k \in DOMAIN c.lru : c.lru[k] \in Entry
      /\ c.images \in [Images -> [weight : Weights \cup {0}, users : Nat]] /\ c.bytes \in Nat
  BY LenProperties, ElementOfSeq DEF Sound, CacheRecord
<1>2. /\ e \in Entry /\ e.weight \in Nat /\ e.shared \in Resources /\ DOMAIN e.shared \in SUBSET Images
  <2>1. e \in Entry
    BY <1>1
  <2>2. e.shared \in Resources /\ e.weight \in Nat
    BY <2>1, CacheAssumption DEF Entry
  <2> QED BY <2>1, <2>2, ResourceType
<1>3. /\ d.lru = Without(c.lru, n)
      /\ d.images = [i \in Images |->
            IF i \in last THEN [weight |-> 0, users |-> 0]
            ELSE IF i \in DOMAIN e.shared THEN [c.images[i] EXCEPT !.users = @ - 1]
            ELSE c.images[i]]
      /\ d.bytes = c.bytes - e.weight - Total(freed)
      /\ d = [lru |-> d.lru, images |-> d.images, bytes |-> d.bytes]
  BY DEF Remove, Without
<1> HIDE DEF d
<1>4. /\ TakenFrom(c.lru, n, d.lru)
      /\ d.lru \in Seq(Entry) /\ Len(d.lru) = Len(c.lru) - 1
      /\ DOMAIN d.lru = 1..(Len(c.lru) - 1)
      /\ \A k \in 1..(Len(c.lru) - 1) :
            d.lru[k] = c.lru[Shift(n, k)] /\ Shift(n, k) \in DOMAIN c.lru \ {n}
  <2>1. /\ d.lru \in Seq(Entry) /\ Len(d.lru) = Len(c.lru) - 1
        /\ \A k \in 1..(Len(c.lru) - 1) : d.lru[k] = c.lru[Shift(n, k)]
        /\ TakenFrom(c.lru, n, d.lru)
    BY <1>1, <1>3, TakenOut DEF TakenFrom
  <2>2. \A k \in 1..(Len(c.lru) - 1) : Shift(n, k) \in 1..Len(c.lru) \ {n}
    BY <1>1, ShiftProperties
  <2>3. DOMAIN d.lru = 1..Len(d.lru)
    BY <2>1, LenProperties
  <2> QED BY <1>1, <2>1, <2>2, <2>3
<1>5. /\ Total(WeightsOf(c.lru)) \in Nat /\ Total(WeightsOf(d.lru)) \in Nat
      /\ Total(WeightsOf(c.lru)) = e.weight + Total(WeightsOf(d.lru))
      /\ \A i : /\ \A k \in Holders(d.lru, i) : Shift(n, k) \in Holders(c.lru, i)
                /\ \A m \in Holders(c.lru, i) :
                      m = n \/ \E k \in Holders(d.lru, i) : m = Shift(n, k)
                /\ Cardinality(Holders(c.lru, i)) \in Nat /\ Cardinality(Holders(d.lru, i)) \in Nat
                /\ IsFiniteSet(Holders(c.lru, i)) /\ IsFiniteSet(Holders(d.lru, i))
                /\ Cardinality(Holders(c.lru, i)) = Cardinality(Holders(d.lru, i))
                              + (IF i \in DOMAIN e.shared THEN 1 ELSE 0)
  BY <1>4, TakenEntry
<1> HIDE DEF e, last, freed
<1>6. ASSUME NEW i \in Images
      PROVE  /\ Counted(d, i)
             /\ d.images[i] \in [weight : Weights \cup {0}, users : Nat]
             /\ i \in last => d.images[i].weight = 0
             /\ i \notin last => d.images[i].weight = c.images[i].weight
  <2>1. /\ c.images[i] \in [weight : Weights \cup {0}, users : Nat]
        /\ c.images[i].users = Cardinality(Holders(c.lru, i))
        /\ \A m \in Holders(c.lru, i) : c.lru[m].shared[i] <= c.images[i].weight
        /\ Holders(c.lru, i) = {} => c.images[i].weight = 0
    BY <1>1 DEF Sound, Counted
  <2>2. /\ Cardinality(Holders(c.lru, i)) \in Nat /\ Cardinality(Holders(d.lru, i)) \in Nat
        /\ Cardinality(Holders(c.lru, i)) = Cardinality(Holders(d.lru, i))
                      + (IF i \in DOMAIN e.shared THEN 1 ELSE 0)
        /\ Cardinality(Holders(c.lru, i)) = 0 <=> Holders(c.lru, i) = {}
        /\ Cardinality(Holders(d.lru, i)) = 0 <=> Holders(d.lru, i) = {}
    BY <1>5, FS_EmptySet
  <2>3. \A k \in Holders(d.lru, i) : d.lru[k].shared[i] <= c.images[i].weight
    <3>1. ASSUME NEW k \in Holders(d.lru, i)
          PROVE  Shift(n, k) \in Holders(c.lru, i) /\ d.lru[k] = c.lru[Shift(n, k)]
      BY <1>4, <1>5 DEF Holders
    <3> QED BY <2>1, <3>1
  <2>4. CASE i \in last
    <3>1. d.images[i] = [weight |-> 0, users |-> 0]
      BY <1>3, <2>4
    <3>2. Cardinality(Holders(d.lru, i)) = 0
      BY <2>1, <2>2, <2>4 DEF last
    <3> QED BY <2>2, <2>4, <3>1, <3>2 DEF Counted
  <2>5. CASE i \notin last /\ i \in DOMAIN e.shared
    <3>1. d.images[i] = [c.images[i] EXCEPT !.users = @ - 1]
      BY <1>3, <2>5
    <3>2. d.images[i].weight = c.images[i].weight /\ d.images[i].users = c.images[i].users - 1
      BY <2>1, <3>1
    <3>3. c.images[i].users # 1
      BY <2>5 DEF last
    <3>4. d.images[i].users = Cardinality(Holders(d.lru, i)) /\ Holders(d.lru, i) # {}
      BY <2>1, <2>2, <2>5, <3>2, <3>3
    <3>5. d.images[i] \in [weight : Weights \cup {0}, users : Nat]
      BY <2>1, <2>2, <3>1, <3>2, <3>4
    <3> QED BY <2>3, <2>5, <3>2, <3>4, <3>5 DEF Counted
  <2>6. CASE i \notin last /\ i \notin DOMAIN e.shared
    <3>1. d.images[i] = c.images[i]
      BY <1>3, <2>6
    <3>2. /\ Cardinality(Holders(d.lru, i)) = Cardinality(Holders(c.lru, i))
          /\ Holders(d.lru, i) = {} => Holders(c.lru, i) = {}
      BY <2>2, <2>6
    <3> QED BY <2>1, <2>3, <2>6, <3>1, <3>2 DEF Counted
  <2> QED BY <2>4, <2>5, <2>6
<1>7. /\ Total(WeightsIn(c)) = Total(WeightsIn(d)) + Total(freed)
      /\ Total(WeightsIn(d)) \in Nat /\ Total(freed) \in Nat
  <2>1. last \in SUBSET Images
    BY <1>2 DEF last
  <2>2. \A i \in Images : c.images[i].weight \in Nat /\ d.images[i].weight \in Nat
    <3> SUFFICES ASSUME NEW i \in Images
                 PROVE  c.images[i].weight \in Nat /\ d.images[i].weight \in Nat
      OBVIOUS
    <3>1. c.images[i].weight \in Weights \cup {0}
      BY <1>1
    <3>2. d.images[i].weight \in Weights \cup {0}
      BY <1>6
    <3>3. \A w \in Weights \cup {0} : w \in Nat
      BY CacheAssumption
    <3> QED BY ONLY <3>1, <3>2, <3>3
  <2>3. GrowsBy(WeightsIn(c), WeightsIn(d), Images, freed, last)
    BY <1>6, <2>1, <2>2, CacheAssumption DEF GrowsBy, WeightsIn, freed
  <2> QED BY <2>3, TotalGrows
<1>8. c.bytes = Total(WeightsOf(c.lru)) + Total(WeightsIn(c))
  BY DEF Sound
<1>9. /\ d.bytes = Total(WeightsOf(d.lru)) + Total(WeightsIn(d))
      /\ d.bytes \in Nat /\ d.bytes <= c.bytes
  <2>1. e.weight \in Nat /\ d.bytes = c.bytes - e.weight - Total(freed)
    BY <1>2, <1>3
  <2>2. /\ Total(WeightsOf(d.lru)) \in Nat
        /\ Total(WeightsOf(c.lru)) = e.weight + Total(WeightsOf(d.lru))
    BY <1>5
  <2> QED BY ONLY <1>7, <1>8, <2>1, <2>2
<1>10. \A k, m \in DOMAIN d.lru : d.lru[k].key = d.lru[m].key => k = m
  <2> SUFFICES ASSUME NEW k \in DOMAIN d.lru, NEW m \in DOMAIN d.lru, d.lru[k].key = d.lru[m].key
               PROVE  k = m
    OBVIOUS
  <2>1. Shift(n, k) = Shift(n, m)
    <3>1. /\ d.lru[k] = c.lru[Shift(n, k)] /\ Shift(n, k) \in DOMAIN c.lru
          /\ d.lru[m] = c.lru[Shift(n, m)] /\ Shift(n, m) \in DOMAIN c.lru
      BY <1>4
    <3> QED BY <3>1 DEF Sound
  <2> QED BY <1>1, <1>4, <2>1, ShiftProperties
<1>11. d \in CacheRecord
  <2>1. d.images \in [Images -> [weight : Weights \cup {0}, users : Nat]]
    BY <1>3, <1>6
  <2> QED BY <1>3, <1>4, <1>9, <2>1 DEF CacheRecord
<1>12. Sound(d)
  BY <1>6, <1>9, <1>10, <1>11 DEF Sound
<1> QED BY <1>3, <1>4, <1>9, <1>12 DEF d

NoKey(c, k) == \A n \in DOMAIN c.lru : c.lru[n].key # k

\* The entry of a key is dropped before the key is cached again.
LEMMA WithoutKeySound ==
  ASSUME NEW c, Sound(c), Bounded(c), NEW k
  PROVE  Sound(WithoutKey(c, k)) /\ Bounded(WithoutKey(c, k)) /\ NoKey(WithoutKey(c, k), k)
<1>1. CASE Position(c, k) = {}
  BY <1>1 DEF WithoutKey, Position, NoKey
<1>2. CASE Position(c, k) # {}
  <2> DEFINE n == CHOOSE m \in Position(c, k) : TRUE
             d == Remove(c, n)
  <2>1. n \in DOMAIN c.lru /\ c.lru[n].key = k
    BY <1>2 DEF Position
  <2>2. WithoutKey(c, k) = d
    BY <1>2 DEF WithoutKey
  <2> HIDE DEF n
  <2>3. /\ Sound(d) /\ d.bytes <= c.bytes /\ Len(d.lru) = Len(c.lru) - 1
        /\ \A m \in 1..(Len(c.lru) - 1) :
              d.lru[m] = c.lru[Shift(n, m)] /\ Shift(n, m) \in DOMAIN c.lru \ {n}
    BY <2>1, RemoveSound
  <2> HIDE DEF d
  <2>4. /\ Len(c.lru) \in Nat /\ Len(d.lru) \in Nat /\ DOMAIN d.lru = 1..Len(d.lru)
        /\ c.bytes \in Nat /\ d.bytes \in Nat
    BY <2>3, LenProperties DEF Sound, CacheRecord
  <2>5. Bounded(d)
    BY <2>3, <2>4, CacheAssumption DEF Bounded
  <2>6. NoKey(d, k)
    <3> SUFFICES ASSUME NEW m \in DOMAIN d.lru PROVE d.lru[m].key # k
      BY DEF NoKey
    <3>1. d.lru[m] = c.lru[Shift(n, m)] /\ Shift(n, m) \in DOMAIN c.lru \ {n}
      BY <2>3, <2>4
    <3> QED BY <2>1, <3>1 DEF Sound
  <2> QED BY <2>2, <2>3, <2>5, <2>6
<1> QED BY <1>1, <1>2

\* The function behind Evicted.
Evicting(c, n, g) == g = [k \in 0..n |-> IF k = 0 THEN c ELSE Remove(g[k - 1], 1)]

LEMMA EvictedFunction ==
  ASSUME NEW c, NEW n \in Nat
  PROVE  \E g : Evicting(c, n, g) /\ Evicted(c, n) = g[n]
<1> DEFINE Built(k) == \E g : Evicting(c, k, g)
           T == {k \in Nat : ~Built(k)}
<1>1. T = {}
  <2> SUFFICES ASSUME T # {} PROVE FALSE
    OBVIOUS
  <2>1. PICK k \in T : \A j \in T : k <= j
    <3>1. T \in SUBSET Nat
      OBVIOUS
    <3> HIDE DEF T
    <3> QED BY <3>1, LeastNumber
  <2>2. k \in Nat /\ ~Built(k)
    OBVIOUS
  <2>3. CASE k = 0
    <3> DEFINE g == [j \in 0..k |-> c]
    <3>1. Evicting(c, k, g)
      BY <2>3 DEF Evicting
    <3> QED BY <2>2, <3>1
  <2>4. CASE k # 0
    <3>1. k - 1 \in Nat /\ k - 1 \notin T
      <4> HIDE DEF T
      <4> QED BY <2>1, <2>2, <2>4
    <3>2. PICK h : Evicting(c, k - 1, h)
      BY <3>1
    <3> DEFINE g == [j \in 0..k |-> IF j = 0 THEN c ELSE Remove(h[j - 1], 1)]
    <3>3. \A j \in 0..(k - 1) : g[j] = h[j]
      BY <2>2, <3>2 DEF Evicting
    <3>4. \A j \in 0..k : j # 0 => j - 1 \in 0..(k - 1)
      BY <2>2
    <3>5. g = [j \in 0..k |-> IF j = 0 THEN c ELSE Remove(g[j - 1], 1)]
      <4>1. \A j \in 0..k : j # 0 => g[j - 1] = h[j - 1]
        <5> HIDE DEF g
        <5> QED BY <3>3, <3>4
      <4>2. g = [j \in 0..k |-> IF j = 0 THEN c ELSE Remove(h[j - 1], 1)]
        OBVIOUS
      <4> HIDE DEF g
      <4> QED BY <4>1, <4>2
    <3> HIDE DEF g
    <3>6. Evicting(c, k, g)
      BY <3>5 DEF Evicting
    <3> QED BY <2>2, <3>6
  <2> QED BY <2>3, <2>4
<1>2. \E g : Evicting(c, n, g)
  BY <1>1
<1>3. Evicted(c, n) = (CHOOSE g : Evicting(c, n, g))[n]
  BY DEF Evicted, Evicting
<1> QED BY <1>2, <1>3

\* Evicting keeps the account and takes one entry at a time.
LEMMA EvictedSound ==
  ASSUME NEW c, Sound(c), Bounded(c), NEW k, NoKey(c, k), NEW n \in 0..Len(c.lru)
  PROVE  /\ Sound(Evicted(c, n)) /\ Bounded(Evicted(c, n)) /\ NoKey(Evicted(c, n), k)
         /\ Len(Evicted(c, n).lru) = Len(c.lru) - n
<1>1. Len(c.lru) \in Nat /\ n \in Nat
  BY LenProperties DEF Sound, CacheRecord
<1>2. PICK g : Evicting(c, n, g) /\ Evicted(c, n) = g[n]
  BY <1>1, EvictedFunction
<1>3. g[0] = c /\ \A j \in 1..n : g[j] = Remove(g[j - 1], 1)
  BY <1>1, <1>2 DEF Evicting
<1> DEFINE Kept(j) == /\ Sound(g[j]) /\ Bounded(g[j]) /\ NoKey(g[j], k)
                      /\ Len(g[j].lru) = Len(c.lru) - j
           T == {j \in Nat : j <= n /\ ~Kept(j)}
<1>4. ASSUME NEW j \in 1..n, Kept(j - 1) PROVE Kept(j)
  <2> DEFINE b == g[j - 1]
             d == Remove(b, 1)
  <2>1. /\ Len(b.lru) \in Nat /\ DOMAIN b.lru = 1..Len(b.lru) /\ Len(b.lru) = Len(c.lru) - (j - 1)
        /\ Sound(b) /\ Bounded(b) /\ NoKey(b, k) /\ b.bytes \in Nat
    BY <1>4, LenProperties DEF Sound, CacheRecord
  <2>2. 1 \in DOMAIN b.lru
    BY <1>1, <2>1
  <2> HIDE DEF b
  <2>3. /\ Sound(d) /\ d.bytes <= b.bytes /\ Len(d.lru) = Len(b.lru) - 1
        /\ \A m \in 1..(Len(b.lru) - 1) :
              d.lru[m] = b.lru[Shift(1, m)] /\ Shift(1, m) \in DOMAIN b.lru \ {1}
    BY <2>1, <2>2, RemoveSound
  <2> HIDE DEF d
  <2>4. Len(d.lru) \in Nat /\ DOMAIN d.lru = 1..Len(d.lru) /\ d.bytes \in Nat
    BY <2>3, LenProperties DEF Sound, CacheRecord
  <2>5. Bounded(d)
    BY <2>1, <2>3, <2>4, CacheAssumption DEF Bounded
  <2>6. NoKey(d, k)
    BY <2>1, <2>3, <2>4 DEF NoKey
  <2>7. Len(d.lru) = Len(c.lru) - j
    BY <1>1, <2>1, <2>3
  <2>8. g[j] = d
    BY <1>3 DEF b, d
  <2> QED BY <2>3, <2>5, <2>6, <2>7, <2>8
<1>5. T = {}
  <2> SUFFICES ASSUME T # {} PROVE FALSE
    OBVIOUS
  <2>1. PICK j \in T : \A i \in T : j <= i
    <3>1. T \in SUBSET Nat
      OBVIOUS
    <3> HIDE DEF T
    <3> QED BY <3>1, LeastNumber
  <2>2. j \in Nat /\ j <= n /\ ~Kept(j)
    OBVIOUS
  <2>3. Kept(0)
    BY <1>1, <1>3
  <2> HIDE DEF Kept
  <2>4. j # 0
    BY <2>2, <2>3
  <2>5. j - 1 \in Nat /\ j - 1 <= n /\ j \in 1..n
    BY <1>1, <2>2, <2>4
  <2>6. j - 1 \notin T
    <3> HIDE DEF T
    <3> QED BY <2>1, <2>2, <2>5
  <2>7. Kept(j - 1)
    BY <2>5, <2>6
  <2> QED BY <1>4, <2>2, <2>5, <2>7
<1>6. Kept(n)
  <2> HIDE DEF Kept
  <2> QED BY <1>1, <1>5
<1> QED BY <1>2, <1>6

\* The larger of two weights.
LEMMA MaxOfTwo ==
  ASSUME NEW a \in Nat, NEW b \in Nat
  PROVE  Max({a, b}) = IF a > b THEN a ELSE b
<1> DEFINE m == IF a > b THEN a ELSE b
<1>1. m \in {a, b} /\ \A y \in {a, b} : m >= y
  OBVIOUS
<1>2. \A x \in {a, b} : (\A y \in {a, b} : x >= y) => x = m
  OBVIOUS
<1> HIDE DEF m
<1>3. (CHOOSE x \in {a, b} : \A y \in {a, b} : x >= y) = m
  BY <1>1, <1>2
<1> QED BY <1>3 DEF Max, m

\* A new entry pays for its weight and for what its images add, no more.
LEMMA InsertSound ==
  ASSUME NEW c, Sound(c), NEW k \in Keys, NoKey(c, k), NEW w \in Weights, NEW res \in Resources
  PROVE  /\ Sound(Insert(c, k, w, res)) /\ Growth(c, res) \in Nat
         /\ Len(Insert(c, k, w, res).lru) = Len(c.lru) + 1
         /\ Insert(c, k, w, res).bytes = c.bytes + w + Growth(c, res)
<1> DEFINE d == Insert(c, k, w, res)
           e == [key |-> k, weight |-> w, shared |-> res]
           L == Len(c.lru)
           more == [i \in DOMAIN res |-> IF res[i] > c.images[i].weight
                                         THEN res[i] - c.images[i].weight ELSE 0]
<1>1. /\ c.lru \in Seq(Entry) /\ L \in Nat /\ DOMAIN c.lru = 1..L
      /\ c.images \in [Images -> [weight : Weights \cup {0}, users : Nat]] /\ c.bytes \in Nat
  BY LenProperties DEF Sound, CacheRecord
<1>2. /\ DOMAIN res \in SUBSET Images /\ \A i \in DOMAIN res : res[i] \in Weights /\ res[i] \in Nat
      /\ w \in Nat /\ e \in Entry /\ e.weight = w /\ e.shared = res /\ e.key = k
  BY ResourceType, CacheAssumption DEF Entry
<1>3. /\ d.lru = Append(c.lru, e)
      /\ d.images = [i \in Images |->
            IF i \notin DOMAIN res THEN c.images[i]
            ELSE [weight |-> Max({res[i], c.images[i].weight}), users |-> c.images[i].users + 1]]
      /\ d.bytes = c.bytes + w + Growth(c, res)
      /\ d = [lru |-> d.lru, images |-> d.images, bytes |-> d.bytes]
      /\ Growth(c, res) = Total(more)
  BY DEF Insert, Growth
<1> HIDE DEF d, e, L, more
<1>4. /\ d.lru \in Seq(Entry) /\ Len(d.lru) = L + 1 /\ DOMAIN d.lru = 1..(L + 1)
      /\ d.lru[L + 1] = e /\ \A n \in 1..L : d.lru[n] = c.lru[n]
  BY <1>1, <1>2, <1>3, AppendProperties, LenProperties DEF L
<1>5. TakenFrom(d.lru, L + 1, c.lru)
  <2>1. \A n \in 1..L : Shift(L + 1, n) = n
    BY <1>1 DEF Shift
  <2>2. Len(c.lru) = L /\ (L + 1) - 1 = L /\ L + 1 \in 1..(L + 1)
    BY <1>1 DEF L
  <2> QED BY <1>1, <1>4, <2>1, <2>2 DEF TakenFrom
<1>6. /\ Total(WeightsOf(d.lru)) = w + Total(WeightsOf(c.lru))
      /\ Total(WeightsOf(c.lru)) \in Nat
      /\ \A i : /\ Cardinality(Holders(c.lru, i)) \in Nat
                /\ Cardinality(Holders(d.lru, i)) = Cardinality(Holders(c.lru, i))
                              + (IF i \in DOMAIN res THEN 1 ELSE 0)
  BY <1>2, <1>4, <1>5, TakenEntry
<1>7. \A i \in Images : c.images[i].weight \in Nat /\ c.images[i].users \in Nat
                        /\ c.images[i].weight \in Weights \cup {0}
  <2> SUFFICES ASSUME NEW i \in Images
               PROVE  /\ c.images[i].weight \in Nat /\ c.images[i].users \in Nat
                      /\ c.images[i].weight \in Weights \cup {0}
    OBVIOUS
  <2>1. c.images[i].weight \in Weights \cup {0} /\ c.images[i].users \in Nat
    BY <1>1
  <2>2. \A x \in Weights \cup {0} : x \in Nat
    BY CacheAssumption
  <2> QED BY ONLY <2>1, <2>2
<1>8. ASSUME NEW i \in Images
      PROVE  /\ Counted(d, i)
             /\ d.images[i] \in [weight : Weights \cup {0}, users : Nat]
             /\ i \notin DOMAIN res => d.images[i].weight = c.images[i].weight
             /\ i \in DOMAIN res => d.images[i].weight = c.images[i].weight + more[i]
  <2>1. /\ c.images[i].users = Cardinality(Holders(c.lru, i))
        /\ \A n \in Holders(c.lru, i) : c.lru[n].shared[i] <= c.images[i].weight
        /\ Holders(c.lru, i) = {} => c.images[i].weight = 0
    BY DEF Sound, Counted
  <2>2. \A n \in Holders(d.lru, i) :
           \/ n = L + 1 /\ i \in DOMAIN res /\ d.lru[n].shared[i] = res[i]
           \/ n \in Holders(c.lru, i) /\ d.lru[n].shared[i] = c.lru[n].shared[i]
    <3> SUFFICES ASSUME NEW n \in Holders(d.lru, i)
                 PROVE  \/ n = L + 1 /\ i \in DOMAIN res /\ d.lru[n].shared[i] = res[i]
                        \/ n \in Holders(c.lru, i) /\ d.lru[n].shared[i] = c.lru[n].shared[i]
      OBVIOUS
    <3>1. n \in 1..(L + 1) /\ i \in DOMAIN d.lru[n].shared
      BY <1>4 DEF Holders
    <3>2. CASE n = L + 1
      BY <1>2, <1>4, <3>1, <3>2
    <3>3. CASE n # L + 1
      <4>1. n \in 1..L
        BY <1>1, <3>1, <3>3
      <4> QED BY <1>1, <1>4, <3>1, <4>1 DEF Holders
    <3> QED BY <3>2, <3>3
  <2>3. \A n \in Holders(c.lru, i) : n \in Holders(d.lru, i)
    <3> SUFFICES ASSUME NEW n \in Holders(c.lru, i) PROVE n \in Holders(d.lru, i)
      OBVIOUS
    <3>1. n \in 1..L /\ i \in DOMAIN c.lru[n].shared
      BY <1>1 DEF Holders
    <3>2. n \in 1..(L + 1)
      BY <1>1, <3>1
    <3> QED BY <1>4, <3>1, <3>2 DEF Holders
  <2>4. \A n \in Holders(c.lru, i) : c.lru[n].shared[i] \in Nat
    <3> SUFFICES ASSUME NEW n \in Holders(c.lru, i) PROVE c.lru[n].shared[i] \in Nat
      OBVIOUS
    <3>1. n \in 1..L /\ i \in DOMAIN c.lru[n].shared
      BY <1>1 DEF Holders
    <3>2. c.lru[n] \in Entry
      BY <1>1, <3>1, ElementOfSeq DEF L
    <3>3. c.lru[n].shared \in Resources
      BY <3>2 DEF Entry
    <3> QED BY <3>1, <3>3, ResourceType
  <2>5. CASE i \notin DOMAIN res
    <3>1. d.images[i] = c.images[i]
      BY <1>3, <2>5
    <3>2. d.images[i].users = Cardinality(Holders(d.lru, i))
      BY <1>6, <1>7, <2>1, <2>5, <3>1
    <3>3. \A n \in Holders(d.lru, i) : d.lru[n].shared[i] <= d.images[i].weight
      BY <2>1, <2>2, <2>5, <3>1
    <3>4. Holders(d.lru, i) = {} => d.images[i].weight = 0
      BY <2>1, <2>3, <3>1
    <3> QED BY <1>1, <2>5, <3>1, <3>2, <3>3, <3>4 DEF Counted
  <2>6. CASE i \in DOMAIN res
    <3> DEFINE m == IF res[i] > c.images[i].weight THEN res[i] ELSE c.images[i].weight
    <3>1. d.images[i] = [weight |-> m, users |-> c.images[i].users + 1]
      <4>1. Max({res[i], c.images[i].weight}) = m
        BY <1>2, <1>7, <2>6, MaxOfTwo
      <4> QED BY <1>3, <2>6, <4>1
    <3>2. m \in Weights \cup {0} /\ m \in Nat /\ m >= res[i] /\ m >= c.images[i].weight
      BY <1>2, <1>7, <2>6
    <3>3. m = c.images[i].weight + more[i]
      BY <1>2, <1>7, <2>6 DEF more
    <3> HIDE DEF m
    <3>4. d.images[i].weight = m /\ d.images[i].users = c.images[i].users + 1
      BY <3>1
    <3>5. d.images[i] \in [weight : Weights \cup {0}, users : Nat]
      BY <1>7, <3>1, <3>2
    <3>6. d.images[i].users = Cardinality(Holders(d.lru, i))
      BY <1>6, <1>7, <2>1, <2>6, <3>4
    <3>7. \A n \in Holders(d.lru, i) : d.lru[n].shared[i] <= m
      <4> SUFFICES ASSUME NEW n \in Holders(d.lru, i) PROVE d.lru[n].shared[i] <= m
        OBVIOUS
      <4>1. CASE n = L + 1 /\ d.lru[n].shared[i] = res[i]
        BY <1>2, <2>6, <3>2, <4>1
      <4>2. CASE n \in Holders(c.lru, i) /\ d.lru[n].shared[i] = c.lru[n].shared[i]
        BY <1>7, <2>1, <2>4, <3>2, <4>2
      <4> QED BY <2>2, <4>1, <4>2
    <3>8. Holders(d.lru, i) # {}
      <4>1. L + 1 \in Holders(d.lru, i)
        BY <1>1, <1>2, <1>4, <2>6 DEF Holders
      <4> QED BY <4>1
    <3> QED BY <2>6, <3>3, <3>4, <3>5, <3>6, <3>7, <3>8 DEF Counted
  <2> QED BY <2>5, <2>6
<1>9. /\ Total(WeightsIn(d)) = Total(WeightsIn(c)) + Total(more)
      /\ Total(WeightsIn(c)) \in Nat /\ Total(more) \in Nat
  <2>1. \A i \in Images : d.images[i].weight \in Nat
    <3> SUFFICES ASSUME NEW i \in Images PROVE d.images[i].weight \in Nat
      OBVIOUS
    <3>1. d.images[i].weight \in Weights \cup {0}
      BY <1>8
    <3>2. \A x \in Weights \cup {0} : x \in Nat
      BY CacheAssumption
    <3> QED BY ONLY <3>1, <3>2
  <2>2. more \in [DOMAIN res -> Nat]
    BY <1>2, <1>7 DEF more
  <2>3. GrowsBy(WeightsIn(d), WeightsIn(c), Images, more, DOMAIN res)
    BY <1>2, <1>7, <1>8, <2>1, <2>2, CacheAssumption DEF GrowsBy, WeightsIn
  <2> QED BY <2>3, TotalGrows
<1>10. /\ d.bytes = Total(WeightsOf(d.lru)) + Total(WeightsIn(d)) /\ d.bytes \in Nat
       /\ Growth(c, res) \in Nat
  <2>1. c.bytes = Total(WeightsOf(c.lru)) + Total(WeightsIn(c))
    BY DEF Sound
  <2> QED BY <1>1, <1>2, <1>3, <1>6, <1>9, <2>1
<1>11. \A n, m \in DOMAIN d.lru : d.lru[n].key = d.lru[m].key => n = m
  <2> SUFFICES ASSUME NEW n \in 1..(L + 1), NEW m \in 1..(L + 1), d.lru[n].key = d.lru[m].key
               PROVE  n = m
    BY <1>4
  <2>1. \A j \in 1..L : c.lru[j].key # k
    BY <1>1 DEF NoKey
  <2>2. \A j \in 1..(L + 1) : j = L + 1 \/ j \in 1..L
    BY <1>1
  <2>3. CASE n = L + 1 \/ m = L + 1
    BY <1>2, <1>4, <2>1, <2>2, <2>3
  <2>4. CASE n \in 1..L /\ m \in 1..L
    BY <1>1, <1>4, <2>4 DEF Sound
  <2> QED BY <2>2, <2>3, <2>4
<1>12. d \in CacheRecord
  <2>1. d.images \in [Images -> [weight : Weights \cup {0}, users : Nat]]
    BY <1>3, <1>8
  <2> QED BY <1>3, <1>4, <1>10, <2>1 DEF CacheRecord
<1>13. Sound(d)
  BY <1>8, <1>10, <1>11, <1>12 DEF Sound
<1> QED BY <1>3, <1>4, <1>10, <1>13 DEF d, L

\* A hit changes the order and nothing else.
LEMMA HitSound ==
  ASSUME NEW c, Sound(c), NEW n \in DOMAIN c.lru, NEW d,
         d = [c EXCEPT !.lru = Append(Without(c.lru, n), c.lru[n])]
  PROVE  Sound(d) /\ d.bytes = c.bytes /\ Len(d.lru) = Len(c.lru)
<1> DEFINE e == c.lru[n]
           L == Len(c.lru)
           mid == Without(c.lru, n)
<1>1. /\ c.lru \in Seq(Entry) /\ L \in Nat /\ DOMAIN c.lru = 1..L /\ e \in Entry /\ n \in 1..L
      /\ c.images \in [Images -> [weight : Weights \cup {0}, users : Nat]] /\ c.bytes \in Nat
  BY LenProperties, ElementOfSeq DEF Sound, CacheRecord
<1>2. d.lru = Append(mid, e) /\ d.images = c.images /\ d.bytes = c.bytes
  BY DEF Sound, CacheRecord
<1>3. d = [lru |-> d.lru, images |-> d.images, bytes |-> d.bytes]
  BY DEF Sound, CacheRecord
<1>4. TakenFrom(c.lru, n, mid)
  BY <1>1, TakenOut
<1>5. /\ mid \in Seq(Entry) /\ Len(mid) = L - 1
      /\ \A k \in 1..(L - 1) : mid[k] = c.lru[Shift(n, k)]
  BY <1>4 DEF TakenFrom
<1> HIDE DEF e, mid
<1>6. /\ d.lru \in Seq(Entry) /\ Len(d.lru) = L /\ DOMAIN d.lru = 1..L /\ d.lru[L] = e
      /\ \A k \in 1..(L - 1) : d.lru[k] = mid[k]
  <2> HIDE DEF L
  <2>1. /\ d.lru \in Seq(Entry) /\ Len(d.lru) = Len(mid) + 1
        /\ \A k \in 1..Len(mid) : d.lru[k] = mid[k]
        /\ d.lru[Len(mid) + 1] = e
    <3>1. mid \in Seq(Entry) /\ e \in Entry
      BY <1>1, <1>5
    <3> QED BY ONLY <1>2, <3>1, AppendProperties
  <2>2. Len(mid) + 1 = L
    BY <1>1, <1>5
  <2>3. DOMAIN d.lru = 1..L
    BY <2>1, <2>2, LenProperties
  <2> QED BY <1>5, <2>1, <2>2, <2>3
<1>7. TakenFrom(d.lru, L, mid)
  <2>1. \A k \in 1..(L - 1) : Shift(L, k) = k
    BY <1>1 DEF Shift
  <2>2. L \in 1..L
    BY <1>1
  <2> HIDE DEF L
  <2> QED BY <1>1, <1>5, <1>6, <2>1, <2>2 DEF TakenFrom
<1> HIDE DEF L
<1>8. /\ Total(WeightsOf(d.lru)) = Total(WeightsOf(c.lru))
      /\ \A i : Cardinality(Holders(d.lru, i)) = Cardinality(Holders(c.lru, i))
  <2>1. /\ Total(WeightsOf(c.lru)) = e.weight + Total(WeightsOf(mid))
        /\ \A i : Cardinality(Holders(c.lru, i))
                    = Cardinality(Holders(mid, i)) + (IF i \in DOMAIN e.shared THEN 1 ELSE 0)
    BY <1>4, TakenEntry DEF e
  <2>2. /\ Total(WeightsOf(d.lru)) = e.weight + Total(WeightsOf(mid))
        /\ \A i : Cardinality(Holders(d.lru, i))
                    = Cardinality(Holders(mid, i)) + (IF i \in DOMAIN e.shared THEN 1 ELSE 0)
    <3>1. /\ Total(WeightsOf(d.lru)) = d.lru[L].weight + Total(WeightsOf(mid))
          /\ \A i : Cardinality(Holders(d.lru, i))
                      = Cardinality(Holders(mid, i))
                        + (IF i \in DOMAIN d.lru[L].shared THEN 1 ELSE 0)
      BY ONLY <1>7, TakenEntry
    <3> QED BY <1>6, <3>1
  <2> QED BY <2>1, <2>2
\* Where each entry was before.
<1> DEFINE was(k) == IF k = L THEN n ELSE Shift(n, k)
<1>9. /\ \A k \in 1..L : was(k) \in 1..L /\ d.lru[k] = c.lru[was(k)]
      /\ \A k, m \in 1..L : was(k) = was(m) => k = m
      /\ \A m \in 1..L : \E k \in 1..L : was(k) = m
  <2>1. \A k \in 1..L : k = L \/ k \in 1..(L - 1)
    BY <1>1
  <2>2. /\ \A k \in 1..(L - 1) : Shift(n, k) \in (1..L) \ {n} /\ k \in 1..L /\ k # L
        /\ \A i, k \in 1..(L - 1) : Shift(n, i) = Shift(n, k) => i = k
        /\ \A m \in (1..L) \ {n} : \E i \in 1..(L - 1) : Shift(n, i) = m
        /\ L \in 1..L
    <3>1. /\ \A k \in 1..(L - 1) : Shift(n, k) \in (1..L) \ {n}
          /\ \A i, k \in 1..(L - 1) : Shift(n, i) = Shift(n, k) => i = k
          /\ \A m \in (1..L) \ {n} : \E i \in 1..(L - 1) : Shift(n, i) = m
      BY <1>1, ShiftProperties
    <3>2. \A k \in 1..(L - 1) : k \in 1..L /\ k # L
      BY <1>1
    <3>3. L \in 1..L
      BY <1>1
    <3> QED BY <3>1, <3>2, <3>3
  <2>3. \A k \in 1..L : was(k) \in 1..L /\ d.lru[k] = c.lru[was(k)]
    BY <1>1, <1>5, <1>6, <2>1, <2>2 DEF e
  <2>4. \A k, m \in 1..L : was(k) = was(m) => k = m
    BY <2>1, <2>2
  <2>5. \A m \in 1..L : \E k \in 1..L : was(k) = m
    <3> SUFFICES ASSUME NEW m \in 1..L PROVE \E k \in 1..L : was(k) = m
      OBVIOUS
    <3>1. CASE m = n
      BY <2>2, <3>1
    <3>2. CASE m # n
      <4>1. PICK k \in 1..(L - 1) : Shift(n, k) = m
        BY <2>2, <3>2
      <4> QED BY <2>2, <4>1
    <3> QED BY <3>1, <3>2
  <2> QED BY <2>3, <2>4, <2>5
<1> HIDE DEF was
<1>10. ASSUME NEW i \in Images PROVE Counted(d, i)
  <2>1. \A k \in Holders(d.lru, i) :
           was(k) \in Holders(c.lru, i) /\ d.lru[k] = c.lru[was(k)]
    BY <1>1, <1>6, <1>9 DEF Holders
  <2>2. Holders(d.lru, i) = {} => Holders(c.lru, i) = {}
    <3> SUFFICES ASSUME NEW m \in Holders(c.lru, i) PROVE \E k : k \in Holders(d.lru, i)
      OBVIOUS
    <3>1. m \in 1..L /\ i \in DOMAIN c.lru[m].shared
      BY <1>1 DEF Holders
    <3>2. PICK k \in 1..L : was(k) = m
      BY <1>9, <3>1
    <3>3. k \in Holders(d.lru, i)
      BY <1>6, <1>9, <3>1, <3>2 DEF Holders
    <3> QED BY <3>3
  <2>3. Counted(c, i)
    BY DEF Sound
  <2> QED BY <1>2, <1>8, <2>1, <2>2, <2>3 DEF Counted
<1>11. \A k, m \in DOMAIN d.lru : d.lru[k].key = d.lru[m].key => k = m
  <2> SUFFICES ASSUME NEW k \in 1..L, NEW m \in 1..L, d.lru[k].key = d.lru[m].key PROVE k = m
    BY <1>6
  <2>1. /\ was(k) \in DOMAIN c.lru /\ d.lru[k] = c.lru[was(k)]
        /\ was(m) \in DOMAIN c.lru /\ d.lru[m] = c.lru[was(m)]
    BY <1>1, <1>9
  <2>2. \A i, j \in DOMAIN c.lru : c.lru[i].key = c.lru[j].key => i = j
    BY DEF Sound
  <2>3. was(k) = was(m)
    BY <2>1, <2>2
  <2> QED BY <1>9, <2>3
<1>12. d.bytes = Total(WeightsOf(d.lru)) + Total(WeightsIn(d))
  BY <1>2, <1>8 DEF Sound, WeightsIn
<1>13. d \in CacheRecord
  BY <1>1, <1>2, <1>3, <1>6 DEF CacheRecord
<1> QED BY <1>2, <1>6, <1>10, <1>11, <1>12, <1>13 DEF Sound, L

--------------------------------------------------------------------------------
(* Theorems.                                                                  *)

LEMMA InitInv == Init => IInv
<1> SUFFICES ASSUME Init PROVE IInv
  OBVIOUS
<1>1. /\ cache.lru = <<>> /\ cache.bytes = 0
      /\ cache.images = [i \in Images |-> [weight |-> 0, users |-> 0]]
      /\ cache = [lru |-> cache.lru, images |-> cache.images, bytes |-> cache.bytes]
  BY DEF Init
<1>2. cache.lru \in Seq(Entry) /\ Len(cache.lru) = 0 /\ DOMAIN cache.lru = {}
  <2>1. <<>> \in Seq(Entry) /\ Len(<<>>) = 0 /\ DOMAIN <<>> = {}
    OBVIOUS
  <2> QED BY <1>1, <2>1
<1>3. cache \in CacheRecord
  <2>1. cache.images \in [Images -> [weight : Weights \cup {0}, users : Nat]]
    BY <1>1
  <2>2. cache.bytes \in Nat
    BY <1>1
  <2> QED BY <1>1, <1>2, <2>1, <2>2 DEF CacheRecord
<1>4. Total(WeightsOf(cache.lru)) = 0
  <2>1. WeightsOf(cache.lru) \in [{} -> Nat]
    BY <1>2 DEF WeightsOf
  <2> QED BY <2>1, FS_EmptySet, TotalZero
<1>5. Total(WeightsIn(cache)) = 0
  <2>1. WeightsIn(cache) \in [Images -> Nat] /\ \A i \in Images : WeightsIn(cache)[i] = 0
    BY <1>1 DEF WeightsIn
  <2> QED BY <2>1, TotalZero, CacheAssumption
<1>6. ASSUME NEW i \in Images PROVE Counted(cache, i)
  <2>1. Holders(cache.lru, i) = {}
    BY <1>2 DEF Holders
  <2>2. cache.images[i].users = 0 /\ cache.images[i].weight = 0
    BY <1>1
  <2> QED BY <2>1, <2>2, FS_EmptySet DEF Counted
<1>7. Sound(cache)
  BY <1>1, <1>2, <1>3, <1>4, <1>5, <1>6 DEF Sound
<1>8. Bounded(cache)
  BY <1>1, <1>2, CacheAssumption DEF Bounded
<1> QED BY <1>7, <1>8 DEF IInv

\* The bounds, from Fits: an entry is inserted only where it fits.
LEMMA AddInv ==
  ASSUME IInv, NEW k \in Keys, NEW w \in Weights, NEW res \in Resources, Add(k, w, res)
  PROVE  IInv'
<1> DEFINE c == WithoutKey(cache, k)
<1>1. Sound(c) /\ Bounded(c) /\ NoKey(c, k)
  BY WithoutKeySound DEF IInv
<1>2. CASE TooLarge(w, res) /\ cache' = c
  BY <1>1, <1>2 DEF IInv
<1>3. CASE \E n \in 0..Len(c.lru) :
              /\ Fits(Evicted(c, n), w, res) /\ cache' = Insert(Evicted(c, n), k, w, res)
  <2>1. PICK n \in 0..Len(c.lru) :
           /\ Fits(Evicted(c, n), w, res) /\ cache' = Insert(Evicted(c, n), k, w, res)
    BY <1>3
  <2> HIDE DEF c
  <2> DEFINE b == Evicted(c, n)
  <2>2. Sound(b) /\ NoKey(b, k)
    BY <1>1, EvictedSound
  <2>3. Fits(b, w, res) /\ cache' = Insert(b, k, w, res)
    BY <2>1
  <2> HIDE DEF b
  <2>4. Len(b.lru) \in Nat
    BY <2>2, LenProperties DEF Sound, CacheRecord
  <2>5. /\ Sound(Insert(b, k, w, res)) /\ Len(Insert(b, k, w, res).lru) = Len(b.lru) + 1
        /\ Insert(b, k, w, res).bytes = b.bytes + w + Growth(b, res)
    BY <2>2, InsertSound
  <2>6. Bounded(Insert(b, k, w, res))
    BY <2>3, <2>4, <2>5, CacheAssumption DEF Fits, Bounded
  <2> QED BY <2>3, <2>5, <2>6 DEF IInv
<1> QED BY <1>2, <1>3 DEF Add

LEMMA TryGetInv ==
  ASSUME IInv, NEW k \in Keys, TryGet(k)
  PROVE  IInv'
<1>1. PICK n \in DOMAIN cache.lru :
         cache' = [cache EXCEPT !.lru = SubSeq(@, 1, n - 1) \o SubSeq(@, n + 1, Len(@)) \o <<@[n]>>]
  BY DEF TryGet, Position
<1>2. Sound(cache) /\ Bounded(cache)
  BY DEF IInv
<1>3. /\ cache.lru \in Seq(Entry) /\ DOMAIN cache.lru = 1..Len(cache.lru)
      /\ cache.lru[n] \in Entry
  BY <1>2, LenProperties, ElementOfSeq DEF Sound, CacheRecord
<1>4. Without(cache.lru, n) \in Seq(Entry)
  BY <1>3, TakenOut DEF TakenFrom
<1>5. Append(Without(cache.lru, n), cache.lru[n]) = Without(cache.lru, n) \o <<cache.lru[n]>>
  BY <1>3, <1>4, AppendIsConcat
<1>6. cache' = [cache EXCEPT !.lru = Append(Without(cache.lru, n), cache.lru[n])]
  BY <1>1, <1>5 DEF Without
<1>7. Sound(cache') /\ cache'.bytes = cache.bytes /\ Len(cache'.lru) = Len(cache.lru)
  BY <1>2, <1>6, HitSound
<1> QED BY <1>2, <1>7 DEF IInv, Bounded

\* The inductive invariant: the account is exact, and within the bounds, after every
\* operation. It needs all of Sound at once: Remove gives an image's bytes back when its
\* users say that nobody else holds it, so the users must be right for the bytes to be.
THEOREM Inductive == Spec => []IInv
<1>1. IInv /\ [Next]_cache => IInv'
  <2> SUFFICES ASSUME IInv, [Next]_cache PROVE IInv'
    OBVIOUS
  <2>1. CASE UNCHANGED cache
    BY <2>1 DEF IInv
  <2>2. ASSUME NEW k \in Keys, TryGet(k) PROVE IInv'
    BY <2>2, TryGetInv
  <2>3. ASSUME NEW k \in Keys, NEW w \in Weights, NEW res \in Resources, Add(k, w, res)
        PROVE  IInv'
    BY <2>3, AddInv
  <2> QED BY <2>1, <2>2, <2>3 DEF Next
<1> QED BY InitInv, <1>1, PTL DEF Spec

\* BoundedCache never holds more entries or bytes than its bounds, nor a key twice.
THEOREM TypeCorrect == Spec => []TypeOK
<1>1. IInv => TypeOK
  <2> SUFFICES ASSUME IInv PROVE TypeOK
    OBVIOUS
  <2>1. /\ cache.lru \in Seq(Entry) /\ Len(cache.lru) \in Nat
        /\ DOMAIN cache.lru = 1..Len(cache.lru)
        /\ cache.images \in [Images -> [weight : Weights \cup {0}, users : Nat]]
        /\ cache.bytes \in Nat
    BY LenProperties DEF IInv, Sound, CacheRecord
  <2>2. ASSUME NEW i \in Images PROVE cache.images[i].users \in 0..Len(cache.lru)
    <3>1. /\ IsFiniteSet(1..Len(cache.lru)) /\ Cardinality(1..Len(cache.lru)) = Len(cache.lru)
      <4>1. ASSUME NEW N \in Nat PROVE IsFiniteSet(1..N) /\ Cardinality(1..N) = N
        BY FS_Interval
      <4> QED BY <2>1, <4>1
    <3>2. Holders(cache.lru, i) \in SUBSET (1..Len(cache.lru))
      BY <2>1 DEF Holders
    <3>3. Cardinality(Holders(cache.lru, i)) <= Len(cache.lru)
      BY <3>1, <3>2, FS_Subset
    <3>4. cache.images[i].users = Cardinality(Holders(cache.lru, i))
      BY DEF IInv, Sound, Counted
    <3>5. cache.images[i].users \in Nat
      BY <2>1
    <3> QED BY <2>1, <3>3, <3>4, <3>5
  <2>3. cache.images \in [Images -> [weight : Weights \cup {0}, users : 0..Len(cache.lru)]]
    BY <2>1, <2>2
  <2>4. Len(cache.lru) <= Capacity /\ cache.bytes \in 0..MaxBytes
    BY <2>1, CacheAssumption DEF IInv, Bounded
  <2>5. \A m, n \in DOMAIN cache.lru : cache.lru[m].key = cache.lru[n].key => m = n
    BY DEF IInv, Sound
  <2> QED BY <2>1, <2>3, <2>4, <2>5 DEF TypeOK
<1> QED BY Inductive, <1>1, PTL

\* However entries that share images come and go, the byte account is the sum of what is
\* retained, and an image is counted exactly while an entry holds it.
THEOREM Exact == Spec => []ExactAccount
<1>1. IInv => ExactAccount
  <2> SUFFICES ASSUME IInv PROVE ExactAccount
    OBVIOUS
  <2>1. cache.bytes = Total([n \in DOMAIN cache.lru |-> cache.lru[n].weight])
                      + Total([i \in Images |-> cache.images[i].weight])
    BY DEF IInv, Sound, WeightsOf, WeightsIn
  <2>2. \A i : Users(i) = Holders(cache.lru, i)
    BY DEF Users, Holders
  <2>3. \A i \in Images : Counted(cache, i)
    BY DEF IInv, Sound
  <2> QED BY <2>1, <2>2, <2>3 DEF ExactAccount, Counted
<1> QED BY Inductive, <1>1, PTL

\* What may be cached at all fits into an empty cache: nothing is counted there, and the
\* images add no more than their whole weights.
LEMMA EmptyFits ==
  ASSUME NEW c, Sound(c), Len(c.lru) = 0, NEW w \in Weights, NEW res \in Resources,
         ~TooLarge(w, res)
  PROVE  Fits(c, w, res)
<1>1. /\ DOMAIN c.lru = {} /\ c.bytes = Total(WeightsOf(c.lru)) + Total(WeightsIn(c))
      /\ c.images \in [Images -> [weight : Weights \cup {0}, users : Nat]]
  <2>1. /\ c.lru \in Seq(Entry) /\ c.bytes = Total(WeightsOf(c.lru)) + Total(WeightsIn(c))
        /\ c.images \in [Images -> [weight : Weights \cup {0}, users : Nat]]
    BY DEF Sound, CacheRecord
  <2>2. DOMAIN c.lru = 1..0
    BY <2>1, LenProperties
  <2> QED BY <2>1, <2>2
<1>2. \A i \in Images : c.images[i].weight = 0
  <2>1. \A i : Holders(c.lru, i) = {}
    BY <1>1 DEF Holders
  <2> QED BY <2>1 DEF Sound, Counted
<1>3. c.bytes = 0
  <2>1. WeightsOf(c.lru) \in [{} -> Nat] /\ \A i \in {} : WeightsOf(c.lru)[i] = 0
    BY <1>1 DEF WeightsOf
  <2>2. WeightsIn(c) \in [Images -> Nat] /\ \A i \in Images : WeightsIn(c)[i] = 0
    BY <1>2 DEF WeightsIn
  <2>3. Total(WeightsOf(c.lru)) = 0
    BY <2>1, FS_EmptySet, TotalZero
  <2>4. Total(WeightsIn(c)) = 0
    BY <2>2, CacheAssumption, TotalZero
  <2> QED BY <1>1, <2>3, <2>4
<1>4. Growth(c, res) = Total(res)
  <2> DEFINE more == [i \in DOMAIN res |-> IF res[i] > c.images[i].weight
                                           THEN res[i] - c.images[i].weight ELSE 0]
  <2>1. DOMAIN res \in SUBSET Images /\ res \in [DOMAIN res -> Nat]
    BY ResourceType
  <2>2. \A i \in DOMAIN res : more[i] = res[i]
    <3> SUFFICES ASSUME NEW i \in DOMAIN res PROVE more[i] = res[i]
      OBVIOUS
    <3>1. res[i] \in Nat /\ c.images[i].weight = 0
      BY <1>2, <2>1
    <3> QED BY <3>1
  <2>3. more = res
    BY <2>1, <2>2
  <2> QED BY <2>3 DEF Growth
<1>5. w + Total(res) <= MaxBytes
  <2>1. w \in Nat /\ Total(res) \in Nat
    BY ResourceType, CacheAssumption
  <2> QED BY <2>1, CacheAssumption DEF TooLarge
<1>6. w \in Nat /\ Total(res) \in Nat
  BY ResourceType, CacheAssumption
<1> QED BY <1>3, <1>4, <1>5, <1>6, CacheAssumption DEF Fits

\* The loop of Add that evicts the oldest entry until the new one fits never meets an
\* empty list.
THEOREM EvictionEnds == Spec => []EvictionSuffices
<1>1. IInv => EvictionSuffices
  <2> SUFFICES ASSUME IInv, NEW k \in Keys, NEW w \in Weights, NEW res \in Resources,
                      ~TooLarge(w, res)
               PROVE  \E n \in 0..Len(WithoutKey(cache, k).lru) :
                         Fits(Evicted(WithoutKey(cache, k), n), w, res)
    BY DEF EvictionSuffices
  <2> DEFINE c == WithoutKey(cache, k)
  <2>1. Sound(c) /\ Bounded(c) /\ NoKey(c, k)
    BY WithoutKeySound DEF IInv
  <2> HIDE DEF c
  <2>2. Len(c.lru) \in Nat
    BY <2>1, LenProperties DEF Sound, CacheRecord
  <2> DEFINE n == Len(c.lru)
  <2>3. n \in 0..Len(c.lru) /\ Len(c.lru) - n = 0
    BY <2>2
  <2>4. Sound(Evicted(c, n)) /\ Len(Evicted(c, n).lru) = Len(c.lru) - n
    BY <2>1, <2>3, EvictedSound
  <2>5. Fits(Evicted(c, n), w, res)
    BY <2>3, <2>4, EmptyFits
  <2> QED BY <2>3, <2>5 DEF c
<1> QED BY Inductive, <1>1, PTL
================================================================================
