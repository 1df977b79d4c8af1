----------------------------- MODULE SumTheorems -----------------------------
(* Facts about SumFunctionOnSet, the sum of a function over a finite set,  *)
(* and about least elements, which is how inductions are done here.        *)
EXTENDS Functions, FiniteSetTheorems, TLAPS

(* A nonempty family of subsets of a finite set has a minimal member.      *)
LEMMA MinimalSubset ==
    ASSUME NEW S, IsFiniteSet(S), NEW B, B \subseteq SUBSET S, B # {}
    PROVE  \E T \in B : \A U \in B : U \subseteq T => U = T
  <1>1. IsWellFoundedOn(StrictSubsetOrdering(S), FiniteSubsetsOf(S))
    BY FS_StrictSubsetOrderingWellFounded
  <1>2. B \subseteq FiniteSubsetsOf(S)
    BY FS_FiniteSubsetsOfFinite
  <1>3. PICK T \in B : \A U \in B : ~ (<<U, T>> \in StrictSubsetOrdering(S))
    BY <1>1, <1>2, WFMin
  <1> QED
    BY <1>3 DEF StrictSubsetOrdering

(* A nonempty set of numbers has a least one.                              *)
LEMMA LeastNumber ==
    ASSUME NEW B \in SUBSET Nat, B # {}
    PROVE  \E m \in B : \A n \in B : m <= n
  <1>1. PICK b \in B : TRUE
    OBVIOUS
  <1> DEFINE F == {0..n : n \in {m \in B : m <= b}}
  <1>2. IsFiniteSet(0..b) /\ F \subseteq SUBSET (0..b) /\ F # {}
    <2>1. IsFiniteSet(0..b)
      BY FS_Interval
    <2>2. ASSUME NEW n \in B, n <= b PROVE 0..n \subseteq 0..b
      BY <2>2
    <2>3. F # {}
      BY <1>1
    <2> QED BY <2>1, <2>2, <2>3
  <1>3. PICK T \in F : \A U \in F : U \subseteq T => U = T
    <2> DEFINE S == 0..b
    <2>1. IsFiniteSet(S) /\ F \subseteq SUBSET S /\ F # {}
      BY <1>2
    <2> HIDE DEF S, F
    <2> QED BY <2>1, MinimalSubset
  <1> HIDE DEF F
  <1>4. PICK m \in B : m <= b /\ T = 0..m
    BY <1>3 DEF F
  <1>5. ASSUME NEW n \in B, n < m PROVE FALSE
    <2>1. 0..n \in F
      BY <1>4, <1>5 DEF F
    <2>2. 0..n \subseteq 0..m /\ m \in 0..m /\ m \notin 0..n
      BY <1>5
    <2> QED BY <1>3, <1>4, <2>1, <2>2
  <1> QED BY <1>5

One(t) == CHOOSE x \in t : TRUE

(* What the definition of the sum says of the table g of its values.       *)
Sums(f, S, g) == g = [t \in SUBSET S |-> IF t = {} THEN 0 ELSE f[One(t)] + g[t \ {One(t)}]]

LEMMA OneIsIn == ASSUME NEW t, t # {} PROVE One(t) \in t
  BY DEF One

LEMMA SumIsTable == ASSUME NEW f, NEW S PROVE SumFunctionOnSet(f, S) = (CHOOSE g : Sums(f, S, g))[S]
  BY DEF SumFunctionOnSet, FoldFunctionOnSet, MapThenFoldSet, Sums, One

(* Two tables agree where both are defined.                                *)
LEMMA TablesAgree ==
    ASSUME NEW f, NEW S, IsFiniteSet(S), NEW g, Sums(f, S, g), NEW T, NEW h, Sums(f, T, h),
           NEW U \in SUBSET S, U \subseteq T
    PROVE  g[U] = h[U]
  <1> DEFINE B == {t \in SUBSET S : t \subseteq T /\ g[t] # h[t]}
  <1>1. ASSUME B # {} PROVE FALSE
    <2>1. PICK t \in B : \A u \in B : u \subseteq t => u = t
      <3>1. B \subseteq SUBSET S
        OBVIOUS
      <3> HIDE DEF B
      <3> QED
        BY <1>1, <3>1, MinimalSubset
    <2>2. /\ g[t] = IF t = {} THEN 0 ELSE f[One(t)] + g[t \ {One(t)}]
          /\ h[t] = IF t = {} THEN 0 ELSE f[One(t)] + h[t \ {One(t)}]
      BY DEF Sums
    <2>3. t # {} => g[t \ {One(t)}] = h[t \ {One(t)}]
      BY <2>1, OneIsIn
    <2> QED
      BY <2>1, <2>2, <2>3
  <1> QED
    BY <1>1

(* There is a table for every finite set.                                  *)
LEMMA TableExists ==
    ASSUME NEW f, NEW S, IsFiniteSet(S)
    PROVE  \E g : Sums(f, S, g)
  <1> DEFINE B == {t \in SUBSET S : ~ \E g : Sums(f, t, g)}
  <1>1. ASSUME B # {} PROVE FALSE
    <2>1. PICK T \in B : \A U \in B : U \subseteq T => U = T
      <3>1. B \subseteq SUBSET S
        OBVIOUS
      <3> HIDE DEF B
      <3> QED
        BY <1>1, <3>1, MinimalSubset
    <2> DEFINE Smaller(x) == CHOOSE g : Sums(f, T \ {x}, g)
               G == [t \in SUBSET T |->
                       IF t = {} THEN 0 ELSE f[One(t)] + Smaller(One(t))[t \ {One(t)}]]
    <2>2. ASSUME NEW x \in T PROVE Sums(f, T \ {x}, Smaller(x))
      <3>1. T \ {x} \notin B /\ T \ {x} \in SUBSET S
        BY <2>1, <2>2
      <3>2. \E g : Sums(f, T \ {x}, g)
        BY <3>1
      <3> QED
        BY <3>2
    <2>3. ASSUME NEW x \in T PROVE IsFiniteSet(T \ {x})
      BY FS_Subset
    <2> HIDE DEF Smaller
    <2>4. ASSUME NEW t \in SUBSET T, t # {}
          PROVE  Smaller(One(t))[t \ {One(t)}] = G[t \ {One(t)}]
      <3> DEFINE u == t \ {One(t)}
      <3>1. One(t) \in T
        BY <2>4, OneIsIn
      <3>2. Smaller(One(t))[u] = IF u = {} THEN 0 ELSE f[One(u)] + Smaller(One(t))[u \ {One(u)}]
        BY <2>2, <3>1 DEF Sums
      <3>3. CASE u = {}
        BY <3>2, <3>3
      <3>4. CASE u # {}
        <4>1. One(u) \in u
          BY <3>4, OneIsIn
        <4>2. Smaller(One(t))[u \ {One(u)}] = Smaller(One(u))[u \ {One(u)}]
          <5> DEFINE w == u \ {One(u)}
          <5>1. One(u) \in T /\ w \in SUBSET (T \ {One(t)}) /\ w \subseteq T \ {One(u)}
            BY <2>4, <4>1
          <5>2. /\ Sums(f, T \ {One(t)}, Smaller(One(t))) /\ IsFiniteSet(T \ {One(t)})
                /\ Sums(f, T \ {One(u)}, Smaller(One(u)))
            BY <2>2, <2>3, <3>1, <5>1
          <5> HIDE DEF w, u, G, B
          <5>3. Smaller(One(t))[w] = Smaller(One(u))[w]
            BY <5>1, <5>2, TablesAgree
          <5> QED
            BY <5>3 DEF w
        <4> QED
          BY <3>2, <3>4, <4>2
      <3> QED
        BY <3>3, <3>4
    <2>5. Sums(f, T, G)
      BY <2>4 DEF Sums
    <2> QED
      BY <2>1, <2>5
  <1> QED
    BY <1>1

(* The value of the sum: nothing, or one element and the sum of the rest.  *)
LEMMA SumUnfolds ==
    ASSUME NEW f, NEW S, IsFiniteSet(S)
    PROVE  SumFunctionOnSet(f, S) =
               IF S = {} THEN 0 ELSE f[One(S)] + SumFunctionOnSet(f, S \ {One(S)})
  <1> DEFINE Table(T) == CHOOSE g : Sums(f, T, g)
             R == S \ {One(S)}
  <1>1. IsFiniteSet(R)
    BY FS_Subset
  <1>2. Sums(f, S, Table(S)) /\ Sums(f, R, Table(R))
    BY <1>1, TableExists
  <1>3. SumFunctionOnSet(f, S) = Table(S)[S] /\ SumFunctionOnSet(f, R) = Table(R)[R]
    BY SumIsTable
  <1> HIDE DEF Table
  <1>4. Table(S)[R] = Table(R)[R]
    BY <1>2, TablesAgree
  <1>5. Table(S)[S] = IF S = {} THEN 0 ELSE f[One(S)] + Table(S)[R]
    BY <1>2 DEF Sums
  <1> QED
    BY <1>3, <1>4, <1>5

LEMMA SumEmpty == ASSUME NEW f PROVE SumFunctionOnSet(f, {}) = 0
  BY SumUnfolds, FS_EmptySet

(* A sum of integers is an integer.                                        *)
LEMMA SumType ==
    ASSUME NEW f, NEW S, IsFiniteSet(S), \A x \in S : f[x] \in Int
    PROVE  SumFunctionOnSet(f, S) \in Int
  <1> DEFINE B == {t \in SUBSET S : SumFunctionOnSet(f, t) \notin Int}
  <1>1. ASSUME B # {} PROVE FALSE
    <2>1. PICK t \in B : \A u \in B : u \subseteq t => u = t
      <3>1. B \subseteq SUBSET S
        OBVIOUS
      <3> HIDE DEF B
      <3> QED
        BY <1>1, <3>1, MinimalSubset
    <2>2. IsFiniteSet(t)
      BY FS_Subset
    <2>3. CASE t = {}
      BY <2>3, SumEmpty
    <2>4. CASE t # {}
      <3>1. One(t) \in t
        BY <2>4, OneIsIn
      <3>2. SumFunctionOnSet(f, t \ {One(t)}) \in Int
        BY <2>1, <3>1
      <3> QED
        BY <2>2, <2>4, <3>1, <3>2, SumUnfolds
    <2> QED
      BY <2>3, <2>4
  <1> QED
    BY <1>1

(* Whichever element is taken out, it counts with its value.               *)
LEMMA SumRemove ==
    ASSUME NEW f, NEW S, IsFiniteSet(S), \A y \in S : f[y] \in Int, NEW x \in S
    PROVE  SumFunctionOnSet(f, S) = f[x] + SumFunctionOnSet(f, S \ {x})
  <1> DEFINE B == {t \in SUBSET S : \E z \in t :
                       SumFunctionOnSet(f, t) # f[z] + SumFunctionOnSet(f, t \ {z})}
  <1>1. ASSUME B # {} PROVE FALSE
    <2>1. PICK t \in B : \A u \in B : u \subseteq t => u = t
      <3>1. B \subseteq SUBSET S
        OBVIOUS
      <3> HIDE DEF B
      <3> QED
        BY <1>1, <3>1, MinimalSubset
    <2>2. PICK z \in t : SumFunctionOnSet(f, t) # f[z] + SumFunctionOnSet(f, t \ {z})
      BY <2>1
    <2> DEFINE c == One(t)
    <2>3. c \in t
      BY OneIsIn
    <2> HIDE DEF c
    <2>4. /\ IsFiniteSet(t) /\ IsFiniteSet(t \ {z}) /\ IsFiniteSet(t \ {c})
          /\ IsFiniteSet((t \ {c}) \ {z})
      BY FS_Subset
    <2>5. SumFunctionOnSet(f, t) = f[c] + SumFunctionOnSet(f, t \ {c})
      BY <2>4, SumUnfolds DEF c
    <2>6. c # z
      BY <2>2, <2>5
    <2>7. SumFunctionOnSet(f, t \ {c}) = f[z] + SumFunctionOnSet(f, (t \ {c}) \ {z})
      <3>1. t \ {c} \in SUBSET S /\ t \ {c} \notin B /\ z \in t \ {c}
        BY <2>1, <2>3, <2>6
      <3> QED
        BY <3>1
    <2>8. SumFunctionOnSet(f, t \ {z}) = f[c] + SumFunctionOnSet(f, (t \ {z}) \ {c})
      <3>1. t \ {z} \in SUBSET S /\ t \ {z} \notin B /\ c \in t \ {z}
        BY <2>1, <2>3, <2>6
      <3> QED
        BY <3>1
    <2>9. (t \ {z}) \ {c} = (t \ {c}) \ {z}
      OBVIOUS
    <2>10. SumFunctionOnSet(f, (t \ {c}) \ {z}) \in Int /\ f[c] \in Int /\ f[z] \in Int
      BY <2>3, <2>4, SumType
    <2>11. SumFunctionOnSet(f, t \ {z}) = f[c] + SumFunctionOnSet(f, (t \ {c}) \ {z})
      BY <2>8, <2>9
    <2> HIDE DEF B
    <2> QED
      BY <2>2, <2>5, <2>7, <2>10, <2>11
  <1> QED
    BY <1>1

LEMMA SumInsert ==
    ASSUME NEW f, NEW S, IsFiniteSet(S), NEW x, x \notin S, \A y \in S \cup {x} : f[y] \in Int
    PROVE  SumFunctionOnSet(f, S \cup {x}) = f[x] + SumFunctionOnSet(f, S)
  <1>1. IsFiniteSet(S \cup {x}) /\ (S \cup {x}) \ {x} = S
    BY FS_AddElement
  <1> QED
    BY <1>1, SumRemove

(* A sum depends on the values in the set, and grows with them.            *)
LEMMA SumEqual ==
    ASSUME NEW f, NEW g, NEW S, IsFiniteSet(S), \A x \in S : f[x] = g[x]
    PROVE  SumFunctionOnSet(f, S) = SumFunctionOnSet(g, S)
  <1> DEFINE B == {t \in SUBSET S : SumFunctionOnSet(f, t) # SumFunctionOnSet(g, t)}
  <1>1. ASSUME B # {} PROVE FALSE
    <2>1. PICK t \in B : \A u \in B : u \subseteq t => u = t
      <3>1. B \subseteq SUBSET S
        OBVIOUS
      <3> HIDE DEF B
      <3> QED
        BY <1>1, <3>1, MinimalSubset
    <2>2. IsFiniteSet(t)
      BY FS_Subset
    <2>3. t # {}
      BY <2>1, SumEmpty
    <2>4. One(t) \in t
      BY <2>3, OneIsIn
    <2>5. SumFunctionOnSet(f, t \ {One(t)}) = SumFunctionOnSet(g, t \ {One(t)})
      BY <2>1, <2>4
    <2> QED
      BY <2>1, <2>2, <2>3, <2>4, <2>5, SumUnfolds
  <1> QED
    BY <1>1

LEMMA SumMonotone ==
    ASSUME NEW f, NEW g, NEW S, IsFiniteSet(S),
           \A x \in S : f[x] \in Int /\ g[x] \in Int /\ f[x] <= g[x]
    PROVE  SumFunctionOnSet(f, S) <= SumFunctionOnSet(g, S)
  <1> DEFINE B == {t \in SUBSET S : ~ (SumFunctionOnSet(f, t) <= SumFunctionOnSet(g, t))}
  <1>1. ASSUME B # {} PROVE FALSE
    <2>1. PICK t \in B : \A u \in B : u \subseteq t => u = t
      <3>1. B \subseteq SUBSET S
        OBVIOUS
      <3> HIDE DEF B
      <3> QED
        BY <1>1, <3>1, MinimalSubset
    <2>2. IsFiniteSet(t) /\ IsFiniteSet(t \ {One(t)})
      BY FS_Subset
    <2>3. t # {}
      <3>1. SumFunctionOnSet(f, {}) <= SumFunctionOnSet(g, {})
        BY SumEmpty
      <3> QED
        BY <2>1, <3>1
    <2>4. One(t) \in t
      BY <2>3, OneIsIn
    <2>5. SumFunctionOnSet(f, t \ {One(t)}) <= SumFunctionOnSet(g, t \ {One(t)})
      BY <2>1, <2>4
    <2>6. SumFunctionOnSet(f, t \ {One(t)}) \in Int /\ SumFunctionOnSet(g, t \ {One(t)}) \in Int
      BY <2>2, SumType
    <2>7. /\ SumFunctionOnSet(f, t) = f[One(t)] + SumFunctionOnSet(f, t \ {One(t)})
          /\ SumFunctionOnSet(g, t) = g[One(t)] + SumFunctionOnSet(g, t \ {One(t)})
      BY <2>2, <2>3, SumUnfolds
    <2>8. f[One(t)] \in Int /\ g[One(t)] \in Int /\ f[One(t)] <= g[One(t)]
      BY <2>4
    <2> QED
      BY <2>1, <2>5, <2>6, <2>7, <2>8
  <1> QED
    BY <1>1

LEMMA SumZero ==
    ASSUME NEW f, NEW S, IsFiniteSet(S), \A x \in S : f[x] = 0
    PROVE  SumFunctionOnSet(f, S) = 0
  <1> DEFINE B == {t \in SUBSET S : SumFunctionOnSet(f, t) # 0}
  <1>1. ASSUME B # {} PROVE FALSE
    <2>1. PICK t \in B : \A u \in B : u \subseteq t => u = t
      <3>1. B \subseteq SUBSET S
        OBVIOUS
      <3> HIDE DEF B
      <3> QED
        BY <1>1, <3>1, MinimalSubset
    <2>2. IsFiniteSet(t)
      BY FS_Subset
    <2>3. t # {}
      BY <2>1, SumEmpty
    <2>4. One(t) \in t
      BY <2>3, OneIsIn
    <2>5. SumFunctionOnSet(f, t \ {One(t)}) = 0
      BY <2>1, <2>4
    <2> QED
      BY <2>1, <2>2, <2>3, <2>4, <2>5, SumUnfolds
  <1> QED
    BY <1>1

(* Ones sum up to how many they are.                                       *)
LEMMA SumOfOnes ==
    ASSUME NEW f, NEW S, IsFiniteSet(S), \A x \in S : f[x] = 1
    PROVE  SumFunctionOnSet(f, S) = Cardinality(S)
  <1> DEFINE B == {t \in SUBSET S : SumFunctionOnSet(f, t) # Cardinality(t)}
  <1>1. ASSUME B # {} PROVE FALSE
    <2>1. PICK t \in B : \A u \in B : u \subseteq t => u = t
      <3>1. B \subseteq SUBSET S
        OBVIOUS
      <3> HIDE DEF B
      <3> QED
        BY <1>1, <3>1, MinimalSubset
    <2>2. IsFiniteSet(t)
      BY FS_Subset
    <2>3. t # {}
      BY <2>1, SumEmpty, FS_EmptySet
    <2>4. One(t) \in t
      BY <2>3, OneIsIn
    <2>5. SumFunctionOnSet(f, t \ {One(t)}) = Cardinality(t \ {One(t)})
      BY <2>1, <2>4
    <2>6. Cardinality(t \ {One(t)}) = Cardinality(t) - 1 /\ Cardinality(t) \in Nat
      BY <2>2, <2>4, FS_RemoveElement, FS_CardinalityType
    <2>7. SumFunctionOnSet(f, t) = f[One(t)] + SumFunctionOnSet(f, t \ {One(t)})
      BY <2>2, <2>3, SumUnfolds
    <2>8. f[One(t)] = 1
      BY <2>4
    <2> QED
      BY <2>5, <2>6, <2>7, <2>8
  <1> QED
    BY <1>1

LEMMA SumNonnegative ==
    ASSUME NEW f, NEW S, IsFiniteSet(S), \A x \in S : f[x] \in Nat
    PROVE  SumFunctionOnSet(f, S) \in Nat
  <1> DEFINE zero == [x \in S |-> 0]
  <1>1. SumFunctionOnSet(f, S) \in Int
    BY SumType
  <1>2. SumFunctionOnSet(zero, S) <= SumFunctionOnSet(f, S)
    BY SumMonotone
  <1>3. SumFunctionOnSet(zero, S) = 0
    BY SumZero
  <1> QED
    BY <1>1, <1>2, <1>3

(* When no value of f is above that of g and the sums are not apart, the   *)
(* values are the same.                                                    *)
LEMMA SumSqueeze ==
    ASSUME NEW f, NEW g, NEW S, IsFiniteSet(S),
           \A x \in S : f[x] \in Int /\ g[x] \in Int /\ f[x] <= g[x],
           SumFunctionOnSet(g, S) <= SumFunctionOnSet(f, S), NEW x \in S
    PROVE  f[x] = g[x]
  <1>1. IsFiniteSet(S \ {x})
    BY FS_Subset
  <1>2. SumFunctionOnSet(f, S \ {x}) <= SumFunctionOnSet(g, S \ {x})
    BY <1>1, SumMonotone
  <1>3. SumFunctionOnSet(f, S \ {x}) \in Int /\ SumFunctionOnSet(g, S \ {x}) \in Int
    BY <1>1, SumType
  <1>4. /\ SumFunctionOnSet(f, S) = f[x] + SumFunctionOnSet(f, S \ {x})
        /\ SumFunctionOnSet(g, S) = g[x] + SumFunctionOnSet(g, S \ {x})
    BY SumRemove
  <1> QED
    BY <1>2, <1>3, <1>4

(* The sum of the sums of two functions.                                   *)
LEMMA SumAdd ==
    ASSUME NEW f, NEW g, NEW h, NEW S, IsFiniteSet(S),
           \A x \in S : f[x] \in Int /\ g[x] \in Int /\ h[x] = f[x] + g[x]
    PROVE  SumFunctionOnSet(h, S) = SumFunctionOnSet(f, S) + SumFunctionOnSet(g, S)
  <1> DEFINE B == {t \in SUBSET S : SumFunctionOnSet(h, t)
                                       # SumFunctionOnSet(f, t) + SumFunctionOnSet(g, t)}
  <1>1. ASSUME B # {} PROVE FALSE
    <2>1. PICK t \in B : \A u \in B : u \subseteq t => u = t
      <3>1. B \subseteq SUBSET S
        OBVIOUS
      <3> HIDE DEF B
      <3> QED
        BY <1>1, <3>1, MinimalSubset
    <2>2. IsFiniteSet(t) /\ IsFiniteSet(t \ {One(t)})
      BY FS_Subset
    <2>3. t # {}
      <3>1. SumFunctionOnSet(f, {}) = 0 /\ SumFunctionOnSet(g, {}) = 0
                /\ SumFunctionOnSet(h, {}) = 0
        BY SumEmpty
      <3>2. SumFunctionOnSet(h, {}) = SumFunctionOnSet(f, {}) + SumFunctionOnSet(g, {})
        BY <3>1
      <3> QED
        BY <2>1, <3>2
    <2>4. One(t) \in t
      BY <2>3, OneIsIn
    <2>5. SumFunctionOnSet(h, t \ {One(t)})
             = SumFunctionOnSet(f, t \ {One(t)}) + SumFunctionOnSet(g, t \ {One(t)})
      BY <2>1, <2>4
    <2>6. SumFunctionOnSet(f, t \ {One(t)}) \in Int /\ SumFunctionOnSet(g, t \ {One(t)}) \in Int
      BY <2>2, SumType
    <2>7. f[One(t)] \in Int /\ g[One(t)] \in Int /\ h[One(t)] = f[One(t)] + g[One(t)]
      BY <2>4
    <2>8. /\ SumFunctionOnSet(f, t) = f[One(t)] + SumFunctionOnSet(f, t \ {One(t)})
          /\ SumFunctionOnSet(g, t) = g[One(t)] + SumFunctionOnSet(g, t \ {One(t)})
          /\ SumFunctionOnSet(h, t) = h[One(t)] + SumFunctionOnSet(h, t \ {One(t)})
      BY <2>2, <2>3, SumUnfolds
    <2> QED
      BY <2>1, <2>5, <2>6, <2>7, <2>8
  <1> QED
    BY <1>1

(* The sum over two sets apart.                                            *)
LEMMA SumUnion ==
    ASSUME NEW f, NEW S, NEW T, IsFiniteSet(S), IsFiniteSet(T), S \cap T = {},
           \A x \in S \cup T : f[x] \in Int
    PROVE  SumFunctionOnSet(f, S \cup T) = SumFunctionOnSet(f, S) + SumFunctionOnSet(f, T)
  <1> DEFINE B == {t \in SUBSET T : SumFunctionOnSet(f, S \cup t)
                                       # SumFunctionOnSet(f, S) + SumFunctionOnSet(f, t)}
  <1>0. SumFunctionOnSet(f, S) \in Int
    BY SumType
  <1>1. ASSUME B # {} PROVE FALSE
    <2>1. PICK t \in B : \A u \in B : u \subseteq t => u = t
      <3>1. B \subseteq SUBSET T
        OBVIOUS
      <3> HIDE DEF B
      <3> QED
        BY <1>1, <3>1, MinimalSubset
    <2>3. t # {}
      <3>1. S \cup {} = S /\ SumFunctionOnSet(f, {}) = 0
        BY SumEmpty
      <3>2. {} \notin B
        BY <1>0, <3>1
      <3> QED
        BY <2>1, <3>2
    <2>4. PICK x : x \in t
      BY <2>3
    <2>2. IsFiniteSet(t) /\ IsFiniteSet(t \ {x}) /\ IsFiniteSet(S \cup t)
      BY FS_Subset, FS_Union
    <2>5. SumFunctionOnSet(f, S \cup (t \ {x}))
             = SumFunctionOnSet(f, S) + SumFunctionOnSet(f, t \ {x})
      BY <2>1, <2>4
    <2>6. (S \cup t) \ {x} = S \cup (t \ {x})
      BY <2>4
    <2>7. /\ SumFunctionOnSet(f, t) = f[x] + SumFunctionOnSet(f, t \ {x})
          /\ SumFunctionOnSet(f, S \cup t) = f[x] + SumFunctionOnSet(f, S \cup (t \ {x}))
      BY <2>2, <2>4, <2>6, SumRemove
    <2>8. SumFunctionOnSet(f, t \ {x}) \in Int /\ f[x] \in Int
      BY <2>2, <2>4, SumType
    <2> QED
      BY <1>0, <2>1, <2>5, <2>7, <2>8
  <1> QED
    BY <1>1
-----------------------------------------------------------------------------
(* What a function makes of a finite set is finite.                        *)
LEMMA ImageIsFinite ==
    ASSUME NEW S, IsFiniteSet(S), NEW f
    PROVE  IsFiniteSet({f[x] : x \in S})
  <1> DEFINE T == {f[x] : x \in S}
             g == [x \in S |-> f[x]]
  <1>1. g \in [S -> T] /\ \A t \in T : \E x \in S : g[x] = t
    OBVIOUS
  <1>2. g \in Surjection(S, T)
    BY <1>1 DEF Surjection
  <1> HIDE DEF T, g
  <1>3. IsFiniteSet(T)
    BY <1>2, FS_Surjection
  <1> QED
    BY <1>3 DEF T

(* A sum over sets apart is the sum of the sums over each.                 *)
LEMMA SumOfSums ==
    ASSUME NEW f, NEW K, IsFiniteSet(K), NEW of, NEW sums,
           \A k \in K : /\ IsFiniteSet(of[k])
                        /\ sums[k] = SumFunctionOnSet(f, of[k])
                        /\ \A x \in of[k] : f[x] \in Int,
           \A j, k \in K : j # k => of[j] \cap of[k] = {}
    PROVE  SumFunctionOnSet(sums, K) = SumFunctionOnSet(f, UNION {of[k] : k \in K})
  <1> DEFINE All(t) == UNION {of[k] : k \in t}
             B == {t \in SUBSET K : SumFunctionOnSet(sums, t) # SumFunctionOnSet(f, All(t))}
  <1>1. ASSUME B # {} PROVE FALSE
    <2>1. PICK t \in B : \A u \in B : u \subseteq t => u = t
      <3>1. B \subseteq SUBSET K
        OBVIOUS
      <3> HIDE DEF B
      <3> QED
        BY <1>1, <3>1, MinimalSubset
    <2>2. CASE t = {}
      <3>1. All({}) = {}
        OBVIOUS
      <3>2. SumFunctionOnSet(sums, {}) = SumFunctionOnSet(f, All({}))
        BY <3>1, SumEmpty
      <3> QED
        BY <2>1, <2>2, <3>2
    <2>3. CASE t # {}
      <3>1. PICK k : k \in t
        BY <2>3
      <3> DEFINE u == t \ {k}
      <3>2. k \in K /\ u \in SUBSET K /\ u \notin B
        BY <2>1, <3>1
      <3>3. SumFunctionOnSet(sums, u) = SumFunctionOnSet(f, All(u))
        BY <3>2
      <3>4. IsFiniteSet(t) /\ IsFiniteSet(u)
        BY <2>1, FS_Subset
      <3>5. \A j \in t : sums[j] \in Int
        BY <2>1, SumType
      <3>6. SumFunctionOnSet(sums, t) = sums[k] + SumFunctionOnSet(sums, u)
        BY <3>1, <3>4, <3>5, SumRemove
      <3>7. All(t) = All(u) \cup of[k] /\ All(u) \cap of[k] = {}
        <4>1. \A j \in u : j # k /\ j \in K
          BY <2>1
        <4> QED
          BY <3>1, <3>2, <4>1
      <3>8. IsFiniteSet(All(u))
        <4> DEFINE G == {of[j] : j \in u}
        <4>1. IsFiniteSet(G)
          BY <3>4, ImageIsFinite
        <4>2. \A T \in G : IsFiniteSet(T)
          BY <3>2
        <4> HIDE DEF G
        <4>3. IsFiniteSet(UNION G)
          BY <4>1, <4>2, FS_UNION
        <4> QED
          BY <4>3 DEF G
      <3>9. \A x \in All(u) \cup of[k] : f[x] \in Int
        BY <3>2
      <3>10. IsFiniteSet(of[k]) /\ sums[k] = SumFunctionOnSet(f, of[k])
        BY <3>2
      <3>11. SumFunctionOnSet(sums, u) \in Int /\ sums[k] \in Int
        BY <3>1, <3>4, <3>5, SumType
      <3>12. SumFunctionOnSet(f, All(t)) = SumFunctionOnSet(sums, u) + sums[k]
        <4> HIDE DEF All, B, u
        <4> QED
          BY <3>3, <3>7, <3>8, <3>9, <3>10, SumUnion
      <3>13. SumFunctionOnSet(sums, t) = SumFunctionOnSet(f, All(t))
        <4> HIDE DEF All, B, u
        <4> QED
          BY <3>6, <3>11, <3>12
      <3> QED
        BY <2>1, <3>13
    <2> QED
      BY <2>2, <2>3
  <1> QED
    BY <1>1
=============================================================================
