---------------------------- MODULE TotalsProofs ----------------------------
(***************************************************************************)
(* What the ledger proofs need to know about Total: it is a natural        *)
(* number, monotone in the quantities, and changing one quantity changes   *)
(* the sum by exactly the difference.                                      *)
(***************************************************************************)
EXTENDS Totals, FiniteSetTheorems, TLAPS

\* The units of a finite set are finite, so a total is a natural number.
LEMMA TotalType ==
  ASSUME NEW S, IsFiniteSet(S), NEW Cap \in Nat, NEW f
  PROVE  /\ IsFiniteSet(Units(S, f, Cap))
         /\ Total(S, f, Cap) \in Nat
<1>1. IsFiniteSet(1..Cap)
  BY FS_Interval
<1>2. IsFiniteSet(S \X (1..Cap))
  BY <1>1, FS_Product
<1>3. Units(S, f, Cap) \in SUBSET (S \X (1..Cap))
  BY DEF Units
<1>4. IsFiniteSet(Units(S, f, Cap))
  BY <1>2, <1>3, FS_Subset
<1>5. QED
  BY <1>4, FS_CardinalityType DEF Total

\* A sum does not shrink when the set grows and no quantity shrinks.
LEMMA TotalMonotone ==
  ASSUME NEW S, IsFiniteSet(S), NEW R \in SUBSET S, NEW Cap \in Nat,
         NEW f \in [R -> 0..Cap], NEW g \in [S -> 0..Cap],
         \A s \in R : f[s] <= g[s]
  PROVE  Total(R, f, Cap) <= Total(S, g, Cap)
<1>1. Units(R, f, Cap) \in SUBSET Units(S, g, Cap)
  <2> SUFFICES ASSUME NEW u \in Units(R, f, Cap)
               PROVE  u \in Units(S, g, Cap)
    OBVIOUS
  <2>1. u \in R \X (1..Cap) /\ u[2] <= f[u[1]]
    BY DEF Units
  <2>2. u[1] \in R /\ u[2] \in 1..Cap
    BY <2>1
  <2>3. f[u[1]] \in 0..Cap /\ g[u[1]] \in 0..Cap
    BY <2>2
  <2>4. u[2] <= g[u[1]]
    BY <2>1, <2>2, <2>3
  <2>5. QED
    BY <2>1, <2>4 DEF Units
<1>2. IsFiniteSet(Units(S, g, Cap))
  BY TotalType
<1>3. QED
  BY <1>1, <1>2, FS_Subset DEF Total

\* The sum over S splits into the sum over the others and one quantity.
LEMMA TotalSplit ==
  ASSUME NEW S, IsFiniteSet(S), NEW Cap \in Nat,
         NEW f \in [S -> 0..Cap], NEW s \in S
  PROVE  Total(S, f, Cap) = Total(S \ {s}, f, Cap) + f[s]
<1> DEFINE Mine   == {s} \X (1..f[s])
           Others == Units(S \ {s}, f, Cap)
<1>1. f[s] \in 0..Cap
  OBVIOUS
<1>2. IsFiniteSet(1..f[s]) /\ Cardinality(1..f[s]) = f[s]
  BY <1>1, FS_Interval
<1>3. IsFiniteSet({s}) /\ Cardinality({s}) = 1
  BY FS_Singleton
<1>4. IsFiniteSet(Mine) /\ Cardinality(Mine) = f[s]
  <2> DEFINE U == 1..f[s]
  <2> HIDE DEF U
  <2>1. IsFiniteSet(U) /\ Cardinality(U) = f[s]
    BY <1>2 DEF U
  <2>2. /\ IsFiniteSet({s} \X U)
        /\ Cardinality({s} \X U) = Cardinality({s}) * Cardinality(U)
    BY <1>3, <2>1, FS_Product
  <2>3. Cardinality({s} \X U) = 1 * f[s]
    BY <1>3, <2>1, <2>2
  <2>4. Cardinality({s} \X U) = f[s]
    BY <1>1, <2>3
  <2>5. QED
    BY <2>2, <2>4 DEF U
<1>5. IsFiniteSet(S \ {s})
  BY FS_Difference
<1>6. IsFiniteSet(Others)
  BY <1>5, TotalType
<1>7. Units(S, f, Cap) = Mine \cup Others
  <2>1. ASSUME NEW u \in Units(S, f, Cap)
        PROVE  u \in Mine \cup Others
    <3>1. u \in S \X (1..Cap) /\ u[2] <= f[u[1]]
      BY DEF Units
    <3>2. CASE u[1] = s
      BY <1>1, <3>1, <3>2
    <3>3. CASE u[1] # s
      BY <3>1, <3>3 DEF Units
    <3>4. QED
      BY <3>2, <3>3
  <2>2. ASSUME NEW u \in Mine
        PROVE  u \in Units(S, f, Cap)
    BY <1>1 DEF Units
  <2>3. ASSUME NEW u \in Others
        PROVE  u \in Units(S, f, Cap)
    BY DEF Units
  <2>4. QED
    BY <2>1, <2>2, <2>3
<1>8. Mine \cap Others = {}
  BY DEF Units
<1>9. Cardinality(Mine \cap Others) = 0
  BY <1>8, FS_EmptySet
<1>10. Cardinality(Others) \in Nat
  BY <1>6, FS_CardinalityType
<1>11. Cardinality(Units(S, f, Cap)) = Cardinality(Mine) + Cardinality(Others) - 0
  <2> HIDE DEF Mine, Others
  <2>1. Cardinality(Mine \cup Others)
          = Cardinality(Mine) + Cardinality(Others) - Cardinality(Mine \cap Others)
    BY <1>4, <1>6, FS_Union
  <2>2. QED
    BY <1>7, <1>9, <2>1
<1>12. QED
  BY <1>1, <1>4, <1>10, <1>11 DEF Total

\* Two quantity functions that agree on S have the same sum over S.
LEMMA TotalSame ==
  ASSUME NEW S, NEW Cap, NEW f, NEW g, \A s \in S : f[s] = g[s]
  PROVE  Total(S, f, Cap) = Total(S, g, Cap)
<1>1. Units(S, f, Cap) = Units(S, g, Cap)
  BY DEF Units
<1>2. QED
  BY <1>1 DEF Total

\* Changing the quantity of one member changes the sum by the difference.
LEMMA TotalChange ==
  ASSUME NEW S, IsFiniteSet(S), NEW Cap \in Nat, NEW s \in S,
         NEW f \in [S -> 0..Cap], NEW g \in [S -> 0..Cap],
         \A t \in S \ {s} : f[t] = g[t]
  PROVE  Total(S, g, Cap) = Total(S, f, Cap) - f[s] + g[s]
<1>1. Total(S, f, Cap) = Total(S \ {s}, f, Cap) + f[s]
  BY TotalSplit
<1>2. Total(S, g, Cap) = Total(S \ {s}, g, Cap) + g[s]
  BY TotalSplit
<1>3. Total(S \ {s}, f, Cap) = Total(S \ {s}, g, Cap)
  BY TotalSame
<1>4. IsFiniteSet(S \ {s})
  BY FS_Difference
<1>5. Total(S \ {s}, f, Cap) \in Nat
  BY <1>4, TotalType
<1>6. QED
  BY <1>1, <1>2, <1>3, <1>5

\* Sums of the values one function gives to the members of a finite set: over
\* fewer members the sum is no larger, ...
LEMMA TotalSubset ==
  ASSUME NEW D, IsFiniteSet(D), NEW Cap \in Nat, NEW f \in [D -> 0..Cap],
         NEW S \in SUBSET D, NEW R \in SUBSET S
  PROVE  /\ Total(R, f, Cap) \in Nat /\ Total(S, f, Cap) \in Nat
         /\ Total(R, f, Cap) <= Total(S, f, Cap)
<1>1. IsFiniteSet(S) /\ IsFiniteSet(R)
  BY FS_Subset
<1>2. Units(R, f, Cap) \in SUBSET Units(S, f, Cap)
  BY DEF Units
<1>3. IsFiniteSet(Units(S, f, Cap))
  BY <1>1, TotalType
<1>4. QED
  BY <1>1, <1>2, <1>3, TotalType, FS_Subset DEF Total

\* ... over one member more it is larger by the value of that member, ...
LEMMA TotalInsert ==
  ASSUME NEW D, IsFiniteSet(D), NEW Cap \in Nat, NEW f \in [D -> 0..Cap],
         NEW S \in SUBSET D, NEW x \in D \ S
  PROVE  Total(S \cup {x}, f, Cap) = Total(S, f, Cap) + f[x]
<1> DEFINE T == S \cup {x}
           g == [y \in T |-> f[y]]
<1>1. g \in [T -> 0..Cap] /\ g[x] = f[x] /\ \A y \in T : g[y] = f[y]
  OBVIOUS
<1>2. IsFiniteSet(T) /\ x \in T /\ T \ {x} = S
  BY FS_Subset
<1> HIDE DEF g, T
<1>3. Total(T, g, Cap) = Total(T \ {x}, g, Cap) + g[x]
  BY <1>1, <1>2, TotalSplit
<1>4. Total(T, g, Cap) = Total(T, f, Cap) /\ Total(S, g, Cap) = Total(S, f, Cap)
  BY <1>1, <1>2, TotalSame
<1>5. QED
  BY <1>1, <1>2, <1>3, <1>4 DEF T

\* ... over two sets apart it is the sum of their sums, ...
LEMMA TotalUnion ==
  ASSUME NEW S, NEW T, IsFiniteSet(S), IsFiniteSet(T), S \cap T = {},
         NEW Cap \in Nat, NEW f
  PROVE  Total(S \cup T, f, Cap) = Total(S, f, Cap) + Total(T, f, Cap)
<1> DEFINE U == Units(S, f, Cap)
           V == Units(T, f, Cap)
<1>1. Units(S \cup T, f, Cap) = U \cup V /\ U \cap V = {}
  BY DEF Units
<1>2. IsFiniteSet(U) /\ IsFiniteSet(V)
  BY TotalType
<1>3. Cardinality(U) \in Nat /\ Cardinality(V) \in Nat
  BY <1>2, FS_CardinalityType
<1>4. Cardinality({}) = 0
  BY FS_EmptySet
<1> HIDE DEF U, V
<1>5. Cardinality(U \cup V) = Cardinality(U) + Cardinality(V) - Cardinality(U \cap V)
  BY <1>2, FS_Union
<1>6. Cardinality(U \cup V) = Cardinality(U) + Cardinality(V)
  <2>1. U \cap V = {}
    BY <1>1
  <2>2. Cardinality(U \cap V) = 0
    BY <1>4, <2>1
  <2>3. QED
    BY <1>3, <1>5, <2>2
<1>7. QED
  BY <1>1, <1>6 DEF Total, U, V

\* ... and over nothing it is zero.
LEMMA TotalEmpty ==
  ASSUME NEW f, NEW Cap
  PROVE  Total({}, f, Cap) = 0
<1>1. Units({}, f, Cap) = {}
  BY DEF Units
<1>2. QED
  BY <1>1, FS_EmptySet DEF Total

\* A sum is no larger than one over a set that has a counterpart, with no
\* smaller quantity, for each member.
LEMMA TotalInjection ==
  ASSUME NEW S, NEW T, IsFiniteSet(T), NEW Cap \in Nat, NEW f, NEW g,
         NEW h \in [S -> T],
         \A x, y \in S : h[x] = h[y] => x = y,
         \A x \in S : f[x] \in 0..Cap /\ g[h[x]] \in 0..Cap /\ f[x] <= g[h[x]]
  PROVE  Total(S, f, Cap) <= Total(T, g, Cap)
<1> DEFINE U == Units(S, f, Cap)
           V == Units(T, g, Cap)
           m == [u \in U |-> <<h[u[1]], u[2]>>]
<1>1. ASSUME NEW u \in U
      PROVE  /\ u = <<u[1], u[2]>> /\ u[1] \in S /\ u[2] \in 1..Cap
             /\ m[u] = <<h[u[1]], u[2]>> /\ m[u] \in V
  <2>1. u \in S \X (1..Cap) /\ u[2] <= f[u[1]]
    BY DEF Units
  <2>2. u[1] \in S /\ u[2] \in 1..Cap /\ u = <<u[1], u[2]>>
    BY <2>1
  <2>3. u[2] <= g[h[u[1]]]
    BY <2>1, <2>2
  <2>4. <<h[u[1]], u[2]>> \in V
    BY <2>2, <2>3 DEF Units
  <2>5. QED
    BY <2>2, <2>4
<1>2. m \in [U -> V]
  BY <1>1
<1>3. ASSUME NEW u \in U, NEW v \in U, m[u] = m[v]
      PROVE  u = v
  BY <1>1, <1>3
<1>4. IsFiniteSet(V) /\ Cardinality(V) \in Nat
  BY TotalType DEF Total
<1> HIDE DEF U, V, m
<1>5. m \in Injection(U, V)
  BY <1>2, <1>3 DEF Injection, IsInjective
<1>6. Cardinality(U) <= Cardinality(V)
  BY <1>4, <1>5, FS_Injection
<1>7. QED
  BY <1>6 DEF Total, U, V

=============================================================================
