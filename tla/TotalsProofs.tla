----------------------------- MODULE TotalsProofs -----------------------------
(* What the proofs of Billing and Callback need to know of sums.           *)
EXTENDS Totals, FiniteSetTheorems, TLAPS

LEMMA TotalType ==
    ASSUME NEW f, IsFiniteSet(Tokens(f))
    PROVE  Total(f) \in Nat
  BY FS_CardinalityType DEF Total

LEMMA TotalOfZeros ==
    ASSUME NEW S, NEW f \in [S -> Nat], \A x \in S : f[x] = 0
    PROVE  IsFiniteSet(Tokens(f)) /\ Total(f) = 0
<1>1. Tokens(f) = {}
  BY DEF Tokens
<1> QED
  BY <1>1, FS_EmptySet DEF Total

(* The tokens number m+1 to m+k of x.                                      *)
Slice(x, m, k) == {x} \X ((m + 1)..(m + k))

LEMMA SliceCount ==
    ASSUME NEW x, NEW m \in Nat, NEW k \in Nat
    PROVE  IsFiniteSet(Slice(x, m, k)) /\ Cardinality(Slice(x, m, k)) = k
<1> DEFINE I == (m + 1)..(m + k)
<1>1. IsFiniteSet(I) /\ Cardinality(I) = k
  BY FS_Interval
<1>2. IsFiniteSet({x}) /\ Cardinality({x}) = 1
  BY FS_Singleton
<1> HIDE DEF I
<1>3. IsFiniteSet({x} \X I) /\ Cardinality({x} \X I) = Cardinality({x}) * Cardinality(I)
  BY <1>1, <1>2, FS_Product
<1>4. Cardinality({x} \X I) = k
  BY <1>1, <1>2, <1>3
<1> QED
  BY <1>3, <1>4 DEF I, Slice

(* If one value grows by k, so does the sum.                               *)
LEMMA TotalGrows ==
    ASSUME NEW S, NEW f \in [S -> Nat], NEW x \in S, NEW k \in Nat,
           NEW g \in [S -> Nat], g[x] = f[x] + k, \A y \in S \ {x} : g[y] = f[y],
           IsFiniteSet(Tokens(f))
    PROVE  IsFiniteSet(Tokens(g)) /\ Total(g) = Total(f) + k
<1> DEFINE C == Slice(x, f[x], k)
<1> USE DEF Slice
<1>1. IsFiniteSet(C) /\ Cardinality(C) = k
  <2>1. f[x] \in Nat
    OBVIOUS
  <2> HIDE DEF Slice
  <2> QED
    BY <2>1, SliceCount
<1>2. Tokens(g) = Tokens(f) \cup C
  <2>1. 1..g[x] = (1..f[x]) \cup ((f[x] + 1)..(f[x] + k))
    OBVIOUS
  <2>2. \A t : t \in Tokens(g) <=> \E y \in S : t \in {y} \X (1..g[y])
    BY DEF Tokens
  <2>3. \A t : t \in Tokens(f) <=> \E y \in S : t \in {y} \X (1..f[y])
    BY DEF Tokens
  <2>4. ASSUME NEW t \in Tokens(g) PROVE t \in Tokens(f) \cup C
    <3>1. PICK y \in S : t \in {y} \X (1..g[y])
      BY <2>2
    <3>2. CASE y = x
      <4>1. t \in ({x} \X (1..f[x])) \cup C
        BY <2>1, <3>1, <3>2
      <4> QED
        BY <4>1, <2>3
    <3>3. CASE y # x
      BY <3>1, <3>3, <2>3
    <3> QED
      BY <3>2, <3>3
  <2>5. ASSUME NEW t \in Tokens(f) PROVE t \in Tokens(g)
    <3>1. PICK y \in S : t \in {y} \X (1..f[y])
      BY <2>3
    <3>2. t \in {y} \X (1..g[y])
      BY <3>1, <2>1
    <3> QED
      BY <3>2, <2>2
  <2>6. ASSUME NEW t \in C PROVE t \in Tokens(g)
    <3>1. t \in {x} \X (1..g[x])
      BY <2>1
    <3> QED
      BY <3>1, <2>2
  <2> QED
    BY <2>4, <2>5, <2>6
<1>3. Tokens(f) \cap C = {}
  <2>1. ASSUME NEW t \in Tokens(f), t \in C PROVE FALSE
    <3>1. PICK y \in S : t \in {y} \X (1..f[y])
      BY DEF Tokens
    <3>2. t[1] = x /\ t[2] \in (f[x] + 1)..(f[x] + k) /\ t[1] = y /\ t[2] \in 1..f[y]
      BY <2>1, <3>1
    <3> QED
      BY <3>2
  <2> QED
    BY <2>1
<1> HIDE DEF C
<1>4. /\ IsFiniteSet(Tokens(f) \cup C)
      /\ Cardinality(Tokens(f) \cup C) = Cardinality(Tokens(f)) + Cardinality(C) - 0
  BY <1>1, <1>3, FS_Union, FS_EmptySet
<1>5. Cardinality(Tokens(f)) \in Nat
  BY FS_CardinalityType
<1> QED
  BY <1>1, <1>2, <1>4, <1>5 DEF Total

(* If one value changes, the sum changes by as much.                       *)
LEMMA TotalChanges ==
    ASSUME NEW S, NEW f \in [S -> Nat], NEW x \in S,
           NEW g \in [S -> Nat], \A y \in S \ {x} : g[y] = f[y],
           IsFiniteSet(Tokens(f))
    PROVE  IsFiniteSet(Tokens(g)) /\ Total(g) = Total(f) - f[x] + g[x]
<1> DEFINE h == [f EXCEPT ![x] = 0]
<1>1. h \in [S -> Nat] /\ h[x] = 0 /\ \A y \in S \ {x} : h[y] = f[y]
  OBVIOUS
<1> HIDE DEF h
<1>2. Tokens(h) \subseteq Tokens(f)
  <2>1. \A y \in S : h[y] = f[y] \/ h[y] = 0
    BY <1>1
  <2>2. \A y \in S : 1..h[y] \subseteq 1..f[y]
    BY <2>1
  <2> QED
    BY <1>1, <2>2 DEF Tokens
<1>3. IsFiniteSet(Tokens(h)) /\ Total(h) \in Nat
  BY <1>2, FS_Subset, TotalType
<1>4. f[x] \in Nat /\ g[x] \in Nat /\ f[x] = h[x] + f[x] /\ g[x] = h[x] + g[x]
  BY <1>1
<1>5. \A y \in S \ {x} : f[y] = h[y] /\ g[y] = h[y]
  BY <1>1
<1>6. Total(f) = Total(h) + f[x]
  BY <1>1, <1>3, <1>4, <1>5, TotalGrows
<1>7. IsFiniteSet(Tokens(g)) /\ Total(g) = Total(h) + g[x]
  BY <1>1, <1>3, <1>4, <1>5, TotalGrows
<1> QED
  BY <1>3, <1>4, <1>6, <1>7

=============================================================================
