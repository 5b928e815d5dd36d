------------------------- MODULE PrefixCacheProofs -------------------------
(* Proofs about PrefixCache.                                                *)
EXTENDS PrefixCache, FiniteSetTheorems, TLAPS

Eviction == INSTANCE FoldInduction WITH Op <- LAMBDA e, i, env : EvictOne(e)

-----------------------------------------------------------------------------
(* Numbers, finite sets and sums.                                           *)

(* A set of natural numbers has a least one.                                *)
LEMMA LeastNatural ==
    ASSUME NEW T \in SUBSET Nat, T # {}
    PROVE  \E m \in T : \A k \in T : m <= k
BY Eviction!LeastNatural

(* A bounded set of natural numbers has a greatest one, Max.                *)
LEMMA MaxIs ==
    ASSUME NEW n \in Nat, NEW S \in SUBSET (0 .. n), S # {}
    PROVE  Max(S) \in S /\ \A x \in S : x <= Max(S)
BY Eviction!MaxInterval DEF Max, Eviction!Greatest

(* A set of natural numbers has a least one, Min.                           *)
LEMMA MinIs ==
    ASSUME NEW S \in SUBSET Nat, S # {}
    PROVE  Min(S) \in S /\ \A x \in S : Min(S) <= x
BY LeastNatural DEF Min

(* The smaller of two numbers.                                              *)
LEMMA MinOfTwo ==
    ASSUME NEW m \in Nat, NEW n \in Nat
    PROVE  Min({m, n}) = IF m <= n THEN m ELSE n
<1>1. Min({m, n}) \in {m, n} /\ \A x \in {m, n} : Min({m, n}) <= x
  BY MinIs
<1> QED
  BY <1>1

(* The greater of two numbers.                                              *)
LEMMA MaxOfTwo ==
    ASSUME NEW m \in Nat, NEW n \in Nat
    PROVE  Max({m, n}) = IF m <= n THEN n ELSE m
<1>1. ASSUME NEW b \in Nat, m <= b, n <= b PROVE Max({m, n}) \in {m, n} /\ \A x \in {m, n} : x <= Max({m, n})
  <2>1. {m, n} \in SUBSET (0 .. b) /\ {m, n} # {}
    BY <1>1
  <2> QED
    BY <2>1, MaxIs
<1>2. CASE m <= n
  BY <1>1, <1>2
<1>3. CASE ~(m <= n)
  BY <1>1, <1>3
<1> QED
  BY <1>2, <1>3

(* A set of subsets of a finite set has a member that contains no other.    *)
LEMMA LeastSet ==
    ASSUME NEW U, IsFiniteSet(U), NEW T \in SUBSET SUBSET U, T # {}
    PROVE  \E m \in T : \A k \in T : k \subseteq m => k = m
<1> DEFINE N == {Cardinality(k) : k \in T}
<1>1. \A k \in T : IsFiniteSet(k) /\ Cardinality(k) \in Nat
  BY FS_Subset, FS_CardinalityType
<1>2. PICK m \in T : \A k \in T : Cardinality(m) <= Cardinality(k)
  <2>1. N \in SUBSET Nat /\ N # {}
    BY <1>1
  <2>2. PICK n \in N : \A o \in N : n <= o
    BY <2>1, LeastNatural
  <2> QED
    BY <2>2
<1>3. ASSUME NEW k \in T, k \subseteq m PROVE k = m
  <2>1. k # m => Cardinality(k) < Cardinality(m)
    BY <1>1, <1>3, FS_Subset
  <2> QED
    BY <1>1, <1>2, <2>1
<1> QED
  BY <1>3

(* F gives the sum of w over every subset of U, in whatever order.          *)
Adds(F, w, U) ==
    /\ F[{}] = 0
    /\ \A t \in SUBSET U : F[t] \in Int
    /\ \A t \in SUBSET U : \A x \in t : F[t] = w[x] + F[t \ {x}]

(* There is a function that sums up w over every part of a finite set.      *)
LEMMA SumExists ==
    ASSUME NEW U, IsFiniteSet(U), NEW w, \A x \in U : w[x] \in Int
    PROVE  \E F : Adds(F, w, U)
<1> DEFINE T == {V \in SUBSET U : ~\E F : Adds(F, w, V)}
<1>1. ASSUME T # {} PROVE FALSE
  <2>1. PICK V \in T : \A k \in T : k \subseteq V => k = V
    <3>1. T \in SUBSET SUBSET U
      OBVIOUS
    <3> HIDE DEF T
    <3> QED
      BY <1>1, <3>1, LeastSet
  <2>2. V # {}
    <3> DEFINE F == [t \in SUBSET {} |-> 0]
    <3>1. F[{}] = 0 /\ \A t \in SUBSET {} : F[t] \in Int /\ \A x \in t : FALSE
      OBVIOUS
    <3> HIDE DEF F
    <3>2. \A t \in SUBSET {} : F[t] \in Int
      BY <3>1
    <3>3. \A t \in SUBSET {} : \A x \in t : F[t] = w[x] + F[t \ {x}]
      BY <3>1
    <3>4. Adds(F, w, {})
      BY <3>1, <3>2, <3>3 DEF Adds
    <3> QED
      BY <2>1, <3>4
  <2>3. PICK y \in V : TRUE
    BY <2>2
  <2> DEFINE W == V \ {y}
  <2>4. PICK F : Adds(F, w, W)
    BY <2>1, <2>3
  <2> DEFINE G == [t \in SUBSET V |-> IF y \in t THEN w[y] + F[t \ {y}] ELSE F[t]]
  <2>5. w[y] \in Int /\ \A t \in SUBSET V : t \ {y} \in SUBSET W /\ (y \notin t => t \in SUBSET W)
    BY <2>1, <2>3
  <2>6. \A t \in SUBSET V : G[t] = IF y \in t THEN w[y] + F[t \ {y}] ELSE F[t]
    OBVIOUS
  <2>7. \A x \in V : w[x] \in Int
    BY <2>1
  <2> HIDE DEF G, W
  <2>8. G[{}] = 0 /\ \A t \in SUBSET V : G[t] \in Int
    <3>1. {} \in SUBSET V /\ {} \in SUBSET W /\ y \notin {}
      OBVIOUS
    <3>2. G[{}] = 0
      BY <2>4, <2>6, <3>1 DEF Adds
    <3>3. ASSUME NEW t \in SUBSET V PROVE G[t] \in Int
      <4>1. F[t \ {y}] \in Int /\ (y \notin t => F[t] \in Int)
        BY <2>4, <2>5 DEF Adds
      <4>2. G[t] = IF y \in t THEN w[y] + F[t \ {y}] ELSE F[t]
        BY <2>6
      <4>3. w[y] \in Int
        BY <2>5
      <4> QED
        BY <4>1, <4>2, <4>3
    <3> QED
      BY <3>2, <3>3
  <2>9. ASSUME NEW t \in SUBSET V, NEW x \in t PROVE G[t] = w[x] + G[t \ {x}]
    <3>0. t \ {x} \in SUBSET V
      OBVIOUS
    <3>1. CASE x = y
      BY <2>6, <3>0, <3>1
    <3>2. CASE x # y /\ y \notin t
      <4>1. t \in SUBSET W /\ y \notin t \ {x}
        BY <2>5, <3>2
      <4> QED
        BY <2>4, <2>6, <3>0, <3>2, <4>1 DEF Adds
    <3>3. CASE x # y /\ y \in t
      <4> DEFINE u == t \ {y}
      <4>1. u \in SUBSET W /\ x \in u /\ (t \ {x}) \ {y} = u \ {x} /\ y \in t \ {x}
        BY <2>5, <3>3
      <4>2. F[u] = w[x] + F[u \ {x}] /\ F[u \ {x}] \in Int
        <5>1. u \ {x} \in SUBSET W
          BY <4>1
        <5> HIDE DEF u
        <5> QED
          BY <2>4, <4>1, <5>1 DEF Adds
      <4>3. G[t] = w[y] + F[u] /\ G[t \ {x}] = w[y] + F[u \ {x}]
        BY <2>6, <3>0, <3>3, <4>1
      <4>4. w[x] \in Int
        BY <2>7
      <4> HIDE DEF u
      <4> QED
        BY <2>5, <4>2, <4>3, <4>4
    <3> QED
      BY <3>1, <3>2, <3>3
  <2>10. Adds(G, w, V)
    BY <2>8, <2>9 DEF Adds
  <2> QED
    BY <2>1, <2>10
<1>2. U \notin T
  BY <1>1
<1> QED
  BY <1>2

(* It is what SumFunctionOnSet computes.                                    *)
LEMMA SumIs ==
    ASSUME NEW U, IsFiniteSet(U), NEW w, NEW F, Adds(F, w, U), NEW V \in SUBSET U
    PROVE  SumFunctionOnSet(w, V) = F[V]
<1> DEFINE Is(h) == h = [t \in SUBSET V |-> IF t = {} THEN 0
                            ELSE w[CHOOSE x \in t : TRUE] + h[t \ {CHOOSE x \in t : TRUE}]]
           g == CHOOSE h : Is(h)
           e == [t \in SUBSET V |-> F[t]]
<1>1. SumFunctionOnSet(w, V) = g[V]
  BY DEF SumFunctionOnSet, FoldFunctionOnSet, MapThenFoldSet
<1>2. Is(e)
  <2>1. ASSUME NEW t \in SUBSET V, t # {}
        PROVE  e[t] = w[CHOOSE x \in t : TRUE] + e[t \ {CHOOSE x \in t : TRUE}]
    <3> DEFINE x == CHOOSE x \in t : TRUE
    <3>1. x \in t /\ t \in SUBSET U /\ t \ {x} \in SUBSET V
      BY <2>1
    <3> HIDE DEF x
    <3>2. e[t] = F[t] /\ e[t \ {x}] = F[t \ {x}]
      BY <3>1
    <3>3. e[t] = w[x] + e[t \ {x}]
      BY <3>1, <3>2 DEF Adds
    <3> QED
      BY <3>3 DEF x
  <2>2. e[{}] = 0
    <3>1. {} \in SUBSET V
      OBVIOUS
    <3> QED
      BY <3>1 DEF Adds
  <2>3. e = [t \in SUBSET V |-> e[t]]
    OBVIOUS
  <2> HIDE DEF e
  <2> QED
    BY <2>1, <2>2, <2>3
<1>3. Is(g)
  BY <1>2
<1> HIDE DEF g, e
<1> DEFINE T == {t \in SUBSET V : g[t] # F[t]}
<1>4. ASSUME T # {} PROVE FALSE
  <2>1. PICK t \in T : \A k \in T : k \subseteq t => k = t
    <3>1. IsFiniteSet(V)
      BY FS_Subset
    <3>2. T \in SUBSET SUBSET V
      OBVIOUS
    <3> HIDE DEF T
    <3> QED
      BY <1>4, <3>1, <3>2, LeastSet
  <2>2. t # {}
    <3>1. {} \in SUBSET V
      OBVIOUS
    <3>2. g[{}] = 0
      BY <1>3, <3>1
    <3>3. F[{}] = 0
      BY DEF Adds
    <3> QED
      BY <2>1, <3>2, <3>3
  <2> DEFINE x == CHOOSE x \in t : TRUE
  <2>3. x \in t /\ t \in SUBSET U /\ t \ {x} \in SUBSET V
    BY <2>1, <2>2
  <2>4. g[t] = w[x] + g[t \ {x}]
    BY <1>3, <2>1, <2>2
  <2> HIDE DEF x
  <2>5. g[t \ {x}] = F[t \ {x}]
    BY <2>1, <2>3
  <2> QED
    BY <2>1, <2>3, <2>4, <2>5 DEF Adds
<1> QED
  BY <1>1, <1>4

(* The sum over a finite set is an integer, is the number at a member more  *)
(* than the sum over the others, and depends on nothing but the numbers.    *)
LEMMA SumType ==
    ASSUME NEW U, IsFiniteSet(U), NEW w, \A x \in U : w[x] \in Int
    PROVE  SumFunctionOnSet(w, U) \in Int
<1>1. PICK F : Adds(F, w, U)
  BY SumExists
<1>2. SumFunctionOnSet(w, U) = F[U] /\ U \in SUBSET U
  BY <1>1, SumIs
<1> QED
  BY <1>1, <1>2 DEF Adds

(* One member taken out of a sum.                                           *)
LEMMA SumWithout ==
    ASSUME NEW U, IsFiniteSet(U), NEW w, \A x \in U : w[x] \in Int, NEW x \in U
    PROVE  SumFunctionOnSet(w, U) = w[x] + SumFunctionOnSet(w, U \ {x})
<1>1. PICK F : Adds(F, w, U)
  BY SumExists
<1>2. SumFunctionOnSet(w, U) = F[U] /\ SumFunctionOnSet(w, U \ {x}) = F[U \ {x}]
  BY <1>1, SumIs
<1> QED
  BY <1>1, <1>2 DEF Adds

(* A sum depends on nothing but its terms.                                  *)
LEMMA SumSame ==
    ASSUME NEW U, IsFiniteSet(U), NEW w, NEW v, \A x \in U : w[x] \in Int /\ v[x] = w[x]
    PROVE  SumFunctionOnSet(v, U) = SumFunctionOnSet(w, U)
<1>1. PICK F : Adds(F, w, U)
  BY SumExists
<1>2. Adds(F, v, U)
  BY <1>1 DEF Adds
<1> QED
  BY <1>1, <1>2, SumIs

(* What is added at the members of V comes to the sum.                      *)
LEMMA SumPart ==
    ASSUME NEW U, IsFiniteSet(U), NEW V \in SUBSET U, NEW w, NEW v, NEW f,
           \A x \in U : w[x] \in Int, \A x \in V : f[x] \in Int /\ v[x] = w[x] + f[x],
           \A x \in U \ V : v[x] = w[x]
    PROVE  SumFunctionOnSet(v, U) = SumFunctionOnSet(w, U) + SumFunctionOnSet(f, V)
<1>1. PICK F : Adds(F, w, U)
  BY SumExists
<1>2. PICK G : Adds(G, f, V)
  <2>1. IsFiniteSet(V)
    BY FS_Subset
  <2> QED
    BY <2>1, SumExists
<1> DEFINE H == [t \in SUBSET U |-> F[t] + G[t \cap V]]
<1>3. \A t \in SUBSET U : H[t] = F[t] + G[t \cap V] /\ F[t] \in Int /\ G[t \cap V] \in Int /\ H[t] \in Int
  <2> TAKE t \in SUBSET U
  <2>1. F[t] \in Int
    BY <1>1 DEF Adds
  <2>2. G[t \cap V] \in Int
    <3>1. t \cap V \in SUBSET V
      OBVIOUS
    <3> QED
      BY <1>2, <3>1 DEF Adds
  <2>3. H[t] = F[t] + G[t \cap V]
    OBVIOUS
  <2> HIDE DEF H
  <2> QED
    BY <2>1, <2>2, <2>3
<1> HIDE DEF H
<1>4. H[{}] = 0
  <2>1. {} \cap V = {} /\ {} \in SUBSET U
    OBVIOUS
  <2>2. F[{}] = 0 /\ G[{}] = 0
    BY <1>1, <1>2 DEF Adds
  <2>3. H[{}] = F[{}] + G[{} \cap V]
    BY <1>3, <2>1
  <2> QED
    BY <2>1, <2>2, <2>3
<1>5. ASSUME NEW t \in SUBSET U, NEW x \in t PROVE H[t] = v[x] + H[t \ {x}]
  <2>1. F[t] = w[x] + F[t \ {x}] /\ w[x] \in Int /\ x \in U
    BY <1>1 DEF Adds
  <2>2. t \ {x} \in SUBSET U /\ t \cap V \in SUBSET V
    OBVIOUS
  <2>3. H[t] = F[t] + G[t \cap V] /\ H[t \ {x}] = F[t \ {x}] + G[(t \ {x}) \cap V]
    BY <1>3, <2>2
  <2>4. F[t \ {x}] \in Int /\ G[(t \ {x}) \cap V] \in Int
    BY <1>3, <2>2
  <2>5. CASE x \in V
    <3>1. G[t \cap V] = f[x] + G[(t \cap V) \ {x}]
      <4>1. x \in t \cap V
        BY <2>5
      <4> QED
        BY <1>2, <2>2, <4>1 DEF Adds
    <3>2. (t \ {x}) \cap V = (t \cap V) \ {x}
      OBVIOUS
    <3>3. v[x] = w[x] + f[x] /\ f[x] \in Int
      BY <2>5
    <3>4. G[t \cap V] = f[x] + G[(t \ {x}) \cap V]
      BY <3>1, <3>2
    <3> QED
      BY <2>1, <2>3, <2>4, <3>3, <3>4
  <2>6. CASE x \notin V
    <3>1. (t \ {x}) \cap V = t \cap V
      BY <2>6
    <3>2. v[x] = w[x]
      BY <2>1, <2>6
    <3>3. H[t] = F[t] + G[t \cap V] /\ H[t \ {x}] = F[t \ {x}] + G[t \cap V] /\ G[t \cap V] \in Int
      BY <2>3, <2>4, <3>1
    <3> QED
      BY <2>1, <2>4, <3>2, <3>3
  <2> QED
    BY <2>5, <2>6
<1>6. Adds(H, v, U)
  BY <1>3, <1>4, <1>5 DEF Adds
<1>7. /\ SumFunctionOnSet(v, U) = H[U] /\ SumFunctionOnSet(w, U) = F[U] /\ SumFunctionOnSet(f, V) = G[V]
  <2>1. IsFiniteSet(V)
    BY FS_Subset
  <2> QED
    BY <1>1, <1>2, <1>6, <2>1, SumIs
<1>8. U \cap V = V
  OBVIOUS
<1> QED
  BY <1>3, <1>7, <1>8

-----------------------------------------------------------------------------
(* Keys and their prefixes.                                                 *)

Keys == Seq(Tokens)

(* A prefix, token by token.                                                *)
LEMMA PrefixIs ==
    ASSUME NEW j \in Keys, NEW k \in Keys
    PROVE  IsPrefix(j, k) <=> Len(j) <= Len(k) /\ \A i \in 1 .. Len(j) : j[i] = k[i]
<1>1. ASSUME NEW n \in Nat, n <= Len(j), n <= Len(k)
      PROVE  SubSeq(j, 1, n) = SubSeq(k, 1, n) <=> \A i \in 1 .. n : j[i] = k[i]
  <2>1. /\ SubSeq(j, 1, n) = [i \in 1 .. n |-> j[i]]
        /\ SubSeq(k, 1, n) = [i \in 1 .. n |-> k[i]]
    BY <1>1 DEF Keys
  <2> QED
    BY <2>1
<1> QED
  BY <1>1 DEF IsPrefix, Keys

(* Prefixes of each other are equal.                                        *)
LEMMA SameKeys ==
    ASSUME NEW j \in Keys, NEW k \in Keys, IsPrefix(j, k), Len(k) <= Len(j)
    PROVE  j = k
BY PrefixIs DEF Keys

(* Prefixes order the keys.                                                 *)
LEMMA PrefixOrder ==
    ASSUME NEW j \in Keys, NEW k \in Keys
    PROVE  /\ IsPrefix(j, j) /\ IsPrefix(<<>>, j)
           /\ IsPrefix(j, k) => Len(j) <= Len(k)
           /\ IsStrictPrefix(j, k) <=> IsPrefix(j, k) /\ Len(j) < Len(k)
           /\ \A l \in Keys : /\ IsPrefix(j, k) /\ IsPrefix(k, l) => IsPrefix(j, l)
                              /\ IsPrefix(j, l) /\ IsPrefix(k, l) /\ Len(j) <= Len(k) => IsPrefix(j, k)
<1>1. Len(j) \in Nat /\ Len(k) \in Nat /\ <<>> \in Keys /\ Len(<<>>) = 0
  BY DEF Keys
<1>2. IsPrefix(j, j) /\ IsPrefix(<<>>, j)
  BY <1>1, PrefixIs
<1>3. IsPrefix(j, k) => Len(j) <= Len(k)
  BY PrefixIs
<1>4. IsStrictPrefix(j, k) <=> IsPrefix(j, k) /\ Len(j) < Len(k)
  BY <1>1, <1>3, SameKeys DEF IsStrictPrefix
<1>5. ASSUME NEW l \in Keys
      PROVE  /\ IsPrefix(j, k) /\ IsPrefix(k, l) => IsPrefix(j, l)
             /\ IsPrefix(j, l) /\ IsPrefix(k, l) /\ Len(j) <= Len(k) => IsPrefix(j, k)
  <2>1. Len(l) \in Nat
    BY DEF Keys
  <2>2. IsPrefix(j, k) /\ IsPrefix(k, l) => IsPrefix(j, l)
    BY <1>1, <2>1, PrefixIs
  <2>3. IsPrefix(j, l) /\ IsPrefix(k, l) /\ Len(j) <= Len(k) => IsPrefix(j, k)
    BY <1>1, <2>1, PrefixIs
  <2> QED
    BY <2>2, <2>3
<1> QED
  BY <1>2, <1>3, <1>4, <1>5

(* Only the root has no tokens.                                             *)
LEMMA LenIs == ASSUME NEW k \in Keys PROVE Len(k) \in Nat /\ (Len(k) = 0 <=> k = Root)
BY DEF Keys, Root

(* A strict prefix is a shorter one.                                        *)
LEMMA StrictIs ==
    ASSUME NEW j \in Keys, NEW k \in Keys
    PROVE  IsStrictPrefix(j, k) <=> IsPrefix(j, k) /\ Len(j) < Len(k)
BY PrefixOrder

(* What is above a node's ancestor is above the node.                       *)
LEMMA Above ==
    ASSUME NEW i \in Keys, NEW j \in Keys, NEW k \in Keys, IsPrefix(i, j), IsPrefix(j, k)
    PROVE  IsPrefix(i, k)
BY PrefixOrder

(* Two prefixes of one key are prefixes of each other.                      *)
LEMMA Nested ==
    ASSUME NEW i \in Keys, NEW j \in Keys, NEW k \in Keys, IsPrefix(i, k), IsPrefix(j, k), Len(i) <= Len(j)
    PROVE  IsPrefix(i, j)
BY PrefixOrder

(* The first n tokens of a key.                                             *)
LEMMA InitialIs ==
    ASSUME NEW k \in Keys, NEW n \in Nat, n <= Len(k)
    PROVE  /\ SubSeq(k, 1, n) \in Keys /\ Len(SubSeq(k, 1, n)) = n
           /\ \A i \in 1 .. n : SubSeq(k, 1, n)[i] = k[i]
           /\ IsPrefix(SubSeq(k, 1, n), k)
<1>1. /\ SubSeq(k, 1, n) \in Keys /\ Len(SubSeq(k, 1, n)) = n
      /\ \A i \in 1 .. n : SubSeq(k, 1, n)[i] = k[i]
  BY DEF Keys
<1> QED
  BY <1>1, PrefixIs

(* The first n tokens of two keys are the same.                             *)
Agree(j, k, n) == n <= Len(j) /\ n <= Len(k) /\ \A i \in 1 .. n : j[i] = k[i]

(* That two keys agree in their first n tokens is an equivalence, and says  *)
(* that the one's are a prefix of the other.                                *)
LEMMA AgreeIs ==
    ASSUME NEW j \in Keys, NEW k \in Keys, NEW n \in Nat
    PROVE  /\ Agree(j, k, n) <=> /\ n <= Len(j) /\ n <= Len(k)
                                 /\ SubSeq(j, 1, n) = SubSeq(k, 1, n)
           /\ n <= Len(j) /\ n <= Len(k) => (Agree(j, k, n) <=> IsPrefix(SubSeq(j, 1, n), k))
           /\ Agree(j, k, n) => Agree(k, j, n)
           /\ \A m \in 0 .. n : Agree(j, k, n) => Agree(j, k, m)
           /\ \A l \in Keys : Agree(j, k, n) /\ Agree(k, l, n) => Agree(j, l, n)
<1>1. /\ Agree(j, k, n) => Agree(k, j, n)
      /\ \A m \in 0 .. n : Agree(j, k, n) => Agree(j, k, m)
      /\ \A l \in Keys : Agree(j, k, n) /\ Agree(k, l, n) => Agree(j, l, n)
  BY DEF Agree, Keys
<1>2. ASSUME n <= Len(j), n <= Len(k)
      PROVE  /\ Agree(j, k, n) <=> SubSeq(j, 1, n) = SubSeq(k, 1, n)
             /\ Agree(j, k, n) <=> IsPrefix(SubSeq(j, 1, n), k)
  <2>1. /\ SubSeq(j, 1, n) = [i \in 1 .. n |-> j[i]]
        /\ SubSeq(k, 1, n) = [i \in 1 .. n |-> k[i]]
    BY <1>2 DEF Keys
  <2>2. Agree(j, k, n) <=> SubSeq(j, 1, n) = SubSeq(k, 1, n)
    BY <1>2, <2>1 DEF Agree
  <2>3. Agree(j, k, n) <=> IsPrefix(SubSeq(j, 1, n), k)
    <3> DEFINE p == SubSeq(j, 1, n)
    <3>1. p \in Keys /\ Len(p) = n /\ \A i \in 1 .. n : p[i] = j[i]
      BY <1>2, InitialIs
    <3> HIDE DEF p
    <3>2. IsPrefix(p, k) <=> n <= Len(k) /\ \A i \in 1 .. n : p[i] = k[i]
      BY <3>1, PrefixIs
    <3>3. Agree(j, k, n) <=> IsPrefix(p, k)
      BY <1>2, <3>1, <3>2 DEF Agree
    <3> QED
      BY <3>3 DEF p
  <2> QED
    BY <2>2, <2>3
<1> QED
  BY <1>1, <1>2 DEF Agree

(* Common: up to where two keys agree.                                      *)
LEMMA CommonIs ==
    ASSUME NEW j \in Keys, NEW k \in Keys
    PROVE  /\ Common(j, k) \in Nat /\ Agree(j, k, Common(j, k))
           /\ \A m \in Nat : Agree(j, k, m) => m <= Common(j, k)
           /\ LongestCommonPrefix({j, k}) = SubSeq(j, 1, Common(j, k))
<1>1. PICK n \in Nat : Agree(j, k, n) /\ \A m \in Nat : Agree(j, k, m) => m <= n
  <2> DEFINE T == {Len(j) - m : m \in {m \in 0 .. Len(j) : Agree(j, k, m)}}
  <2>1. Len(j) \in Nat /\ Agree(j, k, 0)
    BY DEF Keys, Agree
  <2>2. T \in SUBSET Nat /\ T # {}
    <3>1. Len(j) - 0 \in T
      BY <2>1
    <3>2. \A t \in T : t \in Nat
      BY <2>1
    <3> QED
      BY <3>1, <3>2
  <2>3. PICK t \in T : \A u \in T : t <= u
    <3> HIDE DEF T
    <3> QED
      BY <2>2, LeastNatural
  <2>4. PICK n \in 0 .. Len(j) : Agree(j, k, n) /\ t = Len(j) - n
    BY <2>3
  <2>5. ASSUME NEW m \in Nat, Agree(j, k, m) PROVE m <= n
    <3>1. m \in 0 .. Len(j)
      BY <2>1, <2>5 DEF Agree
    <3>2. Len(j) - m \in T
      BY <2>5, <3>1
    <3>3. Len(j) - n <= Len(j) - m
      BY <2>3, <2>4, <3>2
    <3> QED
      BY <2>1, <3>1, <3>3
  <2> QED
    BY <2>4, <2>5
<1> DEFINE p == SubSeq(j, 1, n)
           P == CommonPrefixes({j, k})
<1>2. p \in Keys /\ Len(p) = n /\ IsPrefix(p, j) /\ IsPrefix(p, k)
  BY <1>1, InitialIs, AgreeIs DEF Agree
<1>3. p \in P
  <2>1. p \in Prefixes(j)
    BY <1>1 DEF Prefixes, Agree, Keys
  <2> QED
    BY <1>2, <2>1 DEF CommonPrefixes
<1>4. ASSUME NEW q \in P PROVE q \in Keys /\ IsPrefix(q, j) /\ IsPrefix(q, k) /\ Len(q) <= n
  <2>1. IsPrefix(q, j) /\ IsPrefix(q, k) /\ (q \in Prefixes(j) \/ q \in Prefixes(k))
    BY DEF CommonPrefixes
  <2>2. q \in Keys
    BY <2>1, InitialIs DEF Prefixes, Keys
  <2>3. Agree(j, k, Len(q))
    BY <2>1, <2>2, PrefixIs DEF Agree, Keys
  <2> QED
    BY <1>1, <2>1, <2>2, <2>3 DEF Keys
<1>5. LongestCommonPrefix({j, k}) = p
  <2> DEFINE l == LongestCommonPrefix({j, k})
  <2>1. l \in P /\ \A q \in P : Len(q) <= Len(l)
    BY <1>2, <1>3, <1>4 DEF LongestCommonPrefix
  <2> HIDE DEF l, p, P
  <2>2. l \in Keys /\ IsPrefix(l, j) /\ Len(l) <= n /\ n <= Len(l)
    BY <1>2, <1>3, <1>4, <2>1
  <2>3. IsPrefix(p, l)
    BY <1>2, <2>2, PrefixOrder
  <2>4. p = l
    BY <1>2, <2>2, <2>3, SameKeys
  <2> QED
    BY <2>4 DEF l
<1>6. Common(j, k) = n
  BY <1>2, <1>5 DEF Common
<1> QED
  BY <1>1, <1>5, <1>6

(* A prefix agrees to its end.                                              *)
LEMMA PrefixAgrees ==
    ASSUME NEW j \in Keys, NEW k \in Keys
    PROVE  IsPrefix(j, k) <=> Agree(j, k, Len(j))
<1>1. Len(j) \in Nat /\ Len(j) <= Len(j)
  BY LenIs
<1>2. IsPrefix(j, k) <=> Len(j) <= Len(k) /\ \A i \in 1 .. Len(j) : j[i] = k[i]
  BY PrefixIs
<1> QED
  BY <1>1, <1>2 DEF Agree

(* Keys agree no further than in their common tokens.                       *)
LEMMA CommonBounds ==
    ASSUME NEW j \in Keys, NEW k \in Keys, NEW n \in Nat, Agree(j, k, n)
    PROVE  n <= Common(j, k)
BY CommonIs

(* Ascending: every member of S once, and smaller ones first.               *)
Ranked(S, w) ==
    [i \in 1 .. Cardinality(S) |-> CHOOSE x \in S : Cardinality({y \in S : w[y] < w[x]}) = i - 1]

(* In the order of a weight that tells the members of a finite set apart    *)
(* each comes once, smaller ones first.                                     *)
LEMMA RankIs ==
    ASSUME NEW S, IsFiniteSet(S), NEW w \in [S -> Nat], \A x, y \in S : w[x] = w[y] => x = y,
           NEW a, a = Ranked(S, w)
    PROVE  /\ Cardinality(S) \in Nat /\ a \in [1 .. Cardinality(S) -> S]
           /\ \A x \in S : \E i \in 1 .. Cardinality(S) : a[i] = x
           /\ \A i, j \in 1 .. Cardinality(S) : i < j => w[a[i]] < w[a[j]]
<1> DEFINE n == Cardinality(S)
           Below(x) == {y \in S : w[y] < w[x]}
           r == [x \in S |-> Cardinality(Below(x)) + 1]
<1>1. n \in Nat
  BY FS_CardinalityType
<1>2. ASSUME NEW x \in S PROVE IsFiniteSet(Below(x)) /\ Cardinality(Below(x)) \in Nat /\ r[x] \in 1 .. n
  <2>1. Below(x) \in SUBSET S /\ x \notin Below(x)
    OBVIOUS
  <2> HIDE DEF Below
  <2>2. /\ IsFiniteSet(Below(x)) /\ Cardinality(Below(x)) \in Nat
        /\ Cardinality(Below(x)) <= n /\ Cardinality(Below(x)) # n
    BY <2>1, FS_Subset, FS_CardinalityType
  <2>3. r[x] = Cardinality(Below(x)) + 1
    OBVIOUS
  <2> HIDE DEF r
  <2> QED
    BY <1>1, <2>2, <2>3
<1>3. ASSUME NEW x \in S, NEW y \in S, w[x] < w[y] PROVE r[x] < r[y]
  <2>1. Below(x) \in SUBSET Below(y) /\ x \in Below(y) /\ x \notin Below(x)
    BY <1>3
  <2>2. r[x] = Cardinality(Below(x)) + 1 /\ r[y] = Cardinality(Below(y)) + 1
    OBVIOUS
  <2>3. /\ IsFiniteSet(Below(y)) /\ Cardinality(Below(y)) \in Nat
        /\ Cardinality(Below(x)) \in Nat
    BY <1>2
  <2> HIDE DEF r, Below
  <2>4. /\ Cardinality(Below(x)) <= Cardinality(Below(y))
        /\ Cardinality(Below(x)) # Cardinality(Below(y))
    BY <2>1, <2>3, FS_Subset
  <2> QED
    BY <2>2, <2>3, <2>4
<1>4. ASSUME NEW x \in S, NEW y \in S, r[x] = r[y] PROVE x = y
  <2>1. r[x] \in 1 .. n /\ r[y] \in 1 .. n /\ w[x] \in Nat /\ w[y] \in Nat
    BY <1>2
  <2> HIDE DEF r
  <2>2. ~(r[x] < r[y]) /\ ~(r[y] < r[x])
    BY <1>1, <1>4, <2>1
  <2>3. w[x] = w[y]
    BY <1>3, <2>1, <2>2
  <2> QED
    BY <2>3
<1>5. \A i \in 1 .. n : \E x \in S : r[x] = i
  <2>1. r \in Injection(S, 1 .. n)
    <3>1. r \in [S -> 1 .. n]
      <4>1. r = [x \in S |-> r[x]]
        OBVIOUS
      <4> HIDE DEF r
      <4> QED
        BY <1>2, <4>1
    <3> HIDE DEF r
    <3> QED
      BY <1>4, <3>1 DEF Injection, IsInjective
  <2>2. IsFiniteSet(1 .. n) /\ Cardinality(1 .. n) = n
    BY <1>1, FS_Interval
  <2>3. r \in Surjection(S, 1 .. n)
    BY <2>1, <2>2, FS_Injection
  <2> HIDE DEF r
  <2> QED
    BY <2>3 DEF Surjection
<1>6. ASSUME NEW i \in 1 .. n PROVE a[i] \in S /\ r[a[i]] = i
  <2>1. a[i] = CHOOSE x \in S : Cardinality(Below(x)) = i - 1
    BY <1>6 DEF Ranked
  <2>2. PICK x \in S : r[x] = i
    BY <1>5
  <2>3. Cardinality(Below(x)) = i - 1
    <3>1. r[x] = Cardinality(Below(x)) + 1 /\ Cardinality(Below(x)) \in Nat
      BY <1>2
    <3> HIDE DEF r, Below
    <3> QED
      BY <2>2, <3>1
  <2>4. a[i] \in S /\ Cardinality(Below(a[i])) = i - 1
    BY <2>1, <2>3
  <2> HIDE DEF Below
  <2> QED
    BY <2>4
<1>7. a \in [1 .. n -> S]
  BY <1>6 DEF Ranked
<1>8. \A x \in S : \E i \in 1 .. n : a[i] = x
  <2> SUFFICES ASSUME NEW x \in S PROVE a[r[x]] = x /\ r[x] \in 1 .. n
    OBVIOUS
  <2>1. r[x] \in 1 .. n
    BY <1>2
  <2> HIDE DEF r
  <2>2. a[r[x]] \in S /\ r[a[r[x]]] = r[x]
    BY <1>6, <2>1
  <2> QED
    BY <1>4, <2>1, <2>2
<1>9. ASSUME NEW i \in 1 .. n, NEW j \in 1 .. n, i < j PROVE w[a[i]] < w[a[j]]
  <2>1. a[i] \in S /\ a[j] \in S /\ r[a[i]] = i /\ r[a[j]] = j
    BY <1>6
  <2>2. w[a[i]] \in Nat /\ w[a[j]] \in Nat
    BY <2>1
  <2> HIDE DEF r
  <2>3. ~(w[a[j]] < w[a[i]])
    BY <1>3, <1>9, <2>1
  <2>4. w[a[i]] # w[a[j]]
    BY <1>9, <2>1
  <2> QED
    BY <2>2, <2>3, <2>4
<1> QED
  BY <1>1, <1>7, <1>8, <1>9

-----------------------------------------------------------------------------
(* The trie.                                                                *)

(* A finite set of keys with the root in it, compressed: where two keys     *)
(* part there is a node.                                                    *)
Tree(K) ==
    /\ K \subseteq Keys /\ IsFiniteSet(K) /\ Root \in K
    /\ \A j, k \in K : SubSeq(j, 1, Common(j, k)) \in K

(* A tree holds the longest common prefix of any two of its keys.           *)
LEMMA TreeMeets == ASSUME NEW K, Tree(K) PROVE \A j, k \in K : LongestCommonPrefix({j, k}) \in K
BY CommonIs DEF Tree

(* The parent of a key is the longest of the nodes above it.                *)
LEMMA ParentIs ==
    ASSUME NEW T, DOMAIN T \subseteq Keys, Root \in DOMAIN T, NEW k \in Keys, k # Root
    PROVE  /\ ParentOf(T, k) \in DOMAIN T /\ IsStrictPrefix(ParentOf(T, k), k)
           /\ \A o \in DOMAIN T : IsStrictPrefix(o, k) => IsPrefix(o, ParentOf(T, k))
           /\ StartOffset(T, k) = Len(ParentOf(T, k))
           /\ StartOffset(T, k) \in Nat /\ StartOffset(T, k) < Len(k)
<1> DEFINE above == {p \in DOMAIN T : IsStrictPrefix(p, k)}
           N == {Len(k) - Len(p) : p \in above}
           p == ParentOf(T, k)
<1>1. Len(k) \in Nat /\ Root \in above
  BY PrefixOrder DEF Keys, Root, IsStrictPrefix
<1>2. \A o \in above : o \in Keys /\ Len(o) \in Nat /\ Len(o) < Len(k) /\ IsPrefix(o, k)
  BY PrefixOrder DEF Keys
<1>3. \E q \in above : \A o \in above : Len(o) <= Len(q)
  <2>1. N \in SUBSET Nat /\ N # {}
    BY <1>1, <1>2
  <2>2. PICK n \in N : \A m \in N : n <= m
    <3> HIDE DEF N
    <3> QED
      BY <2>1, LeastNatural
  <2>3. PICK q \in above : n = Len(k) - Len(q)
    OBVIOUS
  <2>4. ASSUME NEW o \in above PROVE Len(o) <= Len(q)
    <3>1. Len(k) - Len(q) <= Len(k) - Len(o)
      BY <2>2, <2>3
    <3> QED
      BY <1>1, <1>2, <3>1
  <2> QED
    BY <2>4
<1>4. p \in above /\ \A o \in above : Len(o) <= Len(p)
  BY <1>3 DEF ParentOf
<1> HIDE DEF p
<1>5. \A o \in above : IsPrefix(o, p)
  BY <1>2, <1>4, PrefixOrder
<1>6. StartOffset(T, k) = Len(p)
  BY DEF StartOffset, p
<1> QED
  BY <1>2, <1>4, <1>5, <1>6 DEF p

(* No edge begins after its end.                                            *)
LEMMA StartIs ==
    ASSUME NEW T, DOMAIN T \subseteq Keys, Root \in DOMAIN T, NEW k \in Keys
    PROVE  StartOffset(T, k) \in Nat /\ StartOffset(T, k) <= Len(k)
BY ParentIs DEF StartOffset, Keys

(* Below a node that is above j there is a child that is at j or above it.  *)
LEMMA ChildAbove ==
    ASSUME NEW T, DOMAIN T \subseteq Keys, Root \in DOMAIN T,
           NEW k \in DOMAIN T, NEW j \in DOMAIN T, IsStrictPrefix(k, j)
    PROVE  \E x \in Children(T, k) : IsPrefix(x, j) /\ IsStrictPrefix(k, x)
<1> DEFINE between == {o \in DOMAIN T : IsStrictPrefix(k, o) /\ IsPrefix(o, j)}
           N == {Len(o) : o \in between}
<1>1. k \in Keys /\ j \in Keys /\ j \in between
  BY PrefixOrder
<1>2. \A o \in between : o \in Keys /\ Len(o) \in Nat
  BY DEF Keys
<1>3. N \in SUBSET Nat /\ N # {}
  BY <1>1, <1>2
<1>4. PICK n \in N : \A m \in N : n <= m
  <2> HIDE DEF N
  <2> QED
    BY <1>3, LeastNatural
<1>5. PICK x \in between : Len(x) = n
  OBVIOUS
<1>6. \A o \in between : Len(x) <= Len(o)
  BY <1>4, <1>5
<1> DEFINE p == ParentOf(T, x)
<1>7. x # Root /\ p \in DOMAIN T /\ IsStrictPrefix(p, x) /\ IsPrefix(k, p)
  <2>1. x # Root
    BY <1>1, <1>2, PrefixOrder DEF Root, Keys
  <2> QED
    BY <1>1, <1>2, <2>1, ParentIs
<1> HIDE DEF p
<1>8. p = k
  <2>1. p \in Keys /\ IsPrefix(p, x) /\ Len(p) < Len(x) /\ IsPrefix(p, j)
    BY <1>1, <1>2, <1>7, PrefixOrder
  <2>2. p \notin between
    BY <1>2, <1>6, <2>1 DEF Keys
  <2> QED
    BY <1>1, <1>7, <2>1, <2>2 DEF IsStrictPrefix
<1> QED
  BY <1>2, <1>7, <1>8 DEF Children, p

(* A child is a node below its parent.                                      *)
LEMMA ChildIs ==
    ASSUME NEW T, DOMAIN T \subseteq Keys, Root \in DOMAIN T, NEW k, NEW x \in Children(T, k)
    PROVE  x \in DOMAIN T /\ x # Root /\ k \in DOMAIN T /\ IsStrictPrefix(k, x) /\ x # k
BY ParentIs DEF Children, IsStrictPrefix

(* A node with one child or none can be taken out of the trie.              *)
LEMMA TreeDrop ==
    ASSUME NEW T, Tree(DOMAIN T), NEW k \in DOMAIN T, k # Root,
           \A x, y \in Children(T, k) : x = y
    PROVE  Tree(DOMAIN T \ {k})
<1> DEFINE K == DOMAIN T
<1>1. K \subseteq Keys /\ Root \in K \ {k} /\ IsFiniteSet(K \ {k})
  BY FS_RemoveElement DEF Tree
<1>2. ASSUME NEW i \in K \ {k}, NEW j \in K \ {k} PROVE SubSeq(i, 1, Common(i, j)) \in K \ {k}
  <2> DEFINE n == Common(i, j)
             m == SubSeq(i, 1, n)
  <2>1. i \in Keys /\ j \in Keys /\ m \in K
    BY <1>1 DEF Tree
  <2>2. n \in Nat /\ Agree(i, j, n) /\ \A o \in Nat : Agree(i, j, o) => o <= n
    BY <2>1, CommonIs
  <2>3. Len(m) = n /\ IsPrefix(m, i) /\ IsPrefix(m, j)
    BY <2>1, <2>2, InitialIs, AgreeIs DEF Agree
  <2> HIDE DEF n, m
  <2>4. ASSUME m = k PROVE FALSE
    <3>1. IsStrictPrefix(m, i) /\ IsStrictPrefix(m, j)
      BY <2>3, <2>4 DEF IsStrictPrefix
    <3>2. PICK x \in Children(T, k) : IsPrefix(x, i) /\ IsStrictPrefix(k, x)
      BY <1>1, <2>4, <3>1, ChildAbove
    <3>3. PICK y \in Children(T, k) : IsPrefix(y, j) /\ IsStrictPrefix(k, y)
      BY <1>1, <2>4, <3>1, ChildAbove
    <3>4. x = y /\ x \in Keys /\ Len(x) \in Nat /\ Len(k) < Len(x)
      BY <1>1, <2>1, <2>4, <3>2, <3>3, ChildIs, PrefixOrder DEF Keys
    <3>5. Agree(i, j, Len(x))
      BY <2>1, <3>2, <3>3, <3>4, PrefixIs DEF Agree, Keys
    <3> QED
      BY <2>2, <2>3, <2>4, <3>4, <3>5
  <2> QED
    BY <2>1, <2>4 DEF m, n
<1> QED
  BY <1>1, <1>2 DEF Tree

(* A key whose meets with the nodes are nodes, or itself, can be added.     *)
LEMMA TreeAdd ==
    ASSUME NEW K, Tree(K), NEW p \in Keys, \A j \in K : SubSeq(j, 1, Common(j, p)) \in K \cup {p}
    PROVE  Tree(K \cup {p})
<1>1. K \cup {p} \subseteq Keys /\ Root \in K \cup {p} /\ IsFiniteSet(K \cup {p})
  BY FS_AddElement DEF Tree
<1>2. ASSUME NEW i \in K \cup {p}, NEW j \in K \cup {p}
      PROVE  SubSeq(i, 1, Common(i, j)) \in K \cup {p}
  <2>1. i \in Keys /\ j \in Keys
    BY <1>1
  <2>2. CASE j = p /\ i \in K
    BY <2>2
  <2>3. CASE i \in K /\ j \in K
    BY <2>3 DEF Tree
  <2>4. CASE i = p /\ j \in K
    <3>1. /\ LongestCommonPrefix({i, j}) = SubSeq(i, 1, Common(i, j))
          /\ LongestCommonPrefix({j, i}) = SubSeq(j, 1, Common(j, i))
      BY <2>1, CommonIs
    <3>2. {i, j} = {j, i}
      OBVIOUS
    <3> QED
      BY <2>4, <3>1, <3>2
  <2>5. CASE i = p /\ j = p
    <3>1. Agree(p, p, Len(p)) /\ Len(p) \in Nat
      BY DEF Agree, Keys
    <3>2. Common(p, p) = Len(p)
      <4>1. Common(p, p) \in Nat /\ Agree(p, p, Common(p, p)) /\ Len(p) <= Common(p, p)
        BY <3>1, CommonIs
      <4> QED
        BY <3>1, <4>1 DEF Agree
    <3>3. SubSeq(p, 1, Len(p)) = p
      BY DEF Keys
    <3> QED
      BY <2>5, <3>2, <3>3
  <2> QED
    BY <2>2, <2>3, <2>4, <2>5
<1> QED
  BY <1>1, <1>2 DEF Tree

-----------------------------------------------------------------------------
(* findBestMatch.                                                           *)

On(T, from, t) ==
    {from} \cup {k \in DOMAIN T : IsStrictPrefix(from, k) /\ Common(k, t) > StartOffset(T, k)}

(* Of two nodes that match one is above the other.                          *)
LEMMA OnIsChain ==
    ASSUME NEW T, Tree(DOMAIN T), NEW from \in DOMAIN T, NEW t \in Keys,
           NEW j \in On(T, from, t), NEW k \in On(T, from, t), Len(j) <= Len(k)
    PROVE  /\ IsPrefix(j, k)
           /\ j # k => IsPrefix(j, t) \/ j = from
<1>1. /\ DOMAIN T \subseteq Keys /\ Root \in DOMAIN T
      /\ from \in Keys /\ j \in DOMAIN T /\ k \in DOMAIN T /\ j \in Keys /\ k \in Keys
      /\ Len(j) \in Nat /\ Len(k) \in Nat /\ IsPrefix(from, j) /\ IsPrefix(from, k)
  <2>1. DOMAIN T \subseteq Keys
    BY DEF Tree
  <2>2. j \in DOMAIN T /\ k \in DOMAIN T
    BY DEF On
  <2>3. IsPrefix(from, j) /\ IsPrefix(from, k)
    BY <2>1, PrefixOrder DEF On, IsStrictPrefix
  <2> QED
    BY <2>1, <2>2, <2>3 DEF Tree, Keys
<1>2. CASE j = from \/ k = from
  <2>1. IsPrefix(j, k)
    BY <1>1, <1>2, PrefixOrder, SameKeys
  <2>2. j # k => j = from
    BY <1>1, <1>2, SameKeys
  <2> QED
    BY <2>1, <2>2
<1>3. CASE j # from /\ k # from
  <2> DEFINE n == Common(j, k)
             m == SubSeq(j, 1, n)
  <2>1. n \in Nat /\ Agree(j, k, n) /\ (\A o \in Nat : Agree(j, k, o) => o <= n) /\ m \in DOMAIN T
    BY <1>1, CommonIs DEF Tree
  <2>2. m \in Keys /\ Len(m) = n /\ IsPrefix(m, j) /\ IsPrefix(m, k)
    BY <1>1, <2>1, InitialIs, AgreeIs DEF Agree
  <2>3. /\ Common(j, t) \in Nat /\ Agree(j, t, Common(j, t)) /\ Common(j, t) > StartOffset(T, j)
        /\ Common(k, t) \in Nat /\ Agree(k, t, Common(k, t)) /\ Common(k, t) > StartOffset(T, k)
    BY <1>1, <1>3, CommonIs DEF On
  <2>4. j # Root /\ k # Root
    BY <1>1, <1>3, SameKeys DEF Root, Keys
  <2> HIDE DEF n, m
  <2>5. IsPrefix(j, k)
    <3> SUFFICES ASSUME ~IsPrefix(j, k) PROVE FALSE
      OBVIOUS
    <3>1. n < Len(j) /\ n < Len(k)
      <4>1. n # Len(j)
        BY <1>1, <2>1, PrefixIs DEF Agree
      <4> QED
        BY <1>1, <2>1, <4>1 DEF Agree
    <3>2. IsStrictPrefix(m, j) /\ IsStrictPrefix(m, k)
      BY <1>1, <2>2, <3>1, PrefixOrder
    <3>3. n <= StartOffset(T, j) /\ n <= StartOffset(T, k)
      <4>1. /\ IsPrefix(m, ParentOf(T, j)) /\ ParentOf(T, j) \in Keys
            /\ IsPrefix(m, ParentOf(T, k)) /\ ParentOf(T, k) \in Keys
        BY <1>1, <2>1, <2>4, <3>2, ParentIs DEF m
      <4> QED
        BY <1>1, <2>2, <2>4, <4>1, ParentIs, PrefixOrder
    <3>4. Agree(j, t, n + 1) /\ Agree(t, k, n + 1)
      <4>1. StartOffset(T, j) \in Nat /\ StartOffset(T, k) \in Nat
        BY <1>1, StartIs
      <4>2. n + 1 \in 0 .. Common(j, t) /\ n + 1 \in 0 .. Common(k, t)
        BY <2>1, <2>3, <3>3, <4>1
      <4>3. Agree(j, t, n + 1) /\ Agree(k, t, n + 1)
        BY <1>1, <2>3, <4>2, AgreeIs
      <4> QED
        BY <1>1, <2>1, <4>3, AgreeIs
    <3>5. Agree(j, k, n + 1)
      BY <1>1, <2>1, <3>4, AgreeIs
    <3> QED
      BY <2>1, <3>5
  <2>6. ASSUME j # k PROVE IsPrefix(j, t)
    <3>1. IsPrefix(j, ParentOf(T, k)) /\ ParentOf(T, k) \in Keys
      BY <1>1, <2>4, <2>5, <2>6, ParentIs DEF IsStrictPrefix
    <3>2. Len(j) <= StartOffset(T, k) /\ StartOffset(T, k) \in Nat
      BY <1>1, <2>4, <3>1, ParentIs, PrefixOrder
    <3>3. Agree(k, t, Len(j))
      BY <1>1, <2>3, <3>2, AgreeIs
    <3> QED
      BY <1>1, <2>5, <3>3, PrefixIs DEF Agree
  <2> QED
    BY <2>5, <2>6
<1> QED
  BY <1>2, <1>3
(* findBestMatch: its path begins where it is told to, goes down, and is    *)
(* what matches, all of it above its end.                                   *)
LEMMA MatchIs ==
    ASSUME NEW T, Tree(DOMAIN T), NEW from \in DOMAIN T, NEW t \in Keys,
           NEW p, p = MatchPath(T, from, t)
    PROVE  /\ p \in Seq(DOMAIN T) /\ Len(p) \in Nat \ {0} /\ p[1] = from
           /\ ToSet(p) = On(T, from, t) /\ Last(p) \in On(T, from, t)
           /\ \A i, j \in DOMAIN p : i < j => Len(p[i]) < Len(p[j])
           /\ \A o \in On(T, from, t) : IsPrefix(o, Last(p))
<1> DEFINE O == On(T, from, t)
           w == [k \in O |-> Len(k)]
           n == Cardinality(O)
<1>1. DOMAIN T \subseteq Keys /\ IsFiniteSet(DOMAIN T)
  BY DEF Tree
<1>2. O \subseteq DOMAIN T /\ IsFiniteSet(O) /\ from \in O
  <2>1. O \subseteq DOMAIN T /\ from \in O
    BY DEF On
  <2> QED
    BY <1>1, <2>1, FS_Subset
<1>3. w \in [O -> Nat]
  BY <1>1, <1>2 DEF Keys
<1>4. \A x, y \in O : w[x] = w[y] => x = y
  <2> SUFFICES ASSUME NEW x \in O, NEW y \in O, Len(x) = Len(y) PROVE x = y
    OBVIOUS
  <2>1. x \in Keys /\ y \in Keys
    BY <1>1, <1>2
  <2>2. IsPrefix(x, y)
    <3>1. Len(x) <= Len(y)
      BY <2>1 DEF Keys
    <3> QED
      BY <3>1, OnIsChain
  <2> QED
    BY <2>1, <2>2, SameKeys DEF Keys
<1>5. p = [i \in 1 .. n |-> CHOOSE x \in O : Cardinality({y \in O : w[y] < w[x]}) = i - 1]
  <2>1. \A x \in O : {y \in O : w[y] < w[x]} = {y \in O : Len(y) < Len(x)}
    OBVIOUS
  <2> HIDE DEF w
  <2>2. p = Ascending(O, Len)
    BY DEF MatchPath, On
  <2> HIDE DEF O
  <2> QED
    BY <2>1, <2>2 DEF Ascending
<1> HIDE DEF w, O, n
<1>6. /\ n \in Nat /\ p \in [1 .. n -> O]
      /\ \A x \in O : \E i \in 1 .. n : p[i] = x
      /\ \A i, j \in 1 .. n : i < j => w[p[i]] < w[p[j]]
  <2>1. IsFiniteSet(O) /\ n = Cardinality(O)
    BY <1>2 DEF n
  <2>2. p = Ranked(O, w)
    BY <1>5 DEF n, Ranked
  <2> HIDE DEF n
  <2>3. /\ Cardinality(O) \in Nat /\ p \in [1 .. Cardinality(O) -> O]
        /\ \A x \in O : \E i \in 1 .. Cardinality(O) : p[i] = x
        /\ \A i, j \in 1 .. Cardinality(O) : i < j => w[p[i]] < w[p[j]]
    BY <1>3, <1>4, <2>1, <2>2, RankIs
  <2> QED
    BY <2>1, <2>3
<1>7. n \in Nat \ {0} /\ p \in Seq(DOMAIN T) /\ Len(p) = n /\ DOMAIN p = 1 .. n
  BY <1>2, <1>6
<1>8. \A i \in 1 .. n : p[i] \in O /\ w[p[i]] = Len(p[i])
  BY <1>6 DEF w
<1>9. \A i, j \in DOMAIN p : i < j => Len(p[i]) < Len(p[j])
  BY <1>6, <1>7, <1>8
<1>10. ToSet(p) = O
  BY <1>6, <1>7, <1>8 DEF ToSet
<1>11. Last(p) \in O
  BY <1>7, <1>8 DEF Last
<1>12. ASSUME NEW o \in O PROVE IsPrefix(o, Last(p))
  <2>1. PICK i \in 1 .. n : p[i] = o
    BY <1>6
  <2>2. i <= n /\ Last(p) = p[n] /\ n \in 1 .. n
    BY <1>7 DEF Last
  <2>3. Len(o) <= Len(Last(p))
    <3>1. Len(o) \in Nat /\ Len(Last(p)) \in Nat
      BY <1>1, <1>2, <1>11 DEF Keys
    <3> QED
      BY <1>7, <1>9, <2>1, <2>2, <3>1
  <2> QED
    BY <1>11, <2>3, OnIsChain DEF O
<1>13. p[1] = from
  <2>1. PICK i \in 1 .. n : p[i] = from
    BY <1>2, <1>6
  <2>2. IsPrefix(from, p[1])
    <3>1. p[1] \in O
      BY <1>7, <1>8
    <3>2. from \in Keys
      BY <1>1
    <3> QED
      BY <3>1, <3>2, PrefixOrder DEF O, On, IsStrictPrefix
  <2>3. Len(from) <= Len(p[1]) /\ Len(p[1]) \in Nat /\ Len(from) \in Nat
    <3>1. p[1] \in Keys /\ from \in Keys
      BY <1>1, <1>2, <1>7, <1>8
    <3> QED
      BY <2>2, <3>1, PrefixOrder DEF Keys
  <2>4. ~(1 < i)
    BY <1>7, <1>9, <2>1, <2>3
  <2> QED
    BY <1>7, <2>1, <2>4
<1> QED
  BY <1>7, <1>9, <1>10, <1>11, <1>12, <1>13 DEF O

(* The match ends where no node below from has more of t; of the last node  *)
(* of the path the tokens behind its edge's first are matched, of those     *)
(* before it all, and no node between them is left out.                     *)
LEMMA MatchedIs ==
    ASSUME NEW T, Tree(DOMAIN T), NEW from \in DOMAIN T, NEW t \in Keys,
           NEW p, p = MatchPath(T, from, t), NEW n, n = Matched(T, from, t)
    PROVE  /\ n \in Nat /\ n = Common(Last(p), t) /\ Agree(Last(p), t, n)
           /\ Last(p) = from \/ StartOffset(T, Last(p)) < n
           /\ \A o \in ToSet(p) : o # Last(p) /\ o # from => IsPrefix(o, t)
           /\ \A j \in DOMAIN T : IsPrefix(from, j) => Common(j, t) <= n
           /\ ToSet(p) = {o \in DOMAIN T : IsPrefix(from, o) /\ IsPrefix(o, Last(p))}
<1> DEFINE O == On(T, from, t)
           l == Last(p)
<1>1. DOMAIN T \subseteq Keys /\ Root \in DOMAIN T /\ from \in Keys
  BY DEF Tree
<1>2. l \in O /\ ToSet(p) = O /\ \A o \in O : IsPrefix(o, l)
  BY MatchIs
<1>3. O \subseteq DOMAIN T /\ (\A o \in O : IsPrefix(from, o)) /\ from \in O
  <2>1. IsPrefix(from, from)
    BY <1>1, PrefixOrder
  <2> QED
    BY <2>1 DEF On, IsStrictPrefix
<1>4. l \in Keys /\ n = Common(l, t) /\ n \in Nat /\ Agree(l, t, n)
      /\ \A m \in Nat : Agree(l, t, m) => m <= n
  <2>1. l \in Keys /\ n = Common(l, t)
    BY <1>1, <1>2, <1>3 DEF Matched
  <2> HIDE DEF l
  <2> QED
    BY <2>1, CommonIs
<1>5. l = from \/ StartOffset(T, l) < n
  <2>1. CASE l # from
    <3>1. n > StartOffset(T, l) /\ StartOffset(T, l) \in Nat
      BY <1>1, <1>2, <1>4, <2>1, StartIs DEF On
    <3> QED
      BY <1>4, <3>1
  <2> QED
    BY <2>1
<1> HIDE DEF l
<1>6. \A o \in O : o # l /\ o # from => IsPrefix(o, t)
  <2> SUFFICES ASSUME NEW o \in O, o # l, o # from PROVE IsPrefix(o, t)
    OBVIOUS
  <2>1. o \in Keys /\ IsPrefix(o, l)
    BY <1>1, <1>2, <1>3
  <2>2. Len(o) <= Len(l)
    BY <1>4, <2>1, PrefixOrder
  <2> QED
    BY <1>2, <2>2, OnIsChain
<1>7. ASSUME NEW j \in DOMAIN T, IsPrefix(from, j) PROVE Common(j, t) <= n
  <2> DEFINE m == Common(j, t)
             X == {x \in DOMAIN T : IsPrefix(from, x) /\ IsPrefix(x, j) /\ m <= Len(x)}
             N == {Len(x) : x \in X}
  <2>1. j \in Keys /\ m \in Nat /\ Agree(j, t, m)
    BY <1>1, CommonIs
  <2>2. j \in X
    BY <1>7, <2>1, PrefixOrder DEF Agree
  <2>3. \A x \in X : x \in Keys /\ Len(x) \in Nat
    BY <1>1 DEF Keys
  <2> HIDE DEF m
  <2>4. PICK x \in X : \A y \in X : Len(x) <= Len(y)
    <3>1. N \in SUBSET Nat /\ N # {}
      BY <2>2, <2>3
    <3>2. PICK k \in N : \A i \in N : k <= i
      <4> HIDE DEF N
      <4> QED
        BY <3>1, LeastNatural
    <3>3. PICK x \in X : k = Len(x)
      OBVIOUS
    <3> QED
      BY <3>2, <3>3
  <2>5. x \in Keys /\ IsPrefix(from, x) /\ IsPrefix(x, j) /\ m <= Len(x) /\ x \in DOMAIN T
    BY <2>3, <2>4
  <2>6. Agree(x, t, m)
    <3>1. Agree(x, j, m)
      BY <2>1, <2>5, PrefixIs DEF Agree, Keys
    <3> QED
      BY <2>1, <2>5, <3>1, AgreeIs
  <2>7. x \in O
    <3>1. CASE x = from
      BY <1>3, <3>1
    <3>2. CASE x # from
      <4> DEFINE q == ParentOf(T, x)
      <4>1. IsStrictPrefix(from, x) /\ x # Root
        <5>1. IsStrictPrefix(from, x)
          BY <2>5, <3>2 DEF IsStrictPrefix
        <5>2. Len(from) < Len(x)
          BY <1>1, <2>5, <5>1, PrefixOrder
        <5> QED
          BY <1>1, <5>1, <5>2 DEF Root, Keys
      <4>2. /\ q \in DOMAIN T /\ IsStrictPrefix(q, x) /\ IsPrefix(from, q)
            /\ StartOffset(T, x) = Len(q)
        BY <1>1, <2>5, <4>1, ParentIs
      <4> HIDE DEF q
      <4>3. q \in Keys /\ IsPrefix(q, j) /\ Len(q) < Len(x)
        BY <1>1, <2>1, <2>5, <4>2, PrefixOrder
      <4>4. q \notin X
        BY <2>3, <2>4, <2>5, <4>3 DEF Keys
      <4>5. Len(q) < m
        BY <2>1, <4>2, <4>3, <4>4 DEF Keys
      <4>6. Common(x, t) \in Nat /\ m <= Common(x, t)
        BY <2>1, <2>5, <2>6, CommonIs
      <4>7. Common(x, t) > StartOffset(T, x)
        BY <2>1, <4>2, <4>3, <4>5, <4>6 DEF Keys
      <4> QED
        BY <2>5, <4>1, <4>7 DEF On
    <3> QED
      BY <3>1, <3>2
  <2>8. Agree(l, t, m)
    <3>1. IsPrefix(x, l)
      BY <1>2, <2>7
    <3>2. Agree(l, x, m)
      BY <1>4, <2>1, <2>5, <3>1, PrefixIs DEF Agree, Keys
    <3> QED
      BY <1>4, <2>1, <2>5, <2>6, <3>2, AgreeIs
  <2>9. m <= n
    BY <1>4, <2>1, <2>8
  <2> QED
    BY <2>9 DEF m
<1>8. ASSUME NEW o \in DOMAIN T, IsPrefix(from, o), IsPrefix(o, l) PROVE o \in O
  <2>1. CASE o = from \/ o = l
    BY <1>2, <1>3, <2>1
  <2>2. CASE o # from /\ o # l
    <3>1. o \in Keys /\ IsStrictPrefix(from, o) /\ IsStrictPrefix(o, l) /\ l \in DOMAIN T
      BY <1>1, <1>2, <1>3, <1>8, <2>2 DEF IsStrictPrefix
    <3>2. l # Root /\ o # Root /\ l # from
      <4>1. Len(from) < Len(o) /\ Len(o) < Len(l) /\ IsPrefix(from, o)
        BY <1>1, <1>4, <3>1, PrefixOrder
      <4> QED
        BY <1>1, <1>4, <3>1, <4>1 DEF Root, Keys
    <3>3. Len(o) <= StartOffset(T, l) /\ StartOffset(T, l) \in Nat
      <4>1. IsPrefix(o, ParentOf(T, l)) /\ ParentOf(T, l) \in Keys /\ StartOffset(T, l) = Len(ParentOf(T, l))
        BY <1>1, <1>4, <3>1, <3>2, ParentIs
      <4>2. Len(o) <= Len(ParentOf(T, l))
        BY <3>1, <4>1, PrefixOrder
      <4> QED
        BY <4>1, <4>2 DEF Keys
    <3>4. Len(o) \in Nat /\ Len(o) <= n
      BY <1>4, <1>5, <3>1, <3>2, <3>3 DEF Keys
    <3>5. Agree(o, t, Len(o))
      <4>1. Agree(o, l, Len(o)) /\ Agree(l, t, Len(o))
        <5>1. Agree(o, l, Len(o))
          BY <1>4, <1>8, <3>1, PrefixIs DEF Agree, Keys
        <5> QED
          BY <1>4, <3>4, <5>1, AgreeIs
      <4> QED
        BY <1>4, <3>1, <3>4, <4>1, AgreeIs
    <3>6. Common(o, t) \in Nat /\ Len(o) <= Common(o, t)
      BY <3>1, <3>4, <3>5, CommonIs
    <3>7. StartOffset(T, o) \in Nat /\ StartOffset(T, o) < Len(o)
      BY <1>1, <3>1, <3>2, ParentIs
    <3>8. Common(o, t) > StartOffset(T, o)
      BY <3>4, <3>6, <3>7
    <3> QED
      BY <3>1, <3>8 DEF On
  <2> QED
    BY <2>1, <2>2
<1>9. O = {o \in DOMAIN T : IsPrefix(from, o) /\ IsPrefix(o, l)}
  BY <1>2, <1>3, <1>8
<1> QED
  BY <1>2, <1>4, <1>5, <1>6, <1>7, <1>9 DEF l


-----------------------------------------------------------------------------
(* How the edges of the trie change with its nodes.                         *)

(* The parent of a node is the deepest one above it.                        *)
LEMMA StartWhen ==
    ASSUME NEW T, DOMAIN T \subseteq Keys, NEW k \in Keys, k # Root,
           NEW p \in DOMAIN T, IsStrictPrefix(p, k),
           \A o \in DOMAIN T : IsStrictPrefix(o, k) => Len(o) <= Len(p)
    PROVE  ParentOf(T, k) = p /\ StartOffset(T, k) = Len(p)
<1> DEFINE above == {o \in DOMAIN T : IsStrictPrefix(o, k)}
           q == ParentOf(T, k)
<1>1. p \in above /\ \A o \in above : Len(o) <= Len(p)
  OBVIOUS
<1>2. q \in above /\ \A o \in above : Len(o) <= Len(q)
  BY <1>1 DEF ParentOf
<1> HIDE DEF q
<1>3. p \in Keys /\ q \in Keys /\ Len(p) = Len(q) /\ IsPrefix(p, k) /\ IsPrefix(q, k)
  <2>1. p \in Keys /\ q \in Keys /\ IsPrefix(p, k) /\ IsPrefix(q, k)
    BY <1>1, <1>2 DEF IsStrictPrefix
  <2>2. Len(p) <= Len(q) /\ Len(q) <= Len(p)
    BY <1>1, <1>2
  <2> QED
    BY <2>1, <2>2 DEF Keys
<1>4. IsPrefix(q, p)
  <2>1. Len(q) <= Len(p)
    BY <1>3 DEF Keys
  <2> QED
    BY <1>3, <2>1, PrefixOrder
<1>5. q = p
  <2>1. Len(p) <= Len(q)
    BY <1>3 DEF Keys
  <2> QED
    BY <1>3, <1>4, <2>1, SameKeys
<1> QED
  BY <1>5 DEF q, StartOffset


(* U has the nodes of T and one, p, on the edge of k.                       *)
EdgeCut(U, T, k, at, p) ==
    /\ p \in Keys \ DOMAIN T /\ Len(p) = at /\ IsStrictPrefix(p, k) /\ k # Root /\ p # Root
    /\ Tree(DOMAIN U)
    /\ StartOffset(U, p) = StartOffset(T, k) /\ StartOffset(U, k) = at
    /\ \A j \in DOMAIN T \ {k} : StartOffset(U, j) = StartOffset(T, j)

(* A node of an edge's inner part divides the edge.                         *)
LEMMA SplitTree ==
    ASSUME NEW T, Tree(DOMAIN T), NEW k \in DOMAIN T, NEW at \in Nat,
           StartOffset(T, k) < at, at < Len(k), NEW p, p = SubSeq(k, 1, at),
           NEW U, DOMAIN U = DOMAIN T \cup {p}
    PROVE  EdgeCut(U, T, k, at, p)
<1> DEFINE K == DOMAIN T
           q == ParentOf(T, k)
<1>1. K \subseteq Keys /\ Root \in K /\ k \in Keys /\ Len(k) \in Nat
  BY DEF Tree, Keys
<1>2. p \in Keys /\ Len(p) = at /\ IsPrefix(p, k)
  BY <1>1, InitialIs
<1>3. IsStrictPrefix(p, k) /\ k # Root /\ p # Root
  <2>1. StartOffset(T, k) \in Nat
    BY <1>1, StartIs
  <2>2. 0 < at /\ 0 < Len(k)
    BY <1>1, <2>1
  <2> QED
    <3>1. k # Root /\ p # Root
      BY <1>1, <1>2, <2>2, LenIs
    <3>2. IsStrictPrefix(p, k)
      BY <1>1, <1>2, StrictIs
    <3> QED
      BY <3>1, <3>2
<1>4. /\ q \in K /\ IsStrictPrefix(q, k) /\ StartOffset(T, k) = Len(q) /\ Len(q) \in Nat /\ q \in Keys
      /\ \A o \in K : IsStrictPrefix(o, k) => IsPrefix(o, q) /\ Len(o) <= Len(q)
  <2>1. /\ q \in K /\ IsStrictPrefix(q, k) /\ StartOffset(T, k) = Len(q)
        /\ \A o \in K : IsStrictPrefix(o, k) => IsPrefix(o, q)
    BY <1>1, <1>3, ParentIs
  <2> HIDE DEF q
  <2>2. q \in Keys
    BY <1>1, <2>1
  <2> QED
    BY <1>1, <2>1, <2>2, PrefixOrder DEF Keys
<1> HIDE DEF q
<1>5. p \notin K
  <2>1. p \in K => Len(p) <= Len(q)
    BY <1>3, <1>4
  <2> QED
    BY <1>2, <1>4, <2>1
(* Nodes below p are below k.                                               *)
<1>6. ASSUME NEW j \in K, Agree(j, k, at) PROVE IsPrefix(k, j)
  <2> DEFINE n == Common(j, k)
             m == SubSeq(j, 1, n)
  <2>1. j \in Keys /\ n \in Nat /\ Agree(j, k, n) /\ at <= n /\ m \in K
    BY <1>1, <1>6, CommonIs DEF Tree
  <2>2. m \in Keys /\ Len(m) = n /\ IsPrefix(m, k) /\ IsPrefix(m, j)
    BY <1>1, <2>1, InitialIs, AgreeIs DEF Agree
  <2> HIDE DEF n, m
  <2>3. ~IsStrictPrefix(m, k)
    BY <1>4, <2>1, <2>2
  <2> QED
    BY <2>2, <2>3 DEF IsStrictPrefix
<1>7. Tree(K \cup {p})
  <2> SUFFICES ASSUME NEW j \in K PROVE SubSeq(j, 1, Common(j, p)) \in K \cup {p}
    BY <1>2, TreeAdd
  <2> DEFINE n == Common(j, p)
  <2>1. j \in Keys /\ n \in Nat /\ Agree(j, p, n) /\ n <= at
    BY <1>1, <1>2, CommonIs, ZenonT(30) DEF Agree
  <2>2. Agree(p, k, at)
    BY <1>2, PrefixIs DEF Agree, Keys
  <2>3. CASE n = at
    <3>1. SubSeq(j, 1, n) = SubSeq(p, 1, n)
      BY <1>2, <2>1, AgreeIs
    <3>2. SubSeq(p, 1, n) = p
      BY <1>2, <2>3 DEF Keys
    <3> QED
      BY <3>1, <3>2
  <2>4. CASE n < at
    <3> HIDE DEF n
    <3>1. Agree(j, k, n)
      <4>1. Agree(p, k, n)
        BY <1>1, <1>2, <2>1, <2>2, AgreeIs
      <4> QED
        BY <1>1, <1>2, <2>1, <4>1, AgreeIs
    <3>2. Common(j, k) \in Nat /\ n <= Common(j, k) /\ Agree(j, k, Common(j, k))
      BY <1>1, <2>1, <3>1, CommonIs
    <3>3. ASSUME n < Common(j, k) PROVE FALSE
      <4>1. Agree(j, k, n + 1)
        BY <1>1, <2>1, <3>2, <3>3, AgreeIs
      <4>2. Agree(p, k, n + 1)
        BY <1>1, <1>2, <2>1, <2>2, <2>4, AgreeIs
      <4>3. Agree(j, p, n + 1)
        BY <1>1, <1>2, <2>1, <4>1, <4>2, AgreeIs
      <4>4. n + 1 <= Common(j, p) /\ Common(j, p) \in Nat
        <5>1. n + 1 \in Nat /\ j \in Keys
          BY <2>1
        <5>2. n + 1 <= Common(j, p)
          BY <1>2, <4>3, <5>1, CommonBounds
        <5> QED
          BY <1>2, <5>1, <5>2, CommonIs
      <4> QED
        BY <2>1, <4>4 DEF n
    <3>4. n = Common(j, k)
      BY <2>1, <3>2, <3>3
    <3>5. SubSeq(j, 1, Common(j, k)) \in K
      BY DEF Tree
    <3> QED
      BY <3>4, <3>5 DEF n
  <2> QED
    BY <2>1, <2>3, <2>4
<1>8. DOMAIN U \subseteq Keys /\ Root \in DOMAIN U
  BY <1>1, <1>2
<1>9. StartOffset(U, k) = at
  <2>1. ASSUME NEW o \in DOMAIN U, IsStrictPrefix(o, k) PROVE Len(o) <= Len(p)
    BY <1>2, <1>4, <2>1
  <2> QED
    BY <1>1, <1>2, <1>3, <1>8, <2>1, StartWhen
<1>10. StartOffset(U, p) = StartOffset(T, k)
  <2>1. IsStrictPrefix(q, p)
    <3>1. q \in Keys /\ IsPrefix(q, k) /\ Len(q) < Len(p)
      BY <1>1, <1>2, <1>4, StrictIs
    <3>2. IsPrefix(q, p)
      <4>1. Len(q) <= Len(p)
        BY <1>2, <1>4, <3>1
      <4> QED
        BY <1>1, <1>2, <3>1, <4>1, Nested
    <3> QED
      BY <1>2, <3>1, <3>2, StrictIs
  <2>2. ASSUME NEW o \in DOMAIN U, IsStrictPrefix(o, p) PROVE Len(o) <= Len(q)
    <3>1. o \in K
      BY <2>2 DEF IsStrictPrefix
    <3>2. IsStrictPrefix(o, k)
      <4>1. o \in Keys /\ IsPrefix(o, p) /\ Len(o) < Len(p)
        BY <1>1, <1>2, <2>2, <3>1, PrefixOrder
      <4>2. IsPrefix(o, k) /\ Len(o) < Len(k)
        <5>1. IsPrefix(o, k)
          BY <1>1, <1>2, <4>1, Above
        <5> QED
          BY <1>1, <1>2, <4>1, <5>1, LenIs
      <4> QED
        BY <1>1, <4>1, <4>2, StrictIs
    <3> QED
      BY <1>4, <3>1, <3>2
  <2>3. ParentOf(U, p) = q /\ StartOffset(U, p) = Len(q)
    <3>1. q \in DOMAIN U
      BY <1>4
    <3> QED
      BY <1>2, <1>3, <1>8, <2>1, <2>2, <3>1, StartWhen, ZenonT(30)
  <2> QED
    BY <1>4, <2>3
<1>11. ASSUME NEW j \in K \ {k} PROVE StartOffset(U, j) = StartOffset(T, j)
  <2>1. CASE j = Root
    BY <2>1 DEF StartOffset
  <2>2. CASE j # Root
    <3> DEFINE r == ParentOf(T, j)
    <3>1. /\ r \in K /\ IsStrictPrefix(r, j) /\ StartOffset(T, j) = Len(r) /\ j \in Keys /\ r \in Keys
          /\ \A o \in K : IsStrictPrefix(o, j) => IsPrefix(o, r)
      BY <1>1, <2>2, ParentIs
    <3> HIDE DEF r
    <3>2. ASSUME NEW o \in DOMAIN U, IsStrictPrefix(o, j) PROVE Len(o) <= Len(r)
      <4>1. CASE o \in K
        BY <1>1, <3>1, <3>2, <4>1, PrefixOrder
      <4>2. CASE o = p
        <5>1. Agree(j, k, at)
          <6>1. IsPrefix(p, j)
            BY <3>2, <4>2 DEF IsStrictPrefix
          <6>2. Agree(j, p, at) /\ Agree(p, k, at)
            <7>1. Agree(p, j, at) /\ Agree(p, k, at)
              BY <1>1, <1>2, <3>1, <6>1, PrefixAgrees
            <7> QED
              BY <1>2, <3>1, <7>1, AgreeIs
          <6> QED
            BY <1>1, <1>2, <3>1, <6>2, AgreeIs
        <5>2. IsStrictPrefix(k, j)
          BY <1>6, <5>1 DEF IsStrictPrefix
        <5>3. IsPrefix(k, r)
          BY <3>1, <5>2
        <5>4. Len(k) <= Len(r) /\ Len(r) \in Nat
          BY <1>1, <3>1, <5>3, PrefixOrder DEF Keys
        <5> QED
          BY <1>1, <1>2, <4>2, <5>4
      <4> QED
        BY <4>1, <4>2
    <3>3. r \in DOMAIN U
      BY <3>1
    <3>4. StartOffset(U, j) = Len(r)
      BY <1>8, <2>2, <3>1, <3>2, <3>3, StartWhen
    <3> QED
      BY <3>1, <3>4
  <2> QED
    BY <2>1, <2>2
<1> QED
  BY <1>2, <1>3, <1>5, <1>7, <1>9, <1>10, <1>11 DEF EdgeCut

(* A key below a node that has more of it than any other becomes its child. *)
EdgeNew(U, T, q, key) ==
    /\ key \notin DOMAIN T /\ key # Root /\ Tree(DOMAIN U)
    /\ StartOffset(U, key) = Len(q)
    /\ \A j \in DOMAIN T : StartOffset(U, j) = StartOffset(T, j)

(* A new key below the node q, which no other node shares more tokens with, *)
(* makes a tree.                                                            *)
LEMMA GrowTree ==
    ASSUME NEW T, Tree(DOMAIN T), NEW q \in DOMAIN T, NEW key \in Keys, IsPrefix(q, key), Len(q) < Len(key),
           \A j \in DOMAIN T : Common(j, key) <= Len(q),
           NEW U, DOMAIN U = DOMAIN T \cup {key}
    PROVE  EdgeNew(U, T, q, key)
<1> DEFINE K == DOMAIN T
<1>1. /\ K \subseteq Keys /\ Root \in K /\ q \in Keys /\ Len(q) \in Nat /\ Len(key) \in Nat
      /\ Agree(q, key, Len(q)) /\ IsStrictPrefix(q, key) /\ key # Root
  <2>1. K \subseteq Keys /\ Root \in K /\ q \in Keys
    BY DEF Tree
  <2>2. Len(q) \in Nat /\ Len(key) \in Nat /\ key # Root
    BY <2>1, LenIs
  <2> QED
    BY <2>1, <2>2, PrefixAgrees, StrictIs
(* No node is at the key or below it.                                       *)
<1>2. ASSUME NEW j \in K PROVE ~IsPrefix(key, j)
  <2> SUFFICES ASSUME IsPrefix(key, j) PROVE FALSE
    OBVIOUS
  <2>1. Agree(key, j, Len(key)) /\ j \in Keys
    BY <1>1, PrefixAgrees
  <2>2. Agree(j, key, Len(key))
    BY <1>1, <2>1, AgreeIs
  <2>3. Len(key) <= Common(j, key) /\ Common(j, key) \in Nat
    BY <1>1, <2>1, <2>2, CommonIs
  <2>4. Common(j, key) <= Len(q)
    OBVIOUS
  <2> QED
    BY <1>1, <2>3, <2>4
<1>3. key \notin K
  BY <1>2, PrefixOrder
<1>4. ASSUME NEW o \in K, IsStrictPrefix(o, key) PROVE Len(o) <= Len(q)
  <2>1. Agree(o, key, Len(o)) /\ o \in Keys /\ Len(o) \in Nat
    BY <1>1, <1>4, PrefixAgrees, LenIs DEF IsStrictPrefix
  <2>2. Len(o) <= Common(o, key) /\ Common(o, key) \in Nat
    BY <2>1, CommonIs
  <2>3. Common(o, key) <= Len(q)
    OBVIOUS
  <2> QED
    BY <1>1, <2>1, <2>2, <2>3
<1>5. Tree(K \cup {key})
  <2> SUFFICES ASSUME NEW j \in K PROVE SubSeq(j, 1, Common(j, key)) \in K \cup {key}
    BY TreeAdd
  <2> DEFINE n == Common(j, key)
  <2>1. j \in Keys /\ n \in Nat /\ Agree(j, key, n) /\ n <= Len(q)
    BY <1>1, CommonIs
  <2>2. ASSUME NEW m \in Nat, m <= Len(q) PROVE Agree(j, key, m) <=> Agree(j, q, m)
    <3>1. Agree(q, key, m) /\ Agree(key, q, m)
      BY <1>1, <2>2, AgreeIs
    <3>2. Agree(j, key, m) => Agree(j, q, m)
      BY <1>1, <2>1, <3>1, AgreeIs
    <3>3. Agree(j, q, m) => Agree(j, key, m)
      BY <1>1, <2>1, <3>1, AgreeIs
    <3> QED
      BY <3>2, <3>3
  <2>3. /\ Common(j, q) \in Nat /\ Common(j, q) <= Len(q) /\ Agree(j, q, Common(j, q))
        /\ SubSeq(j, 1, Common(j, q)) \in K
    BY <1>1, <2>1, CommonIs DEF Agree, Tree
  <2>4. n <= Common(j, q)
    BY <1>1, <2>1, <2>2, CommonBounds
  <2>5. Common(j, q) <= n
    BY <1>1, <2>1, <2>2, <2>3, CommonBounds
  <2>6. n = Common(j, q)
    BY <2>1, <2>3, <2>4, <2>5
  <2> QED
    BY <2>3, <2>6
<1>6. DOMAIN U \subseteq Keys /\ Root \in DOMAIN U
  BY <1>1
<1>7. StartOffset(U, key) = Len(q)
  <2>1. ASSUME NEW o \in DOMAIN U, IsStrictPrefix(o, key) PROVE Len(o) <= Len(q)
    BY <1>4, <2>1 DEF IsStrictPrefix
  <2>2. q \in DOMAIN U
    OBVIOUS
  <2> QED
    BY <1>1, <1>6, <2>1, <2>2, StartWhen
<1>8. ASSUME NEW j \in K PROVE StartOffset(U, j) = StartOffset(T, j)
  <2>1. \A o : o \in DOMAIN U /\ IsStrictPrefix(o, j) <=> o \in DOMAIN T /\ IsStrictPrefix(o, j)
    BY <1>2 DEF IsStrictPrefix
  <2>2. {o \in DOMAIN U : IsStrictPrefix(o, j)} = {o \in DOMAIN T : IsStrictPrefix(o, j)}
    BY <2>1
  <2>3. ParentOf(U, j) = ParentOf(T, j)
    <3> DEFINE P(S) == CHOOSE p \in S : \A o \in S : Len(o) <= Len(p)
    <3>1. /\ ParentOf(U, j) = P({o \in DOMAIN U : IsStrictPrefix(o, j)})
          /\ ParentOf(T, j) = P({o \in DOMAIN T : IsStrictPrefix(o, j)})
      BY DEF ParentOf
    <3> HIDE DEF P
    <3> QED
      BY <2>2, <3>1
  <2> QED
    BY <2>3 DEF StartOffset
<1> QED
  BY <1>1, <1>3, <1>5, <1>7, <1>8 DEF EdgeNew

(* Without a node that has one child or none, the child has its edge too.   *)
LEMMA DropTree ==
    ASSUME NEW T, Tree(DOMAIN T), NEW k \in DOMAIN T, k # Root, \A x, y \in Children(T, k) : x = y,
           NEW U, DOMAIN U = DOMAIN T \ {k}
    PROVE  /\ Tree(DOMAIN U)
           /\ \A j \in DOMAIN U : StartOffset(U, j) = IF j \in Children(T, k) THEN StartOffset(T, k)
                                                      ELSE StartOffset(T, j)
<1> DEFINE K == DOMAIN T
<1>1. K \subseteq Keys /\ Root \in K /\ Tree(DOMAIN U) /\ Tree(K \ {k})
  BY TreeDrop DEF Tree
<1>2. DOMAIN U \subseteq Keys /\ Root \in DOMAIN U
  BY <1>1
<1>3. ASSUME NEW j \in DOMAIN U, j # Root
      PROVE  StartOffset(U, j) = IF j \in Children(T, k) THEN StartOffset(T, k) ELSE StartOffset(T, j)
  <2> DEFINE r == ParentOf(T, j)
  <2>1. j \in K /\ j \in Keys /\ j # k
    BY <1>1
  <2>2. /\ r \in K /\ IsStrictPrefix(r, j) /\ StartOffset(T, j) = Len(r) /\ r \in Keys
        /\ \A o \in K : IsStrictPrefix(o, j) => IsPrefix(o, r)
    BY <1>1, <1>3, <2>1, ParentIs
  <2>3. j \in Children(T, k) <=> r = k
    BY <1>3, <2>1 DEF Children
  <2> HIDE DEF r
  <2>4. CASE r # k
    <3>1. ASSUME NEW o \in DOMAIN U, IsStrictPrefix(o, j) PROVE Len(o) <= Len(r)
      <4>1. o \in K /\ o \in Keys /\ IsPrefix(o, r)
        BY <1>1, <2>2, <3>1
      <4> QED
        BY <2>2, <4>1, PrefixOrder
    <3>2. r \in DOMAIN U
      BY <2>2, <2>4
    <3>3. StartOffset(U, j) = Len(r)
      BY <1>2, <1>3, <2>1, <2>2, <3>1, <3>2, StartWhen
    <3> QED
      BY <2>2, <2>3, <2>4, <3>3
  <2>5. CASE r = k
    <3> DEFINE q == ParentOf(T, k)
    <3>1. /\ q \in K /\ IsStrictPrefix(q, k) /\ StartOffset(T, k) = Len(q) /\ q \in Keys /\ k \in Keys
          /\ \A o \in K : IsStrictPrefix(o, k) => IsPrefix(o, q)
      BY <1>1, ParentIs
    <3> HIDE DEF q
    <3>2. ASSUME NEW o \in DOMAIN U, IsStrictPrefix(o, j) PROVE Len(o) <= Len(q)
      <4>1. o \in K /\ o \in Keys /\ IsStrictPrefix(o, k)
        BY <1>1, <2>2, <2>5, <3>2 DEF IsStrictPrefix
      <4>2. IsPrefix(o, q)
        BY <3>1, <4>1
      <4> QED
        BY <3>1, <4>1, <4>2, PrefixOrder
    <3>3. q \in DOMAIN U /\ IsStrictPrefix(q, j)
      <4>1. IsPrefix(q, k) /\ IsPrefix(k, j) /\ Len(q) < Len(k) /\ Len(k) < Len(j)
        BY <2>1, <2>2, <2>5, <3>1, StrictIs
      <4>2. IsPrefix(q, j)
        BY <2>1, <3>1, <4>1, Above
      <4>3. Len(q) < Len(j) /\ q # k
        BY <2>1, <3>1, <4>1, LenIs
      <4> QED
        BY <2>1, <3>1, <4>2, <4>3, StrictIs
    <3>4. StartOffset(U, j) = Len(q)
      BY <1>2, <1>3, <2>1, <3>2, <3>3, StartWhen
    <3> QED
      BY <2>3, <2>5, <3>1, <3>4
  <2> QED
    BY <2>4, <2>5
<1>4. StartOffset(U, Root) = 0 /\ StartOffset(T, Root) = 0 /\ Root \notin Children(T, k)
  BY DEF StartOffset, Children
<1> QED
  BY <1>1, <1>3, <1>4

-----------------------------------------------------------------------------
(* The active path: every node at or above its end, the root first.         *)

PathTo(K, p) ==
    /\ p \in Seq(K) /\ p # <<>>
    /\ ToSet(p) = {k \in K : IsPrefix(k, Last(p))}
    /\ \A i, j \in DOMAIN p : i < j => Len(p[i]) < Len(p[j])

(* The active path, node by node.                                           *)
LEMMA PathIs ==
    ASSUME NEW K, K \subseteq Keys, Root \in K, NEW p, PathTo(K, p)
    PROVE  /\ Len(p) \in Nat \ {0} /\ DOMAIN p = 1 .. Len(p)
           /\ Last(p) = p[Len(p)] /\ Last(p) \in K /\ Last(p) \in ToSet(p)
           /\ p[1] = Root
           /\ \A i \in DOMAIN p : p[i] \in K /\ IsPrefix(p[i], Last(p))
           /\ \A i, j \in DOMAIN p : i < j => IsStrictPrefix(p[i], p[j])
           /\ \A i, j \in DOMAIN p : p[i] = p[j] => i = j
<1>1. /\ Len(p) \in Nat \ {0} /\ DOMAIN p = 1 .. Len(p) /\ \A i \in DOMAIN p : p[i] \in K
  BY DEF PathTo
<1>2. Last(p) = p[Len(p)] /\ Last(p) \in K /\ Last(p) \in ToSet(p) /\ Last(p) \in Keys
  BY <1>1 DEF Last, ToSet
<1>3. \A i \in DOMAIN p : p[i] \in Keys /\ IsPrefix(p[i], Last(p))
  BY <1>1 DEF PathTo, ToSet
<1>4. ASSUME NEW i \in DOMAIN p, NEW j \in DOMAIN p, i < j PROVE IsStrictPrefix(p[i], p[j]) /\ p[i] # p[j]
  <2>1. Len(p[i]) < Len(p[j])
    BY <1>4 DEF PathTo
  <2>2. IsPrefix(p[i], p[j])
    <3>1. Len(p[i]) <= Len(p[j])
      BY <1>3, <2>1, LenIs
    <3> QED
      BY <1>2, <1>3, <3>1, Nested
  <2>3. IsStrictPrefix(p[i], p[j])
    BY <1>3, <2>1, <2>2, StrictIs
  <2> QED
    BY <2>3 DEF IsStrictPrefix
<1>5. \A i, j \in DOMAIN p : p[i] = p[j] => i = j
  <2> SUFFICES ASSUME NEW i \in DOMAIN p, NEW j \in DOMAIN p, p[i] = p[j] PROVE i = j
    OBVIOUS
  <2>1. ~(i < j) /\ ~(j < i)
    BY <1>4
  <2> QED
    BY <1>1, <2>1
<1>6. p[1] = Root
  <2>1. Root \in ToSet(p)
    <3>1. IsPrefix(Root, Last(p))
      BY <1>2, PrefixOrder DEF Root
    <3> QED
      BY <3>1 DEF PathTo
  <2>2. PICK i \in DOMAIN p : p[i] = Root
    BY <2>1 DEF ToSet
  <2>3. ~(1 < i)
    <3> SUFFICES ASSUME 1 < i PROVE FALSE
      OBVIOUS
    <3>1. 1 \in DOMAIN p /\ p[1] \in Keys
      BY <1>1, <1>3
    <3>2. IsPrefix(p[1], Root) /\ IsPrefix(Root, p[1]) /\ p[1] # p[i]
      <4>1. IsStrictPrefix(p[1], p[i])
        BY <1>4, <3>1
      <4> QED
        BY <2>2, <3>1, <4>1, PrefixOrder DEF IsStrictPrefix, Root
    <3>3. Len(p[1]) = 0
      <4>1. Root \in Keys /\ Len(Root) = 0
        BY <1>1, LenIs
      <4>2. Len(p[1]) <= Len(Root)
        BY <3>1, <3>2, <4>1, PrefixOrder
      <4> QED
        BY <3>1, <4>1, <4>2, LenIs
    <3> QED
      BY <2>2, <3>1, <3>2, <3>3, LenIs
  <2> QED
    BY <1>1, <2>2, <2>3
<1> QED
  BY <1>1, <1>2, <1>3, <1>4, <1>5, <1>6

(* The parent of a node of the path is the node before it.                  *)
LEMMA PathStart ==
    ASSUME NEW T, Tree(DOMAIN T), NEW p, PathTo(DOMAIN T, p), NEW i \in DOMAIN p, i # 1
    PROVE  /\ i - 1 \in DOMAIN p /\ ParentOf(T, p[i]) = p[i - 1]
           /\ StartOffset(T, p[i]) = Len(p[i - 1])
           /\ p[i] # Root /\ p[i] \in Children(T, p[i - 1])
<1>1. DOMAIN T \subseteq Keys /\ Root \in DOMAIN T
  BY DEF Tree
<1>2. /\ Len(p) \in Nat \ {0} /\ DOMAIN p = 1 .. Len(p) /\ p[1] = Root
      /\ Last(p) \in DOMAIN T
      /\ \A n \in DOMAIN p : p[n] \in DOMAIN T /\ IsPrefix(p[n], Last(p))
      /\ \A m, n \in DOMAIN p : m < n => IsStrictPrefix(p[m], p[n])
      /\ \A m, n \in DOMAIN p : p[m] = p[n] => m = n
  BY <1>1, PathIs
<1>3. i - 1 \in DOMAIN p /\ IsStrictPrefix(p[i - 1], p[i]) /\ 1 \in DOMAIN p
  BY <1>2
<1>4. p[i] \in DOMAIN T /\ p[i] \in Keys /\ p[i] # Root /\ p[i - 1] \in DOMAIN T
  BY <1>1, <1>2, <1>3
<1>5. ASSUME NEW o \in DOMAIN T, IsStrictPrefix(o, p[i]) PROVE Len(o) <= Len(p[i - 1])
  <2>1. IsPrefix(o, Last(p)) /\ o \in Keys
    <3>1. IsPrefix(o, p[i]) /\ IsPrefix(p[i], Last(p)) /\ o \in Keys /\ Last(p) \in Keys
      BY <1>1, <1>2, <1>5 DEF IsStrictPrefix
    <3> QED
      BY <1>4, <3>1, Above
  <2>2. PICK n \in DOMAIN p : p[n] = o
    BY <2>1 DEF PathTo, ToSet
  <2>3. n < i
    <3>1. n # i
      BY <1>5, <2>2 DEF IsStrictPrefix
    <3>2. ~(i < n)
      <4> SUFFICES ASSUME i < n PROVE FALSE
        OBVIOUS
      <4>1. Len(p[i]) < Len(o) /\ Len(o) < Len(p[i])
        BY <1>2, <1>4, <1>5, <2>1, <2>2, StrictIs
      <4> QED
        BY <1>4, <2>1, <4>1, LenIs
    <3> QED
      BY <1>2, <3>1, <3>2
  <2>4. n = i - 1 \/ n < i - 1
    BY <1>2, <2>3
  <2>5. CASE n < i - 1
    <3>1. Len(o) < Len(p[i - 1])
      BY <1>3, <2>2, <2>5 DEF PathTo
    <3> QED
      BY <1>1, <1>4, <2>1, <3>1, LenIs
  <2>6. CASE n = i - 1
    BY <2>1, <2>2, <2>6, LenIs
  <2> QED
    BY <2>4, <2>5, <2>6
<1>6. ParentOf(T, p[i]) = p[i - 1] /\ StartOffset(T, p[i]) = Len(p[i - 1])
  BY <1>1, <1>3, <1>4, <1>5, StartWhen
<1> QED
  BY <1>3, <1>4, <1>6 DEF Children

(* What is before a node of the path is a path, also to a new node there.   *)
Until(p, i, k) == Append(SubSeq(p, 1, i - 1), k)

(* A path cut at one of its nodes, or between two.                          *)
LEMMA PathUntil ==
    ASSUME NEW T, Tree(DOMAIN T), NEW p, PathTo(DOMAIN T, p), NEW i \in DOMAIN p, NEW k \in Keys,
           k = p[i] \/ (i # 1 /\ k \notin DOMAIN T /\ IsStrictPrefix(p[i - 1], k) /\ IsStrictPrefix(k, p[i]))
    PROVE  PathTo(DOMAIN T \cup {k}, Until(p, i, k)) /\ Last(Until(p, i, k)) = k
<1> DEFINE U == DOMAIN T \cup {k}
           q == Until(p, i, k)
<1>0. q = Append(SubSeq(p, 1, i - 1), k) /\ U = DOMAIN T \cup {k}
  BY DEF Until
<1> HIDE DEF U, q
<1>1. DOMAIN T \subseteq Keys /\ Root \in DOMAIN T
  BY DEF Tree
<1>2. /\ Len(p) \in Nat \ {0} /\ DOMAIN p = 1 .. Len(p) /\ p[1] = Root
      /\ Last(p) \in DOMAIN T
      /\ \A n \in DOMAIN p : p[n] \in DOMAIN T /\ IsPrefix(p[n], Last(p))
      /\ \A m, n \in DOMAIN p : m < n => IsStrictPrefix(p[m], p[n])
  BY <1>1, PathIs
<1>3. /\ q \in Seq(U) /\ Len(q) = i /\ DOMAIN q = 1 .. i /\ Last(q) = k
      /\ \A n \in 1 .. i - 1 : q[n] = p[n] /\ n \in DOMAIN p
      /\ q[i] = k /\ i \in Nat \ {0}
  <2>1. i \in Nat \ {0} /\ i <= Len(p) /\ p \in Seq(U) /\ k \in U
    BY <1>0, <1>2 DEF PathTo
  <2>2. /\ SubSeq(p, 1, i - 1) \in Seq(U) /\ Len(SubSeq(p, 1, i - 1)) = i - 1
        /\ \A n \in 1 .. i - 1 : SubSeq(p, 1, i - 1)[n] = p[n]
    BY <2>1
  <2> QED
    BY <1>0, <1>2, <2>1, <2>2 DEF Last
<1>4. IsPrefix(k, p[i]) /\ p[i] \in Keys
  BY <1>1, <1>2, PrefixOrder DEF IsStrictPrefix
<1>5. \A n \in 1 .. i - 1 : p[n] \in Keys /\ IsStrictPrefix(p[n], k)
  <2> SUFFICES ASSUME NEW n \in 1 .. i - 1 PROVE p[n] \in Keys /\ IsStrictPrefix(p[n], k)
    OBVIOUS
  <2>1. p[n] \in Keys /\ n \in DOMAIN p /\ n < i
    BY <1>1, <1>2, <1>3
  <2>2. CASE k = p[i]
    BY <1>2, <2>1, <2>2
  <2>3. CASE k # p[i]
    <3>1. i - 1 \in DOMAIN p /\ p[i - 1] \in Keys /\ IsStrictPrefix(p[i - 1], k) /\ (n = i - 1 \/ n < i - 1)
      BY <1>1, <1>2, <1>3, <2>1, <2>3
    <3>2. n < i - 1 => IsStrictPrefix(p[n], p[i - 1])
      BY <1>2, <2>1, <3>1
    <3>3. CASE n < i - 1
      <4>1. /\ IsPrefix(p[n], p[i - 1]) /\ IsPrefix(p[i - 1], k)
            /\ Len(p[n]) < Len(p[i - 1]) /\ Len(p[i - 1]) < Len(k)
        BY <2>1, <3>1, <3>2, <3>3, StrictIs
      <4>2. IsPrefix(p[n], k) /\ Len(p[n]) < Len(k)
        BY <2>1, <3>1, <4>1, Above, LenIs
      <4> QED
        BY <2>1, <4>2, StrictIs
    <3> QED
      BY <3>1, <3>3
  <2> QED
    BY <2>1, <2>2, <2>3
<1>6. \A m, n \in DOMAIN q : m < n => Len(q[m]) < Len(q[n])
  <2> SUFFICES ASSUME NEW m \in 1 .. i, NEW n \in 1 .. i, m < n PROVE Len(q[m]) < Len(q[n])
    BY <1>3
  <2>1. m \in 1 .. i - 1 /\ q[m] = p[m] /\ m \in DOMAIN p
    BY <1>3
  <2>2. CASE n = i
    BY <1>3, <1>5, <2>1, <2>2, StrictIs
  <2>3. CASE n # i
    <3>1. n \in 1 .. i - 1
      BY <1>3, <2>3
    <3>2. q[n] = p[n] /\ n \in DOMAIN p
      BY <1>3, <3>1
    <3> QED
      BY <2>1, <3>2 DEF PathTo
  <2> QED
    BY <2>2, <2>3
<1>7. ToSet(q) = {o \in U : IsPrefix(o, k)}
  <2>1. ASSUME NEW o \in ToSet(q) PROVE o \in U /\ IsPrefix(o, k)
    <3>1. PICK n \in 1 .. i : o = q[n]
      BY <1>3 DEF ToSet
    <3>2. n = i \/ n \in 1 .. i - 1
      BY <1>3
    <3> QED
      BY <1>0, <1>2, <1>3, <1>5, <3>1, <3>2, PrefixOrder DEF IsStrictPrefix
  <2>2. ASSUME NEW o \in U, IsPrefix(o, k) PROVE o \in ToSet(q)
    <3>1. CASE o = k
      BY <1>3, <3>1 DEF ToSet
    <3>2. CASE o # k
      <4>1. o \in DOMAIN T /\ o \in Keys /\ Last(p) \in Keys /\ IsPrefix(p[i], Last(p))
        BY <1>0, <1>1, <1>2, <3>2
      <4>2. IsPrefix(o, Last(p)) /\ IsPrefix(o, p[i])
        <5>1. IsPrefix(o, p[i])
          BY <1>4, <2>2, <4>1, Above
        <5> QED
          BY <1>4, <4>1, <5>1, Above
      <4>3. PICK n \in DOMAIN p : p[n] = o
        BY <4>1, <4>2 DEF PathTo, ToSet
      <4>4. n < i
        <5>1. Len(o) < Len(k) /\ Len(k) <= Len(p[i])
          BY <1>4, <2>2, <3>2, <4>1, PrefixOrder, StrictIs DEF IsStrictPrefix
        <5>2. Len(o) < Len(p[i])
          BY <1>4, <4>1, <5>1, LenIs
        <5>3. n # i
          BY <1>4, <4>3, <5>2, LenIs
        <5>4. ~(i < n)
          <6> SUFFICES ASSUME i < n PROVE FALSE
            OBVIOUS
          <6>1. Len(p[i]) < Len(o)
            BY <4>3 DEF PathTo
          <6> QED
            BY <1>4, <4>1, <5>2, <6>1, LenIs
        <5> QED
          BY <1>2, <5>3, <5>4
      <4>5. n \in 1 .. i - 1 /\ n \in 1 .. i
        BY <1>2, <1>3, <4>4
      <4> QED
        BY <1>3, <4>3, <4>5 DEF ToSet
    <3> QED
      BY <3>1, <3>2
  <2> QED
    BY <2>1, <2>2
<1>8. q # <<>>
  BY <1>3
<1> QED
  BY <1>0, <1>3, <1>6, <1>7, <1>8 DEF PathTo, U, q

(* A path goes on with a match from its end.                                *)
Joined(p, m, q) ==
    /\ Len(q) = Len(p) + Len(m) - 1 /\ DOMAIN q = 1 .. Len(p) + Len(m) - 1
    /\ \A i \in 1 .. Len(p) : q[i] = p[i]
    /\ \A i \in Len(p) .. Len(p) + Len(m) - 1 : q[i] = m[i - Len(p) + 1] /\ i - Len(p) + 1 \in DOMAIN m

(* A path, and one that begins at its end, as append in advancePath joins   *)
(* them.                                                                    *)
LEMMA JoinIs ==
    ASSUME NEW K, NEW p \in Seq(K), NEW m \in Seq(K), Len(p) \in Nat \ {0}, Len(m) \in Nat \ {0},
           m[1] = p[Len(p)]
    PROVE  p \o Tail(m) \in Seq(K) /\ Joined(p, m, p \o Tail(m))
<1> DEFINE n == Len(p)
           q == p \o Tail(m)
<1>1. DOMAIN p = 1 .. n /\ DOMAIN m = 1 .. Len(m) /\ n \in Nat \ {0}
  OBVIOUS
<1>2. /\ q \in Seq(K) /\ Len(q) = n + Len(m) - 1 /\ DOMAIN q = 1 .. n + Len(m) - 1
      /\ \A i \in 1 .. n : q[i] = p[i]
      /\ \A i \in n .. n + Len(m) - 1 : q[i] = m[i - n + 1] /\ i - n + 1 \in DOMAIN m
  <2>1. /\ Tail(m) \in Seq(K) /\ Len(Tail(m)) = Len(m) - 1
        /\ \A i \in 1 .. Len(m) - 1 : Tail(m)[i] = m[i + 1]
    BY <1>1
  <2>2. /\ q \in Seq(K) /\ Len(q) = n + (Len(m) - 1) /\ DOMAIN q = 1 .. n + (Len(m) - 1)
        /\ \A i \in 1 .. n : q[i] = p[i]
        /\ \A i \in 1 .. Len(m) - 1 : q[n + i] = Tail(m)[i]
    BY <1>1, <2>1
  <2>3. q[n] = m[1]
    BY <1>1, <2>2
  <2>4. ASSUME NEW i \in n .. n + Len(m) - 1 PROVE q[i] = m[i - n + 1] /\ i - n + 1 \in DOMAIN m
    <3>1. CASE i = n
      BY <1>1, <2>3, <3>1
    <3>2. CASE i # n
      <4>1. i - n \in 1 .. Len(m) - 1 /\ n + (i - n) = i
        <5> HIDE DEF n
        <5>1. Len(m) \in Nat /\ n \in Nat /\ i \in Nat /\ n < i /\ i <= n + Len(m) - 1
          BY <1>1, <3>2
        <5> QED
          BY <5>1
      <4>2. q[i] = Tail(m)[i - n] /\ Tail(m)[i - n] = m[(i - n) + 1]
        BY <2>1, <2>2, <4>1
      <4> QED
        BY <1>1, <4>1, <4>2
    <3> QED
      BY <3>1, <3>2
  <2> QED
    BY <1>1, <2>2, <2>4
<1> QED
  BY <1>2 DEF Joined

(* A path joined with a match that begins at its end is a path.             *)
LEMMA PathJoined ==
    ASSUME NEW T, Tree(DOMAIN T), NEW p, PathTo(DOMAIN T, p),
           NEW m, m \in Seq(DOMAIN T), Len(m) \in Nat \ {0}, m[1] = Last(p),
           ToSet(m) = {o \in DOMAIN T : IsPrefix(Last(p), o) /\ IsPrefix(o, Last(m))},
           \A i, j \in DOMAIN m : i < j => Len(m[i]) < Len(m[j]),
           NEW q \in Seq(DOMAIN T), Joined(p, m, q)
    PROVE  PathTo(DOMAIN T, q) /\ Last(q) = Last(m) /\ Len(q) = Len(p) + Len(m) - 1
<1> DEFINE n == Len(p)
           l == Last(m)
<1>1. DOMAIN T \subseteq Keys /\ Root \in DOMAIN T
  BY DEF Tree
<1>2. /\ n \in Nat \ {0} /\ DOMAIN p = 1 .. n /\ Last(p) = p[n] /\ Last(p) \in DOMAIN T
      /\ \A i \in DOMAIN p : p[i] \in DOMAIN T /\ IsPrefix(p[i], Last(p))
  BY <1>1, PathIs
<1>3. /\ Len(q) = n + Len(m) - 1 /\ DOMAIN q = 1 .. n + Len(m) - 1
      /\ \A i \in 1 .. n : q[i] = p[i]
      /\ \A i \in n .. n + Len(m) - 1 : q[i] = m[i - n + 1] /\ i - n + 1 \in DOMAIN m
  BY DEF Joined
<1>4. \A i \in DOMAIN m : m[i] \in DOMAIN T /\ m[i] \in Keys /\ IsPrefix(Last(p), m[i]) /\ IsPrefix(m[i], l)
  <2> SUFFICES ASSUME NEW i \in DOMAIN m
               PROVE  m[i] \in DOMAIN T /\ m[i] \in Keys /\ IsPrefix(Last(p), m[i]) /\ IsPrefix(m[i], l)
    OBVIOUS
  <2>1. m[i] \in ToSet(m)
    BY DEF ToSet
  <2> QED
    BY <1>1, <2>1
<1>5. l \in DOMAIN T /\ Last(q) = l /\ l \in Keys /\ IsPrefix(Last(p), l)
  <2>1. l = m[Len(m)] /\ Len(m) \in DOMAIN m
    BY DEF Last
  <2>2. Last(q) = q[n + Len(m) - 1] /\ n + Len(m) - 1 \in n .. n + Len(m) - 1
    BY <1>2, <1>3 DEF Last
  <2>3. (n + Len(m) - 1) - n + 1 = Len(m)
    BY <1>2
  <2> QED
    BY <1>3, <1>4, <2>1, <2>2, <2>3
<1> HIDE DEF l
<1>6. \A i, j \in DOMAIN q : i < j => Len(q[i]) < Len(q[j])
  <2> SUFFICES ASSUME NEW i \in DOMAIN q, NEW j \in DOMAIN q, i < j PROVE Len(q[i]) < Len(q[j])
    OBVIOUS
  <2>1. CASE j <= n
    <3>1. i \in 1 .. n /\ j \in 1 .. n
      BY <1>2, <1>3, <2>1
    <3> QED
      BY <1>2, <1>3, <3>1 DEF PathTo
  <2>2. CASE i >= n
    <3>1. i \in n .. n + Len(m) - 1 /\ j \in n .. n + Len(m) - 1 /\ i - n + 1 < j - n + 1
      BY <1>2, <1>3, <2>2
    <3> QED
      BY <1>3, <3>1
  <2>3. CASE i < n /\ j > n
    <3>1. i \in 1 .. n /\ n \in 1 .. n /\ j \in n .. n + Len(m) - 1
      BY <1>2, <1>3, <2>3
    <3>2. Len(q[i]) < Len(Last(p))
      BY <1>2, <1>3, <2>3, <3>1 DEF PathTo
    <3>3. IsPrefix(Last(p), q[j]) /\ q[j] \in Keys /\ q[i] \in Keys /\ Last(p) \in Keys
      BY <1>1, <1>2, <1>3, <1>4, <3>1
    <3>4. Len(Last(p)) <= Len(q[j])
      BY <3>3, PrefixOrder
    <3>5. Len(q[i]) \in Nat /\ Len(q[j]) \in Nat /\ Len(Last(p)) \in Nat
      BY <3>3, LenIs
    <3> QED
      BY <3>2, <3>4, <3>5
  <2>4. i \in Nat /\ j \in Nat
    BY <1>2, <1>3
  <2> QED
    BY <1>2, <2>1, <2>2, <2>3, <2>4
<1>7. ToSet(q) = {o \in DOMAIN T : IsPrefix(o, l)}
  <2>1. ASSUME NEW i \in DOMAIN q PROVE q[i] \in DOMAIN T /\ IsPrefix(q[i], l)
    <3>1. CASE i <= n
      <4>1. i \in 1 .. n /\ q[i] = p[i] /\ q[i] \in DOMAIN T /\ q[i] \in Keys /\ IsPrefix(q[i], Last(p))
        BY <1>1, <1>2, <1>3, <3>1
      <4> QED
        BY <1>1, <1>2, <1>5, <4>1, Above
    <3>2. CASE i >= n
      <4>1. i \in n .. n + Len(m) - 1
        BY <1>2, <1>3, <3>2
      <4> QED
        BY <1>3, <1>4, <4>1
    <3> QED
      BY <1>2, <1>3, <3>1, <3>2
  <2>2. ASSUME NEW o \in DOMAIN T, IsPrefix(o, l) PROVE \E i \in DOMAIN q : q[i] = o
    <3>0. o \in Keys /\ Last(p) \in Keys
      BY <1>1, <1>2
    <3>1. CASE Len(o) <= Len(Last(p))
      <4>1. IsPrefix(o, Last(p))
        BY <1>5, <2>2, <3>0, <3>1, Nested
      <4>2. PICK i \in DOMAIN p : p[i] = o
        BY <4>1 DEF PathTo, ToSet
      <4>3. i \in 1 .. n /\ i \in DOMAIN q
        BY <1>2, <1>3
      <4> QED
        BY <1>3, <4>2, <4>3
    <3>2. CASE Len(Last(p)) <= Len(o)
      <4>1. IsPrefix(Last(p), o)
        BY <1>5, <2>2, <3>0, <3>2, Nested
      <4>2. PICK i \in DOMAIN m : m[i] = o
        BY <2>2, <4>1 DEF ToSet, l
      <4>3. i \in 1 .. Len(m) /\ n + i - 1 \in n .. n + Len(m) - 1 /\ (n + i - 1) - n + 1 = i
        BY <1>2
      <4>4. q[n + i - 1] = o
        BY <1>3, <4>2, <4>3
      <4>5. n + i - 1 \in DOMAIN q
        BY <1>2, <1>3, <4>3
      <4> QED
        BY <4>4, <4>5
    <3>3. Len(o) \in Nat /\ Len(Last(p)) \in Nat
      BY <3>0, LenIs
    <3> QED
      BY <3>1, <3>2, <3>3
  <2> QED
    BY <2>1, <2>2 DEF ToSet
<1>8. q # <<>>
  BY <1>2, <1>3
<1> QED
  BY <1>3, <1>5, <1>6, <1>7, <1>8 DEF PathTo, l

(* A path goes on to a new node below its end.                              *)
LEMMA PathGrow ==
    ASSUME NEW T, Tree(DOMAIN T), NEW p, PathTo(DOMAIN T, p),
           NEW key \in Keys, IsStrictPrefix(Last(p), key),
           \A o \in DOMAIN T : IsPrefix(o, key) => IsPrefix(o, Last(p))
    PROVE  PathTo(DOMAIN T \cup {key}, Append(p, key)) /\ Last(Append(p, key)) = key
<1> DEFINE n == Len(p)
           K == DOMAIN T \cup {key}
           q == Append(p, key)
<1> SUFFICES PathTo(K, q) /\ Last(q) = key
  OBVIOUS
<1>0. K = DOMAIN T \cup {key} /\ q = Append(p, key)
  OBVIOUS
<1> HIDE DEF K, q
<1>1. DOMAIN T \subseteq Keys /\ Root \in DOMAIN T
  BY DEF Tree
<1>2. /\ n \in Nat \ {0} /\ DOMAIN p = 1 .. n /\ Last(p) = p[n] /\ Last(p) \in DOMAIN T
      /\ \A i \in DOMAIN p : p[i] \in DOMAIN T /\ IsPrefix(p[i], Last(p))
  BY <1>1, PathIs
<1>3. /\ q \in Seq(K) /\ Len(q) = n + 1 /\ DOMAIN q = 1 .. n + 1 /\ Last(q) = key /\ q[n + 1] = key
      /\ \A i \in 1 .. n : q[i] = p[i]
  <2>1. p \in Seq(K) /\ key \in K
    BY <1>0 DEF PathTo
  <2> QED
    BY <1>0, <1>2, <2>1 DEF Last
<1>4. \A i \in 1 .. n : q[i] \in DOMAIN T /\ q[i] \in Keys /\ IsPrefix(q[i], key) /\ Len(q[i]) < Len(key)
  <2> SUFFICES ASSUME NEW i \in 1 .. n
               PROVE  q[i] \in DOMAIN T /\ q[i] \in Keys /\ IsPrefix(q[i], key) /\ Len(q[i]) < Len(key)
    OBVIOUS
  <2>1. q[i] \in DOMAIN T /\ q[i] \in Keys /\ IsPrefix(q[i], Last(p)) /\ Last(p) \in Keys
    BY <1>1, <1>2, <1>3
  <2>2. IsPrefix(Last(p), key) /\ Len(Last(p)) < Len(key)
    BY <2>1, StrictIs
  <2>3. IsPrefix(q[i], key)
    BY <2>1, <2>2, Above
  <2>4. Len(q[i]) <= Len(Last(p))
    BY <2>1, PrefixOrder
  <2> QED
    BY <2>1, <2>2, <2>3, <2>4, LenIs
<1>5. \A i, j \in DOMAIN q : i < j => Len(q[i]) < Len(q[j])
  <2> SUFFICES ASSUME NEW i \in 1 .. n + 1, NEW j \in 1 .. n + 1, i < j PROVE Len(q[i]) < Len(q[j])
    BY <1>3
  <2>1. i \in 1 .. n
    BY <1>2
  <2>2. CASE j = n + 1
    BY <1>3, <1>4, <2>1, <2>2
  <2>3. CASE j # n + 1
    <3>1. j \in 1 .. n
      BY <1>2, <2>3
    <3> QED
      BY <1>2, <1>3, <2>1, <3>1 DEF PathTo
  <2> QED
    BY <2>2, <2>3
<1>6. ToSet(q) = {o \in K : IsPrefix(o, key)}
  <2>1. \A i \in DOMAIN q : q[i] \in K /\ IsPrefix(q[i], key)
    <3> SUFFICES ASSUME NEW i \in 1 .. n + 1 PROVE q[i] \in K /\ IsPrefix(q[i], key)
      BY <1>3
    <3>1. i = n + 1 \/ i \in 1 .. n
      BY <1>2
    <3> QED
      BY <1>0, <1>3, <1>4, <3>1, PrefixOrder
  <2>2. ASSUME NEW o \in K, IsPrefix(o, key) PROVE \E i \in DOMAIN q : q[i] = o
    <3>1. CASE o = key
      BY <1>2, <1>3, <3>1
    <3>2. CASE o # key
      <4>1. o \in DOMAIN T /\ IsPrefix(o, Last(p))
        BY <1>0, <2>2, <3>2
      <4>2. PICK i \in DOMAIN p : p[i] = o
        BY <4>1 DEF PathTo, ToSet
      <4>3. i \in 1 .. n /\ i \in DOMAIN q
        BY <1>2, <1>3
      <4> QED
        BY <1>3, <4>2, <4>3
    <3> QED
      BY <3>1, <3>2
  <2> QED
    BY <2>1, <2>2 DEF ToSet
<1>7. q # <<>>
  BY <1>2, <1>3
<1> QED
  BY <1>3, <1>5, <1>6, <1>7 DEF PathTo

(* A path without a node that is not its end.                               *)
LEMMA PathWithout ==
    ASSUME NEW K, K \subseteq Keys, Root \in K, NEW p, PathTo(K, p),
           NEW i \in DOMAIN p, i # Len(p), i # 1,
           NEW q, q = RemoveAt(p, i), NEW J, J = K \ {p[i]}
    PROVE  PathTo(J, q) /\ Last(q) = Last(p)
<1> DEFINE n == Len(p)
<1>1. /\ n \in Nat \ {0} /\ DOMAIN p = 1 .. n /\ Last(p) = p[n]
      /\ \A j \in DOMAIN p : p[j] \in K /\ IsPrefix(p[j], Last(p))
      /\ \A j, m \in DOMAIN p : p[j] = p[m] => j = m
      /\ Last(p) \in K
  BY PathIs
<1>2. i \in Nat /\ 1 < i /\ i < n
  BY <1>1
<1> DEFINE At(j) == IF j < i THEN j ELSE j + 1
<1>3. /\ q \in Seq(K) /\ Len(q) = n - 1 /\ DOMAIN q = 1 .. n - 1
      /\ \A j \in 1 .. n - 1 : q[j] = p[At(j)] /\ At(j) \in DOMAIN p \ {i}
  <2> DEFINE a == SubSeq(p, 1, i - 1)
             b == SubSeq(p, i + 1, n)
  <2>1. p \in Seq(K)
    BY DEF PathTo
  <2>2. a \in Seq(K) /\ Len(a) = i - 1 /\ \A j \in 1 .. i - 1 : a[j] = p[j]
    BY <1>1, <1>2, <2>1
  <2>3. b \in Seq(K) /\ Len(b) = n - i /\ \A j \in 1 .. n - i : b[j] = p[j + i]
    BY <1>1, <1>2, <2>1
  <2>4. q = a \o b
    BY DEF RemoveAt
  <2> HIDE DEF a, b
  <2>5. q \in Seq(K) /\ Len(q) = (i - 1) + (n - i) /\ DOMAIN q = 1 .. (i - 1) + (n - i)
    <3>1. i - 1 \in Nat /\ n - i \in Nat
      BY <1>1, <1>2
    <3>2. a \in Seq(K) /\ b \in Seq(K)
      BY <2>2, <2>3
    <3>3. a \o b \in Seq(K) /\ Len(a \o b) = Len(a) + Len(b)
      BY <3>2
    <3>4. q \in Seq(K) /\ Len(q) = Len(a) + Len(b)
      BY <2>4, <3>3
    <3> QED
      BY <2>2, <2>3, <3>1, <3>4
  <2>6. ASSUME NEW j \in 1 .. n - 1 PROVE q[j] = p[At(j)] /\ At(j) \in DOMAIN p \ {i}
    <3>1. CASE j < i
      <4>1. j \in 1 .. i - 1 /\ q[j] = a[j]
        BY <1>1, <1>2, <2>2, <2>3, <2>4, <3>1
      <4> QED
        BY <1>1, <1>2, <2>2, <3>1, <4>1
    <3>2. CASE j >= i
      <4>1. j - (i - 1) \in 1 .. n - i /\ q[j] = b[j - (i - 1)]
        BY <1>1, <1>2, <2>2, <2>3, <2>4, <3>2
      <4>2. b[j - (i - 1)] = p[(j - (i - 1)) + i] /\ (j - (i - 1)) + i = j + 1
        BY <1>1, <1>2, <2>3, <4>1
      <4>3. At(j) = j + 1 /\ j + 1 \in 1 .. n /\ j + 1 # i
        BY <1>1, <1>2, <3>2
      <4> QED
        BY <1>1, <4>1, <4>2, <4>3
    <3> QED
      BY <1>1, <1>2, <3>1, <3>2
  <2> QED
    BY <1>1, <1>2, <2>5, <2>6
<1>4. ASSUME NEW m \in DOMAIN p, m # i PROVE \E j \in 1 .. n - 1 : At(j) = m
  <2>1. CASE m < i
    BY <1>1, <1>2, <2>1
  <2>2. CASE m > i
    <3>1. m - 1 \in 1 .. n - 1 /\ At(m - 1) = m
      BY <1>1, <1>2, <2>2
    <3> QED
      BY <3>1
  <2> QED
    BY <1>1, <1>2, <1>4, <2>1, <2>2
<1>5. Last(q) = Last(p)
  <2>1. At(n - 1) = n /\ n - 1 \in 1 .. n - 1
    <3>1. n - 1 \in 1 .. n - 1 /\ ~(n - 1 < i) /\ (n - 1) + 1 = n
      BY <1>1, <1>2
    <3> QED
      BY <3>1
  <2>2. q[n - 1] = p[n] /\ Last(q) = q[n - 1]
    BY <1>3, <2>1 DEF Last
  <2> QED
    BY <1>1, <2>2
<1>6. \A j, m \in 1 .. n - 1 : j < m => At(j) < At(m)
  BY <1>1, <1>2
<1> HIDE DEF At
<1>7. q \in Seq(J)
  <2>1. \A j \in 1 .. n - 1 : q[j] \in J
    BY <1>1, <1>3
  <2> QED
    BY <1>1, <1>3, <2>1
<1>8. \A j, m \in DOMAIN q : j < m => Len(q[j]) < Len(q[m])
  <2> SUFFICES ASSUME NEW j \in 1 .. n - 1, NEW m \in 1 .. n - 1, j < m PROVE Len(q[j]) < Len(q[m])
    BY <1>3
  <2>1. At(j) < At(m) /\ At(j) \in DOMAIN p /\ At(m) \in DOMAIN p /\ q[j] = p[At(j)] /\ q[m] = p[At(m)]
    BY <1>3, <1>6
  <2> QED
    BY <2>1 DEF PathTo
<1>9. ToSet(q) = {o \in J : IsPrefix(o, Last(q))}
  <2>1. \A j \in DOMAIN q : q[j] \in J /\ IsPrefix(q[j], Last(p))
    BY <1>1, <1>3
  <2>2. ASSUME NEW o \in J, IsPrefix(o, Last(p)) PROVE \E j \in DOMAIN q : q[j] = o
    <3>1. PICK m \in DOMAIN p : p[m] = o
      BY <2>2 DEF PathTo, ToSet
    <3>2. m # i
      BY <3>1
    <3> QED
      BY <1>3, <1>4, <3>1, <3>2
  <2> QED
    BY <1>5, <2>1, <2>2 DEF ToSet
<1>10. q # <<>>
  BY <1>1, <1>2, <1>3
<1> QED
  BY <1>5, <1>7, <1>8, <1>9, <1>10 DEF PathTo

-----------------------------------------------------------------------------
(* Snapshots and nodes.                                                     *)

Snapshot == [from : Nat, to : Nat, lazy : BOOLEAN, data : Seq(Keys)]
Node == [kv : Snapshot, rec : Keys, used : Nat, user : BOOLEAN]

(* A snapshot with a buffer of n entries: the entries it has not copied out *)
(* are in the buffer, and those it has are as many as it says.              *)
Fine(snap, n) ==
    /\ snap \in Snapshot /\ snap.from <= snap.to
    /\ snap.lazy => snap.to <= n /\ snap.data = <<>>
    /\ ~snap.lazy => Len(snap.data) = snap.to - snap.from

Spans(snap, from, to) == snap # NoSnapshot => snap.from = from /\ snap.to = to

(* No snapshot is a snapshot of nothing.                                    *)
LEMMA NoSnapshotIs == ASSUME NEW n \in Nat PROVE Fine(NoSnapshot, n)
BY DEF NoSnapshot, Fine, Snapshot, Keys

(* A new node is a node.                                                    *)
LEMMA NewNodeIs == ASSUME NEW used \in Nat PROVE NewNode(used) \in Node
BY NoSnapshotIs DEF NewNode, Node, Fine, Keys

(* The size of a node's snapshots.                                          *)
LEMMA BytesIs ==
    ASSUME NEW node \in Node
    PROVE  SnapshotBytes(node) \in Nat
<1>1. node.kv \in Snapshot /\ node.kv.data \in Seq(Keys)
  BY DEF Node, Snapshot
<1>2. KvSize(node.kv) \in Nat
  BY <1>1 DEF KvSize
<1>3. RecSize(node.rec) \in Nat
  BY SizeAssumption DEF RecSize
<1> QED
  BY <1>2, <1>3 DEF SnapshotBytes

(* A lazy snapshot of a part of the buffer.                                 *)
LEMMA LazyIs ==
    ASSUME NEW from \in Nat, NEW to \in Nat, NEW n \in Nat, to <= n
    PROVE  /\ Fine(Lazy(from, to), n) /\ Spans(Lazy(from, to), from, to)
           /\ from < to => Lazy(from, to) # NoSnapshot
           /\ from < to => Lazy(from, to).from = from /\ Lazy(from, to).to = to
<1>1. CASE to <= from
  BY <1>1, NoSnapshotIs DEF Lazy, Spans
<1>2. CASE ~(to <= from)
  <2> DEFINE l == [from |-> from, to |-> to, lazy |-> TRUE, data |-> <<>>]
  <2>1. Lazy(from, to) = l
    BY <1>2 DEF Lazy
  <2>2. l \in Snapshot /\ l.from = from /\ l.to = to /\ l.lazy = TRUE /\ l.data = <<>>
    BY DEF Snapshot
  <2>3. l # NoSnapshot
    BY DEF NoSnapshot
  <2> HIDE DEF l
  <2> QED
    BY <1>2, <2>1, <2>2, <2>3 DEF Fine, Spans
<1> QED
  BY <1>1, <1>2

(* A part of a snapshot.                                                    *)
LEMMA PartIs ==
    ASSUME NEW n \in Nat, NEW snap, Fine(snap, n), NEW from \in Nat, NEW to \in Nat,
           snap.from <= from, from <= to, to <= snap.to
    PROVE  Fine(Part(snap, from, to), n) /\ Part(snap, from, to).from = from /\ Part(snap, from, to).to = to
<1> DEFINE p == Part(snap, from, to)
<1>1. snap \in Snapshot /\ snap.from \in Nat /\ snap.to \in Nat /\ snap.lazy \in BOOLEAN /\ snap.data \in Seq(Keys)
  BY DEF Fine, Snapshot
<1>2. /\ p.from = from /\ p.to = to /\ p.lazy = snap.lazy
      /\ p.data = IF snap.lazy THEN snap.data ELSE SubSeq(snap.data, from - snap.from + 1, to - snap.from)
      /\ p = [from |-> p.from, to |-> p.to, lazy |-> p.lazy, data |-> p.data]
  <2> DEFINE data == IF snap.lazy THEN snap.data ELSE SubSeq(snap.data, from - snap.from + 1, to - snap.from)
  <2>1. p = [snap EXCEPT !.from = from, !.to = to, !.data = data]
    BY DEF Part
  <2> HIDE DEF p, data
  <2>2. p.from = from /\ p.to = to /\ p.lazy = snap.lazy /\ p.data = data
    BY <2>1 DEF Fine, Snapshot
  <2>3. p = [from |-> p.from, to |-> p.to, lazy |-> p.lazy, data |-> p.data]
    BY <2>1 DEF Fine, Snapshot
  <2> QED
    BY <2>2, <2>3 DEF data
<1>3. ~snap.lazy => p.data \in Seq(Keys) /\ Len(p.data) = to - from
  <2> SUFFICES ASSUME ~snap.lazy PROVE p.data \in Seq(Keys) /\ Len(p.data) = to - from
    OBVIOUS
  <2>1. Len(snap.data) = snap.to - snap.from
    BY DEF Fine
  <2>2. p.data = SubSeq(snap.data, from - snap.from + 1, to - snap.from)
    BY <1>2
  <2> HIDE DEF p
  <2>3. from - snap.from + 1 \in Nat \ {0} /\ to - snap.from \in Nat /\ to - snap.from <= Len(snap.data)
    BY <1>1, <2>1
  <2> DEFINE a == from - snap.from + 1
             b == to - snap.from
  <2>4. b - a + 1 = to - from /\ b - a + 1 \in Nat
    BY <1>1
  <2> HIDE DEF a, b
  <2>5. ASSUME NEW q \in Seq(Keys), a \in Nat \ {0}, b \in Nat, b <= Len(q), b - a + 1 \in Nat
        PROVE  SubSeq(q, a, b) \in Seq(Keys) /\ Len(SubSeq(q, a, b)) = b - a + 1
    BY <2>5
  <2> QED
    BY <1>1, <2>2, <2>3, <2>4, <2>5 DEF a, b
<1> HIDE DEF p
<1>4. p.data \in Seq(Keys)
  BY <1>1, <1>2, <1>3
<1>5. p \in Snapshot
  BY <1>1, <1>2, <1>4 DEF Snapshot
<1>6. Fine(p, n)
  <2>1. snap.lazy => p.to <= n /\ p.data = <<>>
    <3>1. snap.lazy => snap.to <= n /\ snap.data = <<>>
      BY DEF Fine
    <3> QED
      BY <1>1, <1>2, <3>1
  <2> QED
    BY <1>2, <1>3, <1>5, <2>1 DEF Fine
<1> QED
  BY <1>2, <1>6 DEF p

(* The snapshot of an edge is divided with the edge.                        *)
LEMMA SplitIs ==
    ASSUME NEW n \in Nat, NEW snap, Fine(snap, n), NEW from \in Nat, NEW to \in Nat, NEW at \in Nat,
           from < at, at < to, Spans(snap, from, to)
    PROVE  /\ Fine(SplitHead(snap, at), n) /\ Spans(SplitHead(snap, at), from, at)
           /\ Fine(SplitTail(snap, at), n) /\ Spans(SplitTail(snap, at), at, to)
           /\ snap # NoSnapshot => SplitHead(snap, at) # NoSnapshot /\ SplitTail(snap, at) # NoSnapshot
<1>1. CASE snap = NoSnapshot
  <2>1. snap.from = 0 /\ snap.to = 0 /\ at > 0
    BY <1>1 DEF NoSnapshot
  <2>2. SplitHead(snap, at) = NoSnapshot /\ SplitTail(snap, at) = NoSnapshot
    BY <1>1, <2>1 DEF SplitHead, SplitTail
  <2> QED
    BY <1>1, <2>2, NoSnapshotIs DEF Spans
<1>2. CASE snap # NoSnapshot
  <2>1. snap.from = from /\ snap.to = to
    BY <1>2 DEF Spans
  <2>2. SplitHead(snap, at) = Part(snap, from, at) /\ SplitTail(snap, at) = Part(snap, at, to)
    BY <2>1 DEF SplitHead, SplitTail
  <2>3. /\ Fine(Part(snap, from, at), n) /\ Part(snap, from, at).from = from /\ Part(snap, from, at).to = at
        /\ Fine(Part(snap, at, to), n) /\ Part(snap, at, to).from = at /\ Part(snap, at, to).to = to
    BY <2>1, PartIs
  <2>4. NoSnapshot.to = 0
    BY DEF NoSnapshot
  <2>5. Part(snap, from, at) # NoSnapshot /\ Part(snap, at, to) # NoSnapshot
    BY <2>3, <2>4
  <2> QED
    BY <2>2, <2>3, <2>5 DEF Spans
<1> QED
  BY <1>1, <1>2

(* The part behind at of a snapshot that begins before it.                  *)
LEMMA TailIs ==
    ASSUME NEW n \in Nat, NEW from \in Nat, NEW to \in Nat, NEW at \in Nat, from <= at, at < to, to <= n
    PROVE  LET tail == SplitTail(Lazy(from, to), at)
           IN  Fine(tail, n) /\ tail # NoSnapshot /\ tail.from = at /\ tail.to = to
<1> DEFINE l == Lazy(from, to)
<1>1. Fine(l, n) /\ l.from = from /\ l.to = to /\ l # NoSnapshot /\ Spans(l, from, to)
  BY LazyIs
<1> HIDE DEF l
<1>2. CASE at = from
  BY <1>1, <1>2 DEF SplitTail, l
<1>3. CASE at # from
  <2>1. /\ Fine(SplitTail(l, at), n) /\ Spans(SplitTail(l, at), at, to) /\ SplitTail(l, at) # NoSnapshot
    <3>1. from < at
      BY <1>3
    <3> QED
      BY <1>1, <3>1, SplitIs
  <2> QED
    BY <2>1 DEF Spans, l
<1> QED
  BY <1>2, <1>3

(* A snapshot holds an entry for each of its tokens.                        *)
LEMMA EntriesIs ==
    ASSUME NEW d, d.kv.buf \in Seq(Keys), NEW snap, Fine(snap, Len(d.kv.buf))
    PROVE  Entries(d, snap) \in Seq(Keys) /\ Len(Entries(d, snap)) = snap.to - snap.from
<1>1. snap.from \in Nat /\ snap.to \in Nat /\ snap.data \in Seq(Keys) /\ snap.from <= snap.to
  BY DEF Fine, Snapshot
<1>2. CASE snap.lazy
  <2> DEFINE a == snap.from + 1
             b == snap.to
             q == d.kv.buf
  <2>1. Entries(d, snap) = SubSeq(q, a, b) /\ b <= Len(q) /\ q \in Seq(Keys)
    BY <1>2 DEF Entries, Fine
  <2>2. a \in Nat \ {0} /\ b \in Nat /\ b - a + 1 = snap.to - snap.from /\ b - a + 1 \in Nat
    BY <1>1
  <2> HIDE DEF a, b, q
  <2>3. SubSeq(q, a, b) \in Seq(Keys) /\ Len(SubSeq(q, a, b)) = b - a + 1
    BY <2>1, <2>2
  <2> QED
    BY <2>1, <2>2, <2>3
<1>3. CASE ~snap.lazy
  BY <1>1, <1>3 DEF Entries, Fine
<1> QED
  BY <1>2, <1>3

(* The snapshots of two edges that follow each other are joined.            *)
LEMMA MergeIs ==
    ASSUME NEW d, d.kv.buf \in Seq(Keys), NEW n \in Nat, n = Len(d.kv.buf), NEW p, Fine(p, n), NEW ch, Fine(ch, n),
           NEW from \in Nat, NEW mid \in Nat, NEW to \in Nat, from < mid, mid < to,
           Spans(p, from, mid), Spans(ch, mid, to)
    PROVE  /\ Fine(MergeKv(d, p, ch), n) /\ Spans(MergeKv(d, p, ch), from, to)
           /\ p # NoSnapshot /\ ch # NoSnapshot => MergeKv(d, p, ch) # NoSnapshot
<1>1. CASE p = NoSnapshot \/ ch = NoSnapshot
  BY <1>1, NoSnapshotIs DEF MergeKv, Spans
<1>2. CASE ~(p = NoSnapshot \/ ch = NoSnapshot)
  <2>1. p.from = from /\ p.to = mid /\ ch.from = mid /\ ch.to = to
    BY <1>2 DEF Spans
  <2>2. CASE p.lazy /\ ch.lazy
    <3>1. MergeKv(d, p, ch) = Lazy(from, to)
      BY <1>2, <2>1, <2>2 DEF MergeKv
    <3>2. to <= n
      BY <2>1, <2>2 DEF Fine
    <3>3. from < to
      OBVIOUS
    <3> QED
      BY <3>1, <3>2, <3>3, LazyIs
  <2>3. CASE ~(p.lazy /\ ch.lazy)
    <3> DEFINE e == Entries(d, p) \o Entries(d, ch)
               m == [from |-> from, to |-> to, lazy |-> FALSE, data |-> e]
    <3>1. MergeKv(d, p, ch) = m
      BY <1>2, <2>1, <2>3 DEF MergeKv
    <3>2. /\ Entries(d, p) \in Seq(Keys) /\ Len(Entries(d, p)) = mid - from
          /\ Entries(d, ch) \in Seq(Keys) /\ Len(Entries(d, ch)) = to - mid
      BY <2>1, EntriesIs
    <3>3. e \in Seq(Keys) /\ Len(e) = to - from
      <4>1. e \in Seq(Keys) /\ Len(e) = Len(Entries(d, p)) + Len(Entries(d, ch))
        BY <3>2
      <4> HIDE DEF e
      <4> QED
        BY <3>2, <4>1
    <3> HIDE DEF e
    <3>4. m \in Snapshot /\ m.from = from /\ m.to = to /\ m.lazy = FALSE /\ m.data = e
      BY <3>3 DEF Snapshot
    <3> HIDE DEF m
    <3>5. Fine(m, n) /\ Spans(m, from, to)
      BY <3>3, <3>4 DEF Fine, Spans
    <3>6. m # NoSnapshot
      <4>1. NoSnapshot.to = 0
        BY DEF NoSnapshot
      <4> QED
        BY <3>4, <4>1
    <3> QED
      BY <3>1, <3>5, <3>6
  <2> QED
    BY <2>2, <2>3
<1> QED
  BY <1>1, <1>2

-----------------------------------------------------------------------------
(* What the snapshots of a trie take.                                       *)

Weights(T) == [k \in DOMAIN T |-> SnapshotBytes(T[k])]
Total(T) == SumFunctionOnSet(Weights(T), DOMAIN T)
BytesAt(T, k) == IF k \in DOMAIN T THEN SnapshotBytes(T[k]) ELSE 0

(* Finitely many nodes.                                                     *)
Table(T) == T \in [DOMAIN T -> Node] /\ IsFiniteSet(DOMAIN T)

(* The size of all snapshots is a number.                                   *)
LEMMA TotalIs ==
    ASSUME NEW T, Table(T)
    PROVE  Total(T) \in Int
<1>1. \A k \in DOMAIN T : Weights(T)[k] \in Int
  BY BytesIs DEF Weights, Table
<1> QED
  BY <1>1, SumType DEF Total, Table

(* The size of one node's snapshots taken out.                              *)
LEMMA TotalWithout ==
    ASSUME NEW T, Table(T), NEW k
    PROVE  /\ SumFunctionOnSet(Weights(T), DOMAIN T \ {k}) \in Int
           /\ BytesAt(T, k) \in Nat
           /\ Total(T) = BytesAt(T, k) + SumFunctionOnSet(Weights(T), DOMAIN T \ {k})
<1> DEFINE K == DOMAIN T
           w == Weights(T)
<1>0. T \in [K -> Node] /\ IsFiniteSet(K)
  BY DEF Table
<1>1. \A j \in K : w[j] = SnapshotBytes(T[j]) /\ w[j] \in Nat
  BY <1>0, BytesIs DEF Weights
<1> HIDE DEF w
<1>2. SumFunctionOnSet(w, K \ {k}) \in Int
  <2>1. IsFiniteSet(K \ {k}) /\ \A x \in K \ {k} : w[x] \in Int
    BY <1>0, <1>1, FS_RemoveElement
  <2> QED
    BY <2>1, SumType
<1>3. CASE k \in K
  <2>1. SumFunctionOnSet(w, K) = w[k] + SumFunctionOnSet(w, K \ {k})
    <3>1. \A x \in K : w[x] \in Int
      BY <1>1
    <3> QED
      BY <1>0, <1>3, <3>1, SumWithout
  <2> QED
    BY <1>1, <1>2, <1>3, <2>1 DEF Total, BytesAt, w
<1>4. CASE k \notin K
  <2>1. K \ {k} = K
    BY <1>4
  <2>2. BytesAt(T, k) = 0
    BY <1>4 DEF BytesAt
  <2> QED
    BY <1>2, <2>1, <2>2 DEF Total, w
<1> QED
  BY <1>2, <1>3, <1>4 DEF w

(* Two tries that differ in one key differ by what they have there.         *)
LEMMA TotalChange ==
    ASSUME NEW T, Table(T), NEW U, Table(U),
           NEW k, DOMAIN T \ {k} = DOMAIN U \ {k}, \A j \in DOMAIN T \ {k} : SnapshotBytes(U[j]) = SnapshotBytes(T[j])
    PROVE  /\ Total(T) \in Int /\ Total(U) \in Int /\ BytesAt(T, k) \in Nat /\ BytesAt(U, k) \in Nat
           /\ Total(U) = Total(T) - BytesAt(T, k) + BytesAt(U, k)
<1> DEFINE W == DOMAIN T \ {k}
<1>1. SumFunctionOnSet(Weights(U), W) = SumFunctionOnSet(Weights(T), W)
  <2>1. IsFiniteSet(W)
    BY FS_RemoveElement DEF Table
  <2>2. \A x \in W : Weights(T)[x] \in Int /\ Weights(U)[x] = Weights(T)[x]
    BY BytesIs DEF Weights, Table
  <2> HIDE DEF W
  <2> QED
    BY <2>1, <2>2, SumSame
<1>2. /\ SumFunctionOnSet(Weights(T), W) \in Int /\ BytesAt(T, k) \in Nat
      /\ Total(T) = BytesAt(T, k) + SumFunctionOnSet(Weights(T), W)
  BY TotalWithout
<1>3. /\ BytesAt(U, k) \in Nat /\ Total(U) = BytesAt(U, k) + SumFunctionOnSet(Weights(U), W)
  BY TotalWithout
<1>4. Total(T) \in Int /\ Total(U) \in Int
  BY TotalIs
<1> HIDE DEF W
<1> QED
  BY <1>1, <1>2, <1>3, <1>4

(* U is T with a node at k.                                                 *)
IsPut(U, T, k, node) ==
    /\ DOMAIN U = DOMAIN T \cup {k} /\ Table(U)
    /\ U[k] = node /\ \A j \in DOMAIN T \ {k} : U[j] = T[j]
    /\ Total(U) = Total(T) - BytesAt(T, k) + SnapshotBytes(node)
    /\ Total(T) \in Int /\ BytesAt(T, k) \in Nat /\ SnapshotBytes(node) \in Nat

(* The trie with one node put in: what it holds, and its size.              *)
LEMMA PutIs ==
    ASSUME NEW T, Table(T), NEW k, NEW node \in Node
    PROVE  IsPut(Put(T, k, node), T, k, node)
<1> DEFINE U == Put(T, k, node)
<1>1. DOMAIN U = DOMAIN T \cup {k} /\ U[k] = node /\ \A j \in DOMAIN T \ {k} : U[j] = T[j]
  BY DEF Put
<1>2. Table(U)
  <2>1. U \in [DOMAIN T \cup {k} -> Node]
    BY DEF Put, Table
  <2>2. IsFiniteSet(DOMAIN T \cup {k})
    BY FS_AddElement DEF Table
  <2> QED
    BY <1>1, <2>1, <2>2 DEF Table
<1> HIDE DEF U
<1>3. BytesAt(U, k) = SnapshotBytes(node)
  BY <1>1 DEF BytesAt
<1>4. DOMAIN T \ {k} = DOMAIN U \ {k} /\ \A j \in DOMAIN T \ {k} : SnapshotBytes(U[j]) = SnapshotBytes(T[j])
  BY <1>1
<1>5. /\ Total(T) \in Int /\ BytesAt(T, k) \in Nat /\ BytesAt(U, k) \in Nat
      /\ Total(U) = Total(T) - BytesAt(T, k) + BytesAt(U, k)
  BY <1>2, <1>4, TotalChange
<1> QED
  BY <1>1, <1>2, <1>3, <1>5 DEF U, IsPut

(* The trie with one node taken out: what it holds, and its size.           *)
LEMMA DropIs ==
    ASSUME NEW T, Table(T), NEW k \in DOMAIN T
    PROVE  LET U == Drop(T, k)
           IN  /\ DOMAIN U = DOMAIN T \ {k} /\ Table(U)
               /\ \A j \in DOMAIN U : U[j] = T[j]
               /\ Total(U) = Total(T) - SnapshotBytes(T[k])
               /\ Total(T) \in Int /\ SnapshotBytes(T[k]) \in Nat
<1> DEFINE U == Drop(T, k)
<1>1. DOMAIN U = DOMAIN T \ {k} /\ \A j \in DOMAIN U : U[j] = T[j]
  BY DEF Drop
<1>2. Table(U)
  <2>1. U \in [DOMAIN T \ {k} -> Node]
    BY DEF Drop, Table
  <2>2. IsFiniteSet(DOMAIN T \ {k})
    BY FS_RemoveElement DEF Table
  <2> QED
    BY <1>1, <2>1, <2>2 DEF Table
<1> HIDE DEF U
<1>3. BytesAt(U, k) = 0 /\ BytesAt(T, k) = SnapshotBytes(T[k])
  BY <1>1 DEF BytesAt
<1>4. DOMAIN T \ {k} = DOMAIN U \ {k} /\ \A j \in DOMAIN T \ {k} : SnapshotBytes(U[j]) = SnapshotBytes(T[j])
  BY <1>1
<1>5. /\ Total(T) \in Int /\ BytesAt(T, k) \in Nat /\ BytesAt(U, k) \in Nat
      /\ Total(U) = Total(T) - BytesAt(T, k) + BytesAt(U, k)
  BY <1>2, <1>4, TotalChange
<1> QED
  BY <1>1, <1>2, <1>3, <1>5 DEF U

-----------------------------------------------------------------------------
(* A prefix cache.                                                          *)

Tries == UNION {[K -> Node] : K \in SUBSET Keys}
Buffers == [buf : Seq(Keys), off : Nat]
Schedules == [on : BOOLEAN, base : Nat]

Cache == [layers : Models, trie : Tries, path : Seq(Keys), kv : Buffers, rec : Keys,
          captures : Schedules, bytes : Int, clock : Nat, panicked : BOOLEAN]

(* What every node of a trie over a buffer of n entries is.                 *)
NodeIs(T, k, n) ==
    /\ Fine(T[k].kv, n) /\ Spans(T[k].kv, StartOffset(T, k), Len(k))
    /\ T[k].rec # <<>> => Len(T[k].rec) = Len(k)

Nodes(T, n) == Table(T) /\ Tree(DOMAIN T) /\ \A k \in DOMAIN T : NodeIs(T, k, n)

(* A cache in the middle of an operation: its path may have a node too few. *)
Sound(d) ==
    /\ d \in Cache /\ Nodes(d.trie, Len(d.kv.buf))
    /\ d.kv.off <= Len(d.kv.buf)
    /\ d.bytes = Total(d.trie)
    /\ "rec" \notin ToSet(d.layers) => d.rec = <<>>

(* The nodes have the entries of their edge, but those of X and the root.   *)
Filled(T, X) == \A k \in DOMAIN T \ (X \cup {Root}) : T[k].kv # NoSnapshot

(* With an attention layer, all nodes but those of X are filled.            *)
Held(d, X) == "kv" \in ToSet(d.layers) => Filled(d.trie, X)

(* The operations on the trie leave the rest alone.                         *)
Same(e, d) ==
    /\ e.layers = d.layers /\ e.kv = d.kv /\ e.rec = d.rec
    /\ e.captures = d.captures /\ e.panicked = d.panicked

(* A trie maps keys to nodes.                                               *)
LEMMA TriesIs ==
    ASSUME NEW T
    PROVE  T \in Tries => T \in [DOMAIN T -> Node] /\ DOMAIN T \subseteq Keys
BY DEF Tries

(* What maps keys to nodes is a trie.                                       *)
LEMMA TriesAre ==
    ASSUME NEW T, T \in [DOMAIN T -> Node], DOMAIN T \subseteq Keys
    PROVE  T \in Tries
<1>1. [DOMAIN T -> Node] \in {[K -> Node] : K \in SUBSET Keys}
  OBVIOUS
<1> QED
  BY <1>1 DEF Tries

(* The fields of the cache.                                                 *)
LEMMA CacheIs ==
    ASSUME NEW d \in Cache
    PROVE  /\ d.layers \in Models /\ d.trie \in Tries /\ d.path \in Seq(Keys) /\ d.kv \in Buffers
           /\ d.rec \in Keys /\ d.captures \in Schedules /\ d.bytes \in Int /\ d.clock \in Nat
           /\ d.panicked \in BOOLEAN
           /\ d.kv.buf \in Seq(Keys) /\ d.kv.off \in Nat /\ Len(d.kv.buf) \in Nat /\ Len(d.rec) \in Nat
           /\ d.trie \in [DOMAIN d.trie -> Node] /\ DOMAIN d.trie \subseteq Keys
<1>1. /\ d.layers \in Models /\ d.trie \in Tries /\ d.path \in Seq(Keys) /\ d.kv \in Buffers
      /\ d.rec \in Keys /\ d.captures \in Schedules /\ d.bytes \in Int /\ d.clock \in Nat
      /\ d.panicked \in BOOLEAN
  BY DEF Cache
<1>2. d.kv.buf \in Seq(Keys) /\ d.kv.off \in Nat
  BY <1>1 DEF Buffers
<1>3. Len(d.kv.buf) \in Nat /\ Len(d.rec) \in Nat
  BY <1>1, <1>2, LenIs
<1> QED
  BY <1>1, <1>2, <1>3, TriesIs

(* A model has a layer, and none but these two.                             *)
LEMMA LayersAre ==
    ASSUME NEW d \in Cache
    PROVE  /\ d.layers \in Seq({"kv", "rec"}) /\ d.layers # <<>> /\ Len(d.layers) \in Nat
           /\ DOMAIN d.layers = 1 .. Len(d.layers)
           /\ ToSet(d.layers) # {} /\ ToSet(d.layers) \subseteq {"kv", "rec"}
<1>1. d.layers \in Seq({"kv", "rec"}) /\ d.layers # <<>>
  BY CacheIs, ModelsAssumption
<1>2. Len(d.layers) \in Nat \ {0} /\ DOMAIN d.layers = 1 .. Len(d.layers)
  BY <1>1
<1>3. d.layers[1] \in ToSet(d.layers)
  BY <1>2 DEF ToSet
<1>4. \A i \in DOMAIN d.layers : d.layers[i] \in {"kv", "rec"}
  BY <1>1
<1>5. ToSet(d.layers) \subseteq {"kv", "rec"}
  BY <1>4 DEF ToSet
<1> QED
  BY <1>1, <1>2, <1>3, <1>5

WithTrie(d, T) == [d EXCEPT !.trie = T, !.bytes = Total(T)]

(* Another trie, its size counted, keeps the cache sound.                   *)
LEMMA TrieChange ==
    ASSUME NEW d, Sound(d), NEW T, Nodes(T, Len(d.kv.buf))
    PROVE  /\ Sound(WithTrie(d, T)) /\ Same(WithTrie(d, T), d)
           /\ WithTrie(d, T).trie = T /\ WithTrie(d, T).path = d.path
<1> DEFINE e == [d EXCEPT !.trie = T, !.bytes = Total(T)]
<1>1. d \in Cache
  BY DEF Sound
<1>2. T \in Tries /\ Total(T) \in Int
  BY TriesAre, TotalIs DEF Nodes, Tree, Table
<1>3. e \in Cache
  BY <1>1, <1>2 DEF Cache
<1>4. Same(e, d) /\ e.trie = T /\ e.path = d.path /\ e.bytes = Total(T)
  BY <1>1 DEF Cache, Same
<1>5. Sound(e)
  <2> HIDE DEF e
  <2> QED
    BY <1>3, <1>4 DEF Sound, Same
<1> QED
  BY <1>4, <1>5 DEF WithTrie

WithPath(d, p) == [d EXCEPT !.path = p]

(* Another path keeps the cache sound.                                      *)
LEMMA PathChange ==
    ASSUME NEW d, Sound(d), NEW p \in Seq(Keys)
    PROVE  /\ Sound(WithPath(d, p)) /\ Same(WithPath(d, p), d)
           /\ WithPath(d, p).trie = d.trie /\ WithPath(d, p).path = p
<1> DEFINE e == [d EXCEPT !.path = p]
<1>1. d \in Cache
  BY DEF Sound
<1>2. e \in Cache /\ Same(e, d) /\ e.trie = d.trie /\ e.path = p /\ e.bytes = d.bytes
  BY <1>1 DEF Cache, Same
<1>3. Sound(e)
  <2> HIDE DEF e
  <2> QED
    BY <1>2 DEF Sound, Same
<1> QED
  BY <1>2, <1>3 DEF WithPath

(* Parents and children depend on the keys alone.                           *)
LEMMA SameStart ==
    ASSUME NEW T, NEW U, DOMAIN U = DOMAIN T, NEW k
    PROVE  ParentOf(U, k) = ParentOf(T, k) /\ StartOffset(U, k) = StartOffset(T, k)
           /\ Children(U, k) = Children(T, k)
<1>1. \A j : ParentOf(U, j) = ParentOf(T, j)
  BY DEF ParentOf
<1> QED
  BY <1>1 DEF StartOffset, Children

(* A trie with the snapshots of another is as it is.                        *)
LEMMA SameNodes ==
    ASSUME NEW n \in Nat, NEW T, Nodes(T, n), NEW U \in [DOMAIN T -> Node],
           \A k \in DOMAIN T : U[k].kv = T[k].kv /\ U[k].rec = T[k].rec
    PROVE  Nodes(U, n) /\ Total(U) = Total(T)
<1>1. DOMAIN U = DOMAIN T /\ Table(U) /\ T \in [DOMAIN T -> Node] /\ IsFiniteSet(DOMAIN T) /\ U \in [DOMAIN T -> Node]
  BY DEF Nodes, Table
<1>2. ASSUME NEW k \in DOMAIN U PROVE NodeIs(U, k, n)
  BY <1>1, SameStart DEF Nodes, NodeIs
<1>3. Nodes(U, n)
  BY <1>1, <1>2 DEF Nodes
<1>4. \A k \in DOMAIN T : Weights(U)[k] = Weights(T)[k] /\ Weights(T)[k] \in Int
  BY <1>1, BytesIs DEF Weights, SnapshotBytes
<1>5. Total(U) = Total(T)
  BY <1>1, <1>4, SumSame DEF Total
<1> QED
  BY <1>3, <1>5

(* Touching a node changes nothing but its use.                             *)
LEMMA TouchIs ==
    ASSUME NEW d, Sound(d), NEW k \in DOMAIN d.trie, NEW e, e = Touch(d, k)
    PROVE  /\ Sound(e) /\ Same(e, d) /\ e.path = d.path /\ DOMAIN e.trie = DOMAIN d.trie
           /\ \A X : Held(d, X) => Held(e, X)
<1> DEFINE T == d.trie
           U == [T EXCEPT ![k].used = d.clock + 1]
<1>1. d \in Cache /\ T \in [DOMAIN T -> Node] /\ d.clock + 1 \in Nat /\ Len(d.kv.buf) \in Nat /\ DOMAIN T \subseteq Keys
  BY CacheIs DEF Sound
<1>2. e = [d EXCEPT !.trie = U, !.clock = d.clock + 1]
  BY <1>1 DEF Touch, Cache
<1>3. U \in [DOMAIN T -> Node] /\ \A j \in DOMAIN T : U[j].kv = T[j].kv /\ U[j].rec = T[j].rec
  <2>1. T[k] \in Node
    BY <1>1
  <2>2. [T[k] EXCEPT !.used = d.clock + 1] \in Node
    BY <1>1, <2>1 DEF Node
  <2>3. /\ [T[k] EXCEPT !.used = d.clock + 1].kv = T[k].kv
        /\ [T[k] EXCEPT !.used = d.clock + 1].rec = T[k].rec
    BY <2>1 DEF Node
  <2> QED
    BY <1>1, <2>2, <2>3
<1> HIDE DEF U
<1>4. Nodes(U, Len(d.kv.buf)) /\ Total(U) = Total(T) /\ DOMAIN U = DOMAIN T
  BY <1>1, <1>3, SameNodes DEF Sound
<1>5. U \in Tries
  BY <1>1, <1>3, <1>4, TriesAre
<1>6. e \in Cache /\ Same(e, d) /\ e.trie = U /\ e.path = d.path /\ e.bytes = d.bytes
  BY <1>1, <1>2, <1>5 DEF Cache, Same
<1>7. Sound(e)
  BY <1>4, <1>6 DEF Sound, Same
<1>8. \A X : Held(d, X) => Held(e, X)
  BY <1>3, <1>4, <1>6 DEF Held, Filled, Same
<1> QED
  BY <1>4, <1>6, <1>7, <1>8

(* The nodes of a trie, one by one.                                         *)
LEMMA NodesIs ==
    ASSUME NEW n \in Nat, NEW T, Nodes(T, n)
    PROVE  /\ Table(T) /\ Tree(DOMAIN T)
           /\ DOMAIN T \subseteq Keys /\ Root \in DOMAIN T
           /\ \A k \in DOMAIN T : NodeIs(T, k, n) /\ T[k] \in Node /\ SnapshotBytes(T[k]) \in Nat
           /\ Total(T) \in Int
<1>1. /\ Table(T) /\ Tree(DOMAIN T)
      /\ DOMAIN T \subseteq Keys /\ Root \in DOMAIN T
      /\ \A k \in DOMAIN T : NodeIs(T, k, n) /\ T[k] \in Node
  BY DEF Nodes, Tree, Table
<1> QED
  BY <1>1, TotalIs, BytesIs

(* U is T with a node at k in the place of that there, and a new one at p.  *)
IsPutTwice(U, T, k, child, p, parent) ==
    /\ DOMAIN U = DOMAIN T \cup {p} /\ Table(U)
    /\ U[k] = child /\ U[p] = parent /\ \A j \in DOMAIN T \ {k} : U[j] = T[j]
    /\ Total(U) = Total(T) - SnapshotBytes(T[k]) + SnapshotBytes(parent) + SnapshotBytes(child)

(* The two nodes that a split puts in: what the trie holds then, and its    *)
(* size.                                                                    *)
LEMMA PutTwice ==
    ASSUME NEW T, Table(T), NEW k \in DOMAIN T, NEW child \in Node, NEW p, p \notin DOMAIN T, NEW parent \in Node
    PROVE  IsPutTwice(Put(Put(T, k, child), p, parent), T, k, child, p, parent)
<1> DEFINE V == Put(T, k, child)
           U == Put(V, p, parent)
<1>1. /\ DOMAIN V = DOMAIN T \cup {k} /\ Table(V)
      /\ V[k] = child /\ \A j \in DOMAIN T \ {k} : V[j] = T[j]
      /\ Total(V) = Total(T) - BytesAt(T, k) + SnapshotBytes(child)
      /\ Total(T) \in Int /\ BytesAt(T, k) \in Nat /\ SnapshotBytes(child) \in Nat
  BY PutIs DEF IsPut
<1>2. DOMAIN V = DOMAIN T /\ BytesAt(T, k) = SnapshotBytes(T[k]) /\ BytesAt(V, p) = 0
  <2>1. DOMAIN V = DOMAIN T
    BY <1>1
  <2> HIDE DEF V
  <2> QED
    BY <2>1 DEF BytesAt
<1> HIDE DEF V
<1>3. /\ DOMAIN U = DOMAIN V \cup {p} /\ Table(U)
      /\ U[p] = parent /\ \A j \in DOMAIN V \ {p} : U[j] = V[j]
      /\ Total(U) = Total(V) - BytesAt(V, p) + SnapshotBytes(parent)
      /\ SnapshotBytes(parent) \in Nat
  <2>1. Table(V)
    BY <1>1
  <2>2. IsPut(U, V, p, parent)
    BY <2>1, PutIs
  <2> QED
    BY <2>2 DEF IsPut
<1> HIDE DEF U
<1>4. Total(U) = Total(T) - SnapshotBytes(T[k]) + SnapshotBytes(parent) + SnapshotBytes(child)
  BY <1>1, <1>2, <1>3
<1>5. /\ DOMAIN U = DOMAIN T \cup {p} /\ Table(U)
      /\ U[k] = child /\ U[p] = parent /\ \A j \in DOMAIN T \ {k} : U[j] = T[j]
  <2>1. p # k /\ \A j \in DOMAIN T : U[j] = V[j]
    BY <1>2, <1>3
  <2> QED
    BY <1>1, <1>2, <1>3, <2>1
<1> QED
  BY <1>4, <1>5 DEF U, V, IsPutTwice

(* An edge is divided, and its snapshot with it.                            *)
IsSplit(U, T, k, at, p) ==
    /\ Table(U) /\ DOMAIN U = DOMAIN T \cup {p} /\ \A j \in DOMAIN T \ {k} : U[j] = T[j]
    /\ U[p].kv = SplitHead(T[k].kv, at) /\ U[p].rec = <<>>
    /\ U[k].kv = SplitTail(T[k].kv, at) /\ U[k].rec = T[k].rec

(* The snapshots of a split node span the two edges.                        *)
LEMMA SplitNodes ==
    ASSUME NEW n \in Nat, NEW T, Nodes(T, n), NEW k \in DOMAIN T, NEW at \in Nat,
           StartOffset(T, k) < at, at < Len(k), NEW p, p = SubSeq(k, 1, at),
           NEW U, IsSplit(U, T, k, at, p)
    PROVE  Nodes(U, n) /\ (Filled(T, {}) => Filled(U, {}))
<1>0. /\ Table(U) /\ DOMAIN U = DOMAIN T \cup {p} /\ \A j \in DOMAIN T \ {k} : U[j] = T[j]
      /\ U[p].kv = SplitHead(T[k].kv, at) /\ U[p].rec = <<>>
      /\ U[k].kv = SplitTail(T[k].kv, at) /\ U[k].rec = T[k].rec
  BY DEF IsSplit
<1>1. /\ Tree(DOMAIN T)
      /\ T[k].kv \in Snapshot /\ NodeIs(T, k, n)
      /\ StartOffset(T, k) \in Nat /\ Len(k) \in Nat
  <2>1. /\ Table(T) /\ Tree(DOMAIN T)
        /\ DOMAIN T \subseteq Keys /\ Root \in DOMAIN T
        /\ T[k] \in Node /\ NodeIs(T, k, n)
    BY NodesIs
  <2>2. T[k].kv \in Snapshot
    BY <2>1 DEF Node
  <2> QED
    BY <2>1, <2>2, StartIs, LenIs
<1>2. /\ Fine(U[p].kv, n) /\ Spans(U[p].kv, StartOffset(T, k), at)
      /\ Fine(U[k].kv, n) /\ Spans(U[k].kv, at, Len(k))
      /\ T[k].kv # NoSnapshot => U[p].kv # NoSnapshot /\ U[k].kv # NoSnapshot
  <2>1. Fine(T[k].kv, n) /\ Spans(T[k].kv, StartOffset(T, k), Len(k))
    BY <1>1 DEF NodeIs
  <2> QED
    BY <1>0, <1>1, <2>1, SplitIs
<1>5. /\ p \in Keys \ DOMAIN T /\ Len(p) = at /\ IsStrictPrefix(p, k) /\ k # Root /\ p # Root
      /\ Tree(DOMAIN U)
      /\ StartOffset(U, p) = StartOffset(T, k) /\ StartOffset(U, k) = at
      /\ \A j \in DOMAIN T \ {k} : StartOffset(U, j) = StartOffset(T, j)
  <2>1. EdgeCut(U, T, k, at, p)
    BY <1>0, <1>1, SplitTree
  <2> QED
    BY <2>1 DEF EdgeCut
<1>8. ASSUME NEW j \in DOMAIN U PROVE NodeIs(U, j, n)
  <2>1. CASE j = p
    BY <1>0, <1>2, <1>5, <2>1 DEF NodeIs
  <2>2. CASE j = k
    BY <1>0, <1>1, <1>2, <1>5, <2>2 DEF NodeIs
  <2>3. CASE j # p /\ j # k
    <3>1. j \in DOMAIN T /\ U[j] = T[j] /\ StartOffset(U, j) = StartOffset(T, j)
      BY <1>0, <1>5, <2>3
    <3>2. NodeIs(T, j, n)
      BY <3>1, NodesIs
    <3> QED
      BY <3>1, <3>2 DEF NodeIs
  <2> QED
    BY <2>1, <2>2, <2>3
<1>9. Nodes(U, n)
  BY <1>0, <1>5, <1>8 DEF Nodes
<1>10. Filled(T, {}) => Filled(U, {})
  <2> SUFFICES ASSUME \A j \in DOMAIN T \ {Root} : T[j].kv # NoSnapshot, NEW j \in DOMAIN U \ {Root}
               PROVE  U[j].kv # NoSnapshot
    BY DEF Filled
  <2>1. T[k].kv # NoSnapshot
    BY <1>5
  <2>2. CASE j = p \/ j = k
    BY <1>2, <2>1, <2>2
  <2>3. CASE j # p /\ j # k
    <3>1. j \in DOMAIN T \ {Root} /\ U[j] = T[j]
      BY <1>0, <2>3
    <3> QED
      BY <3>1
  <2> QED
    BY <2>2, <2>3
<1> QED
  BY <1>9, <1>10

(* What splitNode makes of a trie.                                          *)
SplitTrie(T, k, at) ==
    Put(Put(T, k, [T[k] EXCEPT !.kv = SplitTail(T[k].kv, at)]), SubSeq(k, 1, at),
        [NewNode(T[k].used) EXCEPT !.kv = SplitHead(T[k].kv, at)])

SplitResult(U, T, k, at, n) ==
    /\ Nodes(U, n)
    /\ DOMAIN U = DOMAIN T \cup {SubSeq(k, 1, at)}
    /\ EdgeCut(U, T, k, at, SubSeq(k, 1, at))
    /\ Filled(T, {}) => Filled(U, {})
    /\ Total(U) = Total(T) - SnapshotBytes(T[k])
          + SnapshotBytes([NewNode(T[k].used) EXCEPT !.kv = SplitHead(T[k].kv, at)])
          + SnapshotBytes([T[k] EXCEPT !.kv = SplitTail(T[k].kv, at)])

(* The trie of splitNode.                                                   *)
LEMMA SplitTrieIs ==
    ASSUME NEW n \in Nat, NEW T, Nodes(T, n), NEW k \in DOMAIN T, NEW at \in Nat,
           StartOffset(T, k) < at, at < Len(k)
    PROVE  SplitResult(SplitTrie(T, k, at), T, k, at, n)
<1> DEFINE parent == [NewNode(T[k].used) EXCEPT !.kv = SplitHead(T[k].kv, at)]
           child == [T[k] EXCEPT !.kv = SplitTail(T[k].kv, at)]
           p == SubSeq(k, 1, at)
           U == SplitTrie(T, k, at)
<1>1. /\ Table(T) /\ Tree(DOMAIN T) /\ NodeIs(T, k, n) /\ T[k] \in Node
      /\ DOMAIN T \subseteq Keys /\ Root \in DOMAIN T /\ k \in Keys
  BY NodesIs
<1>2. Len(k) \in Nat /\ StartOffset(T, k) \in Nat
  <2>1. Len(k) \in Nat
    BY <1>1, LenIs
  <2> QED
    BY <1>1, <2>1, StartIs
<1>3. U = Put(Put(T, k, child), p, parent)
  BY DEF SplitTrie
<1>4. DOMAIN U = DOMAIN T \cup {p}
  BY <1>3 DEF Put
<1> HIDE DEF U
<1>5. EdgeCut(U, T, k, at, p)
  BY <1>1, <1>4, SplitTree
<1>6. p \notin DOMAIN T
  BY <1>5 DEF EdgeCut
<1>7. /\ parent \in Node /\ child \in Node
      /\ parent.kv = SplitHead(T[k].kv, at) /\ parent.rec = <<>>
      /\ child.kv = SplitTail(T[k].kv, at) /\ child.rec = T[k].rec
  <2>1. Fine(T[k].kv, n) /\ Spans(T[k].kv, StartOffset(T, k), Len(k))
    BY <1>1 DEF NodeIs
  <2>2. Fine(SplitHead(T[k].kv, at), n) /\ Fine(SplitTail(T[k].kv, at), n)
    BY <1>2, <2>1, SplitIs
  <2>3. SplitHead(T[k].kv, at) \in Snapshot /\ SplitTail(T[k].kv, at) \in Snapshot
    BY <2>2 DEF Fine
  <2>4. T[k].used \in Nat
    BY <1>1 DEF Node
  <2>5. NewNode(T[k].used) \in Node /\ NewNode(T[k].used).rec = <<>>
    BY <2>4, NewNodeIs DEF NewNode
  <2> QED
    BY <1>1, <2>3, <2>5 DEF Node
<1> HIDE DEF parent, child, p
<1>8. IsPutTwice(U, T, k, child, p, parent)
  BY <1>1, <1>3, <1>6, <1>7, PutTwice
<1>9. IsSplit(U, T, k, at, p)
  BY <1>7, <1>8 DEF IsPutTwice, IsSplit
<1>10. Nodes(U, n) /\ (Filled(T, {}) => Filled(U, {}))
  <2>1. p = SubSeq(k, 1, at)
    BY DEF p
  <2> QED
    BY <1>9, <2>1, SplitNodes, ZenonT(30)
<1>11. Total(U) = Total(T) - SnapshotBytes(T[k]) + SnapshotBytes(parent) + SnapshotBytes(child)
  BY <1>8 DEF IsPutTwice
<1> QED
  BY <1>4, <1>5, <1>10, <1>11 DEF U, p, parent, child, SplitResult

(* A leaf is taken out.                                                     *)
DropResult(U, T, k, n) ==
    /\ Nodes(U, n) /\ DOMAIN U = DOMAIN T \ {k}
    /\ Filled(T, {}) => Filled(U, {})
    /\ Total(U) = Total(T) - SnapshotBytes(T[k])

(* The trie of removeNode.                                                  *)
LEMMA DropNodes ==
    ASSUME NEW n \in Nat, NEW T, Nodes(T, n), NEW k \in DOMAIN T, k # Root, Children(T, k) = {}
    PROVE  DropResult(Drop(T, k), T, k, n)
<1> DEFINE U == Drop(T, k)
<1>1. /\ Table(T) /\ Tree(DOMAIN T)
  BY NodesIs
<1>2. /\ DOMAIN U = DOMAIN T \ {k} /\ Table(U)
      /\ \A j \in DOMAIN U : U[j] = T[j]
      /\ Total(U) = Total(T) - SnapshotBytes(T[k])
  BY <1>1, DropIs
<1> HIDE DEF U
<1>3. Tree(DOMAIN U) /\ \A j \in DOMAIN U : StartOffset(U, j) = StartOffset(T, j)
  BY <1>1, <1>2, DropTree
<1>4. ASSUME NEW j \in DOMAIN U PROVE NodeIs(U, j, n)
  <2>1. NodeIs(T, j, n) /\ U[j] = T[j] /\ StartOffset(U, j) = StartOffset(T, j)
    BY <1>2, <1>3, NodesIs
  <2> QED
    BY <2>1 DEF NodeIs
<1>5. Nodes(U, n)
  BY <1>2, <1>3, <1>4 DEF Nodes
<1>6. Filled(T, {}) => Filled(U, {})
  BY <1>2 DEF Filled
<1>7. DropResult(U, T, k, n)
  BY <1>2, <1>5, <1>6 DEF DropResult
<1> QED
  BY <1>7 DEF U

(* A node and its only child become one.                                    *)
IsMerged(U, T, k, child, new) ==
    /\ DOMAIN U = DOMAIN T \ {k} /\ Table(U)
    /\ U[child] = new /\ \A j \in DOMAIN U \ {child} : U[j] = T[j]
    /\ Total(U) = Total(T) - SnapshotBytes(T[k]) - SnapshotBytes(T[child]) + SnapshotBytes(new)

(* A node taken out and its child replaced: what the trie holds then, and   *)
(* its size.                                                                *)
LEMMA PutInPlace ==
    ASSUME NEW T, Table(T), NEW k \in DOMAIN T, NEW child \in DOMAIN T, child # k, NEW new \in Node
    PROVE  IsMerged(Put(Drop(T, k), child, new), T, k, child, new)
<1> DEFINE V == Drop(T, k)
           U == Put(V, child, new)
<1>1. /\ DOMAIN V = DOMAIN T \ {k} /\ Table(V)
      /\ \A j \in DOMAIN V : V[j] = T[j]
      /\ Total(V) = Total(T) - SnapshotBytes(T[k])
      /\ Total(T) \in Int /\ SnapshotBytes(T[k]) \in Nat
  BY DropIs
<1> HIDE DEF V
<1>2. BytesAt(V, child) = SnapshotBytes(T[child])
  BY <1>1 DEF BytesAt
<1>3. /\ DOMAIN U = DOMAIN V \cup {child} /\ Table(U)
      /\ U[child] = new /\ \A j \in DOMAIN V \ {child} : U[j] = V[j]
      /\ Total(U) = Total(V) - BytesAt(V, child) + SnapshotBytes(new)
      /\ BytesAt(V, child) \in Nat /\ SnapshotBytes(new) \in Nat
  <2>1. Table(V)
    BY <1>1
  <2>2. IsPut(U, V, child, new)
    BY <2>1, PutIs
  <2> QED
    BY <2>2 DEF IsPut
<1> HIDE DEF U
<1>4. Total(U) = Total(T) - SnapshotBytes(T[k]) - SnapshotBytes(T[child]) + SnapshotBytes(new)
  BY <1>1, <1>2, <1>3
<1>5. /\ DOMAIN U = DOMAIN T \ {k} /\ Table(U)
      /\ U[child] = new /\ \A j \in DOMAIN U \ {child} : U[j] = T[j]
  BY <1>1, <1>3
<1>6. IsMerged(U, T, k, child, new)
  BY <1>4, <1>5 DEF IsMerged
<1> QED
  BY <1>6 DEF U, V

(* A merged snapshot spans the merged edge.                                 *)
LEMMA MergeNodes ==
    ASSUME NEW n \in Nat, NEW T, Nodes(T, n), NEW k \in DOMAIN T, k # Root,
           NEW child, Children(T, k) = {child}, NEW new, Fine(new.kv, n),
           Spans(new.kv, StartOffset(T, k), Len(child)), new.rec = T[child].rec,
           NEW U, IsMerged(U, T, k, child, new)
    PROVE  Nodes(U, n)
<1>1. Tree(DOMAIN T)
  BY NodesIs
<1>2. child \in DOMAIN T /\ child \in Children(T, k)
  BY DEF Children
<1>3. /\ Table(U) /\ DOMAIN U = DOMAIN T \ {k}
      /\ U[child] = new /\ \A j \in DOMAIN U \ {child} : U[j] = T[j]
  BY DEF IsMerged
<1>4. /\ Tree(DOMAIN U)
      /\ \A j \in DOMAIN U : StartOffset(U, j) = IF j \in Children(T, k) THEN StartOffset(T, k)
                                                 ELSE StartOffset(T, j)
  <2>1. \A x, y \in Children(T, k) : x = y
    OBVIOUS
  <2> QED
    BY <1>1, <1>3, <2>1, DropTree
<1>5. ASSUME NEW j \in DOMAIN U PROVE NodeIs(U, j, n)
  <2>1. CASE j = child
    <3>1. StartOffset(U, child) = StartOffset(T, k)
      BY <1>2, <1>4, <2>1
    <3>2. NodeIs(T, child, n)
      BY <1>2, NodesIs
    <3> QED
      BY <1>3, <2>1, <3>1, <3>2 DEF NodeIs
  <2>2. CASE j # child
    <3>1. StartOffset(U, j) = StartOffset(T, j) /\ U[j] = T[j] /\ j \in DOMAIN T
      BY <1>3, <1>4, <2>2
    <3>2. NodeIs(T, j, n)
      BY <3>1, NodesIs
    <3> QED
      BY <3>1, <3>2 DEF NodeIs
  <2> QED
    BY <2>1, <2>2
<1> QED
  BY <1>3, <1>4, <1>5 DEF Nodes

(* What mergeWithChild makes of a trie.                                     *)
MergedNode(d, T, k, child) ==
    [kv   |-> MergeKv(d, T[k].kv, T[child].kv),
     rec  |-> T[child].rec,
     used |-> Max({T[k].used, T[child].used}),
     user |-> T[child].user]

MergeResult(U, d, T, k, child, n) ==
    /\ Nodes(U, n) /\ DOMAIN U = DOMAIN T \ {k}
    /\ Filled(T, {}) => Filled(U, {})
    /\ Total(U) = Total(T) - SnapshotBytes(T[k]) - SnapshotBytes(T[child])
                  + SnapshotBytes(MergedNode(d, T, k, child))

(* The trie of mergeWithChild.                                              *)
LEMMA MergeTrieIs ==
    ASSUME NEW d, d.kv.buf \in Seq(Keys), NEW n \in Nat, n = Len(d.kv.buf),
           NEW T, Nodes(T, n), NEW k \in DOMAIN T, k # Root, NEW child, Children(T, k) = {child}
    PROVE  MergeResult(Put(Drop(T, k), child, MergedNode(d, T, k, child)), d, T, k, child, n)
<1> DEFINE new == MergedNode(d, T, k, child)
           U == Put(Drop(T, k), child, new)
<1>1. /\ Table(T) /\ Tree(DOMAIN T) /\ DOMAIN T \subseteq Keys /\ Root \in DOMAIN T
      /\ T[k] \in Node /\ NodeIs(T, k, n)
  BY NodesIs
<1>2. child \in DOMAIN T /\ child # k /\ child # Root /\ IsStrictPrefix(k, child) /\ ParentOf(T, child) = k
  <2>1. child \in Children(T, k)
    OBVIOUS
  <2>2. ParentOf(T, child) = k
    BY <2>1 DEF Children
  <2> QED
    BY <1>1, <2>1, <2>2, ChildIs
<1>3. T[child] \in Node /\ NodeIs(T, child, n)
  BY <1>2, NodesIs
<1>4. /\ StartOffset(T, k) \in Nat /\ StartOffset(T, k) < Len(k) /\ Len(k) \in Nat
      /\ StartOffset(T, child) = Len(k) /\ Len(k) < Len(child) /\ Len(child) \in Nat
  <2>1. k \in Keys /\ child \in Keys
    BY <1>1, <1>2
  <2>2. Len(k) \in Nat /\ Len(child) \in Nat /\ Len(k) < Len(child)
    BY <1>2, <2>1, LenIs, StrictIs
  <2>3. StartOffset(T, k) \in Nat /\ StartOffset(T, k) < Len(k)
    BY <1>1, <2>1, ParentIs
  <2> QED
    BY <1>2, <2>2, <2>3 DEF StartOffset
<1>5. /\ Fine(new.kv, n) /\ Spans(new.kv, StartOffset(T, k), Len(child))
      /\ T[k].kv # NoSnapshot /\ T[child].kv # NoSnapshot => new.kv # NoSnapshot
  <2>1. new.kv = MergeKv(d, T[k].kv, T[child].kv)
    BY DEF MergedNode
  <2> HIDE DEF new
  <2>2. /\ Fine(T[k].kv, n) /\ Spans(T[k].kv, StartOffset(T, k), Len(k))
        /\ Fine(T[child].kv, n) /\ Spans(T[child].kv, Len(k), Len(child))
    BY <1>1, <1>3, <1>4 DEF NodeIs
  <2>3. /\ Fine(MergeKv(d, T[k].kv, T[child].kv), n)
        /\ Spans(MergeKv(d, T[k].kv, T[child].kv), StartOffset(T, k), Len(child))
        /\ T[k].kv # NoSnapshot /\ T[child].kv # NoSnapshot => MergeKv(d, T[k].kv, T[child].kv) # NoSnapshot
    BY <1>4, <2>2, MergeIs
  <2> QED
    BY <2>1, <2>3
<1>6. new \in Node /\ new.rec = T[child].rec
  <2>1. T[k].used \in Nat /\ T[child].used \in Nat /\ T[child].rec \in Keys /\ T[child].user \in BOOLEAN
    BY <1>1, <1>3 DEF Node
  <2>2. Max({T[k].used, T[child].used}) \in Nat
    BY <2>1, MaxOfTwo
  <2>3. new.kv \in Snapshot
    BY <1>5 DEF Fine
  <2> QED
    BY <2>1, <2>2, <2>3 DEF MergedNode, Node
<1> HIDE DEF new
<1>7. IsMerged(U, T, k, child, new)
  BY <1>1, <1>2, <1>6, PutInPlace
<1> HIDE DEF U
<1>8. Nodes(U, n)
  BY <1>5, <1>6, <1>7, MergeNodes
<1>9. DOMAIN U = DOMAIN T \ {k} /\ U[child] = new /\ \A j \in DOMAIN U \ {child} : U[j] = T[j]
  BY <1>7 DEF IsMerged
<1>10. Filled(T, {}) => Filled(U, {})
  <2> SUFFICES ASSUME Filled(T, {}), NEW j \in DOMAIN U, j # Root PROVE U[j].kv # NoSnapshot
    BY DEF Filled
  <2>1. T[k].kv # NoSnapshot /\ T[child].kv # NoSnapshot /\ T[j].kv # NoSnapshot
    BY <1>2, <1>9 DEF Filled
  <2> QED
    BY <1>5, <1>9, <2>1
<1>11. MergeResult(U, d, T, k, child, n)
  BY <1>7, <1>8, <1>9, <1>10 DEF MergeResult, IsMerged, new
<1> QED
  BY <1>11 DEF U, new

-----------------------------------------------------------------------------
(* The operations on the trie.                                              *)

(* splitNode inside an edge keeps the cache sound, and does not panic.      *)
LEMMA SplitNodeIs ==
    ASSUME NEW d, Sound(d), NEW k \in DOMAIN d.trie, NEW at \in Nat,
           StartOffset(d.trie, k) < at, at < Len(k)
    PROVE  /\ Sound(SplitNode(d, k, at)) /\ Same(SplitNode(d, k, at), d)
           /\ SplitNode(d, k, at).path = d.path
           /\ SplitNode(d, k, at).trie = SplitTrie(d.trie, k, at)
           /\ Held(d, {}) => Held(SplitNode(d, k, at), {})
<1> DEFINE T == d.trie
           n == Len(d.kv.buf)
           U == SplitTrie(T, k, at)
           e == SplitNode(d, k, at)
<1>1. d \in Cache /\ Nodes(T, n) /\ n \in Nat /\ d.bytes = Total(T)
  BY CacheIs DEF Sound
<1>2. StartOffset(T, k) \in Nat /\ Len(k) \in Nat
  <2>1. DOMAIN T \subseteq Keys /\ Root \in DOMAIN T
    BY <1>1, NodesIs
  <2>2. k \in Keys
    BY <2>1
  <2> HIDE DEF T
  <2> QED
    BY <2>1, <2>2, StartIs, LenIs
<1>0. SplitResult(U, T, k, at, n)
  <2> HIDE DEF T, n
  <2>1. k \in DOMAIN T /\ StartOffset(T, k) < at
    BY DEF T
  <2> QED
    BY <1>1, <2>1, SplitTrieIs
<1>3. /\ Nodes(U, n)
      /\ Filled(T, {}) => Filled(U, {})
      /\ Total(U) = Total(T) - SnapshotBytes(T[k])
                 + SnapshotBytes([NewNode(T[k].used) EXCEPT !.kv = SplitHead(T[k].kv, at)])
                 + SnapshotBytes([T[k] EXCEPT !.kv = SplitTail(T[k].kv, at)])
  BY <1>0 DEF SplitResult
<1>4. e = WithTrie(d, U)
  <2>1. ~(at <= StartOffset(T, k) \/ at >= Len(k))
    BY <1>2
  <2> QED
    BY <1>1, <1>3, <2>1 DEF SplitNode, SplitTrie, Cache, WithTrie
<1> HIDE DEF U, e
<1>5. Sound(e) /\ Same(e, d) /\ e.trie = U /\ e.path = d.path
  BY <1>1, <1>3, <1>4, TrieChange
<1>6. Held(d, {}) => Held(e, {})
  BY <1>3, <1>5 DEF Held, Same
<1> QED
  BY <1>5, <1>6 DEF U, e

(* A cache between two operations, and what operations on the trie keep.    *)
Ready(d) == Sound(d) /\ PathTo(DOMAIN d.trie, d.path) /\ Held(d, {})
Follows(e, d) == Ready(e) /\ Same(e, d) /\ Last(e.path) = Last(d.path)

(* Every node of a path but the last has a child on it.                     *)
LEMMA PathChild ==
    ASSUME NEW T, Tree(DOMAIN T), NEW p, PathTo(DOMAIN T, p), NEW i \in DOMAIN p, p[i] # Last(p)
    PROVE  \E j \in DOMAIN p : p[j] \in Children(T, p[i])
<1>1. DOMAIN T \subseteq Keys /\ Root \in DOMAIN T
  BY DEF Tree
<1>2. Len(p) \in Nat \ {0} /\ DOMAIN p = 1 .. Len(p) /\ Last(p) = p[Len(p)]
  BY <1>1, PathIs
<1>3. i + 1 \in DOMAIN p /\ i + 1 # 1 /\ (i + 1) - 1 = i
  BY <1>2
<1>4. p[i + 1] \in Children(T, p[(i + 1) - 1])
  BY <1>3, PathStart
<1> QED
  BY <1>3, <1>4

(* A node off the path may go.                                              *)
LEMMA PathDrop ==
    ASSUME NEW K, NEW p, PathTo(K, p), NEW k, k \notin ToSet(p)
    PROVE  PathTo(K \ {k}, p)
<1>1. p \in Seq(K) /\ p # <<>> /\ ToSet(p) = {o \in K : IsPrefix(o, Last(p))}
      /\ \A i, j \in DOMAIN p : i < j => Len(p[i]) < Len(p[j])
  BY DEF PathTo
<1>2. Len(p) \in Nat /\ DOMAIN p = 1 .. Len(p) /\ \A i \in DOMAIN p : p[i] \in K \ {k}
  BY <1>1 DEF ToSet
<1>3. p \in Seq(K \ {k})
  BY <1>1, <1>2
<1> QED
  BY <1>1, <1>3 DEF PathTo

(* A cache that is ready, field by field.                                   *)
LEMMA ReadyIs ==
    ASSUME NEW d, Ready(d)
    PROVE  /\ Sound(d) /\ PathTo(DOMAIN d.trie, d.path) /\ Held(d, {}) /\ d \in Cache
           /\ Nodes(d.trie, Len(d.kv.buf)) /\ Len(d.kv.buf) \in Nat /\ d.kv.buf \in Seq(Keys)
           /\ d.bytes = Total(d.trie)
           /\ Table(d.trie) /\ Tree(DOMAIN d.trie) /\ DOMAIN d.trie \subseteq Keys /\ Root \in DOMAIN d.trie
           /\ Last(d.path) \in DOMAIN d.trie /\ Last(d.path) \in Keys
<1>1. Sound(d) /\ PathTo(DOMAIN d.trie, d.path) /\ Held(d, {})
  BY DEF Ready
<1>2. /\ d \in Cache /\ Nodes(d.trie, Len(d.kv.buf)) /\ Len(d.kv.buf) \in Nat /\ d.kv.buf \in Seq(Keys)
      /\ d.bytes = Total(d.trie)
  BY <1>1, CacheIs DEF Sound
<1>3. Table(d.trie) /\ Tree(DOMAIN d.trie) /\ DOMAIN d.trie \subseteq Keys /\ Root \in DOMAIN d.trie
  BY <1>2, NodesIs
<1>4. Last(d.path) \in DOMAIN d.trie
  BY <1>1, <1>3, PathIs
<1> QED
  BY <1>1, <1>2, <1>3, <1>4

(* A leaf that is not the end of the path may be removed.                   *)
LEMMA RemoveNodeIs ==
    ASSUME NEW d, Ready(d), NEW k \in DOMAIN d.trie, k # Root, k # Last(d.path), Children(d.trie, k) = {}
    PROVE  Follows(RemoveNode(d, k), d)
<1> DEFINE T == d.trie
           U == Drop(T, k)
           e == RemoveNode(d, k)
           n == Len(d.kv.buf)
<1>1. /\ Sound(d) /\ PathTo(DOMAIN T, d.path) /\ Held(d, {}) /\ d \in Cache
      /\ Nodes(T, n) /\ n \in Nat /\ d.bytes = Total(T) /\ Tree(DOMAIN T)
  BY ReadyIs
<1>2. DropResult(U, T, k, n)
  <2> HIDE DEF n
  <2> QED
    BY <1>1, DropNodes
<1>3. e = WithTrie(d, U)
  BY <1>1, <1>2 DEF RemoveNode, DropResult, WithTrie, Cache
<1> HIDE DEF U, e
<1>4. Nodes(U, n) /\ DOMAIN U = DOMAIN T \ {k} /\ (Filled(T, {}) => Filled(U, {}))
  BY <1>2 DEF DropResult
<1>5. Sound(e) /\ Same(e, d) /\ e.trie = U /\ e.path = d.path
  BY <1>1, <1>3, <1>4, TrieChange
<1>6. PathTo(DOMAIN T \ {k}, d.path)
  <2>1. k \notin ToSet(d.path)
    <3> SUFFICES ASSUME NEW i \in DOMAIN d.path, d.path[i] = k PROVE FALSE
      BY DEF ToSet
    <3>1. \E j \in DOMAIN d.path : d.path[j] \in Children(T, d.path[i])
      BY <1>1, PathChild
    <3> QED
      BY <3>1
  <2> QED
    BY <1>1, <2>1, PathDrop
<1>7. Held(e, {})
  BY <1>1, <1>4, <1>5 DEF Held, Same
<1> QED
  BY <1>4, <1>5, <1>6, <1>7 DEF Follows, Ready, e

(* A node with one child that is not the end of the path may be merged with *)
(* it.                                                                      *)
LEMMA MergeWithChildIs ==
    ASSUME NEW d, Ready(d), NEW k \in DOMAIN d.trie, k # Root, k # Last(d.path),
           Cardinality(Children(d.trie, k)) = 1
    PROVE  Follows(MergeWithChild(d, k), d)
<1> DEFINE T == d.trie
           n == Len(d.kv.buf)
           p == d.path
           child == CHOOSE x \in Children(T, k) : TRUE
           U == Put(Drop(T, k), child, MergedNode(d, T, k, child))
           q == IF Contains(p, child) /\ Contains(p, k)
                THEN RemoveAt(p, CHOOSE i \in DOMAIN p : p[i] = k)
                ELSE [i \in DOMAIN p |-> IF p[i] = k THEN child ELSE p[i]]
           e == MergeWithChild(d, k)
<1>1. /\ Sound(d) /\ PathTo(DOMAIN T, p) /\ Held(d, {}) /\ d \in Cache
      /\ Nodes(T, n) /\ n \in Nat /\ d.bytes = Total(T) /\ Tree(DOMAIN T) /\ d.kv.buf \in Seq(Keys)
      /\ DOMAIN T \subseteq Keys /\ Root \in DOMAIN T
  BY ReadyIs
<1>2. Children(T, k) = {child}
  <2>1. IsFiniteSet(Children(T, k))
    <3>1. IsFiniteSet(DOMAIN T) /\ Children(T, k) \subseteq DOMAIN T
      BY <1>1 DEF Tree, Children
    <3> QED
      BY <3>1, FS_Subset
  <2>2. \E x : Children(T, k) = {x}
    BY <2>1, FS_Singleton
  <2> QED
    BY <2>2
<1>3. e = WithPath(WithTrie(d, U), q)
  <2>1. MergeResult(U, d, T, k, child, n)
    <3> HIDE DEF T, n, child
    <3>1. k \in DOMAIN T /\ n = Len(d.kv.buf)
      BY DEF T, n
    <3> QED
      BY <1>1, <1>2, <3>1, MergeTrieIs
  <2>2. Total(U) = Total(T) - SnapshotBytes(T[k]) - SnapshotBytes(T[child]) + SnapshotBytes(MergedNode(d, T, k, child))
    BY <2>1 DEF MergeResult
  <2>3. e = [d EXCEPT !.trie = U, !.path = q,
                !.bytes = d.bytes - SnapshotBytes(T[k]) - SnapshotBytes(T[child]) + SnapshotBytes(MergedNode(d, T, k, child))]
    <3> HIDE DEF child
    <3> QED
      BY <1>1 DEF MergeWithChild, MergedNode, Cache, child
  <2> HIDE DEF U, q, e
  <2> QED
    BY <1>1, <2>2, <2>3 DEF WithPath, WithTrie, Cache
<1>4. Nodes(U, n) /\ DOMAIN U = DOMAIN T \ {k} /\ (Filled(T, {}) => Filled(U, {}))
  <2>1. MergeResult(U, d, T, k, child, n)
    <3> HIDE DEF T, n, child
    <3>1. k \in DOMAIN T /\ n = Len(d.kv.buf)
      BY DEF T, n
    <3> QED
      BY <1>1, <1>2, <3>1, MergeTrieIs
  <2> QED
    BY <2>1 DEF MergeResult
<1>5. PathTo(DOMAIN T \ {k}, q) /\ Last(q) = Last(p)
  <2> HIDE DEF child
  <2>1. CASE \E i \in DOMAIN p : p[i] = k
    <3>1. PICK i \in DOMAIN p : p[i] = k
      BY <2>1
    <3>2. Len(p) \in Nat /\ DOMAIN p = 1 .. Len(p) /\ Last(p) = p[Len(p)] /\ p[1] = Root
          /\ \A l, m \in DOMAIN p : p[l] = p[m] => l = m
      BY <1>1, PathIs
    <3>3. PICK j \in DOMAIN p : p[j] \in Children(T, p[i])
      BY <1>1, <3>1, PathChild
    <3>4. p[j] = child
      BY <1>2, <3>1, <3>3
    <3>5. Contains(p, child) /\ Contains(p, k)
      BY <3>1, <3>2, <3>4 DEF Contains
    <3>6. (CHOOSE l \in DOMAIN p : p[l] = k) = i
      BY <3>1, <3>2
    <3>7. q = RemoveAt(p, i) /\ i # Len(p) /\ i # 1
      BY <3>1, <3>2, <3>5, <3>6
    <3> HIDE DEF q
    <3> QED
      BY <1>1, <3>1, <3>7, PathWithout
  <2>2. CASE ~\E i \in DOMAIN p : p[i] = k
    <3>1. p \in Seq(DOMAIN T) /\ DOMAIN p = 1 .. Len(p)
      BY <1>1 DEF PathTo
    <3>2. ~Contains(p, k)
      BY <2>2, <3>1 DEF Contains
    <3>3. q = [i \in DOMAIN p |-> p[i]]
      BY <2>2, <3>2
    <3>4. q = p
      BY <3>1, <3>3
    <3>5. k \notin ToSet(p)
      BY <2>2 DEF ToSet
    <3> HIDE DEF q
    <3> QED
      BY <1>1, <3>4, <3>5, PathDrop
  <2> QED
    BY <2>1, <2>2
<1> HIDE DEF U, q, e
<1>6. q \in Seq(Keys)
  BY <1>1, <1>5 DEF PathTo
<1>7. /\ Sound(WithTrie(d, U)) /\ Same(WithTrie(d, U), d) /\ WithTrie(d, U).trie = U
  BY <1>1, <1>4, TrieChange
<1>8. Sound(e) /\ Same(e, WithTrie(d, U)) /\ e.trie = U /\ e.path = q
  BY <1>3, <1>6, <1>7, PathChange
<1>9. Same(e, d)
  BY <1>7, <1>8 DEF Same
<1>10. Held(e, {})
  BY <1>1, <1>4, <1>8, <1>9 DEF Held, Same
<1> QED
  BY <1>4, <1>5, <1>8, <1>9, <1>10 DEF Follows, Ready, e

-----------------------------------------------------------------------------
(* Eviction.                                                                *)

(* Two such changes are one.                                                *)
LEMMA FollowsIs ==
    ASSUME NEW d, NEW e, NEW f, Follows(e, d), Follows(f, e)
    PROVE  Follows(f, d)
BY DEF Follows, Same

(* No change is one.                                                        *)
LEMMA FollowsItself == ASSUME NEW d, Ready(d) PROVE Follows(d, d)
BY DEF Follows, Same

(* Touching a node is such a change.                                        *)
LEMMA TouchFollows ==
    ASSUME NEW d, Ready(d), NEW k \in DOMAIN d.trie
    PROVE  Follows(Touch(d, k), d) /\ DOMAIN Touch(d, k).trie = DOMAIN d.trie
<1> DEFINE e == Touch(d, k)
<1>1. Sound(d) /\ PathTo(DOMAIN d.trie, d.path) /\ Held(d, {})
  BY ReadyIs
<1>2. /\ Sound(e) /\ Same(e, d) /\ e.path = d.path /\ DOMAIN e.trie = DOMAIN d.trie
      /\ \A X : Held(d, X) => Held(e, X)
  BY <1>1, TouchIs
<1> HIDE DEF e
<1> QED
  BY <1>1, <1>2 DEF Follows, Ready, e

(* Among the nodes that can be evicted is one that goes before all others.  *)
LEMMA FirstToGo ==
    ASSUME NEW d, d \in Cache, Table(d.trie), NEW S \in SUBSET DOMAIN d.trie, S # {}, DOMAIN d.trie \subseteq Keys
    PROVE  \E k \in S : \A j \in S : ~EvictBefore(d, j, k)
<1> DEFINE B(k) == {j \in S : EvictBefore(d, j, k)}
           N == {Cardinality(B(k)) : k \in S}
<1>1. \A k \in S : d.trie[k].used \in Nat /\ Len(k) \in Nat /\ SnapshotBytes(d.trie[k]) \in Nat
  <2> TAKE k \in S
  <2>1. k \in Keys /\ d.trie[k] \in Node
    BY DEF Table
  <2> QED
    BY <2>1, LenIs, BytesIs DEF Node
<1>2. /\ \A k \in S : ~EvictBefore(d, k, k)
      /\ \A i, j, k \in S : EvictBefore(d, i, j) /\ EvictBefore(d, j, k) => EvictBefore(d, i, k)
  BY <1>1 DEF EvictBefore
<1>3. \A k \in S : IsFiniteSet(B(k)) /\ Cardinality(B(k)) \in Nat
  <2> TAKE k \in S
  <2>1. IsFiniteSet(DOMAIN d.trie) /\ B(k) \subseteq DOMAIN d.trie
    BY DEF Table
  <2>2. IsFiniteSet(B(k))
    BY <2>1, FS_Subset
  <2> QED
    BY <2>2, FS_CardinalityType
<1>4. PICK k \in S : \A j \in S : Cardinality(B(k)) <= Cardinality(B(j))
  <2>1. N \in SUBSET Nat /\ N # {}
    BY <1>3
  <2>2. PICK n \in N : \A o \in N : n <= o
    BY <2>1, LeastNatural
  <2> QED
    BY <2>2
<1>5. ASSUME NEW j \in S, EvictBefore(d, j, k) PROVE FALSE
  <2>1. B(j) \subseteq B(k) /\ j \in B(k) /\ j \notin B(j)
    BY <1>2, <1>5
  <2>2. B(j) # B(k) /\ B(j) \in SUBSET B(k)
    BY <2>1
  <2>3. Cardinality(B(j)) < Cardinality(B(k))
    <3> HIDE DEF B
    <3> QED
      BY <1>3, <2>2, FS_Subset
  <2>4. Cardinality(B(k)) \in Nat /\ Cardinality(B(j)) \in Nat /\ Cardinality(B(k)) <= Cardinality(B(j))
    BY <1>3, <1>4
  <2> HIDE DEF B
  <2> QED
    BY <2>3, <2>4
<1> QED
  BY <1>5

(* A round of eviction keeps the cache ready, and the end of the path.      *)
LEMMA EvictOneIs ==
    ASSUME NEW d, Ready(d)
    PROVE  Follows(EvictOne(d), d)
<1> DEFINE k == CHOOSE x \in Evictable(d) : \A j \in Evictable(d) : ~EvictBefore(d, j, x)
<1>1. CASE d.bytes <= MaxPagedOutBytes \/ Evictable(d) = {}
  BY <1>1, FollowsItself DEF EvictOne
<1>2. CASE ~(d.bytes <= MaxPagedOutBytes \/ Evictable(d) = {})
  <2>1. EvictOne(d) = IF Children(d.trie, k) = {} THEN RemoveNode(d, k) ELSE MergeWithChild(d, k)
    BY <1>2 DEF EvictOne
  <2>2. \E x \in Evictable(d) : \A j \in Evictable(d) : ~EvictBefore(d, j, x)
    <3>1. d \in Cache /\ Table(d.trie) /\ DOMAIN d.trie \subseteq Keys
      BY ReadyIs
    <3>2. Evictable(d) \in SUBSET DOMAIN d.trie /\ Evictable(d) # {}
      BY <1>2 DEF Evictable
    <3> QED
      BY <3>1, <3>2, FirstToGo
  <2>3. k \in Evictable(d)
    BY <2>2
  <2> HIDE DEF k
  <2>4. k \in DOMAIN d.trie /\ k # Root /\ k # Last(d.path) /\ Cardinality(Children(d.trie, k)) <= 1
    BY <2>3 DEF Evictable
  <2>5. CASE Children(d.trie, k) = {}
    BY <2>1, <2>4, <2>5, RemoveNodeIs
  <2>6. CASE Children(d.trie, k) # {}
    <3>1. IsFiniteSet(Children(d.trie, k))
      <4>1. IsFiniteSet(DOMAIN d.trie) /\ Children(d.trie, k) \subseteq DOMAIN d.trie
        BY ReadyIs DEF Tree, Children
      <4> QED
        BY <4>1, FS_Subset
    <3>2. Cardinality(Children(d.trie, k)) = 1
      BY <2>4, <2>6, <3>1, FS_CardinalityType, FS_EmptySet
    <3> QED
      BY <2>1, <2>4, <2>6, <3>2, MergeWithChildIs
  <2> QED
    BY <2>5, <2>6
<1> QED
  BY <1>1, <1>2

(* So do all rounds.                                                        *)
LEMMA EnforceIs ==
    ASSUME NEW d, Ready(d)
    PROVE  Follows(EnforceEvictionPolicy(d), d)
<1> DEFINE n == Cardinality(DOMAIN d.trie)
           seq == [i \in 1 .. n |-> i]
           F == {e \in Cache : Follows(e, d)}
           D == [i \in 0 .. n |-> F]
<1>1. n \in Nat
  BY ReadyIs, FS_CardinalityType DEF Tree
<1>2. EnforceEvictionPolicy(d) = Eviction!Fold(0, d, seq)
  BY DEF EnforceEvictionPolicy, Eviction!Fold, Eviction!MapThenFoldSet, Eviction!Greatest,
         FoldLeft, MapThenFoldSet, Max
<1>3. d \in D[0]
  BY <1>1, FollowsItself, ReadyIs
<1>4. \A i \in 1 .. n : \A e \in D[i - 1] : EvictOne(e) \in D[i]
  <2> TAKE i \in 1 .. n
  <2>1. D[i - 1] = F /\ D[i] = F
    BY <1>1
  <2>2. ASSUME NEW e \in F PROVE EvictOne(e) \in F
    <3>1. Ready(e) /\ Follows(e, d)
      BY DEF Follows
    <3>2. Follows(EvictOne(e), e)
      BY <3>1, EvictOneIs
    <3>3. Follows(EvictOne(e), d)
      BY <3>1, <3>2, FollowsIs
    <3>4. EvictOne(e) \in Cache
      BY <3>3, ReadyIs DEF Follows
    <3> QED
      BY <3>3, <3>4
  <2> QED
    BY <2>1, <2>2
<1>5. Eviction!Fold(0, d, seq) \in D[n]
  <2>1. DOMAIN seq = 1 .. n
    OBVIOUS
  <2> HIDE DEF D, n
  <2>2. \A i \in 1 .. n : \A e \in D[i - 1] : EvictOne(e) \in D[i]
    BY <1>4
  <2> HIDE DEF seq
  <2> QED
    BY <1>1, <1>3, <2>1, <2>2, Eviction!FoldKeeps
<1> QED
  BY <1>1, <1>2, <1>5

-----------------------------------------------------------------------------
(* The layers.                                                              *)

(* What the operations of the layers leave alone.                           *)
Stays(e, d) ==
    /\ Ready(e) /\ DOMAIN e.trie = DOMAIN d.trie /\ e.path = d.path /\ e.layers = d.layers
    /\ e.captures = d.captures /\ e.panicked = d.panicked

(* Two such changes are one.                                                *)
LEMMA StaysIs ==
    ASSUME NEW d, NEW e, NEW f, Stays(e, d), Stays(f, e)
    PROVE  Stays(f, d)
BY DEF Stays

(* No change is one.                                                        *)
LEMMA StaysItself == ASSUME NEW d, Ready(d) PROVE Stays(d, d)
BY DEF Stays

(* A longer buffer has all that a shorter one has.                          *)
LEMMA NodesMore ==
    ASSUME NEW n \in Nat, NEW m \in Nat, NEW T, Nodes(T, n), n <= m
    PROVE  Nodes(T, m)
<1>1. ASSUME NEW k \in DOMAIN T PROVE NodeIs(T, k, m)
  <2>1. NodeIs(T, k, n)
    BY NodesIs
  <2>2. Fine(T[k].kv, n)
    BY <2>1 DEF NodeIs
  <2>3. Fine(T[k].kv, m)
    <3>1. T[k].kv.to \in Nat
      BY <2>2 DEF Fine, Snapshot
    <3> QED
      BY <2>2, <3>1 DEF Fine
  <2> QED
    BY <2>1, <2>3 DEF NodeIs
<1> QED
  BY <1>1 DEF Nodes

WithKv(d, kv) == [d EXCEPT !.kv = kv]
WithRec(d, rec) == [d EXCEPT !.rec = rec]

(* Another buffer that the lazy snapshots still lie in.                     *)
LEMMA KvChange ==
    ASSUME NEW d, Ready(d), NEW kv \in Buffers, kv.off <= Len(kv.buf), Nodes(d.trie, Len(kv.buf))
    PROVE  /\ Stays(WithKv(d, kv), d)
           /\ WithKv(d, kv).kv = kv /\ WithKv(d, kv).rec = d.rec /\ WithKv(d, kv).trie = d.trie
<1> DEFINE e == WithKv(d, kv)
<1>1. Sound(d) /\ PathTo(DOMAIN d.trie, d.path) /\ Held(d, {}) /\ d \in Cache
  BY ReadyIs
<1>2. /\ e.layers = d.layers /\ e.trie = d.trie /\ e.path = d.path /\ e.kv = kv /\ e.rec = d.rec
      /\ e.captures = d.captures /\ e.panicked = d.panicked /\ e.bytes = d.bytes
  BY <1>1 DEF WithKv, Cache
<1>3. e \in Cache
  BY <1>1 DEF WithKv, Cache
<1> HIDE DEF e
<1>4. Sound(e)
  BY <1>1, <1>2, <1>3 DEF Sound
<1>5. Held(e, {})
  BY <1>1, <1>2 DEF Held
<1> QED
  BY <1>1, <1>2, <1>4, <1>5 DEF Stays, Ready, e

(* Another recurrent state.                                                 *)
LEMMA RecChange ==
    ASSUME NEW d, Ready(d), NEW rec \in Keys, "rec" \in ToSet(d.layers) \/ rec = <<>>
    PROVE  /\ Stays(WithRec(d, rec), d)
           /\ WithRec(d, rec).kv = d.kv /\ WithRec(d, rec).rec = rec /\ WithRec(d, rec).trie = d.trie
<1> DEFINE e == WithRec(d, rec)
<1>1. Sound(d) /\ PathTo(DOMAIN d.trie, d.path) /\ Held(d, {}) /\ d \in Cache
  BY ReadyIs
<1>2. /\ e.layers = d.layers /\ e.trie = d.trie /\ e.path = d.path /\ e.kv = d.kv /\ e.rec = rec
      /\ e.captures = d.captures /\ e.panicked = d.panicked /\ e.bytes = d.bytes
  BY <1>1 DEF WithRec, Cache
<1>3. e \in Cache
  BY <1>1 DEF WithRec, Cache
<1> HIDE DEF e
<1>4. Sound(e)
  BY <1>1, <1>2, <1>3 DEF Sound
<1>5. Held(e, {})
  BY <1>1, <1>2 DEF Held
<1> QED
  BY <1>1, <1>2, <1>4, <1>5 DEF Stays, Ready, e

(* Snapshots are copied out, and what they take from now on is counted.     *)
CopiedTrie(d, hit) ==
    [k \in DOMAIN d.trie |-> IF k \in hit THEN [d.trie[k] EXCEPT !.kv = Owned(d, @)] ELSE d.trie[k]]

CopyResult(U, d, hit) ==
    /\ DOMAIN U = DOMAIN d.trie /\ Nodes(U, Len(d.kv.buf))
    /\ Filled(d.trie, {}) => Filled(U, {})
    /\ Total(U) = d.bytes + SumFunctionOnSet([k \in DOMAIN d.trie |-> d.trie[k].kv.to - d.trie[k].kv.from], hit)
    /\ \A k \in hit : ~U[k].kv.lazy
    /\ \A k \in DOMAIN U \ hit : U[k] = d.trie[k]

(* A snapshot copied out takes the size of its tokens.                      *)
LEMMA OwnedIs ==
    ASSUME NEW d, d.kv.buf \in Seq(Keys), NEW snap, Fine(snap, Len(d.kv.buf)), snap.lazy
    PROVE  /\ Fine(Owned(d, snap), Len(d.kv.buf)) /\ ~Owned(d, snap).lazy
           /\ Owned(d, snap).from = snap.from /\ Owned(d, snap).to = snap.to
           /\ KvSize(snap) = 0 /\ KvSize(Owned(d, snap)) = snap.to - snap.from
<1>1. Entries(d, snap) \in Seq(Keys) /\ Len(Entries(d, snap)) = snap.to - snap.from
  BY EntriesIs
<1>2. /\ Owned(d, snap) \in Snapshot /\ Owned(d, snap).data = Entries(d, snap) /\ ~Owned(d, snap).lazy
      /\ Owned(d, snap).from = snap.from /\ Owned(d, snap).to = snap.to
  BY <1>1 DEF Owned, Fine, Snapshot
<1>3. snap.data = <<>>
  BY DEF Fine
<1> HIDE DEF Owned
<1> QED
  BY <1>1, <1>2, <1>3 DEF Fine, KvSize

(* The trie after copyOut: what was hit is lazy no more, and the size grew  *)
(* by as much.                                                              *)
LEMMA CopyIs ==
    ASSUME NEW d, Ready(d), NEW hit \in SUBSET DOMAIN d.trie, \A k \in hit : d.trie[k].kv.lazy
    PROVE  CopyResult(CopiedTrie(d, hit), d, hit)
<1> DEFINE T == d.trie
           n == Len(d.kv.buf)
           U == CopiedTrie(d, hit)
           f == [k \in DOMAIN T |-> T[k].kv.to - T[k].kv.from]
<1>1. /\ Nodes(T, n) /\ n \in Nat /\ d.kv.buf \in Seq(Keys) /\ d.bytes = Total(T)
      /\ Table(T) /\ Tree(DOMAIN T) /\ DOMAIN T \subseteq Keys
  BY ReadyIs
<1>2. /\ DOMAIN U = DOMAIN T /\ \A k \in DOMAIN T \ hit : U[k] = T[k]
      /\ \A k \in hit : U[k] = [T[k] EXCEPT !.kv = Owned(d, T[k].kv)]
  BY <1>1 DEF CopiedTrie, Table
<1> HIDE DEF U
<1>3. ASSUME NEW k \in DOMAIN T
      PROVE  T[k] \in Node /\ NodeIs(T, k, n) /\ k \in Keys /\ T[k].kv.to \in Nat /\ T[k].kv.from \in Nat
  BY <1>1, NodesIs DEF Node, Snapshot
<1>4. ASSUME NEW k \in hit
      PROVE  /\ U[k] \in Node /\ U[k].kv = Owned(d, T[k].kv) /\ U[k].rec = T[k].rec
             /\ Fine(U[k].kv, n) /\ ~U[k].kv.lazy /\ U[k].kv.from = T[k].kv.from /\ U[k].kv.to = T[k].kv.to
             /\ SnapshotBytes(U[k]) = SnapshotBytes(T[k]) + f[k] /\ f[k] \in Int
  <2>1. T[k] \in Node /\ Fine(T[k].kv, n) /\ T[k].kv.to \in Nat /\ T[k].kv.from \in Nat
    BY <1>3 DEF NodeIs
  <2>2. /\ Fine(Owned(d, T[k].kv), n) /\ ~Owned(d, T[k].kv).lazy
        /\ Owned(d, T[k].kv).from = T[k].kv.from /\ Owned(d, T[k].kv).to = T[k].kv.to
        /\ KvSize(T[k].kv) = 0 /\ KvSize(Owned(d, T[k].kv)) = T[k].kv.to - T[k].kv.from
    BY <1>1, <2>1, OwnedIs
  <2>3. U[k] \in Node /\ U[k].kv = Owned(d, T[k].kv) /\ U[k].rec = T[k].rec
    <3>1. Owned(d, T[k].kv) \in Snapshot
      BY <2>2 DEF Fine
    <3> QED
      BY <1>2, <2>1, <3>1 DEF Node
  <2>4. SnapshotBytes(U[k]) = SnapshotBytes(T[k]) + f[k]
    <3>1. RecSize(T[k].rec) \in Nat
      BY SizeAssumption DEF RecSize
    <3>2. f[k] = T[k].kv.to - T[k].kv.from
      OBVIOUS
    <3> HIDE DEF f, T, n
    <3> QED
      BY <2>1, <2>2, <2>3, <3>1, <3>2 DEF SnapshotBytes
  <2> QED
    BY <2>1, <2>2, <2>3, <2>4
<1>5. Table(U)
  <2>1. \A k \in DOMAIN T : U[k] \in Node
    BY <1>2, <1>3, <1>4
  <2>2. U \in [DOMAIN T -> Node]
    BY <1>2, <2>1 DEF CopiedTrie, U
  <2> QED
    BY <1>1, <1>2, <2>2 DEF Table
<1>6. ASSUME NEW k \in DOMAIN U PROVE NodeIs(U, k, n)
  <2>1. StartOffset(U, k) = StartOffset(T, k) /\ NodeIs(T, k, n)
    BY <1>2, <1>3, SameStart
  <2>2. CASE k \in hit
    <3>1. T[k].kv # NoSnapshot
      BY <2>2 DEF NoSnapshot
    <3> QED
      BY <1>4, <2>1, <2>2, <3>1 DEF NodeIs, Spans
  <2>3. CASE k \notin hit
    BY <1>2, <2>1, <2>3 DEF NodeIs
  <2> QED
    BY <2>2, <2>3
<1>7. Nodes(U, n)
  BY <1>1, <1>2, <1>5, <1>6 DEF Nodes
<1>8. Filled(T, {}) => Filled(U, {})
  <2> SUFFICES ASSUME Filled(T, {}), NEW k \in DOMAIN U, k # Root PROVE U[k].kv # NoSnapshot
    BY DEF Filled
  <2>1. CASE k \in hit
    <3>1. T[k].kv # NoSnapshot /\ NodeIs(T, k, n)
      BY <1>2, <1>3 DEF Filled
    <3>2. T[k].kv.to = Len(k)
      BY <3>1 DEF NodeIs, Spans
    <3>3. Len(k) # 0
      BY <1>2, <1>3, LenIs
    <3>4. U[k].kv.to = Len(k)
      BY <1>4, <2>1, <3>2
    <3> QED
      BY <3>3, <3>4 DEF NoSnapshot
  <2>2. CASE k \notin hit
    BY <1>2, <2>2 DEF Filled
  <2> QED
    BY <2>1, <2>2
<1>9. Total(U) = Total(T) + SumFunctionOnSet(f, hit)
  <2>1. IsFiniteSet(DOMAIN T) /\ Weights(T) = [k \in DOMAIN T |-> SnapshotBytes(T[k])]
        /\ Weights(U) = [k \in DOMAIN T |-> SnapshotBytes(U[k])]
    BY <1>1, <1>2 DEF Table, Weights
  <2>2. /\ \A k \in DOMAIN T : Weights(T)[k] \in Int
        /\ \A k \in hit : f[k] \in Int /\ Weights(U)[k] = Weights(T)[k] + f[k]
        /\ \A k \in DOMAIN T \ hit : Weights(U)[k] = Weights(T)[k]
    <3>1. \A k \in DOMAIN T : Weights(T)[k] = SnapshotBytes(T[k]) /\ Weights(U)[k] = SnapshotBytes(U[k])
      BY <2>1
    <3>2. \A k \in DOMAIN T : SnapshotBytes(T[k]) \in Int
      BY <1>3, BytesIs
    <3> HIDE DEF f
    <3> QED
      BY <1>2, <1>4, <3>1, <3>2
  <2>3. Total(T) = SumFunctionOnSet(Weights(T), DOMAIN T) /\ Total(U) = SumFunctionOnSet(Weights(U), DOMAIN T)
    BY <1>2 DEF Total
  <2> DEFINE w == Weights(T)
             v == Weights(U)
             K == DOMAIN T
  <2>4. /\ IsFiniteSet(K) /\ hit \in SUBSET K
        /\ \A x \in K : w[x] \in Int
        /\ \A x \in hit : f[x] \in Int /\ v[x] = w[x] + f[x]
        /\ \A x \in K \ hit : v[x] = w[x]
    BY <2>1, <2>2
  <2> HIDE DEF f, w, v, K
  <2>5. SumFunctionOnSet(v, K) = SumFunctionOnSet(w, K) + SumFunctionOnSet(f, hit)
    BY <2>4, SumPart
  <2> QED
    BY <2>3, <2>5 DEF w, v, K
<1> QED
  BY <1>1, <1>2, <1>4, <1>7, <1>8, <1>9 DEF CopyResult, U

(* copyOut keeps the cache ready, its count of bytes included.              *)
LEMMA CopyOutIs ==
    ASSUME NEW d, Ready(d), NEW hit \in SUBSET DOMAIN d.trie, \A k \in hit : d.trie[k].kv.lazy
    PROVE  /\ Stays(CopyOut(d, hit), d)
           /\ CopyOut(d, hit).kv = d.kv /\ CopyOut(d, hit).rec = d.rec
           /\ \A k \in hit : ~CopyOut(d, hit).trie[k].kv.lazy
           /\ \A k \in DOMAIN d.trie \ hit : CopyOut(d, hit).trie[k] = d.trie[k]
<1> DEFINE U == CopiedTrie(d, hit)
           e == CopyOut(d, hit)
<1>1. Sound(d) /\ PathTo(DOMAIN d.trie, d.path) /\ Held(d, {}) /\ d \in Cache
  BY ReadyIs
<1>2. CopyResult(U, d, hit)
  BY CopyIs
<1>3. /\ DOMAIN U = DOMAIN d.trie /\ Nodes(U, Len(d.kv.buf)) /\ (Filled(d.trie, {}) => Filled(U, {}))
      /\ \A k \in hit : ~U[k].kv.lazy
      /\ \A k \in DOMAIN U \ hit : U[k] = d.trie[k]
  BY <1>2 DEF CopyResult
<1>4. e = WithTrie(d, U)
  BY <1>1, <1>2 DEF CopyOut, CopiedTrie, CopyResult, WithTrie, Cache
<1> HIDE DEF U, e
<1>5. Sound(e) /\ Same(e, d) /\ e.trie = U /\ e.path = d.path
  BY <1>1, <1>3, <1>4, TrieChange
<1>6. Held(e, {})
  BY <1>1, <1>3, <1>5 DEF Held, Same
<1> QED
  BY <1>1, <1>3, <1>5, <1>6 DEF Stays, Ready, Same, e

(* Entries written behind the first prev, over what was there.              *)
Written(buf, prev, entries) ==
    SubSeq(buf, 1, prev) \o entries \o SubSeq(buf, prev + Len(entries) + 1, Len(buf))

(* The length of two sequences joined.                                      *)
LEMMA ConcatIs ==
    ASSUME NEW S, NEW a \in Seq(S), NEW b \in Seq(S)
    PROVE  a \o b \in Seq(S) /\ Len(a \o b) = Len(a) + Len(b) /\ Len(a) \in Nat /\ Len(b) \in Nat
OBVIOUS

(* What is written to the buffer lies in it.                                *)
LEMMA WrittenIs ==
    ASSUME NEW buf \in Seq(Keys), NEW prev \in Nat, prev <= Len(buf), NEW entries \in Seq(Keys)
    PROVE  /\ Written(buf, prev, entries) \in Seq(Keys)
           /\ Len(buf) <= Len(Written(buf, prev, entries))
           /\ prev + Len(entries) <= Len(Written(buf, prev, entries))
           /\ prev + Len(entries) \in Nat
<1> DEFINE end == prev + Len(entries)
           a == SubSeq(buf, 1, prev)
           b == SubSeq(buf, end + 1, Len(buf))
           new == Written(buf, prev, entries)
<1>1. Len(buf) \in Nat /\ Len(entries) \in Nat /\ end \in Nat
  OBVIOUS
<1>2. a \in Seq(Keys) /\ Len(a) = prev
  BY <1>1
<1>3. b \in Seq(Keys) /\ Len(b) = IF end < Len(buf) THEN Len(buf) - end ELSE 0
  BY <1>1
<1> HIDE DEF a, b
<1>4. new = a \o entries \o b
  BY DEF a, b, Written
<1> HIDE DEF new
<1>5. new \in Seq(Keys) /\ Len(new) = Len(a) + Len(entries) + Len(b)
  <2> DEFINE x == a \o entries
  <2>1. x \in Seq(Keys) /\ Len(x) = Len(a) + Len(entries)
    BY <1>2, ConcatIs
  <2>2. new = x \o b
    BY <1>4
  <2> HIDE DEF x
  <2>3. x \o b \in Seq(Keys) /\ Len(x \o b) = Len(x) + Len(b)
    BY <1>3, <2>1, ConcatIs
  <2> QED
    BY <2>1, <2>2, <2>3
<1>6. new \in Seq(Keys) /\ Len(buf) <= Len(new) /\ end <= Len(new) /\ end \in Nat
  <2> HIDE DEF end
  <2>1. end = prev + Len(entries)
    BY DEF end
  <2>2. Len(new) = end + Len(b) /\ Len(buf) \in Nat /\ end \in Nat
    BY <1>1, <1>2, <1>5, <2>1
  <2>3. CASE end < Len(buf)
    <3>1. Len(b) = Len(buf) - end
      BY <1>3, <2>3
    <3> QED
      BY <1>5, <2>2, <2>3, <3>1
  <2>4. CASE ~(end < Len(buf))
    <3>1. Len(b) = 0
      BY <1>3, <2>4
    <3> QED
      BY <1>5, <2>2, <2>4, <3>1
  <2> QED
    BY <2>3, <2>4
<1> QED
  BY <1>6 DEF new

(* An append to the attention layer keeps the cache ready.                  *)
LEMMA AppendKVIs ==
    ASSUME NEW d, Ready(d), NEW entries \in Seq(Keys)
    PROVE  /\ Stays(AppendKV(d, entries), d)
           /\ AppendKV(d, entries).kv.off = d.kv.off + Len(entries) /\ AppendKV(d, entries).rec = d.rec
<1> DEFINE end == d.kv.off + Len(entries)
           hit == {k \in DOMAIN d.trie : Overlaps(d.trie[k].kv, d.kv.off, end)}
           f == CopyOut(d, hit)
           buf == Written(f.kv.buf, d.kv.off, entries)
           kv == [buf |-> buf, off |-> end]
<1>1. d \in Cache /\ d.kv.off \in Nat /\ d.kv.buf \in Seq(Keys) /\ d.kv.off <= Len(d.kv.buf) /\ Len(d.kv.buf) \in Nat
  <2>1. d \in Cache /\ Sound(d)
    BY ReadyIs
  <2> QED
    BY <2>1, CacheIs DEF Sound
<1>2. AppendKV(d, entries) = WithKv(f, kv)
  BY DEF AppendKV, WithKv, Written
<1>3. Stays(f, d) /\ f.kv = d.kv /\ f.rec = d.rec
  <2>1. hit \in SUBSET DOMAIN d.trie /\ \A k \in hit : d.trie[k].kv.lazy
    BY DEF Overlaps
  <2> HIDE DEF hit
  <2> QED
    BY <2>1, CopyOutIs
<1> HIDE DEF f
<1>4. buf \in Seq(Keys) /\ Len(d.kv.buf) <= Len(buf) /\ end <= Len(buf) /\ end \in Nat
  BY <1>1, <1>3, WrittenIs
<1> HIDE DEF end, buf
<1>5. kv \in Buffers /\ kv.off = end /\ kv.buf = buf /\ Len(buf) \in Nat
  BY <1>4 DEF Buffers
<1>6. Ready(f) /\ Nodes(f.trie, Len(f.kv.buf))
  BY <1>3, ReadyIs DEF Stays
<1>7. Nodes(f.trie, Len(buf))
  BY <1>1, <1>3, <1>4, <1>5, <1>6, NodesMore
<1> HIDE DEF kv
<1>8. /\ Stays(WithKv(f, kv), f) /\ WithKv(f, kv).kv = kv /\ WithKv(f, kv).rec = f.rec
  BY <1>4, <1>5, <1>6, <1>7, KvChange
<1> QED
  BY <1>2, <1>3, <1>5, <1>8, StaysIs DEF end

(* The offsets of the layers after an operation on one of them.             *)
Moved(e, d, layer, target) ==
    /\ Stays(e, d)
    /\ layer = "kv" => e.kv.off = target /\ e.rec = d.rec
    /\ layer = "rec" => Len(e.rec) = target /\ e.kv.off = d.kv.off

(* A layer that can be rewound is.                                          *)
LEMMA RewindIs ==
    ASSUME NEW d, Ready(d), NEW layer \in {"kv", "rec"}, NEW target \in Nat, CanRewind(d, layer, target)
    PROVE  Moved(Rewind(d, layer, target), d, layer, target)
<1>1. CASE layer = "rec"
  <2>1. Rewind(d, layer, target) = d /\ Len(d.rec) = target
    BY <1>1 DEF Rewind, CanRewind
  <2> QED
    BY <1>1, <2>1, StaysItself DEF Moved
<1>2. CASE layer = "kv"
  <2> DEFINE kv == [d.kv EXCEPT !.off = target]
  <2>1. d \in Cache /\ Sound(d) /\ Nodes(d.trie, Len(d.kv.buf))
    BY ReadyIs
  <2>2. d.kv \in Buffers /\ d.kv.off \in Nat /\ Len(d.kv.buf) \in Nat /\ d.kv.off <= Len(d.kv.buf)
    BY <2>1, CacheIs DEF Sound
  <2>3. kv \in Buffers /\ kv.off = target /\ kv.buf = d.kv.buf
    BY <2>2 DEF Buffers
  <2>4. target <= d.kv.off
    BY <1>2 DEF CanRewind
  <2>5. Rewind(d, layer, target) = WithKv(d, kv)
    BY <1>2, <2>1 DEF Rewind, WithKv, Cache
  <2> HIDE DEF kv
  <2>6. kv.off <= Len(kv.buf) /\ Nodes(d.trie, Len(kv.buf))
    BY <2>1, <2>2, <2>3, <2>4
  <2>7. /\ Stays(WithKv(d, kv), d) /\ WithKv(d, kv).kv = kv /\ WithKv(d, kv).rec = d.rec
    BY <2>3, <2>6, KvChange
  <2> QED
    BY <1>2, <2>3, <2>5, <2>7 DEF Moved
<1> QED
  BY <1>1, <1>2

(* A layer that is freed holds nothing.                                     *)
LEMMA FreeIs ==
    ASSUME NEW d, Ready(d), NEW layer \in {"kv", "rec"}
    PROVE  Moved(Free(d, layer), d, layer, 0)
<1>1. CASE layer = "rec"
  <2>1. Free(d, layer) = WithRec(d, <<>>)
    BY <1>1 DEF Free, WithRec
  <2>2. <<>> \in Keys /\ Len(<<>>) = 0
    BY DEF Keys
  <2>3. Stays(WithRec(d, <<>>), d) /\ WithRec(d, <<>>).kv = d.kv /\ WithRec(d, <<>>).rec = <<>>
    BY <2>2, RecChange
  <2> QED
    BY <1>1, <2>1, <2>2, <2>3 DEF Moved
<1>2. CASE layer = "kv"
  <2> DEFINE hit == {k \in DOMAIN d.trie : d.trie[k].kv.lazy}
             f == CopyOut(d, hit)
             kv == [buf |-> <<>>, off |-> 0]
  <2>1. Free(d, layer) = WithKv(f, kv)
    BY <1>2 DEF Free, WithKv
  <2>2. /\ Stays(f, d) /\ f.rec = d.rec
        /\ \A k \in hit : ~f.trie[k].kv.lazy
        /\ \A k \in DOMAIN d.trie \ hit : f.trie[k] = d.trie[k]
    <3>1. hit \in SUBSET DOMAIN d.trie /\ \A k \in hit : d.trie[k].kv.lazy
      OBVIOUS
    <3> HIDE DEF hit
    <3> QED
      BY <3>1, CopyOutIs
  <2>3. \A k \in DOMAIN f.trie : ~f.trie[k].kv.lazy
    <3>1. DOMAIN f.trie = DOMAIN d.trie
      BY <2>2 DEF Stays
    <3> HIDE DEF f
    <3> QED
      BY <2>2, <3>1
  <2> HIDE DEF f, hit
  <2>4. Ready(f) /\ Nodes(f.trie, Len(f.kv.buf)) /\ Len(f.kv.buf) \in Nat
    BY <2>2, ReadyIs DEF Stays
  <2>5. kv \in Buffers /\ kv.off = 0 /\ kv.buf = <<>> /\ Len(kv.buf) = 0
    BY DEF Buffers
  <2>6. Nodes(f.trie, 0)
    <3>1. ASSUME NEW k \in DOMAIN f.trie PROVE NodeIs(f.trie, k, 0)
      <4>1. NodeIs(f.trie, k, Len(f.kv.buf)) /\ ~f.trie[k].kv.lazy
        BY <2>3, <2>4, NodesIs
      <4> QED
        BY <4>1 DEF NodeIs, Fine
    <3> QED
      BY <2>4, <3>1 DEF Nodes
  <2> HIDE DEF kv
  <2>7. Stays(WithKv(f, kv), f) /\ WithKv(f, kv).kv = kv /\ WithKv(f, kv).rec = f.rec
    BY <2>4, <2>5, <2>6, KvChange
  <2> QED
    BY <1>2, <2>1, <2>2, <2>5, <2>7, StaysIs DEF Moved
<1> QED
  BY <1>1, <1>2

(* A layer that can be restored is.                                         *)
LEMMA RestoreIs ==
    ASSUME NEW d, Ready(d), NEW layer \in ToSet(d.layers), NEW key \in DOMAIN d.trie, NEW target \in Nat,
           CanRestore(d, layer, key, target)
    PROVE  Moved(Restore(d, layer, key, target), d, layer, target) /\ layer \in {"kv", "rec"}
<1> DEFINE snap == d.trie[key].kv
           n == Len(d.kv.buf)
<1>1. /\ d \in Cache /\ Sound(d) /\ Nodes(d.trie, n) /\ n \in Nat /\ d.kv.buf \in Seq(Keys)
      /\ d.trie[key] \in Node /\ Fine(snap, n)
  <2>1. d \in Cache /\ Sound(d) /\ Nodes(d.trie, n) /\ n \in Nat /\ d.kv.buf \in Seq(Keys)
    BY ReadyIs
  <2>2. d.trie[key] \in Node /\ NodeIs(d.trie, key, n)
    BY <2>1, NodesIs
  <2> QED
    BY <2>1, <2>2 DEF NodeIs
<1>2. layer \in {"kv", "rec"}
  BY <1>1, LayersAre
<1>3. d.kv \in Buffers /\ d.kv.off \in Nat /\ d.kv.off <= n
  BY <1>1, CacheIs DEF Sound
<1>4. snap.from \in Nat /\ snap.to \in Nat /\ snap.from <= snap.to
  BY <1>1 DEF Fine, Snapshot
<1>5. CASE layer = "rec"
  <2>1. Restore(d, layer, key, target) = WithRec(d, d.trie[key].rec) /\ target = Len(d.trie[key].rec)
    BY <1>5 DEF Restore, WithRec, CanRestore
  <2>2. d.trie[key].rec \in Keys
    BY <1>1 DEF Node
  <2> DEFINE r == d.trie[key].rec
  <2>3. Stays(WithRec(d, r), d) /\ WithRec(d, r).kv = d.kv /\ WithRec(d, r).rec = r
    <3>1. r \in Keys
      BY <2>2
    <3> HIDE DEF r
    <3> QED
      BY <1>5, <3>1, RecChange
  <2> QED
    BY <1>2, <1>5, <2>1, <2>3 DEF Moved
<1>6. CASE layer = "kv"
  <2>1. target <= snap.to /\ d.kv.off >= snap.from
    BY <1>6 DEF CanRestore
  <2>2. Min({target, snap.to}) = target
    BY <1>4, <2>1, MinOfTwo
  <2>3. CASE snap.lazy
    <3> DEFINE kv == [d.kv EXCEPT !.off = target]
    <3>1. Restore(d, layer, key, target) = WithKv(d, kv)
      BY <1>1, <1>6, <2>2, <2>3 DEF Restore, WithKv, Cache
    <3>2. kv \in Buffers /\ kv.off = target /\ kv.buf = d.kv.buf
      BY <1>3 DEF Buffers
    <3> HIDE DEF kv
    <3>3. kv.off <= Len(kv.buf) /\ Nodes(d.trie, Len(kv.buf))
      <4>1. snap.to <= n
        BY <1>1, <2>3 DEF Fine
      <4> QED
        BY <1>1, <1>4, <2>1, <3>2, <4>1
    <3>4. Stays(WithKv(d, kv), d) /\ WithKv(d, kv).kv = kv /\ WithKv(d, kv).rec = d.rec
      BY <3>2, <3>3, KvChange
    <3> QED
      BY <1>2, <1>6, <3>1, <3>2, <3>4 DEF Moved
  <2>4. CASE ~snap.lazy
    <3> DEFINE kv == [d.kv EXCEPT !.off = snap.from]
               f == WithKv(d, kv)
               g == AppendKV(f, snap.data)
               last == [g.kv EXCEPT !.off = target]
    <3>1. snap.data \in Seq(Keys) /\ Len(snap.data) = snap.to - snap.from
      BY <1>1, <2>4 DEF Fine, Snapshot
    <3>2. kv \in Buffers /\ kv.off = snap.from /\ kv.buf = d.kv.buf
      BY <1>3, <1>4 DEF Buffers
    <3>3. f = [d EXCEPT !.kv.off = snap.from]
      BY <1>1 DEF Cache, WithKv
    <3> HIDE DEF kv
    <3>4. kv.off <= Len(kv.buf) /\ Nodes(d.trie, Len(kv.buf))
      BY <1>1, <1>3, <1>4, <2>1, <3>2
    <3>5. Stays(f, d) /\ f.kv = kv /\ f.rec = d.rec
      BY <3>2, <3>4, KvChange
    <3>6. Restore(d, layer, key, target) = [g EXCEPT !.kv.off = Min({target, g.kv.off})]
      BY <1>6, <2>4, <3>3 DEF Restore
    <3> HIDE DEF f
    <3>7. Ready(f)
      BY <3>5 DEF Stays
    <3>8. Stays(g, f) /\ g.kv.off = f.kv.off + Len(snap.data) /\ g.rec = f.rec
      BY <3>1, <3>7, AppendKVIs
    <3> HIDE DEF g
    <3>9. g.kv.off = snap.to
      BY <1>4, <3>1, <3>2, <3>5, <3>8
    <3>10. Ready(g) /\ g \in Cache /\ Sound(g) /\ Nodes(g.trie, Len(g.kv.buf))
      BY <3>8, ReadyIs DEF Stays
    <3>11. g.kv \in Buffers /\ g.kv.off <= Len(g.kv.buf) /\ Len(g.kv.buf) \in Nat
      BY <3>10, CacheIs DEF Sound
    <3>12. last \in Buffers /\ last.off = target /\ last.buf = g.kv.buf
      BY <3>11 DEF Buffers
    <3>13. Restore(d, layer, key, target) = WithKv(g, last)
      BY <2>2, <3>6, <3>9, <3>10 DEF Cache, WithKv
    <3> HIDE DEF last
    <3>14. last.off <= Len(last.buf) /\ Nodes(g.trie, Len(last.buf))
      BY <1>4, <2>1, <3>9, <3>10, <3>11, <3>12
    <3>15. Stays(WithKv(g, last), g) /\ WithKv(g, last).kv = last /\ WithKv(g, last).rec = g.rec
      BY <3>10, <3>12, <3>14, KvChange
    <3>16. Stays(WithKv(g, last), d)
      BY <3>5, <3>8, <3>15, StaysIs
    <3> QED
      BY <1>2, <1>6, <3>5, <3>8, <3>12, <3>13, <3>15, <3>16 DEF Moved
  <2> QED
    BY <2>3, <2>4
<1> QED
  BY <1>2, <1>5, <1>6

(* The tokens of an image end somewhere.                                    *)
LEMMA ItemEndIs ==
    ASSUME NEW stream \in Keys, NEW n \in 1 .. Len(stream)
    PROVE  /\ ItemEnd(stream, n) \in n .. Len(stream) /\ ~InsideItem(stream, ItemEnd(stream, n))
           /\ \A i \in n .. ItemEnd(stream, n) - 1 : InsideItem(stream, i)
<1> DEFINE E == {e \in n .. Len(stream) : ~InsideItem(stream, e)}
<1>1. Len(stream) \in Nat
  BY LenIs
<1>2. PICK m \in E : \A e \in E : m <= e
  <2>1. E \in SUBSET Nat
    BY <1>1
  <2>2. Len(stream) \in E
    BY <1>1 DEF InsideItem
  <2> HIDE DEF E
  <2> QED
    BY <2>1, <2>2, LeastNatural
<1>3. m \in n .. Len(stream) /\ ~InsideItem(stream, m) /\ \A i \in n .. m - 1 : InsideItem(stream, i)
  BY <1>1, <1>2
<1> HIDE DEF E
<1> QED
  BY <1>3 DEF ItemEnd

(* Before the first token there is no image.                                *)
LEMMA ItemStartIs ==
    ASSUME NEW stream \in Keys, NEW n \in 0 .. Len(stream)
    PROVE  /\ ItemStart(stream, n) \in 0 .. n /\ ~InsideItem(stream, ItemStart(stream, n))
           /\ \A i \in ItemStart(stream, n) + 1 .. n : InsideItem(stream, i)
<1> DEFINE E == {e \in 0 .. n : ~InsideItem(stream, e)}
<1>1. Len(stream) \in Nat
  BY LenIs
<1>2. PICK m \in E : \A e \in E : e <= m
  <2>1. 0 \in E
    BY <1>1 DEF InsideItem
  <2>2. E \in SUBSET (0 .. n) /\ E # {}
    BY <2>1
  <2>3. n \in Nat
    BY <1>1
  <2> HIDE DEF E
  <2> QED
    BY <2>2, <2>3, MaxIs
<1>3. m \in 0 .. n /\ ~InsideItem(stream, m) /\ \A i \in m + 1 .. n : InsideItem(stream, i)
  BY <1>1, <1>2
<1> HIDE DEF E
<1> QED
  BY <1>3 DEF ItemStart

(* All layers are at offset m.                                              *)
At(d, m) == \A layer \in ToSet(d.layers) : Offset(d, layer) = m

(* The offset of the layer furthest behind.                                 *)
LEMMA MinOffsetIs ==
    ASSUME NEW d \in Cache
    PROVE  /\ MinCacheOffset(d) \in Nat
           /\ \A layer \in ToSet(d.layers) : MinCacheOffset(d) <= Offset(d, layer) /\ Offset(d, layer) \in Nat
           /\ \E layer \in ToSet(d.layers) : MinCacheOffset(d) = Offset(d, layer)
           /\ \A m \in Nat : At(d, m) => MinCacheOffset(d) = m
<1> DEFINE S == {Offset(d, layer) : layer \in ToSet(d.layers)}
<1>1. \A layer \in ToSet(d.layers) : Offset(d, layer) \in Nat
  BY CacheIs DEF Offset
<1>2. S \in SUBSET Nat /\ S # {}
  BY <1>1, LayersAre
<1>3. MinCacheOffset(d) \in S /\ \A x \in S : MinCacheOffset(d) <= x
  <2>1. MinCacheOffset(d) = Min(S)
    BY DEF MinCacheOffset
  <2> HIDE DEF S
  <2> QED
    BY <1>2, <2>1, MinIs
<1> QED
  BY <1>1, <1>3 DEF At

(* A forward pass takes all layers to its end.                              *)
LEMMA ForwardIs ==
    ASSUME NEW d, Ready(d), NEW stream \in Keys, NEW end \in Nat, end <= Len(stream),
           NEW m \in Nat, At(d, m), m <= end
    PROVE  Stays(Forward(d, stream, end), d) /\ At(Forward(d, stream, end), end)
<1> DEFINE batch == SubSeq(stream, 1, end)
           entries == [i \in 1 .. end - d.kv.off |-> SubSeq(batch, 1, ItemEnd(batch, d.kv.off + i))]
           f == IF "kv" \in ToSet(d.layers) THEN AppendKV(d, entries) ELSE d
           g == IF "rec" \in ToSet(d.layers)
                THEN WithRec(f, f.rec \o SubSeq(stream, Len(f.rec) + 1, end)) ELSE f
<1>1. d \in Cache /\ d.kv.off \in Nat /\ d.rec \in Keys /\ ToSet(d.layers) \subseteq {"kv", "rec"}
  BY ReadyIs, CacheIs, LayersAre
<1>2. Forward(d, stream, end) = g
  BY DEF Forward, WithRec
<1>3. batch \in Keys /\ Len(batch) = end /\ Len(stream) \in Nat
  BY InitialIs, LenIs
<1>4. /\ Stays(f, d) /\ f.rec = d.rec
      /\ "kv" \in ToSet(d.layers) => f.kv.off = end
  <2>1. CASE "kv" \in ToSet(d.layers)
    <3>1. d.kv.off = m
      BY <2>1 DEF At, Offset
    <3>2. entries \in Seq(Keys) /\ Len(entries) = end - m
      <4>1. ASSUME NEW i \in 1 .. end - m PROVE SubSeq(batch, 1, ItemEnd(batch, m + i)) \in Keys
        <5>1. m + i \in 1 .. Len(batch) /\ m + i \in Nat
          BY <1>3
        <5> HIDE DEF batch
        <5>2. ItemEnd(batch, m + i) \in (m + i) .. Len(batch)
          BY <1>3, <5>1, ItemEndIs
        <5>3. ItemEnd(batch, m + i) \in Nat /\ ItemEnd(batch, m + i) <= Len(batch)
          BY <1>3, <5>1, <5>2
        <5> QED
          BY <1>3, <5>3, InitialIs
      <4>2. entries = [i \in 1 .. end - m |-> SubSeq(batch, 1, ItemEnd(batch, m + i))] /\ end - m \in Nat
        BY <3>1
      <4> HIDE DEF batch, entries
      <4> QED
        BY <4>1, <4>2
    <3>3. f = AppendKV(d, entries)
      BY <2>1
    <3> HIDE DEF entries, f
    <3>4. Stays(f, d) /\ f.kv.off = d.kv.off + Len(entries) /\ f.rec = d.rec
      BY <3>2, <3>3, AppendKVIs
    <3> QED
      BY <3>1, <3>2, <3>4
  <2>2. CASE "kv" \notin ToSet(d.layers)
    BY <2>2, StaysItself
  <2> QED
    BY <2>1, <2>2
<1> HIDE DEF f
<1>5. /\ Stays(g, d) /\ g.kv = f.kv
      /\ "rec" \in ToSet(d.layers) => Len(g.rec) = end
  <2>1. Ready(f) /\ f.layers = d.layers
    BY <1>4 DEF Stays
  <2>2. CASE "rec" \in ToSet(d.layers)
    <3> DEFINE r == f.rec \o SubSeq(stream, Len(f.rec) + 1, end)
    <3>1. Len(d.rec) = m
      BY <2>2 DEF At, Offset
    <3>2. SubSeq(stream, m + 1, end) \in Keys /\ Len(SubSeq(stream, m + 1, end)) = end - m
      BY <1>3 DEF Keys
    <3>3. r \in Keys /\ Len(r) = end
      <4>1. r = d.rec \o SubSeq(stream, m + 1, end)
        BY <1>4, <3>1
      <4> DEFINE x == SubSeq(stream, m + 1, end)
      <4> HIDE DEF r, x
      <4>2. d.rec \o x \in Keys /\ Len(d.rec \o x) = Len(d.rec) + Len(x)
        BY <1>1, <3>2, ConcatIs DEF Keys, x
      <4>3. Len(x) = end - m
        BY <3>2 DEF x
      <4>4. r = d.rec \o x
        BY <4>1 DEF x
      <4> QED
        BY <3>1, <4>2, <4>3, <4>4
    <3>4. g = WithRec(f, r)
      BY <2>2
    <3> HIDE DEF r, g
    <3>5. Stays(WithRec(f, r), f) /\ WithRec(f, r).kv = f.kv /\ WithRec(f, r).rec = r
      BY <2>1, <2>2, <3>3, RecChange
    <3> QED
      BY <1>4, <3>3, <3>4, <3>5, StaysIs
  <2>3. CASE "rec" \notin ToSet(d.layers)
    BY <1>4, <2>3
  <2> QED
    BY <2>2, <2>3
<1> HIDE DEF g
<1>6. At(g, end)
  <2>1. g.layers = d.layers
    BY <1>5 DEF Stays
  <2> QED
    BY <1>1, <1>4, <1>5, <2>1 DEF At, Offset
<1> QED
  BY <1>2, <1>5, <1>6

Rewinding == INSTANCE FoldInduction WITH Op <- LAMBDA e, layer, target : RewindOrFree(e, layer, target)

-----------------------------------------------------------------------------
(* switchToPath.                                                            *)

(* The nodes that two paths have in common are a path of nodes.             *)
LEMMA CommonPath ==
    ASSUME NEW S, NEW p \in Seq(S), NEW q \in Seq(S)
    PROVE  LongestCommonPrefix({p, q}) \in Seq(S)
<1> DEFINE P == CommonPrefixes({p, q})
           L == {Len(x) : x \in P}
<1>1. \A x \in P : x \in Seq(S) /\ Len(x) \in 0 .. Len(p)
  <2> TAKE x \in P
  <2>1. IsPrefix(x, p) /\ (x \in Prefixes(p) \/ x \in Prefixes(q))
    BY DEF CommonPrefixes
  <2>2. x \in Seq(S)
    BY <2>1 DEF Prefixes
  <2> QED
    BY <2>1, <2>2 DEF IsPrefix
<1>2. <<>> \in P
  <2>1. <<>> = SubSeq(p, 1, 0)
    OBVIOUS
  <2>2. <<>> \in Prefixes(p)
    BY <2>1 DEF Prefixes
  <2>3. IsPrefix(<<>>, p) /\ IsPrefix(<<>>, q)
    BY DEF IsPrefix
  <2> QED
    BY <2>2, <2>3 DEF CommonPrefixes
<1>3. Max(L) \in L /\ \A n \in L : n <= Max(L)
  <2>1. Len(p) \in Nat
    OBVIOUS
  <2>2. \A n \in L : n \in 0 .. Len(p)
    BY <1>1
  <2>3. L # {}
    BY <1>2
  <2> HIDE DEF L
  <2> QED
    BY <2>1, <2>2, <2>3, MaxIs
<1>4. PICK x \in P : \A y \in P : Len(y) <= Len(x)
  BY <1>3
<1> QED
  BY <1>1, <1>4 DEF LongestCommonPrefix

(* The offsets of the other layers are as they were.                        *)
LEMMA MovedOffset ==
    ASSUME NEW d, NEW e, NEW layer \in {"kv", "rec"}, NEW target, Moved(e, d, layer, target)
    PROVE  Offset(e, layer) = target /\ \A x \in {"kv", "rec"} : x # layer => Offset(e, x) = Offset(d, x)
BY DEF Moved, Offset

(* Where a layer is when it has been rewound or freed.                      *)
Goal(layer, m, target) ==
    IF layer = "kv" THEN IF target <= m THEN target ELSE 0
    ELSE IF target = m THEN target ELSE 0

(* One layer rewound or freed, and again if it is named twice.              *)
LEMMA RewindOrFreeIs ==
    ASSUME NEW e, Ready(e), NEW layer \in {"kv", "rec"}, NEW m \in Nat, NEW target \in Nat,
           Offset(e, layer) \in {m, Goal(layer, m, target)}
    PROVE  /\ Stays(RewindOrFree(e, layer, target), e)
           /\ Offset(RewindOrFree(e, layer, target), layer) = Goal(layer, m, target)
           /\ \A x \in {"kv", "rec"} : x # layer => Offset(RewindOrFree(e, layer, target), x) = Offset(e, x)
<1>1. CASE CanRewind(e, layer, target)
  <2>1. Moved(Rewind(e, layer, target), e, layer, target)
    BY <1>1, RewindIs
  <2>2. Goal(layer, m, target) = target
    BY <1>1 DEF CanRewind, Goal, Offset
  <2> QED
    BY <1>1, <2>1, <2>2, MovedOffset DEF RewindOrFree, Moved
<1>2. CASE ~CanRewind(e, layer, target)
  <2>1. Moved(Free(e, layer), e, layer, 0)
    BY FreeIs
  <2>2. Goal(layer, m, target) = 0
    BY <1>2 DEF CanRewind, Goal, Offset
  <2> QED
    BY <1>2, <2>1, <2>2, MovedOffset DEF RewindOrFree, Moved
<1> QED
  BY <1>1, <1>2

(* No layer is further than n, and a recurrent one not ahead of the others. *)
Behind(e, n) ==
    /\ \A layer \in ToSet(e.layers) : Offset(e, layer) <= n
    /\ {"kv", "rec"} \subseteq ToSet(e.layers) => Len(e.rec) <= e.kv.off

(* Rewound: no layer is past the target, nor the recurrent one past the     *)
(* attention layer.                                                         *)
LEMMA RewoundIs ==
    ASSUME NEW d, Ready(d), NEW m \in Nat, At(d, m), NEW target \in Nat
    PROVE  Stays(Rewound(d, target), d) /\ Behind(Rewound(d, target), target)
<1> DEFINE n == Len(d.layers)
           G(i) == {e \in Cache : /\ Stays(e, d)
                                  /\ \A layer \in ToSet(d.layers) : Offset(e, layer) \in {m, Goal(layer, m, target)}
                                  /\ \A j \in 1 .. i : Offset(e, d.layers[j]) = Goal(d.layers[j], m, target)}
           D == [i \in 0 .. n |-> G(i)]
<1>1. n \in Nat /\ DOMAIN d.layers = 1 .. n /\ d \in Cache /\ \A i \in 1 .. n : d.layers[i] \in {"kv", "rec"} /\ d.layers[i] \in ToSet(d.layers)
  BY ReadyIs, LayersAre DEF ToSet
<1>2. Rewound(d, target) = Rewinding!Fold(target, d, d.layers)
  BY DEF Rewound, Rewinding!Fold, Rewinding!MapThenFoldSet, Rewinding!Greatest,
         FoldLeft, MapThenFoldSet, Max
<1>3. d \in D[0]
  <2>1. d \in G(0)
    BY <1>1, StaysItself DEF At
  <2> QED
    BY <1>1, <2>1
<1>4. \A i \in 1 .. n : \A e \in D[i - 1] : RewindOrFree(e, d.layers[i], target) \in D[i]
  <2> TAKE i \in 1 .. n
  <2>1. D[i - 1] = G(i - 1) /\ D[i] = G(i)
    BY <1>1
  <2>2. ASSUME NEW e \in G(i - 1) PROVE RewindOrFree(e, d.layers[i], target) \in G(i)
    <3> DEFINE layer == d.layers[i]
               f == RewindOrFree(e, layer, target)
    <3>1. layer \in {"kv", "rec"} /\ layer \in ToSet(d.layers) /\ ToSet(d.layers) \subseteq {"kv", "rec"}
      BY <1>1, LayersAre
    <3>2. Ready(e) /\ Stays(e, d) /\ Offset(e, layer) \in {m, Goal(layer, m, target)}
      BY <3>1 DEF Stays
    <3>3. \A j \in 1 .. i - 1 : Offset(e, d.layers[j]) = Goal(d.layers[j], m, target)
      OBVIOUS
    <3>4. \A x \in ToSet(d.layers) : Offset(e, x) \in {m, Goal(x, m, target)}
      OBVIOUS
    <3>5. d.layers[i] = layer
      OBVIOUS
    <3> HIDE DEF layer
    <3>6. /\ Stays(f, e) /\ Offset(f, layer) = Goal(layer, m, target)
          /\ \A x \in {"kv", "rec"} : x # layer => Offset(f, x) = Offset(e, x)
      BY <3>1, <3>2, RewindOrFreeIs
    <3> HIDE DEF f
    <3>7. \A x \in {"kv", "rec"} : Offset(f, x) = IF x = layer THEN Goal(layer, m, target) ELSE Offset(e, x)
      BY <3>6
    <3>8. Stays(f, d) /\ f \in Cache
      BY <3>2, <3>6, StaysIs, ReadyIs DEF Stays
    <3>9. \A x \in ToSet(d.layers) : Offset(f, x) \in {m, Goal(x, m, target)}
      BY <3>1, <3>4, <3>7
    <3>10. ASSUME NEW j \in 1 .. i PROVE Offset(f, d.layers[j]) = Goal(d.layers[j], m, target)
      <4>1. d.layers[j] \in {"kv", "rec"}
        BY <1>1
      <4>2. j # i => j \in 1 .. i - 1
        OBVIOUS
      <4> QED
        BY <3>3, <3>5, <3>7, <4>1, <4>2
    <3> QED
      BY <3>5, <3>8, <3>9, <3>10 DEF f
  <2> QED
    BY <2>1, <2>2
<1>5. Rewinding!Fold(target, d, d.layers) \in D[n]
  <2> HIDE DEF D, n
  <2> QED
    BY <1>1, <1>3, <1>4, Rewinding!FoldKeeps
<1>6. Rewound(d, target) \in G(n)
  BY <1>1, <1>2, <1>5
<1>7. Stays(Rewound(d, target), d)
  BY <1>6
<1>8. \A layer \in ToSet(d.layers) : Offset(Rewound(d, target), layer) = Goal(layer, m, target)
  BY <1>1, <1>6 DEF ToSet
<1> DEFINE r == Rewound(d, target)
<1>9. r.layers = d.layers
  BY <1>7 DEF Stays
<1> HIDE DEF r
<1>10. \A layer \in ToSet(d.layers) : Goal(layer, m, target) <= target
  BY DEF Goal
<1>11. {"kv", "rec"} \subseteq ToSet(d.layers) => Offset(r, "kv") = Goal("kv", m, target) /\ Offset(r, "rec") = Goal("rec", m, target)
  BY <1>8 DEF r
<1>12. Goal("rec", m, target) <= Goal("kv", m, target)
  BY DEF Goal
<1>13. Behind(r, target)
  BY <1>8, <1>9, <1>10, <1>11, <1>12 DEF Behind, Offset, r
<1> QED
  BY <1>7, <1>13 DEF r

Paging == INSTANCE FoldInduction
    WITH Op <- LAMBDA acc, layer, env : PageInLayer(acc, layer, env.key, env.matched)
PagingNodes == INSTANCE FoldInduction
    WITH Op <- LAMBDA acc, k, matched : PageInNode(acc, k, matched)
Aligning == INSTANCE FoldInduction WITH Op <- LAMBDA e, layer, off : Rewind(e, layer, off)

(* Where the layers are while they are fed the snapshots of a node that     *)
(* begins at lo and has tokens up to t, those of done having been; and when *)
(* one of them could not be restored.                                       *)
Within(kv, rec, L, matched) ==
    /\ "kv" \in L => kv <= matched
    /\ "rec" \in L => rec <= matched

Going(kv, rec, L, matched, lo, t, done) ==
    /\ Within(kv, rec, L, matched)
    /\ {"kv", "rec"} \subseteq L => rec <= kv \/ (rec = t /\ "kv" \notin done)
    /\ "kv" \in done => t <= kv
    /\ "kv" \in L => lo <= kv

Stopped(kv, rec, L, matched) ==
    Within(kv, rec, L, matched) /\ ({"kv", "rec"} \subseteq L => rec <= kv)

Fed(acc, d, matched, lo, t, done) ==
    /\ acc \in [cache : Cache, stop : BOOLEAN]
    /\ Stays(acc.cache, d)
    /\ acc.stop => Stopped(acc.cache.kv.off, Len(acc.cache.rec), ToSet(d.layers), matched)
    /\ ~acc.stop => Going(acc.cache.kv.off, Len(acc.cache.rec), ToSet(d.layers), matched, lo, t, done)

(* What feeding one layer does to the two offsets.                          *)
LEMMA FeedIs ==
    ASSUME NEW kv \in Nat, NEW rec \in Nat, NEW L \in SUBSET {"kv", "rec"},
           NEW matched \in Nat, NEW lo \in Nat, NEW t \in Nat, t <= matched, NEW done \in SUBSET L,
           NEW layer \in L, Going(kv, rec, L, matched, lo, t, done)
    PROVE  /\ (layer = "kv" => t <= kv) => Going(kv, rec, L, matched, lo, t, done \cup {layer})
           /\ layer = "kv" /\ kv < t => Going(t, rec, L, matched, lo, t, done \cup {layer})
           /\ layer = "rec" /\ rec < t => /\ Going(kv, t, L, matched, lo, t, done \cup {layer})
                                         /\ Stopped(kv, rec, L, matched)
<1>1. ASSUME layer = "kv" => t <= kv
      PROVE  Going(kv, rec, L, matched, lo, t, done \cup {layer})
  BY <1>1 DEF Going, Within
<1>2. ASSUME layer = "kv", kv < t
      PROVE  Going(t, rec, L, matched, lo, t, done \cup {layer})
  BY <1>2 DEF Going, Within
<1>3. ASSUME layer = "rec", rec < t
      PROVE  /\ Going(kv, t, L, matched, lo, t, done \cup {layer})
             /\ Stopped(kv, rec, L, matched)
  BY <1>3 DEF Going, Stopped, Within
<1> QED
  BY <1>1, <1>2, <1>3

(* An attention layer can always be restored: it is at the node's start.    *)
LEMMA KvIsFed ==
    ASSUME NEW d, Ready(d), NEW k \in DOMAIN d.trie, "kv" \in ToSet(d.layers), NEW t \in Nat, t <= Len(k),
           StartOffset(d.trie, k) <= d.kv.off, ~HasSnapshot(d.trie[k], "kv") \/ ~CanRestore(d, "kv", k, t)
    PROVE  t = 0
<1>1. /\ Nodes(d.trie, Len(d.kv.buf)) /\ Len(d.kv.buf) \in Nat /\ Held(d, {})
      /\ k \in Keys /\ d.kv.off \in Nat
  BY ReadyIs, CacheIs
<1>2. NodeIs(d.trie, k, Len(d.kv.buf)) /\ Len(k) \in Nat
  BY <1>1, NodesIs, LenIs
<1>3. CASE d.trie[k].kv = NoSnapshot
  <2>1. k = Root
    BY <1>1, <1>3 DEF Held, Filled
  <2> QED
    BY <1>1, <2>1, LenIs
<1>4. CASE d.trie[k].kv # NoSnapshot
  <2>1. d.trie[k].kv.from = StartOffset(d.trie, k) /\ d.trie[k].kv.to = Len(k)
    BY <1>2, <1>4 DEF NodeIs, Spans
  <2> QED
    BY <1>4, <2>1 DEF HasSnapshot, CanRestore
<1> QED
  BY <1>3, <1>4

(* One layer fed from one node of the path.                                 *)
LEMMA PageInLayerIs ==
    ASSUME NEW d, Ready(d), NEW matched \in Nat, NEW k \in DOMAIN d.trie, NEW t \in Nat, t = Min({Len(k), matched}),
           NEW lo \in Nat, lo = StartOffset(d.trie, k), NEW done \in SUBSET ToSet(d.layers),
           NEW layer \in ToSet(d.layers), NEW acc, Fed(acc, d, matched, lo, t, done)
    PROVE  Fed(PageInLayer(acc, layer, k, matched), d, matched, lo, t, done \cup {layer})
<1> DEFINE e == acc.cache
           skip == acc.stop \/ ~HasSnapshot(e.trie[k], layer) \/ Offset(e, layer) >= t
           f == Restore(e, layer, k, t)
           new == PageInLayer(acc, layer, k, matched)
<1>1. /\ acc \in [cache : Cache, stop : BOOLEAN] /\ Stays(e, d) /\ Ready(e) /\ e \in Cache
      /\ DOMAIN e.trie = DOMAIN d.trie /\ e.layers = d.layers
  BY ReadyIs DEF Fed, Stays
<1>2. layer \in {"kv", "rec"} /\ ToSet(d.layers) \subseteq {"kv", "rec"}
  BY ReadyIs, LayersAre
<1>3. k \in Keys /\ Len(k) \in Nat /\ t <= Len(k) /\ t <= matched
  <2>1. k \in Keys /\ Len(k) \in Nat
    BY ReadyIs, LenIs
  <2> QED
    BY <2>1, MinOfTwo
<1>4. e.kv.off \in Nat /\ Len(e.rec) \in Nat
  BY <1>1, CacheIs
<1>5. new = IF skip THEN acc ELSE IF CanRestore(e, layer, k, t) THEN [acc EXCEPT !.cache = f] ELSE [acc EXCEPT !.stop = TRUE]
  BY DEF PageInLayer
<1> SUFFICES Fed(new, d, matched, lo, t, done \cup {layer})
  OBVIOUS
<1> HIDE DEF new
<1>6. lo = StartOffset(e.trie, k)
  BY <1>1, SameStart
<1>7. layer = "kv" /\ ~acc.stop /\ (~HasSnapshot(e.trie[k], layer) \/ ~CanRestore(e, layer, k, t)) => t = 0
  <2> SUFFICES ASSUME layer = "kv", ~acc.stop, ~HasSnapshot(e.trie[k], layer) \/ ~CanRestore(e, layer, k, t)
               PROVE  t = 0
    OBVIOUS
  <2>1. lo <= e.kv.off /\ "kv" \in ToSet(e.layers) /\ k \in DOMAIN e.trie
    BY <1>1 DEF Fed, Going
  <2>2. StartOffset(e.trie, k) <= e.kv.off
    BY <1>6, <2>1
  <2>3. ~HasSnapshot(e.trie[k], "kv") \/ ~CanRestore(e, "kv", k, t)
    OBVIOUS
  <2> HIDE DEF e
  <2> QED
    BY <1>1, <1>3, <2>1, <2>2, <2>3, KvIsFed
<1> DEFINE L == ToSet(d.layers)
<1>8. /\ ~acc.stop => Going(e.kv.off, Len(e.rec), L, matched, lo, t, done)
      /\ L \in SUBSET {"kv", "rec"} /\ done \in SUBSET L /\ layer \in L
  BY <1>1, <1>2 DEF Fed
<1>9. CASE skip
  <2>1. new = acc
    BY <1>5, <1>9
  <2>2. layer = "kv" /\ ~acc.stop => t <= e.kv.off
    BY <1>4, <1>7, <1>9 DEF Offset
  <2> HIDE DEF skip, L
  <2>3. ~acc.stop => Going(e.kv.off, Len(e.rec), L, matched, lo, t, done \cup {layer})
    <3> HIDE DEF e
    <3> QED
      BY <1>3, <1>4, <1>8, <2>2, FeedIs
  <2> QED
    BY <1>1, <2>1, <2>3 DEF Fed, L
<1>10. CASE ~skip /\ CanRestore(e, layer, k, t)
  <2>1. new = [acc EXCEPT !.cache = f]
    BY <1>5, <1>10
  <2>2. Moved(f, e, layer, t)
    <3>1. CanRestore(e, layer, k, t) /\ k \in DOMAIN e.trie /\ layer \in ToSet(e.layers)
      BY <1>1, <1>10
    <3> HIDE DEF e
    <3> QED
      BY <1>1, <3>1, RestoreIs
  <2>3. ~acc.stop /\ Offset(e, layer) < t
    BY <1>1, <1>2, <1>4, <1>10 DEF Offset
  <2> HIDE DEF f, skip
  <2>4. Stays(f, d) /\ f \in Cache
    BY <1>1, <2>2, StaysIs, ReadyIs DEF Moved, Stays
  <2>5. new.cache = f /\ new.stop = acc.stop /\ new \in [cache : Cache, stop : BOOLEAN]
    BY <1>1, <2>1, <2>4
  <2>6. Going(f.kv.off, Len(f.rec), L, matched, lo, t, done \cup {layer})
    <3> HIDE DEF e, L
    <3>1. CASE layer = "kv"
      <4>1. f.kv.off = t /\ f.rec = e.rec /\ e.kv.off < t
        BY <2>2, <2>3, <3>1 DEF Moved, Offset
      <4>2. Going(t, Len(e.rec), L, matched, lo, t, done \cup {layer})
        BY <1>3, <1>4, <1>8, <2>3, <3>1, <4>1, FeedIs
      <4> QED
        BY <4>1, <4>2
    <3>2. CASE layer = "rec"
      <4>1. Len(f.rec) = t /\ f.kv.off = e.kv.off /\ Len(e.rec) < t
        BY <2>2, <2>3, <3>2 DEF Moved, Offset
      <4>2. Going(e.kv.off, t, L, matched, lo, t, done \cup {layer})
        BY <1>3, <1>4, <1>8, <2>3, <3>2, <4>1, FeedIs
      <4> QED
        BY <4>1, <4>2
    <3> QED
      BY <1>2, <3>1, <3>2
  <2>7. ~new.stop
    BY <2>3, <2>5
  <2> QED
    BY <2>4, <2>5, <2>6, <2>7 DEF Fed, L
<1>11. CASE ~skip /\ ~CanRestore(e, layer, k, t)
  <2>1. new = [acc EXCEPT !.stop = TRUE]
    BY <1>5, <1>11
  <2>2. ~acc.stop /\ Offset(e, layer) < t
    BY <1>1, <1>2, <1>4, <1>11 DEF Offset
  <2>3. layer = "rec" /\ Len(e.rec) < t
    BY <1>2, <1>4, <1>7, <1>11, <2>2 DEF Offset
  <2>5. new.cache = e /\ new.stop /\ new \in [cache : Cache, stop : BOOLEAN]
    BY <1>1, <2>1
  <2> HIDE DEF skip, L
  <2>6. Stopped(e.kv.off, Len(e.rec), L, matched)
    <3> HIDE DEF e
    <3> QED
      BY <1>3, <1>4, <1>8, <2>2, <2>3, FeedIs
  <2> QED
    BY <1>1, <2>5, <2>6 DEF Fed, L
<1> QED
  BY <1>9, <1>10, <1>11

(* All layers fed from one node.                                            *)
LEMMA PageInNodeIs ==
    ASSUME NEW d, Ready(d), NEW matched \in Nat, NEW k \in DOMAIN d.trie, NEW t \in Nat, t = Min({Len(k), matched}),
           NEW lo \in Nat, lo = StartOffset(d.trie, k), NEW acc, Fed(acc, d, matched, lo, t, {})
    PROVE  Fed(PageInNode(acc, k, matched), d, matched, lo, t, ToSet(d.layers))
<1> DEFINE n == Len(d.layers)
           Done(i) == {d.layers[j] : j \in 1 .. i}
           G(i) == {a \in [cache : Cache, stop : BOOLEAN] : Fed(a, d, matched, lo, t, Done(i))}
           D == [i \in 0 .. n |-> G(i)]
           env == [key |-> k, matched |-> matched]
<1>1. n \in Nat /\ DOMAIN d.layers = 1 .. n /\ \A i \in 1 .. n : d.layers[i] \in ToSet(d.layers)
  BY ReadyIs, LayersAre DEF ToSet
<1>2. acc.cache.layers = d.layers /\ acc \in [cache : Cache, stop : BOOLEAN]
  BY DEF Fed, Stays
<1>3. PageInNode(acc, k, matched) = Paging!Fold(env, acc, d.layers)
  BY <1>2 DEF PageInNode, Paging!Fold, Paging!MapThenFoldSet, Paging!Greatest,
              FoldLeft, MapThenFoldSet, Max
<1>4. acc \in D[0]
  <2>1. Done(0) = {}
    OBVIOUS
  <2>2. acc \in G(0)
    BY <1>2, <2>1
  <2> QED
    BY <1>1, <2>2
<1>5. \A i \in 1 .. n : \A a \in D[i - 1] : PageInLayer(a, d.layers[i], env.key, env.matched) \in D[i]
  <2> TAKE i \in 1 .. n
  <2>1. D[i - 1] = G(i - 1) /\ D[i] = G(i)
    BY <1>1
  <2>2. ASSUME NEW a \in G(i - 1) PROVE PageInLayer(a, d.layers[i], k, matched) \in G(i)
    <3> DEFINE layer == d.layers[i]
               b == PageInLayer(a, layer, k, matched)
               done == Done(i - 1)
    <3>1. layer \in ToSet(d.layers) /\ done \in SUBSET ToSet(d.layers) /\ Done(i) = done \cup {layer}
      BY <1>1
    <3>2. Fed(a, d, matched, lo, t, done)
      OBVIOUS
    <3> HIDE DEF layer, done
    <3>3. Fed(b, d, matched, lo, t, done \cup {layer})
      BY <3>1, <3>2, PageInLayerIs
    <3>4. b \in [cache : Cache, stop : BOOLEAN]
      BY <3>3 DEF Fed
    <3>5. b \in G(i)
      <4> HIDE DEF b
      <4> QED
        BY <3>1, <3>3, <3>4
    <3> QED
      BY <3>5 DEF layer
  <2> QED
    BY <2>1, <2>2
<1>6. Paging!Fold(env, acc, d.layers) \in D[n]
  <2> HIDE DEF D, n, env
  <2> QED
    BY <1>1, <1>4, <1>5, Paging!FoldKeeps
<1>7. Fed(PageInNode(acc, k, matched), d, matched, lo, t, Done(n))
  <2>1. D[n] = G(n)
    BY <1>1
  <2>2. PageInNode(acc, k, matched) \in D[n]
    <3> HIDE DEF D, n
    <3> QED
      BY <1>3, <1>6
  <2> QED
    BY <2>1, <2>2
<1>8. Done(n) = ToSet(d.layers)
  BY <1>1 DEF ToSet
<1> HIDE DEF Done
<1> QED
  BY <1>7, <1>8

(* Before the next node all layers have been fed; and after the last.       *)
LEMMA FedIs ==
    ASSUME NEW d, Ready(d), NEW matched \in Nat, NEW lo \in Nat, NEW t \in Nat, NEW u \in Nat, NEW acc
    PROVE  /\ Fed(acc, d, matched, lo, t, ToSet(d.layers)) => Fed(acc, d, matched, t, u, {})
           /\ Fed(acc, d, matched, lo, 0, {}) => Fed(acc, d, matched, lo, u, {}) /\ Stays(acc.cache, d) /\ Behind(acc.cache, matched)
<1> DEFINE e == acc.cache
<1>1. ToSet(d.layers) \subseteq {"kv", "rec"}
  BY ReadyIs, LayersAre
<1>2. ASSUME NEW v, Fed(acc, d, matched, lo, t, v)
      PROVE  e \in Cache /\ Stays(e, d) /\ e.kv.off \in Nat /\ Len(e.rec) \in Nat /\ e.layers = d.layers
  <2>1. e \in Cache /\ Stays(e, d)
    BY <1>2 DEF Fed
  <2> HIDE DEF e
  <2> QED
    BY <2>1, CacheIs DEF Stays
<1>3. ASSUME Fed(acc, d, matched, lo, t, ToSet(d.layers)) PROVE Fed(acc, d, matched, t, u, {})
  BY <1>1, <1>2, <1>3 DEF Fed, Going
<1>4. ASSUME Fed(acc, d, matched, lo, 0, {})
      PROVE  Fed(acc, d, matched, lo, u, {}) /\ Stays(e, d) /\ Behind(e, matched)
  <2>1. e \in Cache /\ Stays(e, d)
    BY <1>4 DEF Fed
  <2>2. e.kv.off \in Nat /\ Len(e.rec) \in Nat /\ e.layers = d.layers
    <3> HIDE DEF e
    <3> QED
      BY <2>1, CacheIs DEF Stays
  <2>3. Fed(acc, d, matched, lo, u, {})
    BY <2>2, <1>4 DEF Fed, Going
  <2>4. Within(e.kv.off, Len(e.rec), ToSet(d.layers), matched)
        /\ ({"kv", "rec"} \subseteq ToSet(d.layers) => Len(e.rec) <= e.kv.off)
    BY <2>2, <1>4 DEF Fed, Going, Stopped
  <2> HIDE DEF e
  <2>5. Behind(e, matched)
    BY <1>1, <2>2, <2>4 DEF Within, Behind, Offset
  <2> QED
    BY <2>1, <2>3, <2>5
<1> QED
  BY <1>3, <1>4

(* The layers are fed up to what is matched of the path, and stay together. *)
LEMMA PageInIs ==
    ASSUME NEW d, Ready(d), NEW matched \in Nat, Behind(d, matched),
           NEW newPath, PathTo(DOMAIN d.trie, newPath),
           Last(newPath) = Root \/ StartOffset(d.trie, Last(newPath)) < matched
    PROVE  Stays(PageIn(d, newPath, matched), d) /\ Behind(PageIn(d, newPath, matched), matched)
<1> DEFINE n == Len(newPath)
           Fits(i) == IF i = 0 THEN 0 ELSE Min({Len(newPath[i]), matched})
           G(i) == {a \in [cache : Cache, stop : BOOLEAN] : Fed(a, d, matched, Fits(i), 0, {})}
           D == [i \in 0 .. n |-> G(i)]
           acc == [cache |-> d, stop |-> FALSE]
<1>0. DOMAIN d.trie \subseteq Keys /\ Root \in DOMAIN d.trie /\ Tree(DOMAIN d.trie)
  BY ReadyIs
<1>1. /\ n \in Nat \ {0} /\ DOMAIN newPath = 1 .. n /\ Last(newPath) = newPath[n] /\ newPath[1] = Root
      /\ \A i \in 1 .. n : newPath[i] \in DOMAIN d.trie /\ newPath[i] \in Keys /\ Len(newPath[i]) \in Nat
  <2>1. n \in Nat \ {0} /\ DOMAIN newPath = 1 .. n /\ Last(newPath) = newPath[n] /\ newPath[1] = Root
        /\ \A i \in 1 .. n : newPath[i] \in DOMAIN d.trie
    BY <1>0, PathIs
  <2> QED
    BY <1>0, <2>1, LenIs
<1>2. PageIn(d, newPath, matched) = PagingNodes!Fold(matched, acc, newPath).cache
  BY DEF PageIn, PagingNodes!Fold, PagingNodes!MapThenFoldSet, PagingNodes!Greatest,
              FoldLeft, MapThenFoldSet, Max
<1>3. \A i \in 0 .. n : Fits(i) \in Nat /\ Fits(i) <= matched
  BY <1>1, MinOfTwo
<1>4. acc \in D[0]
  <2>1. d \in Cache /\ ToSet(d.layers) \subseteq {"kv", "rec"} /\ d.kv.off \in Nat /\ Len(d.rec) \in Nat
    BY ReadyIs, CacheIs, LayersAre
  <2>2. acc \in [cache : Cache, stop : BOOLEAN] /\ acc.cache = d /\ ~acc.stop
    BY <2>1
  <2>3. Going(d.kv.off, Len(d.rec), ToSet(d.layers), matched, 0, 0, {})
    BY <2>1 DEF Behind, Going, Within, Offset
  <2> HIDE DEF acc
  <2>4. Fed(acc, d, matched, 0, 0, {})
    BY <2>2, <2>3, StaysItself DEF Fed
  <2>5. acc \in G(0)
    BY <2>2, <2>4
  <2> QED
    BY <1>1, <2>5
<1>5. \A i \in 1 .. n : Fits(i - 1) = StartOffset(d.trie, newPath[i])
  <2> TAKE i \in 1 .. n
  <2>1. CASE i = 1
    BY <1>1, <2>1 DEF StartOffset
  <2>2. CASE i # 1
    <3>1. i - 1 \in 1 .. n /\ StartOffset(d.trie, newPath[i]) = Len(newPath[i - 1]) /\ newPath[i] # Root
      BY <1>0, <1>1, <2>2, PathStart
    <3>2. Len(newPath[i - 1]) < matched
      <4>1. CASE i = n
        BY <1>1, <3>1, <4>1
      <4>2. CASE i # n
        <5>1. i \in DOMAIN newPath /\ i - 1 \in DOMAIN newPath /\ n - 1 \in DOMAIN newPath /\ n \in DOMAIN newPath /\ n # 1 /\ i - 1 < n - 1
          BY <1>1, <2>2, <4>2
        <5>2. StartOffset(d.trie, newPath[n]) = Len(newPath[n - 1]) /\ newPath[n] # Root
          BY <1>0, <5>1, PathStart
        <5>3. Len(newPath[i - 1]) < Len(newPath[n - 1])
          BY <5>1 DEF PathTo
        <5> QED
          BY <1>1, <5>1, <5>2, <5>3
      <4> QED
        BY <4>1, <4>2
    <3> QED
      BY <1>1, <2>2, <3>1, <3>2, MinOfTwo
  <2> QED
    BY <2>1, <2>2
<1>6. \A i \in 1 .. n : \A a \in D[i - 1] : PageInNode(a, newPath[i], matched) \in D[i]
  <2> TAKE i \in 1 .. n
  <2>1. D[i - 1] = G(i - 1) /\ D[i] = G(i)
    <3>1. n \in Nat
      BY <1>1
    <3> HIDE DEF G, n
    <3>2. i - 1 \in 0 .. n /\ i \in 0 .. n
      BY <3>1
    <3> QED
      BY <3>2
  <2>2. ASSUME NEW a \in G(i - 1) PROVE PageInNode(a, newPath[i], matched) \in G(i)
    <3> DEFINE k == newPath[i]
               b == PageInNode(a, k, matched)
               lo == Fits(i - 1)
               t == Fits(i)
    <3>1. k \in DOMAIN d.trie /\ lo = StartOffset(d.trie, k) /\ t = Min({Len(k), matched}) /\ lo \in Nat /\ t \in Nat
      <4>1. k \in DOMAIN d.trie /\ i \in 0 .. n /\ i - 1 \in 0 .. n /\ i # 0
        BY <1>1
      <4>2. lo = StartOffset(d.trie, k)
        BY <1>5
      <4>3. t = Min({Len(k), matched})
        BY <4>1
      <4> QED
        BY <1>3, <4>1, <4>2, <4>3
    <3>2. Fed(a, d, matched, lo, 0, {})
      OBVIOUS
    <3> HIDE DEF k, lo
    <3>3. t = Fits(i)
      OBVIOUS
    <3> HIDE DEF t
    <3>4. Fed(a, d, matched, lo, t, {})
      BY <3>1, <3>2, FedIs
    <3>5. Fed(b, d, matched, lo, t, ToSet(d.layers))
      BY <3>1, <3>4, PageInNodeIs
    <3>6. Fed(b, d, matched, t, 0, {})
      BY <3>1, <3>5, FedIs
    <3>7. b \in [cache : Cache, stop : BOOLEAN]
      BY <3>6 DEF Fed
    <3>8. b \in G(i)
      <4> HIDE DEF b, Fits
      <4> QED
        BY <3>3, <3>6, <3>7
    <3> QED
      BY <3>8 DEF k
  <2> QED
    BY <2>1, <2>2
<1>7. PagingNodes!Fold(matched, acc, newPath) \in D[n]
  <2>1. n \in Nat /\ DOMAIN newPath = 1 .. n
    BY <1>1
  <2> HIDE DEF D, n, acc
  <2> QED
    BY <1>4, <1>6, <2>1, PagingNodes!FoldKeeps
<1> DEFINE last == PagingNodes!Fold(matched, acc, newPath)
<1>8. Fed(last, d, matched, Fits(n), 0, {}) /\ Fits(n) \in Nat
  BY <1>1, <1>3, <1>7
<1> HIDE DEF last, Fits
<1>9. Stays(last.cache, d) /\ Behind(last.cache, matched)
  BY <1>8, FedIs
<1> QED
  BY <1>2, <1>9 DEF last

(* All layers go to the offset of the one furthest behind.                  *)
LEMMA AlignedIs ==
    ASSUME NEW e, Ready(e), NEW m \in Nat, Behind(e, m)
    PROVE  /\ Stays(Aligned(e), e) /\ At(Aligned(e), MinCacheOffset(e))
           /\ MinCacheOffset(e) \in Nat /\ MinCacheOffset(e) <= m
<1> DEFINE n == Len(e.layers)
           off == MinCacheOffset(e)
           G(i) == {f \in Cache : /\ Stays(f, e)
                                  /\ \A layer \in ToSet(e.layers) : CanRewind(f, layer, off)
                                  /\ \A j \in 1 .. i : Offset(f, e.layers[j]) = off}
           D == [i \in 0 .. n |-> G(i)]
<1>1. /\ n \in Nat /\ DOMAIN e.layers = 1 .. n /\ e \in Cache /\ ToSet(e.layers) \subseteq {"kv", "rec"}
      /\ \A i \in 1 .. n : e.layers[i] \in ToSet(e.layers)
      /\ e.kv.off \in Nat /\ Len(e.rec) \in Nat
  BY ReadyIs, LayersAre, CacheIs DEF ToSet
<1>2. /\ off \in Nat /\ off <= m
      /\ \A layer \in ToSet(e.layers) : off <= Offset(e, layer)
      /\ \E layer \in ToSet(e.layers) : off = Offset(e, layer)
  <2>1. /\ off \in Nat /\ \A layer \in ToSet(e.layers) : off <= Offset(e, layer) /\ Offset(e, layer) \in Nat
        /\ \E layer \in ToSet(e.layers) : off = Offset(e, layer)
    BY <1>1, MinOffsetIs
  <2> HIDE DEF off
  <2> QED
    BY <2>1 DEF Behind
<1>3. \A layer \in ToSet(e.layers) : CanRewind(e, layer, off)
  <2> HIDE DEF off
  <2> QED
    BY <1>1, <1>2 DEF CanRewind, Behind, Offset
<1>4. Aligned(e) = Aligning!Fold(off, e, e.layers)
  <2>1. Aligned(e) = FoldLeft(LAMBDA f, layer : Rewind(f, layer, off), e, e.layers)
    BY <1>3 DEF Aligned
  <2> HIDE DEF off
  <2> QED
    BY <2>1 DEF Aligning!Fold, Aligning!MapThenFoldSet, Aligning!Greatest,
                FoldLeft, MapThenFoldSet, Max
<1> HIDE DEF off
<1>5. e \in D[0]
  <2>1. e \in G(0)
    BY <1>1, <1>3, StaysItself
  <2> QED
    BY <1>1, <2>1
<1>6. \A i \in 1 .. n : \A f \in D[i - 1] : Rewind(f, e.layers[i], off) \in D[i]
  <2> TAKE i \in 1 .. n
  <2>1. D[i - 1] = G(i - 1) /\ D[i] = G(i)
    BY <1>1
  <2>2. ASSUME NEW f \in G(i - 1) PROVE Rewind(f, e.layers[i], off) \in G(i)
    <3> DEFINE layer == e.layers[i]
               g == Rewind(f, layer, off)
    <3>1. layer \in ToSet(e.layers) /\ layer \in {"kv", "rec"}
      BY <1>1
    <3>2. Ready(f) /\ Stays(f, e) /\ CanRewind(f, layer, off)
      BY <3>1 DEF Stays
    <3>3. \A j \in 1 .. i - 1 : Offset(f, e.layers[j]) = off
      OBVIOUS
    <3>4. \A x \in ToSet(e.layers) : CanRewind(f, x, off)
      OBVIOUS
    <3>5. e.layers[i] = layer
      OBVIOUS
    <3> HIDE DEF layer
    <3>6. Moved(g, f, layer, off)
      BY <1>2, <3>1, <3>2, RewindIs
    <3> HIDE DEF g
    <3>7. Offset(g, layer) = off /\ \A x \in {"kv", "rec"} : x # layer => Offset(g, x) = Offset(f, x)
      BY <3>1, <3>6, MovedOffset, ZenonT(30)
    <3>8. Stays(g, e) /\ g \in Cache
      BY <3>2, <3>6, StaysIs, ReadyIs DEF Moved, Stays
    <3>9. \A x \in ToSet(e.layers) : CanRewind(g, x, off)
      BY <1>1, <1>2, <3>4, <3>7 DEF CanRewind, Offset
    <3>10. ASSUME NEW j \in 1 .. i PROVE Offset(g, e.layers[j]) = off
      <4>1. e.layers[j] \in {"kv", "rec"}
        BY <1>1
      <4>2. j # i => j \in 1 .. i - 1
        OBVIOUS
      <4> QED
        BY <3>3, <3>5, <3>7, <4>1, <4>2
    <3>11. g \in G(i)
      BY <3>8, <3>9, <3>10
    <3> QED
      BY <3>5, <3>11 DEF g
  <2> QED
    BY <2>1, <2>2
<1>7. Aligning!Fold(off, e, e.layers) \in D[n]
  <2> HIDE DEF D, n
  <2> QED
    BY <1>1, <1>5, <1>6, Aligning!FoldKeeps
<1>8. Aligned(e) \in G(n)
  <2>1. D[n] = G(n)
    BY <1>1
  <2> HIDE DEF D
  <2> QED
    BY <1>4, <1>7, <2>1
<1> DEFINE a == Aligned(e)
<1>9. Stays(a, e) /\ \A j \in 1 .. n : Offset(a, e.layers[j]) = off
  BY <1>8
<1> HIDE DEF a
<1>10. At(a, off)
  <2>1. a.layers = e.layers
    BY <1>9 DEF Stays
  <2> QED
    BY <1>1, <1>9, <2>1 DEF At, ToSet
<1> QED
  BY <1>2, <1>9, <1>10 DEF a, off

(* The operations on the trie leave the layers where they are.              *)
LEMMA SameAt ==
    ASSUME NEW d, NEW e, Same(e, d), NEW m
    PROVE  (At(d, m) => At(e, m)) /\ MinCacheOffset(e) = MinCacheOffset(d)
BY DEF Same, At, Offset, MinCacheOffset

(* The path ends where the layers are.                                      *)
LEMMA CutPathIs ==
    ASSUME NEW d, Ready(d), NEW newPath, PathTo(DOMAIN d.trie, newPath), NEW off \in Nat, off <= Len(Last(newPath))
    PROVE  /\ Ready(CutPath(d, newPath, off)) /\ Same(CutPath(d, newPath, off), d)
           /\ Len(Last(CutPath(d, newPath, off).path)) = off
<1> DEFINE n == Len(newPath)
           S == {1} \cup {x \in DOMAIN newPath : StartOffset(d.trie, newPath[x]) < off}
           i == Max(S)
           k == newPath[i]
           p == IF Len(k) > off THEN SubSeq(k, 1, off) ELSE k
           e == IF Len(k) > off THEN SplitNode(d, k, off) ELSE d
           q == Until(newPath, i, p)
<1>0. Sound(d) /\ DOMAIN d.trie \subseteq Keys /\ Root \in DOMAIN d.trie /\ Tree(DOMAIN d.trie) /\ Held(d, {})
      /\ Nodes(d.trie, Len(d.kv.buf)) /\ Len(d.kv.buf) \in Nat
  BY ReadyIs
<1>1. /\ n \in Nat \ {0} /\ DOMAIN newPath = 1 .. n /\ Last(newPath) = newPath[n] /\ newPath[1] = Root
      /\ \A x \in 1 .. n : newPath[x] \in DOMAIN d.trie /\ newPath[x] \in Keys /\ Len(newPath[x]) \in Nat
                           /\ StartOffset(d.trie, newPath[x]) \in Nat
  <2>1. n \in Nat \ {0} /\ DOMAIN newPath = 1 .. n /\ Last(newPath) = newPath[n] /\ newPath[1] = Root
        /\ \A x \in 1 .. n : newPath[x] \in DOMAIN d.trie
    BY <1>0, PathIs
  <2> QED
    BY <1>0, <2>1, LenIs, StartIs
<1>2. i \in 1 .. n /\ i \in S /\ \A x \in S : x <= i
  <2>1. S \in SUBSET (0 .. n) /\ S # {} /\ S \subseteq 1 .. n
    BY <1>1
  <2> HIDE DEF S
  <2> QED
    BY <1>1, <2>1, MaxIs
<1>3. CutPath(d, newPath, off) = WithPath(e, q)
  BY DEF CutPath, WithPath, Until
<1>4. i = 1 \/ StartOffset(d.trie, newPath[i]) < off
  BY <1>2
<1>5. i # n => off <= StartOffset(d.trie, newPath[i + 1])
  <2>1. i # n => i + 1 \in 1 .. n /\ i + 1 \notin S
    <3> HIDE DEF S, i
    <3>1. ASSUME i # n PROVE i + 1 \in 1 .. n /\ i + 1 \notin S
      <4>0. n \in Nat /\ i \in 1 .. n
        BY <1>1, <1>2
      <4> HIDE DEF n
      <4>1. i + 1 \in 1 .. n /\ ~(i + 1 <= i)
        BY <3>1, <4>0
      <4> QED
        BY <1>2, <4>1
    <3> QED
      BY <3>1
  <2> QED
    BY <1>1, <2>1
<1> HIDE DEF S, i
<1>6. k \in DOMAIN d.trie /\ k \in Keys /\ Len(k) \in Nat /\ StartOffset(d.trie, k) \in Nat
  BY <1>1, <1>2
<1>7. off <= Len(k)
  <2>1. CASE i = n
    BY <1>1, <2>1
  <2>2. CASE i # n
    <3>1. i + 1 \in DOMAIN newPath /\ i + 1 # 1 /\ i + 1 - 1 = i
      <4>1. n \in Nat /\ i \in 1 .. n /\ i # n
        BY <1>1, <1>2, <2>2
      <4> HIDE DEF n, i
      <4>2. i + 1 \in 1 .. n /\ i + 1 # 1 /\ i + 1 - 1 = i
        BY ONLY <4>1
      <4> QED
        BY <1>1, <4>2
    <3>2. StartOffset(d.trie, newPath[i + 1]) = Len(newPath[i])
      <4> DEFINE j == i + 1
      <4>1. j \in DOMAIN newPath /\ j # 1 /\ j - 1 = i
        BY <1>2, <3>1
      <4> HIDE DEF j
      <4>2. StartOffset(d.trie, newPath[j]) = Len(newPath[j - 1])
        BY <1>0, <4>1, PathStart
      <4> QED
        BY <4>1, <4>2 DEF j
    <3> QED
      BY <1>5, <2>2, <3>1, <3>2
  <2> QED
    BY <2>1, <2>2
<1>8. Len(k) > off => i # 1 /\ StartOffset(d.trie, k) < off
  <2>1. Len(Root) = 0
    BY LenIs DEF Root, Keys
  <2> QED
    BY <1>1, <1>4, <2>1
<1>9. /\ p \in Keys /\ Len(p) = off /\ Sound(e) /\ Same(e, d) /\ Held(e, {}) /\ PathTo(DOMAIN e.trie, q) /\ Last(q) = p
  <2>1. CASE Len(k) > off
    <3> DEFINE U == SplitTrie(d.trie, k, off)
    <3>1. p = SubSeq(k, 1, off) /\ e = SplitNode(d, k, off)
      BY <2>1
    <3>2. Sound(e) /\ Same(e, d) /\ e.trie = U /\ Held(e, {})
      <4> HIDE DEF k, p, e, q
      <4> QED
        BY <1>0, <1>6, <1>8, <2>1, <3>1, SplitNodeIs
    <3>3. SplitResult(U, d.trie, k, off, Len(d.kv.buf))
      <4> HIDE DEF k, p, e, q
      <4> QED
        BY <1>0, <1>6, <1>8, <2>1, SplitTrieIs
    <3> HIDE DEF U
    <3>4. DOMAIN U = DOMAIN d.trie \cup {p} /\ p \in Keys \ DOMAIN d.trie /\ Len(p) = off /\ IsStrictPrefix(p, k)
      BY <3>1, <3>3 DEF SplitResult, EdgeCut
    <3>5. i \in DOMAIN newPath /\ i # 1 /\ newPath[i - 1] \in Keys /\ newPath[i - 1] \in DOMAIN d.trie
          /\ StartOffset(d.trie, k) = Len(newPath[i - 1]) /\ IsStrictPrefix(newPath[i - 1], newPath[i])
      <4>1. i # 1 /\ i \in DOMAIN newPath /\ i - 1 \in DOMAIN newPath /\ i - 1 < i
        BY <1>1, <1>2, <1>8, <2>1
      <4>2. StartOffset(d.trie, newPath[i]) = Len(newPath[i - 1])
        BY <1>0, <4>1, PathStart
      <4>3. IsStrictPrefix(newPath[i - 1], newPath[i])
        BY <1>0, <4>1, PathIs
      <4> QED
        BY <1>1, <4>1, <4>2, <4>3
    <3>6. IsStrictPrefix(newPath[i - 1], p)
      <4>1. IsPrefix(newPath[i - 1], k) /\ IsPrefix(p, k) /\ Len(newPath[i - 1]) < Len(p)
        BY <1>6, <1>8, <2>1, <3>4, <3>5, StrictIs
      <4> HIDE DEF k, p, e, q
      <4>2. IsPrefix(newPath[i - 1], p)
        BY <1>6, <3>4, <3>5, <4>1, LenIs, Nested
      <4> QED
        BY <3>4, <3>5, <4>1, <4>2, StrictIs
    <3>7. PathTo(DOMAIN U, q) /\ Last(q) = p
      <4>1. IsStrictPrefix(p, newPath[i])
        BY <3>4
      <4> HIDE DEF k, p, e
      <4>2. PathTo(DOMAIN d.trie \cup {p}, q) /\ Last(q) = p
        BY <1>0, <3>4, <3>5, <3>6, <4>1, PathUntil
      <4> QED
        BY <3>4, <4>2
    <3> HIDE DEF p, e, q
    <3> QED
      BY <3>2, <3>4, <3>7
  <2>2. CASE ~(Len(k) > off)
    <3>1. p = newPath[i] /\ e = d /\ Len(p) = off
      BY <1>6, <1>7, <2>2
    <3>2. PathTo(DOMAIN d.trie, q) /\ Last(q) = p
      <4>1. DOMAIN d.trie = DOMAIN d.trie \cup {p} /\ p \in Keys /\ i \in DOMAIN newPath /\ p = newPath[i]
        BY <1>1, <1>2, <3>1
      <4> HIDE DEF p
      <4>2. PathTo(DOMAIN d.trie \cup {p}, q) /\ Last(q) = p
        BY <1>0, <4>1, PathUntil
      <4> QED
        BY <4>1, <4>2
    <3>3. Same(d, d) /\ p \in Keys
      BY <1>1, <1>2, <3>1 DEF Same
    <3> HIDE DEF p, e, q
    <3> QED
      BY <1>0, <3>1, <3>2, <3>3
  <2> QED
    BY <2>1, <2>2
<1> HIDE DEF p, e, q
<1>10. q \in Seq(Keys)
  <2>1. q \in Seq(DOMAIN e.trie) /\ DOMAIN e.trie \subseteq Keys
    BY <1>9, CacheIs DEF PathTo, Sound
  <2> QED
    BY <2>1
<1> DEFINE f == WithPath(e, q)
<1>11. Sound(f) /\ Same(f, e) /\ f.trie = e.trie /\ f.path = q
  BY <1>9, <1>10, PathChange
<1> HIDE DEF f
<1>12. Ready(f) /\ Same(f, d)
  BY <1>9, <1>11 DEF Ready, Held, Same
<1> QED
  BY <1>3, <1>9, <1>11, <1>12 DEF f

(* All layers are at the end of the path.                                   *)
Rests(d) == At(d, Len(Last(d.path)))

(* What an operation leaves a session as it was.                            *)
Keeps(e, d) ==
    Ready(e) /\ e.layers = d.layers /\ e.captures = d.captures /\ e.panicked = d.panicked

(* Two such changes are one.                                                *)
LEMMA KeepsIs ==
    ASSUME NEW d, NEW e, NEW f, Keeps(e, d), Keeps(f, e)
    PROVE  Keeps(f, d)
BY DEF Keeps

(* What stays is kept.                                                      *)
LEMMA StaysKeeps == ASSUME NEW d, NEW e, Stays(e, d) PROVE Keeps(e, d) /\ Ready(e)
BY DEF Stays, Keeps

(* What follows is kept.                                                    *)
LEMMA FollowsKeeps ==
    ASSUME NEW d, NEW e, Follows(e, d)
    PROVE  /\ Keeps(e, d) /\ Ready(e) /\ Same(e, d) /\ Last(e.path) = Last(d.path)
           /\ MinCacheOffset(e) = MinCacheOffset(d) /\ \A m : At(d, m) => At(e, m)
<1>1. Ready(e) /\ Same(e, d) /\ Last(e.path) = Last(d.path)
  BY DEF Follows
<1>2. MinCacheOffset(e) = MinCacheOffset(d) /\ \A m : At(d, m) => At(e, m)
  BY <1>1, SameAt
<1> QED
  BY <1>1, <1>2 DEF Keeps, Same

(* A request goes over to the path that matches it: the layers are at its   *)
(* end, and not further than what is matched.                               *)
Resumed(e, d, matched) ==
    /\ Keeps(e, d) /\ Rests(e)
    /\ Len(Last(e.path)) \in Nat /\ Len(Last(e.path)) <= matched

(* switchToPath: the layers rest at the end of the path, no further than    *)
(* what matches.                                                            *)
LEMMA SwitchToPathIs ==
    ASSUME NEW d, Ready(d), NEW m \in Nat, At(d, m), NEW newPath, PathTo(DOMAIN d.trie, newPath),
           NEW matched \in Nat, matched <= Len(Last(newPath)),
           Last(newPath) = Root \/ StartOffset(d.trie, Last(newPath)) < matched
    PROVE  Resumed(SwitchToPath(d, newPath, matched), d, matched)
<1> DEFINE common == LongestCommonPrefix({d.path, newPath})
           ancestorOffset == IF common = <<>> THEN 0 ELSE Len(Last(common))
           target == RewindTarget(ancestorOffset, matched)
           r == Rewound(d, target)
           p == PageIn(r, newPath, matched)
           a == Aligned(p)
           off == MinCacheOffset(p)
           cut == CutPath(a, newPath, off)
           t == Touch(cut, Last(cut.path))
           e == EnforceEvictionPolicy(t)
<1>0. SwitchToPath(d, newPath, matched) = e
  BY DEF SwitchToPath
<1>1. ancestorOffset \in Nat
  <2>1. common \in Seq(Keys)
    <3>1. d.path \in Seq(Keys) /\ newPath \in Seq(Keys)
      BY ReadyIs, CacheIs DEF PathTo
    <3> QED
      BY <3>1, CommonPath
  <2> HIDE DEF common
  <2>2. common # <<>> => Last(common) \in Keys
    BY <2>1 DEF Last
  <2> QED
    BY <2>2, LenIs
<1> HIDE DEF ancestorOffset
<1>2. target \in Nat /\ target <= matched
  BY <1>1, MinOfTwo DEF RewindTarget
<1> HIDE DEF target
<1>3. Stays(r, d) /\ Behind(r, target)
  BY <1>2, RewoundIs
<1> HIDE DEF r
<1>4. Behind(r, matched) /\ Ready(r) /\ DOMAIN r.trie = DOMAIN d.trie
  <2>1. Ready(r) /\ DOMAIN r.trie = DOMAIN d.trie
    BY <1>3 DEF Stays
  <2>2. \A layer \in ToSet(r.layers) : Offset(r, layer) \in Nat
    BY <2>1, ReadyIs, MinOffsetIs
  <2> QED
    BY <1>2, <1>3, <2>1, <2>2 DEF Behind
<1>5. Stays(p, r) /\ Behind(p, matched)
  <2>1. PathTo(DOMAIN r.trie, newPath) /\ (Last(newPath) = Root \/ StartOffset(r.trie, Last(newPath)) < matched)
    BY <1>4, SameStart
  <2> QED
    BY <1>4, <2>1, PageInIs
<1> HIDE DEF p
<1>6. Stays(a, p) /\ At(a, off) /\ off \in Nat /\ off <= matched
  <2>1. Ready(p)
    BY <1>5 DEF Stays
  <2> QED
    BY <1>5, <2>1, AlignedIs
<1> HIDE DEF a, off
<1>7. Keeps(a, d) /\ Ready(a) /\ DOMAIN a.trie = DOMAIN d.trie
  BY <1>3, <1>5, <1>6, StaysKeeps, KeepsIs DEF Stays
<1>8. Ready(cut) /\ Same(cut, a) /\ Len(Last(cut.path)) = off
  <2>1. PathTo(DOMAIN a.trie, newPath)
    BY <1>7
  <2>2. Last(newPath) \in Keys
    <3>1. newPath \in Seq(DOMAIN d.trie) /\ newPath # <<>> /\ DOMAIN d.trie \subseteq Keys
      BY ReadyIs DEF PathTo
    <3> QED
      BY <3>1 DEF Last
  <2>3. off <= Len(Last(newPath))
    BY <1>6, <2>2, LenIs
  <2> QED
    BY <1>6, <1>7, <2>1, <2>3, CutPathIs
<1> HIDE DEF cut
<1>9. At(cut, off) /\ Keeps(cut, d)
  <2>1. Keeps(cut, a)
    BY <1>8 DEF Keeps, Same
  <2> QED
    BY <1>6, <1>7, <1>8, <2>1, KeepsIs, SameAt
<1>10. Follows(t, cut)
  <2>1. Last(cut.path) \in DOMAIN cut.trie
    BY <1>8, ReadyIs
  <2> QED
    BY <1>8, <2>1, TouchFollows
<1> HIDE DEF t
<1>11. Follows(e, t)
  <2>1. Ready(t)
    BY <1>10 DEF Follows
  <2> QED
    BY <2>1, EnforceIs
<1> HIDE DEF e
<1>12. Follows(e, cut)
  BY <1>10, <1>11, FollowsIs
<1>13. Keeps(e, cut) /\ Last(e.path) = Last(cut.path) /\ At(e, off)
  BY <1>9, <1>12, FollowsKeeps
<1>14. Keeps(e, d)
  BY <1>9, <1>13, KeepsIs
<1> QED
  BY <1>0, <1>6, <1>8, <1>13, <1>14 DEF Resumed, Rests

-----------------------------------------------------------------------------
(* Growing the trie.                                                        *)

(* compactPath keeps the end of the path.                                   *)
LEMMA CompactPathIs ==
    ASSUME NEW d, Ready(d)
    PROVE  Follows(CompactPath(d), d)
<1> DEFINE parent == d.path[Len(d.path) - 1]
<1>1. CASE CompactPath(d) = d
  BY <1>1, FollowsItself
<1>2. CASE CompactPath(d) # d
  <2>1. ~(Len(d.path) < 2) /\ parent # Root /\ Cardinality(Children(d.trie, parent)) = 1
        /\ CompactPath(d) = MergeWithChild(d, parent)
    BY <1>2 DEF CompactPath
  <2>2. /\ Len(d.path) \in Nat \ {0} /\ DOMAIN d.path = 1 .. Len(d.path) /\ Last(d.path) = d.path[Len(d.path)]
        /\ \A i \in DOMAIN d.path : d.path[i] \in DOMAIN d.trie
        /\ \A i, j \in DOMAIN d.path : d.path[i] = d.path[j] => i = j
    BY ReadyIs, PathIs
  <2>3. Len(d.path) - 1 \in DOMAIN d.path /\ Len(d.path) \in DOMAIN d.path /\ Len(d.path) - 1 # Len(d.path)
    BY <2>1, <2>2
  <2>4. parent \in DOMAIN d.trie /\ parent # Last(d.path)
    BY <2>2, <2>3
  <2> HIDE DEF parent
  <2> QED
    BY <2>1, <2>4, MergeWithChildIs
<1> QED
  BY <1>1, <1>2

(* A cache whose path may end in a node that has no snapshot yet.           *)
Open(d) ==
    Sound(d) /\ PathTo(DOMAIN d.trie, d.path) /\ Held(d, {Last(d.path)})

(* A cache that lacks the snapshot of the path's end, field by field.       *)
LEMMA OpenIs ==
    ASSUME NEW d, Open(d)
    PROVE  /\ Sound(d) /\ PathTo(DOMAIN d.trie, d.path) /\ Held(d, {Last(d.path)}) /\ d \in Cache
           /\ Nodes(d.trie, Len(d.kv.buf)) /\ Len(d.kv.buf) \in Nat /\ d.kv.buf \in Seq(Keys)
           /\ d.bytes = Total(d.trie)
           /\ Table(d.trie) /\ Tree(DOMAIN d.trie) /\ DOMAIN d.trie \subseteq Keys /\ Root \in DOMAIN d.trie
           /\ Last(d.path) \in DOMAIN d.trie /\ Last(d.path) \in Keys
<1>1. Sound(d) /\ PathTo(DOMAIN d.trie, d.path) /\ Held(d, {Last(d.path)})
  BY DEF Open
<1>2. d \in Cache /\ Nodes(d.trie, Len(d.kv.buf)) /\ d.bytes = Total(d.trie)
  BY <1>1 DEF Sound
<1>3. Len(d.kv.buf) \in Nat /\ d.kv.buf \in Seq(Keys)
  BY <1>2, CacheIs
<1>4. Table(d.trie) /\ Tree(DOMAIN d.trie) /\ DOMAIN d.trie \subseteq Keys /\ Root \in DOMAIN d.trie
  BY <1>2, <1>3, NodesIs
<1>5. Last(d.path) \in DOMAIN d.trie
  BY <1>1, <1>4, PathIs
<1> QED
  BY <1>1, <1>2, <1>3, <1>4, <1>5

(* One that lacks none is such a cache.                                     *)
LEMMA ReadyOpen == ASSUME NEW d, Ready(d) PROVE Open(d)
BY DEF Ready, Open, Held, Filled

(* A node may have the snapshots of its edge and the state at its end.      *)
Suits(node, T, k, n) ==
    /\ node \in Node /\ Fine(node.kv, n) /\ Spans(node.kv, StartOffset(T, k), Len(k))
    /\ node.rec # <<>> => Len(node.rec) = Len(k)

(* U is T with another node at k.                                           *)
Changed(U, T, k, node, n) ==
    /\ Nodes(U, n) /\ DOMAIN U = DOMAIN T
    /\ U[k] = node /\ \A j \in DOMAIN T \ {k} : U[j] = T[j]
    /\ Total(U) = Total(T) - SnapshotBytes(T[k]) + SnapshotBytes(node)

(* A node replaced by one that suits its edge.                              *)
LEMMA PutNode ==
    ASSUME NEW n \in Nat, NEW T, Nodes(T, n), NEW k \in DOMAIN T, NEW node, Suits(node, T, k, n)
    PROVE  Changed(Put(T, k, node), T, k, node, n)
<1> DEFINE U == Put(T, k, node)
<1>1. IsPut(U, T, k, node)
  BY NodesIs, PutIs DEF Suits
<1> HIDE DEF U
<1>2. /\ DOMAIN U = DOMAIN T /\ Table(U) /\ U[k] = node /\ \A j \in DOMAIN T \ {k} : U[j] = T[j]
      /\ Total(U) = Total(T) - SnapshotBytes(T[k]) + SnapshotBytes(node)
  BY <1>1 DEF IsPut, BytesAt
<1>3. Tree(DOMAIN U)
  BY <1>2, NodesIs
<1>4. ASSUME NEW j \in DOMAIN U PROVE NodeIs(U, j, n)
  <2>1. StartOffset(U, j) = StartOffset(T, j)
    BY <1>2, SameStart
  <2>2. CASE j = k
    BY <1>2, <2>1, <2>2 DEF NodeIs, Suits
  <2>3. CASE j # k
    <3>1. NodeIs(T, j, n) /\ U[j] = T[j]
      BY <1>2, <2>3, NodesIs
    <3> QED
      BY <2>1, <3>1 DEF NodeIs
  <2> QED
    BY <2>2, <2>3
<1>5. Nodes(U, n)
  BY <1>2, <1>3, <1>4 DEF Nodes
<1> QED
  BY <1>2, <1>5 DEF Changed, U

SetNode(d, k, node) ==
    [d EXCEPT !.trie[k] = node, !.bytes = @ - SnapshotBytes(d.trie[k]) + SnapshotBytes(node)]

Reset(e, d, k, node) ==
    /\ Open(e) /\ Same(e, d) /\ e.path = d.path /\ DOMAIN e.trie = DOMAIN d.trie
    /\ node.kv # NoSnapshot \/ "kv" \notin ToSet(d.layers) => Ready(e)

(* The end of the path given a node that suits its edge.                    *)
LEMMA SetNodeIs ==
    ASSUME NEW d, Open(d), NEW k, k = Last(d.path), NEW node, Suits(node, d.trie, k, Len(d.kv.buf))
    PROVE  Reset(SetNode(d, k, node), d, k, node)
<1> DEFINE T == d.trie
           U == Put(T, k, node)
           e == SetNode(d, k, node)
           n == Len(d.kv.buf)
<1>1. /\ Sound(d) /\ PathTo(DOMAIN T, d.path) /\ Held(d, {k}) /\ d \in Cache
      /\ Nodes(T, n) /\ n \in Nat /\ d.bytes = Total(T) /\ k \in DOMAIN T
  BY OpenIs
<1>2. Changed(U, T, k, node, n)
  <2> HIDE DEF n
  <2> QED
    BY <1>1, PutNode DEF n
<1>3. e = WithTrie(d, U)
  <2>1. U = [T EXCEPT ![k] = node]
    BY <1>1 DEF Put, Nodes, Table
  <2>2. Total(U) = d.bytes - SnapshotBytes(T[k]) + SnapshotBytes(node)
    BY <1>1, <1>2 DEF Changed
  <2> HIDE DEF U
  <2> QED
    BY <1>1, <2>1, <2>2 DEF SetNode, WithTrie, Cache
<1> HIDE DEF U, e
<1>4. Nodes(U, n) /\ DOMAIN U = DOMAIN T /\ U[k] = node /\ \A j \in DOMAIN T \ {k} : U[j] = T[j]
  BY <1>2 DEF Changed
<1>5. Sound(e) /\ Same(e, d) /\ e.trie = U /\ e.path = d.path
  BY <1>1, <1>3, <1>4, TrieChange
<1>6. Held(e, {k})
  BY <1>1, <1>4, <1>5 DEF Held, Filled, Same
<1>7. Open(e)
  BY <1>1, <1>4, <1>5, <1>6 DEF Open
<1>8. (node.kv # NoSnapshot \/ "kv" \notin ToSet(d.layers)) => Held(e, {})
  BY <1>4, <1>5, <1>6 DEF Held, Filled, Same
<1>9. PathTo(DOMAIN e.trie, e.path)
  BY <1>1, <1>4, <1>5
<1> QED
  BY <1>4, <1>5, <1>7, <1>8, <1>9 DEF Reset, Ready, e

(* A new node below the others of its key.                                  *)
GrowResult(U, T, q, key, n) ==
    /\ Nodes(U, n) /\ DOMAIN U = DOMAIN T \cup {key} /\ key \notin DOMAIN T /\ key # Root
    /\ StartOffset(U, key) = Len(q)
    /\ Filled(T, {}) => Filled(U, {key})
    /\ Total(U) = Total(T)

(* A node added without snapshots is the only one that lacks them.          *)
LEMMA GrowNodes ==
    ASSUME NEW n \in Nat, NEW T, Nodes(T, n), NEW q \in DOMAIN T, NEW key \in Keys, IsPrefix(q, key), Len(q) < Len(key),
           \A j \in DOMAIN T : Common(j, key) <= Len(q), NEW used \in Nat
    PROVE  GrowResult(Put(T, key, NewNode(used)), T, q, key, n)
<1> DEFINE U == Put(T, key, NewNode(used))
           node == NewNode(used)
<1>1. node \in Node /\ Table(T) /\ Tree(DOMAIN T)
  BY NewNodeIs, NodesIs
<1>2. node.kv = NoSnapshot /\ node.rec = <<>>
  BY DEF NewNode
<1>3. SnapshotBytes(node) = 0
  BY <1>2 DEF SnapshotBytes, KvSize, RecSize, NoSnapshot
<1> HIDE DEF node
<1>4. IsPut(U, T, key, node)
  BY <1>1, PutIs DEF node
<1> HIDE DEF U
<1>5. /\ DOMAIN U = DOMAIN T \cup {key} /\ Table(U) /\ U[key] = node /\ \A j \in DOMAIN T \ {key} : U[j] = T[j]
      /\ Total(U) = Total(T) - BytesAt(T, key) + SnapshotBytes(node) /\ Total(T) \in Int
  BY <1>4 DEF IsPut
<1>6. /\ key \notin DOMAIN T /\ key # Root /\ Tree(DOMAIN U) /\ StartOffset(U, key) = Len(q)
      /\ \A j \in DOMAIN T : StartOffset(U, j) = StartOffset(T, j)
  <2>1. EdgeNew(U, T, q, key)
    BY <1>1, <1>5, GrowTree
  <2> QED
    BY <2>1 DEF EdgeNew
<1>7. Total(U) = Total(T)
  BY <1>3, <1>5, <1>6 DEF BytesAt
<1>8. ASSUME NEW j \in DOMAIN U PROVE NodeIs(U, j, n)
  <2>1. CASE j = key
    BY <1>2, <1>5, <2>1, NoSnapshotIs DEF NodeIs, Spans
  <2>2. CASE j # key
    <3>1. j \in DOMAIN T /\ U[j] = T[j] /\ StartOffset(U, j) = StartOffset(T, j) /\ NodeIs(T, j, n)
      BY <1>5, <1>6, <2>2, NodesIs
    <3> QED
      BY <3>1 DEF NodeIs
  <2> QED
    BY <2>1, <2>2
<1>9. Nodes(U, n)
  BY <1>5, <1>6, <1>8 DEF Nodes
<1>10. Filled(T, {}) => Filled(U, {key})
  BY <1>5, <1>6 DEF Filled
<1> QED
  BY <1>5, <1>6, <1>7, <1>9, <1>10 DEF GrowResult, U, node

(* Where a path ends when it has been walked from frontier to key, a node   *)
(* being added at key if there is none.                                     *)
Grown(e, walked, key) ==
    IF Last(walked) = key THEN WithPath(e, walked)
    ELSE [e EXCEPT !.path = Append(walked, key),
                   !.trie = Put(@, key, NewNode(@[Last(walked)].used))]

Advanced(g, d, frontier, key) ==
    /\ Open(g) /\ Same(g, d) /\ Last(g.path) = key /\ Len(frontier) <= StartOffset(g.trie, key)

(* An edge begins no earlier than any node above it ends.                   *)
LEMMA StartBehind ==
    ASSUME NEW T, DOMAIN T \subseteq Keys, Root \in DOMAIN T, NEW o \in DOMAIN T, NEW k \in Keys, IsStrictPrefix(o, k)
    PROVE  Len(o) <= StartOffset(T, k)
<1>1. k # Root
  BY StrictIs, LenIs
<1>2. IsPrefix(o, ParentOf(T, k)) /\ ParentOf(T, k) \in DOMAIN T /\ StartOffset(T, k) = Len(ParentOf(T, k))
  BY <1>1, ParentIs
<1> QED
  BY <1>2, PrefixOrder

(* The path grown by a new node, or by none if it ends there.               *)
LEMMA GrownIs ==
    ASSUME NEW e, Sound(e), Held(e, {}), NEW walked, PathTo(DOMAIN e.trie, walked),
           NEW frontier \in DOMAIN e.trie, NEW key \in Keys, IsStrictPrefix(frontier, key), IsPrefix(Last(walked), key),
           \A j \in DOMAIN e.trie : Common(j, key) <= Len(Last(walked))
    PROVE  Advanced(Grown(e, walked, key), e, frontier, key)
<1> DEFINE T == e.trie
           n == Len(e.kv.buf)
           q == Last(walked)
           g == Grown(e, walked, key)
<1>1. e \in Cache /\ Nodes(T, n) /\ n \in Nat /\ e.bytes = Total(T)
  BY CacheIs DEF Sound
<1>2. Tree(DOMAIN T) /\ DOMAIN T \subseteq Keys /\ Root \in DOMAIN T /\ \A k \in DOMAIN T : T[k] \in Node
  <2> HIDE DEF n
  <2> QED
    BY <1>1, NodesIs
<1>3. q \in DOMAIN T /\ q \in Keys /\ walked \in Seq(Keys) /\ walked \in Seq(DOMAIN T)
  BY <1>2, PathIs DEF PathTo
<1>4. CASE q = key
  <2>1. g = WithPath(e, walked)
    BY <1>4 DEF Grown
  <2> HIDE DEF g
  <2>2. Sound(g) /\ Same(g, e) /\ g.trie = T /\ g.path = walked
    BY <1>3, <2>1, PathChange
  <2>3. Held(g, {key})
    BY <2>2 DEF Held, Filled, Same
  <2>4. Len(frontier) <= StartOffset(T, key)
    BY <1>2, StartBehind
  <2>5. Open(g) /\ Last(g.path) = key
    BY <1>4, <2>2, <2>3 DEF Open
  <2> QED
    BY <2>2, <2>4, <2>5 DEF Advanced, g
<1>5. CASE q # key
  <2> DEFINE used == T[q].used
             U == Put(T, key, NewNode(used))
             p == Append(walked, key)
  <2>1. used \in Nat
    BY <1>2, <1>3 DEF Node
  <2>2. IsStrictPrefix(q, key) /\ Len(q) < Len(key)
    <3>1. IsStrictPrefix(q, key)
      BY <1>5 DEF IsStrictPrefix
    <3> QED
      BY <1>3, <3>1, StrictIs
  <2>3. GrowResult(U, T, q, key, n)
    <3> HIDE DEF used, n, q
    <3> QED
      BY <1>1, <1>3, <2>1, <2>2, GrowNodes DEF q
  <2>4. \A o \in DOMAIN T : IsPrefix(o, key) => IsPrefix(o, q)
    <3> SUFFICES ASSUME NEW o \in DOMAIN T, IsPrefix(o, key) PROVE IsPrefix(o, q)
      OBVIOUS
    <3>1. Agree(o, key, Len(o)) /\ o \in Keys /\ Len(o) \in Nat
      BY <1>2, PrefixAgrees, LenIs
    <3>2. Len(o) <= Common(o, key) /\ Common(o, key) <= Len(q) /\ Common(o, key) \in Nat /\ Len(q) \in Nat
      BY <1>3, <3>1, CommonBounds, CommonIs, LenIs
    <3> HIDE DEF q
    <3> QED
      BY <1>3, <3>1, <3>2, Nested DEF q
  <2>5. PathTo(DOMAIN T \cup {key}, p) /\ Last(p) = key
    BY <1>2, <2>2, <2>4, PathGrow
  <2> HIDE DEF U, p, used
  <2>6. /\ Nodes(U, n) /\ DOMAIN U = DOMAIN T \cup {key} /\ key # Root /\ StartOffset(U, key) = Len(q)
        /\ (Filled(T, {}) => Filled(U, {key})) /\ Total(U) = Total(T)
    BY <2>3 DEF GrowResult
  <2> DEFINE f == WithTrie(e, U)
  <2>7. g = WithPath(f, p)
    <3>1. g = [e EXCEPT !.path = p, !.trie = U]
      BY <1>5 DEF Grown, U, used, p
    <3> QED
      BY <1>1, <2>6, <3>1 DEF WithPath, WithTrie, Cache
  <2>8. Sound(f) /\ Same(f, e) /\ f.trie = U
    BY <2>6, TrieChange
  <2> HIDE DEF f, g
  <2>9. p \in Seq(Keys)
    BY <1>3, PathIs DEF p
  <2>10. Sound(g) /\ Same(g, f) /\ g.trie = U /\ g.path = p
    BY <2>7, <2>8, <2>9, PathChange
  <2>11. Same(g, e)
    BY <2>8, <2>10 DEF Same
  <2>12. Held(g, {key})
    BY <2>6, <2>10, <2>11 DEF Held, Same
  <2>13. Open(g)
    BY <2>5, <2>6, <2>10, <2>12 DEF Open
  <2>14. Len(frontier) <= StartOffset(U, key)
    <3>1. DOMAIN U \subseteq Keys /\ Root \in DOMAIN U /\ frontier \in DOMAIN U
      BY <1>2, <2>6
    <3> QED
      BY <3>1, StartBehind
  <2> QED
    BY <2>5, <2>10, <2>11, <2>13, <2>14 DEF Advanced, g
<1> QED
  BY <1>4, <1>5

(* Two sequences one after the other, and a part of one.                    *)
LEMMA ConcatAt ==
    ASSUME NEW S, NEW a \in Seq(S), NEW b \in Seq(S)
    PROVE  /\ a \o b \in Seq(S) /\ Len(a \o b) = Len(a) + Len(b) /\ Len(a) \in Nat /\ Len(b) \in Nat
           /\ \A i \in 1 .. Len(a) : (a \o b)[i] = a[i]
           /\ \A i \in 1 .. Len(b) : (a \o b)[Len(a) + i] = b[i]
OBVIOUS

(* A sequence without its first member.                                     *)
LEMMA TailIsShorter ==
    ASSUME NEW S, NEW a \in Seq(S), a # <<>>
    PROVE  Tail(a) \in Seq(S) /\ Len(Tail(a)) = Len(a) - 1 /\ \A i \in 1 .. Len(a) - 1 : Tail(a)[i] = a[i + 1]
OBVIOUS

(* A part of a sequence.                                                    *)
LEMMA SliceIs ==
    ASSUME NEW S, NEW a \in Seq(S), NEW lo \in Nat, NEW hi \in Nat, lo <= hi, hi <= Len(a)
    PROVE  /\ SubSeq(a, lo + 1, hi) \in Seq(S) /\ Len(SubSeq(a, lo + 1, hi)) = hi - lo
           /\ \A i \in 1 .. hi - lo : SubSeq(a, lo + 1, hi)[i] = a[lo + i]
<1> DEFINE b == SubSeq(a, lo + 1, hi)
<1>1. b \in Seq(S) /\ Len(b) = hi - lo
  BY SMTT(30)
<1>2. ASSUME NEW i \in 1 .. hi - lo PROVE b[i] = a[lo + i]
  <2>1. i \in Nat /\ 1 <= i /\ i <= hi - lo
    OBVIOUS
  <2>2. b[i] = a[lo + 1 + i - 1] /\ lo + 1 + i - 1 = lo + i
    BY <2>1
  <2> QED
    BY <2>2
<1> QED
  BY <1>1, <1>2

(* A walk that ends inside its last node.                                   *)
LEMMA JoinUntil ==
    ASSUME NEW K, NEW p \in Seq(K), NEW m \in Seq(K), Len(p) \in Nat \ {0}, Len(m) \in Nat, 1 < Len(m), NEW x \in K
    PROVE  p \o Append(Tail(Front(m)), x) = Until(p \o Tail(m), Len(p \o Tail(m)), x)
<1> DEFINE t == Tail(m)
           h == Front(m)
           f == Tail(h)
           n == Len(p)
           l == Len(m) - 2
<1>1. n \in Nat /\ l \in Nat /\ Len(m) = l + 2
  OBVIOUS
<1>2. h \in Seq(K) /\ Len(h) = l + 1 /\ \A i \in 1 .. l + 1 : h[i] = m[i]
  <2>1. h = SubSeq(m, 1, l + 1)
    BY DEF Front
  <2> HIDE DEF l, h
  <2>2. l + 1 \in Nat /\ l + 1 <= Len(m) /\ 0 <= l + 1 /\ 0 + 1 = 1
    BY <1>1
  <2> DEFINE k == l + 1
  <2> HIDE DEF k
  <2>3. k \in Nat /\ k <= Len(m)
    BY <2>2 DEF k
  <2>4. SubSeq(m, 1, k) \in Seq(K) /\ Len(SubSeq(m, 1, k)) = k /\ \A i \in 1 .. k : SubSeq(m, 1, k)[i] = m[i]
    BY <2>3
  <2> QED
    BY <2>1, <2>4 DEF k
<1>3. t \in Seq(K) /\ Len(t) = l + 1 /\ \A i \in 1 .. l + 1 : t[i] = m[i + 1]
  <2>1. t \in Seq(K) /\ Len(t) = Len(m) - 1 /\ \A i \in 1 .. Len(m) - 1 : t[i] = m[i + 1]
    BY m # <<>>
  <2>2. Len(m) - 1 = l + 1
    BY <1>1
  <2> HIDE DEF t, l
  <2> QED
    BY <2>1, <2>2
<1> HIDE DEF h
<1>4. f \in Seq(K) /\ Len(f) = l /\ \A i \in 1 .. l : f[i] = h[i + 1]
  <2> HIDE DEF l
  <2>1. h # <<>> /\ Len(h) - 1 = l
    BY <1>1, <1>2
  <2>2. Tail(h) \in Seq(K) /\ Len(Tail(h)) = Len(h) - 1 /\ \A i \in 1 .. Len(h) - 1 : Tail(h)[i] = h[i + 1]
    BY <1>2, <2>1, TailIsShorter
  <2> QED
    BY <2>1, <2>2
<1> HIDE DEF t, f, n, l
<1>5. \A i \in 1 .. l : f[i] = t[i]
  <2> SUFFICES ASSUME NEW i \in 1 .. l PROVE f[i] = t[i]
    OBVIOUS
  <2>1. i \in 1 .. l + 1 /\ i + 1 \in 1 .. l + 1
    BY <1>1
  <2> QED
    BY <1>2, <1>3, <1>4, <2>1
<1>6. Len(p) = n /\ p \in Seq(K)
  BY DEF n
<1> DEFINE fx == Append(f, x)
           a == p \o fx
           w == p \o t
           v == SubSeq(w, 1, n + l)
<1>7. fx \in Seq(K) /\ Len(fx) = l + 1 /\ fx[l + 1] = x /\ \A i \in 1 .. l : fx[i] = f[i]
  BY <1>1, <1>4
<1> HIDE DEF fx
<1>8. /\ a \in Seq(K) /\ Len(a) = n + (l + 1) /\ \A i \in 1 .. n : a[i] = p[i]
      /\ \A i \in 1 .. l + 1 : a[n + i] = fx[i]
  <2>1. /\ p \o fx \in Seq(K) /\ Len(p \o fx) = Len(p) + Len(fx)
        /\ \A i \in 1 .. Len(p) : (p \o fx)[i] = p[i]
        /\ \A i \in 1 .. Len(fx) : (p \o fx)[Len(p) + i] = fx[i]
    <3>1. p \in Seq(K) /\ fx \in Seq(K)
      BY <1>6, <1>7
    <3> HIDE DEF a
    <3> QED
      BY <3>1, ConcatAt
  <2> QED
    BY <1>6, <1>7, <2>1
<1>9. /\ w \in Seq(K) /\ Len(w) = n + (l + 1) /\ \A i \in 1 .. n : w[i] = p[i]
      /\ \A i \in 1 .. l + 1 : w[n + i] = t[i]
  <2>1. /\ p \o t \in Seq(K) /\ Len(p \o t) = Len(p) + Len(t)
        /\ \A i \in 1 .. Len(p) : (p \o t)[i] = p[i]
        /\ \A i \in 1 .. Len(t) : (p \o t)[Len(p) + i] = t[i]
    <3>1. p \in Seq(K) /\ t \in Seq(K)
      BY <1>3, <1>6
    <3> HIDE DEF a, w
    <3> QED
      BY <3>1, ConcatAt
  <2> QED
    BY <1>3, <1>6, <2>1
<1> HIDE DEF a, w
<1>10. v \in Seq(K) /\ Len(v) = n + l /\ \A i \in 1 .. n + l : v[i] = w[i]
  <2> DEFINE k == n + l
  <2>1. k \in Nat /\ k <= Len(w)
    BY <1>1, <1>9
  <2> HIDE DEF k
  <2>2. SubSeq(w, 1, k) \in Seq(K) /\ Len(SubSeq(w, 1, k)) = k /\ \A i \in 1 .. k : SubSeq(w, 1, k)[i] = w[i]
    BY <1>9, <2>1
  <2> QED
    BY <2>2 DEF k
<1> HIDE DEF v
<1> DEFINE b == Append(v, x)
<1>11. b \in Seq(K) /\ Len(b) = n + l + 1 /\ b[n + l + 1] = x /\ \A i \in 1 .. n + l : b[i] = v[i]
  BY <1>1, <1>10
<1>12. b = Until(w, Len(w), x)
  <2>1. Len(w) - 1 = n + l
    BY <1>1, <1>9
  <2> QED
    BY <2>1 DEF Until, b, v
<1> HIDE DEF b
<1>13. ASSUME NEW i \in 1 .. n + l + 1 PROVE a[i] = b[i]
  <2>1. CASE i <= n
    <3>1. i \in 1 .. n /\ i \in 1 .. n + l
      BY <1>1, <2>1
    <3> QED
      BY <1>8, <1>9, <1>10, <1>11, <3>1
  <2>2. CASE i = n + l + 1
    <3>1. l + 1 \in 1 .. l + 1 /\ n + (l + 1) = i
      BY <1>1, <2>2
    <3> QED
      BY <1>7, <1>8, <1>11, <2>2, <3>1
  <2>3. CASE ~(i <= n) /\ i # n + l + 1
    <3>1. i - n \in 1 .. l /\ i - n \in 1 .. l + 1 /\ n + (i - n) = i /\ i \in 1 .. n + l
      BY <1>1, <2>3
    <3>2. a[i] = fx[i - n] /\ fx[i - n] = f[i - n] /\ f[i - n] = t[i - n]
      BY <1>5, <1>7, <1>8, <3>1
    <3>3. b[i] = v[i] /\ v[i] = w[i] /\ w[i] = t[i - n]
      BY <1>9, <1>10, <1>11, <3>1
    <3> QED
      BY <3>2, <3>3
  <2> QED
    BY <2>1, <2>2, <2>3
<1>14. a = b
  <2>1. Len(a) = n + l + 1 /\ Len(b) = n + l + 1 /\ n + l + 1 \in Nat
    BY <1>1, <1>8, <1>11
  <2> QED
    BY <1>8, <1>11, <1>13, <2>1
<1> QED
  BY <1>12, <1>14 DEF a, fx, f, h, t, w

(* No node has more of the key than the match below the frontier.           *)
LEMMA MatchCovers ==
    ASSUME NEW T, Tree(DOMAIN T), NEW frontier \in DOMAIN T, NEW key \in Keys, IsPrefix(frontier, key)
    PROVE  /\ Len(frontier) <= Matched(T, frontier, key)
           /\ \A j \in DOMAIN T : Common(j, key) <= Matched(T, frontier, key)
<1> DEFINE n == Matched(T, frontier, key)
           p == MatchPath(T, frontier, key)
<1>1. n \in Nat /\ \A j \in DOMAIN T : IsPrefix(frontier, j) => Common(j, key) <= n
  <2>1. p = MatchPath(T, frontier, key) /\ n = Matched(T, frontier, key)
    OBVIOUS
  <2> HIDE DEF p, n
  <2> QED
    BY <2>1, MatchedIs
<1> HIDE DEF n
<1>2. frontier \in Keys /\ DOMAIN T \subseteq Keys /\ Len(frontier) \in Nat /\ Agree(frontier, key, Len(frontier))
  BY PrefixAgrees, LenIs DEF Tree
<1>3. Len(frontier) <= n
  <2>1. Common(frontier, key) \in Nat /\ Len(frontier) <= Common(frontier, key) /\ IsPrefix(frontier, frontier)
    BY <1>2, CommonIs, CommonBounds, PrefixOrder
  <2> QED
    BY <1>1, <1>2, <2>1
<1>4. ASSUME NEW j \in DOMAIN T PROVE Common(j, key) <= n
  <2>1. j \in Keys /\ Common(j, key) \in Nat /\ Agree(j, key, Common(j, key))
    BY <1>2, CommonIs
  <2>2. CASE Len(frontier) <= Common(j, key)
    <3>1. Agree(j, key, Len(frontier)) /\ Agree(key, frontier, Len(frontier))
      BY <1>2, <2>1, <2>2, AgreeIs
    <3>2. Agree(frontier, j, Len(frontier))
      BY <1>2, <2>1, <3>1, AgreeIs
    <3>3. IsPrefix(frontier, j)
      BY <1>2, <2>1, <3>2, PrefixAgrees
    <3> QED
      BY <1>1, <3>3
  <2>3. CASE Common(j, key) <= Len(frontier)
    BY <1>1, <1>2, <1>3, <2>1, <2>3
  <2> QED
    BY <1>2, <2>1, <2>2, <2>3
<1> QED
  BY <1>3, <1>4 DEF n

(* A path that ends inside its last node, which is split there.             *)
LEMMA PathCut ==
    ASSUME NEW T, Tree(DOMAIN T), NEW w, PathTo(DOMAIN T, w), NEW k, k = Last(w), NEW at \in Nat,
           StartOffset(T, k) < at, at < Len(k), NEW p \in Keys \ DOMAIN T, IsStrictPrefix(p, k), Len(p) = at
    PROVE  PathTo(DOMAIN T \cup {p}, Until(w, Len(w), p)) /\ Last(Until(w, Len(w), p)) = p
<1> DEFINE i == Len(w)
           x == w[i - 1]
<1>1. DOMAIN T \subseteq Keys /\ Root \in DOMAIN T
  BY DEF Tree
<1>2. i \in DOMAIN w /\ w[i] = k /\ i \in Nat /\ w[1] = Root /\ k \in DOMAIN T
  BY <1>1, PathIs
<1>3. i # 1
  <2>1. Len(Root) = 0 /\ Root \in Keys
    BY <1>1, LenIs
  <2>2. k # Root
    BY <2>1
  <2> QED
    BY <1>2, <2>2
<1> HIDE DEF i
<1>4. i - 1 \in DOMAIN w /\ StartOffset(T, k) = Len(x)
  BY <1>2, <1>3, PathStart
<1>5. IsStrictPrefix(x, k) /\ x \in DOMAIN T
  <2>1. i - 1 < i
    BY <1>2
  <2>2. IsStrictPrefix(w[i - 1], w[i]) /\ w[i - 1] \in DOMAIN T
    BY <1>1, <1>2, <1>4, <2>1, PathIs
  <2> QED
    BY <1>2, <2>2
<1> HIDE DEF x
<1>6. x \in Keys /\ k \in Keys /\ IsPrefix(x, k) /\ IsPrefix(p, k) /\ Len(x) \in Nat /\ Len(x) < Len(p) /\ Len(x) <= Len(p)
  <2>1. x \in Keys /\ k \in Keys /\ Len(x) \in Nat
    BY <1>1, <1>2, <1>5, LenIs
  <2> QED
    BY <1>4, <1>5, <2>1, StrictIs
<1>7. IsPrefix(x, p)
  BY <1>6, Nested
<1>8. IsStrictPrefix(x, p)
  BY <1>6, <1>7, StrictIs
<1>9. PathTo(DOMAIN T \cup {p}, Until(w, i, p)) /\ Last(Until(w, i, p)) = p
  BY <1>2, <1>3, <1>8, PathUntil DEF x
<1> QED
  BY <1>9 DEF i

(* A match begins at its first node and has all nodes on the way to its last. *)
Between(T, j, k) == {o \in DOMAIN T : IsPrefix(j, o) /\ IsPrefix(o, k)}

(* The match is what lies between its ends.                                 *)
LEMMA MatchBetween ==
    ASSUME NEW T, Tree(DOMAIN T), NEW from \in DOMAIN T, NEW t \in Keys
    PROVE  /\ MatchPath(T, from, t)[1] = from
           /\ ToSet(MatchPath(T, from, t)) = Between(T, from, Last(MatchPath(T, from, t)))
<1> DEFINE p == MatchPath(T, from, t)
           n == Matched(T, from, t)
<1>1. p = MatchPath(T, from, t) /\ n = Matched(T, from, t)
  OBVIOUS
<1>2. p[1] = from
  BY MatchIs
<1>3. ToSet(p) = {o \in DOMAIN T : IsPrefix(from, o) /\ IsPrefix(o, Last(p))}
  BY MatchedIs
<1> QED
  BY <1>2, <1>3 DEF Between

(* What a walk from the end of a path along a key finds.                    *)
Walk(d, T, key, m, n) ==
    /\ m \in Seq(DOMAIN T) /\ Len(m) \in Nat \ {0} /\ m[1] = Last(d.path) /\ Last(m) \in DOMAIN T
    /\ Len(m) # 1 => Len(Last(d.path)) < Len(Last(m))
    /\ n \in Nat /\ Agree(Last(m), key, n) /\ (Last(m) = Last(d.path) \/ StartOffset(T, Last(m)) < n)
    /\ PathTo(DOMAIN T, d.path \o Tail(m)) /\ Last(d.path \o Tail(m)) = Last(m)
    /\ Len(Last(d.path)) <= n /\ \A j \in DOMAIN T : Common(j, key) <= n

(* What advancePath walks over lies below the end of the path, and nothing  *)
(* matches more.                                                            *)
LEMMA WalkIs ==
    ASSUME NEW d, NEW T, Tree(DOMAIN T), PathTo(DOMAIN T, d.path), NEW key \in Keys, IsPrefix(Last(d.path), key)
    PROVE  Walk(d, T, key, MatchPath(T, Last(d.path), key), Matched(T, Last(d.path), key))
<1> DEFINE q == d.path
           frontier == Last(q)
           m == MatchPath(T, frontier, key)
           n == Matched(T, frontier, key)
<1>1. /\ DOMAIN T \subseteq Keys /\ Root \in DOMAIN T /\ frontier \in DOMAIN T
      /\ q \in Seq(DOMAIN T) /\ Len(q) \in Nat \ {0} /\ frontier = q[Len(q)]
  <2>1. DOMAIN T \subseteq Keys /\ Root \in DOMAIN T
    BY DEF Tree
  <2> QED
    BY <2>1, PathIs DEF PathTo
<1>2. m = MatchPath(T, frontier, key) /\ n = Matched(T, frontier, key)
  OBVIOUS
<1>3. Len(frontier) <= n /\ \A j \in DOMAIN T : Common(j, key) <= n
  BY <1>1, MatchCovers
<1> HIDE DEF m, n, frontier, q
<1>4. /\ m \in Seq(DOMAIN T) /\ Len(m) \in Nat \ {0} /\ m[1] = frontier
      /\ \A i, j \in DOMAIN m : i < j => Len(m[i]) < Len(m[j])
  <2>1. m \in Seq(DOMAIN T) /\ Len(m) \in Nat \ {0}
    BY <1>1, <1>2, MatchIs
  <2>2. \A i, j \in DOMAIN m : i < j => Len(m[i]) < Len(m[j])
    <3>1. Tree(DOMAIN T) /\ frontier \in DOMAIN T /\ key \in Keys /\ m = MatchPath(T, frontier, key)
      BY <1>1, <1>2
    <3> QED
      BY <3>1, MatchIs
  <2>3. m[1] = frontier
    BY <1>1, <1>2, MatchBetween
  <2> QED
    BY <2>1, <2>2, <2>3
<1>5. /\ n \in Nat /\ Agree(Last(m), key, n) /\ (Last(m) = frontier \/ StartOffset(T, Last(m)) < n)
      /\ ToSet(m) = {o \in DOMAIN T : IsPrefix(frontier, o) /\ IsPrefix(o, Last(m))}
  <2>1. n \in Nat
    BY <1>1, <1>2, MatchedIs
  <2>2. Agree(Last(m), key, n)
    BY <1>1, <1>2, MatchedIs
  <2>3. Last(m) = frontier \/ StartOffset(T, Last(m)) < n
    BY <1>1, <1>2, MatchedIs
  <2>4. ToSet(m) = Between(T, frontier, Last(m))
    BY <1>1, <1>2, MatchBetween
  <2> QED
    BY <2>1, <2>2, <2>3, <2>4 DEF Between
<1>6. Last(m) = m[Len(m)] /\ Last(m) \in DOMAIN T /\ DOMAIN m = 1 .. Len(m)
  BY <1>4 DEF Last
<1>7. Len(m) # 1 => Len(frontier) < Len(Last(m))
  <2>1. Len(m) # 1 => 1 \in DOMAIN m /\ Len(m) \in DOMAIN m /\ 1 < Len(m)
    BY <1>4, <1>6
  <2> QED
    BY <1>4, <1>6, <2>1
<1> DEFINE w == q \o Tail(m)
<1>8. w \in Seq(DOMAIN T) /\ Joined(q, m, w)
  BY <1>1, <1>4, JoinIs
<1> HIDE DEF w
<1>9. PathTo(DOMAIN T, w) /\ Last(w) = Last(m)
  <2>1. PathTo(DOMAIN T, q) /\ Last(q) = frontier
    BY DEF q, frontier
  <2> QED
    BY <1>4, <1>5, <1>8, <2>1, PathJoined
<1>10. Walk(d, T, key, m, n)
  BY <1>3, <1>4, <1>5, <1>6, <1>7, <1>9 DEF Walk, w, frontier, q
<1> QED
  BY <1>10 DEF m, n, frontier, q

(* The key at which a path ends that is advanced along the tokens stored.   *)
KeyOn(d, stored, end) == Last(d.path) \o SubSeq(stored, Len(Last(d.path)) + 1, end)

(* advancePath walks to where the key leaves the trie, splits the node it   *)
(* leaves in the middle, and adds what is left of the key as a node.        *)
LEMMA AdvancePathIs ==
    ASSUME NEW d, Ready(d), NEW stored \in Keys, NEW end \in Nat, end <= Len(stored), Len(Last(d.path)) < end
    PROVE  /\ Advanced(AdvancePath(d, stored, end), d, Last(d.path), KeyOn(d, stored, end))
           /\ KeyOn(d, stored, end) \in Keys /\ Len(KeyOn(d, stored, end)) = end
<1> DEFINE key == KeyOn(d, stored, end)
           T == d.trie
           frontier == Last(d.path)
           m == MatchPath(T, frontier, key)
           n == Matched(T, frontier, key)
           last == Last(m)
           w == d.path \o Tail(m)
           p == SubSeq(key, 1, n)
           cut == MatchesInPart(T, m, n)
           e == IF cut THEN SplitNode(d, last, n) ELSE d
           walked == IF cut THEN d.path \o Append(Tail(Front(m)), p) ELSE w
           g == AdvancePath(d, stored, end)
<1>1. /\ Sound(d) /\ Held(d, {}) /\ PathTo(DOMAIN T, d.path) /\ Tree(DOMAIN T) /\ DOMAIN T \subseteq Keys /\ Root \in DOMAIN T
      /\ frontier \in DOMAIN T /\ frontier \in Keys /\ Len(frontier) \in Nat
      /\ Nodes(T, Len(d.kv.buf)) /\ Len(d.kv.buf) \in Nat
  BY ReadyIs, LenIs
<1>2. key \in Keys /\ Len(key) = end /\ IsPrefix(frontier, key) /\ IsStrictPrefix(frontier, key)
  <2> DEFINE lo == Len(frontier)
             more == SubSeq(stored, lo + 1, end)
  <2>1. lo \in Nat /\ lo <= end /\ key = frontier \o more /\ Len(frontier) = lo
    BY <1>1 DEF KeyOn
  <2> HIDE DEF key, frontier, lo
  <2>2. more \in Keys /\ Len(more) = end - lo
    BY <2>1, SliceIs DEF Keys
  <2> HIDE DEF more
  <2>3. key \in Keys /\ Len(key) = lo + (end - lo) /\ \A i \in 1 .. lo : key[i] = frontier[i]
    <3>1. /\ frontier \o more \in Keys /\ Len(frontier \o more) = Len(frontier) + Len(more)
          /\ \A i \in 1 .. Len(frontier) : (frontier \o more)[i] = frontier[i]
      BY <1>1, <2>2, ConcatAt DEF Keys
    <3> QED
      BY <2>1, <2>2, <3>1
  <2>4. Len(key) = end /\ lo <= Len(key)
    <3>1. lo + (end - lo) = end
      BY <2>1
    <3> QED
      BY <2>1, <2>3, <3>1
  <2>5. IsPrefix(frontier, key)
    BY <1>1, <2>1, <2>3, <2>4, PrefixIs
  <2>6. IsStrictPrefix(frontier, key)
    BY <1>1, <2>1, <2>3, <2>4, <2>5, StrictIs DEF frontier
  <2> QED
    BY <2>3, <2>4, <2>5, <2>6
<1>3. g = (IF n = Len(key) THEN [e EXCEPT !.path = walked]
           ELSE [e EXCEPT !.path = Append(walked, key), !.trie = Put(@, key, NewNode(@[Last(walked)].used))])
  <2>1. ~(end > Len(stored))
    BY LenIs
  <2> QED
    BY <2>1 DEF AdvancePath, KeyOn
<1> HIDE DEF key
<1>4. Walk(d, T, key, m, n)
  BY <1>1, <1>2, WalkIs
<1> HIDE DEF T, m, n, g
<1>5. /\ m \in Seq(DOMAIN T) /\ Len(m) \in Nat \ {0} /\ m[1] = frontier /\ last \in DOMAIN T
      /\ (Len(m) # 1 => Len(frontier) < Len(last))
      /\ n \in Nat /\ Agree(last, key, n) /\ (last = frontier \/ StartOffset(T, last) < n)
      /\ PathTo(DOMAIN T, w) /\ Last(w) = last
      /\ Len(frontier) <= n /\ \A j \in DOMAIN T : Common(j, key) <= n
  BY <1>4 DEF Walk
<1>6. last \in Keys /\ Len(last) \in Nat /\ n <= Len(last) /\ n <= Len(key)
  BY <1>1, <1>5, LenIs DEF Agree
<1>7. p \in Keys /\ Len(p) = n /\ IsPrefix(p, key) /\ p = SubSeq(last, 1, n)
  <2> HIDE DEF last, w, walked, e
  <2>1. SubSeq(key, 1, n) \in Keys /\ Len(SubSeq(key, 1, n)) = n /\ IsPrefix(SubSeq(key, 1, n), key)
    BY <1>2, <1>5, <1>6, InitialIs
  <2>2. SubSeq(last, 1, n) = SubSeq(key, 1, n)
    <3>1. last \in Keys /\ key \in Keys /\ n \in Nat /\ Agree(last, key, n)
      BY <1>2, <1>5, <1>6
    <3> HIDE DEF p
    <3> QED
      BY <3>1, AgreeIs
  <2> QED
    BY <2>1, <2>2
<1>8. Len(m) = 1 => last = frontier
  BY <1>5 DEF Last
<1> HIDE DEF frontier
<1>10. /\ Sound(e) /\ Same(e, d) /\ Held(e, {}) /\ PathTo(DOMAIN e.trie, walked) /\ frontier \in DOMAIN e.trie
       /\ Last(walked) \in Keys /\ Len(Last(walked)) = n /\ IsPrefix(Last(walked), key)
       /\ \A j \in DOMAIN e.trie : Common(j, key) <= n
  <2>1. CASE cut
    <3>1. Len(m) > 1 /\ n < Len(last) /\ e = SplitNode(d, last, n)
      BY <2>1 DEF MatchesInPart, last
    <3>2. StartOffset(T, last) < n
      BY <1>1, <1>5, <1>6, <3>1
    <3> DEFINE U == SplitTrie(T, last, n)
    <3>3. d.path \o Append(Tail(Front(m)), p) = Until(d.path \o Tail(m), Len(d.path \o Tail(m)), p)
      <4>1. d.path \in Seq(Keys) /\ m \in Seq(Keys) /\ Len(m) \in Nat /\ 1 < Len(m)
            /\ Len(d.path) \in Nat \ {0} /\ d.path \in Seq(Keys) /\ p \in Keys
        <5>1. d.path \in Seq(DOMAIN T) /\ Len(d.path) \in Nat \ {0}
          BY <1>1, PathIs DEF PathTo
        <5>2. d.path \in Seq(Keys) /\ m \in Seq(Keys)
          BY <1>1, <1>5, <5>1
        <5> QED
          BY <1>5, <1>7, <3>1, <5>1, <5>2
      <4> HIDE DEF last, p, walked, e, w
      <4> QED
        BY <4>1, JoinUntil
    <3>4. walked = Until(w, Len(w), p)
      BY <2>1, <3>3
    <3> HIDE DEF last, p, walked, e, w
    <3>5. Sound(e) /\ Same(e, d) /\ e.trie = U /\ Held(e, {})
      BY <1>1, <1>5, <3>1, <3>2, SplitNodeIs DEF T
    <3>6. SplitResult(U, T, last, n, Len(d.kv.buf))
      BY <1>1, <1>5, <3>1, <3>2, SplitTrieIs
    <3> HIDE DEF U
    <3>7. DOMAIN U = DOMAIN T \cup {p} /\ p \in Keys \ DOMAIN T /\ IsStrictPrefix(p, last)
      BY <1>7, <3>6 DEF SplitResult, EdgeCut
    <3>8. PathTo(DOMAIN T \cup {p}, Until(w, Len(w), p)) /\ Last(Until(w, Len(w), p)) = p
      <4>1. Tree(DOMAIN T) /\ PathTo(DOMAIN T, w) /\ last = Last(w) /\ n \in Nat
        BY <1>1, <1>5
      <4>2. Len(p) = n
        BY <1>7
      <4> QED
        BY <3>1, <3>2, <3>7, <4>1, <4>2, PathCut
    <3>9. ASSUME NEW j \in DOMAIN U PROVE Common(j, key) <= n
      <4>1. CASE j = p
        <5>1. Agree(p, key, Common(p, key))
          BY <1>2, <1>7, CommonIs
        <5> QED
          BY <1>7, <4>1, <5>1 DEF Agree
      <4> QED
        BY <1>5, <3>7, <4>1
    <3> QED
      BY <1>1, <1>7, <3>4, <3>5, <3>7, <3>8, <3>9
  <2>2. CASE ~cut
    <3>1. e = d /\ walked = w
      BY <2>2
    <3>2. ~(Len(m) > 1 /\ n < Len(last))
      BY <2>2 DEF MatchesInPart
    <3>3. n = Len(last)
      <4>1. CASE Len(m) = 1
        BY <1>1, <1>5, <1>6, <1>8, <4>1
      <4>2. CASE Len(m) # 1
        <5>1. Len(m) > 1
          <6>1. Len(m) \in Nat \ {0} /\ Len(m) # 1
            BY <1>5, <4>2
          <6> DEFINE l == Len(m)
          <6>2. l \in Nat \ {0} /\ l # 1
            BY <6>1
          <6> HIDE DEF l
          <6>3. l > 1
            BY <6>2
          <6> QED
            BY <6>3 DEF l
        <5>2. ~(n < Len(last))
          BY <3>2, <5>1
        <5> HIDE DEF last
        <5> QED
          BY <1>5, <1>6, <5>2
      <4> QED
        BY <4>1, <4>2
    <3>4. IsPrefix(last, key)
      BY <1>2, <1>5, <1>6, <3>3, PrefixAgrees
    <3>5. Same(d, d)
      BY DEF Same
    <3> HIDE DEF e, walked, w, last
    <3> QED
      BY <1>1, <1>5, <1>6, <3>1, <3>3, <3>4, <3>5 DEF T
  <2> QED
    BY <2>1, <2>2
<1> HIDE DEF e, walked, w, last, p
<1>11. n = Len(key) <=> Last(walked) = key
  <2>1. Last(walked) = key => n = Len(key)
    BY <1>10
  <2>2. n = Len(key) => Last(walked) = key
    <3> SUFFICES ASSUME n = Len(key) PROVE Last(walked) = key
      OBVIOUS
    <3>1. Len(key) <= Len(Last(walked))
      BY <1>2, <1>10, LenIs
    <3> QED
      BY <1>2, <1>10, <3>1, SameKeys
  <2> QED
    BY <2>1, <2>2
<1>12. g = Grown(e, walked, key)
  BY <1>3, <1>11 DEF Grown, WithPath
<1>13. Advanced(Grown(e, walked, key), e, frontier, key)
  BY <1>2, <1>10, GrownIs
<1>14. Advanced(g, d, frontier, key)
  BY <1>10, <1>12, <1>13 DEF Advanced, Same
<1> QED
  BY <1>2, <1>14 DEF g, frontier, key

(* The node at the end of the path may be marked as one that a caller asked for. *)
Flag(f, k, p) == [f EXCEPT !.trie[k].user = @ \/ p.user]

(* Marking a node as the user's changes nothing else.                       *)
LEMMA FlagIs ==
    ASSUME NEW f, Open(f), NEW k, k = Last(f.path), NEW p, p.user \in BOOLEAN
    PROVE  /\ Open(Flag(f, k, p)) /\ Same(Flag(f, k, p), f)
           /\ Flag(f, k, p).path = f.path /\ DOMAIN Flag(f, k, p).trie = DOMAIN f.trie
<1> DEFINE T == f.trie
           new == [T[k] EXCEPT !.user = T[k].user \/ p.user]
           g == SetNode(f, k, new)
<1>1. /\ f \in Cache /\ Nodes(T, Len(f.kv.buf)) /\ Len(f.kv.buf) \in Nat /\ k \in DOMAIN T
      /\ T \in [DOMAIN T -> Node] /\ f.bytes \in Int
  BY OpenIs, CacheIs
<1>2. T[k] \in Node /\ NodeIs(T, k, Len(f.kv.buf)) /\ SnapshotBytes(T[k]) \in Nat
  BY <1>1, NodesIs
<1>3. new \in Node /\ new.kv = T[k].kv /\ new.rec = T[k].rec
  <2>1. T[k].user \/ p.user \in BOOLEAN
    OBVIOUS
  <2> QED
    BY <1>2, <2>1 DEF Node
<1>4. Suits(new, T, k, Len(f.kv.buf))
  BY <1>2, <1>3 DEF Suits, NodeIs
<1>5. SnapshotBytes(new) = SnapshotBytes(T[k])
  BY <1>3 DEF SnapshotBytes
<1>6. f.bytes - SnapshotBytes(T[k]) + SnapshotBytes(new) = f.bytes
  BY <1>1, <1>2, <1>5
<1>7. Flag(f, k, p) = g
  <2>1. Flag(f, k, p) = [f EXCEPT !.trie = [T EXCEPT ![k] = new]]
    BY <1>1 DEF Flag
  <2>2. g = [f EXCEPT !.trie = [T EXCEPT ![k] = new], !.bytes = f.bytes]
    BY <1>1, <1>6 DEF SetNode
  <2> HIDE DEF new, g
  <2> QED
    BY <1>1, <2>1, <2>2 DEF Cache
<1> HIDE DEF new
<1>8. Open(g) /\ Same(g, f) /\ g.path = f.path /\ DOMAIN g.trie = DOMAIN T
  BY <1>4, SetNodeIs DEF Reset
<1> QED
  BY <1>7, <1>8

(* The captured snapshots go to the node at the end of the path.            *)
AttachedNode(d, k, kv, rec) ==
    [d.trie[k] EXCEPT
        !.kv = IF @ # NoSnapshot \/ kv = NoSnapshot THEN @ ELSE SplitTail(kv, StartOffset(d.trie, k)),
        !.rec = IF @ # <<>> THEN @ ELSE rec]

(* A captured snapshot attached to the end of the path spans its edge.      *)
LEMMA AttachIs ==
    ASSUME NEW d, Open(d), NEW k, k = Last(d.path), k # Root, NEW kv, NEW rec \in Keys, NEW from \in Nat,
           from <= StartOffset(d.trie, k),
           "kv" \in ToSet(d.layers) => kv = Lazy(from, Len(k)) /\ Len(k) <= Len(d.kv.buf),
           "kv" \notin ToSet(d.layers) => kv = NoSnapshot,
           rec # <<>> => Len(rec) = Len(k)
    PROVE  Follows(Attach(d, k, kv, rec), d)
<1> DEFINE T == d.trie
           n == Len(d.kv.buf)
           at == StartOffset(T, k)
           new == AttachedNode(d, k, kv, rec)
           g == SetNode(d, k, new)
<1>1. /\ d \in Cache /\ Nodes(T, n) /\ n \in Nat /\ k \in DOMAIN T /\ k \in Keys /\ DOMAIN T \subseteq Keys /\ Root \in DOMAIN T
  BY OpenIs
<1>2. T[k] \in Node /\ NodeIs(T, k, n)
  <2> HIDE DEF n
  <2> QED
    BY <1>1, NodesIs
<1>3. at \in Nat /\ at < Len(k) /\ Len(k) \in Nat
  BY <1>1, ParentIs, LenIs
<1> HIDE DEF at, n
<1>4. Attach(d, k, kv, rec) = Touch(g, k)
  BY DEF Attach, SetNode, AttachedNode
<1>5. /\ new.kv = IF T[k].kv # NoSnapshot \/ kv = NoSnapshot THEN T[k].kv ELSE SplitTail(kv, at)
      /\ new.rec = (IF T[k].rec # <<>> THEN T[k].rec ELSE rec)
      /\ new.used = T[k].used /\ new.user = T[k].user /\ (new.kv \in Snapshot => new \in Node)
  BY <1>2 DEF AttachedNode, Node, at
<1> HIDE DEF new
<1>6. /\ Fine(new.kv, n) /\ Spans(new.kv, at, Len(k))
      /\ ("kv" \in ToSet(d.layers) => new.kv # NoSnapshot)
  <2>1. CASE T[k].kv # NoSnapshot \/ kv = NoSnapshot
    <3>1. new.kv = T[k].kv
      BY <1>5, <2>1
    <3>2. "kv" \in ToSet(d.layers) => T[k].kv # NoSnapshot
      <4>1. "kv" \in ToSet(d.layers) => kv # NoSnapshot
        BY <1>1, <1>3, LazyIs DEF n, at
      <4> QED
        BY <2>1, <4>1
    <3> QED
      BY <1>2, <3>1, <3>2 DEF NodeIs, at
  <2>2. CASE ~(T[k].kv # NoSnapshot \/ kv = NoSnapshot)
    <3>1. new.kv = SplitTail(Lazy(from, Len(k)), at) /\ Len(k) <= n /\ from <= at
      BY <1>5, <2>2 DEF n, at
    <3>2. /\ Fine(SplitTail(Lazy(from, Len(k)), at), n) /\ SplitTail(Lazy(from, Len(k)), at) # NoSnapshot
          /\ SplitTail(Lazy(from, Len(k)), at).from = at /\ SplitTail(Lazy(from, Len(k)), at).to = Len(k)
      <4> DEFINE to == Len(k)
      <4>1. to \in Nat /\ at < to /\ to <= n /\ n \in Nat /\ at \in Nat /\ from <= at
        BY <1>1, <1>3, <3>1
      <4> HIDE DEF to
      <4>2. /\ Fine(SplitTail(Lazy(from, to), at), n) /\ SplitTail(Lazy(from, to), at) # NoSnapshot
            /\ SplitTail(Lazy(from, to), at).from = at /\ SplitTail(Lazy(from, to), at).to = to
        BY <4>1, TailIs
      <4> QED
        BY <4>2 DEF to
    <3> QED
      BY <3>1, <3>2 DEF Spans
  <2> QED
    BY <2>1, <2>2
<1>7. new.rec # <<>> => Len(new.rec) = Len(k)
  BY <1>2, <1>5 DEF NodeIs
<1>8. Suits(new, T, k, n)
  BY <1>5, <1>6, <1>7 DEF Suits, Fine, at
<1>9. Reset(g, d, k, new)
  BY <1>8, SetNodeIs DEF n
<1>10. Ready(g) /\ Same(g, d) /\ g.path = d.path
  BY <1>6, <1>9 DEF Reset
<1> HIDE DEF g
<1>11. Follows(Touch(g, k), g)
  <2>1. k \in DOMAIN g.trie
    BY <1>10, ReadyIs
  <2> QED
    BY <1>10, <2>1, TouchFollows
<1> QED
  BY <1>4, <1>10, <1>11 DEF Follows, Same

Attaching == INSTANCE FoldInduction
    WITH Op <- LAMBDA e, i, env : AttachStep(e, i, env.cache, env.session)

(* The offsets at which snapshots are captured, in their order.             *)
Pending(pending) ==
    /\ pending \in Seq([offset : Nat, user : BOOLEAN])
    /\ \A i, j \in DOMAIN pending : i < j => pending[i].offset < pending[j].offset

(* Where the capture of the snapshot at offset i begins.                    *)
CaptureFrom(d, pending, i) == IF i = 1 THEN d.captures.base ELSE pending[i - 1].offset

(* What is captured between two offsets becomes a node of its own.          *)
Captured(e, d, m, n) == Ready(e) /\ Same(e, d) /\ Len(Last(e.path)) = n /\ n <= m

(* An entry of the schedule.                                                *)
LEMMA PendingIs ==
    ASSUME NEW pending, Pending(pending), NEW i \in DOMAIN pending
    PROVE  pending[i].offset \in Nat /\ pending[i].user \in BOOLEAN
<1> DEFINE R == [offset : Nat, user : BOOLEAN]
<1>1. pending \in Seq(R)
  BY DEF Pending
<1> HIDE DEF R
<1>2. pending[i] \in R
  BY <1>1
<1> QED
  BY <1>2 DEF R

(* One capture that has been crossed becomes a node, the end of the path.   *)
LEMMA AttachStepIs ==
    ASSUME NEW d, NEW m \in Nat, At(d, m), MinCacheOffset(d) = m, d \in Cache,
           NEW session, Stored(session) \in Keys, m <= Len(Stored(session)), Pending(session.pending),
           NEW i \in DOMAIN session.pending, session.pending[i].offset <= m,
           NEW from \in Nat, from = CaptureFrom(d, session.pending, i), from < session.pending[i].offset,
           NEW e, Captured(e, d, m, from)
    PROVE  Captured(AttachStep(e, i, d, session), d, m, session.pending[i].offset)
<1> DEFINE p == session.pending[i]
           end == p.offset
           stored == Stored(session)
           kv == IF "kv" \in ToSet(d.layers) THEN Lazy(from, end) ELSE NoSnapshot
           rec == IF "rec" \in ToSet(d.layers) THEN SubSeq(d.rec, 1, end) ELSE <<>>
           f == AdvancePath(e, stored, end)
           k == Last(f.path)
           g == Flag(f, k, p)
           h == Attach(g, k, kv, rec)
<1>1. p.offset \in Nat /\ p.user \in BOOLEAN /\ end \in Nat /\ from < end /\ end <= m
  <2>1. p.offset \in Nat /\ p.user \in BOOLEAN
    BY PendingIs
  <2> QED
    BY <2>1
<1>2. Ready(e) /\ Same(e, d) /\ Len(Last(e.path)) = from
  BY DEF Captured
<1>3. AttachStep(e, i, d, session) = CompactPath(h)
  <2>1. ~(p.offset > MinCacheOffset(d)) /\ Len(Last(e.path)) < p.offset
    BY <1>1, <1>2
  <2> QED
    BY <2>1 DEF AttachStep, Flag, CaptureFrom
<1> HIDE DEF p, stored
<1>4. Open(f) /\ Same(f, e) /\ Len(k) = end /\ k \in Keys /\ from <= StartOffset(f.trie, k)
  <2> DEFINE key == KeyOn(e, stored, end)
             x == Last(e.path)
  <2>1. stored \in Keys /\ end <= Len(stored) /\ Len(Last(e.path)) < end
    <3>1. Len(stored) \in Nat /\ m <= Len(stored) /\ stored \in Keys
      BY LenIs DEF stored
    <3> HIDE DEF end
    <3> QED
      BY <1>1, <1>2, <3>1
  <2> HIDE DEF end
  <2>2. Advanced(AdvancePath(e, stored, end), e, Last(e.path), key) /\ key \in Keys /\ Len(key) = end
    BY <1>1, <1>2, <2>1, AdvancePathIs
  <2> HIDE DEF f, key
  <2>3. Open(f) /\ Same(f, e) /\ Last(f.path) = key /\ Len(x) <= StartOffset(f.trie, key)
    BY <2>2 DEF Advanced, f
  <2> QED
    BY <1>2, <2>2, <2>3
<1> HIDE DEF f, end
<1>5. k = Last(f.path)
  OBVIOUS
<1> HIDE DEF k
<1>6. Open(g) /\ Same(g, f) /\ g.path = f.path /\ DOMAIN g.trie = DOMAIN f.trie
  BY <1>1, <1>4, <1>5, FlagIs
<1> HIDE DEF g
<1>7. /\ Last(g.path) = k /\ k # Root /\ from <= StartOffset(g.trie, k)
      /\ g.layers = d.layers /\ g.kv = d.kv /\ g.rec = d.rec /\ Same(g, d)
  <2>1. k # Root
    BY <1>1, <1>4, LenIs
  <2>2. StartOffset(g.trie, k) = StartOffset(f.trie, k)
    BY <1>6, SameStart
  <2> QED
    BY <1>2, <1>4, <1>5, <1>6, <2>1, <2>2 DEF Same
<1>8. "kv" \in ToSet(g.layers) => kv = Lazy(from, Len(k)) /\ Len(k) <= Len(g.kv.buf)
  <2> SUFFICES ASSUME "kv" \in ToSet(d.layers) PROVE kv = Lazy(from, Len(k)) /\ Len(k) <= Len(g.kv.buf)
    BY <1>7
  <2>1. d.kv.off = m
    BY DEF At, Offset
  <2>2. g.kv.off <= Len(g.kv.buf)
    BY <1>6 DEF Open, Sound
  <2>3. Len(g.kv.buf) \in Nat
    BY <1>6, OpenIs
  <2> QED
    BY <1>1, <1>4, <1>7, <2>1, <2>2, <2>3
<1>9. "kv" \notin ToSet(g.layers) => kv = NoSnapshot
  BY <1>7
<1>10. rec \in Keys /\ (rec # <<>> => Len(rec) = Len(k))
  <2>1. CASE "rec" \in ToSet(d.layers)
    <3>1. Len(d.rec) = m /\ d.rec \in Keys
      BY <2>1, CacheIs DEF At, Offset
    <3>2. SubSeq(d.rec, 1, end) \in Keys /\ Len(SubSeq(d.rec, 1, end)) = end
      BY <1>1, <3>1, InitialIs
    <3> QED
      BY <1>4, <2>1, <3>2
  <2>2. CASE "rec" \notin ToSet(d.layers)
    BY <2>2 DEF Keys
  <2> QED
    BY <2>1, <2>2
<1> HIDE DEF kv, rec
<1>11. Follows(h, g)
  <2>1. k = Last(g.path)
    BY <1>7
  <2> QED
    BY <1>6, <1>7, <1>8, <1>9, <1>10, <2>1, AttachIs
<1>12. Follows(CompactPath(h), h)
  BY <1>11, CompactPathIs DEF Follows
<1>13. Follows(CompactPath(h), g)
  BY <1>11, <1>12, FollowsIs
<1> HIDE DEF h
<1>14. Captured(CompactPath(h), d, m, end)
  BY <1>1, <1>4, <1>7, <1>13 DEF Captured, Follows, Same
<1> QED
  BY <1>3, <1>14 DEF end, p

WithCaptures(d, x) == [d EXCEPT !.captures = x]

(* Another schedule in the layers.                                          *)
LEMMA CapturesChange ==
    ASSUME NEW d, Ready(d), NEW x \in Schedules
    PROVE  /\ Ready(WithCaptures(d, x)) /\ WithCaptures(d, x).captures = x
           /\ WithCaptures(d, x).layers = d.layers /\ WithCaptures(d, x).kv = d.kv /\ WithCaptures(d, x).rec = d.rec
           /\ WithCaptures(d, x).path = d.path /\ WithCaptures(d, x).panicked = d.panicked
<1> DEFINE e == WithCaptures(d, x)
<1>1. Sound(d) /\ PathTo(DOMAIN d.trie, d.path) /\ Held(d, {}) /\ d \in Cache
  BY ReadyIs
<1>2. /\ e \in Cache /\ e.captures = x /\ e.layers = d.layers /\ e.kv = d.kv /\ e.rec = d.rec /\ e.path = d.path
      /\ e.panicked = d.panicked /\ e.trie = d.trie /\ e.bytes = d.bytes
  BY <1>1 DEF WithCaptures, Cache
<1> HIDE DEF e
<1>3. Sound(e)
  BY <1>1, <1>2 DEF Sound
<1>4. Held(e, {})
  BY <1>1, <1>2 DEF Held
<1>5. Ready(e)
  BY <1>1, <1>2, <1>3, <1>4 DEF Ready
<1> QED
  BY <1>2, <1>5 DEF e

(* What the captures of a prefill are to be: they began at the end of the   *)
(* path and every offset is still ahead of it.                              *)
Due(d, pending) ==
    /\ Pending(pending)
    /\ pending = <<>> => ~d.captures.on
    /\ pending # <<>> => /\ d.captures.on /\ d.captures.base = Len(Last(d.path))
                         /\ \A i \in DOMAIN pending : d.captures.base < pending[i].offset

(* The layers are as they were, and no capture is left.                     *)
Uncaptured(e, d, m) ==
    /\ Ready(e) /\ e.layers = d.layers /\ e.kv = d.kv /\ e.rec = d.rec /\ e.panicked = d.panicked
    /\ ~e.captures.on /\ Len(Last(e.path)) \in Nat /\ Len(Last(e.path)) <= m

(* attachPrefillSnapshots: the schedule is gone and the path ends no        *)
(* further than the layers are.                                             *)
LEMMA AttachPrefillIs ==
    ASSUME NEW d, Ready(d), NEW m \in Nat, At(d, m), Len(Last(d.path)) <= m,
           NEW session, Stored(session) \in Keys, m <= Len(Stored(session)), Due(d, session.pending)
    PROVE  Uncaptured(AttachPrefill(d, session), d, m)
<1> DEFINE pending == session.pending
           n == Len(pending)
           env == [cache |-> d, session |-> session]
           indices == [i \in DOMAIN pending |-> i]
           F(i) == CaptureFrom(d, pending, i)
           G(i) == {e \in Cache : /\ Ready(e) /\ Same(e, d) /\ Len(Last(e.path)) <= m
                                  /\ F(i + 1) <= m => Len(Last(e.path)) = F(i + 1)}
           D == [i \in 0 .. n |-> G(i)]
           attached == FoldLeft(LAMBDA e, i : AttachStep(e, i, d, session), d, indices)
<1>1. d \in Cache /\ MinCacheOffset(d) = m /\ Len(Last(d.path)) \in Nat
  BY ReadyIs, MinOffsetIs, LenIs
<1>2. Pending(pending) /\ n \in Nat /\ DOMAIN pending = 1 .. n
  <2>1. Pending(pending)
    BY DEF Due
  <2>2. pending \in Seq([offset : Nat, user : BOOLEAN])
    BY <2>1 DEF Pending
  <2> QED
    BY <2>1, <2>2
<1>3. CASE pending = <<>>
  <2>1. AttachPrefill(d, session) = d /\ ~d.captures.on
    BY <1>3 DEF AttachPrefill, Due
  <2> QED
    BY <1>1, <2>1 DEF Uncaptured
<1>4. CASE pending # <<>>
  <2>1. d.captures.base = Len(Last(d.path)) /\ \A i \in DOMAIN pending : d.captures.base < pending[i].offset
    BY <1>4 DEF Due
  <2>2. \A i \in 1 .. n : pending[i].offset \in Nat /\ F(i + 1) = pending[i].offset
    <3> SUFFICES ASSUME NEW i \in 1 .. n PROVE pending[i].offset \in Nat /\ F(i + 1) = pending[i].offset
      OBVIOUS
    <3>1. pending[i].offset \in Nat
      BY <1>2, PendingIs
    <3>2. i + 1 # 1 /\ i + 1 - 1 = i
      OBVIOUS
    <3>3. F(i + 1) = pending[i].offset
      BY <3>2 DEF CaptureFrom
    <3> QED
      BY <3>1, <3>3
  <2>3. F(1) = Len(Last(d.path))
    BY <2>1 DEF CaptureFrom
  <2>4. \A i \in 1 .. n : F(i) \in Nat /\ F(i) < pending[i].offset
    <3> SUFFICES ASSUME NEW i \in 1 .. n PROVE F(i) \in Nat /\ F(i) < pending[i].offset
      OBVIOUS
    <3>1. CASE i = 1
      BY <1>1, <1>2, <2>1, <2>3, <3>1
    <3>2. CASE i # 1
      <4>1. i - 1 \in 1 .. n /\ i - 1 < i
        BY <3>2
      <4>2. F(i) = pending[i - 1].offset
        BY <3>2 DEF CaptureFrom
      <4>3. pending[i - 1].offset \in Nat /\ pending[i - 1].offset < pending[i].offset
        BY <1>2, <2>2, <4>1 DEF Pending
      <4> QED
        BY <4>2, <4>3
    <3> QED
      BY <3>1, <3>2
  <2> HIDE DEF F
  <2>5. attached = Attaching!Fold(env, d, indices)
    BY DEF Attaching!Fold, Attaching!MapThenFoldSet, Attaching!Greatest, FoldLeft, MapThenFoldSet, Max
  <2> HIDE DEF attached
  <2>6. d \in D[0]
    <3>1. Same(d, d)
      BY DEF Same
    <3>2. d \in G(0)
      BY <1>1, <2>3, <3>1
    <3> QED
      BY <1>2, <3>2
  <2>7. \A i \in 1 .. n : \A e \in D[i - 1] : AttachStep(e, indices[i], env.cache, env.session) \in D[i]
    <3> TAKE i \in 1 .. n
    <3>1. D[i - 1] = G(i - 1) /\ D[i] = G(i) /\ indices[i] = i /\ env.cache = d /\ env.session = session
      BY <1>2
    <3>2. i - 1 + 1 = i
      OBVIOUS
    <3>3. ASSUME NEW e \in G(i - 1) PROVE AttachStep(e, i, d, session) \in G(i)
      <4>1. e \in Cache /\ Ready(e) /\ Same(e, d) /\ Len(Last(e.path)) <= m /\ (F(i) <= m => Len(Last(e.path)) = F(i))
        BY <3>2
      <4> DEFINE f == AttachStep(e, i, d, session)
                 o == pending[i].offset
      <4>2. F(i) \in Nat /\ F(i) < o /\ o \in Nat /\ F(i + 1) = o
        BY <2>2, <2>4
      <4>3. CASE m < o
        <5>1. f = e
          <6>1. o > MinCacheOffset(d)
            BY <1>1, <4>2, <4>3
          <6> QED
            BY <6>1 DEF AttachStep
        <5>2. ~(F(i + 1) <= m)
          BY <4>2, <4>3
        <5> HIDE DEF f
        <5> QED
          BY <4>1, <5>1, <5>2 DEF f
      <4>4. CASE o <= m
        <5>1. Captured(e, d, m, F(i)) /\ F(i) = CaptureFrom(d, session.pending, i) /\ i \in DOMAIN session.pending
          <6>1. F(i) <= m
            BY <4>2, <4>4
          <6> QED
            BY <1>2, <4>1, <6>1 DEF Captured, F
        <5>2. Captured(f, d, m, o)
          <6> DEFINE from == F(i)
          <6>1. from \in Nat /\ from = CaptureFrom(d, session.pending, i) /\ from < session.pending[i].offset
            BY <4>2, <5>1
          <6>2. Captured(e, d, m, from) /\ session.pending[i].offset <= m
            BY <4>4, <5>1
          <6> HIDE DEF from
          <6> QED
            BY <1>1, <1>2, <5>1, <6>1, <6>2, AttachStepIs
        <5> HIDE DEF f, o
        <5>3. Ready(f) /\ Same(f, d) /\ Len(Last(f.path)) = o /\ o <= m /\ f \in Cache
          BY <5>2, ReadyIs DEF Captured
        <5> QED
          BY <4>2, <5>3 DEF f
      <4> QED
        BY <4>2, <4>3, <4>4
    <3> HIDE DEF G, D, indices, env
    <3> QED
      BY <3>1, <3>3
  <2>8. Attaching!Fold(env, d, indices) \in D[n]
    <3>1. DOMAIN indices = 1 .. n
      BY <1>2
    <3> HIDE DEF D, n, indices, env
    <3> QED
      BY <1>2, <2>6, <2>7, <3>1, Attaching!FoldKeeps
  <2>9. D[n] = G(n)
    BY <1>2
  <2>10. Ready(attached) /\ Same(attached, d) /\ Len(Last(attached.path)) <= m
    BY <2>5, <2>8, <2>9
  <2> DEFINE h == WithCaptures(attached, NoCaptures)
             r == EnforceEvictionPolicy(h)
  <2>11. AttachPrefill(d, session) = r
    BY <1>4 DEF AttachPrefill, WithCaptures, attached
  <2>12. NoCaptures \in Schedules /\ ~NoCaptures.on
    BY DEF NoCaptures, Schedules
  <2>13. /\ Ready(h) /\ h.captures = NoCaptures /\ h.layers = d.layers /\ h.kv = d.kv /\ h.rec = d.rec
         /\ h.path = attached.path /\ h.panicked = d.panicked
    BY <2>10, <2>12, CapturesChange DEF Same
  <2> HIDE DEF h
  <2>14. Follows(r, h)
    BY <2>13, EnforceIs
  <2> HIDE DEF r
  <2>15. Len(Last(r.path)) \in Nat
    BY <2>14, ReadyIs, LenIs DEF Follows
  <2>16. Uncaptured(r, d, m)
    BY <2>10, <2>12, <2>13, <2>14, <2>15 DEF Uncaptured, Follows, Same
  <2> QED
    BY <2>11, <2>16
<1> QED
  BY <1>3, <1>4

Decoding == INSTANCE FoldInduction WITH Op <- LAMBDA e, i, stream : Forward(e, stream, i)

Evaluated(d, stream, ends) == FoldLeft(LAMBDA e, i : Forward(e, stream, i), d, ends)

(* A forward pass for each token after the first m.                         *)
LEMMA DecodeIs ==
    ASSUME NEW d, Ready(d), NEW m \in Nat, At(d, m), NEW stream \in Keys, NEW n \in Nat, m + n <= Len(stream),
           NEW ends, ends = [i \in 1 .. n |-> m + i]
    PROVE  Stays(Evaluated(d, stream, ends), d) /\ At(Evaluated(d, stream, ends), m + n)
<1> DEFINE G(i) == {e \in Cache : Stays(e, d) /\ At(e, m + i)}
           D == [i \in 0 .. n |-> G(i)]
           r == Evaluated(d, stream, ends)
<1>1. r = Decoding!Fold(stream, d, ends)
  BY DEF Evaluated, Decoding!Fold, Decoding!MapThenFoldSet, Decoding!Greatest, FoldLeft, MapThenFoldSet, Max
<1> HIDE DEF r
<1>2. d \in D[0]
  <2>1. m + 0 = m /\ d \in Cache /\ Stays(d, d)
    BY ReadyIs, StaysItself
  <2>2. d \in G(0)
    BY <2>1
  <2> QED
    BY <2>2
<1>3. \A i \in 1 .. n : \A e \in D[i - 1] : Forward(e, stream, ends[i]) \in D[i]
  <2> TAKE i \in 1 .. n
  <2>1. D[i - 1] = G(i - 1) /\ D[i] = G(i) /\ ends[i] = m + i
    OBVIOUS
  <2>2. m + (i - 1) \in Nat /\ m + (i - 1) <= m + i /\ m + i \in Nat /\ m + i <= Len(stream)
    <3>1. Len(stream) \in Nat /\ i \in Nat /\ 1 <= i /\ i <= n
      BY LenIs
    <3> QED
      BY <3>1
  <2>3. ASSUME NEW e \in G(i - 1) PROVE Forward(e, stream, m + i) \in G(i)
    <3>1. Stays(e, d) /\ At(e, m + (i - 1)) /\ Ready(e)
      BY DEF Stays
    <3> DEFINE f == Forward(e, stream, m + i)
    <3>2. Stays(f, e) /\ At(f, m + i)
      <4> DEFINE lo == m + (i - 1)
                 hi == m + i
      <4>1. lo \in Nat /\ hi \in Nat /\ lo <= hi /\ hi <= Len(stream) /\ At(e, lo)
        BY <2>2, <3>1
      <4> HIDE DEF lo, hi
      <4>2. Stays(Forward(e, stream, hi), e) /\ At(Forward(e, stream, hi), hi)
        BY <3>1, <4>1, ForwardIs
      <4> QED
        BY <4>2 DEF hi
    <3> HIDE DEF f
    <3>3. Stays(f, d) /\ f \in Cache
      BY <3>1, <3>2, StaysIs, ReadyIs DEF Stays
    <3> QED
      BY <3>2, <3>3 DEF f
  <2> HIDE DEF G, D
  <2> QED
    BY <2>1, <2>3
<1>4. Decoding!Fold(stream, d, ends) \in D[n]
  <2>1. DOMAIN ends = 1 .. n
    OBVIOUS
  <2> HIDE DEF D
  <2> QED
    BY <1>2, <1>3, <2>1, Decoding!FoldKeeps
<1>5. D[n] = G(n)
  OBVIOUS
<1>6. Stays(r, d) /\ At(r, m + n)
  BY <1>1, <1>4, <1>5
<1> QED
  BY <1>6 DEF r

(* What a node lacks is taken from the layers, which are at its end.        *)
PagedNode(d, k) ==
    [d.trie[k] EXCEPT
        !.kv = IF @ # NoSnapshot \/ "kv" \notin ToSet(d.layers) THEN @ ELSE Lazy(StartOffset(d.trie, k), d.kv.off),
        !.rec = IF @ # <<>> THEN @ ELSE d.rec]

(* pageOut where the layers rest gives the end of the path what it lacks.   *)
LEMMA PageOutIs ==
    ASSUME NEW d, Open(d), NEW k, k = Last(d.path), k # Root, At(d, Len(k))
    PROVE  Follows(PageOut(d, k), d)
<1> DEFINE T == d.trie
           n == Len(d.kv.buf)
           at == StartOffset(T, k)
           new == PagedNode(d, k)
           g == SetNode(d, k, new)
<1>1. /\ d \in Cache /\ Nodes(T, n) /\ n \in Nat /\ k \in DOMAIN T /\ k \in Keys /\ DOMAIN T \subseteq Keys /\ Root \in DOMAIN T
      /\ d.kv.off <= n /\ ("rec" \notin ToSet(d.layers) => d.rec = <<>>) /\ d.rec \in Keys /\ d.kv.off \in Nat
  BY OpenIs, CacheIs DEF Sound
<1>2. T[k] \in Node /\ NodeIs(T, k, n)
  <2> HIDE DEF n
  <2> QED
    BY <1>1, NodesIs
<1>3. at \in Nat /\ at < Len(k) /\ Len(k) \in Nat
  BY <1>1, ParentIs, LenIs
<1>4. /\ "kv" \in ToSet(d.layers) => d.kv.off = Len(k) /\ Len(k) <= n
      /\ d.rec # <<>> => Len(d.rec) = Len(k)
  BY <1>1 DEF At, Offset
<1> HIDE DEF at, n
<1>5. CASE \A layer \in ToSet(d.layers) : HasSnapshot(T[k], layer)
  <2>1. PageOut(d, k) = d
    BY <1>5 DEF PageOut
  <2>2. "kv" \in ToSet(d.layers) => T[k].kv # NoSnapshot
    BY <1>5 DEF HasSnapshot
  <2>3. Held(d, {})
    BY <1>1, <2>2, OpenIs DEF Held, Filled
  <2>4. Ready(d)
    BY <2>3, OpenIs DEF Ready
  <2> QED
    BY <2>1, <2>4, FollowsItself
<1>6. CASE ~(\A layer \in ToSet(d.layers) : HasSnapshot(T[k], layer))
  <2>1. PageOut(d, k) = EnforceEvictionPolicy(g)
    BY <1>6 DEF PageOut, SetNode, PagedNode
  <2>2. /\ new.kv = IF T[k].kv # NoSnapshot \/ "kv" \notin ToSet(d.layers) THEN T[k].kv ELSE Lazy(at, d.kv.off)
        /\ new.rec = (IF T[k].rec # <<>> THEN T[k].rec ELSE d.rec)
        /\ new.used = T[k].used /\ new.user = T[k].user /\ (new.kv \in Snapshot => new \in Node)
    BY <1>1, <1>2 DEF PagedNode, Node, at
  <2> HIDE DEF new
  <2>3. /\ Fine(new.kv, n) /\ Spans(new.kv, at, Len(k))
        /\ ("kv" \in ToSet(d.layers) => new.kv # NoSnapshot)
    <3>1. CASE T[k].kv # NoSnapshot \/ "kv" \notin ToSet(d.layers)
      <4>1. new.kv = T[k].kv
        BY <2>2, <3>1
      <4> QED
        BY <1>2, <3>1, <4>1 DEF NodeIs, at
    <3>2. CASE ~(T[k].kv # NoSnapshot \/ "kv" \notin ToSet(d.layers))
      <4>1. new.kv = Lazy(at, d.kv.off) /\ d.kv.off = Len(k) /\ Len(k) <= n
        BY <1>4, <2>2, <3>2
      <4> DEFINE to == Len(k)
      <4>2. to \in Nat /\ at < to /\ to <= n /\ n \in Nat /\ at \in Nat /\ new.kv = Lazy(at, to)
        BY <1>1, <1>3, <4>1 DEF n
      <4> HIDE DEF to
      <4>3. Fine(Lazy(at, to), n) /\ Spans(Lazy(at, to), at, to) /\ Lazy(at, to) # NoSnapshot
        BY <4>2, LazyIs
      <4> QED
        BY <4>2, <4>3 DEF to
    <3> QED
      BY <3>1, <3>2
  <2>4. new.rec # <<>> => Len(new.rec) = Len(k)
    BY <1>2, <1>4, <2>2 DEF NodeIs
  <2>5. Suits(new, T, k, n)
    BY <2>2, <2>3, <2>4 DEF Suits, Fine, at
  <2>6. Reset(g, d, k, new)
    BY <2>5, SetNodeIs DEF n
  <2>7. Ready(g) /\ Same(g, d) /\ g.path = d.path
    BY <2>3, <2>6 DEF Reset
  <2> HIDE DEF g
  <2>8. Follows(EnforceEvictionPolicy(g), g)
    BY <2>7, EnforceIs
  <2> QED
    BY <2>1, <2>7, <2>8 DEF Follows, Same
<1> QED
  BY <1>5, <1>6

(* The layers are at the end of the path, and no capture is left.           *)
Resting(e, d, m) ==
    /\ Ready(e) /\ e.layers = d.layers /\ e.panicked = d.panicked /\ ~e.captures.on
    /\ At(e, m) /\ Len(Last(e.path)) = m

(* close: the layers rest at the end of the path again.                     *)
LEMMA SavedIs ==
    ASSUME NEW d, Ready(d), NEW m \in Nat, At(d, m), Len(Last(d.path)) <= m,
           NEW session, Stored(session) \in Keys, m <= Len(Stored(session)), Due(d, session.pending)
    PROVE  Resting(Saved(d, session), d, m)
<1> DEFINE e == AttachPrefill(d, session)
           stored == Stored(session)
           g == AdvancePath(e, stored, m)
           k == Last(g.path)
           p == PageOut(g, k)
           q == CompactPath(p)
           Used(f) == Touch(f, Last(f.path))
           r == Saved(d, session)
<1>1. Uncaptured(e, d, m)
  BY AttachPrefillIs
<1> HIDE DEF e
<1>2. /\ Ready(e) /\ e.layers = d.layers /\ e.kv = d.kv /\ e.rec = d.rec /\ e.panicked = d.panicked
      /\ ~e.captures.on /\ Len(Last(e.path)) \in Nat /\ Len(Last(e.path)) <= m
  BY <1>1 DEF Uncaptured
<1>3. At(e, m) /\ MinCacheOffset(e) = m
  <2>1. At(e, m)
    BY <1>2 DEF At, Offset
  <2> QED
    BY <1>2, <2>1, MinOffsetIs, ReadyIs
<1>4. r = (IF m = 0 THEN e
           ELSE IF m > Len(stored) THEN Panic(e)
           ELSE IF m > Len(Last(e.path)) THEN Used(q) ELSE Used(e))
  BY <1>3 DEF Saved, CloseAttach, PagedOut, e
<1>5. stored \in Keys /\ Len(stored) \in Nat /\ m <= Len(stored)
  BY LenIs
<1>6. ASSUME NEW f, Ready(f) PROVE Follows(Used(f), f)
  <2>1. Last(f.path) \in DOMAIN f.trie
    BY <1>6, ReadyIs
  <2> QED
    BY <1>6, <2>1, TouchFollows
<1>7. CASE m = 0
  <2>1. r = e /\ Len(Last(e.path)) = m
    BY <1>2, <1>4, <1>7
  <2> QED
    BY <1>2, <1>3, <2>1 DEF Resting
<1>8. CASE m # 0 /\ m > Len(Last(e.path))
  <2> DEFINE key == KeyOn(e, stored, m)
  <2>1. r = Used(q)
    BY <1>4, <1>5, <1>8
  <2>2. Advanced(g, e, Last(e.path), key) /\ key \in Keys /\ Len(key) = m
    <3>1. Len(Last(e.path)) < m
      BY <1>2, <1>8
    <3> QED
      BY <1>2, <1>5, <3>1, AdvancePathIs
  <2> HIDE DEF g, stored, key
  <2>3. Open(g) /\ Same(g, e) /\ k = key
    BY <2>2 DEF Advanced
  <2>4. At(g, m) /\ g.layers = e.layers
    BY <1>3, <2>3, SameAt DEF Same
  <2>5. k = Last(g.path) /\ k # Root /\ At(g, Len(k)) /\ Len(k) = m
    <3>1. key # Root
      BY <1>8, <2>2, LenIs
    <3> QED
      BY <2>2, <2>3, <2>4, <3>1
  <2> HIDE DEF k
  <2>6. Follows(p, g)
    BY <2>3, <2>5, PageOutIs
  <2>7. Follows(q, p)
    BY <2>6, CompactPathIs DEF Follows
  <2> HIDE DEF p, q
  <2>8. Follows(Used(q), q)
    BY <1>6, <2>7 DEF Follows
  <2> HIDE DEF Used
  <2>9. Follows(Used(q), g)
    BY <2>6, <2>7, <2>8, FollowsIs
  <2>10. At(Used(q), m)
    BY <2>4, <2>9, SameAt DEF Follows
  <2> QED
    BY <1>2, <2>1, <2>3, <2>5, <2>9, <2>10 DEF Resting, Follows, Same
<1>9. CASE m # 0 /\ ~(m > Len(Last(e.path)))
  <2>1. r = Used(e) /\ Len(Last(e.path)) = m
    BY <1>2, <1>4, <1>5, <1>9
  <2>2. Follows(Used(e), e)
    BY <1>2, <1>6
  <2> HIDE DEF Used
  <2>3. At(Used(e), m)
    BY <1>3, <2>2, SameAt DEF Follows
  <2> QED
    BY <1>2, <2>1, <2>2, <2>3 DEF Resting, Follows, Same
<1> QED
  BY <1>7, <1>8, <1>9

(* The cache with the uses of its nodes counted anew.                       *)
WithUses(d, U, clock) == [d EXCEPT !.trie = U, !.clock = clock]

(* Other uses of the nodes.                                                 *)
LEMMA UsesChange ==
    ASSUME NEW d, Ready(d), NEW clock \in Nat, NEW U \in [DOMAIN d.trie -> Node],
           \A k \in DOMAIN d.trie : U[k].kv = d.trie[k].kv /\ U[k].rec = d.trie[k].rec
    PROVE  Follows(WithUses(d, U, clock), d)
<1> DEFINE T == d.trie
           e == WithUses(d, U, clock)
<1>1. /\ Sound(d) /\ PathTo(DOMAIN T, d.path) /\ Held(d, {}) /\ d \in Cache /\ Nodes(T, Len(d.kv.buf))
      /\ Len(d.kv.buf) \in Nat /\ DOMAIN T \subseteq Keys
  BY ReadyIs
<1>2. Nodes(U, Len(d.kv.buf)) /\ Total(U) = Total(T) /\ DOMAIN U = DOMAIN T
  BY <1>1, SameNodes
<1>3. U \in Tries
  BY <1>1, <1>2, TriesAre
<1>4. e \in Cache /\ Same(e, d) /\ e.trie = U /\ e.path = d.path /\ e.bytes = d.bytes
  BY <1>1, <1>3 DEF WithUses, Cache, Same
<1> HIDE DEF e
<1>5. Sound(e)
  BY <1>1, <1>2, <1>4 DEF Sound, Same
<1>6. Held(e, {})
  BY <1>1, <1>2, <1>4 DEF Held, Filled, Same
<1> QED
  BY <1>1, <1>2, <1>4, <1>5, <1>6 DEF Follows, Ready, e

(* Counting the uses anew and cutting the buffer where nothing needs it     *)
(* changes nothing else.                                                    *)
LEMMA SettledIs ==
    ASSUME NEW d, Ready(d), NEW m \in Nat, At(d, m)
    PROVE  /\ Keeps(Settled(d), d) /\ At(Settled(d), m) /\ Settled(d).path = d.path
<1> DEFINE T == d.trie
           uses == {T[k].used : k \in DOMAIN T}
           Rank(u) == Cardinality({v \in uses : v < u})
           S == {d.kv.off} \cup {T[k].kv.to : k \in {j \in DOMAIN T : T[j].kv.lazy}}
           n == Len(d.kv.buf)
           end == Max(S)
           buf == SubSeq(d.kv.buf, 1, end)
           kv == [buf |-> buf, off |-> d.kv.off]
           U == [k \in DOMAIN T |-> [T[k] EXCEPT !.used = Rank(@)]]
           f == WithKv(d, kv)
           g == WithUses(f, U, Cardinality(uses))
<1>1. /\ d \in Cache /\ n \in Nat /\ d.kv.off \in Nat /\ d.kv.off <= n /\ d.kv.buf \in Seq(Keys)
      /\ IsFiniteSet(DOMAIN T) /\ \A k \in DOMAIN T : T[k] \in Node /\ NodeIs(T, k, n)
  <2>1. d \in Cache /\ Nodes(T, n) /\ n \in Nat /\ d.kv.off <= n
    BY ReadyIs DEF Sound
  <2>2. d.kv.off \in Nat /\ d.kv.buf \in Seq(Keys)
    BY <2>1, CacheIs
  <2>3. IsFiniteSet(DOMAIN T)
    BY <2>1 DEF Nodes, Table
  <2> HIDE DEF n
  <2> QED
    BY <2>1, <2>2, <2>3, NodesIs
<1>2. end \in 0 .. n /\ end \in S /\ \A x \in S : x <= end
  <2>1. ASSUME NEW k \in DOMAIN T, T[k].kv.lazy PROVE T[k].kv.to \in 0 .. n
    <3>1. Fine(T[k].kv, n)
      BY <1>1 DEF NodeIs
    <3> QED
      BY <1>1, <2>1, <3>1 DEF Fine, Snapshot
  <2>2. S \in SUBSET (0 .. n) /\ S # {}
    <3>1. d.kv.off \in 0 .. n
      BY <1>1
    <3> HIDE DEF n
    <3> QED
      BY <2>1, <3>1
  <2> HIDE DEF S, n
  <2>3. Max(S) \in S /\ \A x \in S : x <= Max(S)
    BY <1>1, <2>2, MaxIs
  <2> QED
    BY <2>2, <2>3
<1>3. d.kv.off <= end /\ \A k \in DOMAIN T : T[k].kv.lazy => T[k].kv.to <= end
  <2>1. d.kv.off \in S /\ \A k \in DOMAIN T : T[k].kv.lazy => T[k].kv.to \in S
    OBVIOUS
  <2> HIDE DEF S, end
  <2> QED
    BY <1>2, <2>1
<1> HIDE DEF S, end, n
<1>4. buf \in Seq(Keys) /\ Len(buf) = end /\ end \in Nat
  <2>1. end \in Nat /\ end <= Len(d.kv.buf)
    BY <1>1, <1>2 DEF n
  <2> QED
    BY <1>1, <2>1
<1> HIDE DEF buf
<1>5. kv \in Buffers /\ kv.off <= Len(kv.buf) /\ Len(kv.buf) = end
  BY <1>1, <1>3, <1>4 DEF Buffers
<1>6. Nodes(T, end)
  <2>1. Table(T) /\ Tree(DOMAIN T)
    BY ReadyIs
  <2>2. ASSUME NEW k \in DOMAIN T PROVE NodeIs(T, k, end)
    <3>1. NodeIs(T, k, n)
      BY <1>1
    <3>2. Fine(T[k].kv, n) /\ (T[k].kv.lazy => T[k].kv.to <= end)
      BY <1>3, <3>1 DEF NodeIs
    <3>3. Fine(T[k].kv, end)
      BY <3>2 DEF Fine
    <3> QED
      BY <3>1, <3>3 DEF NodeIs
  <2> QED
    BY <2>1, <2>2 DEF Nodes
<1>7. /\ Stays(f, d) /\ f.kv = kv /\ f.rec = d.rec /\ f.trie = T
  BY <1>5, <1>6, KvChange
<1>8. IsFiniteSet(uses) /\ Cardinality(uses) \in Nat /\ \A u : Rank(u) \in Nat
  <2>1. IsFiniteSet(uses)
    <3> DEFINE F == [k \in DOMAIN T |-> T[k].used]
    <3>1. F \in Surjection(DOMAIN T, uses)
      BY DEF Surjection
    <3> HIDE DEF F
    <3> QED
      BY <1>1, <3>1, FS_Surjection
  <2>2. ASSUME NEW u PROVE Rank(u) \in Nat
    <3>1. {v \in uses : v < u} \subseteq uses
      OBVIOUS
    <3> QED
      BY <2>1, <3>1, FS_Subset, FS_CardinalityType
  <2> QED
    BY <2>1, <2>2, FS_CardinalityType
<1>9. U \in [DOMAIN T -> Node] /\ \A k \in DOMAIN T : U[k].kv = T[k].kv /\ U[k].rec = T[k].rec
  <2> SUFFICES ASSUME NEW k \in DOMAIN T
               PROVE  U[k] \in Node /\ U[k].kv = T[k].kv /\ U[k].rec = T[k].rec
    OBVIOUS
  <2>1. T[k] \in Node /\ Rank(T[k].used) \in Nat
    BY <1>1, <1>8
  <2> HIDE DEF Rank
  <2>2. U[k] = [T[k] EXCEPT !.used = Rank(T[k].used)]
    BY <2>1 DEF Node
  <2> HIDE DEF U
  <2> QED
    BY <2>1, <2>2 DEF Node
<1>10. Settled(d) = g
  <2>1. Settled(d) = [d EXCEPT !.trie = U, !.clock = Cardinality(uses), !.kv.buf = buf]
    BY DEF Settled, buf, end, S
  <2> HIDE DEF U, uses
  <2> QED
    BY <1>1, <2>1 DEF WithKv, WithUses, Cache, Buffers
<1>11. Follows(g, f)
  <2>1. Ready(f) /\ U \in [DOMAIN f.trie -> Node] /\ Cardinality(uses) \in Nat
        /\ \A k \in DOMAIN f.trie : U[k].kv = f.trie[k].kv /\ U[k].rec = f.trie[k].rec
    BY <1>7, <1>8, <1>9 DEF Stays
  <2> HIDE DEF U, uses, f
  <2> QED
    BY <2>1, UsesChange
<1>12. g.path = f.path
  <2>1. f \in Cache
    BY <1>7, ReadyIs DEF Stays
  <2> QED
    BY <2>1 DEF WithUses, Cache
<1> HIDE DEF g, f, uses, U
<1>13. At(f, m)
  BY <1>7 DEF At, Offset, Stays
<1>14. At(g, m)
  BY <1>11, <1>13, SameAt DEF Follows
<1> QED
  BY <1>7, <1>10, <1>11, <1>12, <1>14 DEF Keeps, Stays, Follows, Same

(* A prompt is a sequence of tokens, not empty.                             *)
LEMMA PromptIs ==
    ASSUME NEW t \in Prompts
    PROVE  t \in Keys /\ Len(t) \in Nat \ {0} /\ t # <<>>
  BY PromptsAssumption DEF Keys

(* An answer is a sequence of tokens.                                       *)
LEMMA AnswerIs == ASSUME NEW t \in Answers PROVE t \in Keys /\ Len(t) \in Nat
  BY PromptsAssumption DEF Keys

(* findBestMatch from the root yields a path that a request may go over to. *)
Target(T, p, n, t) ==
    /\ PathTo(DOMAIN T, p) /\ n \in Nat /\ n <= Len(Last(p)) /\ n <= Len(t)
    /\ Last(p) = Root \/ StartOffset(T, Last(p)) < n

(* Its end is the root, or more of its edge matches than nothing.           *)
LEMMA TargetIs ==
    ASSUME NEW T, Tree(DOMAIN T), NEW t \in Keys
    PROVE  Target(T, MatchPath(T, Root, t), Matched(T, Root, t), t)
<1> DEFINE p == MatchPath(T, Root, t)
           n == Matched(T, Root, t)
<1>1. Root \in DOMAIN T /\ DOMAIN T \subseteq Keys
  BY DEF Tree
<1>2. /\ p \in Seq(DOMAIN T) /\ Len(p) \in Nat \ {0}
      /\ \A i, j \in DOMAIN p : i < j => Len(p[i]) < Len(p[j])
  <2> HIDE DEF p
  <2>1. p = MatchPath(T, Root, t)
    BY DEF p
  <2> QED
    BY <1>1, <2>1, MatchIs
<1>3. /\ n \in Nat /\ Agree(Last(p), t, n)
      /\ Last(p) = Root \/ StartOffset(T, Last(p)) < n
      /\ ToSet(p) = {o \in DOMAIN T : IsPrefix(Root, o) /\ IsPrefix(o, Last(p))}
  <2> HIDE DEF p, n
  <2>1. p = MatchPath(T, Root, t) /\ n = Matched(T, Root, t)
    BY DEF p, n
  <2> QED
    BY <1>1, <2>1, MatchedIs
<1> HIDE DEF p, n
<1>4. n <= Len(Last(p)) /\ n <= Len(t)
  BY <1>3 DEF Agree
<1>5. ToSet(p) = {o \in DOMAIN T : IsPrefix(o, Last(p))}
  <2>1. \A o \in DOMAIN T : IsPrefix(Root, o)
    BY <1>1, PrefixOrder DEF Root
  <2> QED
    BY <1>3, <2>1
<1>6. PathTo(DOMAIN T, p)
  <2>1. p # <<>>
    BY <1>2
  <2> QED
    BY <1>2, <1>5, <2>1 DEF PathTo
<1> QED
  BY <1>3, <1>4, <1>6 DEF Target, p, n

(* The part of a prompt that begin matches leaves a token to be evaluated.  *)
LEMMA MatchableIs ==
    ASSUME Tree(DOMAIN c.trie), NEW inputs \in Prompts
    PROVE  Matchable(inputs) \in Keys /\ Matched(c.trie, Root, Matchable(inputs)) < Len(inputs)
<1> DEFINE T == c.trie
           t == IF Matched(T, Root, inputs) = Len(inputs) THEN Front(inputs) ELSE inputs
           n == Matched(T, Root, t)
           l == Len(inputs)
<1>1. inputs \in Keys /\ l \in Nat \ {0}
  BY PromptIs
<1>2. Front(inputs) \in Keys /\ Len(Front(inputs)) = l - 1
  <2>1. Front(inputs) = SubSeq(inputs, 1, l - 1)
    BY DEF Front
  <2>2. l - 1 \in Nat /\ l - 1 <= Len(inputs)
    BY <1>1
  <2> HIDE DEF l
  <2> QED
    BY <1>1, <2>1, <2>2, InitialIs
<1>3. \A x \in Keys : Matched(T, Root, x) \in Nat /\ Matched(T, Root, x) <= Len(x)
  BY TargetIs DEF Target
<1>4. t \in Keys /\ n \in Nat /\ n < l
  <2>1. CASE Matched(T, Root, inputs) = Len(inputs)
    <3>1. t = Front(inputs)
      BY <2>1
    <3> HIDE DEF t, l, T
    <3> QED
      BY <1>1, <1>2, <1>3, <3>1
  <2>2. CASE Matched(T, Root, inputs) # Len(inputs)
    <3>1. t = inputs
      BY <2>2
    <3>2. Matched(T, Root, inputs) # l
      BY <2>2
    <3>3. Matched(T, Root, inputs) \in Nat /\ Matched(T, Root, inputs) <= l
      BY <1>1, <1>3
    <3> HIDE DEF t, l, T
    <3> QED
      BY <1>1, <3>1, <3>2, <3>3
  <2> QED
    BY <2>1, <2>2
<1>5. Matchable(inputs) = IF InsideItem(inputs, n) THEN SubSeq(inputs, 1, ItemStart(inputs, n)) ELSE t
  BY DEF Matchable
<1> HIDE DEF t, n, T
<1>6. CASE InsideItem(inputs, n)
  <2> DEFINE b == ItemStart(inputs, n)
             u == SubSeq(inputs, 1, b)
  <2>1. b \in 0 .. n
    <3>1. n \in 0 .. Len(inputs)
      BY <1>1, <1>4
    <3> QED
      BY <1>1, <3>1, ItemStartIs
  <2>2. b \in Nat /\ b <= Len(inputs) /\ b < l
    BY <1>1, <1>4, <2>1
  <2> HIDE DEF b
  <2>3. u \in Keys /\ Len(u) = b
    BY <1>1, <2>2, InitialIs
  <2>4. Matchable(inputs) = u
    BY <1>5, <1>6 DEF b
  <2> HIDE DEF u
  <2>5. Matched(T, Root, u) \in Nat /\ Matched(T, Root, u) <= Len(u)
    BY <1>3, <2>3
  <2> HIDE DEF l
  <2>6. Matched(T, Root, u) < l
    BY <1>1, <2>2, <2>3, <2>5
  <2> QED
    BY <2>3, <2>4, <2>6 DEF T, l
<1>7. CASE ~InsideItem(inputs, n)
  BY <1>4, <1>5, <1>7 DEF n, T
<1> QED
  BY <1>6, <1>7

-----------------------------------------------------------------------------
(* The inductive invariant.  m is the token the layers are at.              *)

Phases == {"idle", "begun", "prefill", "prefilled", "over"}
Schedule == [offset : Nat, user : BOOLEAN]
Sessions == [phase : Phases, inputs : Keys, outputs : Keys, cached : Nat, pending : Seq(Schedule)]

(* What the layers hold is of the request's tokens; until the prompt has    *)
(* been evaluated, its last token has not.                                  *)
Served(session, m) ==
    /\ session.phase # "idle" => session.inputs \in Prompts /\ m <= Len(Stored(session))
    /\ session.phase \in {"begun", "prefill"} => m < Len(session.inputs)
    /\ session.phase = "prefilled" => m = Len(session.inputs) - 1

(* Before captures are scheduled the layers rest at the end of the path;    *)
(* from then on the schedule in the layers is that of the session.          *)
OnSchedule(d, session, m) ==
    /\ session.phase \in {"idle", "begun"} =>
         /\ m = Len(Last(d.path)) /\ ~d.captures.on /\ Pending(session.pending)
         /\ \A i \in DOMAIN session.pending : m < session.pending[i].offset
    /\ session.phase \notin {"idle", "begun"} => Due(d, session.pending)

Standing(d, session, m) ==
    /\ Ready(d) /\ ~d.panicked /\ At(d, m) /\ Len(Last(d.path)) <= m
    /\ session \in Sessions /\ Served(session, m) /\ OnSchedule(d, session, m)

IInv == \E m \in Nat : Standing(c, s, m)

(* The tokens of a session.                                                 *)
LEMMA StoredIs ==
    ASSUME NEW session \in Sessions
    PROVE  /\ Stored(session) \in Keys /\ session.inputs \in Keys /\ session.outputs \in Keys
           /\ Len(Stored(session)) = Len(session.inputs) + Len(session.outputs)
           /\ Len(session.inputs) \in Nat /\ Len(session.outputs) \in Nat
<1>1. session.inputs \in Keys /\ session.outputs \in Keys
  BY DEF Sessions
<1> QED
  BY <1>1, ConcatIs DEF Stored, Keys

(* The invariant, part by part.                                             *)
LEMMA StandingIs ==
    ASSUME NEW m \in Nat, Standing(c, s, m)
    PROVE  /\ Ready(c) /\ c.panicked = FALSE /\ At(c, m) /\ MinCacheOffset(c) = m
           /\ Tree(DOMAIN c.trie) /\ c \in Cache
           /\ Len(Last(c.path)) \in Nat /\ Len(Last(c.path)) <= m
           /\ s \in Sessions /\ Served(s, m) /\ OnSchedule(c, s, m)
<1>1. Ready(c) /\ ~c.panicked /\ At(c, m) /\ s \in Sessions /\ Served(s, m) /\ OnSchedule(c, s, m)
      /\ Len(Last(c.path)) <= m
  BY DEF Standing
<1>2. c \in Cache /\ Tree(DOMAIN c.trie) /\ Last(c.path) \in Keys
  BY <1>1, ReadyIs
<1>3. MinCacheOffset(c) = m
  BY <1>1, <1>2, MinOffsetIs
<1>4. c.panicked = FALSE
  BY <1>1, <1>2, CacheIs
<1> QED
  BY <1>1, <1>2, <1>3, <1>4, LenIs

(* No snapshots, and only the root: as the cache begins.                    *)
LEMMA EmptyTotal ==
    ASSUME NEW T, T = [k \in {Root} |-> NewNode(0)]
    PROVE  Table(T) /\ Total(T) = 0
<1>1. NewNode(0) \in Node /\ SnapshotBytes(NewNode(0)) = 0
  BY NewNodeIs DEF NewNode, SnapshotBytes, KvSize, RecSize, NoSnapshot
<1>2. DOMAIN T = {Root} /\ T[Root] = NewNode(0)
  OBVIOUS
<1>3. T \in [DOMAIN T -> Node] /\ IsFiniteSet(DOMAIN T)
  BY <1>1, <1>2, FS_Singleton
<1>4. Table(T)
  BY <1>3 DEF Table
<1>5. Total(T) = BytesAt(T, Root) + SumFunctionOnSet(Weights(T), DOMAIN T \ {Root})
  BY <1>4, TotalWithout
<1>6. BytesAt(T, Root) = 0
  BY <1>1, <1>2 DEF BytesAt
<1>7. SumFunctionOnSet(Weights(T), {}) = 0
  <2> DEFINE w == Weights(T)
             F == [t \in SUBSET {} |-> 0]
  <2>1. Adds(F, w, {}) /\ IsFiniteSet({})
    BY FS_EmptySet DEF Adds
  <2> HIDE DEF w
  <2>2. SumFunctionOnSet(w, {}) = F[{}]
    <3> HIDE DEF F
    <3> QED
      BY <2>1, SumIs
  <2> QED
    BY <2>2 DEF w
<1>8. DOMAIN T \ {Root} = {}
  BY <1>2
<1> QED
  BY <1>4, <1>5, <1>6, <1>7, <1>8

(* The root alone is a trie and a path.                                     *)
LEMMA RootTree ==
    /\ Tree({Root}) /\ PathTo({Root}, <<Root>>)
    /\ Root \in Keys /\ Len(Root) = 0 /\ Last(<<Root>>) = Root
<1>1. Root \in Keys /\ Len(Root) = 0 /\ Last(<<Root>>) = Root
  BY DEF Root, Keys, Last
<1>2. SubSeq(Root, 1, Common(Root, Root)) = Root
  <2>1. Common(Root, Root) \in Nat /\ Agree(Root, Root, Common(Root, Root))
    BY <1>1, CommonIs
  <2>2. Common(Root, Root) <= Len(Root)
    BY <2>1 DEF Agree
  <2>3. Common(Root, Root) = 0
    BY <1>1, <2>1, <2>2
  <2> QED
    BY <2>3 DEF Root
<1>3. Tree({Root})
  <2>1. \A j, k \in {Root} : SubSeq(j, 1, Common(j, k)) \in {Root}
    BY <1>2
  <2> QED
    BY <1>1, <2>1, FS_Singleton DEF Tree
<1>4. ToSet(<<Root>>) = {k \in {Root} : IsPrefix(k, Last(<<Root>>))}
  <2>1. ToSet(<<Root>>) = {Root}
    BY DEF ToSet
  <2>2. IsPrefix(Root, Root)
    BY <1>1, PrefixOrder
  <2> QED
    BY <1>1, <2>1, <2>2
<1>5. PathTo({Root}, <<Root>>)
  <2> DEFINE p == <<Root>>
  <2>1. p \in Seq({Root}) /\ p # <<>> /\ DOMAIN p = {1}
    OBVIOUS
  <2> QED
    BY <1>4, <2>1 DEF PathTo
<1> QED
  BY <1>1, <1>3, <1>5

(* The cache begins so.                                                     *)
LEMMA InitIs == ASSUME Init PROVE Standing(c, s, 0)
<1> PICK layers \in Models :
      c = [layers |-> layers, trie |-> [k \in {Root} |-> NewNode(0)], path |-> <<Root>>,
           kv |-> [buf |-> <<>>, off |-> 0], rec |-> <<>>,
           captures |-> NoCaptures, bytes |-> 0, clock |-> 1, panicked |-> FALSE]
  BY DEF Init
<1> DEFINE T == [k \in {Root} |-> NewNode(0)]
<1>1. Table(T) /\ Total(T) = 0 /\ DOMAIN T = {Root} /\ T[Root] = NewNode(0)
  BY EmptyTotal
<1>2. T \in Tries
  <2>1. T \in [DOMAIN T -> Node] /\ DOMAIN T \subseteq Keys
    BY <1>1, RootTree DEF Table
  <2> HIDE DEF T
  <2> QED
    BY <2>1, TriesAre
<1> HIDE DEF T
<1>3. /\ c.layers = layers /\ c.trie = T /\ c.path = <<Root>> /\ c.kv = [buf |-> <<>>, off |-> 0]
      /\ c.rec = <<>> /\ c.captures = NoCaptures /\ c.bytes = 0 /\ c.panicked = FALSE
  BY DEF T
<1>4. c \in Cache
  <2>1. <<Root>> \in Seq(Keys) /\ <<>> \in Seq(Keys) /\ <<>> \in Keys
    BY RootTree DEF Keys
  <2> QED
    BY <1>2, <2>1 DEF Cache, Buffers, Schedules, NoCaptures, T
<1>5. NodeIs(T, Root, 0)
  <2>1. Fine(NewNode(0).kv, 0) /\ NewNode(0).kv = NoSnapshot /\ NewNode(0).rec = <<>>
    BY NoSnapshotIs DEF NewNode
  <2> QED
    BY <1>1, <2>1 DEF NodeIs, Spans
<1>6. Nodes(T, 0)
  BY <1>1, <1>5, RootTree DEF Nodes
<1>7. Sound(c)
  BY <1>1, <1>3, <1>4, <1>6 DEF Sound
<1>8. Ready(c)
  BY <1>1, <1>3, <1>7, RootTree DEF Ready, Held, Filled
<1>9. At(c, 0)
  BY <1>3 DEF At, Offset
<1>10. s \in Sessions /\ s.phase = "idle" /\ s.pending = <<>>
  BY DEF Init, NoSession, Sessions, Phases, Keys
<1>11. Served(s, 0) /\ OnSchedule(c, s, 0)
  BY <1>3, <1>10, RootTree DEF Served, OnSchedule, NoCaptures, Pending
<1> QED
  BY <1>3, <1>8, <1>9, <1>10, <1>11, RootTree DEF Standing

-----------------------------------------------------------------------------
(* One lemma per action.                                                    *)

Wanted(matched, off) == IF off < matched THEN <<[offset |-> matched, user |-> FALSE]>> ELSE <<>>
Started(matched, inputs, off) ==
    [NoSession EXCEPT !.phase = "begun", !.inputs = inputs, !.cached = off, !.pending = Wanted(matched, off)]

(* A session as begin leaves it.                                            *)
LEMMA StartedIs ==
    ASSUME NEW inputs \in Prompts, NEW matched \in Nat, matched < Len(inputs), NEW off \in Nat, off <= matched,
           NEW d, Len(Last(d.path)) = off, d.captures.on = FALSE
    PROVE  LET session == Started(matched, inputs, off)
           IN  session \in Sessions /\ Served(session, off) /\ OnSchedule(d, session, off)
<1> DEFINE session == Started(matched, inputs, off)
           pending == Wanted(matched, off)
<1>1. inputs \in Keys /\ Len(inputs) \in Nat
  BY PromptIs
<1>2. session = [phase |-> "begun", inputs |-> inputs, outputs |-> <<>>, cached |-> off, pending |-> pending]
  <2> DEFINE none == <<>>
  <2>1. NoSession = [phase |-> "idle", inputs |-> none, outputs |-> none, cached |-> 0, pending |-> none]
    BY DEF NoSession
  <2>2. session = [NoSession EXCEPT !.phase = "begun", !.inputs = inputs, !.cached = off, !.pending = pending]
    BY DEF Started
  <2> HIDE DEF none, pending, session
  <2>3. session = [phase |-> "begun", inputs |-> inputs, outputs |-> none, cached |-> off, pending |-> pending]
    BY ONLY <2>1, <2>2
  <2> HIDE DEF session
  <2> QED
    BY <2>3 DEF none
<1>3. pending \in Seq(Schedule) /\ Pending(pending) /\ \A i \in DOMAIN pending : off < pending[i].offset
  <2>1. CASE off < matched
    <3> DEFINE x == [offset |-> matched, user |-> FALSE]
    <3>1. x \in Schedule /\ x.offset = matched
      BY DEF Schedule
    <3> HIDE DEF x
    <3>2. pending = <<x>>
      BY <2>1 DEF x, Wanted
    <3>3. <<x>> \in Seq(Schedule) /\ DOMAIN <<x>> = {1} /\ <<x>>[1] = x
      BY <3>1
    <3> HIDE DEF pending
    <3>4. \A i, j \in DOMAIN pending : ~(i < j)
      BY <3>2, <3>3
    <3> QED
      BY <2>1, <3>1, <3>2, <3>3, <3>4 DEF Pending, Schedule
  <2>2. CASE ~(off < matched)
    BY <2>2 DEF Pending, Wanted
  <2> QED
    BY <2>1, <2>2
<1> HIDE DEF pending, session
<1>4. session \in Sessions
  BY <1>1, <1>2, <1>3 DEF Sessions, Phases, Keys
<1>5. Len(Stored(session)) = Len(inputs)
  <2>1. session.inputs = inputs /\ Len(session.outputs) = 0
    BY <1>2
  <2>2. Len(Stored(session)) = Len(session.inputs) + Len(session.outputs)
    BY <1>4, StoredIs
  <2> QED
    BY <1>1, <2>1, <2>2
<1>6. Served(session, off)
  BY <1>1, <1>2, <1>5 DEF Served
<1>7. OnSchedule(d, session, off)
  BY <1>2, <1>3 DEF OnSchedule
<1> QED
  BY <1>4, <1>6, <1>7 DEF session

(* begin keeps the invariant.                                               *)
LEMMA BeginIs ==
    ASSUME NEW m \in Nat, Standing(c, s, m), NEW inputs \in Prompts, Begin(inputs)
    PROVE  IInv'
<1> DEFINE t == Matchable(inputs)
           p == MatchPath(c.trie, Root, t)
           n == Matched(c.trie, Root, t)
           d == SwitchToPath(c, p, n)
           off == Len(Last(d.path))
<1>1. /\ Ready(c) /\ c.panicked = FALSE /\ At(c, m) /\ Tree(DOMAIN c.trie) /\ OnSchedule(c, s, m)
      /\ c \in Cache
  BY StandingIs
<1>2. t \in Keys /\ n < Len(inputs)
  BY <1>1, MatchableIs
<1> HIDE DEF t
<1>3. Target(c.trie, p, n, t)
  BY <1>1, <1>2, TargetIs
<1>4. c' = d /\ s' = Started(n, inputs, MinCacheOffset(d)) /\ s.phase = "idle"
  BY DEF Begin, Started, Wanted, t
<1> HIDE DEF p, n
<1>5. Resumed(d, c, n)
  <2>1. /\ PathTo(DOMAIN c.trie, p) /\ n \in Nat /\ n <= Len(Last(p))
        /\ Last(p) = Root \/ StartOffset(c.trie, Last(p)) < n
    BY <1>3 DEF Target
  <2> QED
    BY <1>1, <2>1, SwitchToPathIs
<1> HIDE DEF d
<1>6. Ready(d) /\ d.captures = c.captures /\ d.panicked = c.panicked /\ At(d, off) /\ off \in Nat /\ off <= n
  BY <1>5 DEF Resumed, Keeps, Rests
<1>7. MinCacheOffset(d) = off
  <2>1. d \in Cache
    BY <1>6, ReadyIs
  <2> HIDE DEF off
  <2> QED
    BY <1>6, <2>1, MinOffsetIs
<1>8. d.captures.on = FALSE
  <2>1. c.captures \in Schedules
    BY <1>1, CacheIs
  <2> QED
    BY <1>1, <1>4, <1>6, <2>1 DEF OnSchedule, Schedules
<1> DEFINE session == Started(n, inputs, off)
<1>9. session \in Sessions /\ Served(session, off) /\ OnSchedule(d, session, off)
  <2>1. n \in Nat
    BY <1>3 DEF Target
  <2> QED
    BY <1>2, <1>6, <1>8, <2>1, StartedIs
<1> HIDE DEF session
<1>10. Standing(d, session, off)
  BY <1>1, <1>6, <1>9 DEF Standing
<1>11. c' = d /\ s' = session
  BY <1>4, <1>7 DEF session
<1> HIDE DEF off
<1>12. Standing(c', s', off)
  BY <1>10, <1>11
<1> QED
  BY <1>6, <1>12 DEF IInv

(* A cancelled request keeps the invariant.                                 *)
LEMMA CancelIs ==
    ASSUME NEW m \in Nat, Standing(c, s, m), Cancel
    PROVE  IInv'
<1>1. s' = [s EXCEPT !.phase = "over"] /\ c' = c /\ s.phase \in {"prefill", "prefilled"}
  BY DEF Cancel
<1>2. Ready(c) /\ ~c.panicked /\ At(c, m) /\ Len(Last(c.path)) <= m /\ s \in Sessions
      /\ Served(s, m) /\ OnSchedule(c, s, m)
  BY DEF Standing
<1>3. /\ s' \in Sessions /\ s'.phase = "over" /\ s'.pending = s.pending /\ s'.inputs = s.inputs
      /\ Stored(s') = Stored(s)
  BY <1>1, <1>2 DEF Sessions, Phases, Stored
<1>4. Served(s', m)
  BY <1>1, <1>2, <1>3 DEF Served
<1>5. OnSchedule(c', s', m)
  BY <1>1, <1>2, <1>3 DEF OnSchedule
<1>6. Standing(c', s', m)
  BY <1>1, <1>2, <1>3, <1>4, <1>5 DEF Standing
<1> QED
  BY <1>6 DEF IInv

(* The end of prefill keeps the invariant.                                  *)
LEMMA PrefillEndIs ==
    ASSUME NEW m \in Nat, Standing(c, s, m), PrefillEnd
    PROVE  IInv'
<1> DEFINE d == AttachPrefill(c, s)
<1>1. /\ c' = d /\ s' = [s EXCEPT !.phase = "prefilled", !.pending = <<>>]
      /\ s.phase = "prefill" /\ MinCacheOffset(c) = Len(s.inputs) - 1
  BY DEF PrefillEnd
<1>2. /\ Ready(c) /\ c.panicked = FALSE /\ At(c, m) /\ MinCacheOffset(c) = m /\ Len(Last(c.path)) <= m
      /\ s \in Sessions /\ Served(s, m) /\ OnSchedule(c, s, m)
  BY StandingIs
<1>3. Uncaptured(d, c, m)
  <2>1. Stored(s) \in Keys /\ m <= Len(Stored(s)) /\ Due(c, s.pending)
    BY <1>1, <1>2, StoredIs DEF Served, OnSchedule
  <2> QED
    BY <1>2, <2>1, AttachPrefillIs
<1> HIDE DEF d
<1>4. /\ Ready(d) /\ d.layers = c.layers /\ d.kv = c.kv /\ d.rec = c.rec /\ d.panicked = c.panicked
      /\ ~d.captures.on /\ Len(Last(d.path)) <= m
  BY <1>3 DEF Uncaptured
<1>5. At(d, m)
  BY <1>2, <1>4 DEF At, Offset
<1>6. /\ s' \in Sessions /\ s'.phase = "prefilled" /\ s'.pending = <<>> /\ s'.inputs = s.inputs
      /\ Stored(s') = Stored(s)
  <2>1. <<>> \in Seq(Schedule)
    OBVIOUS
  <2>2. s = [phase |-> s.phase, inputs |-> s.inputs, outputs |-> s.outputs, cached |-> s.cached, pending |-> s.pending]
        /\ s.inputs \in Keys /\ s.outputs \in Keys /\ s.cached \in Nat
    BY <1>2 DEF Sessions
  <2>3. s' = [phase |-> "prefilled", inputs |-> s.inputs, outputs |-> s.outputs, cached |-> s.cached, pending |-> <<>>]
    BY <1>1, <2>2
  <2> QED
    BY <2>1, <2>2, <2>3 DEF Sessions, Phases, Stored
<1>7. Served(s', m)
  BY <1>1, <1>2, <1>6 DEF Served
<1>8. OnSchedule(d, s', m)
  BY <1>4, <1>6 DEF OnSchedule, Due, Pending
<1>9. Standing(c', s', m)
  BY <1>1, <1>2, <1>4, <1>5, <1>6, <1>7, <1>8 DEF Standing
<1> QED
  BY <1>9 DEF IInv

(* close keeps the invariant.                                               *)
LEMMA CloseIs ==
    ASSUME NEW m \in Nat, Standing(c, s, m), Close
    PROVE  IInv'
<1> DEFINE e == Saved(c, s)
           d == Settled(e)
<1>1. c' = d /\ s' = NoSession /\ s.phase \in {"prefilled", "over"}
  BY DEF Close
<1>2. /\ Ready(c) /\ c.panicked = FALSE /\ At(c, m) /\ Len(Last(c.path)) <= m
      /\ s \in Sessions /\ Served(s, m) /\ OnSchedule(c, s, m)
  BY StandingIs
<1>3. Resting(e, c, m)
  <2>1. Stored(s) \in Keys /\ m <= Len(Stored(s)) /\ Due(c, s.pending)
    BY <1>1, <1>2, StoredIs DEF Served, OnSchedule
  <2> QED
    BY <1>2, <2>1, SavedIs
<1> HIDE DEF e
<1>4. /\ Ready(e) /\ e.panicked = c.panicked /\ ~e.captures.on /\ At(e, m) /\ Len(Last(e.path)) = m
  BY <1>3 DEF Resting
<1>5. Keeps(d, e) /\ At(d, m) /\ d.path = e.path
  BY <1>4, SettledIs
<1> HIDE DEF d
<1>6. /\ Ready(d) /\ d.captures = e.captures /\ d.panicked = e.panicked
  BY <1>5 DEF Keeps
<1>7. NoSession \in Sessions /\ NoSession.phase = "idle" /\ NoSession.pending = <<>>
  BY DEF NoSession, Sessions, Phases, Keys
<1>8. Served(NoSession, m) /\ OnSchedule(d, NoSession, m)
  BY <1>4, <1>5, <1>6, <1>7 DEF Served, OnSchedule, Pending
<1>9. Standing(c', s', m)
  BY <1>1, <1>2, <1>4, <1>5, <1>6, <1>7, <1>8 DEF Standing
<1> QED
  BY <1>9 DEF IInv

(* A chunk of prefill stays before the last token of the prompt.            *)
LEMMA ChunkIs ==
    ASSUME NEW inputs \in Prompts, NEW m \in Nat, m < Len(inputs) - 1
    PROVE  Chunk(inputs, m) \in Nat /\ m <= Chunk(inputs, m) /\ Chunk(inputs, m) < Len(inputs)
<1> DEFINE l == Len(inputs)
           end == Min({m + PrefillChunk, l - 1})
           first == ItemStart(inputs, end)
           last == ItemEnd(inputs, end)
           r == Chunk(inputs, m)
<1>1. inputs \in Keys /\ l \in Nat \ {0} /\ PrefillChunk \in Nat \ {0}
  BY PromptIs, BoundsAssumption
<1>2. l - 1 \in Nat /\ m + PrefillChunk \in Nat /\ m < l - 1 /\ m < m + PrefillChunk
  BY <1>1
<1>3. end \in {l - 1, m + PrefillChunk} /\ end <= l - 1
  <2> DEFINE a == m + PrefillChunk
             b == l - 1
  <2>1. a \in Nat /\ b \in Nat
    BY <1>2
  <2> HIDE DEF a, b
  <2>2. Min({a, b}) \in {a, b} /\ Min({a, b}) <= b
    BY <2>1, MinOfTwo
  <2> QED
    BY <2>2 DEF a, b
<1>4. end \in Nat /\ m < end /\ end < l /\ end \in 1 .. Len(inputs) /\ end \in 0 .. Len(inputs)
  BY <1>1, <1>2, <1>3
<1>5. last \in end .. Len(inputs)
  <2> HIDE DEF end
  <2> QED
    BY <1>1, <1>4, ItemEndIs
<1>6. first \in 0 .. end
  <2> HIDE DEF end
  <2> QED
    BY <1>1, <1>4, ItemStartIs
<1>7. r = IF ~InsideItem(inputs, end) THEN end ELSE IF first > m THEN first ELSE Min({last, l - 1})
  BY DEF Chunk
<1> HIDE DEF end, first, last, r
<1>8. Min({last, l - 1}) \in {last, l - 1} /\ Min({last, l - 1}) <= l - 1
  <2> DEFINE b == l - 1
  <2>1. last \in Nat /\ b \in Nat
    BY <1>2, <1>4, <1>5
  <2> HIDE DEF b
  <2>2. Min({last, b}) \in {last, b} /\ Min({last, b}) <= b
    BY <2>1, MinOfTwo
  <2> QED
    BY <2>2 DEF b
<1> DEFINE x == Min({last, l - 1})
<1>9. x \in Nat /\ m <= x /\ x < l
  <2> HIDE DEF x
  <2>1. x \in {last, l - 1} /\ x <= l - 1
    BY <1>8 DEF x
  <2> HIDE DEF l
  <2> QED
    BY <1>1, <1>2, <1>4, <1>5, <2>1
<1> HIDE DEF x
<1>10. r = end \/ (r = first /\ first > m) \/ r = x
  BY <1>7 DEF x
<1>11. r \in Nat /\ m <= r /\ r < l
  <2>1. CASE r = end
    BY <1>4, <2>1
  <2>2. CASE r = first /\ first > m
    <3>1. end \in Nat /\ l \in Nat /\ end < l /\ first \in 0 .. end /\ first > m
      BY <1>1, <1>4, <1>6, <2>2
    <3> HIDE DEF l
    <3>2. first \in Nat /\ m <= first /\ first < l
      BY ONLY <3>1, m \in Nat
    <3> QED
      BY <2>2, <3>2
  <2>3. CASE r = x
    BY <1>9, <2>3
  <2> QED
    BY <1>10, <2>1, <2>2, <2>3
<1> QED
  BY <1>11 DEF r, l

(* A chunk of prefill keeps the invariant.                                  *)
LEMMA PrefillStepIs ==
    ASSUME NEW m \in Nat, Standing(c, s, m), PrefillStep
    PROVE  IInv'
<1> DEFINE end == Chunk(s.inputs, m)
           d == Forward(c, s.inputs, end)
<1>1. /\ Ready(c) /\ c.panicked = FALSE /\ At(c, m) /\ MinCacheOffset(c) = m
      /\ Len(Last(c.path)) \in Nat /\ Len(Last(c.path)) <= m
      /\ s \in Sessions /\ Served(s, m) /\ OnSchedule(c, s, m)
  BY StandingIs
<1>2. c' = d /\ s' = s /\ s.phase = "prefill" /\ m < Len(s.inputs) - 1
  BY <1>1 DEF PrefillStep
<1>3. s.inputs \in Prompts /\ s.inputs \in Keys
  BY <1>1, <1>2, PromptIs DEF Served
<1>4. end \in Nat /\ m <= end /\ end < Len(s.inputs)
  BY <1>2, <1>3, ChunkIs
<1>5. /\ Len(Stored(s)) = Len(s.inputs) + Len(s.outputs) /\ Len(s.inputs) \in Nat /\ Len(s.outputs) \in Nat
  BY <1>1, StoredIs
<1> HIDE DEF end
<1>6. Stays(d, c) /\ At(d, end)
  <2>1. end <= Len(s.inputs)
    BY <1>4, <1>5
  <2> QED
    BY <1>1, <1>3, <1>4, <2>1, ForwardIs
<1> HIDE DEF d
<1>7. Ready(d) /\ d.path = c.path /\ d.captures = c.captures /\ d.panicked = c.panicked
  BY <1>6 DEF Stays
<1>8. Len(Last(d.path)) <= end
  BY <1>1, <1>4, <1>7
<1>9. end <= Len(Stored(s))
  <2> DEFINE a == Len(s.inputs)
             b == Len(s.outputs)
             t == Len(Stored(s))
  <2>1. a \in Nat /\ b \in Nat /\ t = a + b /\ end \in Nat /\ end < a
    BY <1>4, <1>5
  <2> HIDE DEF a, b, t
  <2>2. end <= t
    BY <2>1
  <2> QED
    BY <2>2 DEF t
<1>10. Served(s, end)
  BY <1>2, <1>3, <1>4, <1>9 DEF Served
<1>11. OnSchedule(d, s, end)
  BY <1>1, <1>2, <1>7 DEF OnSchedule, Due
<1>12. Standing(c', s', end)
  BY <1>1, <1>2, <1>6, <1>7, <1>8, <1>10, <1>11 DEF Standing
<1> QED
  BY <1>4, <1>12 DEF IInv

(* decode keeps the invariant.                                              *)
LEMMA DecodeStepIs ==
    ASSUME NEW m \in Nat, Standing(c, s, m), NEW answer \in Answers, Decode(answer)
    PROVE  IInv'
<1> DEFINE outputs == s.outputs \o answer
           stream == s.inputs \o outputs
           n == Len(answer)
           ends == [i \in 1 .. n |-> m + i]
           d == Evaluated(c, stream, ends)
<1>1. /\ Ready(c) /\ c.panicked = FALSE /\ At(c, m)
      /\ Len(Last(c.path)) \in Nat /\ Len(Last(c.path)) <= m
      /\ s \in Sessions /\ Served(s, m) /\ OnSchedule(c, s, m)
  BY StandingIs
<1>2. s.phase = "prefilled" /\ s' = [s EXCEPT !.outputs = outputs, !.phase = "over"]
  BY DEF Decode
<1>3. s.inputs \in Prompts /\ m = Len(s.inputs) - 1
  BY <1>1, <1>2 DEF Served
<1>4. s.inputs \in Keys /\ Len(s.inputs) \in Nat \ {0} /\ s.outputs \in Keys /\ answer \in Keys /\ n \in Nat
  BY <1>1, <1>3, PromptIs, AnswerIs, StoredIs
<1>5. outputs \in Keys /\ Len(outputs) = Len(s.outputs) + n /\ Len(s.outputs) \in Nat
  BY <1>4, ConcatIs DEF Keys
<1> HIDE DEF outputs
<1>6. stream \in Keys /\ Len(stream) = Len(s.inputs) + Len(outputs)
  BY <1>4, <1>5, ConcatIs DEF Keys
<1>7. ends = [i \in 1 .. Len(answer) |-> Len(s.inputs) + i - 1]
  <2>1. \A i \in 1 .. Len(answer) : m + i = Len(s.inputs) + i - 1
    BY <1>3, <1>4
  <2> QED
    BY <2>1
<1>8. c' = d
  <2> HIDE DEF ends
  <2> QED
    BY <1>7 DEF Decode, outputs, Evaluated
<1>9. Stays(d, c) /\ At(d, m + n) /\ m + n \in Nat /\ m + n <= Len(stream)
  <2>1. m + n <= Len(stream)
    <3> DEFINE a == Len(s.inputs)
               b == Len(s.outputs)
               o == Len(outputs)
               t == Len(stream)
    <3>1. a \in Nat \ {0} /\ b \in Nat /\ n \in Nat /\ o = b + n /\ t = a + o /\ m = a - 1
      BY <1>3, <1>4, <1>5, <1>6
    <3> HIDE DEF n, a, b, o, t
    <3>2. m + n <= t
      BY <3>1
    <3> QED
      BY <3>2 DEF t
  <2> HIDE DEF stream, n, ends
  <2>2. ends = [i \in 1 .. n |-> m + i]
    BY DEF ends
  <2> QED
    BY <1>1, <1>4, <1>6, <2>1, <2>2, DecodeIs
<1> HIDE DEF d, ends, n
<1>10. Ready(d) /\ d.path = c.path /\ d.captures = c.captures /\ d.panicked = c.panicked
  BY <1>9 DEF Stays
<1>11. s' \in Sessions /\ s'.phase = "over" /\ s'.pending = s.pending /\ s'.inputs = s.inputs /\ Stored(s') = stream
  BY <1>1, <1>2, <1>5 DEF Sessions, Phases, Stored
<1>12. Served(s', m + n)
  BY <1>3, <1>9, <1>11 DEF Served
<1>13. OnSchedule(d, s', m + n)
  BY <1>1, <1>2, <1>10, <1>11 DEF OnSchedule, Due
<1>14. Len(Last(d.path)) <= m + n
  BY <1>1, <1>4, <1>10
<1>15. Standing(c', s', m + n)
  BY <1>1, <1>8, <1>9, <1>10, <1>11, <1>12, <1>13, <1>14 DEF Standing
<1> QED
  BY <1>9, <1>15 DEF IInv

(* The offsets that prefill asks for come with the prompt's items whole.    *)
Asked(inputs, m) == {n \in {ItemEnd(inputs, o) : o \in PrefillOffsets(inputs)} : n > m}

(* They are finitely many, and beyond where the layers are.                 *)
LEMMA AskedIs ==
    ASSUME NEW inputs \in Prompts, NEW m \in Nat
    PROVE  Asked(inputs, m) \subseteq Nat /\ IsFiniteSet(Asked(inputs, m)) /\ \A n \in Asked(inputs, m) : m < n
<1> DEFINE l == Len(inputs)
<1>1. inputs \in Keys /\ l \in Nat \ {0} /\ PreThinking \in Nat
  BY PromptIs, BoundsAssumption
<1>2. ASSUME NEW o \in PrefillOffsets(inputs) PROVE ItemEnd(inputs, o) \in 1 .. l
  <2>1. o \in 1 .. Len(inputs)
    <3>1. o \in 1 .. l - 1 \/ (o = l - PreThinking /\ o > 0)
      BY <1>2 DEF PrefillOffsets
    <3> HIDE DEF l
    <3>2. o \in 1 .. l
      BY <1>1, <3>1
    <3> QED
      BY <3>2 DEF l
  <2>2. ItemEnd(inputs, o) \in o .. Len(inputs)
    BY <1>1, <2>1, ItemEndIs
  <2> QED
    BY <1>1, <2>1, <2>2
<1>3. Asked(inputs, m) \subseteq 1 .. l /\ \A n \in Asked(inputs, m) : m < n
  BY <1>2 DEF Asked
<1>4. IsFiniteSet(1 .. l)
  BY <1>1, FS_Interval
<1> HIDE DEF l
<1>5. IsFiniteSet(Asked(inputs, m))
  BY <1>3, <1>4, FS_Subset
<1> QED
  BY <1>1, <1>3, <1>5

(* The offsets of a schedule are finitely many.                             *)
LEMMA OffsetsAre ==
    ASSUME NEW pending, Pending(pending)
    PROVE  LET S == {pending[i].offset : i \in DOMAIN pending} IN S \subseteq Nat /\ IsFiniteSet(S)
<1> DEFINE S == {pending[i].offset : i \in DOMAIN pending}
           F == [i \in DOMAIN pending |-> pending[i].offset]
<1>1. Len(pending) \in Nat /\ DOMAIN pending = 1 .. Len(pending)
  BY DEF Pending
<1>2. IsFiniteSet(DOMAIN pending)
  BY <1>1, FS_Interval
<1>3. S \subseteq Nat
  BY PendingIs
<1>4. F \in Surjection(DOMAIN pending, S)
  BY DEF Surjection
<1> HIDE DEF F, S
<1>5. IsFiniteSet(S)
  BY <1>2, <1>4, FS_Surjection
<1> QED
  BY <1>3, <1>5 DEF S

Marked(sorted, asked) == [i \in DOMAIN sorted |-> [offset |-> sorted[i], user |-> sorted[i] \in asked]]

(* The schedule of captures is in order, and beyond where the layers are.   *)
LEMMA MarkedIs ==
    ASSUME NEW S \in SUBSET Nat, IsFiniteSet(S), NEW asked, NEW m \in Nat, \A n \in S : m < n
    PROVE  LET p == Marked(Ascending(S, LAMBDA n : n), asked)
           IN  p \in Seq(Schedule) /\ Pending(p) /\ \A i \in DOMAIN p : m < p[i].offset
<1> DEFINE w == [x \in S |-> x]
           a == Ascending(S, LAMBDA n : n)
           n == Cardinality(S)
           p == Marked(a, asked)
<1>1. a = Ranked(S, w)
  <2> DEFINE F(x) == Cardinality({y \in S : w[y] < w[x]})
             G(x) == Cardinality({y \in S : y < x})
  <2>1. a = [i \in 1 .. Cardinality(S) |-> CHOOSE x \in S : G(x) = i - 1]
    BY DEF Ascending
  <2>2. Ranked(S, w) = [i \in 1 .. Cardinality(S) |-> CHOOSE x \in S : F(x) = i - 1]
    BY DEF Ranked
  <2>3. ASSUME NEW x \in S PROVE F(x) = G(x)
    <3>1. {y \in S : w[y] < w[x]} = {y \in S : y < x}
      OBVIOUS
    <3> HIDE DEF w
    <3> QED
      BY <3>1
  <2> HIDE DEF F, G, w, a
  <2>4. \A j : (CHOOSE x \in S : G(x) = j) = (CHOOSE x \in S : F(x) = j)
    BY <2>3
  <2> QED
    BY <2>1, <2>2, <2>4
<1>2. w \in [S -> Nat] /\ \A x, y \in S : w[x] = w[y] => x = y
  OBVIOUS
<1>3. \A x \in S : w[x] = x
  OBVIOUS
<1> HIDE DEF w, a
<1>4. n \in Nat /\ a \in [1 .. n -> S] /\ \A i, j \in 1 .. n : i < j => w[a[i]] < w[a[j]]
  BY <1>1, <1>2, RankIs
<1> HIDE DEF n
<1>5. DOMAIN a = 1 .. n /\ \A i \in 1 .. n : a[i] \in S /\ a[i] \in Nat /\ w[a[i]] = a[i]
  BY <1>3, <1>4
<1>6. /\ DOMAIN p = 1 .. n
      /\ \A i \in 1 .. n : p[i] \in Schedule /\ p[i].offset = a[i]
  BY <1>5 DEF Marked, Schedule
<1>7. p = [i \in 1 .. n |-> p[i]]
  BY <1>5 DEF Marked
<1> HIDE DEF p
<1>8. p \in Seq(Schedule)
  BY <1>4, <1>6, <1>7
<1>9. Pending(p)
  BY <1>4, <1>5, <1>6, <1>8 DEF Pending, Schedule
<1>10. \A i \in DOMAIN p : m < p[i].offset
  BY <1>5, <1>6
<1> QED
  BY <1>8, <1>9, <1>10 DEF p, a

(* What prefill schedules.                                                  *)
LEMMA ScheduledIs ==
    ASSUME NEW m \in Nat, Standing(c, s, m), s.phase = "begun"
    PROVE  Scheduled \in Seq(Schedule) /\ Pending(Scheduled) /\ \A i \in DOMAIN Scheduled : m < Scheduled[i].offset
<1> DEFINE asked == Asked(s.inputs, m)
           waiting == {s.pending[i].offset : i \in DOMAIN s.pending}
           all == asked \cup waiting
<1>1. MinCacheOffset(c) = m /\ Served(s, m) /\ OnSchedule(c, s, m)
  BY StandingIs
<1>2. s.inputs \in Prompts /\ Pending(s.pending) /\ \A i \in DOMAIN s.pending : m < s.pending[i].offset
  BY <1>1 DEF Served, OnSchedule
<1>3. asked \subseteq Nat /\ IsFiniteSet(asked) /\ \A n \in asked : m < n
  BY <1>2, AskedIs
<1>4. waiting \subseteq Nat /\ IsFiniteSet(waiting) /\ \A n \in waiting : m < n
  BY <1>2, OffsetsAre
<1>5. Scheduled = Marked(Ascending(all, LAMBDA n : n), asked)
  BY <1>1 DEF Scheduled, Marked, Asked
<1> HIDE DEF asked, waiting
<1>6. all \in SUBSET Nat /\ IsFiniteSet(all) /\ \A n \in all : m < n
  BY <1>3, <1>4, FS_Union
<1> HIDE DEF all
<1> DEFINE p == Marked(Ascending(all, LAMBDA n : n), asked)
<1>7. p \in Seq(Schedule) /\ Pending(p) /\ \A i \in DOMAIN p : m < p[i].offset
  BY <1>6, MarkedIs
<1> HIDE DEF p
<1>8. Scheduled = p
  BY <1>5 DEF p
<1> QED
  BY <1>7, <1>8

(* The schedule of prefill keeps the invariant: PrepareSnapshots finds none *)
(* left, and none behind.                                                   *)
LEMMA SchedulePrefillIs ==
    ASSUME NEW m \in Nat, Standing(c, s, m), SchedulePrefill
    PROVE  IInv'
<1> DEFINE p == Scheduled
           x == [on |-> TRUE, base |-> m]
           d == WithCaptures(c, x)
<1>1. /\ Ready(c) /\ c.panicked = FALSE /\ At(c, m) /\ MinCacheOffset(c) = m /\ c \in Cache
      /\ Len(Last(c.path)) \in Nat /\ Len(Last(c.path)) <= m
      /\ s \in Sessions /\ Served(s, m) /\ OnSchedule(c, s, m)
  BY StandingIs
<1>2. s.phase = "begun" /\ s' = [s EXCEPT !.phase = "prefill", !.pending = p]
  BY DEF SchedulePrefill
<1>3. p \in Seq(Schedule) /\ Pending(p) /\ \A i \in DOMAIN p : m < p[i].offset
  BY <1>2, ScheduledIs
<1>4. c' = IF p = <<>> THEN c ELSE IF c.captures.on \/ p[1].offset < m THEN Panic(c) ELSE d
  BY <1>1 DEF SchedulePrefill, WithCaptures
<1> HIDE DEF p
<1>5. m = Len(Last(c.path)) /\ ~c.captures.on
  BY <1>1, <1>2 DEF OnSchedule
<1>6. /\ s' \in Sessions /\ s'.phase = "prefill" /\ s'.pending = p /\ s'.inputs = s.inputs
      /\ Stored(s') = Stored(s)
  BY <1>1, <1>2, <1>3 DEF Sessions, Phases, Stored
<1>7. Served(s', m)
  BY <1>1, <1>2, <1>6 DEF Served
<1>8. CASE p = <<>>
  <2>1. c' = c
    BY <1>4, <1>8
  <2>2. OnSchedule(c, s', m)
    BY <1>3, <1>5, <1>6, <1>8 DEF OnSchedule, Due
  <2>3. Standing(c', s', m)
    BY <1>1, <1>6, <1>7, <2>1, <2>2 DEF Standing
  <2> QED
    BY <2>3 DEF IInv
<1>9. CASE p # <<>>
  <2>1. 1 \in DOMAIN p /\ p[1].offset \in Nat
    BY <1>3, <1>9, PendingIs
  <2>2. c' = d
    <3>1. ~(p[1].offset < m)
      BY <1>3, <2>1
    <3> QED
      BY <1>4, <1>5, <1>9, <3>1
  <2>3. /\ Ready(d) /\ d.captures = x /\ d.layers = c.layers /\ d.kv = c.kv /\ d.rec = c.rec
        /\ d.path = c.path /\ d.panicked = c.panicked
    <3>1. x \in Schedules
      BY DEF Schedules
    <3> HIDE DEF x
    <3> QED
      BY <1>1, <3>1, CapturesChange
  <2>4. x.on = TRUE /\ x.base = m
    OBVIOUS
  <2> HIDE DEF d, x
  <2>5. At(d, m)
    BY <1>1, <2>3 DEF At, Offset
  <2>6. Due(d, p)
    BY <1>3, <1>5, <1>9, <2>3, <2>4 DEF Due
  <2>7. OnSchedule(d, s', m)
    BY <1>6, <2>6 DEF OnSchedule
  <2>8. Standing(c', s', m)
    BY <1>1, <1>6, <1>7, <2>2, <2>3, <2>5, <2>7 DEF Standing
  <2> QED
    BY <2>8 DEF IInv
<1> QED
  BY <1>8, <1>9

-----------------------------------------------------------------------------
(* The theorems.                                                            *)

(* So does a step that changes nothing.                                     *)
LEMMA StutterIs ==
    ASSUME IInv, UNCHANGED vars
    PROVE  IInv'
<1>1. c' = c /\ s' = s
  BY DEF vars
<1>2. PICK m \in Nat : Standing(c, s, m)
  BY DEF IInv
<1>3. Standing(c', s', m)
  BY <1>1, <1>2
<1> QED
  BY <1>3 DEF IInv

(* The inductive invariant: between two operations the trie is compressed,  *)
(* its nodes span their edges and are counted, the layers are at one token, *)
(* and the schedule of captures in them is that of the session.             *)
THEOREM Inductive == Spec => []IInv
<1>1. Init => IInv
  <2> SUFFICES ASSUME Init PROVE IInv
    OBVIOUS
  <2>1. Standing(c, s, 0)
    BY InitIs
  <2> QED
    BY <2>1 DEF IInv
<1>2. IInv /\ [Next]_vars => IInv'
  <2> SUFFICES ASSUME IInv, [Next]_vars PROVE IInv'
    OBVIOUS
  <2>1. PICK m \in Nat : Standing(c, s, m)
    BY DEF IInv
  <2>2. CASE \E inputs \in Prompts : Begin(inputs)
    <3>1. PICK inputs \in Prompts : Begin(inputs)
      BY <2>2
    <3> QED
      BY <2>1, <3>1, BeginIs
  <2>3. CASE SchedulePrefill
    BY <2>1, <2>3, SchedulePrefillIs
  <2>4. CASE PrefillStep
    BY <2>1, <2>4, PrefillStepIs
  <2>5. CASE PrefillEnd
    BY <2>1, <2>5, PrefillEndIs
  <2>6. CASE Cancel
    BY <2>1, <2>6, CancelIs
  <2>7. CASE \E answer \in Answers : Decode(answer)
    <3>1. PICK answer \in Answers : Decode(answer)
      BY <2>7
    <3> QED
      BY <2>1, <3>1, DecodeStepIs
  <2>8. CASE Close
    BY <2>1, <2>8, CloseIs
  <2>9. CASE UNCHANGED vars
    BY <2>9, StutterIs
  <2> QED
    BY <2>2, <2>3, <2>4, <2>5, <2>6, <2>7, <2>8, <2>9 DEF Next
<1> QED
  BY <1>1, <1>2, PTL DEF Spec

(* The invariant says that the trie is compressed and the path leads to its *)
(* end,                                                                     *)
LEMMA Typed == ASSUME IInv PROVE TypeOK
<1>1. PICK m \in Nat : Standing(c, s, m)
  BY DEF IInv
<1> DEFINE K == DOMAIN c.trie
           p == c.path
<1>2. Ready(c) /\ s \in Sessions
  BY <1>1 DEF Standing
<1>3. Tree(K) /\ K \subseteq Keys /\ Root \in K /\ PathTo(K, p)
  BY <1>2, ReadyIs
<1>4. \A j, k \in K : LongestCommonPrefix({j, k}) \in K
  <2> HIDE DEF K
  <2> QED
    BY <1>3, TreeMeets
<1>5. ToSet(p) = {k \in K : IsPrefix(k, Last(p))}
  BY <1>3 DEF PathTo
<1>6. ASSUME NEW i \in 2 .. Len(p) PROVE IsStrictPrefix(p[i - 1], p[i])
  <2>1. Len(p) \in Nat /\ DOMAIN p = 1 .. Len(p) /\ \A h, j \in DOMAIN p : h < j => IsStrictPrefix(p[h], p[j])
    BY <1>3, PathIs
  <2>2. i - 1 \in DOMAIN p /\ i \in DOMAIN p /\ i - 1 < i
    BY <2>1
  <2> QED
    BY <2>1, <2>2
<1>7. s.phase \in Phases
  BY <1>2 DEF Sessions
<1> QED
  BY <1>3, <1>4, <1>5, <1>6, <1>7 DEF TypeOK, Phases

(* that the bytes are counted,                                              *)
LEMMA Counted == ASSUME IInv PROVE BytesAreCounted
<1>1. PICK m \in Nat : Standing(c, s, m)
  BY DEF IInv
<1>2. c.bytes = Total(c.trie)
  BY <1>1, ReadyIs DEF Standing
<1>3. Total(c.trie) = SumFunction([k \in DOMAIN c.trie |-> SnapshotBytes(c.trie[k])])
  BY DEF Total, Weights, SumFunction
<1> QED
  BY <1>2, <1>3 DEF BytesAreCounted

(* and that nothing panicked.                                               *)
LEMMA Calm == ASSUME IInv PROVE NoPanic
  BY DEF IInv, Standing, NoPanic

(* Whatever is matched, split, merged or evicted, the trie is compressed:   *)
(* where two keys part there is a node; and the active path leads from the  *)
(* root to its end without leaving a node out.                              *)
THEOREM TypeCorrect == Spec => []TypeOK
  BY Inductive, Typed, PTL

(* pagedOutBytes never differs from what the snapshots in the trie take.    *)
THEOREM BytesCounted == Spec => []BytesAreCounted
  BY Inductive, Counted, PTL

(* No panic of splitNode, mergeWithChild, advancePath, PrepareSnapshots or  *)
(* close is reached.                                                        *)
THEOREM NeverPanics == Spec => []NoPanic
  BY Inductive, Calm, PTL
===============================================================================
