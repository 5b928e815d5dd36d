--------------------------- MODULE FoldInduction ---------------------------
(***************************************************************************)
(* What a loop over a sequence keeps.  The induction theorems of the       *)
(* library take the formula to be proved as a parameter; here the body of  *)
(* the loop is a constant operator, for which a module that uses this one  *)
(* substitutes its own, and what every round is to keep is a set, so that  *)
(* the theorem has nothing but values in it.                               *)
(***************************************************************************)
EXTENDS Folds, WellFoundedInduction

CONSTANT Op(_, _, _)  \* the body: of the state, an element, and what the loop is given

Greatest(s) == CHOOSE x \in s : \A y \in s : x >= y

(* FoldLeft of the community modules, in terms of what it is made from.     *)
Fold(env, base, seq) ==
    MapThenFoldSet(LAMBDA x, e : Op(e, x, env), base, LAMBDA i : seq[i], LAMBDA s : Greatest(s), DOMAIN seq)

-----------------------------------------------------------------------------
(* A set of natural numbers has a least one.                                *)
LEMMA LeastNatural ==
    ASSUME NEW T \in SUBSET Nat, T # {}
    PROVE  \E m \in T : \A k \in T : m <= k
<1> DEFINE R == {ss \in Nat \X Nat : ss[1] < ss[2]}
<1>1. IsWellFoundedOn(R, Nat)
  BY NatLessThanWellFounded DEF OpToRel
<1> HIDE DEF R
<1>2. PICK m \in T : \A k \in T : <<k, m>> \notin R
  BY <1>1, WFMin
<1>3. ASSUME NEW k \in T PROVE m <= k
  <2>1. k \in Nat /\ m \in Nat /\ ~(<<k, m>> \in R)
    BY <1>2
  <2>2. k < m => <<k, m>> \in R
    <3> DEFINE t == <<k, m>>
    <3>1. t \in Nat \X Nat /\ t[1] = k /\ t[2] = m
      BY <2>1
    <3> HIDE DEF t
    <3>2. k < m => t \in R
      BY <3>1 DEF R
    <3> QED
      BY <3>2 DEF t
  <2> QED
    BY <2>1, <2>2
<1> QED
  BY <1>3

(* A bounded set of natural numbers has a greatest one.                     *)
LEMMA MaxInterval ==
    ASSUME NEW n \in Nat, NEW s \in SUBSET (0 .. n), s # {}
    PROVE  Greatest(s) \in s /\ \A x \in s : x <= Greatest(s)
<1>1. \E m \in s : \A x \in s : x <= m
  <2> DEFINE T == {n - x : x \in s}
  <2>0. \A x \in s : x \in 0 .. n /\ n - x \in Nat
    OBVIOUS
  <2>1. T \in SUBSET Nat /\ T # {}
    BY <2>0
  <2>2. PICK k \in T : \A j \in T : k <= j
    BY <2>1, LeastNatural
  <2>3. PICK m \in s : k = n - m
    BY <2>2
  <2>4. \A x \in s : n - m <= n - x
    BY <2>2, <2>3
  <2> QED
    BY <2>0, <2>3, <2>4
<1> QED
  BY <1>1 DEF Greatest

(* What the loop computes for every set of indices below m, and that there  *)
(* is such a function.                                                      *)
Equation(env, base, seq, h, m) ==
    h = [s \in SUBSET (1 .. m) |-> IF s = {} THEN base ELSE Op(h[s \ {Greatest(s)}], seq[Greatest(s)], env)]

LEMMA Solvable ==
    ASSUME NEW env, NEW base, NEW seq, NEW n \in Nat
    PROVE  \E h : Equation(env, base, seq, h, n)
<1> DEFINE T == {m \in Nat : ~\E h : Equation(env, base, seq, h, m)}
<1>1. ASSUME T # {} PROVE FALSE
  <2>1. PICK m \in T : \A k \in T : m <= k
    BY <1>1, LeastNatural
  <2>2. CASE m = 0
    <3> DEFINE h == [s \in SUBSET (1 .. 0) |-> base]
    <3>1. \A s \in SUBSET (1 .. 0) : s = {}
      OBVIOUS
    <3>2. Equation(env, base, seq, h, 0)
      BY <3>1 DEF Equation
    <3> QED
      BY <2>1, <2>2, <3>2
  <2>3. CASE m # 0
    <3>1. PICK k \in Nat : m = k + 1
      BY <2>1, <2>3
    <3>2. k \notin T
      BY <2>1, <3>1
    <3>3. PICK h : Equation(env, base, seq, h, k)
      BY <3>2
    <3> DEFINE Is(g, s) == IF s = {} THEN base ELSE Op(g[s \ {Greatest(s)}], seq[Greatest(s)], env)
               g == [s \in SUBSET (1 .. m) |-> Is(h, s)]
    <3>4. \A s \in SUBSET (1 .. m) : s # {} => s \ {Greatest(s)} \in SUBSET (1 .. k)
      <4> SUFFICES ASSUME NEW s \in SUBSET (1 .. m), s # {} PROVE s \ {Greatest(s)} \in SUBSET (1 .. k)
        OBVIOUS
      <4>1. Greatest(s) \in s /\ \A x \in s : x <= Greatest(s)
        <5>1. s \in SUBSET (0 .. m)
          BY <2>1
        <5> QED
          BY <2>1, <5>1, MaxInterval
      <4>2. \A x \in s \ {Greatest(s)} : x \in 1 .. k
        <5> SUFFICES ASSUME NEW x \in s, x # Greatest(s) PROVE x \in 1 .. k
          OBVIOUS
        <5>1. x \in 1 .. m /\ Greatest(s) \in 1 .. m /\ x <= Greatest(s)
          BY <4>1
        <5> QED
          BY <5>1, <3>1
      <4> QED
        BY <4>2
    <3>5. \A s \in SUBSET (1 .. k) : s \in SUBSET (1 .. m)
      BY <3>1
    <3>6. \A s \in SUBSET (1 .. k) : h[s] = Is(h, s)
      BY <3>3 DEF Equation
    <3>7. \A s \in SUBSET (1 .. k) : g[s] = h[s]
      BY <3>5, <3>6
    <3>8. \A s \in SUBSET (1 .. m) : Is(h, s) = Is(g, s)
      BY <3>4, <3>7
    <3>9. g = [s \in SUBSET (1 .. m) |-> Is(g, s)]
      BY <3>8
    <3>10. Equation(env, base, seq, g, m)
      BY <3>9 DEF Equation
    <3> QED
      BY <2>1, <3>10
  <2> QED
    BY <2>2, <2>3
<1> QED
  BY <1>1

(* If the base is in D[0], and round i takes members of D[i - 1] to D[i],   *)
(* then the loop ends in a member of D[n].                                  *)
LEMMA FoldKeeps ==
   ASSUME NEW env, NEW base, NEW seq, NEW n \in Nat, DOMAIN seq = 1 .. n, NEW D,
          base \in D[0], \A i \in 1 .. n : \A e \in D[i - 1] : Op(e, seq[i], env) \in D[i]
   PROVE  Fold(env, base, seq) \in D[n]
<1> DEFINE h == CHOOSE h : Equation(env, base, seq, h, n)
<1>1. Fold(env, base, seq) = h[1 .. n]
  BY DEF Fold, MapThenFoldSet, Equation
<1>2. Equation(env, base, seq, h, n)
  BY Solvable
<1> HIDE DEF h
<1>3. h[{}] = base
  BY <1>2 DEF Equation
<1>4. ASSUME NEW i \in 1 .. n PROVE h[1 .. i] = Op(h[1 .. (i - 1)], seq[i], env)
  <2>1. Greatest(1 .. i) \in 1 .. i /\ \A x \in 1 .. i : x <= Greatest(1 .. i)
    <3>1. i \in Nat /\ i \in 1 .. i /\ 1 .. i \in SUBSET (0 .. i)
      OBVIOUS
    <3> QED
      BY <3>1, MaxInterval
  <2>2. Greatest(1 .. i) = i
    BY <2>1
  <2>3. (1 .. i) \ {i} = 1 .. (i - 1)
    OBVIOUS
  <2>4. 1 .. i \in SUBSET (1 .. n) /\ i \in 1 .. i
    OBVIOUS
  <2> QED
    BY <1>2, <2>2, <2>3, <2>4 DEF Equation
<1> DEFINE T == {i \in 0 .. n : h[1 .. i] \notin D[i]}
<1>5. ASSUME T # {} PROVE FALSE
  <2>1. PICK m \in T : \A k \in T : m <= k
    <3>1. T \in SUBSET Nat
      OBVIOUS
    <3> QED
      BY <1>5, <3>1, LeastNatural
  <2>2. m # 0
    <3>1. 1 .. 0 = {}
      OBVIOUS
    <3> QED
      BY <1>3, <2>1, <3>1
  <2>3. m \in 1 .. n /\ m - 1 \in 0 .. n /\ m - 1 \notin T
    BY <2>1, <2>2
  <2>4. h[1 .. (m - 1)] \in D[m - 1]
    BY <2>3
  <2> QED
    BY <1>4, <2>1, <2>3, <2>4
<1>6. n \notin T
  BY <1>5
<1> QED
  BY <1>1, <1>6
=============================================================================
