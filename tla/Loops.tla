--------------------------------- MODULE Loops ---------------------------------
(***************************************************************************)
(* Lemmas about loops, which the modules write as recursive functions of   *)
(* the number of passes: f[i] is what a loop has after the ith.            *)
(***************************************************************************)
EXTENDS Integers, Sequences, TLAPS, WellFoundedInduction

LEMMA LeastNumber ==
  ASSUME NEW T \in SUBSET Nat, T # {}
  PROVE  \E i \in T : \A j \in T : i <= j
<1> DEFINE Less == {ss \in Nat \X Nat : ss[1] < ss[2]}
<1>1. IsWellFoundedOn(Less, Nat)
  BY NatLessThanWellFounded DEF OpToRel
<1> HIDE DEF Less
<1>2. PICK i \in T : \A j \in T : ~(<<j, i>> \in Less)
  BY <1>1, WFMin
<1>3. \A j \in T : ~(j < i)
  BY <1>2 DEF Less
<1>4. QED BY <1>3

\* What each stage keeps holds at the end: after i stages the value is in T[i]
LEMMA StagesHold ==
  ASSUME NEW n \in Nat, NEW f, NEW T, f[0] \in T[0],
         \A i \in 1..n : f[i - 1] \in T[i - 1] => f[i] \in T[i]
  PROVE  \A i \in 0..n : f[i] \in T[i]
<1> DEFINE Bad == {i \in 0..n : f[i] \notin T[i]}
<1> SUFFICES ASSUME Bad # {} PROVE FALSE
  OBVIOUS
<1>1. PICK i \in Bad : \A j \in Bad : i <= j
  <2>1. Bad \in SUBSET Nat
    OBVIOUS
  <2> HIDE DEF Bad
  <2>2. QED BY <2>1, LeastNumber
<1>2. i \in 1..n /\ i - 1 \in 0..n
  BY <1>1
<1>3. i - 1 \notin Bad
  BY <1>1
<1>4. f[i - 1] \in T[i - 1]
  BY <1>2, <1>3
<1>5. QED BY <1>1, <1>2, <1>4

\* Two loops that do the same to the same agree.
LEMMA SameStages ==
  ASSUME NEW n \in Nat, NEW f, NEW g, f[0] = g[0],
         \A i \in 1..n : f[i - 1] = g[i - 1] => f[i] = g[i]
  PROVE  f[n] = g[n]
<1> DEFINE T == [i \in 0..n |-> {g[i]}]
<1>1. f[0] \in T[0]
  OBVIOUS
<1>2. \A i \in 1..n : f[i - 1] \in T[i - 1] => f[i] \in T[i]
  OBVIOUS
<1>3. T[n] = {g[n]}
  OBVIOUS
<1> HIDE DEF T
<1>4. \A i \in 0..n : f[i] \in T[i]
  BY <1>1, <1>2, StagesHold
<1>5. QED BY <1>3, <1>4

Stages(f, n, x, G) == f[0] = x /\ \A i \in 1..n : f[i] = G[<<i, f[i - 1]>>]

\* A loop whose body keeps its values in S has all its stages
LEMMA StagesExist ==
  ASSUME NEW n \in Nat, NEW S, NEW x \in S, NEW G \in [(1..n) \X S -> S]
  PROVE  \E f \in [0..n -> S] : Stages(f, n, x, G)
<1> USE DEF Stages
<1> DEFINE Bad == {m \in 0..n : ~\E f \in [0..m -> S] : Stages(f, m, x, G)}
<1> SUFFICES ASSUME Bad # {} PROVE FALSE
  <2>1. n \in 0..n
    OBVIOUS
  <2>2. QED BY <2>1
<1>1. PICK m \in Bad : \A j \in Bad : m <= j
  <2>1. Bad \in SUBSET Nat
    OBVIOUS
  <2> HIDE DEF Bad
  <2>2. QED BY <2>1, LeastNumber
<1>2. m \in 1..n /\ m - 1 \in 0..n
  <2>1. [i \in 0..0 |-> x] \in [0..0 -> S] /\ Stages([i \in 0..0 |-> x], 0, x, G)
    OBVIOUS
  <2>2. 0 \notin Bad
    BY <2>1
  <2>3. m \in 0..n /\ m # 0
    BY <1>1, <2>2
  <2>4. QED BY <2>3
<1>3. PICK f \in [0..(m - 1) -> S] : Stages(f, m - 1, x, G)
  BY <1>1, <1>2
<1> DEFINE g == [i \in 0..m |-> IF i = m THEN G[<<m, f[m - 1]>>] ELSE f[i]]
<1>4. g \in [0..m -> S] /\ Stages(g, m, x, G)
  <2>1. f[m - 1] \in S /\ G[<<m, f[m - 1]>>] \in S
    BY <1>2, <1>3
  <2>2. g \in [0..m -> S]
    BY <1>2, <1>3, <2>1
  <2>3. g[0] = x
    BY <1>2, <1>3
  <2>4. ASSUME NEW i \in 1..m PROVE g[i] = G[<<i, g[i - 1]>>]
    <3>1. g[i - 1] = f[i - 1]
      BY <1>2
    <3>2. CASE i = m
      BY <3>1, <3>2, SMTT(30)
    <3>3. CASE i # m
      BY <1>2, <1>3, <3>1, <3>3
    <3>4. QED BY <3>2, <3>3
  <2>5. QED BY <2>2, <2>3, <2>4
<1>5. QED BY <1>1, <1>4
=============================================================================
