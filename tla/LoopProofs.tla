------------------------------ MODULE LoopProofs ------------------------------
(***************************************************************************)
(* Facts about loops, for the proofs of the models that have some: a loop  *)
(* of the code is a recursive function of the number of the round. That    *)
(* such a function exists, and that an invariant of its rounds holds at    *)
(* the end, follows from the well-foundedness of the naturals, by taking a *)
(* smallest counterexample.                                                *)
(***************************************************************************)
EXTENDS Integers, WellFoundedInduction, TLAPS

(***************************************************************************)
(* Induction over the naturals, for a set: the smallest natural that is    *)
(* missing would have a predecessor that is not.                           *)
(***************************************************************************)
LEMMA SetInduction ==
  ASSUME NEW S, 0 \in S, \A n \in Nat : n \in S => n + 1 \in S
  PROVE  Nat \subseteq S
  <1> DEFINE Missing == Nat \ S
  <1> SUFFICES ASSUME Missing # {} PROVE FALSE
    OBVIOUS
  <1>1. \E x \in Missing : \A y \in Missing : <<y, x>> \notin OpToRel(<, Nat)
    BY NatLessThanWellFounded, WFMin
  <1>2. PICK x \in Missing : \A y \in Missing : <<y, x>> \notin OpToRel(<, Nat)
    BY <1>1
  <1>3. x # 0 /\ x \in Nat
    BY <1>2
  <1>4. x - 1 \in Nat /\ x - 1 < x /\ (x - 1) + 1 = x
    BY <1>3
  <1>5. <<x - 1, x>> \in OpToRel(<, Nat)
    BY <1>3, <1>4 DEF OpToRel
  <1>6. x - 1 \in S
    BY <1>2, <1>4, <1>5
  <1> QED
    BY <1>2, <1>4, <1>6

(***************************************************************************)
(* The same up to a bound.                                                 *)
(***************************************************************************)
LEMMA BoundedInduction ==
  ASSUME NEW n \in Nat, NEW S, 0 \in S, \A i \in 0..(n - 1) : i \in S => i + 1 \in S
  PROVE  0..n \subseteq S
  <1> DEFINE R == {i \in Nat : i <= n => i \in S}
  <1>1. 0 \in R
    OBVIOUS
  <1>2. \A i \in Nat : i \in R => i + 1 \in R
    OBVIOUS
  <1>3. Nat \subseteq R
    <2> HIDE DEF R
    <2> QED BY <1>1, <1>2, SetInduction
  <1> QED
    BY <1>3

(***************************************************************************)
(* f is the run of a loop of n rounds: it starts from base, and round i    *)
(* takes f[i - 1] to f[i].                                                 *)
(***************************************************************************)
Iterates(f, n, base, step) == f[0] = base /\ \A i \in 1..n : f[i] = step[i][f[i - 1]]

(***************************************************************************)
(* Every loop has such a run.                                              *)
(***************************************************************************)
LEMMA RecursiveFunction ==
  ASSUME NEW n \in Nat, NEW V, NEW base \in V, NEW step \in [1..n -> [V -> V]]
  PROVE  \E f \in [0..n -> V] : Iterates(f, n, base, step)
  <1> DEFINE S == {m \in 0..n : \E f \in [0..m -> V] : Iterates(f, m, base, step)}
  <1>1. 0 \in S
    <2>1. [i \in 0..0 |-> base] \in [0..0 -> V]
      OBVIOUS
    <2>2. Iterates([i \in 0..0 |-> base], 0, base, step)
      BY DEF Iterates
    <2>3. 0 \in 0..n
      OBVIOUS
    <2> QED
      BY <2>1, <2>2, <2>3
  <1>2. ASSUME NEW m \in 0..(n - 1), m \in S PROVE m + 1 \in S
    <2>1. PICK f \in [0..m -> V] : Iterates(f, m, base, step)
      BY <1>2
    <2>2. m + 1 \in 1..n /\ m + 1 \in 0..n /\ f[m] \in V
      BY <2>1
    <2>3. step[m + 1] \in [V -> V]
      BY <2>2
    <2>4. step[m + 1][f[m]] \in V
      BY <2>2, <2>3
    <2> DEFINE g == [i \in 0..(m + 1) |-> IF i = m + 1 THEN step[m + 1][f[m]] ELSE f[i]]
    <2>5. g \in [0..(m + 1) -> V]
      BY <2>4
    <2>6. \A i \in 0..m : g[i] = f[i]
      OBVIOUS
    <2>7. g[m + 1] = step[m + 1][f[m]] /\ (m + 1) - 1 = m
      OBVIOUS
    <2> HIDE DEF g
    <2>8. ASSUME NEW i \in 1..(m + 1) PROVE g[i] = step[i][g[i - 1]]
      <3>1. i - 1 \in 0..m
        OBVIOUS
      <3>2. g[i - 1] = f[i - 1]
        BY <2>6, <3>1
      <3>3. CASE i = m + 1
        BY <2>7, <3>2, <3>3
      <3>4. CASE i \in 1..m
        <4>1. f[i] = step[i][f[i - 1]]
          BY <2>1, <3>4 DEF Iterates
        <4>2. i \in 0..m
          BY <3>4
        <4> QED
          BY <2>6, <3>2, <4>1, <4>2
      <3> QED
        BY <3>3, <3>4
    <2>9. Iterates(g, m + 1, base, step)
      BY <2>1, <2>6, <2>8 DEF Iterates
    <2> QED
      BY <2>2, <2>5, <2>9
  <1>3. 0..n \subseteq S
    <2> HIDE DEF S
    <2> QED
      BY <1>1, <1>2, BoundedInduction
  <1> QED
    BY <1>3
===============================================================================
