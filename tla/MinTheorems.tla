---------------------------- MODULE MinTheorems ----------------------------
(***************************************************************************)
(* The least element of a set of naturals, which find_free_slot and the     *)
(* loops over the buttons of the enum both stand for, and what follows from  *)
(* its existence: induction, and the functions that recursion defines.       *)
(***************************************************************************)
EXTENDS Integers, FiniteSetsExt, TLAPS, WellFoundedInduction

LEMMA LeastElement ==
  ASSUME NEW T, T \subseteq Nat, T # {}
  PROVE  \E x \in T : \A y \in T : x <= y
<1> DEFINE R == {ss \in Nat \X Nat : ss[1] < ss[2]}
<1>1. IsWellFoundedOn(R, Nat)
  BY NatLessThanWellFounded DEF OpToRel
<1>2. PICK x \in T : \A y \in T : ~ (<<y, x>> \in R)
  <2> HIDE DEF R
  <2> QED BY <1>1, WFMin
<1>3. ASSUME NEW y \in T PROVE x <= y
  <2>1. ~ (<<y, x>> \in R) BY <1>2
  <2>2. x \in Nat /\ y \in Nat OBVIOUS
  <2>3. ~ (y < x) BY <2>1, <2>2
  <2> QED BY <2>2, <2>3
<1> QED BY <1>3

LEMMA MinFacts ==
  ASSUME NEW T, T \subseteq Nat, T # {}
  PROVE  Min(T) \in T /\ \A y \in T : Min(T) <= y
BY LeastElement DEF Min

(* A bounded set of numbers has a greatest element as well.                  *)
LEMMA MaxFacts ==
  ASSUME NEW n \in Int, NEW T \in SUBSET Int, T # {}, \A y \in T : y <= n
  PROVE  Max(T) \in T /\ \A y \in T : y <= Max(T)
<1> DEFINE U == {n - y : y \in T}
<1>1. U \subseteq Nat /\ U # {}
  <2>1. \A y \in T : n - y \in Nat
    OBVIOUS
  <2>2. PICK y \in T : TRUE
    OBVIOUS
  <2>3. n - y \in U
    OBVIOUS
  <2> QED BY <2>1, <2>3
<1>2. PICK u \in U : \A w \in U : u <= w
  <2> HIDE DEF U
  <2> QED BY <1>1, LeastElement
<1>3. PICK x \in T : u = n - x
  BY <1>2
<1>4. ASSUME NEW y \in T PROVE x >= y
  <2>1. u <= n - y
    BY <1>2
  <2> QED BY <1>3, <2>1
<1> QED BY <1>4 DEF Max

(* Induction over the naturals up to n, without a formula as a parameter:   *)
(* a set of them that has 0, and every successor, has them all.             *)
LEMMA UpTo ==
  ASSUME NEW n \in Nat, NEW G, 0 \in G, \A i \in 1..n : i - 1 \in G => i \in G
  PROVE  0..n \subseteq G
<1> SUFFICES ASSUME (0..n) \ G # {} PROVE FALSE
  OBVIOUS
<1>1. (0..n) \ G \subseteq Nat
  OBVIOUS
<1>2. PICK x \in (0..n) \ G : \A y \in (0..n) \ G : x <= y
  BY <1>1, LeastElement
<1>3. x \in 1..n /\ x - 1 \in 0..n
  BY <1>2
<1>4. x - 1 \in G
  BY <1>2, <1>3
<1> QED BY <1>2, <1>3, <1>4

(* A function on 0..n that starts with v0 and goes on by step.               *)
Recursion(g, n, V, v0, step) ==
  /\ g \in [0..n -> V]
  /\ \A i \in 0..n : g[i] = IF i = 0 THEN v0 ELSE step[<<i, g[i - 1]>>]

(* It exists ...                                                            *)
LEMMA RecursionExists ==
  ASSUME NEW n \in Nat, NEW V, NEW v0 \in V, NEW step \in [(1..n) \X V -> V]
  PROVE  \E g : Recursion(g, n, V, v0, step)
<1> DEFINE Solves(g, m) ==
             \A i \in 0..m : g[i] = IF i = 0 THEN v0 ELSE step[<<i, g[i - 1]>>]
           G == {m \in 0..n : \E g \in [0..m -> V] : Solves(g, m)}
<1>1. 0 \in G
  <2> DEFINE g == [i \in 0..0 |-> v0]
  <2>1. g \in [0..0 -> V] /\ Solves(g, 0)
    OBVIOUS
  <2>2. \E f \in [0..0 -> V] : Solves(f, 0)
    <3> HIDE DEF g, Solves
    <3> QED BY <2>1
  <2> HIDE DEF Solves
  <2> QED BY <2>2
<1>2. ASSUME NEW m \in 1..n, m - 1 \in G PROVE m \in G
  <2>1. PICK g \in [0..(m - 1) -> V] : Solves(g, m - 1)
    BY <1>2
  <2> DEFINE h == [i \in 0..m |-> IF i = m THEN step[<<m, g[m - 1]>>] ELSE g[i]]
  <2>2. m - 1 \in 0..(m - 1) /\ g[m - 1] \in V /\ step[<<m, g[m - 1]>>] \in V
    BY <2>1
  <2>3. h \in [0..m -> V]
    <3>1. ASSUME NEW i \in 0..m, i # m PROVE g[i] \in V
      <4>1. i \in 0..(m - 1)
        BY <3>1
      <4> QED BY <2>1, <4>1
    <3> QED BY <2>2, <3>1
  <2>4. ASSUME NEW i \in 0..m
        PROVE  h[i] = IF i = 0 THEN v0 ELSE step[<<i, h[i - 1]>>]
    <3>1. CASE i = m
      <4>1. m - 1 \in 0..m /\ m - 1 # m /\ i # 0
        BY <3>1
      <4>2. h[m - 1] = g[m - 1] /\ h[m] = step[<<m, g[m - 1]>>]
        BY <4>1
      <4> QED BY <3>1, <4>1, <4>2
    <3>2. CASE i # m
      <4>1. i \in 0..(m - 1)
        BY <3>2
      <4>2. h[i] = g[i]
        BY <3>2
      <4>3. i # 0 => i - 1 \in 0..m /\ i - 1 # m
        BY <3>2
      <4>4. i # 0 => h[i - 1] = g[i - 1]
        BY <4>3
      <4> HIDE DEF h
      <4>5. g[i] = IF i = 0 THEN v0 ELSE step[<<i, g[i - 1]>>]
        BY <2>1, <4>1
      <4> QED BY <4>2, <4>4, <4>5
    <3> QED BY <3>1, <3>2
  <2>5. Solves(h, m)
    <3> HIDE DEF h
    <3> QED BY <2>4
  <2> HIDE DEF h, Solves
  <2> QED BY <2>3, <2>5
<1>3. 0..n \subseteq G
  <2> HIDE DEF G
  <2> QED BY <1>1, <1>2, UpTo
<1>4. n \in G
  BY <1>3
<1> QED BY <1>4 DEF Recursion

(* ... and has its values where its steps stay.                             *)
LEMMA RecursionType ==
  ASSUME NEW n \in Nat, NEW V, NEW g, g[0] \in V,
         \A i \in 1..n : g[i - 1] \in V => g[i] \in V
  PROVE  \A i \in 0..n : g[i] \in V
<1> DEFINE G == {i \in 0..n : g[i] \in V}
<1>1. 0 \in G /\ \A i \in 1..n : i - 1 \in G => i \in G
  OBVIOUS
<1>2. 0..n \subseteq G
  <2> HIDE DEF G
  <2> QED BY <1>1, UpTo
<1> QED BY <1>2
=============================================================================
