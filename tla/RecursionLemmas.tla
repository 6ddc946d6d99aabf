-------------------------- MODULE RecursionLemmas --------------------------
(***************************************************************************)
(* Induction and recursion over natural numbers, stated for sets: what is  *)
(* to be proved of every number is that a set holds it, and what a         *)
(* recursive function does at each number is a function on a set.          *)
(***************************************************************************)
EXTENDS Integers, WellFoundedInduction, TLAPS

LEMMA LeastNumber ==
    ASSUME NEW T \in SUBSET Nat, T # {}
    PROVE  \E least \in T : \A n \in T : least <= n
<1> DEFINE Less == {pair \in Nat \X Nat : pair[1] < pair[2]}
<1>1. IsWellFoundedOn(OpToRel(<, Nat), Nat)
  BY NatLessThanWellFounded
<1>2. Less = OpToRel(<, Nat)
  BY DEF OpToRel
<1>3. IsWellFoundedOn(Less, Nat)
  BY <1>1, <1>2
<1> HIDE DEF Less
<1>4. PICK least \in T : \A n \in T : ~ (<<n, least>> \in Less)
  BY <1>3, WFMin
<1>5. ASSUME NEW n \in T PROVE least <= n
  <2>1. least \in Nat /\ n \in Nat
    OBVIOUS
  <2>2. n < least => <<n, least>> \in Less
    BY <2>1 DEF Less
  <2> QED BY <1>4, <2>1, <2>2
<1> QED BY <1>5

LEMMA Induction ==
    ASSUME NEW T, 0 \in T, \A n \in Nat : n \in T => n + 1 \in T
    PROVE  Nat \subseteq T
<1> SUFFICES ASSUME Nat \ T # {} PROVE FALSE
  OBVIOUS
<1>1. PICK least \in Nat \ T : \A n \in Nat \ T : least <= n
  BY LeastNumber
<1>2. least # 0 /\ least - 1 \in Nat
  BY <1>1
<1>3. least - 1 \in T
  BY <1>1, <1>2
<1> QED BY <1>1, <1>2, <1>3

(* The functions that take N steps from a first value: there is one.       *)
Courses(S, first, N, step) ==
    {f \in [0 .. N -> S] : f[0] = first /\ \A n \in 1 .. N : f[n] = step[n][f[n - 1]]}

LEMMA StepsExist ==
    ASSUME NEW S, NEW first \in S, NEW N \in Nat, NEW step \in [1 .. N -> [S -> S]]
    PROVE  Courses(S, first, N, step) # {}
<1> DEFINE Runs(f, n) == f[0] = first /\ \A m \in 1 .. n : f[m] = step[m][f[m - 1]]
<1> DEFINE T == {n \in Nat : n <= N => \E f \in [0 .. n -> S] : Runs(f, n)}
<1>1. 0 \in T
  <2>1. [m \in 0 .. 0 |-> first] \in [0 .. 0 -> S] /\ Runs([m \in 0 .. 0 |-> first], 0)
    OBVIOUS
  <2> QED BY <2>1
<1>2. ASSUME NEW n \in Nat, n \in T PROVE n + 1 \in T
  <2> SUFFICES ASSUME n + 1 <= N PROVE \E f \in [0 .. n + 1 -> S] : Runs(f, n + 1)
    OBVIOUS
  <2>1. PICK g \in [0 .. n -> S] : Runs(g, n)
    BY <1>2
  <2> DEFINE f == [m \in 0 .. n + 1 |-> IF m <= n THEN g[m] ELSE step[n + 1][g[n]]]
  <2>2. step[n + 1] \in [S -> S] /\ g[n] \in S
    OBVIOUS
  <2>3. f \in [0 .. n + 1 -> S]
    BY <2>2
  <2>4. f[0] = first
    BY <2>1
  <2>5. ASSUME NEW m \in 1 .. n + 1 PROVE f[m] = step[m][f[m - 1]]
    <3>1. CASE m <= n
      <4>1. m \in 1 .. n /\ m - 1 \in 0 .. n /\ f[m] = g[m] /\ f[m - 1] = g[m - 1]
        BY <3>1
      <4> QED BY <2>1, <4>1
    <3>2. CASE m = n + 1
      BY <3>2
    <3> QED BY <3>1, <3>2
  <2> QED BY <2>3, <2>4, <2>5
<1> HIDE DEF T
<1>3. N \in T
  BY <1>1, <1>2, Induction
<1>4. \E f \in [0 .. N -> S] : Runs(f, N)
  BY <1>3 DEF T
<1> QED BY <1>4 DEF Courses
=============================================================================
