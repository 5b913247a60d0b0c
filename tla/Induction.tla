------------------------------ MODULE Induction ------------------------------
(***************************************************************************)
(* Induction over data for the proofs of this project: a set that is       *)
(* closed under successor has all natural numbers, and a function defined  *)
(* by recursion on its argument exists.  The predicates and the step are a *)
(* set and a function, so that the theorems can be applied by the provers. *)
(***************************************************************************)
EXTENDS Integers, WellFoundedInduction, TLAPS

(* The natural numbers have no infinite descent.                           *)
LEMMA NatOrder == IsWellFoundedOn({ss \in Nat \X Nat : ss[1] < ss[2]}, Nat)
BY NatLessThanWellFounded DEF OpToRel

(* A set with 0 and the successor of each of its members has every number: *)
(* a least number that it does not have would have a predecessor.          *)
THEOREM SetInduction ==
    ASSUME NEW S, 0 \in S, \A n \in Nat : n \in S => n + 1 \in S
    PROVE  \A n \in Nat : n \in S
<1> DEFINE T == Nat \ S
           R == {ss \in Nat \X Nat : ss[1] < ss[2]}
<1>1. SUFFICES ASSUME T # {} PROVE FALSE
  OBVIOUS
<1>2. IsWellFoundedOn(R, Nat) /\ T \subseteq Nat
  BY NatOrder
<1> HIDE DEF R
<1>3. PICK x \in T : \A y \in T : ~ (<<y, x>> \in R)
  BY <1>1, <1>2, WFMin
<1>4. x # 0 /\ x - 1 \in Nat /\ x - 1 < x
  OBVIOUS
<1>5. <<x - 1, x>> \in R
  BY <1>4 DEF R
<1>6. x - 1 \in S
  BY <1>3, <1>4, <1>5
<1> QED BY <1>4, <1>6

(* The same up to a bound. *)
THEOREM BoundedInduction ==
    ASSUME NEW S, NEW m \in Nat, 0 \in S, \A n \in 0 .. m - 1 : n \in S => n + 1 \in S
    PROVE  \A n \in 0 .. m : n \in S
<1> DEFINE T == {n \in Nat : n <= m => n \in S}
<1>1. 0 \in T
  OBVIOUS
<1>2. \A n \in Nat : n \in T => n + 1 \in T
  OBVIOUS
<1> HIDE DEF T
<1>3. \A n \in Nat : n \in T
  BY <1>1, <1>2, SetInduction
<1> QED BY <1>3 DEF T

(* f is the function that starts with base and goes on by step, up to m.   *)
GoesOn(f, m, base, step) ==
    /\ f[0] = base
    /\ \A k \in 1 .. m : f[k] = step[k][f[k - 1]]

(* There is one, however far it goes. *)
THEOREM RecursionExists ==
    ASSUME NEW V, NEW base \in V, NEW N \in Nat, NEW step \in [1 .. N -> [V -> V]]
    PROVE  \E f \in [0 .. N -> V] : GoesOn(f, N, base, step)
<1> DEFINE S == {m \in Nat : m <= N => \E f \in [0 .. m -> V] : GoesOn(f, m, base, step)}
<1>1. 0 \in S
  <2> DEFINE f == [k \in 0 .. 0 |-> base]
  <2>1. f \in [0 .. 0 -> V] /\ GoesOn(f, 0, base, step)
    BY DEF GoesOn
  <2> QED BY <2>1
<1>2. ASSUME NEW n \in Nat, n \in S
      PROVE  n + 1 \in S
  <2>1. SUFFICES ASSUME n + 1 <= N
                 PROVE  \E g \in [0 .. n + 1 -> V] : GoesOn(g, n + 1, base, step)
    OBVIOUS
  <2>2. PICK f \in [0 .. n -> V] : GoesOn(f, n, base, step)
    BY <1>2, <2>1
  <2> DEFINE g == [k \in 0 .. n + 1 |-> IF k = n + 1 THEN step[n + 1][f[n]] ELSE f[k]]
  <2>3. step[n + 1][f[n]] \in V
    BY <2>1, <2>2
  <2>4. g \in [0 .. n + 1 -> V]
    BY <2>2, <2>3
  <2>5. GoesOn(g, n + 1, base, step)
    BY <2>2 DEF GoesOn
  <2> QED BY <2>4, <2>5
<1> HIDE DEF S
<1>3. N \in S
  BY <1>1, <1>2, SetInduction
<1> QED BY <1>3 DEF S

=============================================================================
