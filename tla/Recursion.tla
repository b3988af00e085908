------------------------------ MODULE Recursion ------------------------------
(***************************************************************************)
(* Functions by recursion on the numbers up to a bound, which the walks    *)
(* of the recursive CTEs are: that there is one, without an operator for   *)
(* the induction's hypothesis.                                             *)
(***************************************************************************)
EXTENDS Integers, WellFoundedInduction, TLAPS

(* A set of numbers that is not empty has a least one: induction without  *)
(* an operator for the hypothesis.                                         *)
LEMMA Smallest ==
    ASSUME NEW T, T \subseteq Nat, T # {}
    PROVE  \E x \in T : \A y \in T : x <= y
<1> DEFINE R == {ss \in Nat \X Nat : ss[1] < ss[2]}
<1>1. IsWellFoundedOn(R, Nat)
  BY NatLessThanWellFounded, Zenon DEF OpToRel
<1>2. PICK x \in T : \A y \in T : ~(<<y, x>> \in R)
  BY <1>1, WFMin
<1>3. ASSUME NEW y \in T PROVE x <= y
  <2>1. x \in Nat /\ y \in Nat /\ ~(<<y, x>> \in R)
    BY <1>2
  <2> QED
    BY <2>1
<1> QED
  BY <1>3

(* F iterated from c, as far as N.                                         *)
Iterates(D, F, c, N) ==
    {g \in [0 .. N -> D] : g[0] = c /\ \A k \in 1 .. N : g[k] = F[g[k - 1]]}

LEMMA Iteration ==
    ASSUME NEW D, NEW F \in [D -> D], NEW c \in D, NEW N \in Nat
    PROVE  Iterates(D, F, c, N) # {}
<1> DEFINE T == {m \in Nat : Iterates(D, F, c, m) = {}}
<1>1. SUFFICES ASSUME T # {} PROVE FALSE
  OBVIOUS
<1>2. PICK m \in T : \A y \in T : m <= y
  BY <1>1, Smallest, T \subseteq Nat
<1>3. CASE m = 0
  <2>1. [k \in 0 .. 0 |-> c] \in Iterates(D, F, c, 0)
    BY DEF Iterates
  <2> QED
    BY <1>2, <1>3, <2>1
<1>4. CASE m > 0
  <2>1. m - 1 \in Nat /\ m - 1 \notin T
    BY <1>2, <1>4
  <2>2. PICK g : g \in Iterates(D, F, c, m - 1)
    BY <2>1
  <2>3. g \in [0 .. m - 1 -> D] /\ g[0] = c /\ \A k \in 1 .. m - 1 : g[k] = F[g[k - 1]]
    BY <2>2 DEF Iterates
  <2> DEFINE h == [k \in 0 .. m |-> IF k = m THEN F[g[m - 1]] ELSE g[k]]
  <2>4. h \in [0 .. m -> D]
    BY <2>1, <2>3
  <2>5. ASSUME NEW k \in 1 .. m PROVE h[k] = F[h[k - 1]]
    BY <1>4, <2>3
  <2>6. h \in Iterates(D, F, c, m)
    BY <1>4, <2>3, <2>4, <2>5 DEF Iterates
  <2> QED
    BY <1>2, <2>6
<1> QED
  BY <1>2, <1>3, <1>4

=============================================================================
