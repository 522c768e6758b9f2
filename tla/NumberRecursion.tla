-------------------------- MODULE NumberRecursion --------------------------
(***************************************************************************)
(* Induction over numbers, and functions that are defined by recursion on  *)
(* them.  The library states induction for an operator, which cannot be    *)
(* instantiated here; for a set it follows from the well-foundedness of <. *)
(***************************************************************************)
EXTENDS Integers, WellFoundedInduction, TLAPS

\* A set of numbers that is not empty has a least element.
LEMMA NatMin == ASSUME NEW T, T \subseteq Nat, T # {} PROVE \E x \in T : \A y \in T : x <= y
<1>1. IsWellFoundedOn(OpToRel(<,Nat), Nat)
  BY NatLessThanWellFounded
<1>2. PICK x \in T : \A y \in T : ~ (<<y, x>> \in OpToRel(<,Nat))
  BY <1>1, WFMin
<1>3. \A y \in T : ~(y < x)
  BY <1>2 DEF OpToRel
<1>4. \A y \in T : x <= y
  <2> TAKE y \in T
  <2>1. ~(y < x) /\ x \in Nat /\ y \in Nat
    BY <1>3
  <2> HIDE <1>2
  <2> QED
    BY <2>1, SMT
<1> QED
  BY <1>4

\* A set that has 0, and with a number below n the next one, has all up to n.
LEMMA UpTo ==
  ASSUME NEW n \in Nat, NEW G, 0 \in G, \A i \in 0 .. n : i < n /\ i \in G => i + 1 \in G
  PROVE  0 .. n \subseteq G
<1> DEFINE Bad == (0 .. n) \ G
<1> SUFFICES ASSUME Bad # {} PROVE FALSE
  OBVIOUS
<1>1. Bad \subseteq Nat
  OBVIOUS
<1>2. PICK m \in Bad : \A y \in Bad : m <= y
  <2> HIDE DEF Bad
  <2> QED
    BY <1>1, NatMin
<1>3. m # 0 /\ m \in 0 .. n
  OBVIOUS
<1>4. m - 1 \in 0 .. n /\ m - 1 < n /\ m - 1 \notin Bad
  BY <1>2, <1>3
<1> QED
  BY <1>3, <1>4

\* A set that has 0, and a number whenever it has the one that P names, a
\* lower one, has all up to n.
LEMMA Descent ==
  ASSUME NEW n \in Nat, NEW P \in [1 .. n -> Nat], \A i \in 1 .. n : P[i] \in 0 .. i - 1,
         NEW G, 0 \in G, \A i \in 1 .. n : P[i] \in G => i \in G
  PROVE  0 .. n \subseteq G
<1> DEFINE Bad == (0 .. n) \ G
<1> SUFFICES ASSUME Bad # {} PROVE FALSE
  OBVIOUS
<1>1. Bad \subseteq Nat
  OBVIOUS
<1>2. PICK m \in Bad : \A y \in Bad : m <= y
  <2> HIDE DEF Bad
  <2> QED
    BY <1>1, NatMin
<1>3. m \in 1 .. n
  OBVIOUS
<1>4. P[m] \in 0 .. m - 1
  BY <1>3
<1>5. P[m] \in 0 .. n /\ P[m] < m
  BY <1>3, <1>4
<1>6. P[m] \notin Bad
  BY <1>2, <1>3, <1>5
<1> QED
  BY <1>3, <1>5, <1>6

-----------------------------------------------------------------------------
\* f is e at 0, and else F of its value at the number that P names.
Unfolds(f, n, P, e, F) == f[0] = e /\ \A i \in 1 .. n : f[i] = F[i][f[P[i]]]

\* There is such a function.
LEMMA Recursion ==
  ASSUME NEW n \in Nat, NEW P \in [1 .. n -> Nat], \A i \in 1 .. n : P[i] \in 0 .. i - 1,
         NEW T, NEW e \in T, NEW F \in [1 .. n -> [T -> T]]
  PROVE  \E f \in [0 .. n -> T] : Unfolds(f, n, P, e, F)
<1> DEFINE Up(m, f) == f[0] = e /\ \A i \in 1 .. m : f[i] = F[i][f[P[i]]]
           G == {m \in 0 .. n : \E f \in [0 .. n -> T] : Up(m, f)}
           Q == [i \in 1 .. n |-> i - 1]
<1>1. 0 \in G
  <2> DEFINE f == [i \in 0 .. n |-> e]
  <2>1. f \in [0 .. n -> T] /\ f[0] = e /\ 0 \in 0 .. n
    OBVIOUS
  <2>2. Up(0, f)
    BY <2>1
  <2> HIDE DEF f, Up
  <2> QED
    BY <2>1, <2>2
<1>2. ASSUME NEW k \in 1 .. n, Q[k] \in G PROVE k \in G
  <2> DEFINE m == k - 1
  <2>1. m \in G /\ m \in 0 .. n /\ k \in 0 .. n
    BY <1>2
  <2>2. PICK f \in [0 .. n -> T] : Up(m, f)
    BY <2>1
  <2>3. P[k] \in 0 .. m /\ P[k] \in 0 .. n
    <3>1. P[k] \in 0 .. k - 1
      OBVIOUS
    <3> QED
      BY <3>1
  <2>4. F[k][f[P[k]]] \in T
    BY <2>3
  <2> DEFINE h == [f EXCEPT ![k] = F[k][f[P[k]]]]
  <2>5. h \in [0 .. n -> T]
    BY <2>4
  <2>6. \A i \in 0 .. m : h[i] = f[i]
    BY <2>1
  <2>7. h[k] = F[k][f[P[k]]]
    BY <2>1
  <2> HIDE DEF h
  <2>8. ASSUME NEW i \in 1 .. k PROVE h[i] = F[i][h[P[i]]]
    <3>1. CASE i = k
      BY <2>3, <2>6, <2>7, <3>1
    <3>2. CASE i # k
      <4>1. i \in 1 .. m /\ i \in 0 .. m /\ i \in 1 .. n
        BY <3>2
      <4>2. P[i] \in 0 .. i - 1
        BY <4>1
      <4>3. P[i] \in 0 .. m
        BY <4>1, <4>2
      <4>4. f[i] = F[i][f[P[i]]]
        BY <2>2, <4>1
      <4> QED
        BY <2>6, <4>1, <4>3, <4>4
    <3> QED
      BY <3>1, <3>2
  <2>9. Up(k, h)
    <3>1. h[0] = e
      BY <2>1, <2>2, <2>6
    <3> QED
      BY <2>8, <3>1
  <2> HIDE DEF Up
  <2> QED
    BY <2>1, <2>5, <2>9
<1>3. Q \in [1 .. n -> Nat] /\ \A i \in 1 .. n : Q[i] \in 0 .. i - 1
  OBVIOUS
<1>4. n \in G
  <2> HIDE DEF G, Q
  <2>1. 0 .. n \subseteq G
    BY <1>1, <1>2, <1>3, Descent
  <2> QED
    BY <2>1
<1> QED
  BY <1>4 DEF Unfolds

\* The usual case: each value comes from the one before.
Iterates(f, n, e, F) == f[0] = e /\ \A i \in 1 .. n : f[i] = F[i][f[i - 1]]

LEMMA Iteration ==
  ASSUME NEW n \in Nat, NEW T, NEW e \in T, NEW F \in [1 .. n -> [T -> T]]
  PROVE  \E f \in [0 .. n -> T] : Iterates(f, n, e, F)
<1> DEFINE P == [i \in 1 .. n |-> i - 1]
<1>1. P \in [1 .. n -> Nat] /\ \A i \in 1 .. n : P[i] \in 0 .. i - 1 /\ P[i] = i - 1
  OBVIOUS
<1> HIDE DEF P
<1>2. PICK f \in [0 .. n -> T] : Unfolds(f, n, P, e, F)
  BY <1>1, Recursion
<1>3. Iterates(f, n, e, F)
  BY <1>1, <1>2 DEF Unfolds, Iterates
<1> QED
  BY <1>3
=============================================================================
