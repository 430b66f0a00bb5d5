------------------------------ MODULE FoldFacts -------------------------------
(***************************************************************************)
(* A fold passes through the prefixes of its list.  What a fold of the     *)
(* models computes is a community module's FoldLeft, a recursive function  *)
(* on the sets of positions; an instance of this module turns it into the  *)
(* states g[0], g[1], ... that the code's loop has after each element, so  *)
(* that a property of the result is proved by induction over them.         *)
(***************************************************************************)
EXTENDS Integers, Sequences, TLAPS, WellFoundedInduction

CONSTANTS
    Op(_, _, _),    \* one step: what is fixed, the state, the next element
    Base(_)         \* the first state

-----------------------------------------------------------------------------
(* Induction over the positions of a sequence, without an operator for the   *)
(* property: S is the set of the positions that have it.                     *)

Lesser == {p \in Nat \X Nat : p[1] < p[2]}

LEMMA LesserWellFounded == IsWellFoundedOn(Lesser, Nat)
<1>1. OpToRel(<, Nat) = Lesser
  BY DEF OpToRel, Lesser
<1> QED BY <1>1, NatLessThanWellFounded

(* A set of positions that has any has a first one.                          *)
THEOREM LeastIn ==
    ASSUME NEW S, S \subseteq Nat, S # {}
    PROVE  \E n \in S : \A m \in S : n <= m
<1>1. PICK n \in S : \A m \in S : <<m, n>> \notin Lesser
  BY LesserWellFounded, WFMin
<1>2. \A m \in S : n <= m
  <2> SUFFICES ASSUME NEW m \in S PROVE n <= m
    OBVIOUS
  <2>1. m \in Nat /\ n \in Nat /\ <<m, n>> \notin Lesser
    BY <1>1
  <2> QED BY <2>1 DEF Lesser
<1> QED BY <1>2

(* What holds of 0, and of n when of n - 1, holds up to every N.             *)
THEOREM Induction ==
    ASSUME NEW N \in Nat, NEW S, 0 \in S, \A n \in 1..N : n - 1 \in S => n \in S
    PROVE  \A n \in 0..N : n \in S
<1> SUFFICES ASSUME (0..N) \ S # {} PROVE FALSE
  OBVIOUS
<1>1. (0..N) \ S \subseteq Nat
  OBVIOUS
<1>2. PICK n \in (0..N) \ S : \A m \in (0..N) \ S : <<m, n>> \notin Lesser
  BY <1>1, LesserWellFounded, WFMin
<1>3. n \in 1..N /\ n - 1 \in 0..N
  BY <1>2
<1>4. <<n - 1, n>> \in Lesser
  BY <1>3 DEF Lesser
<1>5. n - 1 \in S
  BY <1>2, <1>3, <1>4
<1> QED BY <1>2, <1>3, <1>5

-----------------------------------------------------------------------------
Top(s) == CHOOSE x \in s : \A y \in s : x >= y

(* What FoldLeft, as the community modules define it, makes of the elements  *)
(* of a list at the positions s.                                             *)
FoldOn(c, list, s) ==
    LET fold[t \in SUBSET DOMAIN list] ==
            IF t = {} THEN Base(c) ELSE LET x == Top(t) IN Op(c, fold[t \ {x}], list[x])
    IN fold[s]

Fold(c, list) == FoldOn(c, list, DOMAIN list)

(* The state after the first n elements.                                     *)
After(c, list, n) == FoldOn(c, list, 1..n)

LEMMA TopOfPrefix ==
    ASSUME NEW n \in Nat, NEW s \in SUBSET (1..n), n \in s
    PROVE  Top(s) = n
<1>1. \A m \in s : n >= m
  OBVIOUS
<1>2. \A x \in s : (\A m \in s : x >= m) => x = n
  OBVIOUS
<1> QED BY <1>1, <1>2 DEF Top

(* The fold of a list is the last of the states that its steps lead through, *)
(* one element after the other from the first on.                            *)
THEOREM Folded ==
    ASSUME NEW c, NEW list, NEW N \in Nat, DOMAIN list = 1..N
    PROVE  /\ After(c, list, 0) = Base(c)
           /\ \A n \in 1..N : After(c, list, n) = Op(c, After(c, list, n - 1), list[n])
           /\ Fold(c, list) = After(c, list, N)
<1> DEFINE Folds(f, n) == f = [s \in SUBSET (1..n) |->
               IF s = {} THEN Base(c) ELSE Op(c, f[s \ {Top(s)}], list[Top(s)])]
           Good == {n \in 0..N : \E f : Folds(f, n)}
<1>1. 0 \in Good
  <2> DEFINE f == [s \in SUBSET (1..0) |-> Base(c)]
  <2>1. \A s \in SUBSET (1..0) : s = {}
    OBVIOUS
  <2>2. Folds(f, 0)
    BY <2>1
  <2> QED BY <2>2
<1>2. ASSUME NEW n \in 1..N, n - 1 \in Good PROVE n \in Good
  <2>1. PICK f : Folds(f, n - 1)
    BY <1>2
  <2> DEFINE h == [s \in SUBSET (1..n) |-> IF n \in s THEN Op(c, f[s \ {n}], list[n]) ELSE f[s]]
  <2> HIDE DEF Folds
  <2>2. ASSUME NEW s \in SUBSET (1..n)
        PROVE  h[s] = IF s = {} THEN Base(c) ELSE Op(c, h[s \ {Top(s)}], list[Top(s)])
    <3>1. s \ {n} \in SUBSET (1..n) /\ h[s \ {n}] = f[s \ {n}]
      OBVIOUS
    <3>2. CASE n \in s
      <4>1. Top(s) = n /\ s # {}
        BY <3>2, TopOfPrefix
      <4>2. h[s] = Op(c, f[s \ {n}], list[n])
        BY <3>2
      <4> QED BY <3>1, <4>1, <4>2
    <3>3. CASE n \notin s
      <4>1. s \in SUBSET (1..(n - 1))
        BY <3>3
      <4> DEFINE top == Top(s)
      <4> HIDE DEF top
      <4>2. s \ {top} \in SUBSET (1..(n - 1)) /\ n \notin s \ {top} /\ s \ {top} \in SUBSET (1..n)
        BY <4>1, <3>3
      <4>3. h[s \ {top}] = f[s \ {top}] /\ h[s] = f[s]
        BY <4>2, <3>3
      <4>4. f[s] = IF s = {} THEN Base(c) ELSE Op(c, f[s \ {top}], list[top])
        BY <4>1, <2>1 DEF Folds, top
      <4> QED BY <4>3, <4>4 DEF top
    <3> QED BY <3>2, <3>3
  <2>3. Folds(h, n)
    BY <2>2 DEF Folds
  <2> HIDE DEF h
  <2> QED BY <2>3
<1>3. \E f : Folds(f, N)
  <2>1. \A n \in 1..N : n - 1 \in Good => n \in Good
    BY <1>2
  <2> HIDE DEF Good
  <2>2. N \in Good
    BY <1>1, <2>1, Induction
  <2> QED BY <2>2 DEF Good
<1> DEFINE fold == CHOOSE f : Folds(f, N)
<1>4. Folds(fold, N)
  BY <1>3
<1>5. \A s : FoldOn(c, list, s) = fold[s]
  BY DEF FoldOn
<1> HIDE DEF fold
<1>6. After(c, list, 0) = Base(c)
  <2>1. 1..0 = {} /\ 1..0 \in SUBSET (1..N)
    OBVIOUS
  <2>2. fold[1..0] = Base(c)
    BY <2>1, <1>4
  <2> QED BY <2>2, <1>5 DEF After
<1>7. ASSUME NEW n \in 1..N PROVE After(c, list, n) = Op(c, After(c, list, n - 1), list[n])
  <2>1. n \in Nat /\ 1..n \in SUBSET (1..n) /\ n \in 1..n
    OBVIOUS
  <2>2. Top(1..n) = n
    BY <2>1, TopOfPrefix
  <2>3. 1..n \subseteq 1..N /\ 1..n # {}
    BY <2>1
  <2>4. (1..n) \ {n} = 1..(n - 1)
    BY <2>1
  <2>5. fold[1..n] = Op(c, fold[1..(n - 1)], list[n])
    BY <2>2, <2>3, <2>4, <1>4
  <2> QED BY <2>5, <1>5 DEF After
<1> QED BY <1>5, <1>6, <1>7 DEF Fold, After

(* What the first state is in, and each step leads to from what the state    *)
(* before it is in, the state after n elements is in, and so is the fold.    *)
THEOREM Passes ==
    ASSUME NEW c, NEW list, NEW N \in Nat, DOMAIN list = 1..N,
           NEW States, Base(c) \in States[0],
           \A n \in 1..N : \A x \in States[n - 1] : Op(c, x, list[n]) \in States[n]
    PROVE  Fold(c, list) \in States[N] /\ \A n \in 0..N : After(c, list, n) \in States[n]
<1>0. /\ After(c, list, 0) = Base(c)
      /\ \A n \in 1..N : After(c, list, n) = Op(c, After(c, list, n - 1), list[n])
      /\ Fold(c, list) = After(c, list, N)
  BY Folded
<1> DEFINE Good == {n \in 0..N : After(c, list, n) \in States[n]}
<1>1. 0 \in Good
  <2>1. 0 \in 0..N
    OBVIOUS
  <2> QED BY <2>1, <1>0
<1>2. ASSUME NEW n \in 1..N, n - 1 \in Good PROVE n \in Good
  <2>1. After(c, list, n) = Op(c, After(c, list, n - 1), list[n])
    BY <1>0
  <2>2. After(c, list, n - 1) \in States[n - 1]
    BY <1>2
  <2> QED BY <2>1, <2>2
<1> HIDE DEF Good
<1>3. \A n \in 0..N : n \in Good
  BY <1>1, <1>2, Induction
<1>4. \A n \in 0..N : After(c, list, n) \in States[n]
  BY <1>3 DEF Good
<1>5. N \in 0..N
  OBVIOUS
<1> QED BY <1>0, <1>4, <1>5

(* A set that the first state is in and no step leaves holds every state, and *)
(* the fold.                                                                 *)
THEOREM Stays ==
    ASSUME NEW c, NEW list, NEW N \in Nat, DOMAIN list = 1..N,
           NEW States, Base(c) \in States,
           \A n \in 1..N : \A x \in States : Op(c, x, list[n]) \in States
    PROVE  Fold(c, list) \in States /\ \A n \in 0..N : After(c, list, n) \in States
<1> DEFINE T == [n \in 0..N |-> States]
<1>1. N \in 0..N /\ 0 \in 0..N /\ \A n \in 1..N : n \in 0..N /\ n - 1 \in 0..N
  OBVIOUS
<1>2. T[N] = States /\ T[0] = States /\ \A n \in 0..N : T[n] = States
  BY <1>1
<1>3. \A n \in 1..N : T[n] = States /\ T[n - 1] = States
  BY <1>1, <1>2
<1> HIDE DEF T
<1>4. \A n \in 1..N : \A x \in T[n - 1] : Op(c, x, list[n]) \in T[n]
  BY <1>3
<1>5. Fold(c, list) \in T[N] /\ \A n \in 0..N : After(c, list, n) \in T[n]
  BY <1>2, <1>4, Passes
<1> QED BY <1>2, <1>5
===============================================================================
