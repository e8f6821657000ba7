----------------------------- MODULE FoldProofs -----------------------------
(***************************************************************************)
(* Folds over sequences, as the community modules define them: a function  *)
(* of the sets of positions that are left, which takes the last position   *)
(* of a set away.  A fold is the last of what it computes after each       *)
(* element of the sequence (FoldAccumulates), so that a property of it can *)
(* be proved by induction on the position (NatSetInduction).               *)
(*                                                                         *)
(* Op and Last are parameters, since a lemma cannot be applied to an       *)
(* operator; a module that folds makes an instance for each of its steps.  *)
(***************************************************************************)
EXTENDS Integers, WellFoundedInduction, TLAPS

CONSTANTS Op(_, _), Last(_)

(* The function by which a fold over 1 .. n is defined.                    *)
Iterates(f, base, seq, n) ==
  f = [s \in SUBSET (1 .. n) |->
         IF s = {} THEN base ELSE Op(f[s \ {Last(s)}], seq[Last(s)])]

(* What has been computed after each element.                              *)
Accumulates(acc, base, seq, n) ==
  /\ acc[0] = base
  /\ \A i \in 1 .. n : acc[i] = Op(acc[i - 1], seq[i])

LastIsGreatest(n) ==
  \A s \in SUBSET (1 .. n) : s # {} => Last(s) \in s /\ \A x \in s : x <= Last(s)

(* Induction, for a set instead of a predicate.                            *)
LEMMA NatSetInduction ==
  ASSUME NEW S, 0 \in S, \A n \in Nat : n \in S => n + 1 \in S
  PROVE  Nat \subseteq S
<1> DEFINE T == Nat \ S
           less == OpToRel(<, Nat)
<1> SUFFICES ASSUME T # {} PROVE FALSE
  OBVIOUS
<1>1. \A x, y \in Nat : <<x, y>> \in less <=> x < y
  BY DEF OpToRel
<1>2. IsWellFoundedOn(less, Nat)
  BY NatLessThanWellFounded
<1> HIDE DEF less
<1>3. PICK x \in T : \A y \in T : ~ (<<y, x>> \in less)
  <2> HIDE DEF T
  <2>1. T \subseteq Nat
    BY DEF T
  <2> QED BY <1>2, <2>1, WFMin
<1>4. x # 0 /\ x - 1 \in Nat /\ x - 1 \in T
  OBVIOUS
<1>5. <<x - 1, x>> \in less
  BY <1>1, <1>4
<1> QED BY <1>3, <1>4, <1>5

(* The recursive definition of a fold defines a function.                  *)
LEMMA FoldExists ==
  ASSUME NEW base, NEW seq, NEW n \in Nat, LastIsGreatest(n)
  PROVE  \E f : Iterates(f, base, seq, n)
<1> DEFINE Defined == {m \in Nat : m <= n => \E f : Iterates(f, base, seq, m)}
<1>1. 0 \in Defined
  <2> DEFINE f == [s \in SUBSET (1 .. 0) |-> base]
  <2>1. \A s \in SUBSET (1 .. 0) : s = {}
    OBVIOUS
  <2>2. Iterates(f, base, seq, 0)
    BY <2>1 DEF Iterates
  <2> HIDE DEF f
  <2> QED BY <2>2
<1>2. ASSUME NEW m \in Nat, m \in Defined PROVE m + 1 \in Defined
  <2> SUFFICES ASSUME m + 1 <= n PROVE \E f : Iterates(f, base, seq, m + 1)
    OBVIOUS
  <2>1. PICK f : Iterates(f, base, seq, m)
    BY <1>2
  <2> DEFINE g == [s \in SUBSET (1 .. m + 1) |->
                     IF s = {} THEN base ELSE Op(f[s \ {Last(s)}], seq[Last(s)])]
  <2>2. \A s \in SUBSET (1 .. m + 1) : s # {} => s \ {Last(s)} \in SUBSET (1 .. m)
    <3> HIDE DEF Defined, g
    <3> SUFFICES ASSUME NEW s \in SUBSET (1 .. m + 1), s # {} PROVE s \ {Last(s)} \in SUBSET (1 .. m)
      OBVIOUS
    <3>1. s \in SUBSET (1 .. n)
      OBVIOUS
    <3>2. Last(s) \in s /\ \A x \in s : x <= Last(s)
      BY <3>1 DEF LastIsGreatest
    <3>3. \A x \in s : x \in Int /\ 1 <= x /\ x <= m + 1
      OBVIOUS
    <3>4. ASSUME NEW x \in s, x # Last(s) PROVE x \in 1 .. m
      <4>1. x <= Last(s) /\ Last(s) \in Int /\ Last(s) <= m + 1 /\ x \in Int /\ 1 <= x
        BY <3>2, <3>3
      <4> QED BY <3>4, <4>1
    <3> QED BY <3>4
  <2>3. SUBSET (1 .. m) \subseteq SUBSET (1 .. m + 1)
    OBVIOUS
  <2>4. \A s \in SUBSET (1 .. m) : g[s] = f[s]
    BY <2>1, <2>3 DEF Iterates
  <2>5. \A s \in SUBSET (1 .. m + 1) :
          g[s] = IF s = {} THEN base ELSE Op(g[s \ {Last(s)}], seq[Last(s)])
    BY <2>2, <2>4
  <2>6. Iterates(g, base, seq, m + 1)
    BY <2>5 DEF Iterates
  <2> HIDE DEF g
  <2> QED BY <2>6
<1>3. n \in Defined
  <2> HIDE DEF Defined
  <2>1. Nat \subseteq Defined
    BY <1>1, <1>2, NatSetInduction
  <2> QED BY <2>1
<1> QED BY <1>3

(* The fold is what has been computed after the last element.             *)
LEMMA FoldAccumulates ==
  ASSUME NEW base, NEW seq, NEW n \in Nat, LastIsGreatest(n),
         NEW iter, Iterates(iter, base, seq, n)
  PROVE  \E acc : Accumulates(acc, base, seq, n) /\ acc[n] = iter[1 .. n]
<1> DEFINE acc == [i \in 0 .. n |-> iter[1 .. i]]
<1>1. \A i \in 0 .. n : acc[i] = iter[1 .. i]
  OBVIOUS
<1>2. \A s \in SUBSET (1 .. n) :
        iter[s] = IF s = {} THEN base ELSE Op(iter[s \ {Last(s)}], seq[Last(s)])
  BY DEF Iterates
<1> HIDE DEF acc
<1>3. acc[0] = base
  <2>1. 1 .. 0 = {} /\ 1 .. 0 \in SUBSET (1 .. n) /\ 0 \in 0 .. n
    OBVIOUS
  <2>2. iter[1 .. 0] = base
    BY <1>2, <2>1
  <2> QED BY <1>1, <2>1, <2>2
<1>4. ASSUME NEW i \in 1 .. n PROVE acc[i] = Op(acc[i - 1], seq[i])
  <2> DEFINE u == 1 .. i
  <2>1. u \in SUBSET (1 .. n) /\ i \in u /\ i - 1 \in 0 .. n /\ i \in 0 .. n
    OBVIOUS
  <2>2. \A x \in u : x \in Int /\ x <= i
    OBVIOUS
  <2>3. u \ {i} = 1 .. (i - 1)
    OBVIOUS
  <2>4. acc[i] = iter[u] /\ acc[i - 1] = iter[u \ {i}]
    BY <1>1, <2>1, <2>3
  <2> HIDE DEF u
  <2>5. Last(u) \in u /\ \A x \in u : x <= Last(u)
    BY <2>1 DEF LastIsGreatest
  <2>6. Last(u) \in Int /\ i <= Last(u) /\ Last(u) <= i
    BY <2>1, <2>2, <2>5
  <2>7. Last(u) = i
    BY <2>6
  <2>8. iter[u] = Op(iter[u \ {i}], seq[i])
    BY <1>2, <2>1, <2>7
  <2> QED BY <2>4, <2>8
<1>5. acc[n] = iter[1 .. n]
  BY <1>1
<1>6. Accumulates(acc, base, seq, n)
  BY <1>3, <1>4 DEF Accumulates
<1> QED BY <1>5, <1>6
=============================================================================
