------------------------------- MODULE Bounds -------------------------------
(***************************************************************************)
(* Least and greatest elements of sets of naturals, and the loops of       *)
(* TextScan, which are made from them.                                     *)
(***************************************************************************)
EXTENDS TextScan, WellFoundedInduction, TLAPS

LEMMA MinIsLeast ==
  ASSUME NEW S \in SUBSET Nat, S # {}
  PROVE  Min(S) \in S /\ \A x \in S : Min(S) <= x
<1>1. PICK x \in S : \A y \in S : ~ (<<y, x>> \in OpToRel(<, Nat))
  BY NatLessThanWellFounded, WFMin
<1>2. ASSUME NEW y \in S PROVE ~ (y < x)
  <2>1. <<y, x>> \in Nat \X Nat
    OBVIOUS
  <2>2. <<y, x>>[1] = y /\ <<y, x>>[2] = x
    OBVIOUS
  <2>3. ASSUME y < x PROVE <<y, x>> \in OpToRel(<, Nat)
    BY <2>1, <2>2, <2>3, Zenon DEF OpToRel
  <2> QED BY <1>1, <2>3
<1>3. \A y \in S : x <= y
  BY <1>2
<1> QED BY <1>3 DEF Min

LEMMA MaxIsGreatest ==
  ASSUME NEW b \in Nat, NEW S \in SUBSET (0 .. b), S # {}
  PROVE  Max(S) \in S /\ \A x \in S : x <= Max(S)
<1> DEFINE T == { b - x : x \in S }
<1>1. T \in SUBSET Nat /\ T # {}
  <2>1. \A x \in S : b - x \in Nat
    OBVIOUS
  <2>2. PICK x \in S : TRUE
    OBVIOUS
  <2>3. b - x \in T
    OBVIOUS
  <2> QED BY <2>1, <2>3
<1>2. Min(T) \in T /\ \A t \in T : Min(T) <= t
  BY <1>1, MinIsLeast
<1>3. PICK m \in S : Min(T) = b - m
  BY <1>2
<1>4. \A x \in S : m >= x
  BY <1>2, <1>3
<1> QED BY <1>4 DEF Max

(***************************************************************************)
(* Induction up to a bound: a set that holds 0 and the successor of each   *)
(* of its elements below the bound.                                        *)
(***************************************************************************)
LEMMA UpTo ==
  ASSUME NEW b \in Nat, NEW S, 0 \in S, \A n \in 0 .. b - 1 : n \in S => n + 1 \in S
  PROVE  0 .. b \subseteq S
<1> DEFINE T == { n \in 0 .. b : n \notin S }
<1> SUFFICES ASSUME T # {} PROVE FALSE
  OBVIOUS
<1>1. T \in SUBSET Nat
  OBVIOUS
<1>2. Min(T) \in T /\ \A n \in T : Min(T) <= n
  BY <1>1, MinIsLeast
<1>3. PICK m \in 0 .. b : m = Min(T) /\ m \notin S
  BY <1>2
<1>4. m # 0 /\ m - 1 \in 0 .. b - 1
  BY <1>3
<1>5. m - 1 \in S
  BY <1>2, <1>3, <1>4
<1> QED BY <1>3, <1>4, <1>5

(***************************************************************************)
(* What the loops of TextScan return, for every text.                      *)
(***************************************************************************)
LEMMA SkipOverStops ==
  ASSUME NEW s, Len(s) \in Nat, NEW p \in 1 .. Len(s) + 1, NEW C
  PROVE  /\ SkipOver(s, p, C) \in p .. Len(s) + 1
         /\ \A k \in p .. SkipOver(s, p, C) - 1 : s[k] \in C
         /\ SkipOver(s, p, C) <= Len(s) => s[SkipOver(s, p, C)] \notin C
<1> DEFINE S == { m \in p .. Len(s) + 1 : m <= Len(s) => s[m] \notin C }
<1>1. S \in SUBSET Nat /\ Len(s) + 1 \in S
  OBVIOUS
<1>2. Min(S) \in S /\ \A x \in S : Min(S) <= x
  BY <1>1, MinIsLeast
<1>3. SkipOver(s, p, C) = Min(S)
  BY DEF SkipOver
<1> HIDE DEF S
<1>4. Min(S) \in p .. Len(s) + 1 /\ (Min(S) <= Len(s) => s[Min(S)] \notin C)
  BY <1>2 DEF S
<1>5. ASSUME NEW k \in p .. Min(S) - 1 PROVE s[k] \in C
  <2>1. k \notin S
    BY <1>2, <1>4
  <2>2. k \in p .. Len(s) + 1
    BY <1>4
  <2> QED BY <2>1, <2>2 DEF S
<1> QED BY <1>3, <1>4, <1>5

LEMMA SkipToStops ==
  ASSUME NEW s, Len(s) \in Nat, NEW p \in 1 .. Len(s) + 1, NEW C
  PROVE  /\ SkipTo(s, p, C) \in p .. Len(s) + 1
         /\ \A k \in p .. SkipTo(s, p, C) - 1 : s[k] \notin C
         /\ SkipTo(s, p, C) <= Len(s) => s[SkipTo(s, p, C)] \in C
<1> DEFINE S == { m \in p .. Len(s) + 1 : m <= Len(s) => s[m] \in C }
<1>1. S \in SUBSET Nat /\ Len(s) + 1 \in S
  OBVIOUS
<1>2. Min(S) \in S /\ \A x \in S : Min(S) <= x
  BY <1>1, MinIsLeast
<1>3. SkipTo(s, p, C) = Min(S)
  BY DEF SkipTo
<1> HIDE DEF S
<1>4. Min(S) \in p .. Len(s) + 1 /\ (Min(S) <= Len(s) => s[Min(S)] \in C)
  BY <1>2 DEF S
<1>5. ASSUME NEW k \in p .. Min(S) - 1 PROVE s[k] \notin C
  <2>1. k \notin S
    BY <1>2, <1>4
  <2>2. k \in p .. Len(s) + 1
    BY <1>4
  <2> QED BY <2>1, <2>2 DEF S
<1> QED BY <1>3, <1>4, <1>5

LEMMA IsInside ==
  ASSUME NEW s, NEW p, NEW c, Is(s, p, c) PROVE p \in 1 .. Len(s)
BY DEF Is

\* A text that reads w at p is as long as that.
LEMMA ReadsInside ==
  ASSUME NEW s, NEW p, NEW w, NEW n \in 1 .. Len(w), Reads(s, p, w)
  PROVE  p + n - 1 \in 1 .. Len(s)
BY DEF Reads, Is

LEMMA ReadsTwo ==
  ASSUME NEW s, Len(s) \in Nat, NEW p \in Nat, NEW a, NEW b, Reads(s, p, <<a, b>>)
  PROVE  p + 2 <= Len(s) + 1
<1>1. 2 \in 1 .. Len(<<a, b>>)
  OBVIOUS
<1>2. p + 2 - 1 \in 1 .. Len(s)
  BY <1>1, ReadsInside, Zenon
<1> QED BY <1>2
=============================================================================
