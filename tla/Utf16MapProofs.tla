--------------------------- MODULE Utf16MapProofs ---------------------------
(***************************************************************************)
(* Proofs about Utf16Map, for every UTF-8 text.                            *)
(***************************************************************************)
EXTENDS Utf16Map, Bounds, FiniteSetTheorems, SequenceTheorems

\* Counts and boundaries of a text s; those of Utf16Map are of source.
LeadsOf(s, p) == { n \in 1 .. p : s[n] # "continuation" }
PairsOf(s, p) == { n \in 1 .. p : s[n] = "four" }
UnitsOf(s, p) == Cardinality(LeadsOf(s, p)) + Cardinality(PairsOf(s, p))
BoundariesOf(s) == { p \in 0 .. Len(s) : p < Len(s) => s[p + 1] # "continuation" }

LEMMA OfSource ==
  /\ Boundaries = BoundariesOf(source)
  /\ \A p : UnitsAt(p) = UnitsOf(source, p)
BY DEF Boundaries, BoundariesOf, UnitsAt, UnitsOf, Leads, LeadsOf, Pairs, PairsOf

(***************************************************************************)
(* Counting.                                                               *)
(***************************************************************************)
LEMMA CountType ==
  ASSUME NEW s, NEW p \in Nat
  PROVE  /\ IsFiniteSet(LeadsOf(s, p)) /\ IsFiniteSet(PairsOf(s, p))
         /\ Cardinality(LeadsOf(s, p)) \in Nat /\ Cardinality(PairsOf(s, p)) \in Nat
         /\ UnitsOf(s, p) \in Nat
<1>1. IsFiniteSet(1 .. p)
  BY FS_Interval
<1>2. LeadsOf(s, p) \in SUBSET (1 .. p) /\ PairsOf(s, p) \in SUBSET (1 .. p)
  BY DEF LeadsOf, PairsOf
<1>3. IsFiniteSet(LeadsOf(s, p)) /\ IsFiniteSet(PairsOf(s, p))
  BY <1>1, <1>2, FS_Subset
<1>4. Cardinality(LeadsOf(s, p)) \in Nat /\ Cardinality(PairsOf(s, p)) \in Nat
  BY <1>3, FS_CardinalityType
<1> QED BY <1>3, <1>4 DEF UnitsOf

LEMMA CountZero == ASSUME NEW s PROVE UnitsOf(s, 0) = 0
<1>1. LeadsOf(s, 0) = {} /\ PairsOf(s, 0) = {}
  BY DEF LeadsOf, PairsOf
<1> QED BY <1>1, FS_EmptySet DEF UnitsOf

\* A character adds its units, and there is no boundary inside of it.
LEMMA CountStep ==
  ASSUME NEW s, IsUtf8(s), NEW p \in BoundariesOf(s), p < Len(s)
  PROVE  /\ Width(s[p + 1]) \in 1 .. 4
         /\ p + Width(s[p + 1]) \in BoundariesOf(s)
         /\ UnitsOf(s, p + Width(s[p + 1])) = UnitsOf(s, p) + Units(s[p + 1])
         /\ \A r \in BoundariesOf(s) : r < p + Width(s[p + 1]) => r <= p
<1> DEFINE b == s[p + 1]
           q == p + Width(b)
<1>1. p \in Nat /\ p + 1 \in 1 .. Len(s) /\ b # "continuation" /\ Len(s) \in Nat
  BY DEF BoundariesOf, IsUtf8
<1>2. Width(b) \in 1 .. 4
  BY DEF Width
<1>3. /\ q <= Len(s)
      /\ \A k \in p + 2 .. q : s[k] = "continuation"
      /\ q < Len(s) => s[q + 1] # "continuation"
  <2>1. /\ p + 1 + Width(b) <= Len(s) + 1
        /\ \A k \in p + 1 + 1 .. p + 1 + Width(b) - 1 : s[k] = "continuation"
        /\ p + 1 + Width(b) <= Len(s) => s[p + 1 + Width(b)] # "continuation"
    BY <1>1 DEF IsUtf8
  <2> HIDE DEF b
  <2>2. p + 1 + Width(b) = q + 1 /\ p + 1 + Width(b) - 1 = q /\ p + 1 + 1 = p + 2
    BY <1>1, <1>2
  <2>3. \A k \in p + 2 .. q : s[k] = "continuation"
    BY <2>1, <2>2
  <2>4. q <= Len(s)
    BY <2>1, <2>2, <1>1, <1>2
  <2> QED BY <2>1, <2>2, <2>3, <2>4, <1>1, <1>2
<1> HIDE DEF b
<1>4. q \in BoundariesOf(s)
  BY <1>1, <1>2, <1>3 DEF BoundariesOf
<1>5. \A r \in BoundariesOf(s) : r < q => r <= p
  BY <1>1, <1>2, <1>3 DEF BoundariesOf
<1>6. LeadsOf(s, q) = LeadsOf(s, p) \cup {p + 1} /\ p + 1 \notin LeadsOf(s, p)
  <2>1. ASSUME NEW n \in LeadsOf(s, q) PROVE n \in LeadsOf(s, p) \cup {p + 1}
    BY <1>1, <1>2, <1>3 DEF LeadsOf
  <2>2. p + 1 \in LeadsOf(s, q)
    BY <1>1, <1>2 DEF LeadsOf, b
  <2>3. LeadsOf(s, p) \subseteq LeadsOf(s, q)
    BY <1>1, <1>2 DEF LeadsOf
  <2>4. p + 1 \notin LeadsOf(s, p)
    BY <1>1 DEF LeadsOf
  <2> QED BY <2>1, <2>2, <2>3, <2>4
<1>7. /\ b = "four" => PairsOf(s, q) = PairsOf(s, p) \cup {p + 1}
      /\ b # "four" => PairsOf(s, q) = PairsOf(s, p)
  <2>1. PairsOf(s, q) \subseteq PairsOf(s, p) \cup {p + 1}
    BY <1>1, <1>2, <1>3 DEF PairsOf
  <2>2. p + 1 \in PairsOf(s, q) <=> b = "four"
    BY <1>1, <1>2 DEF PairsOf, b
  <2>3. PairsOf(s, p) \subseteq PairsOf(s, q)
    BY <1>1, <1>2 DEF PairsOf
  <2>4. CASE b = "four"
    BY <2>1, <2>2, <2>3, <2>4
  <2>5. CASE b # "four"
    BY <2>1, <2>2, <2>3, <2>5
  <2> QED BY <2>4, <2>5
<1>8. p + 1 \notin PairsOf(s, p)
  BY <1>1 DEF PairsOf
<1>9. Cardinality(LeadsOf(s, q)) = Cardinality(LeadsOf(s, p)) + 1
  BY <1>1, <1>6, CountType, FS_AddElement
<1>10. Cardinality(PairsOf(s, q)) = Cardinality(PairsOf(s, p)) + (IF b = "four" THEN 1 ELSE 0)
  <2>1. CASE b = "four"
    BY <2>1, <1>1, <1>7, <1>8, CountType, FS_AddElement
  <2>2. CASE b # "four"
    BY <2>2, <1>1, <1>7, CountType
  <2> QED BY <2>1, <2>2
<1>11. UnitsOf(s, q) = UnitsOf(s, p) + Units(b)
  BY <1>1, <1>9, <1>10, CountType DEF UnitsOf, Units
<1> QED BY <1>2, <1>4, <1>5, <1>11 DEF b

LEMMA CountGrows ==
  ASSUME NEW s, NEW p \in Nat, NEW q \in Nat, p <= q
  PROVE  UnitsOf(s, p) <= UnitsOf(s, q)
<1>1. LeadsOf(s, p) \in SUBSET LeadsOf(s, q) /\ PairsOf(s, p) \in SUBSET PairsOf(s, q)
  BY DEF LeadsOf, PairsOf
<1>2. /\ Cardinality(LeadsOf(s, p)) <= Cardinality(LeadsOf(s, q))
      /\ Cardinality(PairsOf(s, p)) <= Cardinality(PairsOf(s, q))
  BY <1>1, CountType, FS_Subset
<1> QED BY <1>2, CountType DEF UnitsOf

\* Two boundaries differ in their units.
LEMMA CountIncreases ==
  ASSUME NEW s, NEW p \in BoundariesOf(s), NEW q \in 0 .. Len(s), p < q, Len(s) \in Nat
  PROVE  UnitsOf(s, p) < UnitsOf(s, q)
<1>1. p \in Nat /\ q \in Nat /\ p + 1 \in 1 .. q /\ s[p + 1] # "continuation"
  BY DEF BoundariesOf
<1>2. p + 1 \in LeadsOf(s, q) /\ p + 1 \notin LeadsOf(s, p)
  BY <1>1 DEF LeadsOf
<1>3. LeadsOf(s, p) \in SUBSET LeadsOf(s, q) /\ PairsOf(s, p) \in SUBSET PairsOf(s, q)
  BY <1>1 DEF LeadsOf, PairsOf
<1>4. Cardinality(LeadsOf(s, p)) <= Cardinality(LeadsOf(s, q))
      /\ Cardinality(LeadsOf(s, p)) # Cardinality(LeadsOf(s, q))
  BY <1>1, <1>2, <1>3, CountType, FS_Subset
<1>5. Cardinality(PairsOf(s, p)) <= Cardinality(PairsOf(s, q))
  BY <1>1, <1>3, CountType, FS_Subset
<1> QED BY <1>1, <1>4, <1>5, CountType DEF UnitsOf

\* Bytes inside a character count as its end.
LEMMA CountInside ==
  ASSUME NEW s, NEW p \in 0 .. Len(s), NEW q \in 0 .. Len(s), Len(s) \in Nat, p <= q,
         \A r \in BoundariesOf(s) : r < q => r < p
  PROVE  UnitsOf(s, p) = UnitsOf(s, q)
<1>1. ASSUME NEW n \in p + 1 .. q PROVE s[n] = "continuation"
  <2>1. n - 1 \in 0 .. Len(s) /\ n - 1 < q /\ ~ (n - 1 < p) /\ n - 1 + 1 = n
    OBVIOUS
  <2>2. n - 1 \notin BoundariesOf(s)
    BY <2>1
  <2> QED BY <2>1, <2>2 DEF BoundariesOf
<1>2. LeadsOf(s, p) = LeadsOf(s, q) /\ PairsOf(s, p) = PairsOf(s, q)
  BY <1>1 DEF LeadsOf, PairsOf
<1> QED BY <1>2 DEF UnitsOf

LEMMA CountAscii ==
  ASSUME NEW s, Len(s) \in Nat, \A k \in 1 .. Len(s) : s[k] \in {"newline", "ascii"},
         NEW p \in 0 .. Len(s)
  PROVE  UnitsOf(s, p) = p /\ p \in BoundariesOf(s)
<1>1. LeadsOf(s, p) = 1 .. p /\ PairsOf(s, p) = {}
  BY DEF LeadsOf, PairsOf
<1>2. Cardinality(1 .. p) = p
  BY FS_Interval
<1>3. UnitsOf(s, p) = p
  BY <1>1, <1>2, FS_EmptySet DEF UnitsOf
<1>4. p \in BoundariesOf(s)
  BY DEF BoundariesOf
<1> QED BY <1>3, <1>4

(***************************************************************************)
(* The inductive invariant.                                                *)
(***************************************************************************)
\* Build and walk stand on a boundary, and have counted its units.
Here == pos \in BoundariesOf(source) /\ units = UnitsOf(source, pos)

\* The bytes build has read.
Scanned == IF task = "build" THEN pos ELSE Len(source)

\* A mark is where it says, and behind those before it; every newline read
\* has one.
MarksRight ==
  /\ Len(starts) >= 1 /\ starts[1].byte = 0 /\ starts[1].unit = 0
  /\ \A n \in 1 .. Len(starts) :
       starts[n].byte \in BoundariesOf(source) /\ starts[n].unit = UnitsOf(source, starts[n].byte)

MarksOrdered ==
  /\ \A m, n \in 1 .. Len(starts) : m <= n => starts[m].byte <= starts[n].byte
  /\ task = "build" => \A n \in 1 .. Len(starts) : starts[n].byte <= pos

MarksAll ==
  \A k \in 1 .. Scanned : source[k] = "newline" => \E n \in 1 .. Len(starts) : starts[n].byte = k

AsciiRight == isAscii => \A k \in 1 .. Scanned : source[k] \in {"newline", "ascii"}

TotalRight == task # "build" => total = UnitsOf(source, Len(source))

\* Is p before what is asked for?
Before(p) == IF asked = "byte" THEN p < target ELSE UnitsOf(source, p) < target

\* A walk has passed only what is before its target, and no line starts
\* between where it is and its target.
WalkRight ==
  task = "walk" =>
    /\ asked # "none"
    /\ asked = "byte" => target < Len(source)
    /\ \A p \in BoundariesOf(source) : p < pos => Before(p)
    /\ \A n \in 1 .. Len(starts) :
         starts[n].byte > pos => IF asked = "byte" THEN starts[n].byte > target ELSE starts[n].unit > target

\* What a lookup returned for an offset.
UnitsGiven(offset, u) == u = UnitsOf(source, Clamped(offset))
ByteGiven(offset, b) ==
  /\ offset <= UnitsOf(source, Len(source)) =>
       /\ b \in BoundariesOf(source)
       /\ UnitsOf(source, b) >= offset
       /\ \A p \in BoundariesOf(source) : p < b => UnitsOf(source, p) < offset
  /\ offset > UnitsOf(source, Len(source)) => b >= Len(source)

AnswerRight ==
  answer # NoOffset =>
    /\ task = "idle"
    /\ asked = "byte" => UnitsGiven(target, answer)
    /\ asked = "unit" => ByteGiven(target, answer)

\* What is translated back is what the lookup before returned.
OriginRight ==
  origin # NoOffset =>
    /\ asked = "unit" => UnitsGiven(origin, target)
    /\ asked = "byte" => ByteGiven(origin, target)

IInv ==
  /\ TypeOK
  /\ Here /\ MarksRight /\ MarksOrdered /\ MarksAll /\ AsciiRight /\ TotalRight
  /\ WalkRight /\ AnswerRight /\ OriginRight

LEMMA SourceFacts ==
  ASSUME source \in Sources
  PROVE  /\ IsUtf8(source) /\ Len(source) \in Nat /\ source \in Seq(Bytes)
         /\ 0 \in BoundariesOf(source) /\ Len(source) \in BoundariesOf(source)
         /\ \A p \in BoundariesOf(source) : p \in Nat /\ p <= Len(source)
<1>1. IsUtf8(source) /\ Len(source) \in Nat /\ source \in Seq(Bytes)
  BY SourcesAssumption DEF IsUtf8
<1>2. 0 \in BoundariesOf(source)
  <2>1. 0 < Len(source) => source # <<>>
    BY <1>1
  <2> QED BY <1>1, <2>1 DEF IsUtf8, BoundariesOf
<1> QED BY <1>1, <1>2 DEF BoundariesOf

LEMMA InitInv == Init => IInv
<1> SUFFICES ASSUME Init PROVE IInv
  OBVIOUS
<1> USE DEF Init
<1>1. TypeOK
  BY DEF TypeOK, NoOffset
<1>2. UnitsOf(source, 0) = 0
  BY CountZero
<1>3. Here
  BY <1>2, SourceFacts DEF Here
<1>4. MarksRight
  BY <1>2, SourceFacts DEF MarksRight
<1>5. MarksOrdered /\ MarksAll /\ AsciiRight
  BY DEF MarksOrdered, MarksAll, AsciiRight, Scanned
<1> QED BY <1>1, <1>3, <1>4, <1>5 DEF IInv, TotalRight, WalkRight, AnswerRight, OriginRight

LEMMA MarkType ==
  ASSUME starts \in Seq([byte : Nat, unit : Nat])
  PROVE  \A n \in 1 .. Len(starts) : starts[n].byte \in Nat /\ starts[n].unit \in Nat
<1>1. \A n \in 1 .. Len(starts) : starts[n] \in [byte : Nat, unit : Nat]
  BY ElementOfSeq
<1> QED BY <1>1

\* One character on, for build and for a walk.
LEMMA AdvanceKeeps ==
  ASSUME IInv, Advance, source' = source, pos < Len(source)
  PROVE  /\ Here' /\ pos' \in Nat /\ units' \in Nat /\ pos < pos'
         /\ \A p \in BoundariesOf(source) : p < pos' => p <= pos
<1>1. IsUtf8(source) /\ pos \in BoundariesOf(source) /\ units = UnitsOf(source, pos)
  BY SourceFacts DEF IInv, TypeOK, Here
<1>2. /\ Width(head) \in 1 .. 4
      /\ pos + Width(head) \in BoundariesOf(source)
      /\ UnitsOf(source, pos + Width(head)) = UnitsOf(source, pos) + Units(head)
      /\ \A r \in BoundariesOf(source) : r < pos + Width(head) => r <= pos
  BY <1>1, CountStep DEF head
<1>3. pos' = pos + Width(head) /\ units' = UnitsOf(source, pos')
  BY <1>1, <1>2 DEF Advance
<1>4. pos \in Nat /\ pos' \in Nat /\ pos < pos' /\ units' \in Nat
  BY <1>2, <1>3, CountType DEF IInv, TypeOK
<1>5. Here'
  BY <1>2, <1>3 DEF Here
<1> QED BY <1>2, <1>3, <1>4, <1>5

\* The bytes a character adds to those build has read, after the first,
\* are continuations.
LEMMA AdvanceReads ==
  ASSUME IInv, Advance, source' = source, pos < Len(source),
         NEW k \in 1 .. pos', source[k] # "continuation"
  PROVE  k \in 1 .. pos + 1
<1>1. Len(source) \in Nat /\ pos \in Nat /\ pos' \in Nat /\ pos' <= Len(source)
  BY AdvanceKeeps, SourceFacts DEF IInv, TypeOK, Here
<1>2. k - 1 \in BoundariesOf(source) /\ k - 1 < pos'
  BY <1>1 DEF BoundariesOf
<1>3. k - 1 <= pos
  BY <1>2, AdvanceKeeps
<1> QED BY <1>1, <1>3

LEMMA NewlineInv == IInv /\ Newline => IInv'
<1> SUFFICES ASSUME IInv, Newline PROVE IInv'
  OBVIOUS
<1> USE DEF Newline
<1>1. /\ Here' /\ pos' \in Nat /\ units' \in Nat
      /\ pos \in Nat /\ Len(source) \in Nat /\ pos < Len(source)
      /\ starts \in Seq([byte : Nat, unit : Nat])
  BY AdvanceKeeps, SourceFacts DEF IInv, TypeOK
<1>2. pos' = pos + 1 /\ units' = units + 1 /\ units \in Nat
  BY <1>1 DEF Advance, Width, Units, IInv, TypeOK
<1>3. /\ Len(starts') = Len(starts) + 1
      /\ starts' \in Seq([byte : Nat, unit : Nat])
      /\ starts'[Len(starts) + 1] = [byte |-> pos', unit |-> units']
      /\ \A n \in 1 .. Len(starts) : starts'[n] = starts[n]
  BY <1>1, <1>2
<1>4. TypeOK'
  BY <1>1, <1>3 DEF IInv, TypeOK
<1>5. MarksRight'
  <2>1. ASSUME NEW n \in 1 .. Len(starts')
        PROVE  starts'[n].byte \in BoundariesOf(source) /\ starts'[n].unit = UnitsOf(source, starts'[n].byte)
    BY <1>1, <1>3, SMTT(20) DEF IInv, MarksRight, Here
  <2>2. Len(starts') >= 1 /\ starts'[1].byte = 0 /\ starts'[1].unit = 0
    BY <1>1, <1>3 DEF IInv, MarksRight
  <2> QED BY <2>1, <2>2 DEF MarksRight
<1>9. MarksOrdered'
  <2>1. /\ Len(starts) \in Nat
        /\ \A n \in 1 .. Len(starts) : starts[n].byte \in Nat /\ starts[n].byte <= pos
        /\ \A m, n \in 1 .. Len(starts) : m <= n => starts[m].byte <= starts[n].byte
    BY <1>1, MarkType, SMTT(20) DEF IInv, MarksOrdered
  <2>2. starts'[Len(starts) + 1].byte = pos'
    BY <1>3
  <2>3. \A n \in 1 .. Len(starts') : n \in 1 .. Len(starts) \/ n = Len(starts) + 1
    BY <1>3, <2>1
  <2>4. \A n \in 1 .. Len(starts') : starts'[n].byte <= pos'
    BY <1>1, <1>2, <1>3, <2>1, <2>2, <2>3
  <2>5. \A m, n \in 1 .. Len(starts') : m <= n => starts'[m].byte <= starts'[n].byte
    BY <1>1, <1>2, <1>3, <2>1, <2>2, <2>3, <2>4
  <2> QED BY <2>4, <2>5 DEF MarksOrdered
<1>6. MarksAll'
  <2>1. ASSUME NEW k \in 1 .. pos', source[k] = "newline"
        PROVE  \E n \in 1 .. Len(starts') : starts'[n].byte = k
    <3>1. CASE k = pos'
      BY <3>1, <1>1, <1>3
    <3>2. CASE k \in 1 .. pos
      <4>1. PICK n \in 1 .. Len(starts) : starts[n].byte = k
        BY <3>2, <2>1 DEF IInv, MarksAll, Scanned
      <4>2. starts'[n] = starts[n]
        BY <1>3
      <4>3. n \in 1 .. Len(starts')
        <5>1. Len(starts) \in Nat
          BY <1>1
        <5> QED BY <5>1, <1>3
      <4> QED BY <4>1, <4>2, <4>3
    <3>3. k = pos' \/ k \in 1 .. pos
      <4>1. pos \in Nat /\ pos' = pos + 1
        BY <1>1, <1>2
      <4>2. k \in 1 .. pos + 1
        BY <4>1, <2>1
      <4> HIDE DEF Newline
      <4>3. k = pos + 1 \/ k \in 1 .. pos
        BY <4>1, <4>2
      <4> QED BY <4>1, <4>3
    <3> QED BY <3>1, <3>2, <3>3
  <2> QED BY <2>1 DEF MarksAll, Scanned
<1>7. AsciiRight'
  BY <1>1, <1>2 DEF IInv, AsciiRight, Scanned, head
<1>8. TotalRight' /\ WalkRight' /\ OriginRight' /\ AnswerRight'
  BY DEF IInv, TotalRight, WalkRight, OriginRight, AnswerRight, UnitsGiven, ByteGiven, Clamped
<1> QED BY <1>1, <1>4, <1>5, <1>6, <1>7, <1>8, <1>9 DEF IInv

LEMMA CharacterInv == IInv /\ Character => IInv'
<1> SUFFICES ASSUME IInv, Character PROVE IInv'
  OBVIOUS
<1> USE DEF Character
<1>1. /\ Here' /\ pos' \in Nat /\ units' \in Nat /\ pos < pos'
      /\ pos \in Nat /\ Len(source) \in Nat /\ pos < Len(source)
      /\ pos' <= Len(source) /\ source \in Seq(Bytes)
  BY AdvanceKeeps, SourceFacts DEF IInv, TypeOK, Here
<1>2. TypeOK'
  BY <1>1 DEF IInv, TypeOK
<1>3. MarksRight' /\ MarksOrdered'
  <2>1. \A n \in 1 .. Len(starts) : starts[n].byte \in Nat /\ starts[n].byte <= pos
    BY MarkType DEF IInv, TypeOK, MarksOrdered
  <2>2. \A n \in 1 .. Len(starts) : starts[n].byte <= pos'
    BY <2>1, <1>1
  <2> QED BY <2>2 DEF IInv, MarksRight, MarksOrdered
<1>4. MarksAll'
  <2>1. ASSUME NEW k \in 1 .. pos', source[k] = "newline"
        PROVE  \E n \in 1 .. Len(starts) : starts[n].byte = k
    <3>1. k \in 1 .. pos + 1
      BY <2>1, AdvanceReads
    <3>2. k # pos + 1
      BY <2>1 DEF head
    <3> QED BY <3>1, <3>2, <2>1, <1>1 DEF IInv, MarksAll, Scanned
  <2> QED BY <2>1 DEF MarksAll, Scanned
<1>5. AsciiRight'
  <2>1. ASSUME isAscii' PROVE pos' = pos + 1 /\ isAscii /\ source[pos + 1] = "ascii"
    BY <2>1, <1>1 DEF Advance, Width, head, IInv, TypeOK
  <2> QED BY <2>1, <1>1 DEF IInv, AsciiRight, Scanned
<1>6. TotalRight' /\ WalkRight' /\ OriginRight' /\ AnswerRight'
  BY DEF IInv, TotalRight, WalkRight, OriginRight, AnswerRight, UnitsGiven, ByteGiven, Clamped
<1> QED BY <1>1, <1>2, <1>3, <1>4, <1>5, <1>6 DEF IInv

LEMMA BuiltInv == IInv /\ Built => IInv'
<1> SUFFICES ASSUME IInv, Built PROVE IInv'
  OBVIOUS
<1> USE DEF Built
<1>1. pos = Len(source)
  BY SourceFacts DEF IInv, TypeOK, Here
<1>2. TypeOK'
  BY DEF IInv, TypeOK
<1>3. Here' /\ MarksRight' /\ MarksOrdered'
  BY DEF IInv, Here, MarksRight, MarksOrdered
<1>4. MarksAll' /\ AsciiRight'
  BY <1>1 DEF IInv, MarksAll, AsciiRight, Scanned
<1>5. TotalRight'
  BY <1>1 DEF IInv, TotalRight, Here
<1>6. WalkRight' /\ OriginRight' /\ AnswerRight'
  BY DEF IInv, WalkRight, OriginRight, AnswerRight, UnitsGiven, ByteGiven, Clamped
<1> QED BY <1>2, <1>3, <1>4, <1>5, <1>6 DEF IInv

(***************************************************************************)
(* Lookups.                                                                *)
(***************************************************************************)
\* The line a walk starts on is the last one that starts up to the offset.
LEMMA LineFound ==
  ASSUME IInv, NEW offset \in Nat
  PROVE  /\ LineOfByte(offset) \in 1 .. Len(starts)
         /\ starts[LineOfByte(offset)].byte <= offset
         /\ \A n \in 1 .. Len(starts) : n > LineOfByte(offset) => starts[n].byte > offset
         /\ LineOfUnit(offset) \in 1 .. Len(starts)
         /\ starts[LineOfUnit(offset)].unit <= offset
         /\ \A n \in 1 .. Len(starts) : n > LineOfUnit(offset) => starts[n].unit > offset
<1> DEFINE B == { n \in DOMAIN starts : starts[n].byte <= offset }
           U == { n \in DOMAIN starts : starts[n].unit <= offset }
<1>1. starts \in Seq([byte : Nat, unit : Nat]) /\ Len(starts) \in Nat /\ DOMAIN starts = 1 .. Len(starts)
  BY DEF IInv, TypeOK
<1>2. 1 \in B /\ 1 \in U
  BY <1>1 DEF IInv, MarksRight
<1>3. B \in SUBSET (0 .. Len(starts)) /\ U \in SUBSET (0 .. Len(starts)) /\ B # {} /\ U # {}
  BY <1>1, <1>2
<1>4. Max(B) \in B /\ \A n \in B : n <= Max(B)
  <2> HIDE DEF B
  <2> QED BY <1>1, <1>3, MaxIsGreatest
<1>5. Max(U) \in U /\ \A n \in U : n <= Max(U)
  <2> HIDE DEF U
  <2> QED BY <1>1, <1>3, MaxIsGreatest
<1>6. LineOfByte(offset) = Max(B) /\ LineOfUnit(offset) = Max(U)
  BY DEF LineOfByte, LineOfUnit
<1>7. \A n \in 1 .. Len(starts) : starts[n].byte \in Nat /\ starts[n].unit \in Nat
  BY <1>1, MarkType
<1>8. ASSUME NEW n \in 1 .. Len(starts), n > Max(B) PROVE starts[n].byte > offset
  <2>1. ~ (n <= Max(B))
    BY <1>1, <1>4, <1>8
  <2>2. n \notin B
    BY <1>4, <2>1
  <2> QED BY <1>1, <1>7, <2>2
<1>9. ASSUME NEW n \in 1 .. Len(starts), n > Max(U) PROVE starts[n].unit > offset
  <2>1. ~ (n <= Max(U))
    BY <1>1, <1>5, <1>9
  <2>2. n \notin U
    BY <1>5, <2>1
  <2> QED BY <1>1, <1>7, <2>2
<1>10. /\ Max(B) \in 1 .. Len(starts) /\ starts[Max(B)].byte <= offset
       /\ Max(U) \in 1 .. Len(starts) /\ starts[Max(U)].unit <= offset
  BY <1>1, <1>4, <1>5
<1> QED BY <1>6, <1>8, <1>9, <1>10

\* A lookup keeps what does not speak of it.
LEMMA MapKeeps ==
  ASSUME IInv, UNCHANGED map, task # "build", task' # "build"
  PROVE  MarksRight' /\ MarksOrdered' /\ MarksAll' /\ AsciiRight' /\ TotalRight'
BY DEF map, IInv, MarksRight, MarksOrdered, MarksAll, AsciiRight, TotalRight, Scanned

LEMMA WalkFromLine ==
  ASSUME IInv, UNCHANGED map, asked' \in {"byte", "unit"}, target' \in Nat,
         asked' = "byte" => target' < Len(source),
         NEW line \in 1 .. Len(starts), WalkFrom(line),
         IF asked' = "byte" THEN starts[line].byte <= target' ELSE starts[line].unit <= target',
         \A n \in 1 .. Len(starts) :
           n > line => IF asked' = "byte" THEN starts[n].byte > target' ELSE starts[n].unit > target'
  PROVE  Here' /\ WalkRight' /\ pos' \in Nat /\ units' \in Nat
<1> USE DEF WalkFrom
<1>1. /\ source' = source /\ starts' = starts /\ source \in Sources
      /\ \A n \in 1 .. Len(starts) : starts[n].byte \in Nat /\ starts[n].unit \in Nat
  BY MarkType DEF map, IInv, TypeOK
<1>2. /\ pos' = starts[line].byte /\ units' = starts[line].unit
      /\ pos' \in BoundariesOf(source) /\ units' = UnitsOf(source, pos')
      /\ pos' \in Nat /\ units' \in Nat
  BY <1>1 DEF IInv, MarksRight
<1>3. Here'
  BY <1>1, <1>2 DEF Here
<1>4. ASSUME NEW p \in BoundariesOf(source), p < pos'
      PROVE  IF asked' = "byte" THEN p < target' ELSE UnitsOf(source, p) < target'
  <2>1. p \in Nat /\ pos' \in 0 .. Len(source) /\ Len(source) \in Nat
    BY <1>1, <1>2, SourceFacts DEF BoundariesOf
  <2>2. UnitsOf(source, p) < UnitsOf(source, pos') /\ UnitsOf(source, p) \in Nat
    BY <2>1, <1>4, CountIncreases, CountType
  <2> QED BY <1>2, <1>4, <2>1, <2>2
<1>5. ASSUME NEW n \in 1 .. Len(starts), starts[n].byte > pos'
      PROVE  IF asked' = "byte" THEN starts[n].byte > target' ELSE starts[n].unit > target'
  <2>1. ~ (n <= line)
    BY <1>1, <1>2, <1>5 DEF IInv, MarksOrdered
  <2>2. n > line
    BY <2>1
  <2> QED BY <2>2
<1>6. WalkRight'
  <2>1. task' = "walk" /\ asked' # "none"
    OBVIOUS
  <2> QED BY <1>1, <1>4, <1>5, <2>1 DEF WalkRight, Before
<1> QED BY <1>2, <1>3, <1>6

LEMMA AsciiCounts ==
  ASSUME IInv, task = "idle", isAscii
  PROVE  /\ \A p \in 0 .. Len(source) : UnitsOf(source, p) = p /\ p \in BoundariesOf(source)
         /\ Len(source) \in Nat
<1>1. Len(source) \in Nat
  BY SourceFacts DEF IInv, TypeOK
<1>2. \A k \in 1 .. Len(source) : source[k] \in {"newline", "ascii"}
  BY DEF IInv, AsciiRight, Scanned
<1> QED BY <1>1, <1>2, CountAscii

\* What a lookup establishes; Ask and AskBack add what they know of origin.
LEMMA ByteLookup ==
  ASSUME IInv, task = "idle", UNCHANGED map, NEW offset \in Nat, ByteToUtf16(offset),
         origin' \in Nat \cup {NoOffset}
  PROVE  /\ TypeOK' /\ Here' /\ WalkRight' /\ AnswerRight' /\ task' # "build"
         /\ asked' = "byte" /\ target' = offset
<1> USE DEF ByteToUtf16
<1>1. source' = source /\ starts' = starts /\ source \in Sources /\ Len(source) \in Nat
      /\ asked' = "byte" /\ target' = offset /\ total = UnitsOf(source, Len(source)) /\ total \in Nat
  BY SourceFacts DEF map, IInv, TypeOK, TotalRight
<1>2. ASSUME NEW a \in Nat, Answer(a), a = UnitsOf(source, Clamped(offset))
      PROVE  TypeOK' /\ Here' /\ WalkRight' /\ AnswerRight' /\ task' # "build"
  <2>1. TypeOK'
    BY <1>1, <1>2 DEF Answer, map, IInv, TypeOK
  <2>2. Here' /\ WalkRight' /\ task' # "build"
    BY <1>1, <1>2 DEF Answer, IInv, Here, WalkRight
  <2>3. AnswerRight'
    BY <1>1, <1>2 DEF Answer, AnswerRight, UnitsGiven, Clamped
  <2> QED BY <2>1, <2>2, <2>3
<1>3. CASE offset >= Len(source) /\ Answer(total)
  BY <1>1, <1>2, <1>3 DEF Clamped
<1>4. CASE offset < Len(source) /\ isAscii /\ Answer(offset)
  BY <1>1, <1>2, <1>4, AsciiCounts DEF Clamped
<1>5. CASE offset < Len(source) /\ ~ isAscii /\ WalkFrom(LineOfByte(offset))
  <2>1. Here' /\ WalkRight' /\ pos' \in Nat /\ units' \in Nat
    BY <1>1, <1>5, LineFound, WalkFromLine
  <2>2. task' = "walk" /\ answer' = NoOffset
    BY <1>5 DEF WalkFrom
  <2>3. TypeOK'
    BY <1>1, <2>1, <2>2 DEF map, IInv, TypeOK
  <2> QED BY <1>1, <2>1, <2>2, <2>3 DEF AnswerRight
<1> QED BY <1>1, <1>3, <1>4, <1>5

LEMMA UnitLookup ==
  ASSUME IInv, task = "idle", UNCHANGED map, NEW offset \in Nat, Utf16ToByte(offset),
         origin' \in Nat \cup {NoOffset}
  PROVE  /\ TypeOK' /\ Here' /\ WalkRight' /\ AnswerRight' /\ task' # "build"
         /\ asked' = "unit" /\ target' = offset
<1> USE DEF Utf16ToByte
<1>1. source' = source /\ starts' = starts /\ source \in Sources /\ Len(source) \in Nat
      /\ asked' = "unit" /\ target' = offset
  BY SourceFacts DEF map, IInv, TypeOK
<1>2. CASE isAscii /\ Answer(offset)
  <2>1. TypeOK'
    BY <1>1, <1>2 DEF Answer, map, IInv, TypeOK
  <2>2. Here' /\ WalkRight' /\ task' # "build"
    BY <1>1, <1>2 DEF Answer, IInv, Here, WalkRight
  <2>3. ByteGiven(offset, offset)
    <3>1. UnitsOf(source, Len(source)) = Len(source)
      BY <1>1, <1>2, AsciiCounts
    <3>2. \A p \in BoundariesOf(source) : p \in 0 .. Len(source)
      BY DEF BoundariesOf
    <3> QED BY <1>1, <1>2, <3>1, <3>2, AsciiCounts DEF ByteGiven
  <2>4. AnswerRight'
    BY <1>1, <1>2, <2>3 DEF Answer, AnswerRight, ByteGiven
  <2> QED BY <1>1, <2>1, <2>2, <2>4
<1>3. CASE ~ isAscii /\ WalkFrom(LineOfUnit(offset))
  <2>1. Here' /\ WalkRight' /\ pos' \in Nat /\ units' \in Nat
    BY <1>1, <1>3, LineFound, WalkFromLine
  <2>2. task' = "walk" /\ answer' = NoOffset
    BY <1>3 DEF WalkFrom
  <2>3. TypeOK'
    BY <1>1, <2>1, <2>2 DEF map, IInv, TypeOK
  <2> QED BY <1>1, <2>1, <2>2, <2>3 DEF AnswerRight
<1> QED BY <1>2, <1>3

LEMMA AskInv == IInv /\ Ask => IInv'
<1> SUFFICES ASSUME IInv, Ask PROVE IInv'
  OBVIOUS
<1>1. /\ task = "idle" /\ UNCHANGED map /\ origin' = NoOffset /\ origin' \in Nat \cup {NoOffset}
      /\ Len(source) \in Nat /\ total \in Nat
  BY SourceFacts DEF Ask, IInv, TypeOK
<1>2. OriginRight'
  BY <1>1 DEF OriginRight
<1>3. TypeOK' /\ Here' /\ WalkRight' /\ AnswerRight' /\ task' # "build"
  <2>1. ASSUME NEW offset \in 0 .. Len(source) + 1, ByteToUtf16(offset)
        PROVE  TypeOK' /\ Here' /\ WalkRight' /\ AnswerRight' /\ task' # "build"
    BY <1>1, <2>1, ByteLookup
  <2>2. ASSUME NEW offset \in 0 .. total + 1, Utf16ToByte(offset)
        PROVE  TypeOK' /\ Here' /\ WalkRight' /\ AnswerRight' /\ task' # "build"
    BY <1>1, <2>2, UnitLookup
  <2> QED BY <2>1, <2>2 DEF Ask
<1> QED BY <1>1, <1>2, <1>3, MapKeeps DEF IInv

LEMMA AskBackInv == IInv /\ AskBack => IInv'
<1> SUFFICES ASSUME IInv, AskBack PROVE IInv'
  OBVIOUS
<1>1. /\ task = "idle" /\ UNCHANGED map /\ source' = source /\ task # "build"
      /\ origin' = target /\ origin' \in Nat \cup {NoOffset} /\ answer # NoOffset /\ answer \in Nat
  BY DEF AskBack, map, IInv, TypeOK
<1>2. CASE asked = "unit" /\ ByteToUtf16(answer)
  <2>1. /\ TypeOK' /\ Here' /\ WalkRight' /\ AnswerRight' /\ task' # "build"
        /\ asked' = "byte" /\ target' = answer
    BY <1>1, <1>2, ByteLookup
  <2>2. ByteGiven(target, answer)
    BY <1>1, <1>2 DEF IInv, AnswerRight
  <2>3. OriginRight'
    BY <1>1, <2>1, <2>2 DEF OriginRight, ByteGiven
  <2> QED BY <1>1, <2>1, <2>3, MapKeeps DEF IInv
<1>3. CASE asked = "byte" /\ Utf16ToByte(answer)
  <2>1. /\ TypeOK' /\ Here' /\ WalkRight' /\ AnswerRight' /\ task' # "build"
        /\ asked' = "unit" /\ target' = answer
    BY <1>1, <1>3, UnitLookup
  <2>2. UnitsGiven(target, answer)
    BY <1>1, <1>3 DEF IInv, AnswerRight
  <2>3. OriginRight'
    BY <1>1, <2>1, <2>2 DEF OriginRight, UnitsGiven, Clamped
  <2> QED BY <1>1, <2>1, <2>3, MapKeeps DEF IInv
<1> QED BY <1>2, <1>3 DEF AskBack

LEMMA WalkInv == IInv /\ Walk => IInv'
<1> SUFFICES ASSUME IInv, Walk PROVE IInv'
  OBVIOUS
<1>1. /\ task = "walk" /\ task' = "walk" /\ UNCHANGED <<map, asked, target, answer, origin>>
      /\ source' = source /\ starts' = starts /\ starts \in Seq([byte : Nat, unit : Nat])
      /\ pos < Len(source) /\ Advance /\ task' # "build"
      /\ IF asked = "byte" THEN pos < target ELSE units < target
  BY DEF Walk, Short, map, IInv, TypeOK
<1>2. /\ Here' /\ pos' \in Nat /\ units' \in Nat /\ pos < pos' /\ pos \in Nat
      /\ \A p \in BoundariesOf(source) : p < pos' => p <= pos
  BY <1>1, AdvanceKeeps DEF IInv, TypeOK
<1>3. TypeOK'
  BY <1>1, <1>2 DEF map, IInv, TypeOK
<1>4. MarksRight' /\ MarksOrdered' /\ MarksAll' /\ AsciiRight' /\ TotalRight'
  BY <1>1, MapKeeps
<1>5. WalkRight'
  <2>1. ASSUME NEW p \in BoundariesOf(source), p < pos'
        PROVE  IF asked = "byte" THEN p < target ELSE UnitsOf(source, p) < target
    <3>1. p < pos \/ p = pos
      BY <1>2, <2>1, SourceFacts DEF IInv, TypeOK
    <3> QED BY <1>1, <3>1 DEF IInv, WalkRight, Before, Here
  <2>2. ASSUME NEW n \in 1 .. Len(starts), starts[n].byte > pos'
        PROVE  IF asked = "byte" THEN starts[n].byte > target ELSE starts[n].unit > target
    <3>1. starts[n].byte > pos
      BY <1>1, <1>2, <2>2, MarkType
    <3> QED BY <1>1, <3>1 DEF IInv, WalkRight
  <2> QED BY <1>1, <2>1, <2>2 DEF IInv, WalkRight, Before
<1>6. AnswerRight' /\ OriginRight'
  BY <1>1 DEF IInv, AnswerRight, OriginRight, UnitsGiven, ByteGiven, Clamped
<1> QED BY <1>2, <1>3, <1>4, <1>5, <1>6 DEF IInv

LEMMA ArriveInv == IInv /\ Arrive => IInv'
<1> SUFFICES ASSUME IInv, Arrive PROVE IInv'
  OBVIOUS
<1>1. /\ task = "walk" /\ task' = "idle" /\ UNCHANGED <<map, pos, units, asked, target, origin>>
      /\ source' = source /\ source \in Sources /\ ~ Short
      /\ answer' = IF asked = "byte" THEN units ELSE pos
      /\ asked \in {"byte", "unit"} /\ target \in Nat /\ pos \in Nat /\ units \in Nat
  BY DEF Arrive, map, IInv, TypeOK, WalkRight
<1>2. /\ Len(source) \in Nat /\ pos \in 0 .. Len(source) /\ pos \in BoundariesOf(source)
      /\ units = UnitsOf(source, pos)
  BY <1>1, SourceFacts DEF IInv, Here
<1>3. TypeOK'
  BY <1>1 DEF map, IInv, TypeOK
<1>4. Here' /\ WalkRight' /\ MarksRight' /\ MarksOrdered' /\ MarksAll' /\ AsciiRight' /\ TotalRight'
  BY <1>1, MapKeeps DEF IInv, Here, WalkRight
<1>5. ASSUME asked = "byte" PROVE UnitsGiven(target, units)
  <2>1. target <= pos /\ target \in 0 .. Len(source)
    BY <1>1, <1>2, <1>5 DEF Short, IInv, WalkRight
  <2>2. \A r \in BoundariesOf(source) : r < pos => r < target
    BY <1>1, <1>5 DEF IInv, WalkRight, Before
  <2>3. UnitsOf(source, target) = UnitsOf(source, pos)
    BY <1>2, <2>1, <2>2, CountInside
  <2> QED BY <1>2, <2>1, <2>3 DEF UnitsGiven, Clamped
<1>6. ASSUME asked = "unit" PROVE ByteGiven(target, pos)
  <2>1. ASSUME target <= UnitsOf(source, Len(source)) PROVE UnitsOf(source, pos) >= target
    BY <1>1, <1>2, <1>6, <2>1 DEF Short
  <2>2. \A p \in BoundariesOf(source) : p < pos => UnitsOf(source, p) < target
    BY <1>1, <1>6 DEF IInv, WalkRight, Before
  <2>3. ASSUME target > UnitsOf(source, Len(source)) PROVE pos >= Len(source)
    <3> DEFINE end == UnitsOf(source, Len(source))
    <3>1. units <= end /\ end \in Nat
      BY <1>1, <1>2, SourceFacts, CountIncreases, CountType
    <3> HIDE DEF end
    <3>2. units < target
      BY <1>1, <2>3, <3>1 DEF end
    <3>3. ~ (pos < Len(source))
      BY <1>6, <1>1, <3>2 DEF Short
    <3> QED BY <1>2, <3>3
  <2> QED BY <1>2, <2>1, <2>2, <2>3 DEF ByteGiven
<1>7. AnswerRight'
  BY <1>1, <1>5, <1>6 DEF AnswerRight, UnitsGiven, ByteGiven, Clamped
<1>8. OriginRight'
  BY <1>1 DEF IInv, OriginRight, UnitsGiven, ByteGiven, Clamped
<1> QED BY <1>3, <1>4, <1>7, <1>8 DEF IInv

LEMMA StutterInv == IInv /\ UNCHANGED vars => IInv'
BY DEF vars, IInv, TypeOK, Here, MarksRight, MarksOrdered, MarksAll, AsciiRight, TotalRight, WalkRight,
       Before, AnswerRight, OriginRight, Scanned, UnitsGiven, ByteGiven, Clamped

LEMMA Inductive == Spec => []IInv
<1>1. IInv /\ [Next]_vars => IInv'
  BY NewlineInv, CharacterInv, BuiltInv, AskInv, AskBackInv, WalkInv, ArriveInv, StutterInv DEF Next
<1> QED BY <1>1, InitInv, PTL DEF Spec

(***************************************************************************)
(* Theorems.                                                               *)
(***************************************************************************)
(* Offsets, marks and answers are naturals; an answer is there or not.     *)
THEOREM TypeCorrect == Spec => []TypeOK
<1>1. IInv => TypeOK
  BY DEF IInv
<1> QED BY <1>1, Inductive, PTL

(* byte_to_utf16 and utf16_to_byte agree with the count, for every text    *)
(* and every offset, also past the end (where the caller clamps the        *)
(* answer) and on the path for ASCII.                                      *)
THEOREM Exact == Spec => []LookupsExact
<1>1. IInv => LookupsExact
  <2> SUFFICES ASSUME IInv, task = "idle", answer # NoOffset
               PROVE  /\ asked = "byte" => answer = UnitsOf(source, Clamped(target))
                      /\ asked = "unit" /\ target <= total =>
                           /\ answer \in BoundariesOf(source)
                           /\ UnitsOf(source, answer) >= target
                           /\ \A p \in BoundariesOf(source) : p < answer => UnitsOf(source, p) < target
                      /\ asked = "unit" /\ target > total => Clamped(answer) = Len(source)
    BY OfSource DEF LookupsExact
  <2>1. total = UnitsOf(source, Len(source))
    BY DEF IInv, TotalRight
  <2>2. asked = "byte" => UnitsGiven(target, answer)
    BY DEF IInv, AnswerRight
  <2>3. asked = "unit" => ByteGiven(target, answer)
    BY DEF IInv, AnswerRight
  <2>4. answer \in Nat /\ Len(source) \in Nat
    BY SourceFacts DEF IInv, TypeOK
  <2>5. asked = "unit" /\ target > total => Clamped(answer) = Len(source)
    BY <2>1, <2>3, <2>4 DEF ByteGiven, Clamped
  <2> QED BY <2>1, <2>2, <2>3, <2>5 DEF UnitsGiven, ByteGiven
<1> QED BY <1>1, Inductive, PTL

(* Translating there and back finds the offset again, where there is one.  *)
THEOREM ThereAndBack == Spec => []RoundTrip
<1>1. IInv => RoundTrip
  <2> SUFFICES ASSUME IInv, task = "idle", answer # NoOffset, origin # NoOffset
               PROVE  /\ asked = "unit" /\ origin \in BoundariesOf(source) => answer = origin
                      /\ asked = "byte" /\ origin <= total =>
                           (answer = origin <=> \E p \in BoundariesOf(source) : UnitsOf(source, p) = origin)
    BY OfSource DEF RoundTrip
  <2>1. /\ source \in Sources /\ Len(source) \in Nat /\ total = UnitsOf(source, Len(source))
        /\ origin \in Nat /\ answer \in Nat /\ target \in Nat
    BY SourceFacts DEF IInv, TypeOK, TotalRight
  <2>2. ASSUME NEW p \in BoundariesOf(source)
        PROVE  p \in 0 .. Len(source) /\ UnitsOf(source, p) \in Nat /\ UnitsOf(source, p) <= total
    BY <2>1, <2>2, SourceFacts, CountGrows, CountType
  <2>3. ASSUME asked = "unit", origin \in BoundariesOf(source) PROVE answer = origin
    <3>1. target = UnitsOf(source, origin) /\ target <= total
      BY <2>1, <2>2, <2>3 DEF IInv, OriginRight, UnitsGiven, Clamped
    <3>2. /\ answer \in BoundariesOf(source) /\ UnitsOf(source, answer) >= target
          /\ \A p \in BoundariesOf(source) : p < answer => UnitsOf(source, p) < target
      BY <2>1, <2>3, <3>1 DEF IInv, AnswerRight, ByteGiven
    <3>3. ~ (origin < answer)
      BY <2>2, <2>3, <3>1, <3>2
    <3>4. ~ (answer < origin)
      <4>1. answer < origin => UnitsOf(source, answer) < UnitsOf(source, origin)
        BY <2>1, <2>2, <2>3, <3>2, CountIncreases
      <4> QED BY <4>1, <2>2, <2>3, <3>1, <3>2
    <3> QED BY <2>1, <3>3, <3>4
  <2>4. ASSUME asked = "byte", origin <= total
        PROVE  answer = origin <=> \E p \in BoundariesOf(source) : UnitsOf(source, p) = origin
    <3>1. /\ target \in BoundariesOf(source) /\ UnitsOf(source, target) >= origin
          /\ \A p \in BoundariesOf(source) : p < target => UnitsOf(source, p) < origin
      BY <2>1, <2>4 DEF IInv, OriginRight, ByteGiven
    <3>2. answer = UnitsOf(source, target)
      BY <2>1, <2>2, <2>4, <3>1 DEF IInv, AnswerRight, UnitsGiven, Clamped
    <3>3. ASSUME NEW p \in BoundariesOf(source), UnitsOf(source, p) = origin PROVE answer = origin
      <4>1. ~ (p < target)
        BY <2>2, <3>1, <3>3
      <4>2. target < p => UnitsOf(source, target) < UnitsOf(source, p)
        BY <2>1, <2>2, <3>1, CountIncreases
      <4>3. target = p
        BY <2>1, <2>2, <3>1, <3>3, <4>1, <4>2
      <4> QED BY <3>2, <3>3, <4>3
    <3> QED BY <3>1, <3>2, <3>3
  <2> QED BY <2>3, <2>4
<1> QED BY <1>1, Inductive, PTL

(* A lookup never walks across a newline: it costs the line, not the text. *)
THEOREM ShortWalks == Spec => WalkStaysInLine
<1>1. IInv /\ [Next]_vars => [task = "walk" /\ pos' > pos => head # "newline"]_vars
  <2> SUFFICES ASSUME IInv, Next, task = "walk", pos' > pos, head = "newline" PROVE FALSE
    OBVIOUS
  <2>1. Walk
    BY DEF Next, Newline, Character, Built, Ask, AskBack, Arrive, IInv, TypeOK
  <2>2. /\ pos < Len(source) /\ IF asked = "byte" THEN pos < target ELSE units < target
        /\ pos \in Nat /\ units \in Nat /\ target \in Nat /\ Len(source) \in Nat
    BY <2>1, SourceFacts DEF Walk, Short, IInv, TypeOK
  <2>3. PICK n \in 1 .. Len(starts) : starts[n].byte = pos + 1
    BY <2>2 DEF IInv, MarksAll, Scanned, head
  <2>4. UnitsOf(source, pos + 1) = units + 1
    <3>1. Width(head) = 1 /\ Units(head) = 1
      BY DEF Width, Units
    <3> QED BY <2>2, <3>1, SourceFacts, CountStep DEF head, IInv, TypeOK, Here
  <2>5. starts[n].unit = units + 1
    BY <2>3, <2>4 DEF IInv, MarksRight
  <2>6. IF asked = "byte" THEN pos + 1 > target ELSE units + 1 > target
    BY <2>2, <2>3, <2>5 DEF IInv, WalkRight
  <2> QED BY <2>2, <2>6
<1> QED BY <1>1, Inductive, PTL DEF Spec, WalkStaysInLine
=============================================================================
